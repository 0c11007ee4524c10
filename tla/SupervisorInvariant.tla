------------------------ MODULE SupervisorInvariant ------------------------
(* The inductive invariants behind the theorems of SupervisorProofs, apart  *)
(* from the proofs so that TLC can check them too.                          *)
EXTENDS Supervisor

-----------------------------------------------------------------------------
(* What makes TypeOK inductive: a call past its first step has something    *)
(* to work on, and what it works on is a leader some start() spawned.       *)

CallsBound ==
  /\ \A c \in Starter :
       /\ starts[c].pc # "idle" => starts[c].project \in Project
       /\ starts[c].pc \notin {"idle", "reserved"} => starts[c].child \in Proc
  /\ \A w \in Worker :
       stops[w].pc # "idle" => /\ stops[w].key \in Project
                               /\ stops[w].managed \in Proc
  /\ upkeep.pc \in {"listed", "popped", "forgotten", "copying"} =>
       /\ upkeep.cur \in Project
       /\ upkeep.snap[upkeep.cur] \in Proc
  /\ upkeep.pc = "copying" => upkeep.dup \in Fd

\* A leader belongs to the project it is held for.
Owned ==
  /\ \A p \in Project : processes[p] \in Proc => owner[processes[p]] = p
  /\ \A c \in Starter : starts[c].pc \notin {"idle", "reserved"} =>
                          owner[starts[c].child] = starts[c].project
  /\ \A w \in Worker : stops[w].pc # "idle" =>
                         owner[stops[w].managed] = stops[w].key
  /\ \A p \in Project : upkeep.snap[p] \in Proc => owner[upkeep.snap[p]] = p
  /\ \A g \in closing.todo \cup lateReap : owner[g] \in Project
  /\ \A g \in Proc : verdict[g] # "none" => owner[g] \in Project

\* A leader was born, leads its own group and was given a log.
Led ==
  \A g \in Proc : owner[g] \in Project => /\ life[g] # "unborn"
                                          /\ group[g] = g
                                          /\ logFd[g] \in Fd

Typed == TypeOK /\ CallsBound /\ Owned /\ Led

-----------------------------------------------------------------------------
(* With no failure before the first signal, a call's reservation lasts as   *)
(* long as the call, and a leader has one holder.                           *)

NoFirstScanError == "first_scan_error" \notin Hazard

StartsReserved ==
  /\ \A c \in Starter : starts[c].pc # "idle" => starts[c].project \in starting
  /\ \A c, d \in Starter :
       (/\ starts[c].pc # "idle" /\ starts[d].pc # "idle"
        /\ starts[c].project = starts[d].project) => c = d

\* Until it has inserted the child, a start has the project for itself.
StartsAlone ==
  \A c \in Starter : starts[c].pc \in {"reserved", "spawned"} =>
                       /\ processes[starts[c].project] = None
                       /\ starts[c].project \notin stopping

StopsAlone ==
  /\ \A p \in stopping : processes[p] = None
  /\ \A w, v \in Worker :
       (/\ stops[w].pc # "idle" /\ stops[v].pc # "idle"
        /\ stops[w].key = stops[v].key) => w = v

\* close() waited for the calls before it let go of the entries.
QuitAlone ==
  /\ closing.pc # "open" => \A c \in Starter : starts[c].pc = "idle"
  /\ closing.pc = "releasing" => /\ \A w \in Worker : stops[w].pc = "idle"
                                 /\ \A p \in Project : processes[p] = None
  /\ closing.pc # "releasing" => closing.todo = {}

\* What reap_exited popped nobody else holds.
ReapAlone ==
  \A g \in Proc : ReapHolds(g) =>
    /\ \A p \in Project : processes[p] # g
    /\ \A c \in Starter : ~StartHolds(c, g)
    /\ \A w \in Worker : ~StopHolds(w, g)
    /\ g \notin closing.todo

Alone == StartsReserved /\ StopReserved /\ StartsAlone /\ StopsAlone
           /\ QuitAlone /\ ReapAlone

\* A held leader is not collected, and nobody waits for it already.
HeldNotCollected ==
  \A g \in Proc : Holds(g) => /\ life[g] \in {"live", "zombie"}
                              /\ g \notin lateReap

\* The rotation's duplicate is nobody's log descriptor.
DupApart ==
  upkeep.pc = "copying" => \A g \in Proc : Holds(g) => logFd[g] # upkeep.dup

Held == HeldNotCollected /\ DescriptorsOurs /\ DupApart /\ NoDescriptorLeak

-----------------------------------------------------------------------------
(* Where CleanStopMeansGone comes from, when no process forks between a     *)
(* listing of /proc and the look at what it listed.                         *)

NoForkInScan == "fork_in_scan" \notin Hazard

\* The last listing saw the whole group, and an empty group stays empty.
Gone ==
  /\ \A w \in Worker :
       /\ stops[w].pc = "lastlisted" =>
            LiveMembers(stops[w].managed) \subseteq stops[w].seen
       /\ stops[w].result = "clean" =>
            stops[w].pc # "idle" /\ LiveMembers(stops[w].managed) = {}
  /\ CleanStopMeansGone

-----------------------------------------------------------------------------
(* Where OneServer and Reachable come from: when every enumeration answers  *)
(* and no process forks where a stop cannot see it any more, each group     *)
(* that still runs is held, or is named among the stragglers of its project.*)

SeesAll == {"fork_in_scan", "fork_after_stop", "first_scan_error",
            "later_scan_error"} \cap Hazard = {}

\* A stop that has the group and has not yet named what it left.
BeingStopped(g) ==
  \E w \in Worker : /\ stops[w].pc \in {"popped", "listed", "termed",
                                        "relisted", "killed", "lastlisted"}
                    /\ stops[w].managed = g

\* A stop of g has named what it left.
Ended(g) ==
  \/ verdict[g] # "none"
  \/ \E w \in Worker : /\ stops[w].pc \in {"reaping", "releasing"}
                       /\ stops[w].managed = g

StopsTold ==
  \A w \in Worker : /\ stops[w].pc \in {"reaping", "releasing"} =>
                         stops[w].result # "none"
                    /\ stops[w].pc = "lastlisted" =>
                         \A q \in stops[w].seen : /\ group[q] = stops[w].managed
                                                  /\ life[q] # "unborn"

\* reap_exited saw the whole group it is about to judge.
ReapSees ==
  upkeep.pc = "listed" =>
    LiveMembers(upkeep.snap[upkeep.cur]) \subseteq upkeep.seen

Placed ==
  \A g \in Proc :
    (/\ owner[g] # None
     /\ LiveMembers(g) # {}
     /\ closing.pc # "releasing") =>
         \/ processes[owner[g]] = g
         \/ \E c \in Starter : StartHolds(c, g)
         \/ BeingStopped(g)
         \/ Ended(g) /\ LiveMembers(g) \subseteq stragglers[owner[g]]

\* A start is let in when nothing of the project runs, and nothing comes back.
StartsFresh ==
  \A c \in Starter : starts[c].pc = "reserved" =>
    \A g \in Proc : owner[g] = starts[c].project => LiveMembers(g) = {}

\* So beside a child or an entry nothing of the project runs.
ServedAlone ==
  /\ \A c \in Starter : starts[c].pc = "spawned" =>
       \A g \in Proc : owner[g] = starts[c].project /\ g # starts[c].child =>
                         LiveMembers(g) = {}
  /\ \A p \in Project : processes[p] # None =>
       \A g \in Proc : owner[g] = p /\ g # processes[p] => LiveMembers(g) = {}

Traced == StopsTold /\ ReapSees /\ Placed /\ StartsFresh /\ OneServer
=============================================================================
