-------------------------- MODULE UnitVerbsProofs --------------------------
(***************************************************************************)
(* Theorems about UnitVerbs, for any set of units and ports: every state   *)
(* is well typed, and a drop-in left behind has a reason, however many     *)
(* verbs are out; and, with one verb out at a time, a unit is adopted only *)
(* when it was checked and starts only with its drop-in read.              *)
(*                                                                         *)
(* None of the three is inductive.  Each depends on what the verb that is  *)
(* out has done so far, which its place in `_ServiceTask._drive` tells:    *)
(* Explained, Carried and Checked are what is true at each place.          *)
(***************************************************************************)
EXTENDS UnitVerbs, TLAPS

\* At most one verb is out: the pool has one thread, so to say.
OneVerb == \A s, t \in Task : s = t

\* A verb that is out has a unit, and so has a question to systemd.
HasUnit ==
  /\ \A t \in Task : tasks[t].pc # "idle" => tasks[t].unit \in Unit
  /\ query.pc = "out" => query.unit \in Unit

\* Places between the write of a drop-in and its removal.
Carrying == {"reload", "ask", "drive", "clear"}

\* Each drop-in is of a verb that is out, or is known to stay.
Explained ==
  \A u \in Unit : dropIn[u] # Off =>
    \/ u \in kept
    \/ \E t \in Task : tasks[t].unit = u /\ tasks[t].pc \in Carrying

\* What is pending is the unit of the verb that is out, which checks it first.
Checked ==
  /\ adopted \in belongs \cup {None}
  /\ \A t \in Task :
       tasks[t].check /\ tasks[t].pc \notin {"idle", "check"}
         => \/ tasks[t].unit \in belongs
            \/ tasks[t].pc = "report" /\ tasks[t].result = "unbound"
  /\ pending # None =>
       \E t \in Task : /\ tasks[t].pc # "idle" /\ tasks[t].check
                       /\ tasks[t].unit = pending

\* The drop-in with the port that was asked for is there, then systemd has it;
\* one that reads another folder has none.
CarriedBy(t) ==
  /\ tasks[t].pc = "reload" => dropIn[tasks[t].unit] = tasks[t].port
  /\ tasks[t].pc = "ask" /\ reads => loaded[tasks[t].unit] = tasks[t].port
  /\ tasks[t].pc = "drive" /\ tasks[t].verb # "stop" =>
       \/ loaded[tasks[t].unit] = tasks[t].port
       \/ ~reads /\ tasks[t].unread

Carried ==
  /\ \A t \in Task : CarriedBy(t)
  /\ ~reads => \A u \in Unit : loaded[u] = Off

\* For any number of verbs; for one verb at a time; and with checks that end.
TInv == TypeOK /\ HasUnit /\ Explained
CInv == TInv /\ Carried
SInv == CInv /\ Checked

USE DEF Verb, Result, ServiceTask, Active, Ended

-----------------------------------------------------------------------------
LEMMA InitTInv == Init => TInv
BY DEF Init, TInv, TypeOK, HasUnit, Explained, NoTask, NoQuery

\* One step of the program is one of these.
LEMMA NextCases == ASSUME [Next]_vars
  PROVE \/ UNCHANGED vars
        \/ ClickStart \/ ClickElsewhere \/ Relists
        \/ \E verb \in {"stop", "restart"} : ClickVerb(verb)
        \/ \E t \in Task : Works(t)
        \/ Watch \/ Polls
        \/ \E u \in Unit : UnitMoves(u)
BY DEF Next

\* A verb that is out gets to another place; it stays what it is.
Moved(t, pc) ==
  /\ tasks' \in [Task -> ServiceTask]
  /\ \A s \in Task : s # t => tasks'[s] = tasks[s]
  /\ tasks'[t].pc = pc
  /\ tasks'[t].unit = tasks[t].unit /\ tasks'[t].verb = tasks[t].verb
  /\ tasks'[t].check = tasks[t].check

LEMMA PastMoves == ASSUME TypeOK, NEW t \in Task, NEW pc \in {"clear", "report"},
                          NEW r \in Result, Past(t, pc, r)
  PROVE Moved(t, pc) /\ tasks'[t].result = r
<1>1. tasks \in [Task -> ServiceTask]
  BY DEF TypeOK
<1> DEFINE past == [tasks[t] EXCEPT !.pc = pc, !.result = r, !.port = Off,
                                    !.unread = FALSE]
<1>2. tasks' = [tasks EXCEPT ![t] = past]
  BY DEF Past
<1>3. past \in ServiceTask
  BY <1>1
<1>4. /\ past.pc = pc /\ past.unit = tasks[t].unit /\ past.verb = tasks[t].verb
      /\ past.check = tasks[t].check /\ past.result = r
  BY <1>1
<1> HIDE DEF past
<1>5. tasks' \in [Task -> ServiceTask] /\ tasks'[t] = past
      /\ \A s \in Task : s # t => tasks'[s] = tasks[s]
  BY ONLY <1>1, <1>2, <1>3, t \in Task
<1> QED BY <1>4, <1>5 DEF Moved

LEMMA EndsMoves == ASSUME TypeOK, NEW t \in Task, NEW r \in Result, Ends(t, r)
  PROVE Moved(t, "report") /\ tasks'[t].result = r
BY PastMoves DEF Ends

LEMMA CleansMoves == ASSUME TypeOK, NEW t \in Task, NEW r \in Result, Cleans(t, r)
  PROVE Moved(t, "clear") /\ tasks'[t].result = r
BY PastMoves DEF Cleans

LEMMA GoesMoves == ASSUME TypeOK, NEW t \in Task,
                          NEW pc \in {"write", "reload", "ask", "drive", "unload", "report"},
                          Goes(t, pc)
  PROVE /\ Moved(t, pc) /\ tasks'[t].result = tasks[t].result
        /\ tasks'[t].port = tasks[t].port
BY DEF Goes, Moved, TypeOK

\* What a new verb looks like: one place of the pool is taken.
LEMMA RunsTakes == ASSUME TypeOK, NEW verb \in Verb, NEW u \in Unit,
                          NEW check \in BOOLEAN, Runs(verb, u, check)
  PROVE \E t \in Task :
          /\ tasks[t].pc = "idle"
          /\ \E pc \in {"check", "drive", "write"} :
               /\ pc = "drive" => verb = "stop"
               /\ check => pc = "check"
               /\ tasks' = [tasks EXCEPT ![t] =
                    [pc |-> pc, verb |-> verb, unit |-> u, check |-> check,
                     port |-> IF verb = "stop" THEN Off ELSE port,
                     unread |-> FALSE, result |-> "none"]]
<1> PICK t \in Task \ Out :
      tasks' = [tasks EXCEPT ![t] =
       [pc |-> IF check THEN "check" ELSE IF verb = "stop" THEN "drive" ELSE "write",
        verb |-> verb, unit |-> u, check |-> check,
        port |-> IF verb = "stop" THEN Off ELSE port,
        unread |-> FALSE, result |-> "none"]]
  BY DEF Runs
<1>1. tasks[t].pc = "idle"
  BY DEF Out
<1>2. CASE check
  BY <1>1, <1>2
<1>3. CASE ~check /\ verb = "stop"
  BY <1>1, <1>3
<1>4. CASE ~check /\ verb # "stop"
  BY <1>1, <1>4
<1> QED BY <1>2, <1>3, <1>4

\* The unit a button drives is a unit.
LEMMA ButtonUnit == ASSUME TypeOK
  PROVE /\ First(Adopted, bound) \in Unit \cup {None}
        /\ HolderUnit \in Unit \cup {None}
BY DEF TypeOK, First, Adopted, HolderUnit, Named

\* A new verb keeps the invariants that hold for any number of verbs.
LEMMA RunsTInv == ASSUME TypeOK, HasUnit, Explained, NEW verb \in Verb,
                         NEW u \in Unit, NEW check \in BOOLEAN,
                         Runs(verb, u, check),
                         UNCHANGED <<systemd, query>>
  PROVE /\ tasks' \in [Task -> ServiceTask]
        /\ HasUnit' /\ Explained'
<1> PICK t \in Task :
          /\ tasks[t].pc = "idle"
          /\ \E pc \in {"check", "drive", "write"} :
               tasks' = [tasks EXCEPT ![t] =
                    [pc |-> pc, verb |-> verb, unit |-> u, check |-> check,
                     port |-> IF verb = "stop" THEN Off ELSE port,
                     unread |-> FALSE, result |-> "none"]]
  BY RunsTakes
<1> PICK pc \in {"check", "drive", "write"} :
               tasks' = [tasks EXCEPT ![t] =
                    [pc |-> pc, verb |-> verb, unit |-> u, check |-> check,
                     port |-> IF verb = "stop" THEN Off ELSE port,
                     unread |-> FALSE, result |-> "none"]]
  OBVIOUS
<1>1. port \in Wanted /\ tasks \in [Task -> ServiceTask]
  BY DEF TypeOK
<1>2. HasUnit'
  BY <1>1 DEF HasUnit
<1>3. ASSUME NEW w \in Unit, dropIn'[w] # Off
      PROVE w \in kept' \/ \E s \in Task : tasks'[s].unit = w /\ tasks'[s].pc \in Carrying
  <2>1. CASE w \in kept
    BY <2>1 DEF systemd
  <2>2. CASE w \notin kept
    <3> PICK s \in Task : tasks[s].unit = w /\ tasks[s].pc \in Carrying
      BY <1>3, <2>2 DEF Explained, systemd
    <3>1. s # t
      BY DEF Carrying
    <3> QED BY <1>1, <3>1
  <2> QED BY <2>1, <2>2
<1>4. Explained'
  BY <1>3 DEF Explained
<1> QED BY <1>1, <1>2, <1>4

\* So does each step of `_ServiceTask`: what is left to show is what becomes of
\* the drop-in of its unit.
LEMMA MovesTInv == ASSUME TInv, NEW t \in Task, NEW pc, Moved(t, pc),
                          tasks[t].pc # "idle",
                          UNCHANGED <<gui, world, query>>, loaded' \in [Unit -> Wanted \cup {Off}],
                          dropIn' \in [Unit -> Wanted \cup {Off}],
                          state' \in [Unit -> Active], kept' \in SUBSET Unit,
                          \A w \in Unit : w # tasks[t].unit => dropIn'[w] = dropIn[w]
                                                   /\ (w \in kept' <=> w \in kept),
                          \/ pc \in Carrying \/ dropIn'[tasks[t].unit] = Off
                          \/ tasks[t].unit \in kept'
                          \/ /\ dropIn' = dropIn /\ kept' = kept
                             /\ tasks[t].pc \notin Carrying
  PROVE TInv'
<1> DEFINE u == tasks[t].unit
<1>1. TypeOK /\ HasUnit /\ Explained /\ u \in Unit
  BY DEF TInv, HasUnit
<1>2. TypeOK'
  BY <1>1 DEF TypeOK, Moved, gui, world
<1>3. HasUnit'
  <2>1. ASSUME NEW s \in Task, tasks'[s].pc # "idle" PROVE tasks'[s].unit \in Unit
    BY <1>1, <2>1 DEF HasUnit, Moved
  <2> QED BY <1>1, <2>1 DEF HasUnit
<1>4. ASSUME NEW w \in Unit, dropIn'[w] # Off
      PROVE w \in kept' \/ \E s \in Task : tasks'[s].unit = w /\ tasks'[s].pc \in Carrying
  <2>1. CASE w = u
    <3>1. CASE pc \in Carrying
      BY <2>1, <3>1 DEF Moved
    <3>2. CASE u \in kept'
      BY <2>1, <3>2
    <3>3. CASE dropIn' = dropIn /\ kept' = kept /\ tasks[t].pc \notin Carrying
      <4>1. w \in kept \/ \E s \in Task : tasks[s].unit = w /\ tasks[s].pc \in Carrying
        BY <1>1, <1>4, <3>3 DEF Explained
      <4> QED BY <3>3, <4>1 DEF Moved
    <3> QED BY <1>4, <2>1, <3>1, <3>2, <3>3
  <2>2. CASE w # u
    <3>1. w \in kept \/ \E s \in Task : tasks[s].unit = w /\ tasks[s].pc \in Carrying
      BY <1>1, <1>4, <2>2 DEF Explained
    <3>2. ASSUME NEW s \in Task, tasks[s].unit = w PROVE tasks'[s] = tasks[s]
      BY <2>2, <3>2 DEF Moved
    <3> QED BY <2>2, <3>1, <3>2
  <2> QED BY <2>1, <2>2
<1>5. Explained'
  BY <1>4 DEF Explained
<1> QED BY <1>2, <1>3, <1>5 DEF TInv

LEMMA WorksTInv == ASSUME TInv, NEW t \in Task, Works(t)
  PROVE TInv'
<1> DEFINE u == tasks[t].unit
<1>0. TypeOK /\ HasUnit /\ Explained /\ (tasks[t].pc # "idle" => u \in Unit)
  BY DEF TInv, HasUnit
<1>a. /\ dropIn \in [Unit -> Wanted \cup {Off}] /\ loaded \in [Unit -> Wanted \cup {Off}]
      /\ kept \in SUBSET Unit /\ state \in [Unit -> Active]
      /\ tasks[t].port \in Wanted \cup {Off}
  BY <1>0 DEF TypeOK
<1> USE DEF At, Aside, Carrying
<1>1. CASE Checks(t)
  <2>1. /\ tasks[t].pc = "check" /\ UNCHANGED <<dropIn, loaded, state, kept, gui, world, query>>
        /\ \/ Goes(t, "drive") \/ Goes(t, "write")
           \/ Ends(t, "unbound") \/ Ends(t, "failed")
    BY <1>1 DEF Checks, Refusals, systemd
  <2>2. \E pc \in {"drive", "write", "report"} : Moved(t, pc)
    BY <1>0, <2>1, GoesMoves, EndsMoves
  <2> QED BY <1>a, <2>1, <2>2, MovesTInv
<1>2. CASE Writes(t)
  <2>1. tasks[t].pc = "write" /\ UNCHANGED <<loaded, state, kept, gui, world, query>>
    BY <1>2 DEF Writes
  <2>2. CASE Goes(t, "reload") /\ dropIn' = [dropIn EXCEPT ![u] = tasks[t].port]
    <3>1. Moved(t, "reload")
      BY <1>0, <2>2, GoesMoves
    <3>2. dropIn' \in [Unit -> Wanted \cup {Off}]
      BY <1>a, <2>2
    <3> QED BY <1>a, <2>1, <2>2, <3>1, <3>2, MovesTInv
  <2>3. CASE Ends(t, "failed") /\ UNCHANGED dropIn
    <3>1. Moved(t, "report")
      BY <1>0, <2>3, EndsMoves
    <3> QED BY <1>a, <2>1, <2>3, <3>1, MovesTInv
  <2> QED BY <1>2, <2>2, <2>3 DEF Writes
<1>b. ASSUME tasks[t].pc # "idle", Ends(t, "failed"), Discards(t),
             loaded' \in [Unit -> Wanted \cup {Off}],
             UNCHANGED <<state, gui, world, query>>
      PROVE TInv'
  <2>1. Moved(t, "report") /\ u \in Unit
    BY <1>0, <1>b, EndsMoves
  <2>2. CASE dropIn' = [dropIn EXCEPT ![u] = Off] /\ kept' = kept \ {u}
    BY <1>a, <1>b, <2>1, <2>2, MovesTInv
  <2>3. CASE dropIn' = dropIn /\ kept' = kept \cup {u}
    BY <1>a, <1>b, <2>1, <2>3, MovesTInv
  <2> QED BY <1>b, <2>2, <2>3 DEF Discards
<1>3. CASE Reloads(t)
  <2>1. tasks[t].pc = "reload" /\ UNCHANGED <<state, gui, world, query>>
    BY <1>3 DEF Reloads
  <2>2. loaded' \in [Unit -> Wanted \cup {Off}]
    BY <1>a, <1>3 DEF Reloads, Loading
  <2>3. CASE Goes(t, "ask") /\ UNCHANGED <<dropIn, kept>>
    <3>1. Moved(t, "ask")
      BY <1>0, <2>3, GoesMoves
    <3> QED BY <1>a, <2>1, <2>2, <2>3, <3>1, MovesTInv
  <2>4. CASE Ends(t, "failed") /\ Discards(t)
    BY <1>b, <2>1, <2>2, <2>4
  <2> QED BY <1>3, <2>3, <2>4 DEF Reloads
<1>4. CASE Asks(t)
  <2>1. tasks[t].pc = "ask" /\ UNCHANGED <<loaded, state, gui, world, query>>
    BY <1>4 DEF Asks
  <2>2. CASE Ends(t, "failed") /\ Discards(t)
    BY <1>a, <1>b, <2>1, <2>2
  <2>3. CASE Goes(t, "drive") /\ UNCHANGED <<dropIn, kept>>
    <3>1. Moved(t, "drive")
      BY <1>0, <2>3, GoesMoves
    <3> QED BY <1>a, <2>1, <2>3, <3>1, MovesTInv
  <2>4. CASE /\ tasks' = [tasks EXCEPT ![t].pc = "drive", ![t].unread = TRUE]
             /\ UNCHANGED <<dropIn, kept>>
    <3>1. Moved(t, "drive")
      <4>1. tasks \in [Task -> ServiceTask]
        BY <1>0 DEF TypeOK
      <4>2. [tasks[t] EXCEPT !.pc = "drive", !.unread = TRUE] \in ServiceTask
        BY <4>1
      <4>3. tasks' = [tasks EXCEPT ![t] = [tasks[t] EXCEPT !.pc = "drive",
                                                          !.unread = TRUE]]
        BY <2>4, <4>1
      <4> QED BY <4>1, <4>2, <4>3 DEF Moved
    <3> QED BY <1>a, <2>1, <2>4, <3>1, MovesTInv
  <2> QED BY <1>4, <2>2, <2>3, <2>4 DEF Asks
<1>5. CASE Drives(t)
  <2>1. tasks[t].pc = "drive" /\ UNCHANGED <<dropIn, loaded, kept, gui, world, query>>
    BY <1>5 DEF Drives
  <2>2. Cleans(t, "ok") \/ Cleans(t, "rejected")
    BY <1>5 DEF Drives
  <2>3. Moved(t, "clear")
    BY <1>0, <2>2, CleansMoves
  <2>4. state' \in [Unit -> Active]
    BY <1>a, <1>5 DEF Drives, Starts
  <2> QED BY <1>a, <2>1, <2>3, <2>4, MovesTInv
<1>6. CASE DriveFails(t)
  <2>1. /\ tasks[t].pc = "drive" /\ Ends(t, "failed")
        /\ kept' = (IF dropIn[u] = Off THEN kept ELSE kept \cup {u})
        /\ UNCHANGED <<dropIn, loaded, state, gui, world, query>>
    BY <1>6 DEF DriveFails
  <2>2. Moved(t, "report") /\ u \in Unit
    BY <1>0, <2>1, EndsMoves
  <2> QED BY <1>a, <2>1, <2>2, MovesTInv
<1>7. CASE Clears(t)
  <2>1. tasks[t].pc = "clear" /\ UNCHANGED <<loaded, state, gui, world, query>>
    BY <1>7 DEF Clears
  <2>2. u \in Unit
    BY <1>0, <2>1
  <2>3. CASE dropIn[u] = Off /\ Goes(t, "report") /\ UNCHANGED <<dropIn, kept>>
    <3>1. Moved(t, "report")
      BY <1>0, <2>3, GoesMoves
    <3> QED BY <1>a, <2>1, <2>3, <3>1, MovesTInv
  <2>4. CASE /\ Goes(t, "unload") /\ dropIn' = [dropIn EXCEPT ![u] = Off]
             /\ kept' = kept \ {u}
    <3>1. Moved(t, "unload")
      BY <1>0, <2>4, GoesMoves
    <3> QED BY <1>a, <2>1, <2>2, <2>4, <3>1, MovesTInv
  <2>5. CASE Goes(t, "report") /\ kept' = kept \cup {u} /\ UNCHANGED dropIn
    <3>1. Moved(t, "report")
      BY <1>0, <2>5, GoesMoves
    <3> QED BY <1>a, <2>1, <2>2, <2>5, <3>1, MovesTInv
  <2> QED BY <1>7, <2>3, <2>4, <2>5 DEF Clears
<1>8. CASE Unloads(t)
  <2>1. /\ tasks[t].pc = "unload" /\ Goes(t, "report")
        /\ UNCHANGED <<dropIn, kept, state, gui, world, query>>
    BY <1>8 DEF Unloads
  <2>2. loaded' \in [Unit -> Wanted \cup {Off}]
    BY <1>a, <1>8 DEF Unloads, Loading
  <2>3. Moved(t, "report")
    BY <1>0, <2>1, GoesMoves
  <2> QED BY <1>a, <2>1, <2>2, <2>3, MovesTInv
<1>9. CASE OnServiceDone(t)
  BY <1>0, <1>9 DEF TInv, TypeOK, HasUnit, OnServiceDone, NoTask, systemd, world, Explained
<1> QED BY <1>1, <1>2, <1>3, <1>4, <1>5, <1>6, <1>7, <1>8, <1>9 DEF Works

\* And each other step: it touches no drop-in and no verb that is out.
LEMMA TInvStep == ASSUME TInv, [Next]_vars PROVE TInv'
<1> USE DEF TInv, world
<1>1. CASE UNCHANGED vars
  BY <1>1 DEF vars, gui, systemd, world, TypeOK, HasUnit, Explained
<1>2. CASE ClickStart
  <2> DEFINE u == First(Adopted, bound)
  <2>1. u \in Unit /\ Runs("start", u, u # bound)
    BY <1>2, ButtonUnit DEF ClickStart
  <2>2. /\ overlay' = "starting"
        /\ UNCHANGED <<bound, port, adopted, pending, seen, watched, systemd,
                       world, query>>
    BY <1>2 DEF ClickStart
  <2> HIDE DEF u
  <2> QED BY <2>1, <2>2, RunsTInv DEF TypeOK, systemd
<1>3. ASSUME NEW verb \in {"stop", "restart"}, ClickVerb(verb) PROVE TInv'
  <2>1. HolderUnit \in Unit /\ Runs(verb, HolderUnit, TRUE)
    BY <1>3, ButtonUnit DEF ClickVerb
  <2>2. /\ overlay' \in {"starting", "stopping"}
        /\ pending' = HolderUnit /\ adopted' = adopted
        /\ UNCHANGED <<bound, port, seen, watched, systemd, world, query>>
    BY <1>3 DEF ClickVerb, Holds
  <2>3. /\ tasks' \in [Task -> ServiceTask]
        /\ HasUnit' /\ Explained'
    <3>1. verb \in Verb /\ TRUE \in BOOLEAN /\ UNCHANGED <<systemd, query>>
      BY <2>2
    <3> QED BY ONLY TInv, <2>1, <3>1, RunsTInv DEF TInv
  <2> QED BY <2>1, <2>2, <2>3 DEF TypeOK, systemd
<1>4. CASE ClickElsewhere
  BY <1>4 DEF ClickElsewhere, Stays, systemd, TypeOK, HasUnit, Explained
<1>5. CASE Relists
  BY <1>5 DEF Relists, Stays, systemd, TypeOK, HasUnit, Explained
<1>6. ASSUME NEW t \in Task, Works(t) PROVE TInv'
  BY <1>6, WorksTInv
<1>7. CASE Watch
  <2>1. CASE ChecksWatched
    <3>1. /\ watched \in Unit
          /\ UNCHANGED <<bound, port, adopted, pending, overlay, seen, dropIn,
                         loaded, state, kept, world, tasks>>
      BY <2>1 DEF ChecksWatched, systemd, TypeOK
    <3>2. CASE watched' = None /\ query' = query
      BY <3>1, <3>2 DEF TypeOK, HasUnit, Explained
    <3>3. CASE /\ watched' = watched
               /\ query' = [NoQuery EXCEPT !.pc = "out", !.unit = watched]
      <4>1. query' = [pc |-> "out", unit |-> watched, state |-> "unknown"]
        BY <3>3 DEF NoQuery
      <4> QED BY <3>1, <3>3, <4>1 DEF TypeOK, HasUnit, Explained
    <3> QED BY <2>1, <3>2, <3>3 DEF ChecksWatched, AsksUnit
  <2>2. CASE ReadsState
    <3>1. state[query.unit] \in Active
      BY <2>2 DEF ReadsState, TypeOK, HasUnit
    <3> PICK s \in {state[query.unit], "unknown"} :
               query' = [query EXCEPT !.pc = "read", !.state = s]
      BY <2>2 DEF ReadsState
    <3>2. query' \in [pc : {"idle", "out", "read"}, unit : Unit \cup {None},
                state : Active \cup {"unknown"}]
      BY <3>1 DEF TypeOK
    <3>3. query'.pc # "out"
      BY DEF TypeOK
    <3> QED
      BY <2>2, <3>2, <3>3
         DEF ReadsState, gui, systemd, TypeOK, HasUnit, Explained
  <2>3. CASE OnUnitState
    BY <2>3 DEF OnUnitState, NoQuery, systemd, TypeOK, HasUnit, Explained
  <2> QED BY <1>7, <2>1, <2>2, <2>3 DEF Watch
<1>8. CASE Polls
  BY <1>8 DEF Polls, Stays, systemd, TypeOK, HasUnit, Explained
<1>9. ASSUME NEW u \in Unit, UnitMoves(u) PROVE TInv'
  BY <1>9 DEF UnitMoves, Ended, Aside, gui, TypeOK, HasUnit, Explained
<1> QED BY <1>1, <1>2, <1>3, <1>4, <1>5, <1>6, <1>7, <1>8, <1>9, NextCases

\* Every reachable state is well typed.
THEOREM TypeCorrect == Spec => []TypeOK
<1>1. Init => TInv
  BY InitTInv
<1>2. TInv /\ [Next]_vars => TInv'
  BY TInvStep
<1>3. TInv => TypeOK
  BY DEF TInv
<1> QED BY <1>1, <1>2, <1>3, PTL DEF Spec

\* Whatever verbs are out, fail, time out and overlap on a unit, and whatever
\* the unit does meanwhile: once none is out, a drop-in that is left is one that
\* a start may still read or that could not be removed.
THEOREM LeftWithReasonAlways == Spec => []LeftWithReason
<1>1. Init => TInv
  BY InitTInv
<1>2. TInv /\ [Next]_vars => TInv'
  BY TInvStep
<1>3. TInv => LeftWithReason
  BY DEF TInv, Explained, LeftWithReason, Out, Carrying
<1> QED BY <1>1, <1>2, <1>3, PTL DEF Spec

-----------------------------------------------------------------------------
(* One verb at a time                                                      *)

LEMMA InitSInv == Init => SInv
BY InitTInv DEF Init, SInv, CInv, Checked, Carried, CarriedBy, NoTask

\* A click finds nothing out and so nothing pending, and its verb starts at the
\* beginning.
LEMMA RunsKeeps == ASSUME OneVerb, TypeOK, NEW verb \in Verb,
                          NEW u \in Unit, NEW check \in BOOLEAN,
                          Runs(verb, u, check), UNCHANGED <<adopted, systemd, world>>,
                          pending' = pending \/ (check /\ pending' = u)
  PROVE (Carried => Carried') /\ (Checked => Checked')
<1> PICK t \in Task :
          /\ tasks[t].pc = "idle"
          /\ \E pc \in {"check", "drive", "write"} :
               /\ pc = "drive" => verb = "stop"
               /\ check => pc = "check"
               /\ tasks' = [tasks EXCEPT ![t] =
                    [pc |-> pc, verb |-> verb, unit |-> u, check |-> check,
                     port |-> IF verb = "stop" THEN Off ELSE port,
                     unread |-> FALSE, result |-> "none"]]
  BY RunsTakes
<1> PICK pc \in {"check", "drive", "write"} :
               /\ pc = "drive" => verb = "stop"
               /\ check => pc = "check"
               /\ tasks' = [tasks EXCEPT ![t] =
                    [pc |-> pc, verb |-> verb, unit |-> u, check |-> check,
                     port |-> IF verb = "stop" THEN Off ELSE port,
                     unread |-> FALSE, result |-> "none"]]
  OBVIOUS
<1>1. Checked => pending = None
  BY DEF OneVerb, Checked
<1>2. /\ tasks'[t].pc = pc /\ tasks'[t].verb = verb /\ tasks'[t].unit = u
      /\ tasks'[t].check = check
      /\ \A s \in Task : s = t
  BY DEF OneVerb, TypeOK
<1>3. Checked => Checked'
  BY <1>1, <1>2 DEF Checked, world
<1>4. Carried => Carried'
  BY <1>2 DEF Carried, CarriedBy, systemd, world
<1> QED BY <1>3, <1>4

\* Each step of the verb that is out brings it to a place where what is true
\* there has just been made true.
LEMMA WorksCarried == ASSUME OneVerb, CInv, NEW t \in Task, Works(t)
  PROVE Carried'
<1> DEFINE u == tasks[t].unit
<1>0. TypeOK /\ (tasks[t].pc # "idle" => u \in Unit) /\ (\A s \in Task : s = t)
  BY DEF OneVerb, CInv, TInv, HasUnit
<1>a. CarriedBy(t) /\ (~reads => \A w \in Unit : loaded[w] = Off)
  BY DEF CInv, Carried
<1>b. /\ dropIn \in [Unit -> Wanted \cup {Off}] /\ loaded \in [Unit -> Wanted \cup {Off}]
      /\ tasks \in [Task -> ServiceTask]
  BY <1>0 DEF TypeOK
<1>d. ASSUME reads' = reads, loaded' = loaded \/ Loading
      PROVE ~reads' => \A w \in Unit : loaded'[w] = Off
  BY <1>a, <1>d DEF Loading
<1>e. reads' = reads /\ (loaded' = loaded \/ Loading)
  <2> USE DEF Aside, world
  <2>1. CASE Checks(t) \/ OnServiceDone(t)
    BY <2>1 DEF Checks, OnServiceDone, systemd
  <2>2. CASE Writes(t) \/ Asks(t) \/ Drives(t) \/ DriveFails(t) \/ Clears(t)
    BY <2>2 DEF Writes, Asks, Drives, DriveFails, Clears
  <2>3. CASE Reloads(t) \/ Unloads(t)
    BY <2>3 DEF Reloads, Unloads
  <2> QED BY <2>1, <2>2, <2>3 DEF Works
<1>c. SUFFICES CarriedBy(t)'
  BY <1>0, <1>d, <1>e DEF Carried
<1>f. ASSUME tasks'[t].pc \notin {"reload", "ask", "drive"} PROVE CarriedBy(t)'
  BY <1>f DEF CarriedBy
<1>g. ASSUME NEW r \in Result, Ends(t, r) PROVE CarriedBy(t)'
  BY <1>0, <1>f, <1>g, EndsMoves DEF Moved
<1> USE DEF At
<1>1. CASE Checks(t)
  <2>1. CASE \E r \in Refusals : Ends(t, r)
    BY <1>g, <2>1 DEF Refusals
  <2>2. CASE Goes(t, IF tasks[t].verb = "stop" THEN "drive" ELSE "write")
    <3>1. tasks'[t].verb = tasks[t].verb
          /\ tasks'[t].pc = IF tasks[t].verb = "stop" THEN "drive" ELSE "write"
      BY <1>b, <2>2 DEF Goes
    <3> QED BY <3>1 DEF CarriedBy
  <2> QED BY <1>1, <2>1, <2>2 DEF Checks
<1>2. CASE Writes(t)
  <2>1. CASE Goes(t, "reload") /\ dropIn' = [dropIn EXCEPT ![u] = tasks[t].port]
    <3>1. u \in Unit
      BY <1>0, <1>2 DEF Writes
    <3>2. tasks'[t].pc = "reload" /\ tasks'[t].unit = u /\ tasks'[t].port = tasks[t].port
      BY <1>0, <2>1, GoesMoves DEF Moved
    <3> QED BY <1>b, <2>1, <3>1, <3>2 DEF CarriedBy
  <2> QED BY <1>2, <1>g, <2>1 DEF Writes
<1>3. CASE Reloads(t)
  <2>1. CASE Goes(t, "ask") /\ Loading
    <3>1. tasks[t].pc = "reload" /\ reads' = reads
      BY <1>3, <1>e DEF Reloads
    <3>2. tasks'[t].pc = "ask" /\ tasks'[t].unit = u /\ tasks'[t].port = tasks[t].port
      BY <1>0, <2>1, GoesMoves DEF Moved
    <3> QED BY <1>a, <2>1, <3>1, <3>2 DEF CarriedBy, Loading
  <2> QED BY <1>3, <1>g, <2>1 DEF Reloads
<1>4. CASE Asks(t)
  <2>1. tasks[t].pc = "ask" /\ UNCHANGED <<loaded, reads>> /\ u \in Unit
    BY <1>0, <1>4 DEF Asks, Aside, world
  <2>2. CASE Seen(t) /\ Goes(t, "drive")
    <3>1. tasks'[t].pc = "drive" /\ tasks'[t].unit = u /\ tasks'[t].port = tasks[t].port
      BY <1>0, <2>2, GoesMoves DEF Moved
    <3>2. reads
      BY <1>a, <2>1, <2>2 DEF Seen
    <3> QED BY <1>a, <2>1, <3>1, <3>2 DEF CarriedBy
  <2>3. CASE tasks' = [tasks EXCEPT ![t].pc = "drive", ![t].unread = TRUE]
    <3>1. /\ tasks'[t].pc = "drive" /\ tasks'[t].unit = u
          /\ tasks'[t].port = tasks[t].port /\ tasks'[t].unread = TRUE
      BY <1>b, <2>3
    <3> QED BY <1>a, <2>1, <3>1 DEF CarriedBy
  <2> QED BY <1>4, <1>g, <2>2, <2>3 DEF Asks
<1>5. CASE Drives(t)
  <2>1. tasks'[t].pc = "clear"
    BY <1>0, <1>5, CleansMoves DEF Drives, Moved
  <2> QED BY <1>f, <2>1
<1>6. CASE DriveFails(t)
  BY <1>6, <1>g DEF DriveFails
<1>7. CASE Clears(t) \/ Unloads(t)
  <2>1. tasks'[t].pc \in {"report", "unload"}
    BY <1>0, <1>7, GoesMoves DEF Clears, Unloads, Moved
  <2> QED BY <1>f, <2>1
<1>8. CASE OnServiceDone(t)
  <2>1. tasks'[t].pc = "idle"
    BY <1>b, <1>8 DEF OnServiceDone, NoTask
  <2> QED BY <1>f, <2>1
<1> QED BY <1>1, <1>2, <1>3, <1>4, <1>5, <1>6, <1>7, <1>8 DEF Works

LEMMA CInvStep == ASSUME OneVerb, CInv, [Next]_vars PROVE CInv'
<1>0. TInv' /\ TInv /\ TypeOK /\ Carried
  BY TInvStep DEF CInv, TInv
<1> USE DEF CInv
<1>1. CASE UNCHANGED vars
  BY <1>0, <1>1 DEF vars, gui, systemd, world, Carried, CarriedBy
<1>2. CASE ClickStart
  <2> DEFINE u == First(Adopted, bound)
  <2>1. u \in Unit /\ Runs("start", u, u # bound)
    BY <1>0, <1>2, ButtonUnit DEF ClickStart
  <2>2. UNCHANGED <<pending, adopted, systemd, world>>
    BY <1>2 DEF ClickStart
  <2> HIDE DEF u
  <2> QED BY <1>0, <2>1, <2>2, RunsKeeps
<1>3. ASSUME NEW verb \in {"stop", "restart"}, ClickVerb(verb) PROVE CInv'
  <2>1. HolderUnit \in Unit /\ Runs(verb, HolderUnit, TRUE)
    BY <1>0, <1>3, ButtonUnit DEF ClickVerb
  <2>2. /\ pending' = HolderUnit
        /\ UNCHANGED <<adopted, systemd, world>>
    BY <1>3 DEF ClickVerb, Holds
  <2>3. verb \in Verb /\ TRUE \in BOOLEAN
    OBVIOUS
  <2>4. Carried'
    BY ONLY OneVerb, <1>0, <2>1, <2>2, <2>3, RunsKeeps
  <2> QED BY <1>0, <2>4
<1>4. CASE ClickElsewhere \/ Relists \/ Polls
  BY <1>0, <1>4 DEF ClickElsewhere, Relists, Polls, Stays, systemd, world, Carried,
     CarriedBy
<1>5. ASSUME NEW t \in Task, Works(t) PROVE CInv'
  BY <1>0, <1>5, WorksCarried
<1>6. CASE Watch
  BY <1>0, <1>6 DEF Watch, ChecksWatched, ReadsState, OnUnitState,
     systemd, world, Carried, CarriedBy
<1>7. ASSUME NEW u \in Unit, UnitMoves(u) PROVE CInv'
  BY <1>0, <1>7 DEF UnitMoves, Aside, world, Carried, CarriedBy
<1> QED BY <1>1, <1>2, <1>3, <1>4, <1>5, <1>6, <1>7, NextCases

\* A check that passed or refused: the verb goes on for a unit that belongs to
\* the project only.
LEMMA WorksChecked == ASSUME OneVerb, Hazard = {}, SInv, NEW t \in Task, Works(t)
  PROVE Checked'
<1>0. TypeOK /\ Checked /\ (\A s \in Task : s = t)
  BY DEF OneVerb, SInv, CInv, TInv
<1>a. tasks \in [Task -> ServiceTask]
  BY <1>0 DEF TypeOK
<1>b. ASSUME UNCHANGED <<gui, world>>, NEW pc, pc # "idle", Moved(t, pc),
             tasks[t].pc # "idle",
             \/ tasks[t].pc \notin {"check", "report"}
             \/ tasks[t].unit \in belongs
             \/ pc = "report" /\ tasks'[t].result = "unbound"
      PROVE Checked'
  BY <1>0, <1>b DEF Checked, Moved, gui, world
<1>c. ASSUME UNCHANGED <<gui, world>>, Ends(t, "failed"),
             tasks[t].pc \notin {"idle", "check", "report"}
      PROVE Checked'
  BY <1>0, <1>b, <1>c, EndsMoves
<1>d. ASSUME UNCHANGED <<gui, world>>, tasks[t].pc \notin {"idle", "check", "report"},
             NEW pc \in {"reload", "ask", "drive", "unload", "report"}, Goes(t, pc)
      PROVE Checked'
  BY <1>0, <1>b, <1>d, GoesMoves
<1> USE DEF At, Aside
<1>1. CASE Checks(t)
  <2>1. CASE Ends(t, "unbound")
    <3>1. Moved(t, "report") /\ tasks'[t].result = "unbound"
      BY <1>0, <2>1, EndsMoves
    <3> QED BY <1>1, <1>b, <3>1 DEF Checks
  <2>2. CASE /\ tasks[t].unit \in belongs
             /\ Goes(t, IF tasks[t].verb = "stop" THEN "drive" ELSE "write")
    <3>1. Moved(t, "drive") \/ Moved(t, "write")
      BY <1>0, <2>2, GoesMoves
    <3> QED BY <1>1, <1>b, <2>2, <3>1 DEF Checks
  <2> QED BY <1>1, <2>1, <2>2 DEF Checks, Belongs, Refusals
<1>2. CASE Writes(t) \/ Reloads(t)
  BY <1>2, <1>c, <1>d DEF Writes, Reloads
<1>3. CASE Asks(t)
  <2>1. CASE tasks' = [tasks EXCEPT ![t].pc = "drive", ![t].unread = TRUE]
    <3>1. Moved(t, "drive")
      <4>1. [tasks[t] EXCEPT !.pc = "drive", !.unread = TRUE] \in ServiceTask
        BY <1>a
      <4>2. tasks' = [tasks EXCEPT ![t] = [tasks[t] EXCEPT !.pc = "drive",
                                                          !.unread = TRUE]]
        BY <2>1, <1>a
      <4> QED BY <1>a, <4>1, <4>2 DEF Moved
    <3> QED BY <1>3, <1>b, <3>1 DEF Asks
  <2> QED BY <1>3, <1>c, <1>d, <2>1 DEF Asks
<1>4. CASE Drives(t)
  <2>1. Moved(t, "clear")
    BY <1>0, <1>4, CleansMoves DEF Drives
  <2> QED BY <1>4, <1>b, <2>1 DEF Drives
<1>5. CASE DriveFails(t)
  BY <1>5, <1>c DEF DriveFails
<1>6. CASE Clears(t) \/ Unloads(t)
  BY <1>6, <1>d DEF Clears, Unloads
<1>7. CASE OnServiceDone(t)
  <2>1. /\ tasks[t].pc = "report" /\ tasks' = [tasks EXCEPT ![t] = NoTask]
        /\ pending' = None /\ belongs' = belongs
    BY <1>7 DEF OnServiceDone, world
  <2>2. adopted' \in belongs \cup {None}
    <3>1. CASE tasks[t].result = "unbound"
      BY <1>0, <1>7, <3>1 DEF OnServiceDone, Checked
    <3>2. CASE tasks[t].result # "unbound"
      <4>1. pending # None => pending \in belongs
        BY <1>0, <2>1, <3>2 DEF Checked
      <4> QED BY <1>0, <1>7, <3>2, <4>1 DEF OnServiceDone, Checked
    <3> QED BY <3>1, <3>2
  <2>3. tasks'[t].pc = "idle"
    BY <1>a, <2>1 DEF NoTask
  <2> QED BY <1>0, <2>1, <2>2, <2>3 DEF Checked
<1> QED BY <1>1, <1>2, <1>3, <1>4, <1>5, <1>6, <1>7 DEF Works

LEMMA SInvStep == ASSUME OneVerb, Hazard = {}, SInv, [Next]_vars PROVE SInv'
<1>0. CInv' /\ CInv /\ TypeOK /\ Checked
  BY CInvStep DEF SInv, CInv, TInv
<1> USE DEF SInv
<1>1. CASE UNCHANGED vars
  BY <1>0, <1>1 DEF vars, gui, world, Checked
<1>2. CASE ClickStart
  <2> DEFINE u == First(Adopted, bound)
  <2>1. u \in Unit /\ Runs("start", u, u # bound)
    BY <1>0, <1>2, ButtonUnit DEF ClickStart
  <2>2. UNCHANGED <<pending, adopted, systemd, world>>
    BY <1>2 DEF ClickStart
  <2> HIDE DEF u
  <2> QED BY <1>0, <2>1, <2>2, RunsKeeps
<1>3. ASSUME NEW verb \in {"stop", "restart"}, ClickVerb(verb) PROVE SInv'
  <2>1. HolderUnit \in Unit /\ Runs(verb, HolderUnit, TRUE)
    BY <1>0, <1>3, ButtonUnit DEF ClickVerb
  <2>2. /\ pending' = HolderUnit
        /\ UNCHANGED <<adopted, systemd, world>>
    BY <1>3 DEF ClickVerb, Holds
  <2>3. verb \in Verb /\ TRUE \in BOOLEAN
    OBVIOUS
  <2>4. Checked'
    BY ONLY OneVerb, <1>0, <2>1, <2>2, <2>3, RunsKeeps
  <2> QED BY <1>0, <2>4
<1>4. CASE ClickElsewhere \/ Relists \/ Polls
  BY <1>0, <1>4 DEF ClickElsewhere, Relists, Polls, Stays, world, Checked
<1>5. ASSUME NEW t \in Task, Works(t) PROVE SInv'
  BY <1>0, <1>5, WorksChecked
<1>6. CASE Watch
  BY <1>0, <1>6 DEF Watch, ChecksWatched, ReadsState, OnUnitState, gui, world, Checked
<1>7. ASSUME NEW u \in Unit, UnitMoves(u) PROVE SInv'
  BY <1>0, <1>7 DEF UnitMoves, Aside, gui, world, Checked
<1> QED BY <1>1, <1>2, <1>3, <1>4, <1>5, <1>6, <1>7, NextCases

\* One verb at a time, and no check that ends in an exception: a unit counts as
\* the project's own only when ADR-0003's rule holds of it, whatever was pending
\* when the verb reported (`_on_service_done`).
THEOREM AdoptedCheckedAlways == ASSUME OneVerb, Hazard = {}
                                PROVE Spec => []AdoptedChecked
<1>1. Init => SInv
  BY InitSInv
<1>2. SInv /\ [Next]_vars => SInv'
  BY SInvStep
<1>3. SInv => AdoptedChecked
  BY DEF SInv, Checked, AdoptedChecked
<1> QED BY <1>1, <1>2, <1>3, PTL DEF Spec

\* One verb at a time: a unit that this application starts is started by a
\* systemd that has read the drop-in with its port, unless systemd reads another
\* folder and could not be asked (`set_drop_in`, `drop_in_seen`).
THEOREM StartsOnItsPortAlways == ASSUME OneVerb PROVE Spec => StartsOnItsPort
<1> DEFINE Step == \A t \in Task :
       (At(t, "drive") /\ StartsUnit(t) /\ tasks'[t].result = "ok")
         => \/ loaded[tasks[t].unit] = tasks[t].port
            \/ ~reads /\ tasks[t].unread
<1>1. Init => CInv
  BY InitSInv DEF SInv
<1>2. CInv /\ [Next]_vars => CInv'
  BY CInvStep
<1>3. CInv => Step
  BY DEF CInv, Carried, CarriedBy, At, StartsUnit
<1>4. CInv /\ [Next]_vars => [Step]_vars
  BY <1>3
<1> QED BY <1>1, <1>2, <1>4, PTL DEF Spec, StartsOnItsPort
=============================================================================
