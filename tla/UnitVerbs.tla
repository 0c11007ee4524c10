----------------------------- MODULE UnitVerbs -----------------------------
(***************************************************************************)
(* A project that systemd runs: the verbs of `ProjectController` on its    *)
(* unit and the drop-in of `service.py` around them.  `_ServiceTask` runs  *)
(* on a pool of two threads, so its steps interleave with the buttons, the *)
(* polls, the unit and a second verb.  One project; `elsewhere` is the one *)
(* overlay of the window standing on another project.                      *)
(***************************************************************************)
EXTENDS FiniteSets

CONSTANTS
  Unit,    \* systemd user units
  Wanted,  \* the ports the project may be given; None among them is no port
  Task,    \* the verbs that can be out at once
  None,
  Off,     \* no drop-in
  Unnamed, \* a holder the kernel does not name
  Hazard   \* "check_raises": the check of a binding ends in an exception

ASSUME Distinct ==
  /\ Cardinality({None, Off, Unnamed}) = 3
  /\ {None, Off, Unnamed} \cap Unit = {}
  /\ Off \notin Wanted
  /\ Hazard \subseteq {"check_raises"}

VARIABLES
  belongs,   \* the units that pass ADR-0003's binding rule
  reads,     \* systemd reads drop-ins where this application writes them
  bound,     \* `record.unit`: the unit the scanner found
  port,      \* the port the project shall have, or None
  adopted, pending,
  overlay,   \* what the window shows over the polled state
  seen,      \* who the last poll found on the port
  watched,   \* `_watched_unit`
  query,     \* the `is-active` that is out
  tasks,
  dropIn,    \* the drop-in file of each unit: Off, or its port
  loaded,    \* what systemd has read of them
  state,     \* ActiveState
  kept       \* units whose file stays although nothing is out

gui == <<bound, port, adopted, pending, overlay, seen, watched>>
systemd == <<dropIn, loaded, state, kept>>
world == <<belongs, reads>>
vars == <<gui, systemd, world, query, tasks>>

Verb == {"start", "stop", "restart"}
Result == {"none", "ok", "rejected", "failed", "unbound"}
NoTask == [pc |-> "idle", verb |-> "start", unit |-> None, port |-> Off,
           check |-> FALSE, unread |-> FALSE, result |-> "none"]
NoQuery == [pc |-> "idle", unit |-> None, state |-> "unknown"]
\* ENDED_STATES: inactive or failed, which nothing here tells apart.
Ended == "ended"
Active == {Ended, "activating", "active"}

\* `_ServiceTask`: where it is in `_drive`, what it was made with, and that
\* systemd could not be asked whether it had read the drop-in.
ServiceTask ==
  [pc : {"idle", "check", "write", "reload", "ask", "drive", "clear", "unload",
         "report"},
   verb : Verb, unit : Unit \cup {None}, port : Wanted \cup {Off},
   check : BOOLEAN, unread : BOOLEAN, result : Result]

TypeOK ==
  /\ belongs \in SUBSET Unit /\ reads \in BOOLEAN
  /\ {bound, adopted, pending, watched} \subseteq Unit \cup {None}
  /\ port \in Wanted
  /\ overlay \in {"none", "starting", "stopping", "elsewhere"}
  /\ seen \in Unit \cup {None, Unnamed}
  /\ query \in [pc : {"idle", "out", "read"}, unit : Unit \cup {None},
                state : Active \cup {"unknown"}]
  /\ tasks \in [Task -> ServiceTask]
  /\ {dropIn, loaded} \subseteq [Unit -> Wanted \cup {Off}]
  /\ state \in [Unit -> Active]
  /\ kept \in SUBSET Unit

Init ==
  /\ belongs \in SUBSET Unit /\ reads \in BOOLEAN
  /\ bound \in belongs \cup {None}
  /\ port \in Wanted
  /\ adopted = None /\ pending = None /\ overlay = "none" /\ watched = None
  /\ seen = None
  /\ query = NoQuery
  /\ tasks = [t \in Task |-> NoTask]
  /\ dropIn = [u \in Unit |-> Off]
  /\ loaded = dropIn
  /\ state \in [Unit -> {Ended, "active"}]
  /\ kept = {}

Out == {t \in Task : tasks[t].pc # "idle"}
-----------------------------------------------------------------------------
(* The buttons                                                             *)

First(a, b) == IF a # None THEN a ELSE b
\* `_adopted_unit`: a unit whose check is still out is driven like one adopted.
Adopted == First(adopted, pending)
\* `unit_for_pid`: the kernel names the holder, and its cgroup the unit,
\* whoever that belongs to.
Named == seen \in Unit
\* `_holder_unit`: a holder that has a name decides alone.
HolderUnit == IF Named THEN seen ELSE First(Adopted, bound)

Runs(verb, u, check) ==
  \E t \in Task \ Out :
     tasks' = [tasks EXCEPT ![t] =
       [pc |-> IF check THEN "check" ELSE IF verb = "stop" THEN "drive" ELSE "write",
        verb |-> verb, unit |-> u, check |-> check,
        port |-> IF verb = "stop" THEN Off ELSE port,
        unread |-> FALSE, result |-> "none"]]

Offered == overlay \in {"none", "elsewhere"}

\* `start_project` of a project that has a unit.
ClickStart ==
  /\ Offered /\ seen = None
  /\ LET u == First(Adopted, bound) IN u # None /\ Runs("start", u, u # bound)
  /\ overlay' = "starting"
  /\ UNCHANGED <<bound, port, adopted, pending, seen, watched, systemd, world, query>>

\* Mutant: the unit is the project's own before its check has passed.
AdoptsAtOnce(u) == adopted' = u /\ pending' = None

\* The unit stays pending until the verb reports.
Holds(u) == pending' = u /\ adopted' = adopted

\* `_stop_foreign` and the service branch of `restart_project`.
ClickVerb(verb) ==
  /\ Offered /\ seen # None
  /\ HolderUnit # None
  /\ Holds(HolderUnit)
  /\ Runs(verb, HolderUnit, TRUE)
  /\ overlay' = IF verb = "stop" THEN "stopping" ELSE "starting"
  /\ UNCHANGED <<bound, port, seen, watched, systemd, world, query>>

Stays == UNCHANGED <<systemd, world, query, tasks>>

ClickElsewhere ==
  /\ overlay' = "elsewhere"
  /\ UNCHANGED <<bound, port, adopted, pending, seen, watched>> /\ Stays

\* A rescan may bind another unit, and a port may be edited.
Relists ==
  /\ \/ port' \in Wanted /\ UNCHANGED bound
     \/ bound' \in belongs \cup {None} /\ UNCHANGED port
  /\ UNCHANGED <<adopted, pending, overlay, seen, watched>> /\ Stays
-----------------------------------------------------------------------------
(* `_ServiceTask._drive`, on a thread of the pool                          *)

At(t, pc) == tasks[t].pc = pc
Goes(t, pc) == tasks' = [tasks EXCEPT ![t].pc = pc]
\* Past its verb a task reads neither its port nor what systemd answered.
Past(t, pc, r) ==
  tasks' = [tasks EXCEPT ![t] = [@ EXCEPT !.pc = pc, !.result = r, !.port = Off,
                                          !.unread = FALSE]]
Ends(t, r) == Past(t, "report", r)
Aside == UNCHANGED <<gui, world, query>>

\* `unit_belongs_to`: its file, its folder or its command is in the project.
Belongs(u) == u \in belongs

\* What a check that does not pass ends with: a refusal, and "failed" for one
\* that raised (`run`).  None is known to raise.
Refusals == IF "check_raises" \in Hazard THEN {"unbound", "failed"} ELSE {"unbound"}

\* `_binding_refusal`: a unit that cannot be read is refused like a stranger's.
Checks(t) ==
  /\ At(t, "check")
  /\ \/ Belongs(tasks[t].unit)
        /\ Goes(t, IF tasks[t].verb = "stop" THEN "drive" ELSE "write")
     \/ \E r \in Refusals : Ends(t, r)
  /\ UNCHANGED systemd /\ Aside

\* `set_drop_in`: always written and always reloaded.
Writes(t) ==
  /\ At(t, "write")
  /\ \/ Goes(t, "reload") /\ dropIn' = [dropIn EXCEPT ![tasks[t].unit] = tasks[t].port]
     \/ Ends(t, "failed") /\ UNCHANGED dropIn
  /\ UNCHANGED <<loaded, state, kept>> /\ Aside

\* Mutant: what a failed set wrote is left for the next logon.
LeavesFile(t) == UNCHANGED <<dropIn, kept>>

\* `_discard`: a failed set removes what it wrote, if it can.
Discards(t) ==
  LET u == tasks[t].unit IN
    \/ dropIn' = [dropIn EXCEPT ![u] = Off] /\ kept' = kept \ {u}
    \/ dropIn' = dropIn /\ kept' = kept \cup {u}

\* daemon-reload reads every file, in the folder of the user manager's own
\* XDG_CONFIG_HOME: for another folder than this application's it reads none.
Loading == loaded' = IF reads THEN dropIn ELSE loaded

\* Mutant: a file that has the right bytes already is not loaded again.
ReloadsChanged(t) ==
  /\ At(t, "reload")
  /\ \/ /\ Goes(t, "ask") /\ UNCHANGED <<dropIn, kept>>
        /\ IF tasks[t].unit \in kept THEN loaded' = loaded ELSE Loading
     \/ Ends(t, "failed") /\ Discards(t) /\ (loaded' = loaded \/ Loading)
  /\ UNCHANGED state /\ Aside

\* One that failed may have read them.
Reloads(t) ==
  /\ At(t, "reload")
  /\ \/ Goes(t, "ask") /\ Loading /\ UNCHANGED <<dropIn, kept>>
     \/ Ends(t, "failed") /\ Discards(t) /\ (loaded' = loaded \/ Loading)
  /\ UNCHANGED state /\ Aside

\* `drop_in_seen`: the file is among those systemd has read of the unit.
Seen(t) == loaded[tasks[t].unit] # Off

\* Mutant: a definite "not read" does not refuse (before L05-L3).
AsksInVain(t) ==
  /\ At(t, "ask")
  /\ Goes(t, "drive")
  /\ UNCHANGED <<dropIn, kept, loaded, state>> /\ Aside

\* An answer that cannot be read proves nothing, and only a definite "not
\* read" refuses.
Asks(t) ==
  /\ At(t, "ask")
  /\ \/ Seen(t) /\ Goes(t, "drive") /\ UNCHANGED <<dropIn, kept>>
     \/ ~Seen(t) /\ Ends(t, "failed") /\ Discards(t)
     \/ /\ tasks' = [tasks EXCEPT ![t].pc = "drive", ![t].unread = TRUE]
        /\ UNCHANGED <<dropIn, kept>>
  /\ UNCHANGED <<loaded, state>> /\ Aside

\* systemd starts the unit with what it has read.
Starts(u) ==
  /\ state' \in {[state EXCEPT ![u] = s] : s \in Active}

\* A start of a unit that is up is nothing.
StartsUnit(t) ==
  \/ tasks[t].verb = "restart"
  \/ tasks[t].verb = "start" /\ state[tasks[t].unit] = Ended

Cleans(t, r) == Past(t, "clear", r)

\* `drive_unit`: systemd refuses the verb or carries it out.
Drives(t) ==
  LET u == tasks[t].unit IN
  /\ At(t, "drive")
  /\ \/ Cleans(t, "rejected") /\ UNCHANGED state
     \/ /\ Cleans(t, "ok")
        /\ \/ StartsUnit(t) /\ Starts(u)
           \/ tasks[t].verb = "stop" /\ state' = [state EXCEPT ![u] = Ended]
           \/ tasks[t].verb = "start" /\ ~StartsUnit(t) /\ UNCHANGED state
  /\ UNCHANGED <<dropIn, loaded, kept>> /\ Aside

\* The verb did not finish in time: systemd may still carry it out, and the
\* drop-in of a start is kept for it.
DriveFails(t) ==
  LET u == tasks[t].unit IN
  /\ At(t, "drive")
  /\ Ends(t, "failed")
  /\ kept' = IF dropIn[u] = Off THEN kept ELSE kept \cup {u}
  /\ UNCHANGED <<dropIn, loaded, state>> /\ Aside

\* `clear_drop_in`: nothing to remove is no reload.
Clears(t) ==
  LET u == tasks[t].unit IN
  /\ At(t, "clear")
  /\ \/ /\ dropIn[u] = Off
        /\ Goes(t, "report") /\ UNCHANGED <<dropIn, kept>>
     \/ /\ dropIn[u] # Off
        /\ Goes(t, "unload")
        /\ dropIn' = [dropIn EXCEPT ![u] = Off] /\ kept' = kept \ {u}
     \/ /\ dropIn[u] # Off
        /\ Goes(t, "report")
        /\ kept' = kept \cup {u} /\ UNCHANGED dropIn
  /\ UNCHANGED <<loaded, state>> /\ Aside

Unloads(t) ==
  /\ At(t, "unload")
  /\ Goes(t, "report")
  /\ loaded' = loaded \/ Loading
  /\ UNCHANGED <<dropIn, state, kept>> /\ Aside

\* `_on_service_done`, on the GUI thread.  While polls fail, which they may do
\* at any time, none can show that a stop came true.
OnServiceDone(t) ==
  LET unit == tasks[t].unit
      r == tasks[t].result
      unbound == r = "unbound"
      passed == IF pending # None /\ ~(unbound /\ unit = pending)
                THEN pending ELSE adopted
  IN
  /\ At(t, "report")
  /\ pending' = None
  /\ adopted' = IF unbound /\ passed = unit THEN None ELSE passed
  /\ \E failing \in BOOLEAN :
       overlay' = IF /\ overlay # "elsewhere"
                     /\ (r # "ok" \/ (tasks[t].verb = "stop" /\ failing))
                  THEN "none" ELSE overlay
  /\ watched' = IF r = "ok" /\ tasks[t].verb # "stop" /\ overlay = "starting"
                THEN unit ELSE watched
  /\ tasks' = [tasks EXCEPT ![t] = NoTask]
  /\ UNCHANGED <<bound, port, seen, systemd, world, query>>
-----------------------------------------------------------------------------
(* The poll, and the watch over a unit that was started                    *)

\* Mutant: the watch ends with its first question.
AsksOnce == watched' = None /\ query' = [NoQuery EXCEPT !.pc = "out", !.unit = watched]

AsksUnit == UNCHANGED watched /\ query' = [NoQuery EXCEPT !.pc = "out", !.unit = watched]

\* `_check_watched_unit`, on every tick.
ChecksWatched ==
  /\ watched # None
  /\ IF overlay # "starting" THEN watched' = None /\ UNCHANGED query
     ELSE query.pc = "idle" /\ AsksUnit
  /\ UNCHANGED <<bound, port, adopted, pending, overlay, seen, systemd, world, tasks>>

ReadsState ==
  /\ query.pc = "out"
  /\ \E s \in {state[query.unit], "unknown"} :
       query' = [query EXCEPT !.pc = "read", !.state = s]
  /\ UNCHANGED <<gui, systemd, world, tasks>>

\* `_on_unit_state`: only a unit that ended is evidence.
OnUnitState ==
  /\ query.pc = "read"
  /\ query' = NoQuery
  /\ IF query.state = Ended /\ watched # None
     THEN /\ watched' = None
          /\ overlay' = IF overlay = "starting" THEN "none" ELSE overlay
     ELSE UNCHANGED <<watched, overlay>>
  /\ UNCHANGED <<bound, port, adopted, pending, seen, systemd, world, tasks>>

\* A snapshot: who holds the port, and whether the overlay has come true.
\* After a stop that was carried out a new process may hold it
\* (`_settle_overlay`, LWSM-1513); processes of one unit are not told apart.
StopDone == ~\E t \in Out : tasks[t].verb = "stop"

Polls ==
  LET active == {u \in Unit : state[u] = "active"} IN
  /\ seen' \in IF active = {} THEN {None} ELSE active \cup {Unnamed}
  /\ \E another \in BOOLEAN :
       overlay' = IF \/ overlay = "starting" /\ seen' # None
                     \/ overlay = "stopping" /\ (seen' = None \/ (another /\ StopDone))
                     \/ overlay = "elsewhere"
                  THEN "none" ELSE overlay
  /\ UNCHANGED <<bound, port, adopted, pending, watched>> /\ Stays
-----------------------------------------------------------------------------
(* systemd                                                                 *)

\* A verb that timed out is carried out, the user starts a unit, or it ends.
UnitMoves(u) ==
  /\ \/ state[u] = Ended /\ state' = [state EXCEPT ![u] = "activating"]
     \/ state[u] = "activating" /\ state' \in {[state EXCEPT ![u] = s] : s \in {"active", Ended}}
     \/ state[u] = "active" /\ state' = [state EXCEPT ![u] = Ended]
  /\ UNCHANGED <<dropIn, loaded, kept>> /\ Aside /\ UNCHANGED tasks
-----------------------------------------------------------------------------
Works(t) ==
  \/ Checks(t) \/ Writes(t) \/ Reloads(t) \/ Asks(t) \/ Drives(t)
  \/ DriveFails(t) \/ Clears(t) \/ Unloads(t) \/ OnServiceDone(t)

Watch == ChecksWatched \/ ReadsState \/ OnUnitState

Next ==
  \/ ClickStart \/ ClickElsewhere \/ Relists
  \/ \E verb \in {"stop", "restart"} : ClickVerb(verb)
  \/ \E t \in Task : Works(t)
  \/ Watch \/ Polls
  \/ \E u \in Unit : UnitMoves(u)

Spec == Init /\ [][Next]_vars

\* The pool runs its tasks, the timer ticks and `systemctl` answers: it has a
\* time limit.  A unit may stay on its way for ever, and a state be unreadable.
Fairness ==
  /\ \A t \in Task : WF_vars(Works(t))
  /\ WF_vars(ChecksWatched) /\ WF_vars(OnUnitState) /\ WF_vars(Polls)
  /\ WF_vars(ReadsState) /\ SF_vars(ReadsState /\ query'.state # "unknown")

FairSpec == Spec /\ Fairness
-----------------------------------------------------------------------------
\* A unit this application starts, starts with the port that was asked for:
\* without its drop-in it would take its own default and nobody would be told
\* (ADR-0002, service.py 411).  The one start without it is that of a systemd
\* which reads another folder and could not be asked: `set_drop_in` says that an
\* unreadable answer proves nothing.  One verb is out at a time here.
StartsOnItsPort ==
  [][\A t \in Task :
       (At(t, "drive") /\ StartsUnit(t) /\ tasks'[t].result = "ok")
         => \/ loaded[tasks[t].unit] = tasks[t].port
            \/ ~reads /\ tasks[t].unread]_vars

\* While no verb is out, no drop-in waits for the unit's next start at logon,
\* save one that a start may still read or that could not be removed
\* (LWSM-1387, LWSM-1449).
LeftWithReason ==
  Out = {} => \A u \in Unit : dropIn[u] # Off => u \in kept

\* A unit counts as the project's own only after ADR-0003's rule was checked
\* for it, whatever was pending when the verb reported (LWSM-1453).
AdoptedChecked == adopted \in belongs \cup {None}

\* A service start that ended does not read `starting` for good: the poll sees
\* its port, or the watch sees that the unit ended (L6-M3).
ServiceStartEnds ==
  []<>(overlay # "starting" \/ \E u \in Unit : state[u] = "activating")
=============================================================================
