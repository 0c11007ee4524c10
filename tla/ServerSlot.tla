----------------------------- MODULE ServerSlot -----------------------------
(***************************************************************************)
(* What `Supervisor` (src/lwsm/supervisor.py) promises its callers, with   *)
(* no threads, locks, process groups or descriptors: each project has one  *)
(* slot, and a server is started only into a free slot beside which        *)
(* nothing the manager started for that project is still running.          *)
(***************************************************************************)
CONSTANTS Project, Server

VARIABLES
  slot,     \* what the manager is doing with each project
  serving,  \* the servers it started for the project that still run
  quit      \* close() has begun

vars == <<slot, serving, quit>>

Init ==
  /\ slot = [p \in Project |-> "free"]
  /\ serving = [p \in Project |-> {}]
  /\ quit = FALSE

Moves(p, from, to) == /\ slot[p] = from
                      /\ slot' = [slot EXCEPT ![p] = to]

\* start(): taken only when nothing of the project runs.
Reserve(p) ==
  /\ ~quit
  /\ serving[p] = {}
  /\ Moves(p, "free", "starting")
  /\ UNCHANGED <<serving, quit>>

Spawn(p, s) ==
  /\ slot[p] = "starting"
  /\ serving[p] = {}
  /\ \A o \in Project : s \notin serving[o]
  /\ serving' = [serving EXCEPT ![p] = {s}]
  /\ UNCHANGED <<slot, quit>>

Abandon(p) ==
  /\ serving[p] = {}
  /\ Moves(p, "starting", "free")
  /\ UNCHANGED <<serving, quit>>

Enter(p) == Moves(p, "starting", "held") /\ UNCHANGED <<serving, quit>>

\* stop(): what survives it keeps the slot from being taken, see Reserve.
BeginStop(p) == Moves(p, "held", "stopping") /\ UNCHANGED <<serving, quit>>

PutBack(p) == Moves(p, "stopping", "held") /\ UNCHANGED <<serving, quit>>

EndStop(p) == Moves(p, "stopping", "free") /\ UNCHANGED <<serving, quit>>

\* reap_exited(): only a project whose server is gone loses its slot unasked.
Vacate(p) ==
  /\ serving[p] = {}
  /\ Moves(p, "held", "free")
  /\ UNCHANGED <<serving, quit>>

\* A server ends, whatever the manager is doing.
Die(p, s) ==
  /\ s \in serving[p]
  /\ serving' = [serving EXCEPT ![p] = @ \ {s}]
  /\ UNCHANGED <<slot, quit>>

\* close(): the slots are dropped, the servers left running.
Quit ==
  /\ quit' = TRUE
  /\ UNCHANGED <<slot, serving>>

LetGo ==
  /\ quit
  /\ slot' = [p \in Project |-> IF slot[p] = "held" THEN "free" ELSE slot[p]]
  /\ UNCHANGED <<serving, quit>>

Next ==
  \/ \E p \in Project : \/ Reserve(p) \/ Abandon(p) \/ Enter(p) \/ Vacate(p)
                        \/ BeginStop(p) \/ PutBack(p) \/ EndStop(p)
  \/ \E p \in Project, s \in Server : Spawn(p, s) \/ Die(p, s)
  \/ Quit
  \/ LetGo

Spec == Init /\ [][Next]_vars
=============================================================================
