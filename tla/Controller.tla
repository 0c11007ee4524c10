----------------------------- MODULE Controller -----------------------------
(***************************************************************************)
(* `ProjectController` of src/lwsm/controller.py: the poll, the statuses   *)
(* it derives, the one optimistic overlay, and the Start, Stop and Restart *)
(* buttons of the window (mainwindow.py).  The controller lives on the GUI *)
(* thread; an action here is one of its slots, run to the end, or one step *)
(* of a pool task. Results are posted to the GUI thread and delivered in   *)
(* the order they were posted, while the user goes on clicking.            *)
(*                                                                         *)
(* The supervisor is reduced to what the controller sees of it: an entry   *)
(* per project, popped by a queued stop or by the upkeep's reap.  A server *)
(* is its process group; it may listen on several ports.  Ports of other   *)
(* programs come and go.  Projects bound to a systemd unit are not part of *)
(* this module.                                                            *)
(***************************************************************************)
EXTENDS Naturals, FiniteSets, Sequences, SequencesExt

CONSTANTS
  Project,   \* paths of the registry's records
  Server,    \* servers start() may spawn, each used once
  Stranger,  \* other processes that may hold a port
  Alike,     \* the strangers that look like the project they disturb
  Port,      \* port numbers
  Declared,  \* ProjectRecord.port of each project
  Snap,      \* snapshot tasks, more than the poll should ever need
  Future,    \* stops submitted to the `lwsm-stop` executor
  Slots,     \* threads of that executor
  Tree,      \* foreign stops on the service pool
  None,      \* Python's None
  Hazard     \* what may go wrong, see below

(***************************************************************************)
(* "probe_fails":   a snapshot may raise ProbeError.                       *)
(* "stop_raises":   stop() may raise.                                      *)
(* "straggler":     a stop may leave its server running.                   *)
(* "records":       a rescan or the user may change the records.           *)
(* "early_click":   Start is pressed while the result of an upkeep is out. *)
(* "quit":          the window may be closed.                              *)
(***************************************************************************)
HazardKind == {"probe_fails", "stop_raises", "straggler", "records",
               "early_click", "quit"}

ASSUME ControllerAssumption ==
  /\ None \notin Project \cup Server \cup Stranger \cup Port
  /\ Server \cap Stranger = {}
  /\ Alike \subseteq Stranger
  /\ Declared \in [Project -> Port \cup {None}]
  /\ Slots \in Nat \ {0}
  /\ Hazard \subseteq HazardKind

\* A stop's result is none of another task's.
ASSUME TaskAssumption == Future \cap ({"upkeep"} \cup Snap \cup Tree) = {}

VARIABLES
  entry,        \* Supervisor.running(): the server held for each project
  life,         \* what each server's group is doing
  asked,        \* ManagedProcess.port: the port a server was started with
  table,        \* kernel: who listens on each port
  listed,       \* the projects of `_records`
  override,     \* ProjectRecord.port_override
  confirmed,    \* ProjectRecord.confirmed_port
  overlay,      \* _overlay: one slot for all projects
  statuses,     \* _statuses
  reaped,       \* _reaped
  gone,         \* _gone
  holders,      \* _holders
  managed,      \* _managed
  restarting,   \* _restarting
  stopHolders,  \* _stop_holders
  stopsDone,    \* _stops_done
  blind,        \* _last_error is set: the last poll could not read the table
  inFlight,     \* _in_flight
  upkeepInFlight, \* _upkeep_in_flight
  closed,       \* _stopped
  upkeep,       \* the upkeep task
  snaps,        \* the snapshot tasks
  futures,      \* the stops of `stop_async`, and the server each was meant for
  trees,        \* the foreign stops
  posted,       \* results posted to the GUI thread, oldest first
  shown,        \* the buttons the window last enabled
  dialog,       \* what is disclosed first: the project, the holder, the action
  wish          \* the last button the user pressed on each project

supervisor == <<entry, life, asked>>
records    == <<listed, override, confirmed>>
marks      == <<reaped, stopHolders, stopsDone>>
polled     == <<statuses, gone, holders, managed, blind>>
guards     == <<inFlight, upkeepInFlight>>
tasks      == <<upkeep, snaps, futures, trees, posted>>
user       == <<dialog, wish>>
vars == <<supervisor, table, records, overlay, marks, polled, restarting,
          guards, closed, tasks, shown, user>>

-----------------------------------------------------------------------------
Holder == Server \cup Stranger
Status == {"unknown", "running", "wrong port", "foreign", "blocked", "failed",
           "starting", "stopped"}
RunningStates == {"running", "wrong port", "foreign"}
Button == {"start", "stop", "restart"}
Table == [Port -> Holder \cup {None}]
Outcome == {"none", "ok", "bound", "empty", "raised"}

\* What may be posted: the upkeep, a snapshot, a stop, a foreign stop.
Task == {"upkeep"} \cup Snap \cup Future \cup Tree

NoOverlay == [path |-> None, status |-> "none"]
Marked(p, s) == [path |-> p, status |-> s]
NoUpkeep == [pc |-> "idle", next |-> FALSE, reaped |-> {}, gone |-> {}]
Unread == [pc |-> "idle", want |-> [p \in Project |-> None],
           table |-> [q \in Port |-> None]]
NoFuture == [pc |-> "idle", path |-> None, meant |-> None, server |-> None,
             outcome |-> "none"]
NoTree == [pc |-> "idle", path |-> None, holder |-> None, ok |-> FALSE]
NoDialog == [path |-> None, holder |-> None, act |-> "none"]

UpkeepTask == [pc : {"idle", "queued", "reaped", "done"}, next : BOOLEAN,
               reaped : SUBSET Project, gone : SUBSET Project]
SnapTask == [pc : {"idle", "queued", "read", "raised"},
             want : [Project -> Port \cup {None}], table : Table]
FutureTask == [pc : {"idle", "queued", "stopping", "probing", "done"},
               path : Project \cup {None}, meant : Server \cup {None},
               server : Server \cup {None}, outcome : Outcome]
TreeTask == [pc : {"idle", "queued", "done"}, path : Project \cup {None},
             holder : Holder \cup {None}, ok : BOOLEAN]
Dialog == [path : Project \cup {None}, holder : Holder \cup {None},
           act : {"none", "tree", "stop", "restart"}]

TypeOK ==
  /\ entry \in [Project -> Server \cup {None}]
  /\ life \in [Server -> {"unborn", "live", "forked", "gone"}]
  /\ asked \in [Server -> Port \cup {None}]
  /\ table \in Table
  /\ listed \in SUBSET Project
  /\ override \in [Project -> Port \cup {None}]
  /\ confirmed \in [Project -> Port \cup {None}]
  /\ overlay \in {NoOverlay} \cup
       {Marked(p, s) : p \in Project, s \in {"starting", "stopping"}}
  /\ statuses \in [Project -> Status]
  /\ reaped \in SUBSET Project
  /\ gone \in SUBSET Project
  /\ holders \in [Project -> Holder \cup {None}]
  /\ managed \in SUBSET Project
  /\ restarting \in SUBSET Project
  /\ stopHolders \in [Project -> Holder \cup {None}]
  /\ stopsDone \in SUBSET Project
  /\ blind \in BOOLEAN
  /\ inFlight \in BOOLEAN
  /\ upkeepInFlight \in BOOLEAN
  /\ closed \in BOOLEAN
  /\ upkeep \in UpkeepTask
  /\ snaps \in [Snap -> SnapTask]
  /\ futures \in [Future -> FutureTask]
  /\ trees \in [Tree -> TreeTask]
  /\ posted \in Seq(Task)
  /\ shown \in [Project -> SUBSET Button]
  /\ dialog \in Dialog
  /\ wish \in [Project -> Button \cup {"none"}]

-----------------------------------------------------------------------------
(* Records and supervisor, as the controller asks them                     *)

\* ProjectRecord.effective_port.
EffectiveWith(p, seen) ==
  CASE override[p] # None -> override[p]
    [] override[p] = None /\ seen[p] # None -> seen[p]
    [] OTHER -> Declared[p]

Effective(p) == EffectiveWith(p, confirmed)

GroupAlive(c) == life[c] \in {"live", "forked"}

\* `exited()`: the launcher of the entry is gone.
Exited(p) == entry[p] # None /\ life[entry[p]] \in {"forked", "gone"}

\* `owns_pid`: asked of the entry there is now.
Owns(p, h) == h # None /\ h = entry[p] /\ GroupAlive(h)

\* `is_stopping`: popped, and its sequence still running.
IsStopping(p) ==
  \E f \in Future : /\ futures[f].pc \in {"stopping", "probing"}
                      /\ futures[f].path = p

\* `_child_gone`.
ChildGone(p) == Exited(p) /\ p \in gone

Spawning(p) == entry[p] # None /\ ~ChildGone(p)

\* `looks_like`: a server of ours left behind looks like its project too.
LooksLike(h) == h \in Alike \cup Server

-----------------------------------------------------------------------------
(* Rows and buttons                                                        *)

\* `_status_of`.
StatusOf(p) == IF overlay.path = p THEN overlay.status ELSE statuses[p]

InTransition(p) == StatusOf(p) \in {"starting", "stopping"}
IsRunning(p) == StatusOf(p) \in RunningStates
Supervised(p) == entry[p] # None
FailedOurs(p) == StatusOf(p) = "failed" /\ Supervised(p)

CanStart(p) == ~(InTransition(p) \/ IsRunning(p) \/ IsStopping(p) \/ FailedOurs(p))

CanStop(p) == \/ IsRunning(p)
              \/ FailedOurs(p)
              \/ StatusOf(p) = "starting" /\ Supervised(p)

CanRestart(p) == \/ IsRunning(p) /\ (StatusOf(p) = "foreign" => Supervised(p))
                 \/ FailedOurs(p)

\* What `ProjectRow._apply_button_state` enables.
Buttons(p) == {b \in Button : \/ b = "start" /\ CanStart(p)
                              \/ b = "stop" /\ CanStop(p)
                              \/ b = "restart" /\ CanRestart(p)}

\* `projects_changed`: the window renders every row of the list at once.
Render == shown' = [p \in Project |-> IF p \in listed' THEN Buttons(p)' ELSE {}]

\* Mutant: the end of a stop is left to the poll to render (LWSM-1191).
RenderLater == UNCHANGED shown

RenderStopped == Render

RenderIf(changed) == IF changed THEN Render ELSE UNCHANGED shown

\* Mutant: the reap of the previous server is kept.
MarkOnly(p, s) ==
  /\ overlay' = Marked(p, s)
  /\ stopHolders' = [stopHolders EXCEPT ![p] = None]
  /\ stopsDone' = stopsDone \ {p}
  /\ UNCHANGED reaped

\* `_set_overlay`.
SetOverlay(p, s) ==
  /\ overlay' = Marked(p, s)
  /\ reaped' = reaped \ {p}
  /\ stopHolders' = [stopHolders EXCEPT ![p] = None]
  /\ stopsDone' = stopsDone \ {p}

\* `_clear_overlay`.
Cleared(p) == IF overlay.path = p THEN NoOverlay ELSE overlay

Init ==
  /\ entry = [p \in Project |-> None]
  /\ life = [c \in Server |-> "unborn"]
  /\ asked = [c \in Server |-> None]
  /\ table = [q \in Port |-> None]
  /\ listed = Project
  /\ override = [p \in Project |-> None]
  /\ confirmed = [p \in Project |-> None]
  /\ overlay = NoOverlay
  /\ statuses = [p \in Project |-> "unknown"]
  /\ reaped = {} /\ gone = {} /\ managed = {} /\ restarting = {}
  /\ stopsDone = {}
  /\ holders = [p \in Project |-> None]
  /\ stopHolders = [p \in Project |-> None]
  /\ blind = FALSE /\ inFlight = FALSE /\ upkeepInFlight = FALSE
  /\ closed = FALSE
  /\ upkeep = NoUpkeep
  /\ snaps = [s \in Snap |-> Unread]
  /\ futures = [f \in Future |-> NoFuture]
  /\ trees = [t \in Tree |-> NoTree]
  /\ posted = <<>>
  /\ shown = [p \in Project |-> {"start"}]
  /\ dialog = NoDialog
  /\ wish = [p \in Project |-> "none"]

-----------------------------------------------------------------------------
(* The buttons                                                             *)

\* The threads of the executor that run a stop.
Busy == {f \in Future : futures[f].pc \in {"stopping", "probing"}}

\* The event loop takes the user's next event when it has delivered what was
\* posted, and an idle thread is faster than the user.
UserTurn ==
  /\ ~closed
  /\ posted = <<>>
  /\ (\E f \in Future : futures[f].pc = "queued") => Cardinality(Busy) = Slots

Offers(p, b) ==
  /\ UserTurn
  /\ dialog = NoDialog
  /\ p \in listed
  /\ b \in shown[p]

Clicks(p, b) ==
  /\ Offers(p, b)
  /\ wish' = [wish EXCEPT ![p] = b]

\* Start is pressed only once the word about the previous server is used up.
NotEarly(p) ==
  "early_click" \in Hazard \/ p \notin upkeep.reaped \cup upkeep.gone \cup gone

\* `start_project` as far as it succeeds: the pre-flight found the port free.
Spawn(p, c) ==
  /\ p \in listed
  /\ entry[p] = None
  /\ ~IsStopping(p)
  /\ Effective(p) # None => table[Effective(p)] = None
  /\ NotEarly(p)
  /\ life[c] = "unborn"
  /\ entry' = [entry EXCEPT ![p] = c]
  /\ life' = [life EXCEPT ![c] = "live"]
  /\ asked' = [asked EXCEPT ![c] = Effective(p)]
  /\ SetOverlay(p, "starting")

\* Any refusal: port taken or claimed, no launcher, not trusted, stragglers.
\* An overlay is set only on a spawn that happened.
StartOrRefusal(p) ==
  \/ \E c \in Server : Spawn(p, c)
  \/ UNCHANGED <<supervisor, overlay, marks>>

ClickStart(p) ==
  /\ Clicks(p, "start")
  /\ StartOrRefusal(p)
  /\ UNCHANGED <<table, records, polled, restarting, guards, closed, tasks,
                 dialog>>
  /\ RenderIf(entry' # entry)

\* `stop_project` for a project the supervisor holds: the stop is queued.
QueueStop(p) ==
  /\ entry[p] # None
  /\ \E f \in Future :
       /\ futures[f].pc = "idle"
       /\ futures' = [futures EXCEPT ![f] = [NoFuture EXCEPT !.pc = "queued",
                                                             !.path = p,
                                                             !.meant = entry[p]]]
  /\ SetOverlay(p, "stopping")

ClickStop(p) ==
  /\ Clicks(p, "stop")
  /\ QueueStop(p)
  /\ UNCHANGED <<supervisor, table, records, polled, restarting, guards,
                 closed, upkeep, snaps, trees, posted, dialog>>
  /\ Render

\* `_stop_foreign_tree`: the whole set of a `running (foreign)` row is stopped.
AsksAboutHolder(p) ==
  /\ entry[p] = None
  /\ StatusOf(p) = "foreign"
  /\ p \notin managed
  /\ holders[p] # None

\* `_may_act_on`: what runs without being ours is shown first.
Discloses(p) == entry[p] = None /\ p \notin managed /\ IsRunning(p)

ClickDisclosed(p, b) ==
  /\ Offers(p, b)
  /\ Discloses(p)
  /\ dialog' = [path |-> p, holder |-> holders[p],
                act |-> IF b = "stop" /\ AsksAboutHolder(p) THEN "tree" ELSE b]
  /\ UNCHANGED <<supervisor, table, records, overlay, marks, polled,
                 restarting, guards, closed, tasks, shown, wish>>

\* Nothing held and no unit: refused, and no restart stays pending.
ClickStopRefused(p) ==
  /\ Clicks(p, "stop")
  /\ entry[p] = None
  /\ ~Discloses(p)
  /\ restarting' = restarting \ {p}
  /\ UNCHANGED <<supervisor, table, records, overlay, marks, polled, guards,
                 closed, tasks, shown, dialog>>

\* The stop half; the start half follows its outcome.
ClickRestart(p) ==
  /\ Clicks(p, "restart")
  /\ QueueStop(p)
  /\ restarting' = restarting \cup {p}
  /\ UNCHANGED <<supervisor, table, records, polled, guards, closed, upkeep,
                 snaps, trees, posted, dialog>>
  /\ Render

\* The server went away since the row was drawn: only the start is left.
ClickRestartGone(p) ==
  /\ Clicks(p, "restart")
  /\ entry[p] = None
  /\ ~Discloses(p)
  /\ StartOrRefusal(p)
  /\ UNCHANGED <<table, records, polled, restarting, guards, closed, tasks,
                 dialog>>
  /\ RenderIf(entry' # entry)

\* `stop_foreign_tree` after the yes: the port's holder is still the one
\* disclosed.
DialogYes ==
  LET p == dialog.path IN
  /\ UserTurn
  /\ dialog.act = "tree"
  /\ p \in listed
  /\ holders[p] = dialog.holder
  /\ \E t \in Tree :
       /\ trees[t].pc = "idle"
       /\ trees' = [trees EXCEPT ![t] = [pc |-> "queued", path |-> p,
                                         holder |-> dialog.holder, ok |-> FALSE]]
  /\ overlay' = Marked(p, "stopping")
  /\ reaped' = reaped \ {p}
  /\ stopHolders' = [stopHolders EXCEPT ![p] = holders[p]]
  /\ stopsDone' = stopsDone \ {p}
  /\ dialog' = NoDialog
  /\ wish' = [wish EXCEPT ![p] = "stop"]
  /\ UNCHANGED <<supervisor, table, records, polled, restarting, guards,
                 closed, upkeep, snaps, futures, posted>>
  /\ Render

\* The yes to a Stop or Restart, of what is by now held, listed and running.
Confirms(p, b) ==
  /\ UserTurn
  /\ dialog.path = p /\ dialog.act = b
  /\ dialog' = NoDialog
  /\ wish' = [wish EXCEPT ![p] = b]

ConfirmsHeld(p, b) ==
  /\ Confirms(p, b)
  /\ p \in listed
  /\ QueueStop(p)
  /\ restarting' = IF b = "restart" THEN restarting \cup {p} ELSE restarting
  /\ UNCHANGED <<supervisor, table, records, polled, guards, closed, upkeep,
                 snaps, trees, posted>>
  /\ Render

ConfirmsRefused(p, b) ==
  /\ Confirms(p, b)
  /\ IF entry[p] = None THEN b = "stop" ELSE p \notin listed
  /\ restarting' = restarting \ {p}
  /\ UNCHANGED <<supervisor, table, records, overlay, marks, polled, guards,
                 closed, tasks, shown>>

ConfirmsGone(p) ==
  /\ Confirms(p, "restart")
  /\ entry[p] = None
  /\ dialog.holder \in {None, holders[p]}
  /\ StartOrRefusal(p)
  /\ UNCHANGED <<table, records, polled, restarting, guards, closed, tasks>>
  /\ RenderIf(entry' # entry)

\* No, or a yes about a holder that is not there any more.
DialogNo ==
  /\ UserTurn
  /\ dialog # NoDialog
  /\ dialog' = NoDialog
  /\ UNCHANGED <<supervisor, table, records, overlay, marks, polled,
                 restarting, guards, closed, tasks, shown, wish>>

-----------------------------------------------------------------------------
(* Results posted to the GUI thread                                        *)

Post(x) == posted' = Append(posted, x)

\* Mutant: the slot of a result posted before the quit still works
\* (LWSM-1098).
NothingRefused == FALSE

\* Every slot begins with `if self._stopped: return`.
Refused == closed

\* The oldest result reaches its slot.
Delivered(x) ==
  /\ ~Refused
  /\ posted # <<>>
  /\ Head(posted) = x
  /\ posted' = Tail(posted)

DropResult ==
  /\ Refused
  /\ posted # <<>>
  /\ posted' = Tail(posted)
  /\ UNCHANGED <<supervisor, table, records, overlay, marks, polled,
                 restarting, guards, closed, upkeep, snaps, futures, trees,
                 shown, user>>

-----------------------------------------------------------------------------
(* Stops on their worker threads                                           *)

\* Somebody listens on port q of the table T.
Answers(q, T) == q # None /\ T[q] # None

\* The table without what h listened on.
Freed(h) == [q \in Port |-> IF table[q] = h THEN None ELSE table[q]]

\* `stop` begins: whoever pops the entry owns the sequence, a second stop
\* returns an empty outcome.
StopPops(f) ==
  LET p == futures[f].path IN
  /\ futures[f].pc = "queued"
  /\ Cardinality(Busy) < Slots
  /\ entry' = [entry EXCEPT ![p] = None]
  /\ IF entry[p] = None
     THEN /\ futures' = [futures EXCEPT ![f].pc = "done",
                                        ![f].outcome = "empty"]
          /\ Post(f)
     ELSE /\ futures' = [futures EXCEPT ![f].pc = "stopping",
                                        ![f].server = entry[p]]
          /\ UNCHANGED posted
  /\ UNCHANGED <<life, asked, table, records, overlay, marks, polled,
                 restarting, guards, closed, upkeep, snaps, trees, shown, user>>

\* The server is gone, or left running with a warning.
StopEnds(f) ==
  LET c == futures[f].server IN
  /\ futures[f].pc = "stopping"
  /\ futures' = [futures EXCEPT ![f].pc = "probing"]
  /\ \/ /\ life' = [life EXCEPT ![c] = "gone"]
        /\ table' = Freed(c)
     \/ "straggler" \in Hazard /\ UNCHANGED <<life, table>>
  /\ UNCHANGED <<entry, asked, records, overlay, marks, polled, restarting,
                 guards, closed, upkeep, snaps, trees, posted, shown, user>>

\* The port it was started with is probed once, if the table can be read; the
\* reservation is released and the outcome reported.
StopReports(f) ==
  LET q == asked[futures[f].server] IN
  /\ futures[f].pc = "probing"
  /\ \E o \in {"ok", "bound"} :
       /\ o = "bound" => Answers(q, table)
       /\ (o = "ok" /\ Answers(q, table)) => "probe_fails" \in Hazard
       /\ futures' = [futures EXCEPT ![f].pc = "done", ![f].outcome = o]
  /\ Post(f)
  /\ UNCHANGED <<supervisor, table, records, overlay, marks, polled,
                 restarting, guards, closed, upkeep, snaps, trees, shown, user>>

\* stop() raised: before the first signal the entry is put back, after it not.
StopRaises(f) ==
  /\ "stop_raises" \in Hazard
  /\ futures[f].pc = "stopping"
  /\ entry' \in {entry, [entry EXCEPT ![futures[f].path] = futures[f].server]}
  /\ futures' = [futures EXCEPT ![f].pc = "done", ![f].outcome = "raised"]
  /\ Post(f)
  /\ UNCHANGED <<life, asked, table, records, overlay, marks, polled,
                 restarting, guards, closed, upkeep, snaps, trees, shown, user>>

\* Mutant: the mark of a restart survives its stop.
StillRestarting(p) == restarting

NotRestarting(p) == restarting \ {p}

\* The last lines of `_apply_stop_outcome`.
OverlayUnread(p) == IF blind THEN Cleared(p) ELSE overlay

\* `_on_stopped`: the outcome, and the start that a restart was waiting for.
OnStopped(f) ==
  LET p == futures[f].path
      o == futures[f].outcome
      Unstarted(after) == /\ overlay' = after
                          /\ UNCHANGED <<supervisor, marks>> IN
  /\ Delivered(f)
  /\ futures' = [futures EXCEPT ![f] = NoFuture]
  /\ restarting' = NotRestarting(p)
  /\ \/ o = "raised" /\ Unstarted(Cleared(p))
     \/ /\ o # "raised" /\ p \in restarting
        /\ \/ \E c \in Server : Spawn(p, c)
           \/ Unstarted(IF o = "bound" THEN Cleared(p) ELSE overlay)
     \/ /\ o # "raised" /\ p \notin restarting
        /\ Unstarted(IF o = "bound" THEN Cleared(p) ELSE OverlayUnread(p))
  /\ UNCHANGED <<table, records, polled, guards, closed, upkeep, snaps, trees,
                 user>>
  /\ RenderStopped

-----------------------------------------------------------------------------
(* Foreign stops on the service pool                                       *)

\* `stop_tree`: the disclosed set is gone, or part of it is left or refused the
\* signal; what is gone already counts as stopped.
TreeEnds(t) ==
  LET h == trees[t].holder IN
  /\ trees[t].pc = "queued"
  /\ Post(t)
  /\ \E ok \in BOOLEAN :
       /\ trees' = [trees EXCEPT ![t].pc = "done", ![t].ok = ok]
       /\ IF ok
          THEN /\ table' = Freed(h)
               /\ life' = IF h \in Server THEN [life EXCEPT ![h] = "gone"]
                                          ELSE life
          ELSE /\ h \in Server => life[h] # "gone"
               /\ table' \in {table, Freed(h)}
               /\ UNCHANGED life
  /\ UNCHANGED <<entry, asked, records, overlay, marks, polled, restarting,
                 guards, closed, upkeep, snaps, futures, shown, user>>

\* `_on_service_done`.
OnTreeDone(t) ==
  LET p == trees[t].path IN
  /\ Delivered(t)
  /\ trees' = [trees EXCEPT ![t] = NoTree]
  /\ restarting' = restarting \ {p}
  /\ stopsDone' = IF trees[t].ok THEN stopsDone \cup {p} ELSE stopsDone
  /\ overlay' = IF trees[t].ok THEN OverlayUnread(p) ELSE Cleared(p)
  /\ UNCHANGED <<supervisor, table, records, reaped, stopHolders, polled,
                 guards, closed, upkeep, snaps, futures, user>>
  /\ Render

-----------------------------------------------------------------------------
(* The poll                                                                *)

\* Mutants: every tick takes a snapshot; the guard is read after it was set.
AlwaysNext == TRUE
NextAfterSet == ~inFlight'

\* Only a tick that finds no snapshot out reserves the next one.
SnapshotNext == ~inFlight

\* `poll_once`.
Tick ==
  /\ ~closed
  /\ ~upkeepInFlight
  /\ inFlight' = TRUE
  /\ upkeepInFlight' = TRUE
  /\ upkeep' = [NoUpkeep EXCEPT !.pc = "queued", !.next = SnapshotNext]
  /\ UNCHANGED <<supervisor, table, records, overlay, marks, polled,
                 restarting, closed, snaps, futures, trees, posted, shown,
                 user>>

\* Projects whose whole group is gone.
Dead == {p \in Project : entry[p] # None /\ life[entry[p]] = "gone"}

\* `reap_exited`: their slots are released.
UpkeepReaps ==
  /\ upkeep.pc = "queued"
  /\ upkeep' = [upkeep EXCEPT !.pc = "reaped", !.reaped = Dead]
  /\ entry' = [p \in Project |-> IF p \in Dead THEN None ELSE entry[p]]
  /\ UNCHANGED <<life, asked, table, records, overlay, marks, polled,
                 restarting, guards, closed, snaps, futures, trees, posted,
                 shown, user>>

\* `exited` and `group_alive`, after the rotation.
UpkeepLooks ==
  /\ upkeep.pc = "reaped"
  /\ upkeep' = [upkeep EXCEPT !.pc = "done", !.gone = Dead]
  /\ Post("upkeep")
  /\ UNCHANGED <<supervisor, table, records, overlay, marks, polled,
                 restarting, guards, closed, snaps, futures, trees, shown, user>>

\* `_start_snapshot`: the records are those of this moment.
StartSnapshot ==
  \E s \in Snap :
    /\ snaps[s].pc = "idle"
    /\ snaps' = [snaps EXCEPT ![s] = [Unread EXCEPT !.pc = "queued",
                   !.want = [p \in Project |-> IF p \in listed THEN Effective(p)
                                                               ELSE None]]]

\* Mutant: during an outage nothing ends a start (before LWSM-1452).
NeverUnobserved == overlay

\* `_settle_start_unobserved`.
StartUnobserved ==
  LET p == overlay.path IN
  IF /\ blind
     /\ overlay.status = "starting"
     /\ p \in reaped' \/ (Exited(p) /\ p \in gone')
  THEN NoOverlay ELSE overlay

\* `_on_upkeep`.
OnUpkeep ==
  /\ Delivered("upkeep")
  /\ upkeep' = NoUpkeep
  /\ upkeepInFlight' = FALSE
  /\ reaped' = reaped \cup upkeep.reaped
  /\ gone' = upkeep.gone
  /\ overlay' = StartUnobserved
  /\ IF upkeep.next THEN StartSnapshot /\ inFlight' = TRUE
                    ELSE UNCHANGED <<snaps, inFlight>>
  /\ UNCHANGED <<supervisor, table, records, stopHolders, stopsDone, statuses,
                 holders, managed, blind, restarting, closed, futures, trees,
                 user>>
  /\ RenderIf(overlay' # overlay)

\* The task reads the socket table, or ProbeError is raised.
SnapReads(s) ==
  /\ snaps[s].pc = "queued"
  /\ \/ snaps' = [snaps EXCEPT ![s].pc = "read", ![s].table = table]
     \/ "probe_fails" \in Hazard /\ snaps' = [snaps EXCEPT ![s].pc = "raised"]
  /\ UNCHANGED <<supervisor, table, records, overlay, marks, polled,
                 restarting, guards, closed, upkeep, futures, trees, posted,
                 shown, user>>

\* It resolves the holders, and its result is posted.
SnapReports(s) ==
  /\ snaps[s].pc \in {"read", "raised"}
  /\ s \notin ToSet(posted)
  /\ Post(s)
  /\ UNCHANGED <<supervisor, table, records, overlay, marks, polled,
                 restarting, guards, closed, upkeep, snaps, futures, trees,
                 shown, user>>

-----------------------------------------------------------------------------
(* What a delivered snapshot T says                                        *)

\* `_our_ports`.
OurPorts(p, T) == {q \in Port : Owns(p, T[q])}

\* `_port_seen_by_our_group`: the effective port, else the declared one, else
\* the only one; two unrelated ports teach nothing.
SeenByOurs(p, T) ==
  LET ours == OurPorts(p, T) IN
  CASE Effective(p) \in ours -> Effective(p)
    [] Effective(p) \notin ours /\ Declared[p] \in ours -> Declared[p]
    [] OTHER -> IF Cardinality(ours) = 1 THEN CHOOSE q \in ours : TRUE ELSE None

LearnedFromOurs(T) ==
  [p \in Project |-> IF p \in listed /\ SeenByOurs(p, T) # None
                     THEN SeenByOurs(p, T) ELSE confirmed[p]]

\* `_declared_holder`, for the effective port e.
DeclaredHolder(p, e, T) ==
  IF e # None /\ ~Answers(e, T) /\ Answers(Declared[p], T)
  THEN T[Declared[p]] ELSE None

\* `_resolve_holders` asked about the ports of the records it was given; a
\* holder it was not asked about looks like nothing.
Looks(p, h, want, T) ==
  /\ LooksLike(h)
  /\ \/ Answers(want[p], T) /\ T[want[p]] = h
     \/ DeclaredHolder(p, want[p], T) = h

\* `_classify`, for the effective port e.
Classify(p, e, want, T) ==
  LET h == T[e]
      other == DeclaredHolder(p, e, T)
      own == Spawning(p) IN
  CASE e = None -> "unknown"
    [] e # None /\ Owns(p, h) -> "running"
    [] e # None /\ ~Owns(p, h) /\ OurPorts(p, T) # {} -> "wrong port"
    [] OTHER ->
         CASE h # None /\ Looks(p, h, want, T) -> "foreign"
           [] h = None /\ own -> "starting"
           [] h # None /\ own /\ ~Looks(p, h, want, T) -> "failed"
           [] h = None /\ ~own /\ other # None /\ Looks(p, other, want, T)
                -> "foreign"
           [] OTHER -> IF p \in reaped THEN "failed"
                       ELSE IF h = None THEN "stopped" ELSE "blocked"

\* A foreign server teaches the port it was found on, too.
LearnedFromForeign(learned, found, T) ==
  [p \in Project |->
     IF found[p] # "foreign" \/ OurPorts(p, T) # {} THEN learned[p]
     ELSE IF Answers(EffectiveWith(p, learned), T) THEN EffectiveWith(p, learned)
     ELSE Declared[p]]

\* `_holder_pids`.
HolderOf(p, T) ==
  LET e == Effective(p)' IN
  IF p \notin listed \/ e = None THEN None
  ELSE IF T[e] # None THEN T[e]
  ELSE IF statuses'[p] = "foreign" THEN DeclaredHolder(p, e, T) ELSE None

SettlesOn == [starting |-> {"running", "wrong port", "foreign", "blocked",
                            "failed"},
              stopping |-> {"stopped", "blocked"}]

\* A foreign stop succeeded and somebody else holds the port now (LWSM-1513).
Retaken(p) ==
  /\ p \in stopsDone
  /\ statuses'[p] \in RunningStates
  /\ None \notin {stopHolders[p], holders'[p]}
  /\ holders'[p] # stopHolders[p]

\* `_settle_overlay`.
Settled ==
  \E p \in Project :
    /\ overlay.path = p
    /\ \/ p \notin listed
       \/ Effective(p)' = None
       \/ /\ overlay.status = "starting"
          /\ p \in reaped \/ ChildGone(p)
       \/ statuses'[p] \in SettlesOn[overlay.status]
       \/ overlay.status = "stopping" /\ Retaken(p)

NoneReaped == {}

\* `_on_snapshot`.
OnSnapshot(s) ==
  LET T == snaps[s].table
      want == snaps[s].want
      learned == LearnedFromOurs(T)
      found == [p \in Project |->
                  IF p \in listed
                  THEN Classify(p, EffectiveWith(p, learned), want, T)
                  ELSE "unknown"] IN
  /\ Delivered(s)
  /\ snaps[s].pc = "read"
  /\ snaps' = [snaps EXCEPT ![s] = Unread]
  /\ inFlight' = FALSE
  /\ blind' = FALSE
  /\ confirmed' = LearnedFromForeign(learned, found, T)
  /\ statuses' = found
  /\ UNCHANGED <<listed, override>>
  /\ holders' = [p \in Project |-> HolderOf(p, T)]
  /\ managed' = {p \in listed : Owns(p, holders'[p])}
  /\ overlay' = IF Settled THEN NoOverlay ELSE overlay
  /\ reaped' = NoneReaped
  /\ UNCHANGED <<supervisor, table, stopHolders, stopsDone, gone, restarting,
                 upkeepInFlight, closed, upkeep, futures, trees, user>>
  /\ RenderIf(\/ Settled \/ statuses' # statuses
              \/ \E p \in listed : StatusOf(p)' = "starting")

\* Mutant: an outage goes on calling them ours.
ManagedKept == managed

NothingOurs == {}

\* `_on_probe_error`: every status is held, what we claim to own is not.
OnProbeError(s) ==
  /\ Delivered(s)
  /\ snaps[s].pc = "raised"
  /\ snaps' = [snaps EXCEPT ![s] = Unread]
  /\ inFlight' = FALSE
  /\ blind' = TRUE
  /\ holders' = [p \in Project |-> None]
  /\ managed' = NothingOurs
  /\ UNCHANGED <<supervisor, table, records, overlay, marks, statuses, gone,
                 restarting, upkeepInFlight, closed, upkeep, futures, trees,
                 user>>
  /\ RenderIf(\/ managed # {} \/ \E p \in Project : holders[p] # None
              \/ \E p \in listed : StatusOf(p) = "starting")

-----------------------------------------------------------------------------
(* Records, and the end                                                    *)

\* Mutant: the status of a record whose port moved is kept.
StatusesOfMoved(kept, moved) ==
  [p \in Project |-> IF p \in kept THEN statuses[p] ELSE "unknown"]

StatusesKept(kept, moved) ==
  [p \in Project |-> IF p \in kept \ moved THEN statuses[p] ELSE "unknown"]

\* `set_records`: a record whose port moved keeps nothing found on the old one.
SetRecords(newListed, newOverride) ==
  LET Before(p) == Effective(p)
      After(p) == CASE newOverride[p] # None -> newOverride[p]
                    [] newOverride[p] = None /\ confirmed[p] # None
                         -> confirmed[p]
                    [] OTHER -> Declared[p]
      moved == {p \in listed \cap newListed : Before(p) # After(p)} IN
  /\ "records" \in Hazard
  /\ ~closed
  /\ listed' = newListed
  /\ override' = newOverride
  /\ statuses' = StatusesKept(listed \cap newListed, moved)
  /\ managed' = managed \ moved
  /\ holders' = [p \in Project |-> IF p \in moved THEN None ELSE holders[p]]
  /\ UNCHANGED <<supervisor, table, confirmed, overlay, marks, gone, blind,
                 restarting, guards, closed, tasks, user>>
  /\ Render

\* A rescan drops a project, or finds it again.
Relist(p) ==
  SetRecords(IF p \in listed THEN listed \ {p} ELSE listed \cup {p}, override)

\* The user changes a port.
ChangePort(p, q) ==
  /\ p \in listed
  /\ override[p] # q
  /\ SetRecords(listed, [override EXCEPT ![p] = q])

\* `stop`, when the window closes; what is posted is dropped in its slot.
Quit ==
  /\ "quit" \in Hazard
  /\ ~closed
  /\ dialog = NoDialog
  /\ closed' = TRUE
  /\ inFlight' = FALSE
  /\ upkeepInFlight' = FALSE
  /\ blind' = FALSE
  /\ UNCHANGED <<supervisor, table, records, overlay, marks, statuses, gone,
                 holders, managed, restarting, tasks, shown, user>>

-----------------------------------------------------------------------------
(* Servers and other programs                                              *)

Listens(h, q) ==
  /\ table[q] = None
  /\ table' = [table EXCEPT ![q] = h]
  /\ UNCHANGED <<supervisor, records, overlay, marks, polled, restarting,
                 guards, closed, tasks, shown, user>>

ServerListens(c, q) == GroupAlive(c) /\ Listens(c, q)

StrangerListens(h, q) == Listens(h, q)

StrangerLeaves(h) ==
  /\ \E q \in Port : table[q] = h
  /\ table' = Freed(h)
  /\ UNCHANGED <<supervisor, records, overlay, marks, polled, restarting,
                 guards, closed, tasks, shown, user>>

\* A wrapper forks its server and exits.
LauncherExits(c) ==
  /\ life[c] = "live"
  /\ life' = [life EXCEPT ![c] = "forked"]
  /\ UNCHANGED <<entry, asked, table, records, overlay, marks, polled,
                 restarting, guards, closed, tasks, shown, user>>

\* The whole group exits by itself.
ServerExits(c) ==
  /\ GroupAlive(c)
  /\ life' = [life EXCEPT ![c] = "gone"]
  /\ table' = Freed(c)
  /\ UNCHANGED <<entry, asked, records, overlay, marks, polled, restarting,
                 guards, closed, tasks, shown, user>>

-----------------------------------------------------------------------------
Clicked ==
  \/ \E p \in Project : \/ ClickStart(p) \/ ClickStop(p) \/ ClickStopRefused(p)
                        \/ ClickRestart(p) \/ ClickRestartGone(p)
                        \/ ConfirmsGone(p)
                        \/ \E b \in {"stop", "restart"} :
                             \/ ClickDisclosed(p, b) \/ ConfirmsHeld(p, b)
                             \/ ConfirmsRefused(p, b)
  \/ DialogYes
  \/ DialogNo

StopStep(f) == \/ StopPops(f) \/ StopEnds(f) \/ StopReports(f)
               \/ StopRaises(f) \/ OnStopped(f)
TreeStep(t) == TreeEnds(t) \/ OnTreeDone(t)
UpkeepStep == UpkeepReaps \/ UpkeepLooks \/ OnUpkeep
SnapStep(s) == SnapReads(s) \/ SnapReports(s) \/ OnSnapshot(s) \/ OnProbeError(s)

Outside ==
  \/ \E c \in Server : LauncherExits(c) \/ ServerExits(c)
  \/ \E c \in Server, q \in Port : ServerListens(c, q)
  \/ \E h \in Stranger, q \in Port : StrangerListens(h, q)
  \/ \E h \in Stranger : StrangerLeaves(h)

Next ==
  \/ Clicked
  \/ \E f \in Future : StopStep(f)
  \/ \E t \in Tree : TreeStep(t)
  \/ Tick
  \/ UpkeepStep
  \/ \E s \in Snap : SnapStep(s)
  \/ \E p \in Project : Relist(p) \/ \E q \in Port \cup {None} : ChangePort(p, q)
  \/ Quit
  \/ DropResult
  \/ Outside

Spec == Init /\ [][Next]_vars

\* The timer ticks, pool tasks end and their results are delivered. The user,
\* the servers and other programs owe nothing.
Fairness ==
  /\ WF_vars(Tick)
  /\ WF_vars(UpkeepStep)
  /\ \A s \in Snap : WF_vars(SnapStep(s))
  /\ \A f \in Future : WF_vars(StopStep(f))
  /\ \A t \in Tree : WF_vars(TreeStep(t))

FairSpec == Spec /\ Fairness
-----------------------------------------------------------------------------
(* Safety                                                                  *)

\* The guards tell the truth: `_upkeep_in_flight` is set exactly while an
\* upkeep is out, and `_in_flight` exactly while a snapshot is out or one is
\* promised by the upkeep that is out. A guard left set freezes the poll for
\* the session, one left clear lets two polls overlap (LWSM-1069, LWSM-1401).
GuardsTrue ==
  ~closed =>
    /\ upkeepInFlight <=> upkeep.pc # "idle"
    /\ inFlight <=> \/ \E s \in Snap : snaps[s].pc # "idle"
                    \/ upkeep.pc # "idle" /\ upkeep.next

\* The poll skips a tick rather than queueing (design.md, Data flow): there is
\* never more than one snapshot out, with or without a promised one.
OneSnapshot ==
  /\ \A s, r \in Snap : (snaps[s].pc # "idle" /\ snaps[r].pc # "idle") => s = r
  /\ (upkeep.pc # "idle" /\ upkeep.next) => \A s \in Snap : snaps[s].pc = "idle"

\* A restart stays pending only while the stop it waits for is out; otherwise
\* some later ordinary Stop turns into a restart (known-issue-056, LWSM-1323).
RestartHasStop ==
  \A p \in restarting : \E f \in Future : futures[f].pc # "idle"
                                            /\ futures[f].path = p

\* What the controller keeps about work that is out is what is out: the two
\* in-flight guards, the single snapshot, the stop a restart waits for.
InFlightTrue == GuardsTrue /\ OneSnapshot /\ RestartHasStop

\* What the rows say of one poll agrees, also after the records changed under it
\* (review-code 2026-10-08 L02-L4): a row that reads `running` or `foreign` names
\* a holder, which Stop and Open ask about, while the table can be read; a row is
\* called ours only while it reads `running`, or `unknown` when it was unlisted
\* and listed again since; with the table unreadable nothing is (LWSM-1231).
RowsAgree ==
  ~closed => \A p \in listed :
    /\ statuses[p] \in {"running", "foreign"} /\ ~blind => holders[p] # None
    /\ p \in managed => ~blind /\ statuses[p] \in {"running", "unknown"}

\* What the user pressed last is what happens: no server is spawned for a
\* project on which Stop was the last button pressed (design.md: a restart has
\* no state of its own and no new failure mode).
StopMeansStop ==
  [][\A p \in Project :
       (\E c \in Server : life[c] = "unborn" /\ entry'[p] = c)
         => wish'[p] # "stop"]_vars

HasBoundNothing(p) == entry[p] # None /\ \A q \in Port : table[q] # entry[p]

\* A snapshot that this step delivers found nobody on q.
FoundFree(q) ==
  \A s \in Snap : (snaps[s].pc = "read" /\ snaps'[s].pc = "idle")
                    => ~Answers(q, snaps[s].table)

\* A row that reads `starting` goes on reading it while its server is alive and
\* has bound nothing, whatever else is delivered: slowness is not failure
\* (ADR-0004), and a reap is about the previous child (LWSM-1134, L6-H1). What
\* ends it is Stop, a new port, the overlay's move to another project, or a
\* snapshot that found somebody on its port, however old that snapshot is.
StartingKept ==
  [][\A p \in Project :
       (/\ StatusOf(p) = "starting" /\ HasBoundNothing(p)
        /\ p \in listed' /\ Effective(p)' = Effective(p) /\ Effective(p) # None
        /\ overlay'.path \in {None, p}
        /\ entry'[p] = entry[p] /\ life'[entry[p]] # "gone"
        /\ FoundFree(Effective(p)))
         => \/ StatusOf(p)' = "starting"
            \/ StatusOf(p)' = "stopping" /\ wish'[p] \in {"stop", "restart"}]_vars

\* A stop stops the server it was pressed for, never one started since: a stop
\* that waits for a thread is a stop in flight (`is_stopping`, LWSM-1191).
StopHitsItsServer ==
  [][\A f \in Future :
       (futures[f].pc = "queued" /\ futures'[f].pc = "stopping")
         => futures'[f].server = futures[f].meant]_vars

\* Nothing changes what the rows say once the controller is stopped, whatever
\* was posted before (INV-16, LWSM-1098).
SilentAfterQuit ==
  [][closed => UNCHANGED <<statuses, overlay, shown>>]_vars

-----------------------------------------------------------------------------
(* Liveness                                                                *)

\* The poll goes on for as long as the window is open.
PollGoesOn == []<>(closed \/ \E s \in Snap : s \in ToSet(posted))

\* A start's overlay ends once there is no server of ours still trying: it
\* exited, or something holds the port (LWSM-1134). Only a poll that reads the
\* table can tell, so an outage is left out here and in the next properties.
Trying(p) == /\ entry[p] # None /\ GroupAlive(entry[p])
             /\ Effective(p) # None => table[Effective(p)] = None

StartEnds ==
  \A p \in Project :
    []<>(closed \/ blind \/ overlay # Marked(p, "starting") \/ Trying(p))

\* Without a live server of ours no `starting` overlay stands for ever, even when
\* no poll can read the table any more (LWSM-1452).
DeadStartEnds ==
  \A p \in Project :
    []<>(\/ closed \/ overlay # Marked(p, "starting")
         \/ entry[p] # None /\ GroupAlive(entry[p]))

\* While the table can be read a stop's overlay ends: a poll reports the port
\* free, or shows that it can never get there (ADR-0004).
StoppingEnds ==
  \A p \in Project : []<>(closed \/ blind \/ overlay # Marked(p, "stopping"))

\* An exited child is remembered for one classification: without a child the
\* row does not go on reading `failed` (ADR-0004).
FailureFades ==
  \A p \in Project :
    []<>(closed \/ blind \/ entry[p] # None \/ statuses[p] # "failed")

\* No overlay and no `failed` outlives what it was about.
OverlaysEnd == StartEnds /\ DeadStartEnds /\ StoppingEnds /\ FailureFades

\* A restart comes to its start or its refusal.
RestartEnds == \A p \in Project : []<>(closed \/ p \notin restarting)

\* Start comes back: with nothing held, nothing under way and a free port, the
\* window does not go on disabling it (LWSM-1133, LWSM-1191).
Idle(p) == /\ p \in listed
           /\ entry[p] = None
           /\ \A f \in Future : futures[f].path # p
           /\ \A t \in Tree : trees[t].path # p
           /\ Effective(p) # None => table[Effective(p)] = None
           /\ (Effective(p) # Declared[p] /\ Declared[p] # None)
                => table[Declared[p]] = None

StartComesBack ==
  \A p \in Project : []<>(closed \/ blind \/ ~Idle(p) \/ "start" \in shown[p])

\* A server of ours can be stopped: before it binds, and when no table can be
\* read (LWSM-1372).
StopOffered ==
  \A p \in Project :
    []<>(\/ closed
         \/ p \notin listed
         \/ entry[p] = None
         \/ \E f \in Future : futures[f].path = p
         \/ "stop" \in shown[p])

\* The buttons come back to the row without the user's help.
ButtonsReturn == StartComesBack /\ StopOffered
=============================================================================
