-------------------------- MODULE ControllerProofs --------------------------
(* Theorems about Controller, for every value of its constants.            *)
EXTENDS Controller, FiniteSetTheorems, TLAPS

USE ControllerAssumption

USE DEF supervisor, records, marks, polled, guards, tasks, user

-----------------------------------------------------------------------------
(* What the operators return                                               *)

LEMMA EffectiveTyped ==
  ASSUME TypeOK, NEW p \in Project, NEW seen \in [Project -> Port \cup {None}]
  PROVE  EffectiveWith(p, seen) \in Port \cup {None}
  BY DEF TypeOK, EffectiveWith

LEMMA SeenTyped ==
  ASSUME TypeOK, NEW p \in Project, NEW T
  PROVE  SeenByOurs(p, T) \in Port \cup {None}
  <1> DEFINE ours == OurPorts(p, T)
  <1>1. ours \subseteq Port
    BY DEF OurPorts
  <1>2. Effective(p) \in Port \cup {None} /\ Declared[p] \in Port \cup {None}
    BY EffectiveTyped DEF TypeOK, Effective
  <1>3. Cardinality(ours) = 1 => (CHOOSE q \in ours : TRUE) \in Port
    <2>1. Cardinality(ours) = 1 => ours # {}
      BY FS_EmptySet
    <2>2. QED
      BY <1>1, <2>1
  <1>4. QED
    BY <1>2, <1>3 DEF SeenByOurs

LEMMA LearnedOursTyped ==
  ASSUME TypeOK, NEW T
  PROVE  LearnedFromOurs(T) \in [Project -> Port \cup {None}]
  BY SeenTyped DEF LearnedFromOurs, TypeOK

LEMMA LearnedForeignTyped ==
  ASSUME TypeOK, NEW learned \in [Project -> Port \cup {None}], NEW found, NEW T
  PROVE  LearnedFromForeign(learned, found, T) \in [Project -> Port \cup {None}]
  BY EffectiveTyped DEF LearnedFromForeign

LEMMA ClassifyTyped ==
  ASSUME NEW p, NEW e, NEW want, NEW T
  PROVE  Classify(p, e, want, T) \in Status
  BY DEF Classify, Status

LEMMA ShownTyped ==
  ASSUME shown \in [Project -> SUBSET Button], NEW b \in BOOLEAN,
         Render \/ RenderIf(b)
  PROVE  shown' \in [Project -> SUBSET Button]
  <1>1. \A p : Buttons(p)' \subseteq Button
    BY DEF Buttons
  <1>2. QED
    BY <1>1 DEF Render, RenderIf

LEMMA SpawnTyped ==
  ASSUME TypeOK, NEW p \in Project, NEW c \in Server, Spawn(p, c)
  PROVE  /\ entry' \in [Project -> Server \cup {None}]
         /\ life' \in [Server -> {"unborn", "live", "forked", "gone"}]
         /\ asked' \in [Server -> Port \cup {None}]
         /\ overlay' = Marked(p, "starting")
         /\ reaped' \in SUBSET Project
         /\ stopHolders' \in [Project -> Holder \cup {None}]
         /\ stopsDone' \in SUBSET Project
  <1>1. Effective(p) \in Port \cup {None}
    BY EffectiveTyped DEF TypeOK, Effective
  <1>2. QED
    BY <1>1 DEF TypeOK, Spawn, SetOverlay

LEMMA QueueTyped ==
  ASSUME TypeOK, NEW p \in Project, QueueStop(p)
  PROVE  /\ futures' \in [Future -> FutureTask]
         /\ overlay' = Marked(p, "stopping")
         /\ reaped' \in SUBSET Project
         /\ stopHolders' \in [Project -> Holder \cup {None}]
         /\ stopsDone' \in SUBSET Project
  <1>1. PICK f \in Future :
          futures' = [futures EXCEPT ![f] = [NoFuture EXCEPT !.pc = "queued",
                                               !.path = p, !.meant = entry[p]]]
    BY DEF QueueStop
  <1>2. [NoFuture EXCEPT !.pc = "queued", !.path = p, !.meant = entry[p]]
          \in FutureTask
    <2>1. entry[p] \in Server \cup {None}
      BY DEF TypeOK
    <2>2. QED
      BY <2>1 DEF NoFuture, FutureTask, Outcome
  <1>3. QED
    BY <1>1, <1>2 DEF TypeOK, QueueStop, SetOverlay

LEMMA FutureTyped ==
  ASSUME NEW r \in FutureTask
  PROVE  /\ NoFuture \in FutureTask
         /\ \A pc \in {"queued", "stopping", "probing", "done"} :
              /\ [r EXCEPT !.pc = pc] \in FutureTask
              /\ \A o \in Outcome :
                   [r EXCEPT !.pc = pc, !.outcome = o] \in FutureTask
              /\ \A c \in Server \cup {None} :
                   [r EXCEPT !.pc = pc, !.server = c] \in FutureTask
  BY DEF NoFuture, FutureTask, Outcome

LEMMA SnapTyped ==
  ASSUME NEW r \in SnapTask
  PROVE  /\ Unread \in SnapTask
         /\ [r EXCEPT !.pc = "raised"] \in SnapTask
         /\ \A T \in Table : [r EXCEPT !.pc = "read", !.table = T] \in SnapTask
         /\ \A w \in [Project -> Port \cup {None}] :
              [Unread EXCEPT !.pc = "queued", !.want = w] \in SnapTask
  BY DEF Unread, SnapTask, Table, Holder

LEMMA FreedTyped ==
  ASSUME TypeOK, NEW h
  PROVE  Freed(h) \in Table
  BY DEF TypeOK, Freed, Table

LEMMA PostTyped ==
  ASSUME TypeOK, NEW x \in Task
  PROVE  /\ Post(x) => posted' \in Seq(Task)
         /\ Delivered(x) => posted' \in Seq(Task)
  <1>1. posted \in Seq(Task)
    BY DEF TypeOK
  <1>2. Append(posted, x) \in Seq(Task)
    BY <1>1
  <1>3. posted # <<>> => Tail(posted) \in Seq(Task)
    BY <1>1
  <1>4. QED
    BY <1>2, <1>3 DEF Post, Delivered

-----------------------------------------------------------------------------
(* Type correctness                                                        *)

LEMMA TypeInit == Init => TypeOK
  <1> SUFFICES ASSUME Init PROVE TypeOK
    OBVIOUS
  <1>1. upkeep \in UpkeepTask
    BY DEF Init, NoUpkeep, UpkeepTask
  <1>2. snaps \in [Snap -> SnapTask]
    BY DEF Init, Unread, SnapTask, Table
  <1>3. futures \in [Future -> FutureTask]
    BY DEF Init, NoFuture, FutureTask, Outcome
  <1>4. trees \in [Tree -> TreeTask]
    BY DEF Init, NoTree, TreeTask
  <1>5. dialog \in Dialog
    BY DEF Init, NoDialog, Dialog
  <1>6. posted \in Seq(Task)
    BY DEF Init
  <1>7. shown \in [Project -> SUBSET Button]
    BY DEF Init, Button
  <1>8. statuses \in [Project -> Status]
    BY DEF Init, Status
  <1>9. /\ blind \in BOOLEAN /\ inFlight \in BOOLEAN
        /\ upkeepInFlight \in BOOLEAN /\ closed \in BOOLEAN
    BY DEF Init
  <1>10. /\ overlay = NoOverlay
         /\ wish \in [Project -> Button \cup {"none"}]
    BY DEF Init
  <1>11. /\ entry \in [Project -> Server \cup {None}]
         /\ life \in [Server -> {"unborn", "live", "forked", "gone"}]
         /\ asked \in [Server -> Port \cup {None}]
         /\ override \in [Project -> Port \cup {None}]
         /\ confirmed \in [Project -> Port \cup {None}]
         /\ holders \in [Project -> Holder \cup {None}]
         /\ stopHolders \in [Project -> Holder \cup {None}]
    BY DEF Init
  <1>12. /\ listed \in SUBSET Project /\ reaped \in SUBSET Project
         /\ gone \in SUBSET Project /\ managed \in SUBSET Project
         /\ restarting \in SUBSET Project /\ stopsDone \in SUBSET Project
    BY DEF Init
  <1>13. table \in Table
    BY DEF Init, Table
  <1>14. QED
    BY <1>1, <1>2, <1>3, <1>4, <1>5, <1>6, <1>7, <1>8, <1>9, <1>10, <1>11,
       <1>12, <1>13 DEF TypeOK

LEMMA TypeStart ==
  ASSUME TypeOK, NEW p \in Project,
         ClickStart(p) \/ ClickRestartGone(p) \/ ConfirmsGone(p)
  PROVE  TypeOK'
  <1>1. shown' \in [Project -> SUBSET Button]
    <2>1. RenderIf(entry' # entry) /\ shown \in [Project -> SUBSET Button]
      BY DEF TypeOK, ClickStart, ClickRestartGone, ConfirmsGone
    <2>2. (entry' # entry) \in BOOLEAN
      OBVIOUS
    <2>3. QED
      BY <2>1, <2>2, ShownTyped
  <1>2. wish' \in [Project -> Button \cup {"none"}]
    BY DEF TypeOK, ClickStart, ClickRestartGone, ConfirmsGone, Clicks, Confirms, Button
  <1>d. dialog' \in Dialog
    BY DEF TypeOK, ClickStart, ClickRestartGone, ConfirmsGone, Confirms, NoDialog, Dialog
  <1>r. /\ StartOrRefusal(p)
        /\ UNCHANGED <<table, records, polled, restarting, guards, closed, tasks>>
    BY DEF ClickStart, ClickRestartGone, ConfirmsGone
  <1>3. CASE \E c \in Server : Spawn(p, c)
    BY <1>1, <1>2, <1>d, <1>r, <1>3, SpawnTyped DEF TypeOK
  <1>4. CASE UNCHANGED <<supervisor, overlay, marks>>
    BY <1>1, <1>2, <1>d, <1>r, <1>4 DEF TypeOK
  <1>5. QED
    BY <1>r, <1>3, <1>4 DEF StartOrRefusal

LEMMA TypeQueue ==
  ASSUME TypeOK, NEW p \in Project, NEW b \in {"stop", "restart"},
         ClickStop(p) \/ ClickRestart(p) \/ ConfirmsHeld(p, b)
  PROVE  TypeOK'
  <1>1. shown' \in [Project -> SUBSET Button]
    BY ShownTyped DEF TypeOK, ClickStop, ClickRestart, ConfirmsHeld
  <1>2. wish' \in [Project -> Button \cup {"none"}]
    BY DEF TypeOK, ClickStop, ClickRestart, ConfirmsHeld, Clicks, Confirms, Button
  <1>d. dialog' \in Dialog
    BY DEF TypeOK, ClickStop, ClickRestart, ConfirmsHeld, Confirms, NoDialog, Dialog
  <1>3. /\ QueueStop(p)
        /\ UNCHANGED <<supervisor, table, records, polled, guards, closed, upkeep,
                       snaps, trees, posted>>
    BY DEF ClickStop, ClickRestart, ConfirmsHeld
  <1>4. restarting' \in SUBSET Project
    BY DEF TypeOK, ClickStop, ClickRestart, ConfirmsHeld
  <1>5. QED
    BY <1>1, <1>2, <1>d, <1>3, <1>4, QueueTyped DEF TypeOK

LEMMA TypeForeign ==
  ASSUME TypeOK, NEW p \in Project, NEW b \in {"stop", "restart"},
         ClickDisclosed(p, b) \/ ClickStopRefused(p) \/ ConfirmsRefused(p, b)
  PROVE  TypeOK'
  <1>1. CASE ClickDisclosed(p, b)
    <2>1. dialog' \in Dialog
      <3>1. /\ dialog' = [path |-> p, holder |-> holders[p],
                 act |-> IF b = "stop" /\ AsksAboutHolder(p) THEN "tree" ELSE b]
            /\ holders[p] \in Holder \cup {None}
        BY <1>1 DEF TypeOK, ClickDisclosed
      <3>2. (IF b = "stop" /\ AsksAboutHolder(p) THEN "tree" ELSE b)
              \in {"none", "tree", "stop", "restart"}
        OBVIOUS
      <3>3. QED
        BY <3>1, <3>2 DEF Dialog
    <2>2. QED
      BY <1>1, <2>1 DEF TypeOK, ClickDisclosed
  <1>2. CASE ClickStopRefused(p)
    <2>1. wish' \in [Project -> Button \cup {"none"}]
      BY <1>2 DEF TypeOK, ClickStopRefused, Clicks, Button
    <2>2. QED
      BY <1>2, <2>1 DEF TypeOK, ClickStopRefused
  <1>3. CASE ConfirmsRefused(p, b)
    <2>1. wish' \in [Project -> Button \cup {"none"}] /\ dialog' \in Dialog
      BY <1>3 DEF TypeOK, ConfirmsRefused, Confirms, Button, NoDialog, Dialog
    <2>2. QED
      BY <1>3, <2>1 DEF TypeOK, ConfirmsRefused
  <1>4. QED
    BY <1>1, <1>2, <1>3

LEMMA TypeDialog ==
  ASSUME TypeOK, DialogYes \/ DialogNo
  PROVE  TypeOK'
  <1>1. CASE DialogYes
    <2> DEFINE q == dialog.path
    <2>1. q \in Project /\ dialog.holder \in Holder \cup {None}
      BY <1>1 DEF TypeOK, DialogYes, Dialog
    <2>2. PICK t \in Tree :
            trees' = [trees EXCEPT ![t] = [pc |-> "queued", path |-> q,
                                     holder |-> dialog.holder, ok |-> FALSE]]
      BY <1>1 DEF DialogYes
    <2>3. trees' \in [Tree -> TreeTask]
      BY <2>1, <2>2 DEF TypeOK, TreeTask
    <2>4. /\ overlay' = Marked(q, "stopping")
          /\ reaped' \in SUBSET Project
          /\ stopHolders' \in [Project -> Holder \cup {None}]
          /\ stopsDone' \in SUBSET Project
      BY <1>1, <2>1 DEF TypeOK, DialogYes
    <2>5. shown' \in [Project -> SUBSET Button]
      BY <1>1, ShownTyped DEF TypeOK, DialogYes
    <2>6. wish' \in [Project -> Button \cup {"none"}]
      BY <1>1, <2>1 DEF TypeOK, DialogYes, Button
    <2>7. dialog' \in Dialog
      BY <1>1 DEF DialogYes, NoDialog, Dialog
    <2>8. QED
      BY <1>1, <2>1, <2>3, <2>4, <2>5, <2>6, <2>7 DEF TypeOK, DialogYes
  <1>2. CASE DialogNo
    <2>1. dialog' \in Dialog
      BY <1>2 DEF DialogNo, NoDialog, Dialog
    <2>2. QED
      BY <1>2, <2>1 DEF TypeOK, DialogNo
  <1>3. QED
    BY <1>1, <1>2

LEMMA TypeClicked ==
  ASSUME TypeOK, Clicked
  PROVE  TypeOK'
  BY TypeStart, TypeQueue, TypeForeign, TypeDialog DEF Clicked

\* A task that is out works for a project; a stop past its pop has a server.
TasksBound ==
  /\ \A f \in Future :
       /\ futures[f].pc # "idle" => futures[f].path \in Project
       /\ futures[f].pc \in {"stopping", "probing"} => futures[f].server \in Server
  /\ \A t \in Tree :
       /\ trees[t].pc # "idle" => trees[t].path \in Project
       /\ trees[t].ok => trees[t].pc # "idle"

LEMMA TypeStops ==
  ASSUME TypeOK, TasksBound, NEW f \in Future,
         StopPops(f) \/ StopEnds(f) \/ StopReports(f) \/ StopRaises(f)
  PROVE  TypeOK'
  <1>1. futures[f] \in FutureTask /\ f \in Task
    BY DEF TypeOK, Task
  <1>2. CASE StopPops(f)
    <2>1. futures[f].path \in Project
      BY <1>2 DEF StopPops, TasksBound
    <2>2. entry[futures[f].path] \in Server \cup {None}
      BY <2>1 DEF TypeOK
    <2>3. entry' \in [Project -> Server \cup {None}]
      <3>1. entry' = [entry EXCEPT ![futures[f].path] = None]
        BY <1>2 DEF StopPops
      <3>2. entry \in [Project -> Server \cup {None}]
        BY DEF TypeOK
      <3>3. QED
        BY <3>1, <3>2, <2>1
    <2>4. UNCHANGED <<life, asked, table, records, overlay, marks, polled,
                      restarting, guards, closed, upkeep, snaps, trees, shown,
                      user>>
      BY <1>2 DEF StopPops
    <2>5. CASE entry[futures[f].path] = None
      <3>1. /\ futures' = [futures EXCEPT ![f].pc = "done",
                                          ![f].outcome = "empty"]
            /\ Post(f)
        BY <1>2, <2>5 DEF StopPops
      <3>2. [futures[f] EXCEPT !.pc = "done", !.outcome = "empty"] \in FutureTask
        BY <1>1, FutureTyped DEF Outcome
      <3>3. futures' \in [Future -> FutureTask]
        BY <3>1, <3>2 DEF TypeOK
      <3>4. posted' \in Seq(Task)
        BY <1>1, <3>1, PostTyped
      <3>5. QED
        BY <2>3, <2>4, <3>3, <3>4 DEF TypeOK
    <2>6. CASE entry[futures[f].path] # None
      <3>1. /\ futures' = [futures EXCEPT ![f].pc = "stopping",
                                   ![f].server = entry[futures[f].path]]
            /\ UNCHANGED posted
        BY <1>2, <2>6 DEF StopPops
      <3>2. [futures[f] EXCEPT !.pc = "stopping",
                               !.server = entry[futures[f].path]] \in FutureTask
        BY <1>1, <2>2, FutureTyped
      <3>3. futures' \in [Future -> FutureTask]
        BY <3>1, <3>2 DEF TypeOK
      <3>4. QED
        BY <2>3, <2>4, <3>1, <3>3 DEF TypeOK
    <2>7. QED
      BY <2>5, <2>6
  <1>3. CASE StopEnds(f)
    <2>1. [futures[f] EXCEPT !.pc = "probing"] \in FutureTask
      BY <1>1, FutureTyped
    <2>2. futures' \in [Future -> FutureTask]
      BY <1>3, <2>1 DEF TypeOK, StopEnds
    <2>3. /\ life' \in [Server -> {"unborn", "live", "forked", "gone"}]
          /\ table' \in Table
      BY <1>3, FreedTyped DEF TypeOK, StopEnds
    <2>4. QED
      BY <1>3, <2>2, <2>3 DEF TypeOK, StopEnds
  <1>4. CASE StopReports(f)
    <2>1. PICK o \in {"ok", "bound"} :
            futures' = [futures EXCEPT ![f].pc = "done", ![f].outcome = o]
      BY <1>4 DEF StopReports
    <2>2. [futures[f] EXCEPT !.pc = "done", !.outcome = o] \in FutureTask
      BY <1>1, <2>1, FutureTyped DEF Outcome
    <2>3. futures' \in [Future -> FutureTask]
      BY <2>1, <2>2 DEF TypeOK
    <2>4. posted' \in Seq(Task)
      BY <1>1, <1>4, PostTyped DEF StopReports
    <2>5. QED
      BY <1>4, <2>3, <2>4 DEF TypeOK, StopReports
  <1>5. CASE StopRaises(f)
    <2>1. [futures[f] EXCEPT !.pc = "done", !.outcome = "raised"] \in FutureTask
      BY <1>1, FutureTyped DEF Outcome
    <2>2. futures' \in [Future -> FutureTask]
      BY <1>5, <2>1 DEF TypeOK, StopRaises
    <2>3. posted' \in Seq(Task)
      BY <1>1, <1>5, PostTyped DEF StopRaises
    <2>4. futures[f].server \in Server
      BY <1>5 DEF StopRaises, TasksBound
    <2>5. entry' \in [Project -> Server \cup {None}]
      BY <1>5, <2>4 DEF TypeOK, StopRaises
    <2>6. QED
      BY <1>5, <2>2, <2>3, <2>5 DEF TypeOK, StopRaises
  <1>6. QED
    BY <1>2, <1>3, <1>4, <1>5

LEMMA ClearedTyped ==
  ASSUME TypeOK, NEW p
  PROVE  /\ Cleared(p) \in {overlay, NoOverlay}
         /\ OverlayUnread(p) \in {overlay, NoOverlay}
  BY DEF Cleared, OverlayUnread

LEMMA TypeStopped ==
  ASSUME TypeOK, NEW f \in Future, OnStopped(f)
  PROVE  TypeOK'
  <1> DEFINE p == futures[f].path
  <1>1. f \in Task /\ Delivered(f)
    BY DEF Task, OnStopped
  <1>2. posted' \in Seq(Task)
    BY <1>1, PostTyped
  <1>3. futures' \in [Future -> FutureTask]
    <2>1. NoFuture \in FutureTask
      BY DEF NoFuture, FutureTask, Outcome
    <2>2. QED
      BY <2>1 DEF TypeOK, OnStopped
  <1>4. shown' \in [Project -> SUBSET Button]
    BY ShownTyped DEF TypeOK, OnStopped, RenderStopped
  <1>5. restarting' \in SUBSET Project
    BY DEF TypeOK, OnStopped, NotRestarting
  <1>6. CASE p \in restarting /\ \E c \in Server : Spawn(p, c)
    <2>1. p \in Project
      BY <1>6 DEF TypeOK
    <2>2. PICK c \in Server : Spawn(p, c)
      BY <1>6
    <2>3. QED
      BY <1>2, <1>3, <1>4, <1>5, <2>1, <2>2, SpawnTyped DEF TypeOK, OnStopped
  <1>7. CASE overlay' \in {overlay, NoOverlay} /\ UNCHANGED <<supervisor, marks>>
    BY <1>2, <1>3, <1>4, <1>5, <1>7 DEF TypeOK, OnStopped
  <1>8. QED
    BY <1>6, <1>7, ClearedTyped DEF OnStopped

LEMMA TypeTree ==
  ASSUME TypeOK, TasksBound, NEW t \in Tree, TreeStep(t)
  PROVE  TypeOK'
  <1>1. trees[t] \in TreeTask /\ t \in Task
    BY DEF TypeOK, Task
  <1>2. CASE TreeEnds(t)
    <2>1. PICK ok \in BOOLEAN :
            trees' = [trees EXCEPT ![t].pc = "done", ![t].ok = ok]
      BY <1>2 DEF TreeEnds
    <2>2. [trees[t] EXCEPT !.pc = "done", !.ok = ok] \in TreeTask
      BY <1>1 DEF TreeTask
    <2>3. trees' \in [Tree -> TreeTask]
      BY <2>1, <2>2 DEF TypeOK
    <2>4. posted' \in Seq(Task)
      BY <1>1, <1>2, PostTyped DEF TreeEnds
    <2>5. /\ life' \in [Server -> {"unborn", "live", "forked", "gone"}]
          /\ table' \in Table
      BY <1>2, FreedTyped DEF TypeOK, TreeEnds
    <2>6. QED
      BY <1>2, <2>3, <2>4, <2>5 DEF TypeOK, TreeEnds
  <1>3. CASE OnTreeDone(t)
    <2>1. posted' \in Seq(Task)
      BY <1>1, <1>3, PostTyped DEF OnTreeDone
    <2>2. trees' \in [Tree -> TreeTask]
      BY <1>3 DEF TypeOK, OnTreeDone, NoTree, TreeTask
    <2>3. restarting' \in SUBSET Project /\ stopsDone' \in SUBSET Project
      BY <1>3 DEF TypeOK, OnTreeDone, TasksBound
    <2>4. overlay' \in {overlay, NoOverlay}
      BY <1>3, ClearedTyped DEF OnTreeDone
    <2>5. shown' \in [Project -> SUBSET Button]
      BY <1>3, ShownTyped DEF TypeOK, OnTreeDone
    <2>6. QED
      BY <1>3, <2>1, <2>2, <2>3, <2>4, <2>5 DEF TypeOK, OnTreeDone
  <1>4. QED
    BY <1>2, <1>3 DEF TreeStep

LEMMA TypeUpkeep ==
  ASSUME TypeOK, Tick \/ UpkeepStep
  PROVE  TypeOK'
  <1> Dead \in SUBSET Project
    BY DEF Dead
  <1>0. upkeep \in UpkeepTask
    BY DEF TypeOK
  <1>1. CASE Tick
    <2>1. upkeep' \in UpkeepTask
      BY <1>1 DEF Tick, NoUpkeep, UpkeepTask, SnapshotNext
    <2>2. QED
      BY <1>1, <2>1 DEF TypeOK, Tick
  <1>2. CASE UpkeepReaps
    <2>1. upkeep' \in UpkeepTask
      BY <1>0, <1>2 DEF UpkeepReaps, UpkeepTask
    <2>2. entry' \in [Project -> Server \cup {None}]
      BY <1>2 DEF TypeOK, UpkeepReaps
    <2>3. QED
      BY <1>2, <2>1, <2>2 DEF TypeOK, UpkeepReaps
  <1>3. CASE UpkeepLooks
    <2>1. upkeep' \in UpkeepTask
      BY <1>0, <1>3 DEF UpkeepLooks, UpkeepTask
    <2>2. posted' \in Seq(Task)
      BY <1>3, PostTyped DEF UpkeepLooks, Task
    <2>3. QED
      BY <1>3, <2>1, <2>2 DEF TypeOK, UpkeepLooks
  <1>4. CASE OnUpkeep
    <2>1. upkeep' \in UpkeepTask
      BY <1>4 DEF OnUpkeep, NoUpkeep, UpkeepTask
    <2>2. posted' \in Seq(Task)
      BY <1>4, PostTyped DEF OnUpkeep, Task
    <2>3. snaps' \in [Snap -> SnapTask] /\ inFlight' \in BOOLEAN
      <3>1. CASE upkeep.next
        <4>1. inFlight' = TRUE /\ StartSnapshot
          BY <1>4, <3>1 DEF OnUpkeep
        <4> DEFINE want == [p \in Project |-> IF p \in listed THEN Effective(p)
                                                              ELSE None]
        <4>2. want \in [Project -> Port \cup {None}]
          BY EffectiveTyped DEF TypeOK, Effective
        <4>3. [Unread EXCEPT !.pc = "queued", !.want = want] \in SnapTask
          BY <4>2 DEF Unread, SnapTask, Table
        <4>4. PICK s \in Snap :
                snaps' = [snaps EXCEPT ![s] = [Unread EXCEPT !.pc = "queued",
                                                             !.want = want]]
          BY <4>1 DEF StartSnapshot
        <4>5. QED
          BY <4>1, <4>3, <4>4 DEF TypeOK
      <3>2. CASE ~upkeep.next
        BY <1>4, <3>2 DEF TypeOK, OnUpkeep
      <3>3. QED
        BY <3>1, <3>2
    <2>4. overlay' \in {overlay, NoOverlay}
      BY <1>4 DEF OnUpkeep, StartUnobserved
    <2>5. shown' \in [Project -> SUBSET Button]
      <3>1. RenderIf(overlay' # overlay) /\ shown \in [Project -> SUBSET Button]
        BY <1>4 DEF TypeOK, OnUpkeep
      <3>2. (overlay' # overlay) \in BOOLEAN
        OBVIOUS
      <3>3. QED
        BY <3>1, <3>2, ShownTyped
    <2>6. /\ reaped' \in SUBSET Project /\ gone' \in SUBSET Project
          /\ upkeepInFlight' \in BOOLEAN
      <3>1. upkeep.reaped \in SUBSET Project /\ upkeep.gone \in SUBSET Project
        BY <1>0 DEF UpkeepTask
      <3>2. reaped' = reaped \cup upkeep.reaped /\ gone' = upkeep.gone
            /\ upkeepInFlight' = FALSE
        BY <1>4 DEF OnUpkeep
      <3>3. reaped \in SUBSET Project
        BY DEF TypeOK
      <3>4. QED
        BY <3>1, <3>2, <3>3
    <2>7. UNCHANGED <<supervisor, table, records, stopHolders, stopsDone,
                      statuses, holders, managed, blind, restarting, closed,
                      futures, trees, user>>
      BY <1>4 DEF OnUpkeep
    <2>8. QED
      BY <2>1, <2>2, <2>3, <2>4, <2>5, <2>6, <2>7 DEF TypeOK
  <1>5. QED
    BY <1>1, <1>2, <1>3, <1>4 DEF UpkeepStep

LEMMA TypeSnapReads ==
  ASSUME TypeOK, NEW s \in Snap, SnapReads(s) \/ SnapReports(s)
  PROVE  TypeOK'
  <1>1. snaps[s] \in SnapTask /\ snaps \in [Snap -> SnapTask] /\ table \in Table
    BY DEF TypeOK
  <1>2. CASE SnapReads(s)
    <2>1. /\ [snaps[s] EXCEPT !.pc = "read", !.table = table] \in SnapTask
          /\ [snaps[s] EXCEPT !.pc = "raised"] \in SnapTask
      BY <1>1, SnapTyped
    <2>2. \/ snaps' = [snaps EXCEPT ![s].pc = "read", ![s].table = table]
          \/ snaps' = [snaps EXCEPT ![s].pc = "raised"]
      BY <1>2 DEF SnapReads
    <2>3. snaps' \in [Snap -> SnapTask]
      BY <1>1, <2>1, <2>2
    <2>4. QED
      BY <1>2, <2>3 DEF TypeOK, SnapReads
  <1>3. CASE SnapReports(s)
    <2>1. posted' \in Seq(Task)
      BY <1>3, PostTyped DEF SnapReports, Task
    <2>2. QED
      BY <1>3, <2>1 DEF TypeOK, SnapReports
  <1>4. QED
    BY <1>2, <1>3

LEMMA HolderTyped ==
  ASSUME NEW p \in Project, NEW T \in Table,
         override' \in [Project -> Port \cup {None}],
         confirmed' \in [Project -> Port \cup {None}]
  PROVE  HolderOf(p, T) \in Holder \cup {None}
  <1>1. Effective(p)' \in Port \cup {None}
    BY DEF Effective, EffectiveWith
  <1>2. \A e : DeclaredHolder(p, e, T) \in Holder \cup {None}
    BY DEF DeclaredHolder, Answers, Table
  <1>3. QED
    BY <1>1, <1>2 DEF HolderOf, Table

LEMMA TypeSnapshot ==
  ASSUME TypeOK, NEW s \in Snap, OnSnapshot(s)
  PROVE  TypeOK'
  <1> DEFINE T == snaps[s].table
             want == snaps[s].want
             learned == LearnedFromOurs(T)
             found == [p \in Project |->
                         IF p \in listed
                         THEN Classify(p, EffectiveWith(p, learned), want, T)
                         ELSE "unknown"]
  <1>1. snaps[s] \in SnapTask /\ T \in Table /\ snaps \in [Snap -> SnapTask]
    BY DEF TypeOK, SnapTask
  <1>2. posted' \in Seq(Task)
    BY PostTyped DEF OnSnapshot, Task
  <1>3. snaps' \in [Snap -> SnapTask]
    BY <1>1, SnapTyped DEF OnSnapshot
  <1>4. learned \in [Project -> Port \cup {None}]
    BY LearnedOursTyped
  <1>5. confirmed' \in [Project -> Port \cup {None}]
    <2>1. confirmed' = LearnedFromForeign(learned, found, T)
      BY DEF OnSnapshot
    <2>2. QED
      BY <1>4, <2>1, LearnedForeignTyped
  <1>6. statuses' \in [Project -> Status]
    <2>1. statuses' = found
      BY DEF OnSnapshot
    <2>2. "unknown" \in Status
      BY DEF Status
    <2>3. QED
      BY <2>1, <2>2, ClassifyTyped
  <1>7. override' \in [Project -> Port \cup {None}] /\ listed' = listed
    BY DEF TypeOK, OnSnapshot
  <1>8. holders' \in [Project -> Holder \cup {None}]
    <2>1. holders' = [p \in Project |-> HolderOf(p, T)]
      BY DEF OnSnapshot
    <2>2. QED
      BY <1>1, <1>5, <1>7, <2>1, HolderTyped
  <1>9. managed' \in SUBSET Project
    BY DEF TypeOK, OnSnapshot
  <1>10. /\ overlay' \in {overlay, NoOverlay}
         /\ inFlight' \in BOOLEAN /\ blind' \in BOOLEAN /\ reaped' = {}
    BY DEF OnSnapshot, NoneReaped
  <1>11. shown' \in [Project -> SUBSET Button]
    <2>1. shown \in [Project -> SUBSET Button]
      BY DEF TypeOK
    <2>2. \E b \in BOOLEAN : RenderIf(b)
      <3> DEFINE b == \/ Settled \/ statuses' # statuses
                      \/ \E p \in listed : StatusOf(p)' = "starting"
      <3>1. RenderIf(b)
        BY DEF OnSnapshot
      <3>2. RenderIf(TRUE) \/ RenderIf(FALSE)
        BY <3>1 DEF RenderIf
      <3>3. QED
        BY <3>2
    <2>3. QED
      BY <2>1, <2>2, ShownTyped
  <1>12. UNCHANGED <<supervisor, table, stopHolders, stopsDone, gone, restarting,
                     upkeepInFlight, closed, upkeep, futures, trees, user>>
    BY DEF OnSnapshot
  <1>13. QED
    BY <1>2, <1>3, <1>5, <1>6, <1>7, <1>8, <1>9, <1>10, <1>11, <1>12 DEF TypeOK

LEMMA TypeProbeError ==
  ASSUME TypeOK, NEW s \in Snap, OnProbeError(s)
  PROVE  TypeOK'
  <1>1. snaps[s] \in SnapTask /\ snaps \in [Snap -> SnapTask]
    BY DEF TypeOK
  <1>2. posted' \in Seq(Task)
    BY PostTyped DEF OnProbeError, Task
  <1>3. snaps' \in [Snap -> SnapTask]
    BY <1>1, SnapTyped DEF OnProbeError
  <1>4. shown' \in [Project -> SUBSET Button]
    <2>1. shown \in [Project -> SUBSET Button]
      BY DEF TypeOK
    <2>2. RenderIf(TRUE) \/ RenderIf(FALSE)
      BY DEF OnProbeError, RenderIf
    <2>3. QED
      BY <2>1, <2>2, ShownTyped
  <1>5. /\ inFlight' \in BOOLEAN /\ blind' \in BOOLEAN /\ managed' = {}
        /\ holders' = [p \in Project |-> None]
    BY DEF OnProbeError, NothingOurs
  <1>6. UNCHANGED <<supervisor, table, records, overlay, marks, statuses, gone,
                    restarting, upkeepInFlight, closed, upkeep, futures, trees,
                    user>>
    BY DEF OnProbeError
  <1>7. QED
    BY <1>2, <1>3, <1>4, <1>5, <1>6 DEF TypeOK

LEMMA TypeRecords ==
  ASSUME TypeOK, NEW newListed \in SUBSET Project,
         NEW newOverride \in [Project -> Port \cup {None}],
         SetRecords(newListed, newOverride)
  PROVE  TypeOK'
  <1>1. statuses' \in [Project -> Status]
    <2>1. statuses \in [Project -> Status]
      BY DEF TypeOK
    <2>2. \E kept, moved : statuses' = StatusesKept(kept, moved)
      BY DEF SetRecords
    <2>3. QED
      BY <2>1, <2>2 DEF StatusesKept, Status
  <1>2. holders' \in [Project -> Holder \cup {None}]
    BY DEF TypeOK, SetRecords
  <1>3. managed' \in SUBSET Project
    BY DEF TypeOK, SetRecords
  <1>4. shown' \in [Project -> SUBSET Button]
    BY ShownTyped DEF TypeOK, SetRecords
  <1>5. listed' = newListed /\ override' = newOverride
    BY DEF SetRecords
  <1>6. UNCHANGED <<supervisor, table, confirmed, overlay, marks, gone, blind,
                    restarting, guards, closed, tasks, user>>
    BY DEF SetRecords
  <1>7. QED
    BY <1>1, <1>2, <1>3, <1>4, <1>5, <1>6 DEF TypeOK

LEMMA TypeWindow ==
  ASSUME TypeOK,
         \/ \E p \in Project : Relist(p) \/ \E q \in Port \cup {None} : ChangePort(p, q)
         \/ Quit \/ DropResult
  PROVE  TypeOK'
  <1>1. ASSUME NEW p \in Project, Relist(p) PROVE TypeOK'
    <2>1. override \in [Project -> Port \cup {None}] /\ listed \in SUBSET Project
      BY DEF TypeOK
    <2>2. PICK l \in SUBSET Project : SetRecords(l, override)
      BY <1>1, <2>1 DEF Relist
    <2>3. QED
      BY <2>1, <2>2, TypeRecords
  <1>2. ASSUME NEW p \in Project, NEW q \in Port \cup {None}, ChangePort(p, q)
        PROVE  TypeOK'
    <2>1. override \in [Project -> Port \cup {None}] /\ listed \in SUBSET Project
      BY DEF TypeOK
    <2>2. [override EXCEPT ![p] = q] \in [Project -> Port \cup {None}]
      BY <2>1
    <2>3. SetRecords(listed, [override EXCEPT ![p] = q])
      BY <1>2 DEF ChangePort
    <2>4. QED
      BY <2>1, <2>2, <2>3, TypeRecords
  <1>3. CASE Quit
    <2>1. /\ closed' \in BOOLEAN /\ inFlight' \in BOOLEAN
          /\ upkeepInFlight' \in BOOLEAN /\ blind' \in BOOLEAN
      BY <1>3 DEF Quit
    <2>2. UNCHANGED <<supervisor, table, records, overlay, marks, statuses, gone,
                      holders, managed, restarting, tasks, shown, user>>
      BY <1>3 DEF Quit
    <2>3. QED
      BY <2>1, <2>2 DEF TypeOK
  <1>4. CASE DropResult
    <2>1. posted \in Seq(Task) /\ posted # <<>> /\ posted' = Tail(posted)
      BY <1>4 DEF TypeOK, DropResult
    <2>2. posted' \in Seq(Task)
      BY <2>1
    <2>3. QED
      BY <1>4, <2>2 DEF TypeOK, DropResult
  <1>5. QED
    BY <1>1, <1>2, <1>3, <1>4

LEMMA TypeOutside ==
  ASSUME TypeOK, Outside
  PROVE  TypeOK'
  <1>1. ASSUME NEW c \in Server, LauncherExits(c) PROVE TypeOK'
    BY <1>1 DEF TypeOK, LauncherExits
  <1>2. ASSUME NEW c \in Server, ServerExits(c) PROVE TypeOK'
    BY <1>2, FreedTyped DEF TypeOK, ServerExits
  <1>3. ASSUME NEW h \in Holder, NEW q \in Port, Listens(h, q) PROVE TypeOK'
    <2>1. table' \in Table
      BY <1>3 DEF TypeOK, Listens, Table
    <2>2. QED
      BY <1>3, <2>1 DEF TypeOK, Listens
  <1>4. ASSUME NEW h \in Stranger, StrangerLeaves(h) PROVE TypeOK'
    BY <1>4, FreedTyped DEF TypeOK, StrangerLeaves
  <1>5. QED
    BY <1>1, <1>2, <1>3, <1>4 DEF Outside, ServerListens, StrangerListens, Holder

-----------------------------------------------------------------------------
(* What a step may change                                                  *)

NoQueue == futures' = futures /\ restarting' \subseteq restarting

\* Only the buttons and the stops' own steps touch the stops; only Restart
\* adds a pending restart, and it queues a stop.
LEMMA FuturesFrame ==
  ASSUME [Next]_vars
  PROVE  \/ NoQueue
         \/ \E p \in Project : QueueStop(p) /\ restarting' \subseteq restarting \cup {p}
         \/ \E f \in Future :
              /\ StopPops(f) \/ StopEnds(f) \/ StopReports(f) \/ StopRaises(f)
              /\ restarting' = restarting
         \/ \E f \in Future : OnStopped(f)
  <1>1. CASE Clicked
    <2>1. ASSUME NEW p \in Project,
                 ClickStart(p) \/ ClickRestartGone(p) \/ ConfirmsGone(p)
          PROVE  NoQueue
      BY <2>1 DEF NoQueue, ClickStart, ClickRestartGone, ConfirmsGone
    <2>2. ASSUME NEW p \in Project, NEW b \in {"stop", "restart"},
                 ClickStop(p) \/ ClickRestart(p) \/ ConfirmsHeld(p, b)
          PROVE  QueueStop(p) /\ restarting' \subseteq restarting \cup {p}
      BY <2>2 DEF ClickStop, ClickRestart, ConfirmsHeld
    <2>3. ASSUME NEW p \in Project, NEW b \in {"stop", "restart"},
                 ClickDisclosed(p, b) \/ ClickStopRefused(p) \/ ConfirmsRefused(p, b)
          PROVE  NoQueue
      BY <2>3 DEF NoQueue, ClickDisclosed, ClickStopRefused, ConfirmsRefused
    <2>4. ASSUME DialogYes \/ DialogNo PROVE NoQueue
      BY <2>4 DEF NoQueue, DialogYes, DialogNo
    <2>5. QED
      BY <1>1, <2>1, <2>2, <2>3, <2>4 DEF Clicked
  <1>2. ASSUME NEW f \in Future, StopStep(f)
        PROVE  \/ OnStopped(f)
               \/ /\ StopPops(f) \/ StopEnds(f) \/ StopReports(f) \/ StopRaises(f)
                  /\ restarting' = restarting
    BY <1>2 DEF StopStep, StopPops, StopEnds, StopReports, StopRaises
  <1>3. ASSUME NEW t \in Tree, TreeStep(t) PROVE NoQueue
    BY <1>3 DEF NoQueue, TreeStep, TreeEnds, OnTreeDone
  <1>4. CASE Tick \/ UpkeepStep
    BY <1>4 DEF NoQueue, Tick, UpkeepStep, UpkeepReaps, UpkeepLooks, OnUpkeep
  <1>5. ASSUME NEW s \in Snap, SnapStep(s) PROVE NoQueue
    BY <1>5 DEF NoQueue, SnapStep, SnapReads, SnapReports, OnSnapshot, OnProbeError
  <1>6. ASSUME NEW p \in Project,
               Relist(p) \/ \E q \in Port \cup {None} : ChangePort(p, q)
        PROVE  NoQueue
    BY <1>6 DEF NoQueue, Relist, ChangePort, SetRecords
  <1>7. CASE Quit \/ DropResult
    BY <1>7 DEF NoQueue, Quit, DropResult
  <1>8. CASE Outside
    BY <1>8 DEF NoQueue, Outside, LauncherExits, ServerExits, ServerListens,
                StrangerListens, Listens, StrangerLeaves
  <1>9. CASE UNCHANGED vars
    BY <1>9 DEF NoQueue, vars
  <1>10. QED
    BY <1>1, <1>2, <1>3, <1>4, <1>5, <1>6, <1>7, <1>8, <1>9 DEF Next

LEMMA TreesFrame ==
  ASSUME [Next]_vars
  PROVE  \/ trees' = trees
         \/ DialogYes
         \/ \E t \in Tree : TreeStep(t)
  <1>1. CASE Clicked
    BY <1>1 DEF Clicked, ClickStart, ClickRestartGone, ClickStop, ClickRestart,
                ClickDisclosed, ClickStopRefused, ConfirmsHeld, ConfirmsRefused,
                ConfirmsGone, DialogNo
  <1>2. ASSUME NEW f \in Future, StopStep(f) PROVE trees' = trees
    BY <1>2 DEF StopStep, StopPops, StopEnds, StopReports, StopRaises, OnStopped
  <1>4. CASE Tick \/ UpkeepStep
    BY <1>4 DEF Tick, UpkeepStep, UpkeepReaps, UpkeepLooks, OnUpkeep
  <1>5. ASSUME NEW s \in Snap, SnapStep(s) PROVE trees' = trees
    BY <1>5 DEF SnapStep, SnapReads, SnapReports, OnSnapshot, OnProbeError
  <1>6. ASSUME NEW p \in Project,
               Relist(p) \/ \E q \in Port \cup {None} : ChangePort(p, q)
        PROVE  trees' = trees
    BY <1>6 DEF Relist, ChangePort, SetRecords
  <1>7. CASE Quit \/ DropResult
    BY <1>7 DEF Quit, DropResult
  <1>8. CASE Outside
    BY <1>8 DEF Outside, LauncherExits, ServerExits, ServerListens,
                StrangerListens, Listens, StrangerLeaves
  <1>9. CASE UNCHANGED vars
    BY <1>9 DEF vars
  <1>10. QED
    BY <1>1, <1>2, <1>4, <1>5, <1>6, <1>7, <1>8, <1>9 DEF Next

poll == <<closed, inFlight, upkeepInFlight, upkeep, snaps>>

LEMMA PollFrame ==
  ASSUME [Next]_vars
  PROVE  \/ UNCHANGED poll
         \/ Tick \/ UpkeepStep
         \/ \E s \in Snap : SnapReads(s) \/ OnSnapshot(s) \/ OnProbeError(s)
         \/ Quit
  <1> USE DEF poll
  <1>1. CASE Clicked
    BY <1>1 DEF Clicked, ClickStart, ClickRestartGone, ClickStop, ClickRestart,
                ClickDisclosed, ClickStopRefused, ConfirmsHeld, ConfirmsRefused,
                ConfirmsGone, DialogYes, DialogNo
  <1>2. ASSUME NEW f \in Future, StopStep(f) PROVE UNCHANGED poll
    BY <1>2 DEF StopStep, StopPops, StopEnds, StopReports, StopRaises, OnStopped
  <1>3. ASSUME NEW t \in Tree, TreeStep(t) PROVE UNCHANGED poll
    BY <1>3 DEF TreeStep, TreeEnds, OnTreeDone
  <1>5. ASSUME NEW s \in Snap, SnapReports(s) PROVE UNCHANGED poll
    BY <1>5 DEF SnapReports
  <1>6. ASSUME NEW p \in Project,
               Relist(p) \/ \E q \in Port \cup {None} : ChangePort(p, q)
        PROVE  UNCHANGED poll
    BY <1>6 DEF Relist, ChangePort, SetRecords
  <1>7. CASE DropResult
    BY <1>7 DEF DropResult
  <1>8. CASE Outside
    BY <1>8 DEF Outside, LauncherExits, ServerExits, ServerListens,
                StrangerListens, Listens, StrangerLeaves
  <1>9. CASE UNCHANGED vars
    BY <1>9 DEF vars
  <1>10. QED
    BY <1>1, <1>2, <1>3, <1>5, <1>6, <1>7, <1>8, <1>9 DEF Next, SnapStep

-----------------------------------------------------------------------------
(* Theorems                                                                *)

Typed == TypeOK /\ TasksBound

LEMMA TypedInit == Init => Typed
  <1> SUFFICES ASSUME Init PROVE Typed
    OBVIOUS
  <1>1. TypeOK
    BY TypeInit
  <1>2. \A f \in Future : futures[f].pc = "idle"
    BY DEF Init, NoFuture
  <1>3. \A t \in Tree : trees[t].pc = "idle" /\ ~trees[t].ok
    BY DEF Init, NoTree
  <1>4. QED
    BY <1>1, <1>2, <1>3 DEF Typed, TasksBound

LEMMA FuturesBound ==
  ASSUME Typed, [Next]_vars, NEW f \in Future
  PROVE  /\ futures'[f].pc # "idle" => futures'[f].path \in Project
         /\ futures'[f].pc \in {"stopping", "probing"} =>
              futures'[f].server \in Server
  <1>1. /\ futures \in [Future -> FutureTask]
        /\ futures[f].pc # "idle" => futures[f].path \in Project
        /\ futures[f].pc \in {"stopping", "probing"} =>
             futures[f].server \in Server
    BY DEF Typed, TypeOK, TasksBound
  <1>2. CASE NoQueue
    BY <1>1, <1>2 DEF NoQueue
  <1>3. ASSUME NEW p \in Project, QueueStop(p)
        PROVE  /\ futures'[f].pc # "idle" => futures'[f].path \in Project
               /\ futures'[f].pc \notin {"stopping", "probing"} \/ futures'[f] = futures[f]
    <2>1. PICK g \in Future :
            futures' = [futures EXCEPT ![g] = [NoFuture EXCEPT !.pc = "queued",
                                                 !.path = p, !.meant = entry[p]]]
      BY <1>3 DEF QueueStop
    <2>2. QED
      BY <1>1, <2>1 DEF NoFuture
  <1>4. ASSUME NEW g \in Future, StopPops(g)
        PROVE  /\ futures'[f].pc # "idle" => futures'[f].path \in Project
               /\ futures'[f].pc \in {"stopping", "probing"} =>
                    futures'[f].server \in Server
    <2>1. futures[g] \in FutureTask /\ futures[g].path \in Project
      BY <1>4 DEF StopPops, Typed, TypeOK, TasksBound
    <2>2. entry[futures[g].path] \in Server \cup {None}
      BY <2>1 DEF Typed, TypeOK
    <2>3. CASE entry[futures[g].path] = None
      <3>1. futures' = [futures EXCEPT ![g].pc = "done", ![g].outcome = "empty"]
        BY <1>4, <2>3 DEF StopPops
      <3>2. QED
        BY <1>1, <2>1, <3>1 DEF FutureTask
    <2>4. CASE entry[futures[g].path] # None
      <3>1. futures' = [futures EXCEPT ![g].pc = "stopping",
                                       ![g].server = entry[futures[g].path]]
        BY <1>4, <2>4 DEF StopPops
      <3>2. QED
        BY <1>1, <2>1, <2>2, <2>4, <3>1 DEF FutureTask
    <2>5. QED
      BY <2>3, <2>4
  <1>5. ASSUME NEW g \in Future, StopEnds(g) \/ StopReports(g) \/ StopRaises(g)
        PROVE  /\ futures'[f].pc # "idle" => futures'[f].path \in Project
               /\ futures'[f].pc \in {"stopping", "probing"} =>
                    futures'[f].server \in Server
    <2>1. /\ futures[g] \in FutureTask /\ futures[g].path \in Project
          /\ futures[g].server \in Server
      BY <1>5 DEF StopEnds, StopReports, StopRaises, Typed, TypeOK, TasksBound
    <2>2. \E pc \in {"probing", "done"} : \E o :
            \/ futures' = [futures EXCEPT ![g].pc = pc]
            \/ futures' = [futures EXCEPT ![g].pc = pc, ![g].outcome = o]
      BY <1>5 DEF StopEnds, StopReports, StopRaises
    <2>3. QED
      BY <1>1, <2>1, <2>2 DEF FutureTask
  <1>6. ASSUME NEW g \in Future, OnStopped(g)
        PROVE  futures'[f] = futures[f] \/ futures'[f].pc = "idle"
    BY <1>1, <1>6 DEF OnStopped, NoFuture
  <1>7. QED
    BY <1>1, <1>2, <1>3, <1>4, <1>5, <1>6, FuturesFrame

LEMMA TreesBound ==
  ASSUME Typed, [Next]_vars, NEW t \in Tree
  PROVE  /\ trees'[t].pc # "idle" => trees'[t].path \in Project
         /\ trees'[t].ok => trees'[t].pc # "idle"
  <1>1. /\ trees \in [Tree -> TreeTask]
        /\ trees[t].pc # "idle" => trees[t].path \in Project
        /\ trees[t].ok => trees[t].pc # "idle"
    BY DEF Typed, TypeOK, TasksBound
  <1>2. CASE DialogYes
    <2>1. dialog.path \in Project
      BY <1>2 DEF DialogYes, Typed, TypeOK, Dialog
    <2>2. PICK u \in Tree :
            trees' = [trees EXCEPT ![u] = [pc |-> "queued", path |-> dialog.path,
                                     holder |-> dialog.holder, ok |-> FALSE]]
      BY <1>2 DEF DialogYes
    <2>3. QED
      BY <1>1, <2>1, <2>2
  <1>3. ASSUME NEW u \in Tree, TreeEnds(u)
        PROVE  /\ trees'[t].pc # "idle" => trees'[t].path \in Project
               /\ trees'[t].ok => trees'[t].pc # "idle"
    <2>1. trees[u] \in TreeTask /\ trees[u].path \in Project
      BY <1>3 DEF TreeEnds, Typed, TypeOK, TasksBound
    <2>2. PICK ok \in BOOLEAN :
            trees' = [trees EXCEPT ![u].pc = "done", ![u].ok = ok]
      BY <1>3 DEF TreeEnds
    <2>3. QED
      BY <1>1, <2>1, <2>2 DEF TreeTask
  <1>4. ASSUME NEW u \in Tree, OnTreeDone(u)
        PROVE  trees'[t] = trees[t] \/ trees'[t] = NoTree
    BY <1>1, <1>4 DEF OnTreeDone
  <1>5. QED
    BY <1>1, <1>2, <1>3, <1>4, TreesFrame DEF TreeStep, NoTree

LEMMA TypedNext == Typed /\ [Next]_vars => Typed'
  <1> SUFFICES ASSUME Typed, [Next]_vars PROVE Typed'
    OBVIOUS
  <1>1. TasksBound'
    BY FuturesBound, TreesBound DEF TasksBound
  <1>2. CASE UNCHANGED vars
    <2>1. TypeOK'
      BY <1>2 DEF Typed, TypeOK, vars
    <2>2. QED
      BY <1>1, <2>1 DEF Typed
  <1>3. CASE Next
    <2>1. TypeOK'
      BY <1>3, TypeClicked, TypeStops, TypeStopped, TypeTree, TypeUpkeep,
         TypeSnapReads, TypeSnapshot, TypeProbeError, TypeWindow, TypeOutside
         DEF Next, Typed, StopStep, SnapStep
    <2>2. QED
      BY <1>1, <2>1 DEF Typed
  <1>4. QED
    BY <1>2, <1>3

\* Every reachable state is well typed, and every stop that is out works for a
\* project and a server it popped.
THEOREM TypeCorrect == Spec => []TypeOK
  <1>1. Spec => []Typed
    BY TypedInit, TypedNext, PTL DEF Spec
  <1>2. Typed => TypeOK
    BY DEF Typed
  <1>3. QED
    BY <1>1, <1>2, PTL

\* The guards are true and the snapshots alone, and an upkeep that is not out
\* promises nothing.
PollInv ==
  /\ GuardsTrue
  /\ OneSnapshot
  /\ upkeep.pc = "idle" => ~upkeep.next

LEMMA PollInit == Init => PollInv
  BY DEF Init, PollInv, GuardsTrue, OneSnapshot, NoUpkeep, Unread

LEMMA PollTick ==
  ASSUME Typed, PollInv, Tick
  PROVE  PollInv'
  <1>1. /\ ~closed /\ ~upkeepInFlight /\ ~closed'
        /\ inFlight' = TRUE /\ upkeepInFlight' = TRUE /\ snaps' = snaps
        /\ upkeep' = [NoUpkeep EXCEPT !.pc = "queued", !.next = SnapshotNext]
    BY DEF Tick
  <1>2. upkeep'.pc = "queued" /\ upkeep'.next = ~inFlight
    BY <1>1 DEF NoUpkeep, SnapshotNext
  <1>3. upkeep.pc = "idle" /\ (inFlight <=> \E s \in Snap : snaps[s].pc # "idle")
    BY <1>1 DEF PollInv, GuardsTrue
  <1>4. GuardsTrue'
    BY <1>1, <1>2, <1>3 DEF GuardsTrue
  <1>5. OneSnapshot'
    BY <1>1, <1>2, <1>3 DEF PollInv, OneSnapshot
  <1>6. QED
    BY <1>2, <1>4, <1>5 DEF PollInv

LEMMA PollUpkeep ==
  ASSUME Typed, PollInv, UpkeepReaps \/ UpkeepLooks
  PROVE  PollInv'
  <1>1. upkeep \in UpkeepTask
    BY DEF Typed, TypeOK
  <1>2. /\ upkeep.pc # "idle" /\ upkeep'.pc # "idle"
        /\ upkeep'.next = upkeep.next
    BY <1>1 DEF UpkeepReaps, UpkeepLooks, UpkeepTask
  <1>3. UNCHANGED <<closed, inFlight, upkeepInFlight, snaps>>
    BY DEF UpkeepReaps, UpkeepLooks
  <1>4. QED
    BY <1>2, <1>3 DEF PollInv, GuardsTrue, OneSnapshot

LEMMA PollOnUpkeep ==
  ASSUME Typed, PollInv, OnUpkeep
  PROVE  PollInv'
  <1>1. /\ ~closed /\ closed' = closed /\ upkeep' = NoUpkeep
        /\ upkeepInFlight' = FALSE /\ snaps \in [Snap -> SnapTask]
    BY DEF OnUpkeep, Delivered, Refused, Typed, TypeOK
  <1>2. upkeep'.pc = "idle" /\ ~upkeep'.next
    BY <1>1 DEF NoUpkeep
  <1>3. CASE upkeep.next
    <2>1. upkeep.pc # "idle" /\ \A s \in Snap : snaps[s].pc = "idle"
      BY <1>3 DEF PollInv, OneSnapshot
    <2>2. StartSnapshot /\ inFlight' = TRUE
      BY <1>3 DEF OnUpkeep
    <2>3. PICK s \in Snap : \E w :
            snaps' = [snaps EXCEPT ![s] = [Unread EXCEPT !.pc = "queued",
                                                         !.want = w]]
      BY <2>2 DEF StartSnapshot
    <2>4. snaps'[s].pc = "queued" /\ \A r \in Snap \ {s} : snaps'[r].pc = "idle"
      BY <1>1, <2>1, <2>3 DEF Unread
    <2>5. GuardsTrue'
      BY <1>1, <1>2, <2>2, <2>4 DEF GuardsTrue
    <2>6. OneSnapshot'
      BY <1>2, <2>4 DEF OneSnapshot
    <2>7. QED
      BY <1>2, <2>5, <2>6 DEF PollInv
  <1>4. CASE ~upkeep.next
    <2>1. snaps' = snaps /\ inFlight' = inFlight
      BY <1>4 DEF OnUpkeep
    <2>2. inFlight <=> \E s \in Snap : snaps[s].pc # "idle"
      BY <1>1, <1>4 DEF PollInv, GuardsTrue
    <2>3. GuardsTrue'
      BY <1>1, <1>2, <2>1, <2>2 DEF GuardsTrue
    <2>4. OneSnapshot'
      BY <1>2, <2>1 DEF PollInv, OneSnapshot
    <2>5. QED
      BY <1>2, <2>3, <2>4 DEF PollInv
  <1>5. QED
    BY <1>3, <1>4

LEMMA PollSnap ==
  ASSUME Typed, PollInv, NEW s \in Snap,
         SnapReads(s) \/ OnSnapshot(s) \/ OnProbeError(s)
  PROVE  PollInv'
  <1>1. snaps \in [Snap -> SnapTask]
    BY DEF Typed, TypeOK
  <1>2. CASE SnapReads(s)
    <2>1. UNCHANGED <<closed, inFlight, upkeepInFlight, upkeep>>
      BY <1>2 DEF SnapReads
    <2>2. /\ snaps[s].pc # "idle" /\ snaps'[s].pc # "idle"
          /\ \A r \in Snap \ {s} : snaps'[r] = snaps[r]
      BY <1>1, <1>2 DEF SnapReads, SnapTask
    <2>3. \A r \in Snap : snaps'[r].pc = "idle" <=> snaps[r].pc = "idle"
      BY <2>2
    <2>4. QED
      BY <2>1, <2>3 DEF PollInv, GuardsTrue, OneSnapshot
  <1>3. CASE OnSnapshot(s) \/ OnProbeError(s)
    <2>1. /\ UNCHANGED <<closed, upkeepInFlight, upkeep>> /\ inFlight' = FALSE
          /\ snaps' = [snaps EXCEPT ![s] = Unread] /\ ~closed
          /\ snaps[s].pc # "idle"
      BY <1>3 DEF OnSnapshot, OnProbeError, Delivered, Refused
    <2>2. \A r \in Snap : snaps'[r].pc = "idle"
      BY <1>1, <2>1 DEF PollInv, OneSnapshot, Unread
    <2>3. upkeep.pc = "idle" \/ ~upkeep.next
      BY <2>1 DEF PollInv, OneSnapshot
    <2>4. upkeepInFlight <=> upkeep.pc # "idle"
      BY <2>1 DEF PollInv, GuardsTrue
    <2>5. GuardsTrue'
      BY <2>1, <2>2, <2>3, <2>4 DEF GuardsTrue
    <2>6. OneSnapshot' /\ (upkeep.pc = "idle" => ~upkeep.next)'
      BY <2>1, <2>2 DEF PollInv, OneSnapshot
    <2>7. QED
      BY <2>5, <2>6 DEF PollInv
  <1>4. QED
    BY <1>2, <1>3

LEMMA PollNext == Typed /\ PollInv /\ [Next]_vars => PollInv'
  <1> SUFFICES ASSUME Typed, PollInv, [Next]_vars PROVE PollInv'
    OBVIOUS
  <1>1. CASE UNCHANGED poll
    BY <1>1 DEF poll, PollInv, GuardsTrue, OneSnapshot
  <1>2. CASE Quit
    <2>1. closed' /\ UNCHANGED <<upkeep, snaps>>
      BY <1>2 DEF Quit
    <2>2. QED
      BY <2>1 DEF PollInv, GuardsTrue, OneSnapshot
  <1>3. QED
    BY <1>1, <1>2, PollFrame, PollTick, PollUpkeep, PollOnUpkeep, PollSnap
       DEF UpkeepStep

\* The poll's two guards tell the truth: neither is ever left set, which would
\* freeze the poll for the session, nor clear while its task is out.
THEOREM PollGuardsTrue == Spec => []GuardsTrue
  <1>1. Spec => [](Typed /\ PollInv)
    BY TypedInit, TypedNext, PollInit, PollNext, PTL DEF Spec
  <1>2. PollInv => GuardsTrue
    BY DEF PollInv
  <1>3. QED
    BY <1>1, <1>2, PTL

\* However the ticks, the upkeeps and the snapshots interleave, at most one
\* snapshot is out or promised.
THEOREM NeverTwoSnapshots == Spec => []OneSnapshot
  <1>1. Spec => [](Typed /\ PollInv)
    BY TypedInit, TypedNext, PollInit, PollNext, PTL DEF Spec
  <1>2. PollInv => OneSnapshot
    BY DEF PollInv
  <1>3. QED
    BY <1>1, <1>2, PTL

\* Whose stop is out.
HasStop(p) == \E f \in Future : futures[f].pc # "idle" /\ futures[f].path = p

LEMMA RestartNext == Typed /\ RestartHasStop /\ [Next]_vars => RestartHasStop'
  <1> SUFFICES ASSUME Typed, RestartHasStop, [Next]_vars,
                      NEW p \in restarting'
               PROVE  HasStop(p)'
    BY DEF RestartHasStop, HasStop
  <1>1. futures \in [Future -> FutureTask]
    BY DEF Typed, TypeOK
  <1>2. ASSUME p \in restarting
        PROVE  \E f \in Future : futures[f].pc # "idle" /\ futures[f].path = p
    BY <1>2 DEF RestartHasStop
  <1>3. CASE NoQueue
    BY <1>2, <1>3 DEF NoQueue, HasStop
  <1>4. ASSUME NEW q \in Project, QueueStop(q),
               restarting' \subseteq restarting \cup {q}
        PROVE  HasStop(p)'
    <2>1. PICK g \in Future :
            /\ futures[g].pc = "idle"
            /\ futures' = [futures EXCEPT ![g] = [NoFuture EXCEPT !.pc = "queued",
                                                    !.path = q, !.meant = entry[q]]]
      BY <1>4 DEF QueueStop
    <2>2. futures'[g].pc = "queued" /\ futures'[g].path = q
      BY <1>1, <2>1 DEF NoFuture
    <2>3. \A f \in Future : f # g => futures'[f] = futures[f]
      BY <1>1, <2>1
    <2>4. QED
      BY <1>2, <1>4, <2>1, <2>2, <2>3 DEF HasStop
  <1>5. ASSUME NEW g \in Future,
               StopPops(g) \/ StopEnds(g) \/ StopReports(g) \/ StopRaises(g),
               restarting' = restarting
        PROVE  HasStop(p)'
    <2>1. futures[g] \in FutureTask
      BY <1>1
    <2>2. futures[g].pc # "idle"
      BY <1>5 DEF StopPops, StopEnds, StopReports, StopRaises
    <2>3. futures'[g].pc # "idle" /\ futures'[g].path = futures[g].path
      <3>1. \E pc \in {"stopping", "probing", "done"} : \E o, c :
              \/ futures' = [futures EXCEPT ![g].pc = pc]
              \/ futures' = [futures EXCEPT ![g].pc = pc, ![g].outcome = o]
              \/ futures' = [futures EXCEPT ![g].pc = pc, ![g].server = c]
        BY <1>5 DEF StopPops, StopEnds, StopReports, StopRaises
      <3>2. QED
        BY <1>1, <2>1, <3>1 DEF FutureTask
    <2>4. \A f \in Future : f # g => futures'[f] = futures[f]
      BY <1>1, <1>5 DEF StopPops, StopEnds, StopReports, StopRaises
    <2>5. QED
      BY <1>2, <1>5, <2>2, <2>3, <2>4 DEF HasStop
  <1>6. ASSUME NEW g \in Future, OnStopped(g) PROVE HasStop(p)'
    <2>1. /\ restarting' = restarting \ {futures[g].path}
          /\ futures' = [futures EXCEPT ![g] = NoFuture]
      BY <1>6 DEF OnStopped, NotRestarting
    <2>2. p \in restarting /\ p # futures[g].path
      BY <2>1
    <2>3. PICK f \in Future : futures[f].pc # "idle" /\ futures[f].path = p
      BY <1>2, <2>2
    <2>4. futures'[f] = futures[f]
      BY <1>1, <2>1, <2>2, <2>3
    <2>5. QED
      BY <2>3, <2>4 DEF HasStop
  <1>7. QED
    BY <1>3, <1>4, <1>5, <1>6, FuturesFrame

\* A pending restart always has its stop out, for any number of projects and of
\* stop threads: it can not turn a later Stop into a restart.
THEOREM RestartsHaveStops == Spec => []RestartHasStop
  <1>1. Init => RestartHasStop
    BY DEF Init, RestartHasStop
  <1>2. QED
    BY <1>1, TypedInit, TypedNext, RestartNext, PTL DEF Spec

-----------------------------------------------------------------------------
(* The rows                                                                *)

\* What `running` and `foreign` say of the snapshot.
LEMMA Classified ==
  ASSUME NEW p, NEW e, NEW want, NEW T
  PROVE  /\ Classify(p, e, want, T) = "running" => e # None /\ Owns(p, T[e])
         /\ Classify(p, e, want, T) = "foreign" =>
              /\ e # None
              /\ OurPorts(p, T) = {}
              /\ T[e] # None \/ DeclaredHolder(p, e, T) # None
         /\ e # None /\ Owns(p, T[e]) => Classify(p, e, want, T) = "running"
  <1> DEFINE h == T[e]
             other == DeclaredHolder(p, e, T)
             own == Spawning(p)
             inner == CASE h # None /\ Looks(p, h, want, T) -> "foreign"
                        [] h = None /\ own -> "starting"
                        [] h # None /\ own /\ ~Looks(p, h, want, T) -> "failed"
                        [] h = None /\ ~own /\ other # None /\ Looks(p, other, want, T)
                             -> "foreign"
                        [] OTHER -> IF p \in reaped THEN "failed"
                                    ELSE IF h = None THEN "stopped" ELSE "blocked"
             c == Classify(p, e, want, T)
  <1>1. c = CASE e = None -> "unknown"
    [] e # None /\ Owns(p, h) -> "running"
    [] e # None /\ ~Owns(p, h) /\ OurPorts(p, T) # {} -> "wrong port"
    [] OTHER -> inner
    BY DEF Classify
  <1>2. /\ inner # "running"
        /\ inner = "foreign" => h # None \/ other # None
    OBVIOUS
  <1> HIDE DEF inner
  <1>3. CASE e = None
    <2>1. c = "unknown"
      BY <1>1, <1>3
    <2>2. QED
      BY <1>3, <2>1
  <1>4. CASE e # None /\ Owns(p, h)
    <2>1. c = "running"
      BY <1>1, <1>4
    <2>2. QED
      BY <1>4, <2>1
  <1>5. CASE e # None /\ ~Owns(p, h) /\ OurPorts(p, T) # {}
    <2>1. c = "wrong port"
      BY <1>1, <1>5
    <2>2. QED
      BY <1>5, <2>1
  <1>6. CASE e # None /\ ~Owns(p, h) /\ OurPorts(p, T) = {}
    <2>1. c = inner
      BY <1>1, <1>6
    <2>2. QED
      BY <1>2, <1>6, <2>1
  <1>7. QED
    BY <1>3, <1>4, <1>5, <1>6

\* RowsAgree, and that nothing at all is called ours while the table is
\* unreadable.
RowsInv ==
  /\ RowsAgree
  /\ ~closed /\ blind => managed = {}

\* The row of one project after the snapshot T.
LEMMA RowAfter ==
  ASSUME Typed, NEW s \in Snap, OnSnapshot(s), NEW p \in Project, p \in listed
  PROVE  /\ statuses'[p] \in {"running", "foreign"} => holders'[p] # None
         /\ p \in managed' => statuses'[p] = "running"
  <1> DEFINE T == snaps[s].table
             want == snaps[s].want
             learned == LearnedFromOurs(T)
             e == EffectiveWith(p, learned)
             found == [r \in Project |->
                         IF r \in listed
                         THEN Classify(r, EffectiveWith(r, learned), want, T)
                         ELSE "unknown"]
  <1>1. /\ statuses' = found
        /\ confirmed' = LearnedFromForeign(learned, found, T)
        /\ holders' = [r \in Project |-> HolderOf(r, T)]
        /\ managed' = {r \in listed : Owns(r, holders'[r])}
        /\ UNCHANGED <<listed, override, entry, life>>
    <2>1. statuses' = found
      BY DEF OnSnapshot
    <2>2. confirmed' = LearnedFromForeign(learned, found, T)
      BY DEF OnSnapshot
    <2>3. holders' = [r \in Project |-> HolderOf(r, T)]
      BY DEF OnSnapshot
    <2>4. managed' = {r \in listed : Owns(r, holders'[r])}
      BY DEF OnSnapshot
    <2>5. UNCHANGED supervisor
      BY DEF OnSnapshot
    <2>6. UNCHANGED <<listed, override>>
      BY DEF OnSnapshot
    <2>7. QED
      BY <2>1, <2>2, <2>3, <2>4, <2>5, <2>6
  <1>2. statuses'[p] = Classify(p, e, want, T)
    BY <1>1
  <1>3. Effective(p)' = EffectiveWith(p, confirmed')
    BY <1>1 DEF Effective, EffectiveWith
  <1>4. /\ confirmed'[p] = learned[p] => Effective(p)' = e
        /\ override[p] # None => Effective(p)' = e /\ e = override[p]
    BY <1>3 DEF EffectiveWith
  <1>5. OurPorts(p, T) # {} \/ statuses'[p] # "foreign" => Effective(p)' = e
    BY <1>1, <1>4 DEF LearnedFromForeign
  <1>6. holders'[p] = IF Effective(p)' = None THEN None
                      ELSE IF T[Effective(p)'] # None THEN T[Effective(p)']
                      ELSE IF statuses'[p] = "foreign"
                           THEN DeclaredHolder(p, Effective(p)', T) ELSE None
    BY <1>1 DEF HolderOf
  <1>7. found[p] = statuses'[p] /\ e = EffectiveWith(p, learned)
    BY <1>1
  <1>12. /\ override' \in [Project -> Port \cup {None}]
         /\ confirmed' \in [Project -> Port \cup {None}]
    <2>1. TypeOK /\ TypeOK'
      BY TypeSnapshot DEF Typed
    <2>2. QED
      BY <2>1 DEF TypeOK
  <1> HIDE DEF T, want, learned, e, found
  <1>8. ASSUME statuses'[p] = "foreign" PROVE holders'[p] # None
    <2>1. /\ e # None /\ OurPorts(p, T) = {}
          /\ T[e] # None \/ DeclaredHolder(p, e, T) # None
      BY <1>2, <1>8, Classified
    <2>2. CASE T[e] # None
      <3>1. confirmed'[p] = e
        BY <1>1, <1>7, <1>8, <2>1, <2>2 DEF LearnedFromForeign, Answers
      <3>2. Effective(p)' = e
        BY <1>3, <1>4, <2>1, <3>1 DEF EffectiveWith
      <3>3. QED
        BY <1>6, <2>1, <2>2, <3>2
    <2>3. CASE T[e] = None
      <3>1. /\ Declared[p] # None /\ T[Declared[p]] # None
            /\ DeclaredHolder(p, e, T) = T[Declared[p]]
        BY <2>1, <2>3 DEF DeclaredHolder, Answers
      <3>2. confirmed'[p] = Declared[p]
        BY <1>1, <1>7, <1>8, <2>1, <2>3 DEF LearnedFromForeign, Answers
      <3>3. Effective(p)' = e \/ Effective(p)' = Declared[p]
        BY <1>3, <1>4, <3>1, <3>2 DEF EffectiveWith
      <3>4. QED
        BY <1>6, <1>8, <2>1, <2>3, <3>1, <3>3
    <2>4. QED
      BY <2>2, <2>3
  <1>9. ASSUME statuses'[p] = "running" PROVE holders'[p] # None
    <2>1. e # None /\ Owns(p, T[e])
      BY <1>2, <1>9, Classified
    <2>2. QED
      BY <1>5, <1>6, <1>9, <2>1 DEF Owns
  <1>10. ASSUME p \in managed' PROVE statuses'[p] = "running"
    <2>1. Owns(p, holders'[p])
      BY <1>1, <1>10 DEF Owns, GroupAlive
    <2>2. \E q \in Port : T[q] = holders'[p]
      <3>1. Effective(p)' \in Port \cup {None} /\ Declared[p] \in Port \cup {None}
        BY <1>12 DEF Effective, EffectiveWith
      <3>2. holders'[p] # None
        BY <2>1 DEF Owns
      <3>3. \/ Effective(p)' # None /\ holders'[p] = T[Effective(p)']
            \/ Declared[p] # None /\ holders'[p] = T[Declared[p]]
        BY <1>6, <3>2 DEF DeclaredHolder, Answers
      <3>4. QED
        BY <3>1, <3>3
    <2>3. OurPorts(p, T) # {}
      BY <2>1, <2>2 DEF OurPorts
    <2>4. Effective(p)' = e /\ statuses'[p] # "foreign"
      BY <1>2, <1>5, <2>3, Classified
    <2>5. e # None /\ T[e] = holders'[p]
      BY <1>6, <2>1, <2>4 DEF Owns
    <2>6. QED
      BY <1>2, <2>1, <2>5, Classified
  <1>11. QED
    BY <1>8, <1>9, <1>10


agreed == <<closed, blind, listed, statuses, holders, managed>>

\* Only a snapshot, an edit of the records and the closing window change what
\* RowsAgree speaks of.
LEMMA RowsFrame ==
  ASSUME [Next]_vars
  PROVE  \/ UNCHANGED agreed
         \/ \E s \in Snap : OnSnapshot(s) \/ OnProbeError(s)
         \/ \E L, o : SetRecords(L, o)
         \/ Quit
  <1> USE DEF agreed
  <1>1. CASE Clicked
    BY <1>1 DEF Clicked, ClickStart, ClickRestartGone, ClickStop, ClickRestart,
                ClickDisclosed, ClickStopRefused, ConfirmsHeld, ConfirmsRefused,
                ConfirmsGone, DialogYes, DialogNo
  <1>2. ASSUME NEW f \in Future, StopStep(f) PROVE UNCHANGED agreed
    BY <1>2 DEF StopStep, StopPops, StopEnds, StopReports, StopRaises, OnStopped
  <1>3. ASSUME NEW t \in Tree, TreeStep(t) PROVE UNCHANGED agreed
    BY <1>3 DEF TreeStep, TreeEnds, OnTreeDone
  <1>4. CASE Tick \/ UpkeepStep
    BY <1>4 DEF Tick, UpkeepStep, UpkeepReaps, UpkeepLooks, OnUpkeep
  <1>5. ASSUME NEW s \in Snap, SnapReads(s) \/ SnapReports(s)
        PROVE  UNCHANGED agreed
    BY <1>5 DEF SnapReads, SnapReports
  <1>6. ASSUME NEW p \in Project,
               Relist(p) \/ \E q \in Port \cup {None} : ChangePort(p, q)
        PROVE  \E L, o : SetRecords(L, o)
    BY <1>6 DEF Relist, ChangePort
  <1>7. CASE DropResult
    BY <1>7 DEF DropResult
  <1>8. CASE Outside
    BY <1>8 DEF Outside, LauncherExits, ServerExits, ServerListens,
                StrangerListens, Listens, StrangerLeaves
  <1>9. CASE UNCHANGED vars
    BY <1>9 DEF vars
  <1>10. QED
    BY <1>1, <1>2, <1>3, <1>4, <1>5, <1>6, <1>7, <1>8, <1>9 DEF Next, SnapStep

\* An edit of the records keeps a row as it was, or knows nothing of it.
LEMMA RowsRecords ==
  ASSUME TypeOK, RowsInv, NEW L, NEW o, SetRecords(L, o), TypeOK'
  PROVE  RowsInv'
  <1>1. PICK moved : /\ listed' = L
                     /\ statuses' = StatusesKept(listed \cap L, moved)
                     /\ managed' = managed \ moved
                     /\ holders' = [p \in Project |-> IF p \in moved THEN None
                                                                  ELSE holders[p]]
                     /\ UNCHANGED <<blind, closed>>
    BY DEF SetRecords
  <1>2. ASSUME NEW p \in Project, p \in (listed \cap L) \ moved
        PROVE  /\ statuses'[p] = statuses[p] /\ holders'[p] = holders[p]
               /\ p \in managed' => p \in managed
    BY <1>1, <1>2 DEF StatusesKept
  <1>3. ASSUME NEW p \in Project, p \notin (listed \cap L) \ moved
        PROVE  statuses'[p] = "unknown" /\ managed' \subseteq managed
    BY <1>1, <1>3 DEF StatusesKept
  <1>4. listed \subseteq Project /\ listed' \subseteq Project
    BY DEF TypeOK
  <1>5. ~closed /\ blind => managed' = {}
    BY <1>1 DEF RowsInv
  <1>6. RowsAgree'
    <2>1. SUFFICES ASSUME ~closed', NEW p \in listed'
                   PROVE /\ statuses'[p] \in {"running", "foreign"} /\ ~blind'
                              => holders'[p] # None
                         /\ p \in managed' => ~blind' /\ statuses'[p] \in {"running", "unknown"}
      BY DEF RowsAgree
    <2>2. CASE p \in (listed \cap L) \ moved
      BY <1>1, <1>2, <1>4, <2>1, <2>2 DEF RowsInv, RowsAgree
    <2>3. CASE p \notin (listed \cap L) \ moved
      BY <1>1, <1>3, <1>4, <1>5, <2>1, <2>3
    <2>4. QED
      BY <2>2, <2>3
  <1>7. QED
    BY <1>1, <1>5, <1>6 DEF RowsInv

LEMMA RowsNext == Typed /\ RowsInv /\ [Next]_vars => RowsInv'
  <1> SUFFICES ASSUME Typed, RowsInv, [Next]_vars PROVE RowsInv'
    OBVIOUS
  <1>0. TypeOK /\ TypeOK'
    BY TypedNext DEF Typed
  <1>1. CASE UNCHANGED agreed
    BY <1>1 DEF agreed, RowsInv, RowsAgree
  <1>2. ASSUME NEW s \in Snap, OnSnapshot(s) PROVE RowsInv'
    <2>1. blind' = FALSE /\ listed' = listed /\ listed \subseteq Project
      BY <1>0, <1>2 DEF OnSnapshot, TypeOK
    <2>2. \A p \in listed : /\ statuses'[p] \in {"running", "foreign"} => holders'[p] # None
                            /\ p \in managed' => statuses'[p] = "running"
      BY <1>2, <2>1, RowAfter
    <2>3. QED
      BY <2>1, <2>2 DEF RowsInv, RowsAgree
  <1>3. ASSUME NEW s \in Snap, OnProbeError(s) PROVE RowsInv'
    <2>1. blind' = TRUE /\ managed' = {}
      BY <1>3 DEF OnProbeError, NothingOurs
    <2>2. QED
      BY <2>1 DEF RowsInv, RowsAgree
  <1>4. ASSUME NEW L, NEW o, SetRecords(L, o) PROVE RowsInv'
    BY <1>0, <1>4, RowsRecords
  <1>5. CASE Quit
    <2>1. closed' = TRUE
      BY <1>5 DEF Quit
    <2>2. QED
      BY <2>1 DEF RowsInv, RowsAgree
  <1>6. QED
    BY <1>1, <1>2, <1>3, <1>4, <1>5, RowsFrame

\* The rows of one poll agree, for any projects, ports, servers and strangers,
\* through outages of the socket table and edits of the records.
THEOREM RowsAlwaysAgree == Spec => []RowsAgree
  <1>1. Init => RowsInv
    <2>1. Init => managed = {} /\ \A p \in Project : statuses[p] = "unknown"
      BY DEF Init
    <2>2. Init => listed \subseteq Project
      BY TypedInit DEF Typed, TypeOK
    <2>3. QED
      BY <2>1, <2>2 DEF RowsInv, RowsAgree
  <1>2. RowsInv => RowsAgree
    BY DEF RowsInv
  <1>3. QED
    BY <1>1, <1>2, TypedInit, TypedNext, RowsNext, PTL DEF Spec

-----------------------------------------------------------------------------
(* The end                                                                 *)

rows == <<statuses, overlay, shown>>

LEMMA ClosedStep ==
  ASSUME [Next]_vars, closed
  PROVE  UNCHANGED rows
  <1> USE DEF rows
  <1>1. ~UserTurn /\ \A x : ~Delivered(x)
    BY DEF UserTurn, Delivered, Refused
  <1>2. ~Clicked
    BY <1>1 DEF Clicked, ClickStart, ClickStop, ClickDisclosed, ClickRestart,
                ClickStopRefused, ClickRestartGone, DialogYes, DialogNo, Clicks,
                Offers, ConfirmsHeld, ConfirmsRefused, ConfirmsGone, Confirms
  <1>3. ASSUME NEW f \in Future, StopStep(f) PROVE UNCHANGED rows
    BY <1>1, <1>3 DEF StopStep, StopPops, StopEnds, StopReports, StopRaises,
                      OnStopped
  <1>4. ASSUME NEW t \in Tree, TreeStep(t) PROVE UNCHANGED rows
    BY <1>1, <1>4 DEF TreeStep, TreeEnds, OnTreeDone
  <1>5. ASSUME Tick \/ UpkeepStep PROVE UNCHANGED rows
    BY <1>1, <1>5 DEF Tick, UpkeepStep, UpkeepReaps, UpkeepLooks, OnUpkeep
  <1>6. ASSUME NEW s \in Snap, SnapStep(s) PROVE UNCHANGED rows
    BY <1>1, <1>6 DEF SnapStep, SnapReads, SnapReports, OnSnapshot, OnProbeError
  <1>7. ASSUME NEW p \in Project,
               Relist(p) \/ \E q \in Port \cup {None} : ChangePort(p, q)
        PROVE  UNCHANGED rows
    BY <1>7 DEF Relist, ChangePort, SetRecords
  <1>8. ASSUME Quit \/ DropResult PROVE UNCHANGED rows
    BY <1>8 DEF Quit, DropResult
  <1>9. ASSUME Outside PROVE UNCHANGED rows
    BY <1>9 DEF Outside, LauncherExits, ServerExits, ServerListens,
                StrangerListens, Listens, StrangerLeaves
  <1>10. ASSUME UNCHANGED vars PROVE UNCHANGED rows
    BY <1>10 DEF vars
  <1>11. QED
    BY <1>2, <1>3, <1>4, <1>5, <1>6, <1>7, <1>8, <1>9, <1>10 DEF Next

\* What the controller keeps about the work that is out is true of it.
THEOREM InFlightStaysTrue == Spec => []InFlightTrue
  <1>1. GuardsTrue /\ OneSnapshot /\ RestartHasStop => InFlightTrue
    BY DEF InFlightTrue
  <1>2. QED
    BY <1>1, PollGuardsTrue, NeverTwoSnapshots, RestartsHaveStops, PTL

\* Once the controller is stopped no result, whatever was posted or still runs,
\* changes a status, the overlay or a button.
THEOREM QuietAfterQuit == Spec => SilentAfterQuit
  <1>1. [Next]_vars => [closed => UNCHANGED <<statuses, overlay, shown>>]_vars
    BY ClosedStep DEF rows
  <1>2. QED
    BY <1>1, PTL DEF Spec, SilentAfterQuit

-----------------------------------------------------------------------------
(* Starts, while no stop waits for a thread                                *)

\* The executor has a thread for every stop that is out.
EnoughThreads == IsFiniteSet(Future) /\ Cardinality(Future) <= Slots

\* A stop that is out is the only one of its project, and nothing of the project is
\* held but what a stop that raised has put back; what it reports is posted; the
\* row is not starting; and the restart that waits for it is still wanted.
OneEach ==
  /\ \A f, g \in Future :
       (futures[f].pc # "idle" /\ futures[g].pc # "idle"
          /\ futures[f].path = futures[g].path) => f = g
  /\ \A f \in Future : futures[f].path # None => futures[f].pc # "idle"

Popped ==
  \A f \in Future :
    (\/ futures[f].pc \in {"stopping", "probing"}
     \/ (futures[f].pc = "done" /\ futures[f].outcome # "raised"))
       => entry[futures[f].path] = None

Reported ==
  ~closed => \A f \in Future : futures[f].pc = "done" => f \in ToSet(posted)

NotStarting ==
  \A f \in Future : futures[f].pc # "idle" => overlay # Marked(futures[f].path, "starting")

StillWanted == \A p \in restarting : wish[p] # "stop"

StopsOnce == OneEach /\ Popped /\ Reported /\ NotStarting /\ StillWanted

\* The stops stay as they are, entries and the overlay may end.
StopsRest ==
  /\ futures' = futures
  /\ \A p \in Project : entry'[p] \in {entry[p], None}
  /\ overlay' \in {overlay, NoOverlay}
  /\ ~closed' => ~closed /\ ToSet(posted) \cap Future \subseteq ToSet(posted')
  /\ \A p \in restarting' : wish'[p] # "stop" \/ (p \in restarting /\ wish'[p] = wish[p])

\* A button starts the server c.
StartedBy(p, c, b) ==
  /\ UserTurn /\ Spawn(p, c) /\ b \in {"start", "restart"}
  /\ wish' = [wish EXCEPT ![p] = b]
  /\ UNCHANGED <<futures, posted, closed, restarting>>

\* A button queues a stop.
QueuedBy(p, b) ==
  /\ UserTurn /\ QueueStop(p)
  /\ wish' = [wish EXCEPT ![p] = b]
  /\ \/ b = "stop" /\ restarting' = restarting
     \/ b = "restart" /\ restarting' = restarting \cup {p}
  /\ UNCHANGED <<entry, life, posted, closed>>

\* What is posted stays until it is delivered.
LEMMA PostedKept ==
  ASSUME TypeOK, NEW x
  PROVE  /\ Post(x) => ToSet(posted) \cup {x} \subseteq ToSet(posted')
         /\ Delivered(x) => ToSet(posted) \subseteq ToSet(posted') \cup {x}
  <1>1. posted \in Seq(Task)
    BY DEF TypeOK
  <1>2. ASSUME Post(x) PROVE ToSet(posted) \cup {x} \subseteq ToSet(posted')
    <2>1. posted' = Append(posted, x)
      BY <1>2 DEF Post
    <2>2. \A i \in 1..Len(posted) : posted'[i] = posted[i] /\ i \in DOMAIN posted'
      BY <1>1, <2>1
    <2>3. posted'[Len(posted) + 1] = x /\ Len(posted) + 1 \in DOMAIN posted'
      BY <1>1, <2>1
    <2>4. QED
      BY <1>1, <2>2, <2>3 DEF ToSet
  <1>3. ASSUME Delivered(x) PROVE ToSet(posted) \subseteq ToSet(posted') \cup {x}
    <2>1. /\ posted # <<>> /\ posted[1] = x /\ posted' = Tail(posted)
      BY <1>1, <1>3 DEF Delivered
    <2>2. \A i \in 2..Len(posted) : posted'[i - 1] = posted[i] /\ i - 1 \in DOMAIN posted'
      BY <1>1, <2>1
    <2>3. \A i \in 1..Len(posted) : i = 1 \/ i \in 2..Len(posted)
      BY <1>1
    <2>4. ASSUME NEW i \in 1..Len(posted) PROVE posted[i] \in ToSet(posted') \cup {x}
      <3>1. CASE i = 1
        BY <2>1, <3>1
      <3>2. CASE i \in 2..Len(posted)
        BY <2>2, <3>2 DEF ToSet
      <3>3. QED
        BY <2>3, <3>1, <3>2
    <2>5. ToSet(posted) = {posted[i] : i \in 1..Len(posted)}
      BY <1>1 DEF ToSet
    <2>6. QED
      BY <2>4, <2>5
  <1>4. QED
    BY <1>2, <1>3

LEMMA StopsFrame ==
  ASSUME TypeOK, [Next]_vars, Tree = {}
  PROVE  \/ StopsRest
         \/ \E p \in Project, c \in Server, b \in Button : StartedBy(p, c, b)
         \/ \E p \in Project, b \in Button : QueuedBy(p, b)
         \/ \E f \in Future :
              /\ StopPops(f) \/ StopEnds(f) \/ StopReports(f) \/ StopRaises(f)
              /\ UNCHANGED <<overlay, restarting, wish, closed>>
         \/ \E f \in Future : OnStopped(f) /\ wish' = wish /\ closed' = closed
  <1>1. ASSUME NEW p \in Project,
               ClickStart(p) \/ ClickRestartGone(p) \/ ConfirmsGone(p)
        PROVE  StopsRest \/ \E c \in Server, b \in Button : StartedBy(p, c, b)
    <2>1. PICK b \in {"start", "restart"} :
            /\ UserTurn /\ wish' = [wish EXCEPT ![p] = b] /\ StartOrRefusal(p)
            /\ UNCHANGED <<futures, posted, closed, restarting>>
      BY <1>1 DEF ClickStart, ClickRestartGone, ConfirmsGone, Clicks, Confirms, Offers
    <2>2. CASE \E c \in Server : Spawn(p, c)
      BY <2>1, <2>2 DEF StartedBy, Button
    <2>3. CASE UNCHANGED <<supervisor, overlay, marks>>
      <3>1. \A q \in Project : wish'[q] = b \/ wish'[q] = wish[q]
        BY <2>1 DEF TypeOK
      <3>2. restarting \in SUBSET Project
        BY DEF TypeOK
      <3>3. QED
        BY <2>1, <2>3, <3>1, <3>2 DEF StopsRest
    <2>4. QED
      BY <2>1, <2>2, <2>3 DEF StartOrRefusal
  <1>2. ASSUME NEW p \in Project, NEW b \in {"stop", "restart"},
               ClickStop(p) \/ ClickRestart(p) \/ ConfirmsHeld(p, b)
        PROVE  \E a \in Button : QueuedBy(p, a)
    <2>1. CASE ClickStop(p) \/ ClickRestart(p)
      BY <2>1 DEF ClickStop, ClickRestart, Clicks, Offers, QueuedBy, Button
    <2>2. CASE ConfirmsHeld(p, b)
      BY <2>2 DEF ConfirmsHeld, Confirms, QueuedBy, Button
    <2>3. QED
      BY <1>2, <2>1, <2>2
  <1>3. ASSUME NEW p \in Project, NEW b \in {"stop", "restart"},
               ClickStopRefused(p) \/ ConfirmsRefused(p, b)
        PROVE  StopsRest
    <2>1. \A q \in Project : q # p => wish'[q] = wish[q]
      BY <1>3 DEF TypeOK, ClickStopRefused, ConfirmsRefused, Clicks, Confirms
    <2>2. QED
      BY <1>3, <2>1 DEF TypeOK, ClickStopRefused, ConfirmsRefused, StopsRest
  <1>4. ASSUME NEW p \in Project, NEW b \in {"stop", "restart"}, ClickDisclosed(p, b)
        PROVE  StopsRest
    BY <1>4 DEF ClickDisclosed, StopsRest
  <1>5. CASE DialogNo
    BY <1>5 DEF DialogNo, StopsRest
  <1>6. ~DialogYes
    BY DEF DialogYes
  <1>7. ASSUME NEW f \in Future, StopStep(f)
        PROVE  \/ OnStopped(f) /\ wish' = wish /\ closed' = closed
               \/ /\ StopPops(f) \/ StopEnds(f) \/ StopReports(f) \/ StopRaises(f)
                  /\ UNCHANGED <<overlay, restarting, wish, closed>>
    BY <1>7 DEF StopStep, StopPops, StopEnds, StopReports, StopRaises, OnStopped
  <1>8. CASE Tick
    BY <1>8 DEF Tick, StopsRest
  <1>9. CASE UpkeepReaps
    BY <1>9 DEF TypeOK, UpkeepReaps, StopsRest
  <1>10. CASE UpkeepLooks
    BY <1>10, PostedKept DEF UpkeepLooks, StopsRest
  <1>11. CASE OnUpkeep
    <2>1. ToSet(posted) \subseteq ToSet(posted') \cup {"upkeep"}
      BY <1>11, PostedKept DEF OnUpkeep
    <2>2. overlay' \in {overlay, NoOverlay}
      BY <1>11 DEF OnUpkeep, StartUnobserved
    <2>3. QED
      BY <1>11, <2>1, <2>2, TaskAssumption DEF OnUpkeep, StopsRest
  <1>12. ASSUME NEW s \in Snap, SnapReads(s) \/ SnapReports(s) PROVE StopsRest
    BY <1>12, PostedKept DEF SnapReads, SnapReports, StopsRest
  <1>13. ASSUME NEW s \in Snap, OnSnapshot(s) \/ OnProbeError(s) PROVE StopsRest
    <2>1. ToSet(posted) \subseteq ToSet(posted') \cup {s}
      BY <1>13, PostedKept DEF OnSnapshot, OnProbeError
    <2>2. overlay' \in {overlay, NoOverlay}
      BY <1>13 DEF OnSnapshot, OnProbeError
    <2>3. /\ UNCHANGED <<futures, entry, restarting, wish, closed>>
          /\ s \notin Future
      BY <1>13, TaskAssumption DEF OnSnapshot, OnProbeError
    <2>4. QED
      BY <2>1, <2>2, <2>3 DEF StopsRest
  <1>14. ASSUME NEW p \in Project,
                Relist(p) \/ \E q \in Port \cup {None} : ChangePort(p, q)
         PROVE  StopsRest
    BY <1>14 DEF Relist, ChangePort, SetRecords, StopsRest
  <1>15. CASE Quit \/ DropResult
    BY <1>15 DEF Quit, DropResult, Refused, StopsRest
  <1>16. CASE Outside
    BY <1>16 DEF Outside, LauncherExits, ServerExits, ServerListens,
                 StrangerListens, Listens, StrangerLeaves, StopsRest
  <1>17. CASE UNCHANGED vars
    BY <1>17 DEF vars, StopsRest
  <1>18. QED
    BY <1>1, <1>2, <1>3, <1>4, <1>5, <1>6, <1>7, <1>8, <1>9, <1>10, <1>11, <1>12,
       <1>13, <1>14, <1>15, <1>16, <1>17
       DEF Next, Clicked, TreeStep, UpkeepStep, SnapStep

\* At the user's turn every stop that is out runs, and nothing of its project is held.
LEMMA TurnFree ==
  ASSUME EnoughThreads, TypeOK, StopsOnce, UserTurn, NEW f \in Future,
         futures[f].pc # "idle"
  PROVE  futures[f].pc \in {"stopping", "probing"} /\ entry[futures[f].path] = None
  <1>1. futures[f].pc \in {"idle", "queued", "stopping", "probing", "done"}
    BY DEF TypeOK, FutureTask
  <1>2. futures[f].pc # "done"
    BY DEF UserTurn, StopsOnce, Reported, ToSet
  <1>3. ASSUME futures[f].pc = "queued" PROVE FALSE
    <2>1. Cardinality(Busy) = Slots
      BY <1>3 DEF UserTurn
    <2>2. /\ IsFiniteSet(Future \ {f}) /\ Cardinality(Future \ {f}) = Cardinality(Future) - 1
          /\ Cardinality(Future) \in Nat
      BY FS_RemoveElement, FS_CardinalityType DEF EnoughThreads
    <2>3. Busy \in SUBSET (Future \ {f})
      BY <1>3 DEF Busy
    <2>4. Cardinality(Busy) <= Cardinality(Future \ {f})
      BY <2>2, <2>3, FS_Subset
    <2>5. QED
      BY <2>1, <2>2, <2>4 DEF EnoughThreads
  <1>4. QED
    BY <1>1, <1>2, <1>3 DEF StopsOnce, Popped

LEMMA RestStops ==
  ASSUME Typed, StopsOnce, StopsRest
  PROVE  StopsOnce'
  <1>1. OneEach'
    BY DEF StopsOnce, StopsRest, OneEach
  <1>2. Popped'
    <2>1. \A f \in Future : futures[f].pc # "idle" => futures[f].path \in Project
      BY DEF Typed, TasksBound
    <2>2. \A f \in Future : futures[f].pc \in {"stopping", "probing"} => futures[f].pc # "idle"
      OBVIOUS
    <2>3. QED
      BY <2>1, <2>2 DEF StopsOnce, StopsRest, Popped
  <1>3. Reported'
    BY DEF StopsOnce, StopsRest, Reported
  <1>4. NotStarting'
    BY DEF StopsOnce, StopsRest, NotStarting, NoOverlay, Marked
  <1>5. StillWanted'
    BY DEF StopsOnce, StopsRest, StillWanted
  <1>6. QED
    BY <1>1, <1>2, <1>3, <1>4, <1>5 DEF StopsOnce

LEMMA StartStops ==
  ASSUME EnoughThreads, Typed, StopsOnce, NEW p \in Project, NEW c \in Server,
         NEW b \in Button, StartedBy(p, c, b)
  PROVE  StopsOnce'
  <1>1. \A f \in Future : futures[f].pc # "idle" => futures[f].path # p
    <2>1. \A f \in Future : futures[f].pc \in {"stopping", "probing"} => futures[f].path # p
      BY DEF StartedBy, Spawn, IsStopping
    <2>2. QED
      BY <2>1, TurnFree DEF StartedBy, Typed
  <1>2. /\ entry' = [entry EXCEPT ![p] = c] /\ overlay' = Marked(p, "starting")
        /\ UNCHANGED <<futures, posted, closed, restarting>>
        /\ wish' = [wish EXCEPT ![p] = b] /\ b # "stop"
    BY DEF StartedBy, Spawn, SetOverlay
  <1>3. \A q \in Project : q # p => entry'[q] = entry[q]
    BY <1>2 DEF Typed, TypeOK
  <1>4. OneEach' /\ Reported'
    BY <1>2 DEF StopsOnce, OneEach, Reported
  <1>5. Popped'
    <2>1. \A f \in Future : futures[f].pc # "idle" => futures[f].path \in Project
      BY DEF Typed, TasksBound
    <2>2. ASSUME NEW f \in Future,
                 \/ futures[f].pc \in {"stopping", "probing"}
                 \/ (futures[f].pc = "done" /\ futures[f].outcome # "raised")
          PROVE  entry'[futures[f].path] = None
      <3>1. futures[f].pc # "idle" /\ entry[futures[f].path] = None
        BY <2>2 DEF StopsOnce, Popped
      <3>2. QED
        BY <1>1, <1>3, <2>1, <3>1
    <2>3. QED
      BY <1>2, <2>2 DEF Popped
  <1>6. NotStarting'
    BY <1>1, <1>2 DEF NotStarting, Marked
  <1>7. StillWanted'
    <2>1. \A q \in Project : wish'[q] = b \/ wish'[q] = wish[q]
      BY <1>2 DEF Typed, TypeOK
    <2>2. restarting \in SUBSET Project
      BY DEF Typed, TypeOK
    <2>3. QED
      BY <1>2, <2>1, <2>2 DEF StopsOnce, StillWanted
  <1>8. QED
    BY <1>4, <1>5, <1>6, <1>7 DEF StopsOnce

LEMMA QueueStops ==
  ASSUME EnoughThreads, Typed, RestartHasStop, StopsOnce, NEW p \in Project,
         NEW b \in Button, QueuedBy(p, b)
  PROVE  StopsOnce'
  <1>1. entry[p] # None
    BY DEF QueuedBy, QueueStop
  <1>2. \A f \in Future : futures[f].pc # "idle" => futures[f].path # p
    BY <1>1, TurnFree DEF QueuedBy, Typed
  <1>3. p \notin restarting
    BY <1>2 DEF RestartHasStop
  <1>4. PICK g \in Future :
          /\ futures[g].pc = "idle"
          /\ futures' = [futures EXCEPT ![g] = [NoFuture EXCEPT !.pc = "queued",
                                                  !.path = p, !.meant = entry[p]]]
    BY DEF QueuedBy, QueueStop
  <1>5. futures'[g].pc = "queued" /\ futures'[g].path = p
    BY <1>4 DEF Typed, TypeOK, NoFuture
  <1>6. \A f \in Future : f # g => futures'[f] = futures[f]
    BY <1>4 DEF Typed, TypeOK
  <1>7. /\ overlay' = Marked(p, "stopping") /\ UNCHANGED <<entry, posted, closed>>
        /\ wish' = [wish EXCEPT ![p] = b]
        /\ \/ b = "stop" /\ restarting' = restarting
           \/ b = "restart" /\ restarting' = restarting \cup {p}
    BY DEF QueuedBy, QueueStop, SetOverlay
  <1>8. OneEach'
    BY <1>2, <1>5, <1>6 DEF StopsOnce, OneEach
  <1>9. Popped'
    BY <1>5, <1>6, <1>7 DEF StopsOnce, Popped
  <1>10. Reported'
    BY <1>5, <1>6, <1>7 DEF StopsOnce, Reported
  <1>11. NotStarting'
    BY <1>7 DEF NotStarting, Marked
  <1>12. StillWanted'
    <2>1. \A q \in Project : q # p => wish'[q] = wish[q]
      BY <1>7 DEF Typed, TypeOK
    <2>2. wish'[p] = b
      BY <1>7 DEF Typed, TypeOK
    <2>3. restarting \in SUBSET Project
      BY DEF Typed, TypeOK
    <2>4. QED
      BY <1>3, <1>7, <2>1, <2>2, <2>3 DEF StopsOnce, StillWanted
  <1>13. QED
    BY <1>8, <1>9, <1>10, <1>11, <1>12 DEF StopsOnce

\* A stop's own steps.
LEMMA StepStops ==
  ASSUME Typed, StopsOnce, NEW f \in Future,
         StopPops(f) \/ StopEnds(f) \/ StopReports(f) \/ StopRaises(f),
         UNCHANGED <<overlay, restarting, wish, closed>>
  PROVE  StopsOnce'
  <1> DEFINE p == futures[f].path
  <1>1. futures[f] \in FutureTask /\ futures[f].pc # "idle" /\ p \in Project
    BY DEF Typed, TypeOK, TasksBound, StopPops, StopEnds, StopReports, StopRaises
  <1>2. \A g \in Future : g # f => futures'[g] = futures[g]
    BY DEF Typed, TypeOK, StopPops, StopEnds, StopReports, StopRaises
  <1>3. /\ futures'[f].path = p
        /\ \/ futures'[f].pc \in {"stopping", "probing"} /\ entry'[p] = None
           \/ /\ futures'[f].pc = "done" /\ Post(f)
              /\ futures'[f].outcome # "raised" => entry'[p] = None
    <2>1. CASE StopPops(f)
      <3>1. entry'[p] = None
        BY <1>1, <2>1 DEF Typed, TypeOK, StopPops
      <3>2. CASE entry[p] = None
        <4>1. /\ futures' = [futures EXCEPT ![f].pc = "done", ![f].outcome = "empty"]
              /\ Post(f)
          BY <2>1, <3>2 DEF StopPops
        <4>2. QED
          BY <1>1, <3>1, <4>1 DEF Typed, TypeOK, FutureTask
      <3>3. CASE entry[p] # None
        <4>1. futures' = [futures EXCEPT ![f].pc = "stopping", ![f].server = entry[p]]
          BY <2>1, <3>3 DEF StopPops
        <4>2. QED
          BY <1>1, <3>1, <4>1 DEF Typed, TypeOK, FutureTask
      <3>4. QED
        BY <3>2, <3>3
    <2>2. CASE StopEnds(f)
      <3>1. /\ futures' = [futures EXCEPT ![f].pc = "probing"] /\ entry' = entry
            /\ futures[f].pc = "stopping"
        BY <2>2 DEF StopEnds
      <3>2. QED
        BY <1>1, <3>1 DEF Typed, TypeOK, FutureTask, StopsOnce, Popped
    <2>3. CASE StopReports(f)
      <3>1. /\ \E o : futures' = [futures EXCEPT ![f].pc = "done", ![f].outcome = o]
            /\ entry' = entry /\ futures[f].pc = "probing" /\ Post(f)
        BY <2>3 DEF StopReports
      <3>2. QED
        BY <1>1, <3>1 DEF Typed, TypeOK, FutureTask, StopsOnce, Popped
    <2>4. CASE StopRaises(f)
      <3>1. /\ futures' = [futures EXCEPT ![f].pc = "done", ![f].outcome = "raised"]
            /\ Post(f)
        BY <2>4 DEF StopRaises
      <3>2. QED
        BY <1>1, <3>1 DEF Typed, TypeOK, FutureTask
    <2>5. QED
      BY <2>1, <2>2, <2>3, <2>4
  <1>4. \A q \in Project : q # p => entry'[q] = entry[q]
    BY <1>1 DEF Typed, TypeOK, StopPops, StopEnds, StopReports, StopRaises
  <1>5. ToSet(posted) \subseteq ToSet(posted') /\ (Post(f) => f \in ToSet(posted'))
    BY PostedKept DEF Typed, StopPops, StopEnds, StopReports, StopRaises
  <1>6. \A g \in Future : g # f /\ futures[g].pc # "idle" =>
          futures[g].path # p /\ futures[g].path \in Project
    BY <1>1 DEF StopsOnce, OneEach, Typed, TasksBound
  <1>7. OneEach'
    BY <1>2, <1>3, <1>6 DEF StopsOnce, OneEach
  <1>8. Popped'
    <2>1. ASSUME NEW g \in Future, g # f,
                 \/ futures'[g].pc \in {"stopping", "probing"}
                 \/ (futures'[g].pc = "done" /\ futures'[g].outcome # "raised")
          PROVE  entry'[futures'[g].path] = None
      <3>1. futures'[g] = futures[g] /\ futures[g].pc # "idle"
        BY <1>2, <2>1
      <3>2. entry[futures[g].path] = None
        BY <2>1, <3>1 DEF StopsOnce, Popped
      <3>3. QED
        BY <1>4, <1>6, <2>1, <3>1, <3>2
    <2>2. (\/ futures'[f].pc \in {"stopping", "probing"}
           \/ (futures'[f].pc = "done" /\ futures'[f].outcome # "raised"))
             => entry'[futures'[f].path] = None
      BY <1>3
    <2>3. QED
      BY <2>1, <2>2 DEF Popped
  <1>9. Reported'
    BY <1>2, <1>3, <1>5 DEF StopsOnce, Reported
  <1>10. NotStarting'
    BY <1>1, <1>2, <1>3 DEF StopsOnce, NotStarting
  <1>11. StillWanted'
    BY DEF StopsOnce, StillWanted
  <1>12. QED
    BY <1>7, <1>8, <1>9, <1>10, <1>11 DEF StopsOnce

\* The outcome of a stop, and the start that waited for it.
LEMMA OutcomeStops ==
  ASSUME Typed, StopsOnce, NEW f \in Future, OnStopped(f), UNCHANGED <<wish, closed>>
  PROVE  StopsOnce'
  <1> DEFINE p == futures[f].path
  <1>1. /\ futures'[f].pc = "idle" /\ futures'[f].path = None
        /\ \A g \in Future : g # f => futures'[g] = futures[g]
        /\ restarting' \subseteq restarting
    BY DEF Typed, TypeOK, OnStopped, NoFuture, NotRestarting
  <1>2. ToSet(posted) \subseteq ToSet(posted') \cup {f}
    BY PostedKept DEF OnStopped, Typed
  <1>3. \/ entry' = entry /\ overlay' \in {overlay, NoOverlay}
        \/ p \in restarting /\ \E c \in Server : Spawn(p, c)
    BY DEF OnStopped, Cleared, OverlayUnread
  <1>4. p \in restarting => p \in Project
    BY DEF Typed, TypeOK
  <1>5. OneEach' /\ Reported' /\ StillWanted'
    <2>1. OneEach'
      BY <1>1 DEF StopsOnce, OneEach
    <2>2. Reported'
      BY <1>1, <1>2 DEF StopsOnce, Reported
    <2>3. StillWanted'
      BY <1>1 DEF StopsOnce, StillWanted
    <2>4. QED
      BY <2>1, <2>2, <2>3
  <1>6. CASE entry' = entry /\ overlay' \in {overlay, NoOverlay}
    <2>1. Popped'
      BY <1>1, <1>6 DEF StopsOnce, Popped
    <2>2. NotStarting'
      BY <1>1, <1>6 DEF StopsOnce, NotStarting, NoOverlay, Marked
    <2>3. QED
      BY <1>5, <2>1, <2>2 DEF StopsOnce
  <1>7. ASSUME p \in restarting, NEW c \in Server, Spawn(p, c) PROVE StopsOnce'
    <2>1. \A g \in Future : g # f /\ futures[g].pc # "idle" => futures[g].path # p
      BY <1>4, <1>7 DEF StopsOnce, OneEach
    <2>2. /\ entry' = [entry EXCEPT ![p] = c] /\ overlay' = Marked(p, "starting")
          /\ p \in Project
      BY <1>4, <1>7 DEF Spawn, SetOverlay
    <2>3. \A q \in Project : q # p => entry'[q] = entry[q]
      BY <2>2 DEF Typed, TypeOK
    <2>4. ASSUME NEW g \in Future,
                 \/ futures'[g].pc \in {"stopping", "probing"}
                 \/ (futures'[g].pc = "done" /\ futures'[g].outcome # "raised")
          PROVE  entry'[futures'[g].path] = None
      <3>1. g # f /\ futures'[g] = futures[g] /\ futures[g].pc # "idle"
        BY <1>1, <2>4
      <3>2. futures[g].path # p /\ futures[g].path \in Project
        BY <2>1, <3>1 DEF Typed, TasksBound
      <3>3. entry[futures[g].path] = None
        BY <2>4, <3>1 DEF StopsOnce, Popped
      <3>4. QED
        BY <2>3, <3>1, <3>2, <3>3
    <2>5. Popped'
      BY <2>4 DEF Popped
    <2>6. NotStarting'
      BY <1>1, <2>1, <2>2 DEF NotStarting, Marked
    <2>7. QED
      BY <1>5, <2>5, <2>6 DEF StopsOnce
  <1>8. QED
    BY <1>3, <1>6, <1>7

\* Everything that is said of the stops, and the types it needs.
StopsInv == Typed /\ RestartHasStop /\ StopsOnce

LEMMA StopsNext ==
  ASSUME EnoughThreads, Tree = {}, StopsInv, [Next]_vars
  PROVE  StopsInv'
  <1>1. Typed' /\ RestartHasStop'
    BY TypedNext, RestartNext DEF StopsInv
  <1>2. StopsOnce'
    <2>1. ASSUME StopsRest PROVE StopsOnce'
      BY <2>1, RestStops DEF StopsInv
    <2>2. ASSUME NEW p \in Project, NEW c \in Server, NEW b \in Button, StartedBy(p, c, b)
          PROVE  StopsOnce'
      BY <2>2, StartStops DEF StopsInv
    <2>3. ASSUME NEW p \in Project, NEW b \in Button, QueuedBy(p, b) PROVE StopsOnce'
      BY <2>3, QueueStops DEF StopsInv
    <2>4. ASSUME NEW f \in Future,
                 StopPops(f) \/ StopEnds(f) \/ StopReports(f) \/ StopRaises(f),
                 UNCHANGED <<overlay, restarting, wish, closed>>
          PROVE  StopsOnce'
      BY <2>4, StepStops DEF StopsInv
    <2>5. ASSUME NEW f \in Future, OnStopped(f), wish' = wish /\ closed' = closed
          PROVE  StopsOnce'
      BY <2>5, OutcomeStops DEF StopsInv
    <2>6. QED
      BY <2>1, <2>2, <2>3, <2>4, <2>5, StopsFrame DEF StopsInv, Typed
  <1>3. QED
    BY <1>1, <1>2 DEF StopsInv

LEMMA StopsInit == Init => StopsInv
  <1> SUFFICES ASSUME Init PROVE StopsInv
    OBVIOUS
  <1>1. \A f \in Future : futures[f].pc = "idle" /\ futures[f].path = None
    BY DEF Init, NoFuture
  <1>2. restarting = {}
    BY DEF Init
  <1>3. StopsOnce
    BY <1>1, <1>2 DEF StopsOnce, OneEach, Popped, Reported, NotStarting, StillWanted
  <1>4. QED
    BY <1>2, <1>3, TypedInit DEF StopsInv, RestartHasStop

\* What is held, or popped and not yet signalled, was started.
WasStarted ==
  /\ \A p \in Project : entry[p] # None => life[entry[p]] # "unborn"
  /\ \A f \in Future : futures[f].pc = "stopping" => life[futures[f].server] # "unborn"

\* The projects whose server was seen dead, by the upkeep that is out or the last.
SeenDead == upkeep.reaped \cup upkeep.gone \cup gone

\* Nothing that was seen dead is held alive, or can be put back alive by a stop.
DeadIsDead ==
  \A p \in SeenDead :
    /\ entry[p] # None => life[entry[p]] = "gone"
    /\ \A f \in Future : (futures[f].pc = "stopping" /\ futures[f].path = p)
                           => life[futures[f].server] = "gone"

\* The word about a project that is starting is not about the server it has.
NotReaped ==
  \A p \in Project :
    (overlay = Marked(p, "starting") /\ entry[p] # None /\ life[entry[p]] # "gone")
      => p \notin reaped

UnlistedUnknown == \A p \in Project : p \notin listed => statuses[p] = "unknown"

\* No server gets an entry or comes to life.
LivesRest ==
  /\ \A p \in Project : entry'[p] \in {entry[p], None}
  /\ \A f \in Future : futures'[f] = futures[f] \/ futures'[f].pc # "stopping"
  /\ \A c \in Server : /\ life'[c] = "unborn" => life[c] = "unborn"
                       /\ life[c] = "gone" => life'[c] = "gone"
  /\ SeenDead' \subseteq SeenDead \cup Dead
  /\ overlay' \in {overlay, NoOverlay} \cup {Marked(p, "stopping") : p \in Project}
  /\ reaped' \subseteq reaped \cup upkeep.reaped

Spawns(p, c) ==
  /\ Spawn(p, c)
  /\ \A f \in Future : futures'[f] = futures[f] \/ futures'[f].pc # "stopping"
  /\ UNCHANGED <<upkeep, gone>>

LEMMA LivesFrame ==
  ASSUME Typed, [Next]_vars, Tree = {}
  PROVE  \/ LivesRest
         \/ \E p \in Project, c \in Server : Spawns(p, c)
         \/ \E f \in Future : (StopPops(f) \/ StopRaises(f)) /\ UNCHANGED <<overlay, reaped>>
  <1> USE DEF SeenDead
  <1>1. ASSUME NEW p \in Project,
               ClickStart(p) \/ ClickRestartGone(p) \/ ConfirmsGone(p)
        PROVE  LivesRest \/ \E c \in Server : Spawns(p, c)
    <2>1. /\ StartOrRefusal(p) /\ UNCHANGED <<futures, upkeep, gone>>
      BY <1>1 DEF ClickStart, ClickRestartGone, ConfirmsGone
    <2>2. QED
      BY <2>1 DEF StartOrRefusal, Spawns, LivesRest
  <1>2. ASSUME NEW p \in Project, NEW b \in {"stop", "restart"},
               ClickStop(p) \/ ClickRestart(p) \/ ConfirmsHeld(p, b)
        PROVE  LivesRest
    <2>1. /\ QueueStop(p) /\ UNCHANGED <<entry, life, upkeep, gone>>
      BY <1>2 DEF ClickStop, ClickRestart, ConfirmsHeld
    <2>2. \A f \in Future : futures'[f] = futures[f] \/ futures'[f].pc # "stopping"
      BY <2>1 DEF Typed, TypeOK, QueueStop, NoFuture
    <2>3. overlay' = Marked(p, "stopping") /\ reaped' \subseteq reaped
      BY <2>1 DEF QueueStop, SetOverlay
    <2>4. QED
      BY <2>1, <2>2, <2>3 DEF LivesRest
  <1>3. ASSUME NEW p \in Project, NEW b \in {"stop", "restart"},
               ClickStopRefused(p) \/ ClickDisclosed(p, b) \/ ConfirmsRefused(p, b)
        PROVE  LivesRest
    BY <1>3 DEF ClickStopRefused, ClickDisclosed, ConfirmsRefused, LivesRest
  <1>4. CASE DialogNo
    BY <1>4 DEF DialogNo, LivesRest
  <1>5. ~DialogYes
    BY DEF DialogYes
  <1>6. ASSUME NEW f \in Future, StopPops(f) \/ StopRaises(f)
        PROVE  UNCHANGED <<overlay, reaped>>
    BY <1>6 DEF StopPops, StopRaises
  <1>7. ASSUME NEW f \in Future, StopEnds(f) \/ StopReports(f) PROVE LivesRest
    <2>1. futures[f] \in FutureTask
      BY DEF Typed, TypeOK
    <2>2. \A g \in Future : futures'[g] = futures[g] \/ futures'[g].pc # "stopping"
      <3>1. \E pc \in {"probing", "done"} : \E o :
              \/ futures' = [futures EXCEPT ![f].pc = pc]
              \/ futures' = [futures EXCEPT ![f].pc = pc, ![f].outcome = o]
        BY <1>7 DEF StopEnds, StopReports
      <3>2. QED
        BY <2>1, <3>1 DEF Typed, TypeOK, FutureTask
    <2>3. UNCHANGED <<entry, upkeep, gone, overlay, reaped>>
      BY <1>7 DEF StopEnds, StopReports
    <2>4. life' = life \/ life' = [life EXCEPT ![futures[f].server] = "gone"]
      BY <1>7 DEF StopEnds, StopReports
    <2>5. QED
      BY <2>2, <2>3, <2>4 DEF Typed, TypeOK, LivesRest
  <1>8. ASSUME NEW f \in Future, OnStopped(f)
        PROVE  LivesRest \/ \E p \in Project, c \in Server : Spawns(p, c)
    <2>1. \A g \in Future : futures'[g] = futures[g] \/ futures'[g].pc # "stopping"
      BY <1>8 DEF Typed, TypeOK, OnStopped, NoFuture
    <2>2. UNCHANGED <<upkeep, gone>>
      BY <1>8 DEF OnStopped
    <2>3. \/ /\ UNCHANGED <<entry, life, reaped>>
             /\ overlay' \in {overlay, NoOverlay}
          \/ futures[f].path \in restarting /\ \E c \in Server : Spawn(futures[f].path, c)
      BY <1>8 DEF OnStopped, Cleared, OverlayUnread
    <2>4. restarting \subseteq Project
      BY DEF Typed, TypeOK
    <2>5. QED
      BY <2>1, <2>2, <2>3, <2>4 DEF LivesRest, Spawns
  <1>9. CASE Tick
    BY <1>9 DEF Tick, NoUpkeep, LivesRest
  <1>10. CASE UpkeepReaps
    <2>1. upkeep \in UpkeepTask
      BY DEF Typed, TypeOK
    <2>2. upkeep'.reaped = Dead /\ upkeep'.gone = upkeep.gone
      BY <1>10, <2>1 DEF UpkeepReaps, UpkeepTask
    <2>3. QED
      BY <1>10, <2>2 DEF UpkeepReaps, LivesRest
  <1>11. CASE UpkeepLooks
    <2>1. upkeep \in UpkeepTask
      BY DEF Typed, TypeOK
    <2>2. upkeep'.reaped = upkeep.reaped /\ upkeep'.gone = Dead
      BY <1>11, <2>1 DEF UpkeepLooks, UpkeepTask
    <2>3. QED
      BY <1>11, <2>2 DEF UpkeepLooks, LivesRest
  <1>12. CASE OnUpkeep
    <2>1. overlay' \in {overlay, NoOverlay}
      BY <1>12 DEF OnUpkeep, StartUnobserved
    <2>2. /\ upkeep'.reaped = {} /\ upkeep'.gone = {} /\ gone' = upkeep.gone
          /\ reaped' = reaped \cup upkeep.reaped /\ UNCHANGED <<entry, life, futures>>
      BY <1>12 DEF OnUpkeep, NoUpkeep
    <2>3. QED
      BY <2>1, <2>2 DEF LivesRest
  <1>13. ASSUME NEW s \in Snap, SnapReads(s) \/ SnapReports(s) \/ OnProbeError(s)
         PROVE  LivesRest
    BY <1>13 DEF SnapReads, SnapReports, OnProbeError, LivesRest
  <1>14. ASSUME NEW s \in Snap, OnSnapshot(s) PROVE LivesRest
    <2>1. /\ UNCHANGED <<entry, life, futures, upkeep, gone>> /\ reaped' = {}
          /\ overlay' \in {overlay, NoOverlay}
      BY <1>14 DEF OnSnapshot, NoneReaped
    <2>2. QED
      BY <2>1 DEF LivesRest
  <1>15. ASSUME NEW p \in Project,
                Relist(p) \/ \E q \in Port \cup {None} : ChangePort(p, q)
         PROVE  LivesRest
    BY <1>15 DEF Relist, ChangePort, SetRecords, LivesRest
  <1>16. CASE Quit \/ DropResult
    BY <1>16 DEF Quit, DropResult, LivesRest
  <1>17. CASE Outside
    <2>1. UNCHANGED <<entry, futures, upkeep, gone, overlay, reaped>>
      BY <1>17 DEF Outside, LauncherExits, ServerExits, ServerListens,
                   StrangerListens, Listens, StrangerLeaves
    <2>2. \/ life' = life
          \/ \E c \in Server : /\ life[c] # "gone" /\ life' = [life EXCEPT ![c] = "forked"]
          \/ \E c \in Server : life' = [life EXCEPT ![c] = "gone"]
      BY <1>17 DEF Outside, LauncherExits, ServerExits, ServerListens,
                   StrangerListens, Listens, StrangerLeaves
    <2>3. QED
      BY <2>1, <2>2 DEF Typed, TypeOK, LivesRest
  <1>18. CASE UNCHANGED vars
    BY <1>18 DEF vars, LivesRest
  <1>19. QED
    BY <1>1, <1>2, <1>3, <1>4, <1>5, <1>6, <1>7, <1>8, <1>9, <1>10, <1>11, <1>12,
       <1>13, <1>14, <1>15, <1>16, <1>17, <1>18
       DEF Next, Clicked, StopStep, TreeStep, UpkeepStep, SnapStep

LEMMA StartedNext ==
  ASSUME StopsInv, WasStarted, [Next]_vars, Tree = {}
  PROVE  WasStarted'
  <1>1. Typed /\ entry \in [Project -> Server \cup {None}]
    BY DEF StopsInv, Typed, TypeOK
  <1>2. \A f \in Future : futures[f].pc = "stopping" =>
          futures[f].server \in Server /\ futures[f].path \in Project
    BY <1>1 DEF Typed, TasksBound
  <1>3. CASE LivesRest
    <2>1. \A p \in Project : entry'[p] # None => entry[p] \in Server /\ entry'[p] = entry[p]
      BY <1>1, <1>3 DEF LivesRest
    <2>2. QED
      BY <1>2, <1>3, <2>1 DEF LivesRest, WasStarted
  <1>4. ASSUME NEW p \in Project, NEW c \in Server, Spawns(p, c) PROVE WasStarted'
    <2>1. /\ entry' = [entry EXCEPT ![p] = c]
          /\ life' = [life EXCEPT ![c] = "live"]
      BY <1>4 DEF Spawns, Spawn
    <2>2. \A d \in Server : life'[d] = "unborn" => life[d] = "unborn" /\ d # c
      BY <1>1, <2>1 DEF Typed, TypeOK
    <2>3. \A q \in Project : entry'[q] = c \/ entry'[q] = entry[q]
      BY <1>1, <2>1
    <2>4. QED
      BY <1>1, <1>2, <1>4, <2>2, <2>3 DEF Spawns, WasStarted
  <1>5. ASSUME NEW f \in Future, StopPops(f) \/ StopRaises(f) PROVE WasStarted'
    <2> DEFINE p == futures[f].path
    <2>1. futures[f] \in FutureTask /\ p \in Project
      BY <1>1, <1>5 DEF Typed, TypeOK, TasksBound, StopPops, StopRaises
    <2>2. /\ life' = life
          /\ \A g \in Future : g # f => futures'[g] = futures[g]
      BY <1>1, <1>5 DEF Typed, TypeOK, StopPops, StopRaises
    <2>3. \A q \in Project : entry'[q] # None =>
            entry'[q] = entry[q]
            \/ (futures[f].pc = "stopping" /\ entry'[q] = futures[f].server)
      BY <1>1, <1>5, <2>1 DEF StopPops, StopRaises
    <2>4. futures'[f].pc = "stopping" => futures'[f].server = entry[p] /\ entry[p] # None
      BY <1>1, <1>5, <2>1 DEF Typed, TypeOK, FutureTask, StopPops, StopRaises
    <2>5. QED
      BY <2>1, <2>2, <2>3, <2>4 DEF WasStarted
  <1>6. QED
    BY <1>1, <1>3, <1>4, <1>5, LivesFrame

LEMMA StopMeansStep ==
  ASSUME StopsInv, WasStarted, [Next]_vars, Tree = {}, NEW p \in Project,
         NEW c \in Server, life[c] = "unborn", entry'[p] = c
  PROVE  wish'[p] # "stop"
  <1>1. Typed /\ StopsOnce /\ WasStarted
    BY DEF StopsInv
  <1>2. entry[p] # c /\ c # None
    BY ControllerAssumption DEF WasStarted
  <1>3. entry \in [Project -> Server \cup {None}] /\ wish \in [Project -> Button \cup {"none"}]
    BY <1>1 DEF Typed, TypeOK
  <1>4. ~StopsRest
    BY <1>2 DEF StopsRest
  <1>5. ASSUME NEW q \in Project, NEW d \in Server, NEW b \in Button, StartedBy(q, d, b)
        PROVE  wish'[p] # "stop"
    <2>1. /\ entry' = [entry EXCEPT ![q] = d] /\ wish' = [wish EXCEPT ![q] = b]
          /\ b # "stop"
      BY <1>5 DEF StartedBy, Spawn
    <2>2. p = q
      BY <1>2, <1>3, <2>1
    <2>3. QED
      BY <1>3, <2>1, <2>2
  <1>6. ASSUME NEW q \in Project, NEW b \in Button, QueuedBy(q, b) PROVE FALSE
    BY <1>2, <1>6 DEF QueuedBy
  <1>7. ASSUME NEW f \in Future,
               StopPops(f) \/ StopEnds(f) \/ StopReports(f) \/ StopRaises(f)
        PROVE  FALSE
    <2>1. \/ entry'[p] \in {entry[p], None}
          \/ futures[f].pc = "stopping" /\ entry'[p] = futures[f].server
      BY <1>3, <1>7 DEF StopPops, StopEnds, StopReports, StopRaises
    <2>2. QED
      BY <1>1, <1>2, <2>1 DEF WasStarted
  <1>8. ASSUME NEW f \in Future, OnStopped(f), wish' = wish PROVE wish'[p] # "stop"
    <2>1. PICK d \in Server : futures[f].path \in restarting /\ Spawn(futures[f].path, d)
      BY <1>2, <1>8 DEF OnStopped
    <2>2. entry' = [entry EXCEPT ![futures[f].path] = d]
      BY <2>1 DEF Spawn
    <2>3. p = futures[f].path
      BY <1>2, <1>3, <2>2
    <2>4. QED
      BY <1>1, <1>8, <2>1, <2>3 DEF StopsOnce, StillWanted
  <1>9. QED
    BY <1>1, <1>4, <1>5, <1>6, <1>7, <1>8, StopsFrame DEF Typed

LEMMA StartedInit == Init => WasStarted
  BY DEF Init, WasStarted, NoFuture

\* No server is spawned for a project on which Stop was pressed last, as long as no
\* stop waits for a thread and none is of a foreign tree.
THEOREM StopMeansStopAlways ==
  ASSUME EnoughThreads, Tree = {}
  PROVE  Spec => StopMeansStop
  <1>1. Init => StopsInv /\ WasStarted
    BY StopsInit, StartedInit
  <1>2. StopsInv /\ WasStarted /\ [Next]_vars => StopsInv' /\ WasStarted'
    BY StopsNext, StartedNext
  <1>3. StopsInv /\ WasStarted /\ [Next]_vars =>
          [\A p \in Project :
             (\E c \in Server : life[c] = "unborn" /\ entry'[p] = c)
               => wish'[p] # "stop"]_vars
    BY StopMeansStep
  <1>4. QED
    BY <1>1, <1>2, <1>3, PTL DEF Spec, StopMeansStop

\* What was seen dead stays dead: Start is not pressed while the word is on its way.
LEMMA DeadNext ==
  ASSUME StopsInv, DeadIsDead, [Next]_vars, Tree = {}, "early_click" \notin Hazard
  PROVE  DeadIsDead'
  <1>1. Typed /\ entry \in [Project -> Server \cup {None}] /\ Popped
    BY DEF StopsInv, StopsOnce, Typed, TypeOK
  <1>2. \A f \in Future : futures[f].pc = "stopping" =>
          futures[f].server \in Server /\ futures[f].path \in Project
    BY <1>1 DEF Typed, TasksBound
  <1>3. SeenDead \subseteq Project /\ Dead \subseteq Project
    BY <1>1 DEF Typed, TypeOK, UpkeepTask, SeenDead, Dead
  <1>4. CASE LivesRest
    <2>1. \A p \in Project : entry'[p] # None => entry[p] \in Server /\ entry'[p] = entry[p]
      BY <1>1, <1>4 DEF LivesRest
    <2>2. SeenDead' \subseteq SeenDead \cup Dead
      BY <1>4 DEF LivesRest
    <2>3. \A d \in Server : life[d] = "gone" => life'[d] = "gone"
      BY <1>4 DEF LivesRest
    <2>4. ASSUME NEW p \in SeenDead', entry'[p] # None PROVE life'[entry'[p]] = "gone"
      <3>1. p \in Project
        BY <1>3, <2>2, <2>4
      <3>2. life[entry[p]] = "gone"
        BY <2>1, <2>2, <2>4, <3>1 DEF DeadIsDead, Dead
      <3>3. QED
        BY <2>1, <2>3, <2>4, <3>1, <3>2
    <2>5. ASSUME NEW p \in SeenDead', NEW f \in Future, futures'[f].pc = "stopping",
                 futures'[f].path = p
          PROVE  life'[futures'[f].server] = "gone"
      <3>1. futures'[f] = futures[f]
        BY <1>4, <2>5 DEF LivesRest
      <3>2. entry[p] = None
        BY <1>1, <2>5, <3>1 DEF Popped
      <3>3. p \in SeenDead
        BY <2>2, <2>5, <3>2 DEF Dead
      <3>4. QED
        BY <1>2, <2>3, <2>5, <3>1, <3>3 DEF DeadIsDead
    <2>6. QED
      BY <2>4, <2>5 DEF DeadIsDead
  <1>5. ASSUME NEW q \in Project, NEW c \in Server, Spawns(q, c) PROVE DeadIsDead'
    <2>1. /\ entry' = [entry EXCEPT ![q] = c] /\ life[c] = "unborn"
          /\ life' = [life EXCEPT ![c] = "live"] /\ NotEarly(q)
      BY <1>5 DEF Spawns, Spawn
    <2>2. q \notin SeenDead /\ SeenDead' = SeenDead
      BY <1>5, <2>1 DEF NotEarly, SeenDead, Spawns
    <2>3. \A d \in Server : life[d] = "gone" => life'[d] = "gone"
      BY <1>1, <2>1 DEF Typed, TypeOK
    <2>4. \A p \in Project : p # q => entry'[p] = entry[p]
      BY <1>1, <2>1
    <2>5. ASSUME NEW p \in SeenDead, entry'[p] # None PROVE life'[entry'[p]] = "gone"
      <3>1. p \in Project /\ entry'[p] = entry[p]
        BY <1>3, <2>2, <2>4, <2>5
      <3>2. life[entry[p]] = "gone" /\ entry[p] \in Server
        BY <1>1, <2>5, <3>1 DEF DeadIsDead
      <3>3. QED
        BY <2>3, <3>1, <3>2
    <2>6. ASSUME NEW p \in SeenDead, NEW f \in Future, futures'[f].pc = "stopping",
                 futures'[f].path = p
          PROVE  life'[futures'[f].server] = "gone"
      <3>1. futures'[f] = futures[f]
        BY <1>5, <2>6 DEF Spawns
      <3>2. QED
        BY <1>2, <2>3, <2>6, <3>1 DEF DeadIsDead
    <2>7. QED
      BY <2>2, <2>5, <2>6 DEF DeadIsDead
  <1>6. ASSUME NEW f \in Future, StopPops(f) \/ StopRaises(f) PROVE DeadIsDead'
    <2> DEFINE p == futures[f].path
    <2>1. futures[f] \in FutureTask /\ p \in Project
      BY <1>1, <1>6 DEF Typed, TypeOK, TasksBound, StopPops, StopRaises
    <2>2. /\ UNCHANGED <<life, SeenDead>>
          /\ \A g \in Future : g # f => futures'[g] = futures[g]
      BY <1>1, <1>6 DEF Typed, TypeOK, StopPops, StopRaises, SeenDead
    <2>3. \A q \in Project : entry'[q] # None =>
            entry'[q] = entry[q]
            \/ (q = p /\ futures[f].pc = "stopping" /\ entry'[q] = futures[f].server)
      BY <1>1, <1>6, <2>1 DEF StopPops, StopRaises
    <2>4. futures'[f].pc = "stopping" =>
            futures'[f].server = entry[p] /\ entry[p] # None /\ futures'[f].path = p
      BY <1>1, <1>6, <2>1 DEF Typed, TypeOK, FutureTask, StopPops, StopRaises
    <2>5. ASSUME NEW q \in SeenDead, entry'[q] # None PROVE life[entry'[q]] = "gone"
      BY <1>3, <2>3, <2>5 DEF DeadIsDead
    <2>6. ASSUME NEW q \in SeenDead, NEW g \in Future, futures'[g].pc = "stopping",
                 futures'[g].path = q
          PROVE  life[futures'[g].server] = "gone"
      <3>1. CASE g = f
        BY <2>4, <2>6, <3>1 DEF DeadIsDead
      <3>2. CASE g # f
        BY <2>2, <2>6, <3>2 DEF DeadIsDead
      <3>3. QED
        BY <3>1, <3>2
    <2>7. QED
      BY <2>2, <2>5, <2>6 DEF DeadIsDead
  <1>7. QED
    BY <1>1, <1>4, <1>5, <1>6, LivesFrame

LEMMA ReapedNext ==
  ASSUME StopsInv, DeadIsDead, NotReaped, [Next]_vars, Tree = {}
  PROVE  NotReaped'
  <1>1. /\ Typed /\ entry \in [Project -> Server \cup {None}] /\ NotStarting
        /\ reaped \in SUBSET Project
    BY DEF StopsInv, StopsOnce, Typed, TypeOK
  <1>2. CASE LivesRest
    <2>1. ASSUME NEW p \in Project, overlay' = Marked(p, "starting"), entry'[p] # None,
                 life'[entry'[p]] # "gone", p \in reaped'
          PROVE  FALSE
      <3>1. overlay = Marked(p, "starting")
        BY <1>2, <2>1 DEF LivesRest, NoOverlay, Marked
      <3>2. entry[p] \in Server /\ entry'[p] = entry[p]
        BY <1>1, <1>2, <2>1 DEF LivesRest
      <3>3. life[entry[p]] # "gone"
        BY <1>2, <2>1, <3>2 DEF LivesRest
      <3>4. p \in reaped \cup upkeep.reaped
        BY <1>2, <2>1 DEF LivesRest
      <3>5. QED
        BY <2>1, <3>1, <3>2, <3>3, <3>4 DEF NotReaped, DeadIsDead, SeenDead
    <2>2. QED
      BY <2>1 DEF NotReaped
  <1>3. ASSUME NEW q \in Project, NEW c \in Server, Spawns(q, c) PROVE NotReaped'
    <2>1. overlay' = Marked(q, "starting") /\ reaped' = reaped \ {q}
      BY <1>3 DEF Spawns, Spawn, SetOverlay
    <2>2. \A p \in Project : overlay' = Marked(p, "starting") => p = q
      BY <2>1 DEF Marked
    <2>3. QED
      BY <2>1, <2>2 DEF NotReaped
  <1>4. ASSUME NEW f \in Future, StopPops(f) \/ StopRaises(f), UNCHANGED <<overlay, reaped>>
        PROVE  NotReaped'
    <2> DEFINE p == futures[f].path
    <2>1. futures[f].pc # "idle" /\ p \in Project /\ life' = life
      BY <1>1, <1>4 DEF Typed, TasksBound, StopPops, StopRaises
    <2>2. \A q \in Project : q # p => entry'[q] = entry[q]
      BY <1>1, <1>4, <2>1 DEF StopPops, StopRaises
    <2>3. overlay # Marked(p, "starting")
      BY <1>1, <2>1 DEF NotStarting
    <2>4. QED
      BY <1>4, <2>1, <2>2, <2>3 DEF NotReaped
  <1>5. QED
    BY <1>1, <1>2, <1>3, <1>4, LivesFrame

LEMMA UnlistedNext ==
  ASSUME Typed, UnlistedUnknown, [Next]_vars
  PROVE  UnlistedUnknown'
  <1>1. CASE UNCHANGED agreed
    BY <1>1 DEF agreed, UnlistedUnknown
  <1>2. ASSUME NEW s \in Snap, OnSnapshot(s) PROVE UnlistedUnknown'
    <2>1. listed' = listed
      BY <1>2 DEF OnSnapshot
    <2>2. \A p \in Project : p \notin listed => statuses'[p] = "unknown"
      BY <1>2 DEF OnSnapshot
    <2>3. QED
      BY <2>1, <2>2 DEF UnlistedUnknown
  <1>3. ASSUME NEW s \in Snap, OnProbeError(s) PROVE UnlistedUnknown'
    BY <1>3 DEF OnProbeError, UnlistedUnknown
  <1>4. ASSUME NEW L, NEW o, SetRecords(L, o) PROVE UnlistedUnknown'
    BY <1>4 DEF SetRecords, StatusesKept, UnlistedUnknown
  <1>5. CASE Quit
    BY <1>5 DEF Quit, UnlistedUnknown
  <1>6. QED
    BY <1>1, <1>2, <1>3, <1>4, <1>5, RowsFrame

\* What a server held when a snapshot was read it holds still, unless it is gone.
HeldStill ==
  \A s \in Snap : \A q \in Port : snaps[s].table[q] \in Server =>
    table[q] = snaps[s].table[q] \/ life[snaps[s].table[q]] = "gone"

\* What changes who holds a port, or who is gone.
LEMMA TableFrame ==
  ASSUME Typed, [Next]_vars, Tree = {}
  PROVE  \/ UNCHANGED <<table, life>>
         \/ \E p \in Project, c \in Server : Spawn(p, c) /\ table' = table
         \/ \E f \in Future : StopEnds(f)
         \/ Outside
  <1>1. ASSUME NEW p \in Project, StartOrRefusal(p), table' = table
        PROVE  \/ UNCHANGED <<table, life>>
               \/ \E c \in Server : Spawn(p, c) /\ table' = table
    BY <1>1 DEF StartOrRefusal
  <1>2. CASE Clicked
    <2>1. ASSUME NEW p \in Project,
                 ClickStart(p) \/ ClickRestartGone(p) \/ ConfirmsGone(p)
          PROVE  StartOrRefusal(p) /\ table' = table
      BY <2>1 DEF ClickStart, ClickRestartGone, ConfirmsGone
    <2>2. ASSUME NEW p \in Project, NEW b \in {"stop", "restart"},
                 \/ ClickStop(p) \/ ClickRestart(p) \/ ClickStopRefused(p)
                 \/ ClickDisclosed(p, b) \/ ConfirmsHeld(p, b) \/ ConfirmsRefused(p, b)
          PROVE  UNCHANGED <<table, life>>
      BY <2>2 DEF ClickStop, ClickRestart, ClickStopRefused, ClickDisclosed,
                  ConfirmsHeld, ConfirmsRefused
    <2>3. ASSUME DialogYes \/ DialogNo PROVE UNCHANGED <<table, life>>
      BY <2>3 DEF DialogYes, DialogNo
    <2>4. QED
      BY <1>1, <1>2, <2>1, <2>2, <2>3 DEF Clicked
  <1>3. ASSUME NEW f \in Future, StopPops(f) \/ StopReports(f) \/ StopRaises(f)
        PROVE  UNCHANGED <<table, life>>
    BY <1>3 DEF StopPops, StopReports, StopRaises
  <1>4. ASSUME NEW f \in Future, OnStopped(f)
        PROVE  \/ UNCHANGED <<table, life>>
               \/ \E p \in Project, c \in Server : Spawn(p, c) /\ table' = table
    <2>1. restarting \subseteq Project /\ table' = table
      BY <1>4 DEF Typed, TypeOK, OnStopped
    <2>2. \/ life' = life
          \/ futures[f].path \in restarting /\ \E c \in Server : Spawn(futures[f].path, c)
      BY <1>4 DEF OnStopped
    <2>3. QED
      BY <2>1, <2>2
  <1>5. CASE Tick \/ UpkeepStep
    BY <1>5 DEF Tick, UpkeepStep, UpkeepReaps, UpkeepLooks, OnUpkeep
  <1>6. ASSUME NEW s \in Snap, SnapStep(s) PROVE UNCHANGED <<table, life>>
    BY <1>6 DEF SnapStep, SnapReads, SnapReports, OnSnapshot, OnProbeError
  <1>7. ASSUME NEW p \in Project,
               Relist(p) \/ \E q \in Port \cup {None} : ChangePort(p, q)
        PROVE  UNCHANGED <<table, life>>
    BY <1>7 DEF Relist, ChangePort, SetRecords
  <1>8. CASE Quit \/ DropResult
    BY <1>8 DEF Quit, DropResult
  <1>9. CASE UNCHANGED vars
    BY <1>9 DEF vars
  <1>10. QED
    BY <1>2, <1>3, <1>4, <1>5, <1>6, <1>7, <1>8, <1>9 DEF Next, StopStep

\* A server lets go of a port only when it is gone, and then it is gone for good.
LEMMA TableStep ==
  ASSUME Typed, [Next]_vars, Tree = {}, NEW c \in Server, NEW q \in Port
  PROVE  /\ table[q] = c => table'[q] = c \/ life'[c] = "gone"
         /\ life[c] = "gone" => life'[c] = "gone"
  <1>1. /\ life \in [Server -> {"unborn", "live", "forked", "gone"}]
        /\ table \in [Port -> Holder \cup {None}]
        /\ c # None /\ c \notin Stranger
    BY DEF Typed, TypeOK, Table
  <1>2. CASE UNCHANGED <<table, life>>
    BY <1>2
  <1>3. ASSUME NEW p \in Project, NEW d \in Server, Spawn(p, d), table' = table
        PROVE  life[c] = "gone" => life'[c] = "gone"
    BY <1>1, <1>3 DEF Spawn
  <1>4. ASSUME NEW f \in Future, StopEnds(f)
        PROVE  /\ table[q] = c => table'[q] = c \/ life'[c] = "gone"
               /\ life[c] = "gone" => life'[c] = "gone"
    BY <1>1, <1>4 DEF StopEnds, Freed
  <1>5. ASSUME NEW d \in Server, LauncherExits(d) \/ ServerExits(d)
        PROVE  /\ table[q] = c => table'[q] = c \/ life'[c] = "gone"
               /\ life[c] = "gone" => life'[c] = "gone"
    BY <1>1, <1>5 DEF LauncherExits, ServerExits, Freed
  <1>6. ASSUME NEW h \in Holder, NEW r \in Port, Listens(h, r)
        PROVE  /\ table[q] = c => table'[q] = c
               /\ life' = life
    BY <1>1, <1>6 DEF Listens
  <1>7. ASSUME NEW h \in Stranger, StrangerLeaves(h)
        PROVE  (table[q] = c => table'[q] = c) /\ life' = life
    BY <1>1, <1>7 DEF StrangerLeaves, Freed
  <1>8. CASE Outside
    BY <1>5, <1>6, <1>7, <1>8 DEF Outside, ServerListens, StrangerListens, Holder
  <1>9. QED
    BY <1>2, <1>3, <1>4, <1>8, TableFrame

\* What a snapshot says is what it said, nothing, or what holds now.
LEMMA SnapTables ==
  ASSUME Typed, [Next]_vars, NEW s \in Snap, NEW q \in Port
  PROVE  snaps'[s].table[q] \in {snaps[s].table[q], None, table[q]}
  <1>1. snaps \in [Snap -> SnapTask]
    BY DEF Typed, TypeOK
  <1>2. CASE UNCHANGED poll
    BY <1>2 DEF poll
  <1>3. CASE Tick \/ UpkeepReaps \/ UpkeepLooks \/ Quit
    BY <1>3 DEF Tick, UpkeepReaps, UpkeepLooks, Quit
  <1>4. ASSUME NEW r \in Snap, NEW want,
               snaps' = [snaps EXCEPT ![r] = [Unread EXCEPT !.pc = "queued",
                                                            !.want = want]]
        PROVE  snaps'[s].table[q] \in {snaps[s].table[q], None, table[q]}
    <2>1. snaps'[s] = snaps[s] \/ snaps'[s] = [Unread EXCEPT !.pc = "queued", !.want = want]
      BY <1>1, <1>4
    <2>2. [Unread EXCEPT !.pc = "queued", !.want = want].table[q] = None
      BY DEF Unread
    <2>3. QED
      BY <2>1, <2>2
  <1>5. CASE OnUpkeep
    <2>1. StartSnapshot \/ snaps' = snaps
      BY <1>5 DEF OnUpkeep
    <2>2. QED
      BY <1>4, <2>1 DEF StartSnapshot
  <1>6. ASSUME NEW r \in Snap, SnapReads(r)
        PROVE  snaps'[s].table[q] \in {snaps[s].table[q], None, table[q]}
    <2>1. snaps[r] \in SnapTask
      BY <1>1
    <2>2. PICK t : /\ snaps' = [snaps EXCEPT ![r] = t]
                   /\ t.table \in {snaps[r].table, table}
      <3>1. CASE snaps' = [snaps EXCEPT ![r].pc = "raised"]
        <4>1. snaps' = [snaps EXCEPT ![r] = [@ EXCEPT !.pc = "raised"]]
          BY <3>1
        <4>2. [snaps[r] EXCEPT !.pc = "raised"].table = snaps[r].table
          BY <2>1 DEF SnapTask
        <4>3. QED
          BY <4>1, <4>2
      <3>2. CASE snaps' = [snaps EXCEPT ![r].pc = "read", ![r].table = table]
        <4>1. snaps' = [snaps EXCEPT ![r] = [snaps[r] EXCEPT !.pc = "read",
                                                             !.table = table]]
          BY <1>1, <3>2
        <4>2. [snaps[r] EXCEPT !.pc = "read", !.table = table].table = table
          BY <2>1 DEF SnapTask
        <4>3. QED
          BY <4>1, <4>2
      <3>3. QED
        BY <1>6, <3>1, <3>2 DEF SnapReads
    <2>3. snaps'[s] = snaps[s] \/ (r = s /\ snaps'[s] = t)
      BY <1>1, <2>2
    <2>4. QED
      BY <2>2, <2>3
  <1>7. ASSUME NEW r \in Snap, OnSnapshot(r) \/ OnProbeError(r)
        PROVE  snaps'[s].table[q] \in {snaps[s].table[q], None, table[q]}
    <2>1. snaps' = [snaps EXCEPT ![r] = Unread]
      BY <1>7 DEF OnSnapshot, OnProbeError
    <2>2. snaps'[s] = snaps[s] \/ snaps'[s] = Unread
      BY <1>1, <2>1
    <2>3. QED
      BY <2>2 DEF Unread
  <1>8. QED
    BY <1>2, <1>3, <1>5, <1>6, <1>7, PollFrame DEF UpkeepStep

LEMMA HeldStillNext ==
  ASSUME Typed, HeldStill, [Next]_vars, Tree = {}
  PROVE  HeldStill'
  <1>1. ASSUME NEW s \in Snap, NEW q \in Port, snaps'[s].table[q] \in Server
        PROVE  \/ table'[q] = snaps'[s].table[q]
               \/ life'[snaps'[s].table[q]] = "gone"
    <2> PICK c \in Server : c = snaps'[s].table[q]
      BY <1>1
    <2>1. c \in {snaps[s].table[q], table[q]}
      BY SnapTables
    <2>2. table[q] = c \/ life[c] = "gone"
      BY <2>1 DEF HeldStill
    <2>3. QED
      BY <2>2, TableStep
  <1>2. QED
    BY <1>1 DEF HeldStill

\* A server of ours that is not known to be gone is starting while it has no port
\* and nobody is on the one it shall have.
LEMMA ClassifyOwn ==
  ASSUME NEW p, NEW e, NEW want, NEW T, e # None, T[e] = None, Spawning(p),
         OurPorts(p, T) = {}
  PROVE  Classify(p, e, want, T) = "starting"
  <1> DEFINE h == T[e]
             other == DeclaredHolder(p, e, T)
             own == Spawning(p)
             looks == Looks(p, h, want, T)
             others == Looks(p, other, want, T)
             inner == CASE h # None /\ looks -> "foreign"
                        [] h = None /\ own -> "starting"
                        [] h # None /\ own /\ ~looks -> "failed"
                        [] h = None /\ ~own /\ other # None /\ others -> "foreign"
                        [] OTHER -> IF p \in reaped THEN "failed"
                                    ELSE IF h = None THEN "stopped" ELSE "blocked"
             c == Classify(p, e, want, T)
  <1>1. c = CASE e = None -> "unknown"
    [] e # None /\ Owns(p, h) -> "running"
    [] e # None /\ ~Owns(p, h) /\ OurPorts(p, T) # {} -> "wrong port"
    [] OTHER -> inner
    BY DEF Classify
  <1>2. inner = "starting"
    <2>1. own /\ h = None
      OBVIOUS
    <2> HIDE DEF own, h, looks, others, other
    <2>2. QED
      BY <2>1
  <1>3. ~Owns(p, h)
    BY DEF Owns
  <1> HIDE DEF inner, h
  <1>4. QED
    BY <1>1, <1>2, <1>3

\* What ends the one overlay is the upkeep, a snapshot, or the outcome of a stop of
\* the same project.
LEMMA OverlayFrame ==
  ASSUME Typed, [Next]_vars, Tree = {}, NEW p \in Project, overlay.path = p,
         overlay'.path = None
  PROVE  \/ OnUpkeep
         \/ \E s \in Snap : OnSnapshot(s)
         \/ \E f \in Future : OnStopped(f) /\ futures[f].path = p
  <1>1. None \notin Project
    BY ControllerAssumption
  <1>2. overlay' # overlay
    BY <1>1
  <1>3. ASSUME NEW q \in Project, NEW s PROVE overlay' # Marked(q, s)
    BY <1>1 DEF Marked
  <1>4. ASSUME NEW q \in Project, StartOrRefusal(q) PROVE FALSE
    BY <1>2, <1>3, <1>4 DEF StartOrRefusal, Spawn, SetOverlay
  <1>5. ~Clicked
    BY <1>2, <1>3, <1>4 DEF Clicked, ClickStart, ClickRestartGone, ClickStop,
       ClickRestart, QueueStop, SetOverlay, ClickDisclosed, ClickStopRefused,
       ConfirmsHeld, ConfirmsRefused, ConfirmsGone,
       DialogYes, DialogNo
  <1>6. ASSUME NEW f \in Future, StopStep(f)
        PROVE  OnStopped(f) /\ futures[f].path = p
    <2>1. OnStopped(f)
      BY <1>2, <1>6 DEF StopStep, StopPops, StopEnds, StopReports, StopRaises
    <2>2. \/ overlay' = overlay \/ overlay' = Cleared(futures[f].path)
          \/ \E q \in Project : overlay' = Marked(q, "starting")
      <3>1. restarting \subseteq Project
        BY DEF Typed, TypeOK
      <3>2. QED
        BY <2>1, <3>1 DEF OnStopped, OverlayUnread, Spawn, SetOverlay
    <2>3. QED
      BY <1>2, <1>3, <2>1, <2>2 DEF Cleared
  <1>7. ~Tick /\ ~UpkeepReaps /\ ~UpkeepLooks /\ ~Quit /\ ~DropResult
    BY <1>2 DEF Tick, UpkeepReaps, UpkeepLooks, Quit, DropResult
  <1>8. ASSUME NEW s \in Snap, SnapStep(s) PROVE OnSnapshot(s)
    BY <1>2, <1>8 DEF SnapStep, SnapReads, SnapReports, OnProbeError
  <1>9. ASSUME NEW q \in Project,
               Relist(q) \/ \E r \in Port \cup {None} : ChangePort(q, r)
        PROVE  FALSE
    BY <1>2, <1>9 DEF Relist, ChangePort, SetRecords
  <1>10. ~Outside
    BY <1>2 DEF Outside, LauncherExits, ServerExits, ServerListens,
                StrangerListens, Listens, StrangerLeaves
  <1>11. overlay = overlay' \/ Next
    BY DEF vars
  <1>12. QED
    BY <1>2, <1>5, <1>6, <1>7, <1>8, <1>9, <1>10, <1>11 DEF Next, UpkeepStep

\* A server of ours that is alive and has bound nothing still starts after a
\* snapshot that found its port free.
LEMMA SnapshotKeeps ==
  ASSUME Typed, DeadIsDead, HeldStill, NEW s \in Snap, OnSnapshot(s), NEW p \in Project,
         p \in listed, Effective(p) # None, HasBoundNothing(p),
         life[entry[p]] # "gone", ~Answers(Effective(p), snaps[s].table)
  PROVE  statuses'[p] = "starting"
  <1> DEFINE T == snaps[s].table
             want == snaps[s].want
             learned == LearnedFromOurs(T)
             e == EffectiveWith(p, learned)
             found == [r \in Project |->
                         IF r \in listed
                         THEN Classify(r, EffectiveWith(r, learned), want, T)
                         ELSE "unknown"]
  <1>1. statuses' = found
    BY DEF OnSnapshot
  <1>2. found[p] = Classify(p, e, want, T)
    OBVIOUS
  <1>3. OurPorts(p, T) = {}
    <2>1. ASSUME NEW q \in Port, Owns(p, T[q]) PROVE FALSE
      <3>1. T[q] = entry[p] /\ entry[p] \in Server
        BY <2>1 DEF Owns, Typed, TypeOK
      <3>2. table[q] = entry[p]
        BY <3>1 DEF HeldStill
      <3>3. QED
        BY <3>2 DEF HasBoundNothing
    <2>2. QED
      BY <2>1 DEF OurPorts
  <1>4. learned[p] = confirmed[p]
    <2>1. SeenByOurs(p, T) = None
      <3>1. Cardinality(OurPorts(p, T)) # 1
        BY <1>3, FS_EmptySet
      <3> HIDE DEF T
      <3>2. QED
        BY <1>3, <3>1 DEF SeenByOurs
    <2>2. QED
      BY <2>1 DEF LearnedFromOurs
  <1>5. e = Effective(p)
    BY <1>4 DEF Effective, EffectiveWith
  <1>6. T[Effective(p)] = None
    BY DEF Answers
  <1>7. Spawning(p)
    BY DEF DeadIsDead, SeenDead, Spawning, ChildGone, HasBoundNothing
  <1> HIDE DEF T, want, learned, e, found
  <1>8. Classify(p, e, want, T) = "starting"
    BY <1>3, <1>5, <1>6, <1>7, ClassifyOwn
  <1>9. QED
    BY <1>1, <1>2, <1>8

LEMMA SnapshotTaken ==
  ASSUME Typed, NEW s \in Snap, OnSnapshot(s), NEW q, FoundFree(q)
  PROVE  ~Answers(q, snaps[s].table)
  <1>1. snaps[s].pc = "read" /\ snaps'[s].pc = "idle"
    BY DEF OnSnapshot, Unread, Typed, TypeOK
  <1>2. QED
    BY <1>1 DEF FoundFree

\* A row that turns to `stopping` was pressed.
LEMMA StoppingPressed ==
  ASSUME Typed, [Next]_vars, Tree = {}, NEW p \in Project,
         overlay' = Marked(p, "stopping"), overlay # Marked(p, "stopping")
  PROVE  wish'[p] \in {"stop", "restart"}
  <1>1. ASSUME NEW q, NEW s, overlay' = Marked(q, s) PROVE q = p /\ s = "stopping"
    BY <1>1 DEF Marked
  <1>2. overlay' # NoOverlay
    BY DEF Marked, NoOverlay
  <1>3. ~StopsRest
    BY <1>2 DEF StopsRest
  <1>4. ASSUME NEW q \in Project, NEW c \in Server, NEW b \in Button, StartedBy(q, c, b)
        PROVE  FALSE
    BY <1>1, <1>4 DEF StartedBy, Spawn, SetOverlay
  <1>5. ASSUME NEW q \in Project, NEW b \in Button, QueuedBy(q, b)
        PROVE  wish'[p] \in {"stop", "restart"}
    <2>1. q = p
      BY <1>1, <1>5 DEF QueuedBy, QueueStop, SetOverlay
    <2>2. QED
      BY <1>5, <2>1 DEF QueuedBy, Typed, TypeOK
  <1>6. ASSUME NEW f \in Future, OnStopped(f) PROVE FALSE
    <2>1. \/ overlay' = overlay \/ overlay' = Cleared(futures[f].path)
          \/ overlay' = Marked(futures[f].path, "starting")
      BY <1>6 DEF OnStopped, OverlayUnread, Spawn, SetOverlay
    <2>2. QED
      BY <1>1, <1>2, <2>1 DEF Cleared
  <1>7. QED
    BY <1>3, <1>4, <1>5, <1>6, StopsFrame DEF Typed

\* The status the last poll found stays, too.
LEMMA StatusKeeps ==
  ASSUME Typed, UnlistedUnknown, DeadIsDead, HeldStill, [Next]_vars, NEW p \in Project,
         statuses[p] = "starting", p \in listed', Effective(p)' = Effective(p),
         Effective(p) # None, HasBoundNothing(p), life'[entry[p]] # "gone",
         FoundFree(Effective(p))
  PROVE  statuses'[p] = "starting"
  <1>1. p \in listed
    BY DEF UnlistedUnknown
  <1>2. CASE UNCHANGED agreed
    BY <1>2 DEF agreed
  <1>3. ASSUME NEW s \in Snap, OnSnapshot(s) PROVE statuses'[p] = "starting"
    <2>1. life' = life
      BY <1>3 DEF OnSnapshot
    <2>2. ~Answers(Effective(p), snaps[s].table)
      BY <1>3, SnapshotTaken
    <2>3. QED
      BY <1>1, <1>3, <2>1, <2>2, SnapshotKeeps
  <1>4. ASSUME NEW s \in Snap, OnProbeError(s) PROVE statuses'[p] = statuses[p]
    BY <1>4 DEF OnProbeError
  <1>5. ASSUME NEW L, NEW o, SetRecords(L, o) PROVE statuses'[p] = statuses[p]
    <2>1. PICK moved :
            /\ statuses' = StatusesKept(listed \cap L, moved) /\ listed' = L
            /\ p \in moved => Effective(p) # Effective(p)'
      <3> DEFINE After(q) == CASE o[q] # None -> o[q]
                               [] o[q] = None /\ confirmed[q] # None -> confirmed[q]
                               [] OTHER -> Declared[q]
                 moved == {q \in listed \cap L : Effective(q) # After(q)}
      <3>1. statuses' = StatusesKept(listed \cap L, moved) /\ listed' = L
        BY <1>5 DEF SetRecords
      <3>2. override' = o /\ confirmed' = confirmed
        BY <1>5 DEF SetRecords
      <3>3. Effective(p)' = After(p)
        BY <3>2 DEF Effective, EffectiveWith
      <3>4. p \in moved => Effective(p) # Effective(p)'
        BY <3>3
      <3> HIDE DEF moved
      <3>5. QED
        BY <3>1, <3>4
    <2>2. QED
      BY <1>1, <2>1 DEF StatusesKept
  <1>6. CASE Quit
    BY <1>6 DEF Quit
  <1>7. QED
    BY <1>2, <1>3, <1>4, <1>5, <1>6, RowsFrame

\* Everything a starting row rests on.
StartsInv ==
  StopsInv /\ DeadIsDead /\ NotReaped /\ UnlistedUnknown /\ HeldStill

LEMMA StartsInit == Init => StartsInv
  <1> SUFFICES ASSUME Init PROVE StartsInv
    OBVIOUS
  <1>1. DeadIsDead
    BY DEF Init, DeadIsDead, SeenDead, NoUpkeep
  <1>2. NotReaped /\ UnlistedUnknown
    BY DEF Init, NotReaped, UnlistedUnknown
  <1>3. HeldStill
    BY DEF Init, HeldStill, Unread
  <1>4. QED
    BY <1>1, <1>2, <1>3, StopsInit DEF StartsInv

LEMMA StartsNext ==
  ASSUME EnoughThreads, Tree = {}, "early_click" \notin Hazard, StartsInv, [Next]_vars
  PROVE  StartsInv'
  <1>1. StopsInv'
    BY StopsNext DEF StartsInv
  <1>2. DeadIsDead' /\ NotReaped'
    BY DeadNext, ReapedNext DEF StartsInv
  <1>3. UnlistedUnknown' /\ HeldStill'
    BY UnlistedNext, HeldStillNext DEF StartsInv, StopsInv
  <1>4. QED
    BY <1>1, <1>2, <1>3 DEF StartsInv

\* A server that starts slowly, and what a step does not do to it.
Slow(p) ==
  /\ StatusOf(p) = "starting" /\ HasBoundNothing(p)
  /\ p \in listed' /\ Effective(p)' = Effective(p) /\ Effective(p) # None
  /\ overlay'.path \in {None, p}
  /\ entry'[p] = entry[p] /\ life'[entry[p]] # "gone"
  /\ FoundFree(Effective(p))

LEMMA StartingStep ==
  ASSUME Tree = {}, StartsInv, [Next]_vars, Typed', NEW p \in Project, Slow(p)
  PROVE  \/ StatusOf(p)' = "starting"
         \/ StatusOf(p)' = "stopping" /\ wish'[p] \in {"stop", "restart"}
  <1>1. /\ Typed /\ StopsOnce /\ DeadIsDead /\ NotReaped /\ UnlistedUnknown
        /\ HeldStill
    BY DEF StartsInv, StopsInv
  <1>2. p # None
    OBVIOUS
  <1>u. /\ StatusOf(p) = "starting" /\ HasBoundNothing(p)
        /\ p \in listed' /\ Effective(p)' = Effective(p) /\ Effective(p) # None
        /\ overlay'.path \in {None, p}
        /\ entry[p] # None /\ entry'[p] = entry[p] /\ life'[entry[p]] # "gone"
        /\ FoundFree(Effective(p))
    BY DEF Slow, HasBoundNothing
  <1>3. CASE overlay'.path = p
    <2>1. PICK q \in Project, s \in {"starting", "stopping"} : overlay' = Marked(q, s)
      BY <1>2, <1>3 DEF Typed, TypeOK, NoOverlay
    <2>2. q = p /\ StatusOf(p)' = s
      BY <1>3, <2>1 DEF Marked, StatusOf
    <2>3. overlay # Marked(p, "stopping")
      BY <1>u DEF StatusOf, Marked
    <2>4. QED
      BY <1>1, <2>1, <2>2, <2>3, StoppingPressed
  <1>4. CASE overlay'.path = None /\ overlay.path # p
    <2>1. statuses[p] = "starting"
      BY <1>4, <1>u DEF StatusOf
    <2>2. statuses'[p] = "starting"
      BY <1>1, <1>u, <2>1, StatusKeeps
    <2>3. StatusOf(p)' = statuses'[p]
      BY <1>2, <1>4 DEF StatusOf
    <2>4. QED
      BY <2>2, <2>3
  <1>5. CASE overlay'.path = None /\ overlay.path = p
    <2>1. overlay = Marked(p, "starting")
      <3>1. overlay \in {NoOverlay} \cup
              {Marked(q, s) : q \in Project, s \in {"starting", "stopping"}}
        BY <1>1 DEF Typed, TypeOK
      <3>2. PICK q \in Project, s \in {"starting", "stopping"} : overlay = Marked(q, s)
        BY <1>2, <1>5, <3>1 DEF NoOverlay
      <3>3. overlay.status = "starting"
        BY <1>5, <1>u DEF StatusOf
      <3>4. QED
        BY <1>5, <3>2, <3>3 DEF Marked
    <2>2. ASSUME NEW f \in Future, futures[f].path = p PROVE FALSE
      BY <1>1, <1>2, <2>1, <2>2 DEF StopsOnce, OneEach, NotStarting
    <2>3. ~OnUpkeep
      <3>1. SUFFICES ASSUME OnUpkeep PROVE FALSE
        OBVIOUS
      <3>2. life' = life /\ reaped' = reaped \cup upkeep.reaped /\ gone' = upkeep.gone
            /\ overlay' = StartUnobserved
        BY <3>1 DEF OnUpkeep
      <3>3. p \in reaped' \cup gone'
        BY <1>2, <1>5, <3>2 DEF StartUnobserved
      <3>4. QED
        BY <1>1, <1>u, <2>1, <3>2, <3>3 DEF NotReaped, DeadIsDead, SeenDead
    <2>4. ASSUME NEW s \in Snap, OnSnapshot(s)
          PROVE  statuses'[p] = "starting"
      <3>1. life' = life /\ listed' = listed
        BY <2>4 DEF OnSnapshot
      <3>2. ~Answers(Effective(p), snaps[s].table)
        BY <1>1, <1>u, <2>4, SnapshotTaken
      <3>3. QED
        BY <1>1, <1>u, <2>4, <3>1, <3>2, SnapshotKeeps
    <2>5. QED
      BY <1>1, <1>2, <1>5, <2>2, <2>3, <2>4, OverlayFrame DEF StatusOf
  <1>6. QED
    BY <1>u, <1>3, <1>4, <1>5

\* A row that reads `starting` goes on reading it while its server is alive, has
\* bound nothing and nobody is found on its port, until Stop or Restart is pressed
\* or the overlay moves; as long as no stop waits for a thread, none is of a
\* foreign tree, and Start is not pressed while the word about the server before
\* is on its way.
THEOREM StartingKeptAlways ==
  ASSUME EnoughThreads, Tree = {}, "early_click" \notin Hazard
  PROVE  Spec => StartingKept
  <1>1. Init => StartsInv
    BY StartsInit
  <1>2. StartsInv /\ [Next]_vars => StartsInv'
    BY StartsNext
  <1>3. StartsInv /\ StartsInv' /\ [Next]_vars =>
          [\A p \in Project :
             (/\ StatusOf(p) = "starting" /\ HasBoundNothing(p)
              /\ p \in listed' /\ Effective(p)' = Effective(p) /\ Effective(p) # None
              /\ overlay'.path \in {None, p}
              /\ entry'[p] = entry[p] /\ life'[entry[p]] # "gone"
              /\ FoundFree(Effective(p)))
               => \/ StatusOf(p)' = "starting"
                  \/ StatusOf(p)' = "stopping" /\ wish'[p] \in {"stop", "restart"}]_vars
    BY StartingStep DEF StartsInv, StopsInv, Slow
  <1>4. QED
    BY <1>1, <1>2, <1>3, PTL DEF Spec, StartingKept

\* A stop that waits finds the server it was pressed for, or none.
MeantIsHeld ==
  \A f \in Future : futures[f].pc = "queued" =>
    entry[futures[f].path] \in {futures[f].meant, None}

LEMMA MeantNext ==
  ASSUME EnoughThreads, StopsInv, MeantIsHeld, [Next]_vars, Tree = {}
  PROVE  MeantIsHeld'
  <1>1. Typed /\ StopsOnce
    BY DEF StopsInv
  <1>2. /\ entry \in [Project -> Server \cup {None}]
        /\ \A f \in Future : futures[f].pc # "idle" => futures[f].path \in Project
    BY <1>1 DEF Typed, TypeOK, TasksBound
  <1>3. CASE StopsRest
    <2>1. ASSUME NEW f \in Future, futures'[f].pc = "queued"
          PROVE  entry'[futures'[f].path] \in {futures'[f].meant, None}
      <3>1. futures'[f] = futures[f] /\ futures[f].path \in Project
        BY <1>2, <1>3, <2>1 DEF StopsRest
      <3>2. entry[futures[f].path] \in {futures[f].meant, None}
        BY <2>1, <3>1 DEF MeantIsHeld
      <3>3. QED
        BY <1>3, <3>1, <3>2 DEF StopsRest
    <2>2. QED
      BY <2>1 DEF MeantIsHeld
  <1>4. ASSUME NEW p \in Project, NEW c \in Server, NEW b \in Button, StartedBy(p, c, b)
        PROVE  MeantIsHeld'
    <2>1. \A f \in Future : futures[f].pc # "queued"
      BY <1>1, <1>4, TurnFree DEF StartedBy, Typed
    <2>2. futures' = futures
      BY <1>4 DEF StartedBy
    <2>3. QED
      BY <2>1, <2>2 DEF MeantIsHeld
  <1>5. ASSUME NEW p \in Project, NEW b \in Button, QueuedBy(p, b) PROVE MeantIsHeld'
    <2>1. PICK g \in Future :
            futures' = [futures EXCEPT ![g] = [NoFuture EXCEPT !.pc = "queued",
                                                 !.path = p, !.meant = entry[p]]]
      BY <1>5 DEF QueuedBy, QueueStop
    <2>2. /\ futures'[g].path = p /\ futures'[g].meant = entry[p]
          /\ \A f \in Future : f # g => futures'[f] = futures[f]
      BY <1>1, <2>1 DEF Typed, TypeOK, NoFuture
    <2>3. entry' = entry
      BY <1>5 DEF QueuedBy
    <2>4. QED
      BY <2>2, <2>3 DEF MeantIsHeld
  <1>6. ASSUME NEW f \in Future,
               StopPops(f) \/ StopEnds(f) \/ StopReports(f) \/ StopRaises(f)
        PROVE  MeantIsHeld'
    <2> DEFINE p == futures[f].path
    <2>1. futures[f] \in FutureTask /\ futures[f].pc # "idle" /\ p \in Project
      BY <1>1, <1>6 DEF Typed, TypeOK, TasksBound, StopPops, StopEnds, StopReports, StopRaises
    <2>2. \A g \in Future : g # f => futures'[g] = futures[g]
      BY <1>1, <1>6 DEF Typed, TypeOK, StopPops, StopEnds, StopReports, StopRaises
    <2>3. futures'[f].pc # "queued"
      BY <1>1, <1>6, <2>1
         DEF Typed, TypeOK, FutureTask, StopPops, StopEnds, StopReports, StopRaises
    <2>4. \A q \in Project : q # p => entry'[q] = entry[q]
      BY <1>2, <1>6, <2>1 DEF StopPops, StopEnds, StopReports, StopRaises
    <2>5. ASSUME NEW g \in Future, futures'[g].pc = "queued"
          PROVE  entry'[futures'[g].path] \in {futures'[g].meant, None}
      <3>1. futures'[g] = futures[g] /\ g # f
        BY <2>2, <2>3, <2>5
      <3>2. futures[g].path # p /\ futures[g].path \in Project
        BY <1>1, <1>2, <2>1, <2>5, <3>1 DEF StopsOnce, OneEach
      <3>3. entry[futures[g].path] \in {futures[g].meant, None}
        BY <2>5, <3>1 DEF MeantIsHeld
      <3>4. QED
        BY <2>4, <3>1, <3>2, <3>3
    <2>6. QED
      BY <2>5 DEF MeantIsHeld
  <1>7. ASSUME NEW f \in Future, OnStopped(f) PROVE MeantIsHeld'
    <2> DEFINE p == futures[f].path
    <2>1. /\ futures'[f].pc = "idle"
          /\ \A g \in Future : g # f => futures'[g] = futures[g]
      BY <1>1, <1>7 DEF Typed, TypeOK, OnStopped, NoFuture
    <2>2. \/ entry' = entry
          \/ /\ p \in restarting
             /\ \E c \in Server : entry' = [entry EXCEPT ![p] = c]
      BY <1>7 DEF OnStopped, Spawn
    <2>3. p \in restarting => p \in Project
      BY <1>1 DEF Typed, TypeOK
    <2>4. ASSUME NEW g \in Future, futures'[g].pc = "queued"
          PROVE  entry'[futures'[g].path] \in {futures'[g].meant, None}
      <3>1. futures'[g] = futures[g] /\ g # f
        BY <2>1, <2>4
      <3>2. entry[futures[g].path] \in {futures[g].meant, None}
        BY <2>4, <3>1 DEF MeantIsHeld
      <3>3. p \in Project => futures[g].path # p
        BY <1>1, <2>4, <3>1, ControllerAssumption DEF StopsOnce, OneEach
      <3>4. entry'[futures[g].path] = entry[futures[g].path]
        BY <1>2, <2>2, <2>3, <2>4, <3>1, <3>3
      <3>5. QED
        BY <3>1, <3>2, <3>4
    <2>5. QED
      BY <2>4 DEF MeantIsHeld
  <1>8. QED
    BY <1>1, <1>3, <1>4, <1>5, <1>6, <1>7, StopsFrame DEF Typed

LEMMA MeantStep ==
  ASSUME StopsInv, MeantIsHeld, [Next]_vars, Tree = {}, NEW f \in Future,
         futures[f].pc = "queued", futures'[f].pc = "stopping"
  PROVE  futures'[f].server = futures[f].meant
  <1>1. Typed /\ futures \in [Future -> FutureTask]
    BY DEF StopsInv, Typed, TypeOK
  <1>2. CASE StopsRest
    BY <1>2 DEF StopsRest
  <1>3. ASSUME NEW p \in Project, NEW c \in Server, NEW b \in Button, StartedBy(p, c, b)
        PROVE  FALSE
    BY <1>3 DEF StartedBy
  <1>4. ASSUME NEW p \in Project, NEW b \in Button, QueuedBy(p, b) PROVE FALSE
    BY <1>1, <1>4 DEF QueuedBy, QueueStop, NoFuture
  <1>5. ASSUME NEW g \in Future, OnStopped(g) PROVE FALSE
    BY <1>1, <1>5 DEF OnStopped, NoFuture
  <1>6. ASSUME NEW g \in Future,
               StopPops(g) \/ StopEnds(g) \/ StopReports(g) \/ StopRaises(g)
        PROVE  futures'[f].server = futures[f].meant
    <2>1. g = f
      BY <1>1, <1>6 DEF StopPops, StopEnds, StopReports, StopRaises
    <2>2. StopPops(f)
      BY <1>6, <2>1 DEF StopEnds, StopReports, StopRaises
    <2>3. futures[f] \in FutureTask
      BY <1>1
    <2>4. /\ entry[futures[f].path] # None
          /\ futures' = [futures EXCEPT ![f].pc = "stopping",
                                        ![f].server = entry[futures[f].path]]
      BY <1>1, <2>2, <2>3 DEF StopPops, FutureTask
    <2>5. futures'[f].server = entry[futures[f].path]
      BY <1>1, <2>3, <2>4 DEF FutureTask
    <2>6. QED
      BY <2>4, <2>5 DEF MeantIsHeld
  <1>7. QED
    BY <1>1, <1>2, <1>3, <1>4, <1>5, <1>6, StopsFrame DEF Typed

\* With a thread for every stop that is out, and no stop of a foreign tree, a stop
\* stops the server it was pressed for: what StopHitsItsServer fails by is the wait.
THEOREM StopHitsItsServerUnqueued ==
  ASSUME EnoughThreads, Tree = {}
  PROVE  Spec => StopHitsItsServer
  <1>1. Init => StopsInv /\ MeantIsHeld
    BY StopsInit DEF Init, MeantIsHeld, NoFuture
  <1>2. StopsInv /\ MeantIsHeld /\ [Next]_vars => StopsInv' /\ MeantIsHeld'
    BY StopsNext, MeantNext
  <1>3. StopsInv /\ MeantIsHeld /\ [Next]_vars =>
          [\A f \in Future :
             (futures[f].pc = "queued" /\ futures'[f].pc = "stopping")
               => futures'[f].server = futures[f].meant]_vars
    BY MeantStep
  <1>4. QED
    BY <1>1, <1>2, <1>3, PTL DEF Spec, StopHitsItsServer

=============================================================================
