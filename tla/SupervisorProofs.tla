-------------------------- MODULE SupervisorProofs --------------------------
(* Theorems about Supervisor, for every value of its constants.            *)
EXTENDS SupervisorInvariant, TLAPS

USE SupervisorAssumption

USE DEF StartPC, StopPC, UpkeepPC, Verdict, NoStart, NoStop, NoUpkeep,
        registry, kernel, logs, calls

-----------------------------------------------------------------------------
(* Type correctness                                                        *)

LEMMA TypedInit == Init => Typed
  BY DEF Init, TypeOK, StartCall, StopCall, Upkeep, Closing,
         Typed, CallsBound, Owned, Led

LEMMA TypeStart ==
  ASSUME Typed, NEW c \in Starter, NEW p \in Project,
         \/ StartReserve(c, p) \/ StartRefusedByStragglers(c, p)
         \/ StartStep(c)
  PROVE  TypeOK'
  <1> TypeOK
    BY DEF Typed
  <1> starts[c] \in StartCall
    BY DEF TypeOK
  <1>1. CASE StartReserve(c, p)
    BY <1>1 DEF TypeOK, StartReserve, StartCall
  <1>2. CASE StartRefusedByStragglers(c, p)
    BY <1>2 DEF TypeOK, StartRefusedByStragglers, StillLeft, AliveIn
  <1>3. CASE StartRefused(c)
    BY <1>3 DEF TypeOK, StartRefused, StartCall
  <1>4. CASE StartSpawn(c)
    <2>1. PICK g \in Proc, n \in Fd : StartSpawn(c)!2!(g, n)
      BY <1>4 DEF StartSpawn
    <2>2. starts' \in [Starter -> StartCall]
      BY <2>1 DEF TypeOK, StartCall
    <2>3. QED
      BY <1>4, <2>1, <2>2 DEF TypeOK, StartSpawn, StartCall
  <1>5. CASE StartInsert(c)
    <2>1. starts' \in [Starter -> StartCall]
      BY <1>5 DEF TypeOK, StartInsert, StartCall
    <2>2. processes' \in [Project -> Proc \cup {None}]
      BY <1>5 DEF TypeOK, StartInsert, StartCall
    <2>3. QED
      BY <1>5, <2>1, <2>2 DEF TypeOK, StartInsert
  <1>6. CASE StartRecord(c)
    <2>1. starts' \in [Starter -> StartCall]
      BY <1>6 DEF TypeOK, StartRecord, StartCall
    <2>2. started' \in [Project -> Proc \cup {None}]
      BY <1>6 DEF TypeOK, StartRecord, StartCall
    <2>3. QED
      BY <1>6, <2>1, <2>2 DEF TypeOK, StartRecord
  <1>7. CASE StartRelease(c)
    BY <1>7 DEF TypeOK, StartRelease, StartCall
  <1>8. QED
    BY <1>1, <1>2, <1>3, <1>4, <1>5, <1>6, <1>7 DEF StartStep

LEMMA TypeStop ==
  ASSUME Typed, NEW w \in Worker, NEW p \in Project,
         StopPop(w, p) \/ StopStep(w)
  PROVE  TypeOK'
  <1> USE DEF StopCall, AliveIn
  <1> TypeOK
    BY DEF Typed
  <1> stops[w] \in StopCall
    BY DEF TypeOK
  <1> stops[w].pc # "idle" => /\ stops[w].key \in Project
                              /\ stops[w].managed \in Proc
    BY DEF Typed, CallsBound
  <1>1. CASE StopPop(w, p)
    <2>1. /\ processes' \in [Project -> Proc \cup {None}]
          /\ stopping' \in SUBSET Project
      BY <1>1 DEF TypeOK, StopPop, Popped, Reserved
    <2>2. stops' \in [Worker -> StopCall]
      BY <1>1 DEF TypeOK, StopPop
    <2>3. QED
      BY <1>1, <2>1, <2>2 DEF TypeOK, StopPop
  <1>2. CASE StopList(w)
    <2>1. GroupListing(stops[w].managed) \subseteq Proc
      BY <1>2 DEF TypeOK, GroupListing, StopList, NextListing
    <2> DEFINE next == NextListing[stops[w].pc]
    <2>2. next \in StopPC
      BY <1>2 DEF StopList, NextListing
    <2>3. [stops[w] EXCEPT !.pc = next, !.seen = GroupListing(stops[w].managed)]
            \in StopCall
      <3> HIDE DEF next
      <3> QED  BY <2>1, <2>2
    <2>4. stops' = [stops EXCEPT ![w] = [stops[w] EXCEPT !.pc = next,
                      !.seen = GroupListing(stops[w].managed)]]
      BY <1>2 DEF StopList
    <2>5. stops' \in [Worker -> StopCall]
      <3> HIDE DEF next
      <3> QED  BY <2>3, <2>4 DEF TypeOK
    <2>6. QED
      BY <1>2, <2>5 DEF TypeOK, StopList
  <1>3. CASE StopPutBack(w)
    <2>1. processes' \in [Project -> Proc \cup {None}]
      BY <1>3 DEF TypeOK, StopPutBack, Restored
    <2>2. stops' \in [Worker -> StopCall]
      BY <1>3 DEF TypeOK, StopPutBack
    <2>3. QED
      BY <1>3, <2>1, <2>2 DEF TypeOK, StopPutBack
  <1>4. CASE StopTerm(w)
    <2>1. PICK refused \in SUBSET AliveIn(stops[w].seen) :
              StopTerm(w)!2!(refused)
      BY <1>4 DEF StopTerm
    <2> DEFINE members == AliveIn(stops[w].seen)
    <2>2. /\ members \in SUBSET Proc
          /\ (refused # {}) \in BOOLEAN
      OBVIOUS
    <2>3. stops' \in [Worker -> StopCall]
      BY <2>1, <2>2 DEF TypeOK
    <2>4. started' \in [Project -> Proc \cup {None}]
      BY <1>4 DEF TypeOK, StopTerm
    <2>5. QED
      BY <1>4, <2>3, <2>4 DEF TypeOK, StopTerm
  <1>5. CASE StopKill(w)
    <2>1. PICK refused \in SUBSET AliveIn(stops[w].seen) :
              StopKill(w)!2!(refused)
      BY <1>5 DEF StopKill
    <2>2. /\ stops' \in [Worker -> StopCall]
          /\ killed' \in SUBSET Proc
      BY <1>5, <2>1 DEF TypeOK
    <2>3. QED
      BY <1>5, <2>2 DEF TypeOK, StopKill
  <1>6. CASE StopLeft(w)
    <2>1. stops' \in [Worker -> StopCall]
      BY <1>6 DEF TypeOK, StopLeft
    <2>2. stragglers' \in [Project -> SUBSET Proc]
      BY <1>6 DEF TypeOK, StopLeft, LastLeft
    <2>3. QED
      BY <1>6, <2>1, <2>2 DEF TypeOK, StopLeft
  <1>7. CASE StopEscalateRaises(w)
    <2>1. stops' \in [Worker -> StopCall]
      BY <1>7 DEF TypeOK, StopEscalateRaises
    <2>2. stragglers' \in [Project -> SUBSET Proc]
      BY <1>7 DEF TypeOK, StopEscalateRaises
    <2>3. QED
      BY <1>7, <2>1, <2>2 DEF TypeOK, StopEscalateRaises
  <1>8. CASE StopReap(w)
    <2>1. stops' \in [Worker -> StopCall]
      BY <1>8 DEF TypeOK, StopReap
    <2>2. lateReap' \in SUBSET Proc
      BY <1>8 DEF TypeOK, StopReap, LeftToThread
    <2>3. /\ life' \in [Proc -> {"unborn", "live", "zombie", "gone"}]
          /\ files' \in [Fd -> Proc \cup {None}]
      BY <1>8 DEF TypeOK, StopReap, Collected, Closed
    <2>4. QED
      BY <1>8, <2>1, <2>2, <2>3 DEF TypeOK, StopReap
  <1>9. CASE StopRelease(w)
    <2>1. stops' \in [Worker -> StopCall]
      BY <1>9 DEF TypeOK, StopRelease
    <2>2. verdict' \in [Proc -> Verdict]
      BY <1>9 DEF TypeOK, StopRelease
    <2>3. QED
      BY <1>9, <2>1, <2>2 DEF TypeOK, StopRelease, Released
  <1>10. QED
    BY <1>1, <1>2, <1>3, <1>4, <1>5, <1>6, <1>7, <1>8, <1>9 DEF StopStep

LEMMA TypeUpkeep ==
  ASSUME Typed, UpkeepStep
  PROVE  TypeOK'
  <1> USE DEF Upkeep, AliveIn
  <1> TypeOK
    BY DEF Typed
  <1>1. CASE ReapSnapshot
    BY <1>1 DEF TypeOK, ReapSnapshot
  <1>2. ASSUME NEW p \in Project, ReapSkip(p)
        PROVE  TypeOK'
    BY <1>2 DEF TypeOK, ReapSkip
  <1>3. ASSUME NEW p \in Project, ReapList(p)
        PROVE  TypeOK'
    <2>1. GroupListing(upkeep.snap[p]) \subseteq Proc
      BY <1>3 DEF TypeOK, GroupListing, ReapList
    <2>2. QED
      BY <1>3, <2>1 DEF TypeOK, ReapList
  <1>4. CASE ReapKeep
    BY <1>4 DEF TypeOK, ReapKeep
  <1>5. CASE ReapPop
    BY <1>5 DEF TypeOK, ReapPop
  <1>6. CASE ReapForget
    BY <1>6 DEF TypeOK, ReapForget
  <1>7. CASE ReapCollect
    BY <1>7 DEF TypeOK, ReapCollect, Collected, Closed
  <1>8. CASE ReapDone \/ ReapRaises
    <2>1. BeginRotation
      BY <1>8 DEF ReapDone, ReapRaises
    <2>2. upkeep' \in Upkeep
      BY <2>1 DEF TypeOK, BeginRotation
    <2>3. QED
      BY <2>1, <2>2 DEF TypeOK, BeginRotation
  <1>9. ASSUME NEW p \in Project, RotateSkip(p)
        PROVE  TypeOK'
    BY <1>9 DEF TypeOK, RotateSkip
  <1>10. ASSUME NEW p \in Project, RotateDup(p)
         PROVE  TypeOK'
    <2>1. PICK n \in Fd : RotateDup(p)!4!(n)
      BY <1>10 DEF RotateDup
    <2>2. files[logFd[processes[p]]] \in Proc \cup {None}
      BY <1>10 DEF TypeOK, RotateDup, Typed, Owned, Led
    <2>3. upkeep' \in Upkeep
      BY <1>10, <2>1 DEF TypeOK
    <2>4. QED
      BY <1>10, <2>1, <2>2, <2>3 DEF TypeOK, RotateDup
  <1>11. CASE RotateDone
    BY <1>11 DEF TypeOK, RotateDone, Closed
  <1>12. CASE UpkeepDone
    BY <1>12 DEF TypeOK, UpkeepDone
  <1>13. QED
    BY <1>1, <1>2, <1>3, <1>4, <1>5, <1>6, <1>7, <1>8, <1>9, <1>10, <1>11,
       <1>12 DEF UpkeepStep

LEMMA TypeClose ==
  ASSUME Typed, CloseBegin \/ CloseStep
  PROVE  TypeOK'
  <1> USE DEF Closing
  <1> TypeOK
    BY DEF Typed
  <1>1. CASE CloseBegin
    BY <1>1 DEF TypeOK, CloseBegin
  <1>2. CASE CloseClear
    BY <1>2 DEF TypeOK, CloseClear
  <1>3. ASSUME NEW g \in Proc, CloseRelease(g)
        PROVE  TypeOK'
    BY <1>3 DEF TypeOK, CloseRelease, Collected, Closed
  <1>4. QED
    BY <1>1, <1>2, <1>3 DEF CloseStep

LEMMA TypeKernel ==
  ASSUME Typed, NEW q \in Proc, NEW r \in Proc,
         LateReap(q) \/ Fork(q, r) \/ Exit(q)
  PROVE  TypeOK'
  <1> TypeOK
    BY DEF Typed
  <1>1. CASE LateReap(q)
    BY <1>1 DEF TypeOK, LateReap, Collected
  <1>2. CASE Fork(q, r)
    BY <1>2 DEF TypeOK, Fork
  <1>3. CASE Exit(q)
    BY <1>3 DEF TypeOK, Exit
  <1>4. QED
    BY <1>1, <1>2, <1>3

LEMMA StartStepBusy ==
  ASSUME NEW c \in Starter, StartStep(c)
  PROVE  starts[c].pc # "idle"
  BY DEF StartStep, StartRefused, StartSpawn, StartInsert, StartRecord,
         StartRelease

LEMMA StopStepBusy ==
  ASSUME NEW w \in Worker, StopStep(w)
  PROVE  stops[w].pc # "idle"
  BY DEF StopStep, StopList, StopPutBack, StopTerm, StopKill, StopLeft,
         StopEscalateRaises, StopReap, StopRelease, NextListing

LEMMA TypeNext ==
  ASSUME Typed, [Next]_vars
  PROVE  TypeOK'
  <1>1. CASE UNCHANGED vars
    BY <1>1 DEF Typed, TypeOK, StartCall, StopCall, Upkeep, Closing, vars
  <1>2. CASE UpkeepStep
    BY <1>2, TypeUpkeep
  <1>3. CASE CloseBegin \/ CloseStep
    BY <1>3, TypeClose
  <1>4. ASSUME NEW c \in Starter, NEW p \in Project,
               StartReserve(c, p) \/ StartRefusedByStragglers(c, p)
        PROVE  TypeOK'
    BY <1>4, TypeStart
  <1>5. ASSUME NEW c \in Starter, StartStep(c)
        PROVE  TypeOK'
    <2>1. starts[c].project \in Project
      BY <1>5, StartStepBusy DEF Typed, CallsBound
    <2> QED  BY <1>5, <2>1, TypeStart
  <1>6. ASSUME NEW w \in Worker, NEW p \in Project, StopPop(w, p)
        PROVE  TypeOK'
    BY <1>6, TypeStop
  <1>7. ASSUME NEW w \in Worker, StopStep(w)
        PROVE  TypeOK'
    <2>1. stops[w].key \in Project
      BY <1>7, StopStepBusy DEF Typed, CallsBound
    <2> QED  BY <1>7, <2>1, TypeStop
  <1>8. ASSUME NEW q \in Proc, NEW r \in Proc,
               LateReap(q) \/ Fork(q, r) \/ Exit(q)
        PROVE  TypeOK'
    BY <1>8, TypeKernel
  <1>9. QED
    BY <1>1, <1>2, <1>3, <1>4, <1>5, <1>6, <1>7, <1>8 DEF Next

-----------------------------------------------------------------------------
(* What makes it inductive                                                 *)

LEMMA BoundStart ==
  ASSUME Typed, NEW c \in Starter, NEW p \in Project,
         \/ StartReserve(c, p) \/ StartRefusedByStragglers(c, p)
         \/ StartStep(c)
  PROVE  (CallsBound /\ Owned /\ Led)'
  <1> USE DEF Typed, TypeOK, CallsBound, Owned, Led, StartCall, Upkeep, Closing
  <1>1. CASE StartReserve(c, p)
    BY <1>1 DEF StartReserve
  <1>2. CASE StartRefusedByStragglers(c, p)
    BY <1>2 DEF StartRefusedByStragglers
  <1>3. CASE StartRefused(c)
    BY <1>3 DEF StartRefused
  <1>4. CASE StartSpawn(c)
    <2>1. PICK g \in Proc, n \in Fd : StartSpawn(c)!2!(g, n)
      BY <1>4 DEF StartSpawn
    <2>2. owner[g] \notin Project
      BY <2>1
    <2>3. \A h \in Proc : h # g => owner'[h] = owner[h]
      BY <2>1
    <2>4. CallsBound'
      BY <1>4, <2>1 DEF StartSpawn
    <2>5. Owned'
      BY <1>4, <2>1, <2>2, <2>3 DEF StartSpawn
    <2>6. Led'
      BY <2>1, <2>2, <2>3
    <2>7. QED
      BY <2>4, <2>5, <2>6
  <1>5. CASE StartInsert(c)
    BY <1>5 DEF StartInsert
  <1>6. CASE StartRecord(c)
    BY <1>6 DEF StartRecord
  <1>7. CASE StartRelease(c)
    BY <1>7 DEF StartRelease
  <1>8. QED
    BY <1>1, <1>2, <1>3, <1>4, <1>5, <1>6, <1>7 DEF StartStep

LEMMA BoundStop ==
  ASSUME Typed, NEW w \in Worker, NEW p \in Project,
         StopPop(w, p) \/ StopStep(w)
  PROVE  (CallsBound /\ Owned /\ Led)'
  <1> USE DEF Typed, TypeOK, CallsBound, Owned, Led, StopCall, Upkeep, Closing
  <1>1. CASE StopPop(w, p)
    BY <1>1 DEF StopPop, Popped
  <1>2. CASE StopList(w)
    BY <1>2 DEF StopList, NextListing
  <1>3. CASE StopPutBack(w)
    BY <1>3 DEF StopPutBack, Restored
  <1>4. CASE StopTerm(w)
    BY <1>4 DEF StopTerm
  <1>5. CASE StopKill(w)
    BY <1>5 DEF StopKill
  <1>6. CASE StopLeft(w)
    BY <1>6 DEF StopLeft
  <1>7. CASE StopEscalateRaises(w)
    BY <1>7 DEF StopEscalateRaises
  <1>8. CASE StopReap(w)
    BY <1>8 DEF StopReap, LeftToThread, Collected
  <1>9. CASE StopRelease(w)
    BY <1>9 DEF StopRelease
  <1>10. QED
    BY <1>1, <1>2, <1>3, <1>4, <1>5, <1>6, <1>7, <1>8, <1>9 DEF StopStep

LEMMA BoundUpkeep ==
  ASSUME Typed, UpkeepStep
  PROVE  (CallsBound /\ Owned /\ Led)'
  <1> USE DEF Typed, TypeOK, CallsBound, Owned, Led, Upkeep
  <1>1. CASE ReapSnapshot
    BY <1>1 DEF ReapSnapshot
  <1>2. ASSUME NEW p \in Project, ReapSkip(p)
        PROVE  (CallsBound /\ Owned /\ Led)'
    BY <1>2 DEF ReapSkip
  <1>3. ASSUME NEW p \in Project, ReapList(p)
        PROVE  (CallsBound /\ Owned /\ Led)'
    BY <1>3 DEF ReapList
  <1>4. CASE ReapKeep
    BY <1>4 DEF ReapKeep
  <1>5. CASE ReapPop
    BY <1>5 DEF ReapPop
  <1>6. CASE ReapForget
    BY <1>6 DEF ReapForget
  <1>7. CASE ReapCollect
    BY <1>7 DEF ReapCollect, Collected
  <1>8. CASE ReapDone
    BY <1>8 DEF ReapDone, BeginRotation
  <1>9. CASE ReapRaises
    BY <1>9 DEF ReapRaises, BeginRotation
  <1>10. ASSUME NEW p \in Project, RotateSkip(p)
        PROVE  (CallsBound /\ Owned /\ Led)'
    BY <1>10 DEF RotateSkip
  <1>11. ASSUME NEW p \in Project, RotateDup(p)
        PROVE  (CallsBound /\ Owned /\ Led)'
    BY <1>11 DEF RotateDup
  <1>12. CASE RotateDone
    BY <1>12 DEF RotateDone
  <1>13. CASE UpkeepDone
    BY <1>13 DEF UpkeepDone
  <1>14. QED
    BY <1>1, <1>2, <1>3, <1>4, <1>5, <1>6, <1>7, <1>8, <1>9, <1>10, <1>11,
       <1>12, <1>13 DEF UpkeepStep

LEMMA BoundOthers ==
  ASSUME Typed, NEW q \in Proc, NEW r \in Proc,
         \/ CloseBegin \/ CloseStep \/ UNCHANGED vars
         \/ LateReap(q) \/ Fork(q, r) \/ Exit(q)
  PROVE  (CallsBound /\ Owned /\ Led)'
  <1> USE DEF Typed, TypeOK, CallsBound, Owned, Led, Closing
  <1>1. CASE CloseBegin
    BY <1>1 DEF CloseBegin
  <1>2. CASE CloseClear
    BY <1>2 DEF CloseClear
  <1>3. ASSUME NEW g \in Proc, CloseRelease(g)
        PROVE  (CallsBound /\ Owned /\ Led)'
    BY <1>3 DEF CloseRelease, Collected
  <1>4. CASE LateReap(q)
    BY <1>4 DEF LateReap, Collected
  <1>5. CASE Fork(q, r)
    BY <1>5 DEF Fork
  <1>6. CASE Exit(q)
    BY <1>6 DEF Exit
  <1>7. CASE UNCHANGED vars
    BY <1>7 DEF vars
  <1>8. QED
    BY <1>1, <1>2, <1>3, <1>4, <1>5, <1>6, <1>7 DEF CloseStep

LEMMA BoundNext ==
  ASSUME Typed, [Next]_vars
  PROVE  (CallsBound /\ Owned /\ Led)'
  <1>1. CASE UpkeepStep
    BY <1>1, BoundUpkeep
  <1>2. ASSUME NEW c \in Starter, NEW p \in Project,
               StartReserve(c, p) \/ StartRefusedByStragglers(c, p)
        PROVE  (CallsBound /\ Owned /\ Led)'
    BY <1>2, BoundStart
  <1>3. ASSUME NEW c \in Starter, StartStep(c)
        PROVE  (CallsBound /\ Owned /\ Led)'
    <2>1. starts[c].project \in Project
      BY <1>3, StartStepBusy DEF Typed, CallsBound
    <2> QED  BY <1>3, <2>1, BoundStart
  <1>4. ASSUME NEW w \in Worker, NEW p \in Project, StopPop(w, p)
        PROVE  (CallsBound /\ Owned /\ Led)'
    BY <1>4, BoundStop
  <1>5. ASSUME NEW w \in Worker, StopStep(w)
        PROVE  (CallsBound /\ Owned /\ Led)'
    <2>1. stops[w].key \in Project
      BY <1>5, StopStepBusy DEF Typed, CallsBound
    <2> QED  BY <1>5, <2>1, BoundStop
  <1>6. ASSUME NEW q \in Proc, NEW r \in Proc,
               LateReap(q) \/ Fork(q, r) \/ Exit(q)
        PROVE  (CallsBound /\ Owned /\ Led)'
    BY <1>6, BoundOthers
  <1>7. CASE CloseBegin \/ CloseStep \/ UNCHANGED vars
    <2>1. CASE Proc # {}
      BY <1>7, <2>1, BoundOthers
    <2>2. CASE Proc = {}
      BY <1>7, <2>2 DEF CloseBegin, CloseStep, CloseClear, vars,
                        Typed, TypeOK, CallsBound, Owned, Led, Closing
    <2>3. QED
      BY <2>1, <2>2
  <1>8. QED
    BY <1>1, <1>2, <1>3, <1>4, <1>5, <1>6, <1>7 DEF Next

LEMMA TypedNext ==
  ASSUME Typed, [Next]_vars
  PROVE  Typed'
  BY TypeNext, BoundNext DEF Typed

LEMMA TypedAlways == Spec => []Typed
  BY TypedInit, TypedNext, PTL DEF Spec

(* Every variable keeps its type: no call ever works on a project or child  *)
(* it does not have, whatever the threads of supervisor.py interleave.      *)
THEOREM TypeCorrect == Spec => []TypeOK
  <1>1. Typed => TypeOK
    BY DEF Typed
  <1>2. QED
    BY <1>1, TypedAlways, PTL

-----------------------------------------------------------------------------
(* One holder per leader                                                   *)

LEMMA AloneInit == Init => Alone
  BY DEF Init, Alone, StartsReserved, StopReserved, StartsAlone, StopsAlone,
         QuitAlone, ReapAlone, ReapHolds

\* A step of a stop() that leaves the registry alone and goes on with its own
\* child.
SameCalls ==
  /\ UNCHANGED <<processes, starting, stopping, starts, upkeep, closing>>
  /\ \A v \in Worker : /\ stops'[v].key = stops[v].key
                       /\ stops'[v].managed = stops[v].managed
                       /\ (stops'[v].pc = "idle") <=> (stops[v].pc = "idle")
                       /\ stops[v].pc = "releasing" => stops'[v] = stops[v]

LEMMA SameCallsAlone ==
  ASSUME Typed, Alone, SameCalls
  PROVE  Alone'
  <1> USE DEF SameCalls, ReapHolds
  <1>1. /\ StartsReserved' /\ StopReserved' /\ StartsAlone' /\ StopsAlone'
        /\ QuitAlone'
    BY DEF Alone, StartsReserved, StopReserved, StartsAlone, StopsAlone,
           QuitAlone
  <1>2. \A v \in Worker, g \in Proc : StopHolds(v, g)' => StopHolds(v, g)
    BY DEF StopHolds
  <1>3. ReapAlone'
    BY <1>2 DEF Alone, ReapAlone, StartHolds
  <1>4. QED
    BY <1>1, <1>3 DEF Alone

LEMMA SameCallsStop ==
  ASSUME TypeOK, NEW w \in Worker,
         \/ StopList(w) \/ StopTerm(w) \/ StopKill(w) \/ StopLeft(w)
         \/ StopEscalateRaises(w)
  PROVE  SameCalls
  <1> USE DEF SameCalls
  <1> stops \in [Worker -> StopCall]
    BY DEF TypeOK
  <1>1. CASE StopList(w)
    BY <1>1 DEF StopList, NextListing, StopCall
  <1>2. CASE StopTerm(w)
    <2>1. PICK m, b : stops' = [stops EXCEPT ![w].pc = "termed", ![w].seen = {},
                                           ![w].members = m, ![w].warned = b]
      BY <1>2, Zenon DEF StopTerm
    <2>2. /\ stops[w].pc = "listed"
          /\ UNCHANGED <<processes, starting, stopping, starts, upkeep, closing>>
      BY <1>2 DEF StopTerm
    <2>3. QED
      BY <2>1, <2>2 DEF StopCall
  <1>3. CASE StopKill(w)
    <2>1. PICK b : stops' = [stops EXCEPT ![w].pc = "killed", ![w].seen = {},
                                           ![w].warned = b]
      BY <1>3, Zenon DEF StopKill
    <2>2. /\ stops[w].pc = "relisted"
          /\ UNCHANGED <<processes, starting, stopping, starts, upkeep, closing>>
      BY <1>3 DEF StopKill
    <2>3. QED
      BY <2>1, <2>2 DEF StopCall
  <1>4. CASE StopLeft(w)
    BY <1>4 DEF StopLeft, StopCall
  <1>5. CASE StopEscalateRaises(w)
    BY <1>5 DEF StopEscalateRaises, StopCall
  <1>6. QED
    BY <1>1, <1>2, <1>3, <1>4, <1>5

LEMMA AloneStart ==
  ASSUME NoFirstScanError, Typed, Typed', Alone,
         NEW c \in Starter, NEW p \in Project,
         \/ StartReserve(c, p) \/ StartRefusedByStragglers(c, p)
         \/ StartStep(c)
  PROVE  Alone'
  <1> USE DEF NoFirstScanError, Typed, TypeOK, CallsBound, Owned, Led,
             StartCall, StopCall, Upkeep, Closing,
             Alone, StartsReserved, StopReserved, StartsAlone, StopsAlone,
             QuitAlone, ReapAlone, ReapHolds, StartHolds, StopHolds
  <1>1. CASE StartReserve(c, p)
    BY <1>1 DEF StartReserve, Unclaimed
  <1>2. CASE StartRefusedByStragglers(c, p)
    BY <1>2 DEF StartRefusedByStragglers
  <1>3. CASE StartRefused(c)
    BY <1>3 DEF StartRefused
  <1>4. CASE StartSpawn(c)
    <2>1. PICK g \in Proc, n \in Fd : StartSpawn(c)!2!(g, n)
      BY <1>4 DEF StartSpawn
    <2>2. ~ReapHolds(g)
      BY <2>1
    <2>3. QED
      BY <1>4, <2>1, <2>2 DEF StartSpawn
  <1>5. CASE StartInsert(c)
    BY <1>5 DEF StartInsert
  <1>6. CASE StartRecord(c)
    BY <1>6 DEF StartRecord
  <1>7. CASE StartRelease(c)
    BY <1>7 DEF StartRelease
  <1>8. QED
    BY <1>1, <1>2, <1>3, <1>4, <1>5, <1>6, <1>7 DEF StartStep

LEMMA AloneStop ==
  ASSUME NoFirstScanError, Typed, Typed', Alone,
         NEW w \in Worker, NEW p \in Project,
         StopPop(w, p) \/ StopStep(w)
  PROVE  Alone'
  <1> USE DEF NoFirstScanError, Typed, TypeOK, CallsBound, Owned, Led,
             StartCall, StopCall, Upkeep, Closing,
             Alone, StartsReserved, StopReserved, StartsAlone, StopsAlone,
             QuitAlone, ReapAlone, ReapHolds, StartHolds, StopHolds
  <1>0. stops[w].pc # "idle" => /\ stops[w].key \in Project
                                /\ stops[w].managed \in Proc
    BY DEF Typed, CallsBound
  <1>1. CASE StopPop(w, p)
    BY <1>1 DEF StopPop, Popped, Reserved
  <1>2. CASE StopList(w)
    BY <1>2, SameCallsStop, SameCallsAlone
  <1>3. CASE StopPutBack(w)
    BY <1>3 DEF StopPutBack
  <1>4. CASE StopTerm(w)
    BY <1>4, SameCallsStop, SameCallsAlone
  <1>5. CASE StopKill(w)
    BY <1>5, SameCallsStop, SameCallsAlone
  <1>6. CASE StopLeft(w)
    BY <1>6, SameCallsStop, SameCallsAlone
  <1>7. CASE StopEscalateRaises(w)
    BY <1>7, SameCallsStop, SameCallsAlone
  <1>8. CASE StopReap(w)
    BY <1>8 DEF StopReap, LeftToThread, Collected, Closed
  <1>9. CASE StopRelease(w)
    BY <1>9 DEF StopRelease, Released
  <1>10. QED
    BY <1>1, <1>2, <1>3, <1>4, <1>5, <1>6, <1>7, <1>8, <1>9 DEF StopStep

LEMMA AloneUpkeep ==
  ASSUME NoFirstScanError, Typed, Typed', Alone,
         UpkeepStep
  PROVE  Alone'
  <1> USE DEF NoFirstScanError, Typed, TypeOK, CallsBound, Owned, Led,
             StartCall, StopCall, Upkeep, Closing,
             Alone, StartsReserved, StopReserved, StartsAlone, StopsAlone,
             QuitAlone, ReapAlone, ReapHolds, StartHolds, StopHolds
  <1>1. CASE ReapSnapshot
    BY <1>1 DEF ReapSnapshot
  <1>2. ASSUME NEW p \in Project, ReapSkip(p)
        PROVE  Alone'
    BY <1>2 DEF ReapSkip
  <1>3. ASSUME NEW p \in Project, ReapList(p)
        PROVE  Alone'
    BY <1>3 DEF ReapList
  <1>4. CASE ReapKeep
    BY <1>4 DEF ReapKeep
  <1>5. CASE ReapPop
    BY <1>5 DEF ReapPop, SameEntry
  <1>6. CASE ReapForget
    BY <1>6 DEF ReapForget
  <1>7. CASE ReapCollect
    BY <1>7 DEF ReapCollect, Collected, Closed
  <1>8. CASE ReapDone
    <2> HIDE DEF Typed, TypeOK, CallsBound, Owned, Led
    <2>1. \A g : ~ReapHolds(g)'
      BY <1>8 DEF ReapDone, BeginRotation
    <2>2. QED
      BY <1>8, <2>1 DEF ReapDone, BeginRotation
  <1>9. CASE ReapRaises
    <2> HIDE DEF Typed, TypeOK, CallsBound, Owned, Led
    <2>1. \A g : ~ReapHolds(g)'
      BY <1>9 DEF ReapRaises, BeginRotation
    <2>2. QED
      BY <1>9, <2>1 DEF ReapRaises, BeginRotation
  <1>10. ASSUME NEW p \in Project, RotateSkip(p)
        PROVE  Alone'
    BY <1>10 DEF RotateSkip
  <1>11. ASSUME NEW p \in Project, RotateDup(p)
        PROVE  Alone'
    BY <1>11 DEF RotateDup
  <1>12. CASE RotateDone
    BY <1>12 DEF RotateDone, Closed
  <1>13. CASE UpkeepDone
    BY <1>13 DEF UpkeepDone
  <1>14. QED
    BY <1>1, <1>2, <1>3, <1>4, <1>5, <1>6, <1>7, <1>8, <1>9, <1>10, <1>11,
       <1>12, <1>13 DEF UpkeepStep

LEMMA AloneOthers ==
  ASSUME NoFirstScanError, Typed, Typed', Alone,
         \/ CloseBegin \/ CloseStep \/ UNCHANGED vars
         \/ \E q \in Proc : LateReap(q) \/ Exit(q)
         \/ \E q, r \in Proc : Fork(q, r)
  PROVE  Alone'
  <1> USE DEF NoFirstScanError, Typed, TypeOK, CallsBound, Owned, Led,
             StartCall, StopCall, Upkeep, Closing,
             Alone, StartsReserved, StopReserved, StartsAlone, StopsAlone,
             QuitAlone, ReapAlone, ReapHolds, StartHolds, StopHolds
  <1>1. CASE CloseBegin
    BY <1>1 DEF CloseBegin
  <1>2. CASE CloseClear
    BY <1>2 DEF CloseClear
  <1>3. ASSUME NEW g \in Proc, CloseRelease(g)
        PROVE  Alone'
    BY <1>3 DEF CloseRelease, Collected, Closed
  <1>4. CASE UNCHANGED vars
    BY <1>4 DEF vars
  <1>5. ASSUME NEW q \in Proc, LateReap(q)
        PROVE  Alone'
    BY <1>5 DEF LateReap, Collected
  <1>6. ASSUME NEW q \in Proc, Exit(q)
        PROVE  Alone'
    BY <1>6 DEF Exit
  <1>7. ASSUME NEW q \in Proc, NEW r \in Proc, Fork(q, r)
        PROVE  Alone'
    BY <1>7 DEF Fork
  <1>8. QED
    BY <1>1, <1>2, <1>3, <1>4, <1>5, <1>6, <1>7 DEF CloseStep

LEMMA AloneNext ==
  ASSUME NoFirstScanError, Typed, Typed', Alone, [Next]_vars
  PROVE  Alone'
  <1>1. ASSUME NEW c \in Starter, NEW p \in Project,
               StartReserve(c, p) \/ StartRefusedByStragglers(c, p)
        PROVE  Alone'
    BY <1>1, AloneStart
  <1>2. ASSUME NEW c \in Starter, StartStep(c)
        PROVE  Alone'
    <2>1. starts[c].project \in Project
      BY <1>2, StartStepBusy DEF Typed, CallsBound
    <2> QED  BY <1>2, <2>1, AloneStart
  <1>3. ASSUME NEW w \in Worker, NEW p \in Project, StopPop(w, p)
        PROVE  Alone'
    BY <1>3, AloneStop
  <1>4. ASSUME NEW w \in Worker, StopStep(w)
        PROVE  Alone'
    <2>1. stops[w].key \in Project
      BY <1>4, StopStepBusy DEF Typed, CallsBound
    <2> QED  BY <1>4, <2>1, AloneStop
  <1>5. CASE UpkeepStep
    BY <1>5, AloneUpkeep
  <1>6. CASE \/ CloseBegin \/ CloseStep \/ UNCHANGED vars
             \/ \E q \in Proc : LateReap(q) \/ Exit(q)
             \/ \E q, r \in Proc : Fork(q, r)
    BY <1>6, AloneOthers
  <1>7. QED
    BY <1>1, <1>2, <1>3, <1>4, <1>5, <1>6 DEF Next


-----------------------------------------------------------------------------
(* Who holds a leader after each step                                      *)

HoldsKept == \A g \in Proc : Holds(g)' <=> Holds(g)

HoldsDropped(g) == \A h \in Proc : Holds(h)' <=> Holds(h) /\ h # g

LEMMA KeptByStart ==
  ASSUME Typed, Alone, NEW c \in Starter, NEW p \in Project,
         \/ StartReserve(c, p) \/ StartRefusedByStragglers(c, p)
         \/ StartRefused(c) \/ StartInsert(c) \/ StartRecord(c)
         \/ StartRelease(c)
  PROVE  HoldsKept
  <1> SUFFICES ASSUME NEW g \in Proc
               PROVE  Holds(g)' <=> Holds(g)
    BY DEF HoldsKept
  <1> USE DEF Typed, TypeOK, StartCall, Holds, StartHolds, StopHolds, ReapHolds
  <1>1. CASE StartReserve(c, p)
    BY <1>1 DEF StartReserve
  <1>2. CASE StartRefusedByStragglers(c, p)
    BY <1>2 DEF StartRefusedByStragglers
  <1>3. CASE StartRefused(c)
    BY <1>3 DEF StartRefused
  <1>4. CASE StartInsert(c)
    <2>1. /\ starts[c].project \in Project
          /\ processes[starts[c].project] = None
      BY <1>4 DEF StartInsert, CallsBound, Alone, StartsAlone
    <2>2. QED
      BY <1>4, <2>1 DEF StartInsert
  <1>5. CASE StartRecord(c)
    BY <1>5 DEF StartRecord
  <1>6. CASE StartRelease(c)
    BY <1>6 DEF StartRelease
  <1>7. QED
    BY <1>1, <1>2, <1>3, <1>4, <1>5, <1>6

LEMMA KeptByStop ==
  ASSUME Typed, Alone, NoFirstScanError, NEW w \in Worker, NEW p \in Project,
         StopPop(w, p) \/ (StopStep(w) /\ ~StopReap(w))
  PROVE  HoldsKept
  <1> SUFFICES ASSUME NEW g \in Proc
               PROVE  Holds(g)' <=> Holds(g)
    BY DEF HoldsKept
  <1> stops \in [Worker -> StopCall] /\ processes \in [Project -> Proc \cup {None}]
    BY DEF Typed, TypeOK
  <1> USE DEF StopCall, Holds, StartHolds, StopHolds, ReapHolds
  <1>1. CASE StopPop(w, p)
    BY <1>1 DEF StopPop, Popped
  <1>2. CASE StopList(w)
    BY <1>2 DEF StopList, NextListing
  <1>3. CASE StopTerm(w)
    <2>1. PICK m, b : stops' = [stops EXCEPT ![w].pc = "termed", ![w].seen = {},
                                           ![w].members = m, ![w].warned = b]
      BY <1>3, Zenon DEF StopTerm
    <2>2. /\ stops[w].pc = "listed"
          /\ UNCHANGED <<processes, starts, upkeep, closing>>
      BY <1>3 DEF StopTerm
    <2>3. QED
      BY <2>1, <2>2
  <1>4. CASE StopKill(w)
    <2>1. PICK b : stops' = [stops EXCEPT ![w].pc = "killed", ![w].seen = {},
                                        ![w].warned = b]
      BY <1>4, Zenon DEF StopKill
    <2>2. /\ stops[w].pc = "relisted"
          /\ UNCHANGED <<processes, starts, upkeep, closing>>
      BY <1>4 DEF StopKill
    <2>3. QED
      BY <2>1, <2>2
  <1>5. CASE StopLeft(w)
    BY <1>5 DEF StopLeft
  <1>6. CASE StopEscalateRaises(w)
    BY <1>6 DEF StopEscalateRaises
  <1>7. CASE StopRelease(w)
    BY <1>7 DEF StopRelease
  <1>8. ~StopPutBack(w)
    BY DEF NoFirstScanError, StopPutBack
  <1>9. QED
    BY <1>1, <1>2, <1>3, <1>4, <1>5, <1>6, <1>7, <1>8 DEF StopStep

LEMMA KeptByUpkeep ==
  ASSUME Typed, Alone, UpkeepStep, ~ReapCollect
  PROVE  HoldsKept
  <1> SUFFICES ASSUME NEW g \in Proc
               PROVE  Holds(g)' <=> Holds(g)
    BY DEF HoldsKept
  <1> /\ upkeep \in Upkeep
      /\ processes \in [Project -> Proc \cup {None}]
    BY DEF Typed, TypeOK
  <1>0. upkeep.pc \in {"listed", "popped", "forgotten", "copying"} =>
          upkeep.cur \in Project
    BY DEF Typed, CallsBound
  <1> USE DEF Upkeep, Holds, StartHolds, StopHolds, ReapHolds
  <1>1. CASE ReapSnapshot
    BY <1>1 DEF ReapSnapshot
  <1>2. CASE \E p \in Project : ReapSkip(p) \/ ReapList(p)
    BY <1>2 DEF ReapSkip, ReapList
  <1>3. CASE ReapKeep
    BY <1>3 DEF ReapKeep
  <1>4. CASE ReapPop
    BY <1>0, <1>4 DEF ReapPop, SameEntry
  <1>5. CASE ReapForget
    BY <1>5 DEF ReapForget
  <1>6. CASE ReapDone \/ ReapRaises
    <2>1. upkeep.pc = "reaping" /\ BeginRotation
      BY <1>6 DEF ReapDone, ReapRaises
    <2>2. QED
      BY <2>1 DEF BeginRotation
  <1>7. CASE \E p \in Project : RotateSkip(p) \/ RotateDup(p)
    <2>1. /\ upkeep.pc = "rotating"
          /\ upkeep'.pc \in {"rotating", "copying"}
          /\ UNCHANGED <<processes, starts, stops, closing>>
      BY <1>7 DEF RotateSkip, RotateDup
    <2>2. QED
      BY <2>1
  <1>8. CASE RotateDone \/ UpkeepDone
    <2>1. /\ upkeep.pc \in {"rotating", "copying"}
          /\ upkeep'.pc \in {"rotating", "idle"}
      <3>1. CASE RotateDone
        BY <3>1 DEF RotateDone
      <3>2. CASE UpkeepDone
        BY <3>2 DEF UpkeepDone
      <3>3. QED
        BY <1>8, <3>1, <3>2
    <2>2. UNCHANGED <<processes, starts, stops, closing>>
      BY <1>8 DEF RotateDone, UpkeepDone
    <2>3. QED
      BY <2>1, <2>2
  <1>9. QED
    BY <1>1, <1>2, <1>3, <1>4, <1>5, <1>6, <1>7, <1>8 DEF UpkeepStep

LEMMA KeptByOthers ==
  ASSUME Typed, Alone,
         \/ CloseBegin \/ CloseClear \/ UNCHANGED vars
         \/ \E q \in Proc : LateReap(q) \/ Exit(q)
         \/ \E q, r \in Proc : Fork(q, r)
  PROVE  HoldsKept
  <1> SUFFICES ASSUME NEW g \in Proc
               PROVE  Holds(g)' <=> Holds(g)
    BY DEF HoldsKept
  <1> USE DEF Holds, StartHolds, StopHolds, ReapHolds
  <1>1. CASE CloseClear
    <2>1. closing.todo = {}
      BY <1>1 DEF CloseClear, Alone, QuitAlone
    <2>2. QED
      BY <1>1, <2>1 DEF CloseClear, Typed, TypeOK
  <1>2. CASE CloseBegin
    BY <1>2 DEF CloseBegin, Typed, TypeOK, Closing
  <1>3. CASE UNCHANGED vars
    BY <1>3 DEF vars
  <1>4. CASE \E q \in Proc : LateReap(q) \/ Exit(q)
    BY <1>4 DEF LateReap, Exit
  <1>5. CASE \E q, r \in Proc : Fork(q, r)
    BY <1>5 DEF Fork
  <1>6. QED
    BY <1>1, <1>2, <1>3, <1>4, <1>5

LEMMA DroppedByStop ==
  ASSUME Typed, Alone, NEW w \in Worker, StopReap(w)
  PROVE  /\ Holds(stops[w].managed)
         /\ HoldsDropped(stops[w].managed)
  <1> DEFINE g == stops[w].managed
  <1>1. /\ stops[w].pc = "reaping"
        /\ g \in Proc /\ stops[w].key \in Project /\ owner[g] = stops[w].key
    BY DEF StopReap, Typed, CallsBound, Owned
  <1>2. \A p \in Project : processes[p] # g
    BY <1>1 DEF Typed, Owned, Alone, StopsAlone, StopReserved
  <1>3. \A c \in Starter : ~StartHolds(c, g)
    BY <1>1 DEF Typed, Owned, Alone, StartsAlone, StopReserved, StartHolds
  <1>4. \A v \in Worker : v # w => ~StopHolds(v, g)
    BY <1>1 DEF Typed, Owned, Alone, StopsAlone, StopHolds
  <1>5. StopHolds(w, g)
    BY <1>1 DEF StopHolds
  <1>6. ~ReapHolds(g) /\ g \notin closing.todo
    BY <1>1, <1>5 DEF Alone, ReapAlone, QuitAlone
  <1>7. /\ UNCHANGED <<processes, starts, upkeep, closing>>
        /\ stops' = [stops EXCEPT ![w].pc = "releasing"]
    BY DEF StopReap
  <1>8. ASSUME NEW h \in Proc
        PROVE  Holds(h)' <=> Holds(h) /\ h # g
    <2>1. \A v \in Worker : StopHolds(v, h)' <=> StopHolds(v, h) /\ v # w
      BY <1>1, <1>7 DEF StopHolds, Typed, TypeOK, StopCall
    <2>2. StopHolds(w, h) => h = g
      BY DEF StopHolds
    <2>3. /\ (\E c \in Starter : StartHolds(c, h)') <=>
               (\E c \in Starter : StartHolds(c, h))
          /\ ReapHolds(h)' <=> ReapHolds(h)
      BY <1>7 DEF StartHolds, ReapHolds
    <2>4. CASE h = g
      BY <1>2, <1>3, <1>4, <1>6, <1>7, <2>1, <2>3, <2>4 DEF Holds
    <2>5. CASE h # g
      BY <1>7, <2>1, <2>2, <2>3, <2>5 DEF Holds
    <2>6. QED
      BY <2>4, <2>5
  <1>9. QED
    BY <1>5, <1>8 DEF HoldsDropped, Holds

LEMMA DroppedByReap ==
  ASSUME Typed, Alone, ReapCollect
  PROVE  /\ Holds(upkeep.snap[upkeep.cur])
         /\ HoldsDropped(upkeep.snap[upkeep.cur])
  <1> DEFINE g == upkeep.snap[upkeep.cur]
  <1>1. upkeep.pc = "forgotten" /\ g \in Proc
    BY DEF ReapCollect, Typed, CallsBound
  <1>2. ReapHolds(g)
    BY <1>1 DEF ReapHolds
  <1>3. /\ \A p \in Project : processes[p] # g
        /\ \A c \in Starter : ~StartHolds(c, g)
        /\ \A w \in Worker : ~StopHolds(w, g)
        /\ g \notin closing.todo
    BY <1>1, <1>2 DEF Alone, ReapAlone
  <1>4. /\ UNCHANGED <<processes, starts, stops, closing>>
        /\ upkeep'.pc = "reaping"
    BY DEF ReapCollect, Typed, TypeOK, Upkeep
  <1>5. ASSUME NEW h \in Proc
        PROVE  Holds(h)' <=> Holds(h) /\ h # g
    <2>1. ~ReapHolds(h)'
      BY <1>4 DEF ReapHolds
    <2>2. ReapHolds(h) <=> h = g
      BY <1>1 DEF ReapHolds
    <2>3. /\ \A c \in Starter : StartHolds(c, h)' <=> StartHolds(c, h)
          /\ \A w \in Worker : StopHolds(w, h)' <=> StopHolds(w, h)
      BY <1>4 DEF StartHolds, StopHolds
    <2>4. QED
      BY <1>3, <1>4, <2>1, <2>2, <2>3 DEF Holds
  <1>6. QED
    BY <1>2, <1>5 DEF HoldsDropped, Holds

LEMMA DroppedByClose ==
  ASSUME Typed, Alone, NEW g \in Proc, CloseRelease(g)
  PROVE  Holds(g) /\ HoldsDropped(g)
  <1>1. /\ closing.pc = "releasing" /\ g \in closing.todo
        /\ UNCHANGED <<processes, starts, stops, upkeep>>
        /\ closing'.todo = closing.todo \ {g}
    BY DEF CloseRelease, Typed, TypeOK, Closing
  <1>2. /\ \A p \in Project : processes[p] = None
        /\ \A c \in Starter : ~StartHolds(c, g)
        /\ \A w \in Worker : ~StopHolds(w, g)
        /\ ~ReapHolds(g)
    BY <1>1 DEF Alone, QuitAlone, ReapAlone, StartHolds, StopHolds
  <1>3. ASSUME NEW h \in Proc
        PROVE  Holds(h)' <=> Holds(h) /\ h # g
    <2>1. /\ \A c \in Starter : StartHolds(c, h)' <=> StartHolds(c, h)
          /\ \A w \in Worker : StopHolds(w, h)' <=> StopHolds(w, h)
          /\ ReapHolds(h)' <=> ReapHolds(h)
      BY <1>1 DEF StartHolds, StopHolds, ReapHolds
    <2>2. QED
      BY <1>1, <1>2, <2>1 DEF Holds
  <1>4. QED
    BY <1>1, <1>3 DEF HoldsDropped, Holds

-----------------------------------------------------------------------------
(* What a holder may rely on                                               *)

CopyKept ==
  /\ upkeep'.pc = "copying" <=> upkeep.pc = "copying"
  /\ upkeep.pc = "copying" => upkeep' = upkeep

LEMMA HeldInit == Init => Held
  BY DEF Init, Held, HeldNotCollected, DescriptorsOurs, DupApart,
         NoDescriptorLeak, Holds, StartHolds, StopHolds, ReapHolds

LEMMA HolderLed ==
  ASSUME Typed, NEW g \in Proc, Holds(g)
  PROVE  /\ owner[g] \in Project
         /\ group[g] = g
         /\ logFd[g] \in Fd
  <1> USE DEF Typed, CallsBound, Owned
  <1>1. CASE \E p \in Project : processes[p] = g
    BY <1>1 DEF Led
  <1>2. CASE \E c \in Starter : StartHolds(c, g)
    BY <1>2 DEF StartHolds, Led
  <1>3. CASE \E w \in Worker : StopHolds(w, g)
    BY <1>3 DEF StopHolds, Led
  <1>4. CASE ReapHolds(g)
    BY <1>4 DEF ReapHolds, Led
  <1>5. CASE g \in closing.todo
    BY <1>5 DEF Led
  <1>6. QED
    BY <1>1, <1>2, <1>3, <1>4, <1>5 DEF Holds

LEMMA HeldWhenKept ==
  ASSUME Typed, Held, HoldsKept, CopyKept,
         UNCHANGED <<logFd, files>>,
         \A g \in Proc : Holds(g) => life'[g] \in {"live", "zombie"},
         lateReap' \subseteq lateReap
  PROVE  Held'
  <1> files \in [Fd -> Proc \cup {None}]
    BY DEF Typed, TypeOK
  <1> USE DEF Held, HoldsKept, CopyKept
  <1>1. HeldNotCollected'
    BY DEF HeldNotCollected
  <1>2. DescriptorsOurs'
    BY DEF DescriptorsOurs
  <1>3. DupApart'
    BY DEF DupApart
  <1>4. NoDescriptorLeak'
    BY DEF NoDescriptorLeak
  <1>5. QED
    BY <1>1, <1>2, <1>3, <1>4

LEMMA HeldWhenDropped ==
  ASSUME Typed, Held, NEW g \in Proc, Holds(g), HoldsDropped(g), CopyKept,
         logFd[g] \in Fd,
         UNCHANGED logFd,
         files' = Closed(logFd[g]),
         life' = Collected(g),
         lateReap' \subseteq lateReap \cup {g}
  PROVE  Held'
  <1> /\ files \in [Fd -> Proc \cup {None}]
      /\ life \in [Proc -> {"unborn", "live", "zombie", "gone"}]
    BY DEF Typed, TypeOK
  <1>1. HeldNotCollected'
    BY DEF Held, HeldNotCollected, HoldsDropped, Collected
  <1>2. \A h \in Proc : Holds(h)' => /\ files[logFd[h]] = h
                                     /\ logFd[h] # logFd[g]
    BY DEF Held, DescriptorsOurs, HoldsDropped
  <1>3. upkeep.pc = "copying" => upkeep.dup # logFd[g]
    BY DEF Held, DupApart
  <1>4. DescriptorsOurs'
    <2>1. \A h \in Proc : Holds(h)' => logFd[h] \in Fd
      BY HolderLed DEF HoldsDropped
    <2>2. QED
      BY <1>2, <1>3, <2>1 DEF Held, DescriptorsOurs, CopyKept, Closed,
                              Typed, CallsBound
  <1>5. DupApart'
    BY DEF Held, DupApart, HoldsDropped, CopyKept
  <1>6. NoDescriptorLeak'
    BY DEF Held, NoDescriptorLeak, HoldsDropped, CopyKept, Closed
  <1>7. QED
    BY <1>1, <1>4, <1>5, <1>6 DEF Held

LEMMA HeldStart ==
  ASSUME Typed, Alone, Held, NEW c \in Starter, NEW p \in Project,
         \/ StartReserve(c, p) \/ StartRefusedByStragglers(c, p)
         \/ StartStep(c)
  PROVE  Held'
  <1>1. CASE StartSpawn(c)
    <2>1. PICK g \in Proc, n \in Fd : StartSpawn(c)!2!(g, n)
      BY <1>1 DEF StartSpawn
    <2>2. /\ starts[c].pc = "reserved"
          /\ UNCHANGED <<processes, stops, upkeep, closing, lateReap>>
          /\ \A d \in Starter : d # c => starts'[d] = starts[d]
          /\ starts'[c].pc = "spawned" /\ starts'[c].child = g
      BY <1>1, <2>1 DEF StartSpawn, Typed, TypeOK, StartCall
    <2>3. /\ life[g] = "unborn"
          /\ files[n] = None
          /\ life' = [life EXCEPT ![g] = "live"]
          /\ logFd' = [logFd EXCEPT ![g] = n]
          /\ files' = [files EXCEPT ![n] = g]
      BY <2>1 DEF Issues
    <2>4. ~Holds(g) /\ g \notin lateReap
      BY <2>3, HolderLed DEF Held, HeldNotCollected, Typed, Owned, Led
    <2>5. ASSUME NEW h \in Proc
          PROVE  Holds(h)' <=> Holds(h) \/ h = g
      <3>1. \A d \in Starter : StartHolds(d, h)' <=>
                                 StartHolds(d, h) \/ (d = c /\ h = g)
        BY <2>2 DEF StartHolds
      <3>2. /\ \A w \in Worker : StopHolds(w, h)' <=> StopHolds(w, h)
            /\ ReapHolds(h)' <=> ReapHolds(h)
        BY <2>2 DEF StopHolds, ReapHolds
      <3>3. QED
        BY <2>2, <3>1, <3>2 DEF Holds
    <2>6. \A h \in Proc : Holds(h) => /\ logFd[h] \in Fd /\ logFd[h] # n
                                      /\ logFd'[h] = logFd[h]
      BY <2>3, <2>4, HolderLed DEF Held, DescriptorsOurs, Typed, TypeOK
    <2>7. HeldNotCollected'
      BY <2>2, <2>3, <2>4, <2>5 DEF Held, HeldNotCollected, Typed, TypeOK
    <2>8. DescriptorsOurs'
      BY <2>2, <2>3, <2>5, <2>6
         DEF Held, DescriptorsOurs, Typed, TypeOK, CallsBound
    <2>9. DupApart'
      BY <2>2, <2>3, <2>5, <2>6
         DEF Held, DupApart, DescriptorsOurs, Typed, TypeOK, CallsBound
    <2>10. NoDescriptorLeak'
      <3> SUFFICES ASSUME NEW m \in Fd, (files[m] # None)'
                   PROVE  (\/ upkeep.pc = "copying" /\ upkeep.dup = m
                           \/ Holds(files[m]) /\ logFd[files[m]] = m)'
        BY DEF NoDescriptorLeak
      <3>1. CASE m = n
        BY <2>3, <2>5, <3>1 DEF Typed, TypeOK
      <3>2. CASE m # n
        <4>1. files'[m] = files[m] /\ files[m] \in Proc
          BY <2>3, <3>2 DEF Typed, TypeOK
        <4>2. \/ upkeep.pc = "copying" /\ upkeep.dup = m
              \/ Holds(files[m]) /\ logFd[files[m]] = m
          BY <4>1 DEF Held, NoDescriptorLeak
        <4>3. QED
          BY <2>2, <2>5, <2>6, <4>1, <4>2
      <3>3. QED
        BY <3>1, <3>2
    <2>11. QED
      BY <2>7, <2>8, <2>9, <2>10 DEF Held
  <1>2. CASE ~StartSpawn(c)
    <2>1. HoldsKept
      BY <1>2, KeptByStart DEF StartStep
    <2>2. UNCHANGED <<life, logs, upkeep, lateReap>>
      BY <1>2 DEF StartStep, StartReserve, StartRefusedByStragglers,
                  StartRefused, StartInsert, StartRecord, StartRelease
    <2>3. QED
      BY <2>1, <2>2, HeldWhenKept DEF CopyKept, Held, HeldNotCollected
  <1>3. QED
    BY <1>1, <1>2

LEMMA HeldStop ==
  ASSUME NoFirstScanError, Typed, Alone, Held,
         NEW w \in Worker, NEW p \in Project,
         StopPop(w, p) \/ StopStep(w)
  PROVE  Held'
  <1>1. CASE StopReap(w)
    <2>1. stops[w].managed \in Proc
      BY <1>1 DEF StopReap, Typed, CallsBound
    <2>2. Holds(stops[w].managed) /\ HoldsDropped(stops[w].managed)
      BY <1>1, DroppedByStop
    <2>3. lateReap' \subseteq lateReap \cup {stops[w].managed}
      BY <1>1 DEF StopReap, LeftToThread
    <2>4. QED
      BY <1>1, <2>1, <2>2, <2>3, HolderLed, HeldWhenDropped
         DEF StopReap, CopyKept
  <1>2. CASE ~StopReap(w)
    <2>1. HoldsKept
      BY <1>2, KeptByStop
    <2>2. UNCHANGED <<life, logs, upkeep, lateReap>>
      BY <1>2 DEF StopPop, StopStep, StopList, StopPutBack, StopTerm,
                  StopKill, StopLeft, StopEscalateRaises, StopRelease
    <2>3. QED
      BY <2>1, <2>2, HeldWhenKept DEF CopyKept, Held, HeldNotCollected
  <1>3. QED
    BY <1>1, <1>2

LEMMA HeldUpkeep ==
  ASSUME Typed, Alone, Held, UpkeepStep
  PROVE  Held'
  <1>1. CASE ReapCollect
    <2>1. upkeep.snap[upkeep.cur] \in Proc
      BY <1>1 DEF ReapCollect, Typed, CallsBound
    <2>2. /\ Holds(upkeep.snap[upkeep.cur])
          /\ HoldsDropped(upkeep.snap[upkeep.cur])
      BY <1>1, DroppedByReap
    <2>3. upkeep.pc = "forgotten" /\ upkeep'.pc = "reaping"
      BY <1>1 DEF ReapCollect, Typed, TypeOK, Upkeep
    <2>4. QED
      BY <1>1, <2>1, <2>2, <2>3, HolderLed, HeldWhenDropped
         DEF ReapCollect, CopyKept
  <1>2. CASE \E p \in Project : RotateDup(p)
    <2>1. PICK p \in Project : RotateDup(p)
      BY <1>2
    <2>2. PICK n \in Fd : RotateDup(p)!4!(n)
      BY <2>1 DEF RotateDup
    <2> DEFINE g == processes[p]
    <2>3. /\ g \in Proc /\ Holds(g)
          /\ logFd[g] \in Fd /\ files[logFd[g]] = g
      BY <2>1, HolderLed
         DEF RotateDup, Typed, TypeOK, Holds, Held, DescriptorsOurs
    <2>4. /\ files[n] = None
          /\ files' = [files EXCEPT ![n] = g]
          /\ UNCHANGED <<life, logFd, lateReap>>
      BY <2>1, <2>2, <2>3 DEF RotateDup, Issues
    <2>5. /\ upkeep'.pc = "copying" /\ upkeep'.dup = n
          /\ upkeep'.snap[upkeep'.cur] = g
      BY <2>2, <2>3 DEF Typed, TypeOK, Upkeep
    <2>6. HoldsKept
      BY <2>1, KeptByUpkeep DEF RotateDup, ReapCollect
    <2>7. \A h \in Proc : Holds(h) => logFd[h] \in Fd /\ logFd[h] # n
      BY <2>4, HolderLed DEF Held, DescriptorsOurs
    <2>8. HeldNotCollected'
      BY <2>4, <2>6 DEF Held, HeldNotCollected, HoldsKept
    <2>9. DescriptorsOurs'
      BY <2>4, <2>5, <2>6, <2>7
         DEF Held, DescriptorsOurs, HoldsKept, Typed, TypeOK
    <2>10. DupApart'
      BY <2>4, <2>5, <2>6, <2>7 DEF DupApart, HoldsKept
    <2>11. NoDescriptorLeak'
      <3>1. upkeep.pc # "copying"
        BY <2>1 DEF RotateDup
      <3>2. QED
        BY <2>4, <2>5, <2>6, <3>1
           DEF Held, NoDescriptorLeak, HoldsKept, Typed, TypeOK
    <2>12. QED
      BY <2>8, <2>9, <2>10, <2>11 DEF Held
  <1>3. CASE RotateDone
    <2>1. /\ upkeep.pc = "copying" /\ upkeep.dup \in Fd
          /\ upkeep'.pc = "rotating"
          /\ files' = [files EXCEPT ![upkeep.dup] = None]
          /\ UNCHANGED <<life, logFd, lateReap>>
      BY <1>3 DEF RotateDone, Closed, Typed, TypeOK, Upkeep, CallsBound
    <2>2. HoldsKept
      BY <1>3, KeptByUpkeep DEF RotateDone, ReapCollect
    <2>3. \A h \in Proc : Holds(h) => logFd[h] \in Fd /\ logFd[h] # upkeep.dup
      BY <2>1, HolderLed DEF Held, DupApart
    <2>4. HeldNotCollected'
      BY <2>1, <2>2 DEF Held, HeldNotCollected, HoldsKept
    <2>5. DescriptorsOurs' /\ DupApart'
      BY <2>1, <2>2, <2>3
         DEF Held, DescriptorsOurs, DupApart, HoldsKept, Typed, TypeOK
    <2>6. NoDescriptorLeak'
      BY <2>1, <2>2 DEF Held, NoDescriptorLeak, HoldsKept, Typed, TypeOK
    <2>7. QED
      BY <2>4, <2>5, <2>6 DEF Held
  <1>4. CASE ~ReapCollect /\ ~RotateDone /\ ~(\E p \in Project : RotateDup(p))
    <2>1. HoldsKept
      BY <1>4, KeptByUpkeep
    <2>2. UNCHANGED <<life, logs, lateReap>>
      BY <1>4 DEF UpkeepStep, ReapSnapshot, ReapSkip, ReapList, ReapKeep,
                  ReapPop, ReapForget, ReapDone, ReapRaises, BeginRotation,
                  RotateSkip, UpkeepDone
    <2>3. upkeep.pc # "copying"
      BY <1>4 DEF UpkeepStep, ReapSnapshot, ReapSkip, ReapList, ReapKeep,
                  ReapPop, ReapForget, ReapDone, ReapRaises,
                  RotateSkip, UpkeepDone
    <2>4. upkeep'.pc # "copying"
      <3>1. CASE ReapDone \/ ReapRaises
        BY <3>1 DEF ReapDone, ReapRaises, BeginRotation
      <3>2. CASE UpkeepDone
        BY <3>2 DEF UpkeepDone
      <3>3. CASE \E p \in Project : ReapSkip(p) \/ ReapList(p) \/ RotateSkip(p)
        BY <3>3 DEF ReapSkip, ReapList, RotateSkip, Typed, TypeOK, Upkeep
      <3>4. CASE ReapSnapshot \/ ReapKeep \/ ReapPop \/ ReapForget
        BY <3>4 DEF ReapSnapshot, ReapKeep, ReapPop, ReapForget, Typed, TypeOK,
                    Upkeep
      <3>5. QED
        BY <1>4, <3>1, <3>2, <3>3, <3>4 DEF UpkeepStep
    <2>5. QED
      BY <2>1, <2>2, <2>3, <2>4, HeldWhenKept
         DEF CopyKept, Held, HeldNotCollected
  <1>5. QED
    BY <1>1, <1>2, <1>3, <1>4

LEMMA HeldOthers ==
  ASSUME Typed, Alone, Held,
         \/ CloseBegin \/ CloseStep \/ UNCHANGED vars
         \/ \E q \in Proc : LateReap(q) \/ Exit(q)
         \/ \E q, r \in Proc : Fork(q, r)
  PROVE  Held'
  <1>1. CASE \E g \in Proc : CloseRelease(g)
    <2>1. PICK g \in Proc : CloseRelease(g)
      BY <1>1
    <2>2. Holds(g) /\ HoldsDropped(g)
      BY <2>1, DroppedByClose
    <2>3. QED
      BY <2>1, <2>2, HolderLed, HeldWhenDropped DEF CloseRelease, CopyKept
  <1>2. CASE \E q \in Proc : LateReap(q) \/ Exit(q)
    <2>1. \A g \in Proc : Holds(g) => life'[g] \in {"live", "zombie"}
      <3>1. CASE \E q \in Proc : Exit(q)
        BY <3>1, HolderLed DEF Exit, Held, HeldNotCollected, Typed, TypeOK
      <3>2. CASE \E q \in Proc : LateReap(q)
        BY <3>2 DEF LateReap, Collected, Held, HeldNotCollected, Typed, TypeOK
      <3>3. QED
        BY <1>2, <3>1, <3>2
    <2>2. QED
      BY <1>2, <2>1, HeldWhenKept, KeptByOthers DEF LateReap, Exit, CopyKept
  <1>3. CASE \E q, r \in Proc : Fork(q, r)
    <2>1. \A g \in Proc : Holds(g) => life'[g] \in {"live", "zombie"}
      BY <1>3 DEF Fork, Held, HeldNotCollected, Typed, TypeOK
    <2>2. QED
      BY <1>3, <2>1, HeldWhenKept, KeptByOthers DEF Fork, CopyKept
  <1>4. CASE CloseBegin \/ CloseClear \/ UNCHANGED vars
    <2>1. UNCHANGED <<life, logs, upkeep, lateReap>>
      BY <1>4 DEF CloseBegin, CloseClear, vars
    <2>2. QED
      BY <1>4, <2>1, HeldWhenKept, KeptByOthers
         DEF CopyKept, Held, HeldNotCollected
  <1>5. QED
    BY <1>1, <1>2, <1>3, <1>4 DEF CloseStep

-----------------------------------------------------------------------------
(* The holding discipline                                                  *)

LEMMA HeldNext ==
  ASSUME NoFirstScanError, Typed, Alone, Held, [Next]_vars
  PROVE  Held'
  <1>1. ASSUME NEW c \in Starter, NEW p \in Project,
               StartReserve(c, p) \/ StartRefusedByStragglers(c, p)
        PROVE  Held'
    BY <1>1, HeldStart
  <1>2. ASSUME NEW c \in Starter, StartStep(c)
        PROVE  Held'
    <2>1. starts[c].project \in Project
      BY <1>2, StartStepBusy DEF Typed, CallsBound
    <2> QED  BY <1>2, <2>1, HeldStart
  <1>3. ASSUME NEW w \in Worker, NEW p \in Project, StopPop(w, p)
        PROVE  Held'
    BY <1>3, HeldStop
  <1>4. ASSUME NEW w \in Worker, StopStep(w)
        PROVE  Held'
    <2>1. stops[w].key \in Project
      BY <1>4, StopStepBusy DEF Typed, CallsBound
    <2> QED  BY <1>4, <2>1, HeldStop
  <1>5. CASE UpkeepStep
    BY <1>5, HeldUpkeep
  <1>6. CASE \/ CloseBegin \/ CloseStep \/ UNCHANGED vars
             \/ \E q \in Proc : LateReap(q) \/ Exit(q)
             \/ \E q, r \in Proc : Fork(q, r)
    BY <1>6, HeldOthers
  <1>7. QED
    BY <1>1, <1>2, <1>3, <1>4, <1>5, <1>6 DEF Next

LEMMA HoldingInvariant ==
  ASSUME NoFirstScanError
  PROVE  Spec => [](Typed /\ Alone /\ Held)
  <1>1. Init => Typed /\ Alone /\ Held
    BY TypedInit, AloneInit, HeldInit
  <1>2. Typed /\ Alone /\ Held /\ [Next]_vars => (Typed /\ Alone /\ Held)'
    BY TypedNext, AloneNext, HeldNext
  <1>3. QED
    BY <1>1, <1>2, PTL DEF Spec

(* Unless listing /proc fails before the first signal of a stop, a stop     *)
(* holds its project reserved from the pop to its `finally`, however many   *)
(* starts, stops and upkeep ticks of supervisor.py overlap.                 *)
THEOREM StopStaysReserved ==
  ASSUME NoFirstScanError
  PROVE  Spec => []StopReserved
  <1>1. Typed /\ Alone /\ Held => StopReserved
    BY DEF Alone
  <1>2. QED
    BY <1>1, HoldingInvariant, PTL

(* Under the same condition the leader of a group that may still be         *)
(* signalled is never collected, so its pid stays the group's (ADR-0003).   *)
THEOREM GroupIdStaysReserved ==
  ASSUME NoFirstScanError
  PROVE  Spec => []GroupIdReserved
  <1>1. Typed /\ Alone /\ Held => GroupIdReserved
    BY DEF Held, HeldNotCollected, GroupIdReserved, Holds
  <1>2. QED
    BY <1>1, HoldingInvariant, PTL

(* Under the same condition every close, copy and truncate goes through a   *)
(* descriptor number that still names the log it was opened for.            *)
THEOREM DescriptorsStayOurs ==
  ASSUME NoFirstScanError
  PROVE  Spec => []DescriptorsOurs
  <1>1. Typed /\ Alone /\ Held => DescriptorsOurs
    BY DEF Held
  <1>2. QED
    BY <1>1, HoldingInvariant, PTL

(* Under the same condition no log descriptor is ever left to nobody.       *)
THEOREM NoDescriptorLeaks ==
  ASSUME NoFirstScanError
  PROVE  Spec => []NoDescriptorLeak
  <1>1. Typed /\ Alone /\ Held => NoDescriptorLeak
    BY DEF Held
  <1>2. QED
    BY <1>1, HoldingInvariant, PTL

(* What a thread works on while the lock is free stays its own.            *)
THEOREM ResourcesStayHeld ==
  ASSUME NoFirstScanError
  PROVE  Spec => []ResourcesHeld
  <1>1. Typed /\ Alone /\ Held => ResourcesHeld
    BY DEF Alone, Held, HeldNotCollected, GroupIdReserved, Holds, ResourcesHeld
  <1>2. QED
    BY <1>1, HoldingInvariant, PTL

-----------------------------------------------------------------------------
(* A clean stop                                                            *)

LEMMA GoneInit == Init => Gone
  BY DEF Init, Gone, CleanStopMeansGone, NoStop

\* A group grows only by a fork of one of its members.
LEMMA GroupShrinks ==
  ASSUME Typed, [Next]_vars, ~(\E q, r \in Proc : Fork(q, r)),
         NEW g \in Proc, owner[g] \in Project
  PROVE  LiveMembers(g)' \subseteq LiveMembers(g)
  <1> USE DEF LiveMembers, Alive
  <1>1. CASE \E c \in Starter : StartSpawn(c)
    <2>1. PICK c \in Starter : StartSpawn(c)
      BY <1>1
    <2>2. PICK h \in Proc, n \in Fd : StartSpawn(c)!2!(h, n)
      BY <2>1 DEF StartSpawn
    <2>3. h # g
      BY <2>2 DEF Typed, Led
    <2>4. QED
      BY <2>2, <2>3 DEF Typed, TypeOK
  <1>2. CASE \E q \in Proc : LateReap(q) \/ Exit(q) \/ CloseRelease(q)
    BY <1>2 DEF LateReap, Exit, CloseRelease, Collected, Typed, TypeOK
  <1>3. CASE \E w \in Worker : StopReap(w)
    BY <1>3 DEF StopReap, Collected, Typed, TypeOK
  <1>4. CASE ReapCollect
    BY <1>4 DEF ReapCollect, Collected, Typed, TypeOK
  <1>5. CASE UNCHANGED <<life, group>>
    BY <1>5
  <1>6. ASSUME NEW c \in Starter, StartStep(c)
        PROVE  StartSpawn(c) \/ UNCHANGED <<life, group>>
    BY <1>6 DEF StartStep, StartRefused, StartInsert, StartRecord, StartRelease
  <1>7. ASSUME NEW w \in Worker, StopStep(w)
        PROVE  StopReap(w) \/ UNCHANGED <<life, group>>
    BY <1>7 DEF StopStep, StopList, StopPutBack, StopTerm, StopKill, StopLeft,
                StopEscalateRaises, StopRelease
  <1>8. ASSUME UpkeepStep
        PROVE  ReapCollect \/ UNCHANGED <<life, group>>
    BY <1>8 DEF UpkeepStep, ReapSnapshot, ReapSkip, ReapList, ReapKeep, ReapPop,
                ReapForget, ReapDone, ReapRaises, BeginRotation, RotateSkip,
                RotateDup, RotateDone, UpkeepDone
  <1>9. \A p \in Project :
           /\ \A c \in Starter :
                StartReserve(c, p) \/ StartRefusedByStragglers(c, p)
                  => UNCHANGED <<life, group>>
           /\ \A w \in Worker : StopPop(w, p) => UNCHANGED <<life, group>>
    BY DEF StartReserve, StartRefusedByStragglers, StopPop
  <1>10. CloseBegin \/ CloseClear \/ UNCHANGED vars => UNCHANGED <<life, group>>
    BY DEF CloseBegin, CloseClear, vars
  <1>11. QED
    BY <1>1, <1>2, <1>3, <1>4, <1>5, <1>6, <1>7, <1>8, <1>9, <1>10
       DEF Next, CloseStep

\* No fork joins a group that is being looked at, or has nobody to fork.
LEMMA GoneFork ==
  ASSUME NoForkInScan, Typed, Gone, NEW q \in Proc, NEW r \in Proc, Fork(q, r)
  PROVE  Gone'
  <1>1. /\ Alive(q) /\ ~ScanOpen(group[q]) /\ life[r] = "unborn"
        /\ life' = [life EXCEPT ![r] = "live"]
        /\ group' = [group EXCEPT ![r] = group[q]]
        /\ UNCHANGED <<stops, verdict>>
    BY DEF Fork, NoForkInScan
  <1>2. ASSUME NEW g \in Proc, group[q] # g
        PROVE  LiveMembers(g)' \subseteq LiveMembers(g)
    BY <1>1, <1>2 DEF LiveMembers, Alive, Typed, TypeOK
  <1>3. \A g \in Proc : group[q] = g => LiveMembers(g) # {}
    BY <1>1 DEF LiveMembers
  <1>4. ASSUME NEW w \in Worker, stops[w].pc = "lastlisted"
        PROVE  LiveMembers(stops[w].managed)' \subseteq stops'[w].seen
    <2>1. stops[w].managed \in Proc /\ group[q] # stops[w].managed
      BY <1>1, <1>4 DEF ScanOpen, Typed, CallsBound
    <2>2. QED
      BY <1>1, <1>2, <1>4, <2>1 DEF Gone
  <1>5. ASSUME NEW w \in Worker, stops[w].result = "clean"
        PROVE  stops[w].pc # "idle" /\ LiveMembers(stops[w].managed)' = {}
    <2>1. stops[w].managed \in Proc
      BY <1>5 DEF Gone, Typed, CallsBound
    <2>2. QED
      BY <1>1, <1>2, <1>3, <1>5, <2>1 DEF Gone
  <1>6. CleanStopMeansGone'
    BY <1>1, <1>2, <1>3 DEF Gone, CleanStopMeansGone
  <1>7. QED
    BY <1>1, <1>4, <1>5, <1>6 DEF Gone

LEMMA GoneStop ==
  ASSUME Typed, Gone, NEW w \in Worker, StopStep(w)
  PROVE  /\ stops'[w].pc = "lastlisted" =>
              LiveMembers(stops'[w].managed) \subseteq stops'[w].seen
         /\ stops'[w].result = "clean" =>
              /\ stops'[w].pc # "idle"
              /\ LiveMembers(stops'[w].managed) = {}
         /\ stops'[w].pc # "idle" => stops'[w].managed = stops[w].managed
         /\ \A v \in Worker : v # w => stops'[v] = stops[v]
         /\ \A g \in Proc : verdict'[g] = "clean" =>
              owner[g] \in Project /\ LiveMembers(g) = {}
  <1> stops \in [Worker -> StopCall] /\ verdict \in [Proc -> Verdict]
    BY DEF Typed, TypeOK
  <1>0. /\ stops[w].pc # "idle" /\ stops[w].managed \in Proc
        /\ owner[stops[w].managed] \in Project
    BY StopStepBusy DEF Typed, CallsBound, Owned
  <1>1. \A g \in Proc : verdict[g] = "clean" =>
          owner[g] \in Project /\ LiveMembers(g) = {}
    BY DEF Gone, CleanStopMeansGone, Typed, Owned
  <1> USE DEF StopCall
  <1>2. CASE StopList(w)
    <2>1. /\ LiveMembers(stops[w].managed) \subseteq GroupListing(stops[w].managed)
          /\ stops'[w].seen = GroupListing(stops[w].managed)
          /\ stops'[w].managed = stops[w].managed
          /\ stops'[w].result = stops[w].result
          /\ stops'[w].pc # "idle"
          /\ verdict' = verdict
          /\ \A v \in Worker : v # w => stops'[v] = stops[v]
      BY <1>2 DEF StopList, NextListing, LiveMembers, GroupListing, Alive
    <2>2. QED
      BY <1>1, <2>1 DEF Gone
  <1>3. CASE StopLeft(w)
    <2>1. /\ stops[w].pc = "lastlisted"
          /\ stops'[w].pc = "reaping"
          /\ stops'[w].managed = stops[w].managed
          /\ stops'[w].result = "clean" => LastLeft(w) = {}
          /\ verdict' = verdict
          /\ \A v \in Worker : v # w => stops'[v] = stops[v]
      <3>1. stops' = [stops EXCEPT ![w].pc = "reaping", ![w].seen = {},
                        ![w].result = IF LastLeft(w) = {} /\ ~stops[w].warned
                                      THEN "clean" ELSE "warned"]
        BY <1>3 DEF StopLeft
      <3>2. stops[w].pc = "lastlisted" /\ verdict' = verdict
        BY <1>3 DEF StopLeft
      <3>3. QED
        BY <3>1, <3>2
    <2>2. stops'[w].result = "clean" => LiveMembers(stops[w].managed) = {}
      BY <2>1 DEF Gone, LastLeft, AliveIn, LiveMembers
    <2>3. QED
      BY <1>1, <2>1, <2>2
  <1>4. CASE StopRelease(w)
    <2>1. /\ stops'[w] = NoStop
          /\ verdict' = [verdict EXCEPT ![stops[w].managed] = stops[w].result]
          /\ \A v \in Worker : v # w => stops'[v] = stops[v]
      BY <1>4 DEF StopRelease
    <2>2. stops[w].result = "clean" => LiveMembers(stops[w].managed) = {}
      BY DEF Gone
    <2>3. \A g \in Proc : verdict'[g] = "clean" =>
            owner[g] \in Project /\ LiveMembers(g) = {}
      BY <1>0, <1>1, <2>1, <2>2
    <2>4. QED
      BY <2>1, <2>3
  <1>5. CASE ~StopList(w) /\ ~StopLeft(w) /\ ~StopRelease(w)
    <2>1. /\ stops'[w].pc \in {"termed", "killed", "reaping", "releasing"}
          /\ stops'[w].managed = stops[w].managed
          /\ stops'[w].result = "clean" => stops[w].result = "clean"
          /\ \A v \in Worker : v # w => stops'[v] = stops[v]
      <3>1. CASE StopTerm(w)
        <4>1. PICK m, b : stops' = [stops EXCEPT ![w].pc = "termed",
                            ![w].seen = {}, ![w].members = m, ![w].warned = b]
          BY <3>1, Zenon DEF StopTerm
        <4>2. QED
          BY <4>1
      <3>2. CASE StopKill(w)
        <4>1. PICK b : stops' = [stops EXCEPT ![w].pc = "killed",
                                   ![w].seen = {}, ![w].warned = b]
          BY <3>2, Zenon DEF StopKill
        <4>2. QED
          BY <4>1
      <3>3. CASE StopPutBack(w) \/ StopEscalateRaises(w) \/ StopReap(w)
        BY <3>3 DEF StopPutBack, StopEscalateRaises, StopReap
      <3>4. QED
        BY <1>5, <3>1, <3>2, <3>3 DEF StopStep
    <2>2. verdict' = verdict
      BY <1>5 DEF StopStep, StopPutBack, StopTerm, StopKill,
                  StopEscalateRaises, StopReap
    <2>3. QED
      BY <1>1, <2>1, <2>2 DEF Gone
  <1>6. QED
    BY <1>2, <1>3, <1>4, <1>5


LEMMA StopsOnlyByStop ==
  ASSUME [Next]_vars
  PROVE  \/ \E w \in Worker : StopStep(w)
         \/ \E w \in Worker, p \in Project : StopPop(w, p) /\ verdict' = verdict
         \/ stops' = stops /\ verdict' = verdict
  <1>1. ASSUME NEW c \in Starter, StartStep(c)
        PROVE  stops' = stops /\ verdict' = verdict
    BY <1>1 DEF StartStep, StartRefused, StartSpawn, StartInsert, StartRecord,
                StartRelease
  <1>2. \A p \in Project :
          /\ \A c \in Starter :
               StartReserve(c, p) \/ StartRefusedByStragglers(c, p)
                 => stops' = stops /\ verdict' = verdict
          /\ \A w \in Worker : StopPop(w, p) => verdict' = verdict
    BY DEF StartReserve, StartRefusedByStragglers, StopPop
  <1>3. UpkeepStep => stops' = stops /\ verdict' = verdict
    BY DEF UpkeepStep, ReapSnapshot, ReapSkip, ReapList, ReapKeep, ReapPop,
           ReapForget, ReapCollect, ReapDone, ReapRaises, BeginRotation,
           RotateSkip, RotateDup, RotateDone, UpkeepDone
  <1>4. \A q \in Proc : LateReap(q) \/ Exit(q) \/ CloseRelease(q)
          => stops' = stops /\ verdict' = verdict
    BY DEF LateReap, Exit, CloseRelease
  <1>5. \A q, r \in Proc : Fork(q, r) => stops' = stops /\ verdict' = verdict
    BY DEF Fork
  <1>6. CloseBegin \/ CloseClear \/ UNCHANGED vars
          => stops' = stops /\ verdict' = verdict
    BY DEF CloseBegin, CloseClear, vars
  <1>7. QED
    BY <1>1, <1>2, <1>3, <1>4, <1>5, <1>6 DEF Next, CloseStep

LEMMA GoneOther ==
  ASSUME Typed, Gone, [Next]_vars, ~(\E q, r \in Proc : Fork(q, r))
  PROVE  Gone'
  <1> DEFINE
        Seen(v) ==
          /\ stops'[v].pc = "lastlisted" =>
               LiveMembers(stops'[v].managed) \subseteq stops'[v].seen
          /\ stops'[v].result = "clean" =>
               /\ stops'[v].pc # "idle"
               /\ LiveMembers(stops'[v].managed) = {}
          /\ stops'[v].pc # "idle" =>
               /\ stops'[v].managed \in Proc
               /\ owner[stops'[v].managed] \in Project
        Told ==
          \A g \in Proc : verdict'[g] = "clean" =>
            owner[g] \in Project /\ LiveMembers(g) = {}
  <1>0. \A v \in Worker : stops[v].pc # "idle" =>
          /\ stops[v].managed \in Proc
          /\ owner[stops[v].managed] \in Project
    BY DEF Typed, CallsBound, Owned
  <1>1. \A v \in Worker : stops'[v] = stops[v] => Seen(v)
    BY <1>0 DEF Gone
  <1>2. verdict' = verdict => Told
    BY DEF Gone, CleanStopMeansGone, Typed, Owned
  <1>3. \A v \in Worker : Seen(v)
    <2>1. CASE \E w \in Worker : StopStep(w)
      <3>1. PICK w \in Worker : StopStep(w)
        BY <2>1
      <3>2. Seen(w)
        BY <1>0, <3>1, GoneStop, StopStepBusy
      <3>3. QED
        BY <1>1, <3>1, <3>2, GoneStop
    <2>2. CASE \E w \in Worker, p \in Project : StopPop(w, p)
      <3>1. PICK w \in Worker, p \in Project : StopPop(w, p)
        BY <2>2
      <3>2. /\ \A v \in Worker : v # w => stops'[v] = stops[v]
            /\ stops'[w].pc = "popped" /\ stops'[w].result = "none"
            /\ stops'[w].managed = processes[p] /\ processes[p] \in Proc
        BY <3>1 DEF StopPop, Typed, TypeOK
      <3>3. owner[processes[p]] = p
        BY <3>2 DEF Typed, Owned
      <3>4. QED
        BY <1>1, <3>2, <3>3
    <2>3. CASE stops' = stops
      BY <1>1, <2>3
    <2>4. QED
      BY <2>1, <2>2, <2>3, StopsOnlyByStop
  <1>4. Told
    <2>1. CASE \E w \in Worker : StopStep(w)
      BY <2>1, GoneStop
    <2>2. CASE verdict' = verdict
      BY <1>2, <2>2
    <2>3. QED
      BY <2>1, <2>2, StopsOnlyByStop
  <1>5. \A g \in Proc : owner[g] \in Project =>
          LiveMembers(g)' \subseteq LiveMembers(g)
    BY GroupShrinks
  <1>6. ASSUME NEW w \in Worker
        PROVE  (/\ stops[w].pc = "lastlisted" =>
                     LiveMembers(stops[w].managed) \subseteq stops[w].seen
                /\ stops[w].result = "clean" =>
                     stops[w].pc # "idle" /\ LiveMembers(stops[w].managed) = {})'
    BY <1>3, <1>5
  <1>7. CleanStopMeansGone'
    BY <1>4, <1>5 DEF CleanStopMeansGone
  <1>8. QED
    BY <1>6, <1>7 DEF Gone

LEMMA GoneNext ==
  ASSUME NoForkInScan, Typed, Gone, [Next]_vars
  PROVE  Gone'
  <1>1. CASE \E q, r \in Proc : Fork(q, r)
    BY <1>1, GoneFork
  <1>2. CASE ~(\E q, r \in Proc : Fork(q, r))
    BY <1>2, GoneOther
  <1>3. QED
    BY <1>1, <1>2

(* When no process forks between a listing of /proc and the look at what it *)
(* listed, a stop that _stop_sequence reports without a warning has left    *)
(* nothing of the group running, and nothing of it comes back.              *)
THEOREM CleanStopIsClean ==
  ASSUME NoForkInScan
  PROVE  Spec => []CleanStopMeansGone
  <1>1. Init => Typed /\ Gone
    BY TypedInit, GoneInit
  <1>2. Typed /\ Gone /\ [Next]_vars => (Typed /\ Gone)'
    BY TypedNext, GoneNext
  <1>3. Typed /\ Gone => CleanStopMeansGone
    BY DEF Gone
  <1>4. QED
    BY <1>1, <1>2, <1>3, PTL DEF Spec

-----------------------------------------------------------------------------
(* One server, in reach                                                    *)

\* Who was born stays in its group.
LEMMA BornStays ==
  ASSUME Typed, [Next]_vars, NEW q \in Proc, life[q] # "unborn"
  PROVE  life'[q] # "unborn" /\ group'[q] = group[q]
  <1> USE DEF Typed, TypeOK
  <1>1. ASSUME NEW c \in Starter, StartStep(c)
        PROVE  life'[q] # "unborn" /\ group'[q] = group[q]
    BY <1>1 DEF StartStep, StartRefused, StartSpawn, StartInsert, StartRecord,
                StartRelease
  <1>2. ASSUME NEW w \in Worker, StopStep(w)
        PROVE  life'[q] # "unborn" /\ group'[q] = group[q]
    BY <1>2 DEF StopStep, StopList, StopPutBack, StopTerm, StopKill, StopLeft,
                StopEscalateRaises, StopReap, StopRelease, Collected
  <1>3. ASSUME UpkeepStep
        PROVE  life'[q] # "unborn" /\ group'[q] = group[q]
    BY <1>3 DEF UpkeepStep, ReapSnapshot, ReapSkip, ReapList, ReapKeep, ReapPop,
                ReapForget, ReapCollect, ReapDone, ReapRaises, BeginRotation,
                RotateSkip, RotateDup, RotateDone, UpkeepDone, Collected
  <1>4. ASSUME NEW p \in Project,
               \/ \E c \in Starter :
                    StartReserve(c, p) \/ StartRefusedByStragglers(c, p)
               \/ \E w \in Worker : StopPop(w, p)
        PROVE  life'[q] # "unborn" /\ group'[q] = group[q]
    BY <1>4 DEF StartReserve, StartRefusedByStragglers, StopPop
  <1>5. ASSUME NEW g \in Proc, LateReap(g) \/ Exit(g) \/ CloseRelease(g)
        PROVE  life'[q] # "unborn" /\ group'[q] = group[q]
    BY <1>5 DEF LateReap, Exit, CloseRelease, Collected
  <1>6. ASSUME NEW g \in Proc, NEW r \in Proc, Fork(g, r)
        PROVE  life'[q] # "unborn" /\ group'[q] = group[q]
    BY <1>6 DEF Fork
  <1>7. CASE CloseBegin \/ CloseClear \/ UNCHANGED vars
    BY <1>7 DEF CloseBegin, CloseClear, vars
  <1>8. QED
    BY <1>1, <1>2, <1>3, <1>4, <1>5, <1>6, <1>7 DEF Next, CloseStep

\* Only a spawn makes a leader, or gives a start a child to hold.
LEMMA SpawnOrNot ==
  ASSUME Typed, [Next]_vars
  PROVE  \/ \E c \in Starter : StartSpawn(c)
         \/ owner' = owner
  <1>1. ASSUME NEW c \in Starter, StartStep(c), ~StartSpawn(c)
        PROVE  owner' = owner
    BY <1>1 DEF StartStep, StartRefused, StartInsert, StartRecord, StartRelease
  <1>2. ASSUME NEW w \in Worker, StopStep(w)
        PROVE  owner' = owner
    BY <1>2 DEF StopStep, StopList, StopPutBack, StopTerm, StopKill, StopLeft,
                StopEscalateRaises, StopReap, StopRelease
  <1>3. ASSUME UpkeepStep
        PROVE  owner' = owner
    BY <1>3 DEF UpkeepStep, ReapSnapshot, ReapSkip, ReapList, ReapKeep, ReapPop,
                ReapForget, ReapCollect, ReapDone, ReapRaises, BeginRotation,
                RotateSkip, RotateDup, RotateDone, UpkeepDone
  <1>4. ASSUME NEW p \in Project,
               \/ \E c \in Starter :
                    StartReserve(c, p) \/ StartRefusedByStragglers(c, p)
               \/ \E w \in Worker : StopPop(w, p)
        PROVE  owner' = owner
    BY <1>4 DEF StartReserve, StartRefusedByStragglers, StopPop
  <1>5. ASSUME NEW g \in Proc, LateReap(g) \/ Exit(g) \/ CloseRelease(g)
        PROVE  owner' = owner
    BY <1>5 DEF LateReap, Exit, CloseRelease
  <1>6. ASSUME NEW g \in Proc, NEW r \in Proc, Fork(g, r)
        PROVE  owner' = owner
    BY <1>6 DEF Fork
  <1>7. CASE CloseBegin \/ CloseClear \/ UNCHANGED vars
    BY <1>7 DEF CloseBegin, CloseClear, vars
  <1>8. QED
    BY <1>1, <1>2, <1>3, <1>4, <1>5, <1>6, <1>7 DEF Next, CloseStep

\* A group nobody lives in stays empty.
LEMMA EmptyStays ==
  ASSUME Typed, [Next]_vars, NEW g \in Proc, owner[g] \in Project,
         LiveMembers(g) = {}
  PROVE  LiveMembers(g)' = {}
  <1>1. CASE \E q, r \in Proc : Fork(q, r)
    <2>1. PICK q \in Proc, r \in Proc : Fork(q, r)
      BY <1>1
    <2>2. /\ group[q] # g
          /\ life' = [life EXCEPT ![r] = "live"]
          /\ group' = [group EXCEPT ![r] = group[q]]
      BY <2>1 DEF Fork, LiveMembers
    <2>3. QED
      BY <2>2 DEF LiveMembers, Alive, Typed, TypeOK
  <1>2. CASE ~(\E q, r \in Proc : Fork(q, r))
    BY <1>2, GroupShrinks
  <1>3. QED
    BY <1>1, <1>2

LEMMA TracedInit == Init => Traced
  BY DEF Init, Traced, StopsTold, ReapSees, Placed, StartsFresh, OneServer,
         NoStop, NoStart, NoUpkeep

LEMMA OneServerNext ==
  ASSUME Typed, StartsFresh, OneServer, [Next]_vars
  PROVE  OneServer'
  <1> SUFFICES ASSUME NEW g \in Proc, NEW h \in Proc,
                      owner'[g] # None, owner'[g] = owner'[h],
                      LiveMembers(g)' # {}, LiveMembers(h)' # {}
               PROVE  g = h
    BY DEF OneServer
  <1>1. CASE owner' = owner
    <2>1. owner[g] \in Project /\ owner[h] \in Project
      BY <1>1 DEF Typed, TypeOK
    <2>2. LiveMembers(g) # {} /\ LiveMembers(h) # {}
      BY <2>1, EmptyStays
    <2>3. QED
      BY <1>1, <2>2 DEF OneServer
  <1>2. CASE \E c \in Starter : StartSpawn(c)
    <2>1. PICK c \in Starter : StartSpawn(c)
      BY <1>2
    <2>2. PICK k \in Proc, n \in Fd : StartSpawn(c)!2!(k, n)
      BY <2>1 DEF StartSpawn
    <2>3. /\ starts[c].pc = "reserved" /\ starts[c].project \in Project
          /\ owner' = [owner EXCEPT ![k] = starts[c].project]
      BY <2>1, <2>2 DEF StartSpawn, Typed, CallsBound
    <2>4. \A j \in Proc : j # k /\ owner'[j] = starts[c].project
                            => LiveMembers(j)' = {}
      BY <2>3, EmptyStays DEF StartsFresh, Typed, TypeOK
    <2>5. CASE owner'[g] = starts[c].project
      BY <2>4, <2>5
    <2>6. CASE owner'[g] # starts[c].project
      <3>1. /\ g # k /\ h # k /\ owner[g] = owner[h] /\ owner[g] \in Project
            /\ owner[h] \in Project
        BY <2>3, <2>6 DEF Typed, TypeOK
      <3>2. LiveMembers(g) # {} /\ LiveMembers(h) # {}
        BY <3>1, EmptyStays
      <3>3. QED
        BY <3>1, <3>2 DEF OneServer
    <2>7. QED
      BY <2>5, <2>6
  <1>3. QED
    BY <1>1, <1>2, SpawnOrNot

\* Only start() reserves, and only for itself.
LEMMA ReservedBefore ==
  ASSUME Typed, [Next]_vars, NEW c \in Starter, starts'[c].pc = "reserved"
  PROVE  \/ starts[c] = starts'[c] /\ ~StartSpawn(c)
         \/ \E p \in Project : StartReserve(c, p)
  <1> USE DEF Typed, TypeOK, StartCall
  <1>1. ASSUME NEW d \in Starter, StartStep(d)
        PROVE  starts[c] = starts'[c] /\ ~StartSpawn(c)
    <2>1. c # d
      BY <1>1 DEF StartStep, StartRefused, StartSpawn, StartInsert,
                  StartRecord, StartRelease
    <2>2. starts[c] = starts'[c]
      BY <1>1, <2>1 DEF StartStep, StartRefused, StartSpawn, StartInsert,
                        StartRecord, StartRelease
    <2>3. QED
      BY <2>2 DEF StartSpawn
  <1>2. CASE starts' = starts
    BY <1>2 DEF StartSpawn
  <1>3. ASSUME NEW w \in Worker, StopStep(w)
        PROVE  starts' = starts
    BY <1>3 DEF StopStep, StopList, StopPutBack, StopTerm, StopKill, StopLeft,
                StopEscalateRaises, StopReap, StopRelease
  <1>4. ASSUME UpkeepStep
        PROVE  starts' = starts
    BY <1>4 DEF UpkeepStep, ReapSnapshot, ReapSkip, ReapList, ReapKeep, ReapPop,
                ReapForget, ReapCollect, ReapDone, ReapRaises, BeginRotation,
                RotateSkip, RotateDup, RotateDone, UpkeepDone
  <1>5. ASSUME NEW p \in Project, NEW d \in Starter, StartReserve(d, p)
        PROVE  \/ starts[c] = starts'[c] /\ ~StartSpawn(c)
               \/ StartReserve(c, p)
    BY <1>5 DEF StartReserve, StartSpawn
  <1>6. ASSUME NEW p \in Project,
               \/ \E d \in Starter : StartRefusedByStragglers(d, p)
               \/ \E w \in Worker : StopPop(w, p)
        PROVE  starts' = starts
    BY <1>6 DEF StartRefusedByStragglers, StopPop
  <1>7. ASSUME NEW g \in Proc, LateReap(g) \/ Exit(g) \/ CloseRelease(g)
        PROVE  starts' = starts
    BY <1>7 DEF LateReap, Exit, CloseRelease
  <1>8. ASSUME NEW g \in Proc, NEW r \in Proc, Fork(g, r)
        PROVE  starts' = starts
    BY <1>8 DEF Fork
  <1>9. CloseBegin \/ CloseClear \/ UNCHANGED vars => starts' = starts
    BY DEF CloseBegin, CloseClear, vars
  <1>10. QED
    BY <1>1, <1>2, <1>3, <1>4, <1>5, <1>6, <1>7, <1>8, <1>9 DEF Next, CloseStep

\* What start() looks at before it reserves is all there is.
LEMMA FreshReservation ==
  ASSUME Typed, Alone, Placed, NEW c \in Starter, NEW p \in Project,
         StartReserve(c, p), NEW g \in Proc, owner[g] = p
  PROVE  LiveMembers(g) = {}
  <1> SUFFICES ASSUME LiveMembers(g) # {}
               PROVE  FALSE
    OBVIOUS
  <1>1. /\ processes[p] = None /\ p \notin starting /\ p \notin stopping
        /\ closing.pc = "open" /\ AliveIn(stragglers[p]) = {}
    BY DEF StartReserve, Unclaimed, StillLeft
  <1>2. processes[p] # g
    BY <1>1
  <1>3. ~\E d \in Starter : StartHolds(d, g)
    BY <1>1 DEF StartHolds, Typed, Owned, Alone, StartsReserved
  <1>4. ~BeingStopped(g)
    BY <1>1 DEF BeingStopped, Typed, Owned, Alone, StopReserved
  <1>5. LiveMembers(g) \subseteq stragglers[p]
    BY <1>1, <1>2, <1>3, <1>4 DEF Placed, Typed, TypeOK
  <1>6. QED
    BY <1>1, <1>5 DEF LiveMembers, AliveIn, Alive

LEMMA StartsFreshNext ==
  ASSUME Typed, Typed', Alone, Placed, StartsFresh, [Next]_vars
  PROVE  StartsFresh'
  <1> SUFFICES ASSUME NEW c \in Starter, starts'[c].pc = "reserved",
                      NEW g \in Proc, owner'[g] = starts'[c].project
               PROVE  LiveMembers(g)' = {}
    BY DEF StartsFresh
  <1>0. starts'[c].project \in Project
    BY DEF Typed, CallsBound
  <1>1. CASE \E p \in Project : StartReserve(c, p)
    <2>1. PICK p \in Project : StartReserve(c, p)
      BY <1>1
    <2>2. starts'[c].project = p /\ owner' = owner
      BY <2>1 DEF StartReserve, Typed, TypeOK
    <2>3. QED
      BY <2>1, <2>2, FreshReservation, EmptyStays
  <1>2. CASE starts[c] = starts'[c] /\ ~StartSpawn(c)
    <2>1. owner[g] = starts[c].project
      <3>1. CASE owner' = owner
        BY <1>2, <3>1
      <3>2. ASSUME NEW d \in Starter, StartSpawn(d)
            PROVE  owner[g] = starts[c].project
        <4>1. PICK k \in Proc, n \in Fd : StartSpawn(d)!2!(k, n)
          BY <3>2 DEF StartSpawn
        <4>2. starts[d].pc = "reserved" /\ d # c
          BY <1>2, <3>2 DEF StartSpawn
        <4>3. starts[d].project # starts[c].project
          BY <1>2, <4>2 DEF Alone, StartsReserved
        <4>4. QED
          BY <1>2, <4>1, <4>3 DEF Typed, TypeOK
      <3>3. QED
        BY <3>1, <3>2, SpawnOrNot
    <2>2. LiveMembers(g) = {}
      BY <1>2, <2>1 DEF StartsFresh
    <2>3. QED
      BY <1>0, <1>2, <2>1, <2>2, EmptyStays
  <1>3. QED
    BY <1>1, <1>2, ReservedBefore

\* A group grows only by a fork of one of its own.
LEMMA GroupGrows ==
  ASSUME Typed, [Next]_vars, NEW g \in Proc, owner[g] \in Project,
         ~ LiveMembers(g)' \subseteq LiveMembers(g)
  PROVE  \E q, r \in Proc : Fork(q, r) /\ group[q] = g
  <1>1. PICK q \in Proc, r \in Proc : Fork(q, r)
    BY GroupShrinks
  <1>2. group[q] = g
    BY <1>1 DEF Fork, LiveMembers, Alive, Typed, TypeOK
  <1>3. QED
    BY <1>1, <1>2

LEMMA ReapSeesNext ==
  ASSUME SeesAll, Typed, Typed', ReapSees, [Next]_vars
  PROVE  ReapSees'
  <1> SUFFICES ASSUME upkeep'.pc = "listed"
               PROVE  LiveMembers(upkeep.snap[upkeep.cur])'
                        \subseteq upkeep'.seen
    BY DEF ReapSees
  <1>1. ASSUME NEW p \in Project, ReapList(p)
        PROVE  LiveMembers(upkeep.snap[upkeep.cur])' \subseteq upkeep'.seen
    <2>1. /\ upkeep' = [upkeep EXCEPT !.pc = "listed", !.cur = p,
                                      !.seen = GroupListing(upkeep.snap[p])]
          /\ life' = life /\ group' = group
      BY <1>1 DEF ReapList
    <2>2. /\ upkeep'.snap[upkeep'.cur] = upkeep.snap[p]
          /\ upkeep'.seen = GroupListing(upkeep.snap[p])
      BY <2>1 DEF Typed, TypeOK, Upkeep
    <2>3. QED
      BY <2>1, <2>2 DEF LiveMembers, GroupListing, Alive
  <1>2. CASE upkeep' = upkeep
    <2>1. PICK g \in Proc : g = upkeep.snap[upkeep.cur]
      BY <1>2 DEF Typed, CallsBound
    <2>2. owner[g] \in Project /\ LiveMembers(g) \subseteq upkeep.seen
      BY <1>2, <2>1 DEF Typed, CallsBound, Owned, ReapSees
    <2>3. ~\E q, r \in Proc : Fork(q, r) /\ group[q] = g
      BY <1>2, <2>1 DEF Fork, ScanOpen, SeesAll
    <2>4. LiveMembers(g)' \subseteq LiveMembers(g)
      BY <2>2, <2>3, GroupGrows
    <2>5. LiveMembers(upkeep.snap[upkeep.cur])' = LiveMembers(g)'
      <3>1. upkeep'.snap[upkeep'.cur] = g
        BY <1>2, <2>1
      <3>2. QED
        BY <3>1 DEF LiveMembers
    <2>6. QED
      BY <1>2, <2>2, <2>4, <2>5
  <1>3. ASSUME UpkeepStep
        PROVE  \E p \in Project : ReapList(p)
    <2> upkeep \in Upkeep
      BY DEF Typed, TypeOK
    <2> USE DEF Upkeep
    <2>1. ~ReapKeep /\ ~ReapPop /\ ~ReapForget /\ ~ReapCollect /\ ~ReapSnapshot
      BY DEF ReapKeep, ReapPop, ReapForget, ReapCollect, ReapSnapshot
    <2>2. ~BeginRotation /\ ~UpkeepDone
      <3>1. NoUpkeep.pc = "idle" /\ NoUpkeep \in [pc : {"idle"},
              snap : [Project -> {None}], todo : {{}}, cur : {None},
              seen : {{}}, dup : {None}]
        OBVIOUS
      <3>2. ~BeginRotation
        BY <3>1 DEF BeginRotation
      <3>3. ~UpkeepDone
        BY <3>1 DEF UpkeepDone
      <3>4. QED
        BY <3>2, <3>3
    <2>3. ~RotateDone /\ \A p \in Project : ~RotateSkip(p) /\ ~ReapSkip(p)
      BY DEF RotateDone, RotateSkip, ReapSkip
    <2>4. \A p \in Project : ~RotateDup(p)
      <3> SUFFICES ASSUME NEW p \in Project, RotateDup(p)
                   PROVE  FALSE
        OBVIOUS
      <3>1. PICK n : upkeep' = [upkeep EXCEPT !.pc = "copying", !.cur = p,
                                  !.dup = n, !.snap[p] = processes[p]]
        BY DEF RotateDup
      <3>2. QED
        BY <3>1
    <2>5. QED
      BY <1>3, <2>1, <2>2, <2>3, <2>4 DEF UpkeepStep, ReapDone, ReapRaises
  <1>4. ASSUME NEW c \in Starter, StartStep(c)
        PROVE  upkeep' = upkeep
    BY <1>4 DEF StartStep, StartRefused, StartSpawn, StartInsert, StartRecord,
                StartRelease
  <1>5. ASSUME NEW w \in Worker, StopStep(w)
        PROVE  upkeep' = upkeep
    BY <1>5 DEF StopStep, StopList, StopPutBack, StopTerm, StopKill, StopLeft,
                StopEscalateRaises, StopReap, StopRelease
  <1>6. ASSUME NEW p \in Project,
               \/ \E c \in Starter :
                    StartReserve(c, p) \/ StartRefusedByStragglers(c, p)
               \/ \E w \in Worker : StopPop(w, p)
        PROVE  upkeep' = upkeep
    BY <1>6 DEF StartReserve, StartRefusedByStragglers, StopPop
  <1>7. ASSUME NEW g \in Proc, LateReap(g) \/ Exit(g) \/ CloseRelease(g)
        PROVE  upkeep' = upkeep
    BY <1>7 DEF LateReap, Exit, CloseRelease
  <1>8. ASSUME NEW g \in Proc, NEW r \in Proc, Fork(g, r)
        PROVE  upkeep' = upkeep
    BY <1>8 DEF Fork
  <1>9. CloseBegin \/ CloseClear \/ UNCHANGED vars => upkeep' = upkeep
    BY DEF CloseBegin, CloseClear, vars
  <1>10. QED
    BY <1>1, <1>2, <1>3, <1>4, <1>5, <1>6, <1>7, <1>8, <1>9 DEF Next, CloseStep

LEMMA StopsToldNext ==
  ASSUME SeesAll, Typed, StopsTold, [Next]_vars
  PROVE  StopsTold'
  <1> DEFINE
        Told(v) ==
          /\ stops'[v].pc \in {"reaping", "releasing"} =>
               stops'[v].result # "none"
          /\ stops'[v].pc = "lastlisted" =>
               \A q \in stops'[v].seen : /\ q \in Proc
                                         /\ group[q] = stops'[v].managed
                                         /\ life[q] # "unborn"
  <1>1. \A v \in Worker : stops'[v] = stops[v] => Told(v)
    BY DEF StopsTold, Typed, TypeOK, StopCall
  <1>2. ASSUME NEW w \in Worker, StopStep(w)
        PROVE  Told(w) /\ \A v \in Worker : v # w => stops'[v] = stops[v]
    <2> stops \in [Worker -> StopCall]
      BY DEF Typed, TypeOK
    <2> USE DEF StopCall
    <2>1. CASE StopList(w)
      <3>1. stops[w].pc # "idle"
        BY <1>2, StopStepBusy
      <3>2. stops[w].managed \in Proc /\ owner[stops[w].managed] \in Project
        BY <3>1 DEF Typed, CallsBound, Owned
      <3>3. \A q \in GroupListing(stops[w].managed) :
              q \in Proc /\ group[q] = stops[w].managed /\ life[q] # "unborn"
        BY <3>2 DEF GroupListing, Typed, Led
      <3>4. /\ stops'[w].seen = GroupListing(stops[w].managed)
            /\ stops'[w].managed = stops[w].managed
            /\ stops'[w].pc \in {"listed", "relisted", "lastlisted"}
            /\ \A v \in Worker : v # w => stops'[v] = stops[v]
        BY <2>1 DEF StopList, NextListing
      <3>5. QED
        BY <3>3, <3>4
    <2>2. CASE StopTerm(w)
      <3>1. PICK m, b : stops' = [stops EXCEPT ![w].pc = "termed",
                          ![w].seen = {}, ![w].members = m, ![w].warned = b]
        BY <2>2, Zenon DEF StopTerm
      <3>2. QED
        BY <3>1
    <2>3. CASE StopKill(w)
      <3>1. PICK b : stops' = [stops EXCEPT ![w].pc = "killed",
                                 ![w].seen = {}, ![w].warned = b]
        BY <2>3, Zenon DEF StopKill
      <3>2. QED
        BY <3>1
    <2>4. CASE StopLeft(w)
      <3>1. PICK b : /\ b # "none"
                     /\ stops' = [stops EXCEPT ![w].pc = "reaping",
                                               ![w].seen = {}, ![w].result = b]
        <4>1. stops' = [stops EXCEPT ![w].pc = "reaping", ![w].seen = {},
                          ![w].result = IF LastLeft(w) = {} /\ ~stops[w].warned
                                        THEN "clean" ELSE "warned"]
          BY <2>4 DEF StopLeft
        <4>2. (IF LastLeft(w) = {} /\ ~stops[w].warned
               THEN "clean" ELSE "warned") # "none"
          OBVIOUS
        <4>3. QED
          BY <4>1, <4>2, Zenon
      <3>2. QED
        BY <3>1
    <2>5. CASE StopReap(w)
      BY <2>5 DEF StopReap, StopsTold
    <2>6. CASE StopRelease(w)
      BY <2>6 DEF StopRelease
    <2>7. ~StopPutBack(w) /\ ~StopEscalateRaises(w)
      BY DEF StopPutBack, StopEscalateRaises, SeesAll
    <2>8. QED
      BY <1>2, <2>1, <2>2, <2>3, <2>4, <2>5, <2>6, <2>7 DEF StopStep
  <1>3. ASSUME NEW w \in Worker, NEW p \in Project, StopPop(w, p)
        PROVE  Told(w) /\ \A v \in Worker : v # w => stops'[v] = stops[v]
    BY <1>3 DEF StopPop, Typed, TypeOK, StopCall
  <1>4. \A v \in Worker : Told(v)
    BY <1>1, <1>2, <1>3, StopsOnlyByStop
  <1>5. QED
    BY <1>4, BornStays DEF StopsTold

LEMMA OthersStops ==
  ASSUME Typed, NEW w \in Worker, StopStep(w)
  PROVE  \A v \in Worker : v # w => stops'[v] = stops[v]
  <1> stops \in [Worker -> StopCall]
    BY DEF Typed, TypeOK
  <1>1. CASE StopTerm(w) \/ StopKill(w)
    BY <1>1 DEF StopTerm, StopKill
  <1>2. CASE StopList(w) \/ StopPutBack(w) \/ StopReap(w) \/ StopRelease(w)
    BY <1>2 DEF StopList, StopPutBack, StopReap, StopRelease
  <1>3. CASE StopLeft(w) \/ StopEscalateRaises(w)
    BY <1>3 DEF StopLeft, StopEscalateRaises
  <1>4. QED
    BY <1>1, <1>2, <1>3 DEF StopStep

\* A verdict, once there, stays.
LEMMA EndedStays ==
  ASSUME SeesAll, Typed, StopsTold, [Next]_vars, NEW g \in Proc, Ended(g)
  PROVE  Ended(g)'
  <1> stops \in [Worker -> StopCall] /\ verdict \in [Proc -> Verdict]
    BY DEF Typed, TypeOK
  <1>1. CASE stops' = stops /\ verdict' = verdict
    BY <1>1 DEF Ended
  <1>2. ASSUME NEW w \in Worker, NEW p \in Project, StopPop(w, p),
               verdict' = verdict
        PROVE  Ended(g)'
    <2>1. stops[w].pc = "idle" /\ \A v \in Worker : v # w => stops'[v] = stops[v]
      BY <1>2 DEF StopPop
    <2>2. QED
      BY <1>2, <2>1 DEF Ended
  <1>3. ASSUME NEW w \in Worker, StopStep(w)
        PROVE  Ended(g)'
    <2> USE DEF StopCall, Ended
    <2>1. CASE StopRelease(w)
      <3>1. /\ verdict' = [verdict EXCEPT ![stops[w].managed] = stops[w].result]
            /\ stops[w].result # "none"
            /\ \A v \in Worker : v # w => stops'[v] = stops[v]
        BY <2>1 DEF StopRelease, StopsTold
      <3>2. QED
        BY <3>1
    <2>2. CASE StopReap(w)
      BY <2>2 DEF StopReap
    <2>3. CASE ~StopRelease(w) /\ ~StopReap(w)
      <3>1. stops[w].pc \notin {"reaping", "releasing"}
        BY <1>3, <2>3 DEF StopStep, StopList, StopPutBack, StopTerm, StopKill,
             StopLeft, StopEscalateRaises, NextListing, SeesAll
      <3>2. \A v \in Worker : v # w => stops'[v] = stops[v]
        BY <1>3, OthersStops
      <3>3. verdict' = verdict
        BY <1>3, <2>3 DEF StopStep, StopList, StopPutBack, StopTerm, StopKill,
             StopLeft, StopEscalateRaises
      <3>4. QED
        BY <3>1, <3>2, <3>3
    <2>4. QED
      BY <2>1, <2>2, <2>3
  <1>4. QED
    BY <1>1, <1>2, <1>3, StopsOnlyByStop

\* A step that leaves the registry and the calls as they are.
LEMMA PlacedKept ==
  ASSUME SeesAll, Typed, StopsTold, Placed, [Next]_vars,
         UNCHANGED <<processes, stragglers, owner, starts, stops, verdict>>,
         closing.pc = "releasing" => closing'.pc = "releasing"
  PROVE  Placed'
  <1> SUFFICES ASSUME NEW g \in Proc, owner'[g] # None, LiveMembers(g)' # {},
                      closing'.pc # "releasing"
               PROVE  \/ processes'[owner'[g]] = g
                      \/ \E c \in Starter : StartHolds(c, g)'
                      \/ BeingStopped(g)'
                      \/ /\ Ended(g)'
                         /\ LiveMembers(g)' \subseteq stragglers'[owner'[g]]
    BY DEF Placed
  <1>1. owner[g] \in Project /\ LiveMembers(g) # {}
    BY EmptyStays DEF Typed, TypeOK
  <1>2. CASE Ended(g) /\ LiveMembers(g) \subseteq stragglers[owner[g]]
    <2>1. StopOver(g)
      BY <1>2 DEF StopOver, Ended, StopsTold
    <2>2. ~\E q, r \in Proc : Fork(q, r) /\ group[q] = g
      BY <2>1 DEF Fork, SeesAll
    <2>3. LiveMembers(g)' \subseteq LiveMembers(g)
      BY <1>1, <2>2, GroupGrows
    <2>4. QED
      BY <1>2, <2>3, EndedStays
  <1>3. QED
    BY <1>1, <1>2 DEF Placed, StartHolds, BeingStopped

\* What holds a group that runs after a step held it before.
LEMMA PlacedBefore ==
  ASSUME Typed, [Next]_vars, Placed, owner' = owner, NEW g \in Proc,
         owner[g] # None, LiveMembers(g)' # {}, closing.pc # "releasing"
  PROVE  /\ owner[g] \in Project /\ LiveMembers(g) # {}
         /\ \/ processes[owner[g]] = g
            \/ \E c \in Starter : StartHolds(c, g)
            \/ BeingStopped(g)
            \/ Ended(g) /\ LiveMembers(g) \subseteq stragglers[owner[g]]
  BY EmptyStays DEF Placed, Typed, TypeOK

LEMMA PlacedStart ==
  ASSUME SeesAll, Typed, Alone, StopsTold, Placed, [Next]_vars,
         NEW c \in Starter, NEW p \in Project,
         \/ StartReserve(c, p) \/ StartRefusedByStragglers(c, p)
         \/ StartStep(c)
  PROVE  Placed'
  <1> SUFFICES ASSUME NEW g \in Proc, owner'[g] # None, LiveMembers(g)' # {},
                      closing'.pc # "releasing"
               PROVE  \/ processes'[owner'[g]] = g
                      \/ \E d \in Starter : StartHolds(d, g)'
                      \/ BeingStopped(g)'
                      \/ /\ Ended(g)'
                         /\ LiveMembers(g)' \subseteq stragglers'[owner'[g]]
    BY DEF Placed
  <1> starts \in [Starter -> StartCall] /\ owner \in [Proc -> Project \cup {None}]
        /\ processes \in [Project -> Proc \cup {None}]
        /\ stragglers \in [Project -> SUBSET Proc]
    BY DEF Typed, TypeOK
  <1>0. /\ stops' = stops /\ verdict' = verdict /\ closing' = closing
        /\ Ended(g)' = Ended(g) /\ BeingStopped(g)' = BeingStopped(g)
    <2>1. stops' = stops /\ verdict' = verdict /\ closing' = closing
      BY DEF StartReserve, StartRefusedByStragglers, StartStep, StartRefused,
             StartSpawn, StartInsert, StartRecord, StartRelease
    <2>2. QED
      BY <2>1 DEF Ended, BeingStopped
  <1>1. CASE StartReserve(c, p)
    <2>1. /\ owner' = owner /\ processes' = processes /\ life' = life
          /\ group' = group
          /\ \A d \in Starter : d # c => starts'[d] = starts[d]
          /\ starts[c].pc = "idle"
          /\ \A o \in Project : o # p => stragglers'[o] = stragglers[o]
      BY <1>1 DEF StartReserve
    <2>2. LiveMembers(g)' = LiveMembers(g)
      BY <2>1 DEF LiveMembers, Alive
    <2>3. owner[g] # p
      BY <1>1, <2>2, FreshReservation
    <2>4. QED
      BY <1>0, <2>1, <2>2, <2>3, PlacedBefore DEF StartHolds
  <1>2. CASE StartRefusedByStragglers(c, p)
    <2>1. /\ UNCHANGED <<owner, processes, life, group, starts>>
          /\ stragglers' = [stragglers EXCEPT ![p] = AliveIn(stragglers[p])]
      BY <1>2 DEF StartRefusedByStragglers, StillLeft
    <2>2. LiveMembers(g)' = LiveMembers(g)
      BY <2>1 DEF LiveMembers, Alive
    <2>3. LiveMembers(g) \subseteq stragglers[owner[g]] /\ owner[g] \in Project
            => LiveMembers(g) \subseteq stragglers'[owner[g]]
      BY <2>1 DEF LiveMembers, AliveIn
    <2>4. QED
      BY <1>0, <2>1, <2>2, <2>3, PlacedBefore DEF StartHolds
  <1>3. CASE StartSpawn(c)
    <2>1. PICK k \in Proc, n \in Fd : StartSpawn(c)!2!(k, n)
      BY <1>3 DEF StartSpawn
    <2>2. CASE g = k
      BY <2>1, <2>2 DEF StartHolds, StartCall
    <2>3. CASE g # k
      <3>1. /\ processes' = processes /\ stragglers' = stragglers
            /\ starts[c].pc = "reserved"
            /\ \A d \in Starter : d # c => starts'[d] = starts[d]
            /\ owner'[g] = owner[g]
        BY <1>3, <2>1, <2>3 DEF StartSpawn
      <3>2. owner[g] \in Project /\ LiveMembers(g) # {}
        BY <3>1, EmptyStays
      <3>3. LiveMembers(g)' \subseteq LiveMembers(g)
        BY <2>1, <2>3 DEF LiveMembers, Alive, Typed, TypeOK
      <3>4. QED
        BY <1>0, <3>1, <3>2, <3>3 DEF Placed, StartHolds
    <2>4. QED
      BY <2>2, <2>3
  <1>4. CASE StartInsert(c)
    <2>1. /\ starts[c].project \in Project /\ starts[c].child \in Proc
          /\ owner[starts[c].child] = starts[c].project
          /\ processes[starts[c].project] = None
      BY <1>4 DEF StartInsert, Typed, CallsBound, Owned, Alone, StartsAlone
    <2>2. /\ UNCHANGED <<owner, stragglers, life, group>>
          /\ processes' = [processes EXCEPT
                             ![starts[c].project] = starts[c].child]
          /\ \A d \in Starter : d # c => starts'[d] = starts[d]
      BY <1>4 DEF StartInsert
    <2>3. LiveMembers(g)' = LiveMembers(g)
      BY <2>2 DEF LiveMembers, Alive
    <2>4. processes[owner[g]] = g => processes'[owner[g]] = g
      BY <2>1, <2>2
    <2>5. StartHolds(c, g) => processes'[owner[g]] = g
      BY <2>1, <2>2 DEF StartHolds
    <2>6. QED
      BY <1>0, <2>2, <2>3, <2>4, <2>5, PlacedBefore DEF StartHolds
  <1>5. CASE StartRefused(c) \/ StartRecord(c) \/ StartRelease(c)
    <2>1. /\ UNCHANGED <<owner, stragglers, life, group, processes>>
          /\ \A d \in Starter : d # c => starts'[d] = starts[d]
          /\ starts[c].pc # "spawned"
      BY <1>5 DEF StartRefused, StartRecord, StartRelease
    <2>2. LiveMembers(g)' = LiveMembers(g)
      BY <2>1 DEF LiveMembers, Alive
    <2>3. QED
      BY <1>0, <2>1, <2>2, PlacedBefore DEF StartHolds
  <1>6. QED
    BY <1>1, <1>2, <1>3, <1>4, <1>5 DEF StartStep

\* What a stop leaves is named, and nobody else's stragglers are overwritten.
LEMMA LeftNamed ==
  ASSUME Typed, Gone, StopsTold, OneServer, NEW w \in Worker, StopLeft(w),
         NEW g \in Proc, owner[g] \in Project,
         \/ stops[w].managed = g
         \/ LiveMembers(g) \subseteq stragglers[owner[g]]
  PROVE  LiveMembers(g) \subseteq stragglers'[owner[g]]
  <1>1. /\ stops[w].pc = "lastlisted" /\ stops[w].managed \in Proc
        /\ stops[w].key \in Project /\ owner[stops[w].managed] = stops[w].key
    BY DEF StopLeft, Typed, CallsBound, Owned
  <1>2. /\ LastLeft(w) = {} => stragglers' = stragglers
        /\ LastLeft(w) # {} =>
             stragglers' = [stragglers EXCEPT ![stops[w].key] = LastLeft(w)]
    BY DEF StopLeft
  <1>3. LiveMembers(stops[w].managed) \subseteq LastLeft(w)
    BY <1>1 DEF Gone, LastLeft, AliveIn, LiveMembers
  <1>4. LastLeft(w) \subseteq LiveMembers(stops[w].managed)
    BY <1>1 DEF StopsTold, LastLeft, AliveIn, LiveMembers, Typed, TypeOK,
                StopCall
  <1>5. CASE LastLeft(w) = {}
    BY <1>2, <1>3, <1>5
  <1>6. CASE LastLeft(w) # {} /\ owner[g] # stops[w].key
    BY <1>1, <1>2, <1>6 DEF Typed, TypeOK
  <1>7. CASE LastLeft(w) # {} /\ owner[g] = stops[w].key
    <2>1. stragglers'[owner[g]] = LastLeft(w)
      BY <1>1, <1>2, <1>7 DEF Typed, TypeOK
    <2>2. LiveMembers(g) # {} => g = stops[w].managed
      BY <1>1, <1>4, <1>7 DEF OneServer
    <2>3. QED
      BY <1>3, <2>1, <2>2
  <1>8. QED
    BY <1>5, <1>6, <1>7

\* Each step of a stop moves it on.
LEMMA StopMoves ==
  ASSUME Typed, NEW w \in Worker, StopStep(w)
  PROVE  stops'[w].pc # stops[w].pc
  <1> stops \in [Worker -> StopCall]
    BY DEF Typed, TypeOK
  <1> USE DEF StopCall
  <1>1. CASE StopTerm(w)
    <2>1. PICK m, b : stops' = [stops EXCEPT ![w].pc = "termed",
                        ![w].seen = {}, ![w].members = m, ![w].warned = b]
      BY <1>1, Zenon DEF StopTerm
    <2>2. QED
      BY <1>1, <2>1 DEF StopTerm
  <1>2. CASE StopKill(w)
    <2>1. PICK b : stops' = [stops EXCEPT ![w].pc = "killed",
                               ![w].seen = {}, ![w].warned = b]
      BY <1>2, Zenon DEF StopKill
    <2>2. QED
      BY <1>2, <2>1 DEF StopKill
  <1>3. CASE StopList(w)
    BY <1>3 DEF StopList, NextListing
  <1>4. CASE StopLeft(w) \/ StopEscalateRaises(w)
    BY <1>4 DEF StopLeft, StopEscalateRaises
  <1>5. CASE StopPutBack(w) \/ StopReap(w) \/ StopRelease(w)
    BY <1>5 DEF StopPutBack, StopReap, StopRelease
  <1>6. QED
    BY <1>1, <1>2, <1>3, <1>4, <1>5 DEF StopStep

LEMMA PlacedStop ==
  ASSUME SeesAll, Typed, Alone, Gone, StopsTold, OneServer, Placed, [Next]_vars,
         NEW w \in Worker, NEW p \in Project,
         StopPop(w, p) \/ StopStep(w)
  PROVE  Placed'
  <1> SUFFICES ASSUME NEW g \in Proc, owner'[g] # None, LiveMembers(g)' # {},
                      closing'.pc # "releasing"
               PROVE  \/ processes'[owner'[g]] = g
                      \/ \E d \in Starter : StartHolds(d, g)'
                      \/ BeingStopped(g)'
                      \/ /\ Ended(g)'
                         /\ LiveMembers(g)' \subseteq stragglers'[owner'[g]]
    BY DEF Placed
  <1> stops \in [Worker -> StopCall] /\ owner \in [Proc -> Project \cup {None}]
        /\ processes \in [Project -> Proc \cup {None}]
    BY DEF Typed, TypeOK
  <1>0. /\ starts' = starts /\ closing' = closing /\ owner' = owner
        /\ group' = group
        /\ \A c \in Starter : StartHolds(c, g)' = StartHolds(c, g)
    <2>1. starts' = starts /\ closing' = closing /\ owner' = owner
            /\ group' = group
      BY DEF StopPop, StopStep, StopList, StopPutBack, StopTerm, StopKill,
             StopLeft, StopEscalateRaises, StopReap, StopRelease
    <2>2. QED
      BY <2>1 DEF StartHolds
  <1>1. /\ owner[g] \in Project /\ LiveMembers(g) # {}
        /\ \/ processes[owner[g]] = g
           \/ \E c \in Starter : StartHolds(c, g)
           \/ BeingStopped(g)
           \/ Ended(g) /\ LiveMembers(g) \subseteq stragglers[owner[g]]
    BY <1>0, PlacedBefore
  <1>2. LiveMembers(g)' \subseteq LiveMembers(g)
    <2>1. ~\E q, r \in Proc : Fork(q, r)
      <3>1. stops' # stops
        <4>1. ASSUME StopPop(w, p)
              PROVE  stops'[w].pc # stops[w].pc
          BY <4>1 DEF StopPop
        <4>2. ASSUME StopStep(w)
              PROVE  stops'[w].pc # stops[w].pc
          BY <4>2, StopMoves
        <4>3. QED
          BY <4>1, <4>2
      <3>2. QED
        BY <3>1 DEF Fork
    <2>2. QED
      BY <1>1, <2>1, GroupShrinks
  <1>3. CASE StopPop(w, p)
    <2>1. /\ processes' = [processes EXCEPT ![p] = None]
          /\ stops'[w].pc = "popped" /\ stops'[w].managed = processes[p]
          /\ stops[w].pc = "idle" /\ stragglers' = stragglers
          /\ \A v \in Worker : v # w => stops'[v] = stops[v]
      BY <1>3 DEF StopPop, Popped, StopCall
    <2>2. processes[owner[g]] = g =>
            processes'[owner[g]] = g \/ BeingStopped(g)'
      BY <1>1, <2>1 DEF BeingStopped
    <2>3. BeingStopped(g) => BeingStopped(g)'
      BY <2>1 DEF BeingStopped
    <2>4. QED
      BY <1>0, <1>1, <1>2, <2>1, <2>2, <2>3, EndedStays
  <1>4. CASE StopLeft(w)
    <2>1. /\ processes' = processes /\ stops'[w].pc = "reaping"
          /\ stops'[w].managed = stops[w].managed
          /\ \A v \in Worker : v # w => stops'[v] = stops[v]
      <3>1. stops' = [stops EXCEPT ![w].pc = "reaping", ![w].seen = {},
                        ![w].result = IF LastLeft(w) = {} /\ ~stops[w].warned
                                      THEN "clean" ELSE "warned"]
        BY <1>4 DEF StopLeft
      <3>2. processes' = processes
        BY <1>4 DEF StopLeft
      <3>3. QED
        BY <3>1, <3>2 DEF StopCall
    <2>2. CASE stops[w].managed = g
      BY <1>0, <1>1, <1>2, <1>4, <2>1, <2>2, LeftNamed DEF Ended
    <2>3. CASE stops[w].managed # g
      <3>1. BeingStopped(g) => BeingStopped(g)'
        BY <2>1, <2>3 DEF BeingStopped
      <3>2. QED
        BY <1>0, <1>1, <1>2, <1>4, <2>1, <3>1, LeftNamed, EndedStays
    <2>4. QED
      BY <2>2, <2>3
  <1>5. CASE StopStep(w) /\ ~StopLeft(w)
    <2>1. processes' = processes /\ stragglers' = stragglers
      <3>1. ~StopPutBack(w) /\ ~StopEscalateRaises(w)
        BY DEF StopPutBack, StopEscalateRaises, SeesAll
      <3>2. QED
        BY <1>5, <3>1 DEF StopStep, StopList, StopTerm, StopKill, StopReap,
                          StopRelease
    <2>2. BeingStopped(g) => BeingStopped(g)'
      <3>1. CASE StopReap(w) \/ StopRelease(w)
        <4>1. stops[w].pc \in {"reaping", "releasing"}
          BY <3>1 DEF StopReap, StopRelease
        <4>2. QED
          BY <1>5, <4>1, OthersStops DEF BeingStopped
      <3>2. CASE StopList(w)
        <4>1. /\ stops'[w].managed = stops[w].managed
              /\ stops'[w].pc \in {"listed", "relisted", "lastlisted"}
          BY <3>2 DEF StopList, NextListing, StopCall
        <4>2. QED
          BY <1>5, <4>1, OthersStops DEF BeingStopped
      <3>3. CASE StopTerm(w)
        <4>1. PICK m, b : stops' = [stops EXCEPT ![w].pc = "termed",
                            ![w].seen = {}, ![w].members = m, ![w].warned = b]
          BY <3>3, Zenon DEF StopTerm
        <4>2. QED
          BY <4>1 DEF BeingStopped, StopCall
      <3>4. CASE StopKill(w)
        <4>1. PICK b : stops' = [stops EXCEPT ![w].pc = "killed",
                                   ![w].seen = {}, ![w].warned = b]
          BY <3>4, Zenon DEF StopKill
        <4>2. QED
          BY <4>1 DEF BeingStopped, StopCall
      <3>5. ~StopPutBack(w) /\ ~StopEscalateRaises(w)
        BY DEF StopPutBack, StopEscalateRaises, SeesAll
      <3>6. QED
        BY <1>5, <3>1, <3>2, <3>3, <3>4, <3>5 DEF StopStep
    <2>3. QED
      BY <1>0, <1>1, <1>2, <2>1, <2>2, EndedStays
  <1>6. QED
    BY <1>3, <1>4, <1>5

LEMMA PlacedUpkeep ==
  ASSUME SeesAll, Typed, StopsTold, ReapSees, Placed, [Next]_vars, UpkeepStep
  PROVE  Placed'
  <1>1. CASE ReapPop
    <2> SUFFICES ASSUME NEW g \in Proc, owner'[g] # None, LiveMembers(g)' # {},
                        closing'.pc # "releasing"
                 PROVE  \/ processes'[owner'[g]] = g
                        \/ \E d \in Starter : StartHolds(d, g)'
                        \/ BeingStopped(g)'
                        \/ /\ Ended(g)'
                           /\ LiveMembers(g)' \subseteq stragglers'[owner'[g]]
      BY DEF Placed
    <2>1. /\ UNCHANGED <<owner, starts, stops, verdict, stragglers, closing,
                         life, group>>
          /\ processes' = [processes EXCEPT ![upkeep.cur] = None]
          /\ upkeep.pc = "listed" /\ AliveIn(upkeep.seen) = {}
          /\ processes[upkeep.cur] = upkeep.snap[upkeep.cur]
      BY <1>1 DEF ReapPop, GroupGone, SameEntry
    <2>2. LiveMembers(g)' = LiveMembers(g) /\ Ended(g)' = Ended(g)
      BY <2>1 DEF LiveMembers, Alive, Ended
    <2>3. upkeep.cur \in Project /\ processes[upkeep.cur] # g
      <3>1. LiveMembers(processes[upkeep.cur]) = {}
        BY <2>1 DEF ReapSees, LiveMembers, AliveIn
      <3>2. QED
        BY <2>1, <2>2, <3>1 DEF Typed, CallsBound
    <2>4. processes[owner[g]] = g => processes'[owner[g]] = g
      BY <2>1, <2>3 DEF Typed, TypeOK
    <2>5. QED
      BY <2>1, <2>2, <2>4, PlacedBefore DEF StartHolds, BeingStopped
  <1>2. CASE ~ReapPop
    <2>1. UNCHANGED <<processes, stragglers, owner, starts, stops, verdict,
                      closing>>
      BY <1>2 DEF UpkeepStep, ReapSnapshot, ReapSkip, ReapList, ReapKeep,
           ReapForget, ReapCollect, ReapDone, ReapRaises, BeginRotation,
           RotateSkip, RotateDup, RotateDone, UpkeepDone
    <2>2. QED
      BY <2>1, PlacedKept
  <1>3. QED
    BY <1>1, <1>2

LEMMA PlacedOthers ==
  ASSUME SeesAll, Typed, StopsTold, Placed, [Next]_vars,
         \/ CloseBegin \/ CloseStep \/ UNCHANGED vars
         \/ \E q \in Proc : LateReap(q) \/ Exit(q)
         \/ \E q, r \in Proc : Fork(q, r)
  PROVE  Placed'
  <1>1. CASE CloseClear
    BY <1>1 DEF CloseClear, Placed
  <1>2. CASE CloseBegin \/ UNCHANGED vars
    BY <1>2, PlacedKept DEF CloseBegin, vars
  <1>3. ASSUME NEW g \in Proc, LateReap(g) \/ Exit(g) \/ CloseRelease(g)
        PROVE  Placed'
    <2>1. /\ UNCHANGED <<processes, stragglers, owner, starts, stops, verdict>>
          /\ closing.pc = "releasing" => closing'.pc = "releasing"
      BY <1>3 DEF LateReap, Exit, CloseRelease, Typed, TypeOK, Closing
    <2>2. QED
      BY <2>1, PlacedKept
  <1>4. ASSUME NEW q \in Proc, NEW r \in Proc, Fork(q, r)
        PROVE  Placed'
    BY <1>4, PlacedKept DEF Fork
  <1>5. QED
    BY <1>1, <1>2, <1>3, <1>4 DEF CloseStep

LEMMA PlacedNext ==
  ASSUME SeesAll, Typed, Alone, Gone, Traced, [Next]_vars
  PROVE  Placed'
  <1> USE DEF Traced
  <1>1. ASSUME NEW c \in Starter, NEW p \in Project,
               StartReserve(c, p) \/ StartRefusedByStragglers(c, p)
        PROVE  Placed'
    BY <1>1, PlacedStart
  <1>2. ASSUME NEW c \in Starter, StartStep(c)
        PROVE  Placed'
    <2>1. starts[c].project \in Project
      BY <1>2, StartStepBusy DEF Typed, CallsBound
    <2> QED  BY <1>2, <2>1, PlacedStart
  <1>3. ASSUME NEW w \in Worker, NEW p \in Project, StopPop(w, p)
        PROVE  Placed'
    BY <1>3, PlacedStop
  <1>4. ASSUME NEW w \in Worker, StopStep(w)
        PROVE  Placed'
    <2>1. stops[w].key \in Project
      BY <1>4, StopStepBusy DEF Typed, CallsBound
    <2> QED  BY <1>4, <2>1, PlacedStop
  <1>5. CASE UpkeepStep
    BY <1>5, PlacedUpkeep
  <1>6. CASE \/ CloseBegin \/ CloseStep \/ UNCHANGED vars
             \/ \E q \in Proc : LateReap(q) \/ Exit(q)
             \/ \E q, r \in Proc : Fork(q, r)
    BY <1>6, PlacedOthers
  <1>7. QED
    BY <1>1, <1>2, <1>3, <1>4, <1>5, <1>6 DEF Next

LEMMA TracedNext ==
  ASSUME SeesAll, Typed, Typed', Alone, Gone, Traced, [Next]_vars
  PROVE  Traced'
  BY StopsToldNext, ReapSeesNext, PlacedNext, StartsFreshNext, OneServerNext
     DEF Traced

LEMMA TracedAlways ==
  ASSUME SeesAll
  PROVE  Spec => [](Typed /\ Alone /\ Gone /\ Traced)
  <1>1. NoFirstScanError /\ NoForkInScan
    BY DEF SeesAll, NoFirstScanError, NoForkInScan
  <1>2. Init => Typed /\ Alone /\ Gone /\ Traced
    BY TypedInit, AloneInit, GoneInit, TracedInit
  <1>3. Typed /\ Alone /\ Gone /\ Traced /\ [Next]_vars
          => (Typed /\ Alone /\ Gone /\ Traced)'
    BY <1>1, TypedNext, AloneNext, GoneNext, TracedNext
  <1>4. QED
    BY <1>2, <1>3, PTL DEF Spec

(* When every enumeration of a stop answers and nothing forks where a stop  *)
(* cannot see it any more, a project never has two servers, whatever starts,*)
(* stops and upkeep ticks of supervisor.py overlap.                         *)
THEOREM OneServerAlways ==
  ASSUME SeesAll
  PROVE  Spec => []OneServer
  <1>1. Traced => OneServer
    BY DEF Traced
  <1>2. QED
    BY <1>1, TracedAlways, PTL

(* Under the same assumptions every process that still runs for a server of *)
(* this session can be stopped by a later Stop, or is named as a straggler  *)
(* that keeps start() of supervisor.py from starting another one.           *)
THEOREM ReachableAlways ==
  ASSUME SeesAll
  PROVE  Spec => []Reachable
  <1>1. Typed /\ Traced => Reachable
    <2> SUFFICES ASSUME Typed, Traced, NEW g \in Proc, owner[g] # None,
                        LiveMembers(g) # {}, closing.pc # "releasing"
                 PROVE  \/ Holds(g)
                        \/ LiveMembers(g) \subseteq stragglers[owner[g]]
      BY DEF Reachable
    <2>1. BeingStopped(g) => Holds(g)
      BY DEF BeingStopped, Holds, StopHolds
    <2>2. owner[g] \in Project
      BY DEF Typed, TypeOK
    <2>3. QED
      BY <2>1, <2>2 DEF Traced, Placed, Holds
  <1>2. QED
    BY <1>1, TracedAlways, PTL

-----------------------------------------------------------------------------
(* The slot                                                                *)

LEMMA ServedAloneInit == Init => ServedAlone
  BY DEF Init, ServedAlone

LEMMA ServedAloneNext ==
  ASSUME SeesAll, Typed, Typed', Alone, StartsFresh, ServedAlone, [Next]_vars
  PROVE  ServedAlone'
  <1>1. CASE \E c \in Starter : StartSpawn(c)
    <2>1. PICK c \in Starter : StartSpawn(c)
      BY <1>1
    <2>2. PICK k \in Proc, n \in Fd : StartSpawn(c)!2!(k, n)
      BY <2>1 DEF StartSpawn
    <2>3. /\ starts[c].pc = "reserved" /\ starts[c].project \in Project
          /\ processes' = processes
          /\ processes[starts[c].project] = None
          /\ \A d \in Starter : d # c => starts'[d] = starts[d]
          /\ \A d \in Starter : d # c /\ starts[d].pc = "spawned" =>
               starts[d].project # starts[c].project
      BY <2>1 DEF StartSpawn, Typed, TypeOK, CallsBound, Alone, StartsAlone,
                  StartsReserved
    <2>4. \A g \in Proc : g # k => owner'[g] = owner[g]
      BY <2>2
    <2>5. owner'[k] = starts[c].project /\ starts'[c].project = starts[c].project
            /\ starts'[c].child = k
      BY <2>2 DEF Typed, TypeOK, StartCall
    <2>6. ASSUME NEW d \in Starter, starts'[d].pc = "spawned",
                 NEW g \in Proc, owner'[g] = starts'[d].project,
                 g # starts'[d].child
          PROVE  LiveMembers(g)' = {}
      <3>1. CASE d = c
        <4>1. LiveMembers(g) = {} /\ owner[g] \in Project
          BY <2>3, <2>4, <2>5, <2>6, <3>1 DEF StartsFresh
        <4>2. QED
          BY <4>1, EmptyStays
      <3>2. CASE d # c
        <4>1. starts[d].project \in Project /\ g # k
          BY <2>3, <2>5, <2>6, <3>2 DEF Typed, CallsBound
        <4>2. LiveMembers(g) = {} /\ owner[g] \in Project
          BY <2>3, <2>4, <2>6, <3>2, <4>1 DEF ServedAlone
        <4>3. QED
          BY <4>2, EmptyStays
      <3>3. QED
        BY <3>1, <3>2
    <2>7. ASSUME NEW p \in Project, processes'[p] # None,
                 NEW g \in Proc, owner'[g] = p, g # processes'[p]
          PROVE  LiveMembers(g)' = {}
      <3>1. g # k
        BY <2>3, <2>5, <2>7
      <3>2. LiveMembers(g) = {} /\ owner[g] \in Project
        BY <2>3, <2>4, <2>7, <3>1 DEF ServedAlone
      <3>3. QED
        BY <3>2, EmptyStays
    <2>8. QED
      BY <2>6, <2>7 DEF ServedAlone
  <1>2. ASSUME NEW c \in Starter, StartInsert(c)
        PROVE  ServedAlone'
    <2>1. /\ owner' = owner /\ starts[c].pc = "spawned"
          /\ starts[c].project \in Project
          /\ processes' = [processes EXCEPT
                             ![starts[c].project] = starts[c].child]
          /\ \A d \in Starter : starts'[d].pc = "spawned" =>
               starts'[d] = starts[d]
      BY <1>2 DEF StartInsert, Typed, TypeOK, StartCall, CallsBound
    <2>2. ASSUME NEW p \in Project, processes'[p] # None,
                 NEW g \in Proc, owner'[g] = p, g # processes'[p]
          PROVE  LiveMembers(g)' = {}
      <3>1. LiveMembers(g) = {}
        BY <2>1, <2>2 DEF ServedAlone, Typed, TypeOK
      <3>2. QED
        BY <2>1, <2>2, <3>1, EmptyStays
    <2>3. ASSUME NEW d \in Starter, starts'[d].pc = "spawned",
                 NEW g \in Proc, owner'[g] = starts'[d].project,
                 g # starts'[d].child
          PROVE  LiveMembers(g)' = {}
      <3>1. LiveMembers(g) = {} /\ owner[g] \in Project
        BY <2>1, <2>3 DEF ServedAlone, Typed, CallsBound
      <3>2. QED
        BY <3>1, EmptyStays
    <2>4. QED
      BY <2>2, <2>3 DEF ServedAlone
  <1>3. ASSUME owner' = owner,
               \A d \in Starter : starts'[d].pc = "spawned" =>
                                    starts'[d] = starts[d],
               \A p \in Project : processes'[p] # None =>
                                    processes'[p] = processes[p]
        PROVE  ServedAlone'
    <2>1. ASSUME NEW p \in Project, processes'[p] # None,
                 NEW g \in Proc, owner'[g] = p, g # processes'[p]
          PROVE  LiveMembers(g)' = {}
      BY <1>3, <2>1, EmptyStays DEF ServedAlone
    <2>2. ASSUME NEW d \in Starter, starts'[d].pc = "spawned",
                 NEW g \in Proc, owner'[g] = starts'[d].project,
                 g # starts'[d].child
          PROVE  LiveMembers(g)' = {}
      <3>1. LiveMembers(g) = {} /\ owner[g] \in Project
        BY <1>3, <2>2 DEF ServedAlone, Typed, CallsBound
      <3>2. QED
        BY <3>1, EmptyStays
    <2>3. QED
      BY <2>1, <2>2 DEF ServedAlone
  <1> USE DEF Typed, TypeOK
  <1>4. ASSUME NEW c \in Starter, NEW p \in Project,
               \/ StartReserve(c, p) \/ StartRefusedByStragglers(c, p)
               \/ StartRefused(c) \/ StartRecord(c) \/ StartRelease(c)
        PROVE  ServedAlone'
    <2>1. /\ owner' = owner /\ processes' = processes
          /\ \A d \in Starter : d # c => starts'[d] = starts[d]
          /\ starts'[c].pc # "spawned" \/ starts'[c] = starts[c]
      BY <1>4 DEF StartReserve, StartRefusedByStragglers, StartRefused,
                  StartRecord, StartRelease, StartCall
    <2>2. QED
      BY <1>3, <2>1
  <1>5. ASSUME NEW w \in Worker, NEW p \in Project, StopPop(w, p)
        PROVE  ServedAlone'
    BY <1>3, <1>5 DEF StopPop, Popped
  <1>6. ASSUME NEW w \in Worker, StopStep(w)
        PROVE  ServedAlone'
    <2>1. ~StopPutBack(w)
      BY DEF StopPutBack, SeesAll
    <2>2. QED
      BY <1>3, <1>6, <2>1 DEF StopStep, StopList, StopTerm, StopKill, StopLeft,
                   StopEscalateRaises, StopReap, StopRelease
  <1>7. ASSUME UpkeepStep
        PROVE  ServedAlone'
    BY <1>3, <1>7 DEF UpkeepStep, ReapSnapshot, ReapSkip, ReapList, ReapKeep,
         ReapPop, ReapForget, ReapCollect, ReapDone, ReapRaises, BeginRotation,
         RotateSkip, RotateDup, RotateDone, UpkeepDone
  <1>8. ASSUME NEW g \in Proc, LateReap(g) \/ Exit(g) \/ CloseRelease(g)
        PROVE  ServedAlone'
    BY <1>3, <1>8 DEF LateReap, Exit, CloseRelease
  <1>9. ASSUME NEW g \in Proc, NEW r \in Proc, Fork(g, r)
        PROVE  ServedAlone'
    BY <1>3, <1>9 DEF Fork
  <1>10. CASE CloseBegin \/ CloseClear \/ UNCHANGED vars
    BY <1>3, <1>10 DEF CloseBegin, CloseClear, vars
  <1>11. ASSUME NEW c \in Starter, StartStep(c)
         PROVE  ServedAlone'
    <2>1. starts[c].project \in Project
      BY <1>11, StartStepBusy DEF CallsBound
    <2>2. QED
      BY <1>1, <1>2, <1>4, <1>11, <2>1 DEF StartStep
  <1>12. QED
    BY <1>4, <1>5, <1>6, <1>7, <1>8, <1>9, <1>10, <1>11 DEF Next, CloseStep

\* A start that has not entered its child yet.
Begun(p) ==
  \E c \in Starter : /\ starts[c].project = p
                     /\ starts[c].pc \in {"reserved", "spawned"}

LEMMA SlotIs ==
  ASSUME NEW p \in Project
  PROVE  /\ processes[p] # None => SlotOf(p) = "held"
         /\ processes[p] = None /\ p \in stopping => SlotOf(p) = "stopping"
         /\ processes[p] = None /\ p \notin stopping /\ Begun(p)
              => SlotOf(p) = "starting"
         /\ processes[p] = None /\ p \notin stopping /\ ~Begun(p)
              => SlotOf(p) = "free"
  BY DEF SlotOf, Begun

LEMMA SlotBecomes ==
  ASSUME NEW p \in Project
  PROVE  /\ processes'[p] # None => SlotOf(p)' = "held"
         /\ processes'[p] = None /\ p \in stopping' => SlotOf(p)' = "stopping"
         /\ processes'[p] = None /\ p \notin stopping' /\ Begun(p)'
              => SlotOf(p)' = "starting"
         /\ processes'[p] = None /\ p \notin stopping' /\ ~Begun(p)'
              => SlotOf(p)' = "free"
  BY DEF SlotOf, Begun

LEMMA SlotSame ==
  ASSUME NEW p \in Project, processes'[p] = processes[p],
         p \in stopping' <=> p \in stopping, Begun(p)' <=> Begun(p)
  PROVE  SlotOf(p)' = SlotOf(p)
  BY SlotIs, SlotBecomes

\* One slot moves, or none.
LEMMA SlotMoves ==
  ASSUME NEW p \in Project, NEW from, NEW to,
         SlotOf(p) = from, SlotOf(p)' = to,
         \A o \in Project : o # p => SlotOf(o)' = SlotOf(o)
  PROVE  Slot!Moves(p, from, to)
  BY DEF Slot!Moves

LEMMA ServingSame ==
  ASSUME \A p \in Project : Serving(p)' = Serving(p)
  PROVE  [p \in Project |-> Serving(p)]' = [p \in Project |-> Serving(p)]
  OBVIOUS

LEMMA SlotStutters ==
  ASSUME \A p \in Project : SlotOf(p)' = SlotOf(p),
         \A p \in Project : Serving(p)' = Serving(p),
         (closing'.pc # "open") = (closing.pc # "open")
  PROVE  UNCHANGED Slot!vars
  BY DEF Slot!vars

\* Who collects a zombie, or nobody's process, changes no group.
LEMMA ServingKept ==
  ASSUME Typed, owner' = owner, group' = group,
         life' = life \/ \E g \in Proc : life' = Collected(g)
  PROVE  \A p \in Project : Serving(p)' = Serving(p)
  <1>1. \A q \in Proc : Alive(q)' <=> Alive(q)
    BY DEF Alive, Collected, Typed, TypeOK
  <1>2. \A g \in Proc : LiveMembers(g)' = LiveMembers(g)
    BY <1>1 DEF LiveMembers
  <1>3. QED
    BY <1>2 DEF Serving

LEMMA SlotStart ==
  ASSUME SeesAll, Typed, Alone, Placed, StartsFresh, [Next]_vars,
         NEW c \in Starter, NEW p \in Project,
         \/ StartReserve(c, p) \/ StartRefusedByStragglers(c, p)
         \/ StartStep(c)
  PROVE  [Slot!Next]_(Slot!vars)
  <1> starts \in [Starter -> StartCall] /\ owner \in [Proc -> Project \cup {None}]
        /\ processes \in [Project -> Proc \cup {None}]
    BY DEF Typed, TypeOK
  <1>0. /\ stopping' = stopping /\ closing' = closing
        /\ \A d \in Starter : d # c => starts'[d] = starts[d]
    BY DEF StartReserve, StartRefusedByStragglers, StartStep, StartRefused,
           StartSpawn, StartInsert, StartRecord, StartRelease
  <1>1. CASE StartReserve(c, p)
    <2>1. /\ processes[p] = None /\ p \notin stopping /\ ~Begun(p)
          /\ closing.pc = "open" /\ starts[c].pc = "idle"
      BY <1>1 DEF StartReserve, Unclaimed, Begun, Alone, StartsReserved
    <2>2. /\ processes' = processes /\ starts'[c].project = p
          /\ starts'[c].pc = "reserved" /\ owner' = owner /\ group' = group
          /\ life' = life
      BY <1>1 DEF StartReserve
    <2>3. \A o \in Project : o # p => Begun(o)' = Begun(o)
      BY <1>0, <2>1, <2>2 DEF Begun
    <2>4. Begun(p)'
      BY <2>2 DEF Begun
    <2>5. Slot!Moves(p, "free", "starting")
      BY <1>0, <2>1, <2>2, <2>3, <2>4, SlotIs, SlotBecomes, SlotSame, SlotMoves
    <2>6. Serving(p) = {}
      BY <1>1, FreshReservation DEF Serving
    <2>7. \A o \in Project : Serving(o)' = Serving(o)
      BY <2>2, ServingKept
    <2>8. Slot!Reserve(p)
      BY <1>0, <2>1, <2>5, <2>6, <2>7 DEF Slot!Reserve
    <2>9. QED
      BY <2>8 DEF Slot!Next
  <1>2. CASE StartRefusedByStragglers(c, p)
    <2>1. UNCHANGED <<processes, starts, owner, group, life>>
      BY <1>2 DEF StartRefusedByStragglers
    <2>2. \A o \in Project : SlotOf(o)' = SlotOf(o)
      BY <1>0, <2>1, SlotSame DEF Begun
    <2>3. QED
      BY <1>0, <2>1, <2>2, ServingKept, SlotStutters
  <1>3. CASE StartRefused(c)
    <2> DEFINE o == starts[c].project
    <2>1. /\ o \in Project /\ starts[c].pc = "reserved"
          /\ processes[o] = None /\ o \notin stopping
          /\ \A d \in Starter : starts[d].pc # "idle" /\ starts[d].project = o
               => d = c
      BY <1>3 DEF StartRefused, Typed, CallsBound, Alone, StartsAlone,
                  StartsReserved
    <2>2. /\ processes' = processes /\ starts'[c].pc = "idle"
          /\ UNCHANGED <<owner, group, life>>
      BY <1>3 DEF StartRefused
    <2>3. PICK r \in Project : r = o
      BY <2>1
    <2>4. Begun(r) /\ ~Begun(r)'
      BY <1>0, <2>1, <2>2, <2>3 DEF Begun
    <2>5. \A s \in Project : s # r => Begun(s)' = Begun(s)
      BY <1>0, <2>1, <2>2, <2>3 DEF Begun
    <2>6. Slot!Moves(r, "starting", "free")
      BY <1>0, <2>1, <2>2, <2>3, <2>4, <2>5, SlotIs, SlotBecomes, SlotSame,
         SlotMoves
    <2>7. Serving(r) = {}
      BY <2>1, <2>3 DEF Serving, StartsFresh
    <2>8. \A s \in Project : Serving(s)' = Serving(s)
      BY <2>2, ServingKept
    <2>9. Slot!Abandon(r)
      BY <1>0, <2>6, <2>7, <2>8 DEF Slot!Abandon
    <2>10. QED
      BY <2>9 DEF Slot!Next
  <1>4. CASE StartSpawn(c)
    <2>1. PICK k \in Proc, n \in Fd : StartSpawn(c)!2!(k, n)
      BY <1>4 DEF StartSpawn
    <2>2. PICK r \in Project : r = starts[c].project
      BY <1>4 DEF StartSpawn, Typed, CallsBound
    <2>3. /\ starts[c].pc = "reserved" /\ processes[r] = None
          /\ r \notin stopping /\ processes' = processes
      BY <1>4, <2>2 DEF StartSpawn, Alone, StartsAlone
    <2>4. starts'[c].project = r /\ starts'[c].pc = "spawned"
      BY <2>1, <2>2 DEF StartCall
    <2>5. \A o \in Project : Begun(o)' = Begun(o)
      BY <1>0, <2>2, <2>3, <2>4 DEF Begun
    <2>6. \A o \in Project : SlotOf(o)' = SlotOf(o)
      BY <1>0, <2>3, <2>5, SlotSame
    <2>7. SlotOf(r) = "starting"
      BY <2>2, <2>3, SlotIs DEF Begun
    <2>8. Serving(r) = {}
      BY <2>2, <2>3 DEF Serving, StartsFresh
    <2>9. owner[k] = None /\ \A o \in Project : k \notin Serving(o)
      BY <2>1 DEF Serving, Typed, Led
    <2>10. \A g \in Proc : g # k => /\ LiveMembers(g)' = LiveMembers(g)
                                    /\ owner'[g] = owner[g]
      BY <2>1 DEF LiveMembers, Alive, Typed, TypeOK
    <2>11. owner'[k] = r /\ k \in LiveMembers(k)'
      BY <2>1, <2>2 DEF LiveMembers, Alive, Typed, TypeOK
    <2>12. Serving(r)' = {k}
      BY <2>2, <2>8, <2>10, <2>11 DEF Serving
    <2>13. \A o \in Project : o # r => Serving(o)' = Serving(o)
      BY <2>9, <2>10, <2>11 DEF Serving
    <2>14. Slot!Spawn(r, k)
      BY <1>0, <2>6, <2>7, <2>8, <2>9, <2>12, <2>13 DEF Slot!Spawn
    <2>15. QED
      BY <2>14 DEF Slot!Next
  <1>5. CASE StartInsert(c)
    <2>1. PICK r \in Project : r = starts[c].project
      BY <1>5 DEF StartInsert, Typed, CallsBound
    <2>2. /\ starts[c].pc = "spawned" /\ starts[c].child \in Proc
          /\ processes[r] = None /\ r \notin stopping
          /\ processes' = [processes EXCEPT ![r] = starts[c].child]
          /\ starts'[c].pc = "inserted" /\ UNCHANGED <<owner, group, life>>
          /\ starts'[c].project = r
      BY <1>5, <2>1 DEF StartInsert, Typed, CallsBound, Alone, StartsAlone,
                        StartCall
    <2>3. \A s \in Project : s # r => Begun(s)' = Begun(s)
      BY <1>0, <2>1, <2>2 DEF Begun
    <2>4. Begun(r)
      BY <2>1, <2>2 DEF Begun
    <2>5. Slot!Moves(r, "starting", "held")
      BY <1>0, <2>2, <2>3, <2>4, SlotIs, SlotBecomes, SlotSame, SlotMoves
    <2>6. Slot!Enter(r)
      BY <1>0, <2>2, <2>5, ServingKept DEF Slot!Enter
    <2>7. QED
      BY <2>6 DEF Slot!Next
  <1>6. CASE StartRecord(c) \/ StartRelease(c)
    <2>1. /\ UNCHANGED <<processes, owner, group, life>>
          /\ starts[c].pc \notin {"reserved", "spawned"}
          /\ starts'[c].pc \notin {"reserved", "spawned"}
      BY <1>6 DEF StartRecord, StartRelease, StartCall
    <2>2. \A o \in Project : SlotOf(o)' = SlotOf(o)
      BY <1>0, <2>1, SlotSame DEF Begun
    <2>3. QED
      BY <1>0, <2>1, <2>2, ServingKept, SlotStutters
  <1>7. QED
    BY <1>1, <1>2, <1>3, <1>4, <1>5, <1>6 DEF StartStep

LEMMA SlotStop ==
  ASSUME SeesAll, Typed, Alone, [Next]_vars, NEW w \in Worker,
         NEW p \in Project, StopPop(w, p) \/ StopStep(w)
  PROVE  [Slot!Next]_(Slot!vars)
  <1> stops \in [Worker -> StopCall] /\ processes \in [Project -> Proc \cup {None}]
    BY DEF Typed, TypeOK
  <1>0. /\ UNCHANGED <<starts, closing, owner, group>>
        /\ \A o \in Project : Begun(o)' = Begun(o)
        /\ life' = life \/ \E g \in Proc : life' = Collected(g)
    <2>1. UNCHANGED <<starts, closing, owner, group>>
      BY DEF StopPop, StopStep, StopList, StopPutBack, StopTerm, StopKill,
             StopLeft, StopEscalateRaises, StopReap, StopRelease
    <2>2. ASSUME StopReap(w)
          PROVE  \E g \in Proc : life' = Collected(g)
      BY <2>2 DEF StopReap, Typed, CallsBound
    <2>3. ASSUME ~StopReap(w)
          PROVE  life' = life
      BY <2>3 DEF StopPop, StopStep, StopList, StopPutBack, StopTerm, StopKill,
             StopLeft, StopEscalateRaises, StopRelease
    <2>4. QED
      BY <2>1, <2>2, <2>3 DEF Begun
  <1>1. \A o \in Project : Serving(o)' = Serving(o)
    BY <1>0, ServingKept
  <1>2. CASE StopPop(w, p)
    <2>1. /\ processes[p] # None
          /\ processes' = [processes EXCEPT ![p] = None]
          /\ stopping' = stopping \cup {p}
      BY <1>2 DEF StopPop, Popped, Reserved
    <2>2. Slot!Moves(p, "held", "stopping")
      BY <1>0, <2>1, SlotIs, SlotBecomes, SlotSame, SlotMoves
    <2>3. Slot!BeginStop(p)
      BY <1>0, <1>1, <2>2 DEF Slot!BeginStop
    <2>4. QED
      BY <2>3 DEF Slot!Next
  <1>3. CASE StopRelease(w)
    <2>1. PICK r \in Project : r = stops[w].key
      BY <1>3 DEF StopRelease, Typed, CallsBound
    <2>2. /\ r \in stopping /\ processes[r] = None /\ ~Begun(r)
          /\ processes' = processes /\ stopping' = stopping \ {r}
      BY <1>3, <2>1 DEF StopRelease, Released, Alone, StopReserved, StopsAlone,
                        StartsAlone, Begun
    <2>3. Slot!Moves(r, "stopping", "free")
      BY <1>0, <2>2, SlotIs, SlotBecomes, SlotSame, SlotMoves
    <2>4. Slot!EndStop(r)
      BY <1>0, <1>1, <2>3 DEF Slot!EndStop
    <2>5. QED
      BY <2>4 DEF Slot!Next
  <1>4. CASE StopStep(w) /\ ~StopRelease(w)
    <2>1. ~StopPutBack(w)
      BY DEF StopPutBack, SeesAll
    <2>2. processes' = processes /\ stopping' = stopping
      BY <1>4, <2>1 DEF StopStep, StopList, StopTerm, StopKill, StopLeft,
                        StopEscalateRaises, StopReap
    <2>3. QED
      BY <1>0, <1>1, <2>2, SlotSame, SlotStutters
  <1>5. QED
    BY <1>2, <1>3, <1>4

LEMMA SlotUpkeep ==
  ASSUME Typed, Alone, ReapSees, ServedAlone, UpkeepStep
  PROVE  [Slot!Next]_(Slot!vars)
  <1> processes \in [Project -> Proc \cup {None}]
    BY DEF Typed, TypeOK
  <1>0. /\ UNCHANGED <<starts, closing, owner, group, stopping>>
        /\ \A o \in Project : Begun(o)' = Begun(o)
        /\ life' = life \/ \E g \in Proc : life' = Collected(g)
    <2>1. UNCHANGED <<starts, closing, owner, group, stopping>>
      BY DEF UpkeepStep, ReapSnapshot, ReapSkip, ReapList, ReapKeep, ReapPop,
             ReapForget, ReapCollect, ReapDone, ReapRaises, BeginRotation,
             RotateSkip, RotateDup, RotateDone, UpkeepDone
    <2>2. ASSUME ReapCollect
          PROVE  \E g \in Proc : life' = Collected(g)
      BY <2>2 DEF ReapCollect, Typed, CallsBound
    <2>3. ASSUME ~ReapCollect
          PROVE  life' = life
      BY <2>3 DEF UpkeepStep, ReapSnapshot, ReapSkip, ReapList, ReapKeep,
           ReapPop, ReapForget, ReapDone, ReapRaises, BeginRotation,
           RotateSkip, RotateDup, RotateDone, UpkeepDone
    <2>4. QED
      BY <2>1, <2>2, <2>3 DEF Begun
  <1>1. \A o \in Project : Serving(o)' = Serving(o)
    BY <1>0, ServingKept
  <1>2. CASE ReapPop
    <2>1. PICK r \in Project : r = upkeep.cur
      BY <1>2 DEF ReapPop, Typed, CallsBound
    <2>2. /\ upkeep.pc = "listed" /\ AliveIn(upkeep.seen) = {}
          /\ processes[r] = upkeep.snap[upkeep.cur] /\ processes[r] \in Proc
          /\ processes' = [processes EXCEPT ![r] = None]
      BY <1>2, <2>1 DEF ReapPop, GroupGone, SameEntry, Typed, CallsBound
    <2>3. r \notin stopping /\ ~Begun(r)
      BY <2>2 DEF Alone, StopsAlone, StartsAlone, Begun
    <2>4. LiveMembers(processes[r]) = {}
      BY <2>2 DEF ReapSees, LiveMembers, AliveIn
    <2>5. Serving(r) = {}
      BY <2>2, <2>4 DEF Serving, ServedAlone
    <2>6. Slot!Moves(r, "held", "free")
      BY <1>0, <2>2, <2>3, SlotIs, SlotBecomes, SlotSame, SlotMoves
    <2>7. Slot!Vacate(r)
      BY <1>0, <1>1, <2>5, <2>6 DEF Slot!Vacate
    <2>8. QED
      BY <2>7 DEF Slot!Next
  <1>3. CASE ~ReapPop
    <2>1. processes' = processes
      BY <1>3 DEF UpkeepStep, ReapSnapshot, ReapSkip, ReapList, ReapKeep,
           ReapForget, ReapCollect, ReapDone, ReapRaises, BeginRotation,
           RotateSkip, RotateDup, RotateDone, UpkeepDone
    <2>2. QED
      BY <1>0, <1>1, <2>1, SlotSame, SlotStutters
  <1>4. QED
    BY <1>2, <1>3

LEMMA SlotOthers ==
  ASSUME Typed, Alone, [Next]_vars,
         \/ CloseBegin \/ CloseStep \/ UNCHANGED vars
         \/ \E q \in Proc : LateReap(q) \/ Exit(q)
         \/ \E q, r \in Proc : Fork(q, r)
  PROVE  [Slot!Next]_(Slot!vars)
  <1> processes \in [Project -> Proc \cup {None}]
    BY DEF Typed, TypeOK
  <1>1. CASE CloseBegin
    <2>1. /\ UNCHANGED <<processes, stopping, starts, owner, group, life>>
          /\ closing'.pc # "open"
      BY <1>1 DEF CloseBegin, Typed, TypeOK, Closing
    <2>2. \A o \in Project : SlotOf(o)' = SlotOf(o)
      BY <2>1, SlotSame DEF Begun
    <2>3. Slot!Quit
      BY <2>1, <2>2, ServingKept DEF Slot!Quit
    <2>4. QED
      BY <2>3 DEF Slot!Next
  <1>2. CASE CloseClear
    <2>1. /\ UNCHANGED <<stopping, starts, owner, group, life>>
          /\ closing.pc # "open" /\ closing'.pc # "open"
          /\ processes' = [o \in Project |-> None]
      BY <1>2 DEF CloseClear
    <2>2. \A o \in Project : ~Begun(o) /\ ~Begun(o)'
      BY <2>1 DEF Begun, Alone, QuitAlone
    <2>3. \A o \in Project : processes[o] # None => o \notin stopping
      BY DEF Alone, StopsAlone
    <2>4. \A o \in Project : SlotOf(o)' =
             IF SlotOf(o) = "held" THEN "free" ELSE SlotOf(o)
      BY <2>1, <2>2, <2>3, SlotIs, SlotBecomes
    <2>5. Slot!LetGo
      BY <2>1, <2>4, ServingKept DEF Slot!LetGo
    <2>6. QED
      BY <2>5 DEF Slot!Next
  <1>3. ASSUME NEW g \in Proc, LateReap(g) \/ CloseRelease(g)
        PROVE  UNCHANGED Slot!vars
    <2>1. /\ UNCHANGED <<processes, stopping, starts, owner, group>>
          /\ life' = Collected(g) /\ closing'.pc = closing.pc
      BY <1>3 DEF LateReap, CloseRelease, Typed, TypeOK, Closing
    <2>2. \A o \in Project : SlotOf(o)' = SlotOf(o)
      BY <2>1, SlotSame DEF Begun
    <2>3. QED
      BY <2>1, <2>2, ServingKept, SlotStutters
  <1>4. CASE UNCHANGED vars
    <2>1. UNCHANGED <<processes, stopping, starts, owner, group, life, closing>>
      BY <1>4 DEF vars
    <2>2. \A o \in Project : SlotOf(o)' = SlotOf(o)
      BY <2>1, SlotSame DEF Begun
    <2>3. QED
      BY <2>1, <2>2, ServingKept, SlotStutters
  <1>5. ASSUME NEW q \in Proc, NEW r \in Proc, Fork(q, r)
        PROVE  UNCHANGED Slot!vars
    <2>1. /\ UNCHANGED <<processes, stopping, starts, owner, closing>>
          /\ life[r] = "unborn" /\ life' = [life EXCEPT ![r] = "live"]
          /\ group' = [group EXCEPT ![r] = group[q]]
      BY <1>5 DEF Fork
    <2>2. \A o \in Project : SlotOf(o)' = SlotOf(o)
      BY <2>1, SlotSame DEF Begun
    <2>3. \A g \in Proc : LiveMembers(g) \subseteq LiveMembers(g)'
      BY <2>1 DEF LiveMembers, Alive, Typed, TypeOK
    <2>4. \A g \in Proc : owner[g] \in Project =>
            (LiveMembers(g)' = {} <=> LiveMembers(g) = {})
      BY <2>3, EmptyStays
    <2>5. \A o \in Project : Serving(o)' = Serving(o)
      BY <2>1, <2>4 DEF Serving
    <2>6. QED
      BY <2>1, <2>2, <2>5, SlotStutters
  <1>6. ASSUME NEW q \in Proc, Exit(q)
        PROVE  [Slot!Next]_(Slot!vars)
    <2>1. /\ UNCHANGED <<processes, stopping, starts, owner, group, closing>>
          /\ Alive(q)
          /\ \A r \in Proc : r # q => life'[r] = life[r]
          /\ life'[q] # "live"
      BY <1>6 DEF Exit, Typed, TypeOK
    <2>2. \A o \in Project : SlotOf(o)' = SlotOf(o)
      BY <2>1, SlotSame DEF Begun
    <2>3. \A g \in Proc : g # group[q] => LiveMembers(g)' = LiveMembers(g)
      BY <2>1 DEF LiveMembers, Alive
    <2>4. CASE /\ group[q] \in Proc /\ owner[group[q]] \in Project
               /\ LiveMembers(group[q])' = {}
      <3>1. PICK g \in Proc, o \in Project : g = group[q] /\ owner[g] = o
        BY <2>4
      <3>2. g \in Serving(o)
        BY <2>1, <3>1 DEF Serving, LiveMembers
      <3>3. LiveMembers(g)' = {}
        BY <2>1, <2>4, <3>1 DEF LiveMembers
      <3>4. Serving(o)' = Serving(o) \ {g}
        BY <2>1, <2>3, <3>1, <3>3 DEF Serving
      <3>5. \A s \in Project : s # o => Serving(s)' = Serving(s)
        BY <2>1, <2>3, <3>1 DEF Serving
      <3>6. Slot!Die(o, g)
        BY <2>1, <2>2, <3>2, <3>4, <3>5 DEF Slot!Die
      <3>7. QED
        BY <3>6 DEF Slot!Next
    <2>5. CASE ~(/\ group[q] \in Proc /\ owner[group[q]] \in Project
                 /\ LiveMembers(group[q])' = {})
      <3>1. \A g \in Proc : owner[g] \in Project =>
              (LiveMembers(g)' = {} <=> LiveMembers(g) = {})
        <4> SUFFICES ASSUME NEW g \in Proc, owner[g] \in Project
                     PROVE  LiveMembers(g)' = {} <=> LiveMembers(g) = {}
          OBVIOUS
        <4>1. CASE g # group[q]
          BY <2>3, <4>1
        <4>2. CASE g = group[q]
          <5>1. LiveMembers(group[q])' = LiveMembers(g)'
            BY <2>1, <4>2 DEF LiveMembers
          <5>2. LiveMembers(g) # {}
            BY <2>1, <4>2 DEF LiveMembers
          <5>3. QED
            BY <2>5, <4>2, <5>1, <5>2
        <4>3. QED
          BY <4>1, <4>2
      <3>2. \A o \in Project : Serving(o)' = Serving(o)
        BY <2>1, <3>1 DEF Serving
      <3>3. QED
        BY <2>1, <2>2, <3>2, SlotStutters
    <2>6. QED
      BY <2>4, <2>5
  <1>7. QED
    BY <1>1, <1>2, <1>3, <1>4, <1>5, <1>6 DEF CloseStep

LEMMA SlotNext ==
  ASSUME SeesAll, Typed, Alone, Traced, ServedAlone, [Next]_vars
  PROVE  [Slot!Next]_(Slot!vars)
  <1> USE DEF Traced
  <1>1. ASSUME NEW c \in Starter, NEW p \in Project,
               StartReserve(c, p) \/ StartRefusedByStragglers(c, p)
        PROVE  [Slot!Next]_(Slot!vars)
    BY <1>1, SlotStart
  <1>2. ASSUME NEW c \in Starter, StartStep(c)
        PROVE  [Slot!Next]_(Slot!vars)
    <2>1. starts[c].project \in Project
      BY <1>2, StartStepBusy DEF Typed, CallsBound
    <2> QED  BY <1>2, <2>1, SlotStart
  <1>3. ASSUME NEW w \in Worker, NEW p \in Project, StopPop(w, p)
        PROVE  [Slot!Next]_(Slot!vars)
    BY <1>3, SlotStop
  <1>4. ASSUME NEW w \in Worker, StopStep(w)
        PROVE  [Slot!Next]_(Slot!vars)
    <2>1. stops[w].key \in Project
      BY <1>4, StopStepBusy DEF Typed, CallsBound
    <2> QED  BY <1>4, <2>1, SlotStop
  <1>5. CASE UpkeepStep
    BY <1>5, SlotUpkeep
  <1>6. CASE \/ CloseBegin \/ CloseStep \/ UNCHANGED vars
             \/ \E q \in Proc : LateReap(q) \/ Exit(q)
             \/ \E q, r \in Proc : Fork(q, r)
    BY <1>6, SlotOthers
  <1>7. QED
    BY <1>1, <1>2, <1>3, <1>4, <1>5, <1>6 DEF Next

LEMMA SlotInit == Init => Slot!Init
  <1> SUFFICES ASSUME Init
               PROVE  Slot!Init
    OBVIOUS
  <1>1. \A p \in Project : SlotOf(p) = "free"
    <2>1. \A p \in Project : processes[p] = None /\ ~Begun(p) /\ p \notin stopping
      BY DEF Init, Begun
    <2>2. QED
      BY <2>1, SlotIs
  <1>2. \A p \in Project : Serving(p) = {}
    BY DEF Init, Serving, LiveMembers, Alive
  <1>3. closing.pc = "open"
    BY DEF Init
  <1>4. QED
    BY <1>1, <1>2, <1>3 DEF Slot!Init

(* Under the same assumptions the threads, locks, process groups and scans  *)
(* of supervisor.py do nothing that the slots of ServerSlot do not allow: a *)
(* server is started only into a free slot beside which nothing runs.       *)
THEOREM SupervisorImplementsServerSlot ==
  ASSUME SeesAll
  PROVE  Spec => ImplementsServerSlot
  <1> DEFINE Inv == Typed /\ Alone /\ Gone /\ Traced /\ ServedAlone
  <1>1. Init => Inv
    BY TypedInit, AloneInit, GoneInit, TracedInit, ServedAloneInit
  <1>2. Inv /\ [Next]_vars => Inv'
    <2>1. NoFirstScanError /\ NoForkInScan
      BY DEF SeesAll, NoFirstScanError, NoForkInScan
    <2>2. QED
      BY <2>1, TypedNext, AloneNext, GoneNext, TracedNext, ServedAloneNext
         DEF Traced
  <1>3. Inv /\ [Next]_vars => [Slot!Next]_(Slot!vars)
    BY SlotNext
  <1>4. Spec => Slot!Spec
    <2> HIDE DEF Inv
    <2> QED  BY <1>1, <1>2, <1>3, SlotInit, PTL DEF Spec, Slot!Spec
  <1>5. QED
    BY <1>4 DEF ImplementsServerSlot
=============================================================================
