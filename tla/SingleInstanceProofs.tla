------------------------ MODULE SingleInstanceProofs ------------------------
(***************************************************************************)
(* Theorems about SingleInstance, for any number of copies: every state is *)
(* well typed, and no two guarded copies write the same files.             *)
(*                                                                         *)
(* OneWriter is not inductive: that a second copy cannot be guarded        *)
(* depends on whose name the socket file is while a first one is, on who   *)
(* may remove it meanwhile, and on what a recovery knows of it when it     *)
(* does.  These are the three parts of Exclusive.                          *)
(***************************************************************************)
EXTENDS SingleInstance, TLAPS

\* Places of a copy that accepts connections, or of one that runs unguarded.
Up == {"building", "running", "stopping", "freezing", "releasing"}
\* Places within the lock of a recovery.
Recovering == {"reprobe", "remove", "relisten", "lastprobe"}

\* The file is this copy's.
Holds(c) == pc[c] \in {"bound", "unlinking"} \/ (pc[c] \in Up /\ c \notin problem)

FileIsHolders == \A c \in Copy : Holds(c) => file = c
LockIsRecovering == \A c \in Copy : pc[c] \in Recovering => lock = c
RemovesTheDead ==
  \A c \in Copy : pc[c] = "remove" /\ found[c] # None =>
    file = found[c] /\ pc[found[c]] = "over"

Exclusive == excused \/ (FileIsHolders /\ LockIsRecovering /\ RemovesTheDead)

\* A copy says that it runs unguarded when it stops claiming, and never listens.
Guards ==
  /\ \A c \in problem : pc[c] \notin Claiming \cup {"off"}
  /\ \A c \in listening : pc[c] \notin Claiming \cup {"off"} /\ c \notin problem
  /\ file # None => pc[file] # "off"

IInv == TypeOK /\ Guards /\ Exclusive

-----------------------------------------------------------------------------
LEMMA InitTypeOK == Init => TypeOK
BY DEF Init, TypeOK, Place, Claiming

\* Each action keeps the types.
LEMMA TypeStep == ASSUME TypeOK, [Next]_vars PROVE TypeOK'
<1>1. CASE UNCHANGED vars
  BY <1>1 DEF TypeOK, vars
<1>2. CASE Next
  <2> PICK c \in Copy :
        \/ Launch(c) \/ Claims(c) \/ Runs(c) \/ Quits(c)
        \/ CannotListen(c) \/ NoLock(c) \/ Crashes(c)
    BY <1>2 DEF Next
  <2> USE DEF TypeOK, Moves, Place, Claiming
  <2>1. CASE Launch(c)       BY <2>1 DEF Launch
  <2>2. CASE Binds(c)        BY <2>2 DEF Binds
  <2>3. CASE AddressInUse(c) BY <2>3 DEF AddressInUse
  <2>4. CASE Accepts(c)      BY <2>4 DEF Accepts, Unlocked
  <2>5. CASE HandsOver(c)
    <3>1. file \in Copy
      BY <2>5 DEF HandsOver
    <3> QED BY <2>5, <3>1 DEF HandsOver, Unlocked
  <2>6. CASE ProbeMisses(c)  BY <2>6 DEF ProbeMisses
  <2>7. CASE TakesLock(c)    BY <2>7 DEF TakesLock
  <2>8. CASE ReprobeMisses(c) BY <2>8 DEF ReprobeMisses
  <2>9. CASE Removes(c)      BY <2>9 DEF Removes
  <2>10. CASE LastProbeMisses(c) BY <2>10 DEF LastProbeMisses, Unlocked
  <2>11. CASE Shows(c)       BY <2>11 DEF Shows
  <2>12. CASE Answers(c)     BY <2>12 DEF Answers, BringsToFront
  <2>13. CASE Stops(c)       BY <2>13 DEF Stops, Same
  <2>14. CASE Freezes(c)     BY <2>14 DEF Freezes, Same
  <2>15. CASE Releases(c)    BY <2>15 DEF Releases
  <2>16. CASE Unlinks(c)     BY <2>16 DEF Unlinks
  <2>17. CASE Gone(c)        BY <2>17 DEF Gone, Unlocked
  <2>18. CASE Quits(c)       BY <2>18 DEF Quits, Same
  <2>19. CASE CannotListen(c) BY <2>19 DEF CannotListen, Unguarded, Unlocked
  <2>20. CASE NoLock(c)      BY <2>20 DEF NoLock
  <2> QED
    BY <2>1, <2>2, <2>3, <2>4, <2>5, <2>6, <2>7, <2>8, <2>9, <2>10, <2>11, <2>12,
       <2>13, <2>14, <2>15, <2>16, <2>17, <2>18, <2>19, <2>20
       DEF Claims, Runs, Closes, Crashes
<1> QED BY <1>1, <1>2

\* Every reachable state is well typed.
THEOREM TypeCorrect == Spec => []TypeOK
<1>1. Init => TypeOK
  BY InitTypeOK
<1>2. TypeOK /\ [Next]_vars => TypeOK'
  BY TypeStep
<1> QED BY <1>1, <1>2, PTL DEF Spec
-----------------------------------------------------------------------------
\* At the start no copy runs.
LEMMA InitIInv == Init => IInv
BY InitTypeOK, NoneIsNoCopy
   DEF Init, IInv, Guards, Exclusive, FileIsHolders, LockIsRecovering,
       RemovesTheDead, Holds, Recovering, Up

\* Who said that it runs unguarded does not listen, and stays so.
LEMMA GuardsStep == ASSUME TypeOK, Guards, NEW c \in Copy,
    \/ Launch(c) \/ Claims(c) \/ Runs(c) \/ Quits(c)
    \/ CannotListen(c) \/ NoLock(c) \/ Crashes(c)
  PROVE Guards'
<1> USE NoneIsNoCopy DEF TypeOK, Guards, Moves, Claiming, Place
<1>1. CASE Launch(c)       BY <1>1 DEF Launch
<1>2. CASE Binds(c)        BY <1>2 DEF Binds
<1>3. CASE AddressInUse(c) BY <1>3 DEF AddressInUse
<1>4. CASE Accepts(c)      BY <1>4 DEF Accepts
<1>5. CASE HandsOver(c)    BY <1>5 DEF HandsOver
<1>6. CASE ProbeMisses(c)  BY <1>6 DEF ProbeMisses
<1>7. CASE TakesLock(c)    BY <1>7 DEF TakesLock
<1>8. CASE ReprobeMisses(c) BY <1>8 DEF ReprobeMisses
<1>9. CASE Removes(c)      BY <1>9 DEF Removes
<1>10. CASE LastProbeMisses(c) BY <1>10 DEF LastProbeMisses
<1>11. CASE Shows(c)       BY <1>11 DEF Shows
<1>12. CASE Answers(c)     BY <1>12 DEF Answers
<1>13. CASE Stops(c)       BY <1>13 DEF Stops, Same
<1>14. CASE Freezes(c)     BY <1>14 DEF Freezes, Same
<1>15. CASE Releases(c)    BY <1>15 DEF Releases
<1>16. CASE Unlinks(c)     BY <1>16 DEF Unlinks
<1>17. CASE Gone(c)        BY <1>17 DEF Gone
<1>18. CASE Quits(c)       BY <1>18 DEF Quits, Same
<1>19. CASE CannotListen(c) BY <1>19 DEF CannotListen, Unguarded
<1>20. CASE NoLock(c)      BY <1>20 DEF NoLock
<1> QED
  BY <1>1, <1>2, <1>3, <1>4, <1>5, <1>6, <1>7, <1>8, <1>9, <1>10, <1>11, <1>12,
     <1>13, <1>14, <1>15, <1>16, <1>17, <1>18, <1>19, <1>20
     DEF Claims, Runs, Closes, Crashes

\* Nobody takes the file of a copy that holds it: it is bound only when it is
\* free, unlinked only by its holder, and removed only when its owner is over.
LEMMA ExclusiveStep == ASSUME IInv, NEW c \in Copy,
    \/ Launch(c) \/ Claims(c) \/ Runs(c) \/ Quits(c)
    \/ CannotListen(c) \/ NoLock(c) \/ Crashes(c)
  PROVE Exclusive'
<1>0. CASE excused
  <2>1. excused'
    BY <1>0 DEF Claims, Runs, Launch, Binds, AddressInUse, Accepts, HandsOver,
       ProbeMisses, TakesLock, ReprobeMisses, Removes, LastProbeMisses, Shows,
       Answers, Stops, Freezes, Releases, Unlinks, Closes, Gone, Quits, Same,
       CannotListen, Unguarded, NoLock, Crashes
  <2> QED BY <2>1 DEF Exclusive
<1> SUFFICES ASSUME ~excused PROVE Exclusive'
  BY <1>0
<1>a. FileIsHolders /\ LockIsRecovering /\ RemovesTheDead
  BY DEF IInv, Exclusive
<1> USE <1>a, NoneIsNoCopy
    DEF IInv, TypeOK, Guards, Moves, Claiming, Place, Up, Recovering, Holds,
        FileIsHolders, LockIsRecovering, RemovesTheDead, Exclusive
<1>1. CASE Launch(c)       BY <1>1 DEF Launch
<1>2. CASE Binds(c)        BY <1>2 DEF Binds
<1>3. CASE AddressInUse(c) BY <1>3 DEF AddressInUse
<1>4. CASE Accepts(c)      BY <1>4 DEF Accepts, Unlocked
<1>5. CASE HandsOver(c)    BY <1>5 DEF HandsOver, Probing, Unlocked
<1>6. CASE ProbeMisses(c)  BY <1>6 DEF ProbeMisses
<1>7. CASE TakesLock(c)    BY <1>7 DEF TakesLock
<1>8. CASE ReprobeMisses(c)
  <2> SUFFICES ASSUME ~excused' PROVE Exclusive'
    OBVIOUS
  <2>1. file # None => pc[file] = "over"
    BY <1>8 DEF ReprobeMisses, Alive
  <2>2. /\ pc' = [pc EXCEPT ![c] = "remove"] /\ pc[c] = "reprobe"
        /\ found' = [found EXCEPT ![c] = file]
        /\ file' = file /\ lock' = lock /\ problem' = problem
    BY <1>8 DEF ReprobeMisses
  <2>3. FileIsHolders' /\ LockIsRecovering'
    BY <2>2
  <2>4. RemovesTheDead'
    <3> SUFFICES ASSUME NEW d \in Copy, pc'[d] = "remove", found'[d] # None
                 PROVE file = found'[d] /\ pc'[found'[d]] = "over"
      BY <2>2
    <3>1. CASE d = c
      BY <2>1, <2>2, <3>1
    <3>2. CASE d # c
      BY <2>2, <3>2
    <3> QED BY <3>1, <3>2
  <2> QED BY <2>3, <2>4
<1>9. CASE Removes(c)      BY <1>9 DEF Removes
<1>10. CASE LastProbeMisses(c) BY <1>10 DEF LastProbeMisses, Unlocked
<1>11. CASE Shows(c)       BY <1>11 DEF Shows
<1>12. CASE Answers(c)     BY <1>12 DEF Answers
<1>13. CASE Stops(c)       BY <1>13 DEF Stops, Same
<1>14. CASE Freezes(c)     BY <1>14 DEF Freezes, Same
<1>15. CASE Releases(c)    BY <1>15 DEF Releases, Guarded
<1>16. CASE Unlinks(c)
  <2>1. file = c /\ pc' = [pc EXCEPT ![c] = "closing"]
    BY <1>16 DEF Unlinks
  <2>2. ASSUME NEW d \in Copy, Holds(d)' PROVE FALSE
    <3>1. Holds(d) /\ d # c
      BY <1>16, <2>1, <2>2 DEF Unlinks
    <3> QED BY <2>1, <3>1
  <2>3. ASSUME NEW d \in Copy, pc[d] = "remove", found[d] # None PROVE FALSE
    <3>1. file = found[d] /\ pc[found[d]] = "over"
      BY <2>3
    <3> QED BY <1>16, <2>1, <3>1 DEF Unlinks
  <2>4. FileIsHolders'
    BY <2>2
  <2>5. LockIsRecovering'
    BY <1>16 DEF Unlinks
  <2>6. RemovesTheDead'
    BY <1>16, <2>3 DEF Unlinks
  <2> QED BY <2>4, <2>5, <2>6
<1>17. CASE Gone(c)        BY <1>17 DEF Gone, Unlocked
<1>18. CASE Quits(c)       BY <1>18 DEF Quits, Same
<1>19. CASE CannotListen(c) BY <1>19 DEF CannotListen, Unguarded, Unlocked
<1>20. CASE NoLock(c)      BY <1>20 DEF NoLock
<1> QED
  BY <1>1, <1>2, <1>3, <1>4, <1>5, <1>6, <1>7, <1>8, <1>9, <1>10, <1>11, <1>12,
     <1>13, <1>14, <1>15, <1>16, <1>17, <1>18, <1>19, <1>20
     DEF Claims, Runs, Closes, Crashes

LEMMA IInvStep == ASSUME IInv, [Next]_vars PROVE IInv'
<1>1. TypeOK'
  BY TypeStep DEF IInv
<1>2. CASE UNCHANGED vars
  BY <1>1, <1>2 DEF IInv, vars, Guards, Exclusive, FileIsHolders, Holds,
     LockIsRecovering, RemovesTheDead
<1>3. CASE Next
  <2> PICK c \in Copy :
        \/ Launch(c) \/ Claims(c) \/ Runs(c) \/ Quits(c)
        \/ CannotListen(c) \/ NoLock(c) \/ Crashes(c)
    BY <1>3 DEF Next
  <2>1. Guards'
    BY GuardsStep DEF IInv
  <2>2. Exclusive'
    BY ExclusiveStep
  <2> QED BY <1>1, <2>1, <2>2 DEF IInv
<1> QED BY <1>2, <1>3

\* A writer that is guarded holds the file, and the file has one owner.
LEMMA IInvImplies == IInv => OneWriter
BY DEF IInv, Exclusive, FileIsHolders, Holds, Up, OneWriter, Writers

\* However many copies are launched, crash and recover each other's socket, two
\* guarded ones never write `started.json` and the list of projects at a time,
\* but for the cases that `excused` names.
THEOREM OneWriterAlways == Spec => []OneWriter
<1>1. Init => IInv
  BY InitIInv
<1>2. IInv /\ [Next]_vars => IInv'
  BY IInvStep
<1>3. IInv => OneWriter
  BY IInvImplies
<1> QED BY <1>1, <1>2, <1>3, PTL DEF Spec

=============================================================================
