--------------------------- MODULE RegistryProofs ---------------------------
(***************************************************************************)
(* Theorems about Registry, for any lists and contents, any number of      *)
(* edits, power failures and sessions: every state is well typed; the list *)
(* and its backup are each an AtomicFile; the backup is what the session   *)
(* started from; no edit made by hand is lost, the user is told the truth, *)
(* and nothing that came from the file is forgotten on the way back.       *)
(*                                                                         *)
(* That nobody ever reads a torn file rests on what is under way (a write  *)
(* replaces only what was synced, and only with something whole) and on    *)
(* what is in memory (what is backed up was whole when it was read).  What *)
(* the user is told rests on what every directory that a power failure may *)
(* leave holds, and on the leftovers of a restore being of the list that   *)
(* did not load: while they are there, nothing can be saved.               *)
(***************************************************************************)
EXTENDS Registry, TLAPS

Whole == File \ {Torn}

\* Every directory there is, or may be, holds whole contents only.
NothingTorn ==
  /\ dir \in [Name -> Whole] /\ disk \subseteq [Name -> Whole]
  /\ dir \in disk

\* And so does what is about to be written.
WritesWhole ==
  /\ call.data \in Whole /\ load.raw \in Whole
  /\ call.step # "none" => call.name \in Name
  /\ call.step = "replace" => call.synced

IInv == TypeOK /\ NothingTorn /\ WritesWhole

-----------------------------------------------------------------------------
LEMMA TornIsDamaged == /\ Torn \in File /\ Torn \notin Good /\ Torn # None
                       /\ None \in Whole /\ Good \subseteq Whole
                       /\ "projects" \notin Aside /\ "backup" \notin Aside
                       /\ "projects" # "backup" /\ None \notin Aside
BY RegistryAssumption DEF Whole, Good, Content, File

LEMMA Names == /\ "projects" \in Name /\ "backup" \in Name /\ Aside \subseteq Name
               /\ Whole \subseteq File /\ None \in File /\ Content \subseteq File
               /\ Good \subseteq Content
BY DEF Name, Whole, File, Content

LEMMA OffTyped == Off \in Load /\ [Off EXCEPT !.kind = "failed"] \in Load
BY RegistryAssumption DEF Load, Off, File

LEMMA IdleTyped == Idle \in Call
BY RegistryAssumption DEF Call, Idle, File

\* `load_projects` gives a load, and one that keeps no torn bytes.
LEMMA LoadTyped == ASSUME NEW c \in Whole
  PROVE LoadOf(c) \in Load /\ LoadOf(c).raw \in Whole
<1> USE RegistryAssumption DEF Whole, Good, Content, File, Off
<1>1. CASE c \in Good
  BY <1>1 DEF LoadOf, Load
<1>2. CASE c \in Refusing
  BY <1>2 DEF LoadOf, Load
<1>3. CASE c \notin Good /\ c \notin Refusing
  BY <1>3 DEF LoadOf, Load
<1> QED BY <1>1, <1>2, <1>3

LEMMA WritingTyped == ASSUME call \in Call,
                             NEW stage \in {"backup", "aside", "projects"},
                             NEW n \in Name, NEW c \in Whole
  PROVE /\ Writing(stage, n, c) \in Call
        /\ Writing(stage, n, c).data \in Whole /\ Writing(stage, n, c).data = c
        /\ Writing(stage, n, c).name = n
        /\ Writing(stage, n, c).step = "fill"
        /\ Writing(stage, n, c).kind = call.kind
        /\ Writing(stage, n, c).stage = stage
<1> USE Names
<1>1. c \in File
  OBVIOUS
<1>2. Writing(stage, n, c) \in Call
  BY <1>1 DEF Writing, Call
<1>3. /\ Writing(stage, n, c).data = c /\ Writing(stage, n, c).name = n
      /\ Writing(stage, n, c).step = "fill" /\ Writing(stage, n, c).stage = stage
      /\ Writing(stage, n, c).kind = call.kind
  BY DEF Writing, Call
<1> QED BY <1>2, <1>3

LEMMA WritingListTyped == ASSUME TypeOK
  PROVE /\ WritingList \in Call /\ WritingList.data \in Whole
        /\ WritingList.name = "projects" /\ WritingList.step = "fill"
        /\ WritingList.stage = "projects" /\ WritingList.kind = call.kind
<1>1. [list |-> call.list, keys |-> load.keys] \in Good
  BY DEF TypeOK, Call, Load, Good
<1>2. [list |-> call.list, keys |-> load.keys] \in Whole
  BY <1>1, TornIsDamaged
<1> QED BY <1>2, Names, WritingTyped DEF WritingList, TypeOK

LEMMA InitIInv == Init => IInv
<1> SUFFICES ASSUME Init PROVE IInv
  OBVIOUS
<1>1. dir \in [Name -> Whole] /\ dir \in [Name -> File]
  BY TornIsDamaged, Names DEF Init
<1>2. TypeOK
  <2>1. load \in Load /\ call \in Call /\ shown \in List
    BY OffTyped, IdleTyped, RegistryAssumption DEF Init
  <2>2. dir \in Directory /\ disk \subseteq Directory
    BY <1>1 DEF Init, Directory
  <2>3. edits \in 0..MaxEdits /\ cuts \in 0..MaxCuts
    BY RegistryAssumption DEF Init
  <2> QED BY <2>1, <2>2, <2>3, Names DEF Init, TypeOK
<1>3. NothingTorn
  BY <1>1 DEF Init, NothingTorn
<1>4. WritesWhole
  BY TornIsDamaged DEF Init, WritesWhole, Off, Idle
<1> QED BY <1>2, <1>3, <1>4 DEF IInv

-----------------------------------------------------------------------------
(* What a step does to the directory                                       *)

\* Nothing; a rename that is not durable yet; a durable change; a power failure.
DiskStep ==
  \/ UNCHANGED <<dir, disk>>
  \/ dir' \in [Name -> Whole] /\ disk' = disk \cup {dir'}
  \/ dir' \in [Name -> Whole] /\ disk' = {dir'}
  \/ dir' \in disk /\ disk' = {dir'}

LEMMA DiskSteps == ASSUME IInv, Next PROVE DiskStep
<1> USE TornIsDamaged, Names DEF IInv, NothingTorn, WritesWhole, DiskStep
<1>1. CASE RestoreMoves
  BY <1>1 DEF RestoreMoves, FreeAsides
<1>2. CASE RestoreFails
  <2>1. CASE PutsBack
    <3>1. call.moved \in Aside
      BY <2>1 DEF PutsBack, TypeOK, Call
    <3> QED BY <2>1, <3>1 DEF PutsBack
  <2> QED BY <1>2, <2>1 DEF RestoreFails
<1>3. CASE WriteReplaces
  <2>1. call.synced /\ call.name \in Name
    BY <1>3 DEF WriteReplaces
  <2>2. disk' = disk \cup {dir'} /\ dir' = [dir EXCEPT ![call.name] = call.data]
    BY <1>3, <2>1 DEF WriteReplaces
  <2> QED BY <2>1, <2>2
<1>4. ASSUME NEW c \in ByHand, HandEdit(c) PROVE DiskStep
  BY <1>4, RegistryAssumption DEF HandEdit, Whole
<1>5. CASE PowerFails
  BY <1>5 DEF PowerFails
<1>6. CASE Launch \/ RestoreChosen \/ Save \/ Ends
  BY <1>6 DEF Launch, RestoreChosen, Save, NothingToSave, SaveRefused, SaveBegins,
     SaveChecks, SaveFails, Ends
<1>7. CASE WriteFills \/ WriteSyncs \/ WriteNotDurable
  BY <1>7 DEF WriteFills, WriteSyncs, WriteNotDurable
<1> QED BY <1>1, <1>2, <1>3, <1>4, <1>5, <1>6, <1>7 DEF Next, Restore, Write

LEMMA NothingTornStep == ASSUME IInv, Next PROVE NothingTorn'
BY DiskSteps DEF DiskStep, IInv, NothingTorn

-----------------------------------------------------------------------------
(* What a step does to the session                                         *)

\* A session that opens on what the file holds.
LEMMA OpensTyped == ASSUME IInv, NEW l \in Load, l.raw \in Whole,
                           Opens(l, dir["projects"])
  PROVE /\ load' \in Load /\ load'.raw \in Whole /\ shown' \in List
        /\ began' \in File /\ unseen' \subseteq Content
        /\ byHand' \in BOOLEAN /\ warned' \in BOOLEAN
<1>1. dir["projects"] \in File
  BY Names DEF IInv, NothingTorn
<1>2. l.list \in List
  BY DEF Load
<1> QED BY <1>1, <1>2 DEF Opens, IInv, TypeOK

\* Whatever a step does to the call, the load and what is remembered of both, it
\* leaves them well typed, and only something whole to be written.
LEMMA SessionStep == ASSUME IInv, Next PROVE
    /\ load' \in Load /\ shown' \in List /\ call' \in Call
    /\ began' \in File /\ unseen' \subseteq Content /\ byHand' \in BOOLEAN
    /\ owed' \subseteq File /\ chosen' \in File /\ warned' \in BOOLEAN
    /\ edits' \in 0..MaxEdits /\ cuts' \in 0..MaxCuts
    /\ WritesWhole'
<1>0. /\ dir["projects"] \in Whole /\ dir["backup"] \in Whole
      /\ \A d \in disk : d["projects"] \in Whole
  BY Names DEF IInv, NothingTorn
<1>a. TypeOK /\ WritesWhole
  BY DEF IInv
<1>b. /\ Idle \in Call /\ Idle.data \in Whole /\ Idle.step = "none"
      /\ Off \in Load /\ Off.raw \in Whole
      /\ [Off EXCEPT !.kind = "failed"] \in Load
      /\ [Off EXCEPT !.kind = "failed"].raw \in Whole
      /\ Empty \in List /\ MaxEdits \in Nat /\ MaxCuts \in Nat
  BY TornIsDamaged, IdleTyped, OffTyped, RegistryAssumption DEF Idle, Off
<1> USE Names, <1>0, <1>a, <1>b DEF TypeOK, WritesWhole, ghosts
<1>1. CASE Launch
  BY <1>1, LoadTyped, OpensTyped DEF Launch
<1>2. CASE RestoreChosen
  <2> DEFINE next == [Idle EXCEPT !.kind = "restore", !.stage = "move",
                                  !.data = dir["backup"]]
  <2>1. next \in Call /\ next.data = dir["backup"] /\ next.step = "none"
    BY DEF Call, Idle
  <2>2. chosen' \in File
    BY <1>2 DEF RestoreChosen
  <2> QED BY <1>2, <2>1, <2>2 DEF RestoreChosen
<1>3. CASE RestoreMoves
  <2> DEFINE next == Writing("projects", "projects", call.data)
  <2>1. next \in Call /\ next.data \in Whole /\ next.name \in Name /\ next.step = "fill"
    BY WritingTyped
  <2>2. ASSUME NEW a \in Aside PROVE
          /\ [next EXCEPT !.moved = a] \in Call
          /\ [next EXCEPT !.moved = a].data = next.data
          /\ [next EXCEPT !.moved = a].name = next.name
          /\ [next EXCEPT !.moved = a].step = next.step
    <3> HIDE DEF next
    <3> QED BY <2>1 DEF Call
  <2>3. /\ UNCHANGED <<load, shown, ghosts, edits, cuts>>
        /\ call' = next \/ \E a \in Aside : call' = [next EXCEPT !.moved = a]
    BY <1>3 DEF RestoreMoves, FreeAsides
  <2> HIDE DEF next
  <2> QED BY <2>1, <2>2, <2>3
<1>4. CASE RestoreFails
  BY <1>4, OpensTyped DEF RestoreFails
<1>5. ASSUME NEW l \in List, NEW silent \in BOOLEAN,
             NothingToSave(l, silent) \/ SaveRefused(l, silent)
      PROVE /\ load' = load /\ shown' = l /\ call' = call
            /\ UNCHANGED <<began, unseen, byHand, owed, chosen, edits, cuts>>
            /\ warned' \in BOOLEAN
  BY <1>5 DEF NothingToSave, SaveRefused
<1>6. ASSUME NEW l \in List, NEW silent \in BOOLEAN, SaveBegins(l, silent)
      PROVE /\ UNCHANGED <<load, shown, ghosts, edits, cuts>>
            /\ call' \in Call /\ call'.data \in Whole
            /\ call'.step # "none" => call'.name \in Name
            /\ call'.step # "replace"
  <2> DEFINE saving == [Idle EXCEPT !.kind = "save", !.list = l, !.silent = silent]
  <2>1. saving \in Call /\ saving.data \in Whole /\ saving.step = "none"
    BY DEF Call, Idle
  <2>2. \/ call' = BacksUp(saving)
        \/ call' = [saving EXCEPT !.stage = "check"]
    BY <1>6 DEF SaveBegins
  <2> HIDE DEF saving
  <2>3. /\ BacksUp(saving) \in Call /\ BacksUp(saving).data = load.raw
        /\ BacksUp(saving).name = "backup" /\ BacksUp(saving).step = "fill"
    BY <2>1 DEF BacksUp, Call
  <2>4. LET next == [saving EXCEPT !.stage = "check"]
        IN next \in Call /\ next.data = saving.data /\ next.step = "none"
    BY <2>1 DEF Call
  <2> QED BY <1>6, <2>1, <2>2, <2>3, <2>4 DEF SaveBegins
<1>7. CASE SaveChecks
  <2>1. call' = WritingList \/ \E a \in Aside : call' = Writing("aside", a, dir["projects"])
    BY <1>7 DEF SaveChecks, FreeAsides
  <2> QED BY <1>7, <2>1, WritingTyped, WritingListTyped DEF SaveChecks
<1>8. CASE SaveFails
  BY <1>8 DEF SaveFails, Call
<1>9. CASE WriteFills
  <2> DEFINE next == [call EXCEPT !.step = "replace", !.synced = TRUE]
  <2>1. /\ next \in Call /\ next.data = call.data /\ next.name = call.name
        /\ next.synced /\ next.step = "replace"
    BY DEF Call
  <2>2. call.step = "fill" /\ call' = next
        /\ UNCHANGED <<load, shown, ghosts, edits, cuts>>
    BY <1>9 DEF WriteFills
  <2> HIDE DEF next
  <2> QED BY <2>1, <2>2
<1>10. CASE WriteReplaces
  <2> DEFINE next == [call EXCEPT !.step = "sync"]
  <2>1. /\ next \in Call /\ next.data = call.data /\ next.name = call.name
        /\ next.step = "sync"
    BY DEF Call
  <2>2. /\ call.step = "replace" /\ call' = next
        /\ UNCHANGED <<load, shown, began, chosen, warned, edits, cuts>>
        /\ unseen' \subseteq unseen /\ byHand' \in BOOLEAN
        /\ owed' \subseteq owed \cup {call.data}
    BY <1>10 DEF WriteReplaces
  <2> HIDE DEF next
  <2> QED BY <2>1, <2>2
<1>11. CASE WriteSyncs \/ WriteNotDurable
  <2>1. /\ WriteEnds /\ UNCHANGED <<edits, cuts>> /\ owed' \subseteq File
    BY <1>11 DEF WriteSyncs, WriteNotDurable
  <2>2. CASE BackedUp
    <3> DEFINE next == [call EXCEPT !.stage = "check", !.step = "none",
                                    !.name = None, !.data = None]
    <3>1. next \in Call /\ next.data = None /\ next.step = "none"
      BY DEF Call
    <3>2. call' = next /\ UNCHANGED <<load, shown, began, unseen, byHand, chosen, warned>>
      BY <2>2 DEF BackedUp
    <3> HIDE DEF next
    <3> QED BY <2>1, <3>1, <3>2, TornIsDamaged
  <2>3. CASE SetAside
    BY <2>1, <2>3, WritingListTyped DEF SetAside
  <2>4. CASE Saved
    <3>1. call.list \in List /\ load.keys \subseteq Key
      BY DEF Call, Load
    <3>2. [list |-> call.list, keys |-> load.keys] \in File
      BY <3>1 DEF Good, Content, File
    <3>3. LoadAfterSave(call.list) \in Load /\ LoadAfterSave(call.list).raw \in Whole
      BY <3>1, <3>2, TornIsDamaged DEF LoadAfterSave, Load
    <3> QED BY <2>1, <2>4, <3>1, <3>3 DEF Saved
  <2>5. CASE Restored
    <3>1. RestoredLoad \in Load /\ RestoredLoad.raw \in Whole
      BY LoadTyped DEF RestoredLoad
    <3>2. chosen' \in File
      BY <2>5 DEF Restored
    <3> QED BY <2>1, <2>5, <3>1, <3>2, OpensTyped DEF Restored
  <2> QED BY <2>1, <2>2, <2>3, <2>4, <2>5 DEF WriteEnds
<1>12. ASSUME NEW c \in ByHand, HandEdit(c)
       PROVE /\ UNCHANGED <<load, shown, call, began, warned, cuts>>
             /\ unseen' \subseteq Content /\ byHand' \in BOOLEAN
             /\ owed' \subseteq File /\ chosen' \in File
             /\ edits' \in 0..MaxEdits
  BY <1>12, RegistryAssumption DEF HandEdit, File
<1>13. CASE Ends
  BY <1>13 DEF Ends
<1>14. CASE PowerFails
  BY <1>14 DEF PowerFails
<1>15. CASE Save
  BY <1>5, <1>6, <1>7, <1>8, <1>15 DEF Save
<1> QED
  BY <1>1, <1>2, <1>3, <1>4, <1>9, <1>10, <1>11, <1>12, <1>13, <1>14, <1>15
     DEF Next, Restore, Write

LEMMA IInvStep == ASSUME IInv, [Next]_vars PROVE IInv'
<1>1. CASE UNCHANGED vars
  BY <1>1 DEF vars, IInv, TypeOK, NothingTorn, WritesWhole
<1>2. CASE Next
  <2>1. NothingTorn'
    BY <1>2, NothingTornStep
  <2>2. dir' \in Directory /\ disk' \subseteq Directory
    <3>1. [Name -> Whole] \subseteq Directory
      BY Names DEF Directory
    <3> QED BY <2>1, <3>1 DEF NothingTorn
  <2> QED BY <1>2, <2>1, <2>2, SessionStep DEF IInv, TypeOK
<1> QED BY <1>1, <1>2

\* Every reachable state is well typed.
THEOREM TypeCorrect == Spec => []TypeOK
<1>1. Init => IInv
  BY InitIInv
<1>2. IInv /\ [Next]_vars => IInv'
  BY IInvStep
<1>3. IInv => TypeOK
  BY DEF IInv
<1> QED BY <1>1, <1>2, <1>3, PTL DEF Spec

-----------------------------------------------------------------------------
(* The list and its backup are files that are written atomically           *)

\* What a reader of the name may find after a power failure.
May(n) == {d[n] : d \in disk}

\* A step of the directory is a step of each file in it.
LEMMA FileSteps == ASSUME IInv, DiskStep, NEW n \in Name
  PROVE \/ dir'[n] = dir[n] /\ May(n)' = May(n)
        \/ dir'[n] \in Whole /\ May(n)' = May(n) \cup {dir'[n]}
        \/ dir'[n] \in Whole /\ May(n)' = {dir'[n]}
        \/ dir'[n] \in May(n) /\ May(n)' = {dir'[n]}
<1>1. CASE UNCHANGED <<dir, disk>>
  BY <1>1 DEF May
<1>2. CASE dir' \in [Name -> Whole] /\ disk' = disk \cup {dir'}
  BY <1>2 DEF May
<1>3. CASE dir' \in [Name -> Whole] /\ disk' = {dir'}
  BY <1>3 DEF May
<1>4. CASE dir' \in disk /\ disk' = {dir'}
  BY <1>4 DEF May
<1> QED BY <1>1, <1>2, <1>3, <1>4 DEF DiskStep

LEMMA InitFiles == ASSUME Init PROVE ListFile!Init /\ BackupFile!Init
<1>1. dir["projects"] \in Whole /\ dir["backup"] \in Whole /\ disk = {dir}
  BY TornIsDamaged, Names DEF Init
<1> QED BY <1>1 DEF ListFile!Init, BackupFile!Init, Whole

LEMMA ListStep == ASSUME IInv, [Next]_vars
  PROVE ListFile!Next \/ UNCHANGED ListFile!file
<1>1. CASE UNCHANGED vars
  BY <1>1 DEF vars, ListFile!file
<1>2. CASE Next
  <2>1. \/ dir'["projects"] = dir["projects"] /\ May("projects")' = May("projects")
        \/ dir'["projects"] \in Whole
             /\ May("projects")' = May("projects") \cup {dir'["projects"]}
        \/ dir'["projects"] \in Whole /\ May("projects")' = {dir'["projects"]}
        \/ dir'["projects"] \in May("projects") /\ May("projects")' = {dir'["projects"]}
    BY <1>2, Names, DiskSteps, FileSteps
  <2> QED
    BY <2>1 DEF May, Whole, ListFile!file, ListFile!Next, ListFile!Put,
                ListFile!Change, ListFile!Lose
<1> QED BY <1>1, <1>2

LEMMA BackupStep == ASSUME IInv, [Next]_vars
  PROVE BackupFile!Next \/ UNCHANGED BackupFile!file
<1>1. CASE UNCHANGED vars
  BY <1>1 DEF vars, BackupFile!file
<1>2. CASE Next
  <2>1. \/ dir'["backup"] = dir["backup"] /\ May("backup")' = May("backup")
        \/ dir'["backup"] \in Whole
             /\ May("backup")' = May("backup") \cup {dir'["backup"]}
        \/ dir'["backup"] \in Whole /\ May("backup")' = {dir'["backup"]}
        \/ dir'["backup"] \in May("backup") /\ May("backup")' = {dir'["backup"]}
    BY <1>2, Names, DiskSteps, FileSteps
  <2> QED
    BY <2>1 DEF May, Whole, BackupFile!file, BackupFile!Next, BackupFile!Put,
                BackupFile!Change, BackupFile!Lose
<1> QED BY <1>1, <1>2

\* The refinement: whatever is written, edited, killed or cut off, a reader of
\* the list or of its backup finds whole contents only, and none older than the
\* last that were made durable (`write_atomically`).
THEOREM WritesAtomically == Spec => ImplementsAtomicFile
<1>1. Init => IInv
  BY InitIInv
<1>2. IInv /\ [Next]_vars => IInv'
  BY IInvStep
<1>3. Init => ListFile!Init /\ BackupFile!Init
  BY InitFiles
<1>4. IInv /\ [Next]_vars => [ListFile!Next]_(ListFile!file)
  BY ListStep
<1>5. IInv /\ [Next]_vars => [BackupFile!Next]_(BackupFile!file)
  BY BackupStep
<1>6. Spec => ListFile!Spec
  BY <1>1, <1>2, <1>3, <1>4, PTL DEF Spec, ListFile!Spec
<1>7. Spec => BackupFile!Spec
  BY <1>1, <1>2, <1>3, <1>5, PTL DEF Spec, BackupFile!Spec
<1> QED BY <1>6, <1>7 DEF ImplementsAtomicFile

-----------------------------------------------------------------------------
(* The backup is what the session started from                             *)

\* The first save of a session backs up what was read before anything else, and
\* nothing but that writes the backup.
BackedUpFirst ==
  /\ load.kind = "ok" => \/ load = LoadOf(began) /\ load.raw = began
                         \/ load.raw = None /\ (began # None => dir["backup"] = began)
  /\ load.kind = "missing" => began = None /\ load.raw = None
  /\ call.kind = "save" =>
       /\ load.kind \in {"ok", "missing"}
       /\ call.stage \in {"backup", "check", "aside", "projects"}
       /\ call.stage # "backup" /\ began # None => dir["backup"] = began
  /\ call.kind = "restore" => call.stage \in {"move", "projects"}
  /\ call.kind = "none" => call.stage = "none" /\ call.step = "none"
  /\ call.stage = "backup" =>
       /\ call.name = "backup" /\ call.data = began
       /\ call.step = "sync" => dir["backup"] = began
  /\ call.stage \in {"check", "move"} => call.step = "none"
  /\ call.stage = "aside" => call.name \in Aside
  /\ call.stage = "projects" => call.name = "projects"

LEMMA InitBackedUp == Init => BackedUpFirst
BY DEF Init, BackedUpFirst, Off, Idle

\* A load that was kept has the bytes it was made of.
LEMMA LoadOfRaw == ASSUME NEW c \in Whole
  PROVE /\ LoadOf(c).kind = "ok" => LoadOf(c).raw = c /\ c # None
        /\ LoadOf(c).kind = "missing" => c = None /\ LoadOf(c).raw = None
<1> USE RegistryAssumption DEF Content, Good, File, Whole
<1>1. CASE c \in Good
  BY <1>1 DEF LoadOf
<1>2. CASE c \in Refusing
  BY <1>2 DEF LoadOf, Off
<1>3. CASE c \notin Good /\ c \notin Refusing
  BY <1>3 DEF LoadOf, Off
<1> QED BY <1>1, <1>2, <1>3

LEMMA BackedUpStep == ASSUME IInv, BackedUpFirst, Next PROVE BackedUpFirst'
<1>0. /\ dir["projects"] \in Whole /\ dir \in [Name -> Whole]
      /\ call \in Call /\ load \in Load
  BY Names DEF IInv, NothingTorn, TypeOK
<1> USE <1>0, Names, TornIsDamaged DEF BackedUpFirst, ghosts
<1>1. CASE Launch
  BY <1>1, LoadOfRaw DEF Launch, Opens
<1>2. CASE RestoreChosen
  BY <1>2 DEF RestoreChosen, Idle
<1>3. CASE RestoreMoves
  <2>1. /\ call'.kind = "restore" /\ call'.stage = "projects"
        /\ call'.name = "projects" /\ dir'["backup"] = dir["backup"]
        /\ load' = load /\ began' = began
    <3> DEFINE next == Writing("projects", "projects", call.data)
    <3>1. /\ next \in Call /\ next.name = "projects" /\ next.stage = "projects"
          /\ next.kind = call.kind
      BY WritingTyped DEF IInv, WritesWhole
    <3>2. /\ call.kind = "restore" /\ UNCHANGED <<load, ghosts>>
          /\ \/ call' = next /\ dir' = dir
             \/ \E a \in Aside :
                  /\ call' = [next EXCEPT !.moved = a]
                  /\ dir' = [dir EXCEPT !["projects"] = None, ![a] = dir["projects"]]
      BY <1>3 DEF RestoreMoves, FreeAsides
    <3> HIDE DEF next
    <3> QED BY <3>1, <3>2 DEF Call
  <2> QED BY <2>1
<1>4. CASE RestoreFails
  BY <1>4 DEF RestoreFails, Opens, Off, Idle
<1>5. ASSUME NEW l \in List, NEW silent \in BOOLEAN,
             NothingToSave(l, silent) \/ SaveRefused(l, silent) PROVE BackedUpFirst'
  BY <1>5 DEF NothingToSave, SaveRefused
<1>6. ASSUME NEW l \in List, NEW silent \in BOOLEAN, SaveBegins(l, silent) PROVE BackedUpFirst'
  <2>1. /\ load.kind \in {"missing", "ok"}
        /\ UNCHANGED <<dir, load, began>>
    BY <1>6 DEF SaveBegins, MayWrite, ShouldWrite
  <2>2. CASE load.raw # None
    <3>1. /\ call'.kind = "save" /\ call'.stage = "backup" /\ call'.step = "fill"
          /\ call'.name = "backup" /\ call'.data = load.raw
      BY <1>6, <2>2 DEF SaveBegins, BacksUp, Idle
    <3> QED BY <2>1, <2>2, <3>1
  <2>3. CASE load.raw = None
    <3>1. call'.kind = "save" /\ call'.stage = "check" /\ call'.step = "none"
      BY <1>6, <2>3 DEF SaveBegins, Idle
    <3>2. began # None => dir["backup"] = began
      BY <2>1, <2>3
    <3> QED BY <2>1, <3>1, <3>2
  <2> QED BY <2>2, <2>3
<1>7. CASE SaveChecks
  <2>1. /\ call.kind = "save" /\ call.stage = "check"
        /\ UNCHANGED <<dir, load, began>>
        /\ call'.kind = "save" /\ call'.step = "fill"
        /\ \/ call'.stage = "aside" /\ call'.name \in Aside
           \/ call'.stage = "projects" /\ call'.name = "projects"
    <3>1. /\ UNCHANGED <<dir, load, began>> /\ call.kind = "save" /\ call.stage = "check"
          /\ \/ call' = WritingList
             \/ \E a \in Aside : call' = Writing("aside", a, dir["projects"])
      BY <1>7 DEF SaveChecks, FreeAsides
    <3> QED BY <3>1, WritingTyped, WritingListTyped DEF IInv
  <2> QED BY <2>1
<1>8. CASE SaveFails
  BY <1>8 DEF SaveFails, Idle
<1>9. CASE WriteFills
  <2>1. /\ UNCHANGED <<dir, load, began>> /\ call'.step = "replace"
        /\ call'.kind = call.kind /\ call'.stage = call.stage
        /\ call'.name = call.name /\ call'.data = call.data /\ call.step = "fill"
    BY <1>9 DEF WriteFills, Call
  <2> QED BY <2>1
<1>10. CASE WriteReplaces
  <2>1. /\ UNCHANGED <<load, began>> /\ call'.step = "sync" /\ call.step = "replace"
        /\ call'.kind = call.kind /\ call'.stage = call.stage
        /\ call'.name = call.name /\ call'.data = call.data
        /\ dir' = [dir EXCEPT ![call.name] = call.data]
    BY <1>10 DEF WriteReplaces, Call
  <2>2. CASE call.stage = "backup"
    <3>1. dir'["backup"] = began /\ call.kind = "save"
      BY <2>1, <2>2 DEF Call
    <3> QED BY <2>1, <2>2, <3>1
  <2>3. CASE call.stage # "backup"
    <3>1. call.name # "backup"
      BY <2>1, <2>3 DEF Call
    <3>2. dir'["backup"] = dir["backup"]
      BY <2>1, <3>1
    <3> QED BY <2>1, <2>3, <3>2
  <2> QED BY <2>2, <2>3
<1>11. CASE WriteSyncs \/ WriteNotDurable
  <2>1. WriteEnds /\ dir' = dir /\ call.step = "sync"
    BY <1>11 DEF WriteSyncs, WriteNotDurable
  <2>2. CASE BackedUp
    <3>1. /\ UNCHANGED <<load, began>> /\ call'.kind = call.kind
          /\ call'.stage = "check" /\ call'.step = "none"
      BY <2>2 DEF BackedUp, Call
    <3>2. dir["backup"] = began /\ call.kind = "save"
      BY <2>1, <2>2 DEF BackedUp, Call
    <3> QED BY <2>1, <3>1, <3>2
  <2>3. CASE SetAside
    <3>1. /\ UNCHANGED <<load, began>> /\ call'.kind = call.kind
          /\ call'.stage = "projects" /\ call'.name = "projects" /\ call'.step = "fill"
      BY <2>3 DEF SetAside, WritingList, Writing, Call
    <3>2. call.kind = "save" /\ (began # None => dir["backup"] = began)
      BY <2>3 DEF SetAside, Call
    <3> QED BY <2>1, <3>1, <3>2
  <2>4. CASE Saved
    BY <2>1, <2>4 DEF Saved, LoadAfterSave, Idle
  <2>5. CASE Restored
    <3>1. /\ RestoredLoad.kind \in {"ok", "failed"}
          /\ RestoredLoad.kind = "ok" =>
               RestoredLoad = LoadOf(dir["projects"]) /\ RestoredLoad.raw = dir["projects"]
      BY LoadOfRaw DEF RestoredLoad, Off
    <3> QED BY <2>1, <2>5, <3>1 DEF Restored, Opens, Idle
  <2> QED BY <2>1, <2>2, <2>3, <2>4, <2>5 DEF WriteEnds
<1>12. ASSUME NEW c \in ByHand, HandEdit(c) PROVE BackedUpFirst'
  BY <1>12 DEF HandEdit
<1>13. CASE Ends
  BY <1>13 DEF Ends, Off, Idle
<1>14. CASE PowerFails
  BY <1>14 DEF PowerFails, Off, Idle
<1>15. CASE Save
  BY <1>5, <1>6, <1>7, <1>8, <1>15 DEF Save
<1> QED
  BY <1>1, <1>2, <1>3, <1>4, <1>9, <1>10, <1>11, <1>12, <1>13, <1>14, <1>15
     DEF Next, Restore, Write

\* Once a session has saved, the backup is what the session started from, to
\* its end: however often it saves, and whatever fails, is edited or restored.
THEOREM BackupIsStartAlways == Spec => []BackupIsStart
<1>1. Init => IInv /\ BackedUpFirst
  BY InitIInv, InitBackedUp
<1>2. IInv /\ BackedUpFirst /\ [Next]_vars => (IInv /\ BackedUpFirst)'
  <2>1. ASSUME BackedUpFirst, UNCHANGED vars PROVE BackedUpFirst'
    BY <2>1 DEF BackedUpFirst, vars
  <2> QED BY <2>1, IInvStep, BackedUpStep
<1>3. BackedUpFirst => BackupIsStart
  BY DEF BackedUpFirst, BackupIsStart
<1> QED BY <1>1, <1>2, <1>3, PTL DEF Spec

-----------------------------------------------------------------------------
(* Edits made by hand                                                      *)

\* Each edit that no session has loaded is in every directory there may be.
OnDisk ==
  \A d \in disk : \A e \in unseen : \E n \in Name \ {"backup"} : d[n] = e

Before(stage) == call.stage = stage /\ call.step \in {"fill", "replace"}
After(stage) == call.stage = stage /\ call.step = "sync"

\* What a load that licenses a save describes is not such an edit, and is what
\* the file holds unless the file was edited since.
Licensed ==
  /\ load.kind = "missing" => ~load.rows
  /\ load.kind \in {"ok", "missing"} /\ ~load.rows => load.onDisk \notin unseen
  /\ load.kind \in {"ok", "missing"} /\ ~byHand =>
       dir["projects"] = IF call.kind = "save" /\ After("projects")
                           THEN call.data ELSE load.onDisk

\* Nothing is replaced that has no copy beside it.
CopiedFirst ==
  /\ call.kind = "save" => ~load.rows
  /\ call.kind = "restore" => load.kind = "off"
  /\ call.stage = "aside" => byHand /\ call.data = dir["projects"]
  /\ Before("aside") => dir[call.name] = None
  /\ After("aside") => dir[call.name] = dir["projects"]
  /\ call.kind = "save" /\ Before("projects") /\ dir["projects"] \in unseen =>
       \E a \in Aside : dir[a] = dir["projects"]
  /\ call.kind = "save" /\ call.stage = "projects" =>
       call.data = [list |-> call.list, keys |-> load.keys]
  /\ call.kind = "save" /\ After("projects") => call.data \notin unseen
  /\ call.kind = "restore" /\ Before("projects") => dir["projects"] = None

Copies == OnDisk /\ Licensed /\ CopiedFirst
EInv == IInv /\ BackedUpFirst /\ Copies

USE DEF Before, After

LEMMA InitCopies == Init => Copies
BY DEF Init, Copies, OnDisk, Licensed, CopiedFirst, Off, Idle

\* What `load_projects` says of what it read.
LEMMA LoadOfOnDisk == ASSUME NEW c \in Whole
  PROVE /\ LoadOf(c).kind \in {"ok", "missing"} => LoadOf(c).onDisk = c
        /\ LoadOf(c).kind = "missing" => ~LoadOf(c).rows
        /\ LoadOf(c).kind = "ok" /\ ~LoadOf(c).rows => c \in Good
<1> USE RegistryAssumption DEF Content, Good, File, Whole
<1>1. CASE c \in Good
  BY <1>1 DEF LoadOf
<1>2. CASE c \in Refusing
  BY <1>2 DEF LoadOf, Off
<1>3. CASE c \notin Good /\ c \notin Refusing
  BY <1>3 DEF LoadOf, Off
<1> QED BY <1>1, <1>2, <1>3

\* A session that opens knows what it read, and nothing else is forgotten.
LEMMA OpensCopies == ASSUME EInv, NEW l,
    Opens(l, dir'["projects"]), dir'["projects"] \in Whole,
    call'.kind = "none", call'.stage = "none",
    \/ l = LoadOf(dir'["projects"])
    \/ l.kind \notin {"ok", "missing"},
    \A d \in disk' : d \in disk \/ \A e \in unseen : \E n \in Name \ {"backup"} : d[n] = e
  PROVE Copies'
<1>1. unseen' \subseteq unseen /\ load' = l /\ byHand' = FALSE
  BY DEF Opens
<1>2. OnDisk'
  BY <1>1 DEF EInv, Copies, OnDisk
<1>3. CopiedFirst'
  BY DEF CopiedFirst
<1>4. None \notin unseen'
  BY <1>1, RegistryAssumption DEF EInv, IInv, TypeOK
<1>5. Licensed'
  <2>1. CASE l.kind \notin {"ok", "missing"}
    BY <1>1, <2>1 DEF Licensed
  <2>2. CASE l = LoadOf(dir'["projects"])
    <3> PICK c \in Whole : c = dir'["projects"]
      OBVIOUS
    <3>1. c \in Good => c \notin unseen'
      BY DEF Opens
    <3>2. l = LoadOf(c)
      BY <2>2
    <3>3. /\ l.kind = "missing" => ~l.rows /\ c = None
          /\ l.kind = "ok" /\ ~l.rows => c \in Good
          /\ l.kind \in {"ok", "missing"} => l.onDisk = c
      BY <3>2, LoadOfOnDisk, LoadOfRaw
    <3> QED BY <1>1, <1>4, <3>1, <3>3 DEF Licensed
  <2> QED BY <2>1, <2>2
<1> QED BY <1>2, <1>3, <1>5 DEF Copies

\* What a restore does to the files before it writes.
LEMMA RestoreCopies == ASSUME EInv, RestoreMoves PROVE Copies'
<1>0. /\ dir \in [Name -> Whole] /\ dir \in disk /\ call.data \in Whole
      /\ call \in Call /\ load \in Load
  BY DEF EInv, IInv, NothingTorn, WritesWhole, TypeOK
<1> DEFINE next == Writing("projects", "projects", call.data)
<1>1. /\ next \in Call /\ next.stage = "projects" /\ next.step = "fill"
      /\ next.kind = call.kind
  BY <1>0, Names, WritingTyped
<1>2. /\ call.kind = "restore" /\ UNCHANGED <<load, unseen, byHand>>
      /\ \/ call' = next /\ UNCHANGED <<dir, disk>> /\ dir["projects"] = None
         \/ \E a \in Aside :
              /\ dir[a] = None
              /\ call' = [next EXCEPT !.moved = a]
              /\ dir' = [dir EXCEPT !["projects"] = None, ![a] = dir["projects"]]
              /\ disk' = disk \cup {dir'}
  BY DEF RestoreMoves, FreeAsides, ghosts
<1> HIDE DEF next
<1>3. /\ call'.kind = "restore" /\ call'.stage = "projects" /\ call'.step = "fill"
      /\ dir'["projects"] = None /\ load.kind = "off"
  BY <1>0, <1>1, <1>2, TornIsDamaged, Names DEF Call, EInv, Copies, CopiedFirst
<1>4. None \notin unseen
  BY RegistryAssumption DEF EInv, IInv, TypeOK
<1>5. OnDisk'
  <2>1. CASE UNCHANGED <<dir, disk>>
    BY <1>2, <2>1 DEF EInv, Copies, OnDisk
  <2>2. CASE \E a \in Aside :
              /\ dir[a] = None
              /\ dir' = [dir EXCEPT !["projects"] = None, ![a] = dir["projects"]]
              /\ disk' = disk \cup {dir'}
    <3> PICK a \in Aside :
              /\ dir[a] = None
              /\ dir' = [dir EXCEPT !["projects"] = None, ![a] = dir["projects"]]
              /\ disk' = disk \cup {dir'}
      BY <2>2
    <3>1. ASSUME NEW e \in unseen PROVE \E n \in Name \ {"backup"} : dir'[n] = e
      <4> PICK n \in Name \ {"backup"} : dir[n] = e
        BY <1>0 DEF EInv, Copies, OnDisk
      <4>1. n # a /\ a \in Name \ {"backup"}
        BY <1>4, <3>1, TornIsDamaged, Names
      <4>2. CASE n = "projects"
        BY <1>0, <4>1, <4>2
      <4>3. CASE n # "projects"
        BY <1>0, <4>1, <4>3
      <4> QED BY <4>2, <4>3
    <3> QED BY <1>2, <3>1 DEF EInv, Copies, OnDisk
  <2> QED BY <1>2, <2>1, <2>2
<1>6. Licensed'
  BY <1>2, <1>3 DEF EInv, Copies, Licensed
<1>7. CopiedFirst'
  BY <1>2, <1>3 DEF CopiedFirst
<1> QED BY <1>5, <1>6, <1>7 DEF Copies

\* A restore that fails puts back what it moved, when it can.
LEMMA RestoreFailsCopies == ASSUME EInv, RestoreFails PROVE Copies'
<1>0. /\ dir \in [Name -> Whole] /\ dir \in disk /\ call \in Call
      /\ None \notin unseen
  BY RegistryAssumption DEF EInv, IInv, NothingTorn, TypeOK
<1>1. /\ call' = Idle /\ Opens([Off EXCEPT !.kind = "failed"], dir["projects"])
      /\ PutsBack \/ UNCHANGED <<dir, disk>>
  BY DEF RestoreFails
<1>2. /\ unseen' \subseteq unseen /\ load' = [Off EXCEPT !.kind = "failed"]
  BY <1>1 DEF Opens
<1>3. load'.kind = "failed" /\ call'.kind = "none" /\ call'.stage = "none"
  BY <1>1, <1>2 DEF Off, Idle
<1>4. Licensed' /\ CopiedFirst'
  BY <1>3 DEF Licensed, CopiedFirst
<1>5. CASE PutsBack
  <2>1. call.moved \in Aside
    BY <1>0, <1>5 DEF PutsBack, Call
  <2> PICK a \in Aside : a = call.moved
    BY <2>1
  <2>2. /\ dir["projects"] = None /\ disk' = disk \cup {dir'}
        /\ dir' = [dir EXCEPT !["projects"] = dir[a], ![a] = None]
    BY <1>5 DEF PutsBack
  <2>3. ASSUME NEW e \in unseen PROVE \E n \in Name \ {"backup"} : dir'[n] = e
    <3> PICK n \in Name \ {"backup"} : dir[n] = e
      BY <1>0 DEF EInv, Copies, OnDisk
    <3>1. n # "projects" /\ a # "projects"
      BY <1>0, <2>2, <2>3, TornIsDamaged
    <3>2. CASE n = a
      <4>1. dir'["projects"] = e
        BY <1>0, <2>2, <3>1, <3>2, Names
      <4> QED BY <4>1, Names, TornIsDamaged
    <3>3. CASE n # a
      BY <1>0, <2>2, <3>1, <3>3
    <3> QED BY <3>2, <3>3
  <2>4. OnDisk'
    <3>1. OnDisk
      BY DEF EInv, Copies
    <3> QED BY ONLY <1>2, <2>2, <2>3, <3>1 DEF OnDisk
  <2> QED BY <1>4, <2>4 DEF Copies
<1>6. CASE UNCHANGED <<dir, disk>>
  BY <1>2, <1>4, <1>6 DEF EInv, Copies, OnDisk
<1> QED BY <1>1, <1>5, <1>6

\* A name is replaced when what it held is elsewhere.
LEMMA ReplaceCopies == ASSUME EInv, WriteReplaces PROVE Copies'
<1>0. /\ dir \in [Name -> Whole] /\ dir \in disk /\ call \in Call /\ load \in Load
      /\ None \notin unseen
  BY RegistryAssumption DEF EInv, IInv, NothingTorn, TypeOK
<1>1. /\ call.step = "replace" /\ call.synced /\ call.name \in Name
      /\ call' = [call EXCEPT !.step = "sync"]
      /\ dir' = [dir EXCEPT ![call.name] = call.data]
      /\ disk' = disk \cup {dir'} /\ load' = load
  BY DEF WriteReplaces, EInv, IInv, WritesWhole
<1>2. /\ call'.kind = call.kind /\ call'.stage = call.stage /\ call'.step = "sync"
      /\ call'.name = call.name /\ call'.data = call.data /\ call'.list = call.list
  BY <1>0, <1>1 DEF Call
<1>3. /\ call.stage \in {"backup", "aside", "projects"}
      /\ call.stage = "backup" => call.name = "backup" /\ call.kind = "save"
      /\ call.stage = "aside" => call.name \in Aside /\ call.kind = "save"
      /\ call.stage = "projects" => call.name = "projects" /\ call.kind # "none"
  BY <1>0, <1>1 DEF EInv, BackedUpFirst, Call
<1>a. Licensed /\ CopiedFirst
  BY DEF EInv, Copies
<1>4. IF call.name = "projects"
        THEN byHand' = FALSE /\ unseen' = unseen \ {call.data}
        ELSE UNCHANGED <<unseen, byHand>>
  BY DEF WriteReplaces
<1>5. ASSUME NEW e \in unseen' PROVE \E n \in Name \ {"backup"} : dir'[n] = e
  <2>1. e \in unseen
    BY <1>4
  <2> PICK n \in Name \ {"backup"} : dir[n] = e
    BY <1>0, <2>1 DEF EInv, Copies, OnDisk
  <2>2. CASE n # call.name
    BY <1>0, <1>1, <2>2
  <2>3. CASE n = call.name
    <3>1. call.stage \in {"aside", "projects"}
      BY <1>3, <2>3
    <3>2. CASE call.stage = "aside"
      BY <1>0, <1>1, <1>a, <2>1, <2>3, <3>2 DEF CopiedFirst
    <3>3. CASE call.stage = "projects"
      <4>1. call.kind = "save"
        BY <1>0, <1>1, <1>3, <1>a, <2>1, <2>3, <3>3 DEF CopiedFirst, Call
      <4> PICK a \in Aside : dir[a] = e
        BY <1>1, <1>3, <1>a, <2>1, <2>3, <3>3, <4>1 DEF CopiedFirst
      <4>2. a # call.name /\ a \in Name \ {"backup"}
        BY <1>3, <3>3, TornIsDamaged, Names
      <4> QED BY <1>0, <1>1, <4>2
    <3> QED BY <3>1, <3>2, <3>3
  <2> QED BY <2>2, <2>3
<1>6. unseen' \subseteq unseen
  BY <1>4
<1>7. OnDisk'
  BY <1>1, <1>5, <1>6 DEF EInv, Copies, OnDisk
<1>8. CASE call.stage = "backup"
  <2>1. dir'["projects"] = dir["projects"] /\ UNCHANGED <<unseen, byHand, load>>
    BY <1>0, <1>1, <1>3, <1>4, <1>8, TornIsDamaged, Names
  <2>2. Licensed' /\ CopiedFirst'
    BY <1>1, <1>2, <1>8, <1>a, <2>1 DEF Licensed, CopiedFirst
  <2> QED BY <1>7, <2>2 DEF Copies
<1>9. CASE call.stage = "aside"
  <2>1. /\ dir'["projects"] = dir["projects"] /\ UNCHANGED <<unseen, byHand, load>>
        /\ dir'[call.name] = dir["projects"]
    BY <1>0, <1>1, <1>3, <1>4, <1>9, <1>a, TornIsDamaged, Names DEF CopiedFirst
  <2>2. Licensed'
    BY <1>1, <1>2, <1>9, <1>a, <2>1 DEF Licensed
  <2>3. CopiedFirst'
    BY <1>1, <1>2, <1>3, <1>9, <1>a, <2>1 DEF CopiedFirst
  <2> QED BY <1>7, <2>2, <2>3 DEF Copies
<1>10. CASE call.stage = "projects"
  <2>1. /\ dir'["projects"] = call.data /\ byHand' = FALSE
        /\ unseen' = unseen \ {call.data}
    BY <1>0, <1>1, <1>3, <1>4, <1>10, Names
  <2>2. Licensed'
    <3>1. CASE call.kind = "save"
      BY <1>1, <1>2, <1>10, <1>a, <2>1, <3>1 DEF Licensed
    <3>2. CASE call.kind = "restore"
      <4>1. load'.kind = "off"
        BY <1>1, <1>a, <3>2 DEF CopiedFirst
      <4> QED BY <4>1 DEF Licensed
    <3> QED BY <1>0, <1>3, <1>10, <3>1, <3>2 DEF Call
  <2>3. CopiedFirst'
    BY <1>1, <1>2, <1>10, <1>a, <2>1 DEF CopiedFirst
  <2> QED BY <1>7, <2>2, <2>3 DEF Copies
<1> QED BY <1>3, <1>8, <1>9, <1>10

\* A write that is done: the call goes on, or the session has a new load.
LEMMA EndsCopies == ASSUME EInv, WriteSyncs \/ WriteNotDurable PROVE Copies'
<1>0. /\ dir \in [Name -> Whole] /\ dir \in disk /\ call \in Call /\ load \in Load
  BY DEF EInv, IInv, NothingTorn, TypeOK
<1>a. OnDisk /\ Licensed /\ CopiedFirst
  BY DEF EInv, Copies
<1>1. /\ call.step = "sync" /\ WriteEnds /\ dir' = dir
      /\ disk' = disk \/ disk' = {dir}
  BY DEF WriteSyncs, WriteNotDurable
<1>2. unseen' \subseteq unseen => OnDisk'
  BY <1>0, <1>1, <1>a DEF OnDisk
<1>3. CASE BackedUp
  <2>1. /\ UNCHANGED <<load, unseen, byHand>> /\ call.stage = "backup"
        /\ call'.kind = call.kind /\ call'.stage = "check" /\ call'.step = "none"
    BY <1>0, <1>3 DEF BackedUp, Call
  <2>2. Licensed' /\ CopiedFirst'
    BY <1>1, <1>a, <2>1 DEF Licensed, CopiedFirst
  <2> QED BY <1>2, <2>1, <2>2 DEF Copies
<1>4. CASE SetAside
  <2>1. /\ UNCHANGED <<load, unseen, byHand>> /\ call.stage = "aside"
        /\ call'.kind = "save" /\ call.kind = "save" /\ call'.stage = "projects"
        /\ call'.step = "fill" /\ call.name \in Aside
        /\ call'.data = [list |-> call.list, keys |-> load.keys]
        /\ call'.list = call.list
    BY <1>0, <1>4, WritingListTyped DEF SetAside, EInv, IInv, BackedUpFirst,
       WritingList, Writing, Call
  <2>2. dir[call.name] = dir["projects"]
    BY <1>1, <1>a, <2>1 DEF CopiedFirst
  <2>3. Licensed'
    BY <1>1, <1>a, <2>1 DEF Licensed
  <2>4. CopiedFirst'
    BY <1>1, <1>a, <2>1, <2>2 DEF CopiedFirst
  <2> QED BY <1>2, <2>1, <2>3, <2>4 DEF Copies
<1>5. CASE Saved
  <2>1. /\ UNCHANGED <<unseen, byHand>> /\ call' = Idle
        /\ call.kind = "save" /\ call.stage = "projects"
        /\ load' = LoadAfterSave(call.list)
    BY <1>5 DEF Saved
  <2>2. /\ load'.kind = "ok" /\ ~load'.rows /\ load'.onDisk = call.data
        /\ call'.kind = "none" /\ call'.stage = "none"
    BY <1>a, <2>1 DEF LoadAfterSave, CopiedFirst, Idle
  <2>3. load.kind \in {"ok", "missing"}
    BY <2>1 DEF EInv, BackedUpFirst
  <2>4. Licensed'
    BY <1>1, <1>a, <2>1, <2>2, <2>3 DEF Licensed, CopiedFirst
  <2>5. CopiedFirst'
    BY <2>2 DEF CopiedFirst
  <2> QED BY <1>2, <2>1, <2>4, <2>5 DEF Copies
<1>6. CASE Restored
  <2>1. Opens(RestoredLoad, dir'["projects"]) /\ call' = Idle
    BY <1>1, <1>6 DEF Restored
  <2>2. \/ RestoredLoad = LoadOf(dir'["projects"])
        \/ RestoredLoad.kind \notin {"ok", "missing"}
    BY <1>1 DEF RestoredLoad, Off
  <2>3. dir'["projects"] \in Whole /\ \A d \in disk' : d \in disk
    BY <1>0, <1>1, Names
  <2>4. call'.kind = "none" /\ call'.stage = "none"
    BY <2>1 DEF Idle
  <2> QED BY <2>1, <2>2, <2>3, <2>4, OpensCopies
<1> QED BY <1>1, <1>3, <1>4, <1>5, <1>6 DEF WriteEnds

\* An edit is new, and what it replaces is elsewhere or was replaced unseen.
LEMMA EditCopies == ASSUME EInv, Hazard = {}, NEW c \in File \ {Torn}, HandEdit(c)
  PROVE Copies'
<1>0. /\ dir \in [Name -> Whole] /\ dir \in disk /\ call \in Call /\ load \in Load
  BY DEF EInv, IInv, NothingTorn, TypeOK
<1>a. OnDisk /\ Licensed /\ CopiedFirst
  BY DEF EInv, Copies
<1>1. /\ ~Exposed /\ byHand' = TRUE
      /\ dir' = [dir EXCEPT !["projects"] = c] /\ disk' = {dir'}
      /\ unseen' = (unseen \ {dir["projects"]}) \cup ({c} \ {None, load.onDisk, call.data})
      /\ UNCHANGED <<load, call>>
  BY DEF HandEdit
<1>2. ASSUME NEW e \in unseen' PROVE \E n \in Name \ {"backup"} : dir'[n] = e
  <2>1. CASE e = c
    BY <1>0, <1>1, <2>1, Names, TornIsDamaged
  <2>2. CASE e # c
    <3>1. e \in unseen /\ e # dir["projects"]
      BY <1>1, <1>2, <2>2
    <3> PICK n \in Name \ {"backup"} : dir[n] = e
      BY <1>0, <1>a, <3>1 DEF OnDisk
    <3> QED BY <1>0, <1>1, <3>1
  <2> QED BY <2>1, <2>2
<1>3. OnDisk'
  BY <1>1, <1>2 DEF OnDisk
<1>4. Licensed'
  BY <1>1, <1>a DEF Licensed
<1>5. call.stage # "aside" /\ ~(call.stage = "projects" /\ call.step # "sync")
  <2>1. call.stage = "aside" => call.kind = "save"
    BY <1>0 DEF EInv, BackedUpFirst, Call
  <2> QED BY <1>1, <2>1 DEF Exposed
<1>6. CopiedFirst'
  BY <1>1, <1>5, <1>a DEF CopiedFirst
<1> QED BY <1>3, <1>4, <1>6 DEF Copies

LEMMA CopiesStep == ASSUME EInv, Hazard = {}, Next PROVE Copies'
<1>0. /\ dir \in [Name -> Whole] /\ dir \in disk /\ disk \subseteq [Name -> Whole]
      /\ call \in Call /\ load \in Load /\ None \notin unseen
  BY RegistryAssumption DEF EInv, IInv, NothingTorn, TypeOK
<1>a. OnDisk /\ Licensed /\ CopiedFirst /\ BackedUpFirst
  BY DEF EInv, Copies
<1>1. CASE Launch
  <2>1. /\ UNCHANGED <<dir, disk, call>> /\ call.kind = "none"
        /\ Opens(LoadOf(dir["projects"]), dir["projects"])
    BY <1>1 DEF Launch
  <2>2. call'.kind = "none" /\ call'.stage = "none"
    BY <1>a, <2>1 DEF BackedUpFirst
  <2>3. dir'["projects"] = dir["projects"] /\ dir["projects"] \in Whole
    BY <1>0, <2>1, Names
  <2>4. Opens(LoadOf(dir'["projects"]), dir'["projects"])
    BY <2>1, <2>3
  <2> QED BY <2>1, <2>2, <2>3, <2>4, OpensCopies
<1>2. CASE RestoreChosen
  <2>1. /\ call'.kind = "restore" /\ call'.stage = "move" /\ load.kind = "off"
        /\ UNCHANGED <<dir, disk, load, unseen, byHand>>
    BY <1>2 DEF RestoreChosen, Idle
  <2> QED BY <1>a, <2>1 DEF Copies, OnDisk, Licensed, CopiedFirst
<1>3. CASE RestoreMoves
  BY <1>3, RestoreCopies
<1>4. CASE RestoreFails
  BY <1>4, RestoreFailsCopies
<1>5. ASSUME NEW l \in List, NEW silent \in BOOLEAN,
             NothingToSave(l, silent) \/ SaveRefused(l, silent) PROVE Copies'
  BY <1>5, <1>a DEF NothingToSave, SaveRefused, Copies, OnDisk, Licensed, CopiedFirst
<1>6. ASSUME NEW l \in List, NEW silent \in BOOLEAN, SaveBegins(l, silent) PROVE Copies'
  <2>1. /\ call.kind = "none" /\ ~load.rows
        /\ call'.kind = "save" /\ call'.stage \in {"backup", "check"}
        /\ UNCHANGED <<dir, disk, load, unseen, byHand>>
    BY <1>6, <1>a DEF SaveBegins, MayWrite, BacksUp, Idle, ghosts, Licensed
  <2> QED BY <1>a, <2>1 DEF Copies, OnDisk, Licensed, CopiedFirst
<1>7. CASE SaveChecks
  <2>1. /\ call.kind = "save" /\ call.stage = "check"
        /\ UNCHANGED <<dir, disk, load, unseen, byHand>>
        /\ \/ /\ IsEdit(dir["projects"])
              /\ \E a \in FreeAsides : call' = Writing("aside", a, dir["projects"])
           \/ ~IsEdit(dir["projects"]) /\ call' = WritingList
    BY <1>7 DEF SaveChecks, ghosts
  <2>2. load.kind \in {"ok", "missing"} /\ ~load.rows
    BY <1>a, <2>1 DEF BackedUpFirst, CopiedFirst
  <2>3. CASE IsEdit(dir["projects"])
    <3> PICK a \in Aside : dir[a] = None /\ call' = Writing("aside", a, dir["projects"])
      BY <2>1, <2>3 DEF FreeAsides
    <3>1. /\ call'.kind = "save" /\ call'.stage = "aside" /\ call'.step = "fill"
          /\ call'.name = a /\ call'.data = dir["projects"]
      BY <1>0, <2>1, Names, WritingTyped
    <3>2. byHand
      BY <1>a, <2>1, <2>2, <2>3 DEF IsEdit, Licensed
    <3> QED
      BY <1>a, <2>1, <2>2, <3>1, <3>2 DEF Copies, OnDisk, Licensed, CopiedFirst
  <2>4. CASE ~IsEdit(dir["projects"])
    <3>1. /\ call'.kind = "save" /\ call'.stage = "projects" /\ call'.step = "fill"
      BY <2>1, <2>4, WritingListTyped DEF EInv, IInv
    <3>2. call'.data = [list |-> call'.list, keys |-> load.keys]
      BY <1>0, <2>1, <2>4 DEF WritingList, Writing, Call
    <3>3. dir["projects"] \notin unseen
      BY <1>0, <1>a, <2>2, <2>4 DEF IsEdit, Licensed
    <3> QED
      BY <1>a, <2>1, <2>2, <3>1, <3>2, <3>3 DEF Copies, OnDisk, Licensed, CopiedFirst
  <2> QED BY <2>3, <2>4
<1>8. CASE SaveFails
  <2>1. /\ call.kind = "save" /\ call.step # "sync" /\ call' = Idle
        /\ UNCHANGED <<dir, disk, load, unseen, byHand>>
    BY <1>8 DEF SaveFails, MayFail
  <2> QED BY <1>a, <2>1 DEF Copies, OnDisk, Licensed, CopiedFirst, Idle
<1>9. CASE WriteFills
  <2>1. /\ UNCHANGED <<dir, disk, load, unseen, byHand>> /\ call'.step = "replace"
        /\ call'.kind = call.kind /\ call'.stage = call.stage
        /\ call'.name = call.name /\ call'.data = call.data /\ call.step = "fill"
        /\ call'.list = call.list
    BY <1>0, <1>9 DEF WriteFills, ghosts, Call
  <2> QED BY <1>a, <2>1 DEF Copies, OnDisk, Licensed, CopiedFirst
<1>10. CASE WriteReplaces
  BY <1>10, ReplaceCopies
<1>11. CASE WriteSyncs \/ WriteNotDurable
  BY <1>11, EndsCopies
<1>12. ASSUME NEW c \in ByHand, HandEdit(c) PROVE Copies'
  <2>1. c \in File \ {Torn}
    BY RegistryAssumption
  <2> QED BY <1>12, <2>1, EditCopies
<1>13. CASE Ends
  <2>1. /\ load'.kind = "off" /\ call' = Idle /\ UNCHANGED <<dir, disk, unseen, byHand>>
    BY <1>13 DEF Ends, Off, ghosts
  <2> QED BY <1>a, <2>1 DEF Copies, OnDisk, Licensed, CopiedFirst, Idle
<1>14. CASE PowerFails
  <2>1. /\ load'.kind = "off" /\ call' = Idle /\ UNCHANGED <<unseen, byHand>>
        /\ dir' \in disk /\ disk' = {dir'}
    BY <1>14 DEF PowerFails, Off, ghosts
  <2> QED BY <1>a, <2>1 DEF Copies, OnDisk, Licensed, CopiedFirst, Idle
<1>15. CASE Save
  BY <1>5, <1>6, <1>7, <1>8, <1>15 DEF Save
<1> QED
  BY <1>1, <1>2, <1>3, <1>4, <1>9, <1>10, <1>11, <1>12, <1>13, <1>14, <1>15
     DEF Next, Restore, Write

\* An edit made by hand is never lost before a session has loaded it, and only
\* such an edit is set aside: through any saves, failed ones, kills, power
\* failures and restores, when none of the moments that `Hazard` names occurs.
THEOREM EditsKeptAlways == ASSUME Hazard = {} PROVE Spec => []EditsKept
<1>1. Init => EInv
  BY InitIInv, InitBackedUp, InitCopies DEF EInv
<1>2. EInv /\ [Next]_vars => EInv'
  <2>1. ASSUME EInv, UNCHANGED vars PROVE EInv'
    <3>1. IInv'
      BY <2>1, IInvStep DEF EInv
    <3>2. BackedUpFirst' /\ Copies'
      BY <2>1 DEF vars, EInv, BackedUpFirst, Copies, OnDisk, Licensed, CopiedFirst
    <3> QED BY <3>1, <3>2 DEF EInv
  <2> QED BY <2>1, IInvStep, BackedUpStep, CopiesStep DEF EInv
<1>3. EInv => EditsKept
  BY DEF EInv, IInv, NothingTorn, Copies, OnDisk, CopiedFirst, EditsKept, EditKept,
     NoFalseEdit
<1> QED BY <1>1, <1>2, <1>3, PTL DEF Spec

-----------------------------------------------------------------------------
(* What the user is told, and what comes back to the file                  *)

KeysOf(c) == IF c \in Good THEN c.keys ELSE {}

\* The load that licenses a save has the keys the session read, and describes
\* what the session read or last wrote.
LoadSays ==
  load.kind \in {"ok", "missing"} =>
    /\ load.keys = KeysOf(began)
    /\ load.kind = "ok" =>
         load.onDisk \in {began, [list |-> load.list, keys |-> load.keys]}

LEMMA LoadOfKeys == ASSUME NEW c \in Whole PROVE LoadOf(c).keys = KeysOf(c)
<1> USE RegistryAssumption DEF Content, Good, File, Whole, KeysOf
<1>1. CASE c \in Good
  BY <1>1 DEF LoadOf
<1>2. CASE c \in Refusing
  BY <1>2 DEF LoadOf, Off
<1>3. CASE c \notin Good /\ c \notin Refusing
  BY <1>3 DEF LoadOf, Off
<1> QED BY <1>1, <1>2, <1>3

LEMMA OpensSays == ASSUME NEW c \in Whole, NEW l, Opens(l, c),
                          l = LoadOf(c) \/ l.kind \notin {"ok", "missing"}
  PROVE LoadSays' /\ UnsavedIsSaid'
<1>1. load' = l /\ began' = c /\ shown' = l.list
  BY DEF Opens
<1>2. UnsavedIsSaid'
  BY <1>1 DEF UnsavedIsSaid
<1>3. CASE l = LoadOf(c)
  BY <1>1, <1>2, <1>3, LoadOfKeys, LoadOfOnDisk DEF LoadSays
<1>4. CASE l.kind \notin {"ok", "missing"}
  BY <1>1, <1>2, <1>4 DEF LoadSays
<1> QED BY <1>3, <1>4

\* A silent save differs from what is shown in confirmed ports alone.
Quietly == call.silent => call.kind = "save" /\ UserPart[call.list] = UserPart[shown]

LEMMA QuietStep == ASSUME IInv, Quietly, Next PROVE Quietly'
<1>a. call \in Call
  BY DEF IInv, TypeOK
<1>b. ~Idle.silent
  BY DEF Idle
<1>1. CASE Launch
  BY <1>1 DEF Launch, Opens, Quietly
<1>2. CASE RestoreChosen
  BY <1>2 DEF RestoreChosen, Idle, Quietly
<1>3. CASE RestoreMoves
  <2>1. call.kind = "restore" /\ ~call.silent
    BY <1>3 DEF RestoreMoves, Quietly
  <2>2. ~call'.silent
    BY <1>3, <1>a, <2>1 DEF RestoreMoves, Writing, Call
  <2> QED BY <2>2 DEF Quietly
<1>4. CASE RestoreFails \/ SaveFails \/ Ends \/ PowerFails
  BY <1>4, <1>b DEF RestoreFails, SaveFails, Ends, PowerFails, Quietly
<1>5. ASSUME NEW l \in List, NEW silent \in BOOLEAN,
             NothingToSave(l, silent) \/ SaveRefused(l, silent)
      PROVE Quietly'
  BY <1>5 DEF NothingToSave, SaveRefused, Quietly
<1>6. ASSUME NEW l \in List, NEW silent \in BOOLEAN, SaveBegins(l, silent)
      PROVE Quietly'
  <2>1. /\ call'.kind = "save" /\ call'.list = l /\ call'.silent = silent
        /\ shown' = shown /\ Writes(l, silent)
    BY <1>6 DEF SaveBegins, BacksUp, Idle
  <2> QED BY <2>1 DEF Quietly, Writes
<1>7. CASE SaveChecks \/ Write
  <2>1. \/ /\ call'.kind = call.kind /\ call'.list = call.list
           /\ call'.silent = call.silent /\ shown' = shown
        \/ call' = Idle
    <3>1. CASE SaveChecks
      BY <1>a, <3>1 DEF SaveChecks, WritingList, Writing, Call
    <3>2. CASE WriteFills \/ WriteReplaces
      BY <1>a, <3>2 DEF WriteFills, WriteReplaces, Call
    <3>3. CASE WriteSyncs \/ WriteNotDurable
      <4>1. WriteEnds
        BY <3>3 DEF WriteSyncs, WriteNotDurable
      <4> QED BY <1>a, <4>1 DEF WriteEnds, BackedUp, SetAside, Saved, Restored,
                 WritingList, Writing, Call
    <3> QED BY <1>7, <3>1, <3>2, <3>3 DEF Write
  <2> QED BY <1>b, <2>1 DEF Quietly
<1>8. ASSUME NEW c \in ByHand, HandEdit(c) PROVE Quietly'
  BY <1>8 DEF HandEdit, Quietly
<1> QED BY <1>1, <1>2, <1>3, <1>4, <1>5, <1>6, <1>7, <1>8 DEF Next, Save, Restore

LEMMA SaysStep == ASSUME IInv, BackedUpFirst, LoadSays, UnsavedIsSaid, Quietly, Next
  PROVE LoadSays' /\ UnsavedIsSaid'
<1>0. dir["projects"] \in Whole /\ load \in Load
  BY Names DEF IInv, NothingTorn, TypeOK
<1>1. CASE Launch
  BY <1>0, <1>1, OpensSays DEF Launch
<1>2. CASE RestoreChosen \/ RestoreMoves \/ WriteFills \/ SaveChecks
  BY <1>2 DEF RestoreChosen, RestoreMoves, WriteFills, SaveChecks, ghosts,
     LoadSays, UnsavedIsSaid
<1>3. CASE RestoreFails
  <2>1. Opens([Off EXCEPT !.kind = "failed"], dir["projects"])
    BY <1>3 DEF RestoreFails
  <2>2. [Off EXCEPT !.kind = "failed"].kind = "failed"
    BY DEF Off
  <2> QED BY <1>0, <2>1, <2>2, OpensSays
<1>4. ASSUME NEW l \in List, NEW silent \in BOOLEAN,
             NothingToSave(l, silent) \/ SaveRefused(l, silent) \/ SaveBegins(l, silent)
      PROVE LoadSays' /\ UnsavedIsSaid'
  <2>1. UNCHANGED <<load, began>>
    BY <1>4 DEF NothingToSave, SaveRefused, SaveBegins, ghosts
  <2>2. LoadSays'
    BY <2>1 DEF LoadSays
  <2>3. CASE NothingToSave(l, silent)
    <3>1. l = load.list /\ shown' = l
      BY <2>3 DEF NothingToSave, ShouldWrite
    <3> QED BY <2>1, <2>2, <3>1 DEF UnsavedIsSaid
  <2>4. CASE SaveRefused(l, silent)
    <3>1. /\ shown' = l /\ warned' = (silent => warned)
          /\ silent => UserPart[l] = UserPart[shown]
      BY <2>4 DEF SaveRefused, Writes
    <3> QED BY <2>1, <2>2, <3>1 DEF UnsavedIsSaid
  <2>5. CASE SaveBegins(l, silent)
    BY <2>1, <2>2, <2>5 DEF SaveBegins, ghosts, UnsavedIsSaid
  <2> QED BY <1>4, <2>3, <2>4, <2>5
<1>5. CASE SaveFails
  <2>1. /\ UNCHANGED <<load, began>> /\ shown' = call.list
        /\ warned' = (call.silent => warned)
    BY <1>5 DEF SaveFails
  <2> QED BY <2>1 DEF LoadSays, UnsavedIsSaid, Quietly
<1>6. CASE WriteReplaces
  BY <1>6 DEF WriteReplaces, LoadSays, UnsavedIsSaid
<1>7. CASE WriteSyncs \/ WriteNotDurable
  <2>1. WriteEnds
    BY <1>7 DEF WriteSyncs, WriteNotDurable
  <2>2. CASE BackedUp \/ SetAside
    BY <2>2 DEF BackedUp, SetAside, LoadSays, UnsavedIsSaid
  <2>3. CASE Saved
    <3>1. load.kind \in {"ok", "missing"}
      BY <2>3 DEF Saved, BackedUpFirst
    <3> QED BY <2>3, <3>1 DEF Saved, LoadAfterSave, LoadSays, UnsavedIsSaid
  <2>4. CASE Restored
    <3>1. Opens(RestoredLoad, dir["projects"])
      BY <2>4 DEF Restored
    <3>2. RestoredLoad = LoadOf(dir["projects"]) \/ RestoredLoad.kind = "failed"
      BY DEF RestoredLoad, Off
    <3> QED BY <1>0, <3>1, <3>2, OpensSays
  <2> QED BY <2>1, <2>2, <2>3, <2>4 DEF WriteEnds
<1>8. ASSUME NEW c \in ByHand, HandEdit(c) PROVE LoadSays' /\ UnsavedIsSaid'
  BY <1>8 DEF HandEdit, LoadSays, UnsavedIsSaid
<1>9. CASE Ends \/ PowerFails
  BY <1>9 DEF Ends, PowerFails, Off, LoadSays, UnsavedIsSaid
<1> QED BY <1>1, <1>2, <1>3, <1>4, <1>5, <1>6, <1>7, <1>8, <1>9
     DEF Next, Save, Restore, Write

\* What projects.json holds; while a restore has it set aside, what it held.
Held == IF call.kind = "restore" /\ Before("projects") /\ call.moved # None
          THEN dir[call.moved] ELSE dir["projects"]

\* A state of the directory in which that is set aside and nothing is in place.
Leftover(d) ==
  d["projects"] = None /\ Held # None /\ \E a \in Aside : d[a] = Held

\* A restore moves the file once, then writes.
MovedOnce ==
  call.kind = "restore" => IF call.stage = "move" THEN call.moved = None
                                                  ELSE call.step # "none"

\* Whatever a power failure leaves is what the user may expect, but for the
\* leftovers of a restore; and none is left when a save replaces the list.
Told ==
  /\ Held \in owed
  /\ \A d \in disk : \/ d["projects"] \in owed
                     \/ Leftover(d)
                     \/ call.kind = "restore" /\ After("projects") /\ d["projects"] = None
  /\ \/ load.kind = "missing"
     \/ load.kind = "ok" /\ load.raw = None
     \/ call.kind = "save" /\ call.stage # "backup"
     => \A d \in disk : d["projects"] \in owed

\* A damaged list has been made durable, and only a restore moves it.
DamagedAlone == Held \in Damaged => \A d \in disk : d["projects"] = Held \/ Leftover(d)

\* A backup loads.
BackupLoads ==
  /\ load.raw \notin Damaged
  /\ call.stage = "backup" \/ call.kind = "restore" => call.data \notin Damaged
  /\ \A d \in disk : d["backup"] \notin Damaged

\* While the chosen backup is not back, the list does not load, so nothing is
\* saved and the backup is not replaced.
ChosenSafe ==
  chosen # None =>
    /\ call.kind # "save" /\ load.kind \in {"off", "failed"}
    /\ \A d \in disk : d["backup"] = chosen
    /\ call.kind = "restore" => call.data = chosen
    /\ IF call.kind = "restore" /\ After("projects")
         THEN dir["projects"] = chosen ELSE Held \in Damaged

Recalls == MovedOnce /\ Told /\ DamagedAlone /\ BackupLoads /\ ChosenSafe

LEMMA InitRecalls == Init => Recalls
<1> SUFFICES ASSUME Init PROVE Recalls
  OBVIOUS
<1>1. /\ call = Idle /\ load = Off /\ disk = {dir} /\ owed = {None} /\ chosen = None
      /\ dir["projects"] = None /\ dir["backup"] = None
  BY Names DEF Init
<1>2. /\ call.kind = "none" /\ call.stage = "none" /\ load.kind = "off"
      /\ load.raw = None /\ None \notin Damaged
  BY <1>1, RegistryAssumption DEF Idle, Off, Content
<1> QED BY <1>1, <1>2
     DEF Recalls, MovedOnce, Told, Held, DamagedAlone, BackupLoads, ChosenSafe

\* What `load_projects` makes of damage, and what it never keeps.
LEMMA LoadOfDamage == ASSUME NEW c \in Whole
  PROVE /\ LoadOf(c).raw \notin Damaged
        /\ LoadOf(c).kind = "failed" <=> c \in Damaged
        /\ LoadOf(c).kind \in {"ok", "missing", "failed"}
        /\ LoadOf(c).kind = "ok" => LoadOf(c).raw # None
<1> USE RegistryAssumption DEF Content, Good, File, Whole
<1>1. CASE c \in Good
  BY <1>1 DEF LoadOf
<1>2. CASE c \in Refusing
  BY <1>2 DEF LoadOf, Off
<1>3. CASE c \notin Good /\ c \notin Refusing
  BY <1>3 DEF LoadOf, Off
<1> QED BY <1>1, <1>2, <1>3

\* A step that leaves the files alone, and what is known of them.
LEMMA QuietRecalls == ASSUME EInv, Recalls,
    UNCHANGED <<dir, disk, owed, chosen>>, Held' = Held,
    MovedOnce', ~(call.kind = "restore" /\ After("projects")),
    ~(call.kind = "restore" /\ After("projects"))',
    load'.raw \notin Damaged,
    (call.stage = "backup" \/ call.kind = "restore" => call.data \notin Damaged)',
    \/ load.kind = "missing"
    \/ load.kind = "ok" /\ load.raw = None
    \/ call.kind = "save" /\ call.stage # "backup"
    \/ dir["projects"] = None /\ call.kind # "restore"
    \/ load'.kind # "missing" /\ (load'.kind # "ok" \/ load'.raw # None)
         /\ (call'.kind # "save" \/ call'.stage = "backup"),
    chosen # None => /\ call'.kind # "save" /\ load'.kind \in {"off", "failed"}
                     /\ call'.kind = "restore" => call'.data = chosen
  PROVE Recalls'
<1>0. dir \in disk
  BY DEF EInv, IInv, NothingTorn
<1>a. Told /\ DamagedAlone /\ BackupLoads /\ ChosenSafe
  BY DEF Recalls
<1>1. \A d \in disk : Leftover(d)' <=> Leftover(d)
  BY DEF Leftover
<1>2. DamagedAlone'
  BY <1>a, <1>1 DEF DamagedAlone
<1>3. BackupLoads'
  BY <1>a DEF BackupLoads
<1>4. ChosenSafe'
  BY <1>a DEF ChosenSafe
<1>5. dir["projects"] = None /\ call.kind # "restore" =>
        \A d \in disk : d["projects"] \in owed
  BY <1>a DEF Told, Leftover, Held
<1>6. Told'
  BY <1>a, <1>1, <1>5 DEF Told
<1> QED BY <1>2, <1>3, <1>4, <1>6 DEF Recalls

\* A restore sets the damaged list aside, and it stays what was promised.
LEMMA MovesRecalls == ASSUME EInv, Recalls, RestoreMoves PROVE Recalls'
<1>0. /\ dir \in [Name -> Whole] /\ dir \in disk /\ call.data \in Whole
      /\ disk \subseteq [Name -> Whole] /\ call \in Call /\ load \in Load
  BY DEF EInv, IInv, NothingTorn, WritesWhole, TypeOK
<1>a. MovedOnce /\ Told /\ DamagedAlone /\ BackupLoads /\ ChosenSafe
  BY DEF Recalls
<1> DEFINE next == Writing("projects", "projects", call.data)
<1>1. /\ next \in Call /\ next.stage = "projects" /\ next.step = "fill"
      /\ next.kind = call.kind /\ next.data = call.data /\ next.moved = call.moved
  <2>1. next.moved = call.moved
    BY <1>0 DEF Writing, Call
  <2> QED BY <1>0, <2>1, Names, WritingTyped
<1>2. /\ call.kind = "restore" /\ call.stage = "move" /\ call.moved = None
      /\ UNCHANGED <<load, owed, chosen>>
      /\ \/ call' = next /\ UNCHANGED <<dir, disk>> /\ dir["projects"] = None
         \/ \E a \in Aside :
              /\ dir[a] = None /\ dir["projects"] # None
              /\ call' = [next EXCEPT !.moved = a]
              /\ dir' = [dir EXCEPT !["projects"] = None, ![a] = dir["projects"]]
              /\ disk' = disk \cup {dir'}
  BY <1>a DEF RestoreMoves, FreeAsides, ghosts, MovedOnce
<1> HIDE DEF next
<1>3. /\ call'.kind = "restore" /\ call'.stage = "projects" /\ call'.step = "fill"
      /\ call'.data = call.data
  BY <1>1, <1>2 DEF Call
<1>4. Held = dir["projects"] /\ load.kind = "off"
  BY <1>2 DEF Held, EInv, Copies, CopiedFirst
<1>5. /\ Held' = Held
      /\ \A d \in disk' : \/ d \in disk
                          \/ /\ d["projects"] = None /\ d["backup"] = dir["backup"]
                             /\ Held # None /\ \E a \in Aside : d[a] = Held
  <2>1. CASE call' = next /\ UNCHANGED <<dir, disk>>
    BY <1>1, <1>2, <1>4, <2>1 DEF Held
  <2>2. CASE \E a \in Aside :
              /\ dir[a] = None /\ dir["projects"] # None
              /\ call' = [next EXCEPT !.moved = a]
              /\ dir' = [dir EXCEPT !["projects"] = None, ![a] = dir["projects"]]
              /\ disk' = disk \cup {dir'}
    <3> PICK a \in Aside :
              /\ dir[a] = None /\ dir["projects"] # None
              /\ call' = [next EXCEPT !.moved = a]
              /\ dir' = [dir EXCEPT !["projects"] = None, ![a] = dir["projects"]]
              /\ disk' = disk \cup {dir'}
      BY <2>2
    <3>1. call'.moved = a /\ a # None /\ a \in Name /\ a # "projects" /\ a # "backup"
      BY <1>1, Names, TornIsDamaged DEF Call
    <3>2. dir'[a] = dir["projects"] /\ dir'["projects"] = None /\ dir'["backup"] = dir["backup"]
      BY <1>0, <3>1, Names, TornIsDamaged
    <3>3. Held' = Held
      BY <1>3, <1>4, <3>1, <3>2 DEF Held
    <3> QED BY <1>4, <3>2, <3>3
  <2> QED BY <1>2, <2>1, <2>2
<1>6. \A d : Leftover(d)' <=> Leftover(d)
  BY <1>5 DEF Leftover
<1>7. ASSUME NEW d \in disk'
      PROVE  d \in disk \/ (Leftover(d) /\ d["backup"] = dir["backup"])
  BY ONLY <1>5, d \in disk' DEF Leftover
<1>8. MovedOnce' /\ Told'
  <2>1. ~(call.kind = "restore" /\ After("projects"))
    BY <1>2
  <2> QED BY <1>2, <1>3, <1>4, <1>5, <1>6, <1>7, <1>a, <2>1 DEF MovedOnce, Told
<1>9. DamagedAlone' /\ BackupLoads'
  BY <1>0, <1>2, <1>3, <1>5, <1>6, <1>7, <1>a DEF DamagedAlone, BackupLoads
<1>10. ChosenSafe'
  BY <1>0, <1>2, <1>3, <1>5, <1>7, <1>a DEF ChosenSafe
<1> QED BY <1>8, <1>9, <1>10 DEF Recalls

\* A restore that fails leaves the list that it found, for nothing can come in
\* its place meanwhile.
LEMMA FailsRecalls == ASSUME EInv, Recalls, Hazard = {}, RestoreFails PROVE Recalls'
<1>0. /\ dir \in [Name -> Whole] /\ dir \in disk /\ call \in Call
  BY DEF EInv, IInv, NothingTorn, TypeOK
<1>a. MovedOnce /\ Told /\ DamagedAlone /\ BackupLoads /\ ChosenSafe
  BY DEF Recalls
<1>1. /\ call.kind = "restore" /\ call.step # "sync" /\ call' = Idle
      /\ Opens([Off EXCEPT !.kind = "failed"], dir["projects"])
      /\ UNCHANGED <<owed, chosen>>
      /\ \/ PutsBack
         \/ UNCHANGED <<dir, disk>> /\ (call.moved = None \/ dir["projects"] # None)
  <2>1. "half_restore" \notin Hazard
    OBVIOUS
  <2> QED BY <2>1 DEF RestoreFails, MayFail
<1>2. /\ load'.kind = "failed" /\ load'.raw = None /\ call'.kind = "none"
      /\ call'.stage = "none" /\ call'.data = None /\ None \notin Damaged
  BY <1>1, RegistryAssumption DEF Opens, Off, Idle, Content
<1>3. call.stage = "move" \/ Before("projects")
  <2>1. call.stage \in {"move", "projects"}
    BY <1>1 DEF EInv, BackedUpFirst
  <2>2. call.stage # "move" => call.step \in {"fill", "replace"}
    BY <1>0, <1>1, <1>a DEF MovedOnce, Call
  <2> QED BY <2>1, <2>2
<1>4. Held' = dir'["projects"]
  BY <1>2 DEF Held
<1>5. /\ Held' = Held
      /\ \A d \in disk' :
           d \in disk \/ (d["projects"] = Held /\ d["backup"] = dir["backup"])
  <2>1. CASE PutsBack
    <3>1. call.moved \in Aside /\ Before("projects")
      BY <1>0, <1>1, <1>3, <1>a, <2>1 DEF PutsBack, Call, MovedOnce
    <3> PICK a \in Aside : a = call.moved
      BY <3>1
    <3>2. /\ disk' = disk \cup {dir'}
          /\ dir' = [dir EXCEPT !["projects"] = dir[a], ![a] = None]
      BY <2>1 DEF PutsBack
    <3>3. dir'["projects"] = dir[a] /\ dir'["backup"] = dir["backup"]
      BY <1>0, <3>2, Names, TornIsDamaged
    <3>4. Held = dir[a]
      BY <1>1, <3>1, TornIsDamaged DEF Held
    <3> QED BY ONLY <1>4, <3>2, <3>3, <3>4
  <2>2. CASE UNCHANGED <<dir, disk>> /\ (call.moved = None \/ dir["projects"] # None)
    <3>1. Held = dir["projects"]
      BY <1>1, <2>2 DEF Held, EInv, Copies, CopiedFirst
    <3> QED BY ONLY <1>4, <2>2, <3>1
  <2> QED BY <1>1, <2>1, <2>2
<1>6. \A d : Leftover(d)' <=> Leftover(d)
  BY <1>5 DEF Leftover
<1>7. MovedOnce' /\ Told'
  BY <1>1, <1>2, <1>5, <1>6, <1>a DEF MovedOnce, Told
<1>8. DamagedAlone' /\ BackupLoads'
  BY <1>0, <1>2, <1>5, <1>6, <1>a DEF DamagedAlone, BackupLoads
<1>9. ChosenSafe'
  BY <1>0, <1>1, <1>2, <1>5, <1>a DEF ChosenSafe
<1> QED BY <1>7, <1>8, <1>9 DEF Recalls

\* What replaces the list is owed from then on.
LEMMA ReplaceRecalls == ASSUME EInv, Recalls, WriteReplaces PROVE Recalls'
<1>0. /\ dir \in [Name -> Whole] /\ dir \in disk /\ call \in Call /\ load \in Load
  BY DEF EInv, IInv, NothingTorn, TypeOK
<1>a. MovedOnce /\ Told /\ DamagedAlone /\ BackupLoads /\ ChosenSafe
  BY DEF Recalls
<1>1. /\ call.step = "replace" /\ call.synced /\ call.name \in Name
      /\ call' = [call EXCEPT !.step = "sync"]
      /\ dir' = [dir EXCEPT ![call.name] = call.data]
      /\ disk' = disk \cup {dir'} /\ UNCHANGED <<load, chosen>>
      /\ IF call.name = "projects" THEN owed' = owed \cup {call.data}
                                   ELSE owed' = owed
  BY DEF WriteReplaces, EInv, IInv, WritesWhole
<1>2. /\ call'.kind = call.kind /\ call'.stage = call.stage /\ call'.step = "sync"
      /\ call'.name = call.name /\ call'.data = call.data
  BY <1>0, <1>1 DEF Call
<1>3. /\ call.stage \in {"backup", "aside", "projects"}
      /\ call.stage = "backup" => call.name = "backup" /\ call.kind = "save"
      /\ call.stage = "aside" => call.name \in Aside /\ call.kind = "save"
      /\ call.stage = "projects" => call.name = "projects" /\ call.kind # "none"
  BY <1>0, <1>1 DEF EInv, BackedUpFirst, Call
<1>4. Held' = dir'["projects"]
  BY <1>2 DEF Held
<1>5. MovedOnce'
  BY <1>2, <1>3 DEF MovedOnce
<1>6. CASE call.stage # "projects"
  <2>1. /\ call.kind = "save" /\ call.name # "projects" /\ chosen = None
        /\ call.name # "backup" => dir'["backup"] = dir["backup"]
        /\ call.name = "backup" => dir'["backup"] = call.data /\ call.stage = "backup"
        /\ dir'["projects"] = dir["projects"]
    BY <1>0, <1>1, <1>3, <1>6, <1>a, Names, TornIsDamaged DEF ChosenSafe
  <2>2. Held' = Held
    BY <1>4, <2>1 DEF Held
  <2>3. \A d : Leftover(d)' <=> Leftover(d)
    BY <2>2 DEF Leftover
  <2>4. dir["projects"] = Held
    BY <2>1 DEF Held
  <2>5. Told'
    <3>1. owed' = owed /\ Held \in owed /\ dir'["projects"] \in owed
      BY <1>1, <1>a, <2>1, <2>4 DEF Told
    <3>2. \A d \in disk : d["projects"] \in owed \/ Leftover(d)
      BY <1>a, <2>1 DEF Told
    <3>3. \A d \in disk' : d \in disk \/ d["projects"] \in owed
      BY <1>1, <3>1
    <3>4. \/ load.kind = "missing"
          \/ load.kind = "ok" /\ load.raw = None
          \/ call.kind = "save" /\ call.stage # "backup"
          => \A d \in disk : d["projects"] \in owed
      BY <1>a DEF Told
    <3>5. load' = load /\ call'.kind = call.kind /\ call'.stage = call.stage
      BY <1>1, <1>2
    <3> QED BY ONLY <2>2, <2>3, <3>1, <3>2, <3>3, <3>4, <3>5 DEF Told
  <2>6. DamagedAlone'
    BY <1>0, <1>1, <1>a, <2>1, <2>2, <2>3, <2>4 DEF DamagedAlone
  <2>7. BackupLoads'
    BY <1>0, <1>1, <1>2, <1>a, <2>1 DEF BackupLoads
  <2>8. ChosenSafe'
    BY <1>1, <2>1 DEF ChosenSafe
  <2> QED BY <1>5, <2>5, <2>6, <2>7, <2>8 DEF Recalls
<1>7. CASE call.stage = "projects"
  <2>1. /\ dir'["projects"] = call.data /\ dir'["backup"] = dir["backup"]
        /\ owed' = owed \cup {call.data} /\ call.kind \in {"save", "restore"}
    BY <1>0, <1>1, <1>3, <1>7, Names, TornIsDamaged DEF Call
  <2>2. call.data \notin Damaged
    <3>1. CASE call.kind = "save"
      <4>1. call.data = [list |-> call.list, keys |-> load.keys]
        BY <1>7, <3>1 DEF EInv, Copies, CopiedFirst
      <4>2. call.data \in Good
        BY <1>0, <4>1 DEF Call, Load, Good
      <4> QED BY <4>2, RegistryAssumption
    <3> QED BY <1>a, <2>1, <3>1 DEF BackupLoads
  <2>3. DamagedAlone'
    BY <1>4, <2>1, <2>2 DEF DamagedAlone
  <2>4. BackupLoads'
    BY <1>0, <1>1, <1>2, <1>a, <2>1 DEF BackupLoads
  <2>5. ChosenSafe'
    BY <1>0, <1>1, <1>2, <1>7, <1>a, <2>1 DEF ChosenSafe
  <2>6. Told'
    <3>1. CASE call.kind = "save"
      BY <1>1, <1>2, <1>4, <1>7, <1>a, <2>1, <3>1 DEF Told
    <3>2. CASE call.kind = "restore"
      <4>1. load.kind = "off" /\ call.step # "sync"
        BY <1>1, <3>2 DEF EInv, Copies, CopiedFirst
      <4>2. \A d \in disk : d["projects"] \in owed \/ d["projects"] = None
        BY <1>a, <4>1 DEF Told, Leftover
      <4> QED BY <1>1, <1>2, <1>4, <1>7, <2>1, <3>2, <4>1, <4>2 DEF Told
    <3> QED BY <2>1, <3>1, <3>2
  <2> QED BY <1>5, <2>3, <2>4, <2>5, <2>6 DEF Recalls
<1> QED BY <1>6, <1>7

\* A write that is done is durable, or all that may be found is owed.
LEMMA EndsRecalls == ASSUME EInv, Recalls, WriteSyncs \/ WriteNotDurable PROVE Recalls'
<1>0. /\ dir \in [Name -> Whole] /\ dir \in disk /\ call \in Call /\ load \in Load
      /\ dir["projects"] \in Whole
  BY Names DEF EInv, IInv, NothingTorn, TypeOK
<1>a. MovedOnce /\ Told /\ DamagedAlone /\ BackupLoads /\ ChosenSafe
  BY DEF Recalls
<1>1. /\ call.step = "sync" /\ WriteEnds /\ dir' = dir
      /\ disk' \subseteq disk /\ disk' \in {disk, {dir}}
  BY <1>0 DEF WriteSyncs, WriteNotDurable
<1>2. Held = dir["projects"]
  BY <1>1 DEF Held
<1>3. \A d \in disk' : d["projects"] \in owed'
  <2>1. CASE WriteSyncs
    BY <1>2, <1>a, <2>1 DEF WriteSyncs, Told
  <2>2. CASE WriteNotDurable
    BY <2>2 DEF WriteNotDurable
  <2> QED BY <2>1, <2>2
<1>4. dir["projects"] \in owed'
  BY <1>0, <1>1, <1>3
<1>5. /\ call'.kind \in {"none", "save"} /\ call'.stage # "backup"
      /\ load'.raw \notin Damaged
      /\ chosen' # None =>
           /\ chosen' = chosen /\ call'.kind = "none" /\ load'.kind \in {"off", "failed"}
           /\ FALSE
  <2>1. CASE BackedUp
    <3>1. /\ call'.kind = call.kind /\ call'.stage = "check" /\ call.stage = "backup"
          /\ UNCHANGED <<load, chosen>>
      BY <1>0, <2>1 DEF BackedUp, Call
    <3>2. call.kind = "save"
      BY <1>0, <3>1 DEF EInv, BackedUpFirst, Call
    <3> QED BY <1>a, <3>1, <3>2 DEF BackupLoads, ChosenSafe
  <2>2. CASE SetAside
    <3>1. /\ call'.kind = call.kind /\ call'.stage = "projects" /\ call.stage = "aside"
          /\ UNCHANGED <<load, chosen>>
      BY <2>2, WritingListTyped DEF SetAside, EInv, IInv
    <3>2. call.kind = "save"
      BY <1>0, <3>1 DEF EInv, BackedUpFirst, Call
    <3> QED BY <1>a, <3>1, <3>2 DEF BackupLoads, ChosenSafe
  <2>3. CASE Saved
    <3>1. /\ call'.kind = "none" /\ call'.stage = "none" /\ call.kind = "save"
          /\ load'.raw = None /\ chosen' = chosen
      BY <2>3 DEF Saved, Idle, LoadAfterSave
    <3>2. None \notin Damaged
      BY RegistryAssumption DEF Content
    <3> QED BY <1>a, <3>1, <3>2 DEF ChosenSafe
  <2>4. CASE Restored
    <3>1. /\ call'.kind = "none" /\ call'.stage = "none" /\ call.kind = "restore"
          /\ load' = RestoredLoad
          /\ chosen' = IF dir["projects"] = chosen THEN None ELSE chosen
      BY <2>4 DEF Restored, Idle, Opens
    <3>2. RestoredLoad.raw \notin Damaged
      <4>1. None \notin Damaged
        BY RegistryAssumption DEF Content
      <4> QED BY <1>0, <4>1, LoadOfDamage DEF RestoredLoad, Off
    <3>3. call.stage = "projects"
      BY <1>1, <3>1 DEF EInv, BackedUpFirst
    <3>4. chosen' = None
      BY <1>1, <1>a, <3>1, <3>3 DEF ChosenSafe
    <3> QED BY <3>1, <3>2, <3>4
  <2> QED BY <1>1, <2>1, <2>2, <2>3, <2>4 DEF WriteEnds
<1>6. Held' = dir["projects"]
  BY <1>1, <1>5 DEF Held
<1>7. \A d : Leftover(d)' <=> Leftover(d)
  BY <1>2, <1>6 DEF Leftover
<1>8. MovedOnce' /\ Told'
  BY <1>3, <1>4, <1>5, <1>6 DEF MovedOnce, Told
<1>9. DamagedAlone'
  BY <1>1, <1>2, <1>6, <1>7, <1>a DEF DamagedAlone
<1>10. BackupLoads' /\ ChosenSafe'
  BY <1>1, <1>5, <1>a DEF BackupLoads, ChosenSafe
<1> QED BY <1>8, <1>9, <1>10 DEF Recalls

\* An edit is durable, and is what the user expects from then on.
LEMMA EditRecalls == ASSUME EInv, Recalls, Hazard = {},
                            NEW c \in File \ {Torn}, HandEdit(c)
  PROVE Recalls'
<1>0. dir \in [Name -> Whole] /\ dir \in disk
  BY DEF EInv, IInv, NothingTorn
<1>a. MovedOnce /\ BackupLoads
  BY DEF Recalls
<1>1. /\ ~Exposed /\ dir' = [dir EXCEPT !["projects"] = c] /\ disk' = {dir'}
      /\ owed' = {c} /\ chosen' = None /\ UNCHANGED <<load, call>>
  BY DEF HandEdit
<1>2. dir'["projects"] = c /\ dir'["backup"] = dir["backup"]
  BY <1>0, <1>1, Names, TornIsDamaged
<1>3. ~Before("projects")
  BY <1>1 DEF Exposed
<1>4. Held' = c
  BY <1>1, <1>2, <1>3 DEF Held
<1>5. MovedOnce' /\ Told' /\ DamagedAlone'
  BY <1>1, <1>2, <1>4, <1>a DEF MovedOnce, Told, DamagedAlone
<1>6. BackupLoads' /\ ChosenSafe'
  BY <1>0, <1>1, <1>2, <1>a DEF BackupLoads, ChosenSafe
<1> QED BY <1>5, <1>6 DEF Recalls

\* A power failure leaves what is owed, and the damaged list if it was that.
LEMMA PowerRecalls == ASSUME EInv, Recalls, Hazard = {}, PowerFails PROVE Recalls'
<1>a. MovedOnce /\ Told /\ DamagedAlone /\ BackupLoads /\ ChosenSafe
  BY DEF Recalls
<1>1. /\ ~HalfRestored /\ dir' \in disk /\ disk' = {dir'}
      /\ load' = Off /\ call' = Idle /\ UNCHANGED <<owed, chosen>>
  BY DEF PowerFails, ghosts
<1>2. /\ load'.kind = "off" /\ load'.raw = None /\ None \notin Damaged
      /\ call'.kind = "none" /\ call'.stage = "none"
  BY <1>1, RegistryAssumption DEF Off, Idle, Content
<1>3. Held' = dir'["projects"] /\ Held = dir["projects"] /\ call.kind # "restore"
  BY <1>1, <1>2 DEF Held, HalfRestored
<1>4. ~Leftover(dir')
  BY <1>1, <1>3 DEF Leftover, HalfRestored
<1>5. dir'["projects"] \in owed'
  BY <1>1, <1>3, <1>4, <1>a DEF Told
<1>6. MovedOnce' /\ Told' /\ DamagedAlone'
  BY <1>1, <1>2, <1>3, <1>5 DEF MovedOnce, Told, DamagedAlone
<1>7. BackupLoads'
  BY <1>1, <1>2, <1>a DEF BackupLoads
<1>8. ChosenSafe'
  BY <1>1, <1>2, <1>3, <1>4, <1>a DEF ChosenSafe, DamagedAlone
<1> QED BY <1>6, <1>7, <1>8 DEF Recalls

LEMMA RecallsStep == ASSUME EInv, Recalls, Hazard = {}, Next PROVE Recalls'
<1>0. /\ dir["projects"] \in Whole /\ dir \in disk /\ call \in Call /\ load \in Load
      /\ None \notin Damaged
  BY Names, RegistryAssumption DEF EInv, IInv, NothingTorn, TypeOK, Content
<1>a. /\ BackedUpFirst /\ CopiedFirst
      /\ MovedOnce /\ Told /\ DamagedAlone /\ BackupLoads /\ ChosenSafe
  BY DEF EInv, Copies, Recalls
<1>1. CASE Launch
  <2>1. /\ UNCHANGED <<dir, disk, call, owed, chosen>> /\ call.kind = "none"
        /\ load' = LoadOf(dir["projects"])
    BY <1>1 DEF Launch, Opens
  <2>2. Held = dir["projects"] /\ Held' = Held
    BY <2>1 DEF Held
  <2>3. /\ load'.raw \notin Damaged
        /\ load'.kind = "ok" => load'.raw # None
        /\ load'.kind = "missing" => dir["projects"] = None
        /\ dir["projects"] \in Damaged => load'.kind = "failed"
    BY <1>0, <2>1, LoadOfDamage, LoadOfRaw
  <2>4. chosen # None => load'.kind = "failed"
    BY <1>a, <2>1, <2>2, <2>3 DEF ChosenSafe
  <2>5. call.stage = "none"
    BY <1>a, <2>1 DEF BackedUpFirst
  <2> QED BY <1>a, <2>1, <2>2, <2>3, <2>4, <2>5, QuietRecalls DEF MovedOnce
<1>2. CASE RestoreChosen
  <2>1. /\ UNCHANGED <<dir, disk, load, owed>> /\ call.kind = "none" /\ load.kind = "off"
        /\ LoadOf(dir["projects"]).kind = "failed"
        /\ call'.kind = "restore" /\ call'.stage = "move" /\ call'.step = "none"
        /\ call'.data = dir["backup"] /\ call'.moved = None
        /\ chosen' # None => chosen' = dir["backup"] /\ \A d \in disk : d["backup"] = chosen'
    BY <1>2 DEF RestoreChosen, Idle
  <2>2. dir["projects"] \in Damaged
    BY <1>0, <2>1, LoadOfDamage
  <2>3. Held = dir["projects"] /\ Held' = Held
    BY <2>1 DEF Held
  <2>4. \A d : Leftover(d)' <=> Leftover(d)
    BY <2>1, <2>3 DEF Leftover
  <2>5. MovedOnce' /\ DamagedAlone'
    BY <1>a, <2>1, <2>3, <2>4 DEF MovedOnce, DamagedAlone
  <2>6. Told'
    BY <1>a, <2>1, <2>3, <2>4 DEF Told
  <2>7. BackupLoads'
    BY <1>0, <1>a, <2>1 DEF BackupLoads
  <2>8. ChosenSafe'
    BY <2>1, <2>2, <2>3 DEF ChosenSafe
  <2> QED BY <2>5, <2>6, <2>7, <2>8 DEF Recalls
<1>3. CASE RestoreMoves
  BY <1>3, MovesRecalls
<1>4. CASE RestoreFails
  BY <1>4, FailsRecalls
<1>5. ASSUME NEW l \in List, NEW silent \in BOOLEAN,
             NothingToSave(l, silent) \/ SaveRefused(l, silent) PROVE Recalls'
  <2>1. UNCHANGED <<dir, disk, load, call, owed, chosen>>
    BY <1>5 DEF NothingToSave, SaveRefused
  <2> QED BY <1>a, <2>1 DEF Recalls, MovedOnce, Told, Held, Leftover, DamagedAlone,
       BackupLoads, ChosenSafe
<1>6. ASSUME NEW l \in List, NEW silent \in BOOLEAN, SaveBegins(l, silent) PROVE Recalls'
  <2>1. /\ UNCHANGED <<dir, disk, load, owed, chosen>> /\ call.kind = "none"
        /\ load.kind \in {"missing", "ok"} /\ call'.kind = "save"
        /\ \/ load.raw # None /\ call'.stage = "backup" /\ call'.data = load.raw
           \/ load.raw = None /\ call'.stage = "check"
    BY <1>6 DEF SaveBegins, MayWrite, BacksUp, Idle, ghosts
  <2>2. chosen = None
    BY <1>a, <2>1 DEF ChosenSafe
  <2>3. load.kind = "missing" => load.raw = None
    BY <1>a DEF BackedUpFirst
  <2>4. Held' = Held
    BY <2>1 DEF Held
  <2>5. MovedOnce' /\ (call'.stage = "backup" => call'.data \notin Damaged)
    BY <1>a, <2>1 DEF MovedOnce, BackupLoads
  <2> QED BY <1>a, <2>1, <2>2, <2>3, <2>4, <2>5, QuietRecalls DEF BackupLoads
<1>7. CASE SaveChecks
  <2>1. /\ UNCHANGED <<dir, disk, load, owed, chosen>>
        /\ call.kind = "save" /\ call.stage = "check"
        /\ call' = WritingList \/ \E a \in Aside : call' = Writing("aside", a, dir["projects"])
    BY <1>7 DEF SaveChecks, ghosts, FreeAsides
  <2>2. call'.kind = "save" /\ call'.stage \in {"aside", "projects"}
    <3>1. CASE call' = WritingList
      BY <2>1, <3>1, WritingListTyped DEF EInv, IInv
    <3>2. CASE \E a \in Aside : call' = Writing("aside", a, dir["projects"])
      <4> PICK a \in Aside : call' = Writing("aside", a, dir["projects"])
        BY <3>2
      <4> QED BY <1>0, <2>1, Names, WritingTyped
    <3> QED BY <2>1, <3>1, <3>2
  <2>3. Held' = Held /\ MovedOnce'
    BY <2>1, <2>2 DEF Held, MovedOnce
  <2>4. chosen = None
    BY <1>a, <2>1 DEF ChosenSafe
  <2> QED BY <1>a, <2>1, <2>2, <2>3, <2>4, QuietRecalls DEF BackupLoads
<1>8. CASE SaveFails
  <2>1. /\ UNCHANGED <<dir, disk, load, owed, chosen>>
        /\ call.kind = "save" /\ call'.kind = "none" /\ call'.stage = "none"
    BY <1>8 DEF SaveFails, Idle
  <2>2. Held' = Held /\ MovedOnce'
    BY <2>1 DEF Held, MovedOnce
  <2>3. chosen = None
    BY <1>a, <2>1 DEF ChosenSafe
  <2>4. \A d : Leftover(d)' <=> Leftover(d)
    BY <2>1, <2>2 DEF Leftover
  <2>5. Told' /\ DamagedAlone' /\ BackupLoads' /\ ChosenSafe'
    BY <1>a, <2>1, <2>2, <2>3, <2>4 DEF Told, DamagedAlone, BackupLoads, ChosenSafe
  <2> QED BY <2>2, <2>5 DEF Recalls
<1>9. CASE WriteFills
  <2>1. /\ UNCHANGED <<dir, disk, load, owed, chosen>>
        /\ call.step = "fill" /\ call'.step = "replace" /\ call'.kind = call.kind
        /\ call'.stage = call.stage /\ call'.data = call.data /\ call'.moved = call.moved
    BY <1>0, <1>9 DEF WriteFills, ghosts, Call
  <2>2. Held' = Held /\ MovedOnce'
    BY <1>a, <2>1 DEF Held, MovedOnce
  <2>3. \A d : Leftover(d)' <=> Leftover(d)
    BY <2>1, <2>2 DEF Leftover
  <2>4. Told'
    BY <1>a, <2>1, <2>2, <2>3 DEF Told
  <2>5. DamagedAlone' /\ BackupLoads' /\ ChosenSafe'
    BY <1>a, <2>1, <2>2, <2>3 DEF DamagedAlone, BackupLoads, ChosenSafe
  <2> QED BY <2>2, <2>4, <2>5 DEF Recalls
<1>10. CASE WriteReplaces
  BY <1>10, ReplaceRecalls
<1>11. CASE WriteSyncs \/ WriteNotDurable
  BY <1>11, EndsRecalls
<1>12. ASSUME NEW c \in ByHand, HandEdit(c) PROVE Recalls'
  <2>1. c \in File \ {Torn}
    BY RegistryAssumption
  <2> QED BY <1>12, <2>1, EditRecalls
<1>13. CASE Ends
  <2>1. /\ UNCHANGED <<dir, disk, owed, chosen>> /\ call.kind # "restore"
        /\ load'.kind = "off" /\ load'.raw = None
        /\ call'.kind = "none" /\ call'.stage = "none"
    BY <1>13 DEF Ends, ghosts, Off, Idle
  <2>2. Held' = Held /\ MovedOnce'
    BY <2>1 DEF Held, MovedOnce
  <2> QED BY <1>0, <1>a, <2>1, <2>2, QuietRecalls
<1>14. CASE PowerFails
  BY <1>14, PowerRecalls
<1>15. CASE Save
  BY <1>5, <1>6, <1>7, <1>8, <1>15 DEF Save
<1> QED
  BY <1>1, <1>2, <1>3, <1>4, <1>9, <1>10, <1>11, <1>12, <1>13, <1>14, <1>15
     DEF Next, Restore, Write

\* What is shown and not stored was reported as not saved, by every attempt,
\* or is a port that a poll confirmed, whose saves are silent; whatever else
\* happens: a refused save, a failed one, an edit made by hand, a power failure,
\* a restore (`_should_write`, `_save_confirmed_ports`).
THEOREM UnsavedIsSaidAlways == Spec => []UnsavedIsSaid
<1> DEFINE Inv == IInv /\ BackedUpFirst /\ LoadSays /\ UnsavedIsSaid /\ Quietly
<1>1. Init => Inv
  BY InitIInv, InitBackedUp DEF Init, LoadSays, UnsavedIsSaid, Quietly, Off, Idle
<1>2. Inv /\ [Next]_vars => Inv'
  <2>1. ASSUME Inv, UNCHANGED vars PROVE Inv'
    BY <2>1, IInvStep DEF vars, BackedUpFirst, LoadSays, UnsavedIsSaid, Quietly
  <2> QED BY <2>1, IInvStep, BackedUpStep, SaysStep, QuietStep
<1>3. Inv => UnsavedIsSaid
  OBVIOUS
<1> QED BY <1>1, <1>2, <1>3, PTL DEF Spec

KInv == EInv /\ LoadSays /\ UnsavedIsSaid /\ Quietly /\ Recalls

LEMMA InitKInv == Init => KInv
BY InitIInv, InitBackedUp, InitCopies, InitRecalls
   DEF Init, KInv, EInv, LoadSays, UnsavedIsSaid, Quietly, Off, Idle

LEMMA KInvStep == ASSUME Hazard = {}, KInv, [Next]_vars PROVE KInv'
<1>1. IInv'
  BY IInvStep DEF KInv, EInv
<1>2. CASE UNCHANGED vars
  <2>1. BackedUpFirst' /\ Copies'
    BY <1>2 DEF vars, KInv, EInv, BackedUpFirst, Copies, OnDisk, Licensed, CopiedFirst
  <2>2. LoadSays' /\ UnsavedIsSaid' /\ Quietly'
    BY <1>2 DEF vars, KInv, LoadSays, UnsavedIsSaid, Quietly
  <2>3. Recalls'
    BY <1>2 DEF vars, KInv, Recalls, MovedOnce, Told, Held, Leftover, DamagedAlone,
       BackupLoads, ChosenSafe
  <2> QED BY <1>1, <2>1, <2>2, <2>3 DEF KInv, EInv
<1>3. CASE Next
  <2>1. /\ BackedUpFirst' /\ Copies' /\ LoadSays' /\ UnsavedIsSaid'
        /\ Quietly' /\ Recalls'
    BY <1>3, BackedUpStep, CopiesStep, SaysStep, QuietStep, RecallsStep DEF KInv, EInv
  <2> QED BY <1>1, <2>1 DEF KInv, EInv
<1> QED BY <1>2, <1>3

\* What the user was last told of the file is true of it: a reader, after any
\* power failure too, finds what was said to be saved or what has been written
\* since, and what is not saved was reported so, but for confirmed ports.
THEOREM UserToldTruthAlways == ASSUME Hazard = {} PROVE Spec => []UserToldTruth
<1>1. Init => KInv
  BY InitKInv
<1>2. KInv /\ [Next]_vars => KInv'
  BY KInvStep
<1>3. KInv => UserToldTruth
  <2> SUFFICES ASSUME KInv PROVE PromiseKept /\ UnsavedIsSaid
    BY DEF UserToldTruth
  <2>1. Held \in owed /\ UnsavedIsSaid
    BY DEF KInv, Recalls, Told
  <2>2. call.kind # "restore" => Held = dir["projects"]
    BY DEF Held
  <2> QED BY <2>1, <2>2 DEF PromiseKept
<1> QED BY <1>1, <1>2, <1>3, PTL DEF Spec

\* Nothing that came from the file is forgotten on the way back to it: the load
\* that licenses the next save describes the file, with the keys of a newer
\* build, and a backup the user chose is never replaced before it is loaded.
THEOREM NothingForgottenAlways == ASSUME Hazard = {} PROVE Spec => []NothingForgotten
<1>1. Init => KInv
  BY InitKInv
<1>2. KInv /\ [Next]_vars => KInv'
  BY KInvStep
<1>3. KInv => NothingForgotten
  <2> SUFFICES ASSUME KInv PROVE LoadNamesFile /\ ChosenKept
    BY DEF NothingForgotten
  <2>1. LoadNamesFile
    <3>1. call.kind = "none" /\ load.kind = "ok" /\ ~byHand => dir["projects"] = load.onDisk
      BY DEF KInv, EInv, Copies, Licensed
    <3>2. load.kind = "ok" =>
            load.onDisk \in {began, [list |-> load.list, keys |-> KeysOf(began)]}
      BY DEF KInv, LoadSays
    <3> QED BY <3>1, <3>2 DEF LoadNamesFile, KeysOf
  <2>2. ChosenKept
    <3>1. dir \in disk
      BY DEF KInv, EInv, IInv, NothingTorn
    <3>2. chosen # None => dir["backup"] = chosen
      BY <3>1 DEF KInv, Recalls, ChosenSafe
    <3> QED BY <3>2 DEF ChosenKept
  <2> QED BY <2>1, <2>2
<1> QED BY <1>1, <1>2, <1>3, PTL DEF Spec

=============================================================================
