------------------------------ MODULE Registry ------------------------------
(***************************************************************************)
(* The project list on disk: `projects.json`, its backup, and the copies   *)
(* the manager sets aside (src/lwsm/registry.py, configfile.py, and the    *)
(* one writer of the window, `MainWindow._write_records`).                 *)
(*                                                                         *)
(* Everything here runs on the GUI thread, so one call of `save_projects`  *)
(* or `restore_backup` is under way at a time.  It is split at the system  *)
(* calls, because between two of them the user's editor may write, the     *)
(* manager may be killed and the power may fail.                           *)
(*                                                                         *)
(* The directory is what readers see; `disk` is every state of it that a   *)
(* power failure may leave.  A file system applies renames in order, so    *)
(* these are the states since the directory was last synced.               *)
(***************************************************************************)
EXTENDS Naturals, FiniteSets

CONSTANTS
  List,       \* project lists: what the records of a file amount to
  Empty,      \* the list of no projects
  UserPart,   \* of each list, all of it but the ports that polls confirmed
  Key,        \* top-level keys that this build does not know
  Damaged,    \* contents that do not load at all
  Refusing,   \* contents that load with a row refused
  Torn,       \* what is found of a file whose data was not synced
  Aside,      \* names for the copies set aside
  None,       \* no file, no value
  ByHand,     \* bound: the contents that an editor leaves, or no file
  MaxEdits,   \* bound: changes made with an editor
  MaxCuts,    \* bound: power failures
  MaxLoose,   \* bound: directories the disk may hold when no sync succeeds
  Hazard      \* what may happen at a bad moment, see below

(***************************************************************************)
(* "edit_in_write":    the file is edited after the manager compared it    *)
(*                     and before it replaced it.                          *)
(* "half_restore":     a backup is being restored when the manager is      *)
(*                     killed, or the power fails before the disk knows    *)
(*                     how that ended, or the damaged file cannot be put   *)
(*                     back after a failure.                               *)
(***************************************************************************)
HazardKind == {"edit_in_write", "half_restore"}

Good == [list : List, keys : SUBSET Key]
Content == Good \cup Damaged \cup Refusing
File == Content \cup {None}
Name == {"projects", "backup"} \cup Aside

ASSUME RegistryAssumption ==
  /\ Empty \in List
  /\ DOMAIN UserPart = List
  /\ Torn \in Damaged
  /\ None \notin Content \cup Aside
  /\ Good \cap (Damaged \cup Refusing) = {}
  /\ Damaged \cap Refusing = {}
  /\ Aside \cap {"projects", "backup"} = {}
  /\ ByHand \subseteq File \ {Torn}
  /\ MaxEdits \in Nat /\ MaxCuts \in Nat /\ MaxLoose \in Nat
  /\ Hazard \subseteq HazardKind

VARIABLES
  dir,      \* what each name of the directory holds
  disk,     \* the directories a power failure may leave
  load,     \* MainWindow._load: a LoadResult, or why there is none
  shown,    \* ProjectController's records
  call,     \* the save_projects or restore_backup under way
  began,    \* ghost: what the session's load read
  unseen,   \* ghost: contents made by hand that no session has loaded
  byHand,   \* ghost: projects.json changed by hand since the session read it
  owed,     \* ghost: what the user may expect to find in projects.json
  chosen,   \* ghost: the durable backup the user asked to have back
  warned,   \* ghost: the last word on saving was that the list is not saved
  edits, cuts

vars == <<dir, disk, load, shown, call, began, unseen, byHand, owed, chosen,
          warned, edits, cuts>>
ghosts == <<began, unseen, byHand, owed, chosen, warned>>

-----------------------------------------------------------------------------
(* Loads and calls.                                                        *)

Load == [kind : {"off", "missing", "failed", "ok"},
         list : List, keys : SUBSET Key,
         raw : File,      \* the bytes read, until the first save kept them
         onDisk : File,   \* the digest of what was last read or written
         rows : BOOLEAN]  \* a row was refused

Off == [kind |-> "off", list |-> Empty, keys |-> {}, raw |-> None,
        onDisk |-> None, rows |-> FALSE]

\* load_projects: what is made of the contents of the file.
LoadOf(c) ==
  IF c \in Good
    THEN [kind |-> "ok", list |-> c.list, keys |-> c.keys, raw |-> c,
          onDisk |-> c, rows |-> FALSE]
  ELSE IF c \in Refusing
    THEN [Off EXCEPT !.kind = "ok", !.raw = c, !.onDisk = c, !.rows = TRUE]
  ELSE [Off EXCEPT !.kind = IF c = None THEN "missing" ELSE "failed"]

\* Mutant: the bytes of this save are backed up by the next.
LoadKeepsRaw(l) ==
  [kind |-> "ok", list |-> l, keys |-> load.keys,
   raw |-> [list |-> l, keys |-> load.keys],
   onDisk |-> [list |-> l, keys |-> load.keys], rows |-> FALSE]

\* load_after_save: the load that licenses the next save.
LoadAfterSave(l) ==
  [kind |-> "ok", list |-> l, keys |-> load.keys, raw |-> None,
   onDisk |-> [list |-> l, keys |-> load.keys], rows |-> FALSE]

Call == [kind : {"none", "save", "restore"},
         stage : {"none", "backup", "check", "aside", "move", "projects"},
         step : {"none", "fill", "replace", "sync"},
         list : List,                \* the list being saved
         silent : BOOLEAN,           \* by the writer that shows no message
         name : Name \cup {None},    \* the name being written
         data : File,                \* and its new contents
         synced : BOOLEAN,           \* the temporary file's data is on disk
         moved : Aside \cup {None}]  \* where the damaged file was put

Idle == [kind |-> "none", stage |-> "none", step |-> "none", list |-> Empty,
         silent |-> FALSE, name |-> None, data |-> None, synced |-> FALSE, moved |-> None]

\* The call goes on to write `c` at the name `n`.
Writing(stage, n, c) ==
  [call EXCEPT !.stage = stage, !.step = "fill", !.name = n, !.data = c,
               !.synced = FALSE]

\* A save that is about to replace projects.json.
WritingList == Writing("projects", "projects",
                       [list |-> call.list, keys |-> load.keys])

\* A write is refused before its rename: the directory cannot be made, the
\* target is not a plain file, the temporary cannot be filled.
MayFail == call.step # "sync"

FreeAsides == {a \in Aside : dir[a] = None}

-----------------------------------------------------------------------------
Init ==
  /\ dir = [n \in Name |-> None]
  /\ disk = {dir}
  /\ load = Off
  /\ shown = Empty
  /\ call = Idle
  /\ began = None
  /\ unseen = {}
  /\ byHand = FALSE
  /\ owed = {None}
  /\ chosen = None
  /\ warned = FALSE
  /\ edits = 0 /\ cuts = 0

-----------------------------------------------------------------------------
(* A session starts.  `build_window` loads the list; when it does not load *)
(* and there is a backup, it asks whether to restore it.                   *)

Opens(l, c) ==
  /\ load' = l
  /\ shown' = l.list
  /\ began' = c
  /\ unseen' = IF c \in Good THEN unseen \ {c} ELSE unseen
  /\ byHand' = FALSE
  /\ warned' = FALSE

Launch ==
  /\ load.kind = "off" /\ call.kind = "none"
  /\ Opens(LoadOf(dir["projects"]), dir["projects"])
  /\ UNCHANGED <<dir, disk, call, owed, chosen, edits, cuts>>

RestoreChosen ==
  /\ load.kind = "off" /\ call.kind = "none"
  /\ LoadOf(dir["projects"]).kind = "failed"
  /\ dir["backup"] # None
  /\ call' = [Idle EXCEPT !.kind = "restore", !.stage = "move",
                          !.data = dir["backup"]]
  /\ chosen' = IF \A d \in disk : d["backup"] = dir["backup"]
                 THEN dir["backup"] ELSE None
  /\ UNCHANGED <<dir, disk, load, shown, began, unseen, byHand, owed, warned,
                 edits, cuts>>

\* The damaged file is renamed; `exists()` and the rename may fail.
RestoreMoves ==
  /\ call.kind = "restore" /\ call.stage = "move"
  /\ IF dir["projects"] = None
       THEN UNCHANGED <<dir, disk>> /\ call' = Writing("projects", "projects", call.data)
       ELSE \E a \in FreeAsides :
              /\ dir' = [dir EXCEPT !["projects"] = None, ![a] = dir["projects"]]
              /\ disk' = disk \cup {dir'}
              /\ call' = [Writing("projects", "projects", call.data) EXCEPT !.moved = a]
  /\ UNCHANGED <<load, shown, ghosts, edits, cuts>>

\* Mutant: the failure leaves the damaged file where it was put (L02-M1).
LeavesAside == UNCHANGED <<dir, disk>>

\* A failed restore puts the damaged file back, if it can, and the session
\* goes on with the failure it had.
PutsBack ==
  /\ call.moved # None /\ dir["projects"] = None
  /\ dir' = [dir EXCEPT !["projects"] = dir[call.moved], ![call.moved] = None]
  /\ disk' = disk \cup {dir'}

RestoreFails ==
  /\ call.kind = "restore" /\ MayFail
  /\ \/ PutsBack
     \/ /\ call.moved = None \/ dir["projects"] # None \/ "half_restore" \in Hazard
        /\ UNCHANGED <<dir, disk>>
  /\ call' = Idle
  /\ Opens([Off EXCEPT !.kind = "failed"], dir["projects"])
  /\ UNCHANGED <<owed, chosen, edits, cuts>>

-----------------------------------------------------------------------------
(* save_projects, called by `_write_records` with a new list of records.   *)

\* Mutant: the records in memory are compared (LWSM-1166).
DiffersFromShown(l) == load.kind = "ok" => l # shown

\* _should_write: the load is compared, never the records in memory.
ShouldWrite(l) == load.kind = "ok" => l # load.list

\* _refuse_unwritable_load
MayWrite == load.kind = "missing" \/ (load.kind = "ok" /\ ~load.rows)

\* Who may ask for `l` to be saved.  `_save_confirmed_ports` does after a
\* poll, whose only changes are confirmed ports, and drops the message; every
\* other writer shows it.
Writes(l, silent) == silent => UserPart[l] = UserPart[shown]

\* A list that is the stored one is shown and nothing is written.
NothingToSave(l, silent) ==
  /\ load.kind # "off" /\ call.kind = "none"
  /\ Writes(l, silent)
  /\ ~ShouldWrite(l)
  /\ shown' = l
  /\ warned' = (silent /\ warned)
  /\ UNCHANGED <<dir, disk, load, call, began, unseen, byHand, owed, chosen,
                 edits, cuts>>

\* The gate, or the encoder, refuses the list; it is shown all the same.
SaveRefused(l, silent) ==
  /\ load.kind # "off" /\ call.kind = "none"
  /\ Writes(l, silent)
  /\ ShouldWrite(l)
  /\ shown' = l
  /\ warned' = (silent => warned)
  /\ UNCHANGED <<dir, disk, load, call, began, unseen, byHand, owed, chosen,
                 edits, cuts>>

\* _back_up: the bytes the session read, before its first save replaces them.
BacksUp(saving) ==
  [saving EXCEPT !.stage = "backup", !.step = "fill", !.name = "backup",
                 !.data = load.raw]

SaveBegins(l, silent) ==
  /\ load.kind # "off" /\ call.kind = "none"
  /\ Writes(l, silent)
  /\ ShouldWrite(l) /\ MayWrite
  /\ LET saving == [Idle EXCEPT !.kind = "save", !.list = l, !.silent = silent]
     IN call' = IF load.raw # None THEN BacksUp(saving)
                  ELSE [saving EXCEPT !.stage = "check"]
  /\ UNCHANGED <<dir, disk, load, shown, ghosts, edits, cuts>>

\* Mutant: a first run has nothing to compare with (before LWSM-1495).
IsEditOfLoad(c) == load.kind = "ok" /\ c # None /\ c # load.onDisk

\* _set_aside_if_edited: other bytes than those last read or written are
\* copied aside; with no load, any file is an edit.
IsEdit(c) == c # None /\ c # load.onDisk

SaveChecks ==
  /\ call.kind = "save" /\ call.stage = "check"
  /\ IF IsEdit(dir["projects"])
       THEN \E a \in FreeAsides : call' = Writing("aside", a, dir["projects"])
       ELSE call' = WritingList
  /\ UNCHANGED <<dir, disk, load, shown, ghosts, edits, cuts>>

\* The session keeps its load, so the next save tries again.  The failure of
\* a silent save goes to the log alone.
SaveFails ==
  /\ call.kind = "save" /\ MayFail
  /\ call' = Idle
  /\ shown' = call.list
  /\ warned' = (call.silent => warned)
  /\ UNCHANGED <<dir, disk, load, began, unseen, byHand, owed, chosen, edits, cuts>>

-----------------------------------------------------------------------------
(* write_atomically: a temporary file beside the target is filled and      *)
(* synced, renamed over it, and the directory is synced.                   *)

\* Mutant: the temporary file is not synced.
WriteFillsSoftly ==
  /\ call.step = "fill"
  /\ call' = [call EXCEPT !.step = "replace"]
  /\ UNCHANGED <<dir, disk, load, shown, ghosts, edits, cuts>>

WriteFills ==
  /\ call.step = "fill"
  /\ call' = [call EXCEPT !.step = "replace", !.synced = TRUE]
  /\ UNCHANGED <<dir, disk, load, shown, ghosts, edits, cuts>>

WriteReplaces ==
  /\ call.step = "replace"
  /\ dir' = [dir EXCEPT ![call.name] = call.data]
  /\ disk' = disk \cup {dir'}
               \cup (IF call.synced THEN {} ELSE {[dir' EXCEPT ![call.name] = Torn]})
  /\ call' = [call EXCEPT !.step = "sync"]
  /\ IF call.name = "projects"
       THEN /\ byHand' = FALSE
            /\ unseen' = unseen \ {call.data}
            /\ owed' = owed \cup {call.data}
       ELSE UNCHANGED <<unseen, byHand, owed>>
  /\ UNCHANGED <<load, shown, began, chosen, warned, edits, cuts>>

\* The restored file is loaded; a list that does not load, or is gone, leaves
\* the failure the session had.
RestoredLoad ==
  IF LoadOf(dir["projects"]).kind = "ok" THEN LoadOf(dir["projects"])
  ELSE [Off EXCEPT !.kind = "failed"]

\* What the caller does once its file is written.  A copy that may not be
\* durable is logged, the list that may not be is told to the user.  A silent
\* save leaves the message there is, or puts the news of a copy set aside in
\* its place.
BackedUp ==
  /\ call.stage = "backup"
  /\ call' = [call EXCEPT !.stage = "check", !.step = "none", !.name = None,
                          !.data = None]
  /\ UNCHANGED <<load, shown, began, unseen, byHand, chosen, warned>>

SetAside ==
  /\ call.stage = "aside"
  /\ call' = WritingList
  /\ UNCHANGED <<load, shown, began, unseen, byHand, chosen, warned>>

Saved ==
  /\ call.kind = "save" /\ call.stage = "projects"
  /\ call' = Idle
  /\ load' = LoadAfterSave(call.list)
  /\ shown' = call.list
  /\ warned' \in {FALSE, call.silent /\ warned}
  /\ UNCHANGED <<began, unseen, byHand, chosen>>

Restored ==
  /\ call.kind = "restore"
  /\ call' = Idle
  /\ Opens(RestoredLoad, dir["projects"])
  /\ chosen' = IF dir["projects"] = chosen THEN None ELSE chosen

WriteEnds == BackedUp \/ SetAside \/ Saved \/ Restored

WriteSyncs ==
  /\ call.step = "sync"
  /\ disk' = {dir}
  /\ WriteEnds
  /\ IF call.stage = "projects" THEN owed' = {dir["projects"]} ELSE owed' = owed
  /\ UNCHANGED <<dir, edits, cuts>>

\* ConfigFileNotDurable
WriteNotDurable ==
  /\ call.step = "sync"
  /\ Cardinality(disk) <= MaxLoose
  /\ WriteEnds
  /\ owed' = owed \cup {d["projects"] : d \in disk}
  /\ UNCHANGED <<dir, disk, edits, cuts>>

-----------------------------------------------------------------------------
(* The user's editor, and the ends of a session.                           *)

\* Between the comparison and the rename an edit is not noticed.
Exposed ==
  \/ call.kind = "save" /\ call.stage = "aside"
  \/ call.stage = "projects" /\ call.step # "sync"

HandEdit(c) ==
  /\ edits < MaxEdits
  /\ Exposed => "edit_in_write" \in Hazard
  /\ c # dir["projects"]
  /\ edits' = edits + 1
  /\ dir' = [dir EXCEPT !["projects"] = c]
  /\ disk' = {dir'}
  /\ unseen' = (unseen \ {dir["projects"]}) \cup ({c} \ {None, load.onDisk, call.data})
  /\ byHand' = TRUE
  /\ owed' = {c}
  /\ chosen' = None
  /\ UNCHANGED <<load, shown, call, began, warned, cuts>>

\* The window closes, or the manager is killed: what the kernel holds stays.
Ends ==
  /\ load.kind # "off" \/ call.kind = "restore"
  /\ call.kind = "restore" => "half_restore" \in Hazard
  /\ load' = Off /\ call' = Idle /\ shown' = Empty
  /\ UNCHANGED <<dir, disk, ghosts, edits, cuts>>

\* The disk may still hold a restore that was under way, undone or not.
HalfRestored ==
  \/ call.kind = "restore"
  \/ dir["projects"] # None
       /\ \E d \in disk, a \in Aside : d["projects"] = None /\ d[a] = dir["projects"]

PowerFails ==
  /\ cuts < MaxCuts
  /\ HalfRestored => "half_restore" \in Hazard
  /\ cuts' = cuts + 1
  /\ dir' \in disk
  /\ disk' = {dir'}
  /\ load' = Off /\ call' = Idle /\ shown' = Empty
  /\ UNCHANGED <<ghosts, edits>>

-----------------------------------------------------------------------------
Save ==
  \/ \E l \in List, silent \in BOOLEAN :
       NothingToSave(l, silent) \/ SaveRefused(l, silent) \/ SaveBegins(l, silent)
  \/ SaveChecks \/ SaveFails

Restore == RestoreChosen \/ RestoreMoves \/ RestoreFails

Write == WriteFills \/ WriteReplaces \/ WriteSyncs \/ WriteNotDurable

Next ==
  \/ Launch \/ Restore \/ Save \/ Write
  \/ \E c \in ByHand : HandEdit(c)
  \/ Ends \/ PowerFails

Spec == Init /\ [][Next]_vars

-----------------------------------------------------------------------------
Directory == [Name -> File]

TypeOK ==
  /\ dir \in Directory
  /\ disk \subseteq Directory
  /\ load \in Load /\ shown \in List /\ call \in Call
  /\ began \in File /\ unseen \subseteq Content /\ byHand \in BOOLEAN
  /\ owed \subseteq File /\ chosen \in File /\ warned \in BOOLEAN
  /\ edits \in 0..MaxEdits /\ cuts \in 0..MaxCuts

\* An edit made by hand is never lost silently: until a session has loaded
\* it, it is in projects.json or in a copy beside it, whatever was saved,
\* failed, killed or cut off since (`_set_aside_if_edited`, `restore_backup`).
EditKept == \A e \in unseen : \E n \in Name \ {"backup"} : dir[n] = e

\* Only a change made outside the app is set aside: no save mistakes an
\* earlier write of the app, durable or not, for one (`load_after_save`).
NoFalseEdit == call.stage = "aside" => byHand

\* An edit made by hand is set aside, and nothing else is.
EditsKept == EditKept /\ NoFalseEdit

\* What a reader finds is what the user was last told is saved, or what the
\* app has been writing since; after a power failure too
\* (`write_atomically`'s syncs, `ConfigFileNotDurable`).
PromiseKept == dir["projects"] \in owed \/ call.kind = "restore"

\* The first save of a session keeps what the session started from, and no
\* later save of the session touches it (`_back_up`, once per run).
BackupIsStart ==
  load.kind = "ok" /\ began # None /\ load # LoadOf(began) => dir["backup"] = began

\* What is shown and not stored is a port that a poll confirmed, which the
\* code keeps quiet about (`_save_confirmed_ports`), or it was reported as not
\* saved, by every attempt, until a save succeeds (`_should_write`: the load is
\* compared).  A silent save after a reported failure takes back neither.
UnsavedIsSaid == UserPart[shown] # UserPart[load.list] => warned

\* What the user was told of the file is true of it.
UserToldTruth == PromiseKept /\ UnsavedIsSaid

\* The load that licenses the next save describes the file: its records, and
\* the keys of a newer build the session started with (`load_after_save`).
LoadNamesFile ==
  call.kind = "none" /\ load.kind = "ok" /\ ~byHand =>
    dir["projects"] \in
      {began, [list |-> load.list,
               keys |-> IF began \in Good THEN began.keys ELSE {}]}

\* A backup the user asked to have back is not lost before it is loaded,
\* although a restore may fail at any step (`restore_backup`).
ChosenKept == chosen # None => chosen \in {dir["backup"], dir["projects"]}

\* Nothing that came from the file is forgotten on the way back to it: the keys
\* of a newer build, the backup that is being restored.
NothingForgotten == LoadNamesFile /\ ChosenKept

\* Whatever the manager writes, is killed in or loses power in, a reader of
\* the list or of its backup finds an old version or a new one, never a torn
\* one and never one older than the last made durable (`write_atomically`).
ListFile == INSTANCE AtomicFile WITH
              Whole <- File \ {Torn}, value <- dir["projects"],
              may <- {d["projects"] : d \in disk}
BackupFile == INSTANCE AtomicFile WITH
                Whole <- File \ {Torn}, value <- dir["backup"],
                may <- {d["backup"] : d \in disk}
ImplementsAtomicFile == ListFile!Spec /\ BackupFile!Spec
=============================================================================
