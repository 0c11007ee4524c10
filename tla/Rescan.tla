------------------------------- MODULE Rescan -------------------------------
(***************************************************************************)
(* A rescan and everything that may happen while it runs (the window's     *)
(* `_RescanTask`, `_on_rescan_done`, the first run's dialog and the other   *)
(* writers of the records).  A pool thread scans and merges against the     *)
(* records as they were; the result is applied to the records as they are,  *)
(* after edits, polls that confirmed a port, and failed saves.              *)
(***************************************************************************)
EXTENDS Merge

CONSTANTS
  Starts,     \* what the session may start from: loads
  Scans,      \* what a scan may report
  Profiles,   \* profiles from elsewhere
  MaxScans,   \* bound: rescans
  MaxSteps,   \* bound: edits, confirmed ports, exports and imports
  Hazard      \* {"dialog_over_unsaved"}: a poll confirms a port while the
              \* first run's dialog is open over a list whose save failed

\* The window's load: there is no file, it does not load, or its records.
Loads == [kind : {"missing", "failed", "ok"}, list : Seq(Record)]

\* `asked` is false when systemd could not be asked all the way.
ScanResult == [found : Seq(Found), asked : BOOLEAN]

\* The loader refuses the second row of a path (ADR-0005), and a scan takes up a
\* resolved directory once.
OnePerPath(list) ==
  \A i, j \in DOMAIN list : list[i].path = list[j].path => i = j

ASSUME RescanAssumption ==
  /\ Starts \subseteq Loads
  /\ \A s \in Starts : s.kind # "ok" => s.list = <<>>
  /\ Scans \subseteq ScanResult
  /\ \A s \in Starts : OnePerPath(s.list)
  /\ \A s \in Scans : /\ OnePerPath(s.found)
                      /\ \A k \in DOMAIN s.found : Place[s.found[k].path] = s.found[k].path
  /\ Profiles \subseteq Seq(Record)
  /\ MaxScans \in Nat /\ MaxSteps \in Nat
  /\ Hazard \subseteq {"dialog_over_unsaved"}

VARIABLES
  records,   \* ProjectController's records
  load,      \* MainWindow._load: what the window knows to be stored
  task,      \* the rescan in flight
  stopped,   \* controller.stop and MainWindow.shutdown were called
  profile,   \* the profile file
  agreed,    \* ghost: the user let a list be written where there was none
  scans, steps

vars == <<records, load, task, stopped, profile, agreed, scans, steps>>

NoScan == [found |-> <<>>, asked |-> TRUE]
Idle == [state |-> "idle", scan |-> NoScan, list |-> <<>>]

\* The time of a merge; every record of Starts is older.
Now == 2 + scans

-----------------------------------------------------------------------------
Init ==
  /\ load \in Starts
  /\ records = load.list
  /\ task = Idle
  /\ stopped = FALSE
  /\ profile \in Profiles
  /\ agreed = (load.kind # "missing")
  /\ scans = 0 /\ steps = 0

\* _write_records: a list that differs from the load is saved, the save may
\* fail, and the list is shown in any case.
Written(list) ==
  /\ records' = list
  /\ \/ /\ load.kind = "missing" \/ (load.kind = "ok" /\ list # load.list)
        /\ load' = [kind |-> "ok", list |-> list]
     \/ UNCHANGED load

-----------------------------------------------------------------------------
(* The rescan.                                                             *)

\* _start_rescan: one at a time; the worker keeps the records of now.
StartRescan ==
  /\ ~stopped /\ task.state = "idle"
  /\ scans < MaxScans
  /\ scans' = scans + 1
  /\ task' = [Idle EXCEPT !.state = "running", !.list = records]
  /\ UNCHANGED <<records, load, stopped, profile, agreed, steps>>

\* _RescanTask.run
ScanEnds(s) ==
  /\ task.state = "running"
  /\ task' = [state |-> "done", scan |-> s,
              list |-> Merged(task.list, s.found, s.asked, Now)]
  /\ UNCHANGED <<records, load, stopped, profile, agreed, scans, steps>>

ScanFails ==
  /\ task.state = "running"
  /\ task' = [Idle EXCEPT !.state = "failed"]
  /\ UNCHANGED <<records, load, stopped, profile, agreed, scans, steps>>

\* _on_rescan_failed
RescanFailed ==
  /\ ~stopped /\ task.state = "failed"
  /\ task' = Idle
  /\ UNCHANGED <<records, load, stopped, profile, agreed, scans, steps>>

\* is_first_run
FirstRun == ~stopped /\ load.kind = "missing"

\* Mutant: the merge's own user half is applied.
AsMerged(list) == list

\* The user's half, and the sighting of the same declared port, are those of the
\* record of now.
CurrentHalf(r, now) ==
  [UserHalfApplied(r, now) EXCEPT
     !.seen = IF r.port = now.port THEN now.seen ELSE @]

RecordsAt(path) == {i \in DOMAIN records : records[i].path = path}

Current(r) ==
  LET at == RecordsAt(r.path)
  IN IF at = {} THEN r
     ELSE CurrentHalf(r, records[CHOOSE i \in at : \A k \in at : k <= i])

\* _with_current_user_half: what was chosen during the scan wins (LWSM-1199).
WithCurrentUserHalf(list) == [i \in DOMAIN list |-> Current(list[i])]

\* Mutant: the slot's failure is not caught.
RescanDoneStuck ==
  /\ ~stopped /\ task.state = "done"
  /\ \/ Written(WithCurrentUserHalf(task.list)) /\ task' = Idle
     \/ /\ task' = [task EXCEPT !.state = "stuck"]
        /\ UNCHANGED <<records, load>>
  /\ UNCHANGED <<stopped, profile, agreed, scans, steps>>

\* _on_rescan_done and _apply_rescan.  A first run asks before it writes;
\* what is raised on the way ends the rescan all the same (LWSM-1135).
RescanDone ==
  /\ ~stopped /\ task.state = "done"
  /\ LET list == WithCurrentUserHalf(task.list)
     IN \/ /\ FirstRun
           /\ task' = [task EXCEPT !.state = "asked", !.list = list]
           /\ UNCHANGED <<records, load>>
        \/ /\ ~FirstRun
           /\ Written(list)
           /\ task' = Idle
        \/ /\ task' = Idle
           /\ UNCHANGED <<records, load>>
  /\ UNCHANGED <<stopped, profile, agreed, scans, steps>>

\* The records of a list that are ticked, in its order.
Ticked(list, paths) == Kept(list, {i \in DOMAIN list : list[i].path \in paths})

\* Mutant: a quit while the dialog was open is not noticed (LWSM-1139).
DialogSaveAnyway(paths) ==
  /\ task.state = "asked"
  /\ task' = Idle
  /\ agreed' = TRUE
  /\ Written(Ticked(task.list, paths))
  /\ UNCHANGED <<stopped, profile, scans, steps>>

DialogSave(paths) ==
  /\ task.state = "asked"
  /\ task' = Idle
  /\ IF stopped
       THEN UNCHANGED <<records, load, agreed>>
       ELSE Written(Ticked(task.list, paths)) /\ agreed' = TRUE
  /\ UNCHANGED <<stopped, profile, scans, steps>>

DialogNotNow ==
  /\ task.state = "asked"
  /\ task' = Idle
  /\ UNCHANGED <<records, load, stopped, profile, agreed, scans, steps>>

-----------------------------------------------------------------------------
(* What else writes the records.  The dialog of the first run is modal.    *)

Acts ==
  /\ ~stopped
  /\ steps < MaxSteps
  /\ steps' = steps + 1
  /\ UNCHANGED <<task, stopped, scans>>

\* Every record of the path is replaced.  Hide, browser:
ChangeChoice(p, c) ==
  /\ task.state # "asked" /\ Acts
  /\ Written([i \in DOMAIN records |->
                IF records[i].path = p THEN [records[i] EXCEPT !.choice = c]
                ELSE records[i]])
  /\ UNCHANGED <<profile, agreed>>

\* The health check and its page:
ChangeMine(p, m) ==
  /\ task.state # "asked" /\ Acts
  /\ Written([i \in DOMAIN records |->
                IF records[i].path = p THEN [records[i] EXCEPT !.mine = m]
                ELSE records[i]])
  /\ UNCHANGED <<profile, agreed>>

\* change_port:
ChangePort(p, port) ==
  /\ task.state # "asked" /\ Acts
  /\ Written([i \in DOMAIN records |->
                IF records[i].path = p THEN WithPortOverride(records[i], port)
                ELSE records[i]])
  /\ UNCHANGED <<profile, agreed>>

UserEdits ==
  \E p \in {records[i].path : i \in DOMAIN records} :
    \/ \E c \in Choice : ChangeChoice(p, c)
    \/ \E m \in Mine : ChangeMine(p, m)
    \/ \E port \in Port \cup {None} : ChangePort(p, port)

\* export_profile: a list that loaded whole.
Export ==
  /\ task.state # "asked" /\ Acts
  /\ records # <<>> /\ load.kind # "failed"
  /\ profile' = records
  /\ UNCHANGED <<records, load, agreed>>

\* _import_profile, disabled while a rescan is in flight.
Import ==
  /\ task.state = "idle" /\ Acts
  /\ Written(MergedProfile(records, profile))
  /\ agreed' = TRUE
  /\ UNCHANGED profile

\* A poll sees the project on a port (_on_snapshot), and the window saves
\* it (_save_confirmed_ports).
Confirm(i, port) ==
  /\ task.state = "asked" => "dialog_over_unsaved" \in Hazard
  /\ Acts
  /\ records[i].seen # port
  /\ Written([records EXCEPT ![i].seen = port])
  /\ UNCHANGED <<profile, agreed>>

Polls == \E i \in DOMAIN records, port \in Port : Confirm(i, port)

\* controller.stop and MainWindow.shutdown; a dialog may still be open.
Shutdown ==
  /\ ~stopped
  /\ stopped' = TRUE
  /\ UNCHANGED <<records, load, task, profile, agreed, scans, steps>>

-----------------------------------------------------------------------------
Worker == ScanFails \/ \E s \in Scans : ScanEnds(s)

Slot == RescanFailed \/ RescanDone

Dialog ==
  DialogNotNow
    \/ \E paths \in SUBSET {task.list[i].path : i \in DOMAIN task.list} :
         DialogSave(paths)

Next == StartRescan \/ Worker \/ Slot \/ Dialog \/ UserEdits \/ Export \/ Import
          \/ Polls \/ Shutdown

Spec == Init /\ [][Next]_vars

\* The pool runs its task, whose scan is budgeted, and the event loop
\* delivers its signal.  The user need do nothing.
FairSpec == Spec /\ WF_vars(Worker) /\ WF_vars(Slot)

-----------------------------------------------------------------------------
Paths(list) == {list[i].path : i \in DOMAIN list}
UserHalf(r) == <<r.override, r.choice, r.mine, r.added>>

\* Each record that is there before and after a step, with what it became.
Became == {c \in (DOMAIN records) \X (DOMAIN records') :
             /\ records[c[1]].path = records'[c[2]].path
             /\ \A k \in 1..(c[1] - 1) : records[k].path # records[c[1]].path
             /\ \A m \in 1..(c[2] - 1) : records'[m].path # records'[c[2]].path}

TypeOK ==
  /\ records \in Seq(Record) /\ load \in Loads
  /\ task \in [state : {"idle", "running", "done", "failed", "asked"},
               scan : ScanResult, list : Seq(Record)]
  /\ stopped \in BOOLEAN /\ agreed \in BOOLEAN
  /\ profile \in Seq(Record)
  /\ scans \in 0..MaxScans /\ steps \in 0..MaxSteps

\* What the user chose changes only when the user changes it: no rescan,
\* whatever it overlapped, brings back what was chosen before
\* (`_with_current_user_half`), and what runs does not even come with an
\* import (`NEVER_IMPORTED_FIELDS`).
UserHalfKept ==
  [][\A c \in Became :
       LET old == records[c[1]]
           new == records'[c[2]]
       IN /\ UserHalf(new) # UserHalf(old) => UserEdits \/ Import
          /\ new.mine # old.mine => UserEdits]_vars

\* A port that a poll saw a project on is forgotten only with the port it was
\* seen in place of: the declared one, or the override (LWSM-1038).
SightingKept ==
  [][\A c \in Became :
       LET old == records[c[1]]
           new == records'[c[2]]
       IN /\ new.seen # old.seen =>
               Polls \/ new.port # old.port \/ new.override # old.override
          /\ new.port # old.port \/ new.override # old.override =>
               new.seen = None]_vars

\* A rescan leaves what the user chose and what a poll saw as they are now.
ChoicesKept == UserHalfKept /\ SightingKept

\* What the scan that is applied said of a record's directory.
Said(r) == {f \in {task.scan.found[k] : k \in DOMAIN task.scan.found} : SamePlace(r, f.path)}

\* A launcher or a declared port is what a scan of this machine reported, and
\* is given up only for a scan that could see it was gone: nothing runs from
\* a profile (LWSM-1216), a file that could not be read clears no port, and a
\* unit that systemd would not own up to is not started a second time.
OnlyObserved ==
  [][/\ \A c \in Became :
          LET old == records[c[1]]
              new == records'[c[2]]
          IN /\ new.launch # old.launch =>
                  \E f \in Said(new) :
                    f.launch = new.launch /\ (old.launch \in Unit => task.scan.asked)
             /\ new.port # old.port =>
                  \E f \in Said(new) : f.port = new.port /\ (f.port = None => f.clean)
     /\ \A j \in DOMAIN records' :
          LET new == records'[j]
          IN \/ new.path \in Paths(records)
             \/ new.launch = None /\ new.port = None
             \/ \E f \in Said(new) : f.launch = new.launch /\ f.port = new.port]_vars

\* No project leaves the list, or its file, because a scan did not find it or
\* a profile did not name it: only the first run's dialog leaves one out.  And
\* none comes a second time, under its own path, which the loader would refuse,
\* or under another spelling (`_identity_owners`).
SameProjects ==
  [][/\ Paths(records) \subseteq Paths(records') \/ (FirstRun /\ Dialog)
     /\ load.kind = "ok" => Paths(load.list) \subseteq Paths(load'.list)
     /\ OnePerPath(records')
     /\ \A j \in DOMAIN records' :
          records'[j].path \notin Paths(records) =>
            \A i \in 1..(j - 1) : Place[records'[i].path] # Place[records'[j].path]]_vars

\* A scan adds and changes what it saw, and takes nothing away.
NothingInventedOrLost == OnlyObserved /\ SameProjects

\* Where there was no file, nothing is listed or written before the user said
\* so, however often a save failed and a rescan began again (LWSM-1008).
AskedFirst == records # <<>> \/ load.kind = "ok" => agreed

\* Once the window is shut down a late result, or a dialog left open, changes
\* neither the records nor the file (LWSM-1139).
QuietWhenStopped == [][stopped => UNCHANGED <<records, load>>]_vars

\* The list is written while the user wants it to be.
WrittenWithConsent == []AskedFirst /\ QuietWhenStopped

\* A scan or a profile that was merged changes nothing when it is merged
\* again, and a list that is exported is the list when it comes back, even one
\* that names a directory twice: no rescan rewrites the file for nothing.
Settles ==
  /\ task.state = "done" =>
       LET Again(list) == Merged(list, task.scan.found, task.scan.asked, Now)
       IN Again(Again(records)) = Again(records)
  /\ LET Again(list) == MergedProfile(list, profile)
     IN Again(Again(records)) = Again(records)
  /\ MergedProfile(records, records) = records

\* Who may start on a port that two projects claim is not turned round by a
\* rescan (ADR-0005's tie-break, `added` and the order of the file).
TieBreakKept ==
  [][\A c \in Claims(records) : \A l, w \in Became :
       l[1] = c[1] /\ w[1] = c[2] /\ ~Import
         => Before(records', w[2], l[2])]_vars

\* Every rescan ends with its button enabled or its question asked.
RescanEnds ==
  task.state \notin {"idle", "asked"} ~> task.state \in {"idle", "asked"} \/ stopped
=============================================================================
