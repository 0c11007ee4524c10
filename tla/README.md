# Local Web Server Manager: specifications and proofs

TLA+ modules, TLC configurations and TLAPS proofs for the program under
`src/` (paths below are relative to `src/src/lwsm/` unless they start with
`docs/`). Every definition translates code; `PROJECT.json` names the lines.

## 1. The system

A desktop program lists the web projects of a user, starts and stops their
servers, and shows, from a poll of the kernel's socket table, what is running.
One GUI thread owns all the widgets and the controller; everything slow runs on
pool threads that report back by queued signals.

| Part | Files | State | Operations | Talks to |
|---|---|---|---|---|
| Supervisor | `supervisor.py` 857-2027 | `_Registry`: processes, starting, stopping, stragglers under one lock; log descriptors | start, stop, stop_async, reap_exited, rotate_if_needed, adopt, close | kernel, started record, controller |
| Launcher trust | `supervisor.py` 228-790, `stores.py` 110-226 | `trust.json`: a fingerprint per project | validate, confirm, revoke | supervisor.start, controller |
| Started record | `stores.py` 229-378 | `started.json`: pid, create_time, since_boot, boot_id per project | add, remove, freeze, load | supervisor |
| Controller | `controller.py` | statuses, one overlay, in-flight flags, reaped, gone, holders, managed, adopted/pending units, watched unit, restarting, health answers | poll, start, stop, restart, foreign stop, service verbs, set_records, stop | supervisor, probe, service, window |
| Service verbs | `service.py`, `controller.py` 830-1000, 1760-1900, 2300-2350 | systemd's units, a drop-in file per unit | unit_for_pid, unit_belongs_to, set/clear_drop_in, drive_unit, unit_state | controller |
| Port probe | `ports.py` | none | snapshot, free_port | controller |
| Foreign servers | `foreign.py` | none | enumerate_tree, stop_tree, looks_like | controller, window |
| Health | `health.py` | none | ask | controller |
| Atomic files | `configfile.py` | temporary and target files | read_bounded, write_atomically | every store |
| Registry | `registry.py` | `projects.json`, its backup, the set-aside copies | load, save, merge, import, export, restore | window, controller |
| Scanner | `scanner.py`, `scanroots.py` | none; the list of roots | scan | window's rescan task |
| Window | `mainwindow.py` and the dialogs | the load, disclosures, the rescan in flight | user actions, rescan, save | controller, registry |
| Startup | `__main__.py` | socket name, lock file | claim, hand over, shut down | everything |
| Logs | `logbuffer.py`, `logpanel.py`, `applog.py` | follower positions, a bounded buffer | follow, rotate | supervisor's logs |
| Rest | `settings*`, `placement`, `browsers`, `portlookup`, `firstrun`, `theme`, `appearance` | plain values and widgets | | |

What is hard, and where (the hazards of `PROJECT.json` give the lines):

- **Concurrency.** Start runs on the GUI thread, stops on a four-thread
  executor, service verbs on a pool of two, the reaper and the log rotation on
  the poll's upkeep pool, a rescan on a pool of its own; they meet at the
  registry's lock, or only in queued signals.
- **Stale observation.** A poll, a rescan, an `is-active` take seconds while
  the user clicks; every result describes the past when it arrives.
- **The kernel.** Pids, group ids and descriptor numbers are reissued; groups
  change while they are enumerated; a wrapper exits before its server; a socket
  file outlives the process that bound it.
- **Failure half-way.** A walk that raises, a full disk, a rename that was not
  made durable, a verb that timed out with its drop-in in place, a scan cut
  short by its budget, a machine that reboots with servers recorded.
- **Other writers.** The user edits `projects.json` by hand, two copies of the
  app are launched at once, a profile comes from another machine.
- **Liveness.** A reservation, an overlay, a rescan or an in-flight flag that
  nothing clears disables a button for the rest of the session.

What makes each part correct:

- *Supervisor*: one server per project; no server out of reach; a descriptor
  or group id is used only while it is ours; a clean outcome is true;
  reservations end.
- *Started record and adoption*: a server held is recorded, a recorded entry is
  adopted only if it is the same process, and stale entries disappear.
- *Controller*: an overlay is shown only while its transition is under way and
  always ends; polls never wedge; a restart starts exactly once; ownership is
  never claimed on a lost socket table.
- *Service verbs*: a unit starts on the port that was asked for, no drop-in is
  left without a reason, no stranger's unit becomes the project's own.
- *Files and registry*: a crash leaves the old or the new contents, an edit
  made by hand is never lost silently, what the user is told is true.
- *Rescan and merge*: a rescan takes nothing from the user and concludes
  nothing that its scan could not see.
- *Scanner*: a project that is flagged missing is gone, if the scan could have
  seen it; a port is what the files say.
- *Single instance*: at most one manager writes the files; every launch is
  shown a window.
- *Trust*: what runs is what was shown and confirmed (not modelled).

## 2. Modules

| Module | What it is |
|---|---|
| `ServerSlot` | abstract: what the supervisor promises, one slot per project |
| `Supervisor` | the supervisor's threads, its lock, process groups and descriptors |
| `SupervisorInvariant`, `SupervisorProofs` | its inductive invariants, and TLAPS proofs |
| `Controller`, `ControllerProofs` | the poll, the statuses, the overlay and the buttons |
| `Adoption`, `AdoptionInvariant`, `AdoptionProofs` | the started record, adoption after a relaunch, and the kernel under it |
| `AtomicFile` | abstract: what `write_atomically` promises of one file |
| `Registry`, `RegistryProofs` | `projects.json`, its backup and the copies set aside, system call by system call |
| `Merge` | pure: the merges of a scan and of a profile into the records |
| `Rescan`, `RescanProofs` | `Merge` under the window's writers, in every order |
| `Scanner`, `ScannerProofs` | one scan within a budget, over files and a systemd that may fail |
| `SingleInstance`, `SingleInstanceProofs` | the claim, the hand-over and the end of copies of the app |
| `UnitVerbs`, `UnitVerbsProofs` | a unit's verbs, its drop-in, its adoption and the watch over its start |
| `MC...` | constants and symmetry for TLC |

How they fit together. `Supervisor` implements `ServerSlot`
(`ImplementsServerSlot`), which is all that `Controller` needs of it: an entry
per project, popped by a queued stop or by the reaper. `Controller` keeps
`entry` and the life of each server instead of instantiating `Supervisor`,
whose threads are finer than anything a slot of the GUI thread can observe.
`UnitVerbs` is the part of the same controller that drives systemd. `Registry`
implements `AtomicFile` twice, for the list and for its backup
(`ImplementsAtomicFile`); `Rescan` uses a save as one step, and `Merge` for
what is saved. What `Rescan` lets a scan report is what `Scanner` shows of one:
a directory at most once (`FoundOnce`), a clean read only when nothing was
refused (`CleanMeansNoPort`, a part of `PortsTrue`). What an absence is worth is
`AbsenceMeansGone`.

### Supervisor

An action is one critical section, or one system call whose effect another
thread can overtake. A process is named by pid *and* creation time, as a
`psutil.Process` is, so an element of `Proc` is never reissued; what a reissued
pid would break is stated instead as `GroupIdReserved` (the leader stays
uncollected while its group id is in use). Descriptor numbers *are* reissued:
`Issues` returns the lowest free one.

| Code | Actions |
|---|---|
| `start` | `StartReserve`, `StartRefusedByStragglers`, `StartRefused`, `StartSpawn`, `StartInsert`, `StartRecord`, `StartRelease` |
| `stop`, `_stop_sequence`, `_escalate`, `_reap` | `StopPop`, `StopList` (three times), `StopPutBack`, `StopTerm`, `StopKill`, `StopLeft`, `StopEscalateRaises`, `StopReap`, `StopRelease`, `LateReap` |
| `_group_members` | `GroupListing` (the listing of `/proc`), then `AliveIn` of it in the action that uses the answer: a fork between the two is missed |
| `reap_exited` | `ReapSnapshot`, `ReapSkip`, `ReapList`, `ReapKeep`, `ReapPop`, `ReapForget`, `ReapCollect`, `ReapDone`, `ReapRaises` |
| `rotate_if_needed` | `RotateSkip`, `RotateDup`, `RotateDone`, `UpkeepDone` |
| `close` | `CloseBegin`, `CloseClear`, `CloseRelease` |
| the servers | `Fork`, `Exit` (external) |

`Hazard` chooses what the environment may do at a bad moment, so that a
property can be stated with the weakest assumption under which it holds:
`fork_in_scan` (a fork between the listing and the look), `fork_after_stop` (a
survivor of a stop forks again), `first_scan_error`, `later_scan_error`,
`reap_scan_error` (listing `/proc` raises in the first enumeration of a stop,
in a later one, in the reaper).

Waits are not timed: a grace period may end at any moment, with processes left
or without. Signals do not force an exit; a process with a pending SIGKILL does
not fork any more and may exit at any moment, as every process may.

### Controller

The controller lives on the GUI thread. An action is one of its slots, run to
the end, or one step of a pool task; a task's result is appended to `posted`
and its slot runs when the result is at the head (Qt delivers queued signals of
one receiver in the order they were posted).

| Code | Actions |
|---|---|
| Start, Stop, Restart (`_apply_button_state`, `start_project`, `stop_project`, `restart_project`) | `ClickStart`, `ClickStop`, `ClickStopRefused`, `ClickRestart`, `ClickRestartGone`; enabled by the buttons last *rendered* (`shown`), not by the present state |
| what is shown first of a server that is not ours (`_may_act_on`, `_stop_foreign_tree`) | `ClickDisclosed` opens the dialog; a yes is `ConfirmsHeld`, `ConfirmsRefused`, `ConfirmsGone`, or `DialogYes` for a foreign stop; a no, or a holder that changed (`holder_changed`), is `DialogNo` |
| `stop_foreign_tree` | `TreeEnds`, `OnTreeDone` |
| `stop_async` and the supervisor's `stop` | `StopPops`, `StopEnds`, `StopReports`, `StopRaises`, on an executor of `Slots` threads |
| `_on_stopped`, `_apply_stop_outcome` | `OnStopped`, with the start that a restart was waiting for |
| `poll_once`, `_do_upkeep`, `_on_upkeep` | `Tick`, `UpkeepReaps`, `UpkeepLooks`, `OnUpkeep` |
| `_SnapshotTask`, `_on_snapshot`, `_on_probe_error` | `SnapReads`, `SnapReports`, `OnSnapshot`, `OnProbeError`; `Classify`, `LearnedFromOurs`, `LearnedFromForeign`, `HolderOf` and `Settled` are the helpers of the slot |
| `set_records` | `Relist` (a rescan drops or finds a project), `ChangePort` |
| `stop` (the window closes) | `Quit`, `DropResult` |
| servers and other programs | `ServerListens`, `LauncherExits`, `ServerExits`, `StrangerListens`, `StrangerLeaves` (external) |

`dialog` is the disclosure that is open: its project, the holder that it shows
and what a yes will do. Its event loop delivers polls and results, so the project
may be held, unlisted, or run by another holder when the yes comes; each of those
is a case of the `Confirms...` actions, which look again, as the code does.

What the environment may do:

- The event loop delivers what was posted before it takes the user's next
  event, and an idle executor thread picks up a queued stop before the user's
  next click (`UserTurn`). With every thread busy a stop stays queued: the
  `controller_queued_stop` run needs exactly that.
- Start is not pressed in the moment between the reap of a project's previous
  server on the pool and the delivery of that word (`NotEarly`), unless
  `early_click` is in `Hazard`. `StartingKept` needs this assumption: see
  section 5.
- `probe_fails`, `stop_raises`, `straggler`, `records` and `quit` switch the
  outage of the socket table, a stop that raises, a stop that leaves its server
  running, edits of the records, and the closing window.

Left out of `Controller`: health answers and the wording of refusals; every
refusal of `start_project` is one outcome. `Classify` has no listener that
`localhost` does not reach and no holder without a name (see section 6). Projects
bound to a systemd unit are `UnitVerbs`.

### UnitVerbs

One project and the units that may hold its port. The steps of a verb are
`Checks`, `Writes`, `Reloads`, `Asks`, `Drives` or `DriveFails`, `Clears`,
`Unloads`, `OnServiceDone`; each is one call of `systemctl` or one change of
the drop-in file, and each may fail the way the code's error paths allow. A
file that stays although its verb is over is in `kept`, with the reason the
code gives: it could not be removed, or the verb timed out and systemd may
still carry it out. `ClickVerb` is a Stop or Restart of what the last poll saw
on the port, a `ClickStart` is refused while that is anything. A unit moves by
itself (`UnitMoves`); `is-active` may answer nothing (`"unknown"`). Which units
pass the binding rule is chosen once (`belongs`): the rule reads files that
belong to the unit.

`reads` is chosen once, too: whether systemd reads drop-ins where this
application writes them. The user manager may have another `XDG_CONFIG_HOME`,
and then a reload that succeeds loads nothing, which is what `drop_in_seen` is
for (`service.py` 434-442). `Asks` has its three answers: seen, not seen (the
verb is refused and the file removed), and one that cannot be read, on which the
code goes on because it proves nothing; the task remembers the last in `unread`.
`loaded` is what systemd has of each unit, so with two ports a stale file is the
wrong port, and no file is the unit's own default. `StartsOnItsPort` says that a
start is one of a unit with the port that was asked for loaded, or the accepted
one: another folder, and an answer that could not be read.

`OnServiceDone` ends `starting` and `stopping` as the code does, an outage at
that moment included (1888); a stop that came true with somebody else on the
port settles (`StopDone`, LWSM-1513). Processes of one unit are not told apart,
`inactive` and `failed` are one state (`Ended`). `check_raises` in `Hazard` is a
check of the binding that ends in an exception: `controller.py` 936-943 reports
it as a failure, and a failure adopts what is pending. No function that the check
calls is known to raise, so the run has it off, and `AdoptedCheckedAlways` says
so in its assumption.

### Adoption

Here the unit is the *session*: copies of the manager follow one another, and a
copy that quits lets the next one in before its own queued stops have run
(`__main__.py` 870-892). The critical sections inside one start, stop or reap
are `Supervisor`'s subject and are one action each here. In exchange the kernel
is finer: a pid is a number that is issued, freed and issued again, a zombie
keeps it, a group id is not issued while a member lives, and a start time is a
clock tick since boot. Ghost fields say for which project a process was started
(`kin`) and which copy has to reap it (`parent`); no guard of the manager
reads them.

| Code | Definitions |
|---|---|
| `StartedStore.add`, `remove`, `_save`, `freeze` | `Written`, `Removed`, `Saves`, `Freezes` |
| `StartedStore._load`, `adopt`, `_adoptable`, `_identity_refusal` | `Launch`, `AdoptEntry` (one entry), `AdoptDone` (the refused ones are removed), `Adoptable`, `SameProcess` |
| `start`, `_record` | `Start`, `EntryOf` |
| `_alive`, `_leader_alive`, `_group_members`, `_vouched`, `owns_pid` | `Alive`, `LeaderAlive`, `InGroup`, `Members`, `Vouches`, `Looked`, `Owns` |
| `reap_exited`, `_reap` | `ReapDrops`, `ReapKeeps`, `Reaped` |
| `stop`, `_escalate` | `StopPops`, `StopLooks`, `StopEnds` |
| the shutdown steps of `main`, `close` | `Freezes`, `Releases`, `Closes`; a copy that is killed: `Crashes` |
| the kernel and other programs | `Passes`, `StrangerStarts`, `Forks`, `Exits`, `ClockStep`, `Reboot` (external) |

A zombie leader of a child of ours stays until its copy reaps it; a leader that
was adopted is init's, and its pid is free at once. The mutable `vouched_at` is
moved by every look, so the looks (`ReapKeeps`, `StopLooks`) are actions.

The wall clock is stepped between sessions, which is when the code compares two
readings of it. It is not stepped while an entry without a boot id exists: such
an entry then refuses its own server, which the docstring of
`_identity_refusal` says. The kernel does not reissue a pid within one clock
tick of the start of its last holder; without that no start time tells two
processes apart.

### Registry

`dir` is what every name of the directory holds, `disk` the set of directories
that a power failure may leave; a file system applies renames in order, so
those are the states since the last sync of the directory. `load` is the
window's `LoadResult` (or why there is none), `call` the one `save_projects` or
`restore_backup` that the GUI thread is in.

| Code | Actions |
|---|---|
| `load_projects`, `build_window` | `LoadOf`, `Opens`, `Launch` |
| `_write_records`, `_should_write`, `_refuse_unwritable_load` | `NothingToSave`, `SaveRefused`, `SaveBegins`, each by a writer that shows its message or by the silent one |
| `_save_confirmed_ports` | the silent writer: `Writes(l, TRUE)` |
| `_back_up`, `_set_aside_if_edited` | `BacksUp`, `SaveChecks` with `IsEdit` |
| `write_atomically` | `WriteFills` (fill and sync the temporary), `WriteReplaces` (rename), `WriteSyncs` or `WriteNotDurable` (sync the directory) |
| what follows a write | `BackedUp`, `SetAside`, `Saved`, `Restored` |
| a failure before the rename | `SaveFails`, `RestoreFails` with `PutsBack` |
| `restore_backup` | `RestoreChosen`, `RestoreMoves`, then a write |
| the user's editor, kills, power | `HandEdit`, `Ends`, `PowerFails` (external) |

The row parser is abstracted to what the gates tell apart: a list with the keys
of a newer build (`Good`), a file with a refused row (`Refusing`), a file that
does not load (`Damaged`). `Torn` is what a power failure leaves of a file
whose data was not synced; no action writes it.

`UserPart` is a list without the ports that polls confirmed: what a user chose.
After a poll `_save_confirmed_ports` saves a list that differs from the one shown
in those ports alone, and drops the message ("Silent: ... a failed save is logged
... and the value holds in memory for this session"). So a confirmed port can be
shown, unsaved, with nobody told; `UnsavedIsSaid` allows exactly that. What it
does claim is that whatever else is unsaved was said, and that the silent saves
in between neither take the message back nor make it untrue.

`Hazard` names two moments in which the code does not keep its promise and the
documents accept that: `edit_in_write` (an edit between the comparison and the
rename, the window `docs/specs/LWSM-1007` describes) and `half_restore` (a
restore that is itself cut short or cannot be undone). Both are off in the run;
the refinement and the theorem about the backup hold with them on. An editor's change is durable and whole.

### Merge and Rescan

`Merge` transcribes `merge`, `merge_imported`, `with_port_override`,
`user_half_applied` and the tie-break as functions of sequences of records in
file order. `Place` says which spellings name one directory; `choice` and
`mine` stand for the user's fields that a profile carries and those that it
never does. Both are written by the row's place: who owns a directory
(`Owns`), what the merge finds for it, and which entries are new, in their order
(`Kept`, `InOrder`), which is what the code's dictionaries and loops amount to.
`Rescan` assumes that the loaded list has each path once, since the loader
refuses the second row of a path (ADR-0005), and that a scan names each resolved
directory once, since `scan` keeps the ones it has seen; of profiles, which the
user may write, it assumes nothing. `Rescan` runs the merges: `StartRescan` hands the records of now to the
pool, `ScanEnds` merges into them, `RescanDone` applies the result to the
records as they are by then (`CurrentHalf`), or opens the first run's dialog,
whose own event loop lets polls and a shutdown in. Every writer of the list is
an action (`ChangeChoice`, `ChangeMine`, `ChangePort`, `Import`, `Confirm`),
every save may fail (`Written`). The dialog and the import are modal for the
user, not for the poll.

### Scanner

The tree does not change during the scan. A text is what the rules read in it:
one port at most (an ambiguous one counts as none), the file it goes on to, the
framework it names. The budget may end between any two directories (`Expires`),
any subset of the files that exist may be unreadable (`bad`), a root may hold
more than `MAX_ROOT_ENTRIES`, and systemd may stop answering at any directory
(`Asks`), after which `_UnitLookup` does not ask again. `troubled` is a ghost:
directories something of which could not be read. `below` says for every
directory the roots that it lies below, at any depth: `_note_if_missing` asks
that (`is_relative_to`), while a scan looks at the entries of a root only
(`WithinReach`).

### SingleInstance

A copy is a process, so an element of `Copy` is used once. `QLocalServer` binds
and listens in two steps, closes and unlinks in two, and unlinks by *name*.
`claim_single_instance` is `Binds`, `AddressInUse`, `ProbeMisses`, `TakesLock`
(or `NoLock`), `ReprobeMisses`, `Removes`, `Binds` again, `Accepts`;
`HandsOver` ends a launch. A copy may crash anywhere (`Crashes`), which leaves
its file and drops its lock. `excused` becomes true when something happens that
the design does not survive: a recovery asked under the lock and the copy whose
file it is, alive, did not answer; the lock could not be opened, so that two
copies may recover at once; or a recovery that met no file removes one bound
since. The first is wider than a busy copy: a copy that has bound the file and
does not listen yet does not answer, nor does one that is quitting, between the
close of its socket and the unlink of its file.

## 3. Runs

| Run | Instance | Distinct states | Question |
|---|---|---|---|
| `supervisor_failures` | 1 project, 3 processes, 2 starters, 1 worker, 2 descriptors, `first_scan_error`, `reap_scan_error` | 844,927 | one server, none out of reach, a clean outcome is true, ids and descriptors stay ours, refinement of `ServerSlot` |
| `supervisor_live` | 1 project, 2 processes, 1 worker, forks and errors, weak fairness | 229,804 | reservations end, dead slots are freed |
| `controller_outage` | 2 servers, `probe_fails`, `straggler`, `stop_raises`, `quit` | 1,141,762 | what the controller says is out is out, rows of our servers agree through outages, nothing after quit, `starting` is kept, Stop means stop |
| `controller_records` | 2 ports, a look-alike stranger, 1 foreign stop, `records`, `probe_fails` | 1,496,560 | `foreign` rows agree while ports are learned and edited, through outages |
| `controller_live` | 1 server, 1 stranger, `probe_fails`, weak fairness | 276,342 | polls, overlays, restarts and buttons come to an end |
| `controller_queued_stop` | 2 projects, 3 servers, 1 executor thread | violation | a disagreement, section 5 |
| `adoption_relaunch` | 1 project, 2 pids, 2 copies, 2 ticks, 1 restart, clock steps, entries without a boot id | 561,162 | a copy owns, keeps and signals exactly its own; the file names what it holds; it adopts its own |
| `registry_crash` | 3 lists of which 2 differ in confirmed ports alone, 1 unknown key, 2 damaged contents, 1 refused row, 2 names for copies, 2 edits, 1 power failure, 3 directories that the disk may hold | 3,018,714 | no edit lost, the user told the truth, the backup is the start, nothing forgotten, refinement of `AtomicFile` |
| `rescan_overlap` | 3 spellings of 2 directories, 2 ports, 4 scans, 2 rescans, 2 steps of other writers, weak fairness | 394,994 | choices, sightings, consent, tie-break, idempotence; every rescan ends |
| `scanner_budget` | 2 roots, overlapping or nested, 3 directories, 11 files, 144 trees | 76,712 | what is flagged missing within reach is gone, but for two kinds; found once; ports are what the files say |
| `instance_copies` | 3 copies, weak fairness | 125,083 | one writer; every launch is shown a window |
| `units_verbs` | 1 unit, 2 ports, 1 verb out, a systemd that reads this folder or another, weak and strong fairness | 1,014,024 | the port asked for, no drop-in without a reason, no unchecked adoption; `starting` ends |

`supervisor_*`, `controller_outage`, `adoption_relaunch`, `rescan_overlap`,
`scanner_budget` and `instance_copies` disable TLC's deadlock check: the system
really stops when it has quit, its bounded inputs are used up, or a scan is
over.

Bounds. *Supervisor*: three processes are a server, a helper it forks and a
second server, the fewest with which a project could run two servers while one
of them survives its stop; two starters, because the start that follows a stop
must be able to overlap another; two descriptor numbers for a number to be
closed and reissued while a duplicate of it is open. *Controller*: two snapshot
tasks, one more than the poll ever has out (that is `OneSnapshot`); one
project, because the only state projects share is the overlay's slot and the
executor, and both are exercised by one project's successive actions, except in
`controller_queued_stop`, which needs two projects for the one thread to be
busy; two servers where a start follows a stop of the same project; two ports
where one is learned or edited. `RowsAgree` is in two runs, since servers of ours
and edits of the records together are more states than TLC enumerates here: the
first has `running` rows and what is called ours, the second what a poll learns
of a stranger and an edit takes back; the theorem has both at once. The one server of
`controller_live` keeps the liveness check short and is used up by its first
start: `RestartEnds` shows there that a restart comes to an end, and its start half
is one that is refused; a start that succeeds is in `controller_outage`. *Adoption*: one project, because a process of
another project differs in nothing from one of another program; two pids for a
leader and a process that outlives it, or for a reissued leader and its child;
two ticks so that a pid is reissued in the tick of the last look, the case
`_vouched` is about; two copies for a quitting one and the next; one restart,
after which both pids are issued again in the same ticks. *Registry*: two
edits, so that one may meet the copy of another; two names for copies, of which
a failed restore uses one; one power failure, because after one the directory
is durable as after a launch; a failed directory sync while the disk holds two
directories at most (`MaxLoose`), so that one write may follow it, be cut off and
leave three; an editor leaves five contents (`ByHand`): either list that is not
empty with the key, an unreadable file, one with a refused row, no file. *Rescan*: two rescans, because the second merges
what the first was applied to; two steps of other writers, one to overlap each
or both to overlap one; two spellings of one directory, for the owners of a
directory to matter. `Hazard` is empty there: a poll that saves under the first
run's dialog is off (section 5), and what it may not do is said by the theorem
without assumptions, `WrittenWithConsentAlways`. `TieBreakKept` is about
projects that claim a port already; a new one that precedes an older record
without `added` is outside it. *Scanner*: two roots of which the second is the first under another spelling
or lies in it, one entry past the limit, and each launcher and port source of the code in some
tree. *SingleInstance*: three copies are a crashed or quitting one and two that
race for its file; the theorem needs no bound. *UnitVerbs*: one verb, since two
that overlap break the properties (section 5); two ports, so that a file of an
earlier verb can be the wrong one; one unit keeps the liveness check short, and
the theorems hold for any number of units and ports.

Fairness (`FairSpec`). *Supervisor*: weak fairness of each thread's own steps,
because an operating system thread that can run eventually does and the code
waits for nothing without a timeout; nothing is assumed of the user (no
fairness of `StartReserve`, `StopPop`, `CloseBegin`) or of the servers (`Fork`,
`Exit`). The upkeep runs every tick of a timer, so its cycle is fair as a
whole. *Controller*: the timer ticks, pool tasks end and posted results are
delivered; the user, the servers and other programs owe nothing, so every
liveness property speaks of what the poll alone brings about. Properties about
what only a poll can observe exempt an outage that never ends (`blind`);
`DeadStartEnds` does not, because the upkeep alone has to bring it about.
*Rescan*: the pool runs its task, whose scan has a budget, and the event loop
delivers its signal; the user need not answer the dialog. *SingleInstance*: the
claim and the shutdown are straight-line code with time limits and the event
loop turns; nobody has to launch or quit, and nothing has to fail.
*UnitVerbs*: `systemctl` has a time limit, so each step ends; the timer polls;
and `is-active`, asked again on every tick, is not unreadable for ever (the one
strong fairness). A unit may stay `activating` for ever, which is why
`ServiceStartEnds` exempts it: the watch waits then, as the code does.

## 4. Proofs

Every theorem below is checked by TLAPS for all values of the constants.

`SupervisorProofs`:

| Theorem | Assumption | Invariant |
|---|---|---|
| `TypeCorrect` | none | `Typed` |
| `ResourcesStayHeld` (`ResourcesHeld`), of which `StopStaysReserved`, `GroupIdStaysReserved`, `DescriptorsStayOurs`, `NoDescriptorLeaks` are the parts | `NoFirstScanError` | `Typed /\ Alone /\ Held` |
| `CleanStopIsClean` (`CleanStopMeansGone`) | `NoForkInScan` | `Typed /\ Gone` |
| `OneServerAlways` (`OneServer`), `ReachableAlways` (`Reachable`), `SupervisorImplementsServerSlot` (`ImplementsServerSlot`) | `SeesAll` | `Typed /\ Alone /\ Gone /\ ServedAlone /\ Traced` |

The type invariant is not inductive alone: `StopReap` closes `logFd[managed]`,
which is a descriptor only because a managed leader was spawned (`Led`) and a
call past its first step has one (`CallsBound`, `Owned`). Ownership
(`Held`) needs that a leader has one holder at a time (`Alone`): the
reservation sets keep starts and stops of a project apart, and the reaper's pop
by identity keeps it apart from both. Those are two lemma families: a step that
moves a leader from one holder to another (`KeptBy...`) and a step whose holder
lets go while it closes the log (`DroppedBy...`). `CleanStopMeansGone` needs
that the last listing contains the whole group (`Gone`), and that a group
without a live member cannot grow (`GroupShrinks`), since only its members fork
into it.

`OneServer` and `Reachable` rest on where a running group may be (`Placed`): it
has an entry, or a start that is still writing its entry, or a stop that has
not yet named what it left, or such a stop has ended and every live member of
the group is among the stragglers of its project. A start is let in only when
there is no entry, no stop and no living straggler, so at that moment nothing
of the project runs (`StartsFresh`); since only members fork into a group,
nothing comes back, and beside a fresh child or an entry no other group of the
project lives (`ServedAlone`). `Traced` adds that a stop has told its outcome
before it releases (`StopsTold`) and that the reaper judges a group whose live
members it has all seen (`ReapSees`). The refinement goes step by step: a
reservation, a spawn, an entry, a pop, a put-back, a release, a reap of a group
that is gone and an exit are the steps of `ServerSlot`; everything else leaves
the slot as it was.

`SeesAll` says that every enumeration answers and that no process appears where
a stop does not look any more. It is needed: with a process that forks after
the last look, or a later enumeration that raises, `OneServer` is false with
one worker. With a *first* enumeration that raises it holds for one stop worker
(the run `supervisor_failures` has that fault on) and fails for two, by the
race between the put-back and the reservation described in the next section;
so the theorems, which speak of any number of workers, exclude it too.

The assumption `NoFirstScanError` is not a convenience: with it dropped and two
workers the theorem is false, see the next section. `NoForkInScan` likewise: a
process that appears between the listing and the last look is not seen.

`ControllerProofs`, with every hazard allowed:

| Theorem | Invariant |
|---|---|
| `TypeCorrect` (`TypeOK`) | `Typed`: also, a task that is out names a project, and a stop under way a server |
| `InFlightStaysTrue` (`InFlightTrue`), of which `PollGuardsTrue`, `NeverTwoSnapshots`, `RestartsHaveStops` are the parts | `Typed /\ PollInv /\ RestartHasStop`: the poll's guards and the single snapshot need each other, and that a promised snapshot belongs to an upkeep that is out |
| `RowsAlwaysAgree` (`RowsAgree`) | `Typed /\ RowsInv`: also, nothing at all is called ours in an outage, so that an edit of the records cannot bring it back |
| `QuietAfterQuit` (`SilentAfterQuit`) | none: one step of a closed controller |
| `StopMeansStopAlways` (`StopMeansStop`), if `EnoughThreads` and `Tree = {}` | `StopsInv` and `WasStarted` |
| `StopHitsItsServerUnqueued` (`StopHitsItsServer`), under the same | `StopsInv` and `MeantIsHeld` |
| `StartingKeptAlways` (`StartingKept`), under the same and `"early_click" \notin Hazard` | `StartsInv == StopsInv /\ DeadIsDead /\ NotReaped /\ UnlistedUnknown /\ HeldStill` |

`RowsAlwaysAgree` rests on `RowAfter`: after a snapshot is delivered the port
that was just learned is the one the row was classified with, except for a
`foreign` row whose holder sits on the declared port, and there the two name the
same holder. Frame lemmas (`FuturesFrame`, `TreesFrame`, `PollFrame`,
`RowsFrame`) say once which actions touch what, so that each invariant is
argued only for the actions that can disturb it.

The last three theorems are about the order of buttons and results, so they
rest on what one stop excludes (`StopsInv`): while a stop of a project is out
there is no other of it, nothing is held for the project once it has popped
(`Popped`), its row is not `starting` (`NotStarting`), and a restart that waits
for it is still wanted (`StillWanted`). All of that breaks when a stop waits for
a thread: its project is then neither reserved nor held, and the row takes the
next click. `EnoughThreads` (`Cardinality(Future) <= Slots`) rules the wait out,
and the run `controller_queued_stop` shows what it costs:
`StopHitsItsServerUnqueued` says that the wait is the only reason. `Tree = {}` is
needed for the two orders of a foreign stop in section 5. A row goes on reading
`starting` because the two words that end it are never about its server: what an
upkeep saw dead is dead for good (`DeadIsDead`), which is where Start pressed too
early (`NotEarly`) comes in, and a spawn discards the word about the server
before (`NotReaped`). And a snapshot cannot have seen it listen: what a server held
when the table was read it holds still, unless it is gone (`HeldStill`), so for a
server that has bound nothing a snapshot that found its port free says `starting`
again (`ClassifyOwn`, `SnapshotKeeps`), not `stopped`, `failed`, `blocked` or
`wrong port`. They use of the tasks that
a stop's result is none of another task's (`TaskAssumption`).

`AdoptionProofs`, with every hazard allowed:

| Theorem | Invariant |
|---|---|
| `TypeCorrect` (`TypeOK`); `OursAreExact` (`OursExactly`), of which `OwnedAreOurs`, `MembersAreOurs`, `SignalledAreOurs`, `LeadersAreMembers` are the parts | `TypeOK /\ Ours`, and `Ours == Processes /\ EntriesOurs /\ ServersOurs /\ Sessions` |
| `FileIsWhatIsHeld` (`RecordMatches`) | the same and `Writers` |
| `TakesBackItsOwn` (`AdoptsItsOwn`) | these and `Known` |

The argument has two halves. A pid is reissued at a start time later than its
last holder's, so whatever carries a pid and a start (an entry, a handle, the
leader of a server) is *older than what runs under the pid, or names it*
(`EntryOurs`, `HandleOurs`); with the boot id that survives a restart of the
machine, without it because the wall clock has moved on. And all processes of a
group were started for the same project (`Processes`), so one member that is
ours vouches for all: the leader, if it still lives, or for an adopted server
anyone older than the last look, since at that look everyone was ours
(`ServerOurs`). `ProcStep` says once what any step within a boot may do to the
process table; `EntryStep`, `HandleStep` and `ServerStep` carry the invariants
over it, and each action then only shows what it adds. `ReapedOurs` and
`GoneOurs` need besides that a child is collected by nobody but the copy that
started it and for no other project. `Writers` says that at most one copy may
write, that its view is the file, and that it names what it holds.

`AdoptsItsOwn` is the opposite direction: nothing of ours is refused. An entry
with a boot id is of this boot or it says that it is not. One without may be of
an earlier boot, and then it must not be mistaken for this one's (`Known`): its
creation time lies before the machine started, and nothing of its project was
started since (`EntryKnown`). The second fact is the delicate one. It holds
because a project is started only by a copy that has nothing recorded of it, and
because what the views of the *other* copies still name was started or adopted
in this boot (`ViewsFresh`).

`RegistryProofs`:

| Theorem | Assumption | Invariant |
|---|---|---|
| `TypeCorrect`, and `WritesAtomically` (`ImplementsAtomicFile`) | none | `IInv == TypeOK /\ NothingTorn /\ WritesWhole` |
| `BackupIsStartAlways` (`BackupIsStart`) | none | `IInv /\ BackedUpFirst` |
| `EditsKeptAlways` (`EditsKept`) | `Hazard = {}` | `EInv == IInv /\ BackedUpFirst /\ Copies` |
| `UnsavedIsSaidAlways` (`UnsavedIsSaid`, a part of `UserToldTruth`) | none | `IInv`, `BackedUpFirst`, `LoadSays` and `Quietly` |
| `UserToldTruthAlways` (`UserToldTruth`), `NothingForgottenAlways` (`NothingForgotten`) | `Hazard = {}` | `EInv` and `KInv` |

The refinement holds because no directory a power failure may leave contains
torn data (`NothingTorn`), for which the temporary must be synced before its
rename (`WritesWhole`); every step is then a `Put`, `Sync`, `Change`, `Lose` or
a stutter of each file (`DiskStep`). `BackedUpFirst` relates the place of a
save to the backup: past the place where it is made, it is what the session
read. `EditsKept` needs three facts at once (`Copies`): an edit that no session
loaded is in *every* directory a power failure may leave, in a name other than
the backup (`OnDisk`); a load that licenses a save describes no such edit, and
the file is what it describes unless changed by hand since (`Licensed`); and
the name about to be replaced holds nothing that has no copy (`CopiedFirst`).

`KInv` adds what the user is told and what comes back. The load that licenses a
save has the keys that the session read and describes what it read or last wrote
(`LoadSays`), and a silent save under way changes nothing the user chose
(`Quietly`). What the list is, or was before a restore put it aside (`Held`), is
always something the user was told or wrote, and so is what a power failure
leaves, but for a directory in which a restore has moved the file and not yet
replaced it (`Told`, `Leftover`). A damaged list is moved by a restore only
(`DamagedAlone`), a backup always loads (`BackupLoads`), and while a chosen
backup is not back, nothing can save and so nothing replaces it (`ChosenSafe`).
With `edit_in_write` or `half_restore` both are false, as the documents say;
`UnsavedIsSaid` holds in every case.

`RescanProofs`:

| Theorem | Assumption | Invariant |
|---|---|---|
| `WrittenWithConsentAlways` (`WrittenWithConsent`) | none | `Untouched`: until the user agreed, there is neither a list nor a record |
| `TypeCorrect` (`TypeOK`), `SettlesAlways` (`Settles`) | none | `Inv == TypeOK /\ RecordsInv` |
| `ChoicesKeptAlways` (`ChoicesKept`), `NothingInventedOrLostAlways` (`NothingInventedOrLost`), `TieBreakKeptAlways` (`TieBreakKept`) | `Hazard = {}` | the same |

`RecordsInv` relates three lists: the one that a merge on the pool started from
has the rows, declared ports and launchers that the records have now, whatever
the user and the polls did meanwhile (`Aligned`); what it returns is those rows
with what the scan observed of them, and new ones behind them (`Ahead`); what
the first run asks about has besides the user's half of now (`Rejoined`). What
the merges compute is said once, by rows, in `IsMerged` and `IsImported`, and
everything else is argued from those. They are functions over positions and not
folds, so no induction over a list is needed, but for one lemma: that the places
of a set can be put in order (`Enumerable`), by the least set size for which
they could not. `Settles` needs that a scan and the loader name a directory
once; of a profile, nothing. `CurrentHalfWins` is about the operator
`WithCurrentUserHalf`: whatever list a merge made, what is applied has the
user's fields of now, the sighting of now for the same declared port, and the
observed fields of the merge.

`ScannerProofs`: `FoundOnceAlways` (`FoundOnce`) and `AbsenceMeansGoneAlways`
(`AbsenceMeansGone`), for any tree and budget, from `Typed /\ Once /\
Accounted`. `Accounted` is the whole argument: whatever was taken up has an
answer that will not change (`Answered`), and whatever a root holds is waiting,
answered, or in a root that counts as unlistable, below which nothing is flagged.
`PortsTrueAlways` (`PortsTrue`, with the lemmas `CleanMeansNoPortAlways` and
`DeclaredFirstAlways` for its halves) from
`FilesRead`: each row that is not a unit's comes from one reading of its
directory, with all of its files if nothing of it was trouble. What a reading
makes of the files is in lemmas: a reading that noted nothing goes on to the
files that a reading of everything goes on to (`SameWay`, `SameSources`), what
is settled on is the first of the ranked ports (`SettledIs`), and those that a
file states come before those that are assumed (`DeclaredRanked`). They use of
the constants that the names of the files are finite sequences and that
`package.json` is not a shell script.

`SingleInstanceProofs`: `TypeCorrect` and `OneWriterAlways` (`OneWriter`), for
any number of copies, from `IInv == TypeOK /\ Guards /\ Exclusive`. Unless it is
excused, whoever has bound the socket and not yet removed it has its own file
there (`FileIsHolders`), a recovery holds the lock (`LockIsRecovering`), and
what a recovery is about to remove is the file of a copy that is over
(`RemovesTheDead`).

`UnitVerbsProofs`: `TypeCorrect` and `LeftWithReasonAlways` (`LeftWithReason`)
for any number of overlapping verbs, from `Explained`: each drop-in belongs to
a verb that is out, or is in `kept`. `StartsOnItsPortAlways`
(`StartsOnItsPort`) under `OneVerb`, from `Carried`: the file has the port that
was asked for, then systemd has it, or it reads another folder, has none, and
could not be asked. `AdoptedCheckedAlways` (`AdoptedChecked`) under `OneVerb` and
`Hazard = {}`, from `Checked`: what is pending is the unit of the verb that is
out, which checks it first.

Only model-checked: all liveness (`ReservationEnds`, `DeadSlotFreed`,
`PollGoesOn`, `OverlaysEnd`, `RestartEnds`, `ButtonsReturn`, `RescanEnds`,
`LaunchShown`, `ServiceStartEnds`), which is outside the prover's reach. Every
safety and action property of a passing run is the subject of a theorem, those
about a fault or an order the code does not survive under the assumption that
the tables name.

## 5. Disagreements

With a run that shows it:

- **A queued stop stops another server** (`controller_queued_stop`). A stop that
  waits for one of the four executor threads is not yet in flight for
  `is_stopping`. When its server dies meanwhile, Start is offered, and the
  queued stop then stops the server that was started since.

Met while modelling, as the reason for an assumption, an exemption or a
property that is not claimed. The model contains each of these behaviours; a
property or a run leaves them out by name.

- **An enumeration that raises forgets late processes** (`supervisor.py` 1533).
  "keep whatever we signalled that is still alive" (1529) takes the members of
  the first enumeration, so a process forked after it is neither signalled nor
  kept, and the next start runs beside it. `later_scan_error` is on in
  `supervisor_live` only.
- **`stopping` can stand for long** (`controller.py` 289). "A stop settles once
  the port is ours no longer" (278), but `stopping` does not settle on
  `running (foreign)`: when another checkout of the project takes the port as
  our server leaves it, the overlay stands until that one stops. The instance
  of `controller_live`, where `StoppingEnds` is checked, has no such look-alike
  (`Alike`).
- Putting a restored entry back and discarding the reservation are two critical
  sections (`supervisor.py` 1478-1484): a second stop between them runs
  unreserved, and a start can run beside it. Hence `NoFirstScanError` and
  `SeesAll` in the proofs, and one worker in
  `supervisor_failures`.
- The reap of the previous server, delivered after the next start set its
  overlay, ends that overlay (`controller.py` 2284). Hence `NotEarly`. A foreign
  stop that fails late clears whatever overlay its project has by then (1879).
  Hence no `Tree` in `controller_outage`, where `StartingKept` is checked, and in
  the theorem about it.
- A foreign stop that the user confirms for a project whose restart still waits
  for its stop leaves the restart pending (`controller.py` 1629 to 1631, where
  1592 and 1599 discard it): the server is started after the stop. The row offers
  the foreign stop when a poll delivers a server that has exited, or is no longer
  held, and the overlay has moved to another project. Hence `Tree = {}`
  in `StopMeansStopAlways`, too.
- A snapshot that was read before Start was pressed and found somebody on the port
  may be delivered after the start (`controller.py` 2349): the row then reads
  `failed`, or ends its overlay, until the next poll. Hence `StartingKept` speaks
  of snapshots that found the port free (`FoundFree`).
- A project without a port is `unknown` to every poll (`controller.py` 2452), so
  its `starting` overlay ends with the first one, and the row offers no Stop
  although a live server is held. The runs of the controller have a port.
- A stop reported after the last good poll and before the first failing one
  keeps its `stopping` overlay through the outage (`controller.py` 1977, 2500).
  Hence the exemption of an outage in `StoppingEnds`.
- `start()` writes its record and `reap_exited` removes one after releasing the
  lock (`supervisor.py` 1239, 1909); either can overtake the other side, so a
  held server may be unrecorded and a stopped one recorded. `Adoption` makes
  each of them one step.
- **A project is flagged missing that no scan could have seen**
  (`registry.py` 1862). "*missing* means absent from a scan that could have seen
  it", but only a timeout and an unlistable root suppress the flag. Three kinds
  are flagged while they are there: a record deeper below a root than a scan
  looks (`is_relative_to`, 1887; added by hand, or found when the root was another
  one), a directory of which something could not be read, and a project that only
  its unit runs when systemd did not answer. `MissingMeansGone` states the
  comment; `AbsenceMeansGone`, which is checked and proved, is about what is
  within reach and names the other two kinds.
- Two rows of one directory under two spellings: the scan refreshes the first
  of the file only (`_identity_owners`), the other stays as it was and is
  flagged. `Settles` and `SameProjects` hold of such lists; that both rows agree
  does not.
- **A copy that exits cleanly while two others recover** (`__main__.py` 661).
  "Listening first leaves exactly one winner": a copy whose listen failed on a
  file that vanishes before its probe goes on to a recovery with nothing to
  remove, and removes what a third copy has bound by then. `OneWriter` excuses
  it, and what the comments accept: a living copy that does not answer in time,
  and a lock file that cannot be opened. The same excuse covers a copy that has
  bound the file and does not listen yet, and one that is quitting between its
  close and its unlink.
- **Two verbs out at once** (`controller.py` 1862). The service pool has two
  threads and the buttons of a row come back when another project's overlay
  replaces its own. The report of the first verb then takes the pending unit of
  the second, and its clear removes the second's drop-in before systemd read
  it. Hence one `Task` in `units_verbs` and `OneVerb` in two theorems.
- An `is-active` asked about an earlier start may answer after the next one and
  end its watch (`controller.py` 2339): `starting` then ends early, or with the
  poll. `ServiceStartEnds` does not depend on it.
- An edit between the comparison and the rename is overwritten
  (`edit_in_write`), which `docs/specs/LWSM-1007.md` accepts; a restore that is
  itself cut short leaves the damaged file under its new name only
  (`half_restore`); and a poll that confirms a port while the first run's dialog
  stands over a list whose save failed writes that list
  (`dialog_over_unsaved`).

## 6. Not modelled

- **Health checks** (`health.py`, `controller.py` 1287): a late answer is
  compared with the project as it is before it is kept, and no other state reads
  it than the row that shows it. The hazard is listed without a property.
- **Launcher trust** (`supervisor.py` 228-790, `TrustStore`): a fingerprint of
  files compared before a start. Its hazard is a file that changes between the
  check and the spawn, which the code does not claim to exclude.
- **A `started.json` that cannot be read or saved**, and a log that cannot be
  opened at adoption: `Adoption` saves every change.
- **Foreign servers**: the tree disclosed in the dialog, the second look and
  the signalled set. `Controller` has the dialogs and the outcome only; a holder
  is named by one value, so a reissued pid is another holder (LWSM-1444).
- **What else `_classify` looks at** (`controller.py` 2619, 2644, 2649): listeners
  on an address that `localhost` does not reach, holders that the kernel does not
  name (a stranger that does not look like the project stands for one), and a
  unit of the project as the holder, which is `UnitVerbs`' subject.
- **A child whose handle cannot be made** (`supervisor.py` 1292-1302): it is
  killed with its group, collected, and the start fails. `StartSpawn` has no such
  outcome; the start it ends reserves and releases as a refused one does.
- **Unknown keys in a profile or a rescan** (`registry.py` 2034, 2088): a record
  keeps its own. In `Merge` they are part of `mine`, which a rescan takes from the
  list of the same session, where they are equal.
- **Port probe**: reads the kernel's socket table; its result is an input.
- **Log buffer and followers**, **application log**: a follower that meets a
  rotation loses or repeats lines on the screen, nothing else.
- **Settings, scan roots**: plain values in files that are written by the same
  `write_atomically`.
- **Window, dialogs, placement, browsers, port lookup, appearance**: widgets,
  wording, colours and geometry without a protocol of their own.
- **The row codec and the text rules of the scanner**: a row is accepted,
  refused or damaged, a file declares a port or none; how a line is recognised
  is a matter for examples.

## 7. What could follow

`Supervisor` and `Adoption` joined at the record's two unlocked
writes, two verbs of one unit once the code keeps them apart, trust as a
check-then-start over files that change, and the health answers.
