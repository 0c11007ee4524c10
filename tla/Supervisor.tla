----------------------------- MODULE Supervisor -----------------------------
(***************************************************************************)
(* `Supervisor` of src/lwsm/supervisor.py: the object that starts, stops   *)
(* and reaps every server the manager runs.  Three kinds of thread call it *)
(* at once and meet only at `_Registry.lock`:                              *)
(*   - callers of `start` (Starter; in the program, the GUI thread);       *)
(*   - the `lwsm-stop` pool, which runs `stop` (Worker);                   *)
(*   - the poll's upkeep task: `reap_exited`, then `rotate_if_needed`.     *)
(* One action is one critical section, or one system call whose result     *)
(* another thread can overtake.  The kernel is modelled with them: which   *)
(* processes live and in which group, and what each descriptor names.      *)
(*                                                                         *)
(* A process is named by pid AND create_time, which is what a              *)
(* `psutil.Process` handle compares, so an element of Proc is never        *)
(* reissued.  A `ManagedProcess` is named by its leader.                   *)
(***************************************************************************)
EXTENDS Integers, FiniteSets

CONSTANTS
  Project,   \* resolved project paths, the registry's keys
  Proc,      \* process identities, each used once
  Starter,   \* threads that may call start()
  Worker,    \* threads of the `lwsm-stop` executor
  Fd,        \* descriptor numbers the kernel may issue
  None,      \* Python's None
  Hazard     \* what the environment may do at a bad moment, see below

(***************************************************************************)
(* "fork_in_scan":     a group member forks between the listing of /proc   *)
(*                     and the look at each listed pid.                    *)
(* "fork_after_stop":  a process that outlived its stop forks again.       *)
(* "first_scan_error": listing /proc raises (EMFILE, say) in the first     *)
(*                     enumeration of a stop, before any signal.           *)
(* "later_scan_error": it raises in a later enumeration of a stop.         *)
(* "reap_scan_error":  it raises in reap_exited.                           *)
(***************************************************************************)
HazardKind == {"fork_in_scan", "fork_after_stop", "first_scan_error",
               "later_scan_error", "reap_scan_error"}

ASSUME SupervisorAssumption ==
  /\ None \notin Project \cup Proc \cup Fd
  /\ Fd \subseteq Int
  /\ Hazard \subseteq HazardKind

VARIABLES
  processes,   \* _Registry.processes: the leader held for each project
  starting,    \* _Registry.starting
  stopping,    \* _Registry.stopping
  stragglers,  \* _Registry.stragglers
  started,     \* StartedStore._entries: the leader recorded for each project
  life,        \* kernel: what each process is doing
  group,       \* kernel: the process group, named by its leader
  owner,       \* ManagedProcess.project of a leader
  killed,      \* kernel: processes with a SIGKILL pending
  logFd,       \* ManagedProcess.log_fd, kept after it was closed
  files,       \* kernel: whose log each descriptor number names
  starts,      \* the start() call of each Starter
  stops,       \* the stop() call of each Worker
  upkeep,      \* the upkeep task
  closing,     \* close()
  lateReap,    \* leaders left to a `lwsm-late-reap` thread
  verdict      \* the StopOutcome reported for each leader

registry == <<processes, starting, stopping, stragglers>>
kernel   == <<life, group, killed>>
logs     == <<logFd, files>>
calls    == <<starts, stops, upkeep, closing>>
vars == <<registry, started, kernel, owner, logs, calls, lateReap, verdict>>

-----------------------------------------------------------------------------
StartPC == {"idle", "reserved", "spawned", "inserted", "recorded"}
StopPC  == {"idle", "popped", "listed", "termed", "relisted", "killed",
            "lastlisted", "reaping", "releasing"}
UpkeepPC == {"idle", "reaping", "listed", "popped", "forgotten",
             "rotating", "copying"}
Verdict == {"none", "clean", "warned", "raised"}

StartCall == [pc : StartPC, project : Project \cup {None},
              child : Proc \cup {None}]
StopCall == [pc : StopPC, key : Project \cup {None},
             managed : Proc \cup {None}, members : SUBSET Proc,
             seen : SUBSET Proc, warned : BOOLEAN, result : Verdict]
Upkeep == [pc : UpkeepPC, snap : [Project -> Proc \cup {None}],
           todo : SUBSET Project, cur : Project \cup {None},
           seen : SUBSET Proc, dup : Fd \cup {None}]
Closing == [pc : {"open", "draining", "releasing"}, todo : SUBSET Proc]

NoStart  == [pc |-> "idle", project |-> None, child |-> None]
NoStop   == [pc |-> "idle", key |-> None, managed |-> None, members |-> {},
             seen |-> {}, warned |-> FALSE, result |-> "none"]
NoUpkeep == [pc |-> "idle", snap |-> [p \in Project |-> None], todo |-> {},
             cur |-> None, seen |-> {}, dup |-> None]

TypeOK ==
  /\ processes \in [Project -> Proc \cup {None}]
  /\ starting \in SUBSET Project
  /\ stopping \in SUBSET Project
  /\ stragglers \in [Project -> SUBSET Proc]
  /\ started \in [Project -> Proc \cup {None}]
  /\ life \in [Proc -> {"unborn", "live", "zombie", "gone"}]
  /\ group \in [Proc -> Proc \cup {None}]
  /\ owner \in [Proc -> Project \cup {None}]
  /\ killed \in SUBSET Proc
  /\ logFd \in [Proc -> Fd \cup {None}]
  /\ files \in [Fd -> Proc \cup {None}]
  /\ starts \in [Starter -> StartCall]
  /\ stops \in [Worker -> StopCall]
  /\ upkeep \in Upkeep
  /\ closing \in Closing
  /\ lateReap \in SUBSET Proc
  /\ verdict \in [Proc -> Verdict]

Init ==
  /\ processes = [p \in Project |-> None]
  /\ starting = {}
  /\ stopping = {}
  /\ stragglers = [p \in Project |-> {}]
  /\ started = [p \in Project |-> None]
  /\ life = [q \in Proc |-> "unborn"]
  /\ group = [q \in Proc |-> None]
  /\ owner = [q \in Proc |-> None]
  /\ killed = {}
  /\ logFd = [q \in Proc |-> None]
  /\ files = [n \in Fd |-> None]
  /\ starts = [c \in Starter |-> NoStart]
  /\ stops = [w \in Worker |-> NoStop]
  /\ upkeep = NoUpkeep
  /\ closing = [pc |-> "open", todo |-> {}]
  /\ lateReap = {}
  /\ verdict = [q \in Proc |-> "none"]

-----------------------------------------------------------------------------
(* What the code asks of the kernel.                                       *)

\* `_alive`: running and not a zombie.
Alive(q) == life[q] = "live"

AliveIn(S) == {q \in S : Alive(q)}

\* The live processes of the group led by g.
LiveMembers(g) == {q \in Proc : group[q] = g /\ Alive(q)}

\* The first half of `_group_members`: the pids of the group in one listing
\* of /proc, and always the leader's own handle.
GroupListing(g) == {q \in Proc : group[q] = g /\ life[q] \in {"live", "zombie"}}
                     \cup {g}

\* POSIX: open and dup return the lowest free number.
Issues(n) == /\ files[n] = None
             /\ \A m \in Fd : files[m] = None => n <= m

\* `_close_quietly(fd)`: whatever the number names now is closed.
Closed(n) == [files EXCEPT ![n] = None]

\* wait4 on a child: a zombie is collected, a running child is not.
Collected(g) == [life EXCEPT ![g] = IF @ = "zombie" THEN "gone" ELSE @]

-----------------------------------------------------------------------------
(* start()                                                                 *)

\* Mutant: `stopping` is not asked (before LWSM-1168).
UnclaimedOrStopping(p) == processes[p] = None /\ p \notin starting

\* No entry, start or stop claims the project.
Unclaimed(p) == processes[p] = None /\ p \notin starting \cup stopping

\* Mutant: stragglers do not refuse a start (before LWSM-1321).
NoneLeft(p) == {}

\* What the last stop left behind and still runs.
StillLeft(p) == AliveIn(stragglers[p])

\* The reservation; the dead stragglers are dropped with it.
StartReserve(c, p) ==
  /\ closing.pc = "open"
  /\ starts[c].pc = "idle"
  /\ Unclaimed(p)
  /\ StillLeft(p) = {}
  /\ stragglers' = [stragglers EXCEPT ![p] = {}]
  /\ starting' = starting \cup {p}
  /\ starts' = [starts EXCEPT ![c] = [pc |-> "reserved", project |-> p,
                                      child |-> None]]
  /\ UNCHANGED <<processes, stopping, started, kernel, owner, logs, stops,
                 upkeep, closing, lateReap, verdict>>

\* AlreadyRunning because of stragglers: the list keeps only the live ones.
StartRefusedByStragglers(c, p) ==
  /\ closing.pc = "open"
  /\ starts[c].pc = "idle"
  /\ Unclaimed(p)
  /\ StillLeft(p) \notin {{}, stragglers[p]}
  /\ stragglers' = [stragglers EXCEPT ![p] = StillLeft(p)]
  /\ UNCHANGED <<processes, starting, stopping, started, kernel, owner, logs,
                 calls, lateReap, verdict>>

\* Any refusal between the reservation and the spawn: the port pre-flight,
\* ProbeError, LauncherRefused, LauncherUntrusted, or an OSError from the log
\* or Popen (whose descriptor is closed again on the way out).
StartRefused(c) ==
  /\ starts[c].pc = "reserved"
  /\ starting' = starting \ {starts[c].project}
  /\ starts' = [starts EXCEPT ![c] = NoStart]
  /\ UNCHANGED <<processes, stopping, stragglers, started, kernel, owner,
                 logs, stops, upkeep, closing, lateReap, verdict>>

\* `_open_log` and `_spawn`: a new session, so the child leads its own group.
\* That its handle cannot be made, so that it is killed at once, is left out.
StartSpawn(c) ==
  /\ starts[c].pc = "reserved"
  /\ \E g \in Proc, n \in Fd :
       /\ life[g] = "unborn"
       /\ Issues(n)
       /\ life' = [life EXCEPT ![g] = "live"]
       /\ group' = [group EXCEPT ![g] = g]
       /\ owner' = [owner EXCEPT ![g] = starts[c].project]
       /\ logFd' = [logFd EXCEPT ![g] = n]
       /\ files' = [files EXCEPT ![n] = g]
       /\ starts' = [starts EXCEPT ![c].pc = "spawned", ![c].child = g]
  /\ UNCHANGED <<registry, started, killed, stops, upkeep, closing, lateReap,
                 verdict>>

StartInsert(c) ==
  /\ starts[c].pc = "spawned"
  /\ processes' = [processes EXCEPT ![starts[c].project] = starts[c].child]
  /\ starts' = [starts EXCEPT ![c].pc = "inserted"]
  /\ UNCHANGED <<starting, stopping, stragglers, started, kernel, owner, logs,
                 stops, upkeep, closing, lateReap, verdict>>

\* `_record`, after the registry lock was released. A leader that is gone
\* may be skipped: its create_time can no longer be read unless it is cached.
StartRecord(c) ==
  /\ starts[c].pc = "inserted"
  /\ \/ started' = [started EXCEPT ![starts[c].project] = starts[c].child]
     \/ life[starts[c].child] = "gone" /\ UNCHANGED started
  /\ starts' = [starts EXCEPT ![c].pc = "recorded"]
  /\ UNCHANGED <<registry, kernel, owner, logs, stops, upkeep, closing,
                 lateReap, verdict>>

\* The `finally` of start().
StartRelease(c) ==
  /\ starts[c].pc = "recorded"
  /\ starting' = starting \ {starts[c].project}
  /\ starts' = [starts EXCEPT ![c] = NoStart]
  /\ UNCHANGED <<processes, stopping, stragglers, started, kernel, owner,
                 logs, stops, upkeep, closing, lateReap, verdict>>

-----------------------------------------------------------------------------
(* stop(), on a worker thread                                              *)

\* Whoever pops the entry owns the sequence.
Popped(p) == [processes EXCEPT ![p] = None]

\* The key is held in `stopping` for the whole sequence.
Reserved(p) == stopping \cup {p}

\* Pop and reserve in one critical section. With nothing to pop the call
\* returns an empty outcome and changes nothing.
StopPop(w, p) ==
  /\ closing.pc \in {"open", "draining"}
  /\ stops[w].pc = "idle"
  /\ processes[p] # None
  /\ processes' = Popped(p)
  /\ stopping' = Reserved(p)
  /\ stops' = [stops EXCEPT ![w] = [NoStop EXCEPT !.pc = "popped", !.key = p,
                                                  !.managed = processes[p]]]
  /\ UNCHANGED <<starting, stragglers, started, kernel, owner, logs, starts,
                 upkeep, closing, lateReap, verdict>>

\* The listing half of each of the three `_group_members` calls: before the
\* SIGTERM, after the grace, after the SIGKILL wait. Both waits may end at any
\* moment: all gone, or the deadline.
NextListing == [popped |-> "listed", termed |-> "relisted",
                killed |-> "lastlisted"]

StopList(w) ==
  /\ stops[w].pc \in DOMAIN NextListing
  /\ stops' = [stops EXCEPT ![w].pc = NextListing[@],
                            ![w].seen = GroupListing(stops[w].managed)]
  /\ UNCHANGED <<registry, started, kernel, owner, logs, starts, upkeep,
                 closing, lateReap, verdict>>

Restored(p, g) == [processes EXCEPT ![p] = g]

\* The first enumeration failed: nothing was signalled, so the entry goes
\* back. The reservation ends in the `finally`, a critical section later.
StopPutBack(w) ==
  /\ "first_scan_error" \in Hazard
  /\ stops[w].pc = "popped"
  /\ processes' = Restored(stops[w].key, stops[w].managed)
  /\ stops' = [stops EXCEPT ![w].pc = "releasing"]
  /\ UNCHANGED <<starting, stopping, stragglers, started, kernel, owner, logs,
                 starts, upkeep, closing, lateReap, verdict>>

\* The group is known: forget the record, then SIGTERM every member. The
\* kernel may refuse some (`unsignalled`).
StopTerm(w) ==
  /\ stops[w].pc = "listed"
  /\ \E refused \in SUBSET AliveIn(stops[w].seen) :
       stops' = [stops EXCEPT ![w].pc = "termed", ![w].seen = {},
                              ![w].members = AliveIn(stops[w].seen),
                              ![w].warned = refused # {}]
  /\ started' = [started EXCEPT ![stops[w].key] = None]
  /\ UNCHANGED <<registry, kernel, owner, logs, starts, upkeep, closing,
                 lateReap, verdict>>

\* `_escalate`: SIGKILL every survivor of the re-enumerated group; the kernel
\* may refuse some.
StopKill(w) ==
  /\ stops[w].pc = "relisted"
  /\ \E refused \in SUBSET AliveIn(stops[w].seen) :
       /\ killed' = killed \cup (AliveIn(stops[w].seen) \ refused)
       /\ stops' = [stops EXCEPT ![w].pc = "killed", ![w].seen = {},
                                 ![w].warned = @ \/ refused # {}]
  /\ UNCHANGED <<registry, started, life, group, owner, logs, starts, upkeep,
                 closing, lateReap, verdict>>

\* Mutant: the group first enumerated is taken for the whole group (before
\* LWSM-1204).
FirstLeft(w) == AliveIn(stops[w].members)

LastLeft(w) == AliveIn(stops[w].seen)

\* The last enumeration: what is left becomes the project's stragglers while
\* the key is still reserved, and the outcome says so.
StopLeft(w) ==
  /\ stops[w].pc = "lastlisted"
  /\ LET left == LastLeft(w) IN
       /\ stragglers' = IF left = {} THEN stragglers
                        ELSE [stragglers EXCEPT ![stops[w].key] = left]
       /\ stops' = [stops EXCEPT
                      ![w].pc = "reaping", ![w].seen = {},
                      ![w].result = IF left = {} /\ ~stops[w].warned
                                    THEN "clean" ELSE "warned"]
  /\ UNCHANGED <<processes, starting, stopping, started, kernel, owner, logs,
                 starts, upkeep, closing, lateReap, verdict>>

\* `_escalate` raised: what was signalled and still lives becomes stragglers.
StopEscalateRaises(w) ==
  /\ "later_scan_error" \in Hazard
  /\ stops[w].pc \in {"termed", "killed"}
  /\ LET left == AliveIn(stops[w].members) IN
       stragglers' = IF left = {} THEN stragglers
                     ELSE [stragglers EXCEPT ![stops[w].key] = left]
  /\ stops' = [stops EXCEPT ![w].pc = "reaping", ![w].result = "raised"]
  /\ UNCHANGED <<processes, starting, stopping, started, kernel, owner, logs,
                 starts, upkeep, closing, lateReap, verdict>>

LeftToThread(w) == lateReap \cup {stops[w].managed}

\* `_reap`, last: collect the leader, or leave it to a daemon thread when it
\* outlives the wait, and close the log.
StopReap(w) ==
  LET g == stops[w].managed IN
  /\ stops[w].pc = "reaping"
  /\ life' = Collected(g)
  /\ lateReap' = IF Alive(g) THEN LeftToThread(w) ELSE lateReap
  /\ files' = Closed(logFd[g])
  /\ stops' = [stops EXCEPT ![w].pc = "releasing"]
  /\ UNCHANGED <<registry, started, group, owner, killed, logFd, starts,
                 upkeep, closing, verdict>>

\* Mutant: discarded after the outcome and not in a `finally`.
ReleasedOnSuccess(w) ==
  IF stops[w].result = "raised" THEN stopping ELSE stopping \ {stops[w].key}

Released(w) == stopping \ {stops[w].key}

\* The `finally` of stop(), and the outcome handed to the caller.
StopRelease(w) ==
  /\ stops[w].pc = "releasing"
  /\ stopping' = Released(w)
  /\ verdict' = [verdict EXCEPT ![stops[w].managed] = stops[w].result]
  /\ stops' = [stops EXCEPT ![w] = NoStop]
  /\ UNCHANGED <<processes, starting, stragglers, started, kernel, owner,
                 logs, starts, upkeep, closing, lateReap>>

\* The `lwsm-late-reap` thread.
LateReap(g) ==
  /\ g \in lateReap
  /\ life[g] = "zombie"
  /\ life' = Collected(g)
  /\ lateReap' = lateReap \ {g}
  /\ UNCHANGED <<registry, started, group, owner, killed, logs, calls, verdict>>

-----------------------------------------------------------------------------
(* The upkeep task: reap_exited(), then rotate_if_needed() per project     *)

\* `_entries()`: a copy, taken under the lock and used after it.
ReapSnapshot ==
  /\ closing.pc = "open"
  /\ upkeep.pc = "idle"
  /\ upkeep' = [upkeep EXCEPT !.pc = "reaping", !.snap = processes]
  /\ UNCHANGED <<registry, started, kernel, owner, logs, starts, stops,
                 closing, lateReap, verdict>>

\* `_leader_alive`: an ordinary entry costs one look.
ReapSkip(p) ==
  /\ upkeep.pc = "reaping"
  /\ upkeep.snap[p] # None
  /\ Alive(upkeep.snap[p])
  /\ upkeep' = [upkeep EXCEPT !.snap[p] = None]
  /\ UNCHANGED <<registry, started, kernel, owner, logs, starts, stops,
                 closing, lateReap, verdict>>

\* The leader is dead: list its group.
ReapList(p) ==
  /\ upkeep.pc = "reaping"
  /\ upkeep.snap[p] # None
  /\ ~Alive(upkeep.snap[p])
  /\ upkeep' = [upkeep EXCEPT !.pc = "listed", !.cur = p,
                              !.seen = GroupListing(upkeep.snap[p])]
  /\ UNCHANGED <<registry, started, kernel, owner, logs, starts, stops,
                 closing, lateReap, verdict>>

\* Mutants: the launcher being gone is taken to be enough (see LWSM-1165), and
\* the entry is not compared with the one looked at; and a listing that always
\* names the leader is taken for a look at it.
LeaderGone == TRUE
NothingListed == upkeep.seen = {}
AnyEntry == TRUE

\* The look at each listed pid found nothing alive.
GroupGone == AliveIn(upkeep.seen) = {}

\* `processes.get(project) is managed`.
SameEntry == processes[upkeep.cur] = upkeep.snap[upkeep.cur]

\* Something of the group lives, or the entry is no longer the one looked at:
\* it is left alone.
ReapKeep ==
  /\ upkeep.pc = "listed"
  /\ ~(GroupGone /\ SameEntry)
  /\ upkeep' = [upkeep EXCEPT !.pc = "reaping", !.snap[upkeep.cur] = None,
                              !.cur = None, !.seen = {}]
  /\ UNCHANGED <<registry, started, kernel, owner, logs, starts, stops,
                 closing, lateReap, verdict>>

\* The pop, by identity and under the lock.
ReapPop ==
  /\ upkeep.pc = "listed"
  /\ GroupGone
  /\ SameEntry
  /\ processes' = [processes EXCEPT ![upkeep.cur] = None]
  /\ upkeep' = [upkeep EXCEPT !.pc = "popped", !.seen = {}]
  /\ UNCHANGED <<starting, stopping, stragglers, started, kernel, owner, logs,
                 starts, stops, closing, lateReap, verdict>>

\* `started.remove(project)`, after the lock was released.
ReapForget ==
  /\ upkeep.pc = "popped"
  /\ started' = [started EXCEPT ![upkeep.cur] = None]
  /\ upkeep' = [upkeep EXCEPT !.pc = "forgotten"]
  /\ UNCHANGED <<registry, kernel, owner, logs, starts, stops, closing,
                 lateReap, verdict>>

\* `_reap`: the leader is a zombie here, so the wait returns at once.
ReapCollect ==
  LET g == upkeep.snap[upkeep.cur] IN
  /\ upkeep.pc = "forgotten"
  /\ life' = Collected(g)
  /\ files' = Closed(logFd[g])
  /\ upkeep' = [upkeep EXCEPT !.pc = "reaping", !.snap[upkeep.cur] = None,
                              !.cur = None]
  /\ UNCHANGED <<registry, started, group, owner, killed, logFd, starts, stops,
                 closing, lateReap, verdict>>

\* Every entry was looked at; the rotation's `running()` comes next.
BeginRotation ==
  /\ upkeep' = [NoUpkeep EXCEPT !.pc = "rotating",
                  !.todo = {p \in Project : processes[p] # None}]
  /\ UNCHANGED <<registry, started, kernel, owner, logs, starts, stops,
                 closing, lateReap, verdict>>

ReapDone ==
  /\ upkeep.pc = "reaping"
  /\ \A p \in Project : upkeep.snap[p] = None
  /\ BeginRotation

\* Listing /proc raised: the rest of the entries wait for the next tick, and
\* `_do_upkeep` goes on.
ReapRaises ==
  /\ "reap_scan_error" \in Hazard
  /\ upkeep.pc = "reaping"
  /\ \E p \in Project : upkeep.snap[p] # None /\ ~Alive(upkeep.snap[p])
  /\ BeginRotation

\* rotate_if_needed: the entry is gone, or no descriptor is free for the dup.
RotateSkip(p) ==
  /\ upkeep.pc = "rotating"
  /\ p \in upkeep.todo
  /\ processes[p] = None \/ \A n \in Fd : files[n] # None
  /\ upkeep' = [upkeep EXCEPT !.todo = @ \ {p}]
  /\ UNCHANGED <<registry, started, kernel, owner, logs, starts, stops,
                 closing, lateReap, verdict>>

\* A duplicate of the log descriptor, taken while the lock proves it is held.
RotateDup(p) ==
  /\ upkeep.pc = "rotating"
  /\ p \in upkeep.todo
  /\ processes[p] # None
  /\ \E n \in Fd :
       /\ Issues(n)
       /\ files' = [files EXCEPT ![n] = files[logFd[processes[p]]]]
       /\ upkeep' = [upkeep EXCEPT !.pc = "copying", !.cur = p, !.dup = n,
                                   !.snap[p] = processes[p]]
  /\ UNCHANGED <<registry, started, kernel, owner, logFd, starts, stops,
                 closing, lateReap, verdict>>

\* Copy and truncate through the duplicate, then close it.
RotateDone ==
  /\ upkeep.pc = "copying"
  /\ files' = Closed(upkeep.dup)
  /\ upkeep' = [upkeep EXCEPT !.pc = "rotating", !.cur = None, !.dup = None,
                              !.snap[upkeep.cur] = None,
                              !.todo = @ \ {upkeep.cur}]
  /\ UNCHANGED <<registry, started, kernel, owner, logFd, starts, stops,
                 closing, lateReap, verdict>>

UpkeepDone ==
  /\ upkeep.pc = "rotating"
  /\ upkeep.todo = {}
  /\ upkeep' = NoUpkeep
  /\ UNCHANGED <<registry, started, kernel, owner, logs, starts, stops,
                 closing, lateReap, verdict>>

-----------------------------------------------------------------------------
(* close(): at quit, on the GUI thread, so no start is in flight. The      *)
(* servers are left running.                                               *)

\* `_stoppers.shutdown(wait=True)`: queued stops still run.
CloseBegin ==
  /\ closing.pc = "open"
  /\ \A c \in Starter : starts[c].pc = "idle"
  /\ closing' = [closing EXCEPT !.pc = "draining"]
  /\ UNCHANGED <<registry, started, kernel, owner, logs, starts, stops,
                 upkeep, lateReap, verdict>>

CloseClear ==
  /\ closing.pc = "draining"
  /\ \A w \in Worker : stops[w].pc = "idle"
  /\ closing' = [pc |-> "releasing",
                 todo |-> {processes[p] : p \in Project} \ {None}]
  /\ processes' = [p \in Project |-> None]
  /\ UNCHANGED <<starting, stopping, stragglers, started, kernel, owner, logs,
                 starts, stops, upkeep, lateReap, verdict>>

\* `popen.poll()` collects a child that already exited; its log is closed.
CloseRelease(g) ==
  /\ closing.pc = "releasing"
  /\ g \in closing.todo
  /\ life' = Collected(g)
  /\ files' = Closed(logFd[g])
  /\ closing' = [closing EXCEPT !.todo = @ \ {g}]
  /\ UNCHANGED <<registry, started, group, owner, killed, logFd, starts, stops,
                 upkeep, lateReap, verdict>>

-----------------------------------------------------------------------------
(* The servers themselves                                                  *)

\* A `_group_members` walk of g is between its listing and its look.
ScanOpen(g) ==
  \/ \E w \in Worker : /\ stops[w].pc \in {"listed", "relisted", "lastlisted"}
                       /\ stops[w].managed = g
  \/ upkeep.pc = "listed" /\ upkeep.snap[upkeep.cur] = g

\* The stop of g made its last enumeration.
StopOver(g) ==
  \/ verdict[g] # "none"
  \/ \E w \in Worker : stops[w].managed = g /\ stops[w].result # "none"

\* A live process with no SIGKILL pending may fork; when, the hazards say.
Fork(q, r) ==
  /\ Alive(q)
  /\ q \notin killed
  /\ life[r] = "unborn"
  /\ "fork_in_scan" \notin Hazard => ~ScanOpen(group[q])
  /\ "fork_after_stop" \notin Hazard => ~StopOver(group[q])
  /\ life' = [life EXCEPT ![r] = "live"]
  /\ group' = [group EXCEPT ![r] = group[q]]
  /\ UNCHANGED <<registry, started, owner, killed, logs, calls, lateReap,
                 verdict>>

\* A process ends, by itself or of a signal. A leader is our child, so it
\* stays a zombie until collected; any other is collected by init.
Exit(q) ==
  /\ Alive(q)
  /\ life' = [life EXCEPT ![q] = IF group[q] = q THEN "zombie" ELSE "gone"]
  /\ UNCHANGED <<registry, started, group, owner, killed, logs, calls,
                 lateReap, verdict>>

-----------------------------------------------------------------------------
StartStep(c) ==
  \/ StartRefused(c)
  \/ StartSpawn(c)
  \/ StartInsert(c)
  \/ StartRecord(c)
  \/ StartRelease(c)

StopStep(w) ==
  \/ StopList(w)
  \/ StopPutBack(w)
  \/ StopTerm(w)
  \/ StopKill(w)
  \/ StopLeft(w)
  \/ StopEscalateRaises(w)
  \/ StopReap(w)
  \/ StopRelease(w)

UpkeepStep ==
  \/ ReapSnapshot
  \/ \E p \in Project : ReapSkip(p) \/ ReapList(p)
  \/ ReapKeep
  \/ ReapPop
  \/ ReapForget
  \/ ReapCollect
  \/ ReapDone
  \/ ReapRaises
  \/ \E p \in Project : RotateSkip(p) \/ RotateDup(p)
  \/ RotateDone
  \/ UpkeepDone

CloseStep ==
  \/ CloseClear
  \/ \E g \in Proc : CloseRelease(g)

Next ==
  \/ \E c \in Starter, p \in Project :
       StartReserve(c, p) \/ StartRefusedByStragglers(c, p)
  \/ \E c \in Starter : StartStep(c)
  \/ \E w \in Worker, p \in Project : StopPop(w, p)
  \/ \E w \in Worker : StopStep(w)
  \/ \E g \in Proc : LateReap(g)
  \/ UpkeepStep
  \/ CloseBegin
  \/ CloseStep
  \/ \E q, r \in Proc : Fork(q, r)
  \/ \E q \in Proc : Exit(q)

Spec == Init /\ [][Next]_vars

\* Every thread runs on; the user and the servers owe nothing.
Fairness ==
  /\ \A c \in Starter : WF_vars(StartStep(c))
  /\ \A w \in Worker : WF_vars(StopStep(w))
  /\ WF_vars(UpkeepStep)
  /\ WF_vars(CloseStep)

FairSpec == Spec /\ Fairness
-----------------------------------------------------------------------------
(* Who holds a leader                                                      *)

\* The stop of Worker w still needs its leader: as the group id it signals,
\* and for the log it closes in the end.
StopHolds(w, g) == /\ stops[w].pc \notin {"idle", "releasing"}
                   /\ stops[w].managed = g

ReapHolds(g) == /\ upkeep.pc \in {"popped", "forgotten"}
                /\ upkeep.snap[upkeep.cur] = g

StartHolds(c, g) == starts[c].pc = "spawned" /\ starts[c].child = g

Holds(g) ==
  \/ \E p \in Project : processes[p] = g
  \/ \E c \in Starter : StartHolds(c, g)
  \/ \E w \in Worker : StopHolds(w, g)
  \/ ReapHolds(g)
  \/ g \in closing.todo

-----------------------------------------------------------------------------
(* Safety                                                                  *)

\* Until a stop has signalled for the last time its leader is not collected,
\* by the stop itself, by reap_exited or by close(): the pid stays reserved,
\* so the group id cannot name anybody else's group (ADR-0003, LWSM-1138).
GroupIdReserved ==
  \A w \in Worker, g \in Proc : StopHolds(w, g) => life[g] # "gone"

\* Whoever is going to close, copy or truncate through a descriptor number
\* finds its own log there, never one the kernel reissued meanwhile
\* (LWSM-1138, LWSM-1169).
DescriptorsOurs ==
  /\ \A g \in Proc : Holds(g) => files[logFd[g]] = g
  /\ upkeep.pc = "copying" => files[upkeep.dup] = upkeep.snap[upkeep.cur]

\* Every open log belongs to somebody who will close it.
NoDescriptorLeak ==
  \A n \in Fd : files[n] # None =>
    \/ upkeep.pc = "copying" /\ upkeep.dup = n
    \/ Holds(files[n]) /\ logFd[files[n]] = n

\* A project never has two servers running beside each other: `start` waits
\* for the last process of the one before (LWSM-1137, LWSM-1168, LWSM-1321).
OneServer ==
  \A g, h \in Proc :
    (/\ owner[g] # None /\ owner[g] = owner[h]
     /\ LiveMembers(g) # {} /\ LiveMembers(h) # {}) => g = h

\* Every process still running for a server started in this session is in
\* reach of a later Stop, or is named as a straggler that blocks the next
\* Start; only close() lets go of running servers (LWSM-1165, LWSM-1274).
Reachable ==
  \A g \in Proc :
    (/\ owner[g] # None
     /\ LiveMembers(g) # {}
     /\ closing.pc # "releasing") =>
         \/ Holds(g)
         \/ LiveMembers(g) \subseteq stragglers[owner[g]]

\* A stop reported without a warning left nothing of the group running
\* (design.md: nothing is reported as success that was not verified).
CleanStopMeansGone ==
  \A g \in Proc : verdict[g] = "clean" => LiveMembers(g) = {}

\* From its pop to its `finally` a stop holds its project reserved.
StopReserved ==
  \A w \in Worker : stops[w].pc # "idle" => stops[w].key \in stopping

\* What a stop, a reap or a rotation works on while the lock is free stays
\* its own until it is done: the project's reservation, the leader's pid and
\* with it the group id, and the log's descriptor number.
ResourcesHeld ==
  StopReserved /\ GroupIdReserved /\ DescriptorsOurs /\ NoDescriptorLeak

-----------------------------------------------------------------------------
(* Liveness                                                                *)

\* A start or stop never keeps its project reserved for good.
ReservationEnds ==
  \A p \in Project : p \in starting \cup stopping ~>
                       p \notin starting /\ p \notin stopping

\* A server that ended by itself gives its slot back (LWSM-1165).
DeadSlotFreed ==
  \A g \in Proc :
    (\E p \in Project : processes[p] = g) /\ LiveMembers(g) = {}
      ~> ~\E p \in Project : processes[p] = g
-----------------------------------------------------------------------------
(* The abstract specification                                              *)

Serving(p) == {g \in Proc : owner[g] = p /\ LiveMembers(g) # {}}

SlotOf(p) ==
  CASE processes[p] # None -> "held"
    [] processes[p] = None /\ p \in stopping -> "stopping"
    [] OTHER -> IF \E c \in Starter : /\ starts[c].project = p
                                      /\ starts[c].pc \in {"reserved", "spawned"}
                THEN "starting" ELSE "free"

Slot == INSTANCE ServerSlot WITH
          Server <- Proc,
          slot <- [p \in Project |-> SlotOf(p)],
          serving <- [p \in Project |-> Serving(p)],
          quit <- closing.pc # "open"

\* The threads, locks and process groups above do nothing a caller that
\* knows only ServerSlot could tell apart from it.
ImplementsServerSlot == Slot!Spec
=============================================================================
