------------------------------ MODULE Adoption ------------------------------
(***************************************************************************)
(* How a relaunched manager takes its servers back (LWSM-1428): the record *)
(* of started servers (stores.py), adoption and the vouching for adopted   *)
(* groups (supervisor.py), and the end of a session (__main__.py).         *)
(*                                                                         *)
(* Servers outlive the manager.  Several copies of it follow one another,  *)
(* and a quitting copy may still run its stops while the next one adopts.  *)
(* The kernel reissues pids and group ids, the machine may restart, and    *)
(* the wall clock may be stepped.                                          *)
(*                                                                         *)
(* The steps of one start, stop or reap that its own session's threads can *)
(* overtake are the subject of Supervisor; here each is one action.        *)
(***************************************************************************)
EXTENDS Integers, FiniteSets

CONSTANTS
  Project,
  Pid,       \* pids the kernel may issue
  Copy,      \* manager processes; one that ended may be launched again
  None,      \* Python's None
  MaxNow,    \* bound: clock ticks since boot
  MaxBoot,   \* bound: restarts of the machine
  MaxWall,   \* bound: the boot time psutil reads
  Hazard     \* what may go wrong, see below

(***************************************************************************)
(* "crash":       a copy is killed.                                        *)
(* "reboot":      the machine restarts.                                    *)
(* "clock_step":  the wall clock is stepped, and the boot time with it.    *)
(* "no_boot_id":  the kernel does not say the boot id, and the entry is    *)
(*                written without it, as those before LWSM-1448 were.      *)
(***************************************************************************)
HazardKind == {"crash", "reboot", "clock_step", "no_boot_id"}

\* What a psutil.Process stands for: a pid and a start.
Handle == [pid : Pid, start : Nat]

Entry == [pid : Pid, start : Nat, created : Nat, boot : Nat \cup {None}]

\* ManagedProcess; `vouched_at` is of use for an adopted one (`popen is None`).
Managed == [pid : Pid, start : Nat, adopted : BOOLEAN, vouched : Nat]

Process == [state : {"free", "live", "zombie"}, group : Pid \cup {None},
            born : Nat, kin : Project \cup {None}, parent : Copy \cup {None}]

Session == [pc : {"off", "adopting", "running", "frozen", "released"},
            record : [Project -> Entry \cup {None}],
            todo : SUBSET Project, frozen : BOOLEAN]

Stopping == [server : Managed \cup {None}, members : SUBSET Handle]

ASSUME AdoptionAssumption ==
  /\ None \notin Project \cup Pid \cup Copy \cup Nat \cup Entry \cup Managed
  /\ MaxNow \in Nat /\ MaxBoot \in Nat /\ MaxWall \in Nat
  /\ Hazard \subseteq HazardKind

VARIABLES
  now,     \* _boot_clock(), in clock ticks: a start time is read so, rounded down
  boot,    \* /proc/sys/kernel/random/boot_id
  wall,    \* psutil.boot_time()
  proc,    \* kernel: the process behind each pid
  disk,    \* started.json
  copies,  \* the manager's copies and their StartedStore
  held,    \* _Registry.processes of each copy
  stops    \* the stops under way in each copy

kernel == <<now, boot, wall>>
vars == <<kernel, proc, disk, copies, held, stops>>

-----------------------------------------------------------------------------
Free(tick) == [state |-> "free", group |-> None, born |-> tick,
               kin |-> None, parent |-> None]
Off == [pc |-> "off", record |-> [p \in Project |-> None], todo |-> {},
        frozen |-> FALSE]
NotStopping == [server |-> None, members |-> {}]

TypeOK ==
  /\ now \in Nat /\ boot \in Nat /\ wall \in Nat
  /\ proc \in [Pid -> Process]
  /\ disk \in [Project -> Entry \cup {None}]
  /\ copies \in [Copy -> Session]
  /\ held \in [Copy -> [Project -> Managed \cup {None}]]
  /\ stops \in [Copy -> [Project -> Stopping]]

Init ==
  /\ now = 1 /\ boot = 0 /\ wall = 0
  /\ proc = [q \in Pid |-> Free(0)]
  /\ disk = [p \in Project |-> None]
  /\ copies = [m \in Copy |-> Off]
  /\ held = [m \in Copy |-> [p \in Project |-> None]]
  /\ stops = [m \in Copy |-> [p \in Project |-> NotStopping]]

\* What a copy manages of a project.
Servers(m, p) == {held[m][p], stops[m][p].server} \ {None}

-----------------------------------------------------------------------------
(* The kernel                                                              *)

\* The pid is taken: by a running process or by a zombie.
Taken(q) == proc[q].state # "free"

HandleOf(q) == [pid |-> q, start |-> proc[q].born]

\* A pid is issued when no process has it, dead or alive, and no group either;
\* and not twice within one clock tick.
Issuable(q) ==
  /\ ~Taken(q)
  /\ \A r \in Pid : Taken(r) => proc[r].group # q
  /\ proc[q].born < now

Born(group, kin, parent) ==
  [state |-> "live", group |-> group, born |-> now, kin |-> kin,
   parent |-> parent]

\* Time passes.
Passes ==
  /\ now < MaxNow
  /\ now' = now + 1
  /\ UNCHANGED <<boot, wall, proc, disk, copies, held, stops>>

\* Some other program starts, in a group of its own.
StrangerStarts(q) ==
  /\ Issuable(q)
  /\ proc' = [proc EXCEPT ![q] = Born(q, None, None)]
  /\ UNCHANGED <<kernel, disk, copies, held, stops>>

\* Any process forks; the child stays in the group.
Forks(q, r) ==
  /\ proc[q].state = "live"
  /\ Issuable(r)
  /\ proc' = [proc EXCEPT ![r] = Born(proc[q].group, proc[q].kin, None)]
  /\ UNCHANGED <<kernel, disk, copies, held, stops>>

\* A process exits. A child of a copy stays a zombie until the copy reaps it,
\* any other is reaped at once.
Exits(q) ==
  /\ proc[q].state = "live"
  /\ proc' = [proc EXCEPT ![q] = IF @.parent = None THEN Free(@.born)
                                 ELSE [@ EXCEPT !.state = "zombie"]]
  /\ UNCHANGED <<kernel, disk, copies, held, stops>>

\* What is recorded of a project, in the file or in a copy.
Records(p) ==
  ({disk[p]} \cup {copies[m].record[p] : m \in Copy}) \ {None}

\* The wall clock is stepped between sessions, while no entry depends on it: one
\* without a boot id then may refuse its own server, which is documented.
ClockStep ==
  /\ "clock_step" \in Hazard
  /\ \A p \in Project : \A e \in Records(p) : e.boot # None
  /\ \A m \in Copy : copies[m].pc = "off"
  /\ \E w \in 0..MaxWall : w # wall /\ wall' = w
  /\ UNCHANGED <<now, boot, proc, disk, copies, held, stops>>

\* The machine restarts: only the file is left.
Reboot ==
  /\ "reboot" \in Hazard
  /\ boot < MaxBoot
  /\ boot' = boot + 1
  /\ now' = 1
  /\ wall' = wall + now + 1
  /\ proc' = [q \in Pid |-> Free(0)]
  /\ copies' = [m \in Copy |-> Off]
  /\ held' = [m \in Copy |-> [p \in Project |-> None]]
  /\ stops' = [m \in Copy |-> [p \in Project |-> NotStopping]]
  /\ UNCHANGED disk

-----------------------------------------------------------------------------
(* Looking at processes                                                    *)

\* `_alive`: the handle's process runs and is no zombie.
Alive(h) == proc[h.pid].state = "live" /\ HandleOf(h.pid) = h

Leader(g) == [pid |-> g.pid, start |-> g.start]

\* `_leader_alive`.
LeaderAlive(g) == Alive(Leader(g))

\* What a walk of the group's id finds. Under the group's own pid the walk takes
\* the handle it has, so a new process there is not seen.
InGroup(g) ==
  LET live == {q \in Pid : proc[q].state = "live" /\ proc[q].group = g.pid} IN
  {h \in {HandleOf(q) : q \in live} : h.pid = g.pid => h = Leader(g)}

\* Mutant: a start within the tick of the last look vouches.
VouchesLate(g, h) == h = Leader(g) \/ h.start <= g.vouched

\* `_vouched`: this process was in the group when the group was last seen
\* occupied: the leader itself, or one that started a tick before.
Vouches(g, h) == h = Leader(g) \/ h.start < g.vouched

\* `_group_members`.
Members(g) ==
  LET seen == InGroup(g) IN
  IF g.adopted /\ ~\E h \in seen : Vouches(g, h) THEN {} ELSE seen

\* A look that finds the group occupied moves `vouched_at`.
Looked(g) ==
  IF g.adopted /\ Members(g) # {} THEN [g EXCEPT !.vouched = now] ELSE g

\* `owns_pid`, asked of the holder q of a port.
Owns(g, q) ==
  /\ proc[q].state = "live"
  /\ IF g.adopted /\ ~LeaderAlive(g)
     THEN HandleOf(q) \in Members(g)
     ELSE /\ proc[q].group = g.pid
          /\ Taken(g.pid) /\ HandleOf(g.pid) = Leader(g)

-----------------------------------------------------------------------------
(* The record                                                              *)

\* `_record`: what is written of a child just spawned.
EntryOf(q) ==
  {[pid |-> q, start |-> now, created |-> wall + now, boot |-> b] :
     b \in {boot} \cup IF "no_boot_id" \in Hazard THEN {None} ELSE {}}

\* Mutant: a frozen store still writes (before LWSM-1447).
SavesAnyway(m, record) == record

\* `_save`: the whole view, unless the record is frozen.
Saves(m, record) == IF copies[m].frozen THEN disk ELSE record

Written(m, record) ==
  /\ copies' = [copies EXCEPT ![m].record = record]
  /\ disk' = Saves(m, record)

\* `remove`: nothing is written if nothing was there.
Removed(m, projects) ==
  Written(m, [p \in Project |-> IF p \in projects THEN None
                                ELSE copies[m].record[p]])

\* Mutant: only the wall clock is compared.
SameCreateTime(e) == wall + proc[e.pid].born = e.created

\* `_identity_refusal` finds nothing against the process of this pid.
SameProcess(e) ==
  IF e.boot = None THEN wall + proc[e.pid].born = e.created
  ELSE e.boot = boot /\ proc[e.pid].born = e.start

\* `_adoptable`: it exists, is the one started, and leads its group.
Adoptable(e) ==
  /\ Taken(e.pid)
  /\ SameProcess(e)
  /\ proc[e.pid].group = e.pid

-----------------------------------------------------------------------------
(* The manager                                                             *)

\* The single-instance socket is taken until a quitting copy releases it.
Launch(m) ==
  /\ copies[m].pc = "off"
  /\ \A c \in Copy : copies[c].pc \in {"off", "released"}
  /\ copies' = [copies EXCEPT ![m] =
                  [pc |-> "adopting", record |-> disk, frozen |-> FALSE,
                   todo |-> {p \in Project : disk[p] # None}]]
  /\ UNCHANGED <<kernel, proc, disk, held, stops>>

\* `adopt`, one entry.
AdoptEntry(m, p) ==
  LET e == copies[m].record[p] IN
  /\ copies[m].pc = "adopting"
  /\ p \in copies[m].todo
  /\ copies' = [copies EXCEPT ![m].todo = @ \ {p}]
  /\ held' = [held EXCEPT ![m][p] =
                IF Adoptable(e)
                THEN [pid |-> e.pid, start |-> proc[e.pid].born,
                      adopted |-> TRUE, vouched |-> now]
                ELSE None]
  /\ UNCHANGED <<kernel, proc, disk, stops>>

\* The refused entries are removed, and the window opens.
AdoptDone(m) ==
  LET kept == [p \in Project |-> IF held[m][p] = None THEN None
                                 ELSE copies[m].record[p]] IN
  /\ copies[m].pc = "adopting"
  /\ copies[m].todo = {}
  /\ copies' = [copies EXCEPT ![m] = [@ EXCEPT !.pc = "running", !.record = kept]]
  /\ disk' = IF kept # copies[m].record THEN Saves(m, kept) ELSE disk
  /\ UNCHANGED <<kernel, proc, held, stops>>

\* `start`, as far as it succeeds: a group of its own, and its record.
Start(m, p) ==
  /\ copies[m].pc = "running"
  /\ held[m][p] = None
  /\ stops[m][p].server = None
  /\ \E q \in Pid :
       /\ Issuable(q)
       /\ proc' = [proc EXCEPT ![q] = Born(q, p, m)]
       /\ held' = [held EXCEPT ![m][p] = [pid |-> q, start |-> now,
                     adopted |-> FALSE, vouched |-> 0]]
       /\ \E e \in EntryOf(q) :
            Written(m, [copies[m].record EXCEPT ![p] = e])
  /\ UNCHANGED <<kernel, stops>>

\* The process table once a copy waited for its child's leader. A leader that
\* still runs is left to a thread that waits for it.
Reaped(g) ==
  [proc EXCEPT ![g.pid] =
     IF g.adopted \/ Leader(g) # HandleOf(g.pid) THEN @
     ELSE IF @.state = "zombie" THEN Free(@.born) ELSE [@ EXCEPT !.parent = None]]

\* `reap_exited`, one entry: nothing of the group is left.
ReapDrops(m, p) ==
  /\ copies[m].pc = "running"
  /\ held[m][p] # None
  /\ ~LeaderAlive(held[m][p])
  /\ Members(held[m][p]) = {}
  /\ held' = [held EXCEPT ![m][p] = None]
  /\ proc' = Reaped(held[m][p])
  /\ Removed(m, {p})
  /\ UNCHANGED <<kernel, stops>>

\* It is still occupied; `group_alive` and `owns_pid` look in the same way.
ReapKeeps(m, p) ==
  /\ copies[m].pc = "running"
  /\ held[m][p] # None
  /\ Members(held[m][p]) # {}
  /\ held' = [held EXCEPT ![m][p] = Looked(@)]
  /\ UNCHANGED <<kernel, proc, disk, copies, stops>>

\* `stop`: pops the entry, enumerates the group, removes the record. A queued
\* stop may run after the quit has begun.
StopPops(m, p) ==
  LET g == held[m][p] IN
  /\ copies[m].pc \in {"running", "frozen", "released"}
  /\ g # None
  /\ stops[m][p].server = None
  /\ held' = [held EXCEPT ![m][p] = None]
  /\ stops' = [stops EXCEPT ![m][p] = [server |-> Looked(g), members |-> Members(g)]]
  /\ Removed(m, {p})
  /\ UNCHANGED <<kernel, proc>>

\* A later enumeration, in `_escalate`.
StopLooks(m, p) ==
  LET g == stops[m][p].server IN
  /\ g # None
  /\ stops' = [stops EXCEPT ![m][p] = [server |-> Looked(g), members |-> Members(g)]]
  /\ UNCHANGED <<kernel, proc, disk, copies, held>>

\* The sequence ends, whatever it left running.
StopEnds(m, p) ==
  /\ stops[m][p].server # None
  /\ proc' = Reaped(stops[m][p].server)
  /\ stops' = [stops EXCEPT ![m][p] = NotStopping]
  /\ UNCHANGED <<kernel, disk, copies, held>>

\* `freeze_started_record`, after the poll has stopped.
Freezes(m) ==
  /\ copies[m].pc = "running"
  /\ copies' = [copies EXCEPT ![m] = [@ EXCEPT !.pc = "frozen", !.frozen = TRUE]]
  /\ UNCHANGED <<kernel, proc, disk, held, stops>>

\* The single-instance socket is released.
Releases(m) ==
  /\ copies[m].pc = "frozen"
  /\ copies' = [copies EXCEPT ![m].pc = "released"]
  /\ UNCHANGED <<kernel, proc, disk, held, stops>>

\* The process of copy m is gone; its children go to init, which reaps them.
Gone(m) ==
  /\ copies' = [copies EXCEPT ![m] = Off]
  /\ held' = [held EXCEPT ![m] = [p \in Project |-> None]]
  /\ stops' = [stops EXCEPT ![m] = [p \in Project |-> NotStopping]]
  /\ proc' = [q \in Pid |->
                IF proc[q].parent # m THEN proc[q]
                ELSE IF proc[q].state = "zombie" THEN Free(proc[q].born)
                ELSE [proc[q] EXCEPT !.parent = None]]
  /\ UNCHANGED <<kernel, disk>>

\* `close`: the stops have ended; the servers are left running.
Closes(m) ==
  /\ copies[m].pc = "released"
  /\ \A p \in Project : stops[m][p].server = None
  /\ Gone(m)

Crashes(m) ==
  /\ "crash" \in Hazard
  /\ copies[m].pc # "off"
  /\ Gone(m)

-----------------------------------------------------------------------------
Kernel ==
  \/ Passes
  \/ ClockStep
  \/ Reboot
  \/ \E q \in Pid : StrangerStarts(q) \/ Exits(q)
  \/ \E q, r \in Pid : Forks(q, r)

Manages(m) ==
  \/ Launch(m) \/ AdoptDone(m)
  \/ Freezes(m) \/ Releases(m) \/ Closes(m) \/ Crashes(m)
  \/ \E p \in Project :
       \/ AdoptEntry(m, p) \/ Start(m, p)
       \/ ReapDrops(m, p) \/ ReapKeeps(m, p)
       \/ StopPops(m, p) \/ StopLooks(m, p) \/ StopEnds(m, p)

Next == Kernel \/ \E m \in Copy : Manages(m)

Spec == Init /\ [][Next]_vars
-----------------------------------------------------------------------------
(* Safety                                                                  *)

\* What a copy calls its own is its own: a process that owns_pid accepts was
\* started for that project, across relaunches, restarts of the machine and
\* reissued pids (INV-3, INV-8).
OwnsOnlyOurs ==
  \A m \in Copy, p \in Project, q \in Pid :
    (held[m][p] # None /\ Owns(held[m][p], q)) => proc[q].kin = p

\* A walk of a held or stopping server's group returns none but its own
\* processes, so a group id reissued after the group ended neither keeps the
\* entry nor is signalled (INV-7, LWSM-1494).
MembersOurs ==
  \A m \in Copy, p \in Project :
    \A g \in Servers(m, p) : \A h \in Members(g) : proc[h.pid].kin = p

\* What a stop has enumerated and not yet signalled: a handle that still names a
\* process names one of ours.
SignalsOnlyOurs ==
  \A m \in Copy, p \in Project :
    \A h \in stops[m][p].members : Alive(h) => proc[h.pid].kin = p

\* While the leader of an adopted group lives a stop has it to signal and a reap
\* keeps it, however the clock was stepped (LWSM-1513).
LeaderIsMember ==
  \A m \in Copy, p \in Project :
    \A g \in Servers(m, p) : LeaderAlive(g) => Leader(g) \in Members(g)

\* What is taken for ours is exactly ours: no process of another program to
\* answer for, to keep an entry for or to signal, and no living leader missed.
OursExactly ==
  OwnsOnlyOurs /\ MembersOurs /\ SignalsOnlyOurs /\ LeaderIsMember

\* The file names exactly what the copy that may write it holds, whatever stops
\* of a quitting copy are still under way (INV-1, INV-2, LWSM-1447).
RecordMatches ==
  \A m \in Copy, p \in Project :
    copies[m].pc = "running" =>
      IF held[m][p] = None THEN disk[p] = None
      ELSE disk[p] # None /\ disk[p].pid = held[m][p].pid

\* A server that was recorded and still leads its group is taken back at the next
\* launch; a clock step in between does not refuse it (INV-5, INV-8).
AdoptsItsOwn ==
  [][\A m \in Copy, p \in Project :
       LET e == copies[m].record[p] IN
       (/\ p \in copies[m].todo /\ p \notin copies'[m].todo
        /\ copies'[m].pc = "adopting"
        /\ Alive([pid |-> e.pid, start |-> e.start])
        /\ proc[e.pid].kin = p
        /\ e.boot \in {None, boot})
         => held'[m][p] # None]_vars
=============================================================================
