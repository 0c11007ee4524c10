--------------------------- MODULE AdoptionProofs ---------------------------
(***************************************************************************)
(* What holds of Adoption for any number of projects, pids, copies, clock  *)
(* ticks and restarts, and with every hazard.                              *)
(***************************************************************************)
EXTENDS AdoptionInvariant, TLAPS

USE AdoptionAssumption

-----------------------------------------------------------------------------
(* Types                                                                   *)

\* Updates of records keep their types.
LEMMA SessionType ==
  ASSUME NEW s \in Session
  PROVE  /\ \A record \in [Project -> Entry \cup {None}] :
              /\ [s EXCEPT !.record = record] \in Session
              /\ [s EXCEPT !.pc = "running", !.record = record] \in Session
         /\ [s EXCEPT !.pc = "frozen", !.frozen = TRUE] \in Session
         /\ [s EXCEPT !.pc = "released"] \in Session
         /\ \A p \in Project : [s EXCEPT !.todo = @ \ {p}] \in Session
  BY DEF Session

LEMMA ProcessType ==
  ASSUME NEW x \in Process
  PROVE  /\ [x EXCEPT !.state = "zombie"] \in Process
         /\ [x EXCEPT !.parent = None] \in Process
         /\ Free(x.born) \in Process
  BY DEF Process, Free

\* What is looked up has its type.
LEMMA LookedType ==
  ASSUME TypeOK, NEW g \in Managed
  PROVE  /\ Looked(g) \in Managed
         /\ Members(g) \subseteq Handle
         /\ Leader(g) \in Handle
         /\ Reaped(g) \in [Pid -> Process]
<1>1. \A q \in Pid : HandleOf(q) \in Handle
  BY DEF TypeOK, HandleOf, Handle, Process
<1>2. InGroup(g) \subseteq Handle
  BY <1>1 DEF InGroup
<1>3. Members(g) \subseteq Handle
  BY <1>2 DEF Members
<1>4. Looked(g) \in Managed
  BY DEF TypeOK, Looked, Managed
<1>5. Leader(g) \in Handle
  BY DEF Leader, Handle, Managed
<1>6. proc[g.pid] \in Process
  BY DEF TypeOK, Managed
<1>7. Reaped(g) \in [Pid -> Process]
  BY <1>6, ProcessType DEF TypeOK, Reaped
<1> QED BY <1>3, <1>4, <1>5, <1>7

LEMMA BornType ==
  ASSUME TypeOK, NEW group \in Pid \cup {None}, NEW kin \in Project \cup {None},
         NEW parent \in Copy \cup {None}
  PROVE  Born(group, kin, parent) \in Process
  BY DEF TypeOK, Born, Process

LEMMA EntryOfType ==
  ASSUME TypeOK, NEW q \in Pid
  PROVE  EntryOf(q) \subseteq Entry
  BY DEF TypeOK, EntryOf, Entry

\* What is written has its type.
LEMMA WrittenType ==
  ASSUME TypeOK, NEW m \in Copy, NEW record \in [Project -> Entry \cup {None}],
         Written(m, record)
  PROVE  copies' \in [Copy -> Session] /\ disk' \in [Project -> Entry \cup {None}]
  BY SessionType DEF TypeOK, Written, Saves

LEMMA RemovedType ==
  ASSUME TypeOK, NEW m \in Copy, NEW projects \in SUBSET Project, Removed(m, projects)
  PROVE  copies' \in [Copy -> Session] /\ disk' \in [Project -> Entry \cup {None}]
<1>1. [p \in Project |-> IF p \in projects THEN None ELSE copies[m].record[p]]
        \in [Project -> Entry \cup {None}]
  BY DEF TypeOK, Session
<1> QED BY <1>1, WrittenType DEF Removed

LEMMA InitTyped == Init => TypeOK /\ Sessions
  BY DEF Init, TypeOK, Sessions, Off, NotStopping, Free, Process, Session, Stopping

\* Every step of the kernel keeps the types.
LEMMA KernelTyped ==
  ASSUME TypeOK, Kernel
  PROVE  TypeOK'
<1>1. CASE Passes
  BY <1>1 DEF TypeOK, Passes
<1>2. CASE ClockStep
  BY <1>2 DEF TypeOK, ClockStep
<1>3. CASE Reboot
  BY <1>3 DEF TypeOK, Reboot, Free, Off, NotStopping, Process, Session, Stopping
<1>4. ASSUME NEW q \in Pid, StrangerStarts(q) PROVE TypeOK'
  BY <1>4, BornType DEF TypeOK, StrangerStarts, kernel
<1>5. ASSUME NEW q \in Pid, Exits(q) PROVE TypeOK'
  BY <1>5, ProcessType DEF TypeOK, Exits, kernel
<1>6. ASSUME NEW q \in Pid, NEW r \in Pid, Forks(q, r) PROVE TypeOK'
  <2>1. proc[q].group \in Pid \cup {None} /\ proc[q].kin \in Project \cup {None}
    BY DEF TypeOK, Process
  <2> QED BY <1>6, <2>1, BornType DEF TypeOK, Forks, kernel
<1> QED BY <1>1, <1>2, <1>3, <1>4, <1>5, <1>6 DEF Kernel

\* Every step of a copy keeps the types.
LEMMA ManagesTyped ==
  ASSUME TypeOK, Sessions, NEW m \in Copy, Manages(m)
  PROVE  TypeOK'
<1>1. CASE Launch(m)
  BY <1>1 DEF TypeOK, Launch, Session, kernel
<1>2. CASE AdoptDone(m)
  <2>1. [p \in Project |-> IF held[m][p] = None THEN None ELSE copies[m].record[p]]
          \in [Project -> Entry \cup {None}]
    BY DEF TypeOK, Session
  <2> QED BY <1>2, <2>1, SessionType DEF TypeOK, AdoptDone, Saves, kernel
<1>3. CASE Freezes(m)
  BY <1>3, SessionType DEF TypeOK, Freezes, kernel
<1>4. CASE Releases(m)
  BY <1>4, SessionType DEF TypeOK, Releases, kernel
<1>5. CASE Gone(m)
  <2>1. proc' \in [Pid -> Process]
    BY <1>5, ProcessType DEF TypeOK, Gone
  <2> QED BY <1>5, <2>1 DEF TypeOK, Gone, Off, NotStopping, Session, Stopping, kernel
<1>6. ASSUME NEW p \in Project, AdoptEntry(m, p) PROVE TypeOK'
  <2>1. copies[m].record[p] \in Entry
    BY <1>6 DEF TypeOK, Sessions, AdoptEntry, Session
  <2>2. held' \in [Copy -> [Project -> Managed \cup {None}]]
    BY <1>6, <2>1 DEF TypeOK, AdoptEntry, Entry, Managed, Process
  <2> QED BY <1>6, <2>2, SessionType DEF TypeOK, AdoptEntry, kernel
<1>7. ASSUME NEW p \in Project, Start(m, p) PROVE TypeOK'
  <2>1. PICK q \in Pid, e \in Entry :
          /\ e \in EntryOf(q)
          /\ proc' = [proc EXCEPT ![q] = Born(q, p, m)]
          /\ held' = [held EXCEPT ![m][p] = [pid |-> q, start |-> now,
                        adopted |-> FALSE, vouched |-> 0]]
          /\ Written(m, [copies[m].record EXCEPT ![p] = e])
          /\ UNCHANGED <<kernel, stops>>
    BY <1>7, EntryOfType DEF Start
  <2>2. [copies[m].record EXCEPT ![p] = e] \in [Project -> Entry \cup {None}]
    BY EntryOfType DEF TypeOK, Session
  <2>3. proc' \in [Pid -> Process]
    BY <2>1, BornType DEF TypeOK
  <2>4. held' \in [Copy -> [Project -> Managed \cup {None}]]
    BY <2>1 DEF TypeOK, Managed
  <2> QED BY <2>1, <2>2, <2>3, <2>4, WrittenType DEF TypeOK, kernel
<1>8. ASSUME NEW p \in Project, ReapDrops(m, p) PROVE TypeOK'
  <2>1. held[m][p] \in Managed
    BY <1>8 DEF TypeOK, ReapDrops
  <2>2. proc' \in [Pid -> Process]
    BY <1>8, <2>1, LookedType DEF ReapDrops
  <2> QED BY <1>8, <2>2, RemovedType DEF TypeOK, ReapDrops, kernel
<1>9. ASSUME NEW p \in Project, ReapKeeps(m, p) PROVE TypeOK'
  <2>1. Looked(held[m][p]) \in Managed
    BY <1>9, LookedType DEF TypeOK, ReapKeeps
  <2> QED BY <1>9, <2>1 DEF TypeOK, ReapKeeps, kernel
<1>10. ASSUME NEW p \in Project, StopPops(m, p) PROVE TypeOK'
  <2>1. Looked(held[m][p]) \in Managed /\ Members(held[m][p]) \in SUBSET Handle
    BY <1>10, LookedType DEF TypeOK, StopPops
  <2>2. stops' \in [Copy -> [Project -> Stopping]]
    BY <1>10, <2>1 DEF TypeOK, StopPops, Stopping
  <2>3. held' \in [Copy -> [Project -> Managed \cup {None}]]
    BY <1>10 DEF TypeOK, StopPops
  <2> QED BY <1>10, <2>2, <2>3, RemovedType DEF TypeOK, StopPops, kernel
<1>11. ASSUME NEW p \in Project, StopLooks(m, p) PROVE TypeOK'
  <2>1. stops[m][p].server \in Managed
    BY <1>11 DEF TypeOK, StopLooks, Stopping
  <2>2. /\ Looked(stops[m][p].server) \in Managed
        /\ Members(stops[m][p].server) \in SUBSET Handle
    BY <2>1, LookedType
  <2>3. stops' \in [Copy -> [Project -> Stopping]]
    BY <1>11, <2>2 DEF TypeOK, StopLooks, Stopping
  <2> QED BY <1>11, <2>3 DEF TypeOK, StopLooks, kernel
<1>12. ASSUME NEW p \in Project, StopEnds(m, p) PROVE TypeOK'
  <2>1. stops[m][p].server \in Managed
    BY <1>12 DEF TypeOK, StopEnds, Stopping
  <2>2. proc' \in [Pid -> Process]
    BY <1>12, <2>1, LookedType DEF StopEnds
  <2> QED BY <1>12, <2>2 DEF TypeOK, StopEnds, NotStopping, Stopping, kernel
<1> QED BY <1>1, <1>2, <1>3, <1>4, <1>5, <1>6, <1>7, <1>8, <1>9, <1>10, <1>11, <1>12
        DEF Manages, Closes, Crashes

\* What a copy has: nothing when it is off, no stop while it adopts.
LEMMA SessionsStep ==
  ASSUME TypeOK, Sessions, Next
  PROVE  Sessions'
<1>1. CASE Kernel
  <2>1. CASE Reboot
    BY <2>1 DEF Sessions, Reboot, Off, NotStopping
  <2>2. CASE UNCHANGED <<copies, held, stops>>
    BY <2>2 DEF Sessions
  <2> QED BY <1>1, <2>1, <2>2
          DEF Kernel, Passes, ClockStep, StrangerStarts, Exits, Forks, kernel
<1>2. ASSUME NEW m \in Copy, Manages(m) PROVE Sessions'
  <2>1. CASE Launch(m)
    BY <2>1 DEF TypeOK, Sessions, Launch
  <2>2. CASE AdoptDone(m)
    BY <2>2 DEF TypeOK, Sessions, AdoptDone, Session
  <2>3. CASE Freezes(m)
    BY <2>3 DEF TypeOK, Sessions, Freezes, Session
  <2>4. CASE Releases(m)
    BY <2>4 DEF TypeOK, Sessions, Releases, Session
  <2>5. CASE Gone(m)
    BY <2>5 DEF TypeOK, Sessions, Gone, Off, NotStopping
  <2>6. ASSUME NEW p \in Project, AdoptEntry(m, p) PROVE Sessions'
    <3>1. /\ copies' = [copies EXCEPT ![m].todo = @ \ {p}]
          /\ \A c \in Copy, o \in Project :
               held'[c][o] = held[c][o] \/ (c = m /\ o = p)
          /\ stops' = stops
      BY <2>6 DEF TypeOK, AdoptEntry
    <3>2. stops[m][p].server = None /\ copies[m].pc = "adopting"
      BY <2>6 DEF Sessions, AdoptEntry, NotStopping
    <3>3. \A c \in Copy : /\ copies'[c].pc = copies[c].pc
                          /\ copies'[c].record = copies[c].record
                          /\ copies'[c].todo \subseteq copies[c].todo
      BY <3>1 DEF TypeOK, Session
    <3> QED BY <3>1, <3>2, <3>3 DEF Sessions
  <2>7. ASSUME NEW p \in Project, Start(m, p) PROVE Sessions'
    BY <2>7 DEF TypeOK, Sessions, Start, Written, Session
  <2>8. ASSUME NEW p \in Project, ReapDrops(m, p) PROVE Sessions'
    BY <2>8 DEF TypeOK, Sessions, ReapDrops, Removed, Written, Session
  <2>9. ASSUME NEW p \in Project, ReapKeeps(m, p) PROVE Sessions'
    BY <2>9 DEF TypeOK, Sessions, ReapKeeps
  <2>10. ASSUME NEW p \in Project, StopPops(m, p) PROVE Sessions'
    BY <2>10 DEF TypeOK, Sessions, StopPops, Removed, Written, Session
  <2>11. ASSUME NEW p \in Project, StopLooks(m, p) PROVE Sessions'
    <3>1. /\ copies' = copies /\ held' = held
          /\ \A c \in Copy, o \in Project :
               stops'[c][o] = stops[c][o] \/ (c = m /\ o = p)
      BY <2>11 DEF TypeOK, StopLooks
    <3>2. held[m][p] = None /\ copies[m].pc \notin {"off", "adopting"}
      BY <2>11 DEF Sessions, StopLooks, NotStopping
    <3> QED BY <3>1, <3>2 DEF Sessions
  <2>12. ASSUME NEW p \in Project, StopEnds(m, p) PROVE Sessions'
    <3>1. /\ copies' = copies /\ held' = held
          /\ \A c \in Copy, o \in Project :
               stops'[c][o] = IF c = m /\ o = p THEN NotStopping ELSE stops[c][o]
      BY <2>12 DEF TypeOK, StopEnds
    <3>2. NotStopping.server = None
      BY DEF NotStopping
    <3> QED BY <3>1, <3>2 DEF Sessions
  <2> QED BY <1>2, <2>1, <2>2, <2>3, <2>4, <2>5, <2>6, <2>7, <2>8, <2>9, <2>10, <2>11,
             <2>12 DEF Manages, Closes, Crashes
<1> QED BY <1>1, <1>2 DEF Next

-----------------------------------------------------------------------------
(* Processes come and go                                                   *)

\* What a step within one boot does to the process table: a taken pid keeps its
\* process or is freed, and a free one may be issued, now, to a process of a group
\* of its own or of the group of one it descends from.
ProcStep ==
  /\ boot' = boot /\ wall' = wall /\ now <= now'
  /\ \A q \in Pid :
       \/ /\ proc'[q].born = proc[q].born
          /\ Taken(q)' => /\ Taken(q)
                          /\ proc'[q].group = proc[q].group
                          /\ proc'[q].kin = proc[q].kin
       \/ /\ Issuable(q) /\ Taken(q)' /\ proc'[q].born = now
          /\ \/ proc'[q].group = q
             \/ \E r \in Pid : /\ Taken(r)
                               /\ proc'[q].group = proc[r].group
                               /\ proc'[q].kin = proc[r].kin

LEMMA ProcessesStep ==
  ASSUME TypeOK, TypeOK', Processes, ProcStep
  PROVE  Processes'
<1> DEFINE Same(q) == /\ proc'[q].born = proc[q].born
                      /\ Taken(q)' => /\ Taken(q)
                                      /\ proc'[q].group = proc[q].group
                                      /\ proc'[q].kin = proc[q].kin
           New(q) == Issuable(q) /\ proc'[q].born = now
           Own(q) == proc'[q].group = q
           Of(q, r) == /\ Taken(r) /\ proc'[q].group = proc[r].group
                       /\ proc'[q].kin = proc[r].kin
<1>1. \A q \in Pid : Same(q) \/ (New(q) /\ (Own(q) \/ \E r \in Pid : Of(q, r)))
  BY DEF ProcStep
<1>2. ASSUME NEW q \in Pid
      PROVE  proc'[q].born <= now' /\ (Taken(q)' => proc'[q].group \in Pid)
  <2>1. proc[q].born \in Nat /\ proc[q].born <= now /\ now <= now'
    BY DEF TypeOK, Processes, ProcStep, Process
  <2>2. \A r \in Pid : Taken(r) => proc[r].group \in Pid
    BY DEF Processes
  <2>3. CASE Same(q)
    BY <2>1, <2>2, <2>3 DEF TypeOK
  <2>4. CASE New(q) /\ (Own(q) \/ \E r \in Pid : Of(q, r))
    BY <2>1, <2>2, <2>4 DEF TypeOK
  <2> QED BY <1>1, <2>3, <2>4
<1>3. \A q \in Pid : Taken(q)' =>
        Of(q, q) \/ (New(q) /\ Own(q)) \/ (New(q) /\ \E r \in Pid : Of(q, r))
  BY <1>1
<1>4. ASSUME NEW q \in Pid, NEW r \in Pid, Taken(q)', Taken(r)'
      PROVE  /\ proc'[q].group = proc'[r].group => proc'[q].kin = proc'[r].kin
             /\ proc'[q].group = r => proc'[r].group = r
  <2>1. \A s \in Pid : Taken(s) /\ New(q) => proc[s].group # q
    BY DEF Issuable
  <2>2. \A s \in Pid : Taken(s) /\ New(r) => proc[s].group # r
    BY DEF Issuable
  <2>3. New(q) => ~Taken(q)
    BY DEF Issuable
  <2>4. New(r) => ~Taken(r)
    BY DEF Issuable
  <2>5. (New(q) /\ Own(q)) \/ \E s \in Pid : Of(q, s)
    BY <1>3, <1>4
  <2>6. (New(r) /\ Own(r)) \/ \E s \in Pid : Of(r, s)
    BY <1>3, <1>4
  <2>7. proc'[q].group = proc'[r].group => proc'[q].kin = proc'[r].kin
    BY <2>1, <2>2, <2>5, <2>6 DEF Processes
  <2>8. ASSUME proc'[q].group = r PROVE proc'[r].group = r
    <3>1. CASE Same(r)
      BY <1>4, <2>5, <2>8, <3>1 DEF Processes
    <3>2. CASE New(r)
      BY <2>2, <2>5, <2>8, <3>2, <1>1, <2>6
    <3> QED BY <1>1, <3>1, <3>2
  <2> QED BY <2>7, <2>8
<1> QED BY <1>2, <1>4 DEF Processes

\* An entry stays older than what runs under its pid, or names it.
LEMMA EntryStep ==
  ASSUME TypeOK, TypeOK', ProcStep, NEW p \in Project, NEW e \in Entry, EntryOurs(p, e)
  PROVE  EntryOurs(p, e)'
<1> DEFINE q == e.pid
<1>1. q \in Pid /\ e.start \in Nat /\ e.created \in Nat /\ e.boot \in Nat \cup {None}
  BY DEF Entry
<1>2. CASE /\ proc'[q].born = proc[q].born
           /\ Taken(q)' => Taken(q) /\ proc'[q].kin = proc[q].kin
  BY <1>1, <1>2 DEF EntryOurs, ProcStep, SameProcess
<1>3. CASE Issuable(q) /\ proc'[q].born = now
  BY <1>1, <1>3 DEF TypeOK, EntryOurs, ProcStep, SameProcess, Issuable, Process
<1> QED BY <1>1, <1>2, <1>3 DEF ProcStep

LEMMA HandleStep ==
  ASSUME TypeOK, TypeOK', ProcStep, NEW p \in Project, NEW h \in Handle, HandleOurs(p, h)
  PROVE  HandleOurs(p, h)'
<1> DEFINE q == h.pid
<1>1. q \in Pid /\ h.start \in Nat
  BY DEF Handle
<1>2. CASE /\ proc'[q].born = proc[q].born
           /\ Taken(q)' => Taken(q) /\ proc'[q].kin = proc[q].kin
  BY <1>1, <1>2 DEF HandleOurs
<1>3. CASE Issuable(q) /\ proc'[q].born = now
  BY <1>1, <1>3 DEF TypeOK, HandleOurs, Issuable, Process
<1> QED BY <1>1, <1>2, <1>3 DEF ProcStep

\* A server stays ours, if the step leaves the leader of one that was started here
\* to the copy that started it.
LEMMA ServerStep ==
  ASSUME TypeOK, TypeOK', Processes, ProcStep,
         NEW m \in Copy, NEW p \in Project, NEW g \in Managed, ServerOurs(m, p, g),
         ~g.adopted => Taken(g.pid)' /\ proc'[g.pid].parent = m
  PROVE  ServerOurs(m, p, g)'
<1> DEFINE q == g.pid
<1>1. /\ q \in Pid /\ g.start \in Nat /\ g.vouched \in Nat /\ g.adopted \in BOOLEAN
      /\ Leader(g) \in Handle
  BY DEF Managed, Leader, Handle
<1>2. HandleOurs(p, Leader(g))'
  BY <1>1, HandleStep DEF ServerOurs
<1>3. (Taken(q)' /\ proc'[q].born = g.start) => proc'[q].group = q
  <2>1. CASE /\ proc'[q].born = proc[q].born
             /\ Taken(q)' => Taken(q) /\ proc'[q].group = proc[q].group
    BY <2>1 DEF ServerOurs
  <2>2. CASE Issuable(q) /\ proc'[q].born = now
    BY <1>1, <2>2 DEF TypeOK, ServerOurs, HandleOurs, Leader, Issuable, Process
  <2> QED BY <1>1, <2>1, <2>2 DEF ProcStep
<1>4. ~g.adopted => Taken(q)' /\ proc'[q].born = g.start /\ proc'[q].parent = m
  BY <1>1 DEF ServerOurs, ProcStep, Issuable
<1>5. ASSUME g.adopted, NEW r \in Pid, Taken(r)', proc'[r].group = q,
             proc'[r].born < g.vouched
      PROVE  proc'[r].kin = p
  <2>1. CASE /\ proc'[r].born = proc[r].born /\ Taken(r)
             /\ proc'[r].group = proc[r].group /\ proc'[r].kin = proc[r].kin
    BY <1>5, <2>1 DEF ServerOurs
  <2>2. CASE proc'[r].born = now
    BY <1>1, <1>5, <2>2 DEF TypeOK, ServerOurs
  <2> QED BY <1>5, <2>1, <2>2 DEF ProcStep
<1>6. g.adopted => g.vouched <= now'
  BY <1>1 DEF TypeOK, ServerOurs, ProcStep
<1> QED BY <1>2, <1>3, <1>4, <1>5, <1>6 DEF ServerOurs

-----------------------------------------------------------------------------
(* What a walk of a group finds                                            *)

\* Whoever is in a server's group, as far as a walk finds it, was started for the
\* server's project, and so the server is still ours after the walk.
LEMMA SeenOurs ==
  ASSUME TypeOK, Processes, NEW m \in Copy, NEW p \in Project,
         NEW g \in Managed, ServerOurs(m, p, g)
  PROVE  /\ \A h \in Members(g) : HandleOurs(p, h) /\ proc[h.pid].kin = p
         /\ ServerOurs(m, p, Looked(g))
<1>1. g.pid \in Pid /\ g.adopted \in BOOLEAN /\ g.vouched \in Nat
  BY DEF Managed
<1>2. ASSUME NEW h \in InGroup(g)
      PROVE  /\ h.pid \in Pid /\ Taken(h.pid) /\ proc[h.pid].group = g.pid
             /\ h.start = proc[h.pid].born
             /\ h = Leader(g) => h.pid = g.pid /\ h.start = g.start
  BY <1>2 DEF InGroup, HandleOf, Taken, Leader
<1>3. ASSUME NEW h \in InGroup(g), Vouches(g, h), g.adopted
      PROVE  proc[h.pid].kin = p
  BY <1>2, <1>3 DEF Vouches, ServerOurs, HandleOurs, Leader
<1>4. ASSUME ~g.adopted
      PROVE  Taken(g.pid) /\ proc[g.pid].group = g.pid /\ proc[g.pid].kin = p
  BY <1>4 DEF ServerOurs, HandleOurs, Leader
<1>5. ASSUME Members(g) # {}
      PROVE  \A q \in Pid : (Taken(q) /\ proc[q].group = g.pid) => proc[q].kin = p
  <2>1. PICK r \in Pid : Taken(r) /\ proc[r].group = g.pid /\ proc[r].kin = p
    <3>1. CASE ~g.adopted
      BY <1>1, <1>4, <3>1
    <3>2. CASE g.adopted
      <4>1. \E h \in InGroup(g) : Vouches(g, h)
        BY <1>5, <3>2 DEF Members
      <4> QED BY <1>2, <1>3, <3>2, <4>1
    <3> QED BY <1>1, <3>1, <3>2
  <2> QED BY <2>1 DEF Processes
<1>6. ASSUME NEW h \in Members(g)
      PROVE  HandleOurs(p, h) /\ proc[h.pid].kin = p
  <2>1. h \in InGroup(g) /\ Members(g) # {}
    BY <1>6 DEF Members
  <2>2. h.pid \in Pid /\ h.start = proc[h.pid].born /\ proc[h.pid].kin = p
    BY <2>1, <1>2, <1>5
  <2>3. proc[h.pid].born \in Nat
    BY <2>2 DEF TypeOK, Process
  <2> QED BY <2>2, <2>3 DEF HandleOurs
<1>7. ServerOurs(m, p, Looked(g))
  <2>1. CASE Looked(g) = g
    BY <2>1
  <2>2. CASE g.adopted /\ Members(g) # {}
    <3>1. /\ Looked(g).pid = g.pid /\ Looked(g).start = g.start
          /\ Looked(g).adopted /\ Looked(g).vouched = now
      BY <2>2 DEF Looked, Managed
    <3>2. Leader(Looked(g)) = Leader(g)
      BY <3>1 DEF Leader
    <3> QED BY <2>2, <1>5, <3>1, <3>2 DEF TypeOK, ServerOurs
  <2> QED BY <2>1, <2>2 DEF Looked
<1> QED BY <1>6, <1>7

-----------------------------------------------------------------------------
(* What is ours stays ours                                                 *)

LEMMA RecordsType ==
  ASSUME TypeOK, NEW p \in Project
  PROVE  Records(p) \subseteq Entry
  BY DEF TypeOK, Records, Session

LEMMA ServersType ==
  ASSUME TypeOK, NEW m \in Copy, NEW p \in Project
  PROVE  Servers(m, p) \subseteq Managed /\ stops[m][p].members \subseteq Handle
  BY DEF TypeOK, Servers, Stopping

LEMMA EntriesKept ==
  ASSUME TypeOK, TypeOK', ProcStep, EntriesOurs,
         \A p \in Project : \A e \in Records(p)' : e \in Records(p) \/ EntryOurs(p, e)'
  PROVE  EntriesOurs'
<1> SUFFICES ASSUME NEW p \in Project, NEW e \in Records(p)', e \in Records(p)
             PROVE  EntryOurs(p, e)'
  BY DEF EntriesOurs
<1> QED BY RecordsType, EntryStep DEF EntriesOurs

\* The leader of a server that this copy started is still its child.
Child(m, g) == ~g.adopted => Taken(g.pid) /\ proc[g.pid].parent = m

LEMMA ServersKept ==
  ASSUME TypeOK, TypeOK', Processes, ProcStep, ServersOurs,
         \A m \in Copy, p \in Project :
           /\ \A g \in Servers(m, p)' :
                (g \in Servers(m, p) /\ Child(m, g)') \/ ServerOurs(m, p, g)'
           /\ \A h \in stops'[m][p].members :
                h \in stops[m][p].members \/ HandleOurs(p, h)'
  PROVE  ServersOurs'
<1>1. ASSUME NEW m \in Copy, NEW p \in Project, NEW g \in Servers(m, p)',
             g \in Servers(m, p), Child(m, g)'
      PROVE  ServerOurs(m, p, g)'
  BY <1>1, ServersType, ServerStep DEF ServersOurs, Child
<1>2. ASSUME NEW m \in Copy, NEW p \in Project, NEW h \in stops[m][p].members
      PROVE  HandleOurs(p, h)'
  BY <1>2, ServersType, HandleStep DEF ServersOurs
<1> QED BY <1>1, <1>2 DEF ServersOurs

\* Nothing moves in the kernel.
LEMMA KernelRests ==
  ASSUME TypeOK, UNCHANGED <<kernel, proc>>
  PROVE  ProcStep
  BY DEF TypeOK, ProcStep, kernel, Taken

LEMMA ServersRest ==
  ASSUME TypeOK, TypeOK', Processes, UNCHANGED <<kernel, proc>>, NEW m \in Copy,
         NEW p \in Project, NEW g \in Managed, ServerOurs(m, p, g)
  PROVE  ServerOurs(m, p, g)'
<1>1. ~g.adopted => Taken(g.pid)' /\ proc'[g.pid].parent = m
  BY DEF ServerOurs, Taken
<1> QED BY <1>1, KernelRests, ServerStep

LEMMA ChildOurs ==
  ASSUME TypeOK, ServersOurs, NEW m \in Copy, NEW p \in Project, NEW g \in Servers(m, p)
  PROVE  /\ Child(m, g)
         /\ ~g.adopted => proc[g.pid].kin = p /\ proc[g.pid].born = g.start
  BY DEF ServersOurs, ServerOurs, HandleOurs, Leader, Child

-----------------------------------------------------------------------------
(* The kernel's steps                                                      *)

LEMMA KernelStep ==
  ASSUME TypeOK, TypeOK', Ours, Kernel
  PROVE  (Processes /\ EntriesOurs /\ ServersOurs)'
<1> USE DEF Ours
<1>1. CASE Reboot
  <2>1. Processes'
    BY <1>1 DEF TypeOK, Reboot, Processes, Taken, Free
  <2>2. \A m \in Copy, p \in Project :
          Servers(m, p)' = {} /\ stops'[m][p].members = {}
    BY <1>1 DEF Reboot, Servers, NotStopping
  <2>3. ASSUME NEW p \in Project, NEW e \in Records(p)' PROVE EntryOurs(p, e)'
    <3>1. e \in Records(p) /\ e \in Entry
      BY <1>1, <2>3, RecordsType DEF Records, Reboot, Off
    <3>2. e.boot \in Nat \cup {None} /\ e.pid \in Pid /\ e.created \in Nat
      BY <3>1 DEF Entry
    <3>3. proc[e.pid].born \in Nat /\ proc[e.pid].born <= now
      BY <3>2 DEF TypeOK, Processes, Process
    <3>4. e.boot # None => e.boot <= boot
      BY <3>1 DEF EntriesOurs, EntryOurs
    <3>5. e.boot = None => e.created <= wall + proc[e.pid].born
      BY <3>1 DEF EntriesOurs, EntryOurs
    <3>6. boot' = boot + 1 /\ wall' = wall + now + 1 /\ proc'[e.pid] = Free(0)
      BY <1>1, <3>2 DEF Reboot
    <3>7. proc'[e.pid].born = 0 /\ ~Taken(e.pid)'
      BY <3>6 DEF Free, Taken
    <3> QED BY <3>2, <3>3, <3>4, <3>5, <3>6, <3>7 DEF TypeOK, EntryOurs
  <2> QED BY <2>1, <2>2, <2>3 DEF EntriesOurs, ServersOurs
<1>2. CASE ClockStep
  <2>1. UNCHANGED <<now, boot, proc, disk, copies, held, stops>>
    BY <1>2 DEF ClockStep
  <2>2. Processes'
    BY <2>1 DEF Processes, Taken
  <2>3. ServersOurs'
    BY <2>1 DEF ServersOurs, Servers, ServerOurs, HandleOurs, Leader, Taken
  <2>4. ASSUME NEW p \in Project, NEW e \in Records(p)' PROVE EntryOurs(p, e)'
    <3>1. e \in Records(p)
      BY <2>1, <2>4 DEF Records
    <3>2. e.boot # None
      BY <1>2, <3>1 DEF ClockStep
    <3> QED BY <2>1, <3>1, <3>2 DEF EntriesOurs, EntryOurs, SameProcess, Taken
  <2> QED BY <2>2, <2>3, <2>4 DEF EntriesOurs
<1>3. ASSUME ProcStep, UNCHANGED <<disk, copies, held, stops>>,
             \A m \in Copy, p \in Project : \A g \in Servers(m, p) : Child(m, g)'
      PROVE  (Processes /\ EntriesOurs /\ ServersOurs)'
  <2>1. \A p \in Project : Records(p)' = Records(p)
    BY <1>3 DEF Records
  <2>2. \A m \in Copy, p \in Project :
          Servers(m, p)' = Servers(m, p) /\ stops'[m][p] = stops[m][p]
    BY <1>3 DEF Servers
  <2>3. EntriesOurs'
    BY <1>3, <2>1, EntriesKept
  <2>4. ServersOurs'
    BY <1>3, <2>2, ServersKept
  <2> QED BY <1>3, <2>3, <2>4, ProcessesStep
<1>4. \A m \in Copy, p \in Project : \A g \in Servers(m, p) :
        Child(m, g) /\ g.pid \in Pid
  BY ChildOurs, ServersType DEF Managed
<1>5. CASE Passes
  <2>1. ProcStep
    BY <1>5 DEF TypeOK, Passes, ProcStep, Taken
  <2> QED BY <1>3, <1>4, <1>5, <2>1 DEF Passes, Child, Taken
<1>6. ASSUME NEW q \in Pid, StrangerStarts(q)
      PROVE  (Processes /\ EntriesOurs /\ ServersOurs)'
  <2>1. ProcStep
    BY <1>6 DEF TypeOK, StrangerStarts, Born, ProcStep, Taken, kernel
  <2> QED BY <1>3, <1>4, <1>6, <2>1 DEF TypeOK, StrangerStarts, Child, Taken, Issuable
<1>7. ASSUME NEW q \in Pid, Exits(q)
      PROVE  (Processes /\ EntriesOurs /\ ServersOurs)'
  <2>1. proc' = [proc EXCEPT ![q] = IF @.parent = None THEN Free(@.born)
                                    ELSE [@ EXCEPT !.state = "zombie"]]
    BY <1>7 DEF Exits
  <2>2. /\ proc'[q].born = proc[q].born
        /\ Taken(q)' => /\ proc[q].parent # None
                        /\ proc'[q].group = proc[q].group
                        /\ proc'[q].kin = proc[q].kin
        /\ proc[q].parent # None => Taken(q)' /\ proc'[q].parent = proc[q].parent
    BY <2>1 DEF TypeOK, Free, Taken, Process
  <2>3. Taken(q)
    BY <1>7 DEF Exits, Taken
  <2>4. \A r \in Pid : r # q => proc'[r] = proc[r]
    BY <2>1 DEF TypeOK
  <2>5. ProcStep
    BY <1>7, <2>2, <2>3, <2>4 DEF TypeOK, Exits, ProcStep, Taken, kernel
  <2>6. \A m \in Copy, p \in Project : \A g \in Servers(m, p) : Child(m, g)'
    BY <1>4, <2>2, <2>4 DEF Child, Taken
  <2> QED BY <1>3, <1>7, <2>5, <2>6 DEF Exits
<1>8. ASSUME NEW q \in Pid, NEW r \in Pid, Forks(q, r)
      PROVE  (Processes /\ EntriesOurs /\ ServersOurs)'
  <2>1. ProcStep
    BY <1>8 DEF TypeOK, Forks, Born, ProcStep, Taken, kernel
  <2> QED BY <1>3, <1>4, <1>8, <2>1 DEF TypeOK, Forks, Child, Taken, Issuable
<1> QED BY <1>1, <1>2, <1>5, <1>6, <1>7, <1>8 DEF Kernel

-----------------------------------------------------------------------------
(* The copies' steps                                                       *)

\* What a copy writes to the file or to its view of it is one record.
LEMMA WrittenRecords ==
  ASSUME TypeOK, NEW m \in Copy, NEW record \in [Project -> Entry \cup {None}],
         Written(m, record), NEW p \in Project
  PROVE  Records(p)' \subseteq Records(p) \cup ({record[p]} \ {None})
  BY DEF TypeOK, Records, Written, Saves, Session

LEMMA RemovedRecords ==
  ASSUME TypeOK, NEW m \in Copy, NEW projects \in SUBSET Project, Removed(m, projects),
         NEW p \in Project
  PROVE  Records(p)' \subseteq Records(p)
<1> DEFINE record == [o \in Project |-> IF o \in projects THEN None
                                        ELSE copies[m].record[o]]
<1>1. record \in [Project -> Entry \cup {None}]
  BY DEF TypeOK, Session
<1>2. Records(p)' \subseteq Records(p) \cup ({record[p]} \ {None})
  BY <1>1, WrittenRecords DEF Removed
<1>3. record[p] \in {None} \cup Records(p)
  BY DEF Records
<1> QED BY <1>2, <1>3

\* A step in which no process moves.
LEMMA QuietStep ==
  ASSUME TypeOK, TypeOK', Ours, UNCHANGED <<kernel, proc>>,
         \A p \in Project : Records(p)' \subseteq Records(p),
         \A m \in Copy, p \in Project :
           /\ \A g \in Servers(m, p)' : g \in Servers(m, p) \/ ServerOurs(m, p, g)
           /\ \A h \in stops'[m][p].members :
                h \in stops[m][p].members \/ HandleOurs(p, h)
  PROVE  (Processes /\ EntriesOurs /\ ServersOurs)'
<1> USE DEF Ours
<1>1. ProcStep
  BY KernelRests
<1>2. EntriesOurs'
  BY <1>1, EntriesKept
<1>3. ASSUME NEW m \in Copy, NEW p \in Project, NEW g \in Servers(m, p)'
      PROVE  ServerOurs(m, p, g)'
  <2>1. g \in Managed
    BY ServersType, TypeOK', <1>3 DEF TypeOK, Servers, Stopping
  <2>2. ServerOurs(m, p, g)
    BY <1>3 DEF ServersOurs
  <2> QED BY <2>1, <2>2, ServersRest
<1>4. ASSUME NEW m \in Copy, NEW p \in Project, NEW h \in stops'[m][p].members
      PROVE  HandleOurs(p, h)'
  <2>1. HandleOurs(p, h)
    BY <1>4 DEF ServersOurs
  <2> QED BY <2>1 DEF HandleOurs, Taken
<1> QED BY <1>1, <1>2, <1>3, <1>4, ProcessesStep DEF ServersOurs

\* Sessions change, servers do not move.
LEMMA SessionsOurs ==
  ASSUME TypeOK, TypeOK', Ours, NEW m \in Copy,
         Launch(m) \/ AdoptDone(m) \/ Freezes(m) \/ Releases(m)
  PROVE  (Processes /\ EntriesOurs /\ ServersOurs)'
<1>1. UNCHANGED <<kernel, proc, held, stops>>
  BY DEF Launch, AdoptDone, Freezes, Releases
<1>2. \A c \in Copy, p \in Project :
        Servers(c, p)' = Servers(c, p) /\ stops'[c][p] = stops[c][p]
  BY <1>1 DEF Servers
<1>3. ASSUME NEW p \in Project PROVE Records(p)' \subseteq Records(p)
  <2>1. CASE Launch(m)
    BY <2>1 DEF TypeOK, Launch, Records, Session
  <2>2. CASE AdoptDone(m)
    <3> DEFINE kept == [o \in Project |-> IF held[m][o] = None THEN None
                                          ELSE copies[m].record[o]]
    <3>1. kept[p] \in Records(p) \cup {None}
      BY DEF Records
    <3>2. \A c \in Copy : copies'[c].record = copies[c].record
                          \/ (c = m /\ copies'[c].record = kept)
      <4>1. copies' = [copies EXCEPT ![m] =
                         [@ EXCEPT !.pc = "running", !.record = kept]]
        BY <2>2 DEF AdoptDone
      <4>2. copies[m] \in Session
        BY DEF TypeOK
      <4> HIDE DEF kept
      <4> QED BY <4>1, <4>2 DEF TypeOK, Session
    <3>3. disk' = kept \/ disk' = disk
      BY <2>2 DEF AdoptDone, Saves
    <3> HIDE DEF kept
    <3> QED BY <3>1, <3>2, <3>3 DEF Records
  <2>3. CASE Freezes(m)
    BY <2>3 DEF TypeOK, Freezes, Records, Session
  <2>4. CASE Releases(m)
    BY <2>4 DEF TypeOK, Releases, Records, Session
  <2> QED BY <2>1, <2>2, <2>3, <2>4
<1> QED BY <1>1, <1>2, <1>3, QuietStep

\* An adopted server is the one that was recorded.
LEMMA AdoptEntryOurs ==
  ASSUME TypeOK, TypeOK', Ours, NEW m \in Copy, NEW p \in Project, AdoptEntry(m, p)
  PROVE  (Processes /\ EntriesOurs /\ ServersOurs)'
<1> DEFINE e == copies[m].record[p]
           g == [pid |-> e.pid, start |-> proc[e.pid].born, adopted |-> TRUE,
                 vouched |-> now]
<1> USE DEF Ours
<1>1. e \in Records(p) /\ e \in Entry /\ e.pid \in Pid
  BY DEF TypeOK, Sessions, AdoptEntry, Records, Session, Entry
<1>2. ASSUME Adoptable(e) PROVE ServerOurs(m, p, g)
  <2>1. Taken(e.pid) /\ proc[e.pid].kin = p /\ proc[e.pid].group = e.pid
    BY <1>1, <1>2 DEF Adoptable, EntriesOurs, EntryOurs
  <2>2. \A q \in Pid : (Taken(q) /\ proc[q].group = e.pid) => proc[q].kin = p
    BY <1>1, <2>1 DEF Processes
  <2>3. proc[e.pid].born \in Nat
    BY <1>1 DEF TypeOK, Process
  <2> QED BY <1>1, <2>1, <2>2, <2>3 DEF TypeOK, ServerOurs, HandleOurs, Leader
<1>3. UNCHANGED <<kernel, proc, disk, stops>>
  BY DEF AdoptEntry
<1>4. \A o \in Project : Records(o)' \subseteq Records(o)
  BY <1>3 DEF TypeOK, AdoptEntry, Records, Session
<1>5. \A c \in Copy, o \in Project :
        held'[c][o] = held[c][o]
        \/ (c = m /\ o = p /\ held'[c][o] = IF Adoptable(e) THEN g ELSE None)
  BY DEF TypeOK, AdoptEntry
<1>6. \A c \in Copy, o \in Project : \A x \in Servers(c, o)' :
        x \in Servers(c, o) \/ ServerOurs(c, o, x)
  BY <1>2, <1>3, <1>5 DEF Servers
<1> QED BY <1>3, <1>4, <1>6, QuietStep

\* A look at a group.
LEMMA LookOurs ==
  ASSUME TypeOK, TypeOK', Ours, NEW m \in Copy, NEW p \in Project,
         ReapKeeps(m, p) \/ StopPops(m, p) \/ StopLooks(m, p)
  PROVE  (Processes /\ EntriesOurs /\ ServersOurs)'
<1> USE DEF Ours
<1>1. PICK g \in Servers(m, p) :
        /\ UNCHANGED <<kernel, proc>>
        /\ \A c \in Copy, o \in Project :
             /\ Servers(c, o)' \subseteq Servers(c, o)
                                 \cup (IF c = m /\ o = p THEN {Looked(g)} ELSE {})
             /\ stops'[c][o].members \subseteq stops[c][o].members
                                 \cup (IF c = m /\ o = p THEN Members(g) ELSE {})
  <2>1. CASE ReapKeeps(m, p)
    <3>1. held[m][p] \in Servers(m, p)
      BY <2>1 DEF ReapKeeps, Servers
    <3> QED BY <2>1, <3>1 DEF TypeOK, ReapKeeps, Servers
  <2>2. CASE StopPops(m, p)
    <3>1. held[m][p] \in Servers(m, p)
      BY <2>2 DEF StopPops, Servers
    <3> QED BY <2>2, <3>1 DEF TypeOK, StopPops, Servers
  <2>3. CASE StopLooks(m, p)
    <3>1. stops[m][p].server \in Servers(m, p)
      BY <2>3 DEF StopLooks, Servers
    <3> QED BY <2>3, <3>1 DEF TypeOK, StopLooks, Servers
  <2> QED BY <2>1, <2>2, <2>3
<1>2. g \in Managed /\ ServerOurs(m, p, g)
  BY ServersType DEF ServersOurs
<1>3. ServerOurs(m, p, Looked(g)) /\ \A h \in Members(g) : HandleOurs(p, h)
  BY <1>2, SeenOurs
<1>4. \A o \in Project : Records(o)' \subseteq Records(o)
  <2>1. CASE StopPops(m, p)
    BY <2>1, RemovedRecords DEF StopPops
  <2>2. CASE UNCHANGED <<disk, copies>>
    BY <2>2 DEF Records
  <2> QED BY <2>1, <2>2 DEF ReapKeeps, StopLooks
<1> QED BY <1>1, <1>3, <1>4, QuietStep

\* A leader is collected, or left to a thread, by the copy that started it, for the
\* project it was started for, once nothing of the group is needed any more.
LEMMA ReapedOurs ==
  ASSUME TypeOK, TypeOK', Ours, NEW m \in Copy, NEW p \in Project, NEW g \in Servers(m, p),
         proc' = Reaped(g), UNCHANGED kernel,
         \A o \in Project : Records(o)' \subseteq Records(o),
         \A c \in Copy, o \in Project :
           /\ Servers(c, o)' = IF c = m /\ o = p THEN {} ELSE Servers(c, o)
           /\ stops'[c][o].members \subseteq stops[c][o].members
  PROVE  (Processes /\ EntriesOurs /\ ServersOurs)'
<1> USE DEF Ours
<1>1. g \in Managed /\ g.pid \in Pid /\ g.adopted \in BOOLEAN
  BY ServersType DEF Managed
<1>2. /\ \A q \in Pid : q # g.pid => proc'[q] = proc[q]
      /\ g.adopted => proc' = proc
  BY <1>1 DEF TypeOK, Reaped
<1>3. ~g.adopted => Taken(g.pid) /\ proc[g.pid].parent = m /\ proc[g.pid].kin = p
  BY ChildOurs DEF Child
<1>4. /\ proc'[g.pid].born = proc[g.pid].born
      /\ Taken(g.pid)' => /\ Taken(g.pid)
                          /\ proc'[g.pid].group = proc[g.pid].group
                          /\ proc'[g.pid].kin = proc[g.pid].kin
  <2>1. proc[g.pid] \in Process
    BY <1>1 DEF TypeOK
  <2>2. CASE proc'[g.pid] = proc[g.pid]
    BY <2>2 DEF Taken
  <2>3. CASE proc'[g.pid] = Free(proc[g.pid].born)
    BY <2>3 DEF Taken, Free
  <2>4. CASE proc'[g.pid] = [proc[g.pid] EXCEPT !.parent = None]
    BY <2>1, <2>4 DEF Taken, Process
  <2> QED BY <1>1, <2>2, <2>3, <2>4 DEF TypeOK, Reaped
<1>5. ProcStep
  BY <1>2, <1>4 DEF TypeOK, ProcStep, Taken, kernel
<1>6. ASSUME NEW c \in Copy, NEW o \in Project, NEW x \in Servers(c, o)'
      PROVE  x \in Servers(c, o) /\ Child(c, x)'
  <2>1. x \in Servers(c, o) /\ ~(c = m /\ o = p)
    BY <1>6
  <2>2. x.pid \in Pid
    BY <2>1, ServersType DEF Managed
  <2>3. Child(c, x) /\ (~x.adopted => proc[x.pid].kin = o)
    BY <2>1, ChildOurs
  <2>4. ~x.adopted => proc'[x.pid] = proc[x.pid]
    BY <1>2, <1>3, <2>1, <2>2, <2>3 DEF Child
  <2> QED BY <2>1, <2>3, <2>4 DEF Child, Taken
<1>7. EntriesOurs'
  BY <1>5, EntriesKept
<1>8. ServersOurs'
  BY <1>5, <1>6, ServersKept
<1> QED BY <1>5, <1>7, <1>8, ProcessesStep

LEMMA ReapDropsOurs ==
  ASSUME TypeOK, TypeOK', Ours, NEW m \in Copy, NEW p \in Project, ReapDrops(m, p)
  PROVE  (Processes /\ EntriesOurs /\ ServersOurs)'
<1>1. held[m][p] \in Servers(m, p) /\ stops[m][p].server = None
  BY DEF ReapDrops, Servers, Ours, Sessions
<1>2. \A c \in Copy, o \in Project :
        /\ Servers(c, o)' = IF c = m /\ o = p THEN {} ELSE Servers(c, o)
        /\ stops'[c][o].members = stops[c][o].members
  BY <1>1 DEF TypeOK, ReapDrops, Servers
<1>3. \A o \in Project : Records(o)' \subseteq Records(o)
  BY RemovedRecords DEF ReapDrops
<1>4. proc' = Reaped(held[m][p]) /\ UNCHANGED kernel
  BY DEF ReapDrops
<1> QED BY <1>1, <1>2, <1>3, <1>4, ReapedOurs

LEMMA StopEndsOurs ==
  ASSUME TypeOK, TypeOK', Ours, NEW m \in Copy, NEW p \in Project, StopEnds(m, p)
  PROVE  (Processes /\ EntriesOurs /\ ServersOurs)'
<1>1. stops[m][p].server \in Servers(m, p) /\ held[m][p] = None
  BY DEF StopEnds, Servers, Ours, Sessions
<1>2. \A c \in Copy, o \in Project :
        stops'[c][o] = IF c = m /\ o = p THEN NotStopping ELSE stops[c][o]
  BY DEF TypeOK, StopEnds
<1>3. \A c \in Copy, o \in Project :
        /\ Servers(c, o)' = IF c = m /\ o = p THEN {} ELSE Servers(c, o)
        /\ stops'[c][o].members \subseteq stops[c][o].members
  BY <1>1, <1>2 DEF StopEnds, Servers, NotStopping
<1>4. \A o \in Project : Records(o)' = Records(o)
  BY DEF StopEnds, Records
<1>5. proc' = Reaped(stops[m][p].server) /\ UNCHANGED kernel
  BY DEF StopEnds
<1> QED BY <1>1, <1>3, <1>4, <1>5, ReapedOurs

\* A copy that ends leaves its children to init, and the other copies theirs.
LEMMA GoneOurs ==
  ASSUME TypeOK, TypeOK', Ours, NEW m \in Copy, Gone(m)
  PROVE  (Processes /\ EntriesOurs /\ ServersOurs)'
<1> USE DEF Ours
<1>1. \A q \in Pid : proc'[q] = IF proc[q].parent # m THEN proc[q]
                                ELSE IF proc[q].state = "zombie" THEN Free(proc[q].born)
                                ELSE [proc[q] EXCEPT !.parent = None]
  BY DEF Gone
<1>2. ASSUME NEW q \in Pid
      PROVE  /\ proc'[q].born = proc[q].born
             /\ Taken(q)' => /\ Taken(q)
                             /\ proc'[q].group = proc[q].group
                             /\ proc'[q].kin = proc[q].kin
  <2>1. proc[q] \in Process
    BY DEF TypeOK
  <2>2. CASE proc'[q] = proc[q]
    BY <2>2 DEF Taken
  <2>3. CASE proc'[q] = Free(proc[q].born)
    BY <2>3 DEF Taken, Free
  <2>4. CASE proc'[q] = [proc[q] EXCEPT !.parent = None]
    BY <2>1, <2>4 DEF Taken, Process
  <2> QED BY <1>1, <2>2, <2>3, <2>4
<1>3. ProcStep
  BY <1>2 DEF TypeOK, ProcStep, Gone, kernel
<1>4. \A c \in Copy, o \in Project :
        /\ Servers(c, o)' = IF c = m THEN {} ELSE Servers(c, o)
        /\ stops'[c][o].members \subseteq stops[c][o].members
  BY DEF TypeOK, Gone, Servers, NotStopping
<1>5. ASSUME NEW c \in Copy, NEW o \in Project, NEW x \in Servers(c, o)'
      PROVE  x \in Servers(c, o) /\ Child(c, x)'
  <2>1. x \in Servers(c, o) /\ c # m
    BY <1>4, <1>5
  <2>2. x.pid \in Pid /\ Child(c, x)
    BY <2>1, ServersType, ChildOurs DEF Managed
  <2> QED BY <1>1, <2>1, <2>2 DEF Child, Taken
<1>6. ASSUME NEW o \in Project PROVE Records(o)' \subseteq Records(o)
  <2>1. \A c \in Copy : copies'[c] = IF c = m THEN Off ELSE copies[c]
    BY DEF TypeOK, Gone
  <2>2. Off.record[o] = None
    BY DEF Off
  <2> QED BY <2>1, <2>2 DEF Records, Gone
<1>7. EntriesOurs'
  BY <1>3, <1>6, EntriesKept
<1>8. ServersOurs'
  BY <1>3, <1>4, <1>5, ServersKept
<1> QED BY <1>3, <1>7, <1>8, ProcessesStep

\* A server just started is ours, and what is recorded of it names it.
LEMMA StartOurs ==
  ASSUME TypeOK, TypeOK', Ours, NEW m \in Copy, NEW p \in Project, Start(m, p)
  PROVE  (Processes /\ EntriesOurs /\ ServersOurs)'
<1> USE DEF Ours
<1>1. PICK q \in Pid, e \in Entry :
        /\ Issuable(q)
        /\ e \in EntryOf(q)
        /\ proc' = [proc EXCEPT ![q] = Born(q, p, m)]
        /\ held' = [held EXCEPT ![m][p] = [pid |-> q, start |-> now,
                      adopted |-> FALSE, vouched |-> 0]]
        /\ Written(m, [copies[m].record EXCEPT ![p] = e])
        /\ UNCHANGED <<kernel, stops>>
  BY EntryOfType DEF Start
<1>2. PICK g \in Managed : g = [pid |-> q, start |-> now, adopted |-> FALSE, vouched |-> 0]
  BY DEF TypeOK, Managed
<1>3. /\ proc'[q] = Born(q, p, m)
      /\ \A r \in Pid : r # q => proc'[r] = proc[r]
  BY <1>1 DEF TypeOK
<1>4. /\ proc'[q].born = now /\ proc'[q].group = q /\ proc'[q].kin = p
      /\ proc'[q].parent = m /\ Taken(q)'
  BY <1>3 DEF Born, Taken
<1>5. ProcStep
  BY <1>1, <1>3, <1>4 DEF TypeOK, ProcStep, Taken, kernel
<1>6. EntryOurs(p, e)'
  BY <1>1, <1>4 DEF TypeOK, EntryOf, EntryOurs, kernel
<1>7. \A o \in Project : Records(o)' \subseteq Records(o) \cup (IF o = p THEN {e} ELSE {})
  <2>1. [copies[m].record EXCEPT ![p] = e] \in [Project -> Entry \cup {None}]
    BY DEF TypeOK, Session
  <2>2. \A o \in Project : [copies[m].record EXCEPT ![p] = e][o] =
                             IF o = p THEN e ELSE copies[m].record[o]
    BY DEF TypeOK, Session
  <2> DEFINE record == [copies[m].record EXCEPT ![p] = e]
  <2>3. \A o \in Project : copies[m].record[o] \in Records(o) \cup {None}
    BY DEF Records
  <2>4. Written(m, record) /\ record \in [Project -> Entry \cup {None}]
    BY <1>1, <2>1
  <2> HIDE DEF record
  <2>5. \A o \in Project : Records(o)' \subseteq Records(o) \cup ({record[o]} \ {None})
    BY <2>4, WrittenRecords
  <2> QED BY <2>2, <2>3, <2>5 DEF record
<1>8. EntriesOurs'
  BY <1>5, <1>6, <1>7, EntriesKept
<1>9. ServerOurs(m, p, g)'
  <2>1. g.pid = q /\ g.start = now /\ ~g.adopted
    BY <1>2
  <2>2. now \in Nat
    BY DEF TypeOK
  <2> QED BY <1>4, <2>1, <2>2 DEF ServerOurs, HandleOurs, Leader
<1>10. \A c \in Copy, o \in Project :
        /\ Servers(c, o)' \subseteq Servers(c, o) \cup (IF c = m /\ o = p THEN {g} ELSE {})
        /\ stops'[c][o] = stops[c][o]
  BY <1>1, <1>2 DEF TypeOK, Servers
<1>11. ASSUME NEW c \in Copy, NEW o \in Project, NEW x \in Servers(c, o) PROVE Child(c, x)'
  <2>1. x.pid \in Pid /\ Child(c, x)
    BY ServersType, ChildOurs DEF Managed
  <2> QED BY <1>1, <1>3, <2>1 DEF Child, Taken, Issuable
<1>12. ServersOurs'
  <2>1. ASSUME NEW c \in Copy, NEW o \in Project, NEW x \in Servers(c, o)'
        PROVE  (x \in Servers(c, o) /\ Child(c, x)') \/ ServerOurs(c, o, x)'
    BY <1>9, <1>10, <1>11, <2>1
  <2>2. \A c \in Copy, o \in Project : stops'[c][o].members \subseteq stops[c][o].members
    BY <1>10
  <2> QED BY <1>5, <2>1, <2>2, ServersKept
<1> QED BY <1>5, <1>8, <1>12, ProcessesStep

-----------------------------------------------------------------------------
(* The file                                                                *)

\* A copy that writes, and may, makes the file its view, and the others cannot.
LEMMA WrittenWriters ==
  ASSUME TypeOK, Sessions, Writers, NEW m \in Copy, NEW p \in Project,
         NEW record \in [Project -> Entry \cup {None}], Written(m, record),
         \A o \in Project : o # p => record[o] = copies[m].record[o],
         \A c \in Copy, o \in Project : held'[c][o] = held[c][o] \/ (c = m /\ o = p),
         copies[m].pc \in {"running", "frozen", "released"},
         IF held'[m][p] = None THEN record[p] = None
         ELSE record[p] # None /\ record[p].pid = held'[m][p].pid
  PROVE  Writers'
<1>1. \A c \in Copy : /\ copies'[c].pc = copies[c].pc
                      /\ copies'[c].frozen = copies[c].frozen
                      /\ copies'[c].todo = copies[c].todo
                      /\ c # m => copies'[c].record = copies[c].record
  BY DEF TypeOK, Written, Session
<1>2. copies'[m].record = record
  BY DEF TypeOK, Written, Session
<1>3. CASE copies[m].pc = "running"
  <2>1. disk' = record /\ disk = copies[m].record
    BY <1>3 DEF Writers, Written, Saves
  <2>2. \A c \in Copy : c # m => copies[c].pc \in {"off", "released"}
    BY <1>3 DEF Writers
  <2> QED BY <1>1, <1>2, <1>3, <2>1, <2>2 DEF Writers
<1>4. CASE copies[m].pc \in {"frozen", "released"}
  <2>1. disk' = disk
    BY <1>4 DEF Writers, Written, Saves
  <2> QED BY <1>1, <1>4, <2>1 DEF Writers
<1> QED BY <1>3, <1>4

LEMMA RemovedWriters ==
  ASSUME TypeOK, Sessions, Writers, NEW m \in Copy, NEW p \in Project, Removed(m, {p}),
         held' = [held EXCEPT ![m][p] = None],
         copies[m].pc \in {"running", "frozen", "released"}
  PROVE  Writers'
<1> DEFINE record == [o \in Project |-> IF o \in {p} THEN None ELSE copies[m].record[o]]
<1>1. record \in [Project -> Entry \cup {None}]
  BY DEF TypeOK, Session
<1>2. Written(m, record)
  BY DEF Removed
<1>3. /\ \A o \in Project : o # p => record[o] = copies[m].record[o]
      /\ record[p] = None
  OBVIOUS
<1>4. /\ \A c \in Copy, o \in Project : held'[c][o] = held[c][o] \/ (c = m /\ o = p)
      /\ held'[m][p] = None
  BY DEF TypeOK
<1> HIDE DEF record
<1> QED BY <1>1, <1>2, <1>3, <1>4, WrittenWriters

LEMMA WritersStep ==
  ASSUME TypeOK, Sessions, Writers, Next
  PROVE  Writers'
<1>1. CASE Kernel
  <2>1. CASE Reboot
    BY <2>1 DEF Writers, Reboot, Off
  <2>2. CASE UNCHANGED <<disk, copies, held>>
    BY <2>2 DEF Writers
  <2> QED BY <1>1, <2>1, <2>2
          DEF Kernel, Passes, ClockStep, StrangerStarts, Exits, Forks, kernel
<1>2. ASSUME NEW m \in Copy, Manages(m) PROVE Writers'
  <2>1. CASE Launch(m)
    <3>1. /\ disk' = disk /\ held' = held
          /\ \A c \in Copy : c # m => copies'[c] = copies[c]
          /\ copies'[m].pc = "adopting" /\ copies'[m].record = disk /\ ~copies'[m].frozen
      BY <2>1 DEF TypeOK, Launch
    <3>2. \A c \in Copy : copies[c].pc \in {"off", "released"}
      BY <2>1 DEF Launch
    <3>3. \A p \in Project : held[m][p] = None
      BY <2>1 DEF Launch, Sessions
    <3> QED BY <3>1, <3>2, <3>3 DEF Writers
  <2>2. CASE AdoptDone(m)
    <3> DEFINE kept == [p \in Project |-> IF held[m][p] = None THEN None
                                          ELSE copies[m].record[p]]
    <3>1. /\ copies' = [copies EXCEPT ![m] = [@ EXCEPT !.pc = "running", !.record = kept]]
          /\ held' = held
          /\ disk' = IF kept # copies[m].record THEN Saves(m, kept) ELSE disk
      BY <2>2 DEF AdoptDone
    <3>2. copies[m].pc = "adopting" /\ copies[m].record = disk /\ ~copies[m].frozen
      BY <2>2 DEF AdoptDone, Writers
    <3>3. disk' = kept
      BY <3>1, <3>2 DEF Saves
    <3>4. \A p \in Project : kept[p] = IF held[m][p] = None THEN None ELSE disk[p]
      BY <3>2
    <3>5. \A c \in Copy : c # m => copies'[c] = copies[c] /\ copies[c].pc \in {"off", "released"}
      BY <3>1, <3>2 DEF TypeOK, Writers
    <3> HIDE DEF kept
    <3>6. /\ copies'[m].pc = "running" /\ copies'[m].record = kept
          /\ copies'[m].frozen = copies[m].frozen
      <4>1. copies[m] \in Session
        BY DEF TypeOK
      <4> QED BY <3>1, <4>1 DEF TypeOK, Session
    <3> QED BY <3>1, <3>2, <3>3, <3>4, <3>5, <3>6 DEF Writers
  <2>3. CASE Freezes(m)
    <3>1. \A c \in Copy :
            IF c = m
            THEN copies'[c].pc = "frozen" /\ copies'[c].frozen
            ELSE copies'[c] = copies[c]
      BY <2>3 DEF TypeOK, Freezes, Session
    <3> QED BY <2>3, <3>1 DEF Writers, Freezes
  <2>4. CASE Releases(m)
    <3>1. \A c \in Copy :
            IF c = m
            THEN copies'[c].pc = "released" /\ copies'[c].frozen = copies[c].frozen
            ELSE copies'[c] = copies[c]
      BY <2>4 DEF TypeOK, Releases, Session
    <3> QED BY <2>4, <3>1 DEF Writers, Releases
  <2>5. CASE Gone(m)
    <3>1. \A c \in Copy : /\ copies'[c] = IF c = m THEN Off ELSE copies[c]
                          /\ c # m => held'[c] = held[c]
      BY <2>5 DEF TypeOK, Gone
    <3>2. disk' = disk /\ Off.pc = "off" /\ ~Off.frozen
      BY <2>5 DEF Gone, Off
    <3> QED BY <3>1, <3>2 DEF Writers
  <2>6. ASSUME NEW p \in Project, AdoptEntry(m, p) PROVE Writers'
    <3> DEFINE e == copies[m].record[p]
    <3>1. \A c \in Copy : /\ copies'[c].pc = copies[c].pc
                          /\ copies'[c].record = copies[c].record
                          /\ copies'[c].frozen = copies[c].frozen
                          /\ copies'[c].todo = IF c = m THEN copies[c].todo \ {p}
                                               ELSE copies[c].todo
      <4>1. copies[m] \in Session /\ copies' = [copies EXCEPT ![m].todo = @ \ {p}]
        BY <2>6 DEF TypeOK, AdoptEntry
      <4>2. \A c \in Copy : c # m => copies'[c] = copies[c]
        BY <4>1 DEF TypeOK
      <4>3. copies'[m] = [copies[m] EXCEPT !.todo = @ \ {p}]
        BY <4>1 DEF TypeOK
      <4> QED BY <4>1, <4>2, <4>3 DEF Session
    <3>2. \A c \in Copy, o \in Project :
            \/ held'[c][o] = held[c][o]
            \/ c = m /\ o = p /\ (held'[c][o] = None \/ held'[c][o].pid = e.pid)
      BY <2>6 DEF TypeOK, AdoptEntry
    <3>3. copies[m].pc = "adopting" /\ e = disk[p] /\ e # None /\ disk' = disk
      BY <2>6 DEF AdoptEntry, Writers, Sessions
    <3>4. \A o \in Project : o # p => held'[m][o] = held[m][o]
      BY <2>6 DEF TypeOK, AdoptEntry
    <3>5. \A c \in Copy : c # m => copies[c].pc \in {"off", "released"}
      BY <3>3 DEF Writers
    <3>6. \A o \in Project : held'[m][o] # None =>
            disk'[o] # None /\ disk'[o].pid = held'[m][o].pid
      BY <3>2, <3>3, <3>4 DEF Writers
    <3>7. \A o \in Project : o \in copies'[m].todo => held'[m][o] = None
      <4>1. \A o \in Project : o \in copies[m].todo => held[m][o] = None
        BY <3>3 DEF Writers
      <4> QED BY <3>1, <3>4, <4>1
    <3>8. \A c \in Copy :
            /\ copies'[c].frozen <=> copies'[c].pc \in {"frozen", "released"}
            /\ copies'[c].pc \in {"adopting", "running"} => copies'[c].record = disk'
      BY <3>1, <3>3 DEF Writers
    <3>9. \A c \in Copy, d \in Copy :
            (c # d /\ copies'[c].pc \in {"adopting", "running", "frozen"})
              => copies'[d].pc \in {"off", "released"}
      BY <3>1 DEF Writers
    <3>10. \A c \in Copy : c # m => copies'[c].pc \in {"off", "released"}
      BY <3>1, <3>5
    <3>11. copies'[m].pc = "adopting"
      BY <3>1, <3>3
    <3> QED BY <3>6, <3>7, <3>8, <3>9, <3>10, <3>11 DEF Writers
  <2>7. ASSUME NEW p \in Project, Start(m, p) PROVE Writers'
    <3>1. PICK q \in Pid, e \in Entry :
            /\ e \in EntryOf(q)
            /\ held' = [held EXCEPT ![m][p] = [pid |-> q, start |-> now,
                          adopted |-> FALSE, vouched |-> 0]]
            /\ Written(m, [copies[m].record EXCEPT ![p] = e])
      BY <2>7, EntryOfType DEF Start
    <3>2. PICK g \in Managed :
            g = [pid |-> q, start |-> now, adopted |-> FALSE, vouched |-> 0]
      BY DEF TypeOK, Managed
    <3> DEFINE record == [copies[m].record EXCEPT ![p] = e]
    <3>3. /\ record \in [Project -> Entry \cup {None}]
          /\ \A o \in Project : o # p => record[o] = copies[m].record[o]
          /\ record[p] = e
      BY DEF TypeOK, Session
    <3>4. /\ \A c \in Copy, o \in Project : held'[c][o] = held[c][o] \/ (c = m /\ o = p)
          /\ held'[m][p] = g
      BY <3>1, <3>2 DEF TypeOK
    <3>5. e.pid = q /\ g.pid = q /\ e # None /\ g # None
      <4>1. e.pid = q
        BY <3>1 DEF EntryOf
      <4>2. g.pid = q
        BY <3>2
      <4> QED BY <4>1, <4>2
    <3>6. Written(m, record) /\ copies[m].pc = "running"
      BY <2>7, <3>1 DEF Start
    <3> HIDE DEF record
    <3> QED BY <3>3, <3>4, <3>5, <3>6, WrittenWriters
  <2>8. ASSUME NEW p \in Project, ReapDrops(m, p) PROVE Writers'
    BY <2>8, RemovedWriters DEF ReapDrops
  <2>9. ASSUME NEW p \in Project, ReapKeeps(m, p) PROVE Writers'
    <3> DEFINE g == held[m][p]
    <3>1. g \in Managed
      BY <2>9 DEF TypeOK, ReapKeeps
    <3>2. Looked(g) \in Managed /\ Looked(g).pid = g.pid
      BY <3>1, LookedType DEF Looked, Managed
    <3>3. \A c \in Copy, o \in Project :
            held'[c][o] = IF c = m /\ o = p THEN Looked(g) ELSE held[c][o]
      BY <2>9 DEF TypeOK, ReapKeeps
    <3>4. UNCHANGED <<disk, copies>> /\ copies[m].pc = "running"
      BY <2>9 DEF ReapKeeps
    <3> QED BY <3>1, <3>2, <3>3, <3>4 DEF Writers
  <2>10. ASSUME NEW p \in Project, StopPops(m, p) PROVE Writers'
    BY <2>10, RemovedWriters DEF StopPops
  <2>11. ASSUME NEW p \in Project, StopLooks(m, p) \/ StopEnds(m, p) PROVE Writers'
    BY <2>11 DEF StopLooks, StopEnds, Writers
  <2> QED BY <1>2, <2>1, <2>2, <2>3, <2>4, <2>5, <2>6, <2>7, <2>8, <2>9, <2>10, <2>11
          DEF Manages, Closes, Crashes
<1> QED BY <1>1, <1>2 DEF Next

-----------------------------------------------------------------------------
(* Theorems                                                                *)

LEMMA OursInit == Init => Ours
  BY DEF Init, Ours, Processes, EntriesOurs, ServersOurs, Sessions, Records, Servers,
         Taken, Free, Off, NotStopping

LEMMA OursStep ==
  ASSUME TypeOK, Ours, [Next]_vars
  PROVE  (TypeOK /\ Ours)'
<1>1. CASE UNCHANGED vars
  BY <1>1 DEF vars, kernel, TypeOK, Ours, Processes, EntriesOurs, EntryOurs, ServersOurs,
              ServerOurs, HandleOurs, Leader, Sessions, Records, Servers, Taken, SameProcess
<1>2. CASE Next
  <2>1. TypeOK'
    BY <1>2, KernelTyped, ManagesTyped DEF Next, Ours
  <2>2. Sessions'
    BY <1>2, SessionsStep DEF Ours
  <2>3. (Processes /\ EntriesOurs /\ ServersOurs)'
    <3>1. CASE Kernel
      BY <2>1, <3>1, KernelStep
    <3>2. ASSUME NEW m \in Copy, Manages(m)
          PROVE  (Processes /\ EntriesOurs /\ ServersOurs)'
      BY <2>1, <3>2, SessionsOurs, AdoptEntryOurs, LookOurs, ReapDropsOurs, StopEndsOurs,
         GoneOurs, StartOurs DEF Manages, Closes, Crashes
    <3> QED BY <1>2, <3>1, <3>2 DEF Next
  <2> QED BY <2>1, <2>2, <2>3 DEF Ours
<1> QED BY <1>1, <1>2

\* Every reachable state is well typed, and what is recorded, held and being stopped
\* is ours.
THEOREM Invariant == Spec => [](TypeOK /\ Ours)
<1>1. Init => TypeOK /\ Ours
  BY InitTyped, OursInit
<1>2. TypeOK /\ Ours /\ [Next]_vars => (TypeOK /\ Ours)'
  BY OursStep
<1> QED BY <1>1, <1>2, PTL DEF Spec

LEMMA OursMembers ==
  ASSUME TypeOK, Ours
  PROVE  MembersOurs /\ SignalsOnlyOurs /\ LeaderIsMember /\ OwnsOnlyOurs
<1> USE DEF Ours
<1>1. MembersOurs
  BY SeenOurs, ServersType DEF MembersOurs, ServersOurs
<1>2. SignalsOnlyOurs
  <2>1. \A h : Alive(h) => Taken(h.pid) /\ proc[h.pid].born = h.start
    BY DEF Alive, HandleOf, Taken
  <2> QED BY <2>1, ServersType DEF SignalsOnlyOurs, ServersOurs, HandleOurs, Handle
<1>3. ASSUME NEW m \in Copy, NEW p \in Project, NEW g \in Servers(m, p), LeaderAlive(g)
      PROVE  /\ Leader(g) \in Members(g)
             /\ proc[g.pid].group = g.pid /\ proc[g.pid].kin = p
  <2>1. g.pid \in Pid
    BY ServersType DEF Managed
  <2>2. /\ proc[g.pid].state = "live" /\ HandleOf(g.pid) = Leader(g)
        /\ proc[g.pid].born = g.start /\ Taken(g.pid)
    BY <1>3 DEF LeaderAlive, Alive, Leader, HandleOf, Taken
  <2>3. proc[g.pid].group = g.pid /\ proc[g.pid].kin = p
    BY <2>2 DEF ServersOurs, ServerOurs, HandleOurs, Leader
  <2>4. Leader(g) \in InGroup(g)
    BY <2>1, <2>2, <2>3 DEF InGroup
  <2> QED BY <2>3, <2>4 DEF Members, Vouches
<1>4. LeaderIsMember
  BY <1>3 DEF LeaderIsMember
<1>5. ASSUME NEW m \in Copy, NEW p \in Project, NEW q \in Pid,
             held[m][p] # None, Owns(held[m][p], q)
      PROVE  proc[q].kin = p
  <2> DEFINE g == held[m][p]
  <2>1. g \in Servers(m, p) /\ Taken(q)
    BY <1>5 DEF Servers, Owns, Taken
  <2>2. CASE g.adopted /\ ~LeaderAlive(g)
    <3>1. HandleOf(q) \in Members(g)
      BY <1>5, <2>2 DEF Owns
    <3> QED BY <1>1, <2>1, <3>1 DEF MembersOurs, HandleOf
  <2>3. CASE /\ proc[q].group = g.pid /\ Taken(g.pid) /\ HandleOf(g.pid) = Leader(g)
    <3>1. g.pid \in Pid /\ proc[g.pid].born = g.start
      BY <2>1, <2>3, ServersType DEF Managed, HandleOf, Leader
    <3>2. proc[g.pid].group = g.pid /\ proc[g.pid].kin = p
      BY <2>1, <2>3, <3>1 DEF ServersOurs, ServerOurs, HandleOurs, Leader
    <3> QED BY <2>1, <2>3, <3>1, <3>2 DEF Processes
  <2> QED BY <1>5, <2>2, <2>3 DEF Owns
<1> QED BY <1>1, <1>2, <1>4, <1>5 DEF OwnsOnlyOurs

\* Types: TypeOK holds, with any number of pids, copies and restarts.
THEOREM TypeCorrect == Spec => []TypeOK
  BY Invariant, PTL

\* Ownership is never claimed of another program's process, over relaunches, restarts
\* of the machine and reissued pids (owns_pid).
THEOREM OwnedAreOurs == Spec => []OwnsOnlyOurs
<1>1. TypeOK /\ Ours => OwnsOnlyOurs
  BY OursMembers
<1> QED BY <1>1, Invariant, PTL

\* A walk of a group returns only processes started for the project (_group_members).
THEOREM MembersAreOurs == Spec => []MembersOurs
<1>1. TypeOK /\ Ours => MembersOurs
  BY OursMembers
<1> QED BY <1>1, Invariant, PTL

\* No handle that a stop holds names another program's process (stop).
THEOREM SignalledAreOurs == Spec => []SignalsOnlyOurs
<1>1. TypeOK /\ Ours => SignalsOnlyOurs
  BY OursMembers
<1> QED BY <1>1, Invariant, PTL

\* A living leader is a member of its group (_vouched).
THEOREM LeadersAreMembers == Spec => []LeaderIsMember
<1>1. TypeOK /\ Ours => LeaderIsMember
  BY OursMembers
<1> QED BY <1>1, Invariant, PTL

\* A copy owns, keeps and signals what is its own, and all of it (owns_pid,
\* _group_members, stop).
THEOREM OursAreExact == Spec => []OursExactly
<1>1. TypeOK /\ Ours => OursExactly
  BY OursMembers DEF OursExactly
<1> QED BY <1>1, Invariant, PTL

\* The file names what the running copy holds, whatever a quitting copy still does
\* (StartedStore.freeze, adopt).
THEOREM FileIsWhatIsHeld == Spec => []RecordMatches
<1>1. Init => Writers
  BY DEF Init, Writers, Off
<1>2. TypeOK /\ Ours /\ Writers /\ [Next]_vars => Writers'
  <2>1. ASSUME TypeOK, Ours, Writers, UNCHANGED vars PROVE Writers'
    BY <2>1 DEF vars, Writers
  <2> QED BY <2>1, WritersStep DEF Ours
<1>3. Writers => RecordMatches
  BY DEF Writers, RecordMatches
<1> QED BY <1>1, <1>2, <1>3, Invariant, PTL DEF Spec

-----------------------------------------------------------------------------
(* A server that was recorded is taken back                                *)

\* Processes end, and none starts.
NoneStarts ==
  /\ UNCHANGED <<boot, wall>>
  /\ \A q \in Pid : /\ proc'[q].born = proc[q].born
                    /\ Taken(q)' => /\ Taken(q)
                                    /\ proc'[q].group = proc[q].group
                                    /\ proc'[q].kin = proc[q].kin

LEMMA QuietStarts ==
  ASSUME UNCHANGED <<kernel, proc>>
  PROVE  NoneStarts
  BY DEF NoneStarts, kernel, Taken

LEMMA ReapedStarts ==
  ASSUME TypeOK, NEW g \in Managed, proc' = Reaped(g), UNCHANGED kernel
  PROVE  NoneStarts
<1>1. g.pid \in Pid /\ proc[g.pid] \in Process
  BY DEF TypeOK, Managed
<1>2. \A q \in Pid : q # g.pid => proc'[q] = proc[q]
  BY <1>1 DEF TypeOK, Reaped
<1>3. /\ proc'[g.pid].born = proc[g.pid].born
      /\ Taken(g.pid)' => /\ Taken(g.pid)
                          /\ proc'[g.pid].group = proc[g.pid].group
                          /\ proc'[g.pid].kin = proc[g.pid].kin
  <2>1. CASE proc'[g.pid] = proc[g.pid]
    BY <2>1 DEF Taken
  <2>2. CASE proc'[g.pid] = Free(proc[g.pid].born)
    BY <2>2 DEF Taken, Free
  <2>3. CASE proc'[g.pid] = [proc[g.pid] EXCEPT !.parent = None]
    BY <1>1, <2>3 DEF Taken, Process
  <2> QED BY <1>1, <2>1, <2>2, <2>3 DEF TypeOK, Reaped
<1> QED BY <1>2, <1>3 DEF NoneStarts, kernel, Taken

LEMMA GoneStarts ==
  ASSUME TypeOK, NEW m \in Copy, Gone(m)
  PROVE  NoneStarts
<1>1. ASSUME NEW q \in Pid
      PROVE  /\ proc'[q].born = proc[q].born
             /\ Taken(q)' => /\ Taken(q)
                             /\ proc'[q].group = proc[q].group
                             /\ proc'[q].kin = proc[q].kin
  <2>1. proc[q] \in Process
    BY DEF TypeOK
  <2>2. CASE proc'[q] = proc[q]
    BY <2>2 DEF Taken
  <2>3. CASE proc'[q] = Free(proc[q].born)
    BY <2>3 DEF Taken, Free
  <2>4. CASE proc'[q] = [proc[q] EXCEPT !.parent = None]
    BY <2>1, <2>4 DEF Taken, Process
  <2> QED BY <2>2, <2>3, <2>4 DEF Gone
<1> QED BY <1>1 DEF NoneStarts, Gone, kernel

\* Nothing is recorded but what was, and nothing starts.
LEMMA EntriesStayKnown ==
  ASSUME TypeOK, EntriesKnown, NoneStarts,
         \A p \in Project : Records(p)' \subseteq Records(p)
  PROVE  EntriesKnown'
<1> SUFFICES ASSUME NEW p \in Project, NEW e \in Records(p)'
             PROVE  EntryKnown(p, e)'
  BY DEF EntriesKnown
<1>1. e \in Records(p) /\ e \in Entry /\ e.pid \in Pid
  BY RecordsType DEF Entry
<1>2. EntryKnown(p, e)
  BY <1>1 DEF EntriesKnown
<1>3. Fresh(e)' <=> Fresh(e)
  BY DEF NoneStarts, Fresh
<1> QED BY <1>1, <1>2, <1>3 DEF EntryKnown, NoneStarts

\* A process starts: not for the project of an entry from an earlier boot, and not
\* under the pid and with the start time of any entry.
LEMMA EntryStaysKnown ==
  ASSUME TypeOK, ProcStep, NEW p \in Project, NEW e \in Entry,
         EntryOurs(p, e), EntryKnown(p, e),
         Fresh(e) \/ \A q \in Pid : (Taken(q)' /\ proc'[q].kin = p) =>
                       \E r \in Pid : Taken(r) /\ proc[r].kin = p
  PROVE  EntryKnown(p, e)'
<1>1. /\ e.pid \in Pid /\ e.start \in Nat /\ e.created \in Nat
      /\ proc[e.pid].born \in Nat /\ wall \in Nat /\ now \in Nat
  BY DEF Entry, TypeOK, Process
<1>2. wall' = wall /\ (Fresh(e)' <=> Fresh(e))
  BY DEF ProcStep, Fresh
<1>3. Fresh(e) => e.start <= proc[e.pid].born
  BY <1>1 DEF EntryOurs, Fresh
<1>4. (Fresh(e) /\ Taken(e.pid)' /\ proc'[e.pid].born = e.start)
         => proc'[e.pid].group = e.pid
  <2>1. CASE /\ proc'[e.pid].born = proc[e.pid].born
             /\ Taken(e.pid)' => Taken(e.pid) /\ proc'[e.pid].group = proc[e.pid].group
    BY <2>1 DEF EntryKnown
  <2>2. CASE Issuable(e.pid) /\ proc'[e.pid].born = now
    BY <1>1, <1>3, <2>2 DEF Issuable
  <2> QED BY <1>1, <2>1, <2>2 DEF ProcStep
<1>5. (e.boot = None /\ ~Fresh(e)) =>
        e.created < wall /\ \A q \in Pid : Taken(q)' => proc'[q].kin # p
  BY DEF EntryKnown
<1> QED BY <1>2, <1>4, <1>5 DEF EntryKnown

\* The views change with the sessions only.
LEMMA ViewsStay ==
  ASSUME ViewsFresh, UNCHANGED <<boot, wall, copies, held>>
  PROVE  ViewsFresh'
  BY DEF ViewsFresh, Fresh

LEMMA KernelKnown ==
  ASSUME TypeOK, Ours, Known, Kernel
  PROVE  Known'
<1> USE DEF Known, Ours
<1>1. CASE Reboot
  <2>1. ViewsFresh'
    BY <1>1 DEF Reboot, ViewsFresh, Off
  <2>2. ASSUME NEW p \in Project, NEW e \in Records(p)' PROVE EntryKnown(p, e)'
    <3>1. e \in Records(p) /\ e \in Entry
      BY <1>1, <2>2, RecordsType DEF Records, Reboot, Off
    <3>2. /\ e.boot \in Nat \cup {None} /\ e.pid \in Pid
          /\ e.created \in Nat /\ e.start \in Nat
      BY <3>1 DEF Entry
    <3>3. /\ proc[e.pid].born \in Nat /\ proc[e.pid].born <= now
          /\ wall \in Nat /\ now \in Nat
      BY <3>2 DEF TypeOK, Processes, Process
    <3>4. e.boot = None => e.created <= wall + proc[e.pid].born
      BY <3>1 DEF EntriesOurs, EntryOurs
    <3>5. wall' = wall + now + 1 /\ \A q \in Pid : ~Taken(q)'
      BY <1>1 DEF Reboot, Free, Taken
    <3> QED BY <3>2, <3>3, <3>4, <3>5 DEF EntryKnown
  <2> QED BY <2>1, <2>2 DEF EntriesKnown
<1>2. CASE ClockStep
  <2>1. /\ UNCHANGED <<boot, proc, disk, copies, held>>
        /\ \A m \in Copy : copies[m].pc = "off"
    BY <1>2 DEF ClockStep
  <2>2. ViewsFresh'
    BY <2>1 DEF ViewsFresh
  <2>3. ASSUME NEW p \in Project, NEW e \in Records(p)' PROVE EntryKnown(p, e)'
    <3>1. e \in Records(p) /\ e.boot # None
      BY <1>2, <2>1, <2>3 DEF Records, ClockStep
    <3>2. EntryKnown(p, e)
      BY <3>1 DEF EntriesKnown
    <3> QED BY <2>1, <3>1, <3>2 DEF EntryKnown, Fresh, Taken
  <2> QED BY <2>2, <2>3 DEF EntriesKnown
<1>3. ASSUME UNCHANGED <<disk, copies>> PROVE \A p \in Project : Records(p)' = Records(p)
  BY <1>3 DEF Records
<1>4. CASE Passes
  <2>1. NoneStarts /\ UNCHANGED <<boot, wall, disk, copies, held>>
    BY <1>4 DEF Passes, NoneStarts, Taken
  <2> QED BY <1>3, <2>1, EntriesStayKnown, ViewsStay
<1>5. ASSUME NEW q \in Pid, Exits(q) PROVE Known'
  <2>1. proc' = [proc EXCEPT ![q] = IF @.parent = None THEN Free(@.born)
                                    ELSE [@ EXCEPT !.state = "zombie"]]
    BY <1>5 DEF Exits
  <2>2. /\ proc'[q].born = proc[q].born /\ Taken(q)
        /\ Taken(q)' => /\ proc'[q].group = proc[q].group
                        /\ proc'[q].kin = proc[q].kin
    BY <1>5, <2>1 DEF TypeOK, Exits, Free, Taken, Process
  <2>3. \A r \in Pid : r # q => proc'[r] = proc[r]
    BY <2>1 DEF TypeOK
  <2>4. UNCHANGED <<boot, wall, disk, copies, held>>
    BY <1>5 DEF Exits, kernel
  <2>5. NoneStarts
    BY <2>2, <2>3, <2>4 DEF NoneStarts, Taken
  <2> QED BY <1>3, <2>4, <2>5, EntriesStayKnown, ViewsStay
<1>6. ASSUME ProcStep, UNCHANGED <<boot, wall, disk, copies, held>>,
             \A q \in Pid : Taken(q)' => \/ proc'[q].kin = None
                                        \/ \E r \in Pid : Taken(r) /\ proc[r].kin = proc'[q].kin
      PROVE  Known'
  <2>1. ASSUME NEW p \in Project, NEW e \in Records(p)' PROVE EntryKnown(p, e)'
    <3>1. e \in Records(p) /\ e \in Entry /\ EntryOurs(p, e) /\ EntryKnown(p, e)
      BY <1>3, <1>6, <2>1, RecordsType DEF EntriesOurs, EntriesKnown
    <3>2. \A q \in Pid : (Taken(q)' /\ proc'[q].kin = p) =>
                       \E r \in Pid : Taken(r) /\ proc[r].kin = p
      BY <1>6
    <3> QED BY <1>6, <3>1, <3>2, EntryStaysKnown
  <2> QED BY <1>6, <2>1, ViewsStay DEF EntriesKnown
<1>7. ASSUME NEW q \in Pid, StrangerStarts(q) PROVE Known'
  <2>1. ProcStep
    BY <1>7 DEF TypeOK, StrangerStarts, Born, ProcStep, Taken, kernel
  <2> QED BY <1>6, <1>7, <2>1 DEF TypeOK, StrangerStarts, Born, Taken, kernel
<1>8. ASSUME NEW q \in Pid, NEW r \in Pid, Forks(q, r) PROVE Known'
  <2>1. ProcStep
    BY <1>8 DEF TypeOK, Forks, Born, ProcStep, Taken, kernel
  <2> QED BY <1>6, <1>8, <2>1 DEF TypeOK, Forks, Born, Taken, kernel
<1> QED BY <1>1, <1>2, <1>4, <1>5, <1>7, <1>8 DEF Kernel

\* What a view still has, it had, in a copy that goes on as it was.
LEMMA ViewsKept ==
  ASSUME ViewsFresh, UNCHANGED <<boot, wall>>,
         \A c \in Copy, p \in Project : copies'[c].record[p] # None =>
           /\ copies'[c].record[p] = copies[c].record[p] /\ copies'[c].pc = copies[c].pc
           /\ copies[c].pc = "adopting" => held'[c][p] = held[c][p]
  PROVE  ViewsFresh'
<1> SUFFICES ASSUME NEW c \in Copy, NEW p \in Project, copies'[c].record[p] # None
             PROVE  /\ copies'[c].pc # "off"
                    /\ copies'[c].pc = "adopting" =>
                         held'[c][p] = None \/ Fresh(copies[c].record[p])'
                    /\ copies'[c].pc \in {"running", "frozen", "released"} =>
                         Fresh(copies[c].record[p])'
  BY DEF ViewsFresh
<1>1. /\ copies'[c].record[p] = copies[c].record[p] /\ copies'[c].pc = copies[c].pc
      /\ copies[c].pc = "adopting" => held'[c][p] = held[c][p]
  OBVIOUS
<1>2. Fresh(copies[c].record[p])' <=> Fresh(copies[c].record[p])
  BY <1>1 DEF Fresh
<1> QED BY <1>1, <1>2 DEF ViewsFresh

LEMMA RemovedViews ==
  ASSUME TypeOK, NEW m \in Copy, NEW p \in Project, Removed(m, {p})
  PROVE  \A c \in Copy, o \in Project : copies'[c].record[o] # None =>
           copies'[c].record[o] = copies[c].record[o] /\ copies'[c].pc = copies[c].pc
<1> DEFINE record == [o \in Project |-> IF o \in {p} THEN None ELSE copies[m].record[o]]
<1>1. record \in [Project -> Entry \cup {None}]
  BY DEF TypeOK, Session
<1>2. copies' = [copies EXCEPT ![m].record = record]
  BY DEF Removed, Written
<1>3. \A o \in Project : record[o] # None => record[o] = copies[m].record[o]
  OBVIOUS
<1> HIDE DEF record
<1>4. copies[m] \in Session
  BY DEF TypeOK
<1>5. /\ copies'[m].record = record /\ copies'[m].pc = copies[m].pc
      /\ \A c \in Copy : c # m => copies'[c] = copies[c]
  BY <1>2, <1>4 DEF TypeOK, Session
<1> QED BY <1>3, <1>5

\* The view and the file say which server of a copy that adopts is of this boot.
LEMMA AdoptKnown ==
  ASSUME TypeOK, Ours, Known, NEW m \in Copy, NEW p \in Project, AdoptEntry(m, p)
  PROVE  Known'
<1> DEFINE e == copies[m].record[p]
<1>1. e \in Records(p) /\ e \in Entry /\ e.pid \in Pid /\ copies[m].pc = "adopting"
  BY DEF TypeOK, Ours, Sessions, AdoptEntry, Records, Session, Entry
<1>2. UNCHANGED <<kernel, proc, disk>>
  BY DEF AdoptEntry
<1>3. /\ \A c \in Copy : copies'[c].record = copies[c].record /\ copies'[c].pc = copies[c].pc
      /\ \A c \in Copy, o \in Project :
           held'[c][o] = held[c][o]
           \/ (c = m /\ o = p /\ (held'[c][o] # None => Adoptable(e)))
  BY DEF TypeOK, AdoptEntry, Session
<1>4. Adoptable(e) => Fresh(e)
  <2>1. EntryKnown(p, e)
    BY <1>1 DEF Known, EntriesKnown
  <2>2. /\ e.created \in Nat /\ wall \in Nat /\ proc[e.pid].born \in Nat
    BY <1>1 DEF TypeOK, Entry, Process
  <2> QED BY <2>1, <2>2 DEF Adoptable, SameProcess, EntryKnown, Fresh
<1>5. \A o \in Project : Records(o)' = Records(o)
  BY <1>2, <1>3 DEF Records
<1>6. EntriesKnown'
  BY <1>2, <1>5, QuietStarts, EntriesStayKnown DEF Known
<1>7. ASSUME NEW c \in Copy, NEW o \in Project, copies'[c].record[o] # None
      PROVE  /\ copies'[c].pc # "off"
             /\ copies'[c].pc = "adopting" =>
                  held'[c][o] = None \/ Fresh(copies[c].record[o])
             /\ copies'[c].pc \in {"running", "frozen", "released"} =>
                  Fresh(copies[c].record[o])
  <2>1. copies[c].record[o] # None /\ copies'[c].pc = copies[c].pc
    BY <1>3, <1>7
  <2>2. CASE c = m /\ o = p /\ (held'[c][o] # None => Adoptable(e))
    BY <1>1, <1>4, <2>1, <2>2
  <2>3. CASE held'[c][o] = held[c][o]
    BY <2>1, <2>3 DEF Known, ViewsFresh
  <2> QED BY <1>3, <2>2, <2>3
<1>8. ViewsFresh'
  BY <1>2, <1>3, <1>7 DEF ViewsFresh, Fresh, kernel
<1> QED BY <1>6, <1>8 DEF Known

\* A server is started for a project of which nothing is recorded, but by copies
\* that were adopted in this boot too.
LEMMA StartKnown ==
  ASSUME TypeOK, Ours, Writers, Known, NEW m \in Copy, NEW p \in Project, Start(m, p)
  PROVE  Known'
<1> USE DEF Known, Ours
<1>1. PICK q \in Pid, e \in Entry :
        /\ Issuable(q)
        /\ e \in EntryOf(q)
        /\ proc' = [proc EXCEPT ![q] = Born(q, p, m)]
        /\ Written(m, [copies[m].record EXCEPT ![p] = e])
        /\ UNCHANGED kernel
        /\ copies[m].pc = "running" /\ held[m][p] = None
        /\ held' = [held EXCEPT ![m][p] = [pid |-> q, start |-> now,
                      adopted |-> FALSE, vouched |-> 0]]
  BY EntryOfType DEF Start
<1>2. /\ proc'[q] = Born(q, p, m)
      /\ \A r \in Pid : r # q => proc'[r] = proc[r]
  BY <1>1 DEF TypeOK
<1>3. /\ proc'[q].born = now /\ proc'[q].group = q /\ proc'[q].kin = p /\ Taken(q)'
  BY <1>2 DEF Born, Taken
<1>4. ProcStep
  BY <1>1, <1>2, <1>3 DEF TypeOK, ProcStep, Taken, kernel
<1>5. e.pid = q /\ Fresh(e) /\ Fresh(e)' /\ EntryKnown(p, e)'
  <2>1. /\ e.pid = q /\ e.start = now /\ e.created = wall + now
        /\ e.boot = boot \/ e.boot = None
    BY <1>1 DEF EntryOf
  <2>2. Fresh(e) /\ Fresh(e)'
    BY <1>1, <2>1 DEF Fresh, kernel
  <2> QED BY <1>3, <2>1, <2>2 DEF EntryKnown
<1> PICK record \in [Project -> Entry \cup {None}] :
        /\ record = [copies[m].record EXCEPT ![p] = e] /\ Written(m, record)
        /\ record[p] = e /\ \A o \in Project : o # p => record[o] = copies[m].record[o]
  <2>1. copies[m].record \in [Project -> Entry \cup {None}]
    BY DEF TypeOK, Session
  <2>2. [copies[m].record EXCEPT ![p] = e] \in [Project -> Entry \cup {None}]
    BY <2>1
  <2>3. /\ [copies[m].record EXCEPT ![p] = e][p] = e
        /\ \A o \in Project : o # p =>
             [copies[m].record EXCEPT ![p] = e][o] = copies[m].record[o]
    BY <2>1
  <2> QED BY <1>1, <2>2, <2>3
<1>6. /\ copies'[m].record = record /\ copies'[m].pc = "running"
      /\ \A c \in Copy : c # m => copies'[c] = copies[c]
  <2>1. copies' = [copies EXCEPT ![m].record = record] /\ copies[m] \in Session
    BY DEF Written, TypeOK
  <2> QED BY <1>1, <2>1 DEF TypeOK, Session
<1>7. ViewsFresh'
  <2>1. ASSUME NEW c \in Copy, NEW o \in Project, copies'[c].record[o] # None
        PROVE  /\ copies'[c].pc # "off"
               /\ copies'[c].pc = "adopting" =>
                    held'[c][o] = None \/ Fresh(copies'[c].record[o])
               /\ copies'[c].pc \in {"running", "frozen", "released"} =>
                    Fresh(copies'[c].record[o])
    <3>1. CASE c = m
      BY <1>1, <1>5, <1>6, <2>1, <3>1 DEF ViewsFresh
    <3>2. CASE c # m
      <4>1. held'[c] = held[c]
        BY <1>1, <3>2 DEF TypeOK
      <4> QED BY <1>6, <2>1, <3>2, <4>1 DEF ViewsFresh
    <3> QED BY <3>1, <3>2
  <2>2. \A x : Fresh(x)' <=> Fresh(x)
    BY <1>1 DEF Fresh, kernel
  <2> QED BY <2>1, <2>2 DEF ViewsFresh, Fresh
<1>8. \A o \in Project : Records(o)' \subseteq Records(o) \cup (IF o = p THEN {e} ELSE {})
  <2>1. \A o \in Project : Records(o)' \subseteq Records(o) \cup ({record[o]} \ {None})
    BY WrittenRecords
  <2>2. \A o \in Project : copies[m].record[o] \in Records(o) \cup {None}
    BY DEF Records
  <2> QED BY <2>1, <2>2
<1>9. ASSUME NEW x \in Records(p) PROVE Fresh(x)
  <2>1. disk = copies[m].record /\ disk[p] = None
    BY <1>1 DEF Writers
  <2>2. PICK c \in Copy : x = copies[c].record[p] /\ c # m /\ x # None
    BY <2>1 DEF Records
  <2>3. copies[c].pc \in {"off", "released"}
    BY <1>1, <2>2 DEF Writers
  <2> QED BY <2>2, <2>3 DEF ViewsFresh
<1>10. ASSUME NEW o \in Project, NEW x \in Records(o)' PROVE EntryKnown(o, x)'
  <2>1. CASE x \in Records(o)
    <3>1. x \in Entry /\ EntryOurs(o, x) /\ EntryKnown(o, x)
      BY <2>1, RecordsType DEF EntriesOurs, EntriesKnown
    <3>2. o # p => \A r \in Pid : (Taken(r)' /\ proc'[r].kin = o) =>
                      \E s \in Pid : Taken(s) /\ proc[s].kin = o
      BY <1>2, <1>3 DEF Taken
    <3>3. o = p => Fresh(x)
      BY <1>9, <2>1
    <3> QED BY <1>4, <3>1, <3>2, <3>3, EntryStaysKnown
  <2>2. CASE o = p /\ x = e
    BY <1>5, <2>2
  <2> QED BY <1>8, <1>10, <2>1, <2>2
<1> QED BY <1>7, <1>10 DEF EntriesKnown

\* The other steps of the sessions: what is recorded was recorded, and no process starts.
LEMMA SessionsKnown ==
  ASSUME TypeOK, Ours, Known, NEW m \in Copy,
         Launch(m) \/ AdoptDone(m) \/ Freezes(m) \/ Releases(m)
  PROVE  Known'
<1> USE DEF Known, Ours
<1>1. UNCHANGED <<kernel, proc, held, stops>>
  BY DEF Launch, AdoptDone, Freezes, Releases
<1>2. UNCHANGED <<boot, wall>> /\ NoneStarts
  BY <1>1, QuietStarts DEF kernel
<1>3. CASE Launch(m)
  <2>1. /\ copies'[m].record = disk /\ copies'[m].pc = "adopting" /\ copies[m].pc = "off"
        /\ \A c \in Copy : c # m => copies'[c] = copies[c]
        /\ disk' = disk
    BY <1>3 DEF TypeOK, Launch
  <2>2. \A p \in Project : Records(p)' \subseteq Records(p)
    BY <2>1 DEF Records
  <2>3. \A p \in Project : held[m][p] = None
    BY <2>1 DEF Sessions
  <2>4. ViewsFresh'
    BY <1>1, <1>2, <2>1, <2>3 DEF ViewsFresh, Fresh
  <2> QED BY <1>2, <2>2, <2>4, EntriesStayKnown
<1>4. CASE AdoptDone(m)
  <2> DEFINE kept == [o \in Project |-> IF held[m][o] = None THEN None
                                        ELSE copies[m].record[o]]
  <2>1. /\ copies' = [copies EXCEPT ![m] = [@ EXCEPT !.pc = "running", !.record = kept]]
        /\ copies[m].pc = "adopting" /\ disk' \in {kept, disk}
    BY <1>4 DEF AdoptDone, Saves
  <2>2. /\ copies[m] \in Session
        /\ \A o \in Project : kept[o] # None =>
             held[m][o] # None /\ kept[o] = copies[m].record[o]
    BY DEF TypeOK
  <2> HIDE DEF kept
  <2>3. /\ copies'[m].record = kept /\ copies'[m].pc = "running"
        /\ \A c \in Copy : c # m => copies'[c] = copies[c]
    BY <2>1, <2>2 DEF TypeOK, Session
  <2>4. \A p \in Project : Records(p)' \subseteq Records(p)
    <3>1. \A p \in Project : kept[p] \in Records(p) \cup {None}
      BY <2>2 DEF Records
    <3>2. \A p \in Project, c \in Copy : copies'[c].record[p] \in Records(p) \cup {None}
      BY <2>3, <3>1 DEF Records
    <3>3. \A p \in Project : disk'[p] \in Records(p) \cup {None}
      BY <2>1, <3>1 DEF Records
    <3> QED BY <3>2, <3>3 DEF Records
  <2>5. ASSUME NEW c \in Copy, NEW p \in Project, copies'[c].record[p] # None
        PROVE  /\ copies'[c].pc # "off"
               /\ copies'[c].pc = "adopting" =>
                    held[c][p] = None \/ Fresh(copies'[c].record[p])
               /\ copies'[c].pc \in {"running", "frozen", "released"} =>
                    Fresh(copies'[c].record[p])
    <3>1. CASE c = m
      BY <2>1, <2>2, <2>3, <2>5, <3>1 DEF ViewsFresh
    <3>2. CASE c # m
      BY <2>3, <2>5, <3>2 DEF ViewsFresh
    <3> QED BY <3>1, <3>2
  <2>6. ViewsFresh'
    BY <1>1, <1>2, <2>5 DEF ViewsFresh, Fresh
  <2> QED BY <1>2, <2>4, <2>6, EntriesStayKnown
<1>5. CASE Freezes(m) \/ Releases(m)
  <2>1. /\ copies'[m].record = copies[m].record
        /\ copies[m].pc \in {"running", "frozen"}
        /\ copies'[m].pc \in {"frozen", "released"}
        /\ \A c \in Copy : c # m => copies'[c] = copies[c]
        /\ disk' = disk
    <3>1. copies[m] \in Session
      BY DEF TypeOK
    <3>2. CASE Freezes(m)
      <4>1. /\ copies' = [copies EXCEPT ![m] = [@ EXCEPT !.pc = "frozen", !.frozen = TRUE]]
            /\ copies[m].pc = "running" /\ disk' = disk
        BY <3>2 DEF Freezes
      <4> QED BY <3>1, <4>1 DEF TypeOK, Session
    <3>3. CASE Releases(m)
      <4>1. /\ copies' = [copies EXCEPT ![m].pc = "released"]
            /\ copies[m].pc = "frozen" /\ disk' = disk
        BY <3>3 DEF Releases
      <4> QED BY <3>1, <4>1 DEF TypeOK, Session
    <3> QED BY <1>5, <3>2, <3>3
  <2>2. \A p \in Project : Records(p)' \subseteq Records(p)
    BY <2>1 DEF Records
  <2>3. ASSUME NEW c \in Copy, NEW p \in Project, copies'[c].record[p] # None
        PROVE  /\ copies'[c].pc # "off"
               /\ copies'[c].pc = "adopting" =>
                    held[c][p] = None \/ Fresh(copies'[c].record[p])
               /\ copies'[c].pc \in {"running", "frozen", "released"} =>
                    Fresh(copies'[c].record[p])
    <3>1. CASE c = m
      BY <2>1, <2>3, <3>1 DEF ViewsFresh
    <3>2. CASE c # m
      BY <2>1, <2>3, <3>2 DEF ViewsFresh
    <3> QED BY <3>1, <3>2
  <2>4. ViewsFresh'
    BY <1>1, <1>2, <2>3 DEF ViewsFresh, Fresh
  <2> QED BY <1>2, <2>2, <2>4, EntriesStayKnown
<1> QED BY <1>3, <1>4, <1>5

LEMMA GoneKnown ==
  ASSUME TypeOK, Known, NEW m \in Copy, Gone(m)
  PROVE  Known'
<1>1. /\ \A c \in Copy : copies'[c] = IF c = m THEN Off ELSE copies[c]
      /\ \A c \in Copy : c # m => held'[c] = held[c]
      /\ UNCHANGED <<boot, wall, disk>>
  BY DEF TypeOK, Gone, kernel
<1>2. \A o \in Project : Off.record[o] = None
  BY DEF Off
<1>3. \A o \in Project : Records(o)' \subseteq Records(o)
  BY <1>1, <1>2 DEF Records
<1>4. ViewsFresh'
  BY <1>1, <1>2, ViewsKept DEF Known
<1> QED BY <1>3, <1>4, GoneStarts, EntriesStayKnown DEF Known

\* A copy looks at a server, drops it or stops it.
LEMMA ServerKnown ==
  ASSUME TypeOK, Ours, Known, NEW m \in Copy, NEW p \in Project,
         \/ ReapDrops(m, p) \/ ReapKeeps(m, p)
         \/ StopPops(m, p) \/ StopLooks(m, p) \/ StopEnds(m, p)
  PROVE  Known'
<1>1. UNCHANGED <<boot, wall>>
  BY DEF ReapDrops, ReapKeeps, StopPops, StopLooks, StopEnds, kernel
<1>2. NoneStarts
  <2>1. CASE ReapDrops(m, p)
    <3>1. held[m][p] \in Managed
      BY <2>1 DEF TypeOK, ReapDrops
    <3> QED BY <2>1, <3>1, ReapedStarts DEF ReapDrops
  <2>2. CASE StopEnds(m, p)
    <3>1. stops[m][p].server \in Managed
      BY <2>2 DEF TypeOK, StopEnds, Stopping
    <3> QED BY <2>2, <3>1, ReapedStarts DEF StopEnds
  <2>3. CASE ReapKeeps(m, p) \/ StopPops(m, p) \/ StopLooks(m, p)
    BY <2>3, QuietStarts DEF ReapKeeps, StopPops, StopLooks
  <2> QED BY <2>1, <2>2, <2>3
<1>3. /\ \A o \in Project : Records(o)' \subseteq Records(o)
      /\ \A c \in Copy, o \in Project : copies'[c].record[o] # None =>
           copies'[c].record[o] = copies[c].record[o] /\ copies'[c].pc = copies[c].pc
  <2>1. CASE Removed(m, {p})
    BY <2>1, RemovedRecords, RemovedViews
  <2>2. CASE UNCHANGED <<disk, copies>>
    BY <2>2 DEF Records
  <2> QED BY <2>1, <2>2 DEF ReapDrops, ReapKeeps, StopPops, StopLooks, StopEnds
<1>4. /\ \A c \in Copy : c # m => held'[c] = held[c]
      /\ held' # held => copies[m].pc # "adopting"
  BY DEF TypeOK, ReapDrops, ReapKeeps, StopPops, StopLooks, StopEnds
<1>5. ViewsFresh'
  BY <1>1, <1>3, <1>4, ViewsKept DEF Known
<1> QED BY <1>2, <1>3, <1>5, EntriesStayKnown DEF Known

LEMMA KnownStep ==
  ASSUME TypeOK, Ours, Writers, Known, [Next]_vars
  PROVE  Known'
<1>1. CASE Kernel
  BY <1>1, KernelKnown
<1>2. ASSUME NEW m \in Copy, Manages(m) PROVE Known'
  <2>1. CASE Launch(m) \/ AdoptDone(m) \/ Freezes(m) \/ Releases(m)
    BY <2>1, SessionsKnown
  <2>2. CASE Closes(m) \/ Crashes(m)
    BY <2>2, GoneKnown DEF Closes, Crashes
  <2>3. ASSUME NEW p \in Project, AdoptEntry(m, p) PROVE Known'
    BY <2>3, AdoptKnown
  <2>4. ASSUME NEW p \in Project, Start(m, p) PROVE Known'
    BY <2>4, StartKnown
  <2>5. ASSUME NEW p \in Project,
               \/ ReapDrops(m, p) \/ ReapKeeps(m, p)
               \/ StopPops(m, p) \/ StopLooks(m, p) \/ StopEnds(m, p)
        PROVE  Known'
    BY <2>5, ServerKnown
  <2> QED BY <1>2, <2>1, <2>2, <2>3, <2>4, <2>5 DEF Manages
<1>3. CASE UNCHANGED vars
  <2>1. UNCHANGED <<boot, wall, copies, held>> /\ NoneStarts
    BY <1>3, QuietStarts DEF vars, kernel
  <2>2. \A o \in Project : Records(o)' = Records(o)
    BY <1>3 DEF vars, Records
  <2> QED BY <2>1, <2>2, EntriesStayKnown, ViewsStay DEF Known
<1> QED BY <1>1, <1>2, <1>3 DEF Next

\* An entry that still names a leader of this boot is adopted.
LEMMA AdoptsKnown ==
  ASSUME TypeOK, Ours, Writers, Known, [Next]_vars,
         NEW m \in Copy, NEW p \in Project, NEW e \in Entry, e = copies[m].record[p],
         p \in copies[m].todo, p \notin copies'[m].todo, copies'[m].pc = "adopting",
         Alive([pid |-> e.pid, start |-> e.start]), proc[e.pid].kin = p,
         e.boot \in {None, boot}
  PROVE  held'[m][p] # None
<1>1. copies[m].pc = "adopting" /\ e \in Records(p)
  BY DEF Ours, Sessions, Records
<1>2. AdoptEntry(m, p)
  <2>1. Next /\ copies'[m] # copies[m]
    BY DEF vars
  <2>2. CASE Kernel
    BY <2>1, <2>2 DEF Kernel, Passes, ClockStep, Reboot, StrangerStarts, Exits, Forks, Off
  <2>3. ASSUME NEW c \in Copy, Manages(c) PROVE AdoptEntry(m, p)
    <3>1. ASSUME NEW record, Written(c, record) PROVE copies'[m].todo = copies[m].todo
      BY <3>1 DEF TypeOK, Written, Session
    <3>2. ASSUME Launch(c) \/ AdoptDone(c) \/ Freezes(c) \/ Releases(c) PROVE c = m
      BY <2>1, <3>2 DEF TypeOK, Launch, AdoptDone, Freezes, Releases
    <3>3. ~(Launch(c) \/ AdoptDone(c) \/ Freezes(c) \/ Releases(c))
      BY <1>1, <3>2 DEF Launch, AdoptDone, Freezes, Releases
    <3>4. ~Gone(c)
      <4>1. Gone(c) => copies'[m] = IF c = m THEN Off ELSE copies[m]
        BY DEF TypeOK, Gone
      <4> QED BY <2>1, <4>1 DEF Off
    <3>5. ASSUME NEW o \in Project
          PROVE ~(\/ Start(c, o) \/ ReapDrops(c, o) \/ ReapKeeps(c, o)
                  \/ StopPops(c, o) \/ StopLooks(c, o) \/ StopEnds(c, o))
      BY <2>1, <3>1
         DEF Start, ReapDrops, ReapKeeps, StopPops, StopLooks, StopEnds, Removed
    <3>6. ASSUME NEW o \in Project, AdoptEntry(c, o) PROVE c = m /\ o = p
      BY <3>6 DEF TypeOK, AdoptEntry, Session
    <3> QED BY <2>3, <3>3, <3>4, <3>5, <3>6 DEF Manages, Closes, Crashes
  <2> QED BY <2>1, <2>2, <2>3 DEF Next
<1>3. EntryKnown(p, e)
  BY <1>1 DEF Known, EntriesKnown
<1>4. e.pid \in Pid /\ Taken(e.pid) /\ proc[e.pid].born = e.start
  BY DEF Entry, Alive, HandleOf, Taken
<1>5. Fresh(e)
  BY <1>3, <1>4 DEF EntryKnown, Fresh
<1>6. proc[e.pid].group = e.pid
  BY <1>3, <1>4, <1>5 DEF EntryKnown
<1>7. SameProcess(e)
  BY <1>4, <1>5 DEF TypeOK, SameProcess, Fresh
<1>8. Adoptable(e)
  BY <1>4, <1>6, <1>7 DEF Adoptable
<1>9. held'[m][p] = [pid |-> e.pid, start |-> proc[e.pid].born,
                     adopted |-> TRUE, vouched |-> now]
  BY <1>2, <1>8 DEF TypeOK, AdoptEntry
<1>10. held'[m][p] \in Managed
  BY <1>4, <1>9 DEF TypeOK, Managed, Process
<1> QED BY <1>10

\* A server that was recorded and still leads its group is taken back at the next
\* launch, with any number of restarts and clock steps in between (adopt).
THEOREM TakesBackItsOwn == Spec => AdoptsItsOwn
<1>1. Init => Writers /\ Known
  <2>1. Init => Writers
    BY DEF Init, Writers, Off
  <2>2. Init => Known
    BY DEF Init, Known, EntriesKnown, ViewsFresh, Records, Off
  <2> QED BY <2>1, <2>2
<1>2. ASSUME TypeOK, Ours, Writers, Known, [Next]_vars PROVE (Writers /\ Known)'
  <2>1. CASE UNCHANGED vars
    BY <1>2, <2>1, KnownStep DEF vars, Writers
  <2>2. CASE Next
    BY <1>2, <2>2, KnownStep, WritersStep DEF Ours
  <2> QED BY <1>2, <2>1, <2>2
<1>3. ASSUME TypeOK, Ours, Writers, Known, [Next]_vars, NEW m \in Copy, NEW p \in Project
      PROVE  LET e == copies[m].record[p] IN
             (/\ p \in copies[m].todo /\ p \notin copies'[m].todo
              /\ copies'[m].pc = "adopting"
              /\ Alive([pid |-> e.pid, start |-> e.start])
              /\ proc[e.pid].kin = p
              /\ e.boot \in {None, boot})
               => held'[m][p] # None
  <2>1. p \in copies[m].todo => copies[m].record[p] \in Entry
    BY <1>3 DEF TypeOK, Session, Ours, Sessions
  <2> QED BY <1>3, <2>1, AdoptsKnown
<1>4. TypeOK /\ Ours /\ Writers /\ Known /\ [Next]_vars =>
        [\A m \in Copy, p \in Project :
           LET e == copies[m].record[p] IN
           (/\ p \in copies[m].todo /\ p \notin copies'[m].todo
            /\ copies'[m].pc = "adopting"
            /\ Alive([pid |-> e.pid, start |-> e.start])
            /\ proc[e.pid].kin = p
            /\ e.boot \in {None, boot})
             => held'[m][p] # None]_vars
  BY <1>3
<1> QED BY <1>1, <1>2, <1>4, Invariant, PTL DEF Spec, AdoptsItsOwn

=============================================================================
