------------------------- MODULE AdoptionInvariant -------------------------
(***************************************************************************)
(* The inductive invariants of Adoption, in a module of their own so that  *)
(* TLC can check what AdoptionProofs proves.                               *)
(***************************************************************************)
EXTENDS Adoption

\* What the kernel keeps: start times lie in the past, a taken pid has a group,
\* the processes of a group were started for the same project, and a process whose
\* pid names a group leads it.
Processes ==
  /\ \A q \in Pid : proc[q].born <= now /\ (Taken(q) => proc[q].group \in Pid)
  /\ \A q, r \in Pid :
       (Taken(q) /\ Taken(r) /\ proc[q].group = proc[r].group) => proc[q].kin = proc[r].kin
  /\ \A q, r \in Pid :
       (Taken(q) /\ Taken(r) /\ proc[q].group = r) => proc[r].group = r

\* An entry is older than what runs under its pid now, or names it.
EntryOurs(p, e) ==
  /\ e.boot # None => e.boot <= boot
  /\ e.boot = boot => e.start <= proc[e.pid].born
  /\ e.boot = None => e.created <= wall + proc[e.pid].born
  /\ (Taken(e.pid) /\ SameProcess(e)) => proc[e.pid].kin = p

EntriesOurs ==
  \A p \in Project : \A e \in Records(p) : EntryOurs(p, e)

\* A handle is older than what runs under its pid now, or names it.
HandleOurs(p, h) ==
  /\ h.start <= proc[h.pid].born
  /\ (Taken(h.pid) /\ proc[h.pid].born = h.start) => proc[h.pid].kin = p

\* A held or stopping server: its leader, if it still exists, leads its group. The
\* leader of one that was started here still exists, as a zombie at least; of an
\* adopted one every process that is older than its last look is ours.
ServerOurs(m, p, g) ==
  /\ HandleOurs(p, Leader(g))
  /\ (Taken(g.pid) /\ proc[g.pid].born = g.start) => proc[g.pid].group = g.pid
  /\ ~g.adopted => Taken(g.pid) /\ proc[g.pid].born = g.start /\ proc[g.pid].parent = m
  /\ g.adopted =>
       /\ g.vouched <= now
       /\ \A q \in Pid : (Taken(q) /\ proc[q].group = g.pid /\ proc[q].born < g.vouched)
                           => proc[q].kin = p

ServersOurs ==
  \A m \in Copy, p \in Project :
    /\ \A g \in Servers(m, p) : ServerOurs(m, p, g)
    /\ \A h \in stops[m][p].members : HandleOurs(p, h)

\* A copy that is off has nothing, one that adopts has no stop and goes through
\* what is recorded, and none holds a server that it is stopping.
Sessions ==
  \A m \in Copy, p \in Project :
    /\ copies[m].pc = "off" => held[m][p] = None
    /\ copies[m].pc \in {"off", "adopting"} => stops[m][p] = NotStopping
    /\ held[m][p] = None \/ stops[m][p].server = None
    /\ p \in copies[m].todo => copies[m].pc = "adopting" /\ copies[m].record[p] # None

Ours == Processes /\ EntriesOurs /\ ServersOurs /\ Sessions

\* One copy at a time writes the file; its view is the file, and names what it holds.
Writers ==
  /\ \A m \in Copy :
       /\ copies[m].frozen <=> copies[m].pc \in {"frozen", "released"}
       /\ copies[m].pc \in {"adopting", "running"} => copies[m].record = disk
  /\ \A m, c \in Copy :
       (m # c /\ copies[m].pc \in {"adopting", "running", "frozen"})
         => copies[c].pc \in {"off", "released"}
  /\ \A m \in Copy, p \in Project :
       /\ (copies[m].pc \in {"adopting", "running"} /\ held[m][p] # None)
            => disk[p] # None /\ disk[p].pid = held[m][p].pid
       /\ (copies[m].pc = "adopting" /\ p \in copies[m].todo) => held[m][p] = None
       /\ (copies[m].pc = "running" /\ held[m][p] = None) => disk[p] = None

\* The entry was written in this boot.
Fresh(e) == e.boot = boot \/ (e.boot = None /\ e.created = wall + e.start)

\* One without a boot id may be older, but then nothing of its project was started
\* since; and one of this boot names the leader of a group.
EntryKnown(p, e) ==
  /\ e.boot = None /\ ~Fresh(e) =>
       e.created < wall /\ \A q \in Pid : Taken(q) => proc[q].kin # p
  /\ (Fresh(e) /\ Taken(e.pid) /\ proc[e.pid].born = e.start) =>
       proc[e.pid].group = e.pid

EntriesKnown == \A p \in Project : \A e \in Records(p) : EntryKnown(p, e)

\* A copy that is off has no view; one that has adopted has only entries of this
\* boot in it.
ViewsFresh ==
  \A m \in Copy, p \in Project :
    copies[m].record[p] # None =>
      /\ copies[m].pc # "off"
      /\ copies[m].pc = "adopting" => held[m][p] = None \/ Fresh(copies[m].record[p])
      /\ copies[m].pc \in {"running", "frozen", "released"} => Fresh(copies[m].record[p])

Known == EntriesKnown /\ ViewsFresh
=============================================================================
