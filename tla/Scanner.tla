------------------------------ MODULE Scanner -------------------------------
(***************************************************************************)
(* One scan (src/lwsm/scanner.py): the roots are listed and each directory  *)
(* in them is examined for a launcher and a port, within a time budget that *)
(* may end anywhere, over files that may not be readable, asking a systemd   *)
(* that may stop answering.  What the merge may conclude from a result is    *)
(* stated as invariants of it; Rescan assumes nothing else of a scan.        *)
(***************************************************************************)
EXTENDS Naturals, Sequences, FiniteSets, FiniteSetsExt

CONSTANTS
  Root,      \* scan roots
  Roots,     \* the roots of this scan, in order
  Dir,       \* directories that may be projects, resolved, at any depth
  Shell,     \* start.sh and run.sh, in order
  Package,   \* package.json
  Named,     \* serve.py ... app.py, serve.mjs, serve.js, in order
  Hop,       \* files that a launcher runs or imports
  Env,       \* .env.local and .env, in order
  Compose,   \* the names of the compose file, in order
  Readme,
  Port, None,
  Trees,     \* what the roots and directories may hold
  MaxEntries \* MAX_ROOT_ENTRIES

Items(s) == {s[i] : i \in DOMAIN s}
Launchers == Shell \o <<Package>> \o Named
File == Items(Launchers) \cup Hop \cup Items(Env) \cup Items(Compose) \cup {Readme}

\* An entry of a root.  The directory it resolves to is None for a file and
\* for a symlink, and for the application's own directory.
Entry == Dir \cup {None}

\* What is in one file: whether it can be run (or parsed), the one port it
\* declares, the file it goes on to, the default of the framework it uses (None
\* in a file that is not looked at for one: of a shell script's, only a .py is).
Text == [there : BOOLEAN, usable : BOOLEAN, port : Port \cup {None},
         next : Hop \cup {None}, default : Port \cup {None}]

\* A unit of the directory's name, and whether it is bound to the directory.
Directory == [unit : {"none", "bound", "masked", "elsewhere"},
              unitPort : Port \cup {None}, file : [File -> Text]]

\* What each root holds and, of every directory, the roots that it is below, as
\* an entry or deeper.
Tree ==
  {t \in [entries : [Root -> Seq(Entry)], below : [Dir -> SUBSET Root],
          dir : [Dir -> Directory]] :
     \A r \in Root : \A d \in Items(t.entries[r]) \ {None} : r \in t.below[d]}

ASSUME ScannerAssumption ==
  /\ Roots \in Seq(Root) /\ Trees \subseteq Tree
  /\ MaxEntries \in Nat
  /\ \A names \in {Shell, Named, Env, Compose} : names \in Seq(Items(names))
  /\ Package \notin Items(Shell)
  /\ None \notin Port /\ None \notin Dir /\ None \notin Hop

VARIABLES
  tree,        \* what there is; it does not change while it is scanned
  left,        \* the roots that are not listed yet
  entries,     \* the entries of the listed root that are not examined yet
  seen,        \* directories that were taken up
  projects,    \* what was found
  unlistable,  \* roots that were not listed to their end
  systemd,     \* _UnitLookup: the unit list is unread, read, or given up
  over,        \* "no", "done", "timed_out"
  troubled     \* ghost: directories something of which could not be read

vars == <<tree, left, entries, seen, projects, unlistable, systemd, over, troubled>>

-----------------------------------------------------------------------------
(* One directory, `bad` of whose files cannot be read now.                 *)

There(d, f) == f # None /\ tree.dir[d].file[f].there
Reads(d, bad, f) == There(d, f) /\ f \notin bad
PortIn(d, f) == tree.dir[d].file[f].port
NextOf(d, f) == tree.dir[d].file[f].next

Runs(d, bad, f) == Reads(d, bad, f) /\ tree.dir[d].file[f].usable

\* _match_shell, _match_node_package, _match_named_file: the first launcher
\* that can be used; the ones before it are noted if they are there.
LauncherAt(d, bad) ==
  LET usable == {i \in DOMAIN Launchers : Runs(d, bad, Launchers[i])}
  IN IF usable = {} THEN 0 ELSE Min(usable)

Startable(d, bad) == \E i \in DOMAIN Launchers : Runs(d, bad, Launchers[i])

LaunchersNoted(d, bad) ==
  LET at == LauncherAt(d, bad)
  IN \E i \in DOMAIN Launchers :
       (at = 0 \/ i < at) /\ There(d, Launchers[i])

\* The files a launcher goes on to: one, and from a shell script's one more
\* (_shell_port, _import_hop_port); package.json stands alone.
Hops(d, bad, f) ==
  LET one == IF f = Package THEN None ELSE NextOf(d, f)
      two == IF f \in Items(Shell) /\ Reads(d, bad, one) THEN NextOf(d, one) ELSE None
  IN <<f, one, two>>

\* The launcher's own port, else that of the file it goes on to.
Declared(d, bad, f) ==
  LET hops == Hops(d, bad, f)
      with == {i \in DOMAIN hops : Reads(d, bad, hops[i]) /\ PortIn(d, hops[i]) # None}
  IN IF with = {} THEN None
     ELSE PortIn(d, hops[Min(with)])

\* A hop is noted when it is needed and refused.
HopNoted(d, bad, f) ==
  LET hops == Hops(d, bad, f)
  IN \E i \in 2..3 :
       /\ hops[i] # None /\ ~Reads(d, bad, hops[i])
       /\ \A j \in 1..(i - 1) : PortIn(d, hops[j]) = None

\* _python_framework, Vite: a shell script's framework is that of its program.
Framework(d, bad, f) ==
  LET program == IF f \in Items(Shell) THEN NextOf(d, f) ELSE f
  IN IF Reads(d, bad, program) THEN tree.dir[d].file[program].default ELSE None

\* The compose file that is read is the first of its names that can be.
ComposeRead(d, bad) ==
  LET at == {i \in DOMAIN Compose : Reads(d, bad, Compose[i])}
  IN IF at = {} THEN <<>> ELSE <<Compose[Min(at)]>>

SourceNoted(d, bad) ==
  \/ \E f \in Items(Env) \cup {Readme} : There(d, f) /\ f \in bad
  \/ \E i \in DOMAIN Compose :
       /\ There(d, Compose[i]) /\ Compose[i] \in bad
       /\ \A j \in 1..(i - 1) : ~Reads(d, bad, Compose[j])

\* _env_port, _compose_port, _readme_port: the one port of each of the files `s`.
PortsIn(d, bad, s) ==
  [i \in DOMAIN s |-> IF Reads(d, bad, s[i]) THEN PortIn(d, s[i]) ELSE None]

\* What a framework assumes, for a launcher that declares no port.
Default(d, bad, f) ==
  IF Declared(d, bad, f) = None THEN Framework(d, bad, f) ELSE None

\* Mutant: a default outranks what the files declare.
RankedByLauncher(d, bad, f) ==
  <<Declared(d, bad, f), Default(d, bad, f)>>
    \o PortsIn(d, bad, Env) \o PortsIn(d, bad, ComposeRead(d, bad))
    \o PortsIn(d, bad, <<Readme>>)

\* _settle_port: ranked by how directly a source says what the server binds.
Ranked(d, bad, f) ==
  <<Declared(d, bad, f)>>
    \o PortsIn(d, bad, Env) \o PortsIn(d, bad, ComposeRead(d, bad))
    \o <<Default(d, bad, f)>> \o PortsIn(d, bad, <<Readme>>)

Settled(d, bad, f) ==
  LET ranked == Ranked(d, bad, f)
      with == {i \in DOMAIN ranked : ranked[i] # None}
  IN IF with = {} THEN None ELSE ranked[Min(with)]

-----------------------------------------------------------------------------
(* What is found of it.                                                    *)

\* Mutant: what a launcher goes on to is not part of the reading.
CleanOfHops(d, bad, f, asked) == ~LaunchersNoted(d, bad) /\ ~SourceNoted(d, bad)

\* Nothing was noted about the directory; that systemd gave no answer is not
\* a note about a directory.  Sources that disagree are noted too, but then
\* there is a port.
Clean(d, bad, f, asked) ==
  /\ ~LaunchersNoted(d, bad) /\ ~SourceNoted(d, bad) /\ ~HopNoted(d, bad, f)
  /\ asked => tree.dir[d].unit \notin {"masked", "elsewhere"}

\* DetectedProject, with what of it the merge reads.
Project == [path : Dir, launch : Items(Launchers) \cup {"unit"},
            port : Port \cup {None}, clean : BOOLEAN]

\* A directory whose unit systemd owns up to runs by its unit, and its port is
\* the unit's or none (INV-17).  A second unit of its name may be noted.
ByUnit(d, clean) ==
  [path |-> d, launch |-> "unit", port |-> tree.dir[d].unitPort, clean |-> clean]

ByFile(d, bad, asked) ==
  LET f == Launchers[LauncherAt(d, bad)]
  IN [path |-> d, launch |-> f, port |-> Settled(d, bad, f), clean |-> Clean(d, bad, f, asked)]

-----------------------------------------------------------------------------
Init ==
  /\ tree \in Trees
  /\ left = Roots /\ entries = <<>>
  /\ seen = {} /\ projects = <<>> /\ unlistable = {}
  /\ systemd = "unread"
  /\ over = "no"
  /\ troubled = {}

\* The budget is looked at while a root is listed, before each entry and
\* while files are read; the candidate in progress is given up.
Expires ==
  /\ over = "no"
  /\ left # <<>> \/ entries # <<>>
  /\ over' = "timed_out"
  /\ UNCHANGED <<tree, left, entries, seen, projects, unlistable, systemd, troubled>>

Lists ==
  /\ over = "no" /\ entries = <<>> /\ left # <<>>
  /\ Len(tree.entries[Head(left)]) <= MaxEntries
  /\ entries' = tree.entries[Head(left)]
  /\ left' = Tail(left)
  /\ UNCHANGED <<tree, seen, projects, unlistable, systemd, over, troubled>>

\* Mutant: the entries past the limit are dropped without a word.
ListsSome ==
  /\ over = "no" /\ entries = <<>> /\ left # <<>>
  /\ LET all == tree.entries[Head(left)]
     IN Len(all) > MaxEntries /\ \E i \in DOMAIN all :
          entries' = SubSeq(all, 1, i - 1) \o SubSeq(all, i + 1, Len(all))
  /\ left' = Tail(left)
  /\ UNCHANGED <<tree, seen, projects, unlistable, systemd, over, troubled>>

\* A root that holds too much is listed in part, in no order of its own, and
\* is as good as unlistable (here: one entry too many).
Overflows ==
  /\ over = "no" /\ entries = <<>> /\ left # <<>>
  /\ LET all == tree.entries[Head(left)]
     IN Len(all) > MaxEntries /\ \E i \in DOMAIN all :
          entries' = SubSeq(all, 1, i - 1) \o SubSeq(all, i + 1, Len(all))
  /\ left' = Tail(left)
  /\ unlistable' = unlistable \cup {Head(left)}
  /\ UNCHANGED <<tree, seen, projects, systemd, over, troubled>>

CannotList ==
  /\ over = "no" /\ entries = <<>> /\ left # <<>>
  /\ left' = Tail(left)
  /\ unlistable' = unlistable \cup {Head(left)}
  /\ UNCHANGED <<tree, entries, seen, projects, systemd, over, troubled>>

\* The next entry is examined.
Examines ==
  /\ over = "no" /\ entries # <<>>
  /\ entries' = Tail(entries)
  /\ UNCHANGED <<tree, left, unlistable, over>>

\* Not a directory, a symlink, the application's own, or taken up before.
Skips ==
  /\ Examines
  /\ Head(entries) = None \/ Head(entries) \in seen
  /\ UNCHANGED <<seen, projects, systemd, troubled>>

\* It cannot be examined; that costs this directory only.
CannotExamine ==
  /\ Examines
  /\ Head(entries) # None /\ Head(entries) \notin seen
  /\ \/ seen' = seen                          \* its own lstat or resolve
     \/ seen' = seen \cup {Head(entries)}
  /\ troubled' = troubled \cup {Head(entries)}
  /\ UNCHANGED <<projects, systemd>>

\* Mutant: each directory asks afresh, and the last answer counts.
AsksAfresh(d) ==
  \/ systemd' = "read"
  \/ systemd' = "off"

\* _UnitLookup: the list is read once, the unit of a directory's name is
\* asked for, and the first failure ends the asking for this scan.
Asks(d) ==
  \/ /\ systemd # "off" /\ systemd' = "read"
  \/ /\ systemd = "unread" \/ (systemd = "read" /\ tree.dir[d].unit # "none")
     /\ systemd' = "off"
  \/ systemd = "off" /\ systemd' = "off"

FindsUnit ==
  /\ Examines
  /\ LET d == Head(entries)
     IN /\ d # None /\ d \notin seen
        /\ Asks(d) /\ systemd' = "read" /\ tree.dir[d].unit = "bound"
        /\ seen' = seen \cup {d}
        /\ \E clean \in BOOLEAN : projects' = Append(projects, ByUnit(d, clean))
        /\ UNCHANGED troubled

\* _match_systemd gives nothing and the files are read, some of which cannot
\* be.
FindsFiles ==
  /\ Examines
  /\ LET d == Head(entries)
     IN /\ d # None /\ d \notin seen
        /\ Asks(d) /\ (systemd' = "read" => tree.dir[d].unit # "bound")
        /\ seen' = seen \cup {d}
        /\ \E bad \in SUBSET {f \in File : There(d, f)} :
             /\ projects' = IF ~Startable(d, bad) THEN projects
                            ELSE Append(projects, ByFile(d, bad, systemd' = "read"))
             /\ troubled' = IF bad = {} THEN troubled \ {d} ELSE troubled \cup {d}

Ends ==
  /\ over = "no" /\ entries = <<>> /\ left = <<>>
  /\ over' = "done"
  /\ UNCHANGED <<tree, left, entries, seen, projects, unlistable, systemd, troubled>>

Next ==
  \/ Expires \/ Lists \/ Overflows \/ CannotList
  \/ Skips \/ CannotExamine \/ FindsUnit \/ FindsFiles
  \/ Ends

Spec == Init /\ [][Next]_vars

-----------------------------------------------------------------------------
Found == Items(projects)
Paths == {p.path : p \in Found}

\* _note_if_missing: below a root of the scan, at any depth, and absent from a
\* scan that was not cut short and listed the roots it is below to their end;
\* that an entry was skipped suppresses nothing.
FlaggedMissing(d) ==
  /\ over = "done" /\ d \notin Paths
  /\ tree.below[d] \cap Items(Roots) # {}
  /\ tree.below[d] \cap unlistable = {}

\* What runs a directory, all of its files readable.
IsProject(d) ==
  tree.dir[d].unit = "bound" \/ Startable(d, {})

\* A directory that only its unit runs.
OnlyUnit(d) == ~Startable(d, {})

TypeOK ==
  /\ tree \in Trees
  /\ left \in Seq(Root) /\ entries \in Seq(Entry) /\ seen \subseteq Dir
  /\ projects \in Seq(Project)
  /\ unlistable \subseteq Root
  /\ systemd \in {"unread", "read", "off"} /\ over \in {"no", "done", "timed_out"}
  /\ troubled \subseteq Dir

\* A scan looks at the entries of its roots and no deeper.
WithinReach(d) == \E r \in Items(Roots) : d \in Items(tree.entries[r])

\* A project within reach that `merge` reports missing is gone, whatever could
\* not be listed and wherever the budget ended.  Two kinds may be there still,
\* and `merge` flags them all the same, as it does a project out of reach: one
\* of whose directory something could not be read, and one that only its unit
\* runs when systemd gave no answer.
AbsenceMeansGone ==
  \A d \in Dir : FlaggedMissing(d) /\ WithinReach(d) =>
    ~IsProject(d) \/ d \in troubled \/ (OnlyUnit(d) /\ systemd = "off")

\* "*missing* means absent from a scan that could have seen it", as the comment
\* of `_note_if_missing` has it.  The code flags more (see AbsenceMeansGone).
MissingMeansGone ==
  \A d \in Dir : FlaggedMissing(d) => WithinReach(d) /\ ~IsProject(d)

\* No port from a clean read means that nothing the server reads names one:
\* `merge` clears a stored port on the strength of it.
CleanMeansNoPort ==
  \A p \in Found : p.clean /\ p.port = None /\ p.launch # "unit" =>
    Items(Ranked(p.path, {}, p.launch)) = {None}

\* A directory whose unit is bound to it is found by its unit, or the result
\* says that systemd was not asked to the end: `merge` keeps a stored unit on
\* the strength of it, so that Start does not run a second server (ADR-0003).
UnitOrUnasked ==
  over # "no" => \A p \in Found :
    p.launch # "unit" /\ tree.dir[p.path].unit = "bound" => systemd = "off"

\* A directory is in the result once, however many roots reach it.
OncePerDirectory ==
  \A i, j \in DOMAIN projects : projects[i].path = projects[j].path => i = j

\* One row per directory, run by what owns the directory.
FoundOnce == OncePerDirectory /\ UnitOrUnasked

\* A port that the files declare is used before one that a framework assumes.
DeclaredFirst ==
  \A p \in Found : p.path \notin troubled /\ p.launch # "unit" =>
    LET written == {PortIn(p.path, f) : f \in {g \in Items(Env) \cup Items(ComposeRead(p.path, {})) :
                                                 There(p.path, g)}} \ {None}
    IN written # {} => p.port \in written \cup {Declared(p.path, {}, p.launch)}

\* What a row says of the port is what the files of the directory say.
PortsTrue == CleanMeansNoPort /\ DeclaredFirst
=============================================================================
