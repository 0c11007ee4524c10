------------------------------- MODULE Merge --------------------------------
(***************************************************************************)
(* The two merges of the project list (src/lwsm/registry.py): a scan folded *)
(* into the records refreshes what a scan observes and keeps what the user  *)
(* chose, a profile folded into them does the reverse.  Pure operators on   *)
(* sequences of records, in the order of the file.                          *)
(***************************************************************************)
EXTENDS Naturals, Sequences, FiniteSets

CONSTANTS
  Path,      \* how projects.json spells a directory
  Place,     \* the directory a spelling resolves to, itself a spelling
  Port,      \* port numbers
  Launcher,  \* what starts a project: a kind and a command, or a unit
  Unit,      \* the launchers that are systemd units
  Choice,    \* values of the part of the user's half that a profile carries
  Mine,      \* values of the part it never carries: what runs, what is asked
             \* of a server, and the keys of a newer build
  Default,   \* the value of a part nobody has chosen
  None       \* no port, no launcher, no time

ASSUME MergeAssumption ==
  /\ Place \in [Path -> Path]
  /\ \A p \in Path : Place[Place[p]] = Place[p]
  /\ Port \subseteq Nat
  /\ Unit \subseteq Launcher
  /\ Default \in Choice /\ Default \in Mine
  /\ None \notin Port /\ None \notin Launcher /\ None \notin Nat

-----------------------------------------------------------------------------
(* Records, and what a scan says of one directory.                         *)

Record == [path : Path,
           port : Port \cup {None},      \* declared by the project's files
           seen : Port \cup {None},      \* confirmed_port: a poll saw it
           launch : Launcher \cup {None},
           override : Port \cup {None},  \* the user's
           choice : Choice,              \* the user's, carried by a profile
           mine : Mine,                  \* the user's, never imported
           added : Nat \cup {None}]

Found == [path : Path,                   \* resolved
          port : Port \cup {None},
          clean : BOOLEAN,               \* every file of it was read
          launch : Launcher,
          saveable : BOOLEAN]            \* its text can be encoded

EffectivePort(r) ==
  CASE r.override # None -> r.override
    [] r.override = None /\ r.seen # None -> r.seen
    [] OTHER -> r.port

\* with_port_override
WithPortOverride(r, p) ==
  IF p = r.override THEN r ELSE [r EXCEPT !.override = p, !.seen = None]

\* The places in I, first to last.
InOrder(I) ==
  CHOOSE at \in [1..Cardinality(I) -> I] :
    /\ {at[k] : k \in DOMAIN at} = I
    /\ \A k, m \in DOMAIN at : k < m => at[k] < at[m]

\* What is at the places I of a sequence, in its order.
Kept(s, I) ==
  LET at == InOrder(I)
  IN [k \in 1..Cardinality(I) |-> s[at[k]]]

\* A record's path names the directory that `d` names.
SamePlace(r, d) == Place[r.path] = Place[d]

\* _identity_owners: the first record of a directory in file order owns it.
Owns(list, i) == \A j \in 1..(i - 1) : ~SamePlace(list[j], list[i].path)

Known(list, d) == \E i \in DOMAIN list : SamePlace(list[i], d)

-----------------------------------------------------------------------------
(* merge: a scan.                                                          *)

\* Mutant: a launcher replaces a unit that could not be asked for.
DetectedUnasked(r, f, asked) ==
  LET port == IF f.port # None \/ f.clean THEN f.port ELSE r.port
  IN [r EXCEPT !.port = port, !.seen = IF port = r.port THEN @ ELSE None,
               !.launch = f.launch]

\* _detected_half_applied.  No port is an answer only from a clean read, and
\* no unit only from a scan that could ask systemd.
Detected(r, f, asked) ==
  LET port == IF f.port # None \/ f.clean THEN f.port ELSE r.port
  IN [r EXCEPT !.port = port, !.seen = IF port = r.port THEN @ ELSE None,
               !.launch = IF ~asked /\ r.launch \in Unit THEN @ ELSE f.launch]

NewRecord(f, now) ==
  [path |-> f.path, port |-> f.port, seen |-> None, launch |-> f.launch,
   override |-> None, choice |-> Default, mine |-> Default, added |-> now]

\* Mutant: the list is written in the order of the scan.
MergedSorted(list, found, asked, now) ==
  LET saw == {i \in DOMAIN list : \E k \in DOMAIN found : SamePlace(list[i], found[k].path)}
  IN Kept(list, saw) \o Kept(list, DOMAIN list \ saw)

\* merge: the record that owns a directory is refreshed, every other one is
\* kept as it is, and a directory no record names is added at the end.
Merged(list, found, asked, now) ==
  LET Refreshed(i) ==
        LET at == {k \in DOMAIN found : SamePlace(list[i], found[k].path)
                                          /\ found[k].saveable}
        IN IF Owns(list, i) /\ at # {}
             THEN Detected(list[i], found[CHOOSE k \in at : TRUE], asked)
             ELSE list[i]
      news == Kept(found, {k \in DOMAIN found : found[k].saveable
                                                  /\ ~Known(list, found[k].path)})
  IN [i \in DOMAIN list |-> Refreshed(i)]
       \o [k \in DOMAIN news |-> NewRecord(news[k], now)]

\* port_claims: the earliest `added` wins, a record without one loses to any
\* that has one, and file order decides the rest.
Before(list, i, j) ==
  LET a == list[i].added
      b == list[j].added
  IN \/ a # None /\ b = None
     \/ a # None /\ b # None /\ a < b
     \/ a = b /\ i < j

Claims(list) ==
  {c \in (DOMAIN list) \X (DOMAIN list) :
     LET port == EffectivePort(list[c[1]])
         rivals == {i \in DOMAIN list : EffectivePort(list[i]) = port}
     IN /\ port # None /\ c[1] # c[2] /\ c[2] \in rivals
        /\ \A i \in rivals \ {c[2]} : Before(list, c[2], i)}

-----------------------------------------------------------------------------
(* merge_imported: a profile.                                              *)

\* user_half_applied, which a rescan uses too, for the records as they are.
\* The record's own unknown keys are kept: they are equal in one session's lists
\* and default in a new row, so they go with `mine` here.
UserHalfApplied(r, p) ==
  [r EXCEPT !.override = p.override, !.choice = p.choice, !.mine = p.mine,
            !.added = p.added]

\* A record that is in the profile takes its half of the user's choices.
Imported(r, p) ==
  LET half == [UserHalfApplied(r, p) EXCEPT !.mine = r.mine]
  IN IF half.override # r.override THEN [half EXCEPT !.seen = None] ELSE half

\* A record that is only in the profile comes without its launcher, its
\* ports, and what is never imported.
Added(p) ==
  [p EXCEPT !.port = None, !.seen = None, !.launch = None, !.mine = Default]

\* Mutant: the last entry of the profile for a directory counts.
MergedProfileLast(list, profile) ==
  [i \in DOMAIN list |->
     LET at == {k \in DOMAIN profile : SamePlace(profile[k], list[i].path)}
     IN IF Owns(list, i) /\ at # {}
          THEN Imported(list[i], profile[CHOOSE k \in at : \A m \in at : m <= k])
          ELSE list[i]]

\* merge_imported: an import is a merge, never a replacement, and a second
\* entry of the profile for one directory is ignored.
MergedProfile(list, profile) ==
  LET Restored(i) ==
        LET at == {k \in DOMAIN profile : Owns(profile, k)
                                            /\ SamePlace(profile[k], list[i].path)}
        IN IF Owns(list, i) /\ at # {}
             THEN Imported(list[i], profile[CHOOSE k \in at : TRUE])
             ELSE list[i]
      news == Kept(profile, {k \in DOMAIN profile : Owns(profile, k)
                                                      /\ ~Known(list, profile[k].path)})
  IN [i \in DOMAIN list |-> Restored(i)]
       \o [k \in DOMAIN news |-> Added(news[k])]
=============================================================================
