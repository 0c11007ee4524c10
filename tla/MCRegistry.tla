----------------------------- MODULE MCRegistry -----------------------------
(* Small instances of Registry for TLC.                                    *)
EXTENDS Registry, TLC

\* The lists that are not empty differ in the ports confirmed alone.
UserPartOf == [l \in List |-> l # Empty]

\* An editor leaves a list with keys of a newer build, a file that does not
\* load or loads in part, or none.
ByHandHere == [list : List \ {Empty}, keys : {Key}] \cup (Damaged \ {Torn})
                \cup Refusing \cup {None}

Symmetric == Permutations(List \ {Empty}) \cup Permutations(Aside)
=============================================================================
