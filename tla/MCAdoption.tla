----------------------------- MODULE MCAdoption -----------------------------
(* Small instances of Adoption for TLC.                                    *)
EXTENDS AdoptionInvariant, TLC

\* Copies and pids are interchangeable.
Symmetric == Permutations(Copy) \cup Permutations(Pid)
=============================================================================
