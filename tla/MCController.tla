---------------------------- MODULE MCController ----------------------------
(* Small instances of Controller for TLC.                                  *)
EXTENDS Controller, TLC

CONSTANTS p1, p2, Port1, Port2

\* Every project declares the first port; or the second one another.
DeclaredSame == [p \in Project |-> Port1]
DeclaredEach == [p \in Project |-> IF p = p1 THEN Port1 ELSE Port2]

Symmetric == Permutations(Server) \cup Permutations(Snap)
               \cup Permutations(Future) \cup Permutations(Tree)
=============================================================================
