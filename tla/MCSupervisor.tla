---------------------------- MODULE MCSupervisor ----------------------------
(* Small instances of Supervisor for TLC.                                  *)
EXTENDS SupervisorInvariant, TLC

\* The identities of processes, projects and threads are interchangeable;
\* descriptor numbers are not.
Symmetric == Permutations(Project) \cup Permutations(Proc)
               \cup Permutations(Starter) \cup Permutations(Worker)
=============================================================================
