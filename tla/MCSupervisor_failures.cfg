SPECIFICATION Spec
CONSTANTS
  Project = {p1}
  Proc = {q1, q2, q3}
  Starter = {s1, s2}
  Worker = {w1}
  Fd = {1, 2}
  None = None
  Hazard = {"first_scan_error", "reap_scan_error"}
SYMMETRY Symmetric
CHECK_DEADLOCK FALSE
INVARIANTS OneServer Reachable CleanStopMeansGone ResourcesHeld
PROPERTY ImplementsServerSlot
