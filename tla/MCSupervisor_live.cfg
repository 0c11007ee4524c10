SPECIFICATION FairSpec
CONSTANTS
  Project = {p1}
  Proc = {q1, q2}
  Starter = {gui}
  Worker = {w1}
  Fd = {1}
  None = None
  Hazard = {"fork_in_scan", "fork_after_stop", "first_scan_error", "later_scan_error"}
CHECK_DEADLOCK FALSE
PROPERTIES ReservationEnds DeadSlotFreed
