SPECIFICATION Spec
CONSTANTS
  Project = {p1}
  Pid = {q1, q2}
  Copy = {m1, m2}
  None = None
  MaxNow = 2
  MaxBoot = 1
  MaxWall = 1
  Hazard = {"crash", "reboot", "clock_step", "no_boot_id"}
SYMMETRY Symmetric
CHECK_DEADLOCK FALSE
INVARIANTS OursExactly RecordMatches
PROPERTIES AdoptsItsOwn
