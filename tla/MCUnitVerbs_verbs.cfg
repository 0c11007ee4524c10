SPECIFICATION FairSpec
CONSTANTS
  Unit = {u1}
  Wanted = {1, 2}
  Task = {t1}
  None = None
  Off = Off
  Unnamed = Unnamed
  Hazard = {}
INVARIANTS LeftWithReason AdoptedChecked
PROPERTIES StartsOnItsPort ServiceStartEnds
