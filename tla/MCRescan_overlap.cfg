SPECIFICATION FairSpec
CONSTANTS
  Path <- Paths3
  Place <- PlaceOf
  Port = {1, 2}
  Launcher = {"unit", "script"}
  Unit = {"unit"}
  Choice = {"default", "other"}
  Mine = {"default", "other"}
  Default = "default"
  None = None
  Starts <- StartsSmall
  Scans <- ScansSmall
  Profiles <- ProfilesSmall
  MaxScans = 2
  MaxSteps = 2
  Hazard = {}
CHECK_DEADLOCK FALSE
INVARIANT Settles
PROPERTIES ChoicesKept NothingInventedOrLost WrittenWithConsent TieBreakKept RescanEnds
