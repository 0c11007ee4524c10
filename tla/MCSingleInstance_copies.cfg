SPECIFICATION FairSpec
CONSTANTS
  Copy = {c1, c2, c3}
  None = None
CHECK_DEADLOCK FALSE
INVARIANT OneWriter
PROPERTY LaunchShown
