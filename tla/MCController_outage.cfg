SPECIFICATION Spec
CONSTANTS
  Project = {p1}
  Server = {c1, c2}
  Stranger = {}
  Alike = {}
  Port = {1}
  Declared <- DeclaredSame
  Port1 = 1
  Port2 = 2
  p1 = p1
  p2 = p2
  Snap = {s1, s2}
  Future = {f1}
  Slots = 1
  Tree = {}
  None = None
  Hazard = {"probe_fails", "straggler", "stop_raises", "quit"}
SYMMETRY Symmetric
CHECK_DEADLOCK FALSE
INVARIANTS InFlightTrue RowsAgree
PROPERTIES SilentAfterQuit StartingKept StopMeansStop
