SPECIFICATION FairSpec
CONSTANTS
  Project = {p1}
  Server = {c1}
  Stranger = {x1}
  Alike = {}
  Port = {1}
  Declared <- DeclaredSame
  Port1 = 1
  Port2 = 2
  p1 = p1
  p2 = p2
  Snap = {s1, s2}
  Future = {f1}
  Slots = 1
  Tree = {}
  None = None
  Hazard = {"probe_fails"}
PROPERTIES PollGoesOn OverlaysEnd RestartEnds ButtonsReturn
