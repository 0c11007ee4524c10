SPECIFICATION Spec
CONSTANTS
  Project = {p1, p2}
  Server = {c1, c2, c3}
  Stranger = {}
  Alike = {}
  Port = {1, 2}
  Declared <- DeclaredEach
  Port1 = 1
  Port2 = 2
  p1 = p1
  p2 = p2
  Snap = {s1, s2}
  Future = {f1, f2}
  Slots = 1
  Tree = {}
  None = None
  Hazard = {}
SYMMETRY Symmetric
PROPERTIES StopHitsItsServer
