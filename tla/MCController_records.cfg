SPECIFICATION Spec
CONSTANTS
  Project = {p1}
  Server = {}
  Stranger = {x1}
  Alike = {x1}
  Port = {1, 2}
  Declared <- DeclaredSame
  Port1 = 1
  Port2 = 2
  p1 = p1
  p2 = p2
  Snap = {s1, s2}
  Future = {}
  Slots = 1
  Tree = {t1}
  None = None
  Hazard = {"records", "probe_fails"}
SYMMETRY Symmetric
INVARIANTS RowsAgree
