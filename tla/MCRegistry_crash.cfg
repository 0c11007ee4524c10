SPECIFICATION Spec
CONSTANTS
  List = {empty, l1, l2}
  Empty = empty
  UserPart <- UserPartOf
  Key = {k1}
  Damaged = {torn, bad}
  Torn = torn
  Refusing = {row}
  Aside = {a1, a2}
  None = None
  ByHand <- ByHandHere
  MaxEdits = 2
  MaxCuts = 1
  MaxLoose = 2
  Hazard = {}
SYMMETRY Symmetric
INVARIANTS EditsKept UserToldTruth BackupIsStart NothingForgotten
PROPERTY ImplementsAtomicFile
