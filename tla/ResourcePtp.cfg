SPECIFICATION Spec
CONSTANTS
  t1 = t1
  t2 = t2
  p1 = p1
  p2 = p2
  Kind = "ptpinstance"
  Types = {t1, t2}
  Params = {p1}
  Scopes = {"bootstrap", "principal"}
  Annotations = {"none", "true", "other"}
  MaxGen = 2
  MaxFaults = 2
  MaxLosses = 1
  MaxRestarts = 1
CHECK_DEADLOCK FALSE
SYMMETRY DataSymmetry
INVARIANTS
  TypeOK
  QuietIsSettled
PROPERTIES
  NoChangeAfterReconciled
