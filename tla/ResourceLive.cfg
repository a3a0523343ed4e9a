SPECIFICATION FairSpec
CONSTANTS
  t1 = t1
  t2 = t2
  p1 = p1
  p2 = p2
  Kind = "datanetwork"
  Types = {t1}
  Params = {p1, p2}
  Scopes = {"principal"}
  Annotations = {}
  MaxGen = 2
  MaxFaults = 2
  MaxLosses = 0
  MaxRestarts = 1
CHECK_DEADLOCK FALSE
INVARIANTS
  BusyIsReported
PROPERTIES
  Converges
