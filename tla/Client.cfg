SPECIFICATION FairSpec
CONSTANTS
  d1 = d1
  d2 = d2
  System = System
  Dependents = {d1, d2}
  MaxFaults = 2
  MaxRestarts = 1
  NotifyFaults = FALSE
INVARIANTS
  TypeOK
  NoMissedReady
  UnreadyIsRetried
PROPERTIES
  ClientRecovers
  DependentsServed
