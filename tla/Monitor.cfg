SPECIFICATION FairSpec
CONSTANTS
  o1 = o1
  g1 = g1
  g2 = g2
  None = None
  Objects = {o1}
  Goroutines = {g1, g2}
  MaxFaults = 2
  MaxRestarts = 1
INVARIANTS
  TypeOK
  NoLostWakeup
  SingleMonitor
PROPERTIES
  ImplementsWaitStates
  WaitEnds
