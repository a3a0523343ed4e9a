SPECIFICATION Spec
CONSTANTS
  Ports <- MCPorts
  Spare <- MCSpare
  Histories <- MCHistories
  MaxFaults = 2
INVARIANTS
  InOrder
PROPERTIES
  Converges
  FitsStays
CHECK_DEADLOCK FALSE
