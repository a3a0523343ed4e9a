SPECIFICATION Spec
CONSTANTS
  Cases <- MCCases
INVARIANTS
  OnePoolPerFamily
  StatusHolds
PROPERTIES
  ReconfiguresAllowed
  DualStackOrder
  Converges
CHECK_DEADLOCK FALSE
