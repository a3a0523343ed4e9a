SPECIFICATION Spec
CONSTANTS
  Names <- MCNames
  Cases <- MCCases
INVARIANTS
  DefaultsAreOriginal
  ReportMatches
PROPERTIES
  ReadyMeansConfigured
  RefusesChanges
  Converges
CHECK_DEADLOCK FALSE
