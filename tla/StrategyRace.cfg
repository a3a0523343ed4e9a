SPECIFICATION Spec
CONSTANTS
  r1 = r1
  m1 = m1
  m2 = m2
  Resources = {r1}
  Kind <- OneHost
  Monitors = {m1, m2}
  MaxRetry = 0
  MaxVersion = 0
  RetryCap = 1
  MaxRestarts = 0
  ApiFaults = TRUE
SYMMETRY MonitorSymmetry
INVARIANTS
  TypeOK
  StartedMonitorAlive
  RequestMatchesReports
