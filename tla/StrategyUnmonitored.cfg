SPECIFICATION Spec
CONSTANTS
  r1 = r1
  m1 = m1
  m2 = m2
  Resources = {r1}
  Kind <- OneHost
  Monitors = {m1, m2}
  MaxRetry = 0
  MaxVersion = 1
  RetryCap = 1
  MaxRestarts = 1
  ApiFaults = FALSE
INVARIANTS
  ListedIsMonitored
