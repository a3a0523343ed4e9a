SPECIFICATION FairSpec
CONSTANTS
  r1 = r1
  m1 = m1
  m2 = m2
  Resources = {r1}
  Kind <- OneHost
  Monitors = {m1}
  MaxRetry = 1
  MaxVersion = 1
  RetryCap = 4
  MaxRestarts = 1
  ApiFaults = FALSE
PROPERTIES
  SentIsFinished
  GivesUp
