\* One pod that is killed once and restarted.
CONSTANTS
  Jobs = {j1}
  NoJob = NoJob
  Pods = {p1}
  BatchSize = 1
  Unreliable = {}
  RedisMayFail = FALSE
  MaxFaults = 1
SPECIFICATION FairSpec
PROPERTY StaleJobsFail
