\* One pod, batches of two, one restart of Redis at any point.
CONSTANTS
  Jobs = {j1, j2}
  NoJob = NoJob
  Pods = {p1}
  BatchSize = 2
  Unreliable = {j1, j2}
  RedisMayFail = FALSE
  MaxFaults = 0
  MaxRestarts = 1
SPECIFICATION RecoverySpec
SYMMETRY Symmetry
INVARIANTS
  RecoveryTypeOK
  
  ResultsStillBelong
CHECK_DEADLOCK FALSE
