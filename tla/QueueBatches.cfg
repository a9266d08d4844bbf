\* One pod with batches of two out of three jobs, any of which may not resolve.
CONSTANTS
  Jobs = {j1, j2, j3}
  NoJob = NoJob
  Pods = {p1}
  BatchSize = 2
  Unreliable = {j1, j2, j3}
  RedisMayFail = TRUE
  MaxFaults = 1
SPECIFICATION Spec
SYMMETRY Symmetry
INVARIANTS
  ResultsBelong
  LossBounded
CHECK_DEADLOCK FALSE
