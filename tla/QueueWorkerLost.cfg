\* One pod, Redis never fails, one payload of two may not resolve.
CONSTANTS
  Jobs = {j1, j2}
  NoJob = NoJob
  Pods = {p1}
  BatchSize = 2
  Unreliable = {j1}
  RedisMayFail = FALSE
  MaxFaults = 0
SPECIFICATION Spec
INVARIANT ServingPodsWork
CHECK_DEADLOCK FALSE
