\* One pod, no fault.
CONSTANTS
  Jobs = {j1}
  NoJob = NoJob
  Pods = {p1}
  BatchSize = 1
  Unreliable = {}
  RedisMayFail = FALSE
  MaxFaults = 0
SPECIFICATION Spec
PROPERTY RepairCountsFinished
