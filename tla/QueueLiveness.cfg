\* One pod, stopped or killed twice; Redis answers and payloads resolve.
CONSTANTS
  Jobs = {j1, j2}
  NoJob = NoJob
  Pods = {p1}
  BatchSize = 2
  Unreliable = {}
  RedisMayFail = FALSE
  MaxFaults = 2
SPECIFICATION FairSpec
PROPERTIES
  QueueServed
  QueuedJobsFinish
  ShutdownDrains
