\* Two pods sharing the queue, one fault, payloads that may not resolve.
CONSTANTS
  Jobs = {j1, j2}
  NoJob = NoJob
  Pods = {p1, p2}
  BatchSize = 2
  Unreliable = {j1, j2}
  RedisMayFail = TRUE
  MaxFaults = 1
SPECIFICATION Spec
SYMMETRY Symmetry
INVARIANTS
  TypeOK
  ExclusiveOwnership
  QueuedJobsIntact
  RecordsWhole
  TallyExact
  FinishedJobsExpire
PROPERTIES
  ImplementsLifecycle
CHECK_DEADLOCK FALSE
