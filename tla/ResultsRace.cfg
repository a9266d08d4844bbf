\* A caller of /results while the worker marks the job COMPLETED.
CONSTANTS
  Jobs = {j1}
  Clients = {c1, c2}
SPECIFICATION ApiSpec
SYMMETRY Symmetry
INVARIANT CompletedAnswersCarryResult
CHECK_DEADLOCK FALSE
