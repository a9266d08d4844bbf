\* Two callers, of one job or of two.
CONSTANTS
  Jobs = {j1, j2}
  Clients = {c1, c2}
SPECIFICATION ApiSpec
SYMMETRY Symmetry
INVARIANTS
  ApiTypeOK
  RaisesOnlyWhenGone
  AnswersInOrder
CHECK_DEADLOCK FALSE
