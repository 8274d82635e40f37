CONSTANTS
  Procs = {p1}
  Config <- ThreeShards
  MaxKey = 4
  Requests <- ListRequests
  MaxRequests = 1
  Nil = Nil
  Panic = Panic
SPECIFICATION Spec
CHECK_DEADLOCK FALSE
INVARIANT
  AnswersListKeysOnce
