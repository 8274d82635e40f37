CONSTANTS
  N = 2
  Cap = 1
  MaxRequests = 2
  MaxResponses = 2
  Nil = Nil
SPECIFICATION Spec
CHECK_DEADLOCK FALSE
INVARIANTS
  StreamsKeepOrder
