CONSTANTS
  N = 2
  Cap = 1
  MaxRequests = 2
  MaxResponses = 1
  Nil = Nil
SPECIFICATION FairSpec
CHECK_DEADLOCK FALSE
PROPERTIES
  RunReturns
  ResponsesArrive
