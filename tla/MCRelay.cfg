SPECIFICATION FairSpec
CONSTANTS
  create = create
  malformed = malformed
  None = None
  r1 = r1
  r2 = r2
  Requests = {create, malformed}
  Rejected = {malformed}
  Responses = {r1, r2}
  MaxRequests = 2
  MaxResponses = 2
CHECK_DEADLOCK FALSE
INVARIANTS
  RelaysInOrder
  OKIsComplete
  ErrorsAreExplained
PROPERTIES
  GoroutinesEnd
  HalfCloseArrives
