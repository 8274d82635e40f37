CONSTANTS
  N = 2
  Leases = {1, 2}
  TTLs = {0, 1}
  MaxKeepAlives = 2
  None = None
  EOF = EOF
  Failure = Failure
SPECIFICATION FairSpec
CHECK_DEADLOCK FALSE
INVARIANTS
  ResponsesAreTheShortest
  NilReturnIsComplete
PROPERTIES
  RequestsAreServed
  StreamEnds
