SPECIFICATION Spec
CONSTANTS
  NoVal = NoVal
  Procs = {p1, p2}
  Requests <- HistoryRequests
  MaxKey = 4
  Routes <- MCRoutes
  Tokens = {1, 2, 3}
  v1 = v1
  v2 = v2
  EmptyValue = EmptyValue
  Values = {v1, v2, EmptyValue}
  Fingerprint = Fingerprint
  Leases = {}
  CompactRevs = {4}
  MaxOps = 4
  MaxRequests = 3
  MaxLost = 1
CONSTRAINTS TokensInOrder LostOrCompacted
SYMMETRY HandlerSymmetry
CHECK_DEADLOCK FALSE
INVARIANTS
  DataLossIsReal
PROPERTIES
  PastIsImmutable
  ImplementsAtomicKV
