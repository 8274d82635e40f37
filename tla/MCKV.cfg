SPECIFICATION Spec
CONSTANTS
  NoVal = NoVal
  Procs = {p1, p2}
  Requests <- KVRequests
  MaxKey = 4
  Routes <- MCRoutes
  Tokens = {1, 2, 3, 4}
  v1 = v1
  v2 = v2
  EmptyValue = EmptyValue
  Values = {v1, v2, EmptyValue}
  Fingerprint = Fingerprint
  Leases = {1}
  CompactRevs = {}
  MaxOps = 4
  MaxRequests = 3
  MaxLost = 0
CONSTRAINT TokensInOrder
SYMMETRY HandlerSymmetry
CHECK_DEADLOCK FALSE
INVARIANTS
  LeaseTimeToLiveIsExact
  ReferencesResolve
PROPERTIES
  ImplementsAtomicKV
