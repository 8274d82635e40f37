SPECIFICATION FairSpec
CONSTANTS
  NoVal = NoVal
  Procs = {p1, p2}
  Requests <- ScopeRequests
  MaxKey = 4
  Routes <- MCRoutes
  Tokens = {1, 2, 3, 4}
  v1 = v1
  v2 = v2
  EmptyValue = EmptyValue
  Values = {v1, v2, EmptyValue}
  Fingerprint = Fingerprint
  Leases = {}
  CompactRevs = {}
  MaxOps = 4
  MaxRequests = 2
  MaxLost = 0
CONSTRAINT TokensInOrder
CHECK_DEADLOCK FALSE
PROPERTIES
  RevisionsChangeOneShard
  FingerprintUntouched
  ImplementsAtomicKV
  
