SPECIFICATION WatchFairSpec
CONSTANTS
  NoVal = NoVal
  Procs = {p1}
  Requests <- WatchRequests
  MaxKey = 4
  Routes <- MCRoutes
  Tokens = {1, 2}
  v1 = v1
  v2 = v2
  EmptyValue = EmptyValue
  Values = {v1, v2, EmptyValue}
  Fingerprint = Fingerprint
  Leases = {}
  CompactRevs = {}
  MaxOps = 1
  MaxRequests = 2
  MaxLost = 1
  Creates <- MCCreates
  MaxCreates = 1
  MaxWatchResponses = 10
CONSTRAINTS
  TokensInOrder
  StreamLives
CHECK_DEADLOCK FALSE
INVARIANTS
  WatchIsExact
  WatchDataLossIsReal
PROPERTIES
  WatchCatchesUp
