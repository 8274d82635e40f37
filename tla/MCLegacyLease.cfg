CONSTANTS
  Procs = {p1, p2}
  Replicas = {r1}
  Host <- MCHost
  N = 2
  IDs = {0, 1, 2, 3, 4, 5}
  MaxTTL = 1
  Era = 3
  PerMilli = 2
  MaxTime = 1
  Requests <- MCRequests
  MaxRequests = 3
  MaxEvents = 1
  Nil = Nil
SPECIFICATION Spec
SYMMETRY HandlerSymmetry
CHECK_DEADLOCK FALSE
INVARIANTS
  NextIsUnique
  LeaseOpsReachEveryShard
  TTLIsTheShortest
  TTLListsAllKeys
