CONSTANTS
  Procs = {p1, p2}
  Config <- TwoShards
  MaxKey = 3
  Requests <- MCRequests
  MaxRequests = 2
  Nil = Nil
  Panic = Panic
SPECIFICATION Spec
SYMMETRY HandlerSymmetry
CHECK_DEADLOCK FALSE
INVARIANTS
  KeysAtHome
  DeletesAreComplete
  RangesAreComplete
  
