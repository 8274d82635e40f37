SPECIFICATION StartupSpec
CONSTANTS
  Replicas = {r1, r2}
  Configs <- MCConfigs
  MaxKey = 4
  MaxLate = 2
  Nil = Nil
INVARIANTS
  AgreedRouting
  TLSIsHonoured
  ValidatedBoundariesAreAccepted
  KeysHaveOneOwner
  MutationsStayInOneShard
  RangesReachTheirOwners

  
