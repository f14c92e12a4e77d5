SPECIFICATION Spec
CONSTANTS
  l1 = l1
  l2 = l2
  u1 = u1
  u2 = u2
  Handlers = {l1, l2, u1, u2}
  OpOf <- MCOpOf
  NoHandler = NoHandler
  MaxAttempts = 2
  Faults = {"lock", "expiry", "get", "set", "busy", "reply", "crash"}
  MaxFaults = 3
INVARIANTS
  TypeOK
  DeltasMatchRow
  CacheFollowsRow
  OkMeansMet
PROPERTIES
  OnlyExpiryTakesTheLock
CHECK_DEADLOCK FALSE
SYMMETRY OpSymmetry
