SPECIFICATION Spec
CONSTANTS
  p1 = p1
  r1 = r1
  r2 = r2
  Posts = {p1}
  NoPost = NoPost
  Rows = {r1, r2}
  PostOf <- MCPostOf
  Workers = {w1}
  SyncFallback = TRUE
  ReconcileOn = FALSE
  Faults = {"redis", "timeout", "outbox", "resend", "insert", "txn", "mark", "clear", "crash"}
  MaxFaults = 2
  MaxWrites = 4
  MaxBatches = 3
INVARIANTS
  BookedExactlyOnce
  RetiredOnlyWhenBooked
  ProcessingSumExact
  RedisConserves
  StampedIffPending
  OffByShortfallOnly
PROPERTY
  ImplementsLedger
CHECK_DEADLOCK FALSE
SYMMETRY RowSymmetry
