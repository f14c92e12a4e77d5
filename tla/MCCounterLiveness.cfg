SPECIFICATION FairSpec
CONSTANTS
  p1 = p1
  r1 = r1
  r2 = r2
  Posts = {p1}
  NoPost = NoPost
  Rows = {r1, r2}
  PostOf <- MCPostOf
  Workers = {w1}
  SyncFallback = FALSE
  ReconcileOn = TRUE
  Faults = {"insert", "txn", "reply", "redis"}
  MaxFaults = 2
  MaxWrites = 2
  MaxBatches = 2
PROPERTIES
  PendingIsClaimed
  
CHECK_DEADLOCK FALSE
