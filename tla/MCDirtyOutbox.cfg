SPECIFICATION FairSpec
CONSTANTS
  p1 = p1
  p2 = p2
  Publishers = {p1, p2}
  NumRows = 2
  BatchSize = 2
  Faults = {"select", "claim", "kafka", "late", "mark", "slow", "crash"}
  MaxFaults = 3
INVARIANTS
  NoIdleDuplicates

  
  
CHECK_DEADLOCK FALSE
