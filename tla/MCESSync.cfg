SPECIFICATION FairSpec
CONSTANTS
  i1 = i1
  i2 = i2
  Instances = {i1, i2}
  NumEvents = 3
  VersionOf <- MCVersionOf
  Factor = 10
  Poison = {2}
  MaxAttempts = 2
  Faults = {"get", "index", "reply", "db", "ddl", "crash", "rebalance"}
  MaxFaults = 3
INVARIANTS
  NothingForgotten
PROPERTIES
  NeverOlder
  EventuallySettled
CHECK_DEADLOCK FALSE
