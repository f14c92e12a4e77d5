SPECIFICATION Spec
CONSTANTS
  p1 = p1
  c1 = c1
  c2 = c2
  user = user
  address = address
  Machines = {p1}
  Processes = {p1}
  Students = {c1, c2}
  Callers = {c1, c2}
  Buckets = {user, address}
  BucketsOf <- MCBucketsOf
  Capacity <- MCCapacity
  Interval <- MCInterval
  MaxSkew = 1
  MaxDelay = 1
  MaxSequence = 1
  MaxTime = 10
INVARIANTS
  AdmittedWithinRate
  LacksOnlyWhatWasAdmitted
  RetryAfterSuffices
  NoIdTwice
CHECK_DEADLOCK FALSE
