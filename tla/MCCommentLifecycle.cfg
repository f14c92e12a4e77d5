SPECIFICATION Spec
CONSTANTS
  c1 = c1
  create = create
  delete1 = delete1
  delete2 = delete2
  approve = approve
  reject = reject
  reply1 = reply1
  reply2 = reply2
  withdraw = withdraw
  NoHandler = NoHandler
  Comments = {c1}
  OpOf <- MCOpOf
  CommentOf <- MCCommentOf
  Handlers = {create, delete1, delete2, approve, reject, reply1, reply2, withdraw}
  Faults = {"check", "txn", "reply", "crash"}
  MaxFaults = 1
INVARIANTS
  CountOnlyDriftsByContest
  OneVerdict
  OneReply
CHECK_DEADLOCK FALSE
SYMMETRY RequestSymmetry
