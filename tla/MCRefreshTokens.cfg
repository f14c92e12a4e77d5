SPECIFICATION Spec
CONSTANTS
  reg1 = reg1
  reg2 = reg2
  login = login
  ref1 = ref1
  ref2 = ref2
  ref3 = ref3
  out1 = out1
  out2 = out2
  NoHandler = NoHandler
  Handlers = {reg1, reg2, login, ref1, ref2, ref3, out1, out2}
  OpOf <- MCOpOf
  Faults = {"db", "reply"}
  MaxFaults = 1
INVARIANTS
  OneLiveTokenPerSession
  LoggedOutStaysOut
CHECK_DEADLOCK FALSE
SYMMETRY RequestSymmetry
