SPECIFICATION Spec
CONSTANTS
  h1 = h1
  h2 = h2
  Handlers = {h1, h2}
  MaxUpdates = 0
  MaxWrites = 1
  OldCount = 1
INVARIANT CountIsStoredPlusDeltas
CHECK_DEADLOCK FALSE
SYMMETRY RequestSymmetry
