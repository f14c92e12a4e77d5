SPECIFICATION Spec
CONSTANTS
  h1 = h1
  h2 = h2
  Handlers = {h1, h2}
  MaxUpdates = 1
  MaxWrites = 1
  OldCount = 0
INVARIANTS
  TypeOK
  CoreStaleOnlyByRace
  StatsStaleOnlyByRace
  CountShownWasTrue
CHECK_DEADLOCK FALSE
SYMMETRY RequestSymmetry
