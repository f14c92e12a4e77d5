SPECIFICATION FilterSpec
CONSTANTS
  i1 = i1
  i2 = i2
  h1 = h1
  Instances = {i1, i2}
  Readers = {h1}
  NumPosts = 3
  BatchSize = 1
  MaxStarts = 3
INVARIANTS
  FilterComplete
  TurnedAwayOnlyByRace
