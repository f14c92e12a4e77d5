SPECIFICATION FairSpec
CONSTANTS
  h1 = h1
  h2 = h2
  Requests = {h1, h2}
INVARIANTS
  CacheTypeOK
  ObjectStaleOnlyByRace
  ListStaleOnlyByRace
  NullOnlyWhenGone
PROPERTIES
  CachesConverge
CHECK_DEADLOCK FALSE
