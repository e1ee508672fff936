CONSTANTS
  w1 = w1
  w2 = w2
  None = None
  Slots = {w1, w2}
  NumRows = 2
  Chunk = 1
  EmbedBatch = 1
  Poison = {2}
  MaxMessages = 1
  MaxAnalyses = 1
  MaxExpiries = 1
  MaxFaults = 1
SPECIFICATION FairSpec
INVARIANTS
  TypeOK
  TicksAloneWithinTTL
  FetchedOnce
PROPERTIES
  LockIsReleased
  BacklogDrains
