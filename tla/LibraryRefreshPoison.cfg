CONSTANTS
  w1 = w1
  w2 = w2
  None = None
  Slots = {w1, w2}
  NumRows = 2
  Chunk = 1
  EmbedBatch = 1
  Poison = {1}
  MaxMessages = 2
  MaxAnalyses = 0
  MaxExpiries = 0
  MaxFaults = 0
SPECIFICATION FairSpec
PROPERTIES
  BacklogAlwaysDrains
