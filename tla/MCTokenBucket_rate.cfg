SPECIFICATION FairSpec
CONSTANTS
  p1 = p1
  p2 = p2
  b1 = b1
  b2 = b2
  None = None
  Pumps <- TwoPumps
  Buckets <- TwoBuckets
  Speeds = {0, 1, 3, 5}
  ChunkSizes = {1, 4}
  MinRate = 2
  MinBurst = 4
  Slack = 1
  MaxPause = 2
  Chunks = 2
  WindowMax = 1
INVARIANTS
  TypeOK
  WindowBound
PROPERTY
  OldRateOnlyDrains
  ChunkPasses
