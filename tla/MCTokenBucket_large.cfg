SPECIFICATION FairSpec

CONSTANTS
  p1 = p1
  p2 = p2
  b1 = b1
  b2 = b2
  None = None
  Pumps <- OnePump
  Buckets <- TwoBuckets
  Speeds = {0, 1, 5}
  ChunkSizes = {1, 6}
  MinRate = 2
  MinBurst = 4
  Slack = 1
  MaxPause = 2
  Chunks = 2
  WindowMax = 0


PROPERTY
  ChunkPasses
