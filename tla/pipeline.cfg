SPECIFICATION PFairSpec
CONSTANTS
  Threads = {p1, p2, c1, c2}
  Preparers = {p1, p2}
  Processors = {c1, c2}
  Values = {v1, v2, v3}
  NoThread = NoThread
  NoValue = NoValue
  MaxCalls = 4
  MaxSpurious = 1
INVARIANTS
  ChunkInOnePlace
  ProcessedInOrder
PROPERTIES
  ChunkProcessed
CHECK_DEADLOCK FALSE
