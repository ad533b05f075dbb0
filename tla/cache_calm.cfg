SPECIFICATION FairSpec
CONSTANTS
  Calls = {c1, c2, c3}
  Keys = {k1, k2}
  None = None
  Policy = Policy
  ChunkLen = 2
  Capacity = 2
  SetBufSize = 2
  Prompt = TRUE
  IOFaults = FALSE
  c1 = c1
  c2 = c2
  c3 = c3
  k1 = k1
  k2 = k2
INVARIANT Integrity
PROPERTY ImplementsChunkCache
PROPERTY EveryCallReturns
