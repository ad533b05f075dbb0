SPECIFICATION Spec
CONSTANTS
  Calls = {c1, c2}
  Keys = {k1, k2}
  None = None
  Policy = Policy
  ChunkLen = 2
  Capacity = 1
  SetBufSize = 1
  Prompt = TRUE
  IOFaults = FALSE
  c1 = c1
  c2 = c2
  k1 = k1
  k2 = k2
SYMMETRY Symmetry
CHECK_DEADLOCK FALSE
INVARIANT NoPanic
