SPECIFICATION Spec
CONSTANTS
  Calls = {c1, c2, c3}
  Keys = {k1}
  None = None
  Policy = Policy
  ChunkLen = 2
  Capacity = 1
  SetBufSize = 3
  Prompt = FALSE
  IOFaults = FALSE
  c1 = c1
  c2 = c2
  c3 = c3
  k1 = k1
SYMMETRY Symmetry
CHECK_DEADLOCK FALSE
INVARIANT Integrity
