SPECIFICATION Spec
CONSTANTS
  Calls = {c1, c2, c3}
  Keys = {k1, k2}
  None = None
  Policy = Policy
  ChunkLen = 2
  Capacity = 1
  SetBufSize = 2
  Prompt = FALSE
  IOFaults = TRUE
  c1 = c1
  c2 = c2
  c3 = c3
  k1 = k1
  k2 = k2
SYMMETRY Symmetry
CHECK_DEADLOCK FALSE
INVARIANT TypeOK
INVARIANT FillExcludesOthers
INVARIANT FillsOpenFile
INVARIANT DroppedOnce
INVARIANT StoreHoldsOpenItems
INVARIANT FdCntCoversOpenFiles
