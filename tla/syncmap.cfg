SPECIFICATION MapSpec
CONSTANTS
  Keys = {k1, k2, k3, k4}
  Values = {v1, v2}
  None = None
  maxEntries = 3
  evictionPercentage = 5
  k1 = k1
  k2 = k2
  k3 = k3
  k4 = k4
  v1 = v1
  v2 = v2
SYMMETRY Symmetry
INVARIANT WithinCapacity
INVARIANT NeverStale
PROPERTY EvictsOnlyWhenFull
