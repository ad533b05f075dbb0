SPECIFICATION FairSpec
CONSTANTS
  Requests = {q1, q2}
  FromPeer = {q2}
  Workers = {w1}
  PrefetchCap = 1
  BlobsCap = 1
  FileSize = 3
  Scenarios <- StatFails
  None = None
  q1 = q1
  q2 = q2
  w1 = w1
CHECK_DEADLOCK FALSE
PROPERTY PrefetchTerminates
