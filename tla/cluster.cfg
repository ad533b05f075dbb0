SPECIFICATION FairSpec
CONSTANTS
  Nodes = {n1, n2}
  Clients = {c1, c2}
  None = None
  Urls = {u1, x1, x2}
  Opaque = {x1, x2}
  FileSize = 2
  Scenarios <- SmallScenarios
  c1 = c1
  c2 = c2
  n1 = n1
  n2 = n2
  u1 = u1
  x1 = x1
  x2 = x2
CHECK_DEADLOCK FALSE
INVARIANT ServedIsContent
INVARIANT PeerAnsweredFromCache
PROPERTY EveryClientServed
