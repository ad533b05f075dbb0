SPECIFICATION FairSpec
CONSTANTS
  Reads = {r1, r2}
  Peers = {p1, p2}
  Scenarios <- SmallScenarios
  Count = 3
  BufLen = 2
  Self = Self
  Odd = {odd}
  None = None
  Origin = Origin
  Zero = Zero
  r1 = r1
  r2 = r2
  p1 = p1
  p2 = p2
  odd = odd
INVARIANT OneSource
INVARIANT SenderNeverBlocks
INVARIANT ActiveOnce
INVARIANT AsksEachPeerOnce
PROPERTY EveryReadReturns
