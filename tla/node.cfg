SPECIFICATION FairSpec
CONSTANTS
  Self = Self
  Others = {n1}
  Unknown = Unknown
  Callers = {c1}
  MaxReports = 2
  Scenarios <- SmallScenarios
  n1 = n1
  c1 = c1
INVARIANT LeaderWaits
INVARIANT IdIsLatest
INVARIANT EndsWithMetrics
PROPERTY DisconnectedInGap
PROPERTY LeaderReturns
PROPERTY FollowsLease
PROPERTY ServersStop
PROPERTY LeavesCluster
