SPECIFICATION FairSpec
CONSTANTS
  Devices = {mlx5_0, mlx5_1}
  Pods = {p1, p2}
  MaxPortChanges = 2
  MaxFailures = 2
INVARIANTS TypeOK ReportIsCurrent NodesAreExclusive
PROPERTIES ImplementsLeases FailureReachesKubelet PluginComesBack
CHECK_DEADLOCK FALSE
