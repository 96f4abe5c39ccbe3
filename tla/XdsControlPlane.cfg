SPECIFICATION FairSpec
CONSTANTS
  Nodes = {envoy1, envoy2}
  Snapshots = {s1, s2}
  Callers = {c1, c2}
  Types = {clusters}
  TcpResolves = TRUE
  MaxLives = 2
  MaxStarts = 2
  MaxPushes = 3
  MaxFaults = 2
INVARIANTS TypeOK VersionNamesSnapshot OpenRequestsAreCurrent
PROPERTIES VersionsNeverGoBack EnvoysCatchUp
CHECK_DEADLOCK FALSE
