SPECIFICATION Spec
CONSTANTS
  Nodes = {envoy1}
  Snapshots = {s1, s2}
  Callers = {c1}
  Types = {"clusters", "routes"}
  TcpResolves = TRUE
  MaxLives = 1
  MaxStarts = 1
  MaxPushes = 2
  MaxFaults = 0
INVARIANT ReferrersNotAhead
CHECK_DEADLOCK FALSE
