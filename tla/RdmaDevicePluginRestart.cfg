SPECIFICATION FairSpec
CONSTANTS
  Devices = {mlx5_0}
  Pods = {p1}
  MaxPortChanges = 0
  MaxFailures = 1
PROPERTY KubeletReconnects
CHECK_DEADLOCK FALSE
