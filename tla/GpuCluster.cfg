SPECIFICATION FairSpec
CONSTANTS
  n1 = n1
  n2 = n2
  g1 = g1
  g2 = g2
  g3 = g3
  any = any
  named = named
  wide = wide
  Nodes = {n1, n2}
  Pods = {any, named, wide}
  Gpus = {g1, g2, g3}
  UUIDs <- MCUUIDs
  TargetUUID <- OnU3
  TargetUUIDs <- MCTargetUUIDs
  NodeOfUUID <- MCNodeOfUUID
  Utilization <- MCUtilization
  OthersAtMost = 1200
  NodeOfGpu <- MCNodeOfGpu
  GPUIndex <- MCGPUIndex
  UuidOfGpu <- MCUuidOfGpu
  Wants <- MCWants
  MaxFailures = 2
INVARIANTS TypeOK MapNotShared ContainersMatchCharges
PROPERTIES ImplementsLeases ClearlyLessLoadedWins PodsProceed
CHECK_DEADLOCK FALSE
