SPECIFICATION FairSpec
CONSTANTS
  Pods = {p1, p2, p3}
  Hardware <- MCHardware
  numaMap <- MCNumaMap
  topologyMap <- MockGetTopologyMap
  MaxChanges = 5
INVARIANTS
  TypeOK
  PodsAreAligned
  DistancesAgree
PROPERTIES
  PodsProceed
CHECK_DEADLOCK FALSE
