---------------------------- MODULE GpuPlugins ----------------------------
(***************************************************************************)
(* What the two plugins of the GPU-aware scheduler of week1 (1.2, pkg/     *)
(* plugins) say of a pod and a node: DeviceUUIDMatcher, which looks at the *)
(* devices a pod names, and GPUUtilizationBalancer, which prefers idle     *)
(* nodes.  Both are functions of the tables of pkg/gpuinfo.                *)
(***************************************************************************)
EXTENDS Integers, SequencesExt

CONSTANTS
  Pods,
  UUIDs,        \* of devices, those that pods name and gpuinfo does not know included
  TargetUUID,   \* for each pod the annotation that names one device, or ""
  TargetUUIDs,  \* and the one that names several, in order, without empty pieces
  NodeOfUUID,   \* gpuinfo's table: for each device known, its node
  Utilization,  \* gpuinfo's table: for each node known, tenths of a percent
  OthersAtMost  \* what kube-scheduler's own score plugins add at most, with their weights

ASSUME TablesAssumption ==
  /\ "" \notin UUIDs
  /\ TargetUUID \in [Pods -> UUIDs \union {""}]
  /\ TargetUUIDs \in [Pods -> Seq(UUIDs)]
  /\ DOMAIN NodeOfUUID \subseteq UUIDs
  /\ \A n \in DOMAIN Utilization : Utilization[n] \in 0..1000
  /\ OthersAtMost \in Nat

\* A node or a device that is not in its table gets Go's zero value.
NodeByDeviceUUID(u)   == IF u \in DOMAIN NodeOfUUID THEN NodeOfUUID[u] ELSE ""
NodeGPUUtilization(n) == IF n \in DOMAIN Utilization THEN Utilization[n] ELSE 0

\* getPodTargetUUIDs: both annotations count, the single one first.
Targets(p) ==
  IF TargetUUID[p] = "" THEN TargetUUIDs[p] ELSE <<TargetUUID[p]>> \o TargetUUIDs[p]

\* Mutant: the first device that is on another node settles it.
FilterFirstOnly(p, n) ==
  Targets(p) = <<>> \/ NodeByDeviceUUID(Targets(p)[1]) = n

\* DeviceUUIDMatcher.Filter looks at the devices in order.  The first one on the
\* node lets it pass, the first one that is unknown rejects it.
Filter(p, n) ==
  \/ Targets(p) = <<>>
  \/ \E i \in 1..Len(Targets(p)) :
       /\ NodeByDeviceUUID(Targets(p)[i]) = n
       /\ \A j \in 1..i : NodeByDeviceUUID(Targets(p)[j]) # ""

\* GPUUtilizationBalancer.Filter rejects a node without enough memory.  Its health
\* check always says yes, no pod asks for memory, and every node has the same.
PodGPUMemoryRequest(p) == 0
AvailableGPUMemory(n) == 65536
UtilizationFilter(p, n) == PodGPUMemoryRequest(p) <= AvailableGPUMemory(n)

\* DeviceUUIDMatcher.Score
DeviceScore(p, n) ==
  CASE Targets(p) = <<>>                                      -> 50
    [] \E u \in ToSet(Targets(p)) : NodeByDeviceUUID(u) = n   -> 100
    [] OTHER                                                  -> 0

\* GPUUtilizationBalancer.Score: int64(100 - utilization)
UtilizationScore(n) == (1000 - NodeGPUUtilization(n)) \div 10

\* Mutant: the score is the utilization.
TotalUninverted(p, n) == 100 * DeviceScore(p, n) + 50 * (100 - UtilizationScore(n))

\* The weights of the scheduler's configuration.  The score plugins of kube-scheduler
\* itself add to this between 0 and OthersAtMost: the four that the configuration
\* lists, and those that are on by default, as it disables none.
Total(p, n) == 100 * DeviceScore(p, n) + 50 * UtilizationScore(n)
=============================================================================
