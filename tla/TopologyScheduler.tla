-------------------------- MODULE TopologyScheduler --------------------------
(***************************************************************************)
(* The network topology plugin of week3 (3.3, pkg/plugin/topology.go and   *)
(* pkg/numa/numa.go) in a kube-scheduler: Filter and Score look a node up  *)
(* in tables that are built when the process starts, while the nodes of    *)
(* the cluster come and go.                                                *)
(*                                                                         *)
(* The types of the three packages do not fit together as they stand; the  *)
(* model takes the code at its word.  kube-scheduler, the kubelet, which   *)
(* aligns CPUs with devices where it can, and the cluster are external.    *)
(***************************************************************************)
EXTENDS RackTopology, Functions

CONSTANTS
  Pods,        \* each asks for what the plugin's stubs say
  Hardware,    \* for each node there may be, its NUMA nodes and its devices
  numaMap,     \* the plugin's NUMA table
  topologyMap, \* the plugin's rack table
  MaxChanges   \* bound: nodes that join or leave, pods that end, crashes

\* NodeNUMAInfo: how many CPUs each NUMA node has, and the NUMA node of a device.
IsNUMAInfo(info) ==
  /\ \A k \in DOMAIN info.CPUs : k \in Nat /\ info.CPUs[k] \in Nat
  /\ \A d \in DOMAIN info.DeviceNUMAMap : info.DeviceNUMAMap[d] \in DOMAIN info.CPUs

\* The NUMA table that the plugin is built with.
MockGetNUMAMap ==
  [n \in {"node-1", "node-2"} |->
     IF n = "node-1"
     THEN [CPUs          |-> [k \in {0, 1} |-> 8],
           DeviceNUMAMap |-> [d \in {"mlx5_0", "mlx5_1"} |-> IF d = "mlx5_0" THEN 0 ELSE 1]]
     ELSE [CPUs          |-> [k \in {0} |-> 16],
           DeviceNUMAMap |-> [d \in {"mlx5_0"} |-> 0]]]

ASSUME TablesAssumption ==
  /\ MaxChanges \in Nat
  /\ "" \notin DOMAIN Hardware
  /\ \A n \in DOMAIN Hardware : IsNUMAInfo(Hardware[n])
  /\ DOMAIN numaMap \subseteq DOMAIN Hardware
  /\ \A n \in DOMAIN numaMap : numaMap[n] = Hardware[n]
  /\ \A n \in DOMAIN topologyMap : topologyMap[n].NodeName = n

VARIABLES
  cluster,   \* the nodes there are
  process,   \* the scheduler's process
  pod,       \* for each pod where it is in its life
  place,     \* the node it is bound to
  grant,     \* what the kubelet gave it: CPUs of each NUMA node, and a device
  changes

vars == <<cluster, process, pod, place, grant, changes>>

Nodes   == DOMAIN Hardware
NoGrant == [cpus |-> <<>>, device |-> ""]

Change == changes < MaxChanges /\ changes' = changes + 1

Init ==
  /\ cluster = {} /\ process = "down"
  /\ pod = [p \in Pods |-> "pending"] /\ place = [p \in Pods |-> ""]
  /\ grant = [p \in Pods |-> NoGrant]
  /\ changes = 0

----------------------------------------------------------------------------
(* The plugin.                                                              *)

\* What every pod is taken to ask for.
getCPURequest  == 8
getRDMARequest == 1

\* The NUMA node that the table gives for the device mlx5_0; NUMA node 0, Go's
\* zero value, where it has none.
RdmaNUMA(n) == LET at == numaMap[n].DeviceNUMAMap
               IN  IF "mlx5_0" \in DOMAIN at THEN at["mlx5_0"] ELSE 0

\* Mutant: the CPUs of all NUMA nodes count together.
CheckNUMAAffinityAnywhere(n) ==
  SumFunctionOnSet(numaMap[n].CPUs, DOMAIN numaMap[n].CPUs) >= getCPURequest

\* Mutant: an exact fit does not count.
CheckNUMAAffinityStrict(n) ==
  /\ RdmaNUMA(n) \in DOMAIN numaMap[n].CPUs
  /\ numaMap[n].CPUs[RdmaNUMA(n)] > getCPURequest

\* That NUMA node must have the CPUs asked for, whether they are in use or not.
CheckNUMAAffinity(n) ==
  \/ getRDMARequest = 0
  \/ /\ RdmaNUMA(n) \in DOMAIN numaMap[n].CPUs
     /\ numaMap[n].CPUs[RdmaNUMA(n)] >= getCPURequest

\* The topology of a node without an entry is nil, and looking into it panics.
CheckPanics(n) == getRDMARequest # 0 /\ n \notin DOMAIN numaMap

\* A stub: no pod needs several nodes, so that the check of the racks never runs.
needsMultiNode == FALSE
requiredNodes  == 3

\* The rack of the node must be large enough: the table counts, and not which of its
\* nodes are there.
checkRackAvailability(n) ==
  Cardinality(NodesOfRack(topologyMap[n].RackID, topologyMap)) >= requiredNodes

Filter(n) ==
  /\ CheckNUMAAffinity(n)
  /\ needsMultiNode => checkRackAvailability(n)

MaxScore == 100

\* Both parts give every node the full score.
calculateNUMAScore == MaxScore
calculateRackScore == MaxScore

\* Mutant: the weights add up to more than a hundred.
ScoreOverweight == (calculateNUMAScore * 60) \div 100 + (calculateRackScore * 50) \div 100

Score == (calculateNUMAScore * 60) \div 100 + (calculateRackScore * 40) \div 100

----------------------------------------------------------------------------
(* The cluster.                                                             *)

OnNode(n) == {p \in Pods : place[p] = n}

Join(n) ==
  /\ n \notin cluster /\ Change
  /\ cluster' = cluster \union {n}
  /\ UNCHANGED <<process, pod, place, grant>>

\* Pods that end, or whose node goes away, are made anew by their owner.
Renewed(P) ==
  /\ pod' = [p \in Pods |-> IF p \in P THEN "pending" ELSE pod[p]]
  /\ place' = [p \in Pods |-> IF p \in P THEN "" ELSE place[p]]
  /\ grant' = [p \in Pods |-> IF p \in P THEN NoGrant ELSE grant[p]]

Leave(n) ==
  /\ n \in cluster /\ Change
  /\ cluster' = cluster \ {n}
  /\ Renewed(OnNode(n))
  /\ UNCHANGED process

PodEnds(p) ==
  /\ pod[p] = "running" /\ Change
  /\ Renewed({p})
  /\ UNCHANGED <<cluster, process>>

----------------------------------------------------------------------------
(* The scheduler.                                                           *)

\* NodeResourcesFit: CPUs and devices of the node, not of its NUMA nodes.
Fits(n) ==
  LET pods == Cardinality(OnNode(n)) + 1 IN
  /\ pods * getCPURequest <= SumFunctionOnSet(Hardware[n].CPUs, DOMAIN Hardware[n].CPUs)
  /\ pods * getRDMARequest <= Cardinality(DOMAIN Hardware[n].DeviceNUMAMap)

\* The nodes that reach the plugin's Filter.
Candidates == {n \in cluster : Fits(n)}

StartProcess ==
  /\ process = "down"
  /\ process' = "running"
  /\ UNCHANGED <<cluster, pod, place, grant, changes>>

Crash ==
  /\ process = "running" /\ Change
  /\ process' = "down"
  /\ UNCHANGED <<cluster, pod, place, grant>>

\* A panic in one Filter ends the process before any pod is bound.
FilterPanics(p) ==
  /\ process = "running" /\ pod[p] = "pending"
  /\ \E n \in Candidates : CheckPanics(n)
  /\ process' = "down"
  /\ UNCHANGED <<cluster, pod, place, grant, changes>>

\* All nodes that pass have one score, so that any of them may be chosen.
Schedule(p) ==
  /\ process = "running" /\ pod[p] = "pending"
  /\ \A n \in Candidates : ~CheckPanics(n)
  /\ \E n \in Candidates :
       /\ Filter(n)
       /\ pod' = [pod EXCEPT ![p] = "bound"]
       /\ place' = [place EXCEPT ![p] = n]
  /\ UNCHANGED <<cluster, process, grant, changes>>

\* The kubelet gives a pod CPUs and a device of one NUMA node if some NUMA node has
\* both, and else whatever is there.
FreeCPUs(n) ==
  [k \in DOMAIN Hardware[n].CPUs |->
     LET taken == [p \in OnNode(n) |-> IF grant[p] = NoGrant THEN 0 ELSE grant[p].cpus[k]]
     IN  Hardware[n].CPUs[k] - SumFunctionOnSet(taken, OnNode(n))]
FreeDevices(n) == DOMAIN Hardware[n].DeviceNUMAMap \ {grant[p].device : p \in OnNode(n)}

\* Eight CPUs, however they are spread, and a device.
Grants(n) ==
  [cpus : {c \in [DOMAIN Hardware[n].CPUs -> 0..getCPURequest] :
             /\ SumFunctionOnSet(c, DOMAIN c) = getCPURequest
             /\ \A k \in DOMAIN c : c[k] <= FreeCPUs(n)[k]},
   device : FreeDevices(n)]

\* All of them from the NUMA node of the device.
AlignedGrants(n) ==
  LET at      == Hardware[n].DeviceNUMAMap
      near(d) == [k \in DOMAIN Hardware[n].CPUs |-> IF k = at[d] THEN getCPURequest ELSE 0]
  IN  {[cpus |-> near(d), device |-> d] :
         d \in {e \in FreeDevices(n) : FreeCPUs(n)[at[e]] >= getCPURequest}}

Admit(p) ==
  LET n == place[p] IN
  /\ pod[p] = "bound"
  /\ \E g \in IF AlignedGrants(n) # {} THEN AlignedGrants(n) ELSE Grants(n) :
       grant' = [grant EXCEPT ![p] = g]
  /\ pod' = [pod EXCEPT ![p] = "running"]
  /\ UNCHANGED <<cluster, process, place, changes>>

----------------------------------------------------------------------------
Next ==
  \/ \E n \in Nodes : Join(n) \/ Leave(n)
  \/ \E p \in Pods : FilterPanics(p) \/ Schedule(p) \/ Admit(p) \/ PodEnds(p)
  \/ StartProcess \/ Crash

Spec == Init /\ [][Next]_vars

\* The Deployment restarts the process, the scheduler tries pending pods again and
\* again, and kubelets run.  Nodes need not join, and pods need not end.
FairSpec ==
  /\ Spec
  /\ WF_vars(StartProcess)
  /\ \A p \in Pods : WF_vars(Schedule(p)) /\ WF_vars(Admit(p))

----------------------------------------------------------------------------
(* Properties.                                                              *)

TypeOK ==
  /\ cluster \subseteq Nodes
  /\ process \in {"down", "running"}
  /\ pod \in [Pods -> {"pending", "bound", "running"}]
  /\ place \in [Pods -> Nodes \union {""}] /\ DOMAIN grant = Pods
  /\ \A p \in Pods : IF pod[p] = "pending" THEN place[p] = "" ELSE place[p] \in cluster
  /\ \A p \in Pods :
       IF pod[p] = "running"
       THEN grant[p].device \in DOMAIN Hardware[place[p]].DeviceNUMAMap
       ELSE grant[p] = NoGrant
  /\ changes \in 0..MaxChanges
  /\ Score \in 0..MaxScore

\* Filter looks at one device and counts CPUs that other pods may be using.  On the
\* hardware of the plugin's tables that is enough: every pod that runs has its CPUs
\* and its device on one NUMA node, whichever pods came and went before it.
PodsAreAligned ==
  \A p \in Pods : pod[p] = "running" =>
    grant[p].cpus[Hardware[place[p]].DeviceNUMAMap[grant[p].device]] = getCPURequest

\* The restriction of the rack table to the nodes there are.
Present == [n \in cluster \intersect DOMAIN topologyMap |-> topologyMap[n]]

\* The ways in which the rack package says how far two nodes are apart (the count of
\* hops, the rack distance, the members of a rack, the hops that the table lists and
\* the list of racks) agree with each other, whichever nodes are there, and an
\* average of at most one hop over nodes that are present means the same rack.
DistancesAgree ==
  \A n, m \in DOMAIN Present :
    LET a == Present[n]  b == Present[m]  hops == CalculateHopCount(a, b)
        average == CalculateAverageHopCount(a, <<m, n, m>>, Present)
    IN  /\ hops = a.HopCountToOther[m] /\ hops = CalculateHopCount(b, a)
        /\ hops <= 1 <=> CalculateRackDistance(a, b) = 0
        /\ hops <= 1 <=> m \in FindNodesInSameRack(n, Present)
        /\ hops <= 1 <=> \E r \in DOMAIN MockGetRackTopology :
                           {n, m} \subseteq MockGetRackTopology[r]
        /\ hops <= 1 <=> average.hops <= average.over

\* A crash loses no pod: one for which there is a node with room that passes the
\* filter does not wait for ever, unless a node with room is missing from the NUMA
\* table, in which case the scheduler dies again and again.
PodsProceed ==
  \A p \in Pods :
    <>[](/\ \A n \in Candidates : ~CheckPanics(n)
         /\ \E n \in Candidates : Hardware[n].CPUs[Hardware[n].DeviceNUMAMap["mlx5_0"]]
                                    >= getCPURequest)
      => <>(pod[p] # "pending")
=============================================================================
