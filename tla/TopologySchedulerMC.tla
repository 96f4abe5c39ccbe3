------------------------ MODULE TopologySchedulerMC ------------------------
(* TopologyScheduler with the tables of the code for TLC, a node whose NUMA  *)
(* nodes are uneven, and two that the NUMA table does not know.              *)
EXTENDS TopologyScheduler, TLC

Single == [CPUs |-> (0 :> 16), DeviceNUMAMap |-> ("mlx5_0" :> 0)]
Uneven == [CPUs |-> (0 :> 4 @@ 1 :> 12), DeviceNUMAMap |-> ("mlx5_0" :> 0)]

MCNumaMap  == MockGetNUMAMap @@ ("node-4" :> Uneven)
MCHardware == MCNumaMap @@ ("node-3" :> Single @@ "node-5" :> Single)
=============================================================================
