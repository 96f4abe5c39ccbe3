--------------------------- MODULE GpuClusterMC ---------------------------
(* GpuCluster with two nodes, three GPUs and three pods for TLC: a pod that  *)
(* names no device, one that names two devices on different nodes, and one   *)
(* that wants two GPUs.                                                      *)
EXTENDS GpuCluster, TLC

CONSTANTS n1, n2, g1, g2, g3, any, named, wide

MCUUIDs        == {"u1", "u2", "u3", "gone"}
OnU3           == any :> "" @@ named :> "u3" @@ wide :> ""
MCTargetUUIDs  == any :> <<>> @@ named :> <<"u1">> @@ wide :> <<>>
MCNodeOfUUID   == "u1" :> n1 @@ "u2" :> n1 @@ "u3" :> n2
MCUtilization  == n1 :> 255 @@ n2 :> 783
MCNodeOfGpu    == g1 :> n1 @@ g2 :> n1 @@ g3 :> n2
MCGPUIndex     == g1 :> 0 @@ g2 :> 1 @@ g3 :> 0
MCUuidOfGpu    == g1 :> "u1" @@ g2 :> "u2" @@ g3 :> "u3"
MCWants        == any :> 1 @@ named :> 1 @@ wide :> 2
=============================================================================
