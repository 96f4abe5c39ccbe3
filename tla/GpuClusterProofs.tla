------------------------- MODULE GpuClusterProofs -------------------------
(***************************************************************************)
(* Theorems about GpuCluster: its type invariant, that the device map of   *)
(* the plugin is never written while it may be read, that containers hold  *)
(* what their pods are charged for, the refinement of DeviceLeases, and    *)
(* what the scheduler's choice of a node comes to.                         *)
(***************************************************************************)
EXTENDS GpuCluster, InductionLemmas, TLAPS

----------------------------------------------------------------------------
(* The inductive invariant.                                                 *)

\* A plugin process that runs knows all devices of its node; there is a stream only
\* to a process that runs, and healthy devices only after the list was sent on it.
PluginInv ==
  \A n \in Nodes :
    /\ process[n] # "down" => devices[n] = Hosted(n)
    /\ stream[n] # "none" => process[n] # "down"
    /\ available[n] \subseteq Hosted(n)
    /\ available[n] # {} => stream[n] = "watching"

\* An Allocate under way is for an admitted pod of the node, names what the pod is
\* charged for, and goes over a stream on which the list was sent.
RequestInv ==
  \A n \in Nodes : request[n] # NoCall =>
    /\ request[n].pod \in Pods
    /\ pod[request[n].pod] = "admitted" /\ place[request[n].pod] = n
    /\ 1 \in DOMAIN request[n].ids
    /\ ToSet(request[n].ids) = charged[request[n].pod]
    /\ stream[n] = "watching"

\* Charges are disjoint, and those of a pod that was admitted are of its node and as
\* many as it wants.
ChargeInv ==
  /\ \A p \in Pods : pod[p] # "pending" => place[p] \in Nodes
  /\ \A p \in Pods : pod[p] \in {"admitted", "running"} =>
       charged[p] \subseteq Hosted(place[p]) /\ Cardinality(charged[p]) = Wants[p]
  /\ \A p, q \in Pods : p # q => charged[p] \intersect charged[q] = {}

\* A container has what Allocate made of the charges of its pod.
ContainerInv ==
  \A p \in Pods : pod[p] = "running" =>
    /\ container[p].files = {GPUIndex[g] : g \in charged[p]}
    /\ container[p].uuid \in {UuidOfGpu[g] : g \in charged[p]}

Inv == TypeOK /\ PluginInv /\ RequestInv /\ ChargeInv /\ ContainerInv

----------------------------------------------------------------------------
(* Facts that several steps use.                                            *)

Calls      == {NoCall} \union [pod : Pods, ids : Seq(Gpus)]
Containers == [files : SUBSET Range(GPUIndex), uuid : Range(UuidOfGpu) \union {""}]

\* The ids of an Allocate are the charged devices, each once, and there is a first one.
LEMMA OrderedDevices ==
  ASSUME NEW D \in SUBSET Gpus, NEW k \in Nat \ {0}, Cardinality(D) = k,
         NEW ids \in SetToSeqs(D)
  PROVE  ids \in Seq(Gpus) /\ ToSet(ids) = D /\ 1 \in DOMAIN ids
<1>1. ids \in [1..k -> D] /\ \A i, j \in 1..k : i # j => ids[i] # ids[j]
  BY DEF SetToSeqs
<1>2. IsFiniteSet(D)
  BY FS_Subset, ClusterAssumption
<1>3. Cardinality(1..k) = k
  BY FS_Interval
<1>4. ids \in Injection(1..k, D)
  BY <1>1 DEF Injection, IsInjective
<1>5. ids \in Surjection(1..k, D)
  BY <1>2, <1>3, <1>4, FS_Injection
<1>6. ToSet(ids) = D
  BY <1>1, <1>5 DEF Surjection, ToSet
<1>7. ids \in Seq(Gpus)
  BY <1>1
<1> QED  BY <1>1, <1>6, <1>7

LEMMA FailuresBounded ==
  ASSUME Inv, Fails
  PROVE  failures' \in 0..MaxFailures
<1>1. failures \in 0..MaxFailures
  BY DEF Inv, TypeOK
<1>2. MaxFailures \in Nat
  BY ClusterAssumption
<1>3. failures < MaxFailures /\ failures' = failures + 1
  BY DEF Fails
<1> QED  BY <1>1, <1>2, <1>3

\* Disconnected drops no more than the pod of the call in progress.
LEMMA DisconnectedKeeps ==
  ASSUME Inv, NEW n \in Nodes, Disconnected(n)
  PROVE  /\ stream' = [stream EXCEPT ![n] = "none"]
         /\ available' = [available EXCEPT ![n] = {}]
         /\ registered' = [registered EXCEPT ![n] = FALSE]
         /\ request' \in [Nodes -> Calls]
         /\ pod' \in [Pods -> {"pending", "bound", "admitted", "running", "ended", "rejected"}]
         /\ charged' \in [Pods -> SUBSET Gpus]
         /\ UNCHANGED <<place, container>>
         /\ RequestInv' /\ ChargeInv' /\ ContainerInv'
<1> DEFINE dropped == {p \in Pods : request[n] # NoCall /\ request[n].pod = p}
<1>1. /\ stream' = [stream EXCEPT ![n] = "none"]
      /\ available' = [available EXCEPT ![n] = {}]
      /\ registered' = [registered EXCEPT ![n] = FALSE]
      /\ request' = [request EXCEPT ![n] = NoCall]
      /\ pod' = [p \in Pods |-> IF p \in dropped THEN "rejected" ELSE pod[p]]
      /\ charged' = [p \in Pods |-> IF p \in dropped THEN {} ELSE charged[p]]
      /\ UNCHANGED <<place, container>>
  BY DEF Disconnected
<1>2. /\ stream \in [Nodes -> {"none", "filling", "sending", "watching"}]
      /\ request \in [Nodes -> Calls]
      /\ pod \in [Pods -> {"pending", "bound", "admitted", "running", "ended", "rejected"}]
      /\ charged \in [Pods -> SUBSET Gpus]
  BY DEF Inv, TypeOK, Calls
<1>3. \A p \in dropped : p \in Pods /\ pod[p] = "admitted" /\ place[p] = n
  BY DEF Inv, RequestInv
<1>4. \A p \in Pods : \/ p \in dropped /\ pod'[p] = "rejected" /\ charged'[p] = {}
                      \/ p \notin dropped /\ pod'[p] = pod[p] /\ charged'[p] = charged[p]
  BY <1>1
<1> HIDE DEF dropped
<1>5. request' \in [Nodes -> Calls]
  BY <1>1, <1>2 DEF Calls
<1>6. pod' \in [Pods -> {"pending", "bound", "admitted", "running", "ended", "rejected"}]
  BY <1>1, <1>2
<1>7. charged' \in [Pods -> SUBSET Gpus]
  BY <1>1, <1>2
<1>8. RequestInv'
  <2> SUFFICES ASSUME NEW m \in Nodes, request'[m] # NoCall
               PROVE  /\ request'[m].pod \in Pods
                      /\ pod'[request'[m].pod] = "admitted" /\ place'[request'[m].pod] = m
                      /\ 1 \in DOMAIN request'[m].ids
                      /\ ToSet(request'[m].ids) = charged'[request'[m].pod]
                      /\ stream'[m] = "watching"
    BY DEF RequestInv
  <2>1. m # n /\ request'[m] = request[m] /\ stream'[m] = stream[m]
    BY <1>1, <1>2
  <2>2. /\ request[m].pod \in Pods
        /\ pod[request[m].pod] = "admitted" /\ place[request[m].pod] = m
        /\ 1 \in DOMAIN request[m].ids
        /\ ToSet(request[m].ids) = charged[request[m].pod]
        /\ stream[m] = "watching"
    BY <2>1 DEF Inv, RequestInv
  <2>3. request[m].pod \notin dropped
    BY <1>3, <2>1, <2>2
  <2> QED  BY <1>1, <1>4, <2>1, <2>2, <2>3
<1>9. ChargeInv'
  <2>1. ASSUME NEW p \in Pods, pod'[p] # "pending"  PROVE place'[p] \in Nodes
    BY <1>1, <1>3, <1>4, <2>1 DEF Inv, ChargeInv
  <2>2. ASSUME NEW p \in Pods, pod'[p] \in {"admitted", "running"}
        PROVE  charged'[p] \subseteq Hosted(place'[p]) /\ Cardinality(charged'[p]) = Wants[p]
    <3>1. pod'[p] = pod[p] /\ charged'[p] = charged[p] /\ place'[p] = place[p]
      BY <1>1, <1>4, <2>2
    <3> QED  BY <2>2, <3>1 DEF Inv, ChargeInv
  <2>3. ASSUME NEW p \in Pods, NEW q \in Pods, p # q
        PROVE  charged'[p] \intersect charged'[q] = {}
    BY <1>4, <2>3 DEF Inv, ChargeInv
  <2> QED  BY <2>1, <2>2, <2>3 DEF ChargeInv
<1>10. ContainerInv'
  <2> SUFFICES ASSUME NEW p \in Pods, pod'[p] = "running"
               PROVE  /\ container'[p].files = {GPUIndex[g] : g \in charged'[p]}
                      /\ container'[p].uuid \in {UuidOfGpu[g] : g \in charged'[p]}
    BY DEF ContainerInv
  <2>1. pod'[p] = pod[p] /\ charged'[p] = charged[p] /\ container'[p] = container[p]
    BY <1>1, <1>4
  <2> QED  BY <2>1 DEF Inv, ContainerInv
<1> QED  BY <1>1, <1>5, <1>6, <1>7, <1>8, <1>9, <1>10

\* The actions that touch neither request, charges, places nor the pods' lives, and
\* that leave a stream alone on which a call may be under way.
LEMMA OtherInvsKept ==
  ASSUME Inv, UNCHANGED <<request, pod, place, charged, container>>,
         \A n \in Nodes : stream[n] = "watching" => stream'[n] = "watching"
  PROVE  RequestInv' /\ ChargeInv' /\ ContainerInv'
<1>1. RequestInv'
  BY DEF Inv, RequestInv
<1>2. ChargeInv'
  BY DEF Inv, ChargeInv
<1>3. ContainerInv'
  BY DEF Inv, ContainerInv
<1> QED  BY <1>1, <1>2, <1>3

\* The scheduler binds a pod that waits.
LEMMA ScheduleStep ==
  ASSUME Inv, NEW p \in Pods, Schedule(p)
  PROVE  Inv'
<1>1. PICK n \in Nodes : /\ pod[p] = "pending"
                         /\ pod' = [pod EXCEPT ![p] = "bound"]
                         /\ place' = [place EXCEPT ![p] = n]
                         /\ UNCHANGED <<plugin, kubelet, charged, container, left, failures>>
  BY DEF Schedule, Feasible
<1>2. TypeOK'
  <2>1. /\ pod' \in [Pods -> {"pending", "bound", "admitted", "running", "ended", "rejected"}]
        /\ place' \in [Pods -> Nodes \union {""}]
    BY <1>1 DEF Inv, TypeOK
  <2> QED  BY <1>1, <2>1 DEF Inv, TypeOK, plugin, kubelet
<1>3. PluginInv'
  BY <1>1 DEF Inv, PluginInv, plugin, kubelet
<1>4. \A q \in Pods : q # p => pod'[q] = pod[q] /\ place'[q] = place[q]
  BY <1>1 DEF Inv, TypeOK
<1>5. pod'[p] = "bound" /\ place'[p] = n /\ UNCHANGED <<request, stream, charged, container>>
  BY <1>1 DEF Inv, TypeOK, plugin, kubelet
<1>6. RequestInv'
  BY <1>1, <1>4, <1>5 DEF Inv, RequestInv
<1>7. ChargeInv'
  BY <1>1, <1>4, <1>5 DEF Inv, ChargeInv
<1>8. ContainerInv'
  BY <1>4, <1>5 DEF Inv, ContainerInv
<1> QED  BY <1>2, <1>3, <1>6, <1>7, <1>8 DEF Inv

\* The kubelet dials the plugin: the new stream has not sent a list yet.
LEMMA ConnectStep ==
  ASSUME Inv, NEW n \in Nodes, Connect(n)
  PROVE  Inv'
<1>1. /\ process[n] # "down" /\ stream[n] = "none"
      /\ registered' = [registered EXCEPT ![n] = FALSE]
      /\ stream' = [stream EXCEPT ![n] = "filling"]
      /\ UNCHANGED <<process, socket, devices, available, request, pods, left, failures>>
  BY DEF Connect, Connected
<1>2. TypeOK'
  BY <1>1 DEF Inv, TypeOK, pods
<1>3. PluginInv'
  BY <1>1 DEF Inv, TypeOK, PluginInv
<1>4. \A m \in Nodes : stream[m] = "watching" => stream'[m] = "watching"
  BY <1>1 DEF Inv, TypeOK
<1>5. RequestInv' /\ ChargeInv' /\ ContainerInv'
  BY <1>1, <1>4, OtherInvsKept DEF pods
<1> QED  BY <1>2, <1>3, <1>5 DEF Inv

\* A kubelet that restarts drops stream and list together.
LEMMA KubeletRestartsStep ==
  ASSUME Inv, NEW n \in Nodes, KubeletRestarts(n)
  PROVE  Inv'
<1>1. Disconnected(n) /\ Fails /\ UNCHANGED <<process, socket, devices, left>>
  BY DEF KubeletRestarts
<1>2. /\ stream' = [stream EXCEPT ![n] = "none"]
      /\ available' = [available EXCEPT ![n] = {}]
      /\ registered' = [registered EXCEPT ![n] = FALSE]
      /\ request' \in [Nodes -> Calls]
      /\ pod' \in [Pods -> {"pending", "bound", "admitted", "running", "ended", "rejected"}]
      /\ charged' \in [Pods -> SUBSET Gpus]
      /\ UNCHANGED <<place, container>>
      /\ RequestInv' /\ ChargeInv' /\ ContainerInv'
  BY <1>1, DisconnectedKeeps
<1>3. failures' \in 0..MaxFailures
  BY <1>1, FailuresBounded
<1>4. /\ stream' \in [Nodes -> {"none", "filling", "sending", "watching"}]
      /\ available' \in [Nodes -> SUBSET Gpus] /\ registered' \in [Nodes -> BOOLEAN]
  BY <1>2 DEF Inv, TypeOK
<1>5. TypeOK'
  BY <1>1, <1>2, <1>3, <1>4 DEF Inv, TypeOK, Calls
<1>6. PluginInv'
  BY <1>1, <1>2 DEF Inv, TypeOK, PluginInv
<1> QED  BY <1>2, <1>5, <1>6 DEF Inv

\* The kubelet charges the pod it admits with free devices, of which it has none
\* before the list was sent.
LEMMA AdmitStep ==
  ASSUME Inv, NEW p \in Pods, Admit(p)
  PROVE  Inv'
<1> DEFINE n == place[p]
<1>1. /\ pod[p] = "bound" /\ request[n] = NoCall
      /\ UNCHANGED <<plugin, registered, available, place, container, left, failures>>
  BY DEF Admit
<1>2. n \in Nodes
  BY <1>1 DEF Inv, ChargeInv
<1>3. UNCHANGED <<process, socket, devices, stream, registered, available, place,
                  container, left, failures>>
  BY <1>1 DEF plugin
<1>4. PluginInv'
  BY <1>3 DEF Inv, PluginInv
<1>5. CASE pod' = [pod EXCEPT ![p] = "rejected"] /\ UNCHANGED <<charged, request>>
  <2>1. \A q \in Pods : q # p => pod'[q] = pod[q]
    BY <1>5 DEF Inv, TypeOK
  <2>2. pod'[p] = "rejected"
    BY <1>5 DEF Inv, TypeOK
  <2>3. TypeOK'
    <3>1. pod' \in [Pods -> {"pending", "bound", "admitted", "running", "ended", "rejected"}]
      BY <1>5 DEF Inv, TypeOK
    <3> QED  BY <1>3, <1>5, <3>1 DEF Inv, TypeOK
  <2>4. RequestInv'
    BY <1>1, <1>3, <1>5, <2>1 DEF Inv, RequestInv
  <2>5. ChargeInv'
    BY <1>1, <1>2, <1>3, <1>5, <2>1, <2>2 DEF Inv, ChargeInv
  <2>6. ContainerInv'
    BY <1>3, <1>5, <2>1, <2>2 DEF Inv, ContainerInv
  <2> QED  BY <1>4, <2>3, <2>4, <2>5, <2>6 DEF Inv
<1>6. ASSUME NEW D \in kSubset(Wants[p], Free(n)), NEW ids \in SetToSeqs(D),
             request' = [request EXCEPT ![n] = [pod |-> p, ids |-> ids]],
             charged' = [charged EXCEPT ![p] = D],
             pod' = [pod EXCEPT ![p] = "admitted"]
      PROVE  Inv'
  <2>1. D \subseteq Free(n) /\ Cardinality(D) = Wants[p] /\ Wants[p] \in Nat \ {0}
    BY ClusterAssumption DEF kSubset
  <2>2. D \subseteq available[n] /\ \A q \in Pods : D \intersect charged[q] = {}
    BY <2>1 DEF Free
  <2>3. D \subseteq Hosted(n) /\ D \subseteq Gpus
    BY <1>2, <2>2 DEF Inv, PluginInv, Hosted
  <2>4. D # {}
    BY <2>1, FS_EmptySet
  <2>5. stream[n] = "watching"
    BY <1>2, <2>2, <2>4 DEF Inv, PluginInv
  <2>6. ids \in Seq(Gpus) /\ ToSet(ids) = D /\ 1 \in DOMAIN ids
    BY <2>1, <2>3, OrderedDevices
  <2>7. /\ \A q \in Pods : q # p => pod'[q] = pod[q] /\ charged'[q] = charged[q]
        /\ pod'[p] = "admitted" /\ charged'[p] = D
    BY <1>6 DEF Inv, TypeOK
  <2>8. /\ \A m \in Nodes : m # n => request'[m] = request[m]
        /\ request'[n] = [pod |-> p, ids |-> ids]
    BY <1>2, <1>6 DEF Inv, TypeOK
  <2>9. TypeOK'
    <3>1. /\ pod' \in [Pods -> {"pending", "bound", "admitted", "running", "ended", "rejected"}]
          /\ charged' \in [Pods -> SUBSET Gpus]
      BY <1>6, <2>3 DEF Inv, TypeOK
    <3>2. request' \in [Nodes -> {NoCall} \union [pod : Pods, ids : Seq(Gpus)]]
      BY <1>6, <2>6 DEF Inv, TypeOK
    <3> QED  BY <1>3, <3>1, <3>2 DEF Inv, TypeOK
  <2>10. RequestInv'
    <3> SUFFICES ASSUME NEW m \in Nodes, request'[m] # NoCall
                 PROVE  /\ request'[m].pod \in Pods
                        /\ pod'[request'[m].pod] = "admitted"
                        /\ place'[request'[m].pod] = m
                        /\ 1 \in DOMAIN request'[m].ids
                        /\ ToSet(request'[m].ids) = charged'[request'[m].pod]
                        /\ stream'[m] = "watching"
      BY DEF RequestInv
    <3>1. CASE m = n
      BY <1>3, <2>5, <2>6, <2>7, <2>8, <3>1
    <3>2. CASE m # n
      <4>1. /\ request'[m] = request[m] /\ stream'[m] = stream[m]
            /\ request[m].pod \in Pods /\ pod[request[m].pod] = "admitted"
            /\ place[request[m].pod] = m /\ 1 \in DOMAIN request[m].ids
            /\ ToSet(request[m].ids) = charged[request[m].pod]
            /\ stream[m] = "watching"
        BY <1>3, <2>8, <3>2 DEF Inv, RequestInv
      <4> QED  BY <1>1, <1>3, <2>7, <4>1
    <3> QED  BY <3>1, <3>2
  <2>11. ChargeInv'
    <3>1. ASSUME NEW q \in Pods, pod'[q] # "pending"  PROVE place'[q] \in Nodes
      BY <1>2, <1>3, <2>7, <3>1 DEF Inv, ChargeInv
    <3>2. ASSUME NEW q \in Pods, pod'[q] \in {"admitted", "running"}
          PROVE  charged'[q] \subseteq Hosted(place'[q]) /\ Cardinality(charged'[q]) = Wants[q]
      BY <1>3, <2>1, <2>3, <2>7, <3>2 DEF Inv, ChargeInv
    <3>3. ASSUME NEW q \in Pods, NEW r \in Pods, q # r
          PROVE  charged'[q] \intersect charged'[r] = {}
      BY <2>2, <2>7, <3>3 DEF Inv, ChargeInv
    <3> QED  BY <3>1, <3>2, <3>3 DEF ChargeInv
  <2>12. ContainerInv'
    BY <1>3, <2>7 DEF Inv, ContainerInv
  <2> QED  BY <1>4, <2>9, <2>10, <2>11, <2>12 DEF Inv
<1> QED  BY <1>5, <1>6 DEF Admit

\* A pod that ends gives its devices back.
LEMMA PodEndsStep ==
  ASSUME Inv, NEW p \in Pods, PodEnds(p)
  PROVE  Inv'
<1>1. /\ pod[p] = "running"
      /\ pod' = [pod EXCEPT ![p] = "ended"]
      /\ charged' = [charged EXCEPT ![p] = {}]
      /\ container' = [container EXCEPT ![p] = NoContainer]
      /\ UNCHANGED <<process, socket, devices, stream, registered, available, request,
                     place, left, failures>>
  BY DEF PodEnds, plugin, kubelet
<1>2. /\ \A q \in Pods : q # p => /\ pod'[q] = pod[q] /\ charged'[q] = charged[q]
                                  /\ container'[q] = container[q]
      /\ pod'[p] = "ended" /\ charged'[p] = {}
  BY <1>1 DEF Inv, TypeOK
<1>3. TypeOK'
  <2>1. /\ pod' \in [Pods -> {"pending", "bound", "admitted", "running", "ended", "rejected"}]
        /\ charged' \in [Pods -> SUBSET Gpus]
    BY <1>1 DEF Inv, TypeOK
  <2>2. container' \in [Pods -> Containers]
    BY <1>1 DEF Inv, TypeOK, Containers, NoContainer
  <2> QED  BY <1>1, <2>1, <2>2 DEF Inv, TypeOK, Containers
<1>4. PluginInv'
  BY <1>1 DEF Inv, PluginInv
<1>5. RequestInv'
  BY <1>1, <1>2 DEF Inv, RequestInv
<1>6. ChargeInv'
  BY <1>1, <1>2 DEF Inv, ChargeInv
<1>7. ContainerInv'
  BY <1>2 DEF Inv, ContainerInv
<1> QED  BY <1>3, <1>4, <1>5, <1>6, <1>7 DEF Inv

----------------------------------------------------------------------------
(* The process and its methods.                                             *)

\* A process that starts has discovered the devices of its node.
LEMMA StartStep ==
  ASSUME Inv, NEW n \in Nodes, Start(n)
  PROVE  Inv'
<1>1. /\ process[n] = "down"
      /\ devices' = [devices EXCEPT ![n] = Hosted(n)]
      /\ process' = [process EXCEPT ![n] = "serving"]
      /\ socket' = [socket EXCEPT ![n] = TRUE]
      /\ registered' = [registered EXCEPT ![n] = TRUE]
      /\ left' = [left EXCEPT ![n] = FALSE]
      /\ UNCHANGED <<stream, available, request, pod, place, charged, container, failures>>
  BY DEF Start, pods
<1>2. TypeOK'
  <2>1. /\ devices' \in [Nodes -> SUBSET Gpus]
        /\ process' \in [Nodes -> {"down", "serving", "cancelled", "cleaned"}]
    BY <1>1 DEF Inv, TypeOK, Hosted
  <2>2. /\ socket' \in [Nodes -> BOOLEAN] /\ registered' \in [Nodes -> BOOLEAN]
        /\ left' \in [Nodes -> BOOLEAN]
    BY <1>1 DEF Inv, TypeOK
  <2> QED  BY <1>1, <2>1, <2>2 DEF Inv, TypeOK
<1>3. PluginInv'
  <2>1. /\ \A m \in Nodes : m # n => devices'[m] = devices[m] /\ process'[m] = process[m]
        /\ devices'[n] = Hosted(n)
    BY <1>1 DEF Inv, TypeOK
  <2>2. stream[n] = "none"
    BY <1>1 DEF Inv, PluginInv
  <2>3. UNCHANGED <<stream, available>>
    BY <1>1
  <2>4. available[n] \subseteq Hosted(n) /\ available[n] = {}
    BY <2>2 DEF Inv, PluginInv
  <2> QED  BY <2>1, <2>2, <2>3, <2>4 DEF Inv, PluginInv
<1>4. RequestInv' /\ ChargeInv' /\ ContainerInv'
  BY <1>1, OtherInvsKept
<1> QED  BY <1>2, <1>3, <1>4 DEF Inv

\* However a process ends, its map, its stream and the kubelet's list go with it.
LEMMA ProcessEndsStep ==
  ASSUME Inv, NEW n \in Nodes, ProcessEnds(n),
         left' \in [Nodes -> BOOLEAN], failures' \in 0..MaxFailures
  PROVE  Inv'
<1>1. /\ process' = [process EXCEPT ![n] = "down"]
      /\ devices' = [devices EXCEPT ![n] = {}]
      /\ Disconnected(n) /\ UNCHANGED socket
  BY DEF ProcessEnds
<1>2. /\ stream' = [stream EXCEPT ![n] = "none"]
      /\ available' = [available EXCEPT ![n] = {}]
      /\ registered' = [registered EXCEPT ![n] = FALSE]
      /\ request' \in [Nodes -> Calls]
      /\ pod' \in [Pods -> {"pending", "bound", "admitted", "running", "ended", "rejected"}]
      /\ charged' \in [Pods -> SUBSET Gpus]
      /\ UNCHANGED <<place, container>>
      /\ RequestInv' /\ ChargeInv' /\ ContainerInv'
  BY <1>1, DisconnectedKeeps
<1>3. TypeOK'
  <2>1. /\ stream' \in [Nodes -> {"none", "filling", "sending", "watching"}]
        /\ available' \in [Nodes -> SUBSET Gpus] /\ registered' \in [Nodes -> BOOLEAN]
    BY <1>2 DEF Inv, TypeOK
  <2>2. /\ process' \in [Nodes -> {"down", "serving", "cancelled", "cleaned"}]
        /\ devices' \in [Nodes -> SUBSET Gpus]
    BY <1>1 DEF Inv, TypeOK
  <2> QED  BY <1>1, <1>2, <2>1, <2>2 DEF Inv, TypeOK, Calls
<1>4. PluginInv'
  BY <1>1, <1>2 DEF Inv, TypeOK, PluginInv
<1> QED  BY <1>2, <1>3, <1>4 DEF Inv

LEMMA CrashStep ==
  ASSUME Inv, NEW n \in Nodes, Crash(n)
  PROVE  Inv'
<1>1. ProcessEnds(n) /\ Fails /\ left' = left
  BY DEF Crash
<1>2. left' \in [Nodes -> BOOLEAN] /\ failures' \in 0..MaxFailures
  BY <1>1, FailuresBounded DEF Inv, TypeOK
<1> QED  BY <1>1, <1>2, ProcessEndsStep

LEMMA ExitStep ==
  ASSUME Inv, NEW n \in Nodes, Exit(n)
  PROVE  Inv'
<1>1. ProcessEnds(n) /\ left' = [left EXCEPT ![n] = socket[n]] /\ failures' = failures
  BY DEF Exit
<1>2. left' \in [Nodes -> BOOLEAN] /\ failures' \in 0..MaxFailures
  BY <1>1 DEF Inv, TypeOK
<1> QED  BY <1>1, <1>2, ProcessEndsStep

\* A process that is told to end goes on serving until it has ended.
LEMMA CancelStep ==
  ASSUME Inv, NEW n \in Nodes, Cancel(n)
  PROVE  Inv'
<1>1. /\ process[n] = "serving" /\ Fails
      /\ process' = [process EXCEPT ![n] = "cancelled"]
      /\ UNCHANGED <<socket, devices, stream, registered, available, request,
                     pod, place, charged, container, left>>
  BY DEF Cancel, kubelet, pods
<1>2. failures' \in 0..MaxFailures
  BY <1>1, FailuresBounded
<1>3. TypeOK'
  BY <1>1, <1>2 DEF Inv, TypeOK
<1>4. PluginInv'
  BY <1>1 DEF Inv, TypeOK, PluginInv
<1>5. RequestInv' /\ ChargeInv' /\ ContainerInv'
  BY <1>1, OtherInvsKept
<1> QED  BY <1>3, <1>4, <1>5 DEF Inv

LEMMA RemoveSocketStep ==
  ASSUME Inv, NEW n \in Nodes, RemoveSocket(n)
  PROVE  Inv'
<1>1. /\ process[n] = "cancelled"
      /\ process' = [process EXCEPT ![n] = "cleaned"]
      /\ socket' = [socket EXCEPT ![n] = FALSE]
      /\ UNCHANGED <<devices, stream, registered, available, request,
                     pod, place, charged, container, left, failures>>
  BY DEF RemoveSocket, kubelet, pods
<1>2. TypeOK'
  BY <1>1 DEF Inv, TypeOK
<1>3. PluginInv'
  BY <1>1 DEF Inv, TypeOK, PluginInv
<1>4. RequestInv' /\ ChargeInv' /\ ContainerInv'
  BY <1>1, OtherInvsKept
<1> QED  BY <1>2, <1>3, <1>4 DEF Inv

\* ListAndWatch writes what is in the map already.
LEMMA FillStep ==
  ASSUME Inv, NEW n \in Nodes, Fill(n)
  PROVE  Inv'
<1>1. /\ stream[n] = "filling"
      /\ devices' = [devices EXCEPT ![n] = devices[n] \union Hosted(n)]
      /\ stream' = [stream EXCEPT ![n] = "sending"]
      /\ UNCHANGED <<process, socket, registered, available, request,
                     pod, place, charged, container, left, failures>>
  BY DEF Fill, kubelet, pods
<1>2. TypeOK'
  <2>1. /\ devices' \in [Nodes -> SUBSET Gpus]
        /\ stream' \in [Nodes -> {"none", "filling", "sending", "watching"}]
    BY <1>1 DEF Inv, TypeOK, Hosted
  <2> QED  BY <1>1, <2>1 DEF Inv, TypeOK
<1>3. PluginInv'
  <2>1. devices[n] = Hosted(n) /\ process[n] # "down" /\ available[n] = {}
    BY <1>1 DEF Inv, PluginInv
  <2>2. /\ \A m \in Nodes : devices'[m] = devices[m] /\ (m # n => stream'[m] = stream[m])
        /\ stream'[n] = "sending" /\ UNCHANGED <<process, available>>
    BY <1>1, <2>1 DEF Inv, TypeOK
  <2> QED  BY <2>1, <2>2 DEF Inv, PluginInv
<1>4. \A m \in Nodes : stream[m] = "watching" => stream'[m] = "watching"
  BY <1>1 DEF Inv, TypeOK
<1>5. RequestInv' /\ ChargeInv' /\ ContainerInv'
  BY <1>1, <1>4, OtherInvsKept
<1> QED  BY <1>2, <1>3, <1>5 DEF Inv

LEMMA SendListStep ==
  ASSUME Inv, NEW n \in Nodes, SendList(n)
  PROVE  Inv'
<1>1. /\ stream[n] = "sending"
      /\ available' = [available EXCEPT ![n] = Hosted(n)]
      /\ stream' = [stream EXCEPT ![n] = "watching"]
      /\ UNCHANGED <<process, socket, devices, registered, request,
                     pod, place, charged, container, left, failures>>
  BY DEF SendList, pods
<1>2. TypeOK'
  <2>1. /\ available' \in [Nodes -> SUBSET Gpus]
        /\ stream' \in [Nodes -> {"none", "filling", "sending", "watching"}]
    BY <1>1 DEF Inv, TypeOK, Hosted
  <2> QED  BY <1>1, <2>1 DEF Inv, TypeOK
<1>3. PluginInv'
  <2>1. /\ \A m \in Nodes : m # n => available'[m] = available[m] /\ stream'[m] = stream[m]
        /\ available'[n] = Hosted(n) /\ stream'[n] = "watching"
        /\ UNCHANGED <<process, devices>>
    BY <1>1 DEF Inv, TypeOK
  <2>2. process[n] # "down"
    BY <1>1 DEF Inv, PluginInv
  <2> QED  BY <2>1, <2>2 DEF Inv, PluginInv
<1>4. \A m \in Nodes : stream[m] = "watching" => stream'[m] = "watching"
  BY <1>1 DEF Inv, TypeOK
<1>5. RequestInv' /\ ChargeInv' /\ ContainerInv'
  BY <1>1, <1>4, OtherInvsKept
<1> QED  BY <1>2, <1>3, <1>5 DEF Inv

\* What Allocate puts into a container that is asked for charged devices of the node:
\* their files, of the right type.
LEMMA ContainerTyped ==
  ASSUME Inv, NEW n \in Nodes, NEW p \in Pods, NEW ids, place[p] = n,
         pod[p] = "admitted", stream[n] = "watching",
         1 \in DOMAIN ids, ToSet(ids) = charged[p]
  PROVE  [files |-> DeviceFiles(n, ids), uuid |-> GPU_UUID(n, ids)] \in Containers
<1>1. devices[n] = Hosted(n) /\ charged[p] \subseteq Hosted(n) /\ Hosted(n) \subseteq Gpus
  BY DEF Inv, PluginInv, ChargeInv, Hosted
<1>2. ids[1] \in charged[p]
  BY DEF ToSet
<1>3. /\ DeviceFiles(n, ids) = {GPUIndex[g] : g \in charged[p]}
      /\ GPU_UUID(n, ids) = UuidOfGpu[ids[1]]
  BY <1>1, <1>2 DEF DeviceFiles, GPU_UUID
<1>4. DOMAIN GPUIndex = Gpus /\ DOMAIN UuidOfGpu = Gpus
  BY ClusterAssumption
<1>5. DeviceFiles(n, ids) \subseteq Range(GPUIndex) /\ GPU_UUID(n, ids) \in Range(UuidOfGpu)
  BY <1>1, <1>2, <1>3, <1>4 DEF Range
<1> QED  BY <1>5 DEF Containers

\* Allocate finds every device it is asked for in the map.
LEMMA AllocateStep ==
  ASSUME Inv, NEW n \in Nodes, Allocate(n)
  PROVE  Inv'
<1> DEFINE p   == request[n].pod
           ids == request[n].ids
           c   == [files |-> DeviceFiles(n, ids), uuid |-> GPU_UUID(n, ids)]
<1>1. /\ request[n] # NoCall
      /\ container' = [container EXCEPT ![p] = c]
      /\ pod' = [pod EXCEPT ![p] = "running"]
      /\ request' = [request EXCEPT ![n] = NoCall]
      /\ UNCHANGED <<process, socket, devices, stream, registered, available,
                     place, charged, left, failures>>
  BY DEF Allocate, plugin
<1>2. /\ p \in Pods /\ pod[p] = "admitted" /\ place[p] = n
      /\ 1 \in DOMAIN ids /\ ToSet(ids) = charged[p] /\ stream[n] = "watching"
  BY <1>1 DEF Inv, RequestInv
<1>3. devices[n] = Hosted(n) /\ charged[p] \subseteq Hosted(n) /\ Hosted(n) \subseteq Gpus
  BY <1>2 DEF Inv, PluginInv, ChargeInv, Hosted
<1>4. ids[1] \in charged[p]
  BY <1>2 DEF ToSet
<1>5. /\ c.files = {GPUIndex[g] : g \in charged[p]}
      /\ c.uuid \in {UuidOfGpu[g] : g \in charged[p]}
  BY <1>2, <1>3, <1>4 DEF DeviceFiles, GPU_UUID
<1>6. c \in Containers
  BY <1>2, ContainerTyped
<1> HIDE DEF p, ids, c
<1>7. /\ \A q \in Pods : q # p => pod'[q] = pod[q] /\ container'[q] = container[q]
      /\ pod'[p] = "running" /\ container'[p] = c
  BY <1>1, <1>2 DEF Inv, TypeOK
<1>8. TypeOK'
  <2>1. container' \in [Pods -> Containers]
    BY <1>1, <1>6 DEF Inv, TypeOK, Containers
  <2>2. /\ pod' \in [Pods -> {"pending", "bound", "admitted", "running", "ended", "rejected"}]
        /\ request' \in [Nodes -> {NoCall} \union [pod : Pods, ids : Seq(Gpus)]]
    BY <1>1 DEF Inv, TypeOK
  <2> QED  BY <1>1, <2>1, <2>2 DEF Inv, TypeOK, Containers
<1>9. PluginInv'
  BY <1>1 DEF Inv, PluginInv
<1>10. RequestInv'
  <2> SUFFICES ASSUME NEW m \in Nodes, request'[m] # NoCall
               PROVE  /\ request'[m].pod \in Pods
                      /\ pod'[request'[m].pod] = "admitted"
                      /\ place'[request'[m].pod] = m
                      /\ 1 \in DOMAIN request'[m].ids
                      /\ ToSet(request'[m].ids) = charged'[request'[m].pod]
                      /\ stream'[m] = "watching"
    BY DEF RequestInv
  <2>1. m # n /\ request'[m] = request[m]
    BY <1>1 DEF Inv, TypeOK
  <2>2. /\ request[m].pod \in Pods /\ pod[request[m].pod] = "admitted"
        /\ place[request[m].pod] = m /\ 1 \in DOMAIN request[m].ids
        /\ ToSet(request[m].ids) = charged[request[m].pod]
        /\ stream[m] = "watching"
    BY <2>1 DEF Inv, RequestInv
  <2>3. request[m].pod # p
    BY <1>2, <2>1, <2>2
  <2> QED  BY <1>1, <1>7, <2>1, <2>2, <2>3
<1>11. ChargeInv'
  <2>1. \A q \in Pods : pod'[q] # "pending" => place'[q] \in Nodes
    BY <1>1, <1>2, <1>7 DEF Inv, ChargeInv
  <2>2. ASSUME NEW q \in Pods, pod'[q] \in {"admitted", "running"}
        PROVE  charged'[q] \subseteq Hosted(place'[q]) /\ Cardinality(charged'[q]) = Wants[q]
    <3>1. pod[q] \in {"admitted", "running"}
      BY <1>2, <1>7, <2>2
    <3> QED  BY <1>1, <3>1 DEF Inv, ChargeInv
  <2>3. \A q, r \in Pods : q # r => charged'[q] \intersect charged'[r] = {}
    BY <1>1 DEF Inv, ChargeInv
  <2> QED  BY <2>1, <2>2, <2>3 DEF ChargeInv
<1>12. ContainerInv'
  BY <1>1, <1>5, <1>7 DEF Inv, ContainerInv
<1> QED  BY <1>8, <1>9, <1>10, <1>11, <1>12 DEF Inv

----------------------------------------------------------------------------
(* The theorems.                                                            *)

LEMMA InitInv ==
  ASSUME Init  PROVE Inv
<1>1. TypeOK
  <2>1. 0 \in 0..MaxFailures
    BY ClusterAssumption
  <2>2. container \in [Pods -> Containers]
    BY DEF Init, NoContainer, Containers
  <2>3. request \in [Nodes -> {NoCall} \union [pod : Pods, ids : Seq(Gpus)]]
    BY DEF Init
  <2> QED  BY <2>1, <2>2, <2>3 DEF Init, TypeOK, Containers
<1>2. PluginInv
  BY DEF Init, PluginInv
<1>3. RequestInv
  BY DEF Init, RequestInv
<1>4. ChargeInv /\ ContainerInv
  BY DEF Init, ChargeInv, ContainerInv
<1> QED  BY <1>1, <1>2, <1>3, <1>4 DEF Inv

LEMMA StepInv ==
  ASSUME Inv, [Next]_vars  PROVE Inv'
<1>1. ASSUME NEW n \in Nodes, Kubelet(n)  PROVE Inv'
  BY <1>1, ConnectStep, KubeletRestartsStep DEF Kubelet
<1>2. ASSUME NEW n \in Nodes, Process(n)  PROVE Inv'
  BY <1>2, StartStep, CrashStep, CancelStep, RemoveSocketStep, ExitStep,
     FillStep, SendListStep, AllocateStep DEF Process
<1>3. ASSUME NEW p \in Pods, Schedule(p) \/ Admit(p) \/ PodEnds(p)  PROVE Inv'
  BY <1>3, ScheduleStep, AdmitStep, PodEndsStep
<1>4. CASE UNCHANGED vars
  <2>1. UNCHANGED <<process, socket, devices, stream, registered, available, request,
                    pod, place, charged, container, left, failures>>
    BY <1>4 DEF vars, plugin, kubelet, pods
  <2>2. TypeOK'
    BY <2>1 DEF Inv, TypeOK
  <2>3. PluginInv'
    BY <2>1 DEF Inv, PluginInv
  <2>4. RequestInv' /\ ChargeInv' /\ ContainerInv'
    BY <2>1, OtherInvsKept
  <2> QED  BY <2>2, <2>3, <2>4 DEF Inv
<1> QED  BY <1>1, <1>2, <1>3, <1>4 DEF Next

\* The invariant holds for all nodes, devices and pods: an Allocate under way has a
\* stream on which the list was sent, and names what its pod is charged for.
THEOREM Invariance == Spec => []Inv
<1> QED  BY InitInv, StepInv, PTL DEF Spec

\* Processes, streams, calls and pods keep to their types whatever dies and comes back
\* (main, ListAndWatch, Allocate).
THEOREM TypeCorrect == Spec => []TypeOK
<1>1. Inv => TypeOK
  BY DEF Inv
<1> QED  BY <1>1, Invariance, PTL

\* ListAndWatch writes the device map without a lock, but never while an Allocate is
\* under way: the kubelet has no devices to ask for until the list is sent, and loses
\* them with the stream.
THEOREM MapStaysUnshared == Spec => []MapNotShared
<1>1. Inv => MapNotShared
  BY DEF Inv, RequestInv, MapNotShared
<1> QED  BY <1>1, Invariance, PTL

\* A container that runs has the files of exactly the devices its pod is charged for
\* and shares none (buildDevices, buildEnvironmentVariables), for any number of GPUs,
\* pods and deaths.
THEOREM ContainersMatch == Spec => []ContainersMatchCharges
<1>1. ASSUME Inv, NEW p \in Pods, NEW q \in Pods \ {p}, pod[p] = "running",
             pod[q] = "running", place[q] = place[p]
      PROVE  container[p].files \intersect container[q].files = {}
  <2>1. SUFFICES ASSUME NEW g \in charged[p], NEW h \in charged[q]
                 PROVE  GPUIndex[g] # GPUIndex[h]
    BY <1>1 DEF Inv, ContainerInv
  <2>2. g # h /\ g \in Hosted(place[p]) /\ h \in Hosted(place[p])
    BY <1>1 DEF Inv, ChargeInv
  <2> QED  BY <2>2, ClusterAssumption DEF Hosted
<1>2. Inv => ContainersMatchCharges
  BY <1>1 DEF Inv, ChargeInv, ContainerInv, ContainersMatchCharges
<1> QED  BY <1>2, Invariance, PTL

----------------------------------------------------------------------------
(* The refinement of DeviceLeases.                                          *)

\* Only a pod that was admitted is charged, and only the container of one that runs
\* has been given anything.
IdleInv ==
  \A p \in Pods :
    /\ pod[p] \notin {"admitted", "running"} => charged[p] = {}
    /\ pod[p] # "running" => container[p] = NoContainer

\* What a step can do to the pods: bind or reject one without devices, ...
Idles ==
  /\ UNCHANGED <<charged, container>>
  /\ \A p \in Pods : \/ pod'[p] = pod[p] /\ place'[p] = place[p]
                     \/ {pod[p], pod'[p]} \intersect {"admitted", "running"} = {}

\* ... admit one with devices that are free, ...
Admits(p, D) ==
  /\ pod[p] = "bound" /\ pod' = [pod EXCEPT ![p] = "admitted"]
  /\ D # {} /\ D \in SUBSET (Gpus \ UNION {charged[q] : q \in Pods})
  /\ charged' = [charged EXCEPT ![p] = D]
  /\ UNCHANGED <<place, container>>

\* ... reject one with its devices, ...
Drops(p) ==
  /\ pod[p] = "admitted" /\ pod' = [pod EXCEPT ![p] = "rejected"]
  /\ charged' = [charged EXCEPT ![p] = {}]
  /\ UNCHANGED <<place, container>>

\* ... or start its container.
Starts(p) ==
  /\ pod[p] = "admitted" /\ pod' = [pod EXCEPT ![p] = "running"]
  /\ \E c \in Containers : container' = [container EXCEPT ![p] = c]
  /\ UNCHANGED <<place, charged>>

\* The end of a stream rejects the pod of the call in progress, if there is one.
LEMMA DisconnectedDrops ==
  ASSUME Inv, NEW n \in Nodes, Disconnected(n)
  PROVE  Idles \/ \E p \in Pods : Drops(p)
<1>1. UNCHANGED <<place, container>>
  BY DEF Disconnected
<1>2. /\ pod \in [Pods -> {"pending", "bound", "admitted", "running", "ended", "rejected"}]
      /\ charged \in [Pods -> SUBSET Gpus]
  BY DEF Inv, TypeOK
<1>3. CASE request[n] = NoCall
  <2>1. pod' = pod /\ charged' = charged
    BY <1>2, <1>3 DEF Disconnected
  <2> QED  BY <1>1, <2>1 DEF Idles
<1>4. CASE request[n] # NoCall
  <2> DEFINE p == request[n].pod
  <2>1. p \in Pods /\ pod[p] = "admitted"
    BY <1>4 DEF Inv, RequestInv
  <2>2. /\ pod' = [q \in Pods |-> IF q = p THEN "rejected" ELSE pod[q]]
        /\ charged' = [q \in Pods |-> IF q = p THEN {} ELSE charged[q]]
    BY <1>4 DEF Disconnected
  <2> HIDE DEF p
  <2>3. /\ pod' = [pod EXCEPT ![p] = "rejected"]
        /\ charged' = [charged EXCEPT ![p] = {}]
    BY <1>2, <2>2
  <2> QED  BY <1>1, <2>1, <2>3 DEF Drops
<1> QED  BY <1>3, <1>4

\* Every step is of one of these kinds, or the end of a pod.
LEMMA KindsOfSteps ==
  ASSUME Inv, [Next]_vars
  PROVE  \/ Idles
         \/ \E p \in Pods : Drops(p) \/ Starts(p) \/ PodEnds(p)
         \/ \E p \in Pods : \E D \in SUBSET Gpus : Admits(p, D)
<1>1. CASE UNCHANGED <<pod, place, charged, container>>
  BY <1>1 DEF Idles
<1>2. ASSUME NEW n \in Nodes, KubeletRestarts(n) \/ Crash(n) \/ Exit(n)
      PROVE  Idles \/ \E p \in Pods : Drops(p)
  BY <1>2, DisconnectedDrops DEF KubeletRestarts, Crash, Exit, ProcessEnds
<1>3. ASSUME NEW n \in Nodes, Allocate(n)
      PROVE  \E p \in Pods : Starts(p)
  <2> DEFINE p   == request[n].pod
             ids == request[n].ids
             c   == [files |-> DeviceFiles(n, ids), uuid |-> GPU_UUID(n, ids)]
  <2>1. /\ request[n] # NoCall
        /\ container' = [container EXCEPT ![p] = c]
        /\ pod' = [pod EXCEPT ![p] = "running"]
        /\ UNCHANGED <<place, charged>>
    BY <1>3 DEF Allocate
  <2>2. /\ p \in Pods /\ pod[p] = "admitted" /\ place[p] = n
        /\ 1 \in DOMAIN ids /\ ToSet(ids) = charged[p] /\ stream[n] = "watching"
    BY <2>1 DEF Inv, RequestInv
  <2>3. c \in Containers
    BY <2>2, ContainerTyped DEF Inv
  <2> QED  BY <2>1, <2>2, <2>3 DEF Starts
<1>4. ASSUME NEW p \in Pods, Schedule(p)
      PROVE  Idles
  <2>1. PICK n \in Nodes : /\ pod[p] = "pending" /\ UNCHANGED <<charged, container>>
                           /\ pod' = [pod EXCEPT ![p] = "bound"]
                           /\ place' = [place EXCEPT ![p] = n]
    BY <1>4 DEF Schedule, Feasible
  <2> QED  BY <2>1 DEF Inv, TypeOK, Idles
<1>5. ASSUME NEW p \in Pods, Admit(p)
      PROVE  Idles \/ \E D \in SUBSET Gpus : Admits(p, D)
  <2> DEFINE n == place[p]
  <2>1. pod[p] = "bound" /\ UNCHANGED <<place, container>>
    BY <1>5 DEF Admit
  <2>2. n \in Nodes
    BY <2>1 DEF Inv, ChargeInv
  <2>3. CASE pod' = [pod EXCEPT ![p] = "rejected"] /\ UNCHANGED charged
    BY <2>1, <2>3 DEF Inv, TypeOK, Idles
  <2>4. ASSUME NEW D \in kSubset(Wants[p], Free(n)),
               charged' = [charged EXCEPT ![p] = D], pod' = [pod EXCEPT ![p] = "admitted"]
        PROVE  Admits(p, D) /\ D \in SUBSET Gpus
    <3>1. D \subseteq Free(n) /\ Cardinality(D) = Wants[p] /\ Wants[p] \in Nat \ {0}
      BY ClusterAssumption DEF kSubset
    <3>2. D # {}
      BY <3>1, FS_EmptySet
    <3>3. available[n] \subseteq Gpus
      BY <2>2 DEF Inv, TypeOK
    <3> QED  BY <2>1, <2>4, <3>1, <3>2, <3>3 DEF Admits, Free
  <2> QED  BY <1>5, <2>3, <2>4 DEF Admit
<1> QED  BY <1>1, <1>2, <1>3, <1>4, <1>5
         DEF Next, Kubelet, Process, Connect, Start, Cancel, RemoveSocket, Fill, SendList,
             pods, vars

\* A pod that does not run holds nothing, whatever kind the step is of.
LEMMA IdleStep ==
  ASSUME Inv, IdleInv, [Next]_vars  PROVE IdleInv'
<1>1. /\ pod \in [Pods -> {"pending", "bound", "admitted", "running", "ended", "rejected"}]
      /\ charged \in [Pods -> SUBSET Gpus] /\ container \in [Pods -> Containers]
  BY DEF Inv, TypeOK, Containers
<1>2. CASE Idles
  BY <1>2 DEF Idles, IdleInv
<1>3. ASSUME NEW p \in Pods, Drops(p) \/ Starts(p) \/ PodEnds(p)  PROVE IdleInv'
  BY <1>1, <1>3 DEF Drops, Starts, PodEnds, IdleInv
<1>4. ASSUME NEW p \in Pods, NEW D \in SUBSET Gpus, Admits(p, D)  PROVE IdleInv'
  BY <1>1, <1>4 DEF Admits, IdleInv
<1> QED  BY <1>2, <1>3, <1>4, KindsOfSteps

\* The GPUs whose files a container has are those its pod is charged for, and a pod
\* that does not run has none: the numbers of the GPUs of a node are different.
LEMMA HeldWhileRunning ==
  ASSUME Inv, IdleInv, NEW p \in Pods
  PROVE  HeldGpus(p) = IF pod[p] = "running" THEN charged[p] ELSE {}
<1>1. CASE pod[p] # "running"
  <2>1. container[p] = NoContainer
    BY <1>1 DEF IdleInv
  <2>2. NoContainer.files = {}
    BY DEF NoContainer
  <2>3. container[p].files = {}
    BY <2>1, <2>2
  <2> QED  BY <1>1, <2>3 DEF HeldGpus
<1>2. CASE pod[p] = "running"
  <2>1. /\ container[p].files = {GPUIndex[g] : g \in charged[p]}
        /\ charged[p] \subseteq Hosted(place[p])
    BY <1>2 DEF Inv, ContainerInv, ChargeInv
  <2>2. ASSUME NEW g \in Hosted(place[p]), NEW h \in charged[p], GPUIndex[g] = GPUIndex[h]
        PROVE  g = h
    <3>1. h \in Hosted(place[p])
      BY <2>1
    <3> QED  BY <2>2, <3>1, ClusterAssumption DEF Hosted
  <2> QED  BY <1>2, <2>1, <2>2 DEF HeldGpus
<1> QED  BY <1>1, <1>2

\* What the containers hold, as the leases see it.
Held == [p \in Pods |-> HeldGpus(p)]

LEMMA HeldIsCharged ==
  ASSUME Inv, IdleInv
  PROVE  Held = [p \in Pods |-> IF pod[p] = "running" THEN charged[p] ELSE {}]
  BY HeldWhileRunning DEF Held

\* Every step of the cluster is a step of the leases or does not touch them.
LEMMA LeasesStep ==
  ASSUME Inv, IdleInv, [Next]_vars
  PROVE  [Leases!LeaseNext]_(Leases!leaseVars)
<1> DEFINE Running(p) == IF pod[p] = "running" THEN charged[p] ELSE {}
           RunningNext(p) == IF pod'[p] = "running" THEN charged'[p] ELSE {}
<1>1. /\ pod \in [Pods -> {"pending", "bound", "admitted", "running", "ended", "rejected"}]
      /\ charged \in [Pods -> SUBSET Gpus]
  BY DEF Inv, TypeOK
<1>2. Held = [p \in Pods |-> Running(p)]
  BY HeldIsCharged
<1>3. Held' = [p \in Pods |-> RunningNext(p)]
  <2>1. Inv' /\ IdleInv'
    BY StepInv, IdleStep
  <2>2. (Inv /\ IdleInv)' => (Held = [p \in Pods |-> IF pod[p] = "running" THEN charged[p] ELSE {}])'
    BY HeldIsCharged, PTL
  <2> QED  BY <2>1, <2>2
<1>4. CASE Idles
  <2>1. \A p \in Pods : RunningNext(p) = Running(p)
    BY <1>4 DEF Idles
  <2>2. Held' = Held /\ charged' = charged
    BY <1>2, <1>3, <1>4, <2>1 DEF Idles
  <2> QED  BY <2>2 DEF Held, Leases!leaseVars
<1>5. ASSUME NEW p \in Pods, Drops(p)  PROVE Leases!TakeBack(p)
  <2>1. charged[p] # {}
    <3>1. Cardinality(charged[p]) = Wants[p] /\ Wants[p] # 0
      BY <1>5, ClusterAssumption DEF Drops, Inv, ChargeInv
    <3> QED  BY <3>1, FS_EmptySet
  <2>2. Held[p] = {} /\ Held' = Held
    BY <1>1, <1>2, <1>3, <1>5 DEF Drops
  <2> QED  BY <1>5, <2>1, <2>2 DEF Drops, Held, Leases!TakeBack
<1>6. ASSUME NEW p \in Pods, Starts(p)  PROVE Leases!Deliver(p)
  <2>1. charged[p] # {} /\ charged' = charged
    <3>1. Cardinality(charged[p]) = Wants[p] /\ Wants[p] # 0
      BY <1>6, ClusterAssumption DEF Starts, Inv, ChargeInv
    <3> QED  BY <1>6, <3>1, FS_EmptySet DEF Starts
  <2>2. Held[p] = {} /\ Held' = [Held EXCEPT ![p] = charged[p]]
    BY <1>1, <1>2, <1>3, <1>6 DEF Starts
  <2> QED  BY <2>1, <2>2 DEF Held, Leases!Deliver
<1>7. ASSUME NEW p \in Pods, PodEnds(p)  PROVE Leases!Return(p)
  <2>1. charged[p] # {} /\ charged' = [charged EXCEPT ![p] = {}]
    <3>1. Cardinality(charged[p]) = Wants[p] /\ Wants[p] # 0
      BY <1>7, ClusterAssumption DEF PodEnds, Inv, ChargeInv
    <3> QED  BY <1>7, <3>1, FS_EmptySet DEF PodEnds
  <2>2. Held[p] # {} /\ Held' = [Held EXCEPT ![p] = {}]
    BY <1>1, <1>2, <1>3, <1>7, <2>1 DEF PodEnds
  <2> QED  BY <2>1, <2>2 DEF Held, Leases!Return
<1>8. ASSUME NEW p \in Pods, NEW D \in SUBSET Gpus, Admits(p, D)  PROVE Leases!Lease(p)
  <2>1. charged[p] = {}
    BY <1>8 DEF Admits, IdleInv
  <2>2. Held' = Held
    BY <1>1, <1>2, <1>3, <1>8 DEF Admits
  <2> QED  BY <1>8, <2>1, <2>2 DEF Admits, Held, Leases!Lease, Leases!FreeDevices
<1> QED  BY <1>4, <1>5, <1>6, <1>7, <1>8, KindsOfSteps DEF Leases!LeaseNext

\* At first no pod is charged anything.
LEMMA LeasesInit ==
  ASSUME Init  PROVE IdleInv /\ Leases!LeaseInit
<1>1. IdleInv
  BY DEF Init, IdleInv
<1>2. Inv /\ charged = [p \in Pods |-> {}]
  BY InitInv DEF Init
<1>3. Held = [p \in Pods |-> {}]
  BY <1>1, <1>2, HeldIsCharged
<1> QED  BY <1>1, <1>2, <1>3 DEF Held, Leases!LeaseInit

\* With the kubelets, the plugins' Allocate implements the leases on any number of
\* nodes: a container gets all GPUs of its pod at once, by the files of their numbers,
\* and keeps them until the pod ends, whatever dies and comes back.
THEOREM LeasesImplemented == Spec => ImplementsLeases
<1>1. Init => IdleInv /\ Leases!LeaseInit
  BY LeasesInit
<1>2. Inv /\ IdleInv /\ [Next]_vars => IdleInv' /\ [Leases!LeaseNext]_(Leases!leaseVars)
  BY IdleStep, LeasesStep
<1> QED  BY <1>1, <1>2, Invariance, PTL DEF Spec, ImplementsLeases, Leases!LeaseSpec

----------------------------------------------------------------------------
(* The choice of a node.                                                    *)

\* The devices a pod names, by both annotations, are a list of UUIDs.
LEMMA TargetsTyped ==
  ASSUME NEW p \in Pods  PROVE Targets(p) \in Seq(UUIDs)
<1>1. TargetUUID[p] \in UUIDs \union {""} /\ TargetUUIDs[p] \in Seq(UUIDs)
  <2>1. /\ TargetUUID \in [Pods -> UUIDs \union {""}]
        /\ TargetUUIDs \in [Pods -> Seq(UUIDs)]
    BY TablesAssumption
  <2> QED  BY <2>1
<1>2. CASE TargetUUID[p] = ""
  BY <1>1, <1>2 DEF Targets
<1>3. CASE TargetUUID[p] # ""
  <2> DEFINE u == TargetUUID[p]
             s == TargetUUIDs[p]
  <2>1. u \in UUIDs /\ s \in Seq(UUIDs)
    BY <1>1, <1>3
  <2>2. Targets(p) = <<u>> \o s
    BY <1>3 DEF Targets
  <2> HIDE DEF u, s
  <2>3. <<u>> \in Seq(UUIDs)
    BY <2>1
  <2> QED  BY <2>1, <2>2, <2>3
<1> QED  BY <1>2, <1>3

\* All nodes that pass the filters have the same device score: a pod that names
\* devices only passes on a node that has one of them.
LEMMA FeasibleScoreAlike ==
  ASSUME NEW p \in Pods, NEW n \in Nodes, NEW m \in Nodes, Filter(p, n), Filter(p, m)
  PROVE  DeviceScore(p, n) = DeviceScore(p, m) /\ DeviceScore(p, n) \in Int
<1>1. Targets(p) \in Seq(UUIDs)
  BY TargetsTyped
<1>2. CASE Targets(p) = <<>>
  BY <1>2 DEF DeviceScore
<1>3. CASE Targets(p) # <<>>
  <2>1. ASSUME NEW k \in Nodes, Filter(p, k)  PROVE DeviceScore(p, k) = 100
    <3>1. PICK i \in 1..Len(Targets(p)) : NodeByDeviceUUID(Targets(p)[i]) = k
      BY <1>3, <2>1 DEF Filter
    <3>2. Targets(p)[i] \in ToSet(Targets(p))
      BY <1>1 DEF ToSet
    <3> QED  BY <1>3, <3>1, <3>2 DEF DeviceScore
  <2> QED  BY <2>1
<1> QED  BY <1>2, <1>3

\* A pod all of whose devices are known, and the nodes it may then go to.
DevicesKnown(p) == \A u \in ToSet(Targets(p)) : NodeByDeviceUUID(u) # ""
Named(p, n) == Targets(p) = <<>> \/ n \in {NodeByDeviceUUID(u) : u \in ToSet(Targets(p))}

\* A list that has no unknown device passes on the node of each of its devices.
LEMMA KnownDevicesPass ==
  ASSUME NEW p \in Pods, NEW n, DevicesKnown(p), Named(p, n)
  PROVE  Filter(p, n)
<1>1. CASE Targets(p) = <<>>
  BY <1>1 DEF Filter
<1>2. CASE Targets(p) # <<>>
  <2> DEFINE s == Targets(p)
  <2>1. s \in Seq(UUIDs)
    BY TargetsTyped
  <2> HIDE DEF s
  <2>2. DOMAIN s = 1..Len(s) /\ Len(s) \in Nat
    BY <2>1
  <2>3. PICK i \in DOMAIN s : NodeByDeviceUUID(s[i]) = n
    BY <1>2 DEF s, Named, ToSet
  <2>4. \A j \in DOMAIN s : NodeByDeviceUUID(s[j]) # ""
    BY DEF s, DevicesKnown, ToSet
  <2>5. i \in 1..Len(s) /\ \A j \in 1..i : j \in DOMAIN s
    BY <2>2, <2>3
  <2>6. \A j \in 1..i : NodeByDeviceUUID(s[j]) # ""
    BY <2>4, <2>5, Zenon
  <2> QED  BY <2>3, <2>5, <2>6, Zenon DEF s, Filter
<1> QED  BY <1>1, <1>2

\* The weighted scores are between 0 and those of a node that has the device and idles.
MaxTotal == 15 * 1000

LEMMA TotalBounded ==
  ASSUME NEW p \in Pods, NEW n \in Nodes
  PROVE  Total(p, n) \in Int /\ 0 <= Total(p, n) /\ Total(p, n) <= MaxTotal
<1> DEFINE u == NodeGPUUtilization(n)
           d == DeviceScore(p, n)
           q == (1000 - u) \div 10
<1>1. u \in 0..1000
  <2>1. \A k \in DOMAIN Utilization : Utilization[k] \in 0..1000
    BY TablesAssumption
  <2> QED  BY <2>1 DEF NodeGPUUtilization
<1>2. d \in 0..100
  BY DEF DeviceScore
<1>3. Total(p, n) = 100 * d + 50 * q
  BY DEF Total, UtilizationScore
<1> HIDE DEF u, d
<1>4. q \in 0..100
  BY <1>1
<1> HIDE DEF q
<1>5. /\ 100 * d + 50 * q \in Int /\ 0 <= 100 * d + 50 * q
      /\ 100 * d + 50 * q <= MaxTotal
  BY <1>2, <1>4 DEF MaxTotal
<1> QED  BY <1>3, <1>5

\* What PodsProceed waits for: a pod all of whose devices are known and that has room
\* on the node of one of them, or on any node if it names none, has a node that the
\* scheduler may choose, whatever the other plugins add.  Filter's early exits and the
\* choice of the best score leave no such pod without one.
THEOREM RoomMeansChoice ==
  ASSUME NEW p \in Pods, DevicesKnown(p), NEW n \in Nodes, Room(p, n), Named(p, n)
  PROVE  \E k \in Feasible(p) : \A m \in Feasible(p) : Total(p, m) <= Total(p, k) + OthersAtMost
<1> DEFINE Short(k) == MaxTotal - Total(p, k)
<1>1. n \in Feasible(p)
  <2>1. Filter(p, n) /\ Fits(p, n)
    BY KnownDevicesPass DEF Room
  <2>2. UtilizationFilter(p, n)
    BY DEF UtilizationFilter, PodGPUMemoryRequest, AvailableGPUMemory
  <2> QED  BY <2>1, <2>2 DEF Feasible
<1>2. ASSUME NEW k \in Feasible(p)
      PROVE  Total(p, k) \in Int /\ Short(k) \in Nat
  <2>1. Total(p, k) \in Int /\ 0 <= Total(p, k) /\ Total(p, k) <= MaxTotal
    BY TotalBounded DEF Feasible
  <2>2. MaxTotal \in Int
    BY DEF MaxTotal
  <2> QED  BY <2>1, <2>2
<1>3. PICK best \in Feasible(p) : \A k \in Feasible(p) : Short(best) <= Short(k)
  <2> DEFINE C == {Short(k) : k \in Feasible(p)}
  <2>1. C \in SUBSET Nat /\ C # {}
    BY <1>1, <1>2
  <2> HIDE DEF C
  <2>2. PICK c \in C : \A i \in C : c <= i
    BY <2>1, MinimalNumber
  <2> QED  BY <2>2 DEF C
<1>4. ASSUME NEW m \in Feasible(p)  PROVE Total(p, m) <= Total(p, best) + OthersAtMost
  <2>1. Short(best) <= Short(m)
    BY <1>3
  <2>2. Total(p, m) \in Int /\ Total(p, best) \in Int /\ MaxTotal \in Int
    BY <1>2 DEF MaxTotal
  <2>3. OthersAtMost \in Nat
    BY TablesAssumption
  <2> QED  BY <2>1, <2>2, <2>3
<1> QED  BY <1>4

\* A pod that goes from pending to bound was scheduled, on the node of its place.
LEMMA OnlyScheduleBinds ==
  ASSUME Inv, Next, NEW p \in Pods, pod[p] = "pending", pod'[p] = "bound"
  PROVE  Schedule(p)
<1>1. pod \in [Pods -> {"pending", "bound", "admitted", "running", "ended", "rejected"}]
  BY DEF Inv, TypeOK
<1>2. ASSUME NEW n \in Nodes, Disconnected(n)  PROVE FALSE
  BY <1>2 DEF Disconnected
<1>3. ASSUME NEW n \in Nodes, Kubelet(n)  PROVE FALSE
  BY <1>2, <1>3 DEF Kubelet, Connect, KubeletRestarts, pods
<1>4. ASSUME NEW n \in Nodes, Allocate(n)  PROVE FALSE
  BY <1>1, <1>4 DEF Allocate
<1>5. ASSUME NEW n \in Nodes, Process(n)  PROVE FALSE
  BY <1>2, <1>4, <1>5 DEF Process, Start, Crash, Cancel, RemoveSocket, Exit, ProcessEnds,
     Fill, SendList, pods
<1>6. ASSUME NEW q \in Pods, Admit(q) \/ PodEnds(q)  PROVE FALSE
  BY <1>1, <1>6 DEF Admit, PodEnds
<1>7. ASSUME NEW q \in Pods, Schedule(q)  PROVE q = p
  BY <1>1, <1>7 DEF Schedule
<1> QED  BY <1>3, <1>5, <1>6, <1>7 DEF Next

\* However much kube-scheduler's own plugins may add, no pod goes to a node that is
\* busier by more than they can outweigh than another feasible one (Filter and Score of
\* both plugins), for all tables of utilizations and devices.
THEOREM IdleNodesWin == Spec => ClearlyLessLoadedWins
<1> DEFINE Wins(p) == \A m \in Feasible(p) :
                        NodeGPUUtilization(place'[p]) < NodeGPUUtilization(m) + ClearDifference
<1>1. ASSUME Inv, Next, NEW p \in Pods, pod[p] = "pending", pod'[p] = "bound",
             NEW m \in Feasible(p)
      PROVE  NodeGPUUtilization(place'[p]) < NodeGPUUtilization(m) + ClearDifference
  <2>1. PICK n \in Feasible(p) : /\ Total(p, m) <= Total(p, n) + OthersAtMost
                                 /\ place' = [place EXCEPT ![p] = n]
    BY <1>1, OnlyScheduleBinds DEF Schedule
  <2>2. place'[p] = n
    BY <1>1, <2>1 DEF Inv, TypeOK
  <2>3. DeviceScore(p, n) = DeviceScore(p, m) /\ DeviceScore(p, n) \in Int
    BY <2>1, FeasibleScoreAlike DEF Feasible
  <2>4. \A k \in Nodes : NodeGPUUtilization(k) \in 0..1000
    <3>1. \A k \in DOMAIN Utilization : Utilization[k] \in 0..1000
      BY TablesAssumption
    <3>2. ASSUME NEW k \in Nodes  PROVE NodeGPUUtilization(k) \in 0..1000
      BY <3>1 DEF NodeGPUUtilization
    <3> QED  BY <3>2
  <2>5. NodeGPUUtilization(n) \in 0..1000 /\ NodeGPUUtilization(m) \in 0..1000
    BY <2>4 DEF Feasible
  <2>6. 100 * DeviceScore(p, n) + 50 * ((1000 - NodeGPUUtilization(m)) \div 10)
          <= 100 * DeviceScore(p, n) + 50 * ((1000 - NodeGPUUtilization(n)) \div 10) + OthersAtMost
    BY <2>1, <2>3 DEF Total, UtilizationScore
  <2>7. NodeGPUUtilization(n) < NodeGPUUtilization(m) + ClearDifference
    <3> DEFINE u == NodeGPUUtilization(n)
               v == NodeGPUUtilization(m)
               d == DeviceScore(p, n)
               o == OthersAtMost
    <3>1. /\ u \in 0..1000 /\ v \in 0..1000 /\ d \in Int /\ o \in Nat
      BY <2>3, <2>5, TablesAssumption
    <3>2. 100 * d + 50 * ((1000 - v) \div 10) <= 100 * d + 50 * ((1000 - u) \div 10) + o
      BY <2>6
    <3> HIDE DEF u, v, d, o
    \* A full percent is a point of the utilization's score, truncated or not; at
    \* weight 50 one point more than o \div 50 is more than o.
    <3>3. u < v + 10 * (o \div 50 + 1)
      <4> DEFINE k == o \div 50
                 x == (1000 - v) \div 10
                 y == (1000 - u) \div 10
      <4>1. k \in Int /\ x \in Int /\ y \in Int
        BY <3>1
      <4>2. o < 50 * k + 50
        BY <3>1
      <4>3. 1000 - v < 10 * x + 10 /\ 10 * y <= 1000 - u
        BY <3>1
      <4>4. 100 * d + 50 * x <= 100 * d + 50 * y + o
        BY <3>2
      <4> HIDE DEF k, x, y
      <4>5. x <= y + k
        BY <3>1, <4>1, <4>2, <4>4
      <4>6. u < v + 10 * (k + 1)
        BY <3>1, <4>1, <4>3, <4>5
      <4> QED  BY <4>6 DEF k
    <3> QED  BY <3>3 DEF u, v, o, ClearDifference
  <2> QED  BY <2>2, <2>7
<1>2. Inv /\ [Next]_vars =>
        [\A p \in Pods : pod[p] = "pending" /\ pod'[p] = "bound" => Wins(p)]_vars
  <2> SUFFICES ASSUME Inv, Next, NEW p \in Pods, pod[p] = "pending", pod'[p] = "bound"
               PROVE  Wins(p)
    OBVIOUS
  <2> QED  BY <1>1
<1> QED  BY <1>2, Invariance, PTL DEF Spec, ClearlyLessLoadedWins
=============================================================================
