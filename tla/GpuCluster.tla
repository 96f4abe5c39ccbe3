---------------------------- MODULE GpuCluster ----------------------------
(***************************************************************************)
(* Week1: the GPU-aware scheduler (1.2) places pods on nodes, the kubelet  *)
(* of a node picks devices for them, and the GPU device plugin (1.1, pkg/  *)
(* plugin, pkg/device, cmd/plugin) tells it what a container needs to use  *)
(* them.  One plugin process per node.                                     *)
(*                                                                         *)
(* kube-scheduler's cycle around the plugins, the kubelet and the gRPC     *)
(* server and registration, which the plugin only sketches, are external   *)
(* and modelled from how the code uses them.                               *)
(***************************************************************************)
EXTENDS GpuPlugins, FiniteSetsExt

CONSTANTS
  Nodes,
  Gpus,         \* Kubernetes' device ids
  NodeOfGpu,    \* for each of them the node it is plugged into
  GPUIndex,     \* its number on that node, which names its device file
  UuidOfGpu,    \* its UUID
  Wants,        \* for each pod the number of GPUs it requests
  MaxFailures   \* bound: ends of a plugin process, restarts of a kubelet

ASSUME ClusterAssumption ==
  /\ IsFiniteSet(Gpus)
  /\ NodeOfGpu \in [Gpus -> Nodes] /\ GPUIndex \in [Gpus -> Nat]
  /\ UuidOfGpu \in [Gpus -> UUIDs]
  /\ \A g, h \in Gpus : g # h /\ NodeOfGpu[g] = NodeOfGpu[h] => GPUIndex[g] # GPUIndex[h]
  /\ Wants \in [Pods -> Nat \ {0}]
  /\ MaxFailures \in Nat

VARIABLES
  process,     \* for each node its plugin process
  socket,      \* does its socket file exist?
  devices,     \* GPUDevicePlugin.devices, a map that no lock protects
  stream,      \* where its ListAndWatch handler is
  registered,  \* the kubelet has a registration it has not used up
  available,   \* the healthy devices the kubelet knows of
  request,     \* the Allocate call in progress: a pod and its devices, in order
  pod,         \* for each pod where it is in its life
  place,       \* the node it is bound to
  charged,     \* the devices the kubelet counts as its own
  container,   \* what Allocate has put into its container
  left,        \* history: a terminated process has left its socket file behind
  failures

plugin  == <<process, socket, devices, stream>>
kubelet == <<registered, available, request>>
pods    == <<pod, place, charged, container>>
vars    == <<plugin, kubelet, pods, left, failures>>

NoCall      == [pod |-> "none", ids |-> <<>>]
NoContainer == [files |-> {}, uuid |-> ""]

Hosted(n) == {g \in Gpus : NodeOfGpu[g] = n}

TypeOK ==
  /\ process \in [Nodes -> {"down", "serving", "cancelled", "cleaned"}]
  /\ socket \in [Nodes -> BOOLEAN] /\ left \in [Nodes -> BOOLEAN]
  /\ devices \in [Nodes -> SUBSET Gpus] /\ available \in [Nodes -> SUBSET Gpus]
  /\ stream \in [Nodes -> {"none", "filling", "sending", "watching"}]
  /\ registered \in [Nodes -> BOOLEAN]
  /\ request \in [Nodes -> {NoCall} \union [pod : Pods, ids : Seq(Gpus)]]
  /\ pod \in [Pods -> {"pending", "bound", "admitted", "running", "ended", "rejected"}]
  /\ place \in [Pods -> Nodes \union {""}]
  /\ charged \in [Pods -> SUBSET Gpus]
  /\ container \in [Pods -> [files : SUBSET Range(GPUIndex),
                             uuid  : Range(UuidOfGpu) \union {""}]]
  /\ failures \in 0..MaxFailures

Init ==
  /\ process = [n \in Nodes |-> "down"] /\ socket = [n \in Nodes |-> FALSE]
  /\ devices = [n \in Nodes |-> {}] /\ available = devices
  /\ stream = [n \in Nodes |-> "none"] /\ registered = socket
  /\ request = [n \in Nodes |-> NoCall]
  /\ pod = [p \in Pods |-> "pending"] /\ place = [p \in Pods |-> ""]
  /\ charged = [p \in Pods |-> {}] /\ container = [p \in Pods |-> NoContainer]
  /\ left = socket /\ failures = 0

Fails == failures < MaxFailures /\ failures' = failures + 1

----------------------------------------------------------------------------
(* The scheduler.                                                           *)

OnNode(n) == {p \in Pods : place[p] = n /\ pod[p] \in {"bound", "admitted", "running"}}

\* NodeResourcesFit: room for a pod among the devices the node offers
Fits(p, n) == Wants[p] + SumFunctionOnSet(Wants, OnNode(n)) <= Cardinality(available[n])

Feasible(p) == {n \in Nodes : Filter(p, n) /\ UtilizationFilter(p, n) /\ Fits(p, n)}

\* A node of the highest score is chosen, whatever kube-scheduler's own plugins add.
Schedule(p) ==
  /\ pod[p] = "pending"
  /\ \E n \in Feasible(p) :
       /\ \A m \in Feasible(p) : Total(p, m) <= Total(p, n) + OthersAtMost
       /\ pod' = [pod EXCEPT ![p] = "bound"] /\ place' = [place EXCEPT ![p] = n]
  /\ UNCHANGED <<plugin, kubelet, charged, container, left, failures>>

----------------------------------------------------------------------------
(* The kubelet of a node.                                                   *)

Connected(n) == stream[n] # "none"

\* It dials a plugin that has registered, and calls ListAndWatch.
Connect(n) ==
  /\ registered[n] /\ process[n] # "down" /\ ~Connected(n)
  /\ registered' = [registered EXCEPT ![n] = FALSE]
  /\ stream' = [stream EXCEPT ![n] = "filling"]
  /\ UNCHANGED <<process, socket, devices, available, request, pods, left, failures>>

\* The stream ends: no device of the node is healthy any more, and the pod of a
\* call in progress is rejected.
Disconnected(n) ==
  /\ stream' = [stream EXCEPT ![n] = "none"]
  /\ available' = [available EXCEPT ![n] = {}]
  /\ registered' = [registered EXCEPT ![n] = FALSE]
  /\ request' = [request EXCEPT ![n] = NoCall]
  /\ LET dropped == {p \in Pods : request[n] # NoCall /\ request[n].pod = p} IN
     /\ pod' = [p \in Pods |-> IF p \in dropped THEN "rejected" ELSE pod[p]]
     /\ charged' = [p \in Pods |-> IF p \in dropped THEN {} ELSE charged[p]]
  /\ UNCHANGED <<place, container>>

\* A restarted kubelet has forgotten the plugin; what it had charged to pods is
\* in its checkpoint.  The handler sees its context done and returns.
KubeletRestarts(n) ==
  /\ Fails
  /\ Disconnected(n)
  /\ UNCHANGED <<process, socket, devices, left>>

Free(n) == available[n] \ UNION {charged[p] : p \in Pods}

\* GetPreferredAllocation: every device of the node, whatever is asked for.
PreferredAllocation(n) == devices[n]

\* It admits a bound pod if enough devices are free, preferred ones first, and
\* calls Allocate.
Admit(p) ==
  LET n == place[p] IN
  /\ pod[p] = "bound" /\ request[n] = NoCall
  /\ IF Cardinality(Free(n)) < Wants[p]
     THEN /\ pod' = [pod EXCEPT ![p] = "rejected"]
          /\ UNCHANGED <<charged, request>>
     ELSE \E D \in kSubset(Wants[p], Free(n)) : \E ids \in SetToSeqs(D) :
            /\ \/ D \subseteq PreferredAllocation(n)
               \/ PreferredAllocation(n) \intersect Free(n) \subseteq D
            /\ request' = [request EXCEPT ![n] = [pod |-> p, ids |-> ids]]
            /\ charged' = [charged EXCEPT ![p] = D]
            /\ pod' = [pod EXCEPT ![p] = "admitted"]
  /\ UNCHANGED <<plugin, registered, available, place, container, left, failures>>

PodEnds(p) ==
  /\ pod[p] = "running"
  /\ pod' = [pod EXCEPT ![p] = "ended"]
  /\ charged' = [charged EXCEPT ![p] = {}]
  /\ container' = [container EXCEPT ![p] = NoContainer]
  /\ UNCHANGED <<plugin, kubelet, place, left, failures>>

----------------------------------------------------------------------------
(* The process of the device plugin (cmd/plugin/main.go).                   *)

\* main discovers the devices, serves and registers.
Start(n) ==
  /\ process[n] = "down"
  /\ devices' = [devices EXCEPT ![n] = Hosted(n)]
  /\ process' = [process EXCEPT ![n] = "serving"] /\ socket' = [socket EXCEPT ![n] = TRUE]
  /\ registered' = [registered EXCEPT ![n] = TRUE]
  /\ left' = [left EXCEPT ![n] = FALSE]
  /\ UNCHANGED <<stream, available, request, pods, failures>>

ProcessEnds(n) ==
  /\ process' = [process EXCEPT ![n] = "down"]
  /\ devices' = [devices EXCEPT ![n] = {}]
  /\ Disconnected(n)
  /\ UNCHANGED socket

Crash(n) ==
  /\ process[n] # "down"
  /\ Fails
  /\ ProcessEnds(n)
  /\ UNCHANGED left

\* SIGTERM wakes a goroutine, which cancels the context first ...
Cancel(n) ==
  /\ process[n] = "serving"
  /\ Fails
  /\ process' = [process EXCEPT ![n] = "cancelled"]
  /\ UNCHANGED <<socket, devices, stream, kubelet, pods, left>>

\* ... then removes the socket file and ends the process.
RemoveSocket(n) ==
  /\ process[n] = "cancelled"
  /\ process' = [process EXCEPT ![n] = "cleaned"]
  /\ socket' = [socket EXCEPT ![n] = FALSE]
  /\ UNCHANGED <<devices, stream, kubelet, pods, left, failures>>

\* os.Exit, or main returns, which has been waiting for the context to be done.
Exit(n) ==
  /\ process[n] \in {"cancelled", "cleaned"}
  /\ ProcessEnds(n)
  /\ left' = [left EXCEPT ![n] = socket[n]]
  /\ UNCHANGED failures

----------------------------------------------------------------------------
(* Its gRPC methods.                                                        *)

\* ListAndWatch writes every device into the map ...
Fill(n) ==
  /\ stream[n] = "filling"
  /\ devices' = [devices EXCEPT ![n] = @ \union Hosted(n)]
  /\ stream' = [stream EXCEPT ![n] = "sending"]
  /\ UNCHANGED <<process, socket, kubelet, pods, left, failures>>

\* Mutant: the list is sent before the map is written.
SendListFirst(n) ==
  /\ stream[n] = "filling" /\ available[n] = {}
  /\ available' = [available EXCEPT ![n] = Hosted(n)]
  /\ UNCHANGED <<plugin, registered, request, pods, left, failures>>

\* ... then sends the list, once, and waits for the stream to end.
SendList(n) ==
  /\ stream[n] = "sending"
  /\ available' = [available EXCEPT ![n] = Hosted(n)]
  /\ stream' = [stream EXCEPT ![n] = "watching"]
  /\ UNCHANGED <<process, socket, devices, registered, request, pods, left, failures>>

\* Mutant: the files are numbered by their place in the request.
DeviceFilesByPlace(n, ids) == {i - 1 : i \in {j \in 1..Len(ids) : ids[j] \in devices[n]}}

\* Mutant: the first device speaks for all, as it does for the variables.
DeviceFilesOfFirst(n, ids) == {GPUIndex[g] : g \in {ids[1]} \intersect devices[n]}

\* buildDevices: the device file of each device in the map; the files that all
\* containers share are left out.
DeviceFiles(n, ids) == {GPUIndex[g] : g \in ToSet(ids) \intersect devices[n]}

\* Mutant: the variable gets the id that Kubernetes knows the device by.
GPU_UUIDById(n, ids) == IF ids[1] \in devices[n] THEN ids[1] ELSE ""

\* buildEnvironmentVariables, buildAnnotations: the first device speaks for all.
GPU_UUID(n, ids) == IF ids[1] \in devices[n] THEN UuidOfGpu[ids[1]] ELSE ""

Allocate(n) ==
  LET p == request[n].pod
      ids == request[n].ids
  IN  /\ request[n] # NoCall
      /\ container' = [container EXCEPT ![p] =
                         [files |-> DeviceFiles(n, ids), uuid |-> GPU_UUID(n, ids)]]
      /\ pod' = [pod EXCEPT ![p] = "running"]
      /\ request' = [request EXCEPT ![n] = NoCall]
      /\ UNCHANGED <<plugin, registered, available, place, charged, left, failures>>

----------------------------------------------------------------------------
Kubelet(n) == Connect(n) \/ KubeletRestarts(n)

Process(n) ==
  \/ Start(n) \/ Crash(n) \/ Cancel(n) \/ RemoveSocket(n) \/ Exit(n)
  \/ Fill(n) \/ SendList(n) \/ Allocate(n)

Next ==
  \/ \E n \in Nodes : Kubelet(n) \/ Process(n)
  \/ \E p \in Pods : Schedule(p) \/ Admit(p) \/ PodEnds(p)

Spec == Init /\ [][Next]_vars

\* The scheduler tries pending pods again and again; kubelet, processes and
\* handlers run.  Pods need not end.
FairSpec ==
  /\ Spec
  /\ \A p \in Pods : WF_vars(Schedule(p)) /\ WF_vars(Admit(p))
  /\ \A n \in Nodes : /\ WF_vars(Connect(n)) /\ WF_vars(Start(n)) /\ WF_vars(Exit(n))
                      /\ WF_vars(Fill(n)) /\ WF_vars(SendList(n)) /\ WF_vars(Allocate(n))

----------------------------------------------------------------------------
(* Properties.                                                              *)

\* No lock protects the plugin's map of devices, and Go ends a process that reads
\* a map while it is written.  ListAndWatch never writes it while Allocate (or
\* GetPreferredAllocation before it) may read it.
MapNotShared == \A n \in Nodes : stream[n] = "filling" => request[n] = NoCall

\* A running container has the device files of exactly the GPUs its pod is
\* charged for, is told the UUID of one of them, and shares none with another
\* container of its node, whatever dies and comes back in between.
ContainersMatchCharges ==
  \A p \in Pods : pod[p] = "running" =>
    /\ Cardinality(charged[p]) = Wants[p]
    /\ container[p].files = {GPUIndex[g] : g \in charged[p]}
    /\ container[p].uuid \in {UuidOfGpu[g] : g \in charged[p]}
    /\ \A q \in Pods \ {p} : place[q] = place[p] /\ pod[q] = "running" =>
         container[p].files \intersect container[q].files = {}

\* The GPUs of its node whose device files the container of a pod has.
HeldGpus(p) == {g \in Hosted(place[p]) : GPUIndex[g] \in container[p].files}

\* With the kubelets the plugins implement the leases: a container gets all GPUs of
\* its pod in one step and keeps them until the pod ends, whatever dies in between.
Leases == INSTANCE DeviceLeases WITH
            Devices <- Gpus, leased <- charged, held <- [p \in Pods |-> HeldGpus(p)]
ImplementsLeases == Leases!LeaseSpec

\* The difference in utilization, in tenths of a percent, that outweighs all other
\* plugins together, although the score is truncated: a point of it weighs 50.
ClearDifference == 10 * (OthersAtMost \div 50 + 1)

\* Through filters, truncated scores, weights and the opinion of the other
\* plugins, a pod never goes to a node that is busier by so much than another
\* one it could have gone to.
ClearlyLessLoadedWins ==
  [][\A p \in Pods : pod[p] = "pending" /\ pod'[p] = "bound" =>
       \A m \in Feasible(p) :
         NodeGPUUtilization(place'[p]) < NodeGPUUtilization(m) + ClearDifference]_vars

Room(p, n) == n \in Nodes /\ Fits(p, n)

\* A pod all of whose devices are known does not wait for ever while there is
\* room for it on the node of one of them (on any node, if it names none).
PodsProceed ==
  \A p \in Pods :
    <>[](/\ \A u \in ToSet(Targets(p)) : NodeByDeviceUUID(u) # ""
         /\ \E n \in Nodes : Room(p, n) /\ (\/ Targets(p) = <<>>
                                            \/ n \in {NodeByDeviceUUID(u) : u \in ToSet(Targets(p))}))
      => <>(pod[p] # "pending")

\* Contradicted by the code: a pod that names devices runs with one of them.  The
\* scheduler plugin only picks its node; the kubelet then chooses among the devices
\* of that node, and GetPreferredAllocation, which knows no pod, prefers them all.
NamedDeviceIsGiven ==
  \A p \in Pods : pod[p] = "running" /\ Targets(p) # <<>> =>
    \E g \in charged[p] : UuidOfGpu[g] \in ToSet(Targets(p))

\* Contradicted by the code: a plugin that is told to terminate removes its
\* socket file before it exits.
ExitRemovesSocket == \A n \in Nodes : ~left[n]
=============================================================================
