------------------------- MODULE RdmaDevicePlugin -------------------------
(***************************************************************************)
(* The RDMA device plugin of week3 (pkg/plugin/plugin.go, pkg/device/      *)
(* rdma.go) on one node: a process that discovers the node's RDMA devices, *)
(* registers with the kubelet, reports their health every ten seconds over *)
(* a stream and answers the kubelet's Allocate calls.                      *)
(*                                                                         *)
(* The ports may change at any moment, also in the middle of a health      *)
(* check; the plugin and the kubelet may die and come back independently.  *)
(* The kubelet, sysfs and the gRPC server and registration, which the code *)
(* only stubs, are modelled from how the plugin uses them.                 *)
(***************************************************************************)
EXTENDS FiniteSets, Naturals

CONSTANTS
  Devices,         \* RDMA devices that may show up under /sys/class/infiniband
  Pods,
  MaxPortChanges,  \* bound: changes of a port
  MaxFailures      \* bound: deaths of the plugin or the kubelet

ASSUME BoundsAssumption == MaxPortChanges \in Nat /\ MaxFailures \in Nat

VARIABLES
  port,        \* what sysfs says of each device
  process,     \* the plugin's process
  socket,      \* does the plugin's socket file exist?
  deviceList,  \* the plugin's health flag of every device it has discovered
  stopped,     \* stopCh is closed
  stream,      \* where the ListAndWatch handler is
  toCheck,     \* devices updateDeviceHealth has yet to look at
  registered,  \* the kubelet has a registration it has not used up
  connected,   \* the kubelet's end of the ListAndWatch stream is up
  view,        \* the devices as the kubelet knows them
  request,     \* the Allocate call in progress: a pod and the devices for it
  charged,     \* for each pod the devices the kubelet counts as its own
  nodes,       \* for each pod the device nodes that its container got
  settled,     \* history: ports unchanged since the last health check began
  changes, failures

environment == <<port, changes>>
plugin      == <<process, socket, deviceList, stopped>>
handler     == <<stream, toCheck, settled>>
kubelet     == <<registered, connected, view>>
allocation  == <<request, charged, nodes>>
vars == <<environment, plugin, handler, kubelet, allocation, failures>>

Ports   == {"active", "down", "absent"}
Reports == {"Healthy", "Unhealthy"}
NoCall  == [pod |-> "none", ids |-> {}]

DeviceLists == UNION {[D -> BOOLEAN] : D \in SUBSET Devices}

TypeOK ==
  /\ port \in [Devices -> Ports]
  /\ process \in {"down", "serving", "stopping"}
  /\ socket \in BOOLEAN /\ stopped \in BOOLEAN
  /\ deviceList \in DeviceLists
  /\ stream \in {"none", "initial", "waiting", "checking"}
  /\ toCheck \subseteq DOMAIN deviceList
  /\ registered \in BOOLEAN /\ connected \in BOOLEAN
  /\ view \in [Devices -> Reports \union {"unknown"}]
  /\ request \in [pod : Pods, ids : SUBSET Devices] \union {NoCall}
  /\ charged \in [Pods -> SUBSET Devices] /\ nodes \in [Pods -> SUBSET Devices]
  /\ settled \subseteq Devices
  /\ changes \in 0..MaxPortChanges /\ failures \in 0..MaxFailures

Init ==
  /\ port \in [Devices -> Ports] /\ changes = 0
  /\ process = "down" /\ socket = FALSE /\ stopped = FALSE
  /\ deviceList = [d \in {} |-> FALSE]
  /\ stream = "none" /\ toCheck = {} /\ settled = {}
  /\ registered = FALSE /\ connected = FALSE
  /\ view = [d \in Devices |-> "unknown"]
  /\ request = NoCall
  /\ charged = [p \in Pods |-> {}] /\ nodes = [p \in Pods |-> {}]
  /\ failures = 0

----------------------------------------------------------------------------
(* sysfs                                                                    *)

PortChanges(d) ==
  /\ changes < MaxPortChanges /\ changes' = changes + 1
  /\ \E s \in Ports \ {port[d]} : port' = [port EXCEPT ![d] = s]
  /\ settled' = settled \ {d}
  /\ UNCHANGED <<plugin, stream, toCheck, kubelet, allocation, failures>>

\* A state file that cannot be read counts as unhealthy.
CheckDeviceHealth(d) == port[d] = "active"

\* The entries of the directory; there are none if it does not exist.
DiscoverDevices ==
  [d \in {e \in Devices : port[e] # "absent"} |-> CheckDeviceHealth(d)]

----------------------------------------------------------------------------
(* The kubelet.                                                             *)

\* The stream ends: the kubelet gives up the endpoint and counts every device
\* it knew as unhealthy.
Disconnected ==
  /\ connected' = FALSE
  /\ view' = [d \in Devices |-> IF view[d] = "unknown" THEN "unknown" ELSE "Unhealthy"]

\* It dials a plugin that has registered, once per registration.
Connect ==
  /\ registered /\ process = "serving" /\ stream = "none"
  /\ registered' = FALSE /\ connected' = TRUE
  /\ stream' = "initial"
  /\ UNCHANGED <<environment, plugin, toCheck, settled, view, allocation, failures>>

\* A restarted kubelet forgets registrations and devices, and removes the
\* sockets of its plugins; what it had charged to pods is in its checkpoint.
KubeletRestarts ==
  /\ failures < MaxFailures /\ failures' = failures + 1
  /\ registered' = FALSE /\ connected' = FALSE
  /\ view' = [d \in Devices |-> "unknown"]
  /\ socket' = FALSE
  /\ IF request = NoCall THEN UNCHANGED charged
                         ELSE charged' = [charged EXCEPT ![request.pod] = {}]
  /\ request' = NoCall
  /\ UNCHANGED <<environment, process, deviceList, stopped, handler, nodes>>

Free == Devices \ UNION {charged[p] : p \in Pods}

\* A pod asks for devices: the kubelet takes healthy ones that are free.
CallAllocate(p) ==
  /\ connected /\ request = NoCall /\ charged[p] = {}
  /\ \E ids \in SUBSET {d \in Free : view[d] = "Healthy"} :
       /\ ids # {}
       /\ request' = [pod |-> p, ids |-> ids]
       /\ charged' = [charged EXCEPT ![p] = ids]
  /\ UNCHANGED <<environment, plugin, handler, kubelet, nodes, failures>>

PodEnds(p) ==
  /\ nodes[p] # {}
  /\ charged' = [charged EXCEPT ![p] = {}] /\ nodes' = [nodes EXCEPT ![p] = {}]
  /\ UNCHANGED <<environment, plugin, handler, kubelet, request, failures>>

----------------------------------------------------------------------------
(* The plugin's process.                                                    *)

\* Mutant: cleanup keeps the socket file of the previous process.
CleanupNothing(s) == s

\* cleanup removes the socket file, if there is one.
Cleanup(s) == FALSE

\* Run and Start in a fresh process: discover, clean up, listen, register.
\* Listening fails if the socket file is still there, and the process exits.
Start ==
  /\ process = "down"
  /\ ~Cleanup(socket)
  /\ deviceList' = DiscoverDevices
  /\ process' = "serving" /\ socket' = TRUE /\ stopped' = FALSE
  /\ registered' = TRUE
  /\ UNCHANGED <<environment, handler, connected, view, allocation, failures>>

\* SIGTERM: Run calls Stop, which closes stopCh and removes the socket.
Stop ==
  /\ process = "serving"
  /\ failures < MaxFailures /\ failures' = failures + 1
  /\ process' = "stopping" /\ stopped' = TRUE /\ socket' = Cleanup(socket)
  /\ UNCHANGED <<environment, deviceList, handler, kubelet, allocation>>

\* With the process go its handler, the stream and a call in progress.
ProcessEnds ==
  /\ process' = "down" /\ stopped' = FALSE /\ deviceList' = [d \in {} |-> FALSE]
  /\ stream' = "none" /\ toCheck' = {} /\ settled' = {}
  /\ IF connected THEN Disconnected ELSE UNCHANGED <<connected, view>>
  /\ registered' = FALSE
  /\ request' = NoCall
  /\ charged' = IF request = NoCall THEN charged ELSE [charged EXCEPT ![request.pod] = {}]
  /\ UNCHANGED <<environment, socket, nodes>>

\* Run returns after Stop without waiting for the handlers.
Exit == process = "stopping" /\ ProcessEnds /\ UNCHANGED failures

Crash ==
  /\ process = "serving"
  /\ failures < MaxFailures /\ failures' = failures + 1
  /\ ProcessEnds

----------------------------------------------------------------------------
(* ListAndWatch.                                                            *)

\* getGRPCDevices: the list that is sent, a device not discovered is not in it.
GRPCDevices ==
  [d \in Devices |-> IF d \notin DOMAIN deviceList THEN "unknown"
                     ELSE IF deviceList[d] THEN "Healthy" ELSE "Unhealthy"]

\* Send fails when the kubelet's end of the stream is gone; the handler ends.
Send ==
  IF connected
  THEN /\ view' = GRPCDevices /\ stream' = "waiting"
       /\ UNCHANGED <<registered, connected>>
  ELSE /\ stream' = "none"
       /\ UNCHANGED kubelet

SendInitial ==
  /\ stream = "initial"
  /\ Send
  /\ UNCHANGED <<environment, plugin, toCheck, settled, allocation, failures>>

\* Mutant: the ports of sysfs are walked instead of the plugin's own list.
TickAllPorts ==
  /\ stream = "waiting"
  /\ stream' = "checking" /\ toCheck' = Devices
  /\ settled' = DOMAIN deviceList
  /\ UNCHANGED <<environment, plugin, kubelet, allocation, failures>>

\* time.After fires: updateDeviceHealth begins.
Tick ==
  /\ stream = "waiting"
  /\ stream' = "checking" /\ toCheck' = DOMAIN deviceList
  /\ settled' = DOMAIN deviceList
  /\ UNCHANGED <<environment, plugin, kubelet, allocation, failures>>

\* Mutant: the flag is written to a copy of the entry.
CheckOneLost(d) ==
  /\ stream = "checking" /\ d \in toCheck
  /\ toCheck' = toCheck \ {d}
  /\ UNCHANGED <<environment, plugin, stream, settled, kubelet, allocation, failures>>

\* updateDeviceHealth looks at the devices one by one, in the map's order.
CheckOne(d) ==
  /\ stream = "checking" /\ d \in toCheck
  /\ deviceList' = [deviceList EXCEPT ![d] = CheckDeviceHealth(d)]
  /\ toCheck' = toCheck \ {d}
  /\ UNCHANGED <<environment, process, socket, stopped, stream, settled,
                 kubelet, allocation, failures>>

\* Mutant: the list is sent before the check has seen every device.
SendUpdateEarly ==
  /\ stream = "checking" /\ toCheck # DOMAIN deviceList
  /\ Send
  /\ toCheck' = {}
  /\ UNCHANGED <<environment, plugin, settled, allocation, failures>>

SendUpdate ==
  /\ stream = "checking" /\ toCheck = {}
  /\ Send
  /\ UNCHANGED <<environment, plugin, toCheck, settled, allocation, failures>>

\* <-stopCh: the handler returns, the stream ends in order.
StopSeen ==
  /\ stream = "waiting" /\ stopped
  /\ stream' = "none"
  /\ IF connected THEN Disconnected ELSE UNCHANGED <<connected, view>>
  /\ UNCHANGED <<environment, plugin, toCheck, settled, registered, allocation, failures>>

----------------------------------------------------------------------------
(* Allocate.                                                                *)

\* Mutant: every device of the node is passed to the container.
ContainerResponseAll(ids) == DOMAIN deviceList

\* Mutant: a device whose health has failed since is passed over.
ContainerResponseHealthy(ids) == {d \in ids \intersect DOMAIN deviceList : deviceList[d]}

\* generateContainerResponse: one verbs node per requested device (and the
\* umad and issm nodes, which all containers share).  Health is not looked at.
ContainerResponse(ids) == ids

Allocate ==
  /\ request # NoCall /\ connected
  /\ nodes' = [nodes EXCEPT ![request.pod] = ContainerResponse(request.ids)]
  /\ request' = NoCall
  /\ UNCHANGED <<environment, plugin, handler, kubelet, charged, failures>>

\* The stream ended while the call was under way: the kubelet rejects the pod.
AllocateFails ==
  /\ request # NoCall /\ ~connected
  /\ charged' = [charged EXCEPT ![request.pod] = {}]
  /\ request' = NoCall
  /\ UNCHANGED <<environment, plugin, handler, kubelet, nodes, failures>>

----------------------------------------------------------------------------
ListAndWatch == SendInitial \/ Tick \/ (\E d \in Devices : CheckOne(d)) \/ SendUpdate \/ StopSeen

Kubelet ==
  \/ Connect \/ KubeletRestarts \/ AllocateFails
  \/ \E p \in Pods : CallAllocate(p) \/ PodEnds(p)

Next ==
  \/ Start \/ Stop \/ Exit \/ Crash \/ Allocate
  \/ ListAndWatch \/ Kubelet
  \/ \E d \in Devices : PortChanges(d)

Spec == Init /\ [][Next]_vars

\* The DaemonSet restarts the process, the kubelet dials registered plugins,
\* timers fire and the handler's goroutine runs.
FairSpec ==
  /\ Spec
  /\ WF_vars(Start) /\ WF_vars(Exit) /\ WF_vars(Connect)
  /\ WF_vars(ListAndWatch)

----------------------------------------------------------------------------
(* Properties.                                                              *)

\* After each report the kubelet knows the truth about every port that has not
\* changed since the health check behind the report began, however the checks
\* of the single devices interleave with changes of other ports, and whatever
\* died in between.
ReportIsCurrent ==
  stream = "waiting" /\ connected =>
    \A d \in settled : view[d] = (IF port[d] = "active" THEN "Healthy" ELSE "Unhealthy")

\* A container never holds a device that the kubelet counts as free or as
\* another pod's, across restarts of plugin and kubelet.
NodesAreExclusive ==
  \A p \in Pods :
    /\ nodes[p] \subseteq charged[p]
    /\ \A q \in Pods \ {p} : nodes[p] \intersect (nodes[q] \union charged[q]) = {}

\* With the kubelet it implements the leases: a container gets all devices of its
\* pod in one step and keeps them until the pod ends, whatever dies in between.
Leases == INSTANCE DeviceLeases WITH leased <- charged, held <- nodes
ImplementsLeases == Leases!LeaseSpec

\* A device whose port goes down for good is not offered for ever.
FailureReachesKubelet ==
  \A d \in Devices : <>[](port[d] # "active") => <>[](view[d] # "Healthy")

\* The plugin serves a kubelet that is through with its registration: after a
\* kubelet restart nothing registers it again.
Orphaned == process = "serving" /\ ~registered /\ ~connected

\* A plugin that dies comes back and reports again, past the socket file its
\* predecessor left behind, unless the kubelet restarts meanwhile.
PluginComesBack == process = "down" ~> (connected \/ Orphaned)

\* Contradicted by the code: the plugin registers once per process, so a kubelet
\* that has restarted never connects to it again.
KubeletReconnects == ~connected ~> connected
=============================================================================
