---------------------- MODULE RdmaDevicePluginProofs ----------------------
(***************************************************************************)
(* Safety of the RDMA device plugin, for all sets of devices and pods and  *)
(* any bounds: type correctness, the truth of its reports, exclusive       *)
(* allocation, and the refinement of DeviceLeases.                         *)
(***************************************************************************)
EXTENDS RdmaDevicePlugin, TLAPS

----------------------------------------------------------------------------
(* The inductive invariant.                                                 *)

Verdict(d) == port[d] = "active"

\* What process, handler and registration have to do with each other.  A device
\* is settled only for the handler that began the check.
HandlerInv ==
  /\ process = "down" => stream = "none" /\ toCheck = {} /\ settled = {}
  /\ registered => stream = "none" /\ settled = {}
  /\ stream = "initial" => settled = {}
  /\ settled \subseteq DOMAIN deviceList

\* In the middle of a check the flag of every device that has been looked at is
\* right, unless its port has changed since the check began.
CheckInv ==
  stream = "checking" => \A d \in settled \ toCheck : deviceList[d] = Verdict(d)

\* The kubelet charges a device to one pod, and a pod whose call is under way is
\* charged what it asked for, not nothing, and has no nodes yet.
ChargeInv ==
  /\ \A p, q \in Pods : p # q => charged[p] \intersect charged[q] = {}
  /\ \A p \in Pods : nodes[p] \subseteq charged[p]
  /\ request # NoCall =>
       charged[request.pod] = request.ids /\ request.ids # {} /\ nodes[request.pod] = {}

Inv == TypeOK /\ HandlerInv /\ CheckInv /\ ReportIsCurrent /\ ChargeInv

----------------------------------------------------------------------------
(* Lemmas about the operators of the plugin.                                *)

\* The device list of a fresh discovery is a map from devices to health flags.
LEMMA DiscoveryTyped == ASSUME TypeOK PROVE DiscoverDevices \in DeviceLists
<1> DEFINE D == {e \in Devices : port[e] # "absent"}
<1>1. D \in SUBSET Devices
  OBVIOUS
<1>2. DiscoverDevices \in [D -> BOOLEAN]
  BY DEF DiscoverDevices, CheckDeviceHealth
<1> QED BY <1>1, <1>2 DEF DeviceLists

\* The list that is sent says something of every device.
LEMMA ListTyped ==
  ASSUME TypeOK PROVE GRPCDevices \in [Devices -> Reports \union {"unknown"}]
  BY DEF TypeOK, GRPCDevices, Reports

\* Looking at one device changes the flag of that device and no other.
LEMMA FlagsTyped ==
  ASSUME TypeOK, NEW d \in DOMAIN deviceList, NEW flag \in BOOLEAN
  PROVE  /\ [deviceList EXCEPT ![d] = flag] \in DeviceLists
         /\ DOMAIN [deviceList EXCEPT ![d] = flag] = DOMAIN deviceList
         /\ [deviceList EXCEPT ![d] = flag][d] = flag
         /\ \A e \in DOMAIN deviceList \ {d} :
              [deviceList EXCEPT ![d] = flag][e] = deviceList[e]
<1>1. PICK D \in SUBSET Devices : deviceList \in [D -> BOOLEAN]
  BY DEF TypeOK, DeviceLists
<1> QED BY <1>1 DEF DeviceLists

----------------------------------------------------------------------------
(* Type correctness.                                                        *)

\* The initial state is type correct.
LEMMA TypeInit == Init => TypeOK
<1> SUFFICES ASSUME Init PROVE TypeOK
  OBVIOUS
<1>1. deviceList \in DeviceLists /\ DOMAIN deviceList = {}
  <2>1. deviceList \in [{} -> BOOLEAN] /\ {} \in SUBSET Devices
    BY DEF Init
  <2> QED BY <2>1 DEF DeviceLists
<1>2. 0 \in 0..MaxPortChanges /\ 0 \in 0..MaxFailures
  BY BoundsAssumption
<1> QED BY <1>1, <1>2 DEF Init, TypeOK, Ports, Reports, NoCall

\* The map without devices is a device list.
LEMMA EmptyTyped ==
  [d \in {} |-> FALSE] \in DeviceLists /\ DOMAIN [d \in {} |-> FALSE] = {}
<1>1. [d \in {} |-> FALSE] \in [{} -> BOOLEAN] /\ {} \in SUBSET Devices
  OBVIOUS
<1> QED BY <1>1 DEF DeviceLists

\* What the kubelet makes of a broken stream is again a view of the devices.
LEMMA DisconnectedTyped ==
  ASSUME TypeOK, Disconnected
  PROVE  connected' = FALSE /\ view' \in [Devices -> Reports \union {"unknown"}]
  BY DEF TypeOK, Disconnected, Reports

\* Sending, successful or not, keeps the kubelet's part of the state typed.
LEMMA SendTyped ==
  ASSUME TypeOK, Send
  PROVE  /\ registered' \in BOOLEAN /\ connected' \in BOOLEAN
         /\ view' \in [Devices -> Reports \union {"unknown"}]
         /\ stream' \in {"none", "waiting"}
         /\ registered' = registered
  BY ListTyped DEF TypeOK, Send, kubelet

\* The end of the process keeps the state typed.
LEMMA EndTyped ==
  ASSUME TypeOK, ProcessEnds, failures' \in 0..MaxFailures PROVE TypeOK'
<1>1. port' = port /\ changes' = changes /\ socket' = socket /\ nodes' = nodes
  BY DEF ProcessEnds, environment
<1>2. deviceList' \in DeviceLists /\ DOMAIN deviceList' = {}
  BY EmptyTyped DEF ProcessEnds
<1>3. connected' \in BOOLEAN /\ view' \in [Devices -> Reports \union {"unknown"}]
  <2>1. CASE connected
    BY <2>1, DisconnectedTyped DEF ProcessEnds
  <2>2. CASE ~connected
    BY <2>2 DEF ProcessEnds, TypeOK
  <2> QED BY <2>1, <2>2
<1>4. charged' \in [Pods -> SUBSET Devices]
  BY DEF ProcessEnds, TypeOK
<1> QED BY <1>1, <1>2, <1>3, <1>4 DEF ProcessEnds, TypeOK

\* Every step keeps the state typed.
LEMMA TypeStep == TypeOK /\ HandlerInv /\ [Next]_vars => TypeOK'
<1> SUFFICES ASSUME TypeOK, HandlerInv, [Next]_vars PROVE TypeOK'
  OBVIOUS
<1> USE BoundsAssumption
<1>1. CASE Start
  <2>1. toCheck' = {} /\ deviceList' \in DeviceLists
    BY <1>1, DiscoveryTyped DEF Start, HandlerInv, handler
  <2> QED BY <1>1, <2>1 DEF Start, TypeOK, environment, handler, allocation
<1>2. CASE Stop
  <2>1. failures' \in 0..MaxFailures
    BY <1>2 DEF Stop, TypeOK
  <2>2. process' = "stopping" /\ socket' = FALSE /\ stopped' = TRUE
    BY <1>2 DEF Stop, Cleanup
  <2>3. UNCHANGED <<environment, deviceList, handler, kubelet, allocation>>
    BY <1>2 DEF Stop
  <2> QED BY <2>1, <2>2, <2>3 DEF TypeOK, environment, handler, kubelet, allocation
<1>3. CASE Exit
  BY <1>3, EndTyped DEF Exit, TypeOK
<1>4. CASE Crash
  BY <1>4, EndTyped DEF Crash, TypeOK
<1>5. CASE Allocate
  <2>1. request \in [pod : Pods, ids : SUBSET Devices]
    BY <1>5 DEF Allocate, TypeOK
  <2> QED BY <1>5, <2>1 DEF Allocate, ContainerResponse, TypeOK,
                environment, plugin, handler, kubelet
<1>6. CASE SendInitial
  BY <1>6, SendTyped DEF SendInitial, TypeOK, environment, plugin, allocation
<1>7. CASE Tick
  <2>1. DOMAIN deviceList \subseteq Devices
    BY DEF TypeOK, DeviceLists
  <2> QED BY <1>7, <2>1 DEF Tick, TypeOK, environment, plugin, kubelet, allocation
<1>8. ASSUME NEW d \in Devices, CheckOne(d) PROVE TypeOK'
  <2>1. d \in DOMAIN deviceList /\ CheckDeviceHealth(d) \in BOOLEAN
    BY <1>8 DEF CheckOne, TypeOK, CheckDeviceHealth
  <2>2. deviceList' \in DeviceLists /\ DOMAIN deviceList' = DOMAIN deviceList
    BY <1>8, <2>1, FlagsTyped DEF CheckOne
  <2> QED BY <1>8, <2>2 DEF CheckOne, TypeOK, environment, kubelet, allocation
<1>9. CASE SendUpdate
  BY <1>9, SendTyped DEF SendUpdate, TypeOK, environment, plugin, allocation
<1>10. CASE StopSeen
  <2>1. connected' \in BOOLEAN /\ view' \in [Devices -> Reports \union {"unknown"}]
    <3>1. CASE connected
      BY <1>10, <3>1, DisconnectedTyped DEF StopSeen
    <3>2. CASE ~connected
      BY <1>10, <3>2 DEF StopSeen, TypeOK
    <3> QED BY <3>1, <3>2
  <2> QED BY <1>10, <2>1 DEF StopSeen, TypeOK, environment, plugin, allocation
<1>11. CASE Connect
  BY <1>11 DEF Connect, TypeOK, environment, plugin, allocation
<1>12. CASE KubeletRestarts
  <2>1. charged' \in [Pods -> SUBSET Devices]
    BY <1>12 DEF KubeletRestarts, TypeOK
  <2>2. failures' \in 0..MaxFailures
    BY <1>12 DEF KubeletRestarts, TypeOK
  <2>3. view' \in [Devices -> Reports \union {"unknown"}]
    BY <1>12 DEF KubeletRestarts
  <2>4. registered' = FALSE /\ connected' = FALSE /\ socket' = FALSE /\ request' = NoCall
    BY <1>12 DEF KubeletRestarts
  <2>5. UNCHANGED <<port, changes, process, deviceList, stopped, stream, toCheck, settled, nodes>>
    BY <1>12 DEF KubeletRestarts, environment, handler
  <2> QED BY <2>1, <2>2, <2>3, <2>4, <2>5 DEF TypeOK
<1>13. CASE AllocateFails
  BY <1>13 DEF AllocateFails, TypeOK, environment, plugin, handler, kubelet
<1>14. ASSUME NEW p \in Pods, CallAllocate(p) PROVE TypeOK'
  <2>1. PICK ids \in SUBSET Devices :
           request' = [pod |-> p, ids |-> ids] /\ charged' = [charged EXCEPT ![p] = ids]
    BY <1>14 DEF CallAllocate, Free
  <2>2. /\ request' \in [pod : Pods, ids : SUBSET Devices]
        /\ charged' \in [Pods -> SUBSET Devices]
    BY <2>1 DEF TypeOK
  <2>3. UNCHANGED <<environment, plugin, handler, kubelet, nodes, failures>>
    BY <1>14 DEF CallAllocate
  <2> QED BY <2>2, <2>3 DEF TypeOK, environment, plugin, handler, kubelet
<1>15. ASSUME NEW p \in Pods, PodEnds(p) PROVE TypeOK'
  BY <1>15 DEF PodEnds, TypeOK, environment, plugin, handler, kubelet
<1>16. ASSUME NEW d \in Devices, PortChanges(d) PROVE TypeOK'
  BY <1>16 DEF PortChanges, TypeOK, plugin, kubelet, allocation
<1>17. CASE UNCHANGED vars
  BY <1>17 DEF vars, TypeOK, environment, plugin, handler, kubelet, allocation
<1> QED BY <1>1, <1>2, <1>3, <1>4, <1>5, <1>6, <1>7, <1>8, <1>9, <1>10, <1>11,
           <1>12, <1>13, <1>14, <1>15, <1>16, <1>17 DEF Next, ListAndWatch, Kubelet


----------------------------------------------------------------------------
(* The other conjuncts of the invariant.                                    *)

\* A device list that is sent from settled flags tells the truth about them.
LEMMA SendTells ==
  ASSUME TypeOK, Send, UNCHANGED <<port, settled>>,
         \A d \in settled : d \in DOMAIN deviceList /\ deviceList[d] = Verdict(d)
  PROVE  ReportIsCurrent'
<1> SUFFICES ASSUME stream' = "waiting", connected', NEW d \in settled'
             PROVE  view'[d] = (IF port'[d] = "active" THEN "Healthy" ELSE "Unhealthy")
  BY DEF ReportIsCurrent
<1>1. view' = GRPCDevices
  BY DEF Send
<1>2. d \in Devices /\ d \in DOMAIN deviceList /\ deviceList[d] = Verdict(d) /\ port'[d] = port[d]
  BY DEF TypeOK
<1> QED BY <1>1, <1>2 DEF GRPCDevices, Verdict

\* With the process its handler and registration end.
LEMMA EndHandler == ASSUME ProcessEnds PROVE HandlerInv' /\ CheckInv' /\ ReportIsCurrent'
  BY DEF ProcessEnds, HandlerInv, CheckInv, ReportIsCurrent

\* Every step keeps what handler, registration and flags have to do with each
\* other, and the truth of the last report.
LEMMA HandlerStep ==
  TypeOK /\ HandlerInv /\ CheckInv /\ ReportIsCurrent /\ [Next]_vars
    => HandlerInv' /\ CheckInv' /\ ReportIsCurrent'
<1> SUFFICES ASSUME TypeOK, HandlerInv, CheckInv, ReportIsCurrent, [Next]_vars
             PROVE  HandlerInv' /\ CheckInv' /\ ReportIsCurrent'
  OBVIOUS
<1>1. CASE Start
  BY <1>1 DEF Start, HandlerInv, CheckInv, ReportIsCurrent, handler
<1>2. CASE Stop
  BY <1>2 DEF Stop, HandlerInv, CheckInv, ReportIsCurrent, Verdict, environment, handler, kubelet
<1>3. CASE Exit
  BY <1>3, EndHandler DEF Exit
<1>4. CASE Crash
  BY <1>4, EndHandler DEF Crash
<1>5. CASE Allocate
  BY <1>5 DEF Allocate, HandlerInv, CheckInv, ReportIsCurrent, Verdict,
              environment, plugin, handler, kubelet
<1>6. CASE SendInitial
  <2>1. settled = {} /\ ~registered /\ process # "down"
    BY <1>6 DEF SendInitial, HandlerInv
  <2>2. stream' \in {"none", "waiting"} /\ registered' = registered
    BY <1>6, SendTyped DEF SendInitial
  <2> QED BY <1>6, <2>1, <2>2 DEF SendInitial, HandlerInv, CheckInv, ReportIsCurrent, plugin
<1>7. CASE Tick
  BY <1>7 DEF Tick, HandlerInv, CheckInv, ReportIsCurrent, environment, plugin, kubelet
<1>8. ASSUME NEW d \in Devices, CheckOne(d)
      PROVE  HandlerInv' /\ CheckInv' /\ ReportIsCurrent'
  <2>1. d \in DOMAIN deviceList /\ CheckDeviceHealth(d) \in BOOLEAN /\ stream' = "checking"
    BY <1>8 DEF CheckOne, TypeOK, CheckDeviceHealth
  <2>2. /\ DOMAIN deviceList' = DOMAIN deviceList
        /\ deviceList'[d] = CheckDeviceHealth(d)
        /\ \A e \in DOMAIN deviceList \ {d} : deviceList'[e] = deviceList[e]
    BY <1>8, <2>1, FlagsTyped DEF CheckOne
  <2>3. HandlerInv'
    BY <1>8, <2>1, <2>2 DEF CheckOne, HandlerInv, kubelet
  <2>4. CheckInv'
    BY <1>8, <2>1, <2>2 DEF CheckOne, HandlerInv, CheckInv, Verdict, CheckDeviceHealth, environment
  <2>5. ReportIsCurrent'
    BY <2>1 DEF ReportIsCurrent
  <2> QED BY <2>3, <2>4, <2>5
<1>9. CASE SendUpdate
  <2>1. \A d \in settled : d \in DOMAIN deviceList /\ deviceList[d] = Verdict(d)
    BY <1>9 DEF SendUpdate, HandlerInv, CheckInv
  <2>2. ReportIsCurrent'
    BY <1>9, <2>1, SendTells DEF SendUpdate, environment
  <2>3. ~registered /\ process # "down"
    BY <1>9 DEF SendUpdate, HandlerInv
  <2>4. stream' \in {"none", "waiting"} /\ registered' = registered
    BY <1>9, SendTyped DEF SendUpdate
  <2> QED BY <1>9, <2>2, <2>3, <2>4 DEF SendUpdate, HandlerInv, CheckInv, plugin
<1>10. CASE StopSeen
  BY <1>10 DEF StopSeen, HandlerInv, CheckInv, ReportIsCurrent, plugin
<1>11. CASE Connect
  BY <1>11 DEF Connect, HandlerInv, CheckInv, ReportIsCurrent, plugin
<1>12. CASE KubeletRestarts
  BY <1>12 DEF KubeletRestarts, HandlerInv, CheckInv, ReportIsCurrent, Verdict,
               environment, handler
<1>13. CASE AllocateFails
  BY <1>13 DEF AllocateFails, HandlerInv, CheckInv, ReportIsCurrent, Verdict,
               environment, plugin, handler, kubelet
<1>14. ASSUME NEW p \in Pods, CallAllocate(p) \/ PodEnds(p)
       PROVE  HandlerInv' /\ CheckInv' /\ ReportIsCurrent'
  BY <1>14 DEF CallAllocate, PodEnds, HandlerInv, CheckInv, ReportIsCurrent, Verdict,
               environment, plugin, handler, kubelet
<1>15. ASSUME NEW d \in Devices, PortChanges(d)
       PROVE  HandlerInv' /\ CheckInv' /\ ReportIsCurrent'
  <2>1. \A e \in settled' : e \in settled /\ port'[e] = port[e]
    BY <1>15 DEF PortChanges, TypeOK
  <2> QED BY <1>15, <2>1 DEF PortChanges, HandlerInv, CheckInv, ReportIsCurrent, Verdict,
                             plugin, kubelet
<1>16. CASE UNCHANGED vars
  BY <1>16 DEF vars, HandlerInv, CheckInv, ReportIsCurrent, Verdict,
               environment, plugin, handler, kubelet
<1> QED BY <1>1, <1>2, <1>3, <1>4, <1>5, <1>6, <1>7, <1>8, <1>9, <1>10, <1>11,
           <1>12, <1>13, <1>14, <1>15, <1>16 DEF Next, ListAndWatch, Kubelet

----------------------------------------------------------------------------
(* The kubelet's account of devices.                                        *)

\* A call in progress is a pod's call for devices.
LEMMA CallTyped ==
  ASSUME TypeOK, request # NoCall
  PROVE  request.pod \in Pods /\ request.ids \in SUBSET Devices
  BY DEF TypeOK

\* When a call ends without an answer its pod is charged nothing any more.
LEMMA CallDropped ==
  ASSUME TypeOK, ChargeInv, request # NoCall, UNCHANGED nodes, request' = NoCall,
         charged' = [charged EXCEPT ![request.pod] = {}]
  PROVE  ChargeInv'
<1>1. \A p \in Pods : charged'[p] = IF p = request.pod THEN {} ELSE charged[p]
  BY CallTyped DEF TypeOK
<1> QED BY <1>1 DEF ChargeInv

\* Every step keeps the account: devices are charged once, and nodes are charged.
LEMMA ChargeStep == TypeOK /\ ChargeInv /\ [Next]_vars => ChargeInv'
<1> SUFFICES ASSUME TypeOK, ChargeInv, [Next]_vars PROVE ChargeInv'
  OBVIOUS
<1>1. CASE UNCHANGED allocation
  BY <1>1 DEF ChargeInv, allocation
<1>2. CASE ProcessEnds
  <2>1. CASE request = NoCall
    BY <1>2, <2>1 DEF ProcessEnds, ChargeInv
  <2>2. CASE request # NoCall
    BY <1>2, <2>2, CallDropped DEF ProcessEnds
  <2> QED BY <2>1, <2>2
<1>3. CASE Allocate
  <2>1. /\ request # NoCall /\ request' = NoCall /\ charged' = charged
        /\ request.pod \in Pods /\ charged[request.pod] = request.ids
    BY <1>3, CallTyped DEF Allocate, ChargeInv
  <2>2. \A p \in Pods : nodes'[p] = IF p = request.pod THEN request.ids ELSE nodes[p]
    BY <1>3, <2>1 DEF Allocate, ContainerResponse, TypeOK
  <2> QED BY <2>1, <2>2 DEF ChargeInv
<1>4. CASE KubeletRestarts
  <2>1. CASE request = NoCall
    BY <1>4, <2>1 DEF KubeletRestarts, ChargeInv
  <2>2. CASE request # NoCall
    BY <1>4, <2>2, CallDropped DEF KubeletRestarts
  <2> QED BY <2>1, <2>2
<1>5. CASE AllocateFails
  BY <1>5, CallDropped DEF AllocateFails
<1>6. ASSUME NEW p \in Pods, CallAllocate(p) PROVE ChargeInv'
  <2>1. charged[p] = {} /\ request = NoCall /\ nodes' = nodes /\ nodes[p] = {}
    BY <1>6 DEF CallAllocate, ChargeInv
  <2>2. PICK ids \in SUBSET Free :
          ids # {} /\ request' = [pod |-> p, ids |-> ids] /\ charged' = [charged EXCEPT ![p] = ids]
    BY <1>6 DEF CallAllocate
  <2>3. \A q \in Pods : charged'[q] = IF q = p THEN ids ELSE charged[q]
    BY <2>2 DEF TypeOK
  <2>4. \A q \in Pods : charged[q] \intersect ids = {}
    BY DEF Free
  <2> QED BY <2>1, <2>2, <2>3, <2>4 DEF ChargeInv
<1>7. ASSUME NEW p \in Pods, PodEnds(p) PROVE ChargeInv'
  <2>1. request' = request /\ nodes[p] # {} /\ (request # NoCall => request.pod # p)
    BY <1>7 DEF PodEnds, ChargeInv
  <2>2. \A q \in Pods : /\ charged'[q] = IF q = p THEN {} ELSE charged[q]
                        /\ nodes'[q] = IF q = p THEN {} ELSE nodes[q]
    BY <1>7 DEF PodEnds, TypeOK
  <2> QED BY <2>1, <2>2, CallTyped DEF ChargeInv
<1> QED BY <1>1, <1>2, <1>3, <1>4, <1>5, <1>6, <1>7
        DEF Next, ListAndWatch, Kubelet, Start, Stop, Exit, Crash, SendInitial, Tick,
            CheckOne, SendUpdate, StopSeen, Connect, PortChanges, vars

----------------------------------------------------------------------------
(* The theorems.                                                            *)

\* The invariant holds initially and is kept by every step: handler, flags,
\* last report and account fit together in every reachable state.
THEOREM Invariance == Spec => []Inv
<1>1. Init => Inv
  <2> SUFFICES ASSUME Init PROVE Inv
    OBVIOUS
  <2>1. TypeOK
    BY TypeInit
  <2>2. HandlerInv /\ CheckInv /\ ReportIsCurrent /\ ChargeInv
    BY DEF Init, HandlerInv, CheckInv, ReportIsCurrent, ChargeInv
  <2> QED BY <2>1, <2>2 DEF Inv
<1>2. Inv /\ [Next]_vars => Inv'
  BY TypeStep, HandlerStep, ChargeStep DEF Inv
<1> QED BY <1>1, <1>2, PTL DEF Spec

\* The plugin is type correct: no step of plugin or kubelet, in whatever order,
\* leaves a state the code does not know.
THEOREM TypeCorrect == Spec => []TypeOK
<1>1. Inv => TypeOK
  BY DEF Inv
<1> QED BY <1>1, Invariance, PTL

\* The list ListAndWatch has sent last is right about every port that has not
\* changed since the health check behind it began.
THEOREM ReportsAreCurrent == Spec => []ReportIsCurrent
<1>1. Inv => ReportIsCurrent
  BY DEF Inv
<1> QED BY <1>1, Invariance, PTL

\* The device nodes that Allocate hands out are never another container's, nor
\* free for the kubelet.
THEOREM NodesStayExclusive == Spec => []NodesAreExclusive
<1>1. Inv => NodesAreExclusive
  <2> SUFFICES ASSUME ChargeInv PROVE NodesAreExclusive
    BY DEF Inv
  <2>1. \A p, q \in Pods : p # q => nodes[p] \subseteq charged[p] /\ nodes[q] \subseteq charged[q]
                                    /\ charged[p] \intersect charged[q] = {}
    BY DEF ChargeInv
  <2> QED BY <2>1 DEF NodesAreExclusive, ChargeInv
<1> QED BY <1>1, Invariance, PTL

----------------------------------------------------------------------------
(* The refinement of DeviceLeases.                                          *)

\* What the kubelet does with a call that ends without an answer: it takes the
\* lease back, or, if there is no call, nothing happens to the leases.
LEMMA CallTakenBack ==
  ASSUME TypeOK, ChargeInv, UNCHANGED nodes,
         charged' = IF request = NoCall THEN charged ELSE [charged EXCEPT ![request.pod] = {}]
  PROVE  [Leases!LeaseNext]_(Leases!leaseVars)
<1>1. CASE request = NoCall
  BY <1>1 DEF Leases!leaseVars
<1>2. CASE request # NoCall
  <2>1. request.pod \in Pods /\ charged[request.pod] # {} /\ nodes[request.pod] = {}
    BY <1>2, CallTyped DEF ChargeInv
  <2>2. Leases!TakeBack(request.pod)
    BY <1>2, <2>1 DEF Leases!TakeBack
  <2> QED BY <2>1, <2>2 DEF Leases!LeaseNext
<1> QED BY <1>1, <1>2

\* The initial state has no leases.
LEMMA LeasesInit == Init => Leases!LeaseInit
  BY DEF Init, Leases!LeaseInit

\* Every step of plugin and kubelet is a step of the leases or does not touch them.
LEMMA LeasesStep ==
  TypeOK /\ ChargeInv /\ [Next]_vars => [Leases!LeaseNext]_(Leases!leaseVars)
<1> SUFFICES ASSUME TypeOK, ChargeInv, [Next]_vars
             PROVE  [Leases!LeaseNext]_(Leases!leaseVars)
  OBVIOUS
<1>1. CASE UNCHANGED allocation
  BY <1>1 DEF allocation, Leases!leaseVars
<1>2. CASE ProcessEnds
  BY <1>2, CallTakenBack DEF ProcessEnds
<1>3. CASE Allocate
  <2>1. /\ request.pod \in Pods /\ charged[request.pod] = request.ids
        /\ request.ids # {} /\ nodes[request.pod] = {}
    BY <1>3, CallTyped DEF Allocate, ChargeInv
  <2>2. /\ nodes' = [nodes EXCEPT ![request.pod] = request.ids]
        /\ charged' = charged
    BY <1>3 DEF Allocate, ContainerResponse
  <2>3. Leases!Deliver(request.pod)
    BY <2>1, <2>2 DEF Leases!Deliver
  <2> QED BY <2>1, <2>3 DEF Leases!LeaseNext
<1>4. CASE KubeletRestarts
  BY <1>4, CallTakenBack DEF KubeletRestarts
<1>5. CASE AllocateFails
  BY <1>5, CallTakenBack DEF AllocateFails
<1>6. ASSUME NEW p \in Pods, CallAllocate(p)
      PROVE  [Leases!LeaseNext]_(Leases!leaseVars)
  <2>1. PICK ids \in SUBSET Free : ids # {} /\ charged' = [charged EXCEPT ![p] = ids]
    BY <1>6 DEF CallAllocate
  <2>2. charged[p] = {} /\ UNCHANGED nodes
    BY <1>6 DEF CallAllocate
  <2>3. Free = Leases!FreeDevices
    BY DEF Free, Leases!FreeDevices
  <2>4. Leases!Lease(p)
    BY <2>1, <2>2, <2>3 DEF Leases!Lease
  <2> QED BY <2>4 DEF Leases!LeaseNext
<1>7. ASSUME NEW p \in Pods, PodEnds(p)
      PROVE  [Leases!LeaseNext]_(Leases!leaseVars)
  <2>1. Leases!Return(p)
    BY <1>7 DEF PodEnds, Leases!Return
  <2> QED BY <2>1 DEF Leases!LeaseNext
<1> QED BY <1>1, <1>2, <1>3, <1>4, <1>5, <1>6, <1>7
        DEF Next, ListAndWatch, Kubelet, Start, Stop, Exit, Crash, SendInitial, Tick,
            CheckOne, SendUpdate, StopSeen, Connect, PortChanges, vars

\* The plugin's Allocate, with the kubelet, implements the leases: for any devices and
\* pods a container gets what was set aside for its pod at once and keeps it, through
\* every restart and every change of a port.
THEOREM LeasesImplemented == Spec => ImplementsLeases
<1>1. Inv /\ [Next]_vars => [Leases!LeaseNext]_(Leases!leaseVars)
  BY LeasesStep DEF Inv
<1> QED BY <1>1, LeasesInit, Invariance, PTL DEF Spec, ImplementsLeases, Leases!LeaseSpec

\* The leases are what they are meant to be: whatever takes and returns devices by
\* the rules of DeviceLeases leases none of them twice, and a container never has
\* some of its pod's devices without the others.
THEOREM LeasesAreWhole == Leases!LeaseSpec => [](Leases!LeaseTypeOK /\ Leases!WholeLeases)
<1> DEFINE Whole == Leases!LeaseTypeOK /\ Leases!WholeLeases
<1>1. Leases!LeaseInit => Whole
  BY DEF Leases!LeaseInit, Leases!LeaseTypeOK, Leases!WholeLeases
<1>2. ASSUME Whole, [Leases!LeaseNext]_(Leases!leaseVars)  PROVE Whole'
  <2>1. charged \in [Pods -> SUBSET Devices] /\ nodes \in [Pods -> SUBSET Devices]
    BY <1>2 DEF Leases!LeaseTypeOK
  <2>2. \A p \in Pods : /\ nodes[p] \in {{}, charged[p]}
                        /\ \A q \in Pods \ {p} : charged[p] \intersect charged[q] = {}
    BY <1>2 DEF Leases!WholeLeases
  <2>3. CASE UNCHANGED Leases!leaseVars
    BY <2>1, <2>2, <2>3 DEF Leases!leaseVars, Leases!LeaseTypeOK, Leases!WholeLeases
  <2>4. ASSUME NEW p \in Pods, Leases!Lease(p)  PROVE Whole'
    <3>1. PICK D \in SUBSET Leases!FreeDevices : charged' = [charged EXCEPT ![p] = D]
      BY <2>4 DEF Leases!Lease
    <3>2. nodes' = nodes /\ nodes[p] = {}
      BY <2>2, <2>4 DEF Leases!Lease
    <3>3. \A q \in Pods : charged[q] \intersect D = {}
      BY DEF Leases!FreeDevices
    <3>4. D \in SUBSET Devices
      BY DEF Leases!FreeDevices
    <3> QED BY <2>1, <2>2, <3>1, <3>2, <3>3, <3>4
            DEF Leases!LeaseTypeOK, Leases!WholeLeases
  <2>5. ASSUME NEW p \in Pods, Leases!Deliver(p) \/ Leases!TakeBack(p) \/ Leases!Return(p)
        PROVE  Whole'
    BY <2>1, <2>2, <2>5 DEF Leases!Deliver, Leases!TakeBack, Leases!Return,
                            Leases!LeaseTypeOK, Leases!WholeLeases
  <2> QED BY <1>2, <2>3, <2>4, <2>5 DEF Leases!LeaseNext
<1> QED BY <1>1, <1>2, PTL DEF Leases!LeaseSpec

\* So no container of the node is ever started with some of the devices that its pod
\* was promised, or with one that another pod was.
COROLLARY NodesAreWhole == Spec => []Leases!WholeLeases
  BY LeasesImplemented, LeasesAreWhole, PTL DEF ImplementsLeases
=============================================================================
