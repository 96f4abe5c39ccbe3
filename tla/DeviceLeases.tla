---------------------------- MODULE DeviceLeases ----------------------------
(***************************************************************************)
(* What the device plugins of week1 and week3 promise together with the    *)
(* kubelet.  A pod is given a lease on free devices; its container then    *)
(* gets exactly these, all at once, or the lease is taken back.  What a    *)
(* container holds never changes, and its devices are free again only when *)
(* the pod has ended.  Deaths, restarts, changes of health and lost calls  *)
(* are not visible here: the plugins hide them.                            *)
(***************************************************************************)
CONSTANTS Devices, Pods

VARIABLES
  leased,  \* for each pod the devices that are set aside for it
  held     \* for each pod the devices that its container has got

leaseVars == <<leased, held>>

LeaseInit ==
  /\ leased = [p \in Pods |-> {}]
  /\ held = [p \in Pods |-> {}]

FreeDevices == Devices \ UNION {leased[p] : p \in Pods}

Lease(p) ==
  /\ leased[p] = {}
  /\ \E D \in SUBSET FreeDevices :
       /\ D # {}
       /\ leased' = [leased EXCEPT ![p] = D]
  /\ UNCHANGED held

Deliver(p) ==
  /\ leased[p] # {} /\ held[p] = {}
  /\ held' = [held EXCEPT ![p] = leased[p]]
  /\ UNCHANGED leased

TakeBack(p) ==
  /\ leased[p] # {} /\ held[p] = {}
  /\ leased' = [leased EXCEPT ![p] = {}]
  /\ UNCHANGED held

Return(p) ==
  /\ held[p] # {}
  /\ leased' = [leased EXCEPT ![p] = {}]
  /\ held' = [held EXCEPT ![p] = {}]

LeaseNext == \E p \in Pods : Lease(p) \/ Deliver(p) \/ TakeBack(p) \/ Return(p)

LeaseSpec == LeaseInit /\ [][LeaseNext]_leaseVars

----------------------------------------------------------------------------
\* What follows from it: no device is leased twice, and a container has all the
\* devices of its pod or none.
LeaseTypeOK == leased \in [Pods -> SUBSET Devices] /\ held \in [Pods -> SUBSET Devices]

WholeLeases ==
  \A p \in Pods : /\ held[p] \in {{}, leased[p]}
                  /\ \A q \in Pods \ {p} : leased[p] \intersect leased[q] = {}
=============================================================================
