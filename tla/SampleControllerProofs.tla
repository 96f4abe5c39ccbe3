---------------------- MODULE SampleControllerProofs ----------------------
(***************************************************************************)
(* Theorems about SampleController, for every value of its constants.      *)
(***************************************************************************)
EXTENDS SampleController, TLAPS

----------------------------------------------------------------------------
(* The values the model starts from and the versions it commits.            *)

\* The empty values are versions, so the model starts well typed.
LEMMA InitialVersions ==
  /\ SomeSpec \in SpecValues
  /\ NoCR \in CRVersions
  /\ NoChild \in ChildVersions
<1>1. SpecValues # {}
  <2>1. PICK n \in ReplicaCounts : TRUE  BY ConstantsAssumption
  <2>2. PICK t \in Templates : TRUE  BY ConstantsAssumption
  <2>3. [replicas |-> n, template |-> t] \in SpecValues  BY DEF SpecValues
  <2> QED  BY <2>3
<1>2. SomeSpec \in SpecValues  BY <1>1 DEF SomeSpec
<1>3. NoCR \in CRVersions
  BY <1>2, ConstantsAssumption DEF NoCR, CRVersions, EmptyStatus, Statuses
<1>4. SomeSpec.template \in Templates  BY <1>2 DEF SpecValues
<1>5. NoChild \in ChildVersions
  BY <1>4 DEF NoChild, ChildVersions, NoOwner
<1> QED  BY <1>2, <1>3, <1>5

\* A commit stores a version of the right type, and one with a new
\* resourceVersion if it stores anything.
LEMMA CommitCRStores ==
  ASSUME cr \in CRVersions, crWatch \subseteq CRVersions,
         NEW v \in CRVersions, CommitCR(v)
  PROVE  /\ cr' \in CRVersions /\ crWatch' \subseteq CRVersions
         /\ UNCHANGED <<child, childWatch>>
         /\ \/ v = cr /\ UNCHANGED <<cr, crWatch>>
            \/ /\ v # cr
               /\ cr' = [v EXCEPT !.rv = cr.rv + 1]
               /\ crWatch' = crWatch \union {cr'}
<1>1. [v EXCEPT !.rv = cr.rv + 1] \in CRVersions  BY DEF CRVersions
<1> QED  BY <1>1 DEF CommitCR

\* The same for a child.
LEMMA CommitChildStores ==
  ASSUME child \in [Kinds -> ChildVersions],
         childWatch \in [Kinds -> SUBSET ChildVersions],
         NEW k \in Kinds, NEW v \in ChildVersions, CommitChild(k, v)
  PROVE  /\ child' \in [Kinds -> ChildVersions]
         /\ childWatch' \in [Kinds -> SUBSET ChildVersions]
         /\ UNCHANGED <<cr, crWatch>>
         /\ \/ v = child[k] /\ UNCHANGED <<child, childWatch>>
            \/ /\ v # child[k]
               /\ child' = [child EXCEPT ![k] = [v EXCEPT !.rv = child[k].rv + 1]]
<1> DEFINE new == [v EXCEPT !.rv = child[k].rv + 1]
<1>1. child[k] \in ChildVersions  OBVIOUS
<1>2. new \in ChildVersions  BY <1>1 DEF ChildVersions
<1>3. CASE v = child[k]  BY <1>3 DEF CommitChild
<1>4. CASE v # child[k]
  <2>1. /\ child' = [child EXCEPT ![k] = new]
        /\ childWatch' = [childWatch EXCEPT ![k] = childWatch[k] \union {new}]
        /\ UNCHANGED <<cr, crWatch>>
    BY <1>4 DEF CommitChild
  <2> QED  BY <1>2, <1>4, <2>1
<1> QED  BY <1>3, <1>4

----------------------------------------------------------------------------
(* Type correctness.                                                        *)

ServerTypeOK ==
  /\ cr \in CRVersions /\ crWatch \subseteq CRVersions
  /\ child \in [Kinds -> ChildVersions]
  /\ childWatch \in [Kinds -> SUBSET ChildVersions]

\* The tombstone of a SampleResource version is a version.
LEMMA CRTombstoneType ==
  ASSUME NEW v \in CRVersions
  PROVE  CRTombstone(v) \in CRVersions
BY InitialVersions DEF CRTombstone, CRVersions

\* The tombstone of a child version is a version.
LEMMA ChildTombstoneType ==
  ASSUME NEW v \in ChildVersions
  PROVE  ChildTombstone(v) \in ChildVersions
BY InitialVersions DEF ChildTombstone, ChildVersions

\* A plain Update of the SampleResource stores a version.
LEMMA UpdateCRType ==
  ASSUME ServerTypeOK, NEW copy \in CRVersions, UpdateCR(copy)
  PROVE  ServerTypeOK'
<1> DEFINE v == [copy EXCEPT !.status = cr.status,
                             !.generation = NextGeneration(copy.spec)]
<1>1. v \in CRVersions
  <2>1. cr.status \in Statuses /\ cr.generation \in Nat  BY DEF ServerTypeOK, CRVersions
  <2>2. NextGeneration(copy.spec) \in Nat  BY <2>1 DEF NextGeneration
  <2> QED  BY <2>1, <2>2 DEF CRVersions
<1>2. CommitCR(CRTombstone(cr)) \/ CommitCR(v)  BY DEF UpdateCR
<1>3. CRTombstone(cr) \in CRVersions  BY CRTombstoneType DEF ServerTypeOK
<1> HIDE DEF v
<1> QED  BY <1>1, <1>2, <1>3, CommitCRStores DEF ServerTypeOK

\* What buildDeployment and buildService build is a version of a child.
LEMMA BuildType ==
  ASSUME TypeOK, NEW k \in Kinds
  PROVE  Build(k) \in ChildVersions
<1>1. /\ child[k].rv \in Nat /\ sr.uid \in Nat
      /\ sr.spec.replicas \in Nat /\ sr.spec.template \in Templates
  BY ConstantsAssumption DEF TypeOK, CRVersions, ChildVersions, SpecValues
<1> QED  BY <1>1 DEF Build, ChildVersions

\* The status that updateStatus writes is a status.
LEMMA NewStatusType ==
  ASSUME TypeOK
  PROVE  NewStatus \in Statuses
<1>1. sr.generation \in Nat /\ sr.spec.replicas \in Nat
  BY ConstantsAssumption DEF TypeOK, CRVersions, SpecValues
<1> QED  BY <1>1 DEF NewStatus, Statuses, TypeOK

\* What every action that disturbs only the server has to show.
LEMMA ElsewhereType ==
  ASSUME TypeOK, Elsewhere, ServerTypeOK', spent' \in 0..MaxDisturbances
  PROVE  TypeOK'
BY DEF TypeOK, Elsewhere, caches, queue, worker, ServerTypeOK

\* A disturbance stays within the bound.
LEMMA DisturbType ==
  ASSUME TypeOK, NEW kind, Disturb(kind)
  PROVE  spent' \in 0..MaxDisturbances
BY ConstantsAssumption DEF TypeOK, Disturb

\* The four outcomes of a call, with what each leaves the server and the
\* disturbance count in.
LEMMA CallType ==
  ASSUME TypeOK,
         NEW ACTION A, NEW ACTION P, NEW ACTION S, NEW ACTION F,
         Call(A, P, S, F),
         P => ServerTypeOK'
  PROVE  ServerTypeOK' /\ spent' \in 0..MaxDisturbances /\ (S \/ F)
<1>1. ServerTypeOK  BY DEF TypeOK, ServerTypeOK
<1>2. UNCHANGED server => ServerTypeOK'  BY <1>1 DEF server, ServerTypeOK
<1>3. UNCHANGED spent => spent' \in 0..MaxDisturbances  BY DEF TypeOK
<1>4. Disturb("lostReply") => spent' \in 0..MaxDisturbances  BY DisturbType
<1>5. Disturb("fault") => spent' \in 0..MaxDisturbances  BY DisturbType
<1> QED  BY <1>2, <1>3, <1>4, <1>5 DEF Call

\* A reconcile that returns leaves worker and queue well typed.
LEMMA ReturnType ==
  ASSUME TypeOK, NEW err \in BOOLEAN, Return(err)
  PROVE  /\ sr' \in CRVersions /\ existing' \in ChildVersions
         /\ dirty' \in BOOLEAN /\ delayed' \in BOOLEAN
         /\ pc' \in Locations /\ phase' \in {"Running", "Failed"}
BY InitialVersions DEF TypeOK, Return, Locations

\* Every reachable state is well typed: in particular the worker is always at
\* one of the reconciler's calls and the phase it reports is one Status knows.
THEOREM TypeCorrect == Spec => []TypeOK
<1>1. Init => TypeOK
  <2> SUFFICES ASSUME Init PROVE TypeOK  OBVIOUS
  <2>1. /\ cr \in CRVersions /\ crCache \in CRVersions /\ sr \in CRVersions
        /\ crWatch \subseteq CRVersions /\ existing \in ChildVersions
    BY InitialVersions DEF Init
  <2>2. child \in [Kinds -> ChildVersions] /\ childCache \in [Kinds -> ChildVersions]
    BY InitialVersions DEF Init
  <2>3. childWatch \in [Kinds -> SUBSET ChildVersions]  BY DEF Init
  <2>4. dirty \in BOOLEAN /\ delayed \in BOOLEAN  BY DEF Init
  <2>5. /\ pc \in Locations /\ phase \in {"Running", "Failed"} /\ now \in Nat
    BY DEF Init, Locations
  <2>6. spent \in 0..MaxDisturbances  BY ConstantsAssumption DEF Init
  <2> QED  BY <2>1, <2>2, <2>3, <2>4, <2>5, <2>6 DEF TypeOK
<1>2. TypeOK /\ [Next]_vars => TypeOK'
  <2> SUFFICES ASSUME TypeOK, [Next]_vars PROVE TypeOK'
    OBVIOUS
  <2>1. ServerTypeOK  BY DEF TypeOK, ServerTypeOK
  <2>9. cr \in CRVersions /\ cr.generation + 1 \in Nat  BY DEF TypeOK, CRVersions
  <2>10. /\ UNCHANGED server => ServerTypeOK'
         /\ UNCHANGED spent => spent' \in 0..MaxDisturbances
         /\ \A kind : Disturb(kind) => spent' \in 0..MaxDisturbances
    BY <2>1, DisturbType DEF server, ServerTypeOK, TypeOK
  <2>2. CASE UNCHANGED vars
    BY <2>2 DEF vars, server, caches, queue, worker, TypeOK
  <2>3. CASE User
    <3>1. ASSUME CreateCR PROVE TypeOK'
      <4>1. PICK s \in SpecValues :
              CommitCR([NoCR EXCEPT !.rv = cr.rv, !.exists = TRUE, !.uid = cr.uid + 1,
                                    !.generation = 1, !.spec = s])
        BY <3>1 DEF CreateCR
      <4>2. [NoCR EXCEPT !.rv = cr.rv, !.exists = TRUE, !.uid = cr.uid + 1,
                         !.generation = 1, !.spec = s] \in CRVersions
        <5>1. cr.rv \in Nat /\ cr.uid + 1 \in Nat  BY DEF TypeOK, CRVersions
        <5> QED  BY <5>1, InitialVersions DEF CRVersions
      <4>3. ServerTypeOK'  BY <2>1, <4>1, <4>2, CommitCRStores DEF ServerTypeOK
      <4> QED  BY <3>1, <4>3, DisturbType, ElsewhereType DEF CreateCR
    <3>2. ASSUME EditCR PROVE TypeOK'
      <4>1. PICK s \in SpecValues \ {cr.spec} :
              CommitCR([cr EXCEPT !.spec = s, !.generation = @ + 1])
        BY <3>2 DEF EditCR
      <4>2. [cr EXCEPT !.spec = s, !.generation = @ + 1] \in CRVersions
        BY <2>9 DEF CRVersions
      <4>3. ServerTypeOK'  BY <2>1, <4>1, <4>2, CommitCRStores DEF ServerTypeOK
      <4> QED  BY <3>2, <4>3, DisturbType, ElsewhereType DEF EditCR
    <3>3. ASSUME DeleteCR PROVE TypeOK'
      <4>1. [cr EXCEPT !.deleting = TRUE, !.generation = @ + 1] \in CRVersions
        BY <2>9 DEF CRVersions
      <4>2. CRTombstone(cr) \in CRVersions  BY CRTombstoneType DEF TypeOK
      <4>3. ServerTypeOK'
        BY <2>1, <3>3, <4>1, <4>2, CommitCRStores DEF ServerTypeOK, DeleteCR
      <4> QED  BY <3>3, <4>3, DisturbType, ElsewhereType DEF DeleteCR
    <3> QED  BY <2>3, <3>1, <3>2, <3>3 DEF User
  <2>4. CASE Cluster
    <3> DEFINE d == child["Deployment"]
    <3>0. "Deployment" \in Kinds /\ "Service" \in Kinds  BY DEF Kinds
    <3>1. ASSUME ScaleDeployment PROVE TypeOK'
      <4>1. PICK n \in ReplicaCounts : CommitChild("Deployment", [d EXCEPT !.replicas = n])
        BY <3>1 DEF ScaleDeployment
      <4>2. [d EXCEPT !.replicas = n] \in ChildVersions
        BY <3>0, ConstantsAssumption DEF TypeOK, ChildVersions
      <4>3. ServerTypeOK'  BY <2>1, <3>0, <4>1, <4>2, CommitChildStores DEF ServerTypeOK
      <4> QED  BY <3>1, <4>3, DisturbType, ElsewhereType DEF ScaleDeployment
    <3>2. ASSUME Rollout PROVE TypeOK'
      <4>1. CommitChild("Deployment", [d EXCEPT !.available = d.replicas])
        BY <3>2 DEF Rollout
      <4>2. [d EXCEPT !.available = d.replicas] \in ChildVersions
        BY <3>0 DEF TypeOK, ChildVersions
      <4>3. ServerTypeOK'  BY <2>1, <3>0, <4>1, <4>2, CommitChildStores DEF ServerTypeOK
      <4> QED  BY <3>2, <4>3, DisturbType, ElsewhereType DEF Rollout
    <3>3. ASSUME Tick PROVE TypeOK'
      <4>1. spent' \in 0..MaxDisturbances  BY <3>3, DisturbType DEF Tick
      <4> QED  BY <3>3, <4>1 DEF Tick, TypeOK, server, caches, queue, worker
    <3>4. ASSUME NEW k \in Kinds, CreateForeign(k) PROVE TypeOK'
      <4> DEFINE n == IF k = "Deployment" THEN SomeSpec.replicas ELSE 0
                 v == [NoChild EXCEPT !.rv = child[k].rv, !.exists = TRUE, !.replicas = n]
      <4>1. n \in Nat  BY InitialVersions, ConstantsAssumption DEF SpecValues
      <4>2. child[k].rv \in Nat  BY DEF TypeOK, ChildVersions
      <4>3. CommitChild(k, v)  BY <3>4 DEF CreateForeign
      <4> HIDE DEF n
      <4>4. v \in ChildVersions  BY <4>1, <4>2, InitialVersions DEF ChildVersions
      <4>5. ServerTypeOK'  BY <2>1, <4>3, <4>4, CommitChildStores DEF ServerTypeOK
      <4> QED  BY <3>4, <4>5, DisturbType, ElsewhereType DEF CreateForeign
    <3>5. ASSUME NEW k \in Kinds, RemoveChild(k) \/ CollectGarbage(k) PROVE TypeOK'
      <4>1. child[k] \in ChildVersions  BY DEF TypeOK
      <4>2. ServerTypeOK'
        BY <2>1, <3>5, <4>1, ChildTombstoneType, CommitChildStores
           DEF ServerTypeOK, RemoveChild, CollectGarbage
      <4>3. CASE RemoveChild(k)
        BY <4>2, <4>3, DisturbType, ElsewhereType DEF RemoveChild
      <4>4. CASE CollectGarbage(k)
        <5>1. spent' \in 0..MaxDisturbances  BY <4>4 DEF CollectGarbage, TypeOK
        <5> QED  BY <4>2, <4>4, <5>1, ElsewhereType DEF CollectGarbage
      <4> QED  BY <3>5, <4>3, <4>4
    <3> QED  BY <2>4, <3>1, <3>2, <3>3, <3>4, <3>5 DEF Cluster
  <2>5. CASE Informers
    <3>1. CASE DeliverCR  BY <3>1 DEF DeliverCR, TypeOK, worker
    <3>2. CASE RelistCR
      <4>1. spent' \in 0..MaxDisturbances  BY <3>2, DisturbType DEF RelistCR
      <4>2. dirty' \in BOOLEAN  BY <3>2 DEF RelistCR, TypeOK, CRVersions
      <4> QED  BY <3>2, <4>1, <4>2 DEF RelistCR, TypeOK, worker
    <3>3. CASE Resync
      <4>1. spent' \in 0..MaxDisturbances  BY <3>3, DisturbType DEF Resync, TypeOK
      <4> QED  BY <3>3, <4>1 DEF Resync, TypeOK, server, caches, worker
    <3>4. ASSUME NEW k \in Kinds, DeliverChild(k) PROVE TypeOK'
      <4>1. childWatch[k] \subseteq ChildVersions  BY DEF TypeOK
      <4>2. dirty' \in BOOLEAN  BY <3>4 DEF DeliverChild, TypeOK
      <4> QED  BY <3>4, <4>1, <4>2 DEF DeliverChild, TypeOK, worker
    <3>5. ASSUME NEW k \in Kinds, RelistChild(k) PROVE TypeOK'
      <4>1. spent' \in 0..MaxDisturbances  BY <3>5, DisturbType DEF RelistChild
      <4>2. dirty' \in BOOLEAN  BY <3>5 DEF RelistChild
      <4>3. child[k] \in ChildVersions  BY DEF TypeOK
      <4> QED  BY <3>5, <4>1, <4>2, <4>3 DEF RelistChild, TypeOK, worker
    <3> QED  BY <2>5, <3>1, <3>2, <3>3, <3>4, <3>5 DEF Informers
  <2>6. CASE BackoffExpires
    BY <2>6 DEF BackoffExpires, TypeOK, server, caches, worker
  <2>7. CASE Crash
    <3>1. spent' \in 0..MaxDisturbances  BY <2>7, DisturbType DEF Crash
    <3>2. dirty' \in BOOLEAN  BY <2>7 DEF Crash, TypeOK, CRVersions
    <3> QED  BY <2>7, <3>1, <3>2, InitialVersions DEF Crash, TypeOK, Locations
  <2>8. CASE Worker
    <3>0. "Deployment" \in Kinds /\ "Service" \in Kinds  BY DEF Kinds
    <3>1. CASE StartReconcile
      BY <3>1 DEF StartReconcile, TypeOK, server, caches, Locations
    <3>2. CASE GetNotFound
      BY <3>2, ReturnType DEF GetNotFound, TypeOK, server, caches
    <3>3. CASE GetDeleting
      BY <3>3, ReturnType DEF GetDeleting, TypeOK, server, caches, Locations
    <3>4. CASE GetLive
      BY <3>4 DEF GetLive, TypeOK, server, caches, Locations
    <3>5. CASE AddFinalizer
      <4>1. [sr EXCEPT !.finalizer = TRUE] \in CRVersions  BY DEF TypeOK, CRVersions
      <4>2. UpdateCR([sr EXCEPT !.finalizer = TRUE]) => ServerTypeOK'
        BY <2>1, <4>1, UpdateCRType
      <4>3. /\ ServerTypeOK' /\ spent' \in 0..MaxDisturbances
            /\ \/ /\ pc' = "GetDeployment" /\ sr' = cr'
                  /\ UNCHANGED <<dirty, delayed, existing, phase>>
               \/ Return(TRUE)
        BY <2>10, <3>5, <4>2 DEF AddFinalizer, Call
      <4>4. UNCHANGED <<caches, now>>  BY <3>5 DEF AddFinalizer
      <4> QED  BY <4>3, <4>4, ReturnType DEF TypeOK, ServerTypeOK, caches, Locations
    <3>6. CASE GetDeployment
      BY <3>0, <3>6 DEF GetDeployment, Goto, TypeOK, server, caches, Locations
    <3>7. CASE UpdateDeployment
      <4> DEFINE v == [existing EXCEPT !.replicas = sr.spec.replicas]
      <4>1. sr.spec.replicas \in Nat
        BY ConstantsAssumption DEF TypeOK, CRVersions, SpecValues
      <4>2. v \in ChildVersions  BY <4>1 DEF TypeOK, ChildVersions
      <4>3. CommitChild("Deployment", v) => ServerTypeOK'
        BY <2>1, <3>0, <4>2, CommitChildStores DEF ServerTypeOK
      <4>4. ServerTypeOK' /\ spent' \in 0..MaxDisturbances /\ (Goto("GetService") \/ Fail)
        BY <3>7, <4>3, CallType DEF UpdateDeployment
      <4>5. UNCHANGED <<caches, now>>  BY <3>7 DEF UpdateDeployment
      <4> QED  BY <4>4, <4>5 DEF Goto, Fail, TypeOK, ServerTypeOK, caches, Locations
    <3>8. CASE CreateDeployment
      <4>1. CommitChild("Deployment", Build("Deployment")) => ServerTypeOK'
        BY <2>1, <3>0, BuildType, CommitChildStores DEF ServerTypeOK
      <4>2. ServerTypeOK' /\ spent' \in 0..MaxDisturbances /\ (Goto("GetService") \/ Fail)
        BY <3>8, <4>1, CallType DEF CreateDeployment
      <4>3. UNCHANGED <<caches, now>>  BY <3>8 DEF CreateDeployment
      <4> QED  BY <4>2, <4>3 DEF Goto, Fail, TypeOK, ServerTypeOK, caches, Locations
    <3>9. CASE GetService
      BY <3>9 DEF GetService, Goto, TypeOK, server, caches, Locations
    <3>10. CASE CreateService
      <4>1. CommitChild("Service", Build("Service")) => ServerTypeOK'
        BY <2>1, <3>0, BuildType, CommitChildStores DEF ServerTypeOK
      <4>2. ServerTypeOK' /\ spent' \in 0..MaxDisturbances /\ (Goto("UpdateStatus") \/ Fail)
        BY <3>10, <4>1, CallType DEF CreateService
      <4>3. UNCHANGED <<caches, now>>  BY <3>10 DEF CreateService
      <4> QED  BY <4>2, <4>3 DEF Goto, Fail, TypeOK, ServerTypeOK, caches, Locations
    <3>11. CASE UpdateStatus
      <4>1. [cr EXCEPT !.status = NewStatus] \in CRVersions
        BY NewStatusType DEF TypeOK, CRVersions
      <4>2. CommitCR([cr EXCEPT !.status = NewStatus]) => ServerTypeOK'
        BY <2>1, <4>1, CommitCRStores DEF ServerTypeOK
      <4>3. UNCHANGED server => ServerTypeOK'  BY <2>1 DEF server, ServerTypeOK
      <4>4. ServerTypeOK'  BY <3>11, <4>2, <4>3 DEF UpdateStatus
      <4>5. spent' \in 0..MaxDisturbances
        BY <3>11, DisturbType DEF UpdateStatus, TypeOK
      <4>6. Return(phase = "Failed") /\ UNCHANGED <<caches, now>>
        BY <3>11 DEF UpdateStatus
      <4> QED  BY <4>4, <4>5, <4>6, ReturnType DEF TypeOK, ServerTypeOK, caches
    <3>12. CASE RemoveFinalizer
      <4>1. [sr EXCEPT !.finalizer = FALSE] \in CRVersions  BY DEF TypeOK, CRVersions
      <4>2. UpdateCR([sr EXCEPT !.finalizer = FALSE]) => ServerTypeOK'
        BY <2>1, <4>1, UpdateCRType
      <4>3. /\ ServerTypeOK' /\ spent' \in 0..MaxDisturbances
            /\ Return(FALSE) \/ Return(TRUE)
        BY <2>10, <3>12, <4>2 DEF RemoveFinalizer, Call
      <4>4. UNCHANGED <<caches, now>>  BY <3>12 DEF RemoveFinalizer
      <4> QED  BY <4>3, <4>4, ReturnType DEF TypeOK, ServerTypeOK, caches
    <3> QED
      BY <2>8, <3>1, <3>2, <3>3, <3>4, <3>5, <3>6, <3>7, <3>8, <3>9, <3>10, <3>11, <3>12
         DEF Worker
  <2> QED  BY <2>2, <2>3, <2>4, <2>5, <2>6, <2>7, <2>8 DEF Next
<1> QED  BY <1>1, <1>2, PTL DEF Spec

----------------------------------------------------------------------------
(* The inductive invariant.  Safety of the controller rests on two orders:  *)
(* what a copy's resourceVersion says about its age, and what the finalizer *)
(* lets happen to an incarnation while the worker holds a copy of it.       *)

\* A copy is never newer than the server's version, and equal in content if it
\* is as new; what a watch has yet to deliver is not older than the cache.
VersionsOrdered ==
  /\ cr.rv = 0 => cr = NoCR
  /\ crCache.rv <= cr.rv /\ (crCache.rv = cr.rv => crCache = cr)
  /\ \A v \in crWatch :
       crCache.rv <= v.rv /\ v.rv <= cr.rv /\ (v.rv = cr.rv => v = cr)
  /\ sr.rv <= cr.rv /\ (sr.rv = cr.rv => sr = cr)

\* The same for the children and reconcileDeployment's copy.
ChildVersionsOrdered ==
  /\ \A k \in Kinds :
       /\ childCache[k].rv <= child[k].rv
       /\ childCache[k].rv = child[k].rv => childCache[k] = child[k]
       /\ \A v \in childWatch[k] :
            v.rv <= child[k].rv /\ (v.rv = child[k].rv => v = child[k])
  /\ pc = "UpdateDeployment" =>
       /\ existing.rv <= child["Deployment"].rv
       /\ existing.rv = child["Deployment"].rv => existing = child["Deployment"]

Guarded(v) == v.exists /\ v.finalizer /\ ~v.deleting

\* If any copy of an incarnation shows it guarded, it is still there and holds
\* its finalizer (it may be marked for deletion meanwhile).
GuardHolds ==
  \A v \in crWatch \union {crCache} :
    Guarded(v) => cr.exists /\ cr.finalizer /\ v.uid = cr.uid

MakingChildren == {"GetDeployment", "UpdateDeployment", "CreateDeployment",
                   "GetService", "CreateService"}

\* What the worker may rely on between two of its calls.
WorkerKnows ==
  /\ pc \in MakingChildren => cr.exists /\ cr.finalizer /\ sr.uid = cr.uid
  /\ pc = "AddFinalizer" => sr.exists /\ ~sr.deleting
  /\ pc = "RemoveFinalizer" => sr.deleting /\ sr.rv <= crCache.rv

IInv ==
  /\ VersionsOrdered /\ ChildVersionsOrdered
  /\ GuardHolds /\ WorkerKnows
  /\ StatusDescribesSpec

\* The fields of a version that the invariant compares.
LEMMA VersionFacts ==
  ASSUME TypeOK
  PROVE  /\ cr.rv \in Nat /\ crCache.rv \in Nat /\ sr.rv \in Nat
         /\ \A v \in crWatch : v.rv \in Nat
         /\ NoCR.rv = 0 /\ ~NoCR.exists
         /\ cr.generation \in Nat /\ cr.status.observedGeneration \in Nat
<1>1. cr.status.observedGeneration \in Nat
  <2>1. cr.status \in Statuses  BY DEF TypeOK, CRVersions
  <2> QED  BY <2>1 DEF Statuses
<1> QED  BY <1>1 DEF TypeOK, CRVersions, NoCR

\* The fields of a child's version that the invariant compares.
LEMMA ChildVersionFacts ==
  ASSUME TypeOK, NEW k \in Kinds
  PROVE  /\ child[k] \in ChildVersions /\ childCache[k] \in ChildVersions
         /\ child[k].rv \in Nat /\ childCache[k].rv \in Nat
         /\ \A v \in childWatch[k] : v.rv \in Nat
         /\ existing.rv \in Nat
BY DEF TypeOK, ChildVersions

\* A commit keeps the order of versions; the worker keeps, drops or refreshes
\* its copy.
LEMMA CommitKeepsOrder ==
  ASSUME TypeOK, VersionsOrdered,
         NEW v \in CRVersions, CommitCR(v),
         crCache' = crCache, sr' \in {sr, NoCR, cr'}
  PROVE  VersionsOrdered'
<1>0. cr \in CRVersions /\ crWatch \subseteq CRVersions  BY DEF TypeOK
<1>1. CASE UNCHANGED <<cr, crWatch>>
  BY <1>1, VersionFacts DEF VersionsOrdered
<1>2. CASE cr' = [v EXCEPT !.rv = cr.rv + 1] /\ crWatch' = crWatch \union {cr'}
  <2>1. cr'.rv = cr.rv + 1  BY <1>2 DEF CRVersions
  <2>2. cr'.rv # 0 /\ crCache.rv < cr'.rv /\ sr.rv < cr'.rv
    BY <2>1, VersionFacts DEF VersionsOrdered
  <2>3. \A w \in crWatch : crCache.rv <= w.rv /\ w.rv < cr'.rv
    BY <2>1, VersionFacts DEF VersionsOrdered
  <2>4. \A w \in crWatch' :
          crCache.rv <= w.rv /\ w.rv <= cr'.rv /\ (w.rv = cr'.rv => w = cr')
    <3> SUFFICES ASSUME NEW w \in crWatch'
                 PROVE  crCache.rv <= w.rv /\ w.rv <= cr'.rv /\ (w.rv = cr'.rv => w = cr')
      OBVIOUS
    <3>1. CASE w = cr'  BY <2>1, <2>2, <3>1, VersionFacts
    <3>2. CASE w \in crWatch  BY <2>1, <2>3, <3>2, VersionFacts
    <3> QED  BY <1>2, <3>1, <3>2
  <2>5. sr'.rv <= cr'.rv /\ (sr'.rv = cr'.rv => sr' = cr')
    BY <2>1, <2>2, VersionFacts
  <2>6. crCache'.rv <= cr'.rv /\ (crCache'.rv = cr'.rv => crCache' = cr')
    BY <2>1, <2>2, VersionFacts
  <2> QED  BY <2>2, <2>4, <2>5, <2>6 DEF VersionsOrdered
<1> QED  BY <1>0, <1>1, <1>2, CommitCRStores

\* A commit that keeps a guarded incarnation guarded keeps GuardHolds.
LEMMA CommitKeepsGuard ==
  ASSUME TypeOK, GuardHolds,
         NEW v \in CRVersions, CommitCR(v), crCache' = crCache,
         cr.exists /\ cr.finalizer => v.exists /\ v.finalizer /\ v.uid = cr.uid
  PROVE  GuardHolds' /\ (cr.exists /\ cr.finalizer
                           => cr'.exists /\ cr'.finalizer /\ cr'.uid = cr.uid)
<1>0. cr \in CRVersions /\ crWatch \subseteq CRVersions  BY DEF TypeOK
<1>1. CASE UNCHANGED <<cr, crWatch>>
  BY <1>1 DEF GuardHolds, Guarded
<1>2. CASE cr' = [v EXCEPT !.rv = cr.rv + 1] /\ crWatch' = crWatch \union {cr'}
  <2>1. cr'.exists = v.exists /\ cr'.finalizer = v.finalizer /\ cr'.uid = v.uid
    BY <1>2 DEF CRVersions
  <2> QED  BY <1>2, <2>1 DEF GuardHolds, Guarded
<1> QED  BY <1>0, <1>1, <1>2, CommitCRStores

\* What a commit does to the relation between status and spec.
LEMMA CommitKeepsStatus ==
  ASSUME TypeOK, StatusDescribesSpec,
         NEW v \in CRVersions, CommitCR(v),
         v.exists => /\ v.status.observedGeneration <= v.generation
                     /\ v.status.observedGeneration = v.generation
                          => v.status.replicas = v.spec.replicas
  PROVE  StatusDescribesSpec'
<1>0. cr \in CRVersions /\ crWatch \subseteq CRVersions  BY DEF TypeOK
<1>1. CASE UNCHANGED cr
  BY <1>1 DEF StatusDescribesSpec
<1>2. CASE cr' = [v EXCEPT !.rv = cr.rv + 1]
  <2>1. /\ cr'.exists = v.exists /\ cr'.status = v.status
        /\ cr'.generation = v.generation /\ cr'.spec = v.spec
    BY <1>2 DEF CRVersions
  <2> QED  BY <2>1 DEF StatusDescribesSpec
<1> QED  BY <1>0, <1>1, <1>2, CommitCRStores

LEMMA ChildCommitKeepsOrder ==
  ASSUME TypeOK, ChildVersionsOrdered,
         NEW k \in Kinds, NEW v \in ChildVersions, CommitChild(k, v),
         childCache' = childCache,
         pc' = "UpdateDeployment" => pc = "UpdateDeployment" /\ existing' = existing
  PROVE  ChildVersionsOrdered'
<1>0. /\ child \in [Kinds -> ChildVersions]
      /\ childWatch \in [Kinds -> SUBSET ChildVersions]
  BY DEF TypeOK
<1>1. CASE UNCHANGED <<child, childWatch>>
  BY <1>1 DEF ChildVersionsOrdered
<1>2. CASE v # child[k]
  <2> DEFINE new == [v EXCEPT !.rv = child[k].rv + 1]
  <2>1. /\ child' = [child EXCEPT ![k] = new]
        /\ childWatch' = [childWatch EXCEPT ![k] = childWatch[k] \union {new}]
    BY <1>2 DEF CommitChild
  <2>2. new.rv = child[k].rv + 1  BY DEF ChildVersions
  <2> HIDE DEF new
  <2>3. child'[k] = new /\ childWatch'[k] = childWatch[k] \union {new}
    BY <1>0, <2>1
  <2>4. \A j \in Kinds : j # k => child'[j] = child[j] /\ childWatch'[j] = childWatch[j]
    BY <1>0, <2>1
  <2>5. ASSUME NEW j \in Kinds
        PROVE  /\ childCache[j].rv <= child'[j].rv
               /\ childCache[j].rv = child'[j].rv => childCache[j] = child'[j]
               /\ \A w \in childWatch'[j] :
                    w.rv <= child'[j].rv /\ (w.rv = child'[j].rv => w = child'[j])
    <3>1. CASE j = k
      <4>1. childCache[k].rv <= child[k].rv
            /\ \A w \in childWatch[k] : w.rv <= child[k].rv
        BY DEF ChildVersionsOrdered
      <4> QED  BY <2>2, <2>3, <3>1, <4>1, ChildVersionFacts
    <3>2. CASE j # k  BY <2>4, <3>2 DEF ChildVersionsOrdered
    <3> QED  BY <3>1, <3>2
  <2>6. ASSUME pc' = "UpdateDeployment"
        PROVE  /\ existing'.rv <= child'["Deployment"].rv
               /\ existing'.rv = child'["Deployment"].rv
                    => existing' = child'["Deployment"]
    <3>0. "Deployment" \in Kinds  BY DEF Kinds
    <3>1. existing' = existing /\ existing.rv <= child["Deployment"].rv
          /\ (existing.rv = child["Deployment"].rv => existing = child["Deployment"])
      BY <2>6 DEF ChildVersionsOrdered
    <3>2. CASE k = "Deployment"
      BY <2>2, <2>3, <3>0, <3>1, <3>2, ChildVersionFacts
    <3>3. CASE k # "Deployment"  BY <2>4, <3>0, <3>1, <3>3
    <3> QED  BY <3>2, <3>3
  <2> QED  BY <2>5, <2>6 DEF ChildVersionsOrdered
<1> QED  BY <1>0, <1>1, <1>2, CommitChildStores

\* A step that leaves the worker where it is leaves it what it knows, as long
\* as a guarded incarnation stays and the cache does not grow older.
LEMMA WorkerStillKnows ==
  ASSUME TypeOK, WorkerKnows, UNCHANGED <<pc, sr>>,
         cr.exists /\ cr.finalizer => cr'.exists /\ cr'.finalizer /\ cr'.uid = cr.uid,
         crCache'.rv \in Nat, crCache.rv <= crCache'.rv
  PROVE  WorkerKnows'
BY VersionFacts DEF WorkerKnows

\* Users and the rest of the cluster commit a version of the SampleResource.
LEMMA OutsideCommit ==
  ASSUME TypeOK, IInv, Elsewhere,
         NEW v \in CRVersions, CommitCR(v),
         cr.exists /\ cr.finalizer => v.exists /\ v.finalizer /\ v.uid = cr.uid,
         v.exists => /\ v.status.observedGeneration <= v.generation
                     /\ v.status.observedGeneration = v.generation
                          => v.status.replicas = v.spec.replicas
  PROVE  IInv'
<1>0. UNCHANGED <<crCache, childCache, pc, sr, existing>>
  BY DEF Elsewhere, caches, worker
<1>1. VersionsOrdered'  BY <1>0, CommitKeepsOrder DEF IInv
<1>2. GuardHolds' /\ (cr.exists /\ cr.finalizer
                        => cr'.exists /\ cr'.finalizer /\ cr'.uid = cr.uid)
  BY <1>0, CommitKeepsGuard DEF IInv
<1>3. WorkerKnows'  BY <1>0, <1>2, VersionFacts, WorkerStillKnows DEF IInv
<1>4. StatusDescribesSpec'  BY CommitKeepsStatus DEF IInv
<1>5. UNCHANGED <<child, childWatch>>  BY DEF CommitCR
<1>6. ChildVersionsOrdered'  BY <1>0, <1>5 DEF ChildVersionsOrdered, IInv
<1> QED  BY <1>1, <1>2, <1>3, <1>4, <1>6 DEF IInv

\* Users and the rest of the cluster commit a version of a child.
LEMMA OutsideChildCommit ==
  ASSUME TypeOK, IInv, Elsewhere,
         NEW k \in Kinds, NEW v \in ChildVersions, CommitChild(k, v)
  PROVE  IInv'
<1>0. UNCHANGED <<crCache, childCache, pc, sr, existing>>
  BY DEF Elsewhere, caches, worker
<1>1. UNCHANGED <<cr, crWatch>>  BY DEF CommitChild
<1>2. ChildVersionsOrdered'  BY <1>0, ChildCommitKeepsOrder DEF IInv
<1> QED
  BY <1>0, <1>1, <1>2 DEF IInv, VersionsOrdered, GuardHolds, WorkerKnows, StatusDescribesSpec

\* Users who create, edit or delete keep the inductive invariant.
LEMMA UserKeepsIInv ==
  ASSUME TypeOK, IInv, User
  PROVE  IInv'
<1>1. CASE CreateCR
  <2> DEFINE new(s) == [NoCR EXCEPT !.rv = cr.rv, !.exists = TRUE, !.uid = cr.uid + 1,
                                    !.generation = 1, !.spec = s]
  <2>1. PICK s \in SpecValues : CommitCR(new(s))  BY <1>1 DEF CreateCR
  <2>2. new(s) \in CRVersions
    <3>1. cr.rv \in Nat /\ cr.uid + 1 \in Nat  BY DEF TypeOK, CRVersions
    <3> QED  BY <3>1, InitialVersions DEF CRVersions
  <2>3. new(s).generation = 1 /\ new(s).status.observedGeneration = 0
    BY DEF NoCR, EmptyStatus
  <2>4. ~cr.exists /\ Elsewhere  BY <1>1 DEF CreateCR
  <2> HIDE DEF new
  <2> QED  BY <2>1, <2>2, <2>3, <2>4, OutsideCommit
<1>2. CASE EditCR
  <2> DEFINE new(s) == [cr EXCEPT !.spec = s, !.generation = @ + 1]
  <2>0. cr \in CRVersions /\ cr.generation + 1 \in Nat  BY DEF TypeOK, CRVersions
  <2>1. PICK s \in SpecValues : CommitCR(new(s))  BY <1>2 DEF EditCR
  <2>2. new(s) \in CRVersions  BY <2>0 DEF CRVersions
  <2>3. /\ new(s).exists = cr.exists /\ new(s).finalizer = cr.finalizer
        /\ new(s).uid = cr.uid /\ new(s).status = cr.status
        /\ new(s).generation = cr.generation + 1
    BY <2>0 DEF CRVersions
  <2>4. new(s).exists => new(s).status.observedGeneration < new(s).generation
    BY <2>3, VersionFacts DEF IInv, StatusDescribesSpec
  <2>5. new(s).status.observedGeneration \in Nat /\ new(s).generation \in Nat
    BY <2>0, <2>3, VersionFacts
  <2>6. Elsewhere  BY <1>2 DEF EditCR
  <2> HIDE DEF new
  <2> QED  BY <2>1, <2>2, <2>3, <2>4, <2>5, <2>6, OutsideCommit
<1>3. CASE DeleteCR
  <2> DEFINE new == [cr EXCEPT !.deleting = TRUE, !.generation = @ + 1]
  <2>0. cr \in CRVersions /\ cr.generation + 1 \in Nat  BY DEF TypeOK, CRVersions
  <2>1. new \in CRVersions  BY <2>0 DEF CRVersions
  <2>2. /\ new.exists = cr.exists /\ new.finalizer = cr.finalizer
        /\ new.uid = cr.uid /\ new.status = cr.status
        /\ new.generation = cr.generation + 1
    BY <2>0 DEF CRVersions
  <2>3. new.exists => new.status.observedGeneration < new.generation
    BY <2>2, VersionFacts DEF IInv, StatusDescribesSpec
  <2>4. new.status.observedGeneration \in Nat /\ new.generation \in Nat
    BY <2>0, <2>2, VersionFacts
  <2>5. CRTombstone(cr) \in CRVersions /\ ~CRTombstone(cr).exists
    BY <2>0, CRTombstoneType DEF CRTombstone, NoCR
  <2>6. Elsewhere  BY <1>3 DEF DeleteCR
  <2>7. \/ CommitCR(new)
        \/ ~cr.finalizer /\ CommitCR(CRTombstone(cr))
    BY <1>3 DEF DeleteCR
  <2> HIDE DEF new
  <2>8. CASE CommitCR(new)
    BY <2>1, <2>2, <2>3, <2>4, <2>6, <2>8, OutsideCommit
  <2>9. CASE ~cr.finalizer /\ CommitCR(CRTombstone(cr))
    BY <2>5, <2>6, <2>9, OutsideCommit
  <2> QED  BY <2>7, <2>8, <2>9
<1> QED  BY <1>1, <1>2, <1>3 DEF User

\* So do autoscalers, rollouts, strangers and the garbage collector.
LEMMA ClusterKeepsIInv ==
  ASSUME TypeOK, IInv, Cluster
  PROVE  IInv'
<1>0. "Deployment" \in Kinds /\ child["Deployment"] \in ChildVersions
  BY ChildVersionFacts DEF Kinds
<1> DEFINE d == child["Deployment"]
<1>1. CASE ScaleDeployment
  <2>1. PICK n \in ReplicaCounts : CommitChild("Deployment", [d EXCEPT !.replicas = n])
    BY <1>1 DEF ScaleDeployment
  <2>2. [d EXCEPT !.replicas = n] \in ChildVersions
    BY <1>0, ConstantsAssumption DEF ChildVersions
  <2> QED  BY <1>0, <1>1, <2>1, <2>2, OutsideChildCommit DEF ScaleDeployment
<1>2. CASE Rollout
  <2>1. CommitChild("Deployment", [d EXCEPT !.available = d.replicas])
    BY <1>2 DEF Rollout
  <2>2. [d EXCEPT !.available = d.replicas] \in ChildVersions
    BY <1>0 DEF ChildVersions
  <2> QED  BY <1>0, <1>2, <2>1, <2>2, OutsideChildCommit DEF Rollout
<1>3. CASE Tick
  BY <1>3 DEF Tick, server, caches, worker, IInv, VersionsOrdered, ChildVersionsOrdered,
              GuardHolds, WorkerKnows, StatusDescribesSpec
<1>4. ASSUME NEW k \in Kinds, CreateForeign(k) PROVE IInv'
  <2> DEFINE n == IF k = "Deployment" THEN SomeSpec.replicas ELSE 0
             v == [NoChild EXCEPT !.rv = child[k].rv, !.exists = TRUE, !.replicas = n]
  <2>1. n \in Nat  BY InitialVersions, ConstantsAssumption DEF SpecValues
  <2>2. CommitChild(k, v) /\ Elsewhere  BY <1>4 DEF CreateForeign
  <2> HIDE DEF n
  <2>3. v \in ChildVersions
    BY <2>1, ChildVersionFacts, InitialVersions DEF ChildVersions
  <2> QED  BY <2>2, <2>3, OutsideChildCommit
<1>5. ASSUME NEW k \in Kinds, RemoveChild(k) \/ CollectGarbage(k) PROVE IInv'
  <2>1. ChildTombstone(child[k]) \in ChildVersions
    BY ChildVersionFacts, ChildTombstoneType
  <2>2. CommitChild(k, ChildTombstone(child[k])) /\ Elsewhere
    BY <1>5 DEF RemoveChild, CollectGarbage
  <2> QED  BY <2>1, <2>2, OutsideChildCommit
<1> QED  BY <1>1, <1>2, <1>3, <1>4, <1>5 DEF Cluster

\* So do the informers, which only ever bring the caches forward.
LEMMA InformersKeepIInv ==
  ASSUME TypeOK, IInv, Informers
  PROVE  IInv'
<1>1. CASE DeliverCR
  <2>1. PICK v \in crWatch : /\ \A w \in crWatch : v.rv <= w.rv
                             /\ crCache' = v /\ crWatch' = crWatch \ {v}
    BY <1>1 DEF DeliverCR
  <2>2. UNCHANGED <<cr, child, childWatch, childCache, pc, sr, existing>>
    BY <1>1 DEF DeliverCR, worker
  <2>3. VersionsOrdered'  BY <2>1, <2>2 DEF IInv, VersionsOrdered
  <2>4. GuardHolds'  BY <2>1, <2>2 DEF IInv, GuardHolds
  <2>5. crCache'.rv \in Nat /\ crCache.rv <= crCache'.rv
    BY <2>1, VersionFacts DEF IInv, VersionsOrdered
  <2>6. WorkerKnows'  BY <2>2, <2>5, WorkerStillKnows DEF IInv
  <2> QED
    BY <2>2, <2>3, <2>4, <2>6 DEF IInv, ChildVersionsOrdered, StatusDescribesSpec
<1>2. CASE RelistCR
  <2>1. UNCHANGED <<cr, child, childWatch, childCache, pc, sr, existing>>
        /\ crCache' = cr /\ crWatch' = {}
    BY <1>2 DEF RelistCR, worker
  <2>2. VersionsOrdered'  BY <2>1, VersionFacts DEF IInv, VersionsOrdered
  <2>3. GuardHolds'  BY <2>1 DEF IInv, GuardHolds, Guarded
  <2>4. crCache'.rv \in Nat /\ crCache.rv <= crCache'.rv
    BY <2>1, VersionFacts DEF IInv, VersionsOrdered
  <2>5. WorkerKnows'  BY <2>1, <2>4, WorkerStillKnows DEF IInv
  <2> QED
    BY <2>1, <2>2, <2>3, <2>5 DEF IInv, ChildVersionsOrdered, StatusDescribesSpec
<1>3. CASE Resync
  BY <1>3 DEF Resync, server, caches, worker, IInv, VersionsOrdered, ChildVersionsOrdered,
              GuardHolds, WorkerKnows, StatusDescribesSpec
<1>4. ASSUME NEW k \in Kinds, DeliverChild(k) \/ RelistChild(k) PROVE IInv'
  <2>1. UNCHANGED <<cr, crWatch, crCache, child, pc, sr, existing>>
    BY <1>4 DEF DeliverChild, RelistChild, worker
  <2>2. \E v \in childWatch[k] \union {child[k]} :
          /\ childCache' = [childCache EXCEPT ![k] = v]
          /\ \/ childWatch' = [childWatch EXCEPT ![k] = @ \ {v}]
             \/ childWatch' = [childWatch EXCEPT ![k] = {}]
    BY <1>4 DEF DeliverChild, RelistChild
  <2>3. PICK v \in childWatch[k] \union {child[k]} :
          /\ childCache' = [childCache EXCEPT ![k] = v]
          /\ \/ childWatch' = [childWatch EXCEPT ![k] = @ \ {v}]
             \/ childWatch' = [childWatch EXCEPT ![k] = {}]
    BY <2>2
  <2>4. /\ childCache \in [Kinds -> ChildVersions]
        /\ childWatch \in [Kinds -> SUBSET ChildVersions]
    BY DEF TypeOK
  <2>5. v.rv <= child[k].rv /\ (v.rv = child[k].rv => v = child[k])
    BY ChildVersionFacts DEF IInv, ChildVersionsOrdered
  <2>6. \A j \in Kinds : childCache'[j] = IF j = k THEN v ELSE childCache[j]
    BY <2>3, <2>4
  <2>7. \A j \in Kinds : childWatch'[j] \subseteq childWatch[j]
    BY <2>3, <2>4
  <2>8. ChildVersionsOrdered'
    BY <2>1, <2>5, <2>6, <2>7 DEF IInv, ChildVersionsOrdered
  <2> QED
    BY <2>1, <2>8 DEF IInv, VersionsOrdered, GuardHolds, WorkerKnows, StatusDescribesSpec
<1> QED  BY <1>1, <1>2, <1>3, <1>4 DEF Informers

\* So does a crash, after which the worker knows nothing.
LEMMA CrashKeepsIInv ==
  ASSUME TypeOK, IInv, Crash
  PROVE  IInv'
<1>1. /\ UNCHANGED <<cr, child>> /\ crCache' = cr /\ crWatch' = {}
      /\ childCache' = child /\ childWatch' = [k \in Kinds |-> {}]
      /\ pc' = "idle" /\ sr' = NoCR
  BY DEF Crash
<1>2. VersionsOrdered'  BY <1>1, VersionFacts DEF IInv, VersionsOrdered
<1>3. GuardHolds'  BY <1>1 DEF GuardHolds, Guarded
<1>4. WorkerKnows'  BY <1>1 DEF WorkerKnows, MakingChildren
<1>5. ChildVersionsOrdered'
  BY <1>1, ChildVersionFacts DEF ChildVersionsOrdered
<1> QED  BY <1>1, <1>2, <1>3, <1>4, <1>5 DEF IInv, StatusDescribesSpec

\* The worker moves on without writing.
LEMMA WorkerMoves ==
  ASSUME TypeOK, IInv, UNCHANGED <<server, caches>>,
         sr' \in {sr, NoCR}, pc' # "UpdateDeployment", WorkerKnows'
  PROVE  IInv'
<1>1. VersionsOrdered'
  BY VersionFacts DEF IInv, VersionsOrdered, server, caches
<1> QED
  BY <1>1 DEF IInv, ChildVersionsOrdered, GuardHolds, StatusDescribesSpec, server, caches

\* After a reconcile has returned the worker claims to know nothing.
LEMMA ReturnKnowsNothing ==
  ASSUME NEW err, Return(err)
  PROVE  sr' = NoCR /\ pc' = "idle" /\ WorkerKnows'
BY DEF Return, WorkerKnows, MakingChildren

\* The worker commits a version of the SampleResource.
LEMMA WorkerCommit ==
  ASSUME TypeOK, IInv, UNCHANGED caches,
         NEW v \in CRVersions, CommitCR(v),
         sr' \in {sr, NoCR, cr'}, pc' # "UpdateDeployment",
         cr.exists /\ cr.finalizer => v.exists /\ v.finalizer /\ v.uid = cr.uid,
         v.exists => /\ v.status.observedGeneration <= v.generation
                     /\ v.status.observedGeneration = v.generation
                          => v.status.replicas = v.spec.replicas,
         WorkerKnows'
  PROVE  IInv'
<1>0. UNCHANGED <<crCache, childCache>>  BY DEF caches
<1>1. VersionsOrdered'  BY <1>0, CommitKeepsOrder DEF IInv
<1>2. GuardHolds'  BY <1>0, CommitKeepsGuard DEF IInv
<1>3. StatusDescribesSpec'  BY CommitKeepsStatus DEF IInv
<1>4. UNCHANGED <<child, childWatch>>  BY DEF CommitCR
<1>5. ChildVersionsOrdered'  BY <1>0, <1>4 DEF ChildVersionsOrdered, IInv
<1> QED  BY <1>1, <1>2, <1>3, <1>5 DEF IInv

\* The worker commits a version of a child.
LEMMA WorkerChildCommit ==
  ASSUME TypeOK, IInv, UNCHANGED <<caches, sr>>,
         NEW k \in Kinds, NEW v \in ChildVersions, CommitChild(k, v),
         pc' # "UpdateDeployment", WorkerKnows'
  PROVE  IInv'
<1>0. UNCHANGED <<crCache, childCache, cr, crWatch>>  BY DEF caches, CommitChild
<1>1. ChildVersionsOrdered'  BY <1>0, ChildCommitKeepsOrder DEF IInv
<1> QED
  BY <1>0, <1>1 DEF IInv, VersionsOrdered, GuardHolds, StatusDescribesSpec

\* What an update of the SampleResource that is accepted commits.
LEMMA FreshCopy ==
  ASSUME IInv, CRFresh(sr)
  PROVE  sr = cr /\ cr.exists
BY DEF IInv, VersionsOrdered, CRFresh

\* The accepted update that adds the finalizer, and what it leaves unchanged.
LEMMA AddFinalizerCommits ==
  ASSUME TypeOK, IInv, pc = "AddFinalizer", CRFresh(sr),
         UpdateCR([sr EXCEPT !.finalizer = TRUE])
  PROVE  /\ sr = cr /\ cr.exists /\ ~cr.deleting
         /\ CommitCR([cr EXCEPT !.finalizer = TRUE])
         /\ [cr EXCEPT !.finalizer = TRUE] \in CRVersions
<1> DEFINE c == [sr EXCEPT !.finalizer = TRUE]
<1>1. sr = cr /\ cr.exists /\ ~cr.deleting
  BY FreshCopy DEF IInv, WorkerKnows
<1>2. c \in CRVersions /\ c.deleting = FALSE /\ c.finalizer = TRUE /\ c.spec = cr.spec
      /\ c = [cr EXCEPT !.finalizer = TRUE] /\ c.status = cr.status
      /\ c.generation = cr.generation
  BY <1>1 DEF TypeOK, CRVersions
<1>3. CommitCR([c EXCEPT !.status = cr.status, !.generation = cr.generation])
  BY <1>2 DEF UpdateCR, NextGeneration
<1>4. [c EXCEPT !.status = cr.status, !.generation = cr.generation] = c
  BY <1>2 DEF CRVersions
<1> QED  BY <1>1, <1>2, <1>3, <1>4

\* The accepted update that removes the finalizer releases the incarnation.
LEMMA RemoveFinalizerCommits ==
  ASSUME TypeOK, IInv, pc = "RemoveFinalizer", CRFresh(sr),
         UpdateCR([sr EXCEPT !.finalizer = FALSE])
  PROVE  /\ sr = cr /\ cr.exists /\ cr.deleting
         /\ crCache = cr
         /\ \A v \in crWatch : v = cr
         /\ CommitCR(CRTombstone(cr))
<1>1. sr = cr /\ cr.exists /\ cr.deleting /\ sr.rv <= crCache.rv
  BY FreshCopy DEF IInv, WorkerKnows
<1>2. crCache = cr  BY <1>1, VersionFacts DEF IInv, VersionsOrdered
<1>3. \A v \in crWatch : v = cr  BY <1>1, <1>2, VersionFacts DEF IInv, VersionsOrdered
<1>4. [sr EXCEPT !.finalizer = FALSE].deleting = TRUE
      /\ [sr EXCEPT !.finalizer = FALSE].finalizer = FALSE
  BY <1>1 DEF TypeOK, CRVersions
<1> QED  BY <1>1, <1>2, <1>3, <1>4 DEF UpdateCR

\* Every step of Reconcile keeps the inductive invariant.
LEMMA WorkerKeepsIInv ==
  ASSUME TypeOK, IInv, Worker
  PROVE  IInv'
<1>0. "Deployment" \in Kinds /\ "Service" \in Kinds  BY DEF Kinds
<1> DEFINE Stays == UNCHANGED <<server, caches>>
<1>1. CASE StartReconcile
  <2>1. Stays /\ sr' = sr /\ pc' = "Get"  BY <1>1 DEF StartReconcile
  <2> QED  BY <2>1, WorkerMoves DEF WorkerKnows, MakingChildren
<1>2. CASE GetNotFound
  BY <1>2, ReturnKnowsNothing, WorkerMoves DEF GetNotFound
<1>3. CASE GetDeleting
  <2>1. Stays  BY <1>3 DEF GetDeleting
  <2>2. CASE Return(FALSE)  BY <2>1, <2>2, ReturnKnowsNothing, WorkerMoves
  <2>3. CASE sr' = crCache /\ pc' = "RemoveFinalizer"
    <3>1. crCache.deleting  BY <1>3 DEF GetDeleting
    <3>2. VersionsOrdered'
      BY <2>1, <2>3, VersionFacts DEF IInv, VersionsOrdered, server, caches
    <3>3. WorkerKnows'
      BY <2>1, <2>3, <3>1, VersionFacts DEF WorkerKnows, MakingChildren, caches
    <3> QED
      BY <2>1, <2>3, <3>2, <3>3 DEF IInv, ChildVersionsOrdered, GuardHolds,
                                    StatusDescribesSpec, server, caches
  <2> QED  BY <1>3, <2>2, <2>3 DEF GetDeleting
<1>4. CASE GetLive
  <2>1. Stays /\ sr' = crCache /\ pc' \in {"GetDeployment", "AddFinalizer"}
        /\ (pc' = "GetDeployment" => crCache.finalizer)
        /\ crCache.exists /\ ~crCache.deleting
    BY <1>4 DEF GetLive
  <2>2. VersionsOrdered'
    BY <2>1, VersionFacts DEF IInv, VersionsOrdered, server, caches
  <2>3. crCache.finalizer => cr.exists /\ cr.finalizer /\ crCache.uid = cr.uid
    BY <2>1 DEF IInv, GuardHolds, Guarded
  <2>4. WorkerKnows'
    BY <2>1, <2>3 DEF WorkerKnows, MakingChildren, server, caches
  <2> QED
    BY <2>1, <2>2, <2>4 DEF IInv, ChildVersionsOrdered, GuardHolds,
                            StatusDescribesSpec, server, caches
<1>5. CASE AddFinalizer
  <2> DEFINE Up == UpdateCR([sr EXCEPT !.finalizer = TRUE])
             v == [cr EXCEPT !.finalizer = TRUE]
  <2>0. pc = "AddFinalizer" /\ UNCHANGED caches  BY <1>5 DEF AddFinalizer
  <2>1. \/ CRFresh(sr) /\ Up /\ pc' = "GetDeployment" /\ sr' = cr'
        \/ CRFresh(sr) /\ Up /\ Return(TRUE)
        \/ UNCHANGED server /\ Return(TRUE)
    BY <1>5 DEF AddFinalizer, Call
  <2>2. CASE UNCHANGED server /\ Return(TRUE)
    BY <2>0, <2>2, ReturnKnowsNothing, WorkerMoves
  <2>3. CASE CRFresh(sr) /\ Up
    <3>1. CommitCR(v) /\ v \in CRVersions /\ cr.exists /\ sr = cr
      BY <2>0, <2>3, AddFinalizerCommits
    <3>2. /\ v.exists /\ v.finalizer /\ v.uid = cr.uid
          /\ v.status = cr.status /\ v.generation = cr.generation /\ v.spec = cr.spec
      BY <3>1 DEF CRVersions, TypeOK
    <3>3. /\ v.status.observedGeneration <= v.generation
          /\ v.status.observedGeneration = v.generation
               => v.status.replicas = v.spec.replicas
      BY <3>1, <3>2 DEF IInv, StatusDescribesSpec
    <3>4. cr'.exists /\ cr'.finalizer /\ cr'.uid = cr.uid
      <4>1. cr' = v \/ cr' = [v EXCEPT !.rv = cr.rv + 1]
        BY <3>1, CommitCRStores DEF TypeOK
      <4> QED  BY <3>1, <3>2, <4>1 DEF CRVersions
    <3> HIDE DEF v
    <3>5. CASE pc' = "GetDeployment" /\ sr' = cr'
      <4>1. WorkerKnows'  BY <3>4, <3>5 DEF WorkerKnows, MakingChildren
      <4> QED  BY <2>0, <3>1, <3>2, <3>3, <3>5, <4>1, WorkerCommit
    <3>6. CASE Return(TRUE)
      BY <2>0, <3>1, <3>2, <3>3, <3>6, ReturnKnowsNothing, WorkerCommit
    <3>7. (pc' = "GetDeployment" /\ sr' = cr') \/ Return(TRUE)  BY <2>1
    <3> QED  BY <3>5, <3>6, <3>7
  <2> QED  BY <2>1, <2>2, <2>3
<1>6. CASE GetDeployment
  <2>1. Stays /\ sr' = sr /\ pc = "GetDeployment"
        /\ \/ pc' \in {"GetService", "CreateDeployment"}
           \/ pc' = "UpdateDeployment" /\ existing' = childCache["Deployment"]
    BY <1>6 DEF GetDeployment, Goto
  <2>2. WorkerKnows'  BY <2>1 DEF IInv, WorkerKnows, MakingChildren, server
  <2>3. CASE pc' # "UpdateDeployment"  BY <2>1, <2>2, <2>3, WorkerMoves
  <2>4. CASE pc' = "UpdateDeployment"
    <3>1. existing' = childCache["Deployment"]  BY <2>1, <2>4
    <3>2. VersionsOrdered'  BY <2>1 DEF IInv, VersionsOrdered, server, caches
    <3>3. ChildVersionsOrdered'
      BY <1>0, <2>1, <3>1 DEF IInv, ChildVersionsOrdered, server, caches
    <3> QED
      BY <2>1, <2>2, <3>2, <3>3 DEF IInv, GuardHolds, StatusDescribesSpec, server, caches
  <2> QED  BY <2>3, <2>4
<1>7. CASE UpdateDeployment \/ CreateDeployment \/ CreateService
  <2>1. UNCHANGED caches /\ pc \in MakingChildren
    BY <1>7 DEF UpdateDeployment, CreateDeployment, CreateService, MakingChildren
  <2>2. sr' = sr /\ pc' \in {"GetService", "UpdateStatus"}
    BY <1>7 DEF UpdateDeployment, CreateDeployment, CreateService, Call, Goto, Fail
  <2>3. \/ UNCHANGED server
        \/ \E k \in Kinds, v \in ChildVersions : CommitChild(k, v)
    <3>1. [existing EXCEPT !.replicas = sr.spec.replicas] \in ChildVersions
      <4>1. sr.spec.replicas \in Nat
        BY ConstantsAssumption DEF TypeOK, CRVersions, SpecValues
      <4> QED  BY <4>1 DEF TypeOK, ChildVersions
    <3>2. \A k \in Kinds : Build(k) \in ChildVersions  BY BuildType
    <3> QED
      BY <1>0, <1>7, <3>1, <3>2
         DEF UpdateDeployment, CreateDeployment, CreateService, Call
  <2>4. CASE UNCHANGED server
    <3>1. WorkerKnows'  BY <2>1, <2>2, <2>4 DEF IInv, WorkerKnows, MakingChildren, server
    <3> QED  BY <2>1, <2>2, <2>4, <3>1, WorkerMoves
  <2>5. CASE \E k \in Kinds, v \in ChildVersions : CommitChild(k, v)
    <3>1. PICK k \in Kinds, v \in ChildVersions : CommitChild(k, v)  BY <2>5
    <3>2. cr' = cr  BY <3>1 DEF CommitChild
    <3>3. WorkerKnows'  BY <2>1, <2>2, <3>2 DEF IInv, WorkerKnows, MakingChildren
    <3> QED  BY <2>1, <2>2, <3>1, <3>3, WorkerChildCommit
  <2> QED  BY <2>3, <2>4, <2>5
<1>8. CASE GetService
  <2>1. Stays /\ sr' = sr /\ pc = "GetService" /\ pc' \in {"UpdateStatus", "CreateService"}
    BY <1>8 DEF GetService, Goto
  <2>2. WorkerKnows'  BY <2>1 DEF IInv, WorkerKnows, MakingChildren, server
  <2> QED  BY <2>1, <2>2, WorkerMoves
<1>9. CASE UpdateStatus
  <2> DEFINE v == [cr EXCEPT !.status = NewStatus]
  <2>1. UNCHANGED caches /\ sr' = NoCR /\ pc' = "idle" /\ WorkerKnows'
    BY <1>9, ReturnKnowsNothing DEF UpdateStatus
  <2>2. CASE UNCHANGED server  BY <2>1, <2>2, WorkerMoves
  <2>3. CASE StatusFresh(sr) /\ CommitCR(v)
    <3>1. sr = cr /\ cr.exists  BY <2>3, FreshCopy DEF StatusFresh
    <3>2. v \in CRVersions  BY NewStatusType DEF TypeOK, CRVersions
    <3>3. /\ v.exists /\ v.finalizer = cr.finalizer /\ v.uid = cr.uid
          /\ v.status = NewStatus /\ v.generation = cr.generation /\ v.spec = cr.spec
      BY <3>1 DEF TypeOK, CRVersions
    <3>4. /\ NewStatus.observedGeneration = cr.generation
          /\ NewStatus.replicas = cr.spec.replicas
      BY <3>1 DEF NewStatus
    <3>5. v.status.observedGeneration <= v.generation
      BY <3>3, <3>4, VersionFacts
    <3> HIDE DEF v
    <3> QED  BY <2>1, <2>3, <3>2, <3>3, <3>4, <3>5, WorkerCommit
  <2> QED  BY <1>9, <2>2, <2>3 DEF UpdateStatus
<1>10. CASE RemoveFinalizer
  <2> DEFINE Up == UpdateCR([sr EXCEPT !.finalizer = FALSE])
  <2>0. pc = "RemoveFinalizer" /\ UNCHANGED caches
        /\ sr' = NoCR /\ pc' = "idle" /\ WorkerKnows'
    BY <1>10, ReturnKnowsNothing DEF RemoveFinalizer, Call
  <2>1. UNCHANGED server \/ (CRFresh(sr) /\ Up)
    BY <1>10 DEF RemoveFinalizer, Call
  <2>2. CASE UNCHANGED server  BY <2>0, <2>2, WorkerMoves
  <2>3. CASE CRFresh(sr) /\ Up
    <3>1. /\ cr.deleting /\ crCache = cr /\ (\A w \in crWatch : w = cr)
          /\ CommitCR(CRTombstone(cr))
      BY <2>0, <2>3, RemoveFinalizerCommits
    <3>2. CRTombstone(cr) \in CRVersions /\ ~CRTombstone(cr).exists
      BY CRTombstoneType DEF TypeOK, CRTombstone, NoCR
    <3>3. VersionsOrdered'
      BY <2>0, <3>1, <3>2, CommitKeepsOrder DEF IInv, caches
    <3>4. StatusDescribesSpec'  BY <3>1, <3>2, CommitKeepsStatus DEF IInv
    <3>5. UNCHANGED <<child, childWatch, crCache, childCache>>
      BY <2>0, <3>1 DEF CommitCR, caches
    <3>6. ChildVersionsOrdered'  BY <2>0, <3>5 DEF ChildVersionsOrdered, IInv
    <3>7. GuardHolds'
      <4>1. /\ crWatch' \subseteq crWatch \union {cr'}
            /\ cr' = CRTombstone(cr) \/ cr' = [CRTombstone(cr) EXCEPT !.rv = cr.rv + 1]
        BY <3>1, <3>2, CommitCRStores DEF TypeOK
      <4>2. ~cr'.exists  BY <3>2, <4>1 DEF CRVersions
      <4> QED  BY <3>1, <3>5, <4>1, <4>2 DEF GuardHolds, Guarded
    <3> QED  BY <2>0, <3>3, <3>4, <3>6, <3>7 DEF IInv
  <2> QED  BY <2>1, <2>2, <2>3
<1> QED
  BY <1>1, <1>2, <1>3, <1>4, <1>5, <1>6, <1>7, <1>8, <1>9, <1>10 DEF Worker

\* The inductive invariant holds.
THEOREM Invariance == Spec => []IInv
<1>1. Init => IInv
  <2> SUFFICES ASSUME Init PROVE IInv  OBVIOUS
  <2>1. VersionsOrdered  BY DEF Init, VersionsOrdered, NoCR
  <2>2. ChildVersionsOrdered
    BY DEF Init, ChildVersionsOrdered, NoChild
  <2>3. GuardHolds  BY DEF Init, GuardHolds, Guarded, NoCR
  <2>4. WorkerKnows  BY DEF Init, WorkerKnows, MakingChildren
  <2>5. StatusDescribesSpec  BY DEF Init, StatusDescribesSpec, NoCR
  <2> QED  BY <2>1, <2>2, <2>3, <2>4, <2>5 DEF IInv
<1>2. TypeOK /\ IInv /\ [Next]_vars => IInv'
  <2> SUFFICES ASSUME TypeOK, IInv, [Next]_vars PROVE IInv'
    OBVIOUS
  <2>1. CASE UNCHANGED vars
    BY <2>1 DEF vars, server, caches, queue, worker, IInv, VersionsOrdered,
                ChildVersionsOrdered, GuardHolds, WorkerKnows, StatusDescribesSpec
  <2>2. CASE BackoffExpires
    BY <2>2 DEF BackoffExpires, server, caches, worker, IInv, VersionsOrdered,
                ChildVersionsOrdered, GuardHolds, WorkerKnows, StatusDescribesSpec
  <2> QED
    BY <2>1, <2>2, UserKeepsIInv, ClusterKeepsIInv, InformersKeepIInv, CrashKeepsIInv,
       WorkerKeepsIInv DEF Next
<1> QED  BY <1>1, <1>2, TypeCorrect, PTL DEF Spec

\* A status is never ahead of the spec it describes.
THEOREM StatusTruthful == Spec => []StatusDescribesSpec
<1>1. IInv => StatusDescribesSpec  BY DEF IInv
<1> QED  BY <1>1, Invariance, PTL

----------------------------------------------------------------------------
(* Action properties, and the abstract life cycle.                          *)

\* A commit stores the very fields it was given.
LEMMA CommitFields ==
  ASSUME TypeOK, NEW v \in CRVersions, CommitCR(v)
  PROVE  /\ cr'.exists = v.exists /\ cr'.uid = v.uid
         /\ cr'.deleting = v.deleting /\ cr'.finalizer = v.finalizer
         /\ cr'.spec = v.spec /\ cr'.generation = v.generation
         /\ child' = child
<1>1. cr' = v \/ cr' = [v EXCEPT !.rv = cr.rv + 1]
  BY CommitCRStores DEF TypeOK
<1> QED  BY <1>1 DEF CRVersions, CommitCR

\* A commit of a child changes the owner of that child only.
LEMMA CommitOwners ==
  ASSUME TypeOK, NEW k \in Kinds, NEW v \in ChildVersions, CommitChild(k, v)
  PROVE  /\ cr' = cr
         /\ child'[k].exists = v.exists /\ child'[k].owner = v.owner
         /\ \A j \in Kinds : j # k => child'[j] = child[j]
<1>0. child \in [Kinds -> ChildVersions]  BY DEF TypeOK
<1>1. CASE v = child[k]  BY <1>1 DEF CommitChild
<1>2. CASE v # child[k]
  <2> DEFINE new == [v EXCEPT !.rv = child[k].rv + 1]
  <2>1. child' = [child EXCEPT ![k] = new] /\ cr' = cr  BY <1>2 DEF CommitChild
  <2>2. new.exists = v.exists /\ new.owner = v.owner  BY DEF ChildVersions
  <2> QED  BY <1>0, <2>1, <2>2
<1> QED  BY <1>1, <1>2

\* What the worker may do to the server, one write at a time.
LEMMA WorkerWrites ==
  ASSUME TypeOK, IInv, Worker
  PROVE  \/ UNCHANGED server
         \/ \E v \in CRVersions :
              /\ CommitCR(v)
              /\ cr.exists /\ v.exists /\ v.uid = cr.uid /\ v.deleting = cr.deleting
              /\ v.spec = cr.spec /\ v.generation = cr.generation
              /\ v.finalizer = cr.finalizer \/ (~cr.deleting /\ v.finalizer)
         \/ cr.exists /\ cr.deleting /\ CommitCR(CRTombstone(cr))
         \/ \E k \in Kinds, v \in ChildVersions :
              /\ CommitChild(k, v) /\ v.exists
              /\ \/ child[k].exists /\ v.owner = child[k].owner
                 \/ /\ ~child[k].exists /\ v.owner = cr.uid
                    /\ cr.exists /\ cr.finalizer
<1>0. "Deployment" \in Kinds /\ "Service" \in Kinds  BY DEF Kinds
<1>1. CASE StartReconcile \/ GetNotFound \/ GetDeleting \/ GetLive
             \/ GetDeployment \/ GetService
  BY <1>1 DEF StartReconcile, GetNotFound, GetDeleting, GetLive, GetDeployment,
              GetService, server
<1>2. CASE AddFinalizer
  <2>1. CASE CRFresh(sr) /\ UpdateCR([sr EXCEPT !.finalizer = TRUE])
    <3> DEFINE v == [cr EXCEPT !.finalizer = TRUE]
    <3>1. v \in CRVersions /\ CommitCR(v) /\ cr.exists /\ ~cr.deleting
      BY <1>2, <2>1, AddFinalizerCommits DEF AddFinalizer
    <3>2. /\ v.exists /\ v.finalizer /\ v.uid = cr.uid /\ v.deleting = cr.deleting
          /\ v.spec = cr.spec /\ v.generation = cr.generation
      BY <3>1 DEF TypeOK, CRVersions
    <3> HIDE DEF v
    <3> QED  BY <3>1, <3>2
  <2> QED  BY <1>2, <2>1 DEF AddFinalizer, Call, server
<1>3. CASE UpdateDeployment
  <2> DEFINE v == [existing EXCEPT !.replicas = sr.spec.replicas]
  <2>1. CASE ChildFresh("Deployment", existing) /\ CommitChild("Deployment", v)
    <3>1. existing = child["Deployment"] /\ child["Deployment"].exists
      BY <1>3, <2>1 DEF UpdateDeployment, IInv, ChildVersionsOrdered, ChildFresh
    <3>2. sr.spec.replicas \in Nat
      BY ConstantsAssumption DEF TypeOK, CRVersions, SpecValues
    <3>3. v \in ChildVersions /\ v.exists /\ v.owner = child["Deployment"].owner
      BY <3>1, <3>2 DEF TypeOK, ChildVersions
    <3> QED  BY <1>0, <2>1, <3>1, <3>3
  <2> QED  BY <1>3, <2>1 DEF UpdateDeployment, Call, server
<1>4. ASSUME NEW k \in Kinds, ~child[k].exists, CommitChild(k, Build(k)),
             pc \in MakingChildren
      PROVE  \E j \in Kinds, v \in ChildVersions :
               /\ CommitChild(j, v) /\ v.exists /\ ~child[j].exists /\ v.owner = cr.uid
               /\ cr.exists /\ cr.finalizer
  <2>1. Build(k) \in ChildVersions /\ Build(k).exists /\ Build(k).owner = sr.uid
    BY BuildType DEF Build
  <2> QED  BY <1>4, <2>1 DEF IInv, WorkerKnows
<1>5. CASE CreateDeployment
  BY <1>0, <1>4, <1>5 DEF CreateDeployment, Call, server, MakingChildren
<1>6. CASE CreateService
  BY <1>0, <1>4, <1>6 DEF CreateService, Call, server, MakingChildren
<1>7. CASE UpdateStatus
  <2> DEFINE v == [cr EXCEPT !.status = NewStatus]
  <2>1. CASE StatusFresh(sr) /\ CommitCR(v)
    <3>1. cr.exists  BY <2>1, FreshCopy DEF StatusFresh
    <3>2. v \in CRVersions  BY NewStatusType DEF TypeOK, CRVersions
    <3>3. /\ v.exists /\ v.finalizer = cr.finalizer /\ v.uid = cr.uid
          /\ v.deleting = cr.deleting /\ v.generation = cr.generation
          /\ v.spec = cr.spec
      BY <3>1 DEF TypeOK, CRVersions
    <3> HIDE DEF v
    <3> QED  BY <2>1, <3>1, <3>2, <3>3
  <2> QED  BY <1>7, <2>1 DEF UpdateStatus, server
<1>8. CASE RemoveFinalizer
  BY <1>8, RemoveFinalizerCommits DEF RemoveFinalizer, Call, server
<1> QED
  BY <1>1, <1>2, <1>3, <1>5, <1>6, <1>7, <1>8 DEF Worker

\* The user's spec survives every write of the controller.
THEOREM SpecSurvives == Spec => UserIntentPreserved
<1> DEFINE A == Worker /\ cr.exists =>
       \/ cr'.exists /\ cr'.spec = cr.spec /\ cr'.generation = cr.generation
       \/ ~cr'.exists /\ cr.deleting
<1>1. TypeOK /\ IInv /\ [Next]_vars => [A]_vars
  <2> SUFFICES ASSUME TypeOK, IInv, Worker, cr.exists
               PROVE  \/ cr'.exists /\ cr'.spec = cr.spec /\ cr'.generation = cr.generation
                      \/ ~cr'.exists /\ cr.deleting
    OBVIOUS
  <2>1. CRTombstone(cr) \in CRVersions /\ ~CRTombstone(cr).exists
    BY CRTombstoneType DEF TypeOK, CRTombstone, NoCR
  <2> QED  BY <2>1, WorkerWrites, CommitFields, CommitOwners DEF server
<1> QED  BY <1>1, TypeCorrect, Invariance, PTL DEF Spec, UserIntentPreserved

\* No child is created for an owner that is gone.
THEOREM NoLateChildren == Spec => ChildBornToLiveOwner
<1> DEFINE A == \A k \in Kinds : Worker /\ ~child[k].exists /\ child'[k].exists
                  => cr.exists /\ cr.finalizer /\ child'[k].owner = cr.uid
<1>1. TypeOK /\ IInv /\ [Next]_vars => [A]_vars
  <2> SUFFICES ASSUME TypeOK, IInv, NEW k \in Kinds,
                      Worker, ~child[k].exists, child'[k].exists
               PROVE  cr.exists /\ cr.finalizer /\ child'[k].owner = cr.uid
    OBVIOUS
  <2>1. CRTombstone(cr) \in CRVersions  BY CRTombstoneType DEF TypeOK
  <2>2. child' # child  OBVIOUS
  <2>3. PICK j \in Kinds, v \in ChildVersions :
              /\ CommitChild(j, v) /\ v.exists
              /\ \/ child[j].exists /\ v.owner = child[j].owner
                 \/ /\ ~child[j].exists /\ v.owner = cr.uid
                    /\ cr.exists /\ cr.finalizer
    BY <2>1, <2>2, WorkerWrites, CommitFields DEF server
  <2> QED  BY <2>3, CommitOwners
<1> QED  BY <1>1, TypeCorrect, Invariance, PTL DEF Spec, ChildBornToLiveOwner

\* A commit of the SampleResource is a step, or a stutter, of its life.
LEMMA LifeOfCommit ==
  ASSUME TypeOK, NEW v \in CRVersions, CommitCR(v),
         \/ ~cr.exists /\ v.exists /\ ~v.deleting /\ ~v.finalizer /\ v.uid = cr.uid + 1
         \/ cr.exists /\ v.exists /\ v.uid = cr.uid
              /\ v.deleting = cr.deleting /\ v.finalizer = cr.finalizer
         \/ cr.exists /\ v.exists /\ v.uid = cr.uid
              /\ ~cr.deleting /\ ~v.deleting /\ v.finalizer
         \/ cr.exists /\ v.exists /\ v.uid = cr.uid
              /\ ~cr.deleting /\ cr.finalizer /\ v.deleting
         \/ cr.exists /\ ~v.exists /\ v.uid = cr.uid /\ (cr.deleting \/ ~cr.finalizer)
  PROVE  [Lifecycle!LifeNext]_(Lifecycle!lifeVars)
<1>1. /\ cr'.exists = v.exists /\ cr'.uid = v.uid
      /\ cr'.deleting = v.deleting /\ cr'.finalizer = v.finalizer
      /\ child' = child
  BY CommitFields
<1>2. Owners' = Owners  BY <1>1 DEF Owners
<1>3. /\ cr \in CRVersions /\ cr.exists \in BOOLEAN
      /\ cr.deleting \in BOOLEAN /\ cr.finalizer \in BOOLEAN
  BY DEF TypeOK, CRVersions
<1>4. CASE ~cr.exists /\ v.exists /\ ~v.deleting /\ ~v.finalizer /\ v.uid = cr.uid + 1
  <2>1. Life = "absent" /\ Life' = "created" /\ cr'.uid = cr.uid + 1
    BY <1>1, <1>4 DEF Life
  <2> QED  BY <1>2, <2>1 DEF Lifecycle!LifeNext, Lifecycle!Create
<1>5. CASE cr.exists /\ v.exists /\ v.uid = cr.uid
             /\ v.deleting = cr.deleting /\ v.finalizer = cr.finalizer
  <2>1. Life' = Life /\ cr'.uid = cr.uid  BY <1>1, <1>5 DEF Life
  <2> QED  BY <1>2, <2>1 DEF Lifecycle!lifeVars
<1>6. CASE cr.exists /\ v.exists /\ v.uid = cr.uid
             /\ ~cr.deleting /\ ~v.deleting /\ v.finalizer
  <2>1. Life \in {"created", "guarded"} /\ Life' = "guarded" /\ cr'.uid = cr.uid
    BY <1>1, <1>3, <1>6 DEF Life
  <2> QED
    BY <1>2, <2>1 DEF Lifecycle!LifeNext, Lifecycle!Guard, Lifecycle!lifeVars
<1>7. CASE cr.exists /\ v.exists /\ v.uid = cr.uid
             /\ ~cr.deleting /\ cr.finalizer /\ v.deleting
  <2>1. Life = "guarded" /\ Life' = "terminating" /\ cr'.uid = cr.uid
    BY <1>1, <1>7 DEF Life
  <2> QED  BY <1>2, <2>1 DEF Lifecycle!LifeNext, Lifecycle!Terminate
<1>8. CASE cr.exists /\ ~v.exists /\ v.uid = cr.uid /\ (cr.deleting \/ ~cr.finalizer)
  <2>1. Life' = "absent" /\ cr'.uid = cr.uid  BY <1>1, <1>8 DEF Life
  <2>2. Life \in {"terminating", "created"}  BY <1>3, <1>8 DEF Life
  <2> QED
    BY <1>2, <2>1, <2>2 DEF Lifecycle!LifeNext, Lifecycle!Terminate, Lifecycle!Release
<1> QED  BY <1>4, <1>5, <1>6, <1>7, <1>8

\* A commit of a child is the birth or the loss of a child, or a stutter.
LEMMA LifeOfChildCommit ==
  ASSUME TypeOK, NEW k \in Kinds, NEW v \in ChildVersions, CommitChild(k, v),
         \/ ~v.exists
         \/ child[k].exists /\ v.owner = child[k].owner
         \/ ~child[k].exists /\ v.owner = NoOwner
         \/ ~child[k].exists /\ v.owner = cr.uid /\ cr.exists /\ cr.finalizer
  PROVE  [Lifecycle!LifeNext]_(Lifecycle!lifeVars)
<1>1. /\ cr' = cr
      /\ child'[k].exists = v.exists /\ child'[k].owner = v.owner
      /\ \A j \in Kinds : j # k => child'[j] = child[j]
  BY CommitOwners
<1>2. Life' = Life /\ cr'.uid = cr.uid  BY <1>1 DEF Life
<1>3. Owners' = [Owners EXCEPT ![k] = IF v.exists THEN v.owner ELSE NoOwner]
  BY <1>1 DEF Owners
<1>4. Owners[k] = IF child[k].exists THEN child[k].owner ELSE NoOwner
  BY DEF Owners
<1>5. CASE ~v.exists
  <2>1. Owners' = [Owners EXCEPT ![k] = Lifecycle!None]
    BY <1>3, <1>5 DEF Lifecycle!None, NoOwner
  <2>2. CASE Owners[k] = Lifecycle!None
    BY <1>2, <2>1, <2>2 DEF Lifecycle!lifeVars, Owners
  <2>3. CASE Owners[k] # Lifecycle!None
    BY <1>2, <2>1, <2>3 DEF Lifecycle!LifeNext, Lifecycle!Lose
  <2> QED  BY <2>2, <2>3
<1>6. CASE v.exists /\ (IF child[k].exists THEN child[k].owner ELSE NoOwner) = v.owner
  BY <1>2, <1>3, <1>4, <1>6 DEF Lifecycle!lifeVars, Owners
<1>7. CASE v.exists /\ ~child[k].exists /\ v.owner = cr.uid /\ cr.exists /\ cr.finalizer
  <2>1. Life \in {"guarded", "terminating"}
    <3>1. cr.deleting \in BOOLEAN  BY DEF TypeOK, CRVersions
    <3> QED  BY <1>7, <3>1 DEF Life
  <2>2. Owners[k] = Lifecycle!None  BY <1>4, <1>7 DEF Lifecycle!None, NoOwner
  <2>3. Owners' = [Owners EXCEPT ![k] = cr.uid]  BY <1>3, <1>7
  <2> QED  BY <1>2, <2>1, <2>2, <2>3 DEF Lifecycle!LifeNext, Lifecycle!Beget
<1> QED  BY <1>5, <1>6, <1>7

\* The controller's steps are steps of SampleLifecycle, for every number of
\* disturbances and whatever the order of events, calls and crashes.
THEOREM ImplementsLifecycle == Spec => Lifecycle!LifeSpec
<1>1. Init => Lifecycle!LifeInit
  <2> SUFFICES ASSUME Init PROVE Lifecycle!LifeInit  OBVIOUS
  <2>1. Life = "absent" /\ cr.uid = 0  BY DEF Init, NoCR, Life
  <2>2. Owners = [k \in Kinds |-> Lifecycle!None]
    BY DEF Init, NoChild, Owners, Lifecycle!None, NoOwner
  <2> QED  BY <2>1, <2>2 DEF Lifecycle!LifeInit
<1>2. TypeOK /\ IInv /\ [Next]_vars => [Lifecycle!LifeNext]_(Lifecycle!lifeVars)
  <2> SUFFICES ASSUME TypeOK, IInv, [Next]_vars
               PROVE  [Lifecycle!LifeNext]_(Lifecycle!lifeVars)
    OBVIOUS
  <2> DEFINE Stutter == UNCHANGED <<cr, child>>
  <2>0. CRTombstone(cr) \in CRVersions /\ ~CRTombstone(cr).exists
        /\ CRTombstone(cr).uid = cr.uid
    BY CRTombstoneType DEF TypeOK, CRTombstone, NoCR
  <2>1. CASE Stutter
    BY <2>1 DEF Lifecycle!lifeVars, Life, Owners
  <2>2. CASE CreateCR
    <3> DEFINE new(s) == [NoCR EXCEPT !.rv = cr.rv, !.exists = TRUE, !.uid = cr.uid + 1,
                                      !.generation = 1, !.spec = s]
    <3>1. PICK s \in SpecValues : CommitCR(new(s))  BY <2>2 DEF CreateCR
    <3>2. new(s) \in CRVersions
      <4>1. cr.rv \in Nat /\ cr.uid + 1 \in Nat  BY DEF TypeOK, CRVersions
      <4> QED  BY <4>1, InitialVersions DEF CRVersions
    <3>3. /\ new(s).exists /\ ~new(s).deleting /\ ~new(s).finalizer
          /\ new(s).uid = cr.uid + 1
      BY DEF NoCR
    <3>4. ~cr.exists  BY <2>2 DEF CreateCR
    <3> HIDE DEF new
    <3> QED  BY <3>1, <3>2, <3>3, <3>4, LifeOfCommit
  <2>3. CASE EditCR
    <3> DEFINE new(s) == [cr EXCEPT !.spec = s, !.generation = @ + 1]
    <3>0. cr \in CRVersions /\ cr.generation + 1 \in Nat  BY DEF TypeOK, CRVersions
    <3>1. PICK s \in SpecValues : CommitCR(new(s))  BY <2>3 DEF EditCR
    <3>2. new(s) \in CRVersions  BY <3>0 DEF CRVersions
    <3>3. /\ new(s).exists = cr.exists /\ new(s).deleting = cr.deleting
          /\ new(s).finalizer = cr.finalizer /\ new(s).uid = cr.uid
      BY <3>0 DEF CRVersions
    <3>4. cr.exists  BY <2>3 DEF EditCR
    <3> HIDE DEF new
    <3> QED  BY <3>1, <3>2, <3>3, <3>4, LifeOfCommit
  <2>4. CASE DeleteCR
    <3> DEFINE new == [cr EXCEPT !.deleting = TRUE, !.generation = @ + 1]
    <3>0. cr \in CRVersions /\ cr.generation + 1 \in Nat  BY DEF TypeOK, CRVersions
    <3>1. new \in CRVersions  BY <3>0 DEF CRVersions
    <3>2. new.exists = cr.exists /\ new.deleting /\ new.uid = cr.uid
      BY <3>0 DEF CRVersions
    <3>3. /\ cr.exists /\ ~cr.deleting
          /\ IF cr.finalizer THEN CommitCR(new) ELSE CommitCR(CRTombstone(cr))
      BY <2>4 DEF DeleteCR
    <3> HIDE DEF new
    <3> QED  BY <2>0, <3>1, <3>2, <3>3, LifeOfCommit
  <2>5. CASE Cluster
    <3> DEFINE d == child["Deployment"]
    <3>0. "Deployment" \in Kinds /\ d \in ChildVersions  BY ChildVersionFacts DEF Kinds
    <3>1. CASE ScaleDeployment
      <4>1. PICK n \in ReplicaCounts : CommitChild("Deployment", [d EXCEPT !.replicas = n])
        BY <3>1 DEF ScaleDeployment
      <4>2. [d EXCEPT !.replicas = n] \in ChildVersions
            /\ [d EXCEPT !.replicas = n].owner = d.owner
        BY <3>0, ConstantsAssumption DEF ChildVersions
      <4>3. d.exists  BY <3>1 DEF ScaleDeployment
      <4> QED  BY <3>0, <4>1, <4>2, <4>3, LifeOfChildCommit
    <3>2. CASE Rollout
      <4>1. CommitChild("Deployment", [d EXCEPT !.available = d.replicas]) /\ d.exists
        BY <3>2 DEF Rollout
      <4>2. [d EXCEPT !.available = d.replicas] \in ChildVersions
            /\ [d EXCEPT !.available = d.replicas].owner = d.owner
        BY <3>0 DEF ChildVersions
      <4> QED  BY <3>0, <4>1, <4>2, LifeOfChildCommit
    <3>3. CASE Tick  BY <2>1, <3>3 DEF Tick, server
    <3>4. ASSUME NEW k \in Kinds, CreateForeign(k)
          PROVE  [Lifecycle!LifeNext]_(Lifecycle!lifeVars)
      <4> DEFINE n == IF k = "Deployment" THEN SomeSpec.replicas ELSE 0
                 v == [NoChild EXCEPT !.rv = child[k].rv, !.exists = TRUE, !.replicas = n]
      <4>1. n \in Nat  BY InitialVersions, ConstantsAssumption DEF SpecValues
      <4>2. CommitChild(k, v) /\ ~child[k].exists  BY <3>4 DEF CreateForeign
      <4> HIDE DEF n
      <4>3. v \in ChildVersions
        BY <4>1, ChildVersionFacts, InitialVersions DEF ChildVersions
      <4>4. v.owner = NoOwner  BY DEF NoChild
      <4> QED  BY <4>2, <4>3, <4>4, LifeOfChildCommit
    <3>5. ASSUME NEW k \in Kinds, RemoveChild(k) \/ CollectGarbage(k)
          PROVE  [Lifecycle!LifeNext]_(Lifecycle!lifeVars)
      <4>1. ChildTombstone(child[k]) \in ChildVersions /\ ~ChildTombstone(child[k]).exists
        BY ChildVersionFacts, ChildTombstoneType DEF ChildTombstone, NoChild
      <4>2. CommitChild(k, ChildTombstone(child[k]))
        BY <3>5 DEF RemoveChild, CollectGarbage
      <4> QED  BY <4>1, <4>2, LifeOfChildCommit
    <3> QED  BY <2>5, <3>1, <3>2, <3>3, <3>4, <3>5 DEF Cluster
  <2>6. CASE Informers \/ BackoffExpires \/ Crash
    <3>1. Stutter
      BY <2>6 DEF Informers, DeliverCR, RelistCR, Resync, DeliverChild, RelistChild,
                  BackoffExpires, Crash, server
    <3> QED  BY <2>1, <3>1
  <2>7. CASE Worker
    <3>1. ASSUME NEW v \in CRVersions, CommitCR(v),
                 cr.exists /\ v.exists /\ v.uid = cr.uid /\ v.deleting = cr.deleting,
                 v.finalizer = cr.finalizer \/ (~cr.deleting /\ v.finalizer)
          PROVE  [Lifecycle!LifeNext]_(Lifecycle!lifeVars)
      BY <3>1, LifeOfCommit
    <3>2. ASSUME cr.exists /\ cr.deleting, CommitCR(CRTombstone(cr))
          PROVE  [Lifecycle!LifeNext]_(Lifecycle!lifeVars)
      BY <2>0, <3>2, LifeOfCommit
    <3>3. ASSUME NEW k \in Kinds, NEW v \in ChildVersions, CommitChild(k, v),
                 \/ child[k].exists /\ v.owner = child[k].owner
                 \/ ~child[k].exists /\ v.owner = cr.uid /\ cr.exists /\ cr.finalizer
          PROVE  [Lifecycle!LifeNext]_(Lifecycle!lifeVars)
      BY <3>3, LifeOfChildCommit
    <3> QED  BY <2>1, <2>7, <3>1, <3>2, <3>3, WorkerWrites DEF server
  <2>8. CASE UNCHANGED vars  BY <2>1, <2>8 DEF vars, server
  <2> QED  BY <2>2, <2>3, <2>4, <2>5, <2>6, <2>7, <2>8 DEF Next, User
<1> QED  BY <1>1, <1>2, TypeCorrect, Invariance, PTL DEF Spec, Lifecycle!LifeSpec
=============================================================================
