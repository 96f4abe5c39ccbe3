---------------------- MODULE SampleConvergenceProofs ----------------------
(***************************************************************************)
(* SampleController has converged whenever it is quiet: for every value of *)
(* its constants that leaves out what the code has no remedy for.          *)
(***************************************************************************)
EXTENDS SampleControllerProofs

----------------------------------------------------------------------------
(* The inductive invariant.  While nothing is on its way that would wake    *)
(* the controller, what the running reconcile has gone past is done.        *)

\* Once a watch has delivered everything, the cache is the server's version; until
\* then that version is among those to come.
CachesCatchUp ==
  /\ IF crWatch = {} THEN crCache = cr ELSE cr \in crWatch
  /\ \A k \in Kinds : IF childWatch[k] = {} THEN childCache[k] = child[k]
                                            ELSE child[k] \in childWatch[k]
  /\ \A k \in Kinds : \A v \in childWatch[k] : v.rv > 0

\* A resource that loses its last finalizer while it is marked is gone.
DeletingIsGuarded == cr.exists /\ cr.deleting => cr.finalizer

\* The resource exists, and neither an event of it, nor a retry, nor a queued key
\* is on its way.
CRCalm == cr.exists /\ ~dirty /\ ~delayed /\ crWatch = {}

\* Nor is an event of a child that would wake the controller.
Calm == CRCalm /\ \A k \in Kinds : \A v \in childWatch[k] : ~Enqueues(v)

PastGet        == MakingChildren \union {"UpdateStatus"}
Successful     == pc = "idle" \/ (pc = "UpdateStatus" /\ phase = "Running")
PastDeployment == Successful \/ pc \in {"GetService", "CreateService"}

DeploymentDone ==
  \/ IsForeign("Deployment")
  \/ /\ child["Deployment"].exists
     /\ child["Deployment"].replicas = cr.spec.replicas

ServiceDone == IsForeign("Service") \/ child["Service"].exists

CRProgress ==
  CRCalm =>
    /\ pc \in PastGet => sr = cr
    /\ pc \in PastGet \union {"idle"} => ~cr.deleting /\ cr.finalizer

ChildProgress ==
  Calm =>
    /\ PastDeployment => DeploymentDone
    /\ Successful => ServiceDone

StatusProgress ==
  CRCalm /\ pc = "idle" => /\ cr.status.phase = "Running"
                           /\ cr.status.observedGeneration = cr.generation

\* The code has no remedy for a child's relist that shows neither its creation nor
\* its deletion, and none for a status update that gets lost.
Progress ==
  /\ CRProgress
  /\ "relistChild" \notin Disturbances => ChildProgress
  /\ StatusSubresource /\ "statusFault" \notin Disturbances => StatusProgress

CInv == CachesCatchUp /\ DeletingIsGuarded /\ Progress

----------------------------------------------------------------------------
(* What a step writes, and what of that wakes the controller.               *)

\* At most one object is written.
Commits ==
  \/ UNCHANGED server
  \/ \E v \in CRVersions : CommitCR(v)
  \/ \E k \in Kinds, v \in ChildVersions : CommitChild(k, v)

\* A child's write is dropped or is there for its watch to deliver.
LEMMA ChildCommitShows ==
  ASSUME TypeOK, NEW k \in Kinds, NEW v \in ChildVersions, CommitChild(k, v)
  PROVE  /\ UNCHANGED <<cr, crWatch>>
         /\ \/ v = child[k] /\ UNCHANGED <<child, childWatch>>
            \/ /\ child'[k].rv > 0
               /\ childWatch'[k] = childWatch[k] \union {child'[k]}
               /\ \A j \in Kinds \ {k} :
                    child'[j] = child[j] /\ childWatch'[j] = childWatch[j]
<1>1. UNCHANGED <<cr, crWatch>>  BY DEF CommitChild
<1>2. CASE v = child[k]  BY <1>1, <1>2 DEF CommitChild
<1>3. CASE v # child[k]
  <2> DEFINE new == [v EXCEPT !.rv = child[k].rv + 1]
  <2>1. /\ child' = [child EXCEPT ![k] = new]
        /\ childWatch' = [childWatch EXCEPT ![k] = childWatch[k] \union {new}]
    BY <1>3 DEF CommitChild
  <2>2. new.rv > 0  BY ChildVersionFacts DEF ChildVersions
  <2> HIDE DEF new
  <2>3. child'[k] = new /\ childWatch'[k] = childWatch[k] \union {new}
    BY <2>1 DEF TypeOK
  <2>4. \A j \in Kinds \ {k} : child'[j] = child[j] /\ childWatch'[j] = childWatch[j]
    BY <2>1 DEF TypeOK
  <2> QED  BY <1>1, <2>2, <2>3, <2>4
<1> QED  BY <1>2, <1>3

\* What is written is there for a watch to deliver.
LEMMA CommitsKeepCatchUp ==
  ASSUME TypeOK, CachesCatchUp, Commits, UNCHANGED caches
  PROVE  CachesCatchUp'
<1>0. UNCHANGED <<crCache, childCache>>  BY DEF caches
<1>1. CASE UNCHANGED server  BY <1>0, <1>1 DEF CachesCatchUp, server
<1>2. ASSUME NEW v \in CRVersions, CommitCR(v)
      PROVE  CachesCatchUp'
  <2>1. UNCHANGED <<child, childWatch>>  BY <1>2 DEF CommitCR
  <2>2. UNCHANGED <<cr, crWatch>> \/ cr' \in crWatch'  BY <1>2 DEF CommitCR
  <2> QED  BY <1>0, <2>1, <2>2 DEF CachesCatchUp
<1>3. ASSUME NEW k \in Kinds, NEW v \in ChildVersions, CommitChild(k, v)
      PROVE  CachesCatchUp'
  <2>1. UNCHANGED <<cr, crWatch>>  BY <1>3 DEF CommitChild
  <2>2. CASE UNCHANGED <<child, childWatch>>  BY <1>0, <2>1, <2>2 DEF CachesCatchUp
  <2>3. CASE /\ child'[k].rv > 0
             /\ childWatch'[k] = childWatch[k] \union {child'[k]}
             /\ \A j \in Kinds \ {k} :
                  child'[j] = child[j] /\ childWatch'[j] = childWatch[j]
    <3>1. ASSUME NEW j \in Kinds
          PROVE  /\ IF childWatch'[j] = {} THEN childCache'[j] = child'[j]
                                           ELSE child'[j] \in childWatch'[j]
                 /\ \A w \in childWatch'[j] : w.rv > 0
      <4>1. CASE j = k  BY <2>3, <4>1 DEF CachesCatchUp
      <4>2. CASE j # k  BY <1>0, <2>3, <4>2 DEF CachesCatchUp
      <4> QED  BY <4>1, <4>2
    <3> QED  BY <1>0, <2>1, <3>1 DEF CachesCatchUp
  <2> QED  BY <1>3, <2>2, <2>3, ChildCommitShows
<1> QED  BY <1>1, <1>2, <1>3 DEF Commits

\* A calm that a write leaves was there before it, and the resource is as it was.
LEMMA CalmStays ==
  ASSUME TypeOK, Commits, dirty => dirty', delayed => delayed'
  PROVE  CRCalm' => CRCalm /\ UNCHANGED <<cr, crWatch>>
<1>1. CASE UNCHANGED server  BY <1>1 DEF CRCalm, server
<1>2. ASSUME NEW v \in CRVersions, CommitCR(v), CRCalm'
      PROVE  CRCalm /\ UNCHANGED <<cr, crWatch>>
  <2>1. UNCHANGED <<cr, crWatch>> \/ cr' \in crWatch'  BY <1>2 DEF CommitCR
  <2>2. UNCHANGED <<cr, crWatch>>  BY <1>2, <2>1 DEF CRCalm
  <2> QED  BY <1>2, <2>2 DEF CRCalm
<1>3. ASSUME NEW k \in Kinds, NEW v \in ChildVersions, CommitChild(k, v), CRCalm'
      PROVE  CRCalm /\ UNCHANGED <<cr, crWatch>>
  BY <1>3 DEF CommitChild, CRCalm
<1> QED  BY <1>1, <1>2, <1>3 DEF Commits

\* The same where the children's events count: then a child that was written has
\* become a stranger's, and what was done remains done.
LEMMA DoneStays ==
  ASSUME TypeOK, Commits, dirty => dirty', delayed => delayed', Calm'
  PROVE  /\ Calm
         /\ \A k \in Kinds : child'[k] = child[k] \/ IsForeign(k)'
         /\ DeploymentDone => DeploymentDone'
         /\ ServiceDone => ServiceDone'
<1>0. "Deployment" \in Kinds /\ "Service" \in Kinds  BY DEF Kinds
<1>1. CRCalm /\ UNCHANGED <<cr, crWatch>>  BY CalmStays DEF Calm
<1>2. /\ \A k \in Kinds : childWatch[k] \subseteq childWatch'[k]
      /\ \A k \in Kinds : child'[k] = child[k] \/ IsForeign(k)'
  <2>1. CASE UNCHANGED <<child, childWatch>>  BY <2>1
  <2>2. ASSUME NEW k \in Kinds, NEW v \in ChildVersions, CommitChild(k, v)
        PROVE  <1>2!1 /\ <1>2!2
    <3>1. CASE /\ child'[k].rv > 0
               /\ childWatch'[k] = childWatch[k] \union {child'[k]}
               /\ \A j \in Kinds \ {k} :
                    child'[j] = child[j] /\ childWatch'[j] = childWatch[j]
      <4>1. child'[k].owner = NoOwner  BY <3>1 DEF Calm, Enqueues
      <4>2. IsForeign(k)'  BY <3>1, <4>1 DEF IsForeign
      <4> QED  BY <3>1, <4>2
    <3> QED  BY <2>1, <2>2, <3>1, ChildCommitShows
  <2>3. ASSUME NEW v \in CRVersions, CommitCR(v)
        PROVE  UNCHANGED <<child, childWatch>>
    BY <2>3 DEF CommitCR
  <2> QED  BY <2>1, <2>2, <2>3 DEF Commits, server
<1>3. Calm  BY <1>1, <1>2 DEF Calm, Enqueues
<1>4. ASSUME NEW k \in Kinds, IsForeign(k)
      PROVE  IsForeign(k)'
  BY <1>2, <1>4 DEF IsForeign
<1>5. DeploymentDone => DeploymentDone'  BY <1>0, <1>1, <1>2, <1>4 DEF DeploymentDone
<1>6. ServiceDone => ServiceDone'  BY <1>0, <1>2, <1>4 DEF ServiceDone
<1> QED  BY <1>2, <1>3, <1>5, <1>6

----------------------------------------------------------------------------
(* What each part of the system writes.                                     *)

\* A write that stores a version whose mark is guarded.
LEMMA GuardedCommit ==
  ASSUME TypeOK, NEW v \in CRVersions, CommitCR(v),
         v.exists /\ v.deleting => v.finalizer
  PROVE  Commits /\ DeletingIsGuarded'
BY CommitFields DEF Commits, DeletingIsGuarded

\* The tombstone of the SampleResource is one.
LEMMA TombstoneCommit ==
  ASSUME TypeOK, CommitCR(CRTombstone(cr))
  PROVE  Commits /\ DeletingIsGuarded'
<1>1. CRTombstone(cr) \in CRVersions /\ ~CRTombstone(cr).exists
  BY CRTombstoneType DEF TypeOK, CRTombstone, NoCR
<1> QED  BY <1>1, GuardedCommit

\* A step that leaves the SampleResource alone and writes one child at most.
LEMMA ChildCommits ==
  ASSUME DeletingIsGuarded,
         \/ UNCHANGED server
         \/ \E k \in Kinds, v \in ChildVersions : CommitChild(k, v)
  PROVE  Commits /\ DeletingIsGuarded'
<1>1. cr' = cr  BY DEF CommitChild, server
<1> QED  BY <1>1 DEF Commits, DeletingIsGuarded

\* The users write one version of the SampleResource; one that is marked is guarded.
LEMMA UserWrites ==
  ASSUME TypeOK, DeletingIsGuarded, User
  PROVE  Elsewhere /\ Commits /\ DeletingIsGuarded'
<1>0. cr \in CRVersions /\ cr.rv \in Nat /\ cr.uid + 1 \in Nat /\ cr.generation + 1 \in Nat
  BY DEF TypeOK, CRVersions
<1>1. CASE CreateCR
  <2> DEFINE new(s) == [NoCR EXCEPT !.rv = cr.rv, !.exists = TRUE, !.uid = cr.uid + 1,
                                    !.generation = 1, !.spec = s]
  <2>1. PICK s \in SpecValues : CommitCR(new(s))  BY <1>1 DEF CreateCR
  <2>2. new(s) \in CRVersions  BY <1>0, InitialVersions DEF CRVersions
  <2>3. ~new(s).deleting  BY DEF NoCR
  <2> HIDE DEF new
  <2> QED  BY <1>1, <2>1, <2>2, <2>3, GuardedCommit DEF CreateCR
<1>2. CASE EditCR
  <2> DEFINE new(s) == [cr EXCEPT !.spec = s, !.generation = @ + 1]
  <2>1. PICK s \in SpecValues : CommitCR(new(s))  BY <1>2 DEF EditCR
  <2>2. new(s) \in CRVersions  BY <1>0 DEF CRVersions
  <2>3. /\ new(s).exists = cr.exists /\ new(s).finalizer = cr.finalizer
        /\ new(s).deleting = cr.deleting
    BY <1>0 DEF CRVersions
  <2> HIDE DEF new
  <2> QED  BY <1>2, <2>1, <2>2, <2>3, GuardedCommit DEF EditCR, DeletingIsGuarded
<1>3. CASE DeleteCR
  <2> DEFINE new == [cr EXCEPT !.deleting = TRUE, !.generation = @ + 1]
  <2>1. new \in CRVersions /\ new.finalizer = cr.finalizer  BY <1>0 DEF CRVersions
  <2>2. (cr.finalizer /\ CommitCR(new)) \/ CommitCR(CRTombstone(cr))
    BY <1>3 DEF DeleteCR
  <2>3. Elsewhere  BY <1>3 DEF DeleteCR
  <2> HIDE DEF new
  <2> QED  BY <2>1, <2>2, <2>3, GuardedCommit, TombstoneCommit
<1> QED  BY <1>1, <1>2, <1>3 DEF User

\* The cluster writes one child at most, or lets time pass.
LEMMA ClusterWrites ==
  ASSUME TypeOK, DeletingIsGuarded, Cluster
  PROVE  UNCHANGED <<caches, queue, worker>> /\ Commits /\ DeletingIsGuarded'
<1>0. "Deployment" \in Kinds /\ child["Deployment"] \in ChildVersions
  BY ChildVersionFacts DEF Kinds
<1> DEFINE d == child["Deployment"]
           OneChild == \E k \in Kinds, v \in ChildVersions : CommitChild(k, v)
<1>1. CASE ScaleDeployment
  <2>1. PICK n \in ReplicaCounts : CommitChild("Deployment", [d EXCEPT !.replicas = n])
    BY <1>1 DEF ScaleDeployment
  <2>2. [d EXCEPT !.replicas = n] \in ChildVersions
    BY <1>0, ConstantsAssumption DEF ChildVersions
  <2>3. OneChild  BY <1>0, <2>1, <2>2
  <2> QED  BY <1>1, <2>3, ChildCommits DEF ScaleDeployment, Elsewhere
<1>2. CASE Rollout
  <2>1. CommitChild("Deployment", [d EXCEPT !.available = d.replicas])
    BY <1>2 DEF Rollout
  <2>2. [d EXCEPT !.available = d.replicas] \in ChildVersions
    BY <1>0 DEF ChildVersions
  <2>3. OneChild  BY <1>0, <2>1, <2>2
  <2> QED  BY <1>2, <2>3, ChildCommits DEF Rollout, Elsewhere
<1>3. CASE Tick  BY <1>3, ChildCommits DEF Tick
<1>4. ASSUME NEW k \in Kinds, CreateForeign(k)
      PROVE  Elsewhere /\ OneChild
  <2> DEFINE n == IF k = "Deployment" THEN SomeSpec.replicas ELSE 0
             v == [NoChild EXCEPT !.rv = child[k].rv, !.exists = TRUE, !.replicas = n]
  <2>1. n \in Nat  BY InitialVersions, ConstantsAssumption DEF SpecValues
  <2>2. CommitChild(k, v) /\ Elsewhere  BY <1>4 DEF CreateForeign
  <2> HIDE DEF n
  <2>3. v \in ChildVersions
    BY <2>1, ChildVersionFacts, InitialVersions DEF ChildVersions
  <2> QED  BY <2>2, <2>3
<1>5. ASSUME NEW k \in Kinds, RemoveChild(k) \/ CollectGarbage(k)
      PROVE  Elsewhere /\ OneChild
  <2>1. ChildTombstone(child[k]) \in ChildVersions
    BY ChildVersionFacts, ChildTombstoneType
  <2> QED  BY <1>5, <2>1 DEF RemoveChild, CollectGarbage
<1> QED  BY <1>1, <1>2, <1>3, <1>4, <1>5, ChildCommits DEF Cluster, Elsewhere

\* The worker writes one object at most; it never leaves a marked SampleResource
\* without its finalizer.
LEMMA WorkerStores ==
  ASSUME TypeOK, IInv, DeletingIsGuarded, Worker
  PROVE  UNCHANGED caches /\ Commits /\ DeletingIsGuarded'
<1>1. UNCHANGED caches
  BY DEF Worker, StartReconcile, GetNotFound, GetDeleting, GetLive, AddFinalizer,
         GetDeployment, UpdateDeployment, CreateDeployment, GetService, CreateService,
         UpdateStatus, RemoveFinalizer
<1>2. ASSUME NEW v \in CRVersions, CommitCR(v), cr.exists, v.deleting = cr.deleting,
             v.finalizer = cr.finalizer \/ (~cr.deleting /\ v.finalizer)
      PROVE  Commits /\ DeletingIsGuarded'
  BY <1>2, GuardedCommit DEF DeletingIsGuarded
<1> QED  BY <1>1, <1>2, WorkerWrites, TombstoneCommit, ChildCommits

----------------------------------------------------------------------------
(* The caches catch up.                                                     *)

\* What an informer delivers or lists leaves its cache behind by what is still to
\* come, and by nothing otherwise.
LEMMA InformersKeepCatchUp ==
  ASSUME TypeOK, IInv, CachesCatchUp, Informers \/ Crash
  PROVE  CachesCatchUp' /\ UNCHANGED <<cr, child>>
<1>1. CASE DeliverCR
  <2>1. PICK v \in crWatch : /\ \A w \in crWatch : v.rv <= w.rv
                             /\ crCache' = v /\ crWatch' = crWatch \ {v}
    BY <1>1 DEF DeliverCR
  <2>2. UNCHANGED <<cr, child, childWatch, childCache>>  BY <1>1 DEF DeliverCR
  <2>3. cr \in crWatch  BY <2>1 DEF CachesCatchUp
  <2>4. v = cr => crWatch = {cr}
    BY <2>1, VersionFacts DEF IInv, VersionsOrdered
  <2> QED  BY <2>1, <2>2, <2>3, <2>4 DEF CachesCatchUp
<1>2. CASE RelistCR  BY <1>2 DEF RelistCR, CachesCatchUp
<1>3. CASE Resync  BY <1>3 DEF Resync, server, caches, CachesCatchUp
<1>4. ASSUME NEW k \in Kinds, DeliverChild(k)
      PROVE  CachesCatchUp' /\ UNCHANGED <<cr, child>>
  <2>1. PICK v \in childWatch[k] :
          /\ \A w \in childWatch[k] : v.rv <= w.rv
          /\ childCache' = [childCache EXCEPT ![k] = v]
          /\ childWatch' = [childWatch EXCEPT ![k] = childWatch[k] \ {v}]
    BY <1>4 DEF DeliverChild
  <2>2. UNCHANGED <<cr, crWatch, child, crCache>>  BY <1>4 DEF DeliverChild
  <2>3. child[k] \in childWatch[k]  BY <2>1 DEF CachesCatchUp
  <2>4. v = child[k] => childWatch[k] = {child[k]}
    BY <2>1, ChildVersionFacts DEF IInv, ChildVersionsOrdered
  <2>5. childCache'[k] = v /\ childWatch'[k] = childWatch[k] \ {v}
    BY <2>1 DEF TypeOK
  <2>6. \A j \in Kinds \ {k} :
          childCache'[j] = childCache[j] /\ childWatch'[j] = childWatch[j]
    BY <2>1 DEF TypeOK
  <2>7. ASSUME NEW j \in Kinds
        PROVE  /\ IF childWatch'[j] = {} THEN childCache'[j] = child'[j]
                                         ELSE child'[j] \in childWatch'[j]
               /\ \A w \in childWatch'[j] : w.rv > 0
    <3>1. CASE j = k  BY <2>2, <2>3, <2>4, <2>5, <3>1 DEF CachesCatchUp
    <3>2. CASE j # k  BY <2>2, <2>6, <3>2 DEF CachesCatchUp
    <3> QED  BY <3>1, <3>2
  <2> QED  BY <2>2, <2>7 DEF CachesCatchUp
<1>5. ASSUME NEW k \in Kinds, RelistChild(k)
      PROVE  CachesCatchUp' /\ UNCHANGED <<cr, child>>
  <2>1. /\ childCache' = [childCache EXCEPT ![k] = child[k]]
        /\ childWatch' = [childWatch EXCEPT ![k] = {}]
        /\ UNCHANGED <<cr, crWatch, child, crCache>>
    BY <1>5 DEF RelistChild
  <2>2. childCache'[k] = child[k] /\ childWatch'[k] = {}  BY <2>1 DEF TypeOK
  <2>3. \A j \in Kinds \ {k} :
          childCache'[j] = childCache[j] /\ childWatch'[j] = childWatch[j]
    BY <2>1 DEF TypeOK
  <2>4. ASSUME NEW j \in Kinds
        PROVE  /\ IF childWatch'[j] = {} THEN childCache'[j] = child'[j]
                                         ELSE child'[j] \in childWatch'[j]
               /\ \A w \in childWatch'[j] : w.rv > 0
    <3>1. CASE j = k  BY <2>1, <2>2, <3>1
    <3>2. CASE j # k  BY <2>1, <2>3, <3>2 DEF CachesCatchUp
    <3> QED  BY <3>1, <3>2
  <2> QED  BY <2>1, <2>4 DEF CachesCatchUp
<1>6. CASE Crash
  <2>1. /\ UNCHANGED <<cr, child>> /\ crCache' = cr /\ crWatch' = {}
        /\ childCache' = child /\ childWatch' = [k \in Kinds |-> {}]
    BY <1>6 DEF Crash
  <2> QED  BY <2>1 DEF CachesCatchUp
<1> QED  BY <1>1, <1>2, <1>3, <1>4, <1>5, <1>6 DEF Informers

----------------------------------------------------------------------------
(* Progress outside the worker.                                             *)

\* Where nobody wakes the controller a write outside it undoes nothing.
LEMMA OutsideKeepsProgress ==
  ASSUME TypeOK, Progress, Commits, UNCHANGED <<queue, worker>>
  PROVE  Progress'
<1>1. UNCHANGED <<dirty, delayed, pc, sr, phase>>  BY DEF queue, worker
<1>2. CRCalm' => CRCalm /\ UNCHANGED <<cr, crWatch>>  BY <1>1, CalmStays
<1>3. CRProgress'  BY <1>1, <1>2 DEF Progress, CRProgress, CRCalm
<1>4. ASSUME ChildProgress
      PROVE  ChildProgress'
  BY <1>1, <1>4, DoneStays DEF ChildProgress, PastDeployment, Successful
<1>5. ASSUME StatusProgress
      PROVE  StatusProgress'
  BY <1>1, <1>2, <1>5 DEF StatusProgress, CRCalm
<1> QED  BY <1>3, <1>4, <1>5 DEF Progress

\* An informer or a restart that leaves the controller calm found it calm; only
\* the relist of a child may hide what was on its way.
LEMMA InformersKeepProgress ==
  ASSUME TypeOK, IInv, CachesCatchUp, Progress, Informers \/ BackoffExpires \/ Crash
  PROVE  Progress'
<1>1. CASE DeliverCR \/ RelistCR \/ Resync \/ BackoffExpires \/ Crash
  <2>1. ~CRCalm'
    BY <1>1 DEF DeliverCR, RelistCR, Resync, BackoffExpires, Crash, CRCalm, server
  <2> QED
    BY <2>1 DEF Progress, CRProgress, ChildProgress, StatusProgress, Calm
<1>2. ASSUME NEW k \in Kinds, DeliverChild(k) \/ RelistChild(k)
      PROVE  Progress'
  <2>1. /\ UNCHANGED <<cr, crWatch, child, delayed, pc, sr, phase>>
        /\ dirty => dirty'
    BY <1>2 DEF DeliverChild, RelistChild, worker
  <2>2. CRCalm' => CRCalm  BY <2>1 DEF CRCalm
  <2>3. CRProgress'  BY <2>1, <2>2 DEF Progress, CRProgress
  <2>4. ASSUME StatusProgress
        PROVE  StatusProgress'
    BY <2>1, <2>2, <2>4 DEF StatusProgress
  <2>5. ASSUME ChildProgress, DeliverChild(k)
        PROVE  ChildProgress'
    <3>1. PICK v \in childWatch[k] :
            /\ childWatch' = [childWatch EXCEPT ![k] = childWatch[k] \ {v}]
            /\ dirty' = (dirty \/ Enqueues(v))
      BY <2>5 DEF DeliverChild
    <3>2. \A j \in Kinds \ {k} : childWatch'[j] = childWatch[j]  BY <3>1 DEF TypeOK
    <3>3. childWatch'[k] = childWatch[k] \ {v}  BY <3>1 DEF TypeOK
    <3>4. Calm' => ~Enqueues(v)  BY <3>1 DEF Calm, CRCalm
    <3>5. Calm' => Calm
      <4> SUFFICES ASSUME Calm', NEW j \in Kinds, NEW w \in childWatch[j]
                   PROVE  ~Enqueues(w)
        BY <2>2 DEF Calm
      <4>1. w \in childWatch'[j] \/ w = v  BY <3>2, <3>3
      <4> QED  BY <3>4, <4>1 DEF Calm, Enqueues
    <3> QED
      BY <2>1, <2>5, <3>5 DEF ChildProgress, PastDeployment, Successful,
                              DeploymentDone, ServiceDone, IsForeign
  <2>6. RelistChild(k) => "relistChild" \in Disturbances  BY DEF RelistChild, Disturb
  <2> QED  BY <1>2, <2>3, <2>4, <2>5, <2>6 DEF Progress
<1> QED  BY <1>1, <1>2 DEF Informers

----------------------------------------------------------------------------
(* Progress of the worker.                                                  *)

\* The steps that leave the SampleResource alone and make its children.
ChildSteps == \/ GetDeployment \/ UpdateDeployment \/ CreateDeployment
              \/ GetService \/ CreateService

\* They keep the worker's copy, and a failed one is reported.
LEMMA ChildStepMoves ==
  ASSUME ChildSteps
  PROVE  /\ UNCHANGED <<dirty, delayed, sr>>
         /\ pc \in MakingChildren /\ pc' \in MakingChildren \union {"UpdateStatus"}
BY DEF ChildSteps, GetDeployment, UpdateDeployment, CreateDeployment, GetService,
       CreateService, Call, Goto, Fail, MakingChildren

\* The calm the worker leaves was there before its step, unless the step began a
\* reconcile; an error leaves a retry.
LEMMA WorkerCalm ==
  ASSUME TypeOK, Commits, Worker, pc # "idle"
  PROVE  /\ dirty' = dirty
         /\ CRCalm' => CRCalm /\ UNCHANGED <<cr, crWatch>>
         /\ Return(TRUE) => ~CRCalm'
<1>1. dirty' = dirty /\ (delayed => delayed')
  <2> DEFINE Ends == Return(TRUE) \/ Return(FALSE) \/ Return(phase = "Failed")
             Goes == UNCHANGED <<dirty, delayed>>
  <2>1. GetNotFound => Ends  BY DEF GetNotFound
  <2>2. GetDeleting => Goes \/ Ends  BY DEF GetDeleting
  <2>3. GetLive => Goes  BY DEF GetLive
  <2>4. AddFinalizer => Goes \/ Ends  BY DEF AddFinalizer, Call
  <2>5. ChildSteps => Goes  BY ChildStepMoves
  <2>6. UpdateStatus \/ RemoveFinalizer => Ends  BY DEF UpdateStatus, RemoveFinalizer, Call
  <2>7. Ends => dirty' = dirty /\ (delayed => delayed')  BY DEF Return
  <2>8. Goes \/ Ends
    BY <2>1, <2>2, <2>3, <2>4, <2>5, <2>6 DEF Worker, StartReconcile, ChildSteps
  <2>9. Goes => dirty' = dirty /\ (delayed => delayed')  OBVIOUS
  <2> HIDE DEF Goes, Ends
  <2> QED  BY <2>7, <2>8, <2>9
<1>2. Return(TRUE) => delayed'  BY DEF Return
<1> QED  BY <1>1, <1>2, CalmStays DEF CRCalm

\* A reconcile that starts has done nothing yet.
LEMMA StartMakesProgress ==
  ASSUME Progress, StartReconcile
  PROVE  Progress'
<1>1. pc' = "Get"  BY DEF StartReconcile
<1> QED
  BY <1>1 DEF Progress, CRProgress, ChildProgress, StatusProgress, PastGet,
              MakingChildren, PastDeployment, Successful

\* A reconcile that ends early leaves a calm controller only if it leaves nothing
\* to do: the resource is gone, or an error has brought a retry.
LEMMA EarlyReturn ==
  ASSUME TypeOK, IInv, CachesCatchUp, DeletingIsGuarded, Commits,
         \/ GetNotFound
         \/ GetDeleting
         \/ (AddFinalizer /\ Return(TRUE))
         \/ RemoveFinalizer
  PROVE  pc' = "RemoveFinalizer" \/ ~CRCalm'
<1>0. Worker /\ pc # "idle"
  BY DEF Worker, GetNotFound, GetDeleting, AddFinalizer, RemoveFinalizer
<1>1. CRCalm' => /\ crCache = cr /\ cr.exists /\ UNCHANGED <<cr, crWatch>>
                 /\ ~Return(TRUE)
  BY <1>0, WorkerCalm DEF CachesCatchUp, CRCalm
<1>2. CASE GetNotFound  BY <1>1, <1>2 DEF GetNotFound
<1>3. CASE GetDeleting  BY <1>1, <1>3 DEF GetDeleting, DeletingIsGuarded
<1>4. CASE AddFinalizer /\ Return(TRUE)  BY <1>1, <1>4
<1>5. CASE RemoveFinalizer
  <2>1. \/ CommitCR(CRTombstone(cr))
        \/ Return(TRUE)
    BY <1>5, RemoveFinalizerCommits DEF RemoveFinalizer, Call
  <2>2. CASE CommitCR(CRTombstone(cr))
    <3>1. CRTombstone(cr) \in CRVersions /\ ~CRTombstone(cr).exists
      BY CRTombstoneType DEF TypeOK, CRTombstone, NoCR
    <3>2. ~cr'.exists  BY <2>2, <3>1, CommitFields
    <3> QED  BY <3>2 DEF CRCalm
  <2> QED  BY <1>1, <2>1, <2>2
<1> QED  BY <1>2, <1>3, <1>4, <1>5

\* Where the controller stays calm, a live resource has been read as it is, and a
\* reconcile that ends normally has found it guarded.
LEMMA WorkerKeepsCRProgress ==
  ASSUME TypeOK, IInv, CachesCatchUp, DeletingIsGuarded, Progress, Commits, Worker
  PROVE  CRProgress'
<1>0. CASE StartReconcile  BY <1>0, StartMakesProgress DEF Progress
<1>1. CASE GetNotFound \/ GetDeleting \/ RemoveFinalizer \/ (AddFinalizer /\ Return(TRUE))
  <2>1. pc' = "RemoveFinalizer" \/ ~CRCalm'  BY <1>1, EarlyReturn
  <2> QED  BY <2>1 DEF CRProgress, PastGet, MakingChildren
<1>2. CASE GetLive
  <2>1. /\ sr' = crCache /\ UNCHANGED <<cr, crWatch, dirty, delayed>>
        /\ ~crCache.deleting
        /\ pc' = IF crCache.finalizer THEN "GetDeployment" ELSE "AddFinalizer"
    BY <1>2 DEF GetLive, server
  <2>2. CRCalm' => crCache = cr  BY <2>1 DEF CRCalm, CachesCatchUp
  <2> QED  BY <2>1, <2>2 DEF CRProgress, PastGet, MakingChildren
<1>3. CASE AddFinalizer /\ ~Return(TRUE)
  <2> DEFINE v == [cr EXCEPT !.finalizer = TRUE]
  <2>1. CommitCR(v) /\ v \in CRVersions /\ ~cr.deleting /\ sr' = cr'
    BY <1>3, AddFinalizerCommits DEF AddFinalizer, Call
  <2>2. v.finalizer /\ ~v.deleting  BY <2>1 DEF TypeOK, CRVersions
  <2> HIDE DEF v
  <2>3. cr'.finalizer /\ ~cr'.deleting  BY <2>1, <2>2, CommitFields
  <2> QED  BY <2>1, <2>3 DEF CRProgress
<1>4. CASE ChildSteps
  <2>1. /\ UNCHANGED <<dirty, delayed, sr>>
        /\ pc \in MakingChildren /\ pc' \in MakingChildren \union {"UpdateStatus"}
    BY <1>4, ChildStepMoves
  <2>2. CRCalm' => CRCalm /\ cr' = cr  BY <2>1, CalmStays
  <2> QED  BY <2>1, <2>2 DEF Progress, CRProgress, PastGet
<1>5. CASE UpdateStatus
  <2>1. pc = "UpdateStatus" /\ pc' = "idle"  BY <1>5 DEF UpdateStatus, Return
  <2>2. CRCalm' => CRCalm /\ cr' = cr  BY <1>5, <2>1, WorkerCalm
  <2> QED  BY <2>1, <2>2 DEF Progress, CRProgress, PastGet, MakingChildren
<1> QED  BY <1>0, <1>1, <1>2, <1>3, <1>4, <1>5 DEF Worker, ChildSteps

\* Where the controller stays calm, a status update is either the one the server
\* has, or an event of it is on its way: a conflict would be an event, too.
LEMMA WorkerKeepsStatusProgress ==
  ASSUME TypeOK, IInv, CachesCatchUp, DeletingIsGuarded, Progress, Commits, Worker,
         StatusSubresource, "statusFault" \notin Disturbances
  PROVE  StatusProgress'
<1>0. CASE StartReconcile
  BY <1>0, StartMakesProgress DEF Progress
<1>1. CASE GetNotFound \/ GetDeleting \/ RemoveFinalizer \/ (AddFinalizer /\ Return(TRUE))
  <2>1. pc' = "RemoveFinalizer" \/ ~CRCalm'  BY <1>1, EarlyReturn
  <2> QED  BY <2>1 DEF StatusProgress
<1>2. CASE GetLive  BY <1>2 DEF GetLive, StatusProgress
<1>3. CASE AddFinalizer /\ ~Return(TRUE)
  BY <1>3 DEF AddFinalizer, Call, StatusProgress
<1>4. CASE ChildSteps  BY <1>4, ChildStepMoves DEF StatusProgress, MakingChildren
<1>5. CASE UpdateStatus
  <2>1. pc = "UpdateStatus" /\ (phase = "Failed" => Return(TRUE))
    BY <1>5 DEF UpdateStatus
  <2>2. CRCalm' => /\ CRCalm /\ UNCHANGED <<cr, crWatch>> /\ sr = cr
                   /\ phase = "Running"
    BY <1>5, <2>1, WorkerCalm DEF Progress, CRProgress, PastGet, TypeOK
  <2>3. CRCalm' => StatusFresh(sr)  BY <2>2 DEF StatusFresh, CRFresh, CRCalm
  <2>4. CRCalm' => CommitCR([cr EXCEPT !.status = NewStatus])
    BY <1>5, <2>3 DEF UpdateStatus, Disturb
  <2>5. CRCalm' => cr.status = NewStatus
    <3>1. ASSUME CRCalm'
          PROVE  [cr EXCEPT !.status = NewStatus] = cr
      <4>1. [cr EXCEPT !.status = NewStatus] \in CRVersions
        BY NewStatusType DEF TypeOK, CRVersions
      <4>2. cr' = cr /\ cr.rv \in Nat  BY <2>2, <3>1, VersionFacts
      <4>3. cr'.rv = cr.rv + 1 \/ [cr EXCEPT !.status = NewStatus] = cr
        BY <2>4, <3>1, <4>1, CommitCRStores DEF TypeOK, CRVersions
      <4> QED  BY <4>2, <4>3
    <3> QED  BY <3>1 DEF TypeOK, CRVersions
  <2> QED  BY <2>2, <2>5 DEF StatusProgress, NewStatus
<1> QED  BY <1>0, <1>1, <1>2, <1>3, <1>4, <1>5 DEF Worker, ChildSteps

\* In the calm a cached child is the server's, or the server's is a stranger's.
LEMMA CacheIsCurrent ==
  ASSUME CachesCatchUp, Calm, NEW k \in Kinds
  PROVE  childCache[k] = child[k] \/ IsForeign(k)
<1>1. CASE childWatch[k] = {}  BY <1>1 DEF CachesCatchUp
<1>2. CASE childWatch[k] # {}
  <2>1. child[k] \in childWatch[k] /\ child[k].rv > 0  BY <1>2 DEF CachesCatchUp
  <2>2. child[k].owner = NoOwner  BY <2>1 DEF Calm, Enqueues
  <2> QED  BY <2>1, <2>2 DEF IsForeign
<1> QED  BY <1>1, <1>2

\* Where the controller stays calm, a step past a child has seen it there, has
\* written it without effect, or has written a stranger's.
LEMMA ChildStepsKeepProgress ==
  ASSUME TypeOK, IInv, CachesCatchUp, Progress, ChildProgress, Commits, ChildSteps
  PROVE  ChildProgress'
<1> SUFFICES ASSUME Calm'
             PROVE  /\ PastDeployment' => DeploymentDone'
                    /\ Successful' => ServiceDone'
  BY DEF ChildProgress
<1>0. "Deployment" \in Kinds /\ "Service" \in Kinds  BY DEF Kinds
<1>1. /\ Calm /\ (DeploymentDone => DeploymentDone') /\ (ServiceDone => ServiceDone')
      /\ \A k \in Kinds : child'[k] = child[k] \/ IsForeign(k)'
  BY DoneStays, ChildStepMoves
<1>2. sr = cr /\ cr' = cr
  <2>1. CRCalm /\ cr' = cr  BY ChildStepMoves, CalmStays DEF Calm
  <2> QED  BY <2>1, ChildStepMoves DEF Progress, CRProgress, PastGet
<1>3. PastDeployment => DeploymentDone  BY <1>1 DEF ChildProgress
<1>4. CASE GetDeployment
  <2>1. ~Successful' /\ (PastDeployment' => pc' \in {"GetService", "CreateService"})
    BY <1>4 DEF GetDeployment, Goto, PastDeployment, Successful
  <2>2. pc' \in {"GetService", "CreateService"} =>
          /\ childCache["Deployment"].exists
          /\ childCache["Deployment"].replicas = sr.spec.replicas
    BY <1>4 DEF GetDeployment, Goto
  <2>3. PastDeployment' => DeploymentDone
    BY <1>0, <1>1, <1>2, <2>1, <2>2, CacheIsCurrent DEF DeploymentDone
  <2> QED  BY <1>1, <2>1, <2>3
<1>5. CASE UpdateDeployment
  <2> DEFINE v == [existing EXCEPT !.replicas = sr.spec.replicas]
  <2>1. \/ ChildFresh("Deployment", existing) /\ CommitChild("Deployment", v)
        \/ Fail
    BY <1>5 DEF UpdateDeployment, Call
  <2>2. ~Successful'
    BY <1>5 DEF UpdateDeployment, Call, Goto, Fail, Successful
  <2>3. CASE ChildFresh("Deployment", existing) /\ CommitChild("Deployment", v)
    <3>1. existing = child["Deployment"] /\ child["Deployment"].exists
      BY <1>5, <2>3 DEF UpdateDeployment, IInv, ChildVersionsOrdered, ChildFresh
    <3>2. sr.spec.replicas \in Nat
      BY ConstantsAssumption DEF TypeOK, CRVersions, SpecValues
    <3>3. v \in ChildVersions /\ v.exists /\ v.replicas = sr.spec.replicas
      BY <3>1, <3>2 DEF TypeOK, ChildVersions
    <3> HIDE DEF v
    <3>4. child'["Deployment"].replicas = sr.spec.replicas /\ child'["Deployment"].exists
      <4>1. \/ child'["Deployment"] = v
            \/ child'["Deployment"] = [v EXCEPT !.rv = child["Deployment"].rv + 1]
        BY <1>0, <2>3, <3>3, CommitChildStores DEF TypeOK
      <4> QED  BY <3>3, <4>1 DEF ChildVersions
    <3> QED  BY <1>2, <2>2, <3>4 DEF DeploymentDone
  <2>4. CASE Fail  BY <2>2, <2>4 DEF Fail, PastDeployment
  <2> QED  BY <2>1, <2>3, <2>4
<1>6. ASSUME NEW k \in Kinds, ~child[k].exists, CommitChild(k, Build(k))
      PROVE  IsForeign(k)'
  <2>1. Build(k) \in ChildVersions /\ Build(k).exists  BY BuildType DEF Build
  <2>2. child'[k].exists  BY <1>6, <2>1, CommitOwners
  <2> QED  BY <1>1, <1>6, <2>2
<1>7. CASE CreateDeployment
  <2>1. \/ ~child["Deployment"].exists /\ CommitChild("Deployment", Build("Deployment"))
        \/ Fail
    BY <1>7 DEF CreateDeployment, Call
  <2>2. ~Successful'
    BY <1>7 DEF CreateDeployment, Call, Goto, Fail, Successful
  <2>3. Fail => ~PastDeployment'  BY <2>2 DEF Fail, PastDeployment
  <2> QED  BY <1>0, <1>6, <2>1, <2>2, <2>3 DEF DeploymentDone
<1>8. CASE GetService
  <2>1. pc = "GetService" /\ (Successful' => childCache["Service"].exists)
    BY <1>8 DEF GetService, Goto, Successful
  <2>2. DeploymentDone  BY <1>3, <2>1 DEF PastDeployment
  <2>3. Successful' => ServiceDone
    BY <1>0, <1>1, <2>1, CacheIsCurrent DEF ServiceDone
  <2> QED  BY <1>1, <2>2, <2>3
<1>9. CASE CreateService
  <2>1. pc = "CreateService"  BY <1>9 DEF CreateService
  <2>2. \/ ~child["Service"].exists /\ CommitChild("Service", Build("Service"))
        \/ Fail
    BY <1>9 DEF CreateService, Call
  <2>3. DeploymentDone  BY <1>3, <2>1 DEF PastDeployment
  <2>4. Fail => ~Successful'  BY DEF Fail, Successful
  <2> QED  BY <1>0, <1>1, <1>6, <2>2, <2>3, <2>4 DEF ServiceDone
<1> QED  BY <1>4, <1>5, <1>7, <1>8, <1>9 DEF ChildSteps

\* So what a reconcile that ends normally has gone past is done.
LEMMA WorkerKeepsChildProgress ==
  ASSUME TypeOK, IInv, CachesCatchUp, DeletingIsGuarded, Progress, Commits, Worker,
         "relistChild" \notin Disturbances
  PROVE  ChildProgress'
<1>0. CASE StartReconcile  BY <1>0, StartMakesProgress DEF Progress
<1>1. CASE GetNotFound \/ GetDeleting \/ RemoveFinalizer \/ (AddFinalizer /\ Return(TRUE))
  <2>1. pc' = "RemoveFinalizer" \/ ~CRCalm'  BY <1>1, EarlyReturn
  <2> QED  BY <2>1 DEF ChildProgress, Calm, PastDeployment, Successful
<1>2. CASE GetLive  BY <1>2 DEF GetLive, ChildProgress, PastDeployment, Successful
<1>3. CASE AddFinalizer /\ ~Return(TRUE)
  <2>1. pc' = "GetDeployment"  BY <1>3 DEF AddFinalizer, Call
  <2> QED  BY <2>1 DEF ChildProgress, PastDeployment, Successful
<1>4. CASE ChildSteps  BY <1>4, ChildStepsKeepProgress DEF Progress
<1>5. CASE UpdateStatus
  <2> SUFFICES ASSUME Calm'
               PROVE  DeploymentDone' /\ ServiceDone'
    BY DEF ChildProgress
  <2>1. pc = "UpdateStatus" /\ (phase = "Failed" => Return(TRUE))
    BY <1>5 DEF UpdateStatus
  <2>2. phase = "Running" /\ dirty' = dirty
    BY <1>5, <2>1, WorkerCalm DEF Calm, TypeOK
  <2>3. delayed => delayed'
    BY <1>5, <2>1, WorkerCalm DEF Calm, CRCalm
  <2>4. Successful  BY <2>1, <2>2 DEF Successful
  <2> QED
    BY <2>2, <2>3, <2>4, DoneStays DEF Progress, ChildProgress, PastDeployment
<1> QED  BY <1>0, <1>1, <1>2, <1>3, <1>4, <1>5 DEF Worker, ChildSteps

----------------------------------------------------------------------------
(* The theorems.                                                            *)

\* The invariant holds: while nothing is on its way that would wake the controller,
\* what the running reconcile has gone past is done.
THEOREM Settling == Spec => []CInv
<1>1. Init => CInv
  <2> SUFFICES ASSUME Init PROVE CInv  OBVIOUS
  <2>1. ~cr.exists  BY DEF Init, NoCR
  <2>2. CachesCatchUp  BY DEF Init, CachesCatchUp
  <2> QED
    BY <2>1, <2>2 DEF CInv, DeletingIsGuarded, Progress, CRProgress, ChildProgress,
                      StatusProgress, Calm, CRCalm
<1>2. TypeOK /\ IInv /\ CInv /\ [Next]_vars => CInv'
  <2> SUFFICES ASSUME TypeOK, IInv, CInv, [Next]_vars
               PROVE  CInv'
    OBVIOUS
  <2>0. CachesCatchUp /\ DeletingIsGuarded /\ Progress  BY DEF CInv
  <2>1. CASE Worker
    <3>1. UNCHANGED caches /\ Commits /\ DeletingIsGuarded'  BY <2>0, <2>1, WorkerStores
    <3>2. CachesCatchUp'  BY <2>0, <3>1, CommitsKeepCatchUp
    <3>3. Progress'
      BY <2>0, <2>1, <3>1, WorkerKeepsCRProgress, WorkerKeepsChildProgress,
         WorkerKeepsStatusProgress DEF Progress
    <3> QED  BY <3>1, <3>2, <3>3 DEF CInv
  <2>2. CASE User \/ Cluster
    <3>1. UNCHANGED <<caches, queue, worker>> /\ Commits /\ DeletingIsGuarded'
      BY <2>0, <2>2, UserWrites, ClusterWrites DEF Elsewhere
    <3> QED  BY <2>0, <3>1, CommitsKeepCatchUp, OutsideKeepsProgress DEF CInv
  <2>3. CASE Informers \/ Crash
    BY <2>0, <2>3, InformersKeepCatchUp, InformersKeepProgress DEF CInv, DeletingIsGuarded
  <2>4. CASE BackoffExpires
    <3>1. UNCHANGED <<server, caches>>  BY <2>4 DEF BackoffExpires
    <3>2. Commits  BY <3>1 DEF Commits
    <3>3. DeletingIsGuarded'  BY <2>0, <3>1 DEF DeletingIsGuarded, server
    <3> QED  BY <2>0, <2>4, <3>1, <3>2, <3>3, CommitsKeepCatchUp, InformersKeepProgress
                DEF CInv
  <2>5. CASE UNCHANGED vars
    <3>1. UNCHANGED <<server, caches, queue, worker>>  BY <2>5 DEF vars
    <3>2. Commits  BY <3>1 DEF Commits
    <3>3. DeletingIsGuarded'  BY <2>0, <3>1 DEF DeletingIsGuarded, server
    <3> QED  BY <2>0, <3>1, <3>2, <3>3, CommitsKeepCatchUp, OutsideKeepsProgress DEF CInv
  <2> QED  BY <2>1, <2>2, <2>3, <2>4, <2>5 DEF Next
<1> QED  BY <1>1, <1>2, TypeCorrect, Invariance, PTL DEF Spec

\* No wake-up is lost.  Whatever is edited, deleted, scaled, lost, refused or
\* restarted, a controller at rest has made its SampleResource's children, as long
\* as no watch of a child misses both a creation and the deletion after it.
THEOREM QuietConverged ==
  ASSUME "relistChild" \notin Disturbances
  PROVE  Spec => []QuietMeansConverged
<1>1. CInv => QuietMeansConverged
  <2> SUFFICES ASSUME CInv, Quiet, cr.exists
               PROVE  /\ ~cr.deleting /\ cr.finalizer
                      /\ DeploymentDone /\ ServiceDone
    BY DEF QuietMeansConverged, DeploymentDone, ServiceDone, Kinds
  <2>1. CRCalm /\ Calm /\ pc = "idle"  BY DEF Quiet, CRCalm, Calm
  <2>2. ~cr.deleting /\ cr.finalizer  BY <2>1 DEF CInv, Progress, CRProgress
  <2>3. DeploymentDone /\ ServiceDone
    BY <2>1 DEF CInv, Progress, ChildProgress, PastDeployment, Successful
  <2> QED  BY <2>2, <2>3
<1> QED  BY <1>1, Settling, PTL

\* No status is lost.  A controller at rest has reported Running for the current
\* generation, if the status subresource is there and no status update gets lost:
\* one refused for a conflict is made up for by the event of what it conflicted with.
THEOREM QuietObserved ==
  ASSUME StatusSubresource, "statusFault" \notin Disturbances
  PROVE  Spec => []QuietMeansObserved
<1>1. CInv => QuietMeansObserved
  BY DEF CInv, Progress, StatusProgress, QuietMeansObserved, Quiet, CRCalm
<1> QED  BY <1>1, Settling, PTL
=============================================================================
