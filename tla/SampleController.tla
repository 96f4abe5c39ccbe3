------------------------- MODULE SampleController -------------------------
(***************************************************************************)
(* The SampleResource controller of week9 (pkg/controller/                 *)
(* sample_controller.go) around one SampleResource name: keys are          *)
(* independent, and MaxConcurrentReconciles is left at its default of 1.   *)
(*                                                                         *)
(* The reconciler is one sequential worker whose calls to the API server   *)
(* are the points where anything else may happen.  It reads from informer  *)
(* caches that lag behind the server and writes to the server under        *)
(* optimistic locking.  What surrounds it (API server, informers, work     *)
(* queue, garbage collector, users) is external to the repository and is   *)
(* modelled from how the controller uses it.                               *)
(***************************************************************************)
EXTENDS Naturals

CONSTANTS
  ReplicaCounts,       \* values of spec.replicas
  Templates,           \* values of (spec.image, spec.port), which a child
                       \* copies when it is built and the API does not compare
  StatusSubresource,   \* does the installed CRD enable the status subresource?
  Disturbances,        \* the kinds of disturbance the environment may cause
  MaxDisturbances      \* bound: how many of them

DisturbanceKinds ==
  {"create", "edit", "delete", "scale", "remove", "foreign", "rollout",
   "relist", "relistChild", "resync", "tick", "fault", "lostReply", "statusFault", "crash"}

ASSUME ConstantsAssumption ==
  /\ ReplicaCounts \subseteq Nat \ {0} /\ ReplicaCounts # {}
  /\ Templates # {}
  /\ StatusSubresource \in BOOLEAN
  /\ Disturbances \subseteq DisturbanceKinds
  /\ MaxDisturbances \in Nat

VARIABLES
  cr,          \* the SampleResource on the API server
  child,       \* the Deployment and the Service of that name on the server
  crCache,     \* the informer's copy of the SampleResource
  crWatch,     \* versions of it the informer has not received yet
  childCache,  \* the informers' copies of the children
  childWatch,  \* versions of them not received yet
  dirty,       \* the key is in the work queue (or will be, once processed)
  delayed,     \* the key waits for its rate-limited retry
  pc,          \* where the worker is: the API call it is about to make
  sr,          \* Reconcile's own copy of the SampleResource
  existing,    \* reconcileDeployment's own copy of the Deployment
  phase,       \* the phase the coming updateStatus will report
  now,         \* the clock, in seconds
  spent        \* disturbances so far

server   == <<cr, crWatch, child, childWatch>>
caches   == <<crCache, childCache>>
queue    == <<dirty, delayed>>
worker   == <<pc, sr, existing, phase>>
vars     == <<server, caches, queue, worker, now, spent>>

----------------------------------------------------------------------------
(* Objects.  A version is what one resourceVersion of an object holds; a    *)
(* deleted object is a version too, the tombstone a watch delivers.         *)

Kinds == {"Deployment", "Service"}

NoOwner == 0            \* no controller OwnerReference
SpecValues == [replicas : ReplicaCounts, template : Templates]

Statuses ==
  [phase : {"", "Running", "Failed"}, observedGeneration : Nat, replicas : Nat,
   availableReplicas : Nat, lastTransitionTime : Nat]

CRVersions ==
  [rv : Nat, exists : BOOLEAN, uid : Nat, generation : Nat, spec : SpecValues,
   deleting : BOOLEAN, finalizer : BOOLEAN, status : Statuses]

ChildVersions ==
  [rv : Nat, exists : BOOLEAN, owner : Nat, replicas : Nat,
   template : Templates, available : Nat]

EmptyStatus == [phase |-> "", observedGeneration |-> 0, replicas |-> 0,
                availableReplicas |-> 0, lastTransitionTime |-> 0]

SomeSpec == CHOOSE s \in SpecValues : TRUE

NoCR == [rv |-> 0, exists |-> FALSE, uid |-> 0, generation |-> 0, spec |-> SomeSpec,
         deleting |-> FALSE, finalizer |-> FALSE, status |-> EmptyStatus]

NoChild == [rv |-> 0, exists |-> FALSE, owner |-> NoOwner, replicas |-> 0,
            template |-> SomeSpec.template, available |-> 0]

\* A tombstone keeps what an event handler or the next incarnation looks at.
CRTombstone(v)    == [NoCR EXCEPT !.rv = v.rv, !.uid = v.uid]
ChildTombstone(v) == [NoChild EXCEPT !.rv = v.rv, !.owner = v.owner]

Locations == {"idle", "Get", "AddFinalizer", "GetDeployment", "UpdateDeployment",
              "CreateDeployment", "GetService", "CreateService", "UpdateStatus",
              "RemoveFinalizer"}

TypeOK ==
  /\ cr \in CRVersions /\ crCache \in CRVersions /\ sr \in CRVersions
  /\ crWatch \subseteq CRVersions
  /\ child \in [Kinds -> ChildVersions] /\ childCache \in [Kinds -> ChildVersions]
  /\ childWatch \in [Kinds -> SUBSET ChildVersions]
  /\ existing \in ChildVersions
  /\ dirty \in BOOLEAN /\ delayed \in BOOLEAN
  /\ pc \in Locations /\ phase \in {"Running", "Failed"}
  /\ now \in Nat /\ spent \in 0..MaxDisturbances

Init ==
  /\ cr = NoCR /\ crCache = NoCR /\ crWatch = {}
  /\ child = [k \in Kinds |-> NoChild]
  /\ childCache = child
  /\ childWatch = [k \in Kinds |-> {}]
  /\ dirty = FALSE /\ delayed = FALSE
  /\ pc = "idle" /\ sr = NoCR /\ existing = NoChild /\ phase = "Running"
  /\ now = 0 /\ spent = 0

----------------------------------------------------------------------------
(* The API server.  A write of an unchanged object is dropped: it yields no *)
(* new resourceVersion and no watch event.                                  *)

CommitCR(v) ==
  /\ IF v = cr
     THEN UNCHANGED <<cr, crWatch>>
     ELSE /\ cr' = [v EXCEPT !.rv = cr.rv + 1]
          /\ crWatch' = crWatch \union {cr'}
  /\ UNCHANGED <<child, childWatch>>

CommitChild(k, v) ==
  /\ IF v = child[k]
     THEN UNCHANGED <<child, childWatch>>
     ELSE LET new == [v EXCEPT !.rv = child[k].rv + 1]
          IN  /\ child' = [child EXCEPT ![k] = new]
              /\ childWatch' = [childWatch EXCEPT ![k] = @ \union {new}]
  /\ UNCHANGED <<cr, crWatch>>

\* Optimistic locking: an update is accepted from the current version only.
CRFresh(copy)       == cr.exists /\ copy.rv = cr.rv
ChildFresh(k, copy) == child[k].exists /\ copy.rv = child[k].rv

\* Without a status subresource the object's update endpoint is the only one.
StatusFresh(copy) == StatusSubresource /\ CRFresh(copy)

\* The generation counts the changes of the spec.
NextGeneration(spec) == IF spec = cr.spec THEN cr.generation ELSE cr.generation + 1

\* A plain Update of the SampleResource: the copy's spec and finalizers are
\* stored, its status is not; an object marked for deletion that has lost its
\* last finalizer goes away.
UpdateCR(copy) ==
  CommitCR(IF copy.deleting /\ ~copy.finalizer
           THEN CRTombstone(cr)
           ELSE [copy EXCEPT !.status = cr.status,
                             !.generation = NextGeneration(copy.spec)])

Disturb(kind) ==
  /\ kind \in Disturbances
  /\ spent < MaxDisturbances
  /\ spent' = spent + 1

\* One API write of the worker.  It is answered by what the server did, unless
\* the request or its reply gets lost, which the client sees as an error.
Call(accepted, Apply, OnSuccess, OnError) ==
  \/ accepted /\ Apply /\ OnSuccess /\ UNCHANGED spent
  \/ accepted /\ Apply /\ OnError /\ Disturb("lostReply")
  \/ ~accepted /\ UNCHANGED server /\ OnError /\ UNCHANGED spent
  \/ UNCHANGED server /\ OnError /\ Disturb("fault")

----------------------------------------------------------------------------
(* Users and the rest of the cluster.                                       *)

Elsewhere == UNCHANGED <<caches, queue, worker, now>>

CreateCR ==
  /\ ~cr.exists
  /\ Disturb("create")
  /\ \E s \in SpecValues :
       CommitCR([NoCR EXCEPT !.rv = cr.rv, !.exists = TRUE, !.uid = cr.uid + 1,
                             !.generation = 1, !.spec = s])
  /\ Elsewhere

EditCR ==
  /\ cr.exists
  /\ Disturb("edit")
  /\ \E s \in SpecValues \ {cr.spec} :
       CommitCR([cr EXCEPT !.spec = s, !.generation = @ + 1])
  /\ Elsewhere

DeleteCR ==
  /\ cr.exists /\ ~cr.deleting
  /\ Disturb("delete")
  /\ IF cr.finalizer
     THEN CommitCR([cr EXCEPT !.deleting = TRUE, !.generation = @ + 1])
     ELSE CommitCR(CRTombstone(cr))
  /\ Elsewhere

\* kubectl scale, or an autoscaler
ScaleDeployment ==
  /\ child["Deployment"].exists
  /\ Disturb("scale")
  /\ \E n \in ReplicaCounts \ {child["Deployment"].replicas} :
       CommitChild("Deployment", [child["Deployment"] EXCEPT !.replicas = n])
  /\ Elsewhere

RemoveChild(k) ==
  /\ child[k].exists
  /\ Disturb("remove")
  /\ CommitChild(k, ChildTombstone(child[k]))
  /\ Elsewhere

\* Somebody else makes an object of that name, with no owner reference.
CreateForeign(k) ==
  /\ ~child[k].exists
  /\ Disturb("foreign")
  /\ CommitChild(k, [NoChild EXCEPT !.rv = child[k].rv, !.exists = TRUE,
                        !.replicas = IF k = "Deployment" THEN SomeSpec.replicas ELSE 0])
  /\ Elsewhere

IsForeign(k) == child[k].rv > 0 /\ child[k].owner = NoOwner

\* The Deployment controller reports as many available Pods as are asked for.
Rollout ==
  LET d == child["Deployment"] IN
  /\ d.exists /\ d.available # d.replicas
  /\ Disturb("rollout")
  /\ CommitChild("Deployment", [d EXCEPT !.available = d.replicas])
  /\ Elsewhere

\* The garbage collector removes a child whose owner is gone.
Orphan(k) ==
  /\ child[k].exists /\ child[k].owner # NoOwner
  /\ ~(cr.exists /\ cr.uid = child[k].owner)

CollectGarbage(k) ==
  /\ Orphan(k)
  /\ CommitChild(k, ChildTombstone(child[k]))
  /\ Elsewhere /\ UNCHANGED spent

Tick ==
  /\ Disturb("tick")
  /\ now' = now + 1
  /\ UNCHANGED <<server, caches, queue, worker>>

----------------------------------------------------------------------------
(* Informers and work queue.  SetupWithManager registers For(SampleResource) *)
(* and Owns(Deployment), Owns(Service): every event of the SampleResource    *)
(* enqueues its key, and so does every event of a child that has an owner    *)
(* (the handler maps it by the owner's kind and name, not by its uid).       *)

\* Mutant: SetupWithManager does not register Owns for the children.
EnqueuesNothing(v) == FALSE

Enqueues(v) == v.owner # NoOwner

DeliverCR ==
  /\ \E v \in crWatch :
       /\ \A w \in crWatch : v.rv <= w.rv
       /\ crCache' = v
       /\ crWatch' = crWatch \ {v}
  /\ dirty' = TRUE
  /\ UNCHANGED <<cr, child, childWatch, childCache, delayed, worker, now, spent>>

DeliverChild(k) ==
  /\ \E v \in childWatch[k] :
       /\ \A w \in childWatch[k] : v.rv <= w.rv
       /\ childCache' = [childCache EXCEPT ![k] = v]
       /\ childWatch' = [childWatch EXCEPT ![k] = @ \ {v}]
       /\ dirty' = (dirty \/ Enqueues(v))
  /\ UNCHANGED <<cr, crWatch, child, crCache, delayed, worker, now, spent>>

\* A broken watch is followed by a fresh list, which skips versions.
RelistCR ==
  /\ Disturb("relist")
  /\ crCache' = cr /\ crWatch' = {}
  /\ dirty' = (dirty \/ cr.exists \/ crCache.exists)
  /\ UNCHANGED <<cr, child, childWatch, childCache, delayed, worker, now>>

RelistChild(k) ==
  /\ Disturb("relistChild")
  /\ childCache' = [childCache EXCEPT ![k] = child[k]]
  /\ childWatch' = [childWatch EXCEPT ![k] = {}]
  /\ dirty' = (\/ dirty
               \/ child[k].exists /\ Enqueues(child[k])
               \/ childCache[k].exists /\ Enqueues(childCache[k]))
  /\ UNCHANGED <<cr, crWatch, child, crCache, delayed, worker, now>>

\* Nothing is under way: no event to deliver, nothing queued, nothing running.
Quiet ==
  /\ pc = "idle" /\ ~dirty /\ ~delayed
  /\ crWatch = {} /\ \A k \in Kinds : childWatch[k] = {}

\* The periodic resync replays the cached object.  Ten hours apart, it meets a
\* controller at rest; one that falls into the middle of something counts as a
\* disturbance.
Resync ==
  /\ crCache.exists
  /\ \/ Quiet /\ UNCHANGED spent
     \/ ~Quiet /\ Disturb("resync")
  /\ dirty' = TRUE
  /\ UNCHANGED <<server, caches, delayed, worker, now>>

BackoffExpires ==
  /\ delayed
  /\ delayed' = FALSE /\ dirty' = TRUE
  /\ UNCHANGED <<server, caches, worker, now, spent>>

\* The manager dies and a new one starts: queue and call in progress are lost,
\* the caches are listed afresh and every listed object enqueues its key.
Crash ==
  /\ Disturb("crash")
  /\ crCache' = cr /\ crWatch' = {}
  /\ childCache' = child /\ childWatch' = [k \in Kinds |-> {}]
  /\ dirty' = (cr.exists \/ \E k \in Kinds : child[k].exists /\ Enqueues(child[k]))
  /\ delayed' = FALSE
  /\ pc' = "idle" /\ sr' = NoCR /\ existing' = NoChild /\ phase' = "Running"
  /\ UNCHANGED <<cr, child, now>>

----------------------------------------------------------------------------
(* The reconciler.                                                          *)

StartReconcile ==
  /\ pc = "idle" /\ dirty
  /\ dirty' = FALSE
  /\ pc' = "Get"
  /\ UNCHANGED <<server, caches, delayed, sr, existing, phase, now, spent>>

Goto(l) == pc' = l /\ UNCHANGED <<dirty, delayed, sr, existing, phase>>

\* Mutant: the error is logged and not returned.
ReturnSwallow(err) ==
  /\ pc' = "idle" /\ sr' = NoCR /\ existing' = NoChild /\ phase' = "Running"
  /\ UNCHANGED <<dirty, delayed>>

\* Reconcile returns; an error puts the key back after a rate-limited delay.
Return(err) ==
  /\ pc' = "idle" /\ sr' = NoCR /\ existing' = NoChild /\ phase' = "Running"
  /\ delayed' = (delayed \/ err)
  /\ UNCHANGED dirty

\* Mutant: a failed reconcile reports a phase that Status does not know.
FailUnknownPhase == /\ pc' = "UpdateStatus" /\ phase' = "Error"
                    /\ UNCHANGED <<dirty, delayed, sr, existing>>

\* reconcileResources failed: Reconcile reports Failed before it returns.
Fail == /\ pc' = "UpdateStatus" /\ phase' = "Failed"
        /\ UNCHANGED <<dirty, delayed, sr, existing>>

\* Mutant: the NotFound of a deleted SampleResource is returned as an error.
GetNotFoundIsError ==
  /\ pc = "Get" /\ ~crCache.exists
  /\ Return(TRUE)
  /\ UNCHANGED <<server, caches, now, spent>>

\* Step 1: a NotFound ends the reconcile.
GetNotFound ==
  /\ pc = "Get" /\ ~crCache.exists
  /\ Return(FALSE)
  /\ UNCHANGED <<server, caches, now, spent>>

\* Mutant: a SampleResource marked for deletion is left alone.
GetDeletingIgnored ==
  /\ pc = "Get" /\ crCache.exists /\ crCache.deleting
  /\ Return(FALSE)
  /\ UNCHANGED <<server, caches, now, spent>>

\* Step 2: handleDeletion, whose only work is to let go of the finalizer.
GetDeleting ==
  /\ pc = "Get" /\ crCache.exists /\ crCache.deleting
  /\ IF crCache.finalizer
     THEN /\ sr' = crCache /\ pc' = "RemoveFinalizer"
          /\ UNCHANGED <<dirty, delayed, existing, phase>>
     ELSE Return(FALSE)
  /\ UNCHANGED <<server, caches, now, spent>>

\* Mutant: children are made before the finalizer is there.
GetLiveUnguarded ==
  /\ pc = "Get" /\ crCache.exists /\ ~crCache.deleting
  /\ sr' = crCache /\ pc' = "GetDeployment"
  /\ UNCHANGED <<dirty, delayed, existing, phase>>
  /\ UNCHANGED <<server, caches, now, spent>>

\* Mutant: a resource whose status is up to date is taken to be in order.
GetLiveUnlessSettled ==
  /\ pc = "Get" /\ crCache.exists /\ ~crCache.deleting
  /\ IF crCache.status.phase = "Running"
          /\ crCache.status.observedGeneration = crCache.generation
     THEN Return(FALSE)
     ELSE /\ sr' = crCache
          /\ pc' = IF crCache.finalizer THEN "GetDeployment" ELSE "AddFinalizer"
          /\ UNCHANGED <<dirty, delayed, existing, phase>>
  /\ UNCHANGED <<server, caches, now, spent>>

\* Step 3: a finalizer is added before anything else is written.
GetLive ==
  /\ pc = "Get" /\ crCache.exists /\ ~crCache.deleting
  /\ sr' = crCache
  /\ pc' = IF crCache.finalizer THEN "GetDeployment" ELSE "AddFinalizer"
  /\ UNCHANGED <<dirty, delayed, existing, phase>>
  /\ UNCHANGED <<server, caches, now, spent>>

\* Mutant: the update is retried past the conflict, with the copy's old content.
AddFinalizerForced ==
  /\ pc = "AddFinalizer"
  /\ Call(cr.exists,
          UpdateCR([sr EXCEPT !.finalizer = TRUE]),
          /\ pc' = "GetDeployment" /\ sr' = cr'
          /\ UNCHANGED <<dirty, delayed, existing, phase>>,
          Return(TRUE))
  /\ UNCHANGED <<caches, now>>

\* Client.Update stores the server's answer in sr.
AddFinalizer ==
  /\ pc = "AddFinalizer"
  /\ Call(CRFresh(sr),
          UpdateCR([sr EXCEPT !.finalizer = TRUE]),
          /\ pc' = "GetDeployment" /\ sr' = cr'
          /\ UNCHANGED <<dirty, delayed, existing, phase>>,
          Return(TRUE))
  /\ UNCHANGED <<caches, now>>

GetDeployment ==
  LET d == childCache["Deployment"] IN
  /\ pc = "GetDeployment"
  /\ \/ /\ d.exists /\ d.replicas = sr.spec.replicas
        /\ Goto("GetService")
     \/ /\ d.exists /\ d.replicas # sr.spec.replicas
        /\ existing' = d /\ pc' = "UpdateDeployment"
        /\ UNCHANGED <<dirty, delayed, sr, phase>>
     \/ /\ ~d.exists
        /\ Goto("CreateDeployment")
  /\ UNCHANGED <<server, caches, now, spent>>

UpdateDeployment ==
  /\ pc = "UpdateDeployment"
  /\ Call(ChildFresh("Deployment", existing),
          CommitChild("Deployment", [existing EXCEPT !.replicas = sr.spec.replicas]),
          Goto("GetService"),
          Fail)
  /\ UNCHANGED <<caches, now>>

\* Mutant: SetControllerReference is forgotten.
BuildUnowned(k) == [rv |-> child[k].rv, exists |-> TRUE, owner |-> NoOwner,
                    replicas |-> IF k = "Deployment" THEN sr.spec.replicas ELSE 0,
                    template |-> sr.spec.template, available |-> 0]

\* buildDeployment and buildService with SetControllerReference: what the child
\* takes from the SampleResource.  A Service has no replicas.
Build(k) == [rv |-> child[k].rv, exists |-> TRUE, owner |-> sr.uid,
             replicas |-> IF k = "Deployment" THEN sr.spec.replicas ELSE 0,
             template |-> sr.spec.template, available |-> 0]

CreateDeployment ==
  /\ pc = "CreateDeployment"
  /\ Call(~child["Deployment"].exists,
          CommitChild("Deployment", Build("Deployment")),
          Goto("GetService"),
          Fail)
  /\ UNCHANGED <<caches, now>>

\* An existing Service is left as it is.
GetService ==
  /\ pc = "GetService"
  /\ IF childCache["Service"].exists THEN Goto("UpdateStatus")
                                     ELSE Goto("CreateService")
  /\ UNCHANGED <<server, caches, now, spent>>

CreateService ==
  /\ pc = "CreateService"
  /\ Call(~child["Service"].exists,
          CommitChild("Service", Build("Service")),
          Goto("UpdateStatus"),
          Fail)
  /\ UNCHANGED <<caches, now>>

\* Mutant: the replica count comes from the cached Deployment, the generation
\* from the SampleResource.
NewStatusMixed ==
  [phase |-> phase, observedGeneration |-> sr.generation,
   replicas |-> childCache["Deployment"].replicas,
   availableReplicas |-> IF phase = "Running" THEN sr.spec.replicas ELSE 0,
   lastTransitionTime |-> now]

NewStatus ==
  [phase |-> phase, observedGeneration |-> sr.generation,
   replicas |-> sr.spec.replicas,
   availableReplicas |-> IF phase = "Running" THEN sr.spec.replicas ELSE 0,
   lastTransitionTime |-> now]

\* updateStatus logs the error of Status().Update and drops it; Reconcile then
\* returns what reconcileResources returned.
UpdateStatus ==
  /\ pc = "UpdateStatus"
  /\ \/ /\ StatusFresh(sr)
        /\ CommitCR([cr EXCEPT !.status = NewStatus])
        /\ UNCHANGED spent
     \/ /\ ~StatusFresh(sr)
        /\ UNCHANGED <<server, spent>>
     \/ /\ Disturb("statusFault")
        /\ UNCHANGED server
  /\ Return(phase = "Failed")
  /\ UNCHANGED <<caches, now>>

RemoveFinalizer ==
  /\ pc = "RemoveFinalizer"
  /\ Call(CRFresh(sr),
          UpdateCR([sr EXCEPT !.finalizer = FALSE]),
          Return(FALSE),
          Return(TRUE))
  /\ UNCHANGED <<caches, now>>

----------------------------------------------------------------------------
Worker ==
  \/ StartReconcile \/ GetNotFound \/ GetDeleting \/ GetLive \/ AddFinalizer
  \/ GetDeployment \/ UpdateDeployment \/ CreateDeployment
  \/ GetService \/ CreateService
  \/ UpdateStatus \/ RemoveFinalizer

User == CreateCR \/ EditCR \/ DeleteCR

Cluster ==
  \/ ScaleDeployment \/ Rollout \/ Tick
  \/ \E k \in Kinds : CreateForeign(k) \/ RemoveChild(k) \/ CollectGarbage(k)

Informers ==
  \/ DeliverCR \/ RelistCR \/ Resync
  \/ \E k \in Kinds : DeliverChild(k) \/ RelistChild(k)

Next == Worker \/ User \/ Cluster \/ Informers \/ BackoffExpires \/ Crash

Spec == Init /\ [][Next]_vars

\* The worker goroutine keeps running, watches deliver, retries fire, the cache
\* is resynced now and then and the garbage collector runs; users, faults and
\* crashes are owed nothing.
Fairness ==
  /\ WF_vars(Worker)
  /\ WF_vars(DeliverCR)
  /\ WF_vars(BackoffExpires)
  /\ WF_vars(Resync)
  /\ \A k \in Kinds : WF_vars(DeliverChild(k)) /\ WF_vars(CollectGarbage(k))

FairSpec == Spec /\ Fairness

----------------------------------------------------------------------------
(* Properties.                                                              *)

\* No wake-up is lost: whatever the interleaving of edits, deletions by hand,
\* stale reads, conflicts, lost calls and crashes, when nothing is left to do
\* a SampleResource that exists is guarded, not half deleted, and has its
\* Service and a Deployment of the size its spec asks for.  (An object of that
\* name made by somebody else has no owner reference: its events wake nobody.)
QuietMeansConverged ==
  Quiet /\ cr.exists =>
    /\ ~cr.deleting /\ cr.finalizer
    /\ \A k \in Kinds : IsForeign(k) \/ child[k].exists
    /\ \/ IsForeign("Deployment")
       \/ child["Deployment"].replicas = cr.spec.replicas

\* updateStatus drops its errors; a conflict is harmless because the version
\* that caused it will wake the controller again.  When nothing is left to do
\* the status reports success for the current generation.
QuietMeansObserved ==
  Quiet /\ cr.exists =>
    /\ cr.status.phase = "Running"
    /\ cr.status.observedGeneration = cr.generation

\* A status never runs ahead of the spec it describes, and one that claims the
\* current generation carries the replica count of that generation, however
\* stale the copy updateStatus worked on.
StatusDescribesSpec ==
  cr.exists =>
    /\ cr.status.observedGeneration <= cr.generation
    /\ cr.status.observedGeneration = cr.generation
         => cr.status.replicas = cr.spec.replicas

\* The finalizer updates write back the whole object the reconcile has read.
\* No step of the worker changes the spec the user has written meanwhile, nor
\* revokes a deletion.
UserIntentPreserved ==
  [][Worker /\ cr.exists =>
       \/ cr'.exists /\ cr'.spec = cr.spec /\ cr'.generation = cr.generation
       \/ ~cr'.exists /\ cr.deleting]_vars

\* The controller creates a Deployment or Service only while the incarnation that will own
\* it still exists and holds the finalizer, so no reconcile in flight can leave
\* a child behind for an owner already deleted or replaced.
ChildBornToLiveOwner ==
  [][\A k \in Kinds : Worker /\ ~child[k].exists /\ child'[k].exists
       => cr.exists /\ cr.finalizer /\ child'[k].owner = cr.uid]_vars

\* Errors, conflicts and self-inflicted events die out: between two resyncs the
\* controller comes to rest, it does not retry or re-trigger itself forever, also
\* when the clock has moved on and each status it writes is a change of the resource.
AlwaysQuietAgain == []<>Quiet

\* Whatever events were lost, status updates dropped or children found under its
\* name, a SampleResource that stays ends up guarded, with a Deployment of its
\* size and a Service that are its own or a stranger's, never those of an earlier
\* incarnation, and with a status that reports its current generation Running.
Converged ==
  /\ ~cr.deleting /\ cr.finalizer
  /\ \A k \in Kinds : child[k].exists /\ child[k].owner \in {cr.uid, NoOwner}
  /\ child["Deployment"].replicas = cr.spec.replicas
  /\ cr.status.phase = "Running"
  /\ cr.status.observedGeneration = cr.generation

EventuallyConsistent == <>[](cr.exists) => <>[]Converged

\* When a SampleResource is gone, its Deployment and Service follow.
ChildrenFollow ==
  ~cr.exists ~> (cr.exists \/ \A k \in Kinds : ~child[k].exists)

\* Contradicted by the code: reconcileDeployment only ever compares and writes
\* replicas, and reconcileService nothing, so after an edit of image or port a
\* SampleResource is Running for its current generation over children built
\* from an earlier one.
RunningMeansSpecApplied ==
  Quiet /\ cr.exists /\ cr.status.phase = "Running"
        /\ cr.status.observedGeneration = cr.generation =>
    \A k \in Kinds : child[k].template = cr.spec.template

\* The controller keeps the promises of SampleLifecycle.
Life ==
  CASE ~cr.exists                     -> "absent"
    [] cr.exists /\ cr.deleting       -> "terminating"
    [] cr.exists /\ ~cr.deleting /\ cr.finalizer  -> "guarded"
    [] cr.exists /\ ~cr.deleting /\ ~cr.finalizer -> "created"

Owners == [k \in Kinds |-> IF child[k].exists THEN child[k].owner ELSE NoOwner]

Lifecycle == INSTANCE SampleLifecycle
               WITH life <- Life, uid <- cr.uid, owner <- Owners

KeepsLifecycle == Lifecycle!LiveSpec
=============================================================================
