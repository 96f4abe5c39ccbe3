# AI infrastructure notes: verification

The repository is a ten-week course on AI infrastructure on Kubernetes. Most of
it is prose and manifests about other people's systems. Six directories hold
programs of its own, all in Go: a custom-resource controller (week 9), an RDMA
device plugin (week 3), a GPU device plugin and two GPU-aware scheduler plugins
(week 1), an xDS control plane (week 6) and a topology-aware scheduler plugin
(week 3). This directory holds TLA+ models of them, TLC configurations that
model-check the models on small instances, and TLAPS proofs of the properties
that matter most.

Paths below are relative to `src/`. `PROJECT.json` gives, for every definition
that models code, the file and lines it stands for.

| Module | What it is |
| --- | --- |
| `SampleLifecycle` | abstract: what the controller promises about a resource's life and its children |
| `SampleController` | the week 9 reconciler with API server, informers, queue, garbage collector |
| `SampleControllerMC` | values for TLC |
| `SampleControllerProofs` | theorems about it, the refinement of `SampleLifecycle` among them |
| `SampleConvergenceProofs` | theorems about it: it has converged whenever it is quiet |
| `DeviceLeases` | abstract: what the two device plugins and the kubelet promise about devices |
| `RdmaDevicePlugin` | the week 3 device plugin with sysfs and the kubelet |
| `RdmaDevicePluginProofs` | theorems about it, the refinement of `DeviceLeases` among them |
| `GpuPlugins` | Filter and Score of the two week 1 scheduler plugins, as operators |
| `GpuCluster` | scheduler, kubelets and GPU device plugins of a cluster; extends `GpuPlugins` |
| `GpuClusterMC` | values for TLC |
| `GpuClusterProofs` | theorems about it, the refinement of `DeviceLeases` among them |
| `XdsControlPlane` | the week 6 control plane with snapshot cache, streams and Envoys |
| `XdsControlPlaneProofs` | theorems about it |
| `SnapshotHistory` | the week 6 snapshot cache with history, down to the arrays its slices share |
| `SnapshotHistoryProofs` | theorems about it |
| `RackTopology` | the week 3 rack algorithms and tables, as operators |
| `TopologyScheduler` | the week 3 topology plugin in a scheduler, with nodes that come and go; extends `RackTopology` |
| `TopologySchedulerMC` | values for TLC |
| `TopologySchedulerProofs` | theorems about the rack algorithms and the scheduler |
| `InductionLemmas` | least counterexamples and sums over finite sets, for the proofs |

Run a configuration with `tlc -config X.cfg M`, the proofs with `tlapm M.tla`.

## 1. Inventory

### SampleResource controller (`week9 crd-controller/pkg/controller`)

*State.* The reconciler itself keeps none between calls; inside a call it holds
its copy of the resource (`sr`), of the Deployment (`existing`) and the error it
will return. Everything that lasts is in the API server: the SampleResource
(spec, generation, finalizer, deletion mark, status), a Deployment and a Service
of the same name. It reads through informer caches, which lag behind.

*Operations.* `Reconcile` (get, finalizer, children, status), `handleDeletion`,
`reconcileDeployment`, `reconcileService`, `updateStatus`, the two builders, and
`SetupWithManager`, which decides what wakes the controller.

*Interaction.* API calls under optimistic locking; watch events; a work queue
with one worker per default; owner references, by which the garbage collector
removes the children.

*Hard.* Stale reads; concurrent edits and deletions between two calls of one
reconcile; a resource deleted and created again under the same name; lost replies
and the retries they cause; a manager that dies between two writes; errors of the
status update, which are dropped; a loop that wakes itself with its own writes.

*Correct if* it has converged whenever it falls silent, falls silent when nobody
disturbs it, never undoes a user's write, reports only what is true, and makes
children only for an owner that exists and will see them removed.

### Controller manager wiring (`week9 .../cmd/controller/main.go`, scheme registration)

Start-up without state: flags, scheme, manager, health endpoints. What it decides
for the controller is a premise of the model: one worker
(`MaxConcurrentReconciles` is not set), one manager (leader election is off
unless a flag is given). Not modelled on its own.

### RDMA device plugin (`week3 .../3.1rdma-device-plugin`)

*State.* `deviceList` (a health flag per device discovered), the socket file, a
stop channel. *Operations.* `DiscoverDevices`, `Start`, `Stop`, `Run`,
`ListAndWatch` with `updateDeviceHealth`, `Allocate`. *Interaction.* Registers
with the kubelet over a socket; the kubelet then calls back: a stream of device
lists, and `Allocate` calls. *Hard.* Ports change while they are being walked;
kubelet and plugin die independently; `Allocate` runs beside the health check;
reports only go out every ten seconds. *Correct if* reports are true when they
arrive, failures reach the kubelet, no two containers get the same device, and a
plugin or kubelet that comes back is connected again.

### GPU device plugin (`week1 .../1.1device-plugin`)

*State.* `devices`, a map without a lock; the socket file; a context that a
signal cancels. *Operations.* `main` with its signal goroutine, `ListAndWatch`,
`GetPreferredAllocation`, `Allocate` with its three builders. *Hard.* Handlers
are goroutines and share the map; the signal goroutine and `main` race to the
end of the process; a kubelet's choice of devices and the plugin's answer may be
separated by a crash. *Correct if* the map is never read and written at once, a
container gets exactly the GPUs its pod is charged for, and termination cleans up.

### GPU-aware scheduler plugins (`week1 .../1.2gpu-scheduler`)

*State.* None; two constant tables (device to node, node to utilization) stand in
for a monitoring service. *Operations.* `Filter` and `Score` of
`DeviceUUIDMatcher` and of `GPUUtilizationBalancer`. *Interaction.* Called by
kube-scheduler for each pod and node; scores are weighed (100 and 50) against
those of kube-scheduler's own plugins. *Hard.* Early exits of the search through
a pod's devices; truncation of the score, and plugins of kube-scheduler that the
configuration does not turn off. *Correct if* a pod that fits is placed, on a node of
a device it names, and a node wins that is idler by more than the others can outweigh.

### xDS control plane (`week6 .../6.1xds-control-plane/pkg/controlplane`)

*State.* A version counter under a mutex and a go-control-plane snapshot cache.
*Operations.* `NewServer`, `Start`, `UpdateSnapshot`, `GetVersion`.
*Interaction.* Callers push snapshots, Go pointers into which the version is
written; Envoys watch the cache, accept or reject. *Hard.* The version is given
in one step and the cache set in another; one object may be pushed for several
nodes, so its version changes while it is in the cache; a push may fail half way;
streams break; the process dies and its Deployment starts another, which counts from
the beginning, while the Envoys keep the versions they have. *Correct if* a version of
one process names one configuration, versions of one process never go back, a new
process is heard although its versions are lower, and the Envoys end up with what was
last pushed.

### Snapshot cache with history (`week6 .../6.1xds-control-plane/pkg/snapshot`)

*State.* A go-control-plane cache, a slice of version records
(`versionHistory`), a read-write mutex. *Operations.* `UpdateSnapshot`,
`GetSnapshot`, `GetVersionHistory`, `Rollback`. *Interaction.* Nothing in the
repository calls the package; its methods take a lock, so they are written for
several goroutines. *Hard.* `GetVersionHistory` returns the slice itself, whose
array later calls go on writing; `GetSnapshot` does not take the lock; a push may
fail, or panic at a type assertion, after the snapshot is in the cache. *Correct
if* what is served can be found in the history, a reader's records stay what
they are, and the mutex always comes free.

### Topology scheduler plugin (`week3 .../3.3network-topology-scheduler`)

*State.* None but two constant tables: NUMA nodes and devices of a node
(`pkg/numa`), its rack and core switch (`pkg/rack`). *Operations.* `Filter` and
`Score`, over the NUMA check and a check of the rack; the hop counts and the search for
a rack are written for a score that is still a stub, and nothing calls them.
*Interaction.* Called by kube-scheduler. *Hard.* The nodes of a cluster come and
go while the tables stay; a node that one table knows and the other does not
makes `Filter` dereference nil; the NUMA check counts CPUs whether they are in
use or not, and looks at one device only; an average divides by nodes it has skipped.
*Correct if* a pod it lets through gets CPUs and device of one NUMA
node, its distances agree with one another, and no pod waits for ever beside a
node that has room for it.

### Not modelled

| Component | Why |
| --- | --- |
| Resource builder (week 6, `pkg/resource`), partly | builds protobuf literals from constants: no state, no branch. What the resources *name* (a listener its routes, routes their clusters, a cluster its endpoints) is used in `XdsControlPlane`; `BuildEndpoint` names nothing and the other fields decide nothing in the repository |
| Shell scripts | one-shot commands that print what other tools report |
| Manifests | configuration of systems that are not here; what the CRD and the scheduler's weights decide for the code is used in the models |
| Notes | prose; only its statements about code of the repository are used, in the findings |

The hazards these parts are exposed to are listed, each at its line and with the
properties that watch it, under `hazards` in `PROJECT.json`.

## 2. The models

### SampleController

One SampleResource name: keys are independent, and one worker handles them one at
a time, so a second key would only delay the first. The API server numbers the
versions of an object (`rv`); a deleted object leaves a version too, the
tombstone a watch delivers, so that numbers go on rising when the name is reused.
A new incarnation gets a new `uid`.

The reconciler is cut at its API calls, the points where something else may
happen; `pc` names the call it is about to make. What lies between two calls is
one action together with the call.

| Code | Action |
| --- | --- |
| `Reconcile` 87-112: get, `IsNotFound`, deletion mark, finalizer test | `GetNotFound`, `GetDeleting`, `GetLive` |
| finalizer `Update` (111-118) | `AddFinalizer` |
| `reconcileDeployment`: cached get, `Update` or `Create` | `GetDeployment`, `UpdateDeployment`, `CreateDeployment` |
| `reconcileService`: cached get, `Create` | `GetService`, `CreateService` |
| `reconcileResources` fails: status `Failed`, error returned | `Fail`, then `UpdateStatus`, `Return(TRUE)` |
| `updateStatus` (error logged, not returned) | `UpdateStatus` |
| `handleDeletion` | `GetDeleting`, `RemoveFinalizer` |
| `SetupWithManager` (`For`, `Owns`, `Owns`) | `Enqueues`, `DeliverCR`, `DeliverChild` |

Every write goes through `Call`, with the four outcomes a client meets: done;
done but the reply lost; refused (conflict, already there, not found); never
arrived. `spec.template` stands for image and port together: what a child copies
when it is built and nothing compares afterwards. The environment creates, edits
and deletes the resource, scales or removes children by hand, creates objects of
the same name with no owner, breaks watches (`Relist...`: a fresh list skips
versions), replays the cache (`Resync`, which also happens of itself every ten hours), kills the manager (`Crash`: queue and
call are lost, caches are listed afresh) and lets the clock advance (`Tick`).
Each of these is a *disturbance*: a run names the kinds it allows
(`Disturbances`) and how many in all (`MaxDisturbances`).

Events, logging and labels are left out. `reason` and
`message` of the condition follow the phase.

### SampleLifecycle and the refinement

An incarnation is created, guarded by the finalizer, marked for deletion and
released; a child is begotten only while its owner is guarded or terminating; an
orphan is collected. `SampleController` implements it with `life <- Life` (read
off `exists`, `deleting` and `finalizer`), `uid <- cr.uid` and `owner <- Owners`.
What makes this non-trivial is that the reconciler acts on copies: that a create
made on an old copy never lands on a later incarnation needs the argument of
section 4.

### DeviceLeases and its refinements

The two device plugins answer the same call of the same kubelet, and promise the same
thing together with it. `DeviceLeases` says what, in four actions over two variables: a
pod is *leased* free devices (`Lease`); its container then *holds* exactly these, all at
once (`Deliver`), or the lease is taken back (`TakeBack`); and only when the pod ends are
they free again (`Return`). Both models implement it. `RdmaDevicePlugin` does with
`leased <- charged` and `held <- nodes`; in `GpuCluster` `held` is not a variable but
`HeldGpus`, the GPUs of the pod's node whose device files `Allocate` has put into its
container. Starts, ends and restarts of plugins and kubelets, health, the scheduler and
all of the stream protocol are stutters, or take a lease back.

What makes this non-trivial is what the plugins do not check. Neither looks at who asks,
at health, or at what was handed out before; the RDMA plugin does not even look whether
it knows the device, and the GPU plugin silently leaves out one it does not know.

### RdmaDevicePlugin

One node. `Start` covers `Run`, `NewRDADevicePlugin`, `DiscoverDevices` and
`Start`: nothing outside observes the steps between. `Stop` and `Exit` are two
actions, because `Run` returns after `Stop` without waiting for handlers.
`ListAndWatch` is cut where it blocks or where a port may change under it:
`SendInitial`, `Tick` (the timer fires), one `CheckOne` per device in any order
(Go walks maps in random order), `SendUpdate`, `StopSeen`. The gRPC server and
registration are stubs in the code; the model gives them their usual meaning: the
kubelet dials a registered plugin once, a broken stream makes all its devices
unhealthy, a restarted kubelet forgets registrations and deletes sockets but keeps
its checkpoint of charges. `settled` is a history variable: the ports that have
held still since the running health check began. NUMA node and device type only
travel along and are left out, as are the umad and issm files that all containers
share.

### GpuPlugins and GpuCluster

`GpuPlugins` has the decision functions alone. `Filter` is stated without its
loop: some device of the list is on the node and none before it is unknown.
Utilization is counted in tenths of a percent so that the truncation of the score
is visible. `GpuCluster` puts them into a scheduling cycle (filters, the resource
fit, a node of highest weighted score whatever the other plugins add) and
runs one device-plugin process and one kubelet per node. The write of the device
map (`Fill`) and the first list (`SendList`) are separate actions, so that an
`Allocate` could fall between them if the protocol let it. `Cancel`,
`RemoveSocket` and `Exit` follow the signal handler of `main`, whose
`cancel()` lets `main` return at any moment after it.

`OthersAtMost` is what kube-scheduler's own score plugins add at most. The configuration
lists four of them with weight 1 and disables none, so that those that are on by default
count too, with their default weights: that depends on the version of kube-scheduler and
is a constant. The configurations give it 1200: the four, and TaintToleration (3),
NodeAffinity (2), PodTopologySpread (2) and NodeResourcesFit (1), 100 points for each
unit of weight.

True of the code and visible in the model: the device list is fixed (discovery is
a stand-in and health never changes); `GPUUtilizationBalancer.Filter` never
rejects; naming a device binds the pod to its *node*, and the kubelet then hands
out any device of that node; `GetPreferredAllocation` prefers every device of the
node; `PreStartContainer` is never called, as the plugin's options say. Not
modelled: the device plugin offers `example.com/gpu` while `hasGPUResources` of
the scheduler looks for `nvidia.com/gpu` (its answer decides nothing);
`NVIDIA_VISIBLE_DEVICES` carries Kubernetes' ids.

### XdsControlPlane

A push is two actions, `BeginPush` (lock, increment, stamp the object) and
`SetSnapshot` or `SetSnapshotFails` (the cache takes it and answers open watches,
or fails before or after storing it). `stamp` is a function of the *object*, not of
the node: the cache holds pointers. An Envoy has one request per resource type; the
cache answers it at once when its version differs from the one the Envoy has
and holds it open otherwise. The file does not compile as it stands (the server
built on the cache is not used, `Snapshot` of go-control-plane has no `Version`
field); the model takes it at its word: the registered services serve the cache and
a snapshot has the version that is written into it.

`Restart` is the end of the process at any point, in the middle of a push as well, and
the start of another: the Deployment restarts it when it ends or fails its
livenessProbe. Version, cache, streams and callers are as `NewServer` makes them; what
an Envoy has accepted it keeps. `life` counts the processes, and `origin` notes, for the
properties only, which of them an Envoy's resources came from. The objects of a new
process have the same content as those of the one before: the configurations that
callers push do not depend on the process. `confirmed` is what `UpdateSnapshot` last
reported success for, with the version it had then. `RefersTo` is what the resource
builder decides for the protocol: which type names resources of which other.

### SnapshotHistory

`UpdateSnapshot` is three actions, `Lock`, `SetSnapshot` and `RecordVersion`, with
the two ways out between them (`SetSnapshotFails`, `VersionPanics`), both through
the deferred unlock. `GetSnapshot` and `GetVersionHistory` are one caller's errand:
it learns what a node is served and looks it up. `history` is an array and a
length, `arrays` the backing arrays in their full capacity: `AppendRecord` writes
behind the end of the slice while there is room and copies into a new array of
twice the capacity otherwise, so that slices handed out earlier share, or do not
share, their array with the cache as they do in Go. `view` is the slice a caller
holds, with a `copy` of what was in it, and `lost` notes what the inner cache stored
although the call failed; both exist for the properties only. Timestamps and the
snapshot's resources are left out.

### RackTopology and TopologyScheduler

`RackTopology` has the distances and the members of a rack of `rack.go` over a table
that is an argument, as in the code. `FindBestRackForMultiNode`, which nothing calls, is
left out. `TopologyScheduler` puts `Filter` and `Score` into
a scheduler whose process may die, over a cluster whose nodes join and leave, and
lets a kubelet align what it grants wherever it can: the plugin only chooses the
node, so whether a pod ends up aligned is decided by both.

The three packages do not compile together (each declares its own `Pod`, an `int`
is compared with an `int64`); the model takes the code at its word. That includes
its stubs: every pod asks for 8 CPUs and one device, `needsMultiNode` is false, so that
the check of the racks never runs, and both parts of the score are constant, so that
`Score` distinguishes no nodes. That check counts the nodes of a rack in the constant
table, whichever of them are there (`topology.go:152`). It
includes the hard-wired device as well: `RdmaNUMA` reads `mlx5_0` and falls back on
0, Go's zero value.

## 3. The runs

| Run | Module, cfg | Checks |
| --- | --- | --- |
| `controller_safety` | `SampleControllerMC`, `SampleControllerSafety` | `TypeOK`, `QuietMeansConverged`, `QuietMeansObserved`, `StatusDescribesSpec`, `UserIntentPreserved`, `ChildBornToLiveOwner` |
| `controller_liveness` | `SampleControllerMC`, `SampleControllerLiveness` | `AlwaysQuietAgain`, `EventuallyConsistent`, `ChildrenFollow`, `KeepsLifecycle` |
| `rdma` | `RdmaDevicePlugin` | `TypeOK`, `ReportIsCurrent`, `NodesAreExclusive`, `ImplementsLeases`, `FailureReachesKubelet`, `PluginComesBack` |
| `gpu` | `GpuClusterMC`, `GpuCluster` | `TypeOK`, `MapNotShared`, `ContainersMatchCharges`, `ImplementsLeases`, `ClearlyLessLoadedWins`, `PodsProceed` |
| `xds` | `XdsControlPlane` | `TypeOK`, `VersionNamesSnapshot`, `OpenRequestsAreCurrent`, `VersionsNeverGoBack`, `EnvoysCatchUp` |
| `snapshot` | `SnapshotHistory` | `TypeOK`, `ServedIsRecorded`, `ReadersKeepRecords`, `EveryCallReturns` |
| `topology` | `TopologySchedulerMC`, `TopologyScheduler` | `TypeOK`, `PodsAreAligned`, `DistancesAgree`, `PodsProceed` |
| `controller_image`, `rdma_restart`, `gpu_named_device`, `gpu_exit`, `xds_order` | | one statement of the repository each, which the code contradicts: section 5 |

**controller_safety** (882,313 states). Three disturbances of any kind but two, in
any order, two replica counts, one template. Whatever
comes before the creation has little to disturb, so what the run adds is every pair
of disturbances after it: edit against a reconcile in
flight, deletion and re-creation of the name, a removal by hand and a crash, a
lost reply and a relist. Two counts let the controller confuse sizes; templates
play no part in these properties (nothing compares them). Left out on purpose:

- `relistChild`. If the watch of a child misses both its creation and its removal,
  the fresh list shows neither and no event arrives: the controller does not
  learn that its child is gone before the next resync or restart. This is how
  watches work and the reconciler has no remedy of its own (it asks for no
  requeue), so `QuietMeansConverged` would fail.
- `statusFault`. A status update that fails for another reason than a conflict is
  logged and dropped, and nothing retries it: the status stays stale until the
  next event.

Both are in the liveness run. Objects of the same name made by somebody else
are excused in `QuietMeansConverged` (`IsForeign`): the code never looks at the
owner of what it finds, and an object without an owner wakes nobody.

**controller_liveness** (149,416 states). Three disturbances out of those that
can keep a controller busy or wedge it, the two left out above among them, and the
clock (`tick`): when it has moved on, the status that a reconcile writes is a change of
the resource, and wakes the controller that wrote it. That the loop dies out
rests on ticks being bounded like all disturbances: in the end two reconciles fall
into one second, and the second one's status is a write that changes nothing. A
controller every reconcile of which straddles the end of a second would wake itself for
ever; a reconcile takes a few milliseconds, but nothing in the code excludes it.
*Fairness:* the worker's goroutine runs; watches deliver; a rate-limited key comes
back; the cache is resynced again and again (controller-runtime does so every ten
hours unless told otherwise, and `main.go` does not); the garbage collector
collects. Users, faults and crashes are owed nothing, and being bounded they end:
the properties speak of what happens once they do. A resync wakes the controller
for ever, so no run falls silent for good: `AlwaysQuietAgain` says that it comes to
rest between any two. `EventuallyConsistent` says what the resync is good for: a
removal whose event was lost, a status update that was dropped and a child of an
earlier incarnation are all put right. `KeepsLifecycle` checks the refinement with
its liveness part: deletions complete, orphans go. One replica count and no edits:
which copy an update is computed from is the matter of the safety run.

**rdma** (95,535 states). Two devices and two pods, so that a check has a middle
and pods can compete; two port changes (down and up again, or one for each
device) and two deaths (plugin and kubelet, in either order, or the same twice).
*Fairness:* the DaemonSet restarts the process, the kubelet dials what is
registered, timers fire and the handler runs. `PluginComesBack` excuses the state
in which a kubelet has restarted under a running plugin, which is finding 2.

**gpu** (63,618 states). Two nodes, two GPUs on one and one on the other; a pod
that names nothing, one that names two devices on different nodes, one that wants
two GPUs, which fits on one node only while nobody else is there. Two failures.
Utilizations of 25.5% and 78.3% exercise the truncation; they are further apart than the
25% (`ClearDifference`) that the 1200 points of the other plugins can make up for.
*Fairness:* the
scheduler retries, kubelets and handlers run. Pods need not end. `PodsProceed` is
stated for pods all of whose devices are known (section 5, one unknown device).

**xds** (207,983 states). Two nodes, two callers, two objects, three pushes: one
object for both nodes, two objects for one node, two callers at once. Two faults
(a failed push, a rejection or a broken stream). Two processes, one after the other, the
first of which may die at any point, with pushes on either side of its death, and two
calls of `Start` in each. One type, as types do not interact in the cache. *Fairness:* a
caller inside `UpdateSnapshot` goes on, streams deliver, a process that has died is
replaced and one that is new is started. Nobody has to push. An Envoy that knows, from
the process before, a number that the new process gives to its node's snapshot is
excused (`StrandedBy`): it is never answered (section 5). Every other Envoy is, with a
lower version than it has if need be.

**snapshot** (141,934 states). Two callers, one node, so that every record competes
with every other; four pushes take the array through its capacities 1, 2 and 4, the
fourth appending in place, behind the end of a slice that a reader may hold; one version is
no `int64`. One lookup (readers only read, and what one of them holds stays until the
end), one rollback, one failure. *Fairness:* a goroutine inside a call goes on, and
gets a mutex that stays free.

**topology** (6,248 states). Three pods and five nodes in two racks: the two of
the code's NUMA table (one with two NUMA nodes of 8 CPUs, one with 16 in one), one
whose NUMA nodes have 4 and 12, where `Filter` and the resource fit disagree, and two
that only the rack table knows. Five changes (joins, leaves, pods that end, crashes)
fill a node, empty it in another order and fill it again. Every subset of the nodes
of the code's rack table is reached, and `DistancesAgree` looks at the table restricted
to it; its lists of targets hold nodes that are present.
*Fairness:* the Deployment restarts the process, pending pods are tried again and
again, kubelets run; nodes need not join.

`CHECK_DEADLOCK FALSE` in every configuration: when disturbances are used up and
all is settled these systems really have nothing to do.

Every property has a mutant in `PROJECT.json`, a plausible bug in a mapped
definition that makes TLC find it violated. The mutated forms stand in the modules
just before the definitions they replace, marked `Mutant:`, and are used nowhere.

## 4. The proofs

Proved for all values of the constants, from nothing but the named assumptions on
them.

### SampleControllerProofs (from `ConstantsAssumption`)

`TypeCorrect`, `Invariance`, `StatusTruthful`, `SpecSurvives`, `NoLateChildren`,
`ImplementsLifecycle`.

None of the three safety properties is inductive: each speaks of the server, while
what endangers it is what worker and caches believe. The invariant `IInv` adds:

- `VersionsOrdered`, `ChildVersionsOrdered`: every copy (cache, watch, worker) is at
  most as new as the server's version, what the watch still holds lies between
  cache and server, and a copy of the *same* resourceVersion is the same object.
  So a write that passes optimistic locking was computed from the present version.
- `GuardHolds`: if the cache shows an incarnation guarded (it exists, has its
  finalizer, is not marked), or will once the watch has delivered, that
  incarnation is still there and still holds its finalizer, though it may have
  been marked meanwhile. Only a worker that has seen the mark takes the finalizer
  away, and by then the cache is past every guarded version (`sr.rv <= crCache.rv`).
- `WorkerKnows`: what the worker has learnt before each call still holds at the
  call: while it makes children, the incarnation of `sr` is there under its finalizer,
  because nobody but the worker takes that away.
- `StatusDescribesSpec`.

`NoLateChildren` and the `Beget` steps of the refinement follow from
`WorkerKnows`; `SpecSurvives` from the order of copies. `ImplementsLifecycle`
proves `Spec => Lifecycle!LifeSpec`: each commit maps to one step of the abstract
specification, everything else stutters.

### SampleConvergenceProofs (from `ConstantsAssumption`)

`Settling` (the invariant `CInv`), `QuietConverged`, `QuietObserved`.

That nothing is left to do when nothing is under way says nothing of a state in the
middle of a reconcile, so the invariant speaks of those too. Call the controller
*calm* when the resource exists and no event of it, no retry and no queued key is on
its way, whatever the worker is doing. Then:

- `CRProgress`: a worker past its read holds the server's version, and that version is
  guarded and not marked;
- `ChildProgress`: if, in addition, no event of an owned child is on its way, the
  children that the worker has gone past are there (or are a stranger's), the
  Deployment with the size of the spec;
- `StatusProgress`: a worker at rest has reported the current generation as Running.

Under them lies `CachesCatchUp`: a watch that has delivered everything has left the
cache equal to the server's version, and otherwise that version is among those to
come; and `DeletingIsGuarded`: a resource that is marked has its finalizer. The
argument of every step is the same: a write that changes the resource puts an event
into its watch and ends the calm; a write that changes a child does so too, unless the
child has become a stranger's; an error ends in a retry; and a worker that moves on in
the calm has compared with what the server holds. `QuietConverged` assumes
`"relistChild" \notin Disturbances` and `QuietObserved` a status subresource and
`"statusFault" \notin Disturbances`, the two disturbances without a remedy of section 3;
neither assumes anything about the others, their number or their order.

That one process alone releases the finalizer is where a second manager would
break the argument: leader election is off by default, and two replicas without
it are outside the model.

### RdmaDevicePluginProofs (from `BoundsAssumption`)

`TypeCorrect`, `Invariance`, `ReportsAreCurrent`, `NodesStayExclusive`,
`LeasesImplemented`, `LeasesAreWhole`, `NodesAreWhole`.

`ReportIsCurrent` speaks of the moment after a report. Its invariant carries the
truth through the walk: `CheckInv`, in the middle of a check every settled device
already looked at has the right flag; `HandlerInv`, which ties `settled` to the
handler that began the check (a handler of a new process or of a new connection
starts with none). `NodesAreExclusive` needs `ChargeInv`: charges are disjoint,
nodes are within charges, and a call under way still has its charge, which is not empty,
and no nodes. The same invariant carries the refinement: `LeasesStep` maps
`CallAllocate` to `Lease`, `Allocate` to `Deliver`, `PodEnds` to `Return`, and whatever
ends a call without an answer (the end of the process, a restart of the kubelet, a
stream that is gone) to `TakeBack` by one lemma, `CallTakenBack`; everything else
leaves charges and nodes alone. `LeasesAreWhole` proves of `DeviceLeases` itself that
leases are disjoint and a container holds all of its lease or nothing, so that
`NodesAreWhole` follows for the plugin from the refinement alone.

### XdsControlPlaneProofs (from `ConstantsAssumption`)

`TypeCorrect`, `Invariance`, `VersionsName`, `VersionsRise`, `NobodyForgotten`, for any
number of processes one after the other.

The mutex is what makes the two halves of a push one: `PushInv` says that a caller
between them holds it and that its object still carries the newest version, so what
goes into the cache is never older than what any Envoy knows. `StampsInv` (no two
objects carry one version), `NamesInv` (the object that carries the version of an
Envoy or of a response is the one it runs or brings) and `AgeInv` (from cache to
response to Envoy versions only fall) follow its effects outwards. Restamping an
object that is cached for another node raises a version above all in use, which
keeps all three. `NamesInv` and `AgeInv` speak of an Envoy only as far as its resources
come from the running process (`origin[w] = life`): a restart makes every Envoy one of
an earlier life, about whose numbers they say nothing, and its first ACK brings it back.
So `VersionsName` is about the versions of one process, and `VersionsRise` compares
processes first and versions only within one.

`NobodyForgotten` is the safety half of `EnvoysCatchUp`: a request that the cache keeps
open comes from an Envoy that runs what its node was set last, or that has from an
earlier process a number between the one this snapshot was confirmed with and the one
its object carries now. `HeldInv` makes it inductive. Both ends of that range are
needed: a push for another node restamps an object after an Envoy's request for it was
held open, with a number the Envoy may know or not.

### GpuClusterProofs (from `ClusterAssumption`, `TablesAssumption`)

`TypeCorrect`, `Invariance`, `MapStaysUnshared`, `ContainersMatch`,
`LeasesImplemented`, `IdleNodesWin`, `RoomMeansChoice`.

Neither of the invariants about devices says why the kubelet's protocol protects a map without a lock.
`PluginInv` does: the kubelet knows healthy devices only on a stream on which the list
was sent, which is after the map was written, and a stream leads to a process that runs
and whose map holds all devices of the node. `RequestInv` ties an `Allocate` under way
to that: it was made for at least one free device, so the list had been sent, and it goes
with the stream. `ChargeInv` (charges are disjoint and of the pod's node) and
`ContainerInv` carry the rest. The order of the ids is any bijection, hence the
assumption that there are finitely many GPUs. The scheduler's choice of a node plays no
part in these; `IdleNodesWin` is about that choice, for every bound `OthersAtMost` on what
the other plugins add. All nodes that pass the filters have the same device score, so
that a difference of k percent of utilization makes k points of the score, truncated or
not, at weight 50; `OthersAtMost \div 50 + 1` points are more than the others can add.

The refinement of `DeviceLeases` needs one more invariant, `IdleInv`: a pod that is
neither admitted nor running is charged nothing, and the container of one that does not
run is empty. With it, and because the GPUs of a node have different numbers
(`ClusterAssumption`), what a container holds *is* the charge of a running pod
(`HeldWhileRunning`), although the plugin only ever speaks of file names.
`KindsOfSteps` sorts all steps of the cluster into five kinds by what they do to the
pods; each kind is then a lease action or a stutter. That nothing is leased in vain (a
`TakeBack` takes something back) rests on every pod wanting at least one GPU.

`RoomMeansChoice` is the part of `PodsProceed` that is no matter of fairness: in every
state, a pod all of whose devices are known and that has room on the node of one of them
can be scheduled. Filter's early exits do not lose that node, the memory check never
rejects it, and among the nodes that pass there is one whose score none exceeds by more
than the other plugins can make up for, even were there infinitely many.

### SnapshotHistoryProofs (from `ConstantsAssumption`)

`TypeCorrect`, `Invariance`, `ServedRecorded`, `ReadersSafe`.

`AccountInv` is the heart of the first property: a version that is served is under
way between `SetSnapshot` and `RecordVersion` (and then `LockInv` gives the mutex to that caller),
or recorded, or `lost`. `GetVersionHistory` takes the read lock, so that the first
case is over when it returns; `HistoryInv` keeps records of the past in the
history for good. For `ReadersSafe`, `ViewInv` keeps what a reader holds in front of
the end of the history in its array. The lemma `StepGrows` then says what a step may
do to the arrays: they grow, and the records already in them keep node and version.

### TopologySchedulerProofs (from `TablesAssumption`)

`HopsAreADistance`, `NearMeansSameRack`, `AverageTellsRacks`, `Distances`,
`TypeCorrect`, `PodsAligned`, `PodsAlignedByTheTable`, `AdmissionHasRoom`.

The first three are about the algorithms for every table: the hop count is
symmetric, zero only for a node and itself, and an ultrametric (no detour is
shorter than the longest of its parts) wherever a rack hangs under one core switch;
one hop at most, rack distance zero and membership in `FindNodesInSameRack` say the
same. `AverageTellsRacks` is about
lists of any length: the average is at most one if all targets are in the rack of the
source and at least two if none is and the table knows them all. `Distances` assumes
`topologyMap = MockGetTopologyMap`, the code's own table, since `DistancesAgree` compares
it with the racks the code lists; it is proved for every set of nodes that is there.
`TypeCorrect` includes that a pod is never on a node that has left.

`PodsAligned` cannot hold on all hardware: `Filter` looks at the CPUs of one NUMA node,
in use or not. The assumption `AmpleHardware` says what is needed and no more is
assumed: on every node that passes `Filter`, each NUMA node has 8 CPUs for every device
beside it. `MockIsAmple` proves this of the code's table, whence `PodsAlignedByTheTable`;
the run has a node of another kind (4 and 12 CPUs) that `Filter` rejects. The invariant
`Alignment` says of every node that its pods passed `Filter`, are no more than its
devices, hold different ones, and that each that runs has its 8 CPUs on the NUMA node of
its device and none elsewhere. Then the CPUs taken from a NUMA node are 8 for each of its
devices that is held (`SumOfShares`), so that a free device has 8 free CPUs beside it
(`FreeDevicesHaveCPUs`); and since a pod waiting for admission holds no device, one is free
(`SomeDeviceIsFree`). So the kubelet always finds an aligned grant, which is
`AdmissionHasRoom`, and takes one, which keeps `Alignment`.

### InductionLemmas

The averages are folds over lists and the CPUs taken are sums over sets of pods, so these
proofs need induction over data, whose theorems in the library take an operator as a
parameter and cannot be used. What can be used is that a well-founded relation has minimal
elements (`WFMin`, about a *set*): `MinimalNumber` and `MinimalSubset` turn the set of
counterexamples to a claim into a least one, from which a contradiction follows as in
an induction step. `SumOfShares` is what the sums need.

### Only model-checked

Liveness (`AlwaysQuietAgain`, `EventuallyConsistent`, `ChildrenFollow`, the fairness
part of `KeepsLifecycle`, `FailureReachesKubelet`, `PluginComesBack`, both
`PodsProceed`, `EnvoysCatchUp`, `EveryCallReturns`): liveness under fairness and
`ENABLED` are out of the prover's reach. Of three of them the safety half is a theorem:
`RoomMeansChoice` and `AdmissionHasRoom` say that the state never stands in a pod's way,
`NobodyForgotten` that it does not stand in an Envoy's, and what remains is that
somebody acts. Every invariant and every action property that a
passing run checks is proved. No module uses `RECURSIVE`.

## 5. Findings

1. **Edits of image and port are never applied** (`controller_image`,
   `sample_controller.go:187`). Only `replicas` is compared and written, and an
   existing Service is left alone; the resource nevertheless reports Running for
   its current generation. The comment at line 170 promises agreement with the spec.
2. **A restarted kubelet never sees the RDMA plugin again** (`rdma_restart`,
   `plugin.go:97`): it registers once per process.
3. **A pod may run with another GPU than the one it names** (`gpu_named_device`,
   `deviceuuid.go:85`). The scheduler plugin chooses the node of the device; the
   kubelet chooses among the devices of the node, and nothing tells it the name.
4. **SIGTERM may leave the socket file** (`gpu_exit`, `cmd/plugin/main.go:83`): the
   context is cancelled before the file is removed, and `main` waits for nothing else.
5. **An Envoy may get routes before the clusters they name** (`xds_order`,
   `server.go:69`): the cache is created with `ads` false and answers the types in any
   order, where the documentation promises atomicity.

### Other divergences, met while modelling and without a run

- Reconcile is not idempotent, as `sample_controller.go:85` asks: each one stamps the
  status with the current time (334), and the write wakes the controller again.
  `AlwaysQuietAgain` holds since the clock counts seconds and the API server drops a
  write that changes nothing, as long as not every reconcile sees a second of its own.
- A restarted xDS control plane numbers from 2 again (`server.go:86`, `:134`) with an
  empty cache (`:69`), while its Envoys keep the versions of the process before and send
  them in their requests. An Envoy whose version happens to be that of the first
  snapshot it should get is not answered, and keeps the old configuration under the same
  number until the next push. The documentation calls the version rising
  (`docs/README.md:122`, 递增) and finds an inconsistency by comparing version numbers
  (`:504`), which in this case are equal. Without the excuse `StrandedBy`,
  `EnvoysCatchUp` fails: an Envoy that has accepted version 2 of the first process never
  gets version 2 of the second.
- The CRD manifest enables no status subresource: the comment at `01-crd.yaml:99`
  announces it over `additionalPrinterColumns`. `StatusSubresource` is a constant of
  the model; with `FALSE` every status update fails and is only logged.
- One unknown device in the list a pod names rejects every node
  (`deviceuuid.go:75`), although the documentation says that any one will do.
- `Start` of the xDS server listens on `tcp:18000` (`server.go:106`), the protocol in
  the place of the host. `TcpResolves` says whether that name resolves.
- `CheckNUMAAffinity` looks into the topology of a node that its table does not have
  (`numa.go:72`) and panics. The rack table knows five nodes, the NUMA table two: while
  node-3, node-4 or node-5 has room and a pod is pending, the scheduler dies again and
  again. `PodsProceed` of `topology` excuses exactly this.
- The configuration of the topology plugin calls its non-strict mode one that lowers the
  score of pods across NUMA nodes; `Filter` rejects them in either mode.
- `CheckNUMAAffinity` counts all CPUs of a NUMA node, free or not. On the hardware of
  the tables this is harmless (`PodsAreAligned`); on a node with 12 and 4 CPUs and a
  device beside each, the second pod would pass `Filter` and straddle.
- `CalculateAverageHopCount` divides by targets it has skipped (`rack.go:100`): nodes
  the table does not know make the others look near. `DistancesAgree` says nothing of
  such lists, and `AverageTellsRacks` bounds the average from below only where the
  table knows all targets.
- `checkRackAvailability` counts the nodes that the table has for a rack, not those
  that are there (`topology.go:152`): a job of three nodes would pass in a rack that has
  lost two. `needsMultiNode` is a stub, so no pod meets it yet.
- `Rollback` of the snapshot cache marks a record and leaves the snapshot that is
  served as it is (`cache.go:114`). It writes that mark into an array a caller of
  `GetVersionHistory` may be reading without a lock: a data race on the status, which
  `ReadersKeepRecords` leaves out.
- A node that monitoring does not know has utilization 0 and so the best score
  (`gpuinfo.go:39`), and the GPU plugin's list is never sent again
  (`1.1device-plugin/pkg/plugin/plugin.go:110`); in the model every node is known and
  no GPU fails.

### Limits of the models

One manager: the manifest runs one replica with `--leader-elect` and replaces
it with `Recreate`; the flag is off by default, and what two managers do at once is
not modelled. A request of a manager that has crashed is done or lost at the moment of the
crash, never later. Everything a model calls external (API server, kubelet,
kube-scheduler, go-control-plane) is as the code uses it, not as its own source is.

## 6. Plan

Done: (1) controller with its lifecycle, runs and proofs; (2) RDMA plugin with
proofs; (3) GPU scheduler plugins and device plugin; (4) xDS control plane with
proofs; (5) snapshot cache with history, with proofs; (6) topology scheduler, with
proofs; (7) repair by resync, and the order of resource types; (8) proofs about the GPU
cluster; (9) convergence of the controller as a theorem; (10) alignment, distances and
averages of the topology scheduler as theorems; (11) `DeviceLeases`, implemented by both
device plugins; (12) restarts of the xDS control plane, in the model and in the proofs.

Next: an abstract specification of a versioned store that the xDS control plane and the
snapshot cache both implement; two managers at once, what `SampleController` keeps when
leader election is off and two replicas run.
