-------------------------- MODULE XdsControlPlane --------------------------
(***************************************************************************)
(* The xDS control plane of week6 (pkg/controlplane/server.go): callers    *)
(* push configuration snapshots for Envoy nodes with UpdateSnapshot, which *)
(* numbers them and puts them into go-control-plane's SnapshotCache; each  *)
(* Envoy watches the cache for one resource type at a time and answers a   *)
(* response with an ACK or a NACK.  When the process dies the Deployment   *)
(* starts another one, which counts from the beginning, while the Envoys   *)
(* still have the versions of the one before.                              *)
(*                                                                         *)
(* A snapshot is a Go pointer: the number is written into the object, and  *)
(* a caller may push the same object for several nodes; a new process      *)
(* builds its objects anew, with the same content.  The cache, which       *)
(* the server creates with ads = FALSE, the streams and Envoy are external *)
(* to the repository and modelled from how the server uses them.           *)
(***************************************************************************)
EXTENDS Naturals

CONSTANTS
  Nodes,        \* Envoy nodes
  Snapshots,    \* configurations, each of which callers have built an object for
  Callers,      \* goroutines that push
  Types,        \* resource types: clusters, routes, ...
  TcpResolves,  \* does the host name "tcp" resolve to a local address?
  MaxLives,     \* bound: processes, one after the other
  MaxStarts,    \* bound: calls of Start in each of them
  MaxPushes,    \* bound: calls of UpdateSnapshot
  MaxFaults     \* bound: failed pushes, rejected responses, broken streams

ASSUME ConstantsAssumption ==
  /\ TcpResolves \in BOOLEAN
  /\ MaxLives \in Nat \ {0} /\ MaxStarts \in Nat /\ MaxPushes \in Nat /\ MaxFaults \in Nat
  /\ "none" \notin Snapshots /\ "free" \notin Callers

VARIABLES
  life,      \* which process it is that runs, counted from 1
  server,    \* the gRPC server: registered services, listening or not
  starts,    \* calls of Start so far
  mu,        \* the caller that holds Server.mu, or "free"
  version,   \* Server.version
  stamp,     \* for each snapshot object the Version field
  call,      \* for each caller the push it is in the middle of
  cached,    \* SnapshotCache: the object set for each node
  confirmed, \* history: it, with its version, if UpdateSnapshot has reported success
  known,     \* for each node and type the version an Envoy has accepted
  running,   \* the snapshot the accepted resources came from
  origin,    \* history: and the life of the control plane that sent them
  watch,     \* an open request of the Envoy for that type
  response,  \* a response on its way to the Envoy
  pushes, faults

callers == <<mu, version, stamp, call, pushes>>
envoys  == <<known, running, origin, watch, response>>
cache == <<cached, confirmed>>
vars == <<life, server, starts, callers, cache, envoys, faults>>

Nothing == [version |-> 0, snapshot |-> "none"]
Idle    == [at |-> "idle", node |-> "none", snapshot |-> "none"]
Content == Snapshots \union {"none"}

Watches == Nodes \X Types

TypeOK ==
  /\ life \in 1..MaxLives
  /\ server \in {"new", "serving", "registered", "dead"}
  /\ starts \in 0..MaxStarts
  /\ mu \in Callers \union {"free"}
  /\ version \in Nat /\ stamp \in [Snapshots -> {0} \union 2..version]
  /\ call \in [Callers -> {Idle} \union
                 [at : {"stamped"}, node : Nodes, snapshot : Snapshots]]
  /\ cached \in [Nodes -> Content]
  /\ confirmed \in [Nodes -> [version : 0..version, snapshot : Content]]
  /\ known \in [Watches -> Nat] /\ running \in [Watches -> Content]
  /\ origin \in [Watches -> 0..life]
  /\ \A w \in Watches : origin[w] = life => known[w] <= version
  /\ watch \in [Watches -> BOOLEAN]
  /\ response \in [Watches -> [version : 0..version, snapshot : Content]]
  /\ pushes \in 0..MaxPushes /\ faults \in 0..MaxFaults

\* NewServer: version 1, an empty cache, no stream.
Init ==
  /\ life = 1 /\ server = "new" /\ starts = 0
  /\ mu = "free" /\ version = 1
  /\ stamp = [s \in Snapshots |-> 0]
  /\ call = [c \in Callers |-> Idle]
  /\ cached = [n \in Nodes |-> "none"] /\ confirmed = [n \in Nodes |-> Nothing]
  /\ watch = [w \in Watches |-> FALSE]
  /\ response = [w \in Watches |-> Nothing]
  /\ known = [w \in Watches |-> 0]
  /\ running = [w \in Watches |-> "none"]
  /\ origin = [w \in Watches |-> 0]
  /\ pushes = 0 /\ faults = 0

\* What the resources of pkg/resource/builder.go name: the listener its route
\* configuration, the routes their clusters, a cluster its endpoints.
BuildListener    == <<"listeners", "routes">>
BuildRouteConfig == <<"routes", "clusters">>
BuildCluster     == <<"clusters", "endpoints">>
RefersTo         == {BuildListener, BuildRouteConfig, BuildCluster}

Fault == faults < MaxFaults /\ faults' = faults + 1

----------------------------------------------------------------------------
(* The server.                                                              *)

\* net.Listen("tcp", "tcp:18000"): the protocol stands where the host belongs.
ListenSucceeds == TcpResolves

\* The services are registered before the socket is opened: a second Start
\* registers them twice, which ends the process.
Start ==
  /\ mu = "free"
  /\ starts < MaxStarts /\ starts' = starts + 1
  /\ server' = IF server # "new" THEN "dead"
               ELSE IF ListenSucceeds THEN "serving" ELSE "registered"
  /\ UNCHANGED <<life, callers, cache, envoys, faults>>

\* The process dies at any point, or has ended, and the Deployment starts another:
\* everything is as NewServer makes it, and with the streams what was on its way is
\* gone.  What an Envoy has accepted it keeps, and keeps using.
Restart ==
  /\ life < MaxLives /\ life' = life + 1
  /\ server' = "new" /\ starts' = 0
  /\ mu' = "free" /\ version' = 1
  /\ stamp' = [s \in Snapshots |-> 0]
  /\ call' = [c \in Callers |-> Idle]
  /\ cached' = [n \in Nodes |-> "none"] /\ confirmed' = [n \in Nodes |-> Nothing]
  /\ watch' = [w \in Watches |-> FALSE]
  /\ response' = [w \in Watches |-> Nothing]
  /\ UNCHANGED <<known, running, origin, pushes, faults>>

\* Mutant: the version stays.
NextVersionSame == version

NextVersion == version + 1

\* Mutant: UpdateSnapshot does not take the mutex.
BeginPushUnlocked(c, n, s) ==
  /\ server # "dead"
  /\ call[c] = Idle
  /\ pushes < MaxPushes /\ pushes' = pushes + 1
  /\ version' = NextVersion
  /\ stamp' = [stamp EXCEPT ![s] = version']
  /\ call' = [call EXCEPT ![c] = [at |-> "stamped", node |-> n, snapshot |-> s]]
  /\ UNCHANGED <<life, server, starts, mu, cache, envoys, faults>>

\* Mutant: the object is stamped before the version is incremented.
BeginPushStampFirst(c, n, s) ==
  /\ server # "dead"
  /\ call[c] = Idle /\ mu = "free"
  /\ mu' = c
  /\ pushes < MaxPushes /\ pushes' = pushes + 1
  /\ version' = NextVersion
  /\ stamp' = [stamp EXCEPT ![s] = version]
  /\ call' = [call EXCEPT ![c] = [at |-> "stamped", node |-> n, snapshot |-> s]]
  /\ UNCHANGED <<life, server, starts, cache, envoys, faults>>

\* Mutant: the object is not stamped at all.
BeginPushUnstamped(c, n, s) ==
  /\ server # "dead"
  /\ call[c] = Idle /\ mu = "free"
  /\ mu' = c
  /\ pushes < MaxPushes /\ pushes' = pushes + 1
  /\ version' = NextVersion
  /\ call' = [call EXCEPT ![c] = [at |-> "stamped", node |-> n, snapshot |-> s]]
  /\ UNCHANGED <<life, server, starts, stamp, cache, envoys, faults>>

\* UpdateSnapshot, step 1: a new version, written into the caller's object.
BeginPush(c, n, s) ==
  /\ server # "dead"
  /\ call[c] = Idle /\ mu = "free"
  /\ mu' = c
  /\ pushes < MaxPushes /\ pushes' = pushes + 1
  /\ version' = NextVersion
  /\ stamp' = [stamp EXCEPT ![s] = version']
  /\ call' = [call EXCEPT ![c] = [at |-> "stamped", node |-> n, snapshot |-> s]]
  /\ UNCHANGED <<life, server, starts, cache, envoys, faults>>

Respond(s) == [version |-> stamp[s], snapshot |-> s]

EndCall(c) ==
  /\ mu' = "free"
  /\ call' = [call EXCEPT ![c] = Idle]
  /\ UNCHANGED <<life, server, starts, version, stamp, pushes>>

\* Step 2, SetSnapshot: the cache takes the object and answers the node's open
\* watches that know an older version.
SetSnapshot(c) ==
  LET n == call[c].node
      s == call[c].snapshot
      answered == {w \in {n} \X Types : watch[w] /\ known[w] # stamp[s]}
  IN  /\ call[c].at = "stamped"
      /\ cached' = [cached EXCEPT ![n] = s] /\ confirmed' = [confirmed EXCEPT ![n] = Respond(s)]
      /\ response' = [w \in Watches |-> IF w \in answered THEN Respond(s) ELSE response[w]]
      /\ watch' = [w \in Watches |-> watch[w] /\ w \notin answered]
      /\ EndCall(c)
      /\ UNCHANGED <<known, running, origin, faults>>

\* SetSnapshot fails, before it has stored the object or after; no watch is
\* answered, the version is used up, and the caller gets the error.
SetSnapshotFails(c) ==
  /\ call[c].at = "stamped"
  /\ Fault
  /\ \/ UNCHANGED cached
     \/ cached' = [cached EXCEPT ![call[c].node] = call[c].snapshot]
  /\ confirmed' = [confirmed EXCEPT ![call[c].node] = Nothing]
  /\ EndCall(c)
  /\ UNCHANGED envoys

----------------------------------------------------------------------------
(* Streams and Envoys.                                                      *)

\* An Envoy (re)sends its request for a type.  The cache answers at once if it
\* holds another version for the node, and keeps the watch otherwise.
Request(w) ==
  LET s == cached[w[1]] IN
  /\ server = "serving"
  /\ ~watch[w] /\ response[w] = Nothing
  /\ IF s # "none" /\ stamp[s] # known[w]
     THEN response' = [response EXCEPT ![w] = Respond(s)] /\ UNCHANGED watch
     ELSE watch' = [watch EXCEPT ![w] = TRUE] /\ UNCHANGED response
  /\ UNCHANGED <<life, server, starts, callers, cache, known, running, origin, faults>>

\* ACK: the Envoy uses the resources and remembers their version.
Accept(w) ==
  /\ response[w] # Nothing
  /\ known' = [known EXCEPT ![w] = response[w].version]
  /\ running' = [running EXCEPT ![w] = response[w].snapshot]
  /\ origin' = [origin EXCEPT ![w] = life]
  /\ response' = [response EXCEPT ![w] = Nothing]
  /\ UNCHANGED <<life, server, starts, callers, cache, watch, faults>>

\* NACK: it keeps what it has, and will ask again with the old version.
Reject(w) ==
  /\ response[w] # Nothing
  /\ Fault
  /\ response' = [response EXCEPT ![w] = Nothing]
  /\ UNCHANGED <<life, server, starts, callers, cache, known, running, origin, watch>>

\* The stream breaks: open watches and responses of the node are lost.
StreamBreaks(n) ==
  /\ server = "serving"
  /\ Fault
  /\ watch' = [w \in Watches |-> watch[w] /\ w[1] # n]
  /\ response' = [w \in Watches |-> IF w[1] = n THEN Nothing ELSE response[w]]
  /\ UNCHANGED <<life, server, starts, callers, cache, known, running, origin>>

----------------------------------------------------------------------------
Caller(c) ==
  \/ \E n \in Nodes, s \in Snapshots : BeginPush(c, n, s)
  \/ SetSnapshot(c) \/ SetSnapshotFails(c)

Envoy == (\E w \in Watches : Request(w) \/ Accept(w) \/ Reject(w))
           \/ \E n \in Nodes : StreamBreaks(n)

Next == Start \/ Restart \/ (\E c \in Callers : Caller(c)) \/ Envoy

Spec == Init /\ [][Next]_vars

\* A caller inside UpdateSnapshot goes on, and streams deliver; nobody has to
\* push, but the program is started, and started again when it has died.
FairSpec ==
  /\ Spec
  /\ WF_vars(Start /\ server = "new") /\ WF_vars(Restart /\ server = "dead")
  /\ \A c \in Callers : WF_vars(SetSnapshot(c))
  /\ \A w \in Watches : WF_vars(Request(w)) /\ WF_vars(Accept(w))

----------------------------------------------------------------------------
(* Properties.                                                              *)

\* A version names one configuration: whatever an Envoy has from this process, and
\* whatever is on its way to it, under the version that its node's snapshot has now
\* is that snapshot.  An Envoy that already knows a version is not sent it again, so
\* one version for two configurations would leave it with the wrong one for good.
\* (Of two processes this is not true: see StrandedBy.)
VersionNamesSnapshot ==
  \A w \in Watches :
    cached[w[1]] # "none" =>
      /\ origin[w] = life /\ known[w] = stamp[cached[w[1]]] => running[w] = cached[w[1]]
      /\ response[w].version = stamp[cached[w[1]]] => response[w].snapshot = cached[w[1]]

\* What an Envoy accepts is never older than what it has, although the number is
\* given in one step of UpdateSnapshot, the cache is set in another, and a new
\* process counts from the beginning: it comes from a later process, or has a version
\* of the same one that is at least as high.
VersionsNeverGoBack ==
  [][\A w \in Watches :
       \/ origin'[w] > origin[w]
       \/ origin'[w] = origin[w] /\ known'[w] >= known[w]]_vars

\* A number that an Envoy has from an earlier process has been given to the snapshot
\* its node was set last, then or since: the cache takes the Envoy to have it.
StrandedBy(s, w) ==
  /\ 0 < origin[w] /\ origin[w] < life
  /\ known[w] \in confirmed[w[1]].version .. stamp[s]

\* A request that the cache keeps open, although UpdateSnapshot has reported success
\* for the Envoy's node, comes from an Envoy that runs that snapshot, also when the
\* object has been pushed for another node meanwhile, or from one that is stranded.
OpenRequestsAreCurrent ==
  \A w \in Watches :
    LET s == confirmed[w[1]].snapshot IN
    watch[w] /\ s # "none" => running[w] = s \/ StrandedBy(s, w)

\* When pushes, faults and restarts have ended, the Envoys of a node all run, for
\* every type, the snapshot for which UpdateSnapshot last reported success, unless a
\* later push for the node has failed, or the snapshot has a number that the Envoy
\* knows from before a restart.  Any other number, also a lower one, reaches it.
EnvoysCatchUp ==
  \A w \in Watches, s \in Snapshots :
    <>[](server = "serving" /\ confirmed[w[1]].snapshot = s /\ ~StrandedBy(s, w))
      => <>[](running[w] = s)

\* Contradicted by the code, which creates its cache with ads = FALSE: open watches
\* are answered type by type in any order, also when they share one aggregated
\* stream.  Resources that name others are never newer than those they name, once
\* an Envoy has both: routes of a canary do not come before its cluster.
ReferrersNotAhead ==
  \A n \in Nodes, r \in RefersTo :
    {r[1], r[2]} \subseteq Types /\ known[<<n, r[2]>>] # 0 =>
      \/ running[<<n, r[1]>>] = running[<<n, r[2]>>]
      \/ known[<<n, r[1]>>] <= known[<<n, r[2]>>]
=============================================================================
