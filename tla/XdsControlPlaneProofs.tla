----------------------- MODULE XdsControlPlaneProofs -----------------------
(***************************************************************************)
(* Safety of the xDS control plane, for all sets of nodes, snapshot        *)
(* objects, callers and types and any bounds: type correctness, what a     *)
(* version names, and that versions never go back, in one life of the      *)
(* process and from one to the next.                                       *)
(***************************************************************************)
EXTENDS XdsControlPlane, TLAPS

----------------------------------------------------------------------------
(* The inductive invariant.                                                 *)

\* A caller is inside UpdateSnapshot only while it holds the mutex, and its
\* object then carries the version given last.
PushInv ==
  /\ version >= 1
  /\ \A c \in Callers : call[c].at = "stamped" =>
       mu = c /\ stamp[call[c].snapshot] = version

\* No version is given to two objects, and an object in the cache has one.
StampsInv ==
  /\ \A s, t \in Snapshots : s # t /\ stamp[s] # 0 => stamp[s] # stamp[t]
  /\ \A n \in Nodes : cached[n] # "none" => stamp[cached[n]] # 0

\* An object that carries the version an Envoy knows from this process, or is being
\* sent, is the one the Envoy runs, or is being sent.
NamesInv ==
  \A w \in Watches, s \in Snapshots :
    /\ origin[w] = life /\ stamp[s] # 0 /\ known[w] = stamp[s] => running[w] = s
    /\ stamp[s] # 0 /\ response[w].version = stamp[s] => response[w].snapshot = s

\* Along the way from the cache to the Envoy versions only fall, as long as the Envoy
\* has its own from this process.
AgeInv ==
  \A w \in Watches :
    /\ cached[w[1]] # "none" =>
         /\ origin[w] = life => known[w] <= stamp[cached[w[1]]]
         /\ response[w].version <= stamp[cached[w[1]]]
    /\ cached[w[1]] = "none" => origin[w] # life /\ response[w] = Nothing
    /\ response[w] # Nothing /\ origin[w] = life => known[w] <= response[w].version

Inv == TypeOK /\ PushInv /\ StampsInv /\ NamesInv /\ AgeInv

----------------------------------------------------------------------------
(* Facts about the state that several steps use.                            *)

Responses == [version : Nat, snapshot : Content]

\* The values the other steps compare.
LEMMA TypeFacts ==
  ASSUME TypeOK
  PROVE  /\ version \in Nat /\ life \in Nat /\ life >= 1
         /\ \A s \in Snapshots : /\ stamp[s] \in Nat /\ stamp[s] <= version
                                 /\ s # "none" /\ s \in Content
         /\ \A n \in Nodes : cached[n] \in Content
                             /\ (cached[n] # "none" => cached[n] \in Snapshots)
         /\ \A w \in Watches :
              /\ w[1] \in Nodes
              /\ known[w] \in Nat /\ (origin[w] = life => known[w] <= version)
              /\ origin[w] \in Nat /\ origin[w] <= life
              /\ response[w] \in Responses /\ response[w].version <= version
              /\ response[w].version \in Nat
  BY ConstantsAssumption DEF TypeOK, Watches, Content, Responses

\* A caller between the two steps of a push knows its node and its object.
LEMMA CallFacts ==
  ASSUME TypeOK, NEW c \in Callers, call[c].at = "stamped"
  PROVE  call[c].node \in Nodes /\ call[c].snapshot \in Snapshots
<1>1. call[c] # Idle  BY DEF Idle
<1>2. call[c] \in [at : {"stamped"}, node : Nodes, snapshot : Snapshots]
  BY <1>1 DEF TypeOK
<1> QED  BY <1>2

\* While the mutex is free nobody is in the middle of a push.
LEMMA FreeMeansNobody ==
  ASSUME PushInv, mu = "free", NEW c \in Callers
  PROVE  call[c].at # "stamped"
  BY ConstantsAssumption DEF PushInv

----------------------------------------------------------------------------
(* The inductive invariant holds at the start and is kept by every step.    *)

\* A new server has pushed nothing.
LEMMA InitEstablishesInv == Init => Inv
<1> SUFFICES ASSUME Init PROVE Inv  OBVIOUS
<1>1. TypeOK  BY ConstantsAssumption DEF Init, TypeOK, Content, Nothing
<1>2. PushInv  BY DEF Init, PushInv, Idle
<1>3. StampsInv /\ NamesInv  BY DEF Init, StampsInv, NamesInv
<1>4. AgeInv
  <2> SUFFICES ASSUME NEW w \in Watches
               PROVE  origin[w] # life /\ response[w] = Nothing /\ cached[w[1]] = "none"
    BY DEF AgeInv
  <2> QED  BY TypeFacts, <1>1 DEF Init, Watches
<1> QED  BY <1>1, <1>2, <1>3, <1>4 DEF Inv

\* Starting the server touches none of what the invariant compares.
LEMMA StartKeepsInv == ASSUME Inv, Start PROVE Inv'
<1> USE DEF Inv, Start, callers, cache, envoys
<1>1. TypeOK'
  <2>1. starts' \in 0..MaxStarts  BY ConstantsAssumption DEF TypeOK
  <2>2. server' \in {"new", "serving", "registered", "dead"}  BY DEF TypeOK
  <2> QED  BY <2>1, <2>2 DEF TypeOK
<1>2. PushInv' /\ StampsInv' /\ NamesInv' /\ AgeInv'
  BY DEF PushInv, StampsInv, NamesInv, AgeInv
<1> QED  BY <1>1, <1>2

\* A new process has given no version and sent nothing, and whatever the Envoys have
\* comes from an earlier life.
LEMMA RestartKeepsInv == ASSUME Inv, Restart PROVE Inv'
<1> USE DEF Inv
<1>1. /\ life' = life + 1 /\ life' \in 1..MaxLives
      /\ UNCHANGED <<known, running, origin, pushes, faults>>
  BY ConstantsAssumption DEF Restart, TypeOK
<1>2. \A w \in Watches : origin'[w] # life'
  BY <1>1, TypeFacts
<1>3. TypeOK'
  <2>1. /\ stamp' \in [Snapshots -> {0} \union 2..version']
        /\ call' \in [Callers -> {Idle} \union
                         [at : {"stamped"}, node : Nodes, snapshot : Snapshots]]
        /\ cached' \in [Nodes -> Content]
        /\ confirmed' \in [Nodes -> [version : 0..version', snapshot : Content]]
        /\ watch' \in [Watches -> BOOLEAN]
        /\ response' \in [Watches -> [version : 0..version', snapshot : Content]]
    BY DEF Restart, Nothing, Content
  <2>2. /\ server' = "new" /\ starts' = 0 /\ mu' = "free" /\ version' = 1
    BY DEF Restart
  <2>3. starts' \in 0..MaxStarts
    BY <2>2, ConstantsAssumption
  <2>4. origin' \in [Watches -> 0..life']
    BY <1>1 DEF TypeOK
  <2> QED  BY <1>1, <1>2, <2>1, <2>2, <2>3, <2>4 DEF TypeOK
<1>4. PushInv' /\ StampsInv'
  BY DEF Restart, PushInv, StampsInv, Idle
<1>5. NamesInv'
  BY <1>2 DEF Restart, NamesInv
<1>6. AgeInv'
  <2>1. \A w \in Watches : w[1] \in Nodes  BY DEF Watches
  <2> QED  BY <1>2, <2>1 DEF Restart, AgeInv
<1> QED  BY <1>3, <1>4, <1>5, <1>6

\* The first half of a push: the new version is above every one in use, so it
\* names the stamped object only, wherever that object is cached.
LEMMA BeginPushKeepsInv ==
  ASSUME Inv, NEW c \in Callers, NEW n \in Nodes, NEW s \in Snapshots, BeginPush(c, n, s)
  PROVE  Inv'
<1> USE DEF Inv
<1>1. /\ version' = version + 1 /\ mu = "free" /\ mu' = c
      /\ UNCHANGED <<life, cached, known, running, origin, response>>
  BY DEF BeginPush, NextVersion, cache, envoys
<1>2. version \in Nat /\ version' \in Nat /\ version' > version /\ version >= 1
  BY <1>1, TypeFacts DEF PushInv
<1>3. /\ stamp'[s] = version'
      /\ \A t \in Snapshots \ {s} : stamp'[t] = stamp[t]
  BY DEF BeginPush, TypeOK
<1>4. /\ call'[c] = [at |-> "stamped", node |-> n, snapshot |-> s]
      /\ \A d \in Callers \ {c} : call'[d] = call[d]
  BY DEF BeginPush, TypeOK
<1>5. TypeOK'
  <2>1. stamp' \in [Snapshots -> {0} \union 2..version']
    BY <1>1, <1>2 DEF BeginPush, TypeOK
  <2>2. call' \in [Callers -> {Idle} \union
                     [at : {"stamped"}, node : Nodes, snapshot : Snapshots]]
    BY DEF BeginPush, TypeOK
  <2>3. \A w \in Watches : origin'[w] = life' => known'[w] <= version'
    BY <1>1, <1>2, TypeFacts
  <2>4. response' \in [Watches -> [version : 0..version', snapshot : Content]]
    BY <1>1, <1>2 DEF TypeOK, Watches
  <2>5. /\ server' = server /\ starts' = starts /\ watch' = watch /\ faults' = faults
        /\ pushes' \in 0..MaxPushes
        /\ confirmed' \in [Nodes -> [version : 0..version', snapshot : Content]]
    BY <1>1, <1>2, ConstantsAssumption DEF BeginPush, TypeOK, cache, envoys
  <2> QED  BY <1>1, <1>2, <2>1, <2>2, <2>3, <2>4, <2>5 DEF TypeOK, Watches
<1>6. PushInv'
  <2>1. \A d \in Callers \ {c} : call'[d].at # "stamped"
    BY <1>1, <1>4, FreeMeansNobody
  <2> QED  BY <1>1, <1>2, <1>3, <1>4, <2>1 DEF PushInv
<1>7. \A t \in Snapshots : stamp'[t] \in Nat /\ stamp[t] <= stamp'[t]
  BY <1>2, <1>3, TypeFacts
<1>8. StampsInv'
  <2>1. \A t \in Snapshots \ {s} : stamp'[t] # stamp'[s]
    BY <1>2, <1>3, TypeFacts
  <2>2. \A t, u \in Snapshots : t # u /\ stamp'[t] # 0 => stamp'[t] # stamp'[u]
    BY <1>3, <2>1 DEF StampsInv
  <2>3. \A m \in Nodes : cached'[m] # "none" => stamp'[cached'[m]] # 0
    BY <1>1, <1>2, <1>3, TypeFacts DEF StampsInv
  <2> QED  BY <2>2, <2>3 DEF StampsInv
<1>9. NamesInv'
  <2> SUFFICES ASSUME NEW w \in Watches, NEW t \in Snapshots
               PROVE  /\ origin[w] = life /\ stamp'[t] # 0 /\ known[w] = stamp'[t]
                           => running[w] = t
                      /\ stamp'[t] # 0 /\ response[w].version = stamp'[t]
                           => response[w].snapshot = t
    BY <1>1 DEF NamesInv
  <2>1. CASE t = s
    BY <2>1, <1>2, <1>3, TypeFacts
  <2>2. CASE t # s
    BY <2>2, <1>3 DEF NamesInv
  <2> QED  BY <2>1, <2>2
<1>10. AgeInv'
  <2> SUFFICES ASSUME NEW w \in Watches, cached[w[1]] # "none"
               PROVE  /\ origin[w] = life => known[w] <= stamp'[cached[w[1]]]
                      /\ response[w].version <= stamp'[cached[w[1]]]
    BY <1>1 DEF AgeInv
  <2>1. /\ origin[w] = life => known[w] <= stamp[cached[w[1]]]
        /\ response[w].version <= stamp[cached[w[1]]]
    BY DEF AgeInv
  <2> QED  BY <1>7, <2>1, TypeFacts
<1> QED  BY <1>5, <1>6, <1>8, <1>9, <1>10

\* A push that ends, successfully or not, leaves no caller inside.
LEMMA EndCallLeavesNobody ==
  ASSUME Inv, NEW c \in Callers, call[c].at = "stamped", EndCall(c)
  PROVE  /\ PushInv'
         /\ call' \in [Callers -> {Idle} \union
                         [at : {"stamped"}, node : Nodes, snapshot : Snapshots]]
<1>1. mu = c  BY DEF Inv, PushInv
<1>2. call'[c] = Idle /\ \A d \in Callers \ {c} : call'[d] = call[d]
  BY DEF EndCall, Inv, TypeOK
<1>3. \A d \in Callers : call'[d].at # "stamped"
  BY <1>1, <1>2 DEF Inv, PushInv, Idle
<1>4. version' >= 1  BY DEF EndCall, Inv, PushInv
<1> QED  BY <1>3, <1>4 DEF PushInv, EndCall, Inv, TypeOK

\* The second half of a push: the object that goes into the cache carries the
\* highest version there is, and so do the responses it gives rise to.
LEMMA SetSnapshotKeepsInv == ASSUME Inv, NEW c \in Callers, SetSnapshot(c) PROVE Inv'
<1> USE DEF Inv
<1> DEFINE n == call[c].node
           s == call[c].snapshot
           answered == {w \in {n} \X Types : watch[w] /\ known[w] # stamp[s]}
<1>1. /\ call[c].at = "stamped"
      /\ cached' = [cached EXCEPT ![n] = s] /\ confirmed' = [confirmed EXCEPT ![n] = Respond(s)]
      /\ response' = [w \in Watches |-> IF w \in answered THEN Respond(s) ELSE response[w]]
      /\ watch' = [w \in Watches |-> watch[w] /\ w \notin answered]
      /\ EndCall(c)
      /\ UNCHANGED <<known, running, origin, faults>>
  BY DEF SetSnapshot, Watches
<1>2. n \in Nodes /\ s \in Snapshots  BY <1>1, CallFacts
<1>3. /\ UNCHANGED <<life, server, starts, version, stamp, pushes>> /\ mu' = "free"
  BY <1>1 DEF EndCall
<1>4. version \in Nat /\ stamp[s] = version /\ stamp[s] # 0
  BY <1>1, TypeFacts DEF PushInv
<1> HIDE DEF n, s
<1>5. /\ cached'[n] = s
      /\ \A m \in Nodes \ {n} : cached'[m] = cached[m]
  BY <1>1, <1>2 DEF TypeOK
<1>6. Respond(s) = [version |-> version, snapshot |-> s]
  BY <1>4 DEF Respond
<1>7. \A w \in Watches : \/ response'[w] = response[w]
                         \/ w[1] = n /\ response'[w] = Respond(s)
  <2> TAKE w \in Watches
  <2>1. w \in answered => w[1] = n  OBVIOUS
  <2> QED  BY <1>1, <2>1
<1>8. TypeOK'
  <2>1. /\ cached' \in [Nodes -> Content]
        /\ confirmed' \in [Nodes -> [version : 0..version, snapshot : Content]]
    BY <1>1, <1>2, <1>4, <1>6 DEF TypeOK, Content
  <2>2. response' \in [Watches -> [version : 0..version, snapshot : Content]]
    BY <1>1, <1>2, <1>4, <1>6 DEF TypeOK, Watches, Content
  <2>3. watch' \in [Watches -> BOOLEAN]  BY <1>1
  <2> QED  BY <1>1, <1>3, <2>1, <2>2, <2>3, EndCallLeavesNobody DEF TypeOK, Watches
<1>9. StampsInv'
  BY <1>3, <1>4, <1>5, <1>2 DEF StampsInv
<1>10. NamesInv'
  <2> SUFFICES ASSUME NEW w \in Watches, NEW t \in Snapshots, stamp[t] # 0,
                      response'[w].version = stamp[t]
               PROVE  response'[w].snapshot = t
    BY <1>1, <1>3 DEF NamesInv
  <2>1. CASE response'[w] = response[w]  BY <2>1 DEF NamesInv
  <2>2. CASE response'[w] = Respond(s)
    <3>1. stamp[t] = stamp[s]  BY <2>2, <1>4, <1>6
    <3>2. t = s  BY <3>1, <1>2 DEF StampsInv
    <3> QED  BY <2>2, <3>2, <1>6
  <2> QED  BY <1>7, <2>1, <2>2
<1>11. AgeInv'
  <2> SUFFICES ASSUME NEW w \in Watches
               PROVE  /\ cached'[w[1]] # "none" =>
                           /\ origin[w] = life => known[w] <= stamp[cached'[w[1]]]
                           /\ response'[w].version <= stamp[cached'[w[1]]]
                      /\ cached'[w[1]] = "none" => origin[w] # life /\ response'[w] = Nothing
                      /\ response'[w] # Nothing /\ origin[w] = life
                           => known[w] <= response'[w].version
    BY <1>1, <1>3 DEF AgeInv
  <2>1. CASE w[1] = n
    <3>1. response'[w].version <= version
      BY <1>7, <1>6, <1>4, TypeFacts
    <3>2. response'[w] # Nothing /\ origin[w] = life => known[w] <= response'[w].version
      BY <1>7, <1>6, <1>4, TypeFacts DEF AgeInv
    <3> QED  BY <2>1, <3>1, <3>2, <1>2, <1>4, <1>5, TypeFacts
  <2>2. CASE w[1] # n
    BY <2>2, <1>5, <1>7, TypeFacts DEF AgeInv
  <2> QED  BY <2>1, <2>2
<1> QED  BY <1>1, <1>8, <1>9, <1>10, <1>11, EndCallLeavesNobody

\* A push that fails may leave its object in the cache, with the highest version.
LEMMA SetSnapshotFailsKeepsInv ==
  ASSUME Inv, NEW c \in Callers, SetSnapshotFails(c) PROVE Inv'
<1> USE DEF Inv
<1> DEFINE n == call[c].node
           s == call[c].snapshot
<1>1. /\ call[c].at = "stamped"
      /\ cached' = cached \/ cached' = [cached EXCEPT ![n] = s]
      /\ confirmed' = [confirmed EXCEPT ![n] = Nothing]
      /\ EndCall(c)
      /\ UNCHANGED <<known, running, origin, watch, response>>
      /\ faults' \in 0..MaxFaults
  BY ConstantsAssumption DEF SetSnapshotFails, Fault, envoys, TypeOK
<1>2. n \in Nodes /\ s \in Snapshots  BY <1>1, CallFacts
<1>3. /\ UNCHANGED <<life, server, starts, version, stamp, pushes>> /\ mu' = "free"
  BY <1>1 DEF EndCall
<1>4. version \in Nat /\ stamp[s] = version /\ stamp[s] # 0
  BY <1>1, TypeFacts DEF PushInv
<1> HIDE DEF n, s
<1>5. \A m \in Nodes : cached'[m] = cached[m] \/ cached'[m] = s
  BY <1>1, <1>2 DEF TypeOK
<1>6. TypeOK'
  <2>1. /\ cached' \in [Nodes -> Content]
        /\ confirmed' \in [Nodes -> [version : 0..version, snapshot : Content]]
    BY <1>1, <1>2 DEF TypeOK, Content, Nothing
  <2> QED  BY <1>1, <1>3, <2>1, EndCallLeavesNobody DEF TypeOK
<1>7. StampsInv' /\ NamesInv'
  BY <1>1, <1>3, <1>4, <1>5 DEF StampsInv, NamesInv
<1>8. AgeInv'
  <2> SUFFICES ASSUME NEW w \in Watches
               PROVE  /\ cached'[w[1]] # "none" =>
                           /\ origin[w] = life => known[w] <= stamp[cached'[w[1]]]
                           /\ response[w].version <= stamp[cached'[w[1]]]
                      /\ cached'[w[1]] = "none" => origin[w] # life /\ response[w] = Nothing
                      /\ response[w] # Nothing /\ origin[w] = life
                           => known[w] <= response[w].version
    BY <1>1, <1>3 DEF AgeInv
  <2>1. CASE cached'[w[1]] = cached[w[1]]  BY <2>1 DEF AgeInv
  <2>2. CASE cached'[w[1]] = s
    BY <2>2, <1>2, <1>4, TypeFacts DEF AgeInv
  <2> QED  BY <1>5, <2>1, <2>2, TypeFacts
<1> QED  BY <1>1, <1>6, <1>7, <1>8, EndCallLeavesNobody

\* A request is answered with what the cache holds, which is never older than
\* what the Envoy knows.
LEMMA RequestKeepsInv == ASSUME Inv, NEW w \in Watches, Request(w) PROVE Inv'
<1> USE DEF Inv
<1> DEFINE s == cached[w[1]]
<1>1. /\ UNCHANGED <<life, server, starts, callers, cache, known, running, origin, faults>>
      /\ \/ /\ s # "none"
            /\ response' = [response EXCEPT ![w] = Respond(s)] /\ UNCHANGED watch
         \/ watch' = [watch EXCEPT ![w] = TRUE] /\ UNCHANGED response
  BY DEF Request
<1>2. UNCHANGED <<version, mu, stamp, call, pushes, cached, confirmed>>
  BY <1>1 DEF callers, cache
<1>3. s # "none" => /\ s \in Snapshots
                    /\ Respond(s) \in [version : 0..version, snapshot : Content]
                    /\ Respond(s).version = stamp[s] /\ Respond(s).snapshot = s
  BY TypeFacts DEF Respond, Content
<1>4. \A v \in Watches : \/ response'[v] = response[v]
                         \/ /\ v = w /\ s # "none"
                            /\ response'[v] = Respond(s)
  BY <1>1 DEF TypeOK, Watches
<1>5. TypeOK'
  <2>1. /\ response' \in [Watches -> [version : 0..version, snapshot : Content]]
        /\ watch' \in [Watches -> BOOLEAN]
    <3>1. /\ response \in [Watches -> [version : 0..version, snapshot : Content]]
          /\ watch \in [Watches -> BOOLEAN]
      BY DEF TypeOK, Watches
    <3> HIDE DEF Inv, s
    <3>2. CASE s # "none" /\ response' = [response EXCEPT ![w] = Respond(s)] /\ watch' = watch
      BY <1>3, <3>1, <3>2
    <3>3. CASE watch' = [watch EXCEPT ![w] = TRUE] /\ response' = response
      BY <3>1, <3>3
    <3> QED  BY <1>1, <3>2, <3>3
  <2>2. UNCHANGED <<life, server, starts, known, running, origin, faults>>
    BY <1>1
  <2>3. Nodes \X Types = Watches
    BY DEF Watches
  <2> HIDE DEF Inv
  <2>4. TypeOK
    BY DEF Inv
  <2> QED  BY <1>2, <2>1, <2>2, <2>3, <2>4 DEF TypeOK
<1>6. PushInv' /\ StampsInv'  BY <1>2 DEF PushInv, StampsInv
<1>7. NamesInv'
  <2> SUFFICES ASSUME NEW v \in Watches, NEW t \in Snapshots, stamp[t] # 0,
                      response'[v].version = stamp[t]
               PROVE  response'[v].snapshot = t
    BY <1>1, <1>2 DEF NamesInv
  <2> QED  BY <1>3, <1>4 DEF NamesInv, StampsInv
<1>8. AgeInv'
  <2> SUFFICES ASSUME NEW v \in Watches
               PROVE  /\ cached[v[1]] # "none" => response'[v].version <= stamp[cached[v[1]]]
                      /\ cached[v[1]] = "none" => response'[v] = Nothing
                      /\ response'[v] # Nothing /\ origin[v] = life
                           => known[v] <= response'[v].version
    BY <1>1, <1>2 DEF AgeInv
  <2> QED  BY <1>3, <1>4, TypeFacts DEF AgeInv
<1> QED  BY <1>5, <1>6, <1>7, <1>8

\* An Envoy that accepts takes version and snapshot from the same response.
LEMMA AcceptKeepsInv == ASSUME Inv, NEW w \in Watches, Accept(w) PROVE Inv'
<1> USE DEF Inv
<1>1. UNCHANGED <<life, server, starts, version, mu, stamp, call, pushes, cached, confirmed,
                  watch, faults>>
  BY DEF Accept, callers, cache
<1>2. /\ response[w] # Nothing
      /\ known'[w] = response[w].version /\ running'[w] = response[w].snapshot
      /\ origin'[w] = life
      /\ response'[w] = Nothing
      /\ \A v \in Watches \ {w} : /\ known'[v] = known[v] /\ running'[v] = running[v]
                                  /\ origin'[v] = origin[v] /\ response'[v] = response[v]
  BY DEF Accept, TypeOK
<1>3. TypeOK'
  <2>1. /\ response[w].version \in 0..version /\ response[w].snapshot \in Content
        /\ Nothing \in [version : 0..version, snapshot : Content]
    BY TypeFacts DEF TypeOK, Watches, Nothing, Content
  <2>2. /\ known' \in [Watches -> Nat] /\ running' \in [Watches -> Content]
        /\ origin' \in [Watches -> 0..life]
        /\ response' \in [Watches -> [version : 0..version, snapshot : Content]]
    BY <2>1, TypeFacts DEF Accept, TypeOK
  <2>3. \A v \in Watches : origin'[v] = life => known'[v] <= version
    BY <1>2, <2>1, TypeFacts
  <2> QED  BY <1>1, <2>2, <2>3 DEF TypeOK
<1>4. PushInv' /\ StampsInv'  BY <1>1 DEF PushInv, StampsInv
<1>5. NamesInv'
  BY <1>1, <1>2 DEF NamesInv, Nothing
<1>6. AgeInv'
  BY <1>1, <1>2, TypeFacts DEF AgeInv, Nothing
<1> QED  BY <1>3, <1>4, <1>5, <1>6

\* Losing responses and watches, by rejection or with the stream, takes nothing
\* from what is known.
LEMMA LossKeepsInv ==
  ASSUME Inv,
         UNCHANGED <<life, server, starts, callers, cache, known, running, origin>>,
         faults' \in 0..MaxFaults, watch' \in [Watches -> BOOLEAN],
         response' \in [Watches -> [version : 0..version, snapshot : Content]],
         \A w \in Watches : response'[w] \in {response[w], Nothing}
  PROVE  Inv'
<1> USE DEF Inv, callers, cache
<1>1. TypeOK'  BY DEF TypeOK, Watches
<1>2. PushInv' /\ StampsInv'  BY DEF PushInv, StampsInv
<1>3. NamesInv'  BY DEF NamesInv, Nothing
<1>4. AgeInv'  BY TypeFacts DEF AgeInv, Nothing
<1> QED  BY <1>1, <1>2, <1>3, <1>4

\* A rejected response is lost.
LEMMA RejectKeepsInv == ASSUME Inv, NEW w \in Watches, Reject(w) PROVE Inv'
<1> USE DEF Inv
<1>1. /\ UNCHANGED <<life, server, starts, callers, cache, known, running, origin, watch>>
      /\ response' = [response EXCEPT ![w] = Nothing] /\ faults' = faults + 1
      /\ faults < MaxFaults
  BY DEF Reject, Fault
<1>2. Nothing \in [version : 0..version, snapshot : Content]
  BY TypeFacts DEF Nothing, Content
<1>3. /\ response' \in [Watches -> [version : 0..version, snapshot : Content]]
      /\ \A v \in Watches : response'[v] \in {response[v], Nothing}
  BY <1>1, <1>2 DEF TypeOK, Watches
<1>4. faults' \in 0..MaxFaults /\ watch' \in [Watches -> BOOLEAN]
  BY <1>1, ConstantsAssumption DEF TypeOK, Watches
<1> QED  BY <1>1, <1>3, <1>4, LossKeepsInv

\* A stream that breaks loses the node's responses and watches.
LEMMA StreamBreaksKeepsInv == ASSUME Inv, NEW n \in Nodes, StreamBreaks(n) PROVE Inv'
<1> USE DEF Inv
<1>1. /\ UNCHANGED <<life, server, starts, callers, cache, known, running, origin>>
      /\ watch' = [w \in Watches |-> watch[w] /\ w[1] # n]
      /\ response' = [w \in Watches |-> IF w[1] = n THEN Nothing ELSE response[w]]
      /\ faults' = faults + 1 /\ faults < MaxFaults
  BY DEF StreamBreaks, Fault, Watches
<1>2. Nothing \in [version : 0..version, snapshot : Content]
  BY TypeFacts DEF Nothing, Content
<1>3. /\ response' \in [Watches -> [version : 0..version, snapshot : Content]]
      /\ \A v \in Watches : response'[v] \in {response[v], Nothing}
  BY <1>1, <1>2 DEF TypeOK, Watches
<1>4. faults' \in 0..MaxFaults /\ watch' \in [Watches -> BOOLEAN]
  BY <1>1, ConstantsAssumption DEF TypeOK
<1> QED  BY <1>1, <1>3, <1>4, LossKeepsInv

----------------------------------------------------------------------------
(* The theorems.                                                            *)

\* The inductive invariant of server, cache and Envoys: a push under way holds
\* the mutex and the newest version, versions name objects, and what is under
\* way is never newer than the cache nor older than what the Envoy knows.
THEOREM Invariance == Spec => []Inv
<1>1. Init => Inv  BY InitEstablishesInv
<1>2. Inv /\ [Next]_vars => Inv'
  <2> SUFFICES ASSUME Inv, [Next]_vars PROVE Inv'  OBVIOUS
  <2>1. CASE Start  BY <2>1, StartKeepsInv
  <2>5. CASE Restart  BY <2>5, RestartKeepsInv
  <2>2. ASSUME NEW c \in Callers, Caller(c) PROVE Inv'
    BY <2>2, BeginPushKeepsInv, SetSnapshotKeepsInv, SetSnapshotFailsKeepsInv DEF Caller
  <2>3. CASE Envoy
    BY <2>3, RequestKeepsInv, AcceptKeepsInv, RejectKeepsInv, StreamBreaksKeepsInv
       DEF Envoy, Watches
  <2>4. CASE UNCHANGED vars
    BY <2>4 DEF vars, callers, cache, envoys, Inv, TypeOK, PushInv, StampsInv,
                NamesInv, AgeInv
  <2> QED  BY <2>1, <2>2, <2>3, <2>4, <2>5 DEF Next
<1> QED  BY <1>1, <1>2, PTL DEF Spec

\* Every reachable state is well typed: in particular no object or response has a
\* version that the running process has not given, nor has an Envoy that has its
\* resources from that process.
THEOREM TypeCorrect == Spec => []TypeOK
<1>1. Inv => TypeOK  BY DEF Inv
<1> QED  BY <1>1, Invariance, PTL

\* What an Envoy has from the running process, or is being sent, under the version
\* that its node's snapshot has now is that snapshot, although versions are written
\* into objects several nodes may share, and however many processes came before.
THEOREM VersionsName == Spec => []VersionNamesSnapshot
<1>1. Inv => VersionNamesSnapshot
  BY TypeFacts DEF Inv, StampsInv, NamesInv, VersionNamesSnapshot, Watches
<1> QED  BY <1>1, Invariance, PTL

\* What an Envoy accepts comes from a later process than what it has, or from the same
\* one and has a version at least as high.
THEOREM VersionsRise == Spec => VersionsNeverGoBack
<1> DEFINE Forward(w) == \/ origin'[w] > origin[w]
                         \/ origin'[w] = origin[w] /\ known'[w] >= known[w]
<1>1. ASSUME Inv, [Next]_vars, NEW w \in Watches PROVE Forward(w)
  <2>1. CASE known' = known /\ origin' = origin  BY <2>1, <1>1, TypeFacts DEF Inv
  <2>2. ASSUME NEW v \in Watches, Accept(v) PROVE Forward(w)
    <3>1. /\ response[v] # Nothing
          /\ known'[w] = IF w = v THEN response[v].version ELSE known[w]
          /\ origin'[w] = IF w = v THEN life ELSE origin[w]
      BY <2>2, <1>1 DEF Accept, Inv, TypeOK
    <3>2. CASE w # v  BY <3>1, <3>2, <1>1, TypeFacts DEF Inv
    <3>3. CASE w = v /\ origin[w] = life
      BY <3>1, <3>3, <1>1, TypeFacts DEF Inv, AgeInv
    <3>4. CASE w = v /\ origin[w] # life
      BY <3>1, <3>4, <1>1, TypeFacts DEF Inv
    <3> QED  BY <3>2, <3>3, <3>4
  <2>3. (known' = known /\ origin' = origin) \/ \E v \in Watches : Accept(v)
    BY <1>1 DEF Next, Start, Restart, Caller, BeginPush, SetSnapshot, SetSnapshotFails,
                Envoy, Request, Reject, StreamBreaks, envoys, vars
  <2> QED  BY <2>1, <2>2, <2>3
<1>2. Inv /\ [Next]_vars => [\A w \in Watches : Forward(w)]_vars
  BY <1>1
<1> QED  BY <1>2, Invariance, PTL DEF Spec, VersionsNeverGoBack

----------------------------------------------------------------------------
(* Open requests.                                                           *)

\* What the cache has for a node is what was confirmed last, with a number at least
\* as high as then; an Envoy waits or is answered, not both; and one that has nothing
\* knows no version.
HeldInv ==
  /\ \A n \in Nodes : confirmed[n].snapshot # "none" =>
       /\ cached[n] = confirmed[n].snapshot
       /\ confirmed[n].version <= stamp[cached[n]]
  /\ \A w \in Watches : watch[w] => response[w] = Nothing
  /\ \A w \in Watches : origin[w] = 0 => known[w] = 0
  /\ OpenRequestsAreCurrent

\* An Envoy that knows the number of an object runs it, or has the number from an
\* earlier process.
LEMMA NumberKnown ==
  ASSUME Inv, HeldInv, NEW w \in Watches, NEW s \in Snapshots,
         stamp[s] # 0, known[w] = stamp[s]
  PROVE  running[w] = s \/ (0 < origin[w] /\ origin[w] < life)
<1>1. CASE origin[w] = life  BY <1>1 DEF Inv, NamesInv
<1>2. CASE origin[w] # life
  <2>1. origin[w] # 0  BY DEF HeldInv
  <2>2. origin[w] \in Nat /\ origin[w] <= life /\ life \in Nat  BY TypeFacts DEF Inv
  <2> QED  BY <1>2, <2>1, <2>2
<1> QED  BY <1>1, <1>2

\* The types of what was confirmed.
LEMMA ConfirmedFacts ==
  ASSUME TypeOK, NEW n \in Nodes
  PROVE  /\ confirmed[n].version \in Nat /\ confirmed[n].snapshot \in Content
         /\ confirmed[n].snapshot # "none" => confirmed[n].snapshot \in Snapshots
  BY DEF TypeOK, Content

\* The first half of a push gives an object a higher number than it had: the numbers
\* it has had since it was confirmed for some node become more.
LEMMA BeginPushKeepsHeld ==
  ASSUME Inv, HeldInv, NEW c \in Callers, NEW n \in Nodes, NEW s \in Snapshots,
         BeginPush(c, n, s)
  PROVE  HeldInv'
<1>1. UNCHANGED <<life, cached, confirmed, known, running, origin, watch, response>>
  BY DEF BeginPush, cache, envoys
<1>2. \A t \in Snapshots : stamp'[t] \in Nat /\ stamp[t] \in Nat /\ stamp[t] <= stamp'[t]
  <2>1. TypeOK  BY DEF Inv
  <2>2. stamp' = [stamp EXCEPT ![s] = version + 1]  BY DEF BeginPush, NextVersion
  <2>3. \A t \in Snapshots : stamp'[t] = IF t = s THEN version + 1 ELSE stamp[t]
    BY <2>1, <2>2 DEF TypeOK
  <2> QED  BY <2>1, <2>3, TypeFacts
<1>3. \A m \in Nodes : confirmed[m].snapshot # "none" =>
        /\ cached[m] = confirmed[m].snapshot
        /\ confirmed[m].version <= stamp'[cached[m]]
  <2> SUFFICES ASSUME NEW m \in Nodes, confirmed[m].snapshot # "none"
               PROVE  /\ cached[m] = confirmed[m].snapshot
                      /\ confirmed[m].version <= stamp'[cached[m]]
    OBVIOUS
  <2>1. /\ cached[m] = confirmed[m].snapshot
        /\ confirmed[m].version <= stamp[cached[m]]
    BY DEF HeldInv
  <2>2. cached[m] \in Snapshots /\ confirmed[m].version \in Nat
    BY <2>1, ConfirmedFacts DEF Inv
  <2> QED  BY <1>2, <2>1, <2>2
<1>4. OpenRequestsAreCurrent'
  <2> SUFFICES ASSUME NEW w \in Watches, watch[w], confirmed[w[1]].snapshot # "none",
                      running[w] # confirmed[w[1]].snapshot
               PROVE  /\ 0 < origin[w] /\ origin[w] < life
                      /\ known[w] \in confirmed[w[1]].version
                                      .. stamp'[confirmed[w[1]].snapshot]
    BY <1>1 DEF OpenRequestsAreCurrent, StrandedBy
  <2>1. /\ 0 < origin[w] /\ origin[w] < life
        /\ known[w] \in confirmed[w[1]].version .. stamp[confirmed[w[1]].snapshot]
    BY DEF HeldInv, OpenRequestsAreCurrent, StrandedBy
  <2>2. /\ confirmed[w[1]].snapshot \in Snapshots /\ confirmed[w[1]].version \in Nat
    BY ConfirmedFacts, TypeFacts DEF Inv
  <2> QED  BY <1>2, <2>1, <2>2
<1> QED  BY <1>1, <1>3, <1>4 DEF HeldInv

\* The second half answers the open requests of its node, except those of Envoys that
\* know the number already.
LEMMA SetSnapshotKeepsHeld ==
  ASSUME Inv, HeldInv, NEW c \in Callers, SetSnapshot(c)
  PROVE  HeldInv'
<1> DEFINE n == call[c].node
           s == call[c].snapshot
<1>1. /\ call[c].at = "stamped"
      /\ cached' = [cached EXCEPT ![n] = s] /\ confirmed' = [confirmed EXCEPT ![n] = Respond(s)]
      /\ response' = [w \in Watches |->
                        IF w \in {n} \X Types /\ watch[w] /\ known[w] # stamp[s]
                        THEN Respond(s) ELSE response[w]]
      /\ watch' = [w \in Watches |->
                     /\ watch[w]
                     /\ ~(w \in {n} \X Types /\ watch[w] /\ known[w] # stamp[s])]
      /\ UNCHANGED <<life, stamp, known, running, origin>>
  BY DEF SetSnapshot, EndCall
<1>2. n \in Nodes /\ s \in Snapshots  BY <1>1, CallFacts DEF Inv
<1>3. stamp[s] \in Nat /\ stamp[s] # 0
  BY <1>1, <1>2, TypeFacts DEF Inv, PushInv
<1> HIDE DEF n, s
<1>4. /\ \A m \in Nodes : /\ cached'[m] = IF m = n THEN s ELSE cached[m]
                          /\ confirmed'[m] = IF m = n THEN Respond(s) ELSE confirmed[m]
  BY <1>1, <1>2 DEF Inv, TypeOK
<1>5. Respond(s).version = stamp[s] /\ Respond(s).snapshot = s  BY DEF Respond
<1>6. \A m \in Nodes : confirmed'[m].snapshot # "none" =>
        /\ cached'[m] = confirmed'[m].snapshot
        /\ confirmed'[m].version <= stamp'[cached'[m]]
  BY <1>1, <1>3, <1>4, <1>5 DEF HeldInv
<1>7. \A w \in Watches : watch'[w] => response'[w] = Nothing
  BY <1>1 DEF HeldInv
<1>8. OpenRequestsAreCurrent'
  <2> SUFFICES ASSUME NEW w \in Watches, watch'[w], confirmed'[w[1]].snapshot # "none"
               PROVE  \/ running[w] = confirmed'[w[1]].snapshot
                      \/ /\ 0 < origin[w] /\ origin[w] < life
                         /\ known[w] \in confirmed'[w[1]].version
                                         .. stamp[confirmed'[w[1]].snapshot]
    BY <1>1 DEF OpenRequestsAreCurrent, StrandedBy
  <2>1. w[1] \in Nodes  BY DEF Watches
  <2>2. CASE w[1] = n
    <3>1. w \in {n} \X Types  BY <2>2 DEF Watches
    <3>2. known[w] = stamp[s]  BY <1>1, <3>1
    <3>3. running[w] = s \/ (0 < origin[w] /\ origin[w] < life)
      BY <1>2, <1>3, <3>2, NumberKnown
    <3> QED  BY <1>3, <1>4, <1>5, <2>1, <2>2, <3>2, <3>3
  <2>3. CASE w[1] # n
    <3>1. watch[w] /\ confirmed'[w[1]] = confirmed[w[1]]  BY <1>1, <1>4, <2>1, <2>3
    <3> QED  BY <3>1 DEF HeldInv, OpenRequestsAreCurrent, StrandedBy
  <2> QED  BY <2>2, <2>3
<1> QED  BY <1>1, <1>6, <1>7, <1>8 DEF HeldInv

\* After a push that has failed nothing is confirmed for its node.
LEMMA SetSnapshotFailsKeepsHeld ==
  ASSUME Inv, HeldInv, NEW c \in Callers, SetSnapshotFails(c)
  PROVE  HeldInv'
<1> DEFINE n == call[c].node
<1>1. /\ call[c].at = "stamped"
      /\ cached' = cached \/ cached' = [cached EXCEPT ![n] = call[c].snapshot]
      /\ confirmed' = [confirmed EXCEPT ![n] = Nothing]
      /\ UNCHANGED <<life, stamp, known, running, origin, watch, response>>
  BY DEF SetSnapshotFails, EndCall, envoys
<1>2. n \in Nodes  BY <1>1, CallFacts DEF Inv
<1> HIDE DEF n
<1>3. \A m \in Nodes : \/ confirmed'[m].snapshot = "none"
                       \/ confirmed'[m] = confirmed[m] /\ cached'[m] = cached[m]
  BY <1>1, <1>2 DEF Inv, TypeOK, Nothing
<1>4. OpenRequestsAreCurrent'
  <2>1. \A w \in Watches : w[1] \in Nodes  BY DEF Watches
  <2> QED  BY <1>1, <1>3, <2>1 DEF HeldInv, OpenRequestsAreCurrent, StrandedBy
<1> QED  BY <1>1, <1>3, <1>4 DEF HeldInv

\* A request is kept open if its Envoy knows the number of what the cache has.
LEMMA RequestKeepsHeld ==
  ASSUME Inv, HeldInv, NEW w \in Watches, Request(w)
  PROVE  HeldInv'
<1> DEFINE s == cached[w[1]]
<1>1. /\ response[w] = Nothing
      /\ \/ response' = [response EXCEPT ![w] = Respond(s)] /\ ~watch[w] /\ UNCHANGED watch
         \/ /\ s = "none" \/ stamp[s] = known[w]
            /\ watch' = [watch EXCEPT ![w] = TRUE] /\ UNCHANGED response
      /\ UNCHANGED <<life, stamp, cached, confirmed, known, running, origin>>
  BY DEF Request, callers, cache
<1>2. \A v \in Watches : watch'[v] => response'[v] = Nothing
  BY <1>1 DEF HeldInv, Inv, TypeOK
<1>3. OpenRequestsAreCurrent'
  <2> SUFFICES ASSUME NEW v \in Watches, watch'[v], confirmed[v[1]].snapshot # "none"
               PROVE  \/ running[v] = confirmed[v[1]].snapshot
                      \/ StrandedBy(confirmed[v[1]].snapshot, v)
    BY <1>1 DEF OpenRequestsAreCurrent, StrandedBy
  <2>1. CASE watch[v]  BY <2>1 DEF HeldInv, OpenRequestsAreCurrent
  <2>2. CASE ~watch[v]
    <3>1. v = w /\ (s = "none" \/ stamp[s] = known[w])
      BY <1>1, <2>2 DEF Inv, TypeOK
    <3>2. w[1] \in Nodes  BY DEF Watches
    <3>3. /\ s = confirmed[w[1]].snapshot /\ s \in Snapshots /\ s # "none"
          /\ confirmed[w[1]].version <= stamp[s] /\ confirmed[w[1]].version \in Nat
      BY <3>1, <3>2, ConfirmedFacts DEF HeldInv, Inv
    <3> HIDE DEF s
    <3>4. stamp[s] = known[w] /\ stamp[s] \in Nat  BY <3>1, <3>3, TypeFacts DEF Inv
    <3>5. stamp[s] # 0  BY <3>2, <3>3 DEF Inv, StampsInv, s
    <3>6. running[w] = s \/ (0 < origin[w] /\ origin[w] < life)
      BY <3>3, <3>4, <3>5, NumberKnown
    <3> QED  BY <3>1, <3>3, <3>4, <3>6 DEF StrandedBy
  <2> QED  BY <2>1, <2>2
<1> QED  BY <1>1, <1>2, <1>3 DEF HeldInv

\* An Envoy that accepts a response has no request open, and has then something from
\* the process that runs.
LEMMA AcceptKeepsHeld ==
  ASSUME Inv, HeldInv, NEW w \in Watches, Accept(w)
  PROVE  HeldInv'
<1>1. /\ ~watch[w]
      /\ \A v \in Watches \ {w} : /\ known'[v] = known[v] /\ running'[v] = running[v]
                                  /\ origin'[v] = origin[v] /\ response'[v] = response[v]
      /\ origin'[w] = life /\ life # 0
      /\ UNCHANGED <<life, stamp, cached, confirmed, watch>>
  BY TypeFacts DEF Accept, HeldInv, Inv, TypeOK, callers, cache
<1> QED  BY <1>1 DEF HeldInv, OpenRequestsAreCurrent, StrandedBy

\* Loss closes requests and opens none.
LEMMA LossKeepsHeld ==
  ASSUME Inv, HeldInv, UNCHANGED <<life, callers, cache, known, running, origin>>,
         \A w \in Watches : watch'[w] => watch[w],
         \A w \in Watches : response'[w] \in {response[w], Nothing}
  PROVE  HeldInv'
  BY DEF HeldInv, OpenRequestsAreCurrent, StrandedBy, callers, cache

\* Only an Envoy that runs what was confirmed for its node, or has its number from an
\* earlier process, is left waiting.
THEOREM NobodyForgotten == Spec => []OpenRequestsAreCurrent
<1>1. Init => HeldInv
  BY DEF Init, HeldInv, OpenRequestsAreCurrent, Nothing, Watches
<1>2. Inv /\ HeldInv /\ [Next]_vars => HeldInv'
  <2> SUFFICES ASSUME Inv, HeldInv, [Next]_vars PROVE HeldInv'  OBVIOUS
  <2>1. CASE Start
    BY <2>1 DEF Start, callers, cache, envoys, HeldInv, OpenRequestsAreCurrent, StrandedBy
  <2>2. CASE Restart
    BY <2>2 DEF Restart, HeldInv, OpenRequestsAreCurrent, Nothing, Watches
  <2>3. ASSUME NEW c \in Callers, Caller(c) PROVE HeldInv'
    BY <2>3, BeginPushKeepsHeld, SetSnapshotKeepsHeld, SetSnapshotFailsKeepsHeld DEF Caller
  <2>4. ASSUME NEW w \in Watches, Reject(w) PROVE HeldInv'
    <3>1. \A v \in Watches : response'[v] \in {response[v], Nothing}
      BY <2>4 DEF Reject, Inv, TypeOK
    <3> QED  BY <2>4, <3>1, LossKeepsHeld DEF Reject
  <2>5. ASSUME NEW n \in Nodes, StreamBreaks(n) PROVE HeldInv'
    BY <2>5, LossKeepsHeld DEF StreamBreaks
  <2>6. CASE UNCHANGED vars
    BY <2>6 DEF vars, callers, cache, envoys, HeldInv, OpenRequestsAreCurrent, StrandedBy
  <2> QED  BY <2>1, <2>2, <2>3, <2>4, <2>5, <2>6, RequestKeepsHeld, AcceptKeepsHeld
           DEF Next, Envoy
<1>3. HeldInv => OpenRequestsAreCurrent  BY DEF HeldInv
<1> QED  BY <1>1, <1>2, <1>3, Invariance, PTL DEF Spec
=============================================================================
