-------------------------- MODULE SnapshotHistory --------------------------
(***************************************************************************)
(* The snapshot cache with version history of week6 (pkg/snapshot/         *)
(* cache.go): goroutines push snapshots with UpdateSnapshot, ask for the   *)
(* one a node is served with GetSnapshot, look it up in the history that   *)
(* GetVersionHistory returns, and mark versions with Rollback.             *)
(*                                                                         *)
(* versionHistory is a Go slice.  GetVersionHistory returns it, not a copy *)
(* of it: the caller reads an array that later calls go on writing, so the *)
(* model keeps the arrays.  The inner SnapshotCache of go-control-plane is *)
(* external.                                                               *)
(***************************************************************************)
EXTENDS Naturals, Sequences

CONSTANTS
  Callers,      \* goroutines that use the cache
  Nodes,        \* Envoy nodes
  Versions,     \* what the Version field of a snapshot holds
  Int64s,       \* the versions that are int64; the field takes any type
  MaxUpdates,   \* bound: calls of UpdateSnapshot
  MaxLookups,   \* bound: calls of GetSnapshot
  MaxRollbacks, \* bound: calls of Rollback
  MaxFaults     \* bound: failures of SetSnapshot

ASSUME ConstantsAssumption ==
  /\ Int64s \subseteq Versions
  /\ "none" \notin Versions /\ "none" \notin Nodes /\ "free" \notin Callers
  /\ MaxUpdates \in Nat /\ MaxLookups \in Nat
  /\ MaxRollbacks \in Nat /\ MaxFaults \in Nat

VARIABLES
  served,    \* inner: the version of the snapshot set for each node
  mu,        \* the caller that holds mu for writing, or "free"
  arrays,    \* the backing arrays allocated so far, in their full capacity
  history,   \* versionHistory: its array, and its length
  call,      \* for each caller what it is in the middle of
  view,      \* for each caller the slice GetVersionHistory gave it
  lost,      \* history variable: what inner stored though the call failed
  updates, lookups, rollbacks, faults

slices == <<arrays, history>>
bounds == <<updates, lookups, rollbacks, faults>>
vars   == <<served, mu, slices, call, view, lost, bounds>>

Records == [version : Int64s, node : Nodes, status : {"pending", "rolled_back"}]
Blank   == [version |-> "none", node |-> "none", status |-> ""]
NoCall  == [at |-> "idle", node |-> "none", version |-> "none"]

\* A slice with a note of what its reader looks for and of what was in it.
NoView  == [array |-> 0, copy |-> <<>>, node |-> "none", version |-> "none"]

TypeOK ==
  /\ served \in [Nodes -> Versions \union {"none"}]
  /\ mu \in Callers \union {"free"}
  /\ arrays \in Seq(Seq(Records \union {Blank}))
  /\ history \in [array : 0..Len(arrays), len : Nat]
  /\ call \in [Callers -> {NoCall} \union
                 [at : {"lock", "set", "append", "rollback", "list"},
                  node : Nodes, version : Versions]]
  /\ view \in [Callers -> [array : 0..Len(arrays), copy : Seq(Records),
                           node : Nodes \union {"none"},
                           version : Versions \union {"none"}]]
  /\ lost \subseteq Nodes \X Versions
  /\ updates \in 0..MaxUpdates /\ lookups \in 0..MaxLookups
  /\ rollbacks \in 0..MaxRollbacks /\ faults \in 0..MaxFaults

\* NewCache: make([]VersionRecord, 0) allocates no array.
Init ==
  /\ served = [n \in Nodes |-> "none"]
  /\ mu = "free"
  /\ arrays = <<>> /\ history = [array |-> 0, len |-> 0]
  /\ call = [c \in Callers |-> NoCall]
  /\ view = [c \in Callers |-> NoView]
  /\ lost = {}
  /\ updates = 0 /\ lookups = 0 /\ rollbacks = 0 /\ faults = 0

Enter(c, at, n, v) ==
  /\ call[c] = NoCall
  /\ call' = [call EXCEPT ![c] = [at |-> at, node |-> n, version |-> v]]
  /\ UNCHANGED <<served, mu, slices, view, lost, faults>>

Goto(c, at) == call' = [call EXCEPT ![c].at = at]

----------------------------------------------------------------------------
(* Slices.                                                                  *)

Slice(array, len) == [i \in 1..len |-> arrays[array][i]]
VersionHistory    == Slice(history.array, history.len)
Capacity          == IF history.array = 0 THEN 0 ELSE Len(arrays[history.array])

\* append writes behind the end of the slice while its array has room, and else
\* copies it into a new array of twice the capacity.
AppendRecord(record) ==
  /\ IF history.len < Capacity
     THEN arrays' = [arrays EXCEPT ![history.array][history.len + 1] = record]
     ELSE arrays' = Append(arrays,
            [i \in 1..(IF Capacity = 0 THEN 1 ELSE 2 * Capacity) |->
               CASE i <= history.len    -> VersionHistory[i]
                 [] i = history.len + 1 -> record
                 [] OTHER               -> Blank])
  /\ history' = [array |-> Len(arrays'), len |-> history.len + 1]

----------------------------------------------------------------------------
(* UpdateSnapshot: lock, set, append, unlock.                               *)

BeginUpdate(c, n, v) ==
  /\ updates < MaxUpdates /\ updates' = updates + 1
  /\ Enter(c, "lock", n, v)
  /\ UNCHANGED <<lookups, rollbacks>>

\* Mutant: UpdateSnapshot does not take the mutex.
LockNothing(c) ==
  /\ call[c].at = "lock"
  /\ UNCHANGED mu
  /\ Goto(c, "set")
  /\ UNCHANGED <<served, slices, view, lost, bounds>>

Lock(c) ==
  /\ call[c].at = "lock" /\ mu = "free"
  /\ mu' = c
  /\ Goto(c, "set")
  /\ UNCHANGED <<served, slices, view, lost, bounds>>

\* Mutant: Unlock stands on the last line and is not deferred.
ReturnOnErrorLocked(c) == call' = [call EXCEPT ![c] = NoCall] /\ UNCHANGED mu

\* The deferred Unlock runs however the function is left.
ReturnOnError(c) == call' = [call EXCEPT ![c] = NoCall] /\ mu' = "free"

\* GetSnapshot shows the snapshot from here on.
SetSnapshot(c) ==
  /\ call[c].at = "set"
  /\ served' = [served EXCEPT ![call[c].node] = call[c].version]
  /\ Goto(c, "append")
  /\ UNCHANGED <<mu, slices, view, lost, bounds>>

\* SetSnapshot fails, before it has stored the snapshot or after.
SetSnapshotFails(c) ==
  /\ call[c].at = "set"
  /\ faults < MaxFaults /\ faults' = faults + 1
  /\ \/ UNCHANGED <<served, lost>>
     \/ /\ served' = [served EXCEPT ![call[c].node] = call[c].version]
        /\ lost' = lost \union {<<call[c].node, call[c].version>>}
  /\ ReturnOnError(c)
  /\ UNCHANGED <<slices, view, updates, lookups, rollbacks>>

\* Mutant: the type of the version is not looked at.
RecordVersionOfAnyType(c) ==
  /\ call[c].at = "append"
  /\ AppendRecord([version |-> call[c].version, node |-> call[c].node,
                   status |-> "pending"])
  /\ call' = [call EXCEPT ![c] = NoCall] /\ mu' = "free"
  /\ UNCHANGED <<served, view, lost, bounds>>

RecordVersion(c) ==
  /\ call[c].at = "append" /\ call[c].version \in Int64s
  /\ AppendRecord([version |-> call[c].version, node |-> call[c].node,
                   status |-> "pending"])
  /\ call' = [call EXCEPT ![c] = NoCall] /\ mu' = "free"
  /\ UNCHANGED <<served, view, lost, bounds>>

\* The type assertion of a version of another type panics.  A caller that does
\* not recover takes cache and history with it, so nothing is left to model.
VersionPanics(c) ==
  /\ call[c].at = "append" /\ call[c].version \notin Int64s
  /\ lost' = lost \union {<<call[c].node, call[c].version>>}
  /\ ReturnOnError(c)
  /\ UNCHANGED <<served, slices, view, bounds>>

----------------------------------------------------------------------------
(* GetSnapshot, GetVersionHistory, Rollback.                                *)

\* GetSnapshot takes no lock of this package; the caller goes on to look the
\* version it got up in the history.
GetSnapshot(c, n) ==
  /\ served[n] # "none"
  /\ lookups < MaxLookups /\ lookups' = lookups + 1
  /\ Enter(c, "list", n, served[n])
  /\ UNCHANGED <<updates, rollbacks>>

\* RLock waits for a writer.  The caller gets the slice and keeps it.
GetVersionHistory(c) ==
  /\ call[c].at = "list" /\ mu = "free"
  /\ view' = [view EXCEPT ![c] = [array |-> history.array, copy |-> VersionHistory,
                                  node |-> call[c].node, version |-> call[c].version]]
  /\ call' = [call EXCEPT ![c] = NoCall]
  /\ UNCHANGED <<served, mu, slices, lost, bounds>>

BeginRollback(c, n, v) ==
  /\ v \in Int64s
  /\ rollbacks < MaxRollbacks /\ rollbacks' = rollbacks + 1
  /\ Enter(c, "rollback", n, v)
  /\ UNCHANGED <<updates, lookups>>

Matches(c, i) ==
  /\ i \in 1..history.len
  /\ VersionHistory[i].node = call[c].node
  /\ VersionHistory[i].version = call[c].version

\* Mutant: what was recorded after the target version is cut off.
RollbackTruncates(c) ==
  /\ call[c].at = "rollback" /\ mu = "free"
  /\ \/ \E i \in DOMAIN VersionHistory :
          /\ Matches(c, i) /\ \A j \in 1..(i - 1) : ~Matches(c, j)
          /\ history' = [history EXCEPT !.len = i]
     \/ /\ ~\E i \in DOMAIN VersionHistory : Matches(c, i)
        /\ UNCHANGED history
  /\ call' = [call EXCEPT ![c] = NoCall]
  /\ UNCHANGED <<served, mu, arrays, view, lost, bounds>>

\* The first record of that node and version is marked, in the array that readers
\* may hold; what the node is served stays.  An unknown version is no error.
Rollback(c) ==
  /\ call[c].at = "rollback" /\ mu = "free"
  /\ \/ \E i \in DOMAIN VersionHistory :
          /\ Matches(c, i) /\ \A j \in 1..(i - 1) : ~Matches(c, j)
          /\ arrays' = [arrays EXCEPT ![history.array][i].status = "rolled_back"]
     \/ /\ ~\E i \in DOMAIN VersionHistory : Matches(c, i)
        /\ UNCHANGED arrays
  /\ call' = [call EXCEPT ![c] = NoCall]
  /\ UNCHANGED <<served, mu, history, view, lost, bounds>>

----------------------------------------------------------------------------
Proceed(c) ==
  \/ Lock(c) \/ SetSnapshot(c) \/ SetSnapshotFails(c)
  \/ RecordVersion(c) \/ VersionPanics(c)
  \/ GetVersionHistory(c) \/ Rollback(c)

Begin(c) ==
  \/ \E n \in Nodes : GetSnapshot(c, n)
  \/ \E n \in Nodes, v \in Versions : BeginUpdate(c, n, v) \/ BeginRollback(c, n, v)

Next == \E c \in Callers : Begin(c) \/ Proceed(c)

Spec == Init /\ [][Next]_vars

\* A goroutine inside a call goes on, and gets a mutex that stays free.
FairSpec == Spec /\ \A c \in Callers : WF_vars(Proceed(c))

----------------------------------------------------------------------------
(* Properties.                                                              *)

\* Whoever has been told by GetSnapshot what a node is served finds that version
\* in the history it asks for next, also when the push is still under way or
\* another has followed: UpdateSnapshot sets and records under one lock.  Only a
\* push that failed half way leaves a snapshot without a record.
ServedIsRecorded ==
  \A c \in Callers :
    view[c] # NoView =>
      \/ <<view[c].node, view[c].version>> \in lost
      \/ \E i \in DOMAIN view[c].copy :
           /\ view[c].copy[i].node = view[c].node
           /\ view[c].copy[i].version = view[c].version

\* GetVersionHistory hands out the slice itself and the lock does not cover its
\* reader.  Still no later call writes another record over one that the reader
\* was given: appends go behind its end or into a new array, and Rollback touches
\* no more than a status.
ReadersKeepRecords ==
  \A c \in Callers :
    \A i \in DOMAIN view[c].copy :
      /\ arrays[view[c].array][i].version = view[c].copy[i].version
      /\ arrays[view[c].array][i].node = view[c].copy[i].node

\* No call is left waiting: whatever fails or panics, the mutex comes free.
EveryCallReturns == \A c \in Callers : call[c] # NoCall ~> call[c] = NoCall
=============================================================================
