----------------------- MODULE SnapshotHistoryProofs -----------------------
(***************************************************************************)
(* Safety of the snapshot cache with history, for all sets of callers,     *)
(* nodes and versions and any bounds: type correctness, that the slices    *)
(* handed out keep their records, and that what is served is recorded.     *)
(***************************************************************************)
EXTENDS SnapshotHistory, TLAPS

----------------------------------------------------------------------------
(* The inductive invariant.                                                 *)

\* Between setting and recording a caller holds the mutex.
LockInv == \A c \in Callers : call[c].at \in {"set", "append"} => mu = c

\* The history lies in the array allocated last, which is filled up to its length.
HistoryInv ==
  /\ history.array = Len(arrays)
  /\ history.array = 0 => history.len = 0
  /\ history.array # 0 => history.len <= Len(arrays[history.array])
  /\ \A i \in 1..history.len : arrays[history.array][i] \in Records

\* What a reader was given lies in its array, and in front of the end of the history
\* if the history is still in that array: the next append goes behind it.
ViewInv ==
  \A c \in Callers :
    /\ view[c].array = 0 => view[c].copy = <<>>
    /\ view[c].array # 0 => Len(view[c].copy) <= Len(arrays[view[c].array])
    /\ view[c].array = history.array => Len(view[c].copy) <= history.len

\* A version that was set is recorded, or about to be, or known to be lost.
Recorded(n, v) ==
  \E i \in 1..history.len : /\ arrays[history.array][i].node = n
                            /\ arrays[history.array][i].version = v
Pending(n, v)  == \E c \in Callers : call[c].at = "append" /\ call[c].node = n /\ call[c].version = v
Accounted(n, v) == <<n, v>> \in lost \/ Recorded(n, v) \/ Pending(n, v)

\* That holds of every version that is served, and of one that a caller has been told.
AccountInv ==
  /\ \A n \in Nodes : served[n] # "none" => Accounted(n, served[n])
  /\ \A c \in Callers : call[c].at = "list" => Accounted(call[c].node, call[c].version)

Inv == /\ TypeOK /\ LockInv /\ HistoryInv /\ ViewInv
       /\ ReadersKeepRecords /\ AccountInv /\ ServedIsRecorded

Calls == [at : {"lock", "set", "append", "rollback", "list"}, node : Nodes, version : Versions]
Views == [array : 0..Len(arrays), copy : Seq(Records),
          node : Nodes \union {"none"}, version : Versions \union {"none"}]

----------------------------------------------------------------------------
(* Facts about the state that several steps use.                            *)

\* A caller that is in a call knows its node and its version.
LEMMA CallFacts ==
  ASSUME TypeOK, NEW c \in Callers, call[c].at # "idle"
  PROVE  call[c] \in Calls
<1>1. call[c] # NoCall  BY DEF NoCall
<1> QED  BY <1>1 DEF TypeOK, Calls

\* The shape of a state in which arrays are added and old ones are changed where
\* nobody looks.
Grown(arrays2, history2) ==
  /\ arrays2 \in Seq(Seq(Records \union {Blank}))
  /\ history2 \in [array : 0..Len(arrays2), len : Nat]
  /\ Len(arrays) <= Len(arrays2)
  /\ history2.array = Len(arrays2)
  /\ history.array # history2.array => Len(arrays) < Len(arrays2)
  /\ history.len <= history2.len
  /\ history2.array = 0 => history2.len = 0
  /\ history2.array # 0 => history2.len <= Len(arrays2[history2.array])
  /\ \A i \in 1..history2.len : arrays2[history2.array][i] \in Records
  /\ \A i \in 1..history.len :
       /\ arrays2[history2.array][i].node = arrays[history.array][i].node
       /\ arrays2[history2.array][i].version = arrays[history.array][i].version
  /\ \A a \in 1..Len(arrays) : Len(arrays2[a]) = Len(arrays[a])
  /\ \A a \in 1..Len(arrays) : \A i \in 1..Len(arrays[a]) :
       a # history.array \/ i <= history.len =>
         /\ arrays2[a][i].node = arrays[a][i].node
         /\ arrays2[a][i].version = arrays[a][i].version

\* append keeps every array but one, writes that one behind the end of the history,
\* and puts the record at the end of the new one.
LEMMA Appended ==
  ASSUME TypeOK, HistoryInv, NEW r \in Records, AppendRecord(r)
  PROVE  /\ Grown(arrays', history')
         /\ history'.len = history.len + 1
         /\ arrays'[history'.array][history'.len] = r
<1> DEFINE A == history.array
           L == history.len
           T == Records \union {Blank}
<1>1. /\ arrays \in Seq(Seq(T)) /\ A = Len(arrays) /\ A \in Nat /\ L \in Nat
      /\ history \in [array : 0..Len(arrays), len : Nat]
      /\ A = 0 => L = 0
      /\ A # 0 => L <= Len(arrays[A]) /\ arrays[A] \in Seq(T)
      /\ \A i \in 1..L : arrays[A][i] \in Records
      /\ \A a \in 1..Len(arrays) : arrays[a] \in Seq(T) /\ Len(arrays[a]) \in Nat
  <2>1. arrays \in Seq(Seq(T)) /\ history \in [array : 0..Len(arrays), len : Nat]
    BY DEF TypeOK
  <2>2. Len(arrays) \in Nat /\ \A a \in 1..Len(arrays) : arrays[a] \in Seq(T) /\ Len(arrays[a]) \in Nat
    BY <2>1
  <2>3. A \in 0..Len(arrays) /\ L \in Nat
    BY <2>1
  <2>4. /\ A = Len(arrays)
        /\ A = 0 => L = 0
        /\ A # 0 => L <= Len(arrays[A])
        /\ \A i \in 1..L : arrays[A][i] \in Records
    BY DEF HistoryInv
  <2>5. A # 0 => A \in 1..Len(arrays)
    BY <2>2, <2>3
  <2> HIDE DEF A, L, T
  <2> QED  BY <2>1, <2>2, <2>3, <2>4, <2>5
<1>2. history' = [array |-> Len(arrays'), len |-> L + 1]
  BY DEF AppendRecord
<1>3. CASE L < Capacity
  <2>1. A # 0 /\ L < Len(arrays[A]) /\ L + 1 \in 1..Len(arrays[A]) /\ A \in 1..Len(arrays)
    BY <1>1, <1>3 DEF Capacity
  <2>2. arrays' = [arrays EXCEPT ![A][L + 1] = r]
    BY <1>3 DEF AppendRecord
  <2> DEFINE new == [arrays[A] EXCEPT ![L + 1] = r]
  <2>3. new \in Seq(T) /\ Len(new) = Len(arrays[A]) /\ new[L + 1] = r
        /\ \A i \in 1..Len(arrays[A]) : i # L + 1 => new[i] = arrays[A][i]
    BY <1>1, <2>1
  <2>4. arrays' = [arrays EXCEPT ![A] = new]
    BY <2>2
  <2> HIDE DEF new
  <2>5. /\ arrays' \in Seq(Seq(T)) /\ Len(arrays') = Len(arrays) /\ arrays'[A] = new
        /\ \A a \in 1..Len(arrays) : a # A => arrays'[a] = arrays[a]
    BY <1>1, <2>1, <2>3, <2>4
  <2>6. /\ history' \in [array : 0..Len(arrays'), len : Nat]
        /\ history'.array = A /\ history'.len = L + 1
    BY <1>1, <1>2, <2>5
  <2>7. ASSUME NEW i \in 1..(L + 1)  PROVE new[i] \in Records
    <3>1. i \in 1..L \/ i = L + 1  BY <1>1
    <3>2. CASE i = L + 1
      BY <2>3, <3>2
    <3>3. CASE i \in 1..L
      <4>1. i \in 1..Len(arrays[A]) /\ i # L + 1
        BY <1>1, <2>1, <3>3
      <4>2. arrays[A][i] \in Records
        BY <1>1, <3>3
      <4> QED  BY <2>3, <4>1, <4>2
    <3> QED  BY <3>1, <3>2, <3>3
  <2>8. ASSUME NEW i \in 1..L  PROVE arrays'[A][i] = arrays[A][i]
    <3>1. i \in 1..Len(arrays[A]) /\ i # L + 1
      BY <1>1, <2>1
    <3> QED  BY <2>3, <2>5, <3>1
  <2>9. \A i \in 1..history'.len : arrays'[history'.array][i] \in Records
    BY <2>5, <2>6, <2>7
  <2>10. ASSUME NEW a \in 1..Len(arrays), NEW i \in 1..Len(arrays[a]), a # A \/ i <= L
         PROVE  arrays'[a][i] = arrays[a][i]
    <3>1. CASE a # A
      BY <2>5, <3>1
    <3>2. CASE a = A
      <4>1. i \in 1..L
        BY <1>1, <2>10, <3>2
      <4> QED  BY <2>8, <3>2, <4>1
    <3> QED  BY <3>1, <3>2
  <2>11. \A a \in 1..Len(arrays) : Len(arrays'[a]) = Len(arrays[a])
    BY <2>1, <2>3, <2>5
  <2>12. /\ history'.array = Len(arrays') /\ history'.array # 0 /\ history'.array = A
         /\ history'.len <= Len(arrays'[history'.array]) /\ L <= history'.len
    BY <1>1, <2>1, <2>3, <2>5, <2>6
  <2>13. arrays'[history'.array][history'.len] = r
    BY <2>3, <2>5, <2>6
  <2>14. \A i \in 1..L : arrays'[history'.array][i] = arrays[A][i]
    BY <2>6, <2>8
  <2>15. Len(arrays) \in Nat /\ Len(arrays) <= Len(arrays')
    BY <2>5, <1>1
  <2>16. arrays' \in Seq(Seq(T)) /\ A = history'.array
    BY <2>5, <2>6
  <2>17. history'.len = L + 1 /\ history' \in [array : 0..Len(arrays'), len : Nat]
    BY <2>6
  <2>18. Grown(arrays', history')
    BY <2>9, <2>10, <2>11, <2>12, <2>14, <2>15, <2>16, <2>17 DEF Grown
  <2> QED  BY <2>13, <2>17, <2>18
<1>4. CASE ~(L < Capacity)
  <2> DEFINE C   == IF Capacity = 0 THEN 1 ELSE 2 * Capacity
             new == [i \in 1..C |-> CASE i <= L    -> VersionHistory[i]
                                      [] i = L + 1 -> r
                                      [] OTHER     -> Blank]
  <2>1. arrays' = Append(arrays, new)
    BY <1>4 DEF AppendRecord
  <2>2. Capacity \in Nat /\ L = Capacity /\ C \in Nat /\ L + 1 <= C
    BY <1>1, <1>4 DEF Capacity
  <2>3. \A i \in 1..L : VersionHistory[i] = arrays[A][i]
    BY DEF VersionHistory, Slice
  <2>4. \A i \in 1..C : new[i] \in T
    BY <1>1, <2>2, <2>3
  <2>5. new \in Seq(T) /\ Len(new) = C /\ new[L + 1] = r
        /\ \A i \in 1..L : new[i] = arrays[A][i]
    <3>1. new \in [1..C -> T]
      BY <2>4
    <3>2. new[L + 1] = r /\ \A i \in 1..L : new[i] = arrays[A][i]
      BY <1>1, <2>2, <2>3
    <3> HIDE DEF new, C, T
    <3>3. new \in Seq(T) /\ Len(new) = C
      BY <2>2, <3>1
    <3> QED  BY <3>2, <3>3
  <2> HIDE DEF new, C
  <2>6. /\ arrays' \in Seq(Seq(T)) /\ Len(arrays') = Len(arrays) + 1
        /\ arrays'[Len(arrays) + 1] = new
        /\ \A a \in 1..Len(arrays) : arrays'[a] = arrays[a]
    BY <1>1, <2>1, <2>5
  <2>7. /\ history' \in [array : 0..Len(arrays'), len : Nat]
        /\ history'.array = A + 1 /\ history'.len = L + 1
    BY <1>1, <1>2, <2>6
  <2>8. ASSUME NEW i \in 1..(L + 1)  PROVE new[i] \in Records
    <3>1. i \in 1..L \/ i = L + 1  BY <1>1
    <3> QED  BY <1>1, <2>5, <3>1
  <2>9. \A i \in 1..L : arrays'[history'.array][i] = arrays[A][i]
    BY <1>1, <2>5, <2>6, <2>7
  <2>10. \A i \in 1..history'.len : arrays'[history'.array][i] \in Records
    BY <1>1, <2>6, <2>7, <2>8
  <2>11. history'.array # A /\ history'.array = Len(arrays') /\ history'.array # 0
    BY <1>1, <2>6, <2>7
  <2>12. history'.len <= Len(arrays'[history'.array])
    BY <1>1, <2>2, <2>5, <2>6, <2>7
  <2>13. arrays'[history'.array][history'.len] = r
    <3>1. A = Len(arrays)
      BY <1>1
    <3> QED  BY <2>5, <2>6, <2>7, <3>1
  <2>14. \A a \in 1..Len(arrays) : Len(arrays'[a]) = Len(arrays[a]) /\ arrays'[a] = arrays[a]
    BY <2>6
  <2>15. Len(arrays) \in Nat /\ Len(arrays) < Len(arrays')
    BY <1>1, <2>6
  <2>16. L <= history'.len /\ history'.len = L + 1
    BY <1>1, <2>7
  <2>17. arrays' \in Seq(Seq(T)) /\ history' \in [array : 0..Len(arrays'), len : Nat]
    BY <2>6, <2>7
  <2>18. Grown(arrays', history')
    BY <2>9, <2>10, <2>11, <2>12, <2>14, <2>15, <2>16, <2>17 DEF Grown
  <2> QED  BY <2>13, <2>16, <2>18
<1> QED  BY <1>3, <1>4

Mark(k) == arrays' = [arrays EXCEPT ![history.array][k].status = "rolled_back"]

\* Rollback changes a status and nothing else.
LEMMA Marked ==
  ASSUME TypeOK, HistoryInv, NEW k \in 1..history.len, UNCHANGED history, Mark(k)
  PROVE  Grown(arrays', history')
<1> DEFINE A == history.array
           L == history.len
           T == Records \union {Blank}
<1>1. /\ arrays \in Seq(Seq(T)) /\ A = Len(arrays) /\ A \in Nat /\ L \in Nat
      /\ history \in [array : 0..Len(arrays), len : Nat]
      /\ A \in 1..Len(arrays) /\ L <= Len(arrays[A]) /\ arrays[A] \in Seq(T)
      /\ \A i \in 1..L : arrays[A][i] \in Records
      /\ k \in 1..Len(arrays[A])
  BY DEF TypeOK, HistoryInv
<1>2. PICK r \in Records : /\ arrays' = [arrays EXCEPT ![A] = [arrays[A] EXCEPT ![k] = r]]
                           /\ r.node = arrays[A][k].node /\ r.version = arrays[A][k].version
  <2> DEFINE marked == [arrays[A][k] EXCEPT !.status = "rolled_back"]
  <2>1. arrays[A][k] \in Records  BY <1>1
  <2>2. marked \in Records /\ marked.node = arrays[A][k].node
          /\ marked.version = arrays[A][k].version
    BY <2>1 DEF Records
  <2> QED  BY <2>2 DEF Mark
<1> DEFINE new == [arrays[A] EXCEPT ![k] = r]
<1>3. arrays' = [arrays EXCEPT ![A] = new]
  BY <1>2
<1>4. new \in Seq(T) /\ Len(new) = Len(arrays[A]) /\ new[k] = r
      /\ \A i \in 1..Len(arrays[A]) : i # k => new[i] = arrays[A][i]
  BY <1>1, <1>2
<1> HIDE DEF new
<1>5. /\ arrays' \in Seq(Seq(T)) /\ Len(arrays') = Len(arrays) /\ arrays'[A] = new
      /\ \A a \in 1..Len(arrays) : a # A => arrays'[a] = arrays[a]
  BY <1>1, <1>3, <1>4
<1>6. \A i \in 1..Len(arrays[A]) : /\ new[i].node = arrays[A][i].node
                                    /\ new[i].version = arrays[A][i].version
  BY <1>2, <1>4
<1>7. ASSUME NEW i \in 1..L  PROVE new[i] \in Records
  <2>1. i \in 1..Len(arrays[A])  BY <1>1
  <2> QED  BY <1>1, <1>2, <1>4, <2>1
<1>8. ASSUME NEW a \in 1..Len(arrays), NEW i \in 1..Len(arrays[a])
      PROVE  /\ arrays'[a][i].node = arrays[a][i].node
             /\ arrays'[a][i].version = arrays[a][i].version
  BY <1>5, <1>6
<1>9. \A a \in 1..Len(arrays) : Len(arrays'[a]) = Len(arrays[a])
  BY <1>4, <1>5
<1>10. \A i \in 1..L : i \in 1..Len(arrays[A])
  BY <1>1
<1>11. /\ arrays' \in Seq(Seq(T)) /\ Len(arrays') = Len(arrays) /\ Len(arrays) \in Nat
       /\ history' = history /\ history \in [array : 0..Len(arrays), len : Nat]
       /\ A = Len(arrays) /\ A # 0 /\ L <= Len(arrays'[A])
  BY <1>1, <1>4, <1>5
<1>12. ASSUME NEW i \in 1..L
       PROVE  /\ arrays'[A][i] \in Records
              /\ arrays'[A][i].node = arrays[A][i].node
              /\ arrays'[A][i].version = arrays[A][i].version
  BY <1>5, <1>6, <1>7, <1>10
<1>13. L \in Nat /\ L <= L /\ Len(arrays) <= Len(arrays')
  BY <1>1, <1>11
<1>14. Grown(arrays', history)
  BY <1>8, <1>9, <1>11, <1>12, <1>13 DEF Grown
<1> QED  BY <1>11, <1>14

\* A state whose arrays and history do not change is grown too.
LEMMA Unchanged ==
  ASSUME TypeOK, HistoryInv, UNCHANGED slices
  PROVE  Grown(arrays', history')
<1>1. arrays' = arrays /\ history' = history
  BY DEF slices
<1> QED  BY <1>1 DEF Grown, TypeOK, HistoryInv

\* Every step leaves the slices grown.
LEMMA StepGrows ==
  ASSUME TypeOK, HistoryInv, [Next]_vars
  PROVE  Grown(arrays', history')
<1>1. ASSUME NEW c \in Callers, RecordVersion(c)  PROVE Grown(arrays', history')
  <2>1. call[c] \in Calls /\ call[c].version \in Int64s
    BY <1>1, CallFacts DEF RecordVersion
  <2>2. [version |-> call[c].version, node |-> call[c].node, status |-> "pending"] \in Records
    BY <2>1 DEF Calls, Records
  <2> QED  BY <1>1, <2>2, Appended DEF RecordVersion
<1>2. ASSUME NEW c \in Callers, Rollback(c)  PROVE Grown(arrays', history')
  <2>1. CASE UNCHANGED arrays
    BY <1>2, <2>1, Unchanged DEF Rollback, slices
  <2>2. CASE \E i \in DOMAIN VersionHistory : Mark(i)
    <3>1. DOMAIN VersionHistory = 1..history.len
      BY DEF VersionHistory, Slice
    <3> QED  BY <1>2, <2>2, <3>1, Marked DEF Rollback
  <2> QED  BY <1>2, <2>1, <2>2 DEF Rollback, Mark
<1>3. ASSUME NEW c \in Callers,
             \/ \E n \in Nodes : GetSnapshot(c, n)
             \/ \E n \in Nodes, v \in Versions : BeginUpdate(c, n, v) \/ BeginRollback(c, n, v)
             \/ Lock(c) \/ SetSnapshot(c) \/ SetSnapshotFails(c) \/ VersionPanics(c)
             \/ GetVersionHistory(c)
      PROVE  Grown(arrays', history')
  BY <1>3, Unchanged DEF GetSnapshot, BeginUpdate, BeginRollback, Enter, Lock, SetSnapshot,
     SetSnapshotFails, VersionPanics, GetVersionHistory, slices
<1>4. ASSUME UNCHANGED vars  PROVE Grown(arrays', history')
  BY <1>4, Unchanged DEF vars, slices
<1> QED  BY <1>1, <1>2, <1>3, <1>4 DEF Next, Begin, Proceed

----------------------------------------------------------------------------
(* Type correctness.                                                        *)

BoundsOK ==
  /\ updates \in 0..MaxUpdates /\ lookups \in 0..MaxLookups
  /\ rollbacks \in 0..MaxRollbacks /\ faults \in 0..MaxFaults

\* Each counter stays or is raised by one below its bound.
LEMMA BoundsStep ==
  ASSUME BoundsOK, [Next]_vars
  PROVE  BoundsOK'
<1> DEFINE Counts == /\ (updates' = updates \/ (updates < MaxUpdates /\ updates' = updates + 1))
                     /\ (lookups' = lookups \/ (lookups < MaxLookups /\ lookups' = lookups + 1))
                     /\ (rollbacks' = rollbacks \/ (rollbacks < MaxRollbacks /\ rollbacks' = rollbacks + 1))
                     /\ (faults' = faults \/ (faults < MaxFaults /\ faults' = faults + 1))
<1>1. Counts
  <2>1. CASE UNCHANGED vars
    BY <2>1 DEF vars, bounds
  <2>2. ASSUME NEW c \in Callers, Begin(c)  PROVE Counts
    BY <2>2 DEF Begin, GetSnapshot, BeginUpdate, BeginRollback, Enter
  <2>3. ASSUME NEW c \in Callers, SetSnapshotFails(c)  PROVE Counts
    BY <2>3 DEF SetSnapshotFails
  <2>4. ASSUME NEW c \in Callers,
               \/ Lock(c) \/ SetSnapshot(c) \/ RecordVersion(c) \/ VersionPanics(c)
               \/ GetVersionHistory(c) \/ Rollback(c)
        PROVE  Counts
    <3>1. UNCHANGED bounds
      BY <2>4 DEF Lock, SetSnapshot, RecordVersion, VersionPanics, GetVersionHistory, Rollback
    <3> QED  BY <3>1 DEF bounds
  <2> QED  BY <2>1, <2>2, <2>3, <2>4 DEF Next, Proceed
<1>2. /\ MaxUpdates \in Nat /\ MaxLookups \in Nat /\ MaxRollbacks \in Nat /\ MaxFaults \in Nat
  BY ConstantsAssumption
<1> QED  BY <1>1, <1>2 DEF BoundsOK

\* The other variables, one by one, for a step of one caller.
Moves(c) ==
  /\ served' \in [Nodes -> Versions \union {"none"}]
  /\ mu' \in Callers \union {"free"}
  /\ \E x \in Calls \union {NoCall} : call' = [call EXCEPT ![c] = x]
  /\ view' = view \/ \E x \in Views : view' = [view EXCEPT ![c] = x]
  /\ lost' \subseteq Nodes \X Versions

LEMMA EnterMoves ==
  ASSUME TypeOK, NEW c \in Callers, NEW n \in Nodes, NEW v \in Versions,
         NEW at \in {"lock", "rollback", "list"}, Enter(c, at, n, v)
  PROVE  Moves(c)
<1>1. [at |-> at, node |-> n, version |-> v] \in Calls
  BY DEF Calls
<1> QED  BY <1>1 DEF Enter, Moves, TypeOK

LEMMA GotoMoves ==
  ASSUME TypeOK, NEW c \in Callers, call[c] \in Calls, NEW at \in {"set", "append"}, Goto(c, at)
  PROVE  \E x \in Calls : call' = [call EXCEPT ![c] = x]
<1>1. [call[c] EXCEPT !.at = at] \in Calls
  BY DEF Calls
<1> QED  BY <1>1 DEF Goto

\* What is known of the history is a sequence of records.
LEMMA HistoryTypes ==
  ASSUME TypeOK, HistoryInv
  PROVE  VersionHistory \in Seq(Records) /\ Len(VersionHistory) = history.len
         /\ \A i \in 1..history.len : VersionHistory[i] = arrays[history.array][i]
<1>1. history.len \in Nat
  BY DEF TypeOK
<1>2. VersionHistory \in [1..history.len -> Records]
  BY DEF VersionHistory, Slice, HistoryInv
<1>3. VersionHistory \in Seq(Records) /\ Len(VersionHistory) = history.len
  BY <1>1, <1>2
<1> QED  BY <1>3 DEF VersionHistory, Slice

\* Every action of a caller moves in that way.
LEMMA StepMoves ==
  ASSUME TypeOK, HistoryInv, NEW c \in Callers, Begin(c) \/ Proceed(c)
  PROVE  Moves(c)
<1>1. ASSUME NEW n \in Nodes, GetSnapshot(c, n)  PROVE Moves(c)
  <2>1. served[n] \in Versions
    BY <1>1 DEF GetSnapshot, TypeOK
  <2> QED  BY <1>1, <2>1, EnterMoves DEF GetSnapshot
<1>2. ASSUME NEW n \in Nodes, NEW v \in Versions, BeginUpdate(c, n, v)  PROVE Moves(c)
  BY <1>2, EnterMoves DEF BeginUpdate
<1>3. ASSUME NEW n \in Nodes, NEW v \in Versions, BeginRollback(c, n, v)  PROVE Moves(c)
  BY <1>3, EnterMoves DEF BeginRollback
<1>4. ASSUME call[c].at # "idle"  PROVE call[c] \in Calls /\ call[c].node \in Nodes
                                         /\ call[c].version \in Versions
  BY <1>4, CallFacts DEF Calls
<1>5. ASSUME Lock(c)  PROVE Moves(c)
  BY <1>4, <1>5, GotoMoves DEF Lock, Moves, TypeOK
<1>6. ASSUME SetSnapshot(c)  PROVE Moves(c)
  BY <1>4, <1>6, GotoMoves DEF SetSnapshot, Moves, TypeOK
<1>7. ASSUME SetSnapshotFails(c)  PROVE Moves(c)
  <2>1. call' = [call EXCEPT ![c] = NoCall] /\ mu' = "free" /\ view' = view
    BY <1>7 DEF SetSnapshotFails, ReturnOnError
  <2>2. /\ served' \in [Nodes -> Versions \union {"none"}]
        /\ lost' \subseteq Nodes \X Versions
    <3>1. call[c].node \in Nodes /\ call[c].version \in Versions
      BY <1>4, <1>7 DEF SetSnapshotFails
    <3>2. \/ UNCHANGED <<served, lost>>
          \/ /\ served' = [served EXCEPT ![call[c].node] = call[c].version]
             /\ lost' = lost \union {<<call[c].node, call[c].version>>}
      BY <1>7 DEF SetSnapshotFails
    <3>3. CASE UNCHANGED <<served, lost>>
      BY <3>3 DEF TypeOK
    <3>4. CASE /\ served' = [served EXCEPT ![call[c].node] = call[c].version]
               /\ lost' = lost \union {<<call[c].node, call[c].version>>}
      BY <3>1, <3>4 DEF TypeOK
    <3> QED  BY <3>2, <3>3, <3>4
  <2> QED  BY <2>1, <2>2 DEF Moves
<1>8. ASSUME RecordVersion(c)  PROVE Moves(c)
  BY <1>4, <1>8 DEF RecordVersion, Moves, TypeOK
<1>9. ASSUME VersionPanics(c)  PROVE Moves(c)
  <2>1. /\ call' = [call EXCEPT ![c] = NoCall] /\ mu' = "free"
        /\ view' = view /\ served' = served
    BY <1>9 DEF VersionPanics, ReturnOnError
  <2>2. lost' \subseteq Nodes \X Versions
    <3>1. call[c].node \in Nodes /\ call[c].version \in Versions
      BY <1>4, <1>9 DEF VersionPanics
    <3> QED  BY <1>9, <3>1 DEF VersionPanics, TypeOK
  <2> QED  BY <2>1, <2>2 DEF Moves, TypeOK
<1>10. ASSUME GetVersionHistory(c)  PROVE Moves(c)
  <2>1. [array |-> history.array, copy |-> VersionHistory,
         node |-> call[c].node, version |-> call[c].version] \in Views
    BY <1>4, <1>10, HistoryTypes DEF GetVersionHistory, Views, TypeOK
  <2> QED  BY <1>10, <2>1 DEF GetVersionHistory, Moves, TypeOK
<1>11. ASSUME Rollback(c)  PROVE Moves(c)
  BY <1>11 DEF Rollback, Moves, TypeOK
<1> QED  BY <1>1, <1>2, <1>3, <1>5, <1>6, <1>7, <1>8, <1>9, <1>10, <1>11 DEF Begin, Proceed

\* Type correctness is kept by every step.
LEMMA TypeStep ==
  ASSUME TypeOK, HistoryInv, [Next]_vars
  PROVE  TypeOK'
<1>1. BoundsOK'
  BY BoundsStep DEF TypeOK, BoundsOK
<1>2. Grown(arrays', history')
  BY StepGrows
<1>3. /\ arrays' \in Seq(Seq(Records \union {Blank}))
      /\ history' \in [array : 0..Len(arrays'), len : Nat]
  BY <1>2 DEF Grown
<1>4. Views \subseteq Views'
  <2>1. 0..Len(arrays) \subseteq 0..Len(arrays')
    BY <1>2 DEF Grown, TypeOK
  <2> QED  BY <2>1 DEF Views
<1>5. Calls' = Calls /\ NoCall' = NoCall /\ Records' = Records /\ Blank' = Blank
  BY DEF Calls, NoCall, Records, Blank
<1>6. view \in [Callers -> Views] /\ call \in [Callers -> {NoCall} \union Calls]
  BY DEF TypeOK, Views, Calls
<1> DEFINE Rest == /\ served' \in [Nodes -> Versions \union {"none"}]
                   /\ mu' \in Callers \union {"free"}
                   /\ call' \in [Callers -> {NoCall} \union Calls]
                   /\ view' \in [Callers -> Views]
                   /\ lost' \subseteq Nodes \X Versions
<1>7. Rest
  <2>1. CASE UNCHANGED vars
    BY <1>6, <2>1 DEF vars, TypeOK
  <2>2. ASSUME NEW c \in Callers, Moves(c)  PROVE Rest
    BY <1>6, <2>2 DEF Moves
  <2> QED  BY <2>1, <2>2, StepMoves DEF Next
<1>8. view' \in [Callers -> Views']
  BY <1>4, <1>7
<1> QED  BY <1>1, <1>3, <1>5, <1>7, <1>8 DEF TypeOK, Views, Calls, BoundsOK

----------------------------------------------------------------------------
(* The other parts of the invariant.                                        *)

\* A caller takes the mutex before it sets, and gives it back when it has recorded.
LEMMA LockStep ==
  ASSUME TypeOK, LockInv, [Next]_vars
  PROVE  LockInv'
<1> DEFINE In(d) == call[d].at \in {"set", "append"}
<1> SUFFICES ASSUME NEW d \in Callers, In(d)'  PROVE mu' = d
  BY DEF LockInv
<1>1. call \in [Callers -> {NoCall} \union Calls] /\ NoCall.at = "idle"
  BY DEF TypeOK, Calls, NoCall
<1>2. CASE UNCHANGED vars
  BY <1>2 DEF vars, LockInv
<1>3. ASSUME NEW c \in Callers, NEW at \in {"lock", "rollback", "list"}, NEW n, NEW v, Enter(c, at, n, v)
      PROVE  mu' = d
  <2>1. mu' = mu /\ call' = [call EXCEPT ![c] = [at |-> at, node |-> n, version |-> v]]
    BY <1>3 DEF Enter
  <2>2. call'[c].at \notin {"set", "append"}
    BY <1>1, <2>1
  <2>3. d # c /\ call'[d] = call[d]
    BY <1>1, <2>1, <2>2
  <2> QED  BY <2>1, <2>3 DEF LockInv
<1>4. ASSUME NEW c \in Callers, Begin(c)  PROVE mu' = d
  BY <1>3, <1>4 DEF Begin, GetSnapshot, BeginUpdate, BeginRollback
<1>5. ASSUME NEW c \in Callers, call' = [call EXCEPT ![c] = NoCall], mu' = mu \/ mu = c
      PROVE  mu' = d
  <2>1. call'[c] = NoCall
    BY <1>1, <1>5
  <2>2. d # c /\ call'[d] = call[d]
    BY <1>1, <1>5, <2>1
  <2> QED  BY <1>5, <2>2 DEF LockInv
<1>6. ASSUME NEW c \in Callers, Lock(c)  PROVE mu' = d
  <2>1. mu = "free" /\ mu' = c /\ \A e \in Callers : e # c => call'[e] = call[e]
    BY <1>1, <1>6 DEF Lock, Goto
  <2> QED  BY <2>1, ConstantsAssumption DEF LockInv
<1>7. ASSUME NEW c \in Callers, SetSnapshot(c)  PROVE mu' = d
  <2>1. mu' = mu /\ call[c].at = "set" /\ \A e \in Callers : e # c => call'[e] = call[e]
    BY <1>1, <1>7 DEF SetSnapshot, Goto
  <2> QED  BY <2>1 DEF LockInv
<1>8. ASSUME NEW c \in Callers, SetSnapshotFails(c) \/ RecordVersion(c) \/ VersionPanics(c)
      PROVE  mu' = d
  <2>1. call' = [call EXCEPT ![c] = NoCall] /\ call[c].at \in {"set", "append"}
    BY <1>8 DEF SetSnapshotFails, RecordVersion, VersionPanics, ReturnOnError
  <2>2. mu = c
    BY <2>1 DEF LockInv
  <2> QED  BY <1>5, <2>1, <2>2
<1>9. ASSUME NEW c \in Callers, GetVersionHistory(c) \/ Rollback(c)  PROVE mu' = d
  BY <1>5, <1>9 DEF GetVersionHistory, Rollback
<1> QED  BY <1>2, <1>4, <1>6, <1>7, <1>8, <1>9 DEF Next, Proceed

\* The history stays in the last array.
LEMMA HistoryStep ==
  ASSUME TypeOK, HistoryInv, [Next]_vars
  PROVE  HistoryInv'
<1>1. Grown(arrays', history')  BY StepGrows
<1>2. Records' = Records  BY DEF Records
<1> QED  BY <1>1, <1>2 DEF Grown, HistoryInv

\* A view is the one a reader had, or one of the whole history.
LEMMA ViewChanges ==
  ASSUME TypeOK, HistoryInv, [Next]_vars, NEW c \in Callers
  PROVE  \/ view'[c] = view[c]
         \/ /\ GetVersionHistory(c) /\ UNCHANGED slices
            /\ view'[c] = [array |-> history.array, copy |-> VersionHistory,
                           node |-> call[c].node, version |-> call[c].version]
<1>1. view \in [Callers -> Views]
  BY DEF TypeOK, Views
<1>2. ASSUME NEW d \in Callers, GetVersionHistory(d)
      PROVE  \/ view'[c] = view[c]
             \/ /\ GetVersionHistory(c) /\ UNCHANGED slices
                /\ view'[c] = [array |-> history.array, copy |-> VersionHistory,
                               node |-> call[c].node, version |-> call[c].version]
  BY <1>1, <1>2 DEF GetVersionHistory
<1>3. ASSUME UNCHANGED view  PROVE view'[c] = view[c]
  BY <1>3
<1> QED  BY <1>2, <1>3 DEF Next, Begin, Proceed, GetSnapshot, BeginUpdate, BeginRollback, Enter,
         Lock, SetSnapshot, SetSnapshotFails, RecordVersion, VersionPanics, Rollback, vars

\* Readers' views stay in front of what is written, and so keep their records.
LEMMA ViewStep ==
  ASSUME TypeOK, HistoryInv, ViewInv, ReadersKeepRecords, [Next]_vars
  PROVE  ViewInv' /\ ReadersKeepRecords'
<1> DEFINE Safe(x, ar, h) ==
      /\ x.array = 0 => x.copy = <<>>
      /\ x.array # 0 => Len(x.copy) <= Len(ar[x.array])
      /\ x.array = h.array => Len(x.copy) <= h.len
      /\ \A i \in DOMAIN x.copy : /\ ar[x.array][i].version = x.copy[i].version
                                  /\ ar[x.array][i].node = x.copy[i].node
<1>1. \A c \in Callers : Safe(view[c], arrays, history)
  BY DEF ViewInv, ReadersKeepRecords
<1>2. Grown(arrays', history')
  BY StepGrows
<1>3. ASSUME NEW c \in Callers  PROVE Safe(view'[c], arrays', history')
  <2>1. CASE view'[c] = view[c]
    <3> DEFINE x == view[c]
    <3>1. /\ x.array \in 0..Len(arrays) /\ x.copy \in Seq(Records) /\ Len(x.copy) \in Nat
          /\ DOMAIN x.copy = 1..Len(x.copy)
          /\ Len(arrays) \in Nat /\ Len(arrays') \in Nat
          /\ history.len \in Nat /\ history'.len \in Nat /\ history.array = Len(arrays)
          /\ \A a \in 1..Len(arrays) : Len(arrays[a]) \in Nat
      BY <1>2 DEF TypeOK, HistoryInv, Grown
    <3>2. Safe(x, arrays, history)
      BY <1>1
    <3> HIDE DEF x
    <3>3. x.array = 0 => x.copy = <<>>
      BY <3>2
    <3>4. x.array # 0 => Len(x.copy) <= Len(arrays'[x.array])
      <4>1. x.array # 0 => x.array \in 1..Len(arrays)
        BY <3>1
      <4>2. \A a \in 1..Len(arrays) : Len(arrays'[a]) = Len(arrays[a])
        BY <1>2 DEF Grown
      <4>3. x.array # 0 => Len(x.copy) <= Len(arrays[x.array])
        BY <3>2
      <4> QED  BY <4>1, <4>2, <4>3
    <3>5. x.array = history'.array => Len(x.copy) <= history'.len
      <4>1. x.array = history'.array => x.array = history.array
        BY <1>2, <3>1 DEF Grown
      <4>2. history.len <= history'.len
        BY <1>2 DEF Grown
      <4> QED  BY <3>1, <3>2, <4>1, <4>2
    <3>6. ASSUME NEW i \in DOMAIN x.copy
          PROVE  /\ arrays'[x.array][i].version = x.copy[i].version
                 /\ arrays'[x.array][i].node = x.copy[i].node
      <4>1. x.array \in 1..Len(arrays) /\ i \in 1..Len(arrays[x.array])
        BY <3>1, <3>2
      <4>2. x.array # history.array \/ i <= history.len
        BY <3>1, <3>2
      <4>3. /\ arrays'[x.array][i].node = arrays[x.array][i].node
            /\ arrays'[x.array][i].version = arrays[x.array][i].version
        BY <1>2, <4>1, <4>2 DEF Grown
      <4> QED  BY <3>2, <4>3
    <3>7. Safe(x, arrays', history')
      BY <3>3, <3>4, <3>5, <3>6
    <3> QED  BY <2>1, <3>7 DEF x
  <2>2. CASE /\ UNCHANGED slices
             /\ view'[c] = [array |-> history.array, copy |-> VersionHistory,
                            node |-> call[c].node, version |-> call[c].version]
    <3>1. arrays' = arrays /\ history' = history
      BY <2>2 DEF slices
    <3>2. VersionHistory \in Seq(Records) /\ Len(VersionHistory) = history.len
          /\ \A i \in 1..history.len : VersionHistory[i] = arrays[history.array][i]
      BY HistoryTypes
    <3>3. history.array = 0 => VersionHistory = <<>>
      BY <3>2 DEF HistoryInv
    <3>4. history.len \in Nat /\ (history.array # 0 => history.len <= Len(arrays[history.array]))
      BY DEF HistoryInv, TypeOK
    <3> QED  BY <2>2, <3>1, <3>2, <3>3, <3>4
  <2> QED  BY <2>1, <2>2, ViewChanges
<1> QED  BY <1>3 DEF ViewInv, ReadersKeepRecords

\* What is noted as lost stays noted.
LEMMA LostGrows ==
  ASSUME [Next]_vars
  PROVE  lost \subseteq lost'
  BY DEF Next, Begin, Proceed, GetSnapshot, BeginUpdate, BeginRollback, Enter, Lock, SetSnapshot,
     SetSnapshotFails, RecordVersion, VersionPanics, GetVersionHistory, Rollback, vars

\* Whoever is about to record goes on being so, records, or notes the loss.
LEMMA PendingEnds ==
  ASSUME TypeOK, HistoryInv, [Next]_vars, NEW c \in Callers, call[c].at = "append"
  PROVE  \/ call'[c] = call[c]
         \/ RecordVersion(c)
         \/ <<call[c].node, call[c].version>> \in lost'
<1>1. call \in [Callers -> {NoCall} \union Calls] /\ NoCall.at = "idle"
  BY DEF TypeOK, Calls, NoCall
<1>2. ASSUME NEW d \in Callers, d # c, Begin(d) \/ Proceed(d)  PROVE call'[c] = call[c]
  <2>1. \E x : call' = [call EXCEPT ![d] = x]
    BY <1>2, StepMoves DEF Moves
  <2> QED  BY <1>1, <1>2, <2>1
<1>3. CASE Begin(c)
  BY <1>1, <1>3 DEF Begin, GetSnapshot, BeginUpdate, BeginRollback, Enter
<1>4. CASE Proceed(c)
  BY <1>4 DEF Proceed, Lock, SetSnapshot, SetSnapshotFails, VersionPanics, GetVersionHistory, Rollback
<1>5. CASE UNCHANGED vars
  BY <1>5 DEF vars
<1> QED  BY <1>2, <1>3, <1>4, <1>5 DEF Next

\* A version once accounted for stays so.
LEMMA AccountedStays ==
  ASSUME TypeOK, HistoryInv, [Next]_vars, NEW n, NEW v, Accounted(n, v)
  PROVE  Accounted(n, v)'
<1>1. Grown(arrays', history') /\ history.len \in Nat
  BY StepGrows DEF TypeOK
<1>2. CASE <<n, v>> \in lost
  BY <1>2, LostGrows DEF Accounted
<1>3. CASE Recorded(n, v)
  <2>1. PICK i \in 1..history.len : /\ arrays[history.array][i].node = n
                                    /\ arrays[history.array][i].version = v
    BY <1>3 DEF Recorded
  <2>2. i \in 1..history'.len
    BY <1>1, <2>1 DEF Grown
  <2>3. arrays'[history'.array][i].node = n /\ arrays'[history'.array][i].version = v
    BY <1>1, <2>1 DEF Grown
  <2> QED  BY <2>2, <2>3 DEF Accounted, Recorded
<1>4. CASE Pending(n, v)
  <2>1. PICK c \in Callers : call[c].at = "append" /\ call[c].node = n /\ call[c].version = v
    BY <1>4 DEF Pending
  <2>2. CASE call'[c] = call[c]
    BY <2>1, <2>2 DEF Accounted, Pending
  <2>3. CASE RecordVersion(c)
    <3> DEFINE r == [version |-> call[c].version, node |-> call[c].node, status |-> "pending"]
    <3>1. r \in Records /\ AppendRecord(r) /\ r.node = n /\ r.version = v
      <4>1. call[c] \in Calls
        BY <2>1, CallFacts
      <4> QED  BY <2>1, <2>3, <4>1 DEF RecordVersion, Records, Calls
    <3> HIDE DEF r
    <3>2. history'.len = history.len + 1 /\ arrays'[history'.array][history'.len] = r
      BY <3>1, Appended
    <3>3. history'.len \in 1..history'.len
      BY <1>1, <3>2
    <3> QED  BY <3>1, <3>2, <3>3 DEF Accounted, Recorded
  <2>4. CASE <<n, v>> \in lost'
    BY <2>4 DEF Accounted
  <2> QED  BY <2>1, <2>2, <2>3, <2>4, PendingEnds
<1> QED  BY <1>2, <1>3, <1>4 DEF Accounted

\* What is served is the old version, or one that is about to be recorded or lost.
LEMMA ServedChanges ==
  ASSUME TypeOK, [Next]_vars, NEW n \in Nodes, served'[n] # served[n], NEW v, v = served'[n]
  PROVE  Accounted(n, v)'
<1>1. call \in [Callers -> {NoCall} \union Calls] /\ NoCall.at = "idle"
      /\ served \in [Nodes -> Versions \union {"none"}]
  BY DEF TypeOK, Calls, NoCall
<1>2. PICK c \in Callers : SetSnapshot(c) \/ SetSnapshotFails(c)
  BY DEF Next, Begin, Proceed, GetSnapshot, BeginUpdate, BeginRollback, Enter, Lock,
     RecordVersion, VersionPanics, GetVersionHistory, Rollback, vars
<1>3. CASE SetSnapshot(c)
  <2>1. n = call[c].node /\ served'[n] = call[c].version
    BY <1>1, <1>3 DEF SetSnapshot
  <2>2. call[c] \in Calls
    BY <1>3, CallFacts DEF SetSnapshot
  <2>3. call'[c] = [call[c] EXCEPT !.at = "append"]
    BY <1>1, <1>3 DEF SetSnapshot, Goto
  <2>4. call'[c].at = "append" /\ call'[c].node = n /\ call'[c].version = v
    BY <2>1, <2>2, <2>3 DEF Calls
  <2> QED  BY <2>4 DEF Accounted, Pending
<1>4. CASE SetSnapshotFails(c)
  <2>1. served' = [served EXCEPT ![call[c].node] = call[c].version]
        /\ <<call[c].node, call[c].version>> \in lost'
    BY <1>4 DEF SetSnapshotFails
  <2>2. n = call[c].node /\ v = call[c].version
    BY <1>1, <2>1
  <2> QED  BY <2>1, <2>2 DEF Accounted
<1> QED  BY <1>2, <1>3, <1>4

\* Whoever is told of a version is told of one that is served.
LEMMA ListChanges ==
  ASSUME TypeOK, [Next]_vars, HistoryInv, NEW c \in Callers, call'[c].at = "list", call'[c] # call[c]
  PROVE  \E n \in Nodes : /\ served[n] # "none"
                          /\ call'[c].node = n /\ call'[c].version = served[n]
<1>1. call \in [Callers -> {NoCall} \union Calls] /\ NoCall.at = "idle"
  BY DEF TypeOK, Calls, NoCall
<1>2. ASSUME NEW d \in Callers, Begin(d) \/ Proceed(d)  PROVE d = c
  <2>1. \E x : call' = [call EXCEPT ![d] = x]
    BY <1>2, StepMoves DEF Moves
  <2> QED  BY <1>1, <2>1
<1>3. ~UNCHANGED vars
  BY DEF vars
<1>4. Begin(c) \/ Proceed(c)
  BY <1>2, <1>3 DEF Next
<1>5. CASE Proceed(c)
  <2>1. call'[c] = NoCall \/ \E at \in {"set", "append"} : call' = [call EXCEPT ![c].at = at]
    BY <1>1, <1>5 DEF Proceed, Lock, SetSnapshot, SetSnapshotFails, RecordVersion, VersionPanics,
       ReturnOnError, Goto, GetVersionHistory, Rollback
  <2>2. ASSUME NEW at \in {"set", "append"}, call' = [call EXCEPT ![c].at = at],
               call[c] \in Calls
        PROVE  call'[c].at = at
    BY <1>1, <2>2 DEF Calls
  <2>3. call[c] \in Calls
    BY <1>5, CallFacts DEF Proceed, Lock, SetSnapshot, SetSnapshotFails, RecordVersion,
       VersionPanics, GetVersionHistory, Rollback
  <2> QED  BY <1>1, <2>1, <2>2, <2>3
<1>6. CASE Begin(c)
  BY <1>1, <1>6 DEF Begin, GetSnapshot, BeginUpdate, BeginRollback, Enter
<1> QED  BY <1>4, <1>5, <1>6

\* So every version served, and every one a caller was told of, stays accounted for.
LEMMA AccountStep ==
  ASSUME TypeOK, HistoryInv, AccountInv, [Next]_vars
  PROVE  AccountInv'
<1>1. ASSUME NEW n \in Nodes, NEW v, v = served'[n], v # "none"  PROVE Accounted(n, v)'
  <2>1. CASE served'[n] = served[n]
    <3>1. Accounted(n, v)
      BY <1>1, <2>1 DEF AccountInv
    <3> QED  BY <3>1, AccountedStays
  <2> QED  BY <1>1, <2>1, ServedChanges
<1>2. ASSUME NEW c \in Callers, call'[c].at = "list",
             NEW n, NEW v, n = call'[c].node, v = call'[c].version
      PROVE  Accounted(n, v)'
  <2>1. CASE call'[c] = call[c]
    <3>1. Accounted(n, v)
      BY <1>2, <2>1 DEF AccountInv
    <3> QED  BY <3>1, AccountedStays
  <2>2. CASE call'[c] # call[c]
    <3>1. PICK m \in Nodes : /\ served[m] # "none"
                             /\ call'[c].node = m /\ call'[c].version = served[m]
      BY <1>2, <2>2, ListChanges
    <3>2. Accounted(n, v)
      BY <1>2, <3>1 DEF AccountInv
    <3> QED  BY <3>2, AccountedStays
  <2> QED  BY <2>1, <2>2
<1> QED  BY <1>1, <1>2 DEF AccountInv, Accounted, Recorded, Pending

\* A reader finds in the history what it was told: while the mutex is free nothing is
\* pending, so that it is recorded or known to be lost.
LEMMA ServedStep ==
  ASSUME TypeOK, LockInv, HistoryInv, AccountInv, ServedIsRecorded, [Next]_vars
  PROVE  ServedIsRecorded'
<1> DEFINE Found(x, l) == \/ <<x.node, x.version>> \in l
                          \/ \E i \in DOMAIN x.copy : /\ x.copy[i].node = x.node
                                                      /\ x.copy[i].version = x.version
<1>1. ASSUME NEW c \in Callers, view'[c] # NoView  PROVE Found(view'[c], lost')
  <2>1. CASE view'[c] = view[c]
    <3>1. Found(view[c], lost)
      BY <1>1, <2>1 DEF ServedIsRecorded
    <3> QED  BY <2>1, <3>1, LostGrows
  <2>2. CASE /\ GetVersionHistory(c)
             /\ view'[c] = [array |-> history.array, copy |-> VersionHistory,
                            node |-> call[c].node, version |-> call[c].version]
    <3> DEFINE n == call[c].node
               v == call[c].version
    <3>1. call[c].at = "list" /\ mu = "free" /\ lost' = lost
      BY <2>2 DEF GetVersionHistory
    <3>2. Accounted(n, v)
      BY <3>1 DEF AccountInv
    <3>3. ~Pending(n, v)
      BY <3>1, ConstantsAssumption DEF LockInv, Pending
    <3>4. VersionHistory \in Seq(Records) /\ Len(VersionHistory) = history.len
          /\ \A i \in 1..history.len : VersionHistory[i] = arrays[history.array][i]
      BY HistoryTypes
    <3>5. <<n, v>> \in lost \/ \E i \in DOMAIN VersionHistory :
            VersionHistory[i].node = n /\ VersionHistory[i].version = v
      BY <3>2, <3>3, <3>4 DEF Accounted, Recorded
    <3> HIDE DEF n, v
    <3>6. /\ view'[c].copy = VersionHistory /\ view'[c].node = n /\ view'[c].version = v
      BY <2>2 DEF n, v
    <3> QED  BY <3>1, <3>5, <3>6
  <2> QED  BY <2>1, <2>2, ViewChanges
<1>2. NoView' = NoView  BY DEF NoView
<1> QED  BY <1>1, <1>2 DEF ServedIsRecorded

----------------------------------------------------------------------------
(* The theorems.                                                            *)

\* An empty history and callers that do nothing satisfy every part.
LEMMA InitInv == Init => Inv
<1> SUFFICES ASSUME Init  PROVE Inv
  OBVIOUS
<1>1. updates \in 0..MaxUpdates /\ lookups \in 0..MaxLookups
      /\ rollbacks \in 0..MaxRollbacks /\ faults \in 0..MaxFaults
  <2>1. updates = 0 /\ lookups = 0 /\ rollbacks = 0 /\ faults = 0  BY DEF Init
  <2> QED  BY <2>1, ConstantsAssumption
<1>2. arrays = <<>> /\ history = [array |-> 0, len |-> 0] /\ Len(arrays) = 0
      /\ arrays \in Seq(Seq(Records \union {Blank}))
      /\ history \in [array : 0..Len(arrays), len : Nat]
  BY DEF Init
<1>3. \A c \in Callers : call[c] = NoCall /\ view[c] = NoView
  BY DEF Init
<1>4. view \in [Callers -> [array : 0..Len(arrays), copy : Seq(Records),
                            node : Nodes \union {"none"}, version : Versions \union {"none"}]]
  BY <1>2 DEF Init, NoView
<1>5. TypeOK
  BY <1>1, <1>2, <1>4 DEF Init, TypeOK
<1>6. LockInv /\ AccountInv
  BY <1>3 DEF Init, LockInv, AccountInv, NoCall
<1>7. HistoryInv
  BY <1>2 DEF HistoryInv
<1>8. ViewInv /\ ReadersKeepRecords /\ ServedIsRecorded
  BY <1>2, <1>3 DEF ViewInv, ReadersKeepRecords, ServedIsRecorded, NoView
<1> QED  BY <1>5, <1>6, <1>7, <1>8 DEF Inv

\* The inductive invariant: what is set is pending, recorded or lost, and what readers
\* hold lies in front of everything that is still written (UpdateSnapshot, Rollback).
THEOREM Invariance == Spec => []Inv
<1>1. Inv /\ [Next]_vars => Inv'
  BY TypeStep, LockStep, HistoryStep, ViewStep, AccountStep, ServedStep DEF Inv
<1> QED  BY <1>1, InitInv, PTL DEF Spec

\* The cache is type correct for any number of callers, nodes and versions: only
\* versions that are int64 reach the history (the type assertion of UpdateSnapshot).
THEOREM TypeCorrect == Spec => []TypeOK
<1>1. Inv => TypeOK  BY DEF Inv
<1> QED  BY <1>1, Invariance, PTL

\* What GetSnapshot shows can be found in GetVersionHistory, however pushes interleave.
THEOREM ServedRecorded == Spec => []ServedIsRecorded
<1>1. Inv => ServedIsRecorded  BY DEF Inv
<1> QED  BY <1>1, Invariance, PTL

\* No record a reader was given by GetVersionHistory turns into another one.
THEOREM ReadersSafe == Spec => []ReadersKeepRecords
<1>1. Inv => ReadersKeepRecords  BY DEF Inv
<1> QED  BY <1>1, Invariance, PTL
=============================================================================
