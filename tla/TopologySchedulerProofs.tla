---------------------- MODULE TopologySchedulerProofs ----------------------
(***************************************************************************)
(* The topology scheduler for all tables, all hardware and all sets of     *)
(* pods: the geometry of the hop count and its average, type correctness,  *)
(* and that pods get CPUs and device of one NUMA node wherever the         *)
(* hardware has the CPUs that its devices call for.                        *)
(***************************************************************************)
EXTENDS TopologyScheduler, InductionLemmas, TLAPS

----------------------------------------------------------------------------
(* The hop count.  A tree of switches: what hangs under one rack hangs      *)
(* under one core switch, and a node has one entry.                         *)

IsTree(table) ==
  /\ \A n \in DOMAIN table : table[n].NodeName = n
  /\ \A n, m \in DOMAIN table :
       table[n].RackID = table[m].RackID => table[n].CoreSwitchID = table[m].CoreSwitchID

\* The four cases of the count, each with its condition.
LEMMA HopCases ==
  ASSUME NEW a, NEW b
  PROVE  /\ CalculateHopCount(a, b) \in 0..3
         /\ CalculateHopCount(a, b) = 0 <=> a.NodeName = b.NodeName
         /\ CalculateHopCount(a, b) <= 1 <=>
              a.NodeName = b.NodeName \/ a.RackID = b.RackID
         /\ CalculateHopCount(a, b) <= 2 <=>
              \/ a.NodeName = b.NodeName \/ a.RackID = b.RackID
              \/ a.CoreSwitchID = b.CoreSwitchID
<1>1. CASE a.NodeName = b.NodeName
  BY <1>1 DEF CalculateHopCount
<1>2. CASE a.NodeName # b.NodeName /\ a.RackID = b.RackID
  BY <1>2 DEF CalculateHopCount
<1>3. CASE a.NodeName # b.NodeName /\ a.RackID # b.RackID /\ a.CoreSwitchID = b.CoreSwitchID
  BY <1>3 DEF CalculateHopCount
<1>4. CASE a.NodeName # b.NodeName /\ a.RackID # b.RackID /\ a.CoreSwitchID # b.CoreSwitchID
  BY <1>4 DEF CalculateHopCount
<1> QED  BY <1>1, <1>2, <1>3, <1>4

\* The hop count is a distance on the nodes of a table, and more: the way between two
\* nodes is no longer than the longer of the ways to any third one (CalculateHopCount).
THEOREM HopsAreADistance ==
  ASSUME NEW table, IsTree(table),
         NEW n \in DOMAIN table, NEW m \in DOMAIN table, NEW l \in DOMAIN table
  PROVE  LET hops(x, y) == CalculateHopCount(table[x], table[y]) IN
         /\ hops(n, m) = 0 <=> n = m
         /\ hops(n, m) = hops(m, n)
         /\ hops(n, l) <= hops(n, m) \/ hops(n, l) <= hops(m, l)
<1> DEFINE a == table[n]
           b == table[m]
           c == table[l]
<1>1. /\ a.NodeName = n /\ b.NodeName = m /\ c.NodeName = l
      /\ a.RackID = b.RackID => a.CoreSwitchID = b.CoreSwitchID
      /\ b.RackID = c.RackID => b.CoreSwitchID = c.CoreSwitchID
  BY DEF IsTree
<1>2. CalculateHopCount(a, b) = CalculateHopCount(b, a)
  <2>1. /\ CalculateHopCount(a, b) \in 0..3 /\ CalculateHopCount(b, a) \in 0..3
        /\ CalculateHopCount(a, b) = 0 <=> CalculateHopCount(b, a) = 0
        /\ CalculateHopCount(a, b) <= 1 <=> CalculateHopCount(b, a) <= 1
        /\ CalculateHopCount(a, b) <= 2 <=> CalculateHopCount(b, a) <= 2
    BY HopCases
  <2> QED  BY <2>1
<1>3. CalculateHopCount(a, c) <= CalculateHopCount(a, b)
        \/ CalculateHopCount(a, c) <= CalculateHopCount(b, c)
  <2>1. /\ CalculateHopCount(a, b) \in 0..3 /\ CalculateHopCount(b, c) \in 0..3
        /\ CalculateHopCount(a, c) \in 0..3
    BY HopCases
  <2>2. CalculateHopCount(a, b) = 0 /\ CalculateHopCount(b, c) = 0 => CalculateHopCount(a, c) = 0
    BY HopCases
  <2>3. CalculateHopCount(a, b) <= 1 /\ CalculateHopCount(b, c) <= 1 => CalculateHopCount(a, c) <= 1
    BY <1>1, HopCases
  <2>4. CalculateHopCount(a, b) <= 2 /\ CalculateHopCount(b, c) <= 2 => CalculateHopCount(a, c) <= 2
    BY <1>1, HopCases
  <2> QED  BY <2>1, <2>2, <2>3, <2>4
<1> QED  BY <1>1, <1>2, <1>3, HopCases

\* One hop at most, rack distance zero and membership of the same rack are the same
\* thing in every table (CalculateHopCount, CalculateRackDistance, FindNodesInSameRack).
THEOREM NearMeansSameRack ==
  ASSUME NEW table, IsTree(table), NEW n \in DOMAIN table, NEW m \in DOMAIN table
  PROVE  /\ CalculateHopCount(table[n], table[m]) <= 1
              <=> CalculateRackDistance(table[n], table[m]) = 0
         /\ CalculateHopCount(table[n], table[m]) <= 1
              <=> m \in FindNodesInSameRack(n, table)
<1>1. CalculateHopCount(table[n], table[m]) <= 1 <=> table[n].RackID = table[m].RackID
  BY HopCases DEF IsTree
<1>2. CalculateRackDistance(table[n], table[m]) = 0 <=> table[n].RackID = table[m].RackID
  BY DEF CalculateRackDistance
<1>3. m \in FindNodesInSameRack(n, table) <=> table[n].RackID = table[m].RackID
  BY DEF FindNodesInSameRack, NodesOfRack
<1> QED  BY <1>1, <1>2, <1>3

----------------------------------------------------------------------------
(* The average.                                                             *)

\* The hops that one target adds: none if the table does not know it.
HopsTo(source, target, table) ==
  IF target \in DOMAIN table THEN CalculateHopCount(source, table[target]) ELSE 0

\* The loop of the average adds up the hops target by target.
LEMMA AverageTotals ==
  ASSUME NEW source, NEW table, NEW targets, Len(targets) \in Nat
  PROVE  \E total \in [0..Len(targets) -> Nat] :
           /\ total[0] = 0
           /\ \A i \in 1..Len(targets) :
                total[i] = total[i - 1] + HopsTo(source, targets[i], table)
           /\ CalculateAverageHopCount(source, targets, table)
                = [hops |-> total[Len(targets)], over |-> Len(targets)]
<1> DEFINE step(g, i) == IF i = 0 THEN 0
                         ELSE IF targets[i] \in DOMAIN table
                              THEN g[i - 1] + CalculateHopCount(source, table[targets[i]])
                              ELSE g[i - 1]
           loop(g, k) == g = [i \in 0..k |-> step(g, i)]
           C == {k \in Nat : ~\E g : loop(g, k)}
           total == CHOOSE g : loop(g, Len(targets))
<1>1. C = {}
  <2> SUFFICES ASSUME C # {}  PROVE FALSE
    OBVIOUS
  <2>1. PICK k \in C : \A j \in C : k <= j
    BY MinimalNumber
  <2>2. CASE k = 0
    <3>1. loop([i \in 0..0 |-> 0], 0)
      OBVIOUS
    <3> QED  BY <2>1, <2>2, <3>1
  <2>3. CASE k # 0
    <3>1. k - 1 \in Nat /\ k - 1 \notin C
      BY <2>1, <2>3
    <3>2. PICK g : loop(g, k - 1)
      BY <3>1
    <3> DEFINE h == [i \in 0..k |-> IF i = k THEN step(g, k) ELSE g[i]]
    <3>3. \A i \in 0..k : h[i] = step(h, i)
      BY <2>3, <3>1, <3>2
    <3>4. loop(h, k)
      <4> HIDE DEF step
      <4> QED  BY <3>3
    <3> QED  BY <2>1, <3>4
  <2> QED  BY <2>2, <2>3
<1>2. Len(targets) \in Nat
  OBVIOUS
<1>3. loop(total, Len(targets))
  BY <1>1, <1>2
<1>4. CalculateAverageHopCount(source, targets, table)
        = [hops |-> total[Len(targets)], over |-> Len(targets)]
  BY DEF CalculateAverageHopCount
<1> HIDE DEF total
<1>5. /\ total[0] = 0
      /\ \A i \in 1..Len(targets) :
           total[i] = IF targets[i] \in DOMAIN table
                      THEN total[i - 1] + CalculateHopCount(source, table[targets[i]])
                      ELSE total[i - 1]
  BY <1>2, <1>3
<1> DEFINE B == {i \in 0..Len(targets) : total[i] \notin Nat}
<1>6. B = {}
  <2> SUFFICES ASSUME B # {}  PROVE FALSE
    OBVIOUS
  <2>1. PICK i \in B : \A j \in B : i <= j
    <3>1. B \in SUBSET Nat
      BY <1>2
    <3> HIDE DEF B
    <3> QED  BY <3>1, MinimalNumber
  <2>2. i # 0 /\ i - 1 \in 0..Len(targets) /\ total[i - 1] \in Nat
    BY <1>2, <1>5, <2>1
  <2>3. CalculateHopCount(source, table[targets[i]]) \in Nat
    BY HopCases
  <2> QED  BY <1>2, <1>5, <2>1, <2>2, <2>3
<1>7. total \in [0..Len(targets) -> Nat]
  BY <1>3, <1>6
<1>8. \A i \in 1..Len(targets) :
        total[i] = total[i - 1] + HopsTo(source, targets[i], table)
  BY <1>2, <1>5, <1>7 DEF HopsTo
<1> QED  BY <1>4, <1>5, <1>7, <1>8

\* Unknown targets count as no hops but are divided by, so that the average is never
\* more than three.  Over targets that the table knows it tells the racks apart: at most
\* one if all are in the rack of the source, at least two if none is
\* (CalculateAverageHopCount).
THEOREM AverageTellsRacks ==
  ASSUME NEW table, IsTree(table), NEW n \in DOMAIN table, NEW S, NEW targets \in Seq(S)
  PROVE  LET average == CalculateAverageHopCount(table[n], targets, table)
             here    == FindNodesInSameRack(n, table)
         IN  /\ average.over = Len(targets) /\ average.hops \in 0..3 * average.over
             /\ (\A i \in 1..Len(targets) : targets[i] \in here)
                  => average.hops <= average.over
             /\ (\A i \in 1..Len(targets) : targets[i] \in DOMAIN table \ here)
                  => average.hops >= 2 * average.over
<1> DEFINE len == Len(targets)
           average == CalculateAverageHopCount(table[n], targets, table)
<1>1. PICK total \in [0..len -> Nat] :
        /\ total[0] = 0
        /\ \A i \in 1..len : total[i] = total[i - 1] + HopsTo(table[n], targets[i], table)
        /\ average = [hops |-> total[len], over |-> len]
  <2>1. len \in Nat  OBVIOUS
  <2> QED  BY <2>1, AverageTotals
<1> DEFINE here == FindNodesInSameRack(n, table)
           inside == \A i \in 1..len : targets[i] \in here
           outside == \A i \in 1..len : targets[i] \in DOMAIN table \ here
<1>2. len \in Nat
  OBVIOUS
<1>3. ASSUME NEW i \in 1..len
      PROVE  LET hops == HopsTo(table[n], targets[i], table) IN
             hops \in 0..3 /\ (inside => hops <= 1) /\ (outside => hops >= 2)
  <2>1. CASE targets[i] \notin DOMAIN table
    <3>1. targets[i] \notin here
      BY <2>1 DEF FindNodesInSameRack, NodesOfRack
    <3> QED  BY <2>1, <3>1 DEF HopsTo
  <2>2. CASE targets[i] \in DOMAIN table
    <3>1. CalculateHopCount(table[n], table[targets[i]]) \in 0..3
      BY HopCases
    <3>2. CalculateHopCount(table[n], table[targets[i]]) <= 1 <=> targets[i] \in here
      BY <2>2, NearMeansSameRack
    <3> QED  BY <2>2, <3>1, <3>2 DEF HopsTo
  <2> QED  BY <2>1, <2>2
<1> DEFINE right(i) == /\ total[i] \in 0..3 * i
                       /\ inside => total[i] <= i
                       /\ outside => total[i] >= 2 * i
           C == {i \in 0..len : ~right(i)}
<1>4. C = {}
  <2> SUFFICES ASSUME C # {}  PROVE FALSE
    OBVIOUS
  <2>1. PICK i \in C : \A j \in C : i <= j
    <3>1. C \in SUBSET Nat
      BY <1>2
    <3> HIDE DEF C
    <3> QED  BY <3>1, MinimalNumber
  <2> HIDE DEF inside, outside
  <2>2. i # 0
    BY <1>1, <2>1
  <2>3. i \in 1..len /\ i - 1 \in 0..len /\ i - 1 \notin C
    BY <1>2, <2>1, <2>2
  <2>4. right(i - 1) /\ total[i] = total[i - 1] + HopsTo(table[n], targets[i], table)
    BY <1>1, <2>3
  <2>5. right(i)
    <3> DEFINE hops == HopsTo(table[n], targets[i], table)
    <3>1. hops \in 0..3 /\ (inside => hops <= 1) /\ (outside => hops >= 2)
      BY <1>3, <2>3
    <3>2. total[i] = total[i - 1] + hops /\ i \in Nat \ {0}
      BY <1>2, <2>3, <2>4
    <3> HIDE DEF hops
    <3> QED  BY <2>4, <3>1, <3>2
  <2> QED  BY <2>1, <2>5
<1>5. right(len)
  BY <1>2, <1>4
<1> HIDE DEF inside, outside, here, average
<1>6. /\ average.over = len /\ average.hops \in 0..3 * average.over
      /\ inside => average.hops <= average.over
      /\ outside => average.hops >= 2 * average.over
  BY <1>1, <1>5
<1> QED  BY <1>6 DEF inside, outside, here, average

----------------------------------------------------------------------------
(* The tables that say the same thing.                                      *)

\* The hops that each entry lists are those that are counted.
HopsListed(table) ==
  \A n, m \in DOMAIN table :
    table[n].HopCountToOther[m] = CalculateHopCount(table[n], table[m])

\* Two nodes have one rack just if some rack of the list has both.
RacksListed(table) ==
  \A n, m \in DOMAIN table :
    table[n].RackID = table[m].RackID <=>
      \E r \in DOMAIN MockGetRackTopology : {n, m} \subseteq MockGetRackTopology[r]

\* The code's own tables, written down by hand, agree for each two of the five nodes
\* (MockGetTopologyMap, MockGetRackTopology).
LEMMA MockTablesAgree ==
  LET table == MockGetTopologyMap IN IsTree(table) /\ HopsListed(table) /\ RacksListed(table)
<1> DEFINE table == MockGetTopologyMap
           rack1 == {"node-1", "node-2", "node-3"}
           rack2 == {"node-4", "node-5"}
<1>1. DOMAIN table = Names /\ Names = rack1 \union rack2 /\ rack1 \intersect rack2 = {}
  BY DEF MockGetTopologyMap, Names
<1>2. \A n \in rack1 : table[n] = Info(n, "rack-1", "core-switch-1", HopsFromRack1(n))
  BY DEF MockGetTopologyMap, Names
<1>3. \A n \in rack2 : table[n] = Info(n, "rack-2", "core-switch-1", HopsFromRack2(n))
  BY DEF MockGetTopologyMap, Names
<1>4. \A n \in Names : /\ table[n].NodeName = n /\ table[n].CoreSwitchID = "core-switch-1"
                       /\ table[n].RackID = IF n \in rack1 THEN "rack-1" ELSE "rack-2"
  BY <1>1, <1>2, <1>3 DEF Info
<1>5. IsTree(table)
  BY <1>1, <1>4 DEF IsTree
<1>6. RacksListed(table)
  <2> SUFFICES ASSUME NEW n \in Names, NEW m \in Names
               PROVE  table[n].RackID = table[m].RackID <=>
                        \E r \in DOMAIN MockGetRackTopology : {n, m} \subseteq MockGetRackTopology[r]
    BY <1>1 DEF RacksListed
  <2>1. table[n].RackID = table[m].RackID <=> (n \in rack1 <=> m \in rack1)
    BY <1>4
  <2>2. /\ DOMAIN MockGetRackTopology = {"rack-1", "rack-2"}
        /\ MockGetRackTopology["rack-1"] = rack1 /\ MockGetRackTopology["rack-2"] = rack2
    BY DEF MockGetRackTopology
  <2> HIDE DEF table, rack1, rack2
  <2> QED  BY <1>1, <2>1, <2>2
<1>7. HopsListed(table)
  <2> SUFFICES ASSUME NEW n \in Names, NEW m \in Names
               PROVE  table[n].HopCountToOther[m] = CalculateHopCount(table[n], table[m])
    BY <1>1 DEF HopsListed
  <2>1. CalculateHopCount(table[n], table[m])
          = IF n = m THEN 0 ELSE IF n \in rack1 <=> m \in rack1 THEN 1 ELSE 2
    BY <1>1, <1>4 DEF CalculateHopCount
  <2>2. CASE n \in rack1
    <3>1. table[n].HopCountToOther = HopsFromRack1(n)
      BY <1>2, <2>2 DEF Info
    <3>2. HopsFromRack1(n)[m] = IF n = m THEN 0 ELSE IF m \in rack1 THEN 1 ELSE 2
      BY <1>1, <2>2 DEF HopsFromRack1
    <3> QED  BY <2>1, <2>2, <3>1, <3>2
  <2>3. CASE n \in rack2
    <3>1. table[n].HopCountToOther = HopsFromRack2(n)
      BY <1>3, <2>3 DEF Info
    <3>2. HopsFromRack2(n)[m] = IF n = m THEN 0 ELSE IF m \in rack2 THEN 1 ELSE 2
      BY <1>1, <2>3 DEF HopsFromRack2
    <3> QED  BY <1>1, <2>1, <2>3, <3>1, <3>2
  <2> QED  BY <1>1, <2>2, <2>3
<1> QED  BY <1>5, <1>6, <1>7

\* There, back and there again: the average is at most one if the two are in one rack.
LEMMA AverageThereAndBack ==
  ASSUME NEW table, IsTree(table), NEW n \in DOMAIN table, NEW m \in DOMAIN table,
         NEW targets \in Seq(DOMAIN table)
  PROVE  LET average == CalculateAverageHopCount(table[n], targets, table) IN
         Len(targets) = 3 /\ targets[1] = m /\ targets[2] = n /\ targets[3] = m =>
           (CalculateHopCount(table[n], table[m]) <= 1 <=> average.hops <= average.over)
<1> DEFINE a == table[n]
           hops == CalculateHopCount(a, table[m])
           average == CalculateAverageHopCount(a, targets, table)
           len == Len(targets)
<1>1. ASSUME len \in Nat
      PROVE  \E total \in [0..len -> Nat] :
               /\ total[0] = 0
               /\ \A i \in 1..len : total[i] = total[i - 1] + HopsTo(a, targets[i], table)
               /\ average = [hops |-> total[len], over |-> len]
  BY <1>1, AverageTotals
<1>2. hops \in 0..3 /\ HopsTo(a, m, table) = hops /\ HopsTo(a, n, table) = 0
  BY HopCases DEF HopsTo, IsTree
<1> HIDE DEF hops, average, a
<1>3. ASSUME len = 3, targets[1] = m, targets[2] = n, targets[3] = m
      PROVE  hops <= 1 <=> average.hops <= average.over
  <2>1. PICK total \in [0..3 -> Nat] :
          /\ total[0] = 0
          /\ \A i \in 1..3 : total[i] = total[i - 1] + HopsTo(a, targets[i], table)
          /\ average = [hops |-> total[3], over |-> 3]
    BY <1>1, <1>3
  <2>2. total[1] = total[0] + HopsTo(a, targets[1], table)
    BY <2>1
  <2>3. total[2] = total[1] + HopsTo(a, targets[2], table)
    BY <2>1
  <2>4. total[3] = total[2] + HopsTo(a, targets[3], table)
    BY <2>1
  <2>5. total[3] = hops + hops
    BY <1>2, <1>3, <2>1, <2>2, <2>3, <2>4
  <2> QED  BY <1>2, <2>1, <2>5
<1> QED  BY <1>3 DEF hops, average, a

\* Tables that agree go on agreeing when nodes leave.
LEMMA PresentAgrees ==
  ASSUME IsTree(topologyMap), HopsListed(topologyMap), RacksListed(topologyMap)
  PROVE  DistancesAgree
<1>1. DOMAIN Present \subseteq DOMAIN topologyMap /\ \A n \in DOMAIN Present : Present[n] = topologyMap[n]
  BY DEF Present
<1>2. IsTree(Present)
  BY <1>1 DEF IsTree
<1> SUFFICES ASSUME NEW n \in DOMAIN Present, NEW m \in DOMAIN Present
             PROVE  LET a == Present[n]  b == Present[m]  hops == CalculateHopCount(a, b)
                        average == CalculateAverageHopCount(a, <<m, n, m>>, Present)
                    IN  /\ hops = a.HopCountToOther[m] /\ hops = CalculateHopCount(b, a)
                        /\ hops <= 1 <=> CalculateRackDistance(a, b) = 0
                        /\ hops <= 1 <=> m \in FindNodesInSameRack(n, Present)
                        /\ hops <= 1 <=> \E r \in DOMAIN MockGetRackTopology :
                                           {n, m} \subseteq MockGetRackTopology[r]
                        /\ hops <= 1 <=> average.hops <= average.over
  BY DEF DistancesAgree
<1> DEFINE a == Present[n]
           b == Present[m]
           hops == CalculateHopCount(a, b)
           targets == <<m, n, m>>
           average == CalculateAverageHopCount(a, targets, Present)
<1>3. hops = a.HopCountToOther[m]
  BY <1>1 DEF HopsListed
<1>4. hops = CalculateHopCount(b, a)
  BY <1>2, HopsAreADistance
<1>5. /\ hops <= 1 <=> CalculateRackDistance(a, b) = 0
      /\ hops <= 1 <=> m \in FindNodesInSameRack(n, Present)
  BY <1>2, NearMeansSameRack
<1>6. hops <= 1 <=> \E r \in DOMAIN MockGetRackTopology : {n, m} \subseteq MockGetRackTopology[r]
  <2>1. hops <= 1 <=> a.RackID = b.RackID
    BY <1>2, HopCases DEF IsTree
  <2> QED  BY <1>1, <2>1 DEF RacksListed
<1>7. hops <= 1 <=> average.hops <= average.over
  <2>1. /\ targets \in Seq(DOMAIN Present)
        /\ Len(targets) = 3 /\ targets[1] = m /\ targets[2] = n /\ targets[3] = m
    OBVIOUS
  <2> HIDE DEF targets
  <2> QED  BY <1>2, <2>1, AverageThereAndBack
<1> QED  BY <1>3, <1>4, <1>5, <1>6, <1>7

\* With the code's tables, whichever nodes come and go and whatever hardware they are.
THEOREM Distances ==
  ASSUME topologyMap = MockGetTopologyMap
  PROVE  Spec => []DistancesAgree
<1>1. DistancesAgree
  BY MockTablesAgree, PresentAgrees
<1> QED  BY <1>1, PTL

----------------------------------------------------------------------------
(* Type correctness.                                                        *)

\* A pod gets one of the devices of its node, however its CPUs are spread.
LEMMA GrantsHaveDevices ==
  ASSUME NEW n, NEW g \in Grants(n) \union AlignedGrants(n)
  PROVE  g.device \in DOMAIN Hardware[n].DeviceNUMAMap
<1>1. FreeDevices(n) \subseteq DOMAIN Hardware[n].DeviceNUMAMap
  BY DEF FreeDevices
<1>2. CASE g \in Grants(n)
  BY <1>1, <1>2 DEF Grants
<1>3. CASE g \in AlignedGrants(n)
  BY <1>1, <1>3 DEF AlignedGrants
<1> QED  BY <1>2, <1>3

\* The bound is a number.
LEMMA BoundIsNat == MaxChanges \in Nat
  BY TablesAssumption, Zenon

\* What TypeOK says of the pods alone.
PodsOK ==
  /\ pod \in [Pods -> {"pending", "bound", "running"}]
  /\ place \in [Pods -> Nodes \union {""}] /\ DOMAIN grant = Pods
  /\ \A p \in Pods :
       /\ IF pod[p] = "pending" THEN place[p] = "" ELSE place[p] \in cluster
       /\ IF pod[p] = "running"
          THEN grant[p].device \in DOMAIN Hardware[place[p]].DeviceNUMAMap
          ELSE grant[p] = NoGrant

\* The rest of it is kept by what the actions have in common; the score is the sum of
\* two full parts.
LEMMA TypeFromParts ==
  ASSUME TypeOK, PodsOK', cluster' \subseteq Nodes, process' \in {"down", "running"},
         Change \/ UNCHANGED changes
  PROVE  TypeOK'
<1>1. changes' \in 0..MaxChanges
  <2>1. changes \in 0..MaxChanges  BY DEF TypeOK
  <2>2. (changes < MaxChanges /\ changes' = changes + 1) \/ changes' = changes
    BY DEF Change
  <2> QED  BY <2>1, <2>2, BoundIsNat
<1>2. (Score \in 0..MaxScore)'
  BY DEF Score, calculateNUMAScore, calculateRackScore, MaxScore
<1> QED  BY <1>1, <1>2 DEF TypeOK, PodsOK

\* Pods that are made anew are pending again, and the others stay where they are.
LEMMA RenewedKeepsPods ==
  ASSUME TypeOK, NEW P, Renewed(P), \A p \in Pods \ P : place[p] \in cluster => place[p] \in cluster'
  PROVE  PodsOK'
<1>1. NoGrant' = NoGrant  BY DEF NoGrant
<1>2. /\ pod' \in [Pods -> {"pending", "bound", "running"}]
      /\ place' \in [Pods -> Nodes \union {""}] /\ DOMAIN grant' = Pods
  BY DEF TypeOK, Renewed
<1>3. ASSUME NEW p \in Pods, p \in P
      PROVE  pod'[p] = "pending" /\ place'[p] = "" /\ grant'[p] = NoGrant
  BY <1>3 DEF Renewed
<1>4. ASSUME NEW p \in Pods, p \notin P
      PROVE  pod'[p] = pod[p] /\ place'[p] = place[p] /\ grant'[p] = grant[p]
  BY <1>4 DEF Renewed
<1>5. ASSUME NEW p \in Pods
      PROVE  /\ IF pod'[p] = "pending" THEN place'[p] = "" ELSE place'[p] \in cluster'
             /\ IF pod'[p] = "running"
                THEN grant'[p].device \in DOMAIN Hardware[place'[p]].DeviceNUMAMap
                ELSE grant'[p] = NoGrant
  <2>1. CASE p \in P  BY <2>1, <1>3
  <2>2. CASE p \notin P  BY <2>2, <1>4 DEF TypeOK
  <2> QED  BY <2>1, <2>2
<1> QED  BY <1>1, <1>2, <1>5 DEF PodsOK

\* Type correctness is kept by every step.
LEMMA TypeStep ==
  ASSUME TypeOK, [Next]_vars
  PROVE  TypeOK'
<1>1. NoGrant' = NoGrant  BY DEF NoGrant
<1>2. ASSUME UNCHANGED <<pod, place, grant>>, cluster \subseteq cluster'  PROVE PodsOK'
  BY <1>1, <1>2 DEF PodsOK, TypeOK
<1>3. cluster \subseteq Nodes /\ process \in {"down", "running"}
  BY DEF TypeOK
<1>4. ASSUME NEW n \in Nodes, Join(n)  PROVE TypeOK'
  BY <1>2, <1>3, <1>4, TypeFromParts DEF Join
<1>5. ASSUME NEW n \in Nodes, Leave(n)  PROVE TypeOK'
  <2>1. \A p \in Pods \ OnNode(n) : place[p] \in cluster => place[p] \in cluster'
    BY <1>5 DEF Leave, OnNode
  <2> QED  BY <1>3, <1>5, <2>1, RenewedKeepsPods, TypeFromParts DEF Leave
<1>6. ASSUME NEW p \in Pods, FilterPanics(p)  PROVE TypeOK'
  BY <1>2, <1>3, <1>6, TypeFromParts DEF FilterPanics
<1>7. ASSUME NEW p \in Pods, Schedule(p)  PROVE TypeOK'
  <2>1. PICK n \in cluster : /\ pod' = [pod EXCEPT ![p] = "bound"]
                             /\ place' = [place EXCEPT ![p] = n]
    BY <1>7 DEF Schedule, Candidates
  <2>2. pod[p] = "pending" /\ UNCHANGED <<cluster, process, grant, changes>>
    BY <1>7 DEF Schedule
  <2>3. PodsOK'
    BY <1>1, <1>3, <2>1, <2>2 DEF PodsOK, TypeOK
  <2> QED  BY <1>3, <2>2, <2>3, TypeFromParts
<1>8. ASSUME NEW p \in Pods, Admit(p)  PROVE TypeOK'
  <2>1. PICK g \in Grants(place[p]) \union AlignedGrants(place[p]) :
          grant' = [grant EXCEPT ![p] = g]
    BY <1>8 DEF Admit
  <2>2. /\ pod[p] = "bound" /\ pod' = [pod EXCEPT ![p] = "running"]
        /\ UNCHANGED <<cluster, process, place, changes>>
    BY <1>8 DEF Admit
  <2>3. g.device \in DOMAIN Hardware[place[p]].DeviceNUMAMap
    BY GrantsHaveDevices
  <2>4. PodsOK'
    BY <1>1, <2>1, <2>2, <2>3 DEF PodsOK, TypeOK
  <2> QED  BY <1>3, <2>2, <2>4, TypeFromParts
<1>9. ASSUME NEW p \in Pods, PodEnds(p)  PROVE TypeOK'
  BY <1>3, <1>9, RenewedKeepsPods, TypeFromParts DEF PodEnds
<1>10. ASSUME StartProcess \/ Crash  PROVE TypeOK'
  BY <1>2, <1>3, <1>10, TypeFromParts DEF StartProcess, Crash
<1>11. ASSUME UNCHANGED vars  PROVE TypeOK'
  BY <1>2, <1>3, <1>11, TypeFromParts DEF vars
<1> QED  BY <1>4, <1>5, <1>6, <1>7, <1>8, <1>9, <1>10, <1>11 DEF Next

\* The plugin and the cluster around it are type correct for all hardware and tables:
\* a pod that is placed is on a node that exists, also when nodes leave in the middle
\* of its admission, and holds one of its devices (Filter, Score).
THEOREM TypeCorrect == Spec => []TypeOK
<1>1. Init => TypeOK
  <2> SUFFICES ASSUME Init  PROVE TypeOK
    OBVIOUS
  <2>1. Score \in 0..MaxScore
    BY DEF Score, calculateNUMAScore, calculateRackScore, MaxScore
  <2>2. changes \in 0..MaxChanges
    <3>1. changes = 0  BY DEF Init
    <3> QED  BY <3>1, BoundIsNat
  <2> QED  BY <2>1, <2>2 DEF Init, TypeOK
<1>2. TypeOK /\ [Next]_vars => TypeOK'
  BY TypeStep
<1> QED  BY <1>1, <1>2, PTL DEF Spec

----------------------------------------------------------------------------
(* Alignment.                                                               *)

\* What the hardware must be like: every NUMA node of a node that passes Filter has the
\* CPUs that its devices call for, were each of them given to a pod of its own.
AmpleHardware ==
  \A n \in DOMAIN numaMap :
    LET at == numaMap[n].DeviceNUMAMap IN
    /\ IsFiniteSet(DOMAIN at) /\ "" \notin DOMAIN at
    /\ Filter(n) => \A k \in DOMAIN numaMap[n].CPUs :
         getCPURequest * Cardinality({d \in DOMAIN at : at[d] = k}) <= numaMap[n].CPUs[k]

\* The hardware of the plugin's own table is like that (MockGetNUMAMap).
LEMMA MockIsAmple ==
  ASSUME numaMap = MockGetNUMAMap
  PROVE  AmpleHardware
<1> DEFINE at(n) == numaMap[n].DeviceNUMAMap
           on(n, k) == {d \in DOMAIN at(n) : at(n)[d] = k}
<1>1. /\ DOMAIN numaMap = {"node-1", "node-2"}
      /\ DOMAIN at("node-1") = {"mlx5_0", "mlx5_1"} /\ DOMAIN at("node-2") = {"mlx5_0"}
      /\ numaMap["node-1"].CPUs = [k \in {0, 1} |-> 8]
      /\ numaMap["node-2"].CPUs = [k \in {0} |-> 16]
  BY DEF MockGetNUMAMap
<1>2. on("node-1", 0) = {"mlx5_0"} /\ on("node-1", 1) = {"mlx5_1"} /\ on("node-2", 0) = {"mlx5_0"}
  BY DEF MockGetNUMAMap
<1>3. IsFiniteSet(DOMAIN at("node-1")) /\ IsFiniteSet(DOMAIN at("node-2"))
  <2>1. IsFiniteSet({"mlx5_0"})
    BY FS_Singleton
  <2>2. IsFiniteSet({"mlx5_0"} \union {"mlx5_1"})
    BY <2>1, FS_AddElement
  <2>3. {"mlx5_0"} \union {"mlx5_1"} = {"mlx5_0", "mlx5_1"}
    OBVIOUS
  <2> QED  BY <1>1, <2>1, <2>2, <2>3
<1>4. /\ Cardinality(on("node-1", 0)) = 1 /\ Cardinality(on("node-1", 1)) = 1
      /\ Cardinality(on("node-2", 0)) = 1
  BY <1>2, FS_Singleton
<1>5. ASSUME NEW n \in DOMAIN numaMap, NEW k \in DOMAIN numaMap[n].CPUs
      PROVE  getCPURequest * Cardinality(on(n, k)) <= numaMap[n].CPUs[k]
  <2> HIDE DEF on
  <2>1. CASE n = "node-1"  BY <2>1, <1>1, <1>4, <1>5 DEF getCPURequest
  <2>2. CASE n = "node-2"  BY <2>2, <1>1, <1>4, <1>5 DEF getCPURequest
  <2> QED  BY <1>1, <2>1, <2>2
<1>6. ASSUME NEW n \in DOMAIN numaMap  PROVE "" \notin DOMAIN at(n)
  <2>1. "" \notin {"mlx5_0", "mlx5_1"}  OBVIOUS
  <2>2. CASE n = "node-1"  BY <1>1, <2>1, <2>2
  <2>3. CASE n = "node-2"  BY <1>1, <2>1, <2>3
  <2> QED  BY <1>1, <2>2, <2>3
<1> QED  BY <1>1, <1>3, <1>5, <1>6 DEF AmpleHardware

\* What an aligned grant holds of each NUMA node.
Near(n, d) ==
  [k \in DOMAIN Hardware[n].CPUs |->
     IF k = Hardware[n].DeviceNUMAMap[d] THEN getCPURequest ELSE 0]

\* The inductive invariant: pods are where the plugin let them, no more of them than
\* there are devices, each with the CPUs near a device that no other pod holds.
Alignment ==
  /\ \A p \in Pods : place[p] # "" => place[p] \in DOMAIN numaMap /\ Filter(place[p])
  /\ \A n \in DOMAIN numaMap :
       /\ IsFiniteSet(OnNode(n))
       /\ Cardinality(OnNode(n)) <= Cardinality(DOMAIN Hardware[n].DeviceNUMAMap)
  /\ \A p \in Pods : pod[p] = "running" => grant[p].cpus = Near(place[p], grant[p].device)
  /\ \A p, q \in Pods :
       pod[p] = "running" /\ pod[q] = "running" /\ p # q /\ place[p] = place[q]
         => grant[p].device # grant[q].device

LEMMA AlignedGrantsAreNear ==
  ASSUME NEW n, NEW g \in AlignedGrants(n)
  PROVE  g.device \in FreeDevices(n) /\ g.cpus = Near(n, g.device)
BY DEF AlignedGrants, Near

\* A table entry and the hardware it describes.
LEMMA TableIsHardware ==
  ASSUME NEW n \in DOMAIN numaMap
  PROVE  /\ n \in Nodes /\ n # "" /\ numaMap[n] = Hardware[n]
         /\ \A k \in DOMAIN Hardware[n].CPUs : Hardware[n].CPUs[k] \in Nat
         /\ \A d \in DOMAIN Hardware[n].DeviceNUMAMap :
              Hardware[n].DeviceNUMAMap[d] \in DOMAIN Hardware[n].CPUs
BY TablesAssumption DEF Nodes, IsNUMAInfo

\* The CPUs of a NUMA node that are taken are eight for each pod that holds one of its
\* devices, so that there are eight left for a device that is free.
LEMMA FreeDevicesHaveCPUs ==
  ASSUME AmpleHardware, TypeOK, Alignment,
         NEW n \in DOMAIN numaMap, Filter(n), NEW d \in FreeDevices(n)
  PROVE  FreeCPUs(n)[Hardware[n].DeviceNUMAMap[d]] >= getCPURequest
<1> DEFINE at == Hardware[n].DeviceNUMAMap
           k == at[d]
           D == {e \in DOMAIN at : at[e] = k}
           taken == [p \in OnNode(n) |-> IF grant[p] = NoGrant THEN 0 ELSE grant[p].cpus[k]]
           H == {p \in OnNode(n) : taken[p] = 8}
<1>1. d \in D /\ k \in DOMAIN Hardware[n].CPUs /\ Hardware[n].CPUs[k] \in Nat
  BY TableIsHardware DEF FreeDevices
<1>2. FreeCPUs(n)[k] = Hardware[n].CPUs[k] - SumFunctionOnSet(taken, OnNode(n))
  BY <1>1 DEF FreeCPUs
<1>3. ASSUME NEW p \in OnNode(n)
      PROVE  /\ taken[p] \in {0, 8}
             /\ taken[p] = 8 => pod[p] = "running" /\ grant[p].device \in D
  <2>1. p \in Pods /\ place[p] = n /\ pod[p] \in {"bound", "running"}
    BY TableIsHardware DEF OnNode, TypeOK
  <2>2. CASE grant[p] = NoGrant
    BY <2>2
  <2>3. CASE grant[p] # NoGrant
    <3>1. pod[p] = "running" /\ grant[p].device \in DOMAIN at
      BY <2>1, <2>3 DEF TypeOK
    <3>2. grant[p].cpus = Near(n, grant[p].device)
      BY <2>1, <3>1 DEF Alignment
    <3>3. taken[p] = IF k = at[grant[p].device] THEN 8 ELSE 0
      BY <1>1, <2>3, <3>2 DEF Near, getCPURequest
    <3> QED  BY <3>1, <3>3
  <2> QED  BY <2>2, <2>3
<1>4. IsFiniteSet(OnNode(n)) /\ IsFiniteSet(H) /\ IsFiniteSet(D)
  <2>1. IsFiniteSet(OnNode(n)) /\ IsFiniteSet(DOMAIN at)
    BY TableIsHardware DEF Alignment, AmpleHardware
  <2> QED  BY <2>1, FS_Subset
<1>5. SumFunctionOnSet(taken, OnNode(n)) = 8 * Cardinality(H)
  <2> HIDE DEF taken
  <2> QED  BY <1>3, <1>4, SumOfShares
<1>6. Cardinality(H) <= Cardinality(D \ {d})
  <2> DEFINE held == [p \in H |-> grant[p].device]
  <2>1. ASSUME NEW p \in H  PROVE held[p] \in D \ {d} /\ p \in Pods /\ pod[p] = "running" /\ place[p] = n
    BY <1>3 DEF FreeDevices, OnNode
  <2>2. ASSUME NEW p \in H, NEW q \in H, held[p] = held[q]
        PROVE  p = q
    <3>1. grant[p].device = grant[q].device
      BY <2>2
    <3> HIDE DEF H, held
    <3> QED  BY <2>1, <3>1 DEF Alignment
  <2>3. held \in Injection(H, D \ {d})
    <3>1. held \in [H -> D \ {d}]
      BY <2>1
    <3> QED  BY <2>2, <3>1 DEF Injection, IsInjective
  <2>4. IsFiniteSet(D \ {d})
    BY <1>4, FS_RemoveElement
  <2> QED  BY <2>3, <2>4, FS_Injection
<1>7. Cardinality(D \ {d}) = Cardinality(D) - 1
  BY <1>1, <1>4, FS_RemoveElement
<1>8. Cardinality(H) \in Nat /\ Cardinality(D) \in Nat
  BY <1>4, FS_CardinalityType
<1>9. 8 * Cardinality(D) <= Hardware[n].CPUs[k]
  BY <1>1, TableIsHardware DEF AmpleHardware, getCPURequest
<1> HIDE DEF H, D, taken, k
<1>10. Hardware[n].CPUs[k] - SumFunctionOnSet(taken, OnNode(n)) >= 8
  BY <1>1, <1>5, <1>6, <1>7, <1>8, <1>9
<1> QED  BY <1>2, <1>10 DEF k, getCPURequest

\* So that the kubelet, which gives what is aligned where it can, always does.
LEMMA GrantsAreAligned ==
  ASSUME AmpleHardware, TypeOK, Alignment, NEW p \in Pods, pod[p] = "bound",
         NEW g \in IF AlignedGrants(place[p]) # {} THEN AlignedGrants(place[p]) ELSE Grants(place[p])
  PROVE  g.device \in FreeDevices(place[p]) /\ g.cpus = Near(place[p], g.device)
<1> DEFINE n == place[p]
<1>1. n \in DOMAIN numaMap /\ Filter(n)
  BY TablesAssumption DEF TypeOK, Alignment, Nodes
<1>2. ASSUME NEW d \in FreeDevices(n)  PROVE AlignedGrants(n) # {}
  BY <1>1, FreeDevicesHaveCPUs DEF AlignedGrants
<1>3. CASE AlignedGrants(n) # {}
  BY <1>3, AlignedGrantsAreNear
<1>4. CASE AlignedGrants(n) = {}
  BY <1>2, <1>4 DEF Grants
<1> QED  BY <1>3, <1>4

\* Pods that are made anew give back what they held.
LEMMA RenewedKeepsAlignment ==
  ASSUME AmpleHardware, TypeOK, Alignment, NEW P, Renewed(P)
  PROVE  Alignment'
<1>1. ASSUME NEW p \in Pods, place'[p] # "" \/ pod'[p] = "running"
      PROVE  pod'[p] = pod[p] /\ place'[p] = place[p] /\ grant'[p] = grant[p]
  BY <1>1 DEF Renewed
<1>2. ASSUME NEW n \in DOMAIN numaMap
      PROVE  /\ IsFiniteSet(OnNode(n)')
             /\ Cardinality(OnNode(n)') <= Cardinality(DOMAIN Hardware[n].DeviceNUMAMap)
  <2>1. OnNode(n)' \subseteq OnNode(n)
    BY <1>1, TableIsHardware DEF OnNode
  <2>2. /\ IsFiniteSet(OnNode(n))
        /\ Cardinality(OnNode(n)) <= Cardinality(DOMAIN Hardware[n].DeviceNUMAMap)
    BY DEF Alignment
  <2>3. IsFiniteSet(OnNode(n)') /\ Cardinality(OnNode(n)') <= Cardinality(OnNode(n))
    BY <2>1, <2>2, FS_Subset
  <2>4. IsFiniteSet(DOMAIN Hardware[n].DeviceNUMAMap)
    BY TableIsHardware DEF AmpleHardware
  <2> QED  BY <2>2, <2>3, <2>4, FS_CardinalityType
<1>3. /\ \A p \in Pods : place'[p] # "" => place'[p] \in DOMAIN numaMap /\ Filter(place'[p])
      /\ \A p \in Pods : pod'[p] = "running" => grant'[p].cpus = Near(place'[p], grant'[p].device)
  BY <1>1 DEF Alignment
<1>4. ASSUME NEW p \in Pods, NEW q \in Pods, pod'[p] = "running", pod'[q] = "running",
             p # q, place'[p] = place'[q]
      PROVE  grant'[p].device # grant'[q].device
  BY <1>1, <1>4 DEF Alignment
<1> QED  BY <1>2, <1>3, <1>4 DEF Alignment

\* A pod is only placed where Filter and the resources of the node let it.
LEMMA ScheduleKeepsAlignment ==
  ASSUME AmpleHardware, TypeOK, Alignment, NEW p \in Pods, Schedule(p)
  PROVE  Alignment'
<1>1. PICK n \in Candidates : /\ Filter(n)
                              /\ pod' = [pod EXCEPT ![p] = "bound"]
                              /\ place' = [place EXCEPT ![p] = n]
  BY DEF Schedule
<1>2. /\ pod[p] = "pending" /\ place[p] = "" /\ grant' = grant
      /\ pod \in [Pods -> {"pending", "bound", "running"}]
      /\ place \in [Pods -> Nodes \union {""}]
  BY DEF Schedule, TypeOK
<1>3. n \in DOMAIN numaMap /\ Fits(n)
  BY DEF Schedule, CheckPanics, Candidates, getRDMARequest
<1>4. \A q \in Pods : pod'[q] = "running" =>
        q # p /\ pod[q] = "running" /\ place'[q] = place[q]
  BY <1>1, <1>2
<1>5. \A q \in Pods : place'[q] # "" => place'[q] \in DOMAIN numaMap /\ Filter(place'[q])
  BY <1>1, <1>2, <1>3 DEF Alignment
<1>6. ASSUME NEW m \in DOMAIN numaMap
      PROVE  /\ IsFiniteSet(OnNode(m)')
             /\ Cardinality(OnNode(m)') <= Cardinality(DOMAIN Hardware[m].DeviceNUMAMap)
  <2>1. /\ IsFiniteSet(OnNode(m)) /\ Cardinality(OnNode(m)) \in Nat
        /\ Cardinality(OnNode(m)) <= Cardinality(DOMAIN Hardware[m].DeviceNUMAMap)
    BY FS_CardinalityType DEF Alignment
  <2>2. Cardinality(DOMAIN Hardware[m].DeviceNUMAMap) \in Nat
    BY TableIsHardware, FS_CardinalityType DEF AmpleHardware
  <2>3. CASE m # n
    <3>1. OnNode(m)' = OnNode(m)
      BY <1>1, <1>2, <2>3, TableIsHardware DEF OnNode
    <3> QED  BY <2>1, <3>1
  <2>4. CASE m = n
    <3>1. OnNode(m)' = OnNode(m) \union {p} /\ p \notin OnNode(m)
      BY <1>1, <1>2, <2>4, TableIsHardware DEF OnNode
    <3>2. IsFiniteSet(OnNode(m) \union {p})
          /\ Cardinality(OnNode(m) \union {p}) = Cardinality(OnNode(m)) + 1
      BY <2>1, <3>1, FS_AddElement
    <3>3. Cardinality(OnNode(m)) + 1 <= Cardinality(DOMAIN Hardware[m].DeviceNUMAMap)
      BY <1>3, <2>1, <2>2, <2>4 DEF Fits, getRDMARequest
    <3> QED  BY <3>1, <3>2, <3>3
  <2> QED  BY <2>3, <2>4
<1>7. \A q \in Pods : pod'[q] = "running" => grant'[q].cpus = Near(place'[q], grant'[q].device)
  BY <1>2, <1>4 DEF Alignment
<1>8. ASSUME NEW q \in Pods, NEW r \in Pods,
             pod'[q] = "running", pod'[r] = "running", q # r, place'[q] = place'[r]
      PROVE  grant'[q].device # grant'[r].device
  BY <1>2, <1>4, <1>8 DEF Alignment
<1> QED  BY <1>5, <1>6, <1>7, <1>8 DEF Alignment

\* A pod that is admitted gets a device that no pod of its node holds, and CPUs near it.
LEMMA AdmitKeepsAlignment ==
  ASSUME AmpleHardware, TypeOK, Alignment, NEW p \in Pods, Admit(p)
  PROVE  Alignment'
<1> DEFINE n == place[p]
<1>1. PICK g \in IF AlignedGrants(n) # {} THEN AlignedGrants(n) ELSE Grants(n) :
        grant' = [grant EXCEPT ![p] = g]
  BY DEF Admit
<1>2. /\ pod[p] = "bound" /\ pod' = [pod EXCEPT ![p] = "running"] /\ place' = place
      /\ pod \in [Pods -> {"pending", "bound", "running"}] /\ DOMAIN grant = Pods
  BY DEF Admit, TypeOK
<1>3. g.device \in FreeDevices(n) /\ g.cpus = Near(n, g.device)
  BY <1>2, GrantsAreAligned
<1>4. grant'[p] = g /\ \A q \in Pods \ {p} : grant'[q] = grant[q] /\ pod'[q] = pod[q]
  BY <1>1, <1>2
<1>5. \A q \in Pods : pod'[q] = "running" => grant'[q].cpus = Near(place'[q], grant'[q].device)
  BY <1>2, <1>3, <1>4 DEF Alignment
<1>6. ASSUME NEW q \in Pods \ {p}, place[q] = n  PROVE grant[q].device # g.device
  BY <1>3, <1>6 DEF FreeDevices, OnNode
<1>7. ASSUME NEW q \in Pods, NEW r \in Pods,
             pod'[q] = "running", pod'[r] = "running", q # r, place'[q] = place'[r]
      PROVE  grant'[q].device # grant'[r].device
  <2>1. CASE q = p \/ r = p
    BY <1>2, <1>4, <1>6, <1>7, <2>1
  <2>2. CASE q # p /\ r # p
    <3>1. pod[q] = "running" /\ pod[r] = "running" /\ place[q] = place[r]
      BY <1>2, <1>4, <1>7, <2>2
    <3>2. grant[q].device # grant[r].device
      BY <1>7, <3>1 DEF Alignment
    <3> QED  BY <1>4, <2>2, <3>2
  <2> QED  BY <2>1, <2>2
<1>8. \A m \in DOMAIN numaMap : OnNode(m)' = OnNode(m)
  BY <1>2 DEF OnNode
<1> QED  BY <1>2, <1>5, <1>7, <1>8 DEF Alignment

LEMMA AlignmentStep ==
  ASSUME AmpleHardware, TypeOK, Alignment, [Next]_vars
  PROVE  Alignment'
<1>1. ASSUME UNCHANGED <<pod, place, grant>>  PROVE Alignment'
  BY <1>1 DEF Alignment, OnNode
<1>2. ASSUME NEW n \in Nodes, Join(n) \/ Leave(n)  PROVE Alignment'
  BY <1>1, <1>2, RenewedKeepsAlignment DEF Join, Leave
<1>3. ASSUME NEW p \in Pods, FilterPanics(p) \/ PodEnds(p)  PROVE Alignment'
  BY <1>1, <1>3, RenewedKeepsAlignment DEF FilterPanics, PodEnds
<1>4. ASSUME StartProcess \/ Crash \/ UNCHANGED vars  PROVE Alignment'
  BY <1>1, <1>4 DEF StartProcess, Crash, vars
<1> QED  BY <1>2, <1>3, <1>4, ScheduleKeepsAlignment, AdmitKeepsAlignment DEF Next

\* The type invariant and the alignment together are an inductive invariant.
LEMMA AlignmentHolds ==
  ASSUME AmpleHardware
  PROVE  Spec => [](TypeOK /\ Alignment)
<1>1. Init => Alignment
  <2> SUFFICES ASSUME Init  PROVE Alignment
    OBVIOUS
  <2>1. \A n \in DOMAIN numaMap : OnNode(n) = {} /\ IsFiniteSet(DOMAIN Hardware[n].DeviceNUMAMap)
    BY TableIsHardware DEF Init, OnNode, AmpleHardware
  <2>2. ASSUME NEW n \in DOMAIN numaMap
        PROVE  /\ IsFiniteSet(OnNode(n))
               /\ Cardinality(OnNode(n)) <= Cardinality(DOMAIN Hardware[n].DeviceNUMAMap)
    <3>1. IsFiniteSet(OnNode(n)) /\ Cardinality(OnNode(n)) = 0
      BY <2>1, FS_EmptySet
    <3>2. Cardinality(DOMAIN Hardware[n].DeviceNUMAMap) \in Nat
      BY <2>1, FS_CardinalityType
    <3> QED  BY <3>1, <3>2
  <2> QED  BY <2>2 DEF Init, Alignment
<1>2. TypeOK /\ Alignment /\ [Next]_vars => Alignment'
  BY AlignmentStep
<1> QED  BY <1>1, <1>2, TypeCorrect, PTL DEF Spec

\* On ample hardware Filter is enough, although it looks at one device and counts CPUs
\* that other pods may be using: every pod that runs has its CPUs on the NUMA node of
\* its device, whichever pods and nodes came and went (CheckNUMAAffinity, Filter).
THEOREM PodsAligned ==
  ASSUME AmpleHardware
  PROVE  Spec => []PodsAreAligned
<1>1. TypeOK /\ Alignment => PodsAreAligned
  <2> SUFFICES ASSUME TypeOK, Alignment, NEW p \in Pods, pod[p] = "running"
               PROVE  grant[p].cpus[Hardware[place[p]].DeviceNUMAMap[grant[p].device]] = getCPURequest
    BY DEF PodsAreAligned
  <2>1. place[p] \in DOMAIN numaMap /\ grant[p].device \in DOMAIN Hardware[place[p]].DeviceNUMAMap
    BY TablesAssumption DEF TypeOK, Alignment, Nodes
  <2>2. grant[p].cpus = Near(place[p], grant[p].device)
    BY DEF Alignment
  <2> QED  BY <2>1, <2>2, TableIsHardware DEF Near
<1> QED  BY <1>1, AlignmentHolds, PTL

\* A node with a pod that waits for its admission has a device to spare: the pods there
\* are at most as many as the devices, and this one holds none.
LEMMA SomeDeviceIsFree ==
  ASSUME AmpleHardware, TypeOK, Alignment, NEW p \in Pods, pod[p] = "bound"
  PROVE  FreeDevices(place[p]) # {}
<1> DEFINE n == place[p]
           D == DOMAIN Hardware[n].DeviceNUMAMap
           R == {q \in OnNode(n) : pod[q] = "running"}
           held == [q \in R |-> grant[q].device]
<1> SUFFICES ASSUME FreeDevices(n) = {}  PROVE FALSE
  OBVIOUS
<1>1. n \in DOMAIN numaMap
  BY TablesAssumption DEF TypeOK, Alignment, Nodes
<1>2. /\ IsFiniteSet(OnNode(n)) /\ IsFiniteSet(D) /\ "" \notin D
      /\ Cardinality(OnNode(n)) <= Cardinality(D)
  BY <1>1, TableIsHardware DEF Alignment, AmpleHardware
<1>3. /\ IsFiniteSet(OnNode(n) \ {p}) /\ Cardinality(OnNode(n) \ {p}) = Cardinality(OnNode(n)) - 1
      /\ R \subseteq OnNode(n) \ {p}
  <2>1. p \in OnNode(n)  BY DEF OnNode
  <2> QED  BY <1>2, <2>1, FS_RemoveElement
<1>4. IsFiniteSet(R) /\ Cardinality(R) <= Cardinality(OnNode(n)) - 1
  BY <1>3, FS_Subset
<1>5. held \in Surjection(R, D)
  <2>1. ASSUME NEW q \in R  PROVE grant[q].device \in D
    BY DEF TypeOK, OnNode
  <2>2. ASSUME NEW d \in D  PROVE \E q \in R : held[q] = d
    <3>1. PICK q \in OnNode(n) : grant[q].device = d
      BY DEF FreeDevices
    <3>2. CASE pod[q] # "running"
      <4>1. grant[q] = NoGrant
        BY <3>2 DEF TypeOK, OnNode
      <4>2. NoGrant.device = ""
        BY DEF NoGrant
      <4> QED  BY <1>2, <3>1, <4>1, <4>2
    <3> QED  BY <3>1, <3>2
  <2>3. held \in [R -> D]
    BY <2>1
  <2> QED  BY <2>2, <2>3 DEF Surjection
<1>6. Cardinality(D) <= Cardinality(R)
  BY <1>4, <1>5, FS_Surjection
<1>7. Cardinality(D) \in Nat /\ Cardinality(R) \in Nat /\ Cardinality(OnNode(n)) \in Nat
  BY <1>2, <1>4, FS_CardinalityType
<1> HIDE DEF n, R, D, held
<1>8. Cardinality(D) <= Cardinality(OnNode(n)) - 1
  BY <1>4, <1>6, <1>7
<1>9. Cardinality(OnNode(n)) <= Cardinality(D)
  BY <1>2
<1> QED  BY <1>7, <1>8, <1>9

\* A pod that waits for its admission.
AdmissionNeverWaits ==
  \A p \in Pods : pod[p] = "bound" => AlignedGrants(place[p]) # {}

\* Nor does a pod that the plugin let on a node ever wait for another one to end: the
\* node has a device for it and the CPUs near it (Filter, with NodeResourcesFit).
THEOREM AdmissionHasRoom ==
  ASSUME AmpleHardware
  PROVE  Spec => []AdmissionNeverWaits
<1>1. TypeOK /\ Alignment => AdmissionNeverWaits
  <2> SUFFICES ASSUME TypeOK, Alignment, NEW p \in Pods, pod[p] = "bound"
               PROVE  AlignedGrants(place[p]) # {}
    BY DEF AdmissionNeverWaits
  <2>1. place[p] \in DOMAIN numaMap /\ Filter(place[p])
    BY TablesAssumption DEF TypeOK, Alignment, Nodes
  <2>2. PICK d \in FreeDevices(place[p]) : TRUE
    BY SomeDeviceIsFree
  <2>3. FreeCPUs(place[p])[Hardware[place[p]].DeviceNUMAMap[d]] >= getCPURequest
    BY <2>1, FreeDevicesHaveCPUs
  <2> QED  BY <2>3 DEF AlignedGrants
<1> QED  BY <1>1, AlignmentHolds, PTL

\* So it is, in particular, with the table of the plugin (MockGetNUMAMap).
COROLLARY PodsAlignedByTheTable ==
  ASSUME numaMap = MockGetNUMAMap
  PROVE  Spec => []PodsAreAligned
BY MockIsAmple, PodsAligned
=============================================================================
