---------------------------- MODULE RackTopology ----------------------------
(***************************************************************************)
(* The rack algorithms of week3's topology scheduler (3.3, pkg/rack/       *)
(* rack.go).  A table gives the rack and the core switch of each node that *)
(* is known; the algorithms take it as an argument.                        *)
(***************************************************************************)
EXTENDS Integers, Sequences, FiniteSets

\* NodeTopologyInfo.  The rack's own switch goes with the rack and is left out.
Info(name, rack, core, hops) ==
  [NodeName |-> name, RackID |-> rack, CoreSwitchID |-> core, HopCountToOther |-> hops]

\* Mutant: the rack is forgotten.
CalculateHopCountByCore(a, b) ==
  CASE a.NodeName = b.NodeName -> 0
    [] a.NodeName # b.NodeName /\ a.CoreSwitchID = b.CoreSwitchID -> 2
    [] OTHER -> 3

CalculateHopCount(a, b) ==
  CASE a.NodeName = b.NodeName                             -> 0
    [] a.NodeName # b.NodeName /\ a.RackID = b.RackID      -> 1
    [] a.NodeName # b.NodeName /\ a.RackID # b.RackID
         /\ a.CoreSwitchID = b.CoreSwitchID                -> 2
    [] OTHER                                               -> 3

CalculateRackDistance(a, b) == IF a.RackID = b.RackID THEN 0 ELSE 1

\* The hops to the targets that the table knows, and the number of all targets,
\* by which the code divides them.
CalculateAverageHopCount(source, targets, table) ==
  LET total[i \in 0..Len(targets)] ==
        IF i = 0 THEN 0
        ELSE IF targets[i] \in DOMAIN table
             THEN total[i - 1] + CalculateHopCount(source, table[targets[i]])
             ELSE total[i - 1]
  IN  [hops |-> total[Len(targets)], over |-> Len(targets)]

NodesOfRack(rack, table) == {n \in DOMAIN table : table[n].RackID = rack}

FindNodesInSameRack(n, table) ==
  IF n \in DOMAIN table THEN NodesOfRack(table[n].RackID, table) ELSE {}

----------------------------------------------------------------------------
(* The tables the plugin is built with.                                     *)

Names == {"node-1", "node-2", "node-3", "node-4", "node-5"}

HopsFromRack1(n) == [m \in Names |-> CASE m = n -> 0
                                       [] m # n /\ m \in {"node-1", "node-2", "node-3"} -> 1
                                       [] m \in {"node-4", "node-5"} -> 2]
HopsFromRack2(n) == [m \in Names |-> CASE m = n -> 0
                                       [] m # n /\ m \in {"node-4", "node-5"} -> 1
                                       [] m \in {"node-1", "node-2", "node-3"} -> 2]

MockGetTopologyMap ==
  [n \in Names |->
     IF n \in {"node-1", "node-2", "node-3"}
     THEN Info(n, "rack-1", "core-switch-1", HopsFromRack1(n))
     ELSE Info(n, "rack-2", "core-switch-1", HopsFromRack2(n))]

MockGetRackTopology ==
  [r \in {"rack-1", "rack-2"} |->
     IF r = "rack-1" THEN {"node-1", "node-2", "node-3"} ELSE {"node-4", "node-5"}]
=============================================================================
