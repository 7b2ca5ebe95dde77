-------------------------- MODULE MCPalmScheduler --------------------------
(* A tree of three levels below rootPtr for TLC: two leaves with parents of *)
(* their own, which share the root.                                         *)
EXTENDS PalmScheduler

CONSTANTS k1, k2, leaf1, leaf2, inner1, inner2, root

MCLeafOf == [k \in {k1, k2} |-> IF k = k1 THEN leaf1 ELSE leaf2]

MCParent == [n \in {leaf1, leaf2, inner1, inner2, root} |->
    CASE n = leaf1 -> inner1
      [] n = leaf2 -> inner2
      [] n \in {inner1, inner2} -> root
      [] n = root -> RootPtr]

MCLevel == [n \in {leaf1, leaf2, inner1, inner2, root, RootPtr} |->
    CASE n \in {leaf1, leaf2} -> 0
      [] n \in {inner1, inner2} -> 1
      [] n = root -> 2
      [] n = RootPtr -> 3]

(* The same with one leaf below the root.                                   *)
MCSmallLeafOf == [k \in {k1} |-> leaf1]
MCSmallParent == [n \in {leaf1, root} |-> IF n = leaf1 THEN root ELSE RootPtr]
MCSmallLevel == [n \in {leaf1, root, RootPtr} |->
    CASE n = leaf1 -> 0 [] n = root -> 1 [] n = RootPtr -> 2]
=============================================================================
