---------------------------- MODULE MCDistriTree ----------------------------
(* How many calls the ranks make.                                          *)
EXTENDS DistriTree

(* Rank 0 makes up to four calls on each tree and rank 1 up to two: enough *)
(* for several copies of key 1 in a tree.  The first call of rank 0 may be *)
(* for another key.                                                        *)
CallsOfTwo == [r \in Ranks |-> [k \in Keys |-> IF k = 1 THEN 4 - 2 * r ELSE 1 - r]]

(* Trees are only built and destroyed.                                     *)
NoCalls == [r \in Ranks |-> [k \in Keys |-> 0]]
=============================================================================
