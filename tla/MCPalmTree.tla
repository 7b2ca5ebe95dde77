----------------------------- MODULE MCPalmTree -----------------------------
(* PalmTree with the batches of a script, one after the other: a behaviour *)
(* of PalmTree with more keys than all of them can be tried with.          *)
EXTENDS PalmTree

VARIABLE collected  \* how many batches of the script have been collected

Ins(k) == [op |-> "INSERT", key |-> k]
Del(k) == [op |-> "DELETE", key |-> k]

(* Of the tree that the inserts make, the first batch of deletes leaves an *)
(* inner node with no key and one child.                                   *)
Script == <<<<Ins(1)>>, <<Ins(2)>>, <<Ins(8)>>, <<Ins(7)>>, <<Ins(6)>>, <<Ins(5)>>,
            <<Ins(4)>>, <<Ins(3)>>, <<Del(5), Del(7)>>, <<Del(8)>>>>

ScriptInit == Init /\ collected = 0

ScriptNext ==
    \/ /\ collected < Len(Script)
       /\ Collect(Script[collected + 1])
       /\ collected' = collected + 1
    \/ /\ \/ Redistribute \/ ExecRoot
          \/ \E n \in DOMAIN todo : LeafExecute(n) \/ InternalExecute(n)
       /\ UNCHANGED collected

ScriptSpec == ScriptInit /\ [][ScriptNext]_<<vars, collected>>
=============================================================================
