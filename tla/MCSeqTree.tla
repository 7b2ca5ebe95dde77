----------------------------- MODULE MCSeqTree ------------------------------
(* Loads for SeqTree.                                                      *)
EXTENDS SeqTree

Load(order, keys, copies) == [order |-> order, keys |-> keys, copies |-> copies]

(* Keys once, in trees of up to three levels; and keys that come several   *)
(* times, until they fill leaves of their own.                             *)
ManyLoads == {Load(3, 1 .. 8, 1), Load(4, 1 .. 8, 1), Load(5, 1 .. 8, 1),
              Load(3, 1 .. 4, 2), Load(3, 1 .. 3, 3)}

(* Two states that differ in the names of their nodes or in the last answer*)
(* only are one state; steps are compared with KeyBag one by one.          *)
UpToNames == <<load, Unnamed(heap), size, doubled>>
=============================================================================
