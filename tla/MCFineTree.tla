----------------------------- MODULE MCFineTree -----------------------------
(* Loads for FineTree.                                                     *)
EXTENDS FineTree

Load(threads, order, ops, keys) ==
    [threads |-> threads, order |-> order, ops |-> ops, keys |-> keys]

AllOps == {"INSERT", "REMOVE", "GET"}

(* One operation at a time, in trees of up to three levels; inserts next to*)
(* gets, while the tree grows to three levels; writers next to each other, *)
(* in trees of two.                                                        *)
TameLoads == {Load(1, 3, AllOps, 1 .. 7), Load(1, 5, AllOps, 1 .. 8),
              Load(2, 3, {"INSERT", "GET"}, 1 .. 6), Load(3, 3, {"INSERT", "GET"}, 1 .. 4),
              Load(3, 3, {"INSERT", "REMOVE"}, 1 .. 4)}

(* Removes next to gets.                                                   *)
MixedLoads == {Load(2, 3, AllOps, 1 .. 3)}

Symmetry == Permutations(Threads)

(* Two states that differ in the names of their nodes only are one state.  *)
UpToNames ==
    LET place == Places(heap)
    IN <<load, size, pc, op, key, contents, seen, Unnamed(heap),
         [t \in Threads |-> <<place[node[t]], {place[n] : n \in held[t]}>>]>>
=============================================================================
