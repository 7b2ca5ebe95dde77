----------------------------- MODULE KeySearch ------------------------------
(***************************************************************************)
(* The search for a key in the keys of one node: one key after the other,  *)
(* or, for int keys, SimdWidth keys at a time (SIMDOptimizer.h).           *)
(***************************************************************************)
EXTENDS Integers, Sequences

CONSTANT SimdWidth  \* keys that one SIMD register holds

ASSUME SimdWidthAssumption == SimdWidth \in Nat \ {0}

(* As in the code, indices count from 0.                                   *)
KeyAt(keys, i) == keys[i + 1]

IsFirst(S, i) == i \in S /\ \A j \in S : i <= j

(* Mutant: a key equal to k ends the scan.                                 *)
ScanNotBelow(keys, from, k) ==
    CHOOSE i \in 0 .. Len(keys) :
        IsFirst({j \in from .. Len(keys) : j < Len(keys) => KeyAt(keys, j) >= k}, i)

(* The first index from "from" on whose key is above k, or the number of   *)
(* keys: the loop of SeqNode::getGtKeyIdx, of the generic                  *)
(* getGtKeyIdxSpecialized and of the last lines of the one for int.        *)
Scan(keys, from, k) ==
    CHOOSE i \in 0 .. Len(keys) :
        IsFirst({j \in from .. Len(keys) : j < Len(keys) => KeyAt(keys, j) > k}, i)

(* The blocks that are compared as a whole, by number: the loop stops      *)
(* short of the last keys also when they fill a block.                     *)
Blocks(keys) == {b \in 0 .. Len(keys) : (b + 1) * SimdWidth < Len(keys)}

(* Keys of block b above k: a mask that is not zero.                       *)
Mask(keys, b, k) ==
    {i \in b * SimdWidth .. (b + 1) * SimdWidth - 1 : KeyAt(keys, i) > k}

(* The first block that is not: there the scan of the other keys begins.   *)
Rest(keys) ==
    CHOOSE r \in 0 .. Len(keys) :
        IsFirst({b \in 0 .. Len(keys) : (b + 1) * SimdWidth >= Len(keys)}, r)

(* getGtKeyIdxSpecialized for int: the first block with a key above k has  *)
(* the index; without one it is among the remaining keys.                  *)
BlockSearch(keys, k) ==
    LET hits == {b \in Blocks(keys) : Mask(keys, b, k) # {}}
    IN IF hits = {} THEN Scan(keys, Rest(keys) * SimdWidth, k)
       ELSE LET b == CHOOSE h \in hits : IsFirst(hits, h)
            IN CHOOSE i \in Mask(keys, b, k) : IsFirst(Mask(keys, b, k), i)
=============================================================================
