------------------------------ MODULE SeqTree -------------------------------
(***************************************************************************)
(* SeqBPlusTree: the B+ tree of one thread (seqTree.hpp, seqNode.hpp), on  *)
(* a heap of linked nodes.  CoarseLockBPlusTree is this tree under a mutex.*)
(***************************************************************************)
EXTENDS Mending

CONSTANT Loads  \* trees of order .order that get each of .keys at most .copies times

ASSUME LoadsAssumption == \A l \in Loads :
    l.order \in Nat /\ l.order >= 3 /\ l.keys \subseteq Nat /\ l.copies \in Nat

Keys == UNION {l.keys : l \in Loads}

VARIABLES load,    \* the load chosen; load.order is ORDER_
          heap,    \* id -> SeqNode, for the nodes allocated
          size,    \* size_
          answer,  \* what the last call returned
          doubled  \* ghost: keys inserted while they were there, until they are gone

vars == <<load, heap, size, answer, doubled>>

Init == /\ load \in Loads
        /\ heap = EmptyTree
        /\ size = 0
        /\ answer = "none"
        /\ doubled = {}

(* findLeafNode                                                            *)
RECURSIVE FindLeafNode(_, _, _)
FindLeafNode(h, n, k) ==
    IF h[n].isLeaf THEN n
    ELSE FindLeafNode(h, h[n].children[Scan(h[n].keys, 0, k) + 1], k)

(* insertKey                                                               *)
InsertKey(h, n, k) == SetKeys(h, n, InsertAt(h[n].keys, Scan(h[n].keys, 0, k) + 1, k))

(* removeFromLeaf, when the key is there: its first copy goes.             *)
WithoutKey(h, n, k) == SetKeys(h, n, RemoveAt(h[n].keys, Position(h[n].keys, k)))

(* toVec: the keys of the leaves as they are linked.                       *)
RECURSIVE KeysFrom(_, _)
KeysFrom(h, n) ==
    CASE n = Null -> <<>>
      [] n # Null /\ h[n].isLeaf -> h[n].keys \o KeysFrom(h, h[n].next)
      [] OTHER -> KeysFrom(h, Head(h[n].children))
ToVec(h) == KeysFrom(h, RootPtr)

Counted(h) == LET v == ToVec(h) IN [k \in Keys |-> Len(SelectSeq(v, LAMBDA x : x = k))]
Copies(h, k) == Counted(h)[k]

(* insert                                                                  *)
Insert(k) ==
    /\ Copies(heap, k) < load.copies
    /\ LET n == FindLeafNode(heap, RootPtr, k)
           h == IF n = RootPtr THEN FirstLeaf(heap) ELSE heap
           leaf == IF n = RootPtr THEN Head(h[RootPtr].children) ELSE n
           inserted == InsertKey(h, leaf, k)
       IN heap' = IF NumKeys(inserted, leaf) < load.order THEN inserted
                  ELSE Split(inserted, leaf, load.order)
    /\ size' = size + 1
    /\ answer' = "none"
    /\ doubled' = IF Copies(heap, k) > 0 THEN doubled \cup {k} ELSE doubled
    /\ UNCHANGED load

IsIn(h, k) == Contains(h[FindLeafNode(h, RootPtr, k)].keys, k)

(* get                                                                     *)
Get(k) ==
    /\ answer' = IF IsIn(heap, k) THEN "found" ELSE "missed"
    /\ UNCHANGED <<load, heap, size, doubled>>

(* Mutant: nodes merged away are not deleted.                              *)
NotFreed(s) == s.heap

(* The nodes merged away, or the root that has one child left, are deleted.*)
Freed(s) == Delete(s.heap, s.gone)

(* The last key of the tree goes, and with it the last leaf.               *)
Emptied(h, n) ==
    Delete([h EXCEPT ![RootPtr].children = <<>>, ![RootPtr].isLeaf = TRUE], {n})

(* remove, when it does not find the key at the leaf.                      *)
RemoveNone(k) ==
    /\ ~IsIn(heap, k)
    /\ answer' = "missed"
    /\ UNCHANGED <<load, heap, size, doubled>>

(* remove                                                                  *)
RemoveOne(k) ==
    /\ IsIn(heap, k)
    /\ LET n == FindLeafNode(heap, RootPtr, k)
           h == WithoutKey(heap, n, k)
       IN heap' = CASE h[n].parent = RootPtr /\ NumKeys(h, n) = 0 -> Emptied(h, n)
                    [] OTHER -> IF HasHalf(h, n, load.order) THEN h
                                ELSE Freed(Borrow(h, n, load.order))
    /\ size' = size - 1
    /\ answer' = "found"
    /\ doubled' = IF Copies(heap, k) = 1 THEN doubled \ {k} ELSE doubled
    /\ UNCHANGED load

Next == \E k \in load.keys : Insert(k) \/ Get(k) \/ RemoveNone(k) \/ RemoveOne(k)

Spec == Init /\ [][Next]_vars
-----------------------------------------------------------------------------
(* debug_checkOrdering: the keys below a child are at or above the key on  *)
(* its left and below the one on its right; a key in the tree several times*)
(* may be on both sides.                                                   *)
BetweenSeparators(h) == \A n \in DOMAIN h : \A i \in 1 .. NumChild(h, n) :
    \A k \in UNION {ToSet(h[m].keys) : m \in Below(h, h[n].children[i])} :
        /\ i > 1 => h[n].keys[i - 1] <= k
        /\ i < NumChild(h, n) => k < h[n].keys[i] \/ (k \in doubled /\ k = h[n].keys[i])

(* What debug_checkIsValid checks and more: size_ counts the keys, these   *)
(* are ordered, pointers, indices and the links of every level fit, all    *)
(* nodes but the root are half full and none is too full, all leaves are   *)
(* on one level, and every node that was taken out of the tree is deleted. *)
IsValid ==
    /\ size = Len(InOrder(heap, RootPtr))
    /\ BetweenSeparators(heap)
    /\ ParentsFit(heap) /\ LevelsLinked(heap) /\ NothingLeaked(heap)
    /\ Cardinality(Heights(heap, RootPtr)) = 1
    /\ \A n \in DOMAIN heap \ {RootPtr} :
          /\ heap[n].parent # RootPtr => HasHalf(heap, n, load.order)
          /\ IF heap[n].isLeaf THEN NumKeys(heap, n) \in 1 .. load.order - 1
                               ELSE CountsFit(heap, n, load.order)

Bag == INSTANCE KeyBag WITH bag <- Counted(heap),
                            doubtful <- doubled

(* The tree implements the bag: whatever is split, borrowed or merged on   *)
(* the way, insert adds one copy, remove takes one, get none, and the      *)
(* answers fit what is there, but for keys inserted twice.                 *)
ImplementsKeyBag == Bag!BagSpec
=============================================================================
