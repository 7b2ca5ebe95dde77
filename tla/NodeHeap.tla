------------------------------ MODULE NodeHeap ------------------------------
(***************************************************************************)
(* A B+ tree as a heap of linked nodes, and the moves its operations are   *)
(* made of: the trees of the program share the layout of a node            *)
(* (SeqNode, FreeNode and FineNode of tree.h, less the latch) and do to two *)
(* neighbours, or to a node and its parent, what is defined here.  When    *)
(* they do it, and to which nodes, is said in PalmTree and in Mending.     *)
(***************************************************************************)
EXTENDS KeySearch, FiniteSets, SequencesExt, FiniteSetsExt, TLC

RootPtr == 0       \* the dummy node above the root
Null == -1

NewNode(leaf) == [isLeaf |-> leaf, keys |-> <<>>, children |-> <<>>,
                  parent |-> Null, childIndex |-> -1, prev |-> Null, next |-> Null]

EmptyTree == [n \in {RootPtr} |-> NewNode(TRUE)]

(* A number that is no node's: there are not enough nodes for all of these.*)
Allocate(h) == CHOOSE n \in 1 .. Cardinality(DOMAIN h) : n \notin DOMAIN h

(* The heap with a new node under the name n.                              *)
Put(h, n, node) == [m \in DOMAIN h \cup {n} |-> IF m = n THEN node ELSE h[m]]
SetKeys(h, n, keys) == [h EXCEPT ![n].keys = keys]

NumKeys(h, n) == Len(h[n].keys)
NumChild(h, n) == Len(h[n].children)

Position(seq, x) == SelectInSeq(seq, LAMBDA y : y = x)

(* consolidateChild                                                        *)
Consolidate(h, n) ==
    LET kids == h[n].children
    IN [c \in DOMAIN h |->
          IF ~Contains(kids, c) THEN h[c]
          ELSE [h[c] EXCEPT !.parent = n, !.childIndex = Position(kids, c) - 1]]

(* Mutant of SetNext, SetPrev: the link is not updated.                    *)
KeepLink(h, n, m) == h

SetNext(h, n, m) == IF n = Null THEN h ELSE [h EXCEPT ![n].next = m]
SetPrev(h, n, m) == IF n = Null THEN h ELSE [h EXCEPT ![n].prev = m]

(* getGtKeyIdx: how many keys of the (sorted) node are not above k.        *)
GtKeyIdx(h, n, k) == BlockSearch(h[n].keys, k)

(* The child in which k is, if it is anywhere.                             *)
ChildFor(h, n, k) == h[n].children[GtKeyIdx(h, n, k) + 1]

(* lockFreeFindLeafNode                                                    *)
FindLeaf(h, n, k) ==
    LET leaf[m \in DOMAIN h] == IF h[m].isLeaf THEN m ELSE leaf[ChildFor(h, m, k)]
    IN leaf[n]

InsertKeyToLeaf(keys, k) == InsertAt(keys, BlockSearch(keys, k) + 1, k)
RemoveFromLeaf(keys, k) ==
    IF Contains(keys, k) THEN RemoveAt(keys, Position(keys, k)) ELSE keys
-----------------------------------------------------------------------------
(* Operations on two neighbours l, r below one parent                      *)

(* Mutant: the separator comes along from above leaves, too.               *)
JoinedWithSeparator(h, l, r) ==
    h[l].keys \o <<h[h[l].parent].keys[h[l].childIndex + 1]>> \o h[r].keys

(* The keys of l and r in order, with the separator when they are internal.*)
JoinedKeys(h, l, r) ==
    LET sep == h[h[l].parent].keys[h[l].childIndex + 1]
    IN h[l].keys \o (IF h[l].isLeaf THEN <<>> ELSE <<sep>>) \o h[r].keys

(* Deal the keys out again so that l has m of them; the next one is the    *)
(* new separator, and stays in r when they are leaves.                     *)
Deal(h, l, r, m) ==
    LET all == JoinedKeys(h, l, r)
        kids == h[l].children \o h[r].children
        cut == IF h[l].isLeaf THEN 0 ELSE m + 1
        dealt == [h EXCEPT
            ![l].keys = SubSeq(all, 1, m),
            ![r].keys = SubSeq(all, IF h[l].isLeaf THEN m + 1 ELSE m + 2, Len(all)),
            ![l].children = SubSeq(kids, 1, cut),
            ![r].children = SubSeq(kids, cut + 1, Len(kids)),
            ![h[r].parent].keys[h[l].childIndex + 1] = all[m + 1]]
    IN Consolidate(Consolidate(dealt, l), r)

(* Mutant: prev still leads to the node that is gone.                      *)
UnlinkNextOnly(h, l, r, leftToRight) ==
    IF leftToRight THEN SetNext(h, h[l].prev, r) ELSE SetNext(h, l, h[r].next)

(* l or else r leaves the linked list of its level.                        *)
Unlink(h, l, r, leftToRight) ==
    IF leftToRight THEN SetNext(SetPrev(h, r, h[l].prev), h[l].prev, r)
                   ELSE SetPrev(SetNext(h, l, h[r].next), h[r].next, l)

(* All goes to r or to l; the other one leaves the parent and the list, but*)
(* keeps its children.                                                     *)
Merge(h, l, r, leftToRight) ==
    LET keep == IF leftToRight THEN r ELSE l
        gone == IF leftToRight THEN l ELSE r
        merged == [h EXCEPT
            ![keep].keys = JoinedKeys(h, l, r),
            ![keep].children = h[l].children \o h[r].children,
            ![gone].keys = <<>>,
            ![h[l].parent].children = RemoveAt(@, h[gone].childIndex + 1),
            ![h[l].parent].keys = RemoveAt(@, h[l].childIndex + 1)]
    IN Unlink(Consolidate(merged, keep), l, r, leftToRight)

(* Mutant: the middle key of an internal node stays below as well.         *)
KeysAboveWithMiddle(keys, m, leaf) == SubSeq(keys, m + 1, Len(keys))

(* The keys right of a cut after m keys: the middle key goes up from an    *)
(* internal node and is only copied from a leaf.                           *)
KeysAbove(keys, m, leaf) == SubSeq(keys, IF leaf THEN m + 1 ELSE m + 2, Len(keys))

(* Split c after m keys, into lo and hi: a new node takes what is left of  *)
(* the cut, or right of it, and is linked in on that side.                 *)
SplitAt(h, c, m, toLeft) ==
    LET new == Allocate(h)
        lo == IF toLeft THEN new ELSE c
        hi == IF toLeft THEN c ELSE new
        p == h[c].parent
        keys == h[c].keys
        kids == h[c].children
        at == h[c].childIndex + 1
        cut == IF h[c].isLeaf THEN 0 ELSE m + 1
        created == Put(h, new, [NewNode(h[c].isLeaf) EXCEPT
                        !.prev = IF toLeft THEN h[c].prev ELSE c,
                        !.next = IF toLeft THEN c ELSE h[c].next])
        split == [created EXCEPT
            ![lo].keys = SubSeq(keys, 1, m),
            ![hi].keys = KeysAbove(keys, m, h[c].isLeaf),
            ![lo].children = SubSeq(kids, 1, cut),
            ![hi].children = SubSeq(kids, cut + 1, Len(kids)),
            ![p].keys = InsertAt(h[p].keys, at, keys[m + 1]),
            ![p].children = InsertAt(h[p].children, IF toLeft THEN at ELSE at + 1, new)]
        consolidated == Consolidate(Consolidate(Consolidate(split, new), c), p)
    IN IF toLeft THEN SetNext(SetPrev(consolidated, c, new), h[c].prev, new)
                 ELSE SetPrev(SetNext(consolidated, c, new), h[c].next, new)

(* Mutant: the node below keeps rootPtr as its parent.                     *)
NewRootUnlinked(h, c) ==
    LET new == Allocate(h)
    IN [Put(h, new, [NewNode(FALSE) EXCEPT !.children = <<c>>])
          EXCEPT ![RootPtr].children = <<new>>]

(* A node between rootPtr and the root c: the tree grows by a layer.       *)
NewRoot(h, c) ==
    LET new == Allocate(h)
        grown == [Put(h, new, [NewNode(FALSE) EXCEPT !.children = <<c>>])
                    EXCEPT ![RootPtr].children = <<new>>]
    IN Consolidate(Consolidate(grown, RootPtr), new)

(* Mutant: the first leaf does not get to know its parent.                 *)
FirstLeafUnlinked(h) ==
    LET new == Allocate(h)
    IN [Put(h, new, NewNode(TRUE)) EXCEPT ![RootPtr].children = <<new>>, ![RootPtr].isLeaf = FALSE]

(* The empty tree gets its first leaf.                                     *)
FirstLeaf(h) ==
    LET new == Allocate(h)
    IN Consolidate([Put(h, new, NewNode(TRUE)) EXCEPT
                       ![RootPtr].children = <<new>>, ![RootPtr].isLeaf = FALSE],
                   RootPtr)

Delete(h, nodes) == [n \in DOMAIN h \ nodes |-> h[n]]
-----------------------------------------------------------------------------
(* What a tree should be                                                   *)

IsNode(x) ==
    /\ x.isLeaf \in BOOLEAN
    /\ x.keys \in Seq(Nat) /\ x.children \in Seq(Nat)
    /\ x.childIndex \in Nat \cup {-1}
    /\ {x.parent, x.prev, x.next} \subseteq Nat \cup {Null}

IsHeap(h) == RootPtr \in DOMAIN h /\ \A n \in DOMAIN h : n \in Nat /\ IsNode(h[n])

(* Every node below n, and the keys of its leaves from left to right.      *)
Below(h, n) ==
    LET below[m \in DOMAIN h] == {m} \cup UNION {below[c] : c \in ToSet(h[m].children)}
    IN below[n]

InOrder(h, n) ==
    LET keys[m \in DOMAIN h] ==
            IF h[m].isLeaf THEN h[m].keys
            ELSE FlattenSeq([i \in DOMAIN h[m].children |-> keys[h[m].children[i]]])
    IN keys[n]

(* How far the leaves below n are from it.                                 *)
Heights(h, n) ==
    LET heights[m \in DOMAIN h] ==
            IF h[m].isLeaf THEN {0}
            ELSE {d + 1 : d \in UNION {heights[c] : c \in ToSet(h[m].children)}}
    IN heights[n]

(* The leaves hold copies[k] of every key k, in order.                     *)
Holds(h, copies) ==
    LET ks == InOrder(h, RootPtr)
    IN /\ \A i \in 1 .. Len(ks) - 1 : ks[i] <= ks[i + 1]
       /\ \A k \in DOMAIN copies : Cardinality({i \in DOMAIN ks : ks[i] = k}) = copies[k]

(* Every key in the leaves is found where a search looks for it.           *)
FindsAll(h) == \A k \in ToSet(InOrder(h, RootPtr)) :
                  Contains(h[FindLeaf(h, RootPtr, k)].keys, k)

(* debug_checkParentPointers                                               *)
ParentsFit(h) == \A n \in Below(h, RootPtr) : \A i \in 1 .. NumChild(h, n) :
    LET c == h[n].children[i] IN h[c].parent = n /\ h[c].childIndex = i - 1

(* next and prev link the nodes of each level in key order, across parents.*)
LevelsLinked(h) ==
    LET After(n, i) == IF i < NumChild(h, n) THEN h[n].children[i + 1]
                       ELSE IF h[n].next = Null THEN Null
                       ELSE Head(h[h[n].next].children)
    IN \A n \in Below(h, RootPtr) : \A i \in 1 .. NumChild(h, n) :
          LET c == h[n].children[i]
          IN /\ h[c].next = After(n, i)
             /\ h[c].next # Null => h[h[c].next].prev = c

(* No nodes but those of the tree.                                         *)
NothingLeaked(h) == DOMAIN h = Below(h, RootPtr)

(* debug_checkChildCnt for one internal node                               *)
CountsFit(h, n, order) == /\ NumKeys(h, n) > 0 /\ NumKeys(h, n) < order
                          /\ NumChild(h, n) = NumKeys(h, n) + 1
-----------------------------------------------------------------------------
(* A heap without the names of its nodes: for the VIEW of a model, in which*)
(* a node is known by its place in the tree.                               *)

PreOrder(h, n) ==
    LET nodes[m \in DOMAIN h] ==
            <<m>> \o FlattenSeq([i \in DOMAIN h[m].children |-> nodes[h[m].children[i]]])
    IN nodes[n]

NodesInOrder(h) == PreOrder(h, RootPtr) \o SetToSeq(DOMAIN h \ Below(h, RootPtr))

(* The nodes of the heap, and those gone that one of them still leads to.  *)
Mentioned(h) == DOMAIN h \cup {Null} \cup
    UNION {{h[n].parent, h[n].prev, h[n].next} \cup ToSet(h[n].children) : n \in DOMAIN h}

Places(h) ==
    LET nodes == NodesInOrder(h)
    IN [n \in Mentioned(h) |-> IF n \in DOMAIN h THEN Position(nodes, n) ELSE Null - n]

Unnamed(h) ==
    LET nodes == NodesInOrder(h)
        place == Places(h)
    IN IF h = EmptyTree THEN <<>>
       ELSE [i \in DOMAIN nodes |->
                [h[nodes[i]] EXCEPT !.parent = place[@], !.prev = place[@], !.next = place[@],
                                    !.children = [j \in DOMAIN @ |-> place[@[j]]]]]
=============================================================================
