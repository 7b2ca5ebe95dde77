------------------------------ MODULE PalmTree ------------------------------
(***************************************************************************)
(* What the stages of the PALM tree do to the tree: search, leaf_execute   *)
(* and internal_execute of freeTree/worker.hpp, distribute, redistribute   *)
(* and root_execute of background.hpp, on a heap of linked nodes.          *)
(*                                                                         *)
(* PalmScheduler shows that the threads are in the same stage, that every  *)
(* node is one slot's and that a stage ends before the next begins.  Here  *)
(* the nodes of a stage are executed one after the other in any order.     *)
(***************************************************************************)
EXTENDS NodeHeap

CONSTANTS Orders,     \* the values of ORDER_ to choose from
          Keys,       \* keys, numbers
          MaxCopies,  \* bound: copies of a key in the tree
          BatchSize   \* bound: requests collected in a batch

ASSUME OrdersAssumption == Orders \subseteq Nat /\ \A o \in Orders : o >= 3
ASSUME BoundAssumption == /\ Keys \subseteq Nat
                          /\ MaxCopies \in Nat \ {0}
                          /\ BatchSize \in Nat \ {0}

VARIABLES order,      \* ORDER_, set by the constructor
          stage,      \* stage under way
          heap,       \* id -> FreeNode, for the nodes allocated
          todo,       \* node -> its requests, for the slots still to execute
          updates,    \* internal_request_queue
          contents    \* ghost: copies of each key that clients put there

vars == <<order, stage, heap, todo, updates, contents>>

Init == /\ order \in Orders
        /\ stage = "COLLECT"
        /\ heap = EmptyTree
        /\ todo = <<>>
        /\ updates = {}
        /\ contents = [k \in Keys |-> 0]
-----------------------------------------------------------------------------
LeastKeys == (order - 1) \div 2
IsHalfFull(h, n) == NumKeys(h, n) >= LeastKeys

Overfull(h, n) == NumKeys(h, n) >= order
OutOfShape(h, n) == Overfull(h, n) \/ ~IsHalfFull(h, n)

(* leaf_execute's loop over the requests of one leaf; GET changes nothing. *)
Apply(keys, reqs) ==
    LET after[i \in 0 .. Len(reqs)] ==
            IF i = 0 THEN keys
            ELSE IF reqs[i].op = "INSERT" THEN InsertKeyToLeaf(after[i - 1], reqs[i].key)
                                          ELSE RemoveFromLeaf(after[i - 1], reqs[i].key)
    IN after[Len(reqs)]
-----------------------------------------------------------------------------
(* tryBorrow: while the giver is more than half full and the taker less,   *)
(* one key moves over, so it gives the smaller of the two differences.     *)
TryBorrow(h, l, r, fromLeft) ==
    LET giver == IF fromLeft THEN l ELSE r
        taker == IF fromLeft THEN r ELSE l
        give == Min({NumKeys(h, giver) - LeastKeys, LeastKeys - NumKeys(h, taker)})
    IN IF give <= 0 THEN h
       ELSE Deal(h, l, r, NumKeys(h, l) + (IF fromLeft THEN -give ELSE give))

(* bigSplitToLeft and bigSplitToRight: the new node takes the first or last*)
(* keys of c, nearly a full node's or half a node's worth.                 *)
BigSplit(h, c, toLeft) ==
    LET n == NumKeys(h, c)
        count == IF n - order >= LeastKeys THEN order - 1 ELSE LeastKeys
    IN SplitAt(h, c, IF toLeft THEN count
                     ELSE IF h[c].isLeaf THEN n - count ELSE n - count - 1, toLeft)
-----------------------------------------------------------------------------
(* internal_execute: repair the children of node from left to right.  A    *)
(* state of its loop is [h, child, left]: left iterations remain           *)
(* (child_num - curr).  The nodes it releases are deleted after the stage; *)
(* here they leave the heap when the loop goes on to the next child, which *)
(* only makes it harder to touch a deleted one.                            *)

(* The inner loop that splits one child until it fits, which takes fewer   *)
(* turns than the child has keys.                                          *)
SplitOff(node, s) ==
    LET toLeft == s.h[s.child].childIndex >= NumKeys(s.h, node)
    IN [h |-> BigSplit(s.h, s.child, toLeft), child |-> s.child,
        left |-> IF toLeft THEN s.left ELSE s.left + 1]

SplitChild(node, s) ==
    LET turn[i \in 0 .. NumKeys(s.h, s.child)] ==
            IF i = 0 THEN s
            ELSE LET t == turn[i - 1]
                 IN IF Overfull(t.h, t.child) THEN SplitOff(node, t) ELSE t
    IN turn[NumKeys(s.h, s.child)]

(* child = child->next, and gone are released.                             *)
GoOn(s, gone) == [h |-> Delete(s.h, gone), child |-> s.h[s.child].next, left |-> s.left]

(* An underfull child: borrow, else merge.  After a borrow that was enough *)
(* comes continue: the iteration is spent, child stays.                    *)
FillChild(node, s) ==
    LET c == s.child
        at == s.h[c].childIndex
        first == at = 0
        last == at >= NumKeys(s.h, node)
        h1 == IF first THEN s.h ELSE TryBorrow(s.h, s.h[c].prev, c, TRUE)
        h2 == IF (first \/ ~last) /\ ~IsHalfFull(h1, c)
                THEN TryBorrow(h1, c, h1[c].next, FALSE) ELSE h1
        Merged(l, r, leftToRight) ==
            GoOn([h |-> Consolidate(Merge(h2, l, r, leftToRight), node), child |-> c,
                  left |-> IF first THEN s.left - 1 ELSE s.left],
                 {IF leftToRight THEN l ELSE r})
    IN CASE IsHalfFull(h2, c) -> [s EXCEPT !.h = h2]
         [] first /\ ~IsHalfFull(h2, c) -> Merged(c, h2[c].next, FALSE)
         [] ~first /\ ~last /\ ~IsHalfFull(h2, c) -> Merged(c, h2[c].next, TRUE)
         [] OTHER -> Merged(h2[c].prev, c, TRUE)

(* One iteration of the loop over the children.                            *)
RepairOnce(node, s) ==
    LET t == [s EXCEPT !.left = @ - 1]
        v == SplitChild(node, t)
    IN CASE Overfull(t.h, t.child) -> GoOn([v EXCEPT !.h = Consolidate(v.h, node)], {})
         [] ~IsHalfFull(t.h, t.child) -> FillChild(node, t)
         [] OTHER -> GoOn(t, {})

(* There are fewer iterations than children and keys in them.              *)
Iterations(h, node) ==
    Cardinality(UNION {{c} \X (0 .. NumKeys(h, c) + 1) : c \in ToSet(h[node].children)})

Repair(h, node) ==
    LET s[i \in 0 .. Iterations(h, node)] ==
            IF i = 0 THEN [h |-> h, child |-> h[node].children[1], left |-> NumChild(h, node)]
            ELSE IF s[i - 1].left <= 0 THEN s[i - 1] ELSE RepairOnce(node, s[i - 1])
    IN s[Iterations(h, node)].h

(* root_execute, the tree below rootPtr overfull: new layers above it.     *)
SplitRight(h, c) ==
    LET g[i \in 0 .. NumKeys(h, c)] ==
            IF i = 0 THEN h
            ELSE IF Overfull(g[i - 1], c) THEN BigSplit(g[i - 1], c, FALSE) ELSE g[i - 1]
    IN g[NumKeys(h, c)]

Root(h) == h[RootPtr].children[1]

GrowRoot(h) ==
    LET g[i \in 0 .. NumKeys(h, Root(h))] ==
            IF i = 0 THEN h
            ELSE LET c == Root(g[i - 1])
                 IN IF Overfull(g[i - 1], c) THEN SplitRight(NewRoot(g[i - 1], c), c)
                                             ELSE g[i - 1]
    IN g[NumKeys(h, Root(h))]

(* ... or without a key: rootPtr is made the empty tree again.  (The code  *)
(* leaks the nodes; they are not reachable any more and dropped here.)     *)
RootExecute(h) == IF NumKeys(h, Root(h)) # 0 THEN GrowRoot(h) ELSE EmptyTree
-----------------------------------------------------------------------------
(* The stages                                                              *)

Ops == [op : {"INSERT", "DELETE"}, key : Keys]

(* Copies of key k after each of the reqs in order, if c are there before: *)
(* what a client that knows no tree expects.                               *)
CopiesDuring(c, reqs, k) ==
    LET copies[i \in 0 .. Len(reqs)] ==
            IF i = 0 THEN c
            ELSE CASE reqs[i].key # k -> copies[i - 1]
                   [] reqs[i].key = k /\ reqs[i].op = "INSERT" -> copies[i - 1] + 1
                   [] OTHER -> IF copies[i - 1] = 0 THEN 0 ELSE copies[i - 1] - 1
    IN copies

CopiesAfter(c, reqs, k) == CopiesDuring(c, reqs, k)[Len(reqs)]

(* Requests for different keys meet only in a leaf's sorted keys, so a     *)
(* batch is enumerated in the order of its keys.                           *)
Batches == {b \in UNION {[1 .. n -> Ops] : n \in 1 .. BatchSize} :
               \A i \in 1 .. Len(b) - 1 : b[i].key <= b[i + 1].key}

(* distribute: those of batch b that SEARCH has sent to leaf n.            *)
RequestsFor(h, b, n) ==
    LET requests[i \in 0 .. Len(b)] ==
            IF i = 0 THEN <<>>
            ELSE IF FindLeaf(h, RootPtr, b[i].key) = n THEN Append(requests[i - 1], b[i])
                                                       ELSE requests[i - 1]
    IN requests[Len(b)]

(* COLLECT, SEARCH and DISTRIBUTE: a batch, its requests gathered by leaf. *)
Collect(b) ==
    /\ stage = "COLLECT"
    /\ \A k \in Keys : \A i \in 1 .. Len(b) :
          CopiesDuring(contents[k], b, k)[i] <= MaxCopies
    /\ todo' = [n \in {FindLeaf(heap, RootPtr, b[i].key) : i \in DOMAIN b} |->
                  RequestsFor(heap, b, n)]
    /\ stage' = "EXEC_LEAF"
    /\ UNCHANGED <<order, heap, updates, contents>>

Done(n) == todo' = [m \in DOMAIN todo \ {n} |-> todo[m]]

RequestUpdate(n) ==
    updates' = IF OutOfShape(heap', n) THEN updates \cup {heap'[n].parent} ELSE updates

(* leaf_execute on the slot of leaf n; the empty tree gets its first leaf. *)
LeafExecute(n) ==
    /\ stage = "EXEC_LEAF" /\ n \in DOMAIN todo
    /\ LET h == IF n = RootPtr THEN FirstLeaf(heap) ELSE heap
           leaf == IF n = RootPtr THEN h[RootPtr].children[1] ELSE n
       IN /\ heap' = [h EXCEPT ![leaf].keys = Apply(@, todo[n])]
          /\ RequestUpdate(leaf)
    /\ contents' = [k \in Keys |-> CopiesAfter(contents[k], todo[n], k)]
    /\ Done(n)
    /\ UNCHANGED <<order, stage>>

AfterRedistribute == CASE updates = {} -> "COLLECT"
                       [] updates = {RootPtr} -> "EXEC_ROOT"
                       [] OTHER -> "EXEC_INTERNAL"

(* REDISTRIBUTE                                                            *)
Redistribute ==
    /\ stage \in {"EXEC_LEAF", "EXEC_INTERNAL"} /\ DOMAIN todo = {}
    /\ stage' = AfterRedistribute
    /\ todo' = IF stage' = "EXEC_INTERNAL" THEN [n \in updates |-> <<>>] ELSE <<>>
    /\ updates' = {}
    /\ UNCHANGED <<order, heap, contents>>

(* internal_execute on the slot of node n, for which it asserts that n has *)
(* two children: else the program stops there.                             *)
InternalExecute(n) ==
    /\ stage = "EXEC_INTERNAL" /\ n \in DOMAIN todo
    /\ NumChild(heap, n) >= 2
    /\ heap' = Repair(heap, n)
    /\ RequestUpdate(n)
    /\ Done(n)
    /\ UNCHANGED <<order, stage, contents>>

(* EXEC_ROOT.  When it clears the tree, contents follows, keys or no keys: *)
(* ClearedOnlyWhenEmpty is about that, the invariants about what comes     *)
(* after it.                                                               *)
ExecRoot ==
    /\ stage = "EXEC_ROOT"
    /\ stage' = "COLLECT"
    /\ heap' = RootExecute(heap)
    /\ contents' = IF heap'[RootPtr].isLeaf THEN [k \in Keys |-> 0] ELSE contents
    /\ UNCHANGED <<order, todo, updates>>

Next == \/ Redistribute \/ ExecRoot
        \/ \E b \in Batches : Collect(b)
        \/ \E n \in DOMAIN todo : LeafExecute(n) \/ InternalExecute(n)

Spec == Init /\ [][Next]_vars
-----------------------------------------------------------------------------
TypeOK ==
    /\ order \in Orders
    /\ stage \in {"COLLECT", "EXEC_LEAF", "EXEC_INTERNAL", "EXEC_ROOT"}
    /\ IsHeap(heap)
    /\ DOMAIN todo \subseteq DOMAIN heap
    /\ updates \subseteq DOMAIN heap
    /\ contents \in [Keys -> 0 .. MaxCopies]

(* The tree holds what the clients put there, in order: no borrow, merge   *)
(* or split of any stage loses, repeats or misplaces a key.                *)
ContentsKept == Holds(heap, contents)

(* At every stage each key in the tree is found where SEARCH would look    *)
(* for it: the separators on the way down are up to date.                  *)
Searchable == FindsAll(heap)

(* debug_checkParentPointers, which the destructor asserts.                *)
ParentPointers == ParentsFit(heap)

(* next and prev link the nodes of each level in key order, across         *)
(* parents, so a worker that follows them stays among its own children.    *)
LevelLists == LevelsLinked(heap)

(* At no stage does a node of the tree lead to one that has been merged    *)
(* away: what COLLECT and REDISTRIBUTE delete is out of everybody's reach. *)
NoDanglingPointers == \A n \in DOMAIN heap :
    {heap[n].parent, heap[n].next, heap[n].prev} \cup ToSet(heap[n].children)
        \subseteq DOMAIN heap \cup {Null}

(* The pointers that repair follows and maintains by hand.                 *)
Linked == ParentPointers /\ LevelLists /\ NoDanglingPointers

(* All leaves are equally far from the root: every worker of a stage works *)
(* on one level, and all UPDATEs arrive at the same one.                   *)
UniformDepth == Cardinality(Heights(heap, RootPtr)) = 1

(* worker.hpp:157: a node that is to be repaired has two children, so that *)
(* an underfull child always has a neighbour to borrow from or merge with. *)
TwoChildren == stage = "EXEC_INTERNAL" =>
    \A n \in DOMAIN todo : NumChild(heap, n) >= 2

(* root_execute makes the tree empty only when it holds no key.            *)
ClearedOnlyWhenEmpty ==
    [][ExecRoot /\ heap'[RootPtr].isLeaf => InOrder(heap, RootPtr) = <<>>]_vars
=============================================================================
