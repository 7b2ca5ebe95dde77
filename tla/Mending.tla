------------------------------ MODULE Mending -------------------------------
(***************************************************************************)
(* How a B+ tree of order "order" is mended after an insert or a remove at *)
(* one of its leaves: SeqBPlusTree (seqTree.hpp), and FineLockBPlusTree,   *)
(* whose code is a copy of it with latches.                                *)
(***************************************************************************)
EXTENDS NodeHeap

Half(order) == (order - 1) \div 2
HasHalf(h, n, order) == NumKeys(h, n) >= Half(order)
HasMoreThanHalf(h, n, order) == NumKeys(h, n) > Half(order)

(* splitNode: s.node, too full, is split in the middle, below a new root if*)
(* it is the root.  The new node comes to the right unless it is the last  *)
(* child, so that no link of another subtree changes.                      *)
SplitOnce(s) ==
    LET h == s.heap
        n == s.node
        isRoot == h[n].parent = RootPtr
        g == IF isRoot THEN NewRoot(h, n) ELSE h
        p == g[n].parent
        toLeft == ~isRoot /\ h[n].childIndex = NumChild(h, p) - 1
    IN [heap |-> SplitAt(g, n, NumKeys(h, n) \div 2, toLeft), node |-> p]

(* n is split, and then its parent as long as that has become too full: a  *)
(* loop that has come to the root when it has gone up as often as there are*)
(* nodes.                                                                  *)
Split(h, n, order) ==
    LET levels == Cardinality(DOMAIN h)
        s[i \in 0 .. levels] ==
            IF i = 0 THEN [heap |-> h, node |-> n]
            ELSE LET t == s[i - 1]
                 IN IF NumKeys(t.heap, t.node) < order THEN t ELSE SplitOnce(t)
    IN s[levels].heap

(* removeMerge: n is merged with a neighbour below the same parent.        *)
MergeWithSibling(h, n) ==
    LET p == h[n].parent
        leftToRight == IF NumChild(h, p) = 2 THEN h[p].childIndex # 0
                                             ELSE h[n].childIndex # 0
        l == IF h[n].childIndex = 0 THEN n ELSE h[n].prev
        r == IF h[n].childIndex = 0 THEN h[n].next ELSE n
    IN [heap |-> Consolidate(Merge(h, l, r, leftToRight), p),
        gone |-> IF leftToRight THEN l ELSE r]

(* removeBorrow: s.node has too few keys.  The root may have, but without a*)
(* key its only child takes its place; another node borrows a key from its *)
(* left neighbour, the first child from its right one, or is merged with   *)
(* it, and its parent is seen to if that has too few keys then.  s.gone are*)
(* the nodes that are no longer in the tree.                               *)
BorrowOnce(s, order) ==
    LET h == s.heap
        n == s.node
        p == h[n].parent
        fromLeft == h[n].childIndex > 0
        sibling == IF fromLeft THEN h[n].prev ELSE h[n].next
        m == MergeWithSibling(h, n)
    IN CASE p = RootPtr /\ NumKeys(h, n) # 0 -> [s EXCEPT !.node = Null]
         [] p = RootPtr /\ NumKeys(h, n) = 0 ->
              [heap |-> Consolidate([h EXCEPT ![RootPtr].children =
                                        <<h[n].children[1]>>], RootPtr),
               gone |-> s.gone \cup {n},
               node |-> Null]
         [] p # RootPtr /\ HasMoreThanHalf(h, sibling, order) ->
              [s EXCEPT !.heap = IF fromLeft
                                   THEN Deal(h, sibling, n, NumKeys(h, sibling) - 1)
                                   ELSE Deal(h, n, sibling, NumKeys(h, n) + 1),
                        !.node = Null]
         [] OTHER ->
              [heap |-> m.heap,
               gone |-> s.gone \cup {m.gone},
               node |-> IF HasHalf(m.heap, p, order) THEN Null ELSE p]

(* n is mended, and whatever then has too few keys: a loop as in Split.    *)
Borrow(h, n, order) ==
    LET levels == Cardinality(DOMAIN h)
        s[i \in 0 .. levels] ==
            IF i = 0 THEN [heap |-> h, gone |-> {}, node |-> n]
            ELSE LET t == s[i - 1] IN IF t.node = Null THEN t ELSE BorrowOnce(t, order)
    IN s[levels]
=============================================================================
