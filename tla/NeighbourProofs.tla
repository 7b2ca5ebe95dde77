--------------------------- MODULE NeighbourProofs --------------------------
(***************************************************************************)
(* What NodeHeap does to two neighbours below one parent, Merge and Deal,  *)
(* leaves a tree with the same keys, in which every key is where the search*)
(* for it leads and whose levels are linked.                               *)
(***************************************************************************)
EXTENDS NodeHeapProofs

-----------------------------------------------------------------------------
(* Sequences                                                               *)

(* r is s without the element at place i.                                  *)
IsRemoved(r, s, i) ==
    /\ r \in Seq(Nat) /\ Len(r) = Len(s) - 1
    /\ \A j \in 1 .. Len(s) - 1 : r[j] = IF j < i THEN s[j] ELSE s[j + 1]

(* RemoveAt moves what comes after by one place.                           *)
LEMMA Removed ==
    ASSUME NEW s \in Seq(Nat), NEW i \in 1 .. Len(s)
    PROVE  IsRemoved(RemoveAt(s, i), s, i)
<1>. DEFINE n == Len(s)
            a == SubSeq(s, 1, i - 1)
            b == SubSeq(s, i + 1, n)
            r == a \o b
<1>1. n \in Nat /\ i \in 1 .. n
  OBVIOUS
<1>2. a \in Seq(Nat) /\ Len(a) = i - 1 /\ \A j \in 1 .. i - 1 : a[j] = s[j]
  <2>1. 1 \in 1 .. n + 1 /\ i - 1 \in 1 - 1 .. n
    BY <1>1
  <2>2. /\ a \in Seq(Nat) /\ Len(a) = (i - 1) - 1 + 1
        /\ \A j \in 1 .. (i - 1) - 1 + 1 : a[j] = s[1 + j - 1]
    BY <2>1, Part
  <2>3. (i - 1) - 1 + 1 = i - 1 /\ \A j \in 1 .. i - 1 : 1 + j - 1 = j
    BY <1>1
  <2>. QED
    BY <2>2, <2>3
<1>3. b \in Seq(Nat) /\ Len(b) = n - i /\ \A j \in 1 .. n - i : b[j] = s[i + j]
  <2>1. i \in 0 .. Len(s)
    BY <1>1
  <2>. QED
    BY <2>1, Suffix
<1>. HIDE DEF a, b
<1>4. /\ r \in Seq(Nat) /\ Len(r) = Len(a) + Len(b)
      /\ \A j \in 1 .. Len(a) + Len(b) : r[j] = IF j <= Len(a) THEN a[j] ELSE b[j - Len(a)]
  BY <1>2, <1>3, ConcatProperties
<1>5. Len(a) + Len(b) = n - 1
  BY <1>1, <1>2, <1>3
<1>6. RemoveAt(s, i) = r
  BY DEF RemoveAt, a, b
<1>. HIDE DEF r
<1>7. ASSUME NEW j \in 1 .. n - 1 PROVE r[j] = IF j < i THEN s[j] ELSE s[j + 1]
  <2>1. r[j] = IF j <= i - 1 THEN a[j] ELSE b[j - (i - 1)]
    BY <1>2, <1>4, <1>5
  <2>2. CASE j < i
    BY <1>1, <1>2, <2>1, <2>2
  <2>3. CASE j >= i
    <3>1. j - (i - 1) \in 1 .. n - i /\ i + (j - (i - 1)) = j + 1 /\ ~(j <= i - 1)
      BY <1>1, <2>3
    <3>2. b[j - (i - 1)] = s[j + 1]
      BY <1>3, <3>1
    <3>. QED
      BY <1>1, <2>1, <2>3, <3>1, <3>2
  <2>. QED
    BY <1>1, <2>2, <2>3
<1>. QED
  BY <1>4, <1>5, <1>6, <1>7 DEF IsRemoved

(* An element that is removed and inserted again.                          *)
LEMMA RemovedAndInserted ==
    ASSUME NEW s \in Seq(Nat), NEW i \in 1 .. Len(s), NEW e \in Nat
    PROVE  InsertAt(RemoveAt(s, i), i, e) = [s EXCEPT ![i] = e]
<1>. DEFINE n == Len(s)
            r == RemoveAt(s, i)
            t == InsertAt(r, i, e)
            u == [s EXCEPT ![i] = e]
<1>1. n \in Nat /\ i \in 1 .. n /\ s = [j \in 1 .. n |-> s[j]]
  OBVIOUS
<1>2. r \in Seq(Nat) /\ Len(r) = n - 1 /\ \A j \in 1 .. n - 1 : r[j] = IF j < i THEN s[j] ELSE s[j + 1]
  BY Removed DEF IsRemoved
<1>. HIDE DEF r
<1>3. /\ t \in Seq(Nat) /\ Len(t) = n
      /\ \A j \in 1 .. n : /\ j < i => t[j] = r[j]
                           /\ j = i => t[j] = e
                           /\ j > i => t[j] = r[j - 1]
  <2>1. i \in 1 .. Len(r) + 1 /\ Len(r) + 1 = n
    BY <1>1, <1>2
  <2>2. IsInserted(t, r, i, e)
    BY <1>2, <2>1, Inserted
  <2>. HIDE DEF t
  <2>. QED
    BY <2>1, <2>2 DEF IsInserted
<1>. HIDE DEF t
<1>4. t = [j \in 1 .. n |-> t[j]]
  BY <1>3
<1>5. ASSUME NEW j \in 1 .. n PROVE t[j] = IF j = i THEN e ELSE s[j]
  <2>1. CASE j < i
    <3>1. j \in 1 .. n - 1 /\ j # i
      BY <1>1, <2>1
    <3>. QED
      BY <1>2, <1>3, <2>1, <3>1
  <2>2. CASE j = i
    BY <1>3, <2>2
  <2>3. CASE j > i
    <3>1. j - 1 \in 1 .. n - 1 /\ ~(j - 1 < i) /\ (j - 1) + 1 = j /\ j # i
      BY <1>1, <2>3
    <3>. QED
      BY <1>2, <1>3, <2>3, <3>1
  <2>. QED
    BY <1>1, <2>1, <2>2, <2>3
<1>6. u = [j \in 1 .. n |-> IF j = i THEN e ELSE s[j]]
  BY <1>1
<1>. QED
  BY <1>4, <1>5, <1>6 DEF t, r

(* The same element.                                                       *)
LEMMA RemovedAndBack ==
    ASSUME NEW s \in Seq(Nat), NEW i \in 1 .. Len(s)
    PROVE  InsertAt(RemoveAt(s, i), i, s[i]) = s
<1>1. s[i] \in Nat
  OBVIOUS
<1>2. InsertAt(RemoveAt(s, i), i, s[i]) = [s EXCEPT ![i] = s[i]]
  BY <1>1, RemovedAndInserted
<1>3. [s EXCEPT ![i] = s[i]] = s
  OBVIOUS
<1>. QED
  BY <1>2, <1>3

(* One sequence behind another, place by place.                            *)
LEMMA OneBehind ==
    ASSUME NEW a \in Seq(Nat), NEW b \in Seq(Nat)
    PROVE  /\ a \o b \in Seq(Nat) /\ Len(a \o b) = Len(a) + Len(b)
           /\ \A i \in 1 .. Len(a) : (a \o b)[i] = a[i]
           /\ \A i \in 1 .. Len(b) : (a \o b)[Len(a) + i] = b[i]
<1>1. Len(a) \in Nat /\ Len(b) \in Nat
  OBVIOUS
<1>2. /\ a \o b \in Seq(Nat) /\ Len(a \o b) = Len(a) + Len(b)
      /\ \A i \in 1 .. Len(a) + Len(b) : (a \o b)[i] = IF i <= Len(a) THEN a[i] ELSE b[i - Len(a)]
  BY ConcatProperties
<1>3. \A i \in 1 .. Len(b) : /\ Len(a) + i \in 1 .. Len(a) + Len(b)
                             /\ ~(Len(a) + i <= Len(a)) /\ (Len(a) + i) - Len(a) = i
  BY <1>1
<1>4. \A i \in 1 .. Len(a) : i \in 1 .. Len(a) + Len(b) /\ i <= Len(a)
  BY <1>1
<1>. QED
  BY <1>2, <1>3, <1>4
-----------------------------------------------------------------------------
(* Merging two neighbours                                                  *)

(* l and r are neighbours below one parent.                                *)
Siblings(h, l, r) == /\ l \in DOMAIN h \ {RootPtr} /\ r \in DOMAIN h \ {RootPtr}
                     /\ h[r].parent = h[l].parent
                     /\ h[r].childIndex = h[l].childIndex + 1

(* Between h and g, all of l and r has gone into one of them.              *)
MergedBodies(h, g, l, r, keep) ==
    LET p == h[l].parent
        at == h[l].childIndex + 1
    IN /\ g[keep].isLeaf = h[keep].isLeaf
       /\ g[keep].keys = JoinedKeys(h, l, r)
       /\ g[keep].children = h[l].children \o h[r].children
       /\ g[p].isLeaf = h[p].isLeaf
       /\ g[p].keys = RemoveAt(h[p].keys, at)
       /\ g[p].children = RemoveAt(h[p].children, IF keep = l THEN at + 1 ELSE at)
       /\ \A x \in DOMAIN h \ {l, r, p} : SameBody(g, h, x)

IsMerged(h, g, l, r, keep, gone) ==
    /\ (keep = l /\ gone = r) \/ (keep = r /\ gone = l)
    /\ Heap(g) /\ DOMAIN g = DOMAIN h \ {gone}
    /\ MergedBodies(h, g, l, r, keep)
    /\ Placed(g, keep) /\ Placed(g, h[l].parent)
    /\ \A x \in DOMAIN g : x \notin ToSet(h[l].children) \cup ToSet(h[r].children)
                                        \cup ToSet(h[h[l].parent].children) =>
             SamePlace(g, h, x)

(* The links that a merge has written.                                     *)
Unlinked(h, g, l, r, keep) ==
    /\ keep = l => \A x \in DOMAIN g :
          /\ g[x].next = IF x = l THEN h[r].next ELSE h[x].next
          /\ g[x].prev = IF x = h[r].next THEN l ELSE h[x].prev
    /\ keep = r => \A x \in DOMAIN g :
          /\ g[x].next = IF x = h[l].prev THEN r ELSE h[x].next
          /\ g[x].prev = IF x = r THEN h[l].prev ELSE h[x].prev

(* What is known of two neighbours and their parent.                       *)
SiblingFacts(h, range, height, l, r, p, at) ==
    /\ Heap(h) /\ l \in DOMAIN h /\ r \in DOMAIN h /\ l # r /\ l # RootPtr /\ r # RootPtr
    /\ l \in Nat /\ r \in Nat
    /\ p \in DOMAIN h /\ p # l /\ p # r /\ p # RootPtr
    /\ h[l].parent = p /\ h[r].parent = p /\ h[l].childIndex = at - 1 /\ h[r].childIndex = at
    /\ at \in Nat /\ at >= 1 /\ at <= NumKeys(h, p) /\ NumKeys(h, p) \in Nat
    /\ NumChild(h, p) = NumKeys(h, p) + 1 /\ ~h[p].isLeaf
    /\ h[p].children[at] = l /\ h[p].children[at + 1] = r
    /\ height[p] = height[l] + 1 /\ height[r] = height[l] /\ height[l] \in Nat
    /\ h[l].isLeaf = h[r].isLeaf
    /\ range[l] = Turned(h, range, p, at) /\ range[r] = Turned(h, range, p, at + 1)
    /\ ToSet(h[l].children) \cap ToSet(h[r].children) = {}
    /\ ToSet(h[l].children) \cap ToSet(h[p].children) = {}
    /\ ToSet(h[r].children) \cap ToSet(h[p].children) = {}
    /\ ToSet(h[l].children) \cup ToSet(h[r].children) \cup ToSet(h[p].children)
          \subseteq DOMAIN h \ {RootPtr}
    /\ Different(h[l].children) /\ Different(h[r].children) /\ Different(h[p].children)

(* A node is a leaf when it is at the bottom.                              *)
LEMMA LeafIsLow ==
    ASSUME NEW h, NEW range, NEW height, IsTree(h, range, height), NEW n \in DOMAIN h
    PROVE  h[n].isLeaf <=> height[n] = 0
<1>1. NodeFits(h, range, height, n) /\ h[n].isLeaf \in BOOLEAN /\ NumKeys(h, n) \in Nat
  BY NodeType DEF IsTree
<1>2. CASE h[n].isLeaf
  BY <1>1, <1>2 DEF NodeFits
<1>3. CASE ~h[n].isLeaf
  <2>1. 1 \in 1 .. NumChild(h, n)
    BY <1>1, <1>3 DEF NodeFits
  <2>2. h[n].children[1] \in DOMAIN h /\ height[n] = height[h[n].children[1]] + 1
    BY <2>1, ChildOf
  <2>3. height[h[n].children[1]] \in Nat
    BY <2>2 DEF IsTree
  <2>. QED
    BY <1>3, <2>2, <2>3
<1>. QED
  BY <1>1, <1>2, <1>3

(* All that holds in a tree.                                               *)
LEMMA SiblingsAre ==
    ASSUME NEW h, NEW range, NEW height, IsTree(h, range, height),
           NEW l, NEW r, Siblings(h, l, r)
    PROVE  SiblingFacts(h, range, height, l, r, h[l].parent, h[l].childIndex + 1)
<1>. DEFINE p == h[l].parent
            at == h[l].childIndex + 1
<1>1. Heap(h) /\ l \in DOMAIN h \ {RootPtr} /\ r \in DOMAIN h \ {RootPtr} /\ h[r].parent = p
      /\ h[r].childIndex + 1 = at + 1 /\ l \in Nat /\ r \in Nat
  <2>1. Heap(h) /\ l \in DOMAIN h \ {RootPtr} /\ r \in DOMAIN h \ {RootPtr} /\ h[r].parent = p
        /\ h[r].childIndex = at
    BY DEF Siblings, IsTree
  <2>. QED
    BY <2>1, NodeType
<1>2. /\ p \in DOMAIN h /\ p # l /\ ~h[p].isLeaf /\ at \in 1 .. NumKeys(h, p) + 1
      /\ NumChild(h, p) = NumKeys(h, p) + 1 /\ h[p].children[at] = l
      /\ height[p] = height[l] + 1 /\ range[l] = Turned(h, range, p, at)
  BY <1>1, ParentOf
<1>3. /\ p # r /\ at + 1 \in 1 .. NumKeys(h, p) + 1 /\ h[p].children[at + 1] = r
      /\ height[p] = height[r] + 1 /\ range[r] = Turned(h, range, p, at + 1)
  BY <1>1, ParentOf
<1>4. NumKeys(h, p) \in Nat /\ h[l].childIndex \in Nat \cup {-1} /\ h[r].childIndex \in Nat \cup {-1}
      /\ h[l].isLeaf \in BOOLEAN /\ h[r].isLeaf \in BOOLEAN
  BY <1>1, <1>2, NodeType
<1>5. at \in Nat /\ at >= 1 /\ at <= NumKeys(h, p) /\ h[l].childIndex = at - 1 /\ h[r].childIndex = at
  BY <1>1, <1>2, <1>3, <1>4
<1>6. /\ Different(h[l].children) /\ \A x \in ToSet(h[l].children) : x \in DOMAIN h \ {RootPtr} /\ h[x].parent = l
      /\ Different(h[r].children) /\ \A x \in ToSet(h[r].children) : x \in DOMAIN h \ {RootPtr} /\ h[x].parent = r
      /\ Different(h[p].children) /\ \A x \in ToSet(h[p].children) : x \in DOMAIN h \ {RootPtr} /\ h[x].parent = p
  BY <1>1, <1>2, OneParent
<1>7. l # r
  BY <1>5
<1>8. height[l] \in Nat /\ height[r] \in Nat
  BY <1>1, HeightOf
<1>9. height[r] = height[l]
  BY <1>2, <1>3, <1>8
<1>10. h[l].isLeaf = h[r].isLeaf
  BY <1>1, <1>4, <1>9, LeafIsLow
<1>11. p # RootPtr
  <2>. SUFFICES ASSUME p = RootPtr PROVE FALSE
    OBVIOUS
  <2>1. NumKeys(h, p) = 0
    BY DEF IsTree, NumKeys
  <2>. QED
    BY <1>5, <2>1
<1>. QED
  BY <1>1, <1>2, <1>3, <1>4, <1>5, <1>6, <1>7, <1>8, <1>9, <1>10, <1>11 DEF SiblingFacts
(* Keys and children written in a node that stays, its neighbour that goes *)
(* and their parent.                                                       *)
Gathered(h, keep, gone, p, A, C, E, F) ==
    [h EXCEPT ![keep].keys = A, ![keep].children = C, ![gone].keys = <<>>,
              ![p].children = F, ![p].keys = E]

IsGathered(h, g, keep, gone, p, A, C, E, F) ==
    /\ Heap(g) /\ DOMAIN g = DOMAIN h
    /\ \A x \in DOMAIN h : SamePlace(g, h, x) /\ SameLinks(g, h, x) /\ g[x].isLeaf = h[x].isLeaf
    /\ g[keep].keys = A /\ g[keep].children = C
    /\ g[p].keys = E /\ g[p].children = F
    /\ \A x \in DOMAIN h \ {keep, gone, p} : g[x] = h[x]

(* These writes, one after the other.                                      *)
LEMMA FiveWrites ==
    ASSUME NEW h, Heap(h), NEW keep \in DOMAIN h, NEW gone \in DOMAIN h, NEW p \in DOMAIN h,
           keep # gone, p # keep, p # gone,
           NEW A \in Seq(Nat), NEW C \in Seq(Nat), NEW E \in Seq(Nat), NEW F \in Seq(Nat),
           NEW g, g = Gathered(h, keep, gone, p, A, C, E, F)
    PROVE  IsGathered(h, g, keep, gone, p, A, C, E, F)
<1>1. \A x \in DOMAIN h : h[x] \in Node
  BY DEF Heap
<1>2. DOMAIN g = DOMAIN h /\ g = [x \in DOMAIN h |-> g[x]]
  BY DEF Gathered
<1>3. g[keep] = With(h[keep], A, C)
  BY DEF Gathered, With
<1>4. g[gone] = [h[gone] EXCEPT !.keys = <<>>]
  BY DEF Gathered
<1>5. g[p] = [h[p] EXCEPT !.children = F, !.keys = E]
  BY DEF Gathered
<1>6. \A x \in DOMAIN h \ {keep, gone, p} : g[x] = h[x]
  BY DEF Gathered
<1>8. /\ g[keep] \in Node /\ g[keep].keys = A /\ g[keep].children = C
      /\ g[keep].isLeaf = h[keep].isLeaf
      /\ SamePlace(g, h, keep) /\ SameLinks(g, h, keep)
  BY <1>1, <1>3, WithFields DEF SamePlace, SameLinks
<1>9. /\ g[gone] \in Node /\ g[gone].isLeaf = h[gone].isLeaf
      /\ SamePlace(g, h, gone) /\ SameLinks(g, h, gone)
  <2>1. <<>> \in Seq(Nat) /\ h[gone] \in Node
    BY <1>1
  <2>. QED
    BY <1>4, <2>1 DEF SamePlace, SameLinks, Node
<1>10. /\ g[p] \in Node /\ g[p].keys = E /\ g[p].children = F /\ g[p].isLeaf = h[p].isLeaf
       /\ SamePlace(g, h, p) /\ SameLinks(g, h, p)
  <2>1. h[p] \in Node
    BY <1>1
  <2>. QED
    BY <1>5, <2>1 DEF SamePlace, SameLinks, Node
<1>11. ASSUME NEW x \in DOMAIN h
       PROVE  /\ g[x] \in Node /\ SamePlace(g, h, x) /\ SameLinks(g, h, x)
              /\ g[x].isLeaf = h[x].isLeaf
  <2>1. CASE x \in {keep, gone, p}
    BY <1>8, <1>9, <1>10, <2>1
  <2>2. CASE x \notin {keep, gone, p}
    BY <1>1, <1>6, <2>2 DEF SamePlace, SameLinks
  <2>. QED
    BY <2>1, <2>2
<1>12. Heap(g)
  BY <1>2, <1>11 DEF Heap
<1>. QED
  BY <1>2, <1>6, <1>8, <1>10, <1>11, <1>12 DEF IsGathered

(* The joint keys are keys, and the joint children children.               *)
LEMMA JointType ==
    ASSUME NEW h, NEW range, NEW height, IsTree(h, range, height),
           NEW l, NEW r, Siblings(h, l, r)
    PROVE  LET p == h[l].parent
               at == h[l].childIndex + 1
           IN /\ h[l].keys \in Seq(Nat) /\ h[r].keys \in Seq(Nat) /\ h[p].keys \in Seq(Nat)
              /\ h[l].children \in Seq(Nat) /\ h[r].children \in Seq(Nat)
              /\ h[p].children \in Seq(Nat)
              /\ at \in 1 .. Len(h[p].keys) /\ h[p].keys[at] \in Nat
              /\ JoinedKeys(h, l, r) \in Seq(Nat)
              /\ h[l].children \o h[r].children \in Seq(Nat)
<1>. DEFINE p == h[l].parent
            at == h[l].childIndex + 1
            sep == h[p].keys[at]
            mid == IF h[l].isLeaf THEN <<>> ELSE <<sep>>
<1>1. SiblingFacts(h, range, height, l, r, p, at)
  BY SiblingsAre
<1>2. /\ h[l].keys \in Seq(Nat) /\ h[r].keys \in Seq(Nat) /\ h[p].keys \in Seq(Nat)
      /\ h[l].children \in Seq(Nat) /\ h[r].children \in Seq(Nat) /\ h[p].children \in Seq(Nat)
  BY <1>1, NodeType DEF SiblingFacts
<1>3. at \in 1 .. Len(h[p].keys)
  BY <1>1 DEF SiblingFacts, NumKeys
<1>4. sep \in Nat
  <2>. HIDE DEF at, p
  <2>1. \A i \in 1 .. Len(h[p].keys) : h[p].keys[i] \in Nat
    BY <1>2
  <2>. QED
    BY <1>3, <2>1
<1>5. mid \in Seq(Nat)
  BY <1>4
<1>6. JoinedKeys(h, l, r) = (h[l].keys \o mid) \o h[r].keys
  BY DEF JoinedKeys
<1>. HIDE DEF mid
<1>7. h[l].keys \o mid \in Seq(Nat) /\ h[l].children \o h[r].children \in Seq(Nat)
  BY <1>2, <1>5, OneBehind
<1>8. (h[l].keys \o mid) \o h[r].keys \in Seq(Nat)
  BY <1>2, <1>7, OneBehind
<1>. QED
  BY <1>2, <1>3, <1>4, <1>6, <1>7, <1>8

(* A sequence of nodes that are each there once, and another such without  *)
(* common ones, together are such.                                         *)
LEMMA JointDifferent ==
    ASSUME NEW a \in Seq(Nat), NEW b \in Seq(Nat), Different(a), Different(b),
           ToSet(a) \cap ToSet(b) = {}
    PROVE  Different(a \o b) /\ ToSet(a \o b) = ToSet(a) \cup ToSet(b)
<1>. DEFINE c == a \o b
            n == Len(a)
            m == Len(b)
<1>1. /\ c \in Seq(Nat) /\ Len(c) = n + m
      /\ \A i \in 1 .. n : c[i] = a[i]
      /\ \A i \in 1 .. m : c[n + i] = b[i]
  BY OneBehind
<1>2. n \in Nat /\ m \in Nat
  OBVIOUS
<1>3. /\ \A i \in 1 .. n : a[i] \in ToSet(a)
      /\ \A i \in 1 .. m : b[i] \in ToSet(b)
  BY SetOf
<1>4. /\ \A i, j \in 1 .. n : a[i] = a[j] => i = j
      /\ \A i, j \in 1 .. m : b[i] = b[j] => i = j
  BY DEF Different
<1>. HIDE DEF c, n, m
<1>5. \A i \in 1 .. n + m : i \in 1 .. n \/ \E j \in 1 .. m : i = n + j
  <2>1. \A i \in 1 .. n + m : i > n => i - n \in 1 .. m /\ i = n + (i - n)
    BY <1>2
  <2>. QED
    BY <1>2, <2>1
<1>6. ASSUME NEW i \in 1 .. n + m, NEW j \in 1 .. n + m, c[i] = c[j] PROVE i = j
  <2>1. CASE i \in 1 .. n /\ j \in 1 .. n
    BY <1>1, <1>4, <1>6, <2>1
  <2>2. CASE i \in 1 .. n /\ j \notin 1 .. n
    BY <1>1, <1>3, <1>5, <1>6, <2>2
  <2>3. CASE i \notin 1 .. n /\ j \in 1 .. n
    BY <1>1, <1>3, <1>5, <1>6, <2>3
  <2>4. CASE i \notin 1 .. n /\ j \notin 1 .. n
    <3>1. PICK u \in 1 .. m : i = n + u
      BY <1>5, <2>4
    <3>2. PICK v \in 1 .. m : j = n + v
      BY <1>5, <2>4
    <3>. QED
      BY <1>1, <1>4, <1>6, <3>1, <3>2
  <2>. QED
    BY <2>1, <2>2, <2>3, <2>4
<1>7. Different(c)
  BY <1>1, <1>6 DEF Different
<1>8. ASSUME NEW x \in ToSet(c) PROVE x \in ToSet(a) \cup ToSet(b)
  <2>1. PICK i \in 1 .. n + m : c[i] = x
    BY <1>1, SetOf
  <2>. QED
    BY <1>1, <1>3, <1>5, <2>1
<1>9. ASSUME NEW x \in ToSet(a) PROVE x \in ToSet(c)
  <2>1. PICK i \in 1 .. n : a[i] = x
    BY SetOf DEF n
  <2>2. i \in 1 .. n + m
    BY <1>2
  <2>. QED
    BY <1>1, <2>1, <2>2, SetOf
<1>10. ASSUME NEW x \in ToSet(b) PROVE x \in ToSet(c)
  <2>1. PICK i \in 1 .. m : b[i] = x
    BY SetOf DEF m
  <2>2. n + i \in 1 .. n + m
    BY <1>2
  <2>. QED
    BY <1>1, <2>1, <2>2, SetOf
<1>. QED
  BY <1>7, <1>8, <1>9, <1>10 DEF c
(* Nodes that are each there once, without one of them.                    *)
LEMMA RemovedDifferent ==
    ASSUME NEW s \in Seq(Nat), NEW i \in 1 .. Len(s), Different(s)
    PROVE  /\ Different(RemoveAt(s, i))
           /\ ToSet(RemoveAt(s, i)) = ToSet(s) \ {s[i]}
<1>. DEFINE n == Len(s)
            r == RemoveAt(s, i)
            Old(j) == IF j < i THEN j ELSE j + 1
<1>1. n \in Nat /\ i \in 1 .. n
  OBVIOUS
<1>2. r \in Seq(Nat) /\ Len(r) = n - 1 /\ \A j \in 1 .. n - 1 : r[j] = IF j < i THEN s[j] ELSE s[j + 1]
  BY Removed DEF IsRemoved
<1>3. \A j, k \in 1 .. n : s[j] = s[k] => j = k
  BY DEF Different
<1>. HIDE DEF r, n
<1>4. ASSUME NEW j \in 1 .. n - 1 PROVE Old(j) \in 1 .. n /\ Old(j) # i /\ r[j] = s[Old(j)]
  BY <1>1, <1>2
<1>5. ASSUME NEW j \in 1 .. n - 1, NEW k \in 1 .. n - 1, r[j] = r[k] PROVE j = k
  <2>1. Old(j) = Old(k)
    <3>. HIDE DEF Old
    <3>. QED
      BY <1>3, <1>4, <1>5
  <2>. QED
    BY <1>1, <2>1
<1>6. ASSUME NEW x \in ToSet(r) PROVE x \in ToSet(s) \ {s[i]}
  <2>1. PICK j \in 1 .. n - 1 : r[j] = x
    BY <1>2, SetOf
  <2>. HIDE DEF Old
  <2>2. x = s[Old(j)] /\ Old(j) \in 1 .. n /\ x # s[i]
    BY <1>1, <1>3, <1>4, <2>1
  <2>. QED
    BY <2>2, SetOf DEF n
<1>7. ASSUME NEW x \in ToSet(s), x # s[i] PROVE x \in ToSet(r)
  <2>1. PICK k \in 1 .. n : s[k] = x
    BY SetOf DEF n
  <2>2. k # i
    BY <1>7, <2>1
  <2>3. CASE k < i
    <3>1. k \in 1 .. n - 1 /\ r[k] = x
      BY <1>1, <1>2, <2>1, <2>3
    <3>. QED
      BY <1>2, <3>1, SetOf
  <2>4. CASE k > i
    <3>1. k - 1 \in 1 .. n - 1 /\ ~(k - 1 < i) /\ (k - 1) + 1 = k
      BY <1>1, <2>4
    <3>2. r[k - 1] = x
      BY <1>2, <2>1, <3>1
    <3>. QED
      BY <1>2, <3>1, <3>2, SetOf
  <2>. QED
    BY <1>1, <2>2, <2>3, <2>4
<1>. QED
  BY <1>2, <1>5, <1>6, <1>7 DEF Different, r

(* The heap after a merge, when the parent has been consolidated and the   *)
(* node that is gone is no longer in it.                                   *)
LEMMA MergeIs ==
    ASSUME NEW h, NEW range, NEW height, IsTree(h, range, height),
           NEW l, NEW r, Siblings(h, l, r), NEW toRight \in BOOLEAN,
           NEW keep, keep = (IF toRight THEN r ELSE l),
           NEW gone, gone = (IF toRight THEN l ELSE r),
           NEW g, g = Delete(Consolidate(Merge(h, l, r, toRight), h[l].parent), {gone})
    PROVE  /\ IsMerged(h, g, l, r, keep, gone) /\ Unlinked(h, g, l, r, keep)
           /\ toRight /\ h[l].prev # l =>
                 Consolidate(Merge(h, l, r, toRight), h[l].parent)[l].next = h[l].next
<1>. DEFINE p == h[l].parent
            at == h[l].childIndex + 1
            A == JoinedKeys(h, l, r)
            C == h[l].children \o h[r].children
            E == RemoveAt(h[p].keys, at)
            F == RemoveAt(h[p].children, IF keep = l THEN at + 1 ELSE at)
            w == Gathered(h, keep, gone, p, A, C, E, F)
            g1 == Consolidate(w, keep)
            g2 == Unlink(g1, l, r, toRight)
            g3 == Consolidate(g2, p)
<1>1. SiblingFacts(h, range, height, l, r, p, at)
  BY SiblingsAre
<1>2. /\ Heap(h) /\ l \in DOMAIN h /\ r \in DOMAIN h /\ l # r /\ p \in DOMAIN h /\ p # l /\ p # r
      /\ l \in Nat /\ r \in Nat /\ l # RootPtr /\ r # RootPtr
  BY <1>1 DEF SiblingFacts
<1>3. (keep = l /\ gone = r /\ ~toRight) \/ (keep = r /\ gone = l /\ toRight)
  OBVIOUS
<1>4. {keep, gone} = {l, r} /\ keep # gone /\ keep \in DOMAIN h /\ gone \in DOMAIN h
  BY <1>2, <1>3
<1>5. h[gone].childIndex + 1 = IF keep = l THEN at + 1 ELSE at
  BY <1>1, <1>2, <1>3 DEF SiblingFacts
<1>6. Merge(h, l, r, toRight) = g2
  <2>1. CASE toRight
    <3>1. keep = r /\ gone = l /\ keep # l
      BY <1>2, <2>1
    <3>. QED
      BY <1>5, <2>1, <3>1, Zenon DEF Merge, Gathered
  <2>2. CASE ~toRight
    <3>1. keep = l /\ gone = r
      BY <2>2
    <3>. QED
      BY <1>5, <2>2, <3>1, Zenon DEF Merge, Gathered
  <2>. QED
    BY <2>1, <2>2
<1>7. g = Delete(g3, {gone})
  BY <1>6
<1>8. /\ h[p].keys \in Seq(Nat) /\ h[p].children \in Seq(Nat)
      /\ A \in Seq(Nat) /\ C \in Seq(Nat)
      /\ at \in 1 .. Len(h[p].keys) /\ Len(h[p].children) = Len(h[p].keys) + 1
      /\ h[l].children \in Seq(Nat) /\ h[r].children \in Seq(Nat)
  BY <1>1, JointType DEF SiblingFacts, NumChild, NumKeys
<1>9. (IF keep = l THEN at + 1 ELSE at) \in 1 .. Len(h[p].children)
  <2>. HIDE DEF at, p
  <2>1. Len(h[p].keys) \in Nat
    BY <1>8
  <2>2. at \in 1 .. Len(h[p].children) /\ at + 1 \in 1 .. Len(h[p].children)
    BY <1>8, <2>1
  <2>. QED
    BY <2>2
<1>10. E \in Seq(Nat) /\ F \in Seq(Nat)
  BY <1>8, <1>9, Removed DEF IsRemoved
<1>11. Different(F) /\ ToSet(F) \subseteq ToSet(h[p].children) \ {gone}
  <2>1. Different(h[p].children) /\ h[p].children[IF keep = l THEN at + 1 ELSE at] = gone
    BY <1>1, <1>2, <1>3 DEF SiblingFacts
  <2>. QED
    BY <1>8, <1>9, <2>1, RemovedDifferent
<1>12. Different(C) /\ ToSet(C) = ToSet(h[l].children) \cup ToSet(h[r].children)
  BY <1>1, <1>8, JointDifferent DEF SiblingFacts
<1>13. /\ ToSet(C) \cap ToSet(F) = {} /\ ToSet(C) \cup ToSet(F) \subseteq DOMAIN h \ {gone}
       /\ gone \notin ToSet(C)
  <2>1. /\ ToSet(C) \cap ToSet(h[p].children) = {}
        /\ ToSet(C) \cup ToSet(h[p].children) \subseteq DOMAIN h
    BY <1>1, <1>12 DEF SiblingFacts
  <2>2. gone \in ToSet(h[p].children)
    <3>1. h[gone].parent = p /\ gone # RootPtr
      BY <1>1, <1>4 DEF SiblingFacts
    <3>2. h[p].children[h[gone].childIndex + 1] = gone /\ h[gone].childIndex + 1 \in 1 .. Len(h[p].children)
      <4>1. h[p].children[h[gone].childIndex + 1] = gone
        BY <1>1, <1>3 DEF SiblingFacts
      <4>. QED
        BY <1>5, <1>9, <4>1
    <3>. QED
      BY <1>8, <3>2, SetOf
  <2>. QED
    BY <1>11, <2>1, <2>2
<1>. HIDE DEF A, C, E, F
<1>14. IsGathered(h, w, keep, gone, p, A, C, E, F)
  BY <1>2, <1>4, <1>8, <1>10, FiveWrites
<1>. HIDE DEF w
<1>15. /\ Heap(w) /\ DOMAIN w = DOMAIN h /\ w[keep].children = C /\ w[p].children = F
       /\ w[keep].keys = A /\ w[p].keys = E
       /\ w[keep].isLeaf = h[keep].isLeaf /\ w[p].isLeaf = h[p].isLeaf
       /\ \A x \in DOMAIN h : SamePlace(w, h, x) /\ SameLinks(w, h, x)
       /\ \A x \in DOMAIN h \ {l, r, p} : w[x] = h[x]
  BY <1>2, <1>4, <1>14 DEF IsGathered
<1>16. /\ SameHeap(g1, w) /\ Placed(g1, keep)
       /\ \A x \in DOMAIN w : x \notin ToSet(C) => SamePlace(g1, w, x)
  BY <1>4, <1>12, <1>13, <1>15, ConsolidatePlaces
<1>17. \A x \in DOMAIN w : SameLinks(g1, w, x)
  BY <1>4, <1>15, ConsolidateFields
<1>. HIDE DEF g1
<1>18. /\ Heap(g1) /\ DOMAIN g1 = DOMAIN h /\ g1[keep].children = C /\ g1[p].children = F
       /\ \A x \in DOMAIN h : SameLinks(g1, h, x)
  BY <1>2, <1>4, <1>15, <1>16, <1>17 DEF SameHeap, SameBody, SameLinks
<1>19. /\ g1[l].prev = h[l].prev /\ g1[r].next = h[r].next
       /\ h[l].prev \in Pointer /\ h[r].next \in Pointer /\ l \in Pointer /\ r \in Pointer
  BY <1>2, <1>18, NodeType DEF SameLinks, Pointer
<1>20. \/ ~toRight /\ g2 = SetPrev(SetNext(g1, l, h[r].next), h[r].next, l)
       \/ toRight /\ g2 = SetNext(SetPrev(g1, r, h[l].prev), h[l].prev, r)
  BY <1>19 DEF Unlink
<1>21. SameHeap(g2, g1) /\ \A x \in DOMAIN h : SamePlace(g2, g1, x)
  BY <1>18, <1>19, <1>20, LinksSet
<1>22. /\ ~toRight => \A x \in DOMAIN h :
             /\ g2[x].next = IF x = l THEN h[r].next ELSE h[x].next
             /\ g2[x].prev = IF x = h[r].next THEN l ELSE h[x].prev
       /\ toRight => \A x \in DOMAIN h :
             /\ g2[x].next = IF x = h[l].prev THEN r ELSE h[x].next
             /\ g2[x].prev = IF x = r THEN h[l].prev ELSE h[x].prev
  <2>. DEFINE a == SetNext(g1, l, h[r].next)
              b == SetPrev(g1, r, h[l].prev)
  <2>1. NextIs(a, g1, l, h[r].next) /\ PrevIs(b, g1, r, h[l].prev)
    BY <1>18, <1>19, LinkFields
  <2>2. SameHeap(a, g1) /\ SameHeap(b, g1)
    BY <1>18, <1>19, LinkSet
  <2>3. Heap(a) /\ Heap(b) /\ DOMAIN a = DOMAIN h /\ DOMAIN b = DOMAIN h
    BY <1>18, <2>2 DEF SameHeap
  <2>. HIDE DEF a, b
  <2>4. PrevIs(SetPrev(a, h[r].next, l), a, h[r].next, l) /\ NextIs(SetNext(b, h[l].prev, r), b, h[l].prev, r)
    BY <1>19, <2>3, LinkFields
  <2>5. \/ ~toRight /\ g2 = SetPrev(a, h[r].next, l)
        \/ toRight /\ g2 = SetNext(b, h[l].prev, r)
    BY <1>20 DEF a, b
  <2>. HIDE DEF g2
  <2>. QED
    BY <1>18, <2>1, <2>3, <2>4, <2>5 DEF NextIs, PrevIs, SameLinks
<1>. HIDE DEF g2
<1>23. /\ Heap(g2) /\ DOMAIN g2 = DOMAIN h /\ g2[keep].children = C /\ g2[p].children = F
  BY <1>2, <1>4, <1>18, <1>21 DEF SameHeap, SameBody
<1>24. Placed(g2, keep)
  BY <1>4, <1>13, <1>16, <1>18, <1>21, StillPlaced
<1>25. /\ SameHeap(g3, g2) /\ Placed(g3, p)
       /\ \A x \in DOMAIN g2 : x \notin ToSet(F) => SamePlace(g3, g2, x)
  BY <1>2, <1>11, <1>13, <1>23, ConsolidatePlaces
<1>26. \A x \in DOMAIN h : SameLinks(g3, g2, x)
  BY <1>2, <1>23, ConsolidateFields
<1>. HIDE DEF g3
<1>27. Placed(g3, keep)
  BY <1>4, <1>13, <1>23, <1>24, <1>25, StillPlaced
<1>28. SameHeap(g3, w) /\ SameHeap(g3, g2)
  BY <1>16, <1>21, <1>25, SameHeapAgain
<1>29. Heap(g3) /\ DOMAIN g3 = DOMAIN h
  BY <1>23, <1>25 DEF SameHeap
<1>30. DOMAIN g = DOMAIN h \ {gone} /\ \A x \in DOMAIN g : g[x] = g3[x]
  BY <1>7, <1>29 DEF Delete
<1>31. Heap(g)
  <2>1. g = [x \in DOMAIN h \ {gone} |-> g3[x]]
    BY <1>7, <1>29 DEF Delete
  <2>2. IsFiniteSet(DOMAIN h \ {gone})
    BY <1>2, FS_Subset DEF Heap
  <2>. QED
    BY <1>2, <1>4, <1>29, <1>30, <2>1, <2>2, SMTT(30) DEF Heap
<1>32. MergedBodies(h, g, l, r, keep)
  <2>1. keep \in DOMAIN g /\ p \in DOMAIN g /\ \A x \in DOMAIN h \ {l, r, p} : x \in DOMAIN g
    BY <1>2, <1>4, <1>30
  <2>2. SameBody(g3, w, keep) /\ SameBody(g3, w, p) /\ \A x \in DOMAIN h : SameBody(g3, w, x)
    BY <1>2, <1>4, <1>15, <1>28 DEF SameHeap
  <2>3. /\ g[keep].isLeaf = h[keep].isLeaf /\ g[keep].keys = A /\ g[keep].children = C
        /\ g[p].isLeaf = h[p].isLeaf /\ g[p].keys = E /\ g[p].children = F
    BY <1>15, <1>30, <2>1, <2>2 DEF SameBody
  <2>4. \A x \in DOMAIN h \ {l, r, p} : SameBody(g, h, x)
    BY <1>15, <1>30, <2>1, <2>2, ZenonT(60) DEF SameBody
  <2>. QED
    BY <2>3, <2>4 DEF MergedBodies, A, C, E, F, p
<1>33. Placed(g, keep) /\ Placed(g, p)
  <2>1. keep \in DOMAIN g /\ p \in DOMAIN g /\ ToSet(C) \subseteq DOMAIN g /\ ToSet(F) \subseteq DOMAIN g
    BY <1>2, <1>4, <1>13, <1>30
  <2>2. g[keep].children = C /\ g[p].children = F /\ g3[keep].children = C /\ g3[p].children = F
    <3>1. g3[keep].children = C /\ g3[p].children = F
      BY <1>2, <1>4, <1>23, <1>25 DEF SameHeap, SameBody
    <3>. QED
      BY <1>30, <2>1, <3>1
  <2>3. /\ \A i \in 1 .. Len(C) : C[i] \in DOMAIN g
        /\ \A i \in 1 .. Len(F) : F[i] \in DOMAIN g
    BY <1>8, <1>10, <2>1, SetOf
  <2>4. \A i \in 1 .. Len(C) : g[C[i]].parent = keep /\ g[C[i]].childIndex = i - 1
    BY <1>27, <1>30, <2>2, <2>3 DEF Placed, NumChild
  <2>5. \A i \in 1 .. Len(F) : g[F[i]].parent = p /\ g[F[i]].childIndex = i - 1
    BY <1>25, <1>30, <2>2, <2>3 DEF Placed, NumChild
  <2>. HIDE DEF p
  <2>6. Placed(g, keep)
    BY <2>2, <2>4 DEF Placed, NumChild
  <2>7. Placed(g, p)
    BY <2>2, <2>5 DEF Placed, NumChild
  <2>. QED
    BY <2>6, <2>7
<1>34. ASSUME NEW x \in DOMAIN g,
              x \notin ToSet(h[l].children) \cup ToSet(h[r].children) \cup ToSet(h[p].children)
       PROVE  SamePlace(g, h, x)
  <2>1. x \in DOMAIN h /\ x \notin ToSet(C) /\ x \notin ToSet(F) /\ g[x] = g3[x]
    BY <1>11, <1>12, <1>30, <1>34
  <2>. QED
    BY <1>15, <1>16, <1>21, <1>23, <1>25, <2>1 DEF SamePlace
<1>35. Unlinked(h, g, l, r, keep)
  <2>1. \A x \in DOMAIN g : x \in DOMAIN h /\ g[x].next = g2[x].next /\ g[x].prev = g2[x].prev
    BY <1>26, <1>30 DEF SameLinks
  <2>2. (keep = l => ~toRight) /\ (keep = r => toRight)
    BY <1>2, <1>3
  <2>3. keep = l => \A x \in DOMAIN g :
           /\ g[x].next = IF x = l THEN h[r].next ELSE h[x].next
           /\ g[x].prev = IF x = h[r].next THEN l ELSE h[x].prev
    BY <1>22, <2>1, <2>2, ZenonT(60)
  <2>4. keep = r => \A x \in DOMAIN g :
           /\ g[x].next = IF x = h[l].prev THEN r ELSE h[x].next
           /\ g[x].prev = IF x = r THEN h[l].prev ELSE h[x].prev
    <3>. SUFFICES ASSUME keep = r, NEW x \in DOMAIN g
                  PROVE  /\ g[x].next = IF x = h[l].prev THEN r ELSE h[x].next
                         /\ g[x].prev = IF x = r THEN h[l].prev ELSE h[x].prev
      OBVIOUS
    <3>1. toRight
      BY <2>2
    <3>2. /\ g2[x].next = IF x = h[l].prev THEN r ELSE h[x].next
          /\ g2[x].prev = IF x = r THEN h[l].prev ELSE h[x].prev
      BY <1>22, <2>1, <3>1
    <3>. QED
      BY <2>1, <3>2
  <2>. QED
    BY <2>3, <2>4 DEF Unlinked
<1>36. toRight /\ h[l].prev # l =>
          Consolidate(Merge(h, l, r, toRight), h[l].parent)[l].next = h[l].next
  <2>1. Consolidate(Merge(h, l, r, toRight), h[l].parent) = g3
    BY <1>6 DEF g3
  <2>2. g3[l].next = g2[l].next
    BY <1>2, <1>26 DEF SameLinks
  <2>3. toRight => g2[l].next = IF l = h[l].prev THEN r ELSE h[l].next
    BY <1>2, <1>22
  <2>. QED
    BY <2>1, <2>2, <2>3
<1>. QED
  BY <1>3, <1>30, <1>31, <1>32, <1>33, <1>34, <1>35, <1>36 DEF IsMerged

(* The same, place by place.                                               *)
KeepParts(h, g, l, r, keep, sep) ==
    /\ g[keep].isLeaf = h[l].isLeaf
    /\ \A j \in 1 .. NumKeys(h, l) : g[keep].keys[j] = h[l].keys[j]
    /\ h[l].isLeaf =>
          /\ NumKeys(g, keep) = NumKeys(h, l) + NumKeys(h, r)
          /\ \A j \in 1 .. NumKeys(h, r) : g[keep].keys[NumKeys(h, l) + j] = h[r].keys[j]
          /\ g[keep].children = <<>> /\ NumChild(g, keep) = 0
    /\ ~h[l].isLeaf =>
          /\ NumKeys(g, keep) = NumKeys(h, l) + 1 + NumKeys(h, r)
          /\ g[keep].keys[NumKeys(h, l) + 1] = sep
          /\ \A j \in 1 .. NumKeys(h, r) : g[keep].keys[NumKeys(h, l) + 1 + j] = h[r].keys[j]
          /\ NumChild(g, keep) = NumKeys(h, l) + NumKeys(h, r) + 2
          /\ \A j \in 1 .. NumKeys(h, l) + 1 : g[keep].children[j] = h[l].children[j]
          /\ \A j \in 1 .. NumKeys(h, r) + 1 :
                g[keep].children[NumKeys(h, l) + 1 + j] = h[r].children[j]

AboveParts(h, g, keep, p, at) ==
    /\ g[p].isLeaf = h[p].isLeaf
    /\ NumKeys(g, p) = NumKeys(h, p) - 1 /\ NumChild(g, p) = NumKeys(h, p)
    /\ \A j \in 1 .. NumKeys(h, p) - 1 :
          g[p].keys[j] = IF j < at THEN h[p].keys[j] ELSE h[p].keys[j + 1]
    /\ \A j \in 1 .. NumKeys(h, p) :
          g[p].children[j] = IF j < at THEN h[p].children[j]
                             ELSE IF j = at THEN keep ELSE h[p].children[j + 1]

MergeFacts(h, range, height, g, l, r, keep, gone, p, at) ==
    /\ SiblingFacts(h, range, height, l, r, p, at)
    /\ KeepParts(h, g, l, r, keep, h[p].keys[at])
    /\ AboveParts(h, g, keep, p, at)
    /\ (keep = l /\ gone = r) \/ (keep = r /\ gone = l)
    /\ Heap(g) /\ DOMAIN g = DOMAIN h \ {gone}
    /\ NumKeys(h, l) \in Nat /\ NumKeys(h, r) \in Nat
    /\ ~h[l].isLeaf => /\ NumChild(h, l) = NumKeys(h, l) + 1
                       /\ NumChild(h, r) = NumKeys(h, r) + 1
    /\ ToSet(g[keep].children) = ToSet(h[l].children) \cup ToSet(h[r].children)
    /\ ToSet(g[p].children) = ToSet(h[p].children) \ {gone}
    /\ \A x \in DOMAIN h \ {l, r, p} : SameBody(g, h, x)

(* What holds after the merge of two neighbours in a tree.                 *)
LEMMA MergedParts ==
    ASSUME NEW h, NEW range, NEW height, IsTree(h, range, height),
           NEW l, NEW r, Siblings(h, l, r),
           NEW g, NEW keep, NEW gone, IsMerged(h, g, l, r, keep, gone)
    PROVE  MergeFacts(h, range, height, g, l, r, keep, gone, h[l].parent, h[l].childIndex + 1)
<1>. DEFINE p == h[l].parent
            at == h[l].childIndex + 1
            K == h[l].keys
            M == h[r].keys
            A == h[l].children
            B == h[r].children
            sep == h[p].keys[at]
            L == NumKeys(h, l)
            R == NumKeys(h, r)
            n == NumKeys(h, p)
            i == IF keep = l THEN at + 1 ELSE at
<1>1. SiblingFacts(h, range, height, l, r, p, at)
  BY SiblingsAre
<1>2. /\ K \in Seq(Nat) /\ M \in Seq(Nat) /\ A \in Seq(Nat) /\ B \in Seq(Nat)
      /\ h[p].keys \in Seq(Nat) /\ h[p].children \in Seq(Nat)
      /\ at \in 1 .. n /\ sep \in Nat
  BY JointType DEF NumKeys
<1>3. /\ L = Len(K) /\ R = Len(M) /\ L \in Nat /\ R \in Nat
      /\ n = Len(h[p].keys) /\ n \in Nat /\ Len(h[p].children) = n + 1
  <2>1. L = Len(K) /\ R = Len(M) /\ n = Len(h[p].keys)
    BY DEF NumKeys
  <2>2. L \in Nat /\ R \in Nat
    BY <1>2, <2>1, SMTT(30)
  <2>3. n \in Nat /\ Len(h[p].children) = n + 1
    BY <1>1 DEF SiblingFacts, NumChild
  <2>. QED
    BY <2>1, <2>2, <2>3
<1>4. MergedBodies(h, g, l, r, keep) /\ Heap(g) /\ DOMAIN g = DOMAIN h \ {gone}
      /\ ((keep = l /\ gone = r) \/ (keep = r /\ gone = l))
  BY DEF IsMerged
<1>5. /\ NodeFits(h, range, height, l) /\ NodeFits(h, range, height, r)
      /\ h[l].isLeaf = h[r].isLeaf /\ h[l].isLeaf \in BOOLEAN /\ l # r
  BY <1>1, NodeType DEF IsTree, SiblingFacts
<1>6. /\ h[l].isLeaf => A = <<>> /\ B = <<>>
      /\ ~h[l].isLeaf => /\ Len(A) = L + 1 /\ Len(B) = R + 1
                         /\ NumChild(h, l) = L + 1 /\ NumChild(h, r) = R + 1
  BY <1>5 DEF NodeFits, NumChild
<1>7. /\ g[keep].isLeaf = h[l].isLeaf
      /\ g[keep].keys = K \o (IF h[l].isLeaf THEN <<>> ELSE <<sep>>) \o M
      /\ g[keep].children = A \o B
      /\ g[p].isLeaf = h[p].isLeaf
      /\ g[p].keys = RemoveAt(h[p].keys, at) /\ g[p].children = RemoveAt(h[p].children, i)
      /\ \A x \in DOMAIN h \ {l, r, p} : SameBody(g, h, x)
  BY <1>4, <1>5 DEF MergedBodies, JoinedKeys
<1>8. i \in 1 .. n + 1 /\ h[p].children[i] = gone /\ h[p].children[at] = l /\ h[p].children[at + 1] = r
  <2>1. h[p].children[at] = l /\ h[p].children[at + 1] = r
    BY <1>1 DEF SiblingFacts
  <2>2. at \in 1 .. n /\ n \in Nat
    BY <1>2, <1>3
  <2>. HIDE DEF at, p, n, i
  <2>3. CASE keep = l
    <3>1. i = at + 1 /\ gone = r
      BY <1>4, <1>5, <2>3 DEF i
    <3>. QED
      BY <2>1, <2>2, <3>1
  <2>4. CASE keep # l
    <3>1. i = at /\ gone = l
      BY <1>4, <2>4 DEF i
    <3>. QED
      BY <2>1, <2>2, <3>1
  <2>. QED
    BY <2>3, <2>4
<1>9. KeepParts(h, g, l, r, keep, sep)
  <2>. HIDE DEF K, M, A, B, sep, L, R, p, at
  <2>1. CASE h[l].isLeaf
    <3>1. <<>> \in Seq(Nat) /\ Len(<<>>) = 0 /\ g[keep].keys = (K \o <<>>) \o M
      BY <1>7, <2>1
    <3>2. /\ K \o <<>> \in Seq(Nat) /\ Len(K \o <<>>) = L
          /\ \A j \in 1 .. L : (K \o <<>>)[j] = K[j]
      BY <1>2, <1>3, <3>1, OneBehind
    <3>3. /\ Len(g[keep].keys) = L + R
          /\ \A j \in 1 .. L : g[keep].keys[j] = K[j]
          /\ \A j \in 1 .. R : g[keep].keys[L + j] = M[j]
      <4>. DEFINE c == K \o <<>>
      <4>. HIDE DEF c
      <4>1. c \in Seq(Nat) /\ Len(c) = L /\ g[keep].keys = c \o M /\ \A j \in 1 .. L : c[j] = K[j]
        BY <3>1, <3>2 DEF c
      <4>2. /\ Len(c \o M) = Len(c) + Len(M)
            /\ \A j \in 1 .. Len(c) : (c \o M)[j] = c[j]
            /\ \A j \in 1 .. Len(M) : (c \o M)[Len(c) + j] = M[j]
        BY <1>2, <4>1, OneBehind
      <4>. QED
        BY <1>3, <4>1, <4>2
    <3>4. g[keep].children = <<>>
      BY <1>6, <1>7, <2>1
    <3>. QED
      BY <1>7, <2>1, <3>3, <3>4 DEF KeepParts, NumKeys, NumChild, K, M, L, R
  <2>2. CASE ~h[l].isLeaf
    <3>. DEFINE c == K \o <<sep>>
    <3>1. <<sep>> \in Seq(Nat) /\ Len(<<sep>>) = 1 /\ <<sep>>[1] = sep /\ g[keep].keys = c \o M
      BY <1>2, <1>7, <2>2, SMTT(30)
    <3>2. /\ c \in Seq(Nat) /\ Len(c) = L + 1
          /\ \A j \in 1 .. L : c[j] = K[j]
          /\ c[L + 1] = sep
      <4>1. /\ c \in Seq(Nat) /\ Len(c) = L + 1
            /\ \A j \in 1 .. L : c[j] = K[j]
            /\ \A j \in 1 .. 1 : c[L + j] = <<sep>>[j]
        BY <1>2, <1>3, <3>1, OneBehind
      <4>. HIDE DEF c
      <4>2. c[L + 1] = <<sep>>[1]
        BY <4>1
      <4>. QED
        BY <3>1, <4>1, <4>2
    <3>. HIDE DEF c
    <3>3. /\ Len(g[keep].keys) = L + 1 + R
          /\ \A j \in 1 .. L + 1 : g[keep].keys[j] = c[j]
          /\ \A j \in 1 .. R : g[keep].keys[L + 1 + j] = M[j]
      <4>1. /\ Len(c \o M) = Len(c) + Len(M)
            /\ \A j \in 1 .. Len(c) : (c \o M)[j] = c[j]
            /\ \A j \in 1 .. Len(M) : (c \o M)[Len(c) + j] = M[j]
        BY <1>2, <3>2, OneBehind
      <4>. QED
        BY <1>3, <3>1, <3>2, <4>1
    <3>4. /\ \A j \in 1 .. L : g[keep].keys[j] = K[j]
          /\ g[keep].keys[L + 1] = sep
      BY <1>3, <3>2, <3>3, SMTT(30)
    <3>5. /\ Len(g[keep].children) = (L + 1) + (R + 1)
          /\ \A j \in 1 .. L + 1 : g[keep].children[j] = A[j]
          /\ \A j \in 1 .. R + 1 : g[keep].children[L + 1 + j] = B[j]
      <4>1. /\ Len(A \o B) = Len(A) + Len(B)
            /\ \A j \in 1 .. Len(A) : (A \o B)[j] = A[j]
            /\ \A j \in 1 .. Len(B) : (A \o B)[Len(A) + j] = B[j]
        BY <1>2, OneBehind
      <4>2. Len(A) = L + 1 /\ Len(B) = R + 1 /\ g[keep].children = A \o B
        BY <1>6, <1>7, <2>2
      <4>. QED
        BY <4>1, <4>2
    <3>6. (L + 1) + (R + 1) = L + R + 2
      BY <1>3
    <3>. QED
      BY <1>7, <2>2, <3>3, <3>4, <3>5, <3>6 DEF KeepParts, NumKeys, NumChild, K, M, A, B, L, R
  <2>. QED
    BY <1>5, <2>1, <2>2
<1>10. AboveParts(h, g, keep, p, at)
  <2>1. IsRemoved(g[p].keys, h[p].keys, at) /\ IsRemoved(g[p].children, h[p].children, i)
    <3>1. at \in 1 .. Len(h[p].keys) /\ i \in 1 .. Len(h[p].children)
      BY <1>2, <1>3, <1>8
    <3>. QED
      BY <1>2, <1>7, <3>1, Removed
  <2>. HIDE DEF p, at, n, i
  <2>2. /\ Len(g[p].keys) = n - 1
        /\ \A j \in 1 .. n - 1 : g[p].keys[j] = IF j < at THEN h[p].keys[j] ELSE h[p].keys[j + 1]
    BY <1>3, <2>1 DEF IsRemoved
  <2>3. /\ Len(g[p].children) = n
        /\ \A j \in 1 .. n : g[p].children[j] = IF j < i THEN h[p].children[j] ELSE h[p].children[j + 1]
    <3>1. (n + 1) - 1 = n
      BY <1>3
    <3>. QED
      BY <1>3, <2>1, <3>1 DEF IsRemoved
  <2>4. ASSUME NEW j \in 1 .. n
        PROVE  g[p].children[j] = IF j < at THEN h[p].children[j]
                                  ELSE IF j = at THEN keep ELSE h[p].children[j + 1]
    <3>1. at \in Nat /\ j \in Nat /\ n \in Nat
      BY <1>2, <1>3
    <3>2. i = at \/ i = at + 1
      BY DEF i
    <3>3. CASE j < at
      BY <2>3, <3>1, <3>2, <3>3
    <3>4. CASE j = at
      <4>1. CASE keep = l
        <5>1. j < i
          BY <3>1, <3>4, <4>1 DEF i
        <5>. QED
          BY <1>8, <2>3, <3>1, <3>4, <4>1, <5>1
      <4>2. CASE keep # l
        <5>1. ~(j < i) /\ keep = r
          BY <1>4, <3>1, <3>4, <4>2 DEF i
        <5>. QED
          BY <1>8, <2>3, <3>1, <3>4, <4>2, <5>1
      <4>. QED
        BY <4>1, <4>2
    <3>5. CASE j > at
      BY <2>3, <3>1, <3>2, <3>5
    <3>. QED
      BY <3>1, <3>3, <3>4, <3>5
  <2>. QED
    BY <1>7, <2>2, <2>3, <2>4 DEF AboveParts, NumKeys, NumChild, n
<1>11. ToSet(g[keep].children) = ToSet(A) \cup ToSet(B)
  <2>1. Different(A) /\ Different(B) /\ ToSet(A) \cap ToSet(B) = {}
    BY <1>1 DEF SiblingFacts
  <2>. HIDE DEF A, B
  <2>2. ToSet(A \o B) = ToSet(A) \cup ToSet(B)
    BY <1>2, <2>1, JointDifferent
  <2>. QED
    BY <1>7, <2>2
<1>12. ToSet(g[p].children) = ToSet(h[p].children) \ {gone}
  <2>1. i \in 1 .. Len(h[p].children) /\ Different(h[p].children)
    BY <1>1, <1>3, <1>8 DEF SiblingFacts
  <2>. QED
    BY <1>2, <1>7, <1>8, <2>1, RemovedDifferent
<1>. QED
  BY <1>1, <1>3, <1>4, <1>6, <1>7, <1>9, <1>10, <1>11, <1>12 DEF MergeFacts
-----------------------------------------------------------------------------
(* A merge leaves a tree                                                   *)

(* Every node has keys to take.                                            *)
Roomy(h, range) == \A x \in DOMAIN h : range[x] # {}

(* All of a merge: h is a tree, g the heap after it.                       *)
Merging(h, range, height, g, l, r, keep, gone, p, at) ==
    /\ IsTree(h, range, height) /\ Roomy(h, range) /\ Siblings(h, l, r)
    /\ p = h[l].parent /\ at = h[l].childIndex + 1
    /\ IsMerged(h, g, l, r, keep, gone)
    /\ MergeFacts(h, range, height, g, l, r, keep, gone, p, at)

MergeRange(range, g, l, r, keep) ==
    [x \in DOMAIN g |-> IF x = keep THEN range[l] \cup range[r] ELSE range[x]]

MergeHeight(g, height) == [x \in DOMAIN g |-> height[x]]

(* The separator is between the keys of l and those of r.                  *)
LEMMA RangesMeet ==
    ASSUME NEW h, NEW range, NEW height, NEW g, NEW l, NEW r, NEW keep, NEW gone, NEW p, NEW at,
           Merging(h, range, height, g, l, r, keep, gone, p, at)
    PROVE  LET sep == h[p].keys[at]
           IN /\ sep \in Nat
              /\ \A k \in range[l] : k \in Nat /\ k < sep /\ k \in range[p] /\ GtKeyIdx(h, p, k) = at - 1
              /\ \A k \in range[r] : k \in Nat /\ sep <= k /\ k \in range[p] /\ GtKeyIdx(h, p, k) = at
              /\ \A k \in range[p] : /\ GtKeyIdx(h, p, k) = at - 1 => k \in range[l]
                                     /\ GtKeyIdx(h, p, k) = at => k \in range[r]
<1>. DEFINE sep == h[p].keys[at]
<1>1. IsTree(h, range, height) /\ SiblingFacts(h, range, height, l, r, p, at)
  BY DEF Merging, MergeFacts
<1>2. /\ p \in DOMAIN h /\ at \in Nat /\ at >= 1 /\ at <= NumKeys(h, p) /\ NumKeys(h, p) \in Nat
      /\ range[l] = Turned(h, range, p, at) /\ range[r] = Turned(h, range, p, at + 1)
  BY <1>1 DEF SiblingFacts
<1>3. range[p] \subseteq Nat /\ sep \in Nat
  BY <1>1, <1>2, KeysOf
<1>4. at \in 1 .. NumKeys(h, p) /\ (at + 1) - 1 = at
  BY <1>2
<1>5. \A k \in Nat : /\ GtKeyIdx(h, p, k) \in 0 .. NumKeys(h, p)
                     /\ sep <= k <=> at <= GtKeyIdx(h, p, k)
  BY <1>1, <1>2, <1>4, SearchIn
<1>6. \A k : /\ k \in range[l] <=> k \in range[p] /\ GtKeyIdx(h, p, k) = at - 1
             /\ k \in range[r] <=> k \in range[p] /\ GtKeyIdx(h, p, k) = at
  BY <1>2, <1>4 DEF Turned
<1>. HIDE DEF sep
<1>7. ASSUME NEW k \in range[l] PROVE k \in Nat /\ k < sep
  BY <1>2, <1>3, <1>5, <1>6
<1>8. ASSUME NEW k \in range[r] PROVE k \in Nat /\ sep <= k
  BY <1>2, <1>3, <1>5, <1>6
<1>. QED
  BY <1>3, <1>6, <1>7, <1>8 DEF sep

(* So it is above the keys of l and not above those of r; below all of them*)
(* when there is a child between.                                          *)
LEMMA KeysMeet ==
    ASSUME NEW h, NEW range, NEW height, NEW g, NEW l, NEW r, NEW keep, NEW gone, NEW p, NEW at,
           Merging(h, range, height, g, l, r, keep, gone, p, at)
    PROVE  LET sep == h[p].keys[at]
           IN /\ \A i \in 1 .. NumKeys(h, l) : h[l].keys[i] < sep
              /\ \A i \in 1 .. NumKeys(h, r) : sep <= h[r].keys[i]
              /\ ~h[l].isLeaf => \A i \in 1 .. NumKeys(h, r) : sep < h[r].keys[i]
<1>. DEFINE sep == h[p].keys[at]
<1>1. IsTree(h, range, height) /\ SiblingFacts(h, range, height, l, r, p, at) /\ Roomy(h, range)
  BY DEF Merging, MergeFacts
<1>2. l \in DOMAIN h /\ r \in DOMAIN h /\ h[l].isLeaf = h[r].isLeaf
  BY <1>1 DEF SiblingFacts
<1>3. /\ \A i \in 1 .. NumKeys(h, l) : h[l].keys[i] \in Nat /\ h[l].keys[i] \in range[l]
      /\ \A i \in 1 .. NumKeys(h, r) : h[r].keys[i] \in Nat /\ h[r].keys[i] \in range[r]
      /\ \A i, j \in 1 .. NumKeys(h, r) : i < j => h[r].keys[i] < h[r].keys[j]
      /\ NumKeys(h, r) \in Nat
  BY <1>1, <1>2, KeysOf
<1>4. /\ sep \in Nat /\ \A k \in range[l] : k < sep
      /\ \A k \in range[r] : k \in Nat /\ sep <= k
  BY RangesMeet
<1>5. ASSUME ~h[l].isLeaf, NEW i \in 1 .. NumKeys(h, r)
      PROVE  sep < h[r].keys[i]
  <2>1. NumChild(h, r) = NumKeys(h, r) + 1
    BY <1>1, <1>2, <1>5 DEF IsTree, NodeFits
  <2>2. 1 \in 1 .. NumChild(h, r) /\ 1 \in 1 .. NumKeys(h, r)
    BY <1>3, <1>5, <2>1
  <2>. DEFINE c == h[r].children[1]
  <2>3. c \in DOMAIN h /\ range[c] = Turned(h, range, r, 1)
    BY <1>1, <1>2, <2>2, ChildOf
  <2>. HIDE DEF c
  <2>4. PICK k \in range[c] : TRUE
    BY <1>1, <2>3 DEF Roomy
  <2>5. k \in range[r] /\ GtKeyIdx(h, r, k) = 0
    BY <2>3, <2>4 DEF Turned
  <2>6. k \in Nat /\ sep <= k
    BY <1>4, <2>5
  <2>7. ~(h[r].keys[1] <= k)
    BY <1>1, <1>2, <2>2, <2>5, <2>6, SearchIn
  <2>8. h[r].keys[1] \in Nat /\ h[r].keys[i] \in Nat /\ h[r].keys[1] <= h[r].keys[i]
    BY <1>3, <1>5, <2>2
  <2>. HIDE DEF sep
  <2>. QED
    BY <1>4, <2>6, <2>7, <2>8
<1>. QED
  BY <1>3, <1>4, <1>5

(* The search in the node that has it all.                                 *)
LEMMA SearchKeep ==
    ASSUME NEW h, NEW range, NEW height, NEW g, NEW l, NEW r, NEW keep, NEW gone, NEW p, NEW at,
           Merging(h, range, height, g, l, r, keep, gone, p, at)
    PROVE  LET sep == h[p].keys[at]
           IN /\ Ascending(g[keep].keys)
              /\ ToSet(g[keep].keys) \subseteq range[l] \cup range[r]
              /\ h[l].isLeaf => ToSet(g[keep].keys) = ToSet(h[l].keys) \cup ToSet(h[r].keys)
              /\ ~h[l].isLeaf =>
                    /\ \A k \in Nat : k < sep => GtKeyIdx(g, keep, k) = GtKeyIdx(h, l, k)
                    /\ \A k \in Nat : sep <= k =>
                          GtKeyIdx(g, keep, k) = NumKeys(h, l) + 1 + GtKeyIdx(h, r, k)
<1>. DEFINE sep == h[p].keys[at]
            K == h[l].keys
            M == h[r].keys
            L == NumKeys(h, l)
            R == NumKeys(h, r)
            a == g[keep].keys
            leaf == h[l].isLeaf
            over == IF leaf THEN L ELSE L + 1
<1>1. /\ IsTree(h, range, height) /\ SiblingFacts(h, range, height, l, r, p, at) /\ Roomy(h, range)
      /\ KeepParts(h, g, l, r, keep, sep)
      /\ Heap(g) /\ DOMAIN g = DOMAIN h \ {gone} /\ ((keep = l /\ gone = r) \/ (keep = r /\ gone = l))
      /\ L \in Nat /\ R \in Nat
  BY DEF Merging, MergeFacts
<1>2. l \in DOMAIN h /\ r \in DOMAIN h /\ h[l].isLeaf = h[r].isLeaf /\ keep \in DOMAIN g /\ leaf \in BOOLEAN
      /\ p \in DOMAIN h /\ at \in 1 .. NumKeys(h, p)
  <2>1. l \in DOMAIN h /\ r \in DOMAIN h /\ h[l].isLeaf = h[r].isLeaf /\ p \in DOMAIN h /\ l # r
        /\ Heap(h)
    BY <1>1 DEF SiblingFacts
  <2>2. at \in 1 .. NumKeys(h, p)
    BY <1>1 DEF SiblingFacts
  <2>3. leaf \in BOOLEAN
    BY <2>1, NodeType
  <2>. QED
    BY <1>1, <2>1, <2>2, <2>3
<1>3. a \in Seq(Nat) /\ Len(a) = over + R
  BY <1>1, <1>2, NodeType DEF KeepParts, NumKeys
<1>4. /\ K \in Seq(Nat) /\ Len(K) = L /\ Ascending(K)
      /\ \A i \in 1 .. L : K[i] \in Nat /\ K[i] \in range[l]
      /\ \A i, j \in 1 .. L : i < j => K[i] < K[j]
  BY <1>1, <1>2, KeysOf
<1>5. /\ M \in Seq(Nat) /\ Len(M) = R /\ Ascending(M)
      /\ \A i \in 1 .. R : M[i] \in Nat /\ M[i] \in range[r]
      /\ \A i, j \in 1 .. R : i < j => M[i] < M[j]
  BY <1>1, <1>2, KeysOf
<1>6. /\ sep \in Nat
      /\ \A i \in 1 .. L : K[i] < sep
      /\ \A i \in 1 .. R : sep <= M[i]
      /\ ~leaf => \A i \in 1 .. R : sep < M[i]
  BY RangesMeet, KeysMeet
<1>7. sep \in range[r]
  <2>1. sep \in range[p]
    BY <1>1, <1>2, KeysOf
  <2>2. GtKeyIdx(h, p, sep) = at
    <3>1. /\ GtKeyIdx(h, p, sep) \in 0 .. NumKeys(h, p)
          /\ \A i \in 1 .. NumKeys(h, p) : h[p].keys[i] <= sep <=> i <= GtKeyIdx(h, p, sep)
      BY <1>1, <1>2, <1>6, SearchIn
    <3>2. \A i \in 1 .. NumKeys(h, p) : h[p].keys[i] \in Nat
      BY <1>1, <1>2, KeysOf
    <3>3. \A i, j \in 1 .. NumKeys(h, p) : i < j => h[p].keys[i] < h[p].keys[j]
      BY <1>1, <1>2, KeysOf
    <3>4. at <= GtKeyIdx(h, p, sep)
      BY <1>2, <1>6, <3>1
    <3>5. ~(at < GtKeyIdx(h, p, sep))
      <4>. SUFFICES ASSUME at < GtKeyIdx(h, p, sep) PROVE FALSE
        OBVIOUS
      <4>1. NumKeys(h, p) \in Nat /\ at + 1 \in 1 .. NumKeys(h, p) /\ at + 1 <= GtKeyIdx(h, p, sep)
        BY <1>1, <1>2, <3>1 DEF SiblingFacts
      <4>2. h[p].keys[at + 1] <= sep /\ sep < h[p].keys[at + 1]
        BY <1>2, <3>1, <3>3, <4>1
      <4>. QED
        BY <1>6, <3>2, <4>1, <4>2
    <3>. QED
      BY <1>2, <3>1, <3>4, <3>5
  <2>. QED
    BY <2>1, <2>2, RangesMeet
<1>8. /\ \A j \in 1 .. L : a[j] = K[j]
      /\ \A j \in 1 .. R : a[over + j] = M[j]
      /\ ~leaf => a[L + 1] = sep
  BY <1>1 DEF KeepParts
<1>. HIDE DEF sep, K, M, L, R, a, leaf
<1>9. over \in Nat /\ (leaf => over = L) /\ (~leaf => over = L + 1)
  BY <1>1
<1>. HIDE DEF over
(* Each place is one of l, the separator or one of r.                      *)
<1>10. ASSUME NEW i \in 1 .. over + R
       PROVE  \/ i \in 1 .. L /\ a[i] = K[i]
              \/ ~leaf /\ i = L + 1 /\ a[i] = sep
              \/ i - over \in 1 .. R /\ a[i] = M[i - over] /\ i > L
  <2>1. CASE i <= L
    BY <1>1, <1>8, <1>9, <1>10, <2>1
  <2>2. CASE i > over
    <3>1. i - over \in 1 .. R /\ over + (i - over) = i /\ i > L
      BY <1>1, <1>2, <1>9, <1>10, <2>2
    <3>. QED
      BY <1>8, <3>1
  <2>3. CASE i > L /\ i <= over
    BY <1>1, <1>2, <1>8, <1>9, <1>10, <2>3
  <2>. QED
    BY <1>1, <1>9, <2>1, <2>2, <2>3
<1>11. Ascending(a)
  <2>1. ASSUME NEW i \in 1 .. Len(a), NEW j \in 1 .. Len(a), i < j
        PROVE  a[i] < a[j]
    <3>0. i \in 1 .. over + R /\ j \in 1 .. over + R
      BY <1>3
    <3>1. CASE i \in 1 .. L /\ a[i] = K[i]
      <4>1. a[i] \in Nat /\ a[i] < sep
        BY <1>4, <1>6, <3>1
      <4>2. CASE j \in 1 .. L /\ a[j] = K[j]
        BY <1>4, <2>1, <3>1, <4>2
      <4>3. CASE j = L + 1 /\ a[j] = sep
        BY <4>1, <4>3
      <4>4. CASE j - over \in 1 .. R /\ a[j] = M[j - over]
        <5>1. sep <= M[j - over] /\ M[j - over] \in Nat
          BY <1>5, <1>6, <4>4
        <5>. QED
          BY <1>6, <4>1, <4>4, <5>1
      <4>. QED
        BY <1>10, <3>0, <4>2, <4>3, <4>4
    <3>2. CASE ~leaf /\ i = L + 1 /\ a[i] = sep
      <4>1. j - over \in 1 .. R /\ a[j] = M[j - over]
        BY <1>1, <1>10, <2>1, <3>0, <3>2
      <4>. QED
        BY <1>6, <3>2, <4>1
    <3>3. CASE i - over \in 1 .. R /\ a[i] = M[i - over] /\ i > L
      <4>1. j - over \in 1 .. R /\ a[j] = M[j - over]
        BY <1>1, <1>9, <1>10, <2>1, <3>0, <3>3
      <4>2. i - over < j - over
        BY <1>9, <2>1, <3>0
      <4>. QED
        BY <1>5, <3>3, <4>1, <4>2
    <3>. QED
      BY <1>10, <3>0, <3>1, <3>2, <3>3
  <2>. QED
    BY <2>1 DEF Ascending
<1>12. \A x \in ToSet(a) : \E i \in 1 .. over + R : a[i] = x
  BY <1>3, SetOf
<1>13. ToSet(a) \subseteq range[l] \cup range[r]
  BY <1>4, <1>5, <1>7, <1>10, <1>12
<1>14. ASSUME leaf PROVE ToSet(a) = ToSet(K) \cup ToSet(M)
  <2>1. ASSUME NEW x \in ToSet(a) PROVE x \in ToSet(K) \cup ToSet(M)
    <3>1. PICK i \in 1 .. over + R : a[i] = x
      BY <1>12
    <3>2. CASE i \in 1 .. L /\ a[i] = K[i]
      BY <1>4, <3>1, <3>2, SetOf
    <3>3. CASE i - over \in 1 .. R /\ a[i] = M[i - over]
      BY <1>5, <3>1, <3>3, SetOf
    <3>. QED
      BY <1>10, <1>14, <3>2, <3>3
  <2>2. ASSUME NEW x \in ToSet(K) PROVE x \in ToSet(a)
    <3>1. PICK i \in 1 .. L : K[i] = x
      BY <1>4, SetOf
    <3>2. i \in 1 .. Len(a) /\ a[i] = x
      BY <1>1, <1>3, <1>8, <1>9, <3>1
    <3>. QED
      BY <1>3, <3>2, SetOf
  <2>3. ASSUME NEW x \in ToSet(M) PROVE x \in ToSet(a)
    <3>1. PICK i \in 1 .. R : M[i] = x
      BY <1>5, SetOf
    <3>2. over + i \in 1 .. Len(a) /\ a[over + i] = x
      BY <1>1, <1>3, <1>8, <1>9, <3>1
    <3>. QED
      BY <1>3, <3>2, SetOf
  <2>. QED
    BY <2>1, <2>2, <2>3
<1>15. ASSUME ~leaf, NEW k \in Nat, k < sep
       PROVE  BlockSearch(a, k) = BlockSearch(K, k)
  <2>. DEFINE t == BlockSearch(K, k)
  <2>1. t \in 0 .. L /\ \A i \in 1 .. L : K[i] <= k <=> i <= t
    BY <1>4, Turn
  <2>. HIDE DEF t
  <2>2. t \in 0 .. Len(a)
    BY <1>1, <1>3, <1>9, <2>1
  <2>3. ASSUME NEW i \in 1 .. Len(a) PROVE a[i] <= k <=> i <= t
    <3>0. i \in 1 .. over + R
      BY <1>3
    <3>1. CASE i \in 1 .. L /\ a[i] = K[i]
      BY <2>1, <3>1
    <3>2. CASE i = L + 1 /\ a[i] = sep
      BY <1>1, <1>6, <1>15, <2>1, <3>2
    <3>3. CASE i - over \in 1 .. R /\ a[i] = M[i - over] /\ i > L
      <4>1. sep <= M[i - over] /\ M[i - over] \in Nat
        BY <1>5, <1>6, <3>3
      <4>2. ~(a[i] <= k)
        BY <1>6, <1>15, <3>3, <4>1
      <4>3. ~(i <= t)
        BY <1>1, <2>1, <3>0, <3>3
      <4>. QED
        BY <4>2, <4>3
    <3>. QED
      BY <1>10, <3>0, <3>1, <3>2, <3>3
  <2>4. BlockSearch(a, k) = t
    BY <1>3, <1>11, <2>2, <2>3, TurnIs
  <2>. QED
    BY <2>4 DEF t
<1>16. ASSUME ~leaf, NEW k \in Nat, sep <= k
       PROVE  BlockSearch(a, k) = L + 1 + BlockSearch(M, k)
  <2>. DEFINE t == BlockSearch(M, k)
  <2>1. t \in 0 .. R /\ \A i \in 1 .. R : M[i] <= k <=> i <= t
    BY <1>5, Turn
  <2>. HIDE DEF t
  <2>2. L + 1 + t \in 0 .. Len(a) /\ over = L + 1
    BY <1>1, <1>3, <1>9, <1>16, <2>1
  <2>3. ASSUME NEW i \in 1 .. Len(a) PROVE a[i] <= k <=> i <= L + 1 + t
    <3>0. i \in 1 .. over + R
      BY <1>3
    <3>1. CASE i \in 1 .. L /\ a[i] = K[i]
      <4>1. K[i] \in Nat /\ K[i] < sep
        BY <1>4, <1>6, <3>1
      <4>2. a[i] <= k
        BY <1>6, <1>16, <3>1, <4>1
      <4>3. i <= L + 1 + t
        BY <1>1, <2>1, <3>1
      <4>. QED
        BY <4>2, <4>3
    <3>2. CASE i = L + 1 /\ a[i] = sep
      BY <1>1, <1>6, <1>16, <2>1, <3>2
    <3>3. CASE i - over \in 1 .. R /\ a[i] = M[i - over]
      <4>1. a[i] <= k <=> i - over <= t
        BY <2>1, <3>3
      <4>. QED
        BY <1>1, <1>9, <2>1, <2>2, <3>0, <4>1
    <3>. QED
      BY <1>10, <3>0, <3>1, <3>2, <3>3
  <2>4. BlockSearch(a, k) = L + 1 + t
    BY <1>3, <1>11, <2>2, <2>3, TurnIs
  <2>. QED
    BY <2>4 DEF t
<1>. QED
  BY <1>11, <1>13, <1>14, <1>15, <1>16 DEF GtKeyIdx, sep, K, M, L, a, leaf

(* The search in the parent, which has one key and one child less.         *)
LEMMA SearchAbove ==
    ASSUME NEW h, NEW range, NEW height, NEW g, NEW l, NEW r, NEW keep, NEW gone, NEW p, NEW at,
           Merging(h, range, height, g, l, r, keep, gone, p, at)
    PROVE  /\ Ascending(g[p].keys) /\ ToSet(g[p].keys) \subseteq range[p]
           /\ \A k \in Nat :
                 /\ GtKeyIdx(h, p, k) \in Nat
                 /\ GtKeyIdx(g, p, k) = IF GtKeyIdx(h, p, k) < at THEN GtKeyIdx(h, p, k)
                                        ELSE GtKeyIdx(h, p, k) - 1
<1>. DEFINE K == h[p].keys
            n == NumKeys(h, p)
            a == g[p].keys
            Old(j) == IF j < at THEN j ELSE j + 1
<1>1. /\ IsTree(h, range, height) /\ SiblingFacts(h, range, height, l, r, p, at)
      /\ AboveParts(h, g, keep, p, at) /\ Heap(g) /\ DOMAIN g = DOMAIN h \ {gone}
      /\ ((keep = l /\ gone = r) \/ (keep = r /\ gone = l))
  BY DEF Merging, MergeFacts
<1>2. p \in DOMAIN h /\ p \in DOMAIN g /\ n \in Nat /\ at \in Nat /\ at >= 1 /\ at <= n
  BY <1>1 DEF SiblingFacts
<1>3. /\ K \in Seq(Nat) /\ Len(K) = n /\ \A i \in 1 .. n : K[i] \in Nat /\ K[i] \in range[p]
      /\ \A i, j \in 1 .. n : i < j => K[i] < K[j]
  BY <1>1, <1>2, KeysOf
<1>4. a \in Seq(Nat) /\ Len(a) = n - 1
  BY <1>1, <1>2, NodeType DEF AboveParts, NumKeys
<1>5. \A j \in 1 .. n - 1 : a[j] = K[Old(j)]
  BY <1>1 DEF AboveParts
<1>6. \A j \in 1 .. n - 1 : Old(j) \in 1 .. n
  BY <1>2
<1>7. \A i, j \in 1 .. n - 1 : i < j => Old(i) < Old(j)
  BY <1>2
<1>. HIDE DEF K, n, a
<1>8. Ascending(a)
  <2>. HIDE DEF Old
  <2>. QED
    BY <1>3, <1>4, <1>5, <1>6, <1>7 DEF Ascending
<1>9. ToSet(a) \subseteq range[p]
  <2>1. \A x \in ToSet(a) : \E i \in 1 .. n - 1 : a[i] = x
    BY <1>4, SetOf
  <2>. HIDE DEF Old
  <2>. QED
    BY <1>3, <1>5, <1>6, <2>1
<1>10. ASSUME NEW k \in Nat
       PROVE  /\ BlockSearch(K, k) \in Nat
              /\ BlockSearch(a, k) = IF BlockSearch(K, k) < at THEN BlockSearch(K, k)
                                     ELSE BlockSearch(K, k) - 1
  <2>. DEFINE t == BlockSearch(K, k)
              u == IF t < at THEN t ELSE t - 1
  <2>1. t \in 0 .. n /\ \A i \in 1 .. n : K[i] <= k <=> i <= t
    <3>1. Ascending(K)
      BY <1>3 DEF Ascending
    <3>. QED
      BY <1>3, <3>1, Turn
  <2>. HIDE DEF t
  <2>2. u \in 0 .. n - 1 /\ (t < at => u = t) /\ (~(t < at) => u = t - 1)
    BY <1>2, <2>1
  <2>. HIDE DEF u
  <2>3. ASSUME NEW i \in 1 .. n - 1 PROVE a[i] <= k <=> i <= u
    <3>1. a[i] <= k <=> Old(i) <= t
      BY <1>5, <1>6, <2>1
    <3>2. CASE i < at
      <4>1. Old(i) = i
        BY <3>2
      <4>. QED
        BY <1>2, <2>1, <2>2, <3>1, <3>2, <4>1
    <3>3. CASE ~(i < at)
      <4>1. Old(i) = i + 1
        BY <3>3
      <4>. QED
        BY <1>2, <2>1, <2>2, <3>1, <3>3, <4>1
    <3>. QED
      BY <3>2, <3>3
  <2>4. BlockSearch(a, k) = u
    BY <1>4, <1>8, <2>2, <2>3, TurnIs
  <2>. QED
    BY <2>1, <2>4 DEF t, u
<1>. QED
  BY <1>8, <1>9, <1>10 DEF GtKeyIdx, K, a
(* The ranges and heights after the merge.                                 *)
LEMMA MergeRanges ==
    ASSUME NEW h, NEW range, NEW height, NEW g, NEW l, NEW r, NEW keep, NEW gone, NEW p, NEW at,
           Merging(h, range, height, g, l, r, keep, gone, p, at),
           NEW R, R = MergeRange(range, g, l, r, keep), NEW H, H = MergeHeight(g, height)
    PROVE  /\ R \in [DOMAIN g -> SUBSET Nat] /\ H \in [DOMAIN g -> Nat]
           /\ R[keep] = range[l] \cup range[r]
           /\ \A x \in DOMAIN g \ {keep} : R[x] = range[x]
           /\ \A x \in DOMAIN g : H[x] = height[x]
           /\ height[keep] = height[l] /\ height[p] = height[l] + 1
           /\ Roomy(g, R)
<1>1. /\ IsTree(h, range, height) /\ SiblingFacts(h, range, height, l, r, p, at) /\ Roomy(h, range)
      /\ DOMAIN g = DOMAIN h \ {gone} /\ ((keep = l /\ gone = r) \/ (keep = r /\ gone = l))
  BY DEF Merging, MergeFacts
<1>2. /\ range \in [DOMAIN h -> SUBSET Nat] /\ height \in [DOMAIN h -> Nat]
      /\ l \in DOMAIN h /\ r \in DOMAIN h /\ l # r /\ height[r] = height[l]
      /\ height[p] = height[l] + 1
  BY <1>1 DEF IsTree, SiblingFacts
<1>3. keep \in DOMAIN g /\ height[keep] = height[l]
  BY <1>1, <1>2
<1>4. /\ R \in [DOMAIN g -> SUBSET Nat] /\ H \in [DOMAIN g -> Nat]
      /\ R[keep] = range[l] \cup range[r]
      /\ \A x \in DOMAIN g \ {keep} : R[x] = range[x]
      /\ \A x \in DOMAIN g : H[x] = height[x]
  BY <1>1, <1>2, <1>3 DEF MergeRange, MergeHeight
<1>5. Roomy(g, R)
  <2>1. ASSUME NEW x \in DOMAIN g PROVE R[x] # {}
    <3>1. x \in DOMAIN h /\ range[x] # {} /\ range[l] # {}
      BY <1>1, <1>2 DEF Roomy
    <3>2. CASE x = keep
      BY <1>4, <3>1, <3>2
    <3>3. CASE x # keep
      BY <1>4, <3>1, <3>3
    <3>. QED
      BY <3>2, <3>3
  <2>. QED
    BY <2>1 DEF Roomy
<1>. QED
  BY <1>2, <1>3, <1>4, <1>5

(* Each node is in order again,                                            *)
LEMMA MergeNodesFit ==
    ASSUME NEW h, NEW range, NEW height, NEW g, NEW l, NEW r, NEW keep, NEW gone, NEW p, NEW at,
           Merging(h, range, height, g, l, r, keep, gone, p, at),
           NEW R, R = MergeRange(range, g, l, r, keep), NEW H, H = MergeHeight(g, height),
           NEW n \in DOMAIN g
    PROVE  NodeFits(g, R, H, n)
<1>1. /\ IsTree(h, range, height) /\ SiblingFacts(h, range, height, l, r, p, at)
      /\ KeepParts(h, g, l, r, keep, h[p].keys[at]) /\ AboveParts(h, g, keep, p, at)
      /\ DOMAIN g = DOMAIN h \ {gone} /\ ((keep = l /\ gone = r) \/ (keep = r /\ gone = l))
      /\ NumKeys(h, l) \in Nat /\ NumKeys(h, r) \in Nat
      /\ \A x \in DOMAIN h \ {l, r, p} : SameBody(g, h, x)
  BY DEF Merging, MergeFacts
<1>2. /\ R[keep] = range[l] \cup range[r]
      /\ \A x \in DOMAIN g \ {keep} : R[x] = range[x]
      /\ \A x \in DOMAIN g : H[x] = height[x]
      /\ height[keep] = height[l]
  BY MergeRanges
<1>3. /\ NodeFits(h, range, height, l) /\ l \in DOMAIN h
      /\ p \in DOMAIN h /\ p \notin {l, r} /\ ~h[p].isLeaf /\ NumKeys(h, p) \in Nat
  BY <1>1 DEF IsTree, SiblingFacts
<1>4. CASE n = keep
  <2>1. /\ Ascending(g[keep].keys) /\ ToSet(g[keep].keys) \subseteq R[keep]
    BY <1>2, SearchKeep
  <2>2. h[l].isLeaf => height[l] = 0
    BY <1>3 DEF NodeFits
  <2>3. g[keep].isLeaf = h[l].isLeaf /\ (h[l].isLeaf => g[keep].children = <<>>)
    BY <1>1 DEF KeepParts
  <2>4. ~h[l].isLeaf => NumChild(g, keep) = NumKeys(g, keep) + 1
    BY <1>1 DEF KeepParts
  <2>5. H[keep] = height[l]
    BY <1>2, <1>4
  <2>. QED
    BY <1>4, <2>1, <2>2, <2>3, <2>4, <2>5 DEF NodeFits
<1>5. CASE n = p
  <2>1. Ascending(g[p].keys) /\ ToSet(g[p].keys) \subseteq range[p]
    BY SearchAbove
  <2>2. ~g[p].isLeaf /\ NumChild(g, p) = NumKeys(g, p) + 1
    BY <1>1, <1>3 DEF AboveParts
  <2>3. R[p] = range[p]
    BY <1>1, <1>2, <1>3, <1>5
  <2>. QED
    BY <1>5, <2>1, <2>2, <2>3 DEF NodeFits
<1>6. CASE n \notin {keep, p}
  <2>1. n \in DOMAIN h \ {l, r, p}
    BY <1>1, <1>6
  <2>2. SameBody(g, h, n)
    BY <1>1, <2>1
  <2>3. NodeFits(h, range, height, n)
    BY <1>1, <2>1 DEF IsTree
  <2>4. R[n] = range[n] /\ H[n] = height[n]
    BY <1>2, <1>6
  <2>. QED
    BY <2>2, <2>3, <2>4 DEF NodeFits, SameBody, NumKeys, NumChild
<1>. QED
  BY <1>4, <1>5, <1>6

(* the children of each know their places,                                 *)
LEMMA MergeAllPlaced ==
    ASSUME NEW h, NEW range, NEW height, NEW g, NEW l, NEW r, NEW keep, NEW gone, NEW p, NEW at,
           Merging(h, range, height, g, l, r, keep, gone, p, at), NEW n \in DOMAIN g
    PROVE  Placed(g, n)
<1>1. /\ IsTree(h, range, height) /\ SiblingFacts(h, range, height, l, r, p, at)
      /\ DOMAIN g = DOMAIN h \ {gone} /\ ((keep = l /\ gone = r) \/ (keep = r /\ gone = l))
      /\ \A x \in DOMAIN h \ {l, r, p} : SameBody(g, h, x)
      /\ ToSet(h[p].children) \subseteq DOMAIN h
  BY DEF Merging, MergeFacts, SiblingFacts
<1>2. /\ Placed(g, keep) /\ Placed(g, p)
      /\ \A x \in DOMAIN g : x \notin ToSet(h[l].children) \cup ToSet(h[r].children)
                                          \cup ToSet(h[p].children) => SamePlace(g, h, x)
  BY DEF Merging, IsMerged
<1>3. CASE n \notin {keep, p}
  <2>1. n \in DOMAIN h \ {l, r, p}
    BY <1>1, <1>3
  <2>2. SameBody(g, h, n)
    BY <1>1, <2>1
  <2>3. Placed(h, n) /\ Heap(h) /\ l \in DOMAIN h /\ r \in DOMAIN h /\ p \in DOMAIN h
        /\ h[l].parent = p /\ h[r].parent = p
    BY <1>1, <2>1 DEF IsTree, SiblingFacts
  <2>4. \A x \in ToSet(h[n].children) : x \in DOMAIN h /\ h[x].parent = n
    BY <1>1, <2>1, OneParent
  <2>5. \A x \in ToSet(h[n].children) :
           x \notin ToSet(h[l].children) \cup ToSet(h[r].children) \cup ToSet(h[p].children)
    BY <1>1, <2>1, <2>3, <2>4, OneParent
  <2>6. \A x \in ToSet(h[n].children) : x \in DOMAIN g
    BY <1>1, <2>1, <2>3, <2>4
  <2>7. \A x \in ToSet(h[n].children) : SamePlace(g, h, x)
    BY <1>2, <2>5, <2>6
  <2>8. h[n].children \in Seq(Nat) /\ NumChild(h, n) = Len(h[n].children)
    BY <2>1, <2>3, NodeType
  <2>9. \A i \in 1 .. NumChild(h, n) : h[n].children[i] \in ToSet(h[n].children)
    BY <2>8, SetOf
  <2>. QED
    BY <2>2, <2>3, <2>7, <2>9 DEF Placed, SameBody, SamePlace, NumChild
<1>. QED
  BY <1>2, <1>3

(* each node has a parent                                                  *)
LEMMA MergeHasParent ==
    ASSUME NEW h, NEW range, NEW height, NEW g, NEW l, NEW r, NEW keep, NEW gone, NEW p, NEW at,
           Merging(h, range, height, g, l, r, keep, gone, p, at), NEW n \in DOMAIN g \ {RootPtr}
    PROVE  HasParent(g, n)
<1>1. /\ IsTree(h, range, height) /\ SiblingFacts(h, range, height, l, r, p, at)
      /\ DOMAIN g = DOMAIN h \ {gone} /\ ((keep = l /\ gone = r) \/ (keep = r /\ gone = l))
      /\ \A x \in DOMAIN h \ {l, r, p} : SameBody(g, h, x)
      /\ ToSet(g[keep].children) = ToSet(h[l].children) \cup ToSet(h[r].children)
      /\ ToSet(g[p].children) = ToSet(h[p].children) \ {gone}
  BY DEF Merging, MergeFacts
<1>2. l # r /\ p \in DOMAIN h /\ p \notin {l, r} /\ l \in DOMAIN h /\ r \in DOMAIN h
  BY <1>1 DEF SiblingFacts
<1>3. PICK q \in DOMAIN h : n \in ToSet(h[q].children)
  BY <1>1 DEF IsTree, HasParent
<1>4. CASE q \in {l, r}
  BY <1>1, <1>2, <1>3, <1>4 DEF HasParent
<1>5. CASE q = p
  BY <1>1, <1>2, <1>3, <1>5 DEF HasParent
<1>6. CASE q \notin {l, r, p}
  BY <1>1, <1>2, <1>3, <1>6 DEF HasParent, SameBody
<1>. QED
  BY <1>4, <1>5, <1>6

(* and each child gets what the search sends to it: in the node that has it*)
(* all,                                                                    *)
LEMMA MergeFitsKeep ==
    ASSUME NEW h, NEW range, NEW height, NEW g, NEW l, NEW r, NEW keep, NEW gone, NEW p, NEW at,
           Merging(h, range, height, g, l, r, keep, gone, p, at),
           NEW R, R = MergeRange(range, g, l, r, keep), NEW H, H = MergeHeight(g, height),
           NEW i \in 1 .. NumChild(g, keep)
    PROVE  ChildFits(g, R, H, keep, i)
<1>. DEFINE L == NumKeys(h, l)
            sep == h[p].keys[at]
            c == g[keep].children[i]
<1>1. /\ IsTree(h, range, height) /\ SiblingFacts(h, range, height, l, r, p, at)
      /\ KeepParts(h, g, l, r, keep, sep)
      /\ DOMAIN g = DOMAIN h \ {gone} /\ ((keep = l /\ gone = r) \/ (keep = r /\ gone = l))
      /\ L \in Nat /\ NumKeys(h, r) \in Nat
      /\ ~h[l].isLeaf => NumChild(h, l) = L + 1 /\ NumChild(h, r) = NumKeys(h, r) + 1
  BY DEF Merging, MergeFacts
<1>2. /\ R[keep] = range[l] \cup range[r]
      /\ \A x \in DOMAIN g \ {keep} : R[x] = range[x]
      /\ \A x \in DOMAIN g : H[x] = height[x]
      /\ height[keep] = height[l]
  BY MergeRanges
<1>3. /\ l \in DOMAIN h /\ r \in DOMAIN h /\ p \in DOMAIN h /\ p \notin {l, r} /\ l # r
      /\ h[l].parent = p /\ h[r].parent = p
      /\ height[r] = height[l] /\ height[l] \in Nat
  BY <1>1 DEF SiblingFacts
<1>4. ~h[l].isLeaf
  BY <1>1 DEF KeepParts
<1>5. /\ NumChild(g, keep) = L + NumKeys(h, r) + 2
      /\ \A j \in 1 .. L + 1 : g[keep].children[j] = h[l].children[j]
      /\ \A j \in 1 .. NumKeys(h, r) + 1 : g[keep].children[L + 1 + j] = h[r].children[j]
  BY <1>1, <1>4 DEF KeepParts
<1>6. /\ sep \in Nat
      /\ \A k \in range[l] : k \in Nat /\ k < sep
      /\ \A k \in range[r] : k \in Nat /\ sep <= k
  BY RangesMeet
<1>7. /\ \A k \in Nat : k < sep => GtKeyIdx(g, keep, k) = GtKeyIdx(h, l, k)
      /\ \A k \in Nat : sep <= k => GtKeyIdx(g, keep, k) = L + 1 + GtKeyIdx(h, r, k)
  BY <1>4, SearchKeep
<1>8. \A k \in Nat : GtKeyIdx(h, l, k) \in 0 .. L /\ GtKeyIdx(h, r, k) \in 0 .. NumKeys(h, r)
  BY <1>1, <1>3, SearchIn
<1>. HIDE DEF L, sep
<1>9. CASE i \in 1 .. L + 1
  <2>1. c = h[l].children[i] /\ i \in 1 .. NumChild(h, l)
    BY <1>1, <1>4, <1>5, <1>9
  <2>2. /\ c \in DOMAIN h /\ c # RootPtr /\ h[c].parent = l /\ height[l] = height[c] + 1
        /\ range[c] = Turned(h, range, l, i)
    BY <1>1, <1>3, <2>1, ChildOf
  <2>. HIDE DEF c
  <2>3. c \in DOMAIN g \ {keep}
    BY <1>1, <1>3, <2>2
  <2>4. Turned(g, R, keep, i) = Turned(h, range, l, i)
    <3>1. \A k \in range[l] : GtKeyIdx(g, keep, k) = GtKeyIdx(h, l, k)
      BY <1>6, <1>7
    <3>2. \A k \in range[r] : GtKeyIdx(g, keep, k) # i - 1
      BY <1>1, <1>6, <1>7, <1>8, <1>9
    <3>. QED
      BY <1>2, <3>1, <3>2 DEF Turned
  <2>5. R[c] = range[c] /\ H[c] = height[c] /\ H[keep] = height[l]
    BY <1>1, <1>2, <1>3, <2>3
  <2>. QED
    BY <2>2, <2>3, <2>4, <2>5 DEF ChildFits, c
<1>10. CASE i \notin 1 .. L + 1
  <2>. DEFINE j == i - (L + 1)
  <2>1. j \in 1 .. NumKeys(h, r) + 1 /\ L + 1 + j = i /\ i - 1 = L + 1 + (j - 1)
    BY <1>1, <1>5, <1>10
  <2>. HIDE DEF j
  <2>2. c = h[r].children[j] /\ j \in 1 .. NumChild(h, r)
    BY <1>1, <1>4, <1>5, <2>1
  <2>3. /\ c \in DOMAIN h /\ c # RootPtr /\ h[c].parent = r /\ height[r] = height[c] + 1
        /\ range[c] = Turned(h, range, r, j)
    BY <1>1, <1>3, <2>2, ChildOf
  <2>. HIDE DEF c
  <2>4. c \in DOMAIN g \ {keep}
    BY <1>1, <1>3, <2>3
  <2>5. Turned(g, R, keep, i) = Turned(h, range, r, j)
    <3>1. ASSUME NEW k \in range[r]
          PROVE  GtKeyIdx(g, keep, k) = i - 1 <=> GtKeyIdx(h, r, k) = j - 1
      <4>1. GtKeyIdx(g, keep, k) = L + 1 + GtKeyIdx(h, r, k) /\ GtKeyIdx(h, r, k) \in Nat
        BY <1>1, <1>6, <1>7, <1>8
      <4>2. j \in Nat /\ L \in Nat
        BY <1>1, <2>1
      <4>. QED
        BY <2>1, <4>1, <4>2
    <3>2. \A k \in range[l] : GtKeyIdx(g, keep, k) # i - 1
      BY <1>1, <1>6, <1>7, <1>8, <1>10, <2>1
    <3>. QED
      BY <1>2, <3>1, <3>2 DEF Turned
  <2>6. R[c] = range[c] /\ H[c] = height[c] /\ H[keep] = height[r]
    BY <1>1, <1>2, <1>3, <2>4
  <2>. QED
    BY <2>3, <2>4, <2>5, <2>6 DEF ChildFits, c
<1>. QED
  BY <1>9, <1>10

(* one node up,                                                            *)
LEMMA MergeFitsAbove ==
    ASSUME NEW h, NEW range, NEW height, NEW g, NEW l, NEW r, NEW keep, NEW gone, NEW p, NEW at,
           Merging(h, range, height, g, l, r, keep, gone, p, at),
           NEW R, R = MergeRange(range, g, l, r, keep), NEW H, H = MergeHeight(g, height),
           NEW j \in 1 .. NumChild(g, p)
    PROVE  ChildFits(g, R, H, p, j)
<1>. DEFINE n == NumKeys(h, p)
            c == g[p].children[j]
<1>1. /\ IsTree(h, range, height) /\ SiblingFacts(h, range, height, l, r, p, at)
      /\ AboveParts(h, g, keep, p, at)
      /\ DOMAIN g = DOMAIN h \ {gone} /\ ((keep = l /\ gone = r) \/ (keep = r /\ gone = l))
  BY DEF Merging, MergeFacts
<1>2. /\ R[keep] = range[l] \cup range[r]
      /\ \A x \in DOMAIN g \ {keep} : R[x] = range[x]
      /\ \A x \in DOMAIN g : H[x] = height[x]
      /\ height[keep] = height[l] /\ height[p] = height[l] + 1
  BY MergeRanges
<1>3. /\ l \in DOMAIN h /\ r \in DOMAIN h /\ p \in DOMAIN h /\ p \notin {l, r} /\ l # r
      /\ l # RootPtr /\ r # RootPtr
      /\ h[p].children[at] = l /\ h[p].children[at + 1] = r
      /\ n \in Nat /\ at \in Nat /\ at >= 1 /\ at <= n /\ NumChild(h, p) = n + 1
      /\ Different(h[p].children)
  BY <1>1 DEF SiblingFacts
<1>4. /\ NumChild(g, p) = n
      /\ c = IF j < at THEN h[p].children[j] ELSE IF j = at THEN keep ELSE h[p].children[j + 1]
  BY <1>1 DEF AboveParts
<1>5. \A k \in Nat : /\ GtKeyIdx(h, p, k) \in Nat
                     /\ GtKeyIdx(g, p, k) = IF GtKeyIdx(h, p, k) < at THEN GtKeyIdx(h, p, k)
                                            ELSE GtKeyIdx(h, p, k) - 1
  BY SearchAbove
<1>6. R[p] = range[p] /\ H[p] = height[p] /\ range[p] \subseteq Nat
  BY <1>1, <1>2, <1>3, KeysOf
<1>. HIDE DEF n, c
<1>7. \A i \in 1 .. n + 1 : h[p].children[i] = l => i = at
  BY <1>3 DEF Different, NumChild
<1>8. \A i \in 1 .. n + 1 : h[p].children[i] = r => i = at + 1
  BY <1>3 DEF Different, NumChild
<1>9. CASE j = at
  <2>1. c = keep
    BY <1>3, <1>4, <1>9
  <2>2. Turned(g, R, p, j) = range[l] \cup range[r]
    <3>1. \A k \in range[p] : GtKeyIdx(g, p, k) = j - 1 <=> GtKeyIdx(h, p, k) \in {at - 1, at}
      BY <1>3, <1>5, <1>6, <1>9
    <3>2. \A k \in range[p] : /\ GtKeyIdx(h, p, k) = at - 1 => k \in range[l]
                              /\ GtKeyIdx(h, p, k) = at => k \in range[r]
      BY RangesMeet
    <3>3. /\ \A k \in range[l] : k \in range[p] /\ GtKeyIdx(h, p, k) = at - 1
          /\ \A k \in range[r] : k \in range[p] /\ GtKeyIdx(h, p, k) = at
      BY RangesMeet
    <3>. QED
      BY <1>6, <3>1, <3>2, <3>3 DEF Turned
  <2>3. keep \in DOMAIN g \ {RootPtr} /\ H[keep] = height[l]
    BY <1>1, <1>2, <1>3
  <2>. QED
    BY <1>2, <1>6, <2>1, <2>2, <2>3 DEF ChildFits, c
<1>10. CASE j # at
  <2>. DEFINE i == IF j < at THEN j ELSE j + 1
  <2>1. i \in 1 .. NumChild(h, p) /\ c = h[p].children[i] /\ i # at /\ i # at + 1
    BY <1>3, <1>4, <1>10
  <2>2. /\ c \in DOMAIN h /\ c # RootPtr /\ height[p] = height[c] + 1
        /\ range[c] = Turned(h, range, p, i)
    BY <1>1, <1>3, <2>1, ChildOf
  <2>3. c # l /\ c # r
    BY <1>3, <1>7, <1>8, <2>1
  <2>4. c \in DOMAIN g \ {keep}
    BY <1>1, <2>2, <2>3
  <2>5. Turned(g, R, p, j) = Turned(h, range, p, i)
    <3>1. \A k \in range[p] : GtKeyIdx(g, p, k) = j - 1 <=> GtKeyIdx(h, p, k) = i - 1
      <4>1. CASE j < at
        <5>1. i = j
          BY <4>1
        <5>. HIDE DEF i
        <5>. QED
          BY <1>3, <1>4, <1>5, <1>6, <4>1, <5>1
      <4>2. CASE j > at
        <5>1. i = j + 1
          BY <1>3, <1>4, <4>2
        <5>. HIDE DEF i
        <5>. QED
          BY <1>3, <1>4, <1>5, <1>6, <4>2, <5>1
      <4>. QED
        BY <1>3, <1>4, <1>10, <4>1, <4>2
    <3>. HIDE DEF i
    <3>. QED
      BY <1>6, <3>1 DEF Turned
  <2>. HIDE DEF i
  <2>6. R[c] = range[c] /\ H[c] = height[c]
    BY <1>2, <2>4
  <2>. QED
    BY <1>6, <2>2, <2>4, <2>5, <2>6 DEF ChildFits, c
<1>. QED
  BY <1>9, <1>10

(* and elsewhere.                                                          *)
LEMMA MergeFitsElsewhere ==
    ASSUME NEW h, NEW range, NEW height, NEW g, NEW l, NEW r, NEW keep, NEW gone, NEW p, NEW at,
           Merging(h, range, height, g, l, r, keep, gone, p, at),
           NEW R, R = MergeRange(range, g, l, r, keep), NEW H, H = MergeHeight(g, height),
           NEW n \in DOMAIN g \ {keep, p}, NEW i \in 1 .. NumChild(g, n)
    PROVE  ChildFits(g, R, H, n, i)
<1>. DEFINE x == h[n].children[i]
<1>1. /\ IsTree(h, range, height) /\ SiblingFacts(h, range, height, l, r, p, at)
      /\ DOMAIN g = DOMAIN h \ {gone} /\ ((keep = l /\ gone = r) \/ (keep = r /\ gone = l))
      /\ \A y \in DOMAIN h \ {l, r, p} : SameBody(g, h, y)
  BY DEF Merging, MergeFacts
<1>2. n \in DOMAIN h \ {l, r, p} /\ h[l].parent = p /\ h[r].parent = p
  BY <1>1 DEF SiblingFacts
<1>3. SameBody(g, h, n)
  BY <1>1, <1>2
<1>4. NumChild(g, n) = NumChild(h, n) /\ g[n].children = h[n].children /\ g[n].keys = h[n].keys
  BY <1>3 DEF SameBody, NumChild
<1>5. /\ x \in DOMAIN h /\ x # RootPtr /\ h[x].parent = n
      /\ height[n] = height[x] + 1 /\ range[x] = Turned(h, range, n, i)
  BY <1>1, <1>2, <1>4, ChildOf
<1>6. x \in DOMAIN g \ {keep}
  BY <1>1, <1>2, <1>5
<1>7. R[x] = range[x] /\ H[x] = height[x] /\ R[n] = range[n] /\ H[n] = height[n]
  BY <1>2, <1>6, MergeRanges
<1>8. Turned(h, range, n, i) = Turned(g, R, n, i)
  BY <1>4, <1>7 DEF Turned, GtKeyIdx
<1>. QED
  BY <1>4, <1>5, <1>6, <1>7, <1>8 DEF ChildFits

(* All of it: a merge leaves a tree.                                       *)
LEMMA MergeKeepsTree ==
    ASSUME NEW h, NEW range, NEW height, NEW g, NEW l, NEW r, NEW keep, NEW gone, NEW p, NEW at,
           Merging(h, range, height, g, l, r, keep, gone, p, at)
    PROVE  IsTree(g, MergeRange(range, g, l, r, keep), MergeHeight(g, height))
<1>. DEFINE R == MergeRange(range, g, l, r, keep)
            H == MergeHeight(g, height)
<1>1. /\ IsTree(h, range, height) /\ SiblingFacts(h, range, height, l, r, p, at)
      /\ Heap(g) /\ DOMAIN g = DOMAIN h \ {gone} /\ ((keep = l /\ gone = r) \/ (keep = r /\ gone = l))
      /\ \A x \in DOMAIN h \ {l, r, p} : SameBody(g, h, x)
  BY DEF Merging, MergeFacts
<1>2. /\ RootPtr \in DOMAIN h \ {l, r, p} /\ range[RootPtr] = Nat /\ h[RootPtr].keys = <<>>
      /\ \A n \in DOMAIN h : height[n] <= height[RootPtr]
  BY <1>1 DEF IsTree, Heap, SiblingFacts
<1>. HIDE DEF R, H
<1>3. /\ R \in [DOMAIN g -> SUBSET Nat] /\ H \in [DOMAIN g -> Nat]
      /\ \A x \in DOMAIN g \ {keep} : R[x] = range[x]
      /\ \A x \in DOMAIN g : H[x] = height[x]
  BY MergeRanges DEF R, H
<1>4. RootPtr \in DOMAIN g \ {keep}
  BY <1>1, <1>2
<1>5. R[RootPtr] = Nat /\ \A n \in DOMAIN g : H[n] <= H[RootPtr]
  BY <1>1, <1>2, <1>3, <1>4
<1>6. g[RootPtr].keys = <<>>
  BY <1>1, <1>2 DEF SameBody
<1>7. \A n \in DOMAIN g : NodeFits(g, R, H, n)
  BY MergeNodesFit DEF R, H
<1>8. \A n \in DOMAIN g : Placed(g, n)
  BY MergeAllPlaced
<1>9. \A n \in DOMAIN g \ {RootPtr} : HasParent(g, n)
  BY MergeHasParent
<1>10. ASSUME NEW n \in DOMAIN g, NEW i \in 1 .. NumChild(g, n)
       PROVE  ChildFits(g, R, H, n, i)
  <2>1. CASE n = keep
    BY <1>10, <2>1, MergeFitsKeep DEF R, H
  <2>2. CASE n = p
    BY <1>10, <2>2, MergeFitsAbove DEF R, H
  <2>3. CASE n \notin {keep, p}
    BY <1>10, <2>3, MergeFitsElsewhere DEF R, H
  <2>. QED
    BY <2>1, <2>2, <2>3
<1>. QED
  BY <1>1, <1>3, <1>5, <1>6, <1>7, <1>8, <1>9, <1>10 DEF IsTree, R, H

(* and loses no key.                                                       *)
LEMMA MergeHolds ==
    ASSUME NEW h, NEW range, NEW height, NEW g, NEW l, NEW r, NEW keep, NEW gone, NEW p, NEW at,
           Merging(h, range, height, g, l, r, keep, gone, p, at), NEW K, HoldsKeys(h, range, K)
    PROVE  HoldsKeys(g, MergeRange(range, g, l, r, keep), K)
<1>. DEFINE R == MergeRange(range, g, l, r, keep)
            H == MergeHeight(g, height)
<1>1. /\ IsTree(h, range, height) /\ SiblingFacts(h, range, height, l, r, p, at)
      /\ KeepParts(h, g, l, r, keep, h[p].keys[at]) /\ AboveParts(h, g, keep, p, at)
      /\ Heap(g) /\ DOMAIN g = DOMAIN h \ {gone} /\ ((keep = l /\ gone = r) \/ (keep = r /\ gone = l))
      /\ \A x \in DOMAIN h \ {l, r, p} : SameBody(g, h, x)
  BY DEF Merging, MergeFacts
<1>2. /\ l \in DOMAIN h /\ r \in DOMAIN h /\ h[l].isLeaf = h[r].isLeaf /\ ~h[p].isLeaf
  BY <1>1 DEF SiblingFacts
<1>. HIDE DEF R, H
<1>3. /\ R[keep] = range[l] \cup range[r] /\ \A x \in DOMAIN g \ {keep} : R[x] = range[x]
  BY MergeRanges DEF R, H
<1>4. ASSUME NEW n \in DOMAIN g, g[n].isLeaf PROVE ToSet(g[n].keys) = R[n] \cap K
  <2>1. CASE n = keep
    <3>1. h[l].isLeaf /\ h[r].isLeaf
      BY <1>1, <1>2, <1>4, <2>1 DEF KeepParts
    <3>2. ToSet(g[keep].keys) = ToSet(h[l].keys) \cup ToSet(h[r].keys)
      BY <3>1, SearchKeep
    <3>3. ToSet(h[l].keys) = range[l] \cap K /\ ToSet(h[r].keys) = range[r] \cap K
      BY <1>2, <3>1 DEF HoldsKeys
    <3>. QED
      BY <1>3, <2>1, <3>2, <3>3
  <2>2. CASE n # keep
    <3>1. n # p
      BY <1>1, <1>2, <1>4 DEF AboveParts
    <3>2. n \in DOMAIN h \ {l, r, p}
      BY <1>1, <2>2, <3>1
    <3>3. SameBody(g, h, n) /\ R[n] = range[n]
      BY <1>1, <1>3, <2>2, <3>2
    <3>. QED
      BY <1>4, <3>2, <3>3 DEF HoldsKeys, SameBody
  <2>. QED
    BY <2>1, <2>2
<1>. QED
  BY <1>4 DEF HoldsKeys, R
-----------------------------------------------------------------------------
(* The links after a merge                                                 *)

(* The node that prev of a node points to points back, and nothing is above*)
(* rootPtr.                                                                *)
Tied(h) == /\ h[RootPtr].parent = Null
           /\ \A x \in DOMAIN h : h[x].prev # Null =>
                 h[x].prev \in DOMAIN h /\ h[h[x].prev].next = x

(* What has the name x is called keep if it was l.                         *)
Renamed(l, keep, x) == IF x = l THEN keep ELSE x

(* From h to g, keep has taken the place of l and r in their level.        *)
ClosedUp(h, g, l, r, keep) ==
    /\ h[l].next = r /\ h[r].prev = l
    /\ h[r].next \notin {l, r} /\ h[l].prev \notin {l, r}
    /\ g[keep].next = h[r].next /\ g[keep].prev = h[l].prev
    /\ \A x \in DOMAIN h \ {l, r} :
          /\ g[x].next = Renamed(l, keep, h[x].next) /\ h[x].next # r
          /\ g[x].prev = (IF h[x].prev = r THEN keep ELSE h[x].prev) /\ h[x].prev # l

(* A merge in a tree whose levels are linked.                              *)
Closing(h, range, height, g, l, r, keep, gone, p, at) ==
    /\ Merging(h, range, height, g, l, r, keep, gone, p, at)
    /\ Woven(h, height) /\ Tied(h) /\ Unlinked(h, g, l, r, keep)

(* Two neighbours in a tree whose levels are linked.                       *)
LEMMA NeighboursLinked ==
    ASSUME NEW h, NEW range, NEW height, IsTree(h, range, height), Woven(h, height), Tied(h),
           NEW l, NEW r, Siblings(h, l, r)
    PROVE  /\ h[l].next = r /\ h[r].prev = l
           /\ h[r].next \notin {l, r} /\ h[l].prev \notin {l, r}
           /\ \A x \in DOMAIN h \ {l, r} : h[x].next # r /\ h[x].prev # l
<1>. DEFINE p == h[l].parent
            at == h[l].childIndex + 1
<1>1. SiblingFacts(h, range, height, l, r, p, at)
  BY SiblingsAre
<1>2. /\ l \in DOMAIN h /\ r \in DOMAIN h /\ l # r /\ l \in Nat /\ r \in Nat
      /\ p \in DOMAIN h /\ at \in Nat /\ at >= 1 /\ at <= NumKeys(h, p) /\ NumKeys(h, p) \in Nat
      /\ NumChild(h, p) = NumKeys(h, p) + 1
      /\ h[p].children[at] = l /\ h[p].children[at + 1] = r
      /\ h[l].parent = p /\ Different(h[p].children)
  BY <1>1 DEF SiblingFacts
<1>. HIDE DEF p, at
<1>3. \A n \in DOMAIN h : NextFits(h, height, n)
  BY DEF Woven
<1>4. \A i \in 1 .. NumChild(h, p) : h[h[p].children[i]].next = NextChild(h, p, i)
  BY <1>2 DEF Woven
<1>5. l # Null /\ r # Null
  BY <1>2 DEF Null
<1>6. h[l].next = r
  <2>1. at \in 1 .. NumChild(h, p) /\ at < NumChild(h, p)
    BY <1>2
  <2>2. NextChild(h, p, at) = h[p].children[at + 1]
    BY <2>1 DEF NextChild
  <2>. QED
    BY <1>2, <1>4, <2>1, <2>2
<1>7. h[r].prev = l
  BY <1>2, <1>3, <1>5, <1>6 DEF NextFits
<1>8. h[r].next # r
  BY <1>2, <1>3, <1>5 DEF NextFits
<1>9. h[r].next # l
  <2>. SUFFICES ASSUME h[r].next = l PROVE FALSE
    OBVIOUS
  <2>1. at + 1 \in 1 .. NumChild(h, p) /\ (at + 1) + 1 = at + 2
    BY <1>2
  <2>2. NextChild(h, p, at + 1) = l
    BY <1>2, <1>4, <2>1
  <2>3. CASE at + 1 < NumChild(h, p)
    <3>1. h[p].children[at + 2] = l
      BY <2>1, <2>2, <2>3 DEF NextChild
    <3>2. at \in 1 .. Len(h[p].children) /\ at + 2 \in 1 .. Len(h[p].children) /\ at # at + 2
      BY <1>2, <2>3 DEF NumChild
    <3>. QED
      BY <1>2, <3>1, <3>2 DEF Different
  <2>4. CASE ~(at + 1 < NumChild(h, p))
    <3>. DEFINE q == h[p].next
    <3>1. q # Null /\ h[q].children[1] = l
      BY <1>5, <2>2, <2>4 DEF NextChild
    <3>2. q \in DOMAIN h /\ q # p /\ height[q] = height[p]
      BY <1>2, <1>3, <3>1 DEF NextFits
    <3>3. 1 \in 1 .. NumChild(h, q)
      <4>1. height[p] = height[l] + 1 /\ height[l] \in Nat
        BY <1>1 DEF SiblingFacts
      <4>2. ~h[q].isLeaf
        BY <3>2, <4>1, LeafIsLow
      <4>3. NumChild(h, q) = NumKeys(h, q) + 1 /\ NumKeys(h, q) \in Nat
        BY <3>2, <4>2, KeysOf DEF IsTree, NodeFits
      <4>. QED
        BY <4>3
    <3>4. h[l].parent = q
      BY <3>1, <3>2, <3>3, ChildOf
    <3>. QED
      BY <1>2, <3>2, <3>4
  <2>. QED
    BY <2>3, <2>4
<1>10. h[l].prev # l /\ h[l].prev # r
  BY <1>2, <1>5, <1>6, <1>9 DEF Tied
<1>11. ASSUME NEW x \in DOMAIN h \ {l, r} PROVE h[x].next # r /\ h[x].prev # l
  <2>1. h[x].next # r
    BY <1>3, <1>5, <1>7 DEF NextFits
  <2>2. h[x].prev # l
    BY <1>5, <1>6 DEF Tied
  <2>. QED
    BY <2>1, <2>2
<1>. QED
  BY <1>6, <1>7, <1>8, <1>9, <1>10, <1>11

(* So the merge closes the gap.                                            *)
LEMMA GapClosed ==
    ASSUME NEW h, NEW range, NEW height, NEW g, NEW l, NEW r, NEW keep, NEW gone, NEW p, NEW at,
           Closing(h, range, height, g, l, r, keep, gone, p, at)
    PROVE  ClosedUp(h, g, l, r, keep)
<1>1. /\ IsTree(h, range, height) /\ Siblings(h, l, r) /\ Woven(h, height) /\ Tied(h)
      /\ Unlinked(h, g, l, r, keep)
      /\ DOMAIN g = DOMAIN h \ {gone} /\ ((keep = l /\ gone = r) \/ (keep = r /\ gone = l))
      /\ l \in DOMAIN h /\ r \in DOMAIN h /\ l # r /\ l \in Nat /\ r \in Nat
  BY DEF Closing, Merging, MergeFacts, SiblingFacts
<1>2. /\ h[l].next = r /\ h[r].prev = l
      /\ h[r].next \notin {l, r} /\ h[l].prev \notin {l, r}
      /\ \A x \in DOMAIN h \ {l, r} : h[x].next # r /\ h[x].prev # l
  BY <1>1, NeighboursLinked
<1>3. l # Null /\ r # Null /\ \A x \in DOMAIN h : x # Null
  BY <1>1 DEF Null, IsTree, Heap
<1>4. ASSUME NEW x \in DOMAIN h PROVE x = h[r].next <=> h[x].prev = r
  BY <1>1, <1>3 DEF Woven, NextFits, Tied
<1>5. ASSUME NEW x \in DOMAIN h PROVE x = h[l].prev <=> h[x].next = l
  BY <1>1, <1>3 DEF Woven, NextFits, Tied
<1>6. CASE keep = l /\ gone = r
  <2>1. \A x \in DOMAIN g :
          /\ g[x].next = IF x = l THEN h[r].next ELSE h[x].next
          /\ g[x].prev = IF x = h[r].next THEN l ELSE h[x].prev
    BY <1>1, <1>6 DEF Unlinked
  <2>2. g[l].next = h[r].next /\ g[l].prev = h[l].prev
    BY <1>1, <1>2, <1>6, <2>1
  <2>3. ASSUME NEW x \in DOMAIN h \ {l, r}
        PROVE  /\ g[x].next = Renamed(l, keep, h[x].next)
               /\ g[x].prev = IF h[x].prev = r THEN keep ELSE h[x].prev
    <3>1. x \in DOMAIN g /\ x # l
      BY <1>1, <1>6
    <3>2. g[x].next = h[x].next
      BY <2>1, <3>1
    <3>3. Renamed(l, keep, h[x].next) = h[x].next
      BY <1>6 DEF Renamed
    <3>4. g[x].prev = IF h[x].prev = r THEN keep ELSE h[x].prev
      BY <1>4, <1>6, <2>1, <3>1
    <3>. QED
      BY <3>2, <3>3, <3>4
  <2>. QED
    BY <1>2, <1>6, <2>2, <2>3 DEF ClosedUp
<1>7. CASE keep = r /\ gone = l
  <2>1. \A x \in DOMAIN g :
          /\ g[x].next = IF x = h[l].prev THEN r ELSE h[x].next
          /\ g[x].prev = IF x = r THEN h[l].prev ELSE h[x].prev
    BY <1>1, <1>7 DEF Unlinked
  <2>2. g[r].next = h[r].next /\ g[r].prev = h[l].prev
    BY <1>1, <1>2, <1>7, <2>1
  <2>3. ASSUME NEW x \in DOMAIN h \ {l, r}
        PROVE  /\ g[x].next = Renamed(l, keep, h[x].next)
               /\ g[x].prev = IF h[x].prev = r THEN keep ELSE h[x].prev
    <3>1. x \in DOMAIN g /\ x # r
      BY <1>1, <1>7
    <3>2. g[x].next = Renamed(l, keep, h[x].next)
      BY <1>5, <1>7, <2>1, <3>1 DEF Renamed
    <3>3. g[x].prev = h[x].prev
      BY <2>1, <3>1
    <3>. QED
      BY <1>7, <3>2, <3>3
  <2>. QED
    BY <1>2, <1>7, <2>2, <2>3 DEF ClosedUp
<1>. QED
  BY <1>1, <1>6, <1>7

(* The nodes stay tied.                                                    *)
LEMMA MergeKeepsTied ==
    ASSUME NEW h, NEW range, NEW height, NEW g, NEW l, NEW r, NEW keep, NEW gone, NEW p, NEW at,
           Closing(h, range, height, g, l, r, keep, gone, p, at)
    PROVE  Tied(g)
<1>1. /\ IsTree(h, range, height) /\ Tied(h)
      /\ DOMAIN g = DOMAIN h \ {gone} /\ ((keep = l /\ gone = r) \/ (keep = r /\ gone = l))
      /\ SiblingFacts(h, range, height, l, r, p, at)
      /\ IsMerged(h, g, l, r, keep, gone) /\ p = h[l].parent
  BY DEF Closing, Merging, MergeFacts
<1>2. /\ l \in DOMAIN h /\ r \in DOMAIN h /\ l # r /\ l # RootPtr /\ r # RootPtr /\ RootPtr \in DOMAIN h
      /\ ToSet(h[l].children) \cup ToSet(h[r].children) \cup ToSet(h[p].children)
            \subseteq DOMAIN h \ {RootPtr}
      /\ \A x \in DOMAIN h : x # Null
  BY <1>1 DEF SiblingFacts, Heap, Null
<1>3. ClosedUp(h, g, l, r, keep)
  BY GapClosed
<1>4. g[RootPtr].parent = Null
  <2>1. RootPtr \in DOMAIN g
    BY <1>1, <1>2
  <2>2. SamePlace(g, h, RootPtr)
    BY <1>1, <1>2, <2>1 DEF IsMerged
  <2>. QED
    BY <1>1, <2>2 DEF Tied, SamePlace
<1>5. ASSUME NEW x \in DOMAIN g, g[x].prev # Null
      PROVE  g[x].prev \in DOMAIN g /\ g[g[x].prev].next = x
  <2>1. CASE x = keep
    <3>. DEFINE a == h[l].prev
    <3>1. g[x].prev = a /\ a \notin {l, r}
      BY <1>3, <2>1 DEF ClosedUp
    <3>2. a \in DOMAIN h /\ h[a].next = l
      BY <1>1, <1>2, <1>5, <3>1 DEF Tied
    <3>3. g[a].next = keep
      BY <1>3, <3>1, <3>2 DEF ClosedUp, Renamed
    <3>. QED
      BY <1>1, <2>1, <3>1, <3>2, <3>3
  <2>2. CASE x # keep
    <3>1. x \in DOMAIN h \ {l, r}
      BY <1>1, <2>2
    <3>2. g[x].prev = (IF h[x].prev = r THEN keep ELSE h[x].prev) /\ h[x].prev # l
      BY <1>3, <3>1 DEF ClosedUp
    <3>3. CASE h[x].prev = r
      <4>1. h[r].next = x
        BY <1>1, <1>2, <3>1, <3>3 DEF Tied
      <4>2. g[keep].next = h[r].next /\ keep \in DOMAIN g
        BY <1>1, <1>2, <1>3 DEF ClosedUp
      <4>. QED
        BY <3>2, <3>3, <4>1, <4>2
    <3>4. CASE h[x].prev # r
      <4>. DEFINE z == h[x].prev
      <4>1. g[x].prev = z /\ z \in DOMAIN h \ {l, r} /\ h[z].next = x
        BY <1>1, <1>5, <3>1, <3>2, <3>4 DEF Tied
      <4>2. g[z].next = x
        BY <1>3, <3>1, <4>1 DEF ClosedUp, Renamed
      <4>. QED
        BY <1>1, <4>1, <4>2
    <3>. QED
      BY <3>3, <3>4
  <2>. QED
    BY <2>1, <2>2
<1>. QED
  BY <1>4, <1>5 DEF Tied

(* The first child of a node that has not been merged may have.            *)
LEMMA FirstRenamed ==
    ASSUME NEW h, NEW range, NEW height, NEW g, NEW l, NEW r, NEW keep, NEW gone, NEW p, NEW at,
           Closing(h, range, height, g, l, r, keep, gone, p, at),
           NEW q \in DOMAIN h \ {l, r}, ~h[q].isLeaf
    PROVE  g[q].children[1] = Renamed(l, keep, h[q].children[1])
<1>1. /\ IsTree(h, range, height) /\ SiblingFacts(h, range, height, l, r, p, at)
      /\ AboveParts(h, g, keep, p, at) /\ \A x \in DOMAIN h \ {l, r, p} : SameBody(g, h, x)
  BY DEF Closing, Merging, MergeFacts
<1>2. /\ at \in Nat /\ at >= 1 /\ at <= NumKeys(h, p) /\ NumKeys(h, p) \in Nat
      /\ h[p].children[at] = l /\ h[l].parent = p
      /\ Different(h[p].children) /\ NumChild(h, p) = NumKeys(h, p) + 1
  BY <1>1 DEF SiblingFacts
<1>3. CASE q = p
  <2>1. g[p].children[1] = IF 1 < at THEN h[p].children[1]
                           ELSE IF 1 = at THEN keep ELSE h[p].children[2]
    BY <1>1, <1>2 DEF AboveParts
  <2>2. CASE at = 1
    BY <1>2, <1>3, <2>1, <2>2 DEF Renamed
  <2>3. CASE at # 1
    <3>1. h[p].children[1] # l
      BY <1>2, <2>3 DEF Different, NumChild
    <3>. QED
      BY <1>2, <1>3, <2>1, <2>3, <3>1 DEF Renamed
  <2>. QED
    BY <2>2, <2>3
<1>4. CASE q # p
  <2>1. g[q].children = h[q].children
    BY <1>1, <1>4 DEF SameBody
  <2>2. 1 \in 1 .. NumChild(h, q)
    <3>1. NumChild(h, q) = NumKeys(h, q) + 1 /\ NumKeys(h, q) \in Nat
      BY <1>1, KeysOf DEF IsTree, NodeFits
    <3>. QED
      BY <3>1
  <2>3. h[h[q].children[1]].parent = q
    BY <1>1, <2>2, ChildOf
  <2>4. h[q].children[1] # l
    BY <1>2, <1>4, <2>3
  <2>. QED
    BY <2>1, <2>4 DEF Renamed
<1>. QED
  BY <1>3, <1>4

(* What comes behind the last child of a node that is not l or in front of *)
(* l: the first child of the next node.                                    *)
LEMMA BehindLast ==
    ASSUME NEW h, NEW range, NEW height, NEW g, NEW l, NEW r, NEW keep, NEW gone, NEW p, NEW at,
           Closing(h, range, height, g, l, r, keep, gone, p, at),
           NEW n \in DOMAIN h \ {l}, ~h[n].isLeaf, NEW m \in DOMAIN g, m = Renamed(r, keep, n),
           NEW j, ~(j < NumChild(g, m)), NEW i, ~(i < NumChild(h, n))
    PROVE  NextChild(g, m, j) = Renamed(l, keep, NextChild(h, n, i))
<1>1. /\ IsTree(h, range, height) /\ SiblingFacts(h, range, height, l, r, p, at)
      /\ KeepParts(h, g, l, r, keep, h[p].keys[at]) /\ Woven(h, height)
      /\ DOMAIN g = DOMAIN h \ {gone} /\ ((keep = l /\ gone = r) \/ (keep = r /\ gone = l))
      /\ NumKeys(h, l) \in Nat
  BY DEF Closing, Merging, MergeFacts
<1>2. /\ l \in Nat /\ r \in Nat /\ l # r /\ l \in DOMAIN h /\ r \in DOMAIN h /\ l # Null
      /\ h[l].isLeaf = h[r].isLeaf /\ height[r] = height[l] /\ height[p] = height[l] + 1 /\ height[l] \in Nat
      /\ h[l].parent = p
  BY <1>1 DEF SiblingFacts, Null
<1>3. ClosedUp(h, g, l, r, keep)
  BY GapClosed
<1>. DEFINE q == h[n].next
<1>4. g[m].next = Renamed(l, keep, q)
  <2>1. CASE n = r
    <3>1. m = keep
      BY <2>1 DEF Renamed
    <3>. QED
      BY <1>3, <2>1, <3>1 DEF ClosedUp, Renamed
  <2>2. CASE n # r
    <3>1. m = n
      BY <2>2 DEF Renamed
    <3>. QED
      BY <1>3, <2>2, <3>1 DEF ClosedUp
  <2>. QED
    BY <2>1, <2>2
<1>5. CASE q = Null
  <2>1. g[m].next = Null
    BY <1>2, <1>4, <1>5 DEF Renamed
  <2>. QED
    BY <1>2, <1>5, <2>1 DEF NextChild, Renamed
<1>6. CASE q # Null
  <2>1. q \in DOMAIN h /\ q # r /\ height[q] = height[n] /\ h[q].prev = n
    <3>1. q \in DOMAIN h /\ height[q] = height[n] /\ h[q].prev = n
      BY <1>1, <1>6 DEF Woven, NextFits
    <3>2. q # r
      BY <1>3, <3>1 DEF ClosedUp
    <3>. QED
      BY <3>1, <3>2
  <2>2. ~h[q].isLeaf /\ height[q] \in Nat
    <3>1. height[n] # 0
      BY <1>1, LeafIsLow
    <3>2. height[q] \in Nat
      BY <1>1, <2>1 DEF IsTree
    <3>. QED
      BY <1>1, <2>1, <3>1, <3>2, LeafIsLow
  <2>3. NextChild(h, n, i) = h[q].children[1]
    BY <1>6 DEF NextChild
  <2>4. CASE q = l
    <3>1. g[m].next = keep /\ keep # Null
      BY <1>1, <1>2, <1>4, <2>4 DEF Renamed, Null
    <3>2. ~h[l].isLeaf
      BY <2>2, <2>4
    <3>3. g[keep].children[1] = h[l].children[1]
      BY <1>1, <3>2 DEF KeepParts
    <3>4. h[l].children[1] # l
      <4>1. 1 \in 1 .. NumChild(h, l)
        <5>1. NumChild(h, l) = NumKeys(h, l) + 1
          BY <1>1, <1>2, <3>2 DEF IsTree, NodeFits
        <5>. QED
          BY <1>1, <5>1
      <4>2. h[h[l].children[1]].parent = l
        BY <1>1, <1>2, <4>1, ChildOf
      <4>3. p # l
        BY <1>1 DEF SiblingFacts
      <4>. QED
        BY <1>2, <4>2, <4>3
    <3>. QED
      BY <2>3, <2>4, <3>1, <3>3, <3>4 DEF NextChild, Renamed
  <2>5. CASE q # l
    <3>1. g[m].next = q
      BY <1>4, <2>5 DEF Renamed
    <3>2. g[q].children[1] = Renamed(l, keep, h[q].children[1])
      BY <2>1, <2>2, <2>5, FirstRenamed
    <3>. QED
      BY <1>6, <2>3, <3>1, <3>2 DEF NextChild
  <2>. QED
    BY <2>4, <2>5
<1>. QED
  BY <1>5, <1>6
(* After the merge the next of a child is right again: below a node that it*)
(* does not write,                                                         *)
LEMMA ClosedElsewhere ==
    ASSUME NEW h, NEW range, NEW height, NEW g, NEW l, NEW r, NEW keep, NEW gone, NEW p, NEW at,
           Closing(h, range, height, g, l, r, keep, gone, p, at),
           NEW n \in DOMAIN g \ {keep, p}, NEW i \in 1 .. NumChild(g, n)
    PROVE  g[g[n].children[i]].next = NextChild(g, n, i)
<1>. DEFINE c == h[n].children[i]
<1>1. /\ IsTree(h, range, height) /\ SiblingFacts(h, range, height, l, r, p, at) /\ Woven(h, height)
      /\ DOMAIN g = DOMAIN h \ {gone} /\ ((keep = l /\ gone = r) \/ (keep = r /\ gone = l))
      /\ \A x \in DOMAIN h \ {l, r, p} : SameBody(g, h, x)
      /\ h[l].parent = p /\ h[r].parent = p
  BY DEF Closing, Merging, MergeFacts, SiblingFacts
<1>2. ClosedUp(h, g, l, r, keep)
  BY GapClosed
<1>3. n \in DOMAIN h \ {l, r, p}
  BY <1>1
<1>4. g[n].children = h[n].children /\ NumChild(g, n) = NumChild(h, n)
  BY <1>1, <1>3 DEF SameBody, NumChild
<1>5. c \in DOMAIN h /\ h[c].parent = n /\ ~h[n].isLeaf
  BY <1>1, <1>3, <1>4, ChildOf
<1>6. h[c].next = NextChild(h, n, i)
  BY <1>1, <1>3, <1>4 DEF Woven
<1>7. c \notin {l, r}
  BY <1>1, <1>3, <1>5
<1>. HIDE DEF c
<1>8. g[c].next = Renamed(l, keep, NextChild(h, n, i))
  BY <1>2, <1>5, <1>6, <1>7 DEF ClosedUp
<1>9. CASE i < NumChild(h, n)
  <2>1. i + 1 \in 1 .. NumChild(h, n) /\ NumChild(h, n) \in Nat
    <3>1. NumChild(h, n) \in Nat
      BY <1>1, <1>3, NodeType DEF IsTree
    <3>. QED
      BY <1>4, <1>9, <3>1
  <2>2. h[h[n].children[i + 1]].parent = n
    BY <1>1, <1>3, <2>1, ChildOf
  <2>3. NextChild(h, n, i) = h[n].children[i + 1] /\ NextChild(g, n, i) = h[n].children[i + 1]
    BY <1>4, <1>9 DEF NextChild
  <2>. QED
    BY <1>1, <1>3, <1>4, <1>8, <2>2, <2>3 DEF Renamed, c
<1>10. CASE ~(i < NumChild(h, n))
  <2>1. n = Renamed(r, keep, n)
    BY <1>3 DEF Renamed
  <2>2. NextChild(g, n, i) = Renamed(l, keep, NextChild(h, n, i))
    BY <1>3, <1>4, <1>5, <1>10, <2>1, BehindLast
  <2>. QED
    BY <1>4, <1>8, <2>2 DEF c
<1>. QED
  BY <1>9, <1>10

(* in the node that has it all,                                            *)
LEMMA ClosedKeep ==
    ASSUME NEW h, NEW range, NEW height, NEW g, NEW l, NEW r, NEW keep, NEW gone, NEW p, NEW at,
           Closing(h, range, height, g, l, r, keep, gone, p, at),
           NEW i \in 1 .. NumChild(g, keep)
    PROVE  g[g[keep].children[i]].next = NextChild(g, keep, i)
<1>. DEFINE L == NumKeys(h, l)
            R == NumKeys(h, r)
            c == g[keep].children[i]
<1>1. /\ IsTree(h, range, height) /\ SiblingFacts(h, range, height, l, r, p, at) /\ Woven(h, height)
      /\ KeepParts(h, g, l, r, keep, h[p].keys[at])
      /\ DOMAIN g = DOMAIN h \ {gone} /\ ((keep = l /\ gone = r) \/ (keep = r /\ gone = l))
      /\ L \in Nat /\ R \in Nat
      /\ ~h[l].isLeaf => NumChild(h, l) = L + 1 /\ NumChild(h, r) = R + 1
  BY DEF Closing, Merging, MergeFacts
<1>2. /\ l \in DOMAIN h /\ r \in DOMAIN h /\ p \notin {l, r} /\ l # r /\ r # Null
      /\ h[l].parent = p /\ h[r].parent = p /\ h[l].isLeaf = h[r].isLeaf
  BY <1>1 DEF SiblingFacts, Null
<1>3. ClosedUp(h, g, l, r, keep)
  BY GapClosed
<1>4. ~h[l].isLeaf
  BY <1>1 DEF KeepParts
<1>5. /\ NumChild(g, keep) = L + R + 2
      /\ \A j \in 1 .. L + 1 : g[keep].children[j] = h[l].children[j]
      /\ \A j \in 1 .. R + 1 : g[keep].children[L + 1 + j] = h[r].children[j]
      /\ NumChild(h, l) = L + 1 /\ NumChild(h, r) = R + 1
  BY <1>1, <1>4 DEF KeepParts
<1>. HIDE DEF L, R
(* A child of l or r is neither.                                           *)
<1>6. /\ \A j \in 1 .. L + 1 : h[l].children[j] \in DOMAIN h \ {l, r}
      /\ \A j \in 1 .. R + 1 : h[r].children[j] \in DOMAIN h \ {l, r}
  <2>1. ASSUME NEW j \in 1 .. L + 1 PROVE h[l].children[j] \in DOMAIN h \ {l, r}
    <3>1. h[l].children[j] \in DOMAIN h /\ h[h[l].children[j]].parent = l
      BY <1>1, <1>2, <1>5, ChildOf
    <3>. QED
      BY <1>2, <3>1
  <2>2. ASSUME NEW j \in 1 .. R + 1 PROVE h[r].children[j] \in DOMAIN h \ {l, r}
    <3>1. h[r].children[j] \in DOMAIN h /\ h[h[r].children[j]].parent = r
      BY <1>1, <1>2, <1>5, ChildOf
    <3>. QED
      BY <1>2, <3>1
  <2>. QED
    BY <2>1, <2>2
<1>7. CASE i \in 1 .. L + 1
  <2>1. c = h[l].children[i] /\ c \in DOMAIN h \ {l, r}
    BY <1>5, <1>6, <1>7
  <2>2. h[c].next = NextChild(h, l, i)
    BY <1>1, <1>2, <1>5, <1>7, <2>1 DEF Woven
  <2>. HIDE DEF c
  <2>3. g[c].next = Renamed(l, keep, NextChild(h, l, i))
    BY <1>3, <2>1, <2>2 DEF ClosedUp
  <2>4. NextChild(g, keep, i) = g[keep].children[i + 1]
    BY <1>1, <1>5, <1>7 DEF NextChild
  <2>5. CASE i < L + 1
    <3>1. i + 1 \in 1 .. L + 1
      BY <1>1, <1>7, <2>5
    <3>2. NextChild(h, l, i) = h[l].children[i + 1]
      BY <1>5, <2>5 DEF NextChild
    <3>3. g[keep].children[i + 1] = h[l].children[i + 1] /\ h[l].children[i + 1] # l
      BY <1>5, <1>6, <3>1
    <3>. QED
      BY <2>3, <2>4, <3>2, <3>3 DEF Renamed, c
  <2>6. CASE ~(i < L + 1)
    <3>1. i = L + 1 /\ i + 1 = L + 1 + 1 /\ 1 \in 1 .. R + 1
      BY <1>1, <1>7, <2>6
    <3>2. h[l].next = r
      BY <1>3 DEF ClosedUp
    <3>3. NextChild(h, l, i) = h[r].children[1]
      BY <1>2, <1>5, <2>6, <3>2 DEF NextChild
    <3>4. g[keep].children[i + 1] = h[r].children[1] /\ h[r].children[1] # l
      BY <1>5, <1>6, <3>1
    <3>. QED
      BY <2>3, <2>4, <3>3, <3>4 DEF Renamed, c
  <2>. QED
    BY <2>5, <2>6
<1>8. CASE i \notin 1 .. L + 1
  <2>. DEFINE j == i - (L + 1)
  <2>1. j \in 1 .. R + 1 /\ L + 1 + j = i
    BY <1>1, <1>5, <1>8
  <2>. HIDE DEF j
  <2>2. c = h[r].children[j] /\ c \in DOMAIN h \ {l, r}
    BY <1>5, <1>6, <2>1
  <2>3. h[c].next = NextChild(h, r, j)
    BY <1>1, <1>2, <1>5, <2>1, <2>2 DEF Woven
  <2>. HIDE DEF c
  <2>4. g[c].next = Renamed(l, keep, NextChild(h, r, j))
    BY <1>3, <2>2, <2>3 DEF ClosedUp
  <2>5. CASE j < R + 1
    <3>1. j + 1 \in 1 .. R + 1 /\ L + 1 + (j + 1) = i + 1 /\ i < L + R + 2
      BY <1>1, <2>1, <2>5
    <3>2. NextChild(h, r, j) = h[r].children[j + 1]
      BY <1>5, <2>5 DEF NextChild
    <3>3. NextChild(g, keep, i) = g[keep].children[i + 1]
      BY <1>5, <3>1 DEF NextChild
    <3>4. g[keep].children[i + 1] = h[r].children[j + 1] /\ h[r].children[j + 1] # l
      <4>1. g[keep].children[L + 1 + (j + 1)] = h[r].children[j + 1] /\ h[r].children[j + 1] # l
        BY <1>5, <1>6, <3>1
      <4>. QED
        BY <3>1, <4>1
    <3>. QED
      BY <2>4, <3>2, <3>3, <3>4 DEF Renamed, c
  <2>6. CASE ~(j < R + 1)
    <3>1. ~(i < NumChild(g, keep)) /\ ~(j < NumChild(h, r))
      BY <1>1, <1>5, <2>1, <2>6
    <3>2. keep = Renamed(r, keep, r) /\ keep \in DOMAIN g /\ r \in DOMAIN h \ {l} /\ ~h[r].isLeaf
      BY <1>1, <1>2, <1>4 DEF Renamed
    <3>3. NextChild(g, keep, i) = Renamed(l, keep, NextChild(h, r, j))
      BY <3>1, <3>2, BehindLast
    <3>. QED
      BY <2>4, <3>3 DEF c
  <2>. QED
    BY <2>5, <2>6
<1>. QED
  BY <1>7, <1>8

(* and below the parent, which has one node in the place of two.           *)
LEMMA ClosedAbove ==
    ASSUME NEW h, NEW range, NEW height, NEW g, NEW l, NEW r, NEW keep, NEW gone, NEW p, NEW at,
           Closing(h, range, height, g, l, r, keep, gone, p, at),
           NEW j \in 1 .. NumChild(g, p)
    PROVE  g[g[p].children[j]].next = NextChild(g, p, j)
<1>. DEFINE n == NumKeys(h, p)
            kids == h[p].children
            c == g[p].children[j]
<1>1. /\ IsTree(h, range, height) /\ SiblingFacts(h, range, height, l, r, p, at) /\ Woven(h, height)
      /\ AboveParts(h, g, keep, p, at)
      /\ DOMAIN g = DOMAIN h \ {gone} /\ ((keep = l /\ gone = r) \/ (keep = r /\ gone = l))
  BY DEF Closing, Merging, MergeFacts
<1>2. /\ l \in DOMAIN h /\ r \in DOMAIN h /\ p \in DOMAIN h /\ p \notin {l, r} /\ l # r
      /\ kids[at] = l /\ kids[at + 1] = r /\ ~h[p].isLeaf
      /\ n \in Nat /\ at \in Nat /\ at >= 1 /\ at <= n /\ NumChild(h, p) = n + 1
      /\ Different(kids)
  BY <1>1 DEF SiblingFacts
<1>3. ClosedUp(h, g, l, r, keep)
  BY GapClosed
<1>4. /\ NumChild(g, p) = n
      /\ \A i \in 1 .. n : g[p].children[i] = IF i < at THEN kids[i]
                                              ELSE IF i = at THEN keep ELSE kids[i + 1]
  BY <1>1 DEF AboveParts
<1>5. \A i \in 1 .. n + 1 : kids[i] \in DOMAIN h /\ h[kids[i]].next = NextChild(h, p, i)
  BY <1>1, <1>2, ChildOf DEF Woven
<1>6. /\ \A i \in 1 .. n + 1 : kids[i] = l => i = at
      /\ \A i \in 1 .. n + 1 : kids[i] = r => i = at + 1
  BY <1>2, SMTT(30) DEF Different, NumChild
<1>. HIDE DEF n, kids
<1>7. ASSUME NEW i \in 1 .. n + 1, i # at, i # at + 1
      PROVE  g[kids[i]].next = Renamed(l, keep, NextChild(h, p, i))
  BY <1>3, <1>5, <1>6, <1>7 DEF ClosedUp
(* What comes behind the last child of p.                                  *)
<1>8. ASSUME NEW i, i = n + 1
      PROVE  NextChild(g, p, n) = Renamed(l, keep, NextChild(h, p, i)) /\ NextChild(h, p, i) # l
  <2>1. ~(n < NumChild(g, p)) /\ ~(i < NumChild(h, p))
    BY <1>2, <1>4, <1>8
  <2>2. p = Renamed(r, keep, p) /\ p \in DOMAIN g
    BY <1>1, <1>2 DEF Renamed
  <2>3. NextChild(g, p, n) = Renamed(l, keep, NextChild(h, p, i))
    BY <1>2, <2>1, <2>2, BehindLast
  <2>4. NextChild(h, p, i) # l
    <3>1. kids[n + 1] \in DOMAIN h /\ h[kids[n + 1]].next = NextChild(h, p, i)
      BY <1>2, <1>5, <1>8
    <3>2. kids[n + 1] # l
      BY <1>2, <1>6
    <3>. DEFINE x == kids[n + 1]
    <3>. SUFFICES ASSUME h[x].next = l PROVE FALSE
      BY <3>1
    <3>3. h[l].prev = x
      <4>1. l # Null
        BY <1>1 DEF SiblingFacts, Null
      <4>. QED
        BY <1>1, <3>1, <4>1 DEF Woven, NextFits
    <3>4. x # r
      BY <1>3, <3>3 DEF ClosedUp
    <3>5. n + 1 # at /\ n + 1 # at + 1
      BY <1>2, <3>4
    (* x is behind r, its parent p; l is first below the node behind p.    *)
    <3>. DEFINE q == h[p].next
    <3>6. q # Null /\ h[q].children[1] = l
      <4>1. l # Null
        BY <1>1 DEF SiblingFacts, Null
      <4>. QED
        BY <2>1, <3>1, <4>1 DEF NextChild
    <3>7. q \in DOMAIN h /\ q # p /\ height[q] = height[p]
      BY <1>1, <1>2, <3>6 DEF Woven, NextFits
    <3>8. 1 \in 1 .. NumChild(h, q)
      <4>1. height[p] # 0
        BY <1>1, <1>2, LeafIsLow
      <4>2. ~h[q].isLeaf
        BY <1>1, <3>7, <4>1, LeafIsLow
      <4>3. NumChild(h, q) = NumKeys(h, q) + 1 /\ NumKeys(h, q) \in Nat
        BY <1>1, <3>7, <4>2, KeysOf DEF IsTree, NodeFits
      <4>. QED
        BY <4>3
    <3>9. h[l].parent = q
      BY <1>1, <3>6, <3>7, <3>8, ChildOf
    <3>. QED
      BY <1>1, <3>7, <3>9 DEF SiblingFacts
  <2>. QED
    BY <2>3, <2>4
<1>9. CASE j = at
  <2>1. c = keep
    BY <1>2, <1>4, <1>9
  <2>2. g[keep].next = h[r].next /\ h[r].next # l
    BY <1>3 DEF ClosedUp
  <2>3. h[r].next = NextChild(h, p, at + 1)
    BY <1>2, <1>5
  <2>4. CASE at + 1 < n + 1
    <3>1. NextChild(h, p, at + 1) = kids[(at + 1) + 1] /\ NextChild(g, p, j) = g[p].children[at + 1]
      BY <1>2, <1>4, <1>9, <2>4 DEF NextChild, kids
    <3>2. g[p].children[at + 1] = kids[(at + 1) + 1]
      BY <1>2, <1>4, <2>4
    <3>. QED
      BY <2>1, <2>2, <2>3, <3>1, <3>2
  <2>5. CASE ~(at + 1 < n + 1)
    <3>1. at + 1 = n + 1 /\ j = n
      BY <1>2, <1>9, <2>5
    <3>2. NextChild(g, p, n) = Renamed(l, keep, NextChild(h, p, at + 1)) /\ NextChild(h, p, at + 1) # l
      BY <1>8, <3>1
    <3>. QED
      BY <2>1, <2>2, <2>3, <3>1, <3>2 DEF Renamed
  <2>. QED
    BY <2>4, <2>5
<1>10. CASE j < at
  <2>1. c = kids[j] /\ j \in 1 .. n + 1 /\ j # at + 1 /\ j + 1 \in 1 .. n + 1 /\ j + 1 \in 1 .. n
        /\ j < n + 1 /\ j < n
    BY <1>2, <1>4, <1>10
  <2>2. g[c].next = Renamed(l, keep, kids[j + 1])
    <3>1. NextChild(h, p, j) = kids[j + 1]
      BY <1>2, <2>1 DEF NextChild, kids
    <3>. QED
      BY <1>7, <1>10, <2>1, <3>1
  <2>3. NextChild(g, p, j) = g[p].children[j + 1]
    BY <1>4, <2>1 DEF NextChild
  <2>4. CASE j + 1 = at
    <3>1. g[p].children[j + 1] = keep
      BY <1>2, <1>4, <2>1, <2>4
    <3>. QED
      BY <1>2, <2>2, <2>3, <2>4, <3>1 DEF Renamed
  <2>5. CASE j + 1 # at
    <3>1. g[p].children[j + 1] = kids[j + 1]
      BY <1>2, <1>4, <1>10, <2>1, <2>5
    <3>2. kids[j + 1] # l
      BY <1>6, <2>1, <2>5
    <3>. QED
      BY <2>2, <2>3, <3>1, <3>2 DEF Renamed
  <2>. QED
    BY <2>4, <2>5
<1>11. CASE j > at
  <2>1. c = kids[j + 1] /\ j + 1 \in 1 .. n + 1 /\ j + 1 # at /\ j + 1 # at + 1 /\ j \in 1 .. n
    BY <1>2, <1>4, <1>11
  <2>2. g[c].next = Renamed(l, keep, NextChild(h, p, j + 1))
    BY <1>7, <2>1
  <2>3. CASE j < n
    <3>1. NextChild(h, p, j + 1) = kids[(j + 1) + 1] /\ NextChild(g, p, j) = g[p].children[j + 1]
      BY <1>2, <1>4, <2>1, <2>3 DEF NextChild, kids
    <3>2. (j + 1) + 1 \in 1 .. n + 1 /\ (j + 1) + 1 # at /\ j + 1 \in 1 .. n /\ ~(j + 1 < at) /\ j + 1 # at
      BY <1>2, <1>11, <2>1, <2>3
    <3>3. g[p].children[j + 1] = kids[(j + 1) + 1] /\ kids[(j + 1) + 1] # l
      BY <1>4, <1>6, <3>2
    <3>. QED
      BY <2>2, <3>1, <3>3 DEF Renamed
  <2>4. CASE ~(j < n)
    <3>1. j = n
      BY <1>2, <2>1, <2>4
    <3>. QED
      BY <1>8, <2>2, <3>1
  <2>. QED
    BY <2>3, <2>4
<1>. QED
  BY <1>2, <1>4, <1>9, <1>10, <1>11

(* So a merge leaves the levels linked.                                    *)
LEMMA MergeKeepsWoven ==
    ASSUME NEW h, NEW range, NEW height, NEW g, NEW l, NEW r, NEW keep, NEW gone, NEW p, NEW at,
           Closing(h, range, height, g, l, r, keep, gone, p, at),
           NEW H, H = MergeHeight(g, height)
    PROVE  Woven(g, H)
<1>1. /\ IsTree(h, range, height) /\ Woven(h, height) /\ Tied(h)
      /\ SiblingFacts(h, range, height, l, r, p, at)
      /\ DOMAIN g = DOMAIN h \ {gone} /\ ((keep = l /\ gone = r) \/ (keep = r /\ gone = l))
  BY DEF Closing, Merging, MergeFacts
<1>2. /\ l \in DOMAIN h /\ r \in DOMAIN h /\ l # r /\ l # RootPtr /\ r # RootPtr /\ RootPtr \in DOMAIN h
      /\ height[r] = height[l] /\ l # Null /\ r # Null
  BY <1>1 DEF SiblingFacts, Heap, Null
<1>3. ClosedUp(h, g, l, r, keep)
  BY GapClosed
<1>4. \A x \in DOMAIN g : H[x] = height[x]
  BY DEF MergeHeight
<1>5. g[RootPtr].next = Null
  <2>1. h[RootPtr].next = Null
    BY <1>1 DEF Woven
  <2>. QED
    BY <1>2, <1>3, <2>1 DEF ClosedUp, Renamed
<1>6. ASSUME NEW x \in DOMAIN g PROVE NextFits(g, H, x)
  <2>. DEFINE y == g[x].next
  <2>. SUFFICES ASSUME y # Null
                PROVE  y \in DOMAIN g /\ y # x /\ H[y] = H[x] /\ g[y].prev = x
    BY DEF NextFits
  <2>1. CASE x = keep
    <3>1. y = h[r].next /\ y \notin {l, r}
      BY <1>3, <2>1 DEF ClosedUp
    <3>2. y \in DOMAIN h /\ height[y] = height[r] /\ h[y].prev = r
      BY <1>1, <1>2, <3>1 DEF Woven, NextFits
    <3>3. g[y].prev = keep
      BY <1>3, <3>1, <3>2 DEF ClosedUp
    <3>. QED
      BY <1>1, <1>2, <1>4, <2>1, <3>1, <3>2, <3>3
  <2>2. CASE x # keep
    <3>1. x \in DOMAIN h \ {l, r}
      BY <1>1, <2>2
    <3>2. y = Renamed(l, keep, h[x].next) /\ h[x].next # r
      BY <1>3, <3>1 DEF ClosedUp
    <3>3. CASE h[x].next = l
      <4>1. h[l].prev = x /\ height[l] = height[x]
        BY <1>1, <1>2, <3>1, <3>3 DEF Woven, NextFits
      <4>2. y = keep /\ g[keep].prev = x
        BY <1>3, <3>2, <3>3, <4>1 DEF ClosedUp, Renamed
      <4>. QED
        BY <1>1, <1>2, <1>4, <2>2, <4>1, <4>2
    <3>4. CASE h[x].next # l
      <4>1. y = h[x].next /\ y \notin {l, r}
        BY <3>2, <3>4 DEF Renamed
      <4>2. y \in DOMAIN h /\ y # x /\ height[y] = height[x] /\ h[y].prev = x
        BY <1>1, <3>1, <4>1 DEF Woven, NextFits
      <4>3. g[y].prev = x
        BY <1>3, <3>1, <4>1, <4>2 DEF ClosedUp
      <4>. QED
        BY <1>1, <1>4, <4>1, <4>2, <4>3
    <3>. QED
      BY <3>3, <3>4
  <2>. QED
    BY <2>1, <2>2
<1>7. ASSUME NEW n \in DOMAIN g, NEW i \in 1 .. NumChild(g, n)
      PROVE  g[g[n].children[i]].next = NextChild(g, n, i)
  <2>1. CASE n = keep
    BY <1>7, <2>1, ClosedKeep
  <2>2. CASE n = p
    BY <1>7, <2>2, ClosedAbove
  <2>3. CASE n \notin {keep, p}
    BY <1>7, <2>3, ClosedElsewhere
  <2>. QED
    BY <2>1, <2>2, <2>3
<1>. QED
  BY <1>5, <1>6, <1>7 DEF Woven
(* What Merge, Consolidate and Delete make of a tree in which every node   *)
(* has keys to take.                                                       *)
LEMMA MergeOfSiblings ==
    ASSUME NEW h, NEW range, NEW height, IsTree(h, range, height), Roomy(h, range),
           NEW l, NEW r, Siblings(h, l, r), NEW toRight \in BOOLEAN,
           NEW keep, keep = (IF toRight THEN r ELSE l),
           NEW gone, gone = (IF toRight THEN l ELSE r),
           NEW p, p = h[l].parent, NEW at, at = h[l].childIndex + 1,
           NEW g, g = Delete(Consolidate(Merge(h, l, r, toRight), p), {gone})
    PROVE  /\ Merging(h, range, height, g, l, r, keep, gone, p, at)
           /\ Unlinked(h, g, l, r, keep)
<1>1. IsMerged(h, g, l, r, keep, gone) /\ Unlinked(h, g, l, r, keep)
  BY MergeIs
<1>2. MergeFacts(h, range, height, g, l, r, keep, gone, p, at)
  BY <1>1, MergedParts
<1>. QED
  BY <1>1, <1>2 DEF Merging
-----------------------------------------------------------------------------
(* Dealing keys out again                                                  *)

(* Deal writes the keys and children of two neighbours and a key of their  *)
(* parent.                                                                 *)
DealtAgain(h, l, r, p, A, B, C, D, i, e) ==
    [h EXCEPT ![l].keys = A, ![r].keys = B, ![l].children = C, ![r].children = D,
              ![p].keys[i] = e]

(* These writes, one after the other.                                      *)
LEMMA DealWrites ==
    ASSUME NEW h, Heap(h), NEW l \in DOMAIN h, NEW r \in DOMAIN h, NEW p \in DOMAIN h,
           l # r, p # l, p # r,
           NEW A \in Seq(Nat), NEW B \in Seq(Nat), NEW C \in Seq(Nat), NEW D \in Seq(Nat),
           NEW i \in 1 .. Len(h[p].keys), NEW e \in Nat,
           NEW g, g = DealtAgain(h, l, r, p, A, B, C, D, i, e)
    PROVE  Dealt(h, g, l, r, p, A, B, C, D, [h[p].keys EXCEPT ![i] = e], h[p].children)
<1>. DEFINE E == [h[p].keys EXCEPT ![i] = e]
<1>1. \A x \in DOMAIN h : h[x] \in Node
  BY DEF Heap
<1>2. h[p].keys \in Seq(Nat) /\ h[p].children \in Seq(Nat)
  BY NodeType
<1>3. E \in Seq(Nat)
  BY <1>2
<1>4. DOMAIN g = DOMAIN h /\ g = [x \in DOMAIN h |-> g[x]]
  BY DEF DealtAgain
<1>5. g[l] = With(h[l], A, C)
  BY DEF DealtAgain, With
<1>6. g[r] = With(h[r], B, D)
  BY DEF DealtAgain, With
<1>7. g[p] = [h[p] EXCEPT !.keys = E]
  BY DEF DealtAgain
<1>8. \A x \in DOMAIN h \ {l, r, p} : g[x] = h[x]
  BY DEF DealtAgain
<1>. HIDE DEF E
<1>9. /\ g[l] \in Node /\ g[l].keys = A /\ g[l].children = C /\ g[l].isLeaf = h[l].isLeaf
      /\ SamePlace(g, h, l) /\ SameLinks(g, h, l)
  BY <1>1, <1>5, WithFields DEF SamePlace, SameLinks
<1>10. /\ g[r] \in Node /\ g[r].keys = B /\ g[r].children = D /\ g[r].isLeaf = h[r].isLeaf
       /\ SamePlace(g, h, r) /\ SameLinks(g, h, r)
  BY <1>1, <1>6, WithFields DEF SamePlace, SameLinks
<1>11. /\ g[p] \in Node /\ g[p].keys = E /\ g[p].children = h[p].children /\ g[p].isLeaf = h[p].isLeaf
       /\ SamePlace(g, h, p) /\ SameLinks(g, h, p)
  <2>1. h[p] \in Node
    BY <1>1
  <2>. QED
    BY <1>3, <1>7, <2>1 DEF SamePlace, SameLinks, Node
<1>12. ASSUME NEW x \in DOMAIN h
       PROVE  /\ g[x] \in Node /\ SamePlace(g, h, x) /\ SameLinks(g, h, x)
              /\ g[x].isLeaf = h[x].isLeaf
  <2>1. CASE x \in {l, r, p}
    BY <1>9, <1>10, <1>11, <2>1
  <2>2. CASE x \notin {l, r, p}
    BY <1>1, <1>8, <2>2 DEF SamePlace, SameLinks
  <2>. QED
    BY <2>1, <2>2
<1>13. Heap(g)
  BY <1>4, <1>12 DEF Heap
<1>. QED
  BY <1>4, <1>8, <1>9, <1>10, <1>11, <1>12, <1>13 DEF Dealt, E

(* Consolidate leaves the links alone.                                     *)
LEMMA ConsolidateLinks ==
    ASSUME NEW h, Heap(h), NEW n \in DOMAIN h
    PROVE  \A x \in DOMAIN h : SameLinks(Consolidate(h, n), h, x)
BY ConsolidateFields

(* All of a deal: g is what the merge of l and r would have been, f the    *)
(* heap after the deal.                                                    *)
Dealing(h, range, height, g, f, l, r, m, p, at) ==
    /\ Merging(h, range, height, g, l, r, l, r, p, at)
    /\ Unlinked(h, g, l, r, l)
    /\ m \in 1 .. NumKeys(g, l) - 1
    /\ f = Deal(h, l, r, m)

(* In what it would have been, l has all.                                  *)
AllIn(h, g, l, r, p, at) ==
    /\ DOMAIN g = DOMAIN h \ {r} /\ l \in DOMAIN g \ {RootPtr} /\ p \in DOMAIN g
    /\ g[l].isLeaf = h[l].isLeaf /\ g[p].isLeaf = h[p].isLeaf
    /\ g[l].keys = JoinedKeys(h, l, r)
    /\ g[l].children = h[l].children \o h[r].children
    /\ g[l].parent = p /\ g[l].childIndex + 1 = at
    /\ g[p].keys = RemoveAt(h[p].keys, at)
    /\ g[p].children = RemoveAt(h[p].children, at + 1)
    /\ \A x \in DOMAIN h \ {l, r, p} : SameBody(g, h, x)
    /\ \A x \in DOMAIN g :
          x \notin ToSet(h[l].children) \cup ToSet(h[r].children) \cup ToSet(h[p].children) =>
             SamePlace(g, h, x)

(* It is a tree in which l has all.                                        *)
LEMMA AllInOne ==
    ASSUME NEW h, NEW range, NEW height, NEW g, NEW f, NEW l, NEW r, NEW m, NEW p, NEW at,
           Dealing(h, range, height, g, f, l, r, m, p, at)
    PROVE  /\ IsTree(g, MergeRange(range, g, l, r, l), MergeHeight(g, height))
           /\ AllIn(h, g, l, r, p, at)
<1>1. /\ Merging(h, range, height, g, l, r, l, r, p, at)
      /\ IsMerged(h, g, l, r, l, r) /\ p = h[l].parent /\ at = h[l].childIndex + 1
      /\ SiblingFacts(h, range, height, l, r, p, at) /\ AboveParts(h, g, l, p, at)
      /\ DOMAIN g = DOMAIN h \ {r}
  BY DEF Dealing, Merging, MergeFacts
<1>2. IsTree(g, MergeRange(range, g, l, r, l), MergeHeight(g, height))
  BY <1>1, MergeKeepsTree
<1>3. /\ l \in DOMAIN h \ {RootPtr} /\ p \in DOMAIN h /\ l # r /\ p # r
      /\ at \in Nat /\ at >= 1 /\ at <= NumKeys(h, p) /\ NumKeys(h, p) \in Nat
  BY <1>1 DEF SiblingFacts
<1>4. /\ g[l].isLeaf = h[l].isLeaf /\ g[p].isLeaf = h[p].isLeaf
      /\ g[l].keys = JoinedKeys(h, l, r)
      /\ g[l].children = h[l].children \o h[r].children
      /\ g[p].keys = RemoveAt(h[p].keys, at)
      /\ g[p].children = RemoveAt(h[p].children, at + 1)
      /\ \A x \in DOMAIN h \ {l, r, p} : SameBody(g, h, x)
  BY <1>1 DEF IsMerged, MergedBodies
<1>5. g[l].parent = p /\ g[l].childIndex + 1 = at
  <2>. HIDE DEF IsTree
  <2>1. at \in 1 .. NumChild(g, p) /\ g[p].children[at] = l
    <3>1. at \in 1 .. NumKeys(h, p)
      BY <1>3
    <3>. QED
      BY <1>1, <3>1 DEF AboveParts
  <2>2. g[l].parent = p /\ g[l].childIndex = at - 1
    BY <1>1, <2>1 DEF IsMerged, Placed
  <2>. QED
    BY <1>3, <2>2
<1>6. \A x \in DOMAIN g :
         x \notin ToSet(h[l].children) \cup ToSet(h[r].children) \cup ToSet(h[p].children) =>
            SamePlace(g, h, x)
  BY <1>1 DEF IsMerged
<1>. QED
  BY <1>1, <1>2, <1>3, <1>4, <1>5, <1>6 DEF AllIn

(* A deal is a split of that: it writes what a split would,                *)
LEMMA DealIs ==
    ASSUME NEW h, NEW range, NEW height, NEW g, NEW f, NEW l, NEW r, NEW m, NEW p, NEW at,
           Dealing(h, range, height, g, f, l, r, m, p, at)
    PROVE  /\ IsSplit(g, f, l, m, l, r, r)
           /\ DOMAIN f = DOMAIN h /\ f[p].children = h[p].children
           /\ NumKeys(f, p) = NumKeys(h, p)
           /\ \A x \in DOMAIN h : SameLinks(f, h, x)
           /\ f[RootPtr].parent = h[RootPtr].parent
<1>0. AllIn(h, g, l, r, p, at) /\ IsTree(g, MergeRange(range, g, l, r, l), MergeHeight(g, height))
  BY AllInOne
<1>. DEFINE all == JoinedKeys(h, l, r)
            kids == h[l].children \o h[r].children
            leaf == h[l].isLeaf
            cut == IF leaf THEN 0 ELSE m + 1
            A == SubSeq(all, 1, m)
            B == SubSeq(all, IF leaf THEN m + 1 ELSE m + 2, Len(all))
            C == SubSeq(kids, 1, cut)
            D == SubSeq(kids, cut + 1, Len(kids))
            e == all[m + 1]
            E == [h[p].keys EXCEPT ![at] = e]
            w == DealtAgain(h, l, r, p, A, B, C, D, at, e)
            f1 == Consolidate(w, l)
            R == MergeRange(range, g, l, r, l)
            H == MergeHeight(g, height)
<1>1. /\ IsTree(h, range, height) /\ SiblingFacts(h, range, height, l, r, p, at)
      /\ p = h[l].parent /\ at = h[l].childIndex + 1 /\ Siblings(h, l, r)
      /\ KeepParts(h, g, l, r, l, h[p].keys[at])
      /\ m \in 1 .. NumKeys(g, l) - 1 /\ f = Deal(h, l, r, m)
      /\ NumKeys(h, l) \in Nat /\ NumKeys(h, r) \in Nat
      /\ ~leaf => NumChild(h, l) = NumKeys(h, l) + 1 /\ NumChild(h, r) = NumKeys(h, r) + 1
  BY DEF Dealing, Merging, MergeFacts
<1>2. /\ IsTree(g, R, H)
      /\ DOMAIN g = DOMAIN h \ {r} /\ l \in DOMAIN g \ {RootPtr} /\ p \in DOMAIN g
      /\ g[l].isLeaf = leaf /\ g[p].isLeaf = h[p].isLeaf
      /\ g[l].keys = all /\ g[l].children = kids
      /\ g[l].parent = p /\ g[l].childIndex + 1 = at
      /\ g[p].keys = RemoveAt(h[p].keys, at)
      /\ g[p].children = RemoveAt(h[p].children, at + 1)
      /\ \A x \in DOMAIN h \ {l, r, p} : SameBody(g, h, x)
      /\ \A x \in DOMAIN g :
            x \notin ToSet(h[l].children) \cup ToSet(h[r].children) \cup ToSet(h[p].children) =>
               SamePlace(g, h, x)
  BY <1>0 DEF AllIn
<1>3. /\ Heap(h) /\ l \in DOMAIN h /\ r \in DOMAIN h /\ l # r /\ p \in DOMAIN h /\ p # l /\ p # r
      /\ r \in Nat /\ l # RootPtr /\ r # RootPtr /\ h[r].parent = p /\ h[l].isLeaf = h[r].isLeaf
      /\ at \in Nat /\ at >= 1 /\ at <= NumKeys(h, p) /\ NumKeys(h, p) \in Nat
      /\ NumChild(h, p) = NumKeys(h, p) + 1
      /\ h[p].children[at + 1] = r /\ Different(h[p].children)
      /\ ToSet(h[l].children) \cap ToSet(h[p].children) = {}
      /\ ToSet(h[r].children) \cap ToSet(h[p].children) = {}
      /\ ToSet(h[l].children) \cup ToSet(h[r].children) \cup ToSet(h[p].children)
            \subseteq DOMAIN h \ {RootPtr}
  BY <1>1 DEF SiblingFacts
<1>4. /\ all \in Seq(Nat) /\ kids \in Seq(Nat) /\ h[p].keys \in Seq(Nat) /\ h[p].children \in Seq(Nat)
      /\ at \in 1 .. Len(h[p].keys) /\ at + 1 \in 1 .. Len(h[p].children)
  <2>1. /\ all \in Seq(Nat) /\ kids \in Seq(Nat) /\ h[p].keys \in Seq(Nat) /\ h[p].children \in Seq(Nat)
        /\ at \in 1 .. Len(h[p].keys)
    BY <1>1, JointType
  <2>. QED
    BY <1>3, <2>1 DEF NumChild
<1>5. /\ Len(all) = NumKeys(g, l) /\ m \in Nat /\ m >= 1 /\ m + 1 \in 1 .. Len(all) /\ Len(all) \in Nat
      /\ cut \in 0 .. Len(kids) /\ Len(kids) \in Nat /\ leaf \in BOOLEAN
  <2>1. Len(all) = NumKeys(g, l) /\ Len(kids) = NumChild(g, l)
    BY <1>2 DEF NumKeys, NumChild
  <2>2. leaf \in BOOLEAN
    BY <1>3, NodeType
  <2>. HIDE DEF all, kids
  <2>5. Len(all) \in Nat /\ Len(kids) \in Nat
    BY <1>4
  <2>3. m \in Nat /\ m >= 1 /\ m + 1 \in 1 .. Len(all) /\ m + 1 <= Len(all)
    BY <1>1, <2>1, <2>5
  <2>4. cut \in 0 .. Len(kids)
    <3>1. CASE leaf
      BY <2>5, <3>1
    <3>2. CASE ~leaf
      <4>1. NumKeys(g, l) + 1 = NumChild(g, l)
        BY <1>1, <3>2 DEF KeepParts
      <4>. QED
        BY <2>1, <2>5, <2>3, <3>2, <4>1
    <3>. QED
      BY <3>1, <3>2
  <2>. QED
    BY <2>1, <2>2, <2>3, <2>4, <2>5
<1>. HIDE DEF all, kids, leaf, R, H
<1>6. A \in Seq(Nat) /\ B \in Seq(Nat) /\ C \in Seq(Nat) /\ D \in Seq(Nat) /\ e \in Nat
  <2>1. A \in Seq(Nat)
    <3>1. 1 \in 1 .. Len(all) + 1 /\ m \in 1 - 1 .. Len(all)
      BY <1>5
    <3>. QED
      BY <1>4, <3>1, Part
  <2>2. B \in Seq(Nat)
    <3>1. CASE leaf
      <4>1. m \in 0 .. Len(all)
        BY <1>5
      <4>. QED
        BY <1>4, <3>1, <4>1, Suffix
    <3>2. CASE ~leaf
      <4>1. m + 1 \in 0 .. Len(all) /\ (m + 1) + 1 = m + 2
        BY <1>5
      <4>2. SubSeq(all, (m + 1) + 1, Len(all)) \in Seq(Nat)
        BY <1>4, <4>1, Suffix
      <4>. QED
        BY <3>2, <4>1, <4>2
    <3>. QED
      BY <3>1, <3>2
  <2>. HIDE DEF cut
  <2>3. C \in Seq(Nat)
    <3>1. 1 \in 1 .. Len(kids) + 1 /\ cut \in 1 - 1 .. Len(kids)
      BY <1>5
    <3>. QED
      BY <1>4, <3>1, Part
  <2>4. D \in Seq(Nat)
    BY <1>4, <1>5, Suffix
  <2>5. \A i \in 1 .. Len(all) : all[i] \in Nat
    BY <1>4
  <2>. QED
    BY <1>5, <2>1, <2>2, <2>3, <2>4, <2>5
<1>7. f = Consolidate(f1, r)
  BY <1>1, <1>3 DEF Deal, DealtAgain, all, kids, leaf
<1>8. Dealt(h, w, l, r, p, A, B, C, D, E, h[p].children)
  <2>. HIDE DEF A, B, C, D, e, E, w
  <2>1. w = DealtAgain(h, l, r, p, A, B, C, D, at, e)
    BY DEF w
  <2>2. Dealt(h, w, l, r, p, A, B, C, D, [h[p].keys EXCEPT ![at] = e], h[p].children)
    BY <1>3, <1>4, <1>6, <2>1, DealWrites
  <2>. QED
    BY <2>2 DEF E
<1>9. /\ Heap(w) /\ DOMAIN w = DOMAIN h
      /\ \A x \in DOMAIN h : SamePlace(w, h, x) /\ SameLinks(w, h, x) /\ w[x].isLeaf = h[x].isLeaf
      /\ w[l].keys = A /\ w[l].children = C /\ w[r].keys = B /\ w[r].children = D
      /\ w[p].keys = E /\ w[p].children = h[p].children
      /\ \A x \in DOMAIN h \ {l, r, p} : w[x] = h[x]
  BY <1>8 DEF Dealt
<1>. HIDE DEF w
<1>10. SplitBodies(g, w, l, m, l, r)
  <2>1. w[l].isLeaf = g[l].isLeaf /\ w[r].isLeaf = g[l].isLeaf /\ w[p].isLeaf = g[p].isLeaf
    BY <1>2, <1>3, <1>9 DEF leaf
  <2>2. w[l].keys = SubSeq(g[l].keys, 1, m) /\ w[r].keys = KeysAbove(g[l].keys, m, g[l].isLeaf)
    BY <1>2, <1>9 DEF KeysAbove
  <2>3. /\ w[l].children = SubSeq(g[l].children, 1, IF g[l].isLeaf THEN 0 ELSE m + 1)
        /\ w[r].children = SubSeq(g[l].children, (IF g[l].isLeaf THEN 0 ELSE m + 1) + 1, Len(g[l].children))
    BY <1>2, <1>9
  <2>4. w[p].keys = InsertAt(g[p].keys, at, g[l].keys[m + 1])
    <3>. HIDE DEF e
    <3>1. InsertAt(RemoveAt(h[p].keys, at), at, e) = [h[p].keys EXCEPT ![at] = e]
      BY <1>4, <1>6, RemovedAndInserted
    <3>2. g[l].keys[m + 1] = e
      BY <1>2 DEF e
    <3>. QED
      BY <1>2, <1>9, <3>1, <3>2
  <2>5. w[p].children = InsertAt(g[p].children, at + 1, r)
    <3>1. InsertAt(RemoveAt(h[p].children, at + 1), at + 1, h[p].children[at + 1]) = h[p].children
      BY <1>4, RemovedAndBack
    <3>. QED
      BY <1>2, <1>3, <1>9, <3>1
  <2>6. \A x \in DOMAIN g \ {l, p} : SameBody(w, g, x)
    BY <1>2, <1>9 DEF SameBody
  <2>. QED
    BY <1>2, <2>1, <2>2, <2>3, <2>4, <2>5, <2>6 DEF SplitBodies
<1>11. DOMAIN w = DOMAIN g \cup {r} /\ r \notin DOMAIN g
  BY <1>2, <1>3, <1>9, ZenonT(60)
<1>12. KidsApart(g, w, l, l, r, r)
  BY <1>1, <1>2, <1>3, <1>9, <1>10, <1>11, KidsAreApart
<1>13. /\ Different(C) /\ Different(D)
       /\ ToSet(C) \subseteq ToSet(g[l].children) /\ ToSet(D) \subseteq ToSet(g[l].children)
       /\ ToSet(C) \cap ToSet(D) = {}
       /\ ToSet(g[l].children) \cap ToSet(h[p].children) = {}
       /\ ToSet(g[l].children) \cup ToSet(h[p].children) \subseteq DOMAIN w \ {RootPtr}
       /\ ToSet(h[p].children) = ToSet(g[p].children) \cup {r}
  BY <1>2, <1>9, <1>12 DEF KidsApart
<1>. HIDE DEF A, B, C, D, E, e, cut
<1>14. /\ SameHeap(f1, w) /\ Placed(f1, l)
       /\ \A x \in DOMAIN w : x \notin ToSet(C) => SamePlace(f1, w, x)
  BY <1>3, <1>9, <1>13, ConsolidatePlaces
<1>15. \A x \in DOMAIN w : SameLinks(f1, w, x)
  BY <1>3, <1>9, ConsolidateLinks
<1>. HIDE DEF f1
<1>16. /\ Heap(f1) /\ DOMAIN f1 = DOMAIN h
       /\ f1[l].children = C /\ f1[r].children = D /\ f1[p].children = h[p].children
  BY <1>3, <1>9, <1>14 DEF SameHeap, SameBody
<1>17. Placed(f1, p)
  <2>1. Placed(h, p)
    BY <1>1, <1>3 DEF IsTree
  <2>2. \A x \in ToSet(h[p].children) : x \in DOMAIN h /\ x \notin ToSet(C) /\ SamePlace(w, h, x) /\ SamePlace(f1, w, x)
    BY <1>3, <1>9, <1>13, <1>14
  <2>3. \A x \in ToSet(h[p].children) : SamePlace(f1, h, x)
    BY <2>2 DEF SamePlace
  <2>4. \A i \in 1 .. NumChild(h, p) : h[p].children[i] \in ToSet(h[p].children)
    BY <1>4, SetOf DEF NumChild
  <2>. QED
    BY <1>16, <2>1, <2>3, <2>4 DEF Placed, SamePlace, NumChild
<1>18. /\ SameHeap(f, f1) /\ Placed(f, r)
       /\ \A x \in DOMAIN f1 : x \notin ToSet(D) => SamePlace(f, f1, x)
  BY <1>3, <1>7, <1>9, <1>13, <1>16, ConsolidatePlaces
<1>19. \A x \in DOMAIN f1 : SameLinks(f, f1, x)
  BY <1>3, <1>7, <1>16, ConsolidateLinks
<1>20. Placed(f, l) /\ Placed(f, p)
  <2>1. ToSet(C) \subseteq DOMAIN f1 /\ ToSet(h[p].children) \subseteq DOMAIN f1
    BY <1>3, <1>9, <1>13, <1>16
  <2>2. /\ \A x \in ToSet(C) : SamePlace(f, f1, x)
        /\ \A x \in ToSet(h[p].children) : SamePlace(f, f1, x)
    BY <1>13, <1>18, <2>1
  <2>. QED
    BY <1>3, <1>14, <1>16, <1>17, <1>18, <2>1, <2>2, StillPlaced
<1>21. SameHeap(f, w)
  BY <1>14, <1>18, SameHeapAgain
<1>22. SplitBodies(g, f, l, m, l, r)
  BY <1>2, <1>3, <1>9, <1>10, <1>11, <1>21, SplitStill
<1>23. Heap(f) /\ DOMAIN f = DOMAIN h
  BY <1>9, <1>21 DEF SameHeap
<1>24. ASSUME NEW x \in DOMAIN g, x \notin ToSet(g[l].children) \cup ToSet(g[p].children)
       PROVE  SamePlace(f, g, x)
  <2>1. x \in DOMAIN h /\ x # r /\ x \notin ToSet(C) /\ x \notin ToSet(D) /\ x \notin ToSet(h[p].children)
    BY <1>2, <1>13, <1>24
  <2>2. ToSet(g[l].children) = ToSet(h[l].children) \cup ToSet(h[r].children)
    BY DEF Dealing, Merging, MergeFacts
  <2>3. SamePlace(g, h, x)
    BY <1>2, <1>24, <2>1, <2>2
  <2>4. SamePlace(w, h, x) /\ SamePlace(f1, w, x) /\ SamePlace(f, f1, x)
    BY <1>9, <1>14, <1>16, <1>18, <2>1
  <2>. QED
    BY <2>3, <2>4 DEF SamePlace
<1>25. \A x \in DOMAIN h : SameLinks(f, h, x)
  BY <1>9, <1>15, <1>16, <1>19 DEF SameLinks
<1>26. f[RootPtr].parent = h[RootPtr].parent
  <2>1. RootPtr \in DOMAIN h /\ RootPtr \notin ToSet(C) /\ RootPtr \notin ToSet(D)
    BY <1>3, <1>13 DEF Heap
  <2>2. SamePlace(w, h, RootPtr) /\ SamePlace(f1, w, RootPtr) /\ SamePlace(f, f1, RootPtr)
    BY <1>9, <1>14, <1>16, <1>18, <2>1
  <2>. QED
    BY <2>2 DEF SamePlace
<1>27. IsSplit(g, f, l, m, l, r, r)
  BY <1>2, <1>11, <1>18, <1>20, <1>22, <1>23, <1>9, <1>24 DEF IsSplit
<1>28. f[p].children = h[p].children /\ NumKeys(f, p) = NumKeys(h, p)
  <2>1. f[p].children = w[p].children /\ f[p].keys = w[p].keys
    BY <1>3, <1>9, <1>21 DEF SameHeap, SameBody
  <2>2. Len(E) = Len(h[p].keys)
    BY <1>4 DEF E
  <2>. QED
    BY <1>9, <2>1, <2>2 DEF NumKeys
<1>. QED
  BY <1>23, <1>25, <1>26, <1>27, <1>28
DealRange(range, g, l, r, m) == SplitRange(g, MergeRange(range, g, l, r, l), l, m, l, r, r)
DealHeight(g, height, l, r) == SplitHeight(g, MergeHeight(g, height), l, r)

(* Both halves of a split have keys to take.                               *)
LEMMA SplitKeepsRoomy ==
    ASSUME NEW h, NEW range, NEW height, IsTree(h, range, height), Roomy(h, range),
           NEW c \in DOMAIN h \ {RootPtr}, NEW m \in 1 .. NumKeys(h, c) - 1,
           NEW g, NEW lo, NEW hi, NEW new, IsSplit(h, g, c, m, lo, hi, new),
           NEW R, R = SplitRange(h, range, c, m, lo, hi, new)
    PROVE  Roomy(g, R)
<1>. DEFINE sep == Separator(h, c, m)
            H == SplitHeight(h, height, c, new)
<1>1. /\ R[lo] = {k \in range[c] : k < sep} /\ R[hi] = {k \in range[c] : k >= sep}
      /\ \A x \in DOMAIN h \ {c} : R[x] = range[x]
  BY SplitRanges
<1>2. /\ DOMAIN g = DOMAIN h \cup {new} /\ {lo, hi} = {c, new}
      /\ m \in Nat /\ m >= 1 /\ m + 1 \in 1 .. NumKeys(h, c)
      /\ sep \in Nat /\ sep \in range[c] /\ sep = h[c].keys[m + 1]
  <2>1. SplitFact(h, range, height, c, m, g, lo, hi, new)
    BY SplitFacts
  <2>. QED
    BY <2>1 DEF SplitFact
<1>3. /\ NumKeys(h, c) \in Nat
      /\ \A i \in 1 .. NumKeys(h, c) : h[c].keys[i] \in Nat /\ h[c].keys[i] \in range[c]
      /\ \A i, j \in 1 .. NumKeys(h, c) : i < j => h[c].keys[i] < h[c].keys[j]
  BY KeysOf
<1>. HIDE DEF sep
<1>4. 1 \in 1 .. NumKeys(h, c) /\ 1 < m + 1
  BY <1>2, <1>3
<1>5. h[c].keys[1] \in range[c] /\ h[c].keys[1] < sep
  BY <1>2, <1>3, <1>4
<1>6. R[lo] # {}
  BY <1>1, <1>5
<1>7. R[hi] # {}
  BY <1>1, <1>2
<1>8. \A x \in DOMAIN g : x = lo \/ x = hi \/ x \in DOMAIN h \ {c}
  BY <1>2
<1>. QED
  BY <1>1, <1>6, <1>7, <1>8 DEF Roomy

(* so it leaves a tree with the same keys, in which all have their height; *)
LEMMA DealKeepsTree ==
    ASSUME NEW h, NEW range, NEW height, NEW g, NEW f, NEW l, NEW r, NEW m, NEW p, NEW at,
           Dealing(h, range, height, g, f, l, r, m, p, at),
           NEW R, R = DealRange(range, g, l, r, m), NEW H, H = DealHeight(g, height, l, r)
    PROVE  /\ IsTree(f, R, H) /\ Roomy(f, R)
           /\ \A x \in DOMAIN h : H[x] = height[x]
           /\ \A K : HoldsKeys(h, range, K) => HoldsKeys(f, R, K)
<1>. DEFINE S == MergeRange(range, g, l, r, l)
            I == MergeHeight(g, height)
<1>1. /\ Merging(h, range, height, g, l, r, l, r, p, at)
      /\ SiblingFacts(h, range, height, l, r, p, at)
      /\ m \in 1 .. NumKeys(g, l) - 1 /\ DOMAIN g = DOMAIN h \ {r}
  BY DEF Dealing, Merging, MergeFacts
<1>2. IsTree(g, S, I)
  BY <1>1, MergeKeepsTree
<1>3. Roomy(g, S) /\ \A x \in DOMAIN g : I[x] = height[x]
  BY <1>1, MergeRanges
<1>4. IsSplit(g, f, l, m, l, r, r) /\ DOMAIN f = DOMAIN h
  BY DealIs
<1>5. l \in DOMAIN g \ {RootPtr} /\ g[l].parent = p
  <2>1. AllIn(h, g, l, r, p, at)
    BY AllInOne
  <2>. QED
    BY <2>1 DEF AllIn
<1>6. p # RootPtr /\ l # r /\ height[r] = height[l] /\ r \in DOMAIN h /\ l \in DOMAIN h
  BY <1>1 DEF SiblingFacts
<1>7. R = SplitRange(g, S, l, m, l, r, r) /\ H = SplitHeight(g, I, l, r)
  BY DEF DealRange, DealHeight
<1>. HIDE DEF S, I
<1>8. IsTree(f, R, H)
  <2>1. IsTree(f, SplitRange(g, S, l, m, l, r, r), SplitHeight(g, I, l, r))
    BY <1>1, <1>2, <1>4, <1>5, <1>6, SplitKeepsTree
  <2>. QED
    BY <1>7, <2>1
<1>9. Roomy(f, R)
  BY <1>1, <1>2, <1>3, <1>4, <1>5, <1>7, SplitKeepsRoomy
<1>10. ASSUME NEW x \in DOMAIN h PROVE H[x] = height[x]
  <2>1. x \in DOMAIN g \cup {r}
    BY <1>1
  <2>2. H[x] = IF x = r THEN I[l] ELSE I[x]
    BY <1>7, <2>1 DEF SplitHeight
  <2>. QED
    BY <1>1, <1>3, <1>5, <1>6, <2>2
<1>11. ASSUME NEW K, HoldsKeys(h, range, K) PROVE HoldsKeys(f, R, K)
  <2>1. HoldsKeys(g, S, K)
    BY <1>1, <1>11, MergeHolds DEF S
  <2>2. HoldsKeys(f, SplitRange(g, S, l, m, l, r, r), K)
    BY <1>1, <1>2, <1>4, <1>5, <2>1, SplitHolds
  <2>. QED
    BY <1>7, <2>2
<1>. QED
  BY <1>8, <1>9, <1>10, <1>11

(* and the levels are linked as before.                                    *)
LEMMA DealKeepsWoven ==
    ASSUME NEW h, NEW range, NEW height, NEW g, NEW f, NEW l, NEW r, NEW m, NEW p, NEW at,
           Dealing(h, range, height, g, f, l, r, m, p, at), Woven(h, height), Tied(h),
           NEW H, H = DealHeight(g, height, l, r)
    PROVE  Woven(f, H) /\ Tied(f)
<1>. DEFINE S == MergeRange(range, g, l, r, l)
            I == MergeHeight(g, height)
<1>1. /\ Merging(h, range, height, g, l, r, l, r, p, at)
      /\ IsTree(h, range, height) /\ Siblings(h, l, r)
      /\ SiblingFacts(h, range, height, l, r, p, at)
      /\ m \in 1 .. NumKeys(g, l) - 1 /\ DOMAIN g = DOMAIN h \ {r}
      /\ Unlinked(h, g, l, r, l)
  BY DEF Dealing, Merging, MergeFacts
<1>2. IsTree(g, S, I)
  BY <1>1, MergeKeepsTree
<1>3. Woven(g, I)
  BY <1>1, MergeKeepsWoven DEF Closing
<1>4. /\ IsSplit(g, f, l, m, l, r, r) /\ DOMAIN f = DOMAIN h
      /\ \A x \in DOMAIN h : f[x].next = h[x].next /\ f[x].prev = h[x].prev
      /\ f[RootPtr].parent = h[RootPtr].parent
  BY DealIs DEF SameLinks
<1>5. l \in DOMAIN g \ {RootPtr}
  <2>1. AllIn(h, g, l, r, p, at)
    BY AllInOne
  <2>. QED
    BY <2>1 DEF AllIn
<1>6. l # r /\ r \in DOMAIN h /\ l \in DOMAIN h
  BY <1>1 DEF SiblingFacts
<1>7. h[l].next = r /\ h[r].prev = l /\ h[r].next \notin {l, r}
  BY <1>1, NeighboursLinked
<1>8. \A x \in DOMAIN h : h[x].next # Null => h[x].next \in DOMAIN h /\ h[h[x].next].prev = x
  BY DEF Woven, NextFits
<1>9. \A x \in DOMAIN g : g[x].next = IF x = l THEN h[r].next ELSE h[x].next
  BY <1>1 DEF Unlinked
<1>. HIDE DEF S, I
<1>10. Spliced(g, f, l, l, r)
  <2>1. f[l].next = r /\ f[r].prev = l /\ f[r].next = g[l].next
    BY <1>4, <1>5, <1>6, <1>7, <1>9
  <2>2. g[l].next # Null => f[g[l].next].prev = r
    BY <1>4, <1>5, <1>6, <1>8, <1>9
  <2>3. ASSUME NEW x \in DOMAIN g \ {l}
        PROVE  /\ f[x].next = IF g[x].next = l THEN l ELSE g[x].next
               /\ g[x].next = l => f[l].prev = x
               /\ g[x].next \notin {Null, l} => f[g[x].next].prev = x
    <3>1. x \in DOMAIN h /\ g[x].next = h[x].next
      BY <1>1, <1>9
    <3>2. f[x].next = h[x].next
      BY <1>4, <3>1
    <3>3. h[x].next # Null => f[h[x].next].prev = x
      BY <1>4, <1>8, <3>1
    <3>4. l # Null
      BY <1>1 DEF SiblingFacts, Null
    <3>. QED
      BY <3>1, <3>2, <3>3, <3>4
  <2>. QED
    BY <2>1, <2>2, <2>3 DEF Spliced
<1>11. Splicing(g, S, I, l, m, f, l, r, r)
  BY <1>1, <1>2, <1>3, <1>4, <1>5, <1>10 DEF Splicing
<1>12. H = SplitHeight(g, I, l, r)
  BY DEF DealHeight, I
<1>13. Woven(f, H)
  BY <1>11, <1>12, SplitKeepsWoven
<1>14. Tied(f)
  <2>1. RootPtr \in DOMAIN h
    BY <1>1 DEF SiblingFacts, Heap
  <2>. QED
    BY <1>4, <2>1 DEF Tied
<1>. QED
  BY <1>13, <1>14
-----------------------------------------------------------------------------
(* All that holds between two moves                                        *)

(* A tree with the keys K, whose levels are linked and in which every node *)
(* has keys to take.                                                       *)
Intact(h, range, height, K) ==
    /\ IsTree(h, range, height) /\ HoldsKeys(h, range, K)
    /\ Woven(h, height) /\ Tied(h) /\ Roomy(h, range)

(* From h to g, the nodes from height d on are still there.                *)
Kept(h, height, g, H, d) ==
    \A x \in DOMAIN h : height[x] >= d => x \in DOMAIN g /\ H[x] = height[x]

(* A split leaves the nodes tied.                                          *)
LEMMA SplitKeepsTied ==
    ASSUME NEW h, NEW range, NEW height, IsTree(h, range, height),
           Woven(h, height), Tied(h),
           NEW c \in DOMAIN h \ {RootPtr}, NEW m \in 1 .. NumKeys(h, c) - 1,
           NEW toLeft \in BOOLEAN, h[c].parent # RootPtr,
           NEW g, g = SplitAt(h, c, m, toLeft)
    PROVE  Tied(g)
<1>. DEFINE new == Allocate(h)
            lo == IF toLeft THEN new ELSE c
            hi == IF toLeft THEN c ELSE new
<1>1. Heap(h) /\ RootPtr \in DOMAIN h /\ new \in Nat /\ new \notin DOMAIN h
  BY AllocateIsNew DEF IsTree, Heap
<1>2. IsSplit(h, g, c, m, lo, hi, new)
  BY SplitIs
<1>. HIDE DEF new, lo, hi
<1>3. DOMAIN g = DOMAIN h \cup {new}
  BY <1>2 DEF IsSplit
<1>4. g[RootPtr].parent = Null
  <2>1. RootPtr \notin ToSet(h[c].children) \cup ToSet(h[h[c].parent].children)
    <3>1. h[c].parent \in DOMAIN h
      BY ParentOf
    <3>. QED
      BY <3>1, OneParent
  <2>2. SamePlace(g, h, RootPtr)
    BY <1>1, <1>2, <2>1 DEF IsSplit
  <2>. QED
    BY <2>2 DEF Tied, SamePlace
<1>5. /\ \A x \in DOMAIN h : h[x].prev # Null => h[x].prev \in DOMAIN h /\ h[h[x].prev].next = x
      /\ \A x \in DOMAIN h : h[x].next # Null => h[x].next \in DOMAIN h /\ h[h[x].next].prev = x
  BY DEF Tied, Woven, NextFits
<1>6. IF toLeft THEN LinkedLeft(h, g, c, new) ELSE LinkedRight(h, g, c, new)
  <2>1. (IF toLeft THEN h[c].prev ELSE h[c].next) \in DOMAIN h \cup {Null}
    BY <1>5
  <2>. QED
    BY <2>1, SplitLinks DEF new
<1>7. ASSUME NEW x \in DOMAIN g, g[x].prev # Null
      PROVE  g[x].prev \in DOMAIN g /\ g[g[x].prev].next = x
  <2>1. CASE toLeft
    <3>1. LinkedLeft(h, g, c, new)
      BY <1>6, <2>1
    <3>2. CASE x = new
      BY <1>3, <1>5, <1>7, <3>1, <3>2 DEF LinkedLeft
    <3>3. CASE x = c
      BY <1>3, <3>1, <3>3 DEF LinkedLeft
    <3>4. CASE x \notin {new, c}
      <4>1. x \in DOMAIN h /\ g[x].prev = h[x].prev
        BY <1>3, <3>1, <3>4 DEF LinkedLeft
      <4>2. h[x].prev \in DOMAIN h /\ h[h[x].prev].next = x
        BY <1>5, <1>7, <4>1
      <4>3. h[x].prev # h[c].prev
        BY <1>5, <1>7, <3>4, <4>1, <4>2
      <4>. QED
        BY <1>3, <3>1, <4>1, <4>2, <4>3 DEF LinkedLeft
    <3>. QED
      BY <3>2, <3>3, <3>4
  <2>2. CASE ~toLeft
    <3>1. LinkedRight(h, g, c, new)
      BY <1>6, <2>2
    <3>2. CASE x = new
      BY <1>3, <3>1, <3>2 DEF LinkedRight
    <3>3. CASE x \in DOMAIN h /\ x = h[c].next
      BY <1>3, <3>1, <3>3 DEF LinkedRight
    <3>4. CASE x \in DOMAIN h /\ x # h[c].next
      <4>1. g[x].prev = h[x].prev
        BY <3>1, <3>4 DEF LinkedRight
      <4>2. h[x].prev \in DOMAIN h /\ h[h[x].prev].next = x
        BY <1>5, <1>7, <3>4, <4>1
      <4>3. h[x].prev # c
        BY <3>4, <4>2
      <4>. QED
        BY <1>3, <3>1, <4>1, <4>2, <4>3 DEF LinkedRight
    <3>. QED
      BY <1>3, <3>2, <3>3, <3>4
  <2>. QED
    BY <2>1, <2>2
<1>. QED
  BY <1>4, <1>7 DEF Tied

(* From h to g, a new child of p has come to c.                            *)
ChildSplit(h, g, p, c, toLeft) ==
    /\ p \in DOMAIN g /\ c \in DOMAIN g \ {RootPtr} /\ g[c].parent = p
    /\ NumChild(g, p) = NumChild(h, p) + 1
    /\ g[c].childIndex = IF toLeft THEN h[c].childIndex + 1 ELSE h[c].childIndex

(* A split keeps it all.                                                   *)
THEOREM SplitIntact ==
    ASSUME NEW h, NEW range, NEW height, NEW K, Intact(h, range, height, K),
           NEW c \in DOMAIN h \ {RootPtr}, NEW p, p = h[c].parent, p # RootPtr,
           NEW m \in 1 .. NumKeys(h, c) - 1,
           NEW toLeft \in BOOLEAN, toLeft => h[c].childIndex > 0,
           NEW g, g = SplitAt(h, c, m, toLeft)
    PROVE  /\ \E R, H : Intact(g, R, H, K) /\ Kept(h, height, g, H, 0)
           /\ ChildSplit(h, g, p, c, toLeft)
<1>. DEFINE new == Allocate(h)
            lo == IF toLeft THEN new ELSE c
            hi == IF toLeft THEN c ELSE new
            R == SplitRange(h, range, c, m, lo, hi, new)
            H == SplitHeight(h, height, c, new)
<1>1. /\ IsTree(h, range, height) /\ HoldsKeys(h, range, K) /\ Woven(h, height) /\ Tied(h)
      /\ Roomy(h, range)
  BY DEF Intact
<1>2. IsSplit(h, g, c, m, lo, hi, new)
  BY <1>1, SplitIs
<1>3. Spliced(h, g, c, lo, hi)
  BY <1>1, SplitSplices
<1>4. Tied(g)
  BY <1>1, SplitKeepsTied
<1>. HIDE DEF new, lo, hi
<1>5. IsTree(g, R, H)
  BY <1>1, <1>2, SplitKeepsTree
<1>6. HoldsKeys(g, R, K)
  BY <1>1, <1>2, SplitHolds
<1>7. Roomy(g, R)
  BY <1>1, <1>2, SplitKeepsRoomy
<1>8. Woven(g, H)
  BY <1>1, <1>2, <1>3, SplitKeepsWoven DEF Splicing
<1>9. DOMAIN g = DOMAIN h \cup {new} /\ new \notin DOMAIN h
  BY <1>2 DEF IsSplit
<1>10. Kept(h, height, g, H, 0)
  BY <1>9 DEF Kept, SplitHeight
<1>11. ChildSplit(h, g, p, c, toLeft)
  <2>. DEFINE at == h[c].childIndex + 1
  <2>1. SplitFact(h, range, height, c, m, g, lo, hi, new)
    BY <1>1, <1>2, SplitFacts
  <2>2. /\ NumChild(g, p) = NumKeys(h, p) + 2 /\ NumChild(h, p) = NumKeys(h, p) + 1
        /\ at \in Nat /\ at \in 1 .. NumKeys(h, p) + 1 /\ p \in DOMAIN h /\ p \in DOMAIN g
        /\ \A j \in 1 .. NumKeys(h, p) + 2 : /\ j = at => g[p].children[j] = lo
                                             /\ j = at + 1 => g[p].children[j] = hi
    BY <2>1 DEF SplitFact, UpParts
  <2>3. NumKeys(h, p) \in Nat /\ h[c].childIndex \in Nat \cup {-1}
    BY <1>1, <2>2, NodeType DEF IsTree
  <2>4. Placed(g, p)
    BY <1>2 DEF IsSplit
  <2>. HIDE DEF at
  <2>5. at \in 1 .. NumChild(g, p) /\ at + 1 \in 1 .. NumChild(g, p)
    BY <2>2, <2>3
  <2>6. /\ g[lo].parent = p /\ g[lo].childIndex = at - 1
        /\ g[hi].parent = p /\ g[hi].childIndex = (at + 1) - 1
    <3>1. g[p].children[at] = lo /\ g[p].children[at + 1] = hi
      BY <2>2, <2>3
    <3>. QED
      BY <2>4, <2>5, <3>1 DEF Placed
  <2>7. g[c].parent = p /\ g[c].childIndex = IF toLeft THEN h[c].childIndex + 1 ELSE h[c].childIndex
    <3>1. (toLeft => hi = c) /\ (~toLeft => lo = c)
      BY DEF lo, hi
    <3>2. (at + 1) - 1 = at /\ at = h[c].childIndex + 1 /\ at - 1 = h[c].childIndex
      BY <2>2, <2>3 DEF at
    <3>. QED
      BY <2>6, <3>1, <3>2
  <2>8. NumChild(g, p) = NumChild(h, p) + 1
    BY <2>2, <2>3
  <2>. QED
    BY <1>9, <2>2, <2>7, <2>8 DEF ChildSplit
<1>. QED
  BY <1>4, <1>5, <1>6, <1>7, <1>8, <1>10, <1>11 DEF Intact
(* So does a new root, and the old one is no longer the root.              *)
LEMMA NewRootIntact ==
    ASSUME NEW h, NEW range, NEW height, NEW K, Intact(h, range, height, K),
           NEW c \in DOMAIN h \ {RootPtr}, h[c].parent = RootPtr,
           NEW g, g = NewRoot(h, c)
    PROVE  /\ \E R, H : Intact(g, R, H, K)
           /\ c \in DOMAIN g \ {RootPtr} /\ g[c].parent \in DOMAIN g \ {RootPtr}
<1>. DEFINE new == Allocate(h)
            R == NewRootRange(h, range, new)
            H == NewRootHeight(h, height, c, new)
<1>1. /\ IsTree(h, range, height) /\ HoldsKeys(h, range, K) /\ Woven(h, height) /\ Tied(h)
      /\ Roomy(h, range) /\ Heap(h)
  BY DEF Intact, IsTree
<1>2. ~h[RootPtr].isLeaf /\ ToSet(h[RootPtr].children) = {c}
  BY <1>1, RootOf
<1>3. IsTree(g, R, H)
  BY <1>1, NewRootKeepsTree
<1>4. HoldsKeys(g, R, K)
  BY <1>1, NewRootHolds
<1>5. Woven(g, H)
  BY <1>1, NewRootKeepsWoven
<1>6. GrownAbove(h, range, height, g, R, H, c, new)
  BY <1>1, NewRootTouches
<1>7. /\ g[new].next = Null /\ g[new].prev = Null
      /\ \A x \in DOMAIN h : g[x].next = h[x].next /\ g[x].prev = h[x].prev
  BY <1>1, <1>2, NewRootLinks DEF SameLinks
<1>8. DOMAIN g = DOMAIN h \cup {new} /\ \A x \in DOMAIN h \ {c} : SamePlace(g, h, x)
  BY <1>1, <1>2, NewRootIs DEF IsTopped
<1>9. new \notin DOMAIN h /\ new # RootPtr /\ g[c].parent = new
  BY <1>1, <1>6, AllocateIsNew DEF GrownAbove
<1>. HIDE DEF new
<1>10. Tied(g)
  BY <1>1, <1>7, <1>8, <1>9 DEF Tied, SamePlace, Heap
<1>11. Roomy(g, R)
  BY <1>1, <1>8 DEF Roomy, NewRootRange
<1>. QED
  BY <1>3, <1>4, <1>5, <1>8, <1>9, <1>10, <1>11 DEF Intact

(* The only leaf, which takes all keys.                                    *)
OnlyLeaf(g, range, n) ==
    /\ DOMAIN g = {RootPtr, n} /\ n # RootPtr /\ g[n].isLeaf /\ g[n].keys = <<>>
    /\ range[n] = Nat /\ g[n].parent = RootPtr

(* and the first leaf of the empty tree, which takes all keys.             *)
LEMMA FirstLeafIntact ==
    ASSUME NEW h, NEW range, NEW height, NEW K, Intact(h, range, height, K), h[RootPtr].isLeaf,
           NEW g, g = FirstLeaf(h), NEW n, n = g[RootPtr].children[1]
    PROVE  \E R, H : Intact(g, R, H, K) /\ OnlyLeaf(g, R, n)
<1>. DEFINE new == Allocate(h)
            R == [x \in {RootPtr, new} |-> Nat]
            H == [x \in {RootPtr, new} |-> IF x = new THEN 0 ELSE 1]
<1>1. /\ IsTree(h, range, height) /\ HoldsKeys(h, range, K) /\ Woven(h, height) /\ Tied(h)
      /\ Roomy(h, range) /\ Heap(h)
  BY DEF Intact, IsTree
<1>2. DOMAIN h = {RootPtr}
  BY <1>1, EmptyIs
<1>3. StartedTree(h, range, height, g, R, H, new, K)
  BY <1>1, FirstLeafKeepsTree
<1>4. n = new /\ new # RootPtr /\ g[n].isLeaf /\ g[n].keys = <<>> /\ R[n] = Nat
  BY <1>3 DEF StartedTree
<1>5. Woven(g, H)
  BY <1>1, FirstLeafWoven
<1>6. DOMAIN g = {RootPtr, new} /\ Placed(g, RootPtr) /\ g[RootPtr].children = <<new>>
  BY <1>1, <1>2, FirstLeafIs DEF IsTopped
<1>7. g[new].next = Null /\ g[new].prev = Null /\ SameLinks(g, h, RootPtr)
  BY <1>1, <1>2, FirstLeafLinks
<1>8. new \in Nat
  BY <1>1, AllocateIsNew
<1>. HIDE DEF new
<1>9. Tied(g)
  <2>1. h[RootPtr].prev = Null
    BY <1>1, <1>2 DEF Tied, Woven, Null, RootPtr
  <2>2. g[RootPtr].prev = Null
    BY <1>7, <2>1 DEF SameLinks
  <2>3. g[RootPtr].parent = Null
    <3>1. SamePlace(g, h, RootPtr)
      <4>. DEFINE w == [Put(h, new, NewNode(TRUE)) EXCEPT ![RootPtr].children = <<new>>,
                                                          ![RootPtr].isLeaf = FALSE]
      <4>1. g = Consolidate(w, RootPtr)
        BY DEF FirstLeaf, new
      <4>2. NewNode(TRUE) \in Node /\ NewNode(TRUE).keys = <<>>
        BY NewNodeType DEF NewNode
      <4>3. new \notin DOMAIN h
        BY <1>2, <1>4
      <4>4. TopWritten(w, h, new, NewNode(TRUE))
        BY DEF TopWritten
      <4>. HIDE DEF w
      <4>5. /\ IsTopped(h, w, new, NewNode(TRUE).isLeaf, NewNode(TRUE).children)
            /\ SamePlace(w, h, RootPtr)
        BY <1>1, <1>2, <1>8, <4>2, <4>3, <4>4, ToppedByWriting
      <4>6. /\ Heap(w) /\ RootPtr \in DOMAIN w /\ new \in DOMAIN w
            /\ w[RootPtr].children = <<new>>
        BY <1>2, <4>5 DEF IsTopped
      <4>7. /\ RootPtr \notin ToSet(w[RootPtr].children) /\ Different(w[RootPtr].children)
            /\ ToSet(w[RootPtr].children) \subseteq DOMAIN w
        BY <1>4, <1>8, <4>6, OnlyOne
      <4>8. \A x \in DOMAIN w : x \notin ToSet(w[RootPtr].children) => SamePlace(g, w, x)
        BY <4>1, <4>6, <4>7, ConsolidatePlaces
      <4>. QED
        BY <4>5, <4>6, <4>7, <4>8 DEF SamePlace
    <3>. QED
      BY <1>1, <3>1 DEF Tied, SamePlace
  <2>. QED
    BY <1>6, <1>7, <2>2, <2>3 DEF Tied
<1>10. Roomy(g, R)
  BY <1>6 DEF Roomy
<1>11. g[n].parent = RootPtr
  BY <1>4, <1>6, <1>8, OnlyOne DEF Placed, NumChild
<1>12. IsTree(g, R, H) /\ HoldsKeys(g, R, K)
  BY <1>3 DEF StartedTree
<1>13. Intact(g, R, H, K)
  BY <1>5, <1>9, <1>10, <1>12 DEF Intact
<1>14. OnlyLeaf(g, R, n)
  BY <1>4, <1>6, <1>11 DEF OnlyLeaf
<1>. HIDE DEF R, H
<1>. QED
  BY <1>13, <1>14
(* Some keys have been rewritten, and no node but for its keys.            *)
KeysWritten(h, range, height, L, g) ==
    /\ Intact(g, range, height, L) /\ DOMAIN g = DOMAIN h
    /\ \A x \in DOMAIN h : g[x].parent = h[x].parent /\ g[x].isLeaf = h[x].isLeaf

(* So do other keys in a leaf, of those that are searched for in it;       *)
LEMMA KeysIntact ==
    ASSUME NEW h, NEW range, NEW height, NEW K, Intact(h, range, height, K), NEW L,
           NEW n \in DOMAIN h \ {RootPtr}, h[n].isLeaf, L \ range[n] = K \ range[n],
           NEW ks \in Seq(Nat), Ascending(ks), ToSet(ks) = range[n] \cap L,
           NEW g, g = SetKeys(h, n, ks)
    PROVE  KeysWritten(h, range, height, L, g)
<1>1. /\ IsTree(h, range, height) /\ HoldsKeys(h, range, K) /\ Woven(h, height) /\ Tied(h)
      /\ Roomy(h, range) /\ Heap(h)
  BY DEF Intact, IsTree
<1>2. LeafGrown(h, range, height, g, n, L)
  BY <1>1, LeafRewritten
<1>3. /\ IsTree(g, range, height) /\ HoldsKeys(g, range, L) /\ DOMAIN g = DOMAIN h
      /\ \A x \in DOMAIN h : g[x].parent = h[x].parent
  BY <1>2 DEF LeafGrown, SamePlace
<1>4. Woven(g, height)
  BY <1>1, KeysKeepWoven
<1>5. \A x \in DOMAIN h : g[x].isLeaf = h[x].isLeaf /\ SameLinks(g, h, x)
  <2>1. DOMAIN g = DOMAIN h /\ \A x \in DOMAIN h \ {n} : g[x] = h[x]
    BY <1>2 DEF LeafGrown
  <2>2. h \in [DOMAIN h -> Node] /\ g[n] = [h[n] EXCEPT !.keys = ks]
    BY <1>1 DEF SetKeys, Heap
  <2>3. g[n].isLeaf = h[n].isLeaf /\ SameLinks(g, h, n)
    BY <2>2 DEF Node, SameLinks
  <2>. QED
    BY <2>1, <2>3 DEF SameLinks
<1>6. Tied(g)
  BY <1>1, <1>3, <1>5, SMTT(30) DEF Tied, SameLinks, Heap
<1>7. Roomy(g, range)
  BY <1>1, <1>3 DEF Roomy
<1>. QED
  BY <1>3, <1>4, <1>5, <1>6, <1>7 DEF Intact, KeysWritten

(* a merge, after which p has one child less;                              *)
THEOREM MergeIntact ==
    ASSUME NEW h, NEW range, NEW height, NEW K, Intact(h, range, height, K),
           NEW l, NEW r, Siblings(h, l, r), NEW toRight \in BOOLEAN,
           NEW keep, keep = (IF toRight THEN r ELSE l),
           NEW gone, gone = (IF toRight THEN l ELSE r), NEW p, p = h[l].parent,
           NEW w, w = Consolidate(Merge(h, l, r, toRight), p), NEW g, g = Delete(w, {gone})
    PROVE  /\ \E R, H : Intact(g, R, H, K) /\ Kept(h, height, g, H, height[p])
           /\ p \in DOMAIN g /\ keep \in DOMAIN g \ {RootPtr} /\ g[keep].parent = p
           /\ NumChild(g, p) = NumChild(h, p) - 1
           /\ g[keep].childIndex = h[l].childIndex
           /\ w[keep].next = g[keep].next
           /\ toRight => w[l].next = r
<1>. DEFINE at == h[l].childIndex + 1
            R == MergeRange(range, g, l, r, keep)
            H == MergeHeight(g, height)
<1>1. /\ IsTree(h, range, height) /\ HoldsKeys(h, range, K) /\ Woven(h, height) /\ Tied(h)
      /\ Roomy(h, range)
  BY DEF Intact
<1>2. Merging(h, range, height, g, l, r, keep, gone, p, at) /\ Unlinked(h, g, l, r, keep)
  BY <1>1, MergeOfSiblings
<1>3. Closing(h, range, height, g, l, r, keep, gone, p, at)
  BY <1>1, <1>2 DEF Closing
<1>4. IsTree(g, R, H) /\ HoldsKeys(g, R, K) /\ Woven(g, H) /\ Tied(g) /\ Roomy(g, R)
  BY <1>1, <1>2, <1>3, MergeKeepsTree, MergeHolds, MergeKeepsWoven, MergeKeepsTied, MergeRanges
<1>5. /\ SiblingFacts(h, range, height, l, r, p, at) /\ AboveParts(h, g, keep, p, at)
      /\ DOMAIN g = DOMAIN h \ {gone} /\ IsMerged(h, g, l, r, keep, gone)
      /\ (keep = l /\ gone = r) \/ (keep = r /\ gone = l)
  BY <1>2 DEF Merging, MergeFacts
<1>. HIDE DEF at, R
<1>6. /\ l \in DOMAIN h \ {RootPtr} /\ r \in DOMAIN h \ {RootPtr} /\ p \in DOMAIN h /\ l # r
      /\ p \notin {l, r} /\ NumChild(h, p) = NumKeys(h, p) + 1
      /\ at \in Nat /\ at >= 1 /\ at <= NumKeys(h, p) /\ NumKeys(h, p) \in Nat
      /\ h[l].childIndex = at - 1
      /\ height[l] \in Nat /\ height[p] = height[l] + 1 /\ height[r] = height[l]
  BY <1>5 DEF SiblingFacts
<1>7. /\ p \in DOMAIN g /\ keep \in DOMAIN g \ {RootPtr}
      /\ NumChild(g, p) = NumChild(h, p) - 1
  <2>1. p \in DOMAIN g /\ keep \in DOMAIN g \ {RootPtr}
    BY <1>5, <1>6
  <2>2. NumChild(g, p) = NumKeys(h, p)
    BY <1>5, SMTT(30) DEF AboveParts
  <2>. QED
    BY <1>6, <2>1, <2>2
<1>8. g[keep].parent = p /\ g[keep].childIndex = at - 1
  <2>1. at \in 1 .. NumChild(g, p) /\ g[p].children[at] = keep
    <3>1. at \in 1 .. NumKeys(h, p)
      BY <1>6
    <3>. QED
      BY <1>5, <3>1 DEF AboveParts
  <2>2. Placed(g, p)
    BY <1>5 DEF IsMerged
  <2>. QED
    BY <2>1, <2>2, ZenonT(60) DEF Placed
<1>9. Kept(h, height, g, H, height[p])
  <2>1. ~(height[gone] >= height[p])
    BY <1>5, <1>6
  <2>2. \A x \in DOMAIN h : height[x] >= height[p] => x \in DOMAIN g
    BY <1>5, <2>1
  <2>. QED
    BY <2>2 DEF Kept, MergeHeight
<1>10. w[keep].next = g[keep].next
  BY <1>7 DEF Delete
<1>11. toRight => w[l].next = r
  <2>1. h[l].next = r /\ h[l].prev # l
    BY <1>1, NeighboursLinked
  <2>2. toRight /\ h[l].prev # l => w[l].next = h[l].next
    BY <1>1, MergeIs
  <2>. QED
    BY <2>1, <2>2
<1>. QED
  BY <1>4, <1>6, <1>7, <1>8, <1>9, <1>10, <1>11 DEF Intact

(* and a deal, after which p has the same children.                        *)
THEOREM DealIntact ==
    ASSUME NEW h, NEW range, NEW height, NEW K, Intact(h, range, height, K),
           NEW l, NEW r, Siblings(h, l, r), NEW p, p = h[l].parent,
           NEW m \in 1 .. Len(JoinedKeys(h, l, r)) - 1, NEW f, f = Deal(h, l, r, m)
    PROVE  /\ \E R, H : Intact(f, R, H, K) /\ Kept(h, height, f, H, 0)
           /\ DOMAIN f = DOMAIN h /\ f[p].children = h[p].children
           /\ NumKeys(f, p) = NumKeys(h, p)
           /\ \A x \in DOMAIN h : SameLinks(f, h, x)
<1>. DEFINE g == Delete(Consolidate(Merge(h, l, r, FALSE), p), {r})
            at == h[l].childIndex + 1
            R == DealRange(range, g, l, r, m)
            H == DealHeight(g, height, l, r)
<1>1. /\ IsTree(h, range, height) /\ HoldsKeys(h, range, K) /\ Woven(h, height) /\ Tied(h)
      /\ Roomy(h, range)
  BY DEF Intact
<1>2. Merging(h, range, height, g, l, r, l, r, p, at) /\ Unlinked(h, g, l, r, l)
  BY <1>1, MergeOfSiblings
<1>. HIDE DEF g, at
<1>3. NumKeys(g, l) = Len(JoinedKeys(h, l, r))
  BY <1>2 DEF Merging, IsMerged, MergedBodies, NumKeys
<1>4. Dealing(h, range, height, g, f, l, r, m, p, at)
  BY <1>2, <1>3 DEF Dealing
<1>5. /\ DOMAIN f = DOMAIN h /\ f[p].children = h[p].children
      /\ NumKeys(f, p) = NumKeys(h, p)
      /\ \A x \in DOMAIN h : SameLinks(f, h, x)
  BY <1>4, DealIs
<1>6. /\ IsTree(f, R, H) /\ Roomy(f, R) /\ \A x \in DOMAIN h : H[x] = height[x]
      /\ \A J : HoldsKeys(h, range, J) => HoldsKeys(f, R, J)
  BY <1>4, DealKeepsTree
<1>7. Woven(f, H) /\ Tied(f)
  BY <1>1, <1>4, DealKeepsWoven
<1>. HIDE DEF R, H
<1>8. Intact(f, R, H, K)
  BY <1>1, <1>6, <1>7 DEF Intact
<1>9. Kept(h, height, f, H, 0)
  BY <1>5, <1>6 DEF Kept
<1>. QED
  BY <1>5, <1>8, <1>9
=============================================================================
