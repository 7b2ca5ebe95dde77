--------------------------- MODULE NodeHeapProofs ---------------------------
(***************************************************************************)
(* The search by blocks returns what the scan of one key after the other   *)
(* returns, for every node, key and register width.  And an insert, with   *)
(* all the moves of NodeHeap by which the tree grows, leaves a tree of any *)
(* shape, size and order a tree, in which every key is where the search for*)
(* it leads and whose levels are linked; with what InOrder, FindLeaf, Below*)
(* and Heights make of such a tree.                                        *)
(***************************************************************************)
EXTENDS Mending, WellFoundedInduction, SequenceTheorems, FiniteSetTheorems, TLAPS
-----------------------------------------------------------------------------
(* The search in one node by blocks                                        *)

(* Every set of indices has a first one.                                   *)
LEMMA FirstExists ==
    ASSUME NEW S, S \subseteq Nat, S # {}
    PROVE  \E i \in S : IsFirst(S, i)
<1>. DEFINE Less == OpToRel(<, Nat)
<1>1. \A x, y \in S : <<y, x>> \in Less <=> y < x
  BY DEF OpToRel
<1>2. IsWellFoundedOn(Less, Nat)
  BY NatLessThanWellFounded, Zenon
<1>. HIDE DEF Less
<1>3. PICK x \in S : \A y \in S : ~ (<<y, x>> \in Less)
  BY <1>2, WFMin, Zenon
<1>4. \A y \in S : ~ (y < x)
  BY <1>1, <1>3, Zenon
<1>. QED
  BY <1>4 DEF IsFirst

(* A set of indices has one first one.                                     *)
LEMMA FirstIsUnique ==
    ASSUME NEW S, S \subseteq Nat, NEW i, IsFirst(S, i), NEW j, IsFirst(S, j)
    PROVE  i = j
  BY DEF IsFirst

(* What a scan looks for.                                                  *)
Hits(keys, from, k) ==
    {j \in from .. Len(keys) : j < Len(keys) => KeyAt(keys, j) > k}

(* A scan returns the first of what it looks for.                          *)
LEMMA ScanIsFirst ==
    ASSUME NEW keys \in Seq(Int), NEW k \in Int, NEW from \in 0 .. Len(keys)
    PROVE  /\ Scan(keys, from, k) \in 0 .. Len(keys)
           /\ IsFirst(Hits(keys, from, k), Scan(keys, from, k))
<1>. DEFINE S == Hits(keys, from, k)
<1>1. S \subseteq 0 .. Len(keys) /\ S \subseteq Nat /\ Len(keys) \in S
  BY DEF Hits
<1>2. PICK i \in S : IsFirst(S, i)
  <2>. HIDE DEF S
  <2>. QED
    BY <1>1, FirstExists
<1>3. \E j \in 0 .. Len(keys) : IsFirst(S, j)
  BY <1>1, <1>2
<1>. QED
  BY <1>3 DEF Scan, Hits

-----------------------------------------------------------------------------
(* Blocks                                                                  *)

(* Blocks follow one another.                                              *)
LEMMA BlocksInOrder ==
    ASSUME NEW a \in Nat, NEW b \in Nat, a <= b
    PROVE  a * SimdWidth \in Nat /\ b * SimdWidth \in Nat /\ a * SimdWidth <= b * SimdWidth
<1>1. (b - a) * SimdWidth \in Nat
  BY SimdWidthAssumption
<1>2. b * SimdWidth = a * SimdWidth + (b - a) * SimdWidth
  BY SimdWidthAssumption
<1>. QED
  BY <1>1, <1>2, SimdWidthAssumption

(* A block begins where the one before it ends.                            *)
LEMMA NextBlock ==
    ASSUME NEW a \in Nat
    PROVE  (a + 1) * SimdWidth = a * SimdWidth + SimdWidth /\ a * SimdWidth \in Nat
  BY SimdWidthAssumption

(* A block ends behind its number.                                         *)
LEMMA BlockEnds ==
    ASSUME NEW a \in Nat
    PROVE  (a + 1) * SimdWidth > a
<1>1. a * (SimdWidth - 1) \in Nat /\ a * SimdWidth = a * (SimdWidth - 1) + a
  BY SimdWidthAssumption
<1>. QED
  BY <1>1, NextBlock, SimdWidthAssumption

(* Every index is in a block.                                              *)
LEMMA BlockOf ==
    ASSUME NEW i \in Nat
    PROVE  \E b \in Nat : b * SimdWidth <= i /\ i < (b + 1) * SimdWidth
<1>. DEFINE S == {b \in Nat : i < (b + 1) * SimdWidth}
<1>1. i \in S
  BY BlockEnds
<1>2. PICK b \in S : IsFirst(S, b)
  <2>1. S \subseteq Nat /\ S # {}
    BY <1>1
  <2>. HIDE DEF S
  <2>. QED
    BY <2>1, FirstExists
<1>3. CASE b = 0
  BY <1>3, SimdWidthAssumption
<1>4. CASE b # 0
  <2>1. b - 1 \in Nat /\ b - 1 \notin S
    BY <1>2, <1>4 DEF IsFirst
  <2>2. b * SimdWidth <= i
    BY <2>1, NextBlock
  <2>. QED
    BY <2>2
<1>. QED
  BY <1>3, <1>4

(* The scan of the rest begins within the keys, and behind every block.    *)
LEMMA RestBegins ==
    ASSUME NEW keys \in Seq(Int)
    PROVE  /\ Rest(keys) \in 0 .. Len(keys)
           /\ Rest(keys) * SimdWidth \in 0 .. Len(keys)
           /\ \A b \in 0 .. Rest(keys) - 1 : b \in Blocks(keys)
<1>. DEFINE S == {b \in 0 .. Len(keys) : (b + 1) * SimdWidth >= Len(keys)}
<1>. DEFINE r == Rest(keys)
<1>1. S \subseteq 0 .. Len(keys) /\ S \subseteq Nat /\ Len(keys) \in S
  BY BlockEnds, SimdWidthAssumption
<1>2. \E b \in 0 .. Len(keys) : IsFirst(S, b)
  <2>. HIDE DEF S
  <2>. QED
    BY <1>1, FirstExists DEF IsFirst
<1>3. r \in 0 .. Len(keys) /\ IsFirst(S, r)
  BY <1>2 DEF Rest
<1>4. \A b \in 0 .. r - 1 : b \in Blocks(keys)
  <2>. TAKE b \in 0 .. r - 1
  <2>1. b \in 0 .. Len(keys) /\ b \notin S
    BY <1>3 DEF IsFirst
  <2>2. (b + 1) * SimdWidth \in Int
    BY SimdWidthAssumption
  <2>. QED
    BY <2>1, <2>2 DEF Blocks
<1>5. r * SimdWidth \in 0 .. Len(keys)
  <2>1. CASE r = 0
    BY <2>1, SimdWidthAssumption
  <2>2. CASE r # 0
    <3>1. r - 1 \in 0 .. r - 1
      BY <2>2, <1>3
    <3>2. r * SimdWidth < Len(keys)
      BY <3>1, <1>4, <1>3 DEF Blocks
    <3>. QED
      BY <3>2, <1>3, NextBlock
  <2>. QED
    BY <2>1, <2>2
<1>. QED
  BY <1>3, <1>4, <1>5
-----------------------------------------------------------------------------
(* Without a block that has a key above k the scan from the rest on finds  *)
(* what a scan of all keys finds.                                          *)
LEMMA NoBlockHit ==
    ASSUME NEW keys \in Seq(Int), NEW k \in Int,
           \A b \in Blocks(keys) : Mask(keys, b, k) = {}
    PROVE  Scan(keys, Rest(keys) * SimdWidth, k) = Scan(keys, 0, k)
<1>. DEFINE from == Rest(keys) * SimdWidth
<1>1. from \in 0 .. Len(keys)
  BY RestBegins
<1>2. \A j \in 0 .. from - 1 : j \notin Hits(keys, 0, k)
  <2>. SUFFICES ASSUME NEW j \in 0 .. from - 1 PROVE j < Len(keys) /\ ~(KeyAt(keys, j) > k)
    BY DEF Hits
  <2>1. PICK b \in Nat : b * SimdWidth <= j /\ j < (b + 1) * SimdWidth
    BY BlockOf
  <2>2. b < Rest(keys)
    <3>. SUFFICES ASSUME Rest(keys) <= b PROVE FALSE
      BY RestBegins
    <3>1. from <= b * SimdWidth /\ b * SimdWidth \in Nat
      BY RestBegins, BlocksInOrder
    <3>. QED
      BY <1>1, <2>1, <3>1
  <2>3. b \in Blocks(keys)
    BY <2>2, RestBegins
  <2>4. j \in b * SimdWidth .. (b + 1) * SimdWidth - 1
    BY <2>1, SimdWidthAssumption
  <2>. QED
    BY <1>1, <2>3, <2>4 DEF Mask
<1>3. Hits(keys, from, k) = Hits(keys, 0, k)
  BY <1>1, <1>2 DEF Hits
<1>4. IsFirst(Hits(keys, from, k), Scan(keys, from, k)) /\ IsFirst(Hits(keys, 0, k), Scan(keys, 0, k))
  <2>. HIDE DEF from
  <2>. QED
    BY <1>1, ScanIsFirst
<1>5. Hits(keys, 0, k) \subseteq Nat
  BY DEF Hits
<1>. QED
  BY <1>3, <1>4, <1>5, FirstIsUnique

(* The first key above k in the first block that has one is the first one  *)
(* of all.                                                                 *)
LEMMA FirstBlockHit ==
    ASSUME NEW keys \in Seq(Int), NEW k \in Int,
           NEW b \in Blocks(keys), \A a \in Blocks(keys) : a < b => Mask(keys, a, k) = {},
           NEW i \in Mask(keys, b, k), IsFirst(Mask(keys, b, k), i)
    PROVE  i = Scan(keys, 0, k)
<1>1. b \in Nat /\ (b + 1) * SimdWidth < Len(keys) /\ (b + 1) * SimdWidth \in Nat
      /\ b * SimdWidth \in Nat
  BY BlocksInOrder DEF Blocks
<1>2. i \in Nat /\ i < (b + 1) * SimdWidth /\ b * SimdWidth <= i /\ KeyAt(keys, i) > k
  BY <1>1 DEF Mask
<1>3. i \in Hits(keys, 0, k)
  BY <1>1, <1>2 DEF Hits
<1>4. \A j \in 0 .. i - 1 : j \notin Hits(keys, 0, k)
  <2>. SUFFICES ASSUME NEW j \in 0 .. i - 1 PROVE j < Len(keys) /\ ~(KeyAt(keys, j) > k)
    BY DEF Hits
  <2>1. PICK a \in Nat : a * SimdWidth <= j /\ j < (a + 1) * SimdWidth
    BY BlockOf
  <2>2. a * SimdWidth \in Nat /\ (a + 1) * SimdWidth \in Nat
    BY NextBlock, SimdWidthAssumption
  <2>3. a <= b
    <3>. SUFFICES ASSUME b + 1 <= a PROVE FALSE
      BY <1>1
    <3>1. (b + 1) * SimdWidth <= a * SimdWidth
      BY <1>1, BlocksInOrder
    <3>. QED
      BY <1>1, <1>2, <2>1, <2>2, <3>1
  <2>4. a \in Blocks(keys)
    <3>1. (a + 1) * SimdWidth <= (b + 1) * SimdWidth
      BY <1>1, <2>3, BlocksInOrder
    <3>. QED
      BY <1>1, <2>2, <2>3, <3>1 DEF Blocks
  <2>5. j \in a * SimdWidth .. (a + 1) * SimdWidth - 1
    BY <2>1, <2>2
  <2>6. j \notin Mask(keys, a, k)
    <3>1. CASE a < b
      BY <2>4, <3>1
    <3>2. CASE a = b
      BY <3>2, <1>2 DEF IsFirst
    <3>. QED
      BY <3>1, <3>2, <2>3, <1>1
  <2>. QED
    BY <1>1, <1>2, <2>5, <2>6 DEF Mask
<1>5. IsFirst(Hits(keys, 0, k), i)
  BY <1>2, <1>3, <1>4 DEF IsFirst, Hits
<1>6. IsFirst(Hits(keys, 0, k), Scan(keys, 0, k)) /\ Hits(keys, 0, k) \subseteq Nat
  BY ScanIsFirst DEF Hits
<1>. QED
  BY <1>5, <1>6, FirstIsUnique

(* The search for int keys, block by block, and the generic one, key by    *)
(* key, give the same index: getGtKeyIdxSpecialized may be specialised for *)
(* int. It needs no order of the keys.                                     *)
THEOREM BlockSearchIsScan ==
    ASSUME NEW keys \in Seq(Int), NEW k \in Int
    PROVE  BlockSearch(keys, k) = Scan(keys, 0, k)
<1>. DEFINE hits == {b \in Blocks(keys) : Mask(keys, b, k) # {}}
<1>1. CASE hits = {}
  <2>1. \A b \in Blocks(keys) : Mask(keys, b, k) = {}
    BY <1>1
  <2>. QED
    BY <1>1, <2>1, NoBlockHit DEF BlockSearch
<1>2. CASE hits # {}
  <2>. DEFINE b == CHOOSE h \in hits : IsFirst(hits, h)
              M == Mask(keys, b, k)
              i == CHOOSE j \in M : IsFirst(M, j)
  <2>1. b \in hits /\ IsFirst(hits, b)
    <3>1. hits \subseteq Nat
      BY DEF Blocks
    <3>. HIDE DEF hits
    <3>. QED
      BY <1>2, <3>1, FirstExists
  <2>2. b \in Blocks(keys) /\ M # {}
    BY <2>1
  <2>3. \A a \in Blocks(keys) : a < b => Mask(keys, a, k) = {}
    <3>1. \A a \in hits : b <= a
      BY <2>1 DEF IsFirst
    <3>. HIDE DEF b
    <3>2. \A a \in Blocks(keys) : a \in Nat
      BY DEF Blocks
    <3>. QED
      BY <2>2, <3>1, <3>2
  <2>. HIDE DEF b
  <2>4. M \subseteq Nat
    BY <2>2, NextBlock DEF Mask, Blocks
  <2>5. i \in M /\ IsFirst(M, i)
    <3>. HIDE DEF M
    <3>. QED
      BY <2>2, <2>4, FirstExists
  <2>6. i = Scan(keys, 0, k)
    <3>. HIDE DEF i
    <3>. QED
      BY <2>2, <2>3, <2>5, FirstBlockHit
  <2>. QED
    BY <1>2, <2>6 DEF BlockSearch, b
<1>. QED
  BY <1>1, <1>2

(* In a node whose keys ascend the index splits them: the keys before it   *)
(* are at most k, the others above k. The child at the index is the one    *)
(* for k, and a leaf stays sorted with k put there.                        *)
THEOREM BlockSearchSplits ==
    ASSUME NEW keys \in Seq(Int), NEW k \in Int,
           \A i, j \in 1 .. Len(keys) : i <= j => keys[i] <= keys[j]
    PROVE  /\ BlockSearch(keys, k) \in 0 .. Len(keys)
           /\ \A i \in 0 .. Len(keys) - 1 :
                 KeyAt(keys, i) <= k <=> i < BlockSearch(keys, k)
<1>. DEFINE r == BlockSearch(keys, k)
<1>1. r \in 0 .. Len(keys) /\ IsFirst(Hits(keys, 0, k), r)
  BY BlockSearchIsScan, ScanIsFirst
<1>. HIDE DEF r
<1>2. \A i \in 0 .. Len(keys) - 1 : KeyAt(keys, i) \in Int
  BY DEF KeyAt
<1>3. ASSUME NEW i \in 0 .. Len(keys) - 1, i < r PROVE KeyAt(keys, i) <= k
  BY <1>1, <1>2, <1>3 DEF IsFirst, Hits
<1>4. ASSUME NEW i \in 0 .. Len(keys) - 1, r <= i PROVE KeyAt(keys, i) > k
  <2>1. r < Len(keys) /\ KeyAt(keys, r) > k
    BY <1>1, <1>4 DEF IsFirst, Hits
  <2>2. keys[r + 1] <= keys[i + 1]
    BY <1>1, <1>4
  <2>. QED
    BY <1>1, <1>2, <2>1, <2>2 DEF KeyAt
<1>. QED
  BY <1>1, <1>2, <1>3, <1>4 DEF r
-----------------------------------------------------------------------------
(* Induction                                                               *)

(* What is true of 0 and of each number after one it is true of.           *)
LEMMA EveryNumber ==
    ASSUME NEW S, 0 \in S, \A n \in Nat \ {0} : n - 1 \in S => n \in S
    PROVE  Nat \subseteq S
<1>. SUFFICES ASSUME Nat \ S # {} PROVE FALSE
  OBVIOUS
<1>1. PICK m \in Nat \ S : \A n \in Nat \ S : m <= n
  <2>. DEFINE T == Nat \ S
  <2>1. T \subseteq Nat /\ T # {}
    OBVIOUS
  <2>. HIDE DEF T
  <2>2. PICK m \in T : IsFirst(T, m)
    BY <2>1, FirstExists
  <2>3. \A n \in T : m <= n
    BY <2>2 DEF IsFirst
  <2>. QED
    BY <2>3 DEF T
<1>2. m # 0 /\ m - 1 \in Nat
  OBVIOUS
<1>3. m - 1 \in S
  BY <1>1, <1>2
<1>. QED
  BY <1>2, <1>3

-----------------------------------------------------------------------------
(* Sequences                                                               *)

(* r is s with e inserted at place i.                                      *)
IsInserted(r, s, i, e) ==
    /\ r \in Seq(Nat) /\ Len(r) = Len(s) + 1
    /\ \A j \in 1 .. Len(s) + 1 : /\ j < i => r[j] = s[j]
                                  /\ j = i => r[j] = e
                                  /\ j > i => r[j] = s[j - 1]

(* InsertAt moves what comes after by one place.                           *)
LEMMA Inserted ==
    ASSUME NEW s \in Seq(Nat), NEW i \in 1 .. Len(s) + 1, NEW e \in Nat
    PROVE  IsInserted(InsertAt(s, i, e), s, i, e)
<1>. DEFINE a == SubSeq(s, 1, i - 1)
            b == <<e>>
            c == SubSeq(s, i, Len(s))
<1>0. Len(s) \in Nat /\ \A j \in 1 .. Len(s) : s[j] \in Nat
  OBVIOUS
<1>1. a \in Seq(Nat) /\ Len(a) = i - 1 /\ \A j \in 1 .. i - 1 : a[j] = s[j]
  BY <1>0, SubSeqProperties
<1>2. b \in Seq(Nat) /\ Len(b) = 1 /\ b[1] = e
  OBVIOUS
<1>3. c \in Seq(Nat) /\ Len(c) = Len(s) - i + 1 /\ \A j \in 1 .. Len(s) - i + 1 : c[j] = s[i + j - 1]
  BY <1>0, SubSeqProperties
<1>. HIDE DEF a, b, c
<1>4. /\ a \o b \in Seq(Nat)
      /\ Len(a \o b) = Len(a) + Len(b)
      /\ \A j \in 1 .. Len(a) + Len(b) : (a \o b)[j] = IF j <= Len(a) THEN a[j] ELSE b[j - Len(a)]
  BY <1>1, <1>2, ConcatProperties
<1>. DEFINE d == a \o b
<1>8. d \in Seq(Nat) /\ Len(d) = i /\ \A j \in 1 .. i : d[j] = IF j < i THEN s[j] ELSE e
  <2>0. i \in Nat /\ i >= 1 /\ Len(a) + Len(b) = i
    BY <1>0, <1>1, <1>2
  <2>1. d \in Seq(Nat) /\ Len(d) = i
    BY <1>4, <2>0
  <2>2. ASSUME NEW j \in 1 .. i PROVE d[j] = IF j < i THEN s[j] ELSE e
    <3>1. d[j] = IF j <= Len(a) THEN a[j] ELSE b[j - Len(a)]
      BY <1>4, <2>0
    <3>2. CASE j < i
      BY <1>1, <2>0, <3>1, <3>2
    <3>3. CASE j = i
      <4>1. j - Len(a) = 1 /\ ~(j <= Len(a))
        BY <1>1, <2>0, <3>3
      <4>. QED
        BY <1>2, <3>1, <3>3, <4>1
    <3>. QED
      BY <2>0, <3>2, <3>3
  <2>. QED
    BY <2>1, <2>2
<1>. HIDE DEF d
<1>5. /\ d \o c \in Seq(Nat)
      /\ Len(d \o c) = Len(d) + Len(c)
      /\ \A j \in 1 .. Len(d) + Len(c) : (d \o c)[j] = IF j <= Len(d) THEN d[j] ELSE c[j - Len(d)]
  BY <1>3, <1>8, ConcatProperties
<1>9. Len(d) + Len(c) = Len(s) + 1
  BY <1>0, <1>3, <1>8
<1>. DEFINE r == d \o c
<1>6. InsertAt(s, i, e) = r
  BY DEF InsertAt, a, b, c, d
<1>10. /\ r \in Seq(Nat) /\ Len(r) = Len(s) + 1
       /\ \A j \in 1 .. Len(s) + 1 : r[j] = IF j <= i THEN d[j] ELSE c[j - i]
  BY <1>5, <1>8, <1>9
<1>. HIDE DEF r
<1>7. ASSUME NEW j \in 1 .. Len(s) + 1
      PROVE  /\ j < i => r[j] = s[j]
             /\ j = i => r[j] = e
             /\ j > i => r[j] = s[j - 1]
  <2>1. r[j] = IF j <= i THEN d[j] ELSE c[j - i]
    BY <1>10
  <2>2. CASE j <= i
    BY <1>0, <1>8, <2>1, <2>2
  <2>3. CASE j > i
    <3>1. j - i \in 1 .. Len(s) - i + 1 /\ i + (j - i) - 1 = j - 1
      BY <1>0, <2>3
    <3>2. c[j - i] = s[j - 1]
      BY <1>3, <3>1
    <3>. QED
      BY <1>0, <2>1, <2>3, <3>2
  <2>. QED
    BY <1>0, <2>2, <2>3
<1>. QED
  BY <1>6, <1>7, <1>10 DEF IsInserted

(* The part of a sequence from one place to another.                       *)
LEMMA Part ==
    ASSUME NEW S, NEW s \in Seq(S), NEW m \in 1 .. Len(s) + 1, NEW n \in m - 1 .. Len(s)
    PROVE  /\ SubSeq(s, m, n) \in Seq(S)
           /\ Len(SubSeq(s, m, n)) = n - m + 1
           /\ \A i \in 1 .. n - m + 1 : SubSeq(s, m, n)[i] = s[m + i - 1]
<1>1. Len(s) \in Nat /\ \A j \in 1 .. Len(s) : s[j] \in S
  OBVIOUS
<1>2. \A i \in m .. n : s[i] \in S
  BY <1>1
<1>. QED
  BY <1>1, <1>2, SubSeqProperties

(* No element twice.                                                       *)
Different(s) == \A i, j \in 1 .. Len(s) : s[i] = s[j] => i = j

(* Then each has one position.                                             *)
LEMMA PositionOf ==
    ASSUME NEW s \in Seq(Nat), Different(s), NEW i \in 1 .. Len(s)
    PROVE  Position(s, s[i]) = i
<1>. DEFINE I == {j \in 1 .. Len(s) : s[j] = s[i]}
<1>1. I = {i}
  BY DEF Different
<1>2. Min(I) = i
  BY <1>1 DEF Min
<1>. QED
  BY <1>1, <1>2 DEF Position, SelectInSeq

(* The positions of a sequence.                                            *)
LEMMA PositionType ==
    ASSUME NEW s \in Seq(Nat), NEW x
    PROVE  Position(s, x) \in Nat
<1>. DEFINE I == {j \in 1 .. Len(s) : s[j] = x}
<1>1. CASE I = {}
  BY <1>1 DEF Position, SelectInSeq
<1>2. CASE I # {}
  <2>1. I \subseteq Nat /\ Len(s) \in Nat
    OBVIOUS
  <2>2. PICK m \in I : IsFirst(I, m)
    <3>. HIDE DEF I
    <3>. QED
      BY <1>2, <2>1, FirstExists
  <2>3. Min(I) \in I
    <3>. HIDE DEF I
    <3>. QED
      BY <2>2 DEF Min, IsFirst
  <2>. QED
    BY <1>2, <2>1, <2>3 DEF Position, SelectInSeq
<1>. QED
  BY <1>1, <1>2

(* ToSet by places.                                                        *)
LEMMA SetOf ==
    ASSUME NEW s \in Seq(Nat), NEW x
    PROVE  x \in ToSet(s) <=> \E i \in 1 .. Len(s) : s[i] = x
  BY DEF ToSet

(* Contains, too.                                                          *)
LEMMA ContainsIsIn ==
    ASSUME NEW S, NEW s \in Seq(S), NEW x
    PROVE  Contains(s, x) <=> x \in ToSet(s)
  BY DEF ToSet, Contains

-----------------------------------------------------------------------------
(* The search in one node                                                  *)

Ascending(s) == \A i, j \in 1 .. Len(s) : i < j => s[i] < s[j]

(* The index a search finds in ascending keys.                             *)
LEMMA Turn ==
    ASSUME NEW s \in Seq(Nat), Ascending(s), NEW k \in Nat
    PROVE  /\ BlockSearch(s, k) \in 0 .. Len(s)
           /\ \A i \in 1 .. Len(s) : s[i] <= k <=> i <= BlockSearch(s, k)
<1>1. s \in Seq(Int) /\ Len(s) \in Nat /\ \A i \in 1 .. Len(s) : s[i] \in Nat
  OBVIOUS
<1>2. \A i, j \in 1 .. Len(s) : i <= j => s[i] <= s[j]
  BY <1>1 DEF Ascending
<1>3. /\ BlockSearch(s, k) \in 0 .. Len(s)
      /\ \A i \in 0 .. Len(s) - 1 : KeyAt(s, i) <= k <=> i < BlockSearch(s, k)
  BY <1>1, <1>2, BlockSearchSplits
<1>. HIDE DEF BlockSearch
<1>4. ASSUME NEW i \in 1 .. Len(s) PROVE s[i] <= k <=> i <= BlockSearch(s, k)
  <2>1. i - 1 \in 0 .. Len(s) - 1 /\ (i - 1) + 1 = i
    BY <1>1
  <2>2. KeyAt(s, i - 1) <= k <=> i - 1 < BlockSearch(s, k)
    BY <1>3, <2>1
  <2>. QED
    BY <1>1, <1>3, <2>1, <2>2 DEF KeyAt
<1>. QED
  BY <1>3, <1>4

(* There is only one such index.                                           *)
LEMMA TurnIs ==
    ASSUME NEW s \in Seq(Nat), Ascending(s), NEW k \in Nat, NEW r \in 0 .. Len(s),
           \A i \in 1 .. Len(s) : s[i] <= k <=> i <= r
    PROVE  BlockSearch(s, k) = r
<1>1. /\ BlockSearch(s, k) \in 0 .. Len(s)
      /\ \A i \in 1 .. Len(s) : s[i] <= k <=> i <= BlockSearch(s, k)
  BY Turn
<1>2. Len(s) \in Nat
  OBVIOUS
<1>3. ASSUME BlockSearch(s, k) < r PROVE FALSE
  <2>1. r \in 1 .. Len(s)
    BY <1>1, <1>2, <1>3
  <2>. QED
    BY <1>1, <1>2, <1>3, <2>1
<1>4. ASSUME r < BlockSearch(s, k) PROVE FALSE
  <2>1. BlockSearch(s, k) \in 1 .. Len(s)
    BY <1>1, <1>2, <1>4
  <2>. QED
    BY <1>1, <1>2, <1>4, <2>1
<1>. QED
  BY <1>1, <1>2, <1>3, <1>4
-----------------------------------------------------------------------------
(* Heaps                                                                   *)

Pointer == Nat \cup {Null}
Node == [isLeaf : BOOLEAN, keys : Seq(Nat), children : Seq(Nat), parent : Pointer,
         childIndex : Nat \cup {-1}, prev : Pointer, next : Pointer]

Heap(h) == /\ h \in [DOMAIN h -> Node]
           /\ DOMAIN h \subseteq Nat /\ IsFiniteSet(DOMAIN h) /\ RootPtr \in DOMAIN h

(* Two heaps agree on what node n holds; on how it is linked in its level; *)
(* on where it is below its parent.                                        *)
SameBody(h, g, n) == /\ h[n].isLeaf = g[n].isLeaf
                     /\ h[n].keys = g[n].keys
                     /\ h[n].children = g[n].children
SameLinks(h, g, n) == h[n].next = g[n].next /\ h[n].prev = g[n].prev
SamePlace(h, g, n) == h[n].parent = g[n].parent /\ h[n].childIndex = g[n].childIndex

(* A heap has room for a node.                                             *)
LEMMA AllocateIsNew ==
    ASSUME NEW h, Heap(h)
    PROVE  Allocate(h) \in Nat /\ Allocate(h) \notin DOMAIN h /\ Allocate(h) # RootPtr
<1>. DEFINE D == DOMAIN h
            c == Cardinality(D)
<1>1. D \subseteq Nat /\ IsFiniteSet(D) /\ 0 \in D /\ c \in Nat
  BY FS_CardinalityType DEF Heap, RootPtr
<1>. HIDE DEF D
<1>2. \E n \in 1 .. c : n \notin D
  <2>. SUFFICES ASSUME \A n \in 1 .. c : n \in D PROVE FALSE
    OBVIOUS
  <2>1. 0 .. c \in SUBSET D
    BY <1>1
  <2>2. Cardinality(0 .. c) = c + 1
    BY <1>1, FS_Interval
  <2>3. Cardinality(0 .. c) <= c
    BY <1>1, <2>1, FS_Subset
  <2>. QED
    BY <1>1, <2>2, <2>3
<1>3. Allocate(h) \in 1 .. c /\ Allocate(h) \notin D
  BY <1>2 DEF Allocate, D
<1>. QED
  BY <1>1, <1>3 DEF D, RootPtr

(* A node that is put into the heap.                                       *)
IsPut(h, g, n, node) ==
    /\ Heap(g) /\ DOMAIN g = DOMAIN h \cup {n} /\ g[n] = node
    /\ \A x \in DOMAIN h \ {n} : g[x] = h[x]

(* What Put makes of a heap.                                               *)
LEMMA PutFields ==
    ASSUME NEW h, Heap(h), NEW n \in Nat, NEW node \in Node
    PROVE  IsPut(h, Put(h, n, node), n, node)
<1>1. IsFiniteSet(DOMAIN h \cup {n})
  BY FS_AddElement DEF Heap
<1>2. DOMAIN Put(h, n, node) = DOMAIN h \cup {n}
  BY DEF Put
<1>3. \A x \in DOMAIN h \cup {n} : Put(h, n, node)[x] \in Node
  BY DEF Put, Heap
<1>4. \A x \in DOMAIN h \ {n} : Put(h, n, node)[x] = h[x]
  BY DEF Put
<1>5. Put(h, n, node)[n] = node
  BY DEF Put
<1>6. Heap(Put(h, n, node))
  BY <1>1, <1>2, <1>3 DEF Put, Heap
<1>. QED
  BY <1>2, <1>4, <1>5, <1>6 DEF IsPut

(* The node that New makes.                                                *)
LEMMA NewNodeType ==
    ASSUME NEW leaf \in BOOLEAN
    PROVE  NewNode(leaf) \in Node
<1>1. <<>> \in Seq(Nat)
  OBVIOUS
<1>. QED
  BY <1>1 DEF NewNode, Node, Pointer, Null

(* consolidateChild changes the places of children only.                   *)
LEMMA ConsolidateFields ==
    ASSUME NEW h, Heap(h), NEW n \in DOMAIN h
    PROVE  LET g == Consolidate(h, n)
           IN /\ Heap(g) /\ DOMAIN g = DOMAIN h
              /\ \A x \in DOMAIN h : SameBody(g, h, x) /\ SameLinks(g, h, x)
              /\ \A x \in DOMAIN h : x \notin ToSet(h[n].children) => SamePlace(g, h, x)
              /\ \A x \in DOMAIN h : x \in ToSet(h[n].children) => g[x].parent = n
              /\ Different(h[n].children) =>
                    \A i \in 1 .. NumChild(h, n) : h[n].children[i] \in DOMAIN h =>
                        g[h[n].children[i]].childIndex = i - 1
<1>. DEFINE g == Consolidate(h, n)
            kids == h[n].children
<1>1. kids \in Seq(Nat) /\ n \in Nat
  BY DEF Heap, Node
<1>2. \A x : Contains(kids, x) <=> x \in ToSet(kids)
  BY <1>1, ContainsIsIn
<1>3. DOMAIN g = DOMAIN h
  BY DEF Consolidate
<1>4. ASSUME NEW x \in DOMAIN h
      PROVE  g[x] = IF x \notin ToSet(kids) THEN h[x]
                    ELSE [h[x] EXCEPT !.parent = n, !.childIndex = Position(kids, x) - 1]
  BY <1>2 DEF Consolidate
<1>5. \A x : Position(kids, x) - 1 \in Nat \cup {-1}
  <2>1. \A x : Position(kids, x) \in Nat
    BY <1>1, PositionType
  <2>. HIDE DEF kids
  <2>. QED
    BY <2>1
<1>6. \A i \in 1 .. Len(kids) : kids[i] \in ToSet(kids)
  BY <1>1, SetOf
<1>7. Different(kids) => \A i \in 1 .. Len(kids) : Position(kids, kids[i]) = i
  BY <1>1, PositionOf
<1>. HIDE DEF g, kids
<1>8. ASSUME NEW x \in DOMAIN h
      PROVE  /\ g[x] \in Node /\ SameBody(g, h, x) /\ SameLinks(g, h, x)
             /\ x \notin ToSet(kids) => SamePlace(g, h, x)
             /\ x \in ToSet(kids) => g[x].parent = n /\ g[x].childIndex = Position(kids, x) - 1
  <2>1. h[x] \in Node
    BY DEF Heap
  <2>2. CASE x \notin ToSet(kids)
    BY <1>4, <2>1, <2>2 DEF SameBody, SameLinks, SamePlace
  <2>3. CASE x \in ToSet(kids)
    <3>1. g[x] = [h[x] EXCEPT !.parent = n, !.childIndex = Position(kids, x) - 1]
      BY <1>4, <2>3
    <3>. QED
      BY <1>1, <1>5, <2>1, <2>3, <3>1 DEF Node, Pointer, SameBody, SameLinks, SamePlace
  <2>. QED
    BY <2>2, <2>3
<1>9. Heap(g)
  <2>1. g = [x \in DOMAIN h |-> g[x]]
    BY DEF g, Consolidate
  <2>. QED
    BY <1>3, <1>8, <2>1 DEF Heap
<1>10. ASSUME Different(kids), NEW i \in 1 .. Len(kids), kids[i] \in DOMAIN h
       PROVE  g[kids[i]].childIndex = i - 1
  BY <1>6, <1>7, <1>8, <1>10
<1>. QED
  BY <1>3, <1>8, <1>9, <1>10 DEF g, kids, NumChild

-----------------------------------------------------------------------------
(* Trees                                                                   *)

(* The keys of range[n] that a search in n sends to its i-th child.        *)
Turned(h, range, n, i) == {k \in range[n] : GtKeyIdx(h, n, k) = i - 1}

(* range[n] are the keys whose search comes through n, height[n] is how far*)
(* the leaves below n are from it.                                         *)
NodeFits(h, range, height, n) ==
    /\ Ascending(h[n].keys) /\ ToSet(h[n].keys) \subseteq range[n]
    /\ h[n].isLeaf => h[n].children = <<>> /\ height[n] = 0
    /\ ~h[n].isLeaf => NumChild(h, n) = NumKeys(h, n) + 1

ChildFits(h, range, height, n, i) ==
    LET c == h[n].children[i]
    IN /\ c \in DOMAIN h \ {RootPtr}
       /\ height[n] = height[c] + 1
       /\ range[c] = Turned(h, range, n, i)

(* The children of n know their places.                                    *)
Placed(h, n) == \A i \in 1 .. NumChild(h, n) :
    LET c == h[n].children[i] IN h[c].parent = n /\ h[c].childIndex = i - 1

HasParent(h, n) == \E p \in DOMAIN h : n \in ToSet(h[p].children)

IsTree(h, range, height) ==
    /\ Heap(h)
    /\ range \in [DOMAIN h -> SUBSET Nat] /\ height \in [DOMAIN h -> Nat]
    /\ range[RootPtr] = Nat /\ h[RootPtr].keys = <<>>
    /\ \A n \in DOMAIN h : height[n] <= height[RootPtr]
    /\ \A n \in DOMAIN h : NodeFits(h, range, height, n)
    /\ \A n \in DOMAIN h : Placed(h, n)
    /\ \A n \in DOMAIN h : \A i \in 1 .. NumChild(h, n) : ChildFits(h, range, height, n, i)
    /\ \A n \in DOMAIN h \ {RootPtr} : HasParent(h, n)

(* What a node is made of.                                                 *)
LEMMA NodeType ==
    ASSUME NEW h, Heap(h), NEW n \in DOMAIN h
    PROVE  /\ n \in Nat /\ h[n] \in Node
           /\ h[n].isLeaf \in BOOLEAN
           /\ h[n].keys \in Seq(Nat) /\ NumKeys(h, n) \in Nat /\ NumKeys(h, n) = Len(h[n].keys)
           /\ h[n].children \in Seq(Nat) /\ NumChild(h, n) \in Nat
           /\ NumChild(h, n) = Len(h[n].children)
           /\ h[n].parent \in Pointer /\ h[n].childIndex \in Nat \cup {-1}
           /\ h[n].prev \in Pointer /\ h[n].next \in Pointer
  BY DEF Heap, Node, NumKeys, NumChild

(* The children of a node of a tree.                                       *)
LEMMA ChildOf ==
    ASSUME NEW h, NEW range, NEW height, IsTree(h, range, height),
           NEW n \in DOMAIN h, NEW i \in 1 .. NumChild(h, n)
    PROVE  LET c == h[n].children[i]
           IN /\ c \in DOMAIN h /\ c # RootPtr
              /\ ~h[n].isLeaf /\ NumChild(h, n) = NumKeys(h, n) + 1
              /\ h[c].parent = n /\ h[c].childIndex = i - 1
              /\ height[n] = height[c] + 1
              /\ range[c] = Turned(h, range, n, i)
              /\ c \in ToSet(h[n].children)
<1>1. h[n].children \in Seq(Nat) /\ NumChild(h, n) = Len(h[n].children)
  BY NodeType DEF IsTree
<1>2. NodeFits(h, range, height, n) /\ ChildFits(h, range, height, n, i) /\ Placed(h, n)
  BY DEF IsTree
<1>3. ~h[n].isLeaf /\ NumChild(h, n) = NumKeys(h, n) + 1
  BY <1>1, <1>2 DEF NodeFits
<1>4. h[n].children[i] \in ToSet(h[n].children)
  BY <1>1, SetOf
<1>. QED
  BY <1>2, <1>3, <1>4 DEF ChildFits, Placed

(* Where a node stands below its parent.                                   *)
LEMMA ParentOf ==
    ASSUME NEW h, NEW range, NEW height, IsTree(h, range, height),
           NEW c \in DOMAIN h \ {RootPtr}
    PROVE  LET p == h[c].parent
               at == h[c].childIndex + 1
           IN /\ p \in DOMAIN h /\ p # c /\ ~h[p].isLeaf
              /\ at \in 1 .. NumKeys(h, p) + 1 /\ NumChild(h, p) = NumKeys(h, p) + 1
              /\ h[p].children[at] = c
              /\ height[p] = height[c] + 1
              /\ range[c] = Turned(h, range, p, at)
<1>1. PICK q \in DOMAIN h : c \in ToSet(h[q].children)
  BY DEF IsTree, HasParent
<1>2. h[q].children \in Seq(Nat) /\ NumChild(h, q) = Len(h[q].children)
  BY NodeType DEF IsTree
<1>3. PICK i \in 1 .. NumChild(h, q) : h[q].children[i] = c
  BY <1>1, <1>2, SetOf
<1>4. /\ ~h[q].isLeaf /\ NumChild(h, q) = NumKeys(h, q) + 1
      /\ h[c].parent = q /\ h[c].childIndex = i - 1
      /\ height[q] = height[c] + 1
      /\ range[c] = Turned(h, range, q, i)
  BY <1>3, ChildOf
<1>5. (i - 1) + 1 = i /\ i \in 1 .. NumKeys(h, q) + 1 /\ height[c] \in Nat
  BY <1>2, <1>4 DEF IsTree
<1>6. q # c
  BY <1>4, <1>5
<1>. QED
  BY <1>3, <1>4, <1>5, <1>6

(* How high a node is.                                                     *)
LEMMA HeightOf ==
    ASSUME NEW h, NEW range, NEW height, IsTree(h, range, height),
           NEW c \in DOMAIN h \ {RootPtr}
    PROVE  /\ h[c].parent \in DOMAIN h /\ height[h[c].parent] = height[c] + 1
           /\ height[c] \in Nat /\ height[h[c].parent] \in Nat
           /\ height[RootPtr] \in Nat /\ height[c] + 1 <= height[RootPtr]
<1>1. h[c].parent \in DOMAIN h /\ height[h[c].parent] = height[c] + 1
  BY ParentOf
<1>2. height[h[c].parent] <= height[RootPtr]
  BY <1>1 DEF IsTree
<1>3. \A n \in DOMAIN h : height[n] \in Nat
  BY DEF IsTree
<1>4. RootPtr \in DOMAIN h /\ c \in DOMAIN h
  BY DEF IsTree, Heap
<1>. QED
  BY <1>1, <1>2, <1>3, <1>4

(* A node is one node's child, once.                                       *)
LEMMA OneParent ==
    ASSUME NEW h, NEW range, NEW height, IsTree(h, range, height), NEW n \in DOMAIN h
    PROVE  /\ Different(h[n].children)
           /\ \A x \in ToSet(h[n].children) : x \in DOMAIN h \ {RootPtr} /\ h[x].parent = n
<1>1. h[n].children \in Seq(Nat) /\ NumChild(h, n) = Len(h[n].children)
  BY NodeType DEF IsTree
<1>2. \A i \in 1 .. NumChild(h, n) : /\ h[n].children[i] \in DOMAIN h \ {RootPtr}
                                     /\ h[h[n].children[i]].parent = n
                                     /\ h[h[n].children[i]].childIndex = i - 1
  BY ChildOf
<1>3. ASSUME NEW i \in 1 .. Len(h[n].children), NEW j \in 1 .. Len(h[n].children),
             h[n].children[i] = h[n].children[j]
      PROVE  i = j
  <2>1. i - 1 = j - 1
    BY <1>1, <1>2, <1>3
  <2>. QED
    BY <1>1, <2>1
<1>4. ASSUME NEW x \in ToSet(h[n].children)
      PROVE  x \in DOMAIN h \ {RootPtr} /\ h[x].parent = n
  <2>1. PICK i \in 1 .. Len(h[n].children) : h[n].children[i] = x
    BY <1>1, SetOf
  <2>. QED
    BY <1>1, <1>2, <2>1
<1>. QED
  BY <1>3, <1>4 DEF Different
-----------------------------------------------------------------------------
(* Splitting a node                                                        *)

(* Between h and g, c has been split after m keys into lo and hi, one of   *)
(* them new.                                                               *)
SplitBodies(h, g, c, m, lo, hi) ==
    LET p == h[c].parent
        at == h[c].childIndex + 1
        keys == h[c].keys
        kids == h[c].children
        cut == IF h[c].isLeaf THEN 0 ELSE m + 1
    IN /\ g[lo].isLeaf = h[c].isLeaf /\ g[hi].isLeaf = h[c].isLeaf
       /\ g[lo].keys = SubSeq(keys, 1, m)
       /\ g[hi].keys = KeysAbove(keys, m, h[c].isLeaf)
       /\ g[lo].children = SubSeq(kids, 1, cut)
       /\ g[hi].children = SubSeq(kids, cut + 1, Len(kids))
       /\ g[p].isLeaf = h[p].isLeaf
       /\ g[p].keys = InsertAt(h[p].keys, at, keys[m + 1])
       /\ g[p].children = InsertAt(h[p].children, IF lo = c THEN at + 1 ELSE at,
                                   IF lo = c THEN hi ELSE lo)
       /\ \A x \in DOMAIN h \ {c, p} : SameBody(g, h, x)

IsSplit(h, g, c, m, lo, hi, new) ==
    /\ Heap(g) /\ DOMAIN g = DOMAIN h \cup {new} /\ new \notin DOMAIN h
    /\ (lo = c /\ hi = new) \/ (lo = new /\ hi = c)
    /\ SplitBodies(h, g, c, m, lo, hi)
    /\ Placed(g, lo) /\ Placed(g, hi) /\ Placed(g, h[c].parent)
    /\ \A x \in DOMAIN h : x \notin ToSet(h[c].children) \cup ToSet(h[h[c].parent].children) =>
             SamePlace(g, h, x)

(* The heap with the keys and children dealt out.                          *)
Written(h, c, m, lo, hi, new, node) ==
    LET p == h[c].parent
        keys == h[c].keys
        kids == h[c].children
        at == h[c].childIndex + 1
        cut == IF h[c].isLeaf THEN 0 ELSE m + 1
    IN [Put(h, new, node) EXCEPT
          ![lo].keys = SubSeq(keys, 1, m),
          ![hi].keys = KeysAbove(keys, m, h[c].isLeaf),
          ![lo].children = SubSeq(kids, 1, cut),
          ![hi].children = SubSeq(kids, cut + 1, Len(kids)),
          ![p].keys = InsertAt(h[p].keys, at, keys[m + 1]),
          ![p].children = InsertAt(h[p].children, IF lo = c THEN at + 1 ELSE at, new)]

(* A node with other keys and children.                                    *)
With(d, a, b) == [d EXCEPT !.keys = a, !.children = b]

(* It is a node with those keys and children.                              *)
LEMMA WithFields ==
    ASSUME NEW d \in Node, NEW a \in Seq(Nat), NEW b \in Seq(Nat)
    PROVE  /\ With(d, a, b) \in Node
           /\ With(d, a, b).keys = a /\ With(d, a, b).children = b
           /\ With(d, a, b).isLeaf = d.isLeaf
           /\ With(d, a, b).parent = d.parent /\ With(d, a, b).childIndex = d.childIndex
           /\ With(d, a, b).prev = d.prev /\ With(d, a, b).next = d.next
  BY DEF Node, With

(* Six fields that are written in three nodes.                             *)
DealtOut(h, lo, hi, p, A, B, C, D, E, F) ==
    [h EXCEPT ![lo].keys = A, ![hi].keys = B, ![lo].children = C, ![hi].children = D,
              ![p].keys = E, ![p].children = F]

Dealt(h, g, lo, hi, p, A, B, C, D, E, F) ==
    /\ Heap(g) /\ DOMAIN g = DOMAIN h
    /\ \A x \in DOMAIN h : SamePlace(g, h, x) /\ SameLinks(g, h, x) /\ g[x].isLeaf = h[x].isLeaf
    /\ g[lo].keys = A /\ g[lo].children = C
    /\ g[hi].keys = B /\ g[hi].children = D
    /\ g[p].keys = E /\ g[p].children = F
    /\ \A x \in DOMAIN h \ {lo, hi, p} : g[x] = h[x]

(* The six writes of a split, one after the other.                         *)
LEMMA SixWrites ==
    ASSUME NEW h, Heap(h), NEW lo \in DOMAIN h, NEW hi \in DOMAIN h, NEW p \in DOMAIN h,
           lo # hi, p # lo, p # hi,
           NEW A \in Seq(Nat), NEW B \in Seq(Nat), NEW C \in Seq(Nat),
           NEW D \in Seq(Nat), NEW E \in Seq(Nat), NEW F \in Seq(Nat),
           NEW g, g = DealtOut(h, lo, hi, p, A, B, C, D, E, F)
    PROVE  Dealt(h, g, lo, hi, p, A, B, C, D, E, F)
<1>1. \A x \in DOMAIN h : h[x] \in Node
  BY DEF Heap
<1>2. DOMAIN g = DOMAIN h /\ g = [x \in DOMAIN h |-> g[x]]
  BY DEF DealtOut
<1>3. g[lo] = With(h[lo], A, C)
  BY DEF DealtOut, With
<1>4. g[hi] = With(h[hi], B, D)
  BY DEF DealtOut, With
<1>5. g[p] = With(h[p], E, F)
  BY DEF DealtOut, With
<1>6. \A x \in DOMAIN h \ {lo, hi, p} : g[x] = h[x]
  BY DEF DealtOut
<1>8. /\ g[lo] \in Node /\ g[lo].keys = A /\ g[lo].children = C /\ g[lo].isLeaf = h[lo].isLeaf
      /\ SamePlace(g, h, lo) /\ SameLinks(g, h, lo)
  BY <1>1, <1>3, WithFields DEF SamePlace, SameLinks
<1>9. /\ g[hi] \in Node /\ g[hi].keys = B /\ g[hi].children = D /\ g[hi].isLeaf = h[hi].isLeaf
      /\ SamePlace(g, h, hi) /\ SameLinks(g, h, hi)
  BY <1>1, <1>4, WithFields DEF SamePlace, SameLinks
<1>10. /\ g[p] \in Node /\ g[p].keys = E /\ g[p].children = F /\ g[p].isLeaf = h[p].isLeaf
       /\ SamePlace(g, h, p) /\ SameLinks(g, h, p)
  BY <1>1, <1>5, WithFields DEF SamePlace, SameLinks
<1>11. ASSUME NEW x \in DOMAIN h
       PROVE  /\ g[x] \in Node /\ SamePlace(g, h, x) /\ SameLinks(g, h, x)
              /\ g[x].isLeaf = h[x].isLeaf
  <2>1. CASE x \in {lo, hi, p}
    BY <1>8, <1>9, <1>10, <2>1
  <2>2. CASE x \notin {lo, hi, p}
    BY <1>1, <1>6, <2>2 DEF SamePlace, SameLinks
  <2>. QED
    BY <2>1, <2>2
<1>12. Heap(g)
  BY <1>2, <1>11 DEF Heap
<1>. QED
  BY <1>2, <1>6, <1>8, <1>9, <1>10, <1>11, <1>12 DEF Dealt

(* What has been written before children are consolidated.                 *)
IsWritten(h, g, c, m, lo, hi, new, node) ==
    /\ Heap(g) /\ DOMAIN g = DOMAIN h \cup {new} /\ new \notin DOMAIN h
    /\ SplitBodies(h, g, c, m, lo, hi)
    /\ \A x \in DOMAIN h : SamePlace(g, h, x) /\ SameLinks(g, h, x)
    /\ g[new].next = node.next /\ g[new].prev = node.prev

(* A split has written it.                                                 *)
LEMMA SplitWritten ==
    ASSUME NEW h, NEW range, NEW height, IsTree(h, range, height),
           NEW c \in DOMAIN h \ {RootPtr},
           NEW m \in 1 .. NumKeys(h, c) - 1, NEW new \in Nat, new \notin DOMAIN h,
           NEW lo, NEW hi, (lo = c /\ hi = new) \/ (lo = new /\ hi = c),
           NEW node \in Node, node.isLeaf = h[c].isLeaf,
           NEW g, g = Written(h, c, m, lo, hi, new, node)
    PROVE  IsWritten(h, g, c, m, lo, hi, new, node)
<1>. DEFINE p == h[c].parent
            keys == h[c].keys
            kids == h[c].children
            leaf == h[c].isLeaf
            at == h[c].childIndex + 1
            cut == IF leaf THEN 0 ELSE m + 1
            created == Put(h, new, node)
            A == SubSeq(keys, 1, m)
            B == KeysAbove(keys, m, leaf)
            C == SubSeq(kids, 1, cut)
            D == SubSeq(kids, cut + 1, Len(kids))
            E == InsertAt(h[p].keys, at, keys[m + 1])
            F == InsertAt(h[p].children, IF lo = c THEN at + 1 ELSE at, new)
<1>1. Heap(h) /\ c \in DOMAIN h
  BY DEF IsTree
<1>2. new \in Nat /\ new \notin DOMAIN h
  OBVIOUS
<1>3. p \in DOMAIN h /\ p # c /\ at \in 1 .. NumKeys(h, p) + 1
      /\ NumChild(h, p) = NumKeys(h, p) + 1
  BY ParentOf
<1>4. keys \in Seq(Nat) /\ Len(keys) \in Nat /\ m \in 1 .. Len(keys) - 1 /\ leaf \in BOOLEAN
      /\ kids \in Seq(Nat) /\ Len(kids) \in Nat
      /\ (leaf => Len(kids) = 0) /\ (~leaf => Len(kids) = Len(keys) + 1)
  <2>1. NodeFits(h, range, height, c)
    BY DEF IsTree
  <2>. QED
    BY <1>1, <2>1, NodeType DEF NodeFits
<1>5. h[p].keys \in Seq(Nat) /\ h[p].children \in Seq(Nat)
      /\ Len(h[p].keys) = NumKeys(h, p) /\ Len(h[p].children) = NumChild(h, p)
      /\ NumKeys(h, p) \in Nat
  BY <1>1, <1>3, NodeType
<1>6. A \in Seq(Nat)
  <2>. HIDE DEF keys
  <2>1. 1 \in 1 .. Len(keys) + 1 /\ m \in 1 - 1 .. Len(keys)
    BY <1>4
  <2>. QED
    BY <1>4, <2>1, Part
<1>7. B \in Seq(Nat)
  <2>. HIDE DEF keys, leaf
  <2>1. m + 1 \in 1 .. Len(keys) + 1 /\ Len(keys) \in (m + 1) - 1 .. Len(keys)
        /\ m + 2 \in 1 .. Len(keys) + 1 /\ Len(keys) \in (m + 2) - 1 .. Len(keys)
    BY <1>4
  <2>2. SubSeq(keys, m + 1, Len(keys)) \in Seq(Nat) /\ SubSeq(keys, m + 2, Len(keys)) \in Seq(Nat)
    BY <1>4, <2>1, Part
  <2>. QED
    BY <1>4, <2>2 DEF KeysAbove
<1>14. cut \in 0 .. Len(kids)
  <2>. HIDE DEF keys, kids, leaf
  <2>. QED
    BY <1>4
<1>8. C \in Seq(Nat)
  <2>. HIDE DEF kids, cut
  <2>1. 1 \in 1 .. Len(kids) + 1 /\ cut \in 1 - 1 .. Len(kids)
    BY <1>4, <1>14
  <2>. QED
    BY <1>4, <2>1, Part
<1>9. D \in Seq(Nat)
  <2>. HIDE DEF kids, cut
  <2>1. cut + 1 \in 1 .. Len(kids) + 1 /\ Len(kids) \in (cut + 1) - 1 .. Len(kids)
    BY <1>4, <1>14
  <2>. QED
    BY <1>4, <2>1, Part
<1>10. E \in Seq(Nat)
  <2>. HIDE DEF keys, p, at
  <2>1. m + 1 \in 1 .. Len(keys)
    BY <1>4
  <2>2. keys[m + 1] \in Nat
    BY <1>4, <2>1
  <2>3. at \in 1 .. Len(h[p].keys) + 1
    BY <1>3, <1>5
  <2>. QED
    BY <1>5, <2>2, <2>3, Inserted DEF IsInserted
<1>11. F \in Seq(Nat)
  <2>. HIDE DEF p, at
  <2>1. (IF lo = c THEN at + 1 ELSE at) \in 1 .. Len(h[p].children) + 1
    BY <1>3, <1>5
  <2>. QED
    BY <1>2, <1>5, <2>1, Inserted DEF IsInserted
<1>12. /\ Heap(created) /\ DOMAIN created = DOMAIN h \cup {new}
       /\ created[new] = node
       /\ \A x \in DOMAIN h : created[x] = h[x]
  <2>1. IsPut(h, created, new, node)
    <3>. HIDE DEF p, keys, kids, leaf, at, cut
    <3>1. node \in Node /\ new \in Nat /\ Heap(h)
      BY <1>1, <1>2
    <3>. QED
      BY <3>1, PutFields
  <2>. HIDE DEF created
  <2>. QED
    BY <1>2, <2>1 DEF IsPut
<1>15. lo # hi /\ p # lo /\ p # hi /\ {lo, hi, p} \subseteq DOMAIN created /\ created[p] = h[p]
  <2>. HIDE DEF p, created
  <2>. QED
    BY <1>1, <1>2, <1>3, <1>12
<1>13. g = DealtOut(created, lo, hi, p, A, B, C, D, E, F)
  BY DEF Written, DealtOut
<1>. HIDE DEF A, B, C, D, E, F, created
<1>16. /\ Heap(g) /\ DOMAIN g = DOMAIN created
       /\ \A x \in DOMAIN created : /\ SamePlace(g, created, x) /\ SameLinks(g, created, x)
                                    /\ g[x].isLeaf = created[x].isLeaf
       /\ g[lo].keys = A /\ g[lo].children = C
       /\ g[hi].keys = B /\ g[hi].children = D
       /\ g[p].keys = E /\ g[p].children = F
       /\ \A x \in DOMAIN created \ {lo, hi, p} : g[x] = created[x]
  <2>. HIDE DEF p, keys, kids, leaf, at, cut
  <2>1. lo \in DOMAIN created /\ hi \in DOMAIN created /\ p \in DOMAIN created
    BY <1>15
  <2>2. lo # hi /\ p # lo /\ p # hi
    BY <1>15
  <2>3. Dealt(created, g, lo, hi, p, A, B, C, D, E, F)
    BY <1>6, <1>7, <1>8, <1>9, <1>10, <1>11, <1>12, <1>13, <2>1, <2>2, SixWrites
  <2>. QED
    BY <2>3 DEF Dealt
<1>17. created[lo].isLeaf = leaf /\ created[hi].isLeaf = leaf
  BY <1>1, <1>12
<1>18. \A x \in DOMAIN h \ {c, p} : SameBody(g, h, x)
  BY <1>2, <1>12, <1>16 DEF SameBody
<1>19. (IF lo = c THEN hi ELSE lo) = new
  BY <1>1, <1>2
<1>20. SplitBodies(h, g, c, m, lo, hi)
  BY <1>12, <1>3, <1>15, <1>16, <1>17, <1>18, <1>19 DEF SplitBodies, A, B, C, D, E, F
<1>21. \A x \in DOMAIN h : SamePlace(g, h, x) /\ SameLinks(g, h, x)
  BY <1>2, <1>12, <1>16 DEF SamePlace, SameLinks
<1>22. g[new].next = node.next /\ g[new].prev = node.prev
  BY <1>12, <1>16 DEF SameLinks
<1>. QED
  BY <1>2, <1>12, <1>16, <1>20, <1>21, <1>22 DEF IsWritten

(* The same, place by place.                                               *)
LoParts(h, g, c, m, lo) ==
    /\ g[lo].isLeaf = h[c].isLeaf
    /\ NumKeys(g, lo) = m /\ \A j \in 1 .. m : g[lo].keys[j] = h[c].keys[j]
    /\ h[c].isLeaf => g[lo].children = <<>> /\ NumChild(g, lo) = 0
    /\ ~h[c].isLeaf => /\ NumChild(g, lo) = m + 1
                       /\ \A j \in 1 .. m + 1 : g[lo].children[j] = h[c].children[j]

HiParts(h, g, c, m, hi) ==
    /\ g[hi].isLeaf = h[c].isLeaf
    /\ h[c].isLeaf =>
          /\ g[hi].children = <<>> /\ NumChild(g, hi) = 0
          /\ NumKeys(g, hi) = NumKeys(h, c) - m
          /\ \A j \in 1 .. NumKeys(h, c) - m : g[hi].keys[j] = h[c].keys[m + j]
    /\ ~h[c].isLeaf =>
          /\ NumKeys(g, hi) = NumKeys(h, c) - m - 1
          /\ \A j \in 1 .. NumKeys(h, c) - m - 1 : g[hi].keys[j] = h[c].keys[m + 1 + j]
          /\ NumChild(g, hi) = NumKeys(h, c) - m
          /\ \A j \in 1 .. NumKeys(h, c) - m : g[hi].children[j] = h[c].children[m + 1 + j]

UpParts(h, g, c, m, lo, hi) ==
    LET p == h[c].parent
        at == h[c].childIndex + 1
    IN /\ g[p].isLeaf = h[p].isLeaf
       /\ NumKeys(g, p) = NumKeys(h, p) + 1
       /\ NumChild(g, p) = NumKeys(h, p) + 2
       /\ \A j \in 1 .. NumKeys(h, p) + 1 :
             /\ j < at => g[p].keys[j] = h[p].keys[j]
             /\ j = at => g[p].keys[j] = h[c].keys[m + 1]
             /\ j > at => g[p].keys[j] = h[p].keys[j - 1]
       /\ \A j \in 1 .. NumKeys(h, p) + 2 :
             /\ j < at => g[p].children[j] = h[p].children[j]
             /\ j = at => g[p].children[j] = lo
             /\ j = at + 1 => g[p].children[j] = hi
             /\ j > at + 1 => g[p].children[j] = h[p].children[j - 1]

(* What a node that can be split is made of.                               *)
LEMMA FullNode ==
    ASSUME NEW h, NEW range, NEW height, IsTree(h, range, height),
           NEW c \in DOMAIN h \ {RootPtr}, NEW m \in 1 .. NumKeys(h, c) - 1
    PROVE  /\ h[c].keys \in Seq(Nat) /\ NumKeys(h, c) \in Nat /\ NumKeys(h, c) = Len(h[c].keys)
           /\ m \in Nat /\ m >= 1 /\ m + 1 \in 1 .. NumKeys(h, c)
           /\ h[c].isLeaf \in BOOLEAN
           /\ h[c].children \in Seq(Nat) /\ NumChild(h, c) \in Nat /\ NumChild(h, c) = Len(h[c].children)
           /\ h[c].isLeaf => NumChild(h, c) = 0 /\ h[c].children = <<>>
           /\ ~h[c].isLeaf => NumChild(h, c) = NumKeys(h, c) + 1
<1>1. NodeFits(h, range, height, c) /\ Heap(h) /\ c \in DOMAIN h
  BY DEF IsTree
<1>2. /\ h[c].keys \in Seq(Nat) /\ NumKeys(h, c) \in Nat /\ NumKeys(h, c) = Len(h[c].keys)
      /\ h[c].isLeaf \in BOOLEAN
      /\ h[c].children \in Seq(Nat) /\ NumChild(h, c) \in Nat /\ NumChild(h, c) = Len(h[c].children)
  BY <1>1, NodeType
<1>3. m \in Nat /\ m >= 1 /\ m + 1 \in 1 .. NumKeys(h, c)
  BY <1>2
<1>. QED
  BY <1>1, <1>2, <1>3 DEF NodeFits

(* The node left of the cut.                                               *)
LEMMA LoIs ==
    ASSUME NEW h, NEW range, NEW height, IsTree(h, range, height),
           NEW c \in DOMAIN h \ {RootPtr}, NEW m \in 1 .. NumKeys(h, c) - 1,
           NEW g, NEW lo, NEW hi, SplitBodies(h, g, c, m, lo, hi)
    PROVE  LoParts(h, g, c, m, lo)
<1>. DEFINE keys == h[c].keys
            kids == h[c].children
            nk == Len(keys)
            leaf == h[c].isLeaf
            cut == IF leaf THEN 0 ELSE m + 1
<1>1. /\ keys \in Seq(Nat) /\ nk \in Nat /\ kids \in Seq(Nat) /\ Len(kids) \in Nat
      /\ m \in Nat /\ m >= 1 /\ m + 1 \in 1 .. nk /\ leaf \in BOOLEAN
      /\ (leaf => Len(kids) = 0) /\ (~leaf => Len(kids) = nk + 1)
  BY FullNode
<1>2. /\ g[lo].isLeaf = leaf
      /\ g[lo].keys = SubSeq(keys, 1, m) /\ g[lo].children = SubSeq(kids, 1, cut)
  BY DEF SplitBodies
<1>. HIDE DEF keys, kids, nk, leaf
<1>3. cut \in 0 .. Len(kids)
  BY <1>1
<1>4. Len(SubSeq(keys, 1, m)) = m /\ \A j \in 1 .. m : SubSeq(keys, 1, m)[j] = keys[j]
  <2>1. 1 \in 1 .. Len(keys) + 1 /\ m \in 1 - 1 .. Len(keys)
    BY <1>1 DEF nk
  <2>2. /\ Len(SubSeq(keys, 1, m)) = m - 1 + 1
        /\ \A i \in 1 .. m - 1 + 1 : SubSeq(keys, 1, m)[i] = keys[1 + i - 1]
    BY <1>1, <2>1, Part
  <2>3. m - 1 + 1 = m /\ \A i \in 1 .. m : 1 + i - 1 = i
    BY <1>1
  <2>. QED
    BY <2>2, <2>3
<1>5. Len(SubSeq(kids, 1, cut)) = cut /\ \A j \in 1 .. cut : SubSeq(kids, 1, cut)[j] = kids[j]
  <2>. HIDE DEF cut
  <2>1. 1 \in 1 .. Len(kids) + 1 /\ cut \in 1 - 1 .. Len(kids) /\ cut \in Nat
    BY <1>1, <1>3
  <2>2. /\ Len(SubSeq(kids, 1, cut)) = cut - 1 + 1
        /\ \A i \in 1 .. cut - 1 + 1 : SubSeq(kids, 1, cut)[i] = kids[1 + i - 1]
    BY <1>1, <2>1, Part
  <2>3. cut - 1 + 1 = cut /\ \A i \in 1 .. cut : 1 + i - 1 = i
    BY <2>1
  <2>. QED
    BY <2>2, <2>3
<1>6. leaf => SubSeq(kids, 1, cut) = <<>>
  <2>1. SubSeq(kids, 1, 0) = <<>>
    BY <1>1
  <2>. QED
    BY <2>1
<1>. QED
  BY <1>2, <1>4, <1>5, <1>6 DEF LoParts, NumKeys, NumChild, keys, kids, leaf
(* The part of a sequence behind its first m elements.                     *)
LEMMA Suffix ==
    ASSUME NEW S, NEW s \in Seq(S), NEW m \in 0 .. Len(s)
    PROVE  /\ SubSeq(s, m + 1, Len(s)) \in Seq(S)
           /\ Len(SubSeq(s, m + 1, Len(s))) = Len(s) - m
           /\ \A i \in 1 .. Len(s) - m : SubSeq(s, m + 1, Len(s))[i] = s[m + i]
<1>. DEFINE a == m + 1
            n == Len(s)
<1>1. n \in Nat /\ a \in 1 .. n + 1 /\ n \in a - 1 .. n
  OBVIOUS
<1>2. /\ SubSeq(s, a, n) \in Seq(S)
      /\ Len(SubSeq(s, a, n)) = n - a + 1
      /\ \A i \in 1 .. n - a + 1 : SubSeq(s, a, n)[i] = s[a + i - 1]
  <2>. HIDE DEF a
  <2>. QED
    BY <1>1, Part DEF n
<1>3. n - a + 1 = n - m /\ \A i \in 1 .. n - m : a + i - 1 = m + i
  BY <1>1
<1>. QED
  BY <1>2, <1>3

(* The node right of it.                                                   *)
LEMMA HiIs ==
    ASSUME NEW h, NEW range, NEW height, IsTree(h, range, height),
           NEW c \in DOMAIN h \ {RootPtr}, NEW m \in 1 .. NumKeys(h, c) - 1,
           NEW g, NEW lo, NEW hi, SplitBodies(h, g, c, m, lo, hi)
    PROVE  HiParts(h, g, c, m, hi)
<1>. DEFINE keys == h[c].keys
            kids == h[c].children
            nk == Len(keys)
            leaf == h[c].isLeaf
            cut == IF leaf THEN 0 ELSE m + 1
            over == IF leaf THEN m ELSE m + 1
<1>1. /\ keys \in Seq(Nat) /\ nk \in Nat /\ kids \in Seq(Nat) /\ Len(kids) \in Nat
      /\ m \in Nat /\ m >= 1 /\ m + 1 \in 1 .. nk /\ leaf \in BOOLEAN
      /\ (leaf => Len(kids) = 0) /\ (~leaf => Len(kids) = nk + 1)
  BY FullNode
<1>2. /\ g[hi].isLeaf = leaf
      /\ g[hi].keys = KeysAbove(keys, m, leaf)
      /\ g[hi].children = SubSeq(kids, cut + 1, Len(kids))
  BY DEF SplitBodies
<1>. HIDE DEF keys, kids, leaf
<1>3. over \in 0 .. Len(keys) /\ cut \in 0 .. Len(kids)
  BY <1>1
<1>4. g[hi].keys = SubSeq(keys, over + 1, Len(keys))
  <2>1. m + 1 + 1 = m + 2
    BY <1>1
  <2>. QED
    BY <1>2, <2>1 DEF KeysAbove
<1>. HIDE DEF nk, cut, over
<1>5. /\ Len(g[hi].keys) = Len(keys) - over
      /\ \A j \in 1 .. Len(keys) - over : g[hi].keys[j] = keys[over + j]
  BY <1>1, <1>3, <1>4, Suffix
<1>6. /\ Len(g[hi].children) = Len(kids) - cut
      /\ \A j \in 1 .. Len(kids) - cut : g[hi].children[j] = kids[cut + j]
  BY <1>1, <1>2, <1>3, Suffix
<1>7. CASE leaf
  <2>1. over = m /\ cut = 0 /\ Len(kids) = 0
    BY <1>1, <1>7 DEF over, cut
  <2>2. g[hi].children = <<>>
    BY <1>1, <1>2, <2>1
  <2>3. Len(g[hi].children) = 0
    BY <2>2
  <2>. QED
    BY <1>2, <1>5, <1>7, <2>1, <2>2, <2>3 DEF HiParts, NumKeys, NumChild, keys, kids, leaf
<1>8. CASE ~leaf
  <2>0. over = m + 1 /\ cut = m + 1
    BY <1>8 DEF over, cut
  <2>1. over = m + 1 /\ cut = m + 1 /\ Len(kids) - cut = nk - m /\ nk - over = nk - m - 1
    BY <1>1, <1>8, <2>0
  <2>. QED
    BY <1>2, <1>5, <1>6, <1>8, <2>1 DEF HiParts, NumKeys, NumChild, nk, keys, kids, leaf
<1>. QED
  BY <1>7, <1>8

(* The parent of both.                                                     *)
LEMMA UpIs ==
    ASSUME NEW h, NEW range, NEW height, IsTree(h, range, height),
           NEW c \in DOMAIN h \ {RootPtr}, NEW m \in 1 .. NumKeys(h, c) - 1,
           NEW g, NEW lo, NEW hi, SplitBodies(h, g, c, m, lo, hi),
           NEW new \in Nat, new \notin DOMAIN h,
           (lo = c /\ hi = new) \/ (lo = new /\ hi = c)
    PROVE  UpParts(h, g, c, m, lo, hi)
<1>. DEFINE p == h[c].parent
            at == h[c].childIndex + 1
            n == NumKeys(h, p)
            to == IF lo = c THEN at + 1 ELSE at
            sep == h[c].keys[m + 1]
<1>1. /\ p \in DOMAIN h /\ at \in 1 .. n + 1 /\ NumChild(h, p) = n + 1
      /\ h[p].children[at] = c
  BY ParentOf
<1>2. /\ h[p].keys \in Seq(Nat) /\ n \in Nat /\ n = Len(h[p].keys)
      /\ h[p].children \in Seq(Nat) /\ NumChild(h, p) = Len(h[p].children)
  BY <1>1, NodeType DEF IsTree
<1>3. sep \in Nat
  BY FullNode
<1>4. /\ g[p].isLeaf = h[p].isLeaf
      /\ g[p].keys = InsertAt(h[p].keys, at, sep)
      /\ g[p].children = InsertAt(h[p].children, to, new)
  <2>1. (IF lo = c THEN hi ELSE lo) = new
    OBVIOUS
  <2>. QED
    BY <2>1 DEF SplitBodies
<1>. HIDE DEF sep, p, at, n
<1>5. to \in 1 .. Len(h[p].children) + 1
  BY <1>1, <1>2
<1>6. /\ Len(g[p].keys) = n + 1
      /\ \A j \in 1 .. n + 1 : /\ j < at => g[p].keys[j] = h[p].keys[j]
                               /\ j = at => g[p].keys[j] = sep
                               /\ j > at => g[p].keys[j] = h[p].keys[j - 1]
  <2>. DEFINE s == h[p].keys
  <2>1. at \in 1 .. Len(s) + 1 /\ s \in Seq(Nat) /\ g[p].keys = InsertAt(s, at, sep) /\ Len(s) = n
    BY <1>1, <1>2, <1>4
  <2>. HIDE DEF s
  <2>2. IsInserted(g[p].keys, s, at, sep)
    BY <1>3, <2>1, Inserted
  <2>. QED
    BY <2>1, <2>2 DEF s, IsInserted
<1>7. /\ Len(g[p].children) = n + 2
      /\ \A j \in 1 .. n + 2 : /\ j < to => g[p].children[j] = h[p].children[j]
                               /\ j = to => g[p].children[j] = new
                               /\ j > to => g[p].children[j] = h[p].children[j - 1]
  <2>. DEFINE s == h[p].children
  <2>. HIDE DEF to
  <2>1. to \in 1 .. Len(s) + 1 /\ s \in Seq(Nat) /\ g[p].children = InsertAt(s, to, new)
    BY <1>2, <1>4, <1>5
  <2>2. Len(s) + 1 = n + 2
    BY <1>1, <1>2
  <2>. HIDE DEF s
  <2>3. IsInserted(g[p].children, s, to, new)
    BY <2>1, Inserted
  <2>. QED
    BY <2>2, <2>3 DEF s, IsInserted
<1>8. ASSUME NEW j \in 1 .. n + 2
      PROVE  /\ j < at => g[p].children[j] = h[p].children[j]
             /\ j = at => g[p].children[j] = lo
             /\ j = at + 1 => g[p].children[j] = hi
             /\ j > at + 1 => g[p].children[j] = h[p].children[j - 1]
  <2>0. at \in Nat /\ n \in Nat
    BY <1>1, <1>2
  <2>1. CASE lo = c
    <3>1. to = at + 1 /\ hi = new
      BY <2>1
    <3>. HIDE DEF to
    <3>2. j < at => g[p].children[j] = h[p].children[j]
      BY <1>7, <2>0, <3>1
    <3>3. j = at => g[p].children[j] = lo
      BY <1>1, <1>7, <2>0, <2>1, <3>1
    <3>4. j = at + 1 => g[p].children[j] = hi
      BY <1>7, <3>1
    <3>. QED
      BY <1>7, <3>1, <3>2, <3>3, <3>4
  <2>2. CASE lo # c
    <3>1. to = at /\ lo = new /\ hi = c
      BY <2>2
    <3>. HIDE DEF to
    <3>2. j = at + 1 => g[p].children[j] = hi
      <4>1. at + 1 > at /\ at + 1 - 1 = at
        BY <2>0
      <4>. QED
        BY <1>1, <1>7, <3>1, <4>1
    <3>3. j > at + 1 => g[p].children[j] = h[p].children[j - 1]
      BY <1>7, <2>0, <3>1
    <3>. QED
      BY <1>7, <3>1, <3>2, <3>3
  <2>. QED
    BY <2>1, <2>2
<1>. QED
  BY <1>2, <1>4, <1>6, <1>7, <1>8 DEF UpParts, NumKeys, NumChild, p, at, n, sep
(* Whose children are whose after the split.                               *)
KidsApart(h, g, c, lo, hi, new) ==
    LET p == h[c].parent
    IN /\ Different(g[lo].children) /\ Different(g[hi].children) /\ Different(g[p].children)
       /\ ToSet(g[lo].children) \subseteq ToSet(h[c].children)
       /\ ToSet(g[hi].children) \subseteq ToSet(h[c].children)
       /\ ToSet(h[c].children) \subseteq ToSet(g[lo].children) \cup ToSet(g[hi].children)
       /\ ToSet(g[p].children) = ToSet(h[p].children) \cup {new}
       /\ ToSet(g[lo].children) \cap ToSet(g[hi].children) = {}
       /\ ToSet(h[c].children) \cap ToSet(g[p].children) = {}
       /\ ToSet(h[c].children) \cup ToSet(g[p].children) \subseteq DOMAIN g \ {RootPtr}

(* The children left and right of the cut, and those of the parent.        *)
LEMMA KidsAreApart ==
    ASSUME NEW h, NEW range, NEW height, IsTree(h, range, height),
           NEW c \in DOMAIN h \ {RootPtr}, NEW m \in 1 .. NumKeys(h, c) - 1,
           NEW g, NEW lo, NEW hi, SplitBodies(h, g, c, m, lo, hi),
           NEW new \in Nat, new \notin DOMAIN h,
           (lo = c /\ hi = new) \/ (lo = new /\ hi = c),
           Heap(g), DOMAIN g = DOMAIN h \cup {new}
    PROVE  KidsApart(h, g, c, lo, hi, new)
<1>. DEFINE p == h[c].parent
            at == h[c].childIndex + 1
            n == NumKeys(h, p)
            kids == h[c].children
            nk == NumKeys(h, c)
            leaf == h[c].isLeaf
<1>1. /\ p \in DOMAIN h /\ at \in 1 .. n + 1 /\ NumChild(h, p) = n + 1 /\ p # c
      /\ h[p].children[at] = c
  BY ParentOf
<1>2. /\ Different(kids) /\ \A x \in ToSet(kids) : x \in DOMAIN h \ {RootPtr} /\ h[x].parent = c
  BY OneParent
<1>3. /\ Different(h[p].children)
      /\ \A x \in ToSet(h[p].children) : x \in DOMAIN h \ {RootPtr} /\ h[x].parent = p
  BY <1>1, OneParent
<1>4. /\ h[p].children \in Seq(Nat) /\ n \in Nat /\ Len(h[p].children) = n + 1
  BY <1>1, NodeType DEF IsTree
<1>5. /\ LoParts(h, g, c, m, lo) /\ HiParts(h, g, c, m, hi) /\ UpParts(h, g, c, m, lo, hi)
  BY LoIs, HiIs, UpIs
<1>6. /\ kids \in Seq(Nat) /\ nk \in Nat /\ m \in 1 .. nk - 1 /\ leaf \in BOOLEAN
      /\ (leaf => Len(kids) = 0 /\ kids = <<>>) /\ (~leaf => Len(kids) = nk + 1)
  BY FullNode
<1>7. {lo, hi, p} \subseteq DOMAIN g /\ lo # hi /\ p \notin {lo, hi} /\ new # RootPtr
  BY <1>1 DEF IsTree, Heap
<1>8. /\ \A x \in {lo, hi, p} : /\ g[x].children \in Seq(Nat)
                                /\ Len(g[x].children) = NumChild(g, x)
  BY <1>7, NodeType
<1>9. /\ Different(g[lo].children) /\ Different(g[hi].children)
      /\ ToSet(g[lo].children) \subseteq ToSet(kids)
      /\ ToSet(g[hi].children) \subseteq ToSet(kids)
      /\ ToSet(kids) \subseteq ToSet(g[lo].children) \cup ToSet(g[hi].children)
      /\ ToSet(g[lo].children) \cap ToSet(g[hi].children) = {}
  <2>1. CASE leaf
    <3>1. g[lo].children = <<>> /\ g[hi].children = <<>> /\ kids = <<>>
      BY <1>5, <1>6, <2>1 DEF LoParts, HiParts
    <3>. QED
      BY <3>1 DEF Different, ToSet
  <2>2. CASE ~leaf
    <3>. DEFINE a == g[lo].children
                b == g[hi].children
    <3>1. /\ Len(a) = m + 1 /\ \A j \in 1 .. m + 1 : a[j] = kids[j]
          /\ Len(b) = nk - m /\ \A j \in 1 .. nk - m : b[j] = kids[m + 1 + j]
          /\ Len(kids) = nk + 1
      BY <1>5, <1>6, <1>7, <1>8, <2>2 DEF LoParts, HiParts
    <3>2. a \in Seq(Nat) /\ b \in Seq(Nat)
      BY <1>7, <1>8
    <3>. HIDE DEF a, b, kids, leaf, nk
    <3>3. /\ \A x : x \in ToSet(a) <=> \E j \in 1 .. m + 1 : x = kids[j]
          /\ \A x : x \in ToSet(b) <=> \E j \in 1 .. nk - m : x = kids[m + 1 + j]
          /\ \A x : x \in ToSet(kids) <=> \E j \in 1 .. nk + 1 : x = kids[j]
      <4>0. \A x : /\ x \in ToSet(a) <=> \E j \in 1 .. Len(a) : a[j] = x
                   /\ x \in ToSet(b) <=> \E j \in 1 .. Len(b) : b[j] = x
                   /\ x \in ToSet(kids) <=> \E j \in 1 .. Len(kids) : kids[j] = x
        BY <1>6, <3>2, SetOf
      <4>1. \A x : x \in ToSet(a) <=> \E j \in 1 .. m + 1 : x = kids[j]
        BY <3>1, <4>0
      <4>2. \A x : x \in ToSet(b) <=> \E j \in 1 .. nk - m : x = kids[m + 1 + j]
        BY <3>1, <4>0
      <4>3. \A x : x \in ToSet(kids) <=> \E j \in 1 .. nk + 1 : x = kids[j]
        BY <3>1, <4>0
      <4>. QED
        BY <4>1, <4>2, <4>3
    <3>4. m \in Nat /\ nk \in Nat /\ m + 1 <= nk
      BY <1>6
    <3>5. \A i, j \in 1 .. nk + 1 : kids[i] = kids[j] => i = j
      BY <1>2, <3>1 DEF Different
    <3>6. Different(a)
      BY <3>1, <3>4, <3>5 DEF Different
    <3>7. Different(b)
      <4>. SUFFICES ASSUME NEW i \in 1 .. nk - m, NEW j \in 1 .. nk - m, b[i] = b[j]
                    PROVE  i = j
        BY <3>1 DEF Different
      <4>1. m + 1 + i \in 1 .. nk + 1 /\ m + 1 + j \in 1 .. nk + 1
        BY <3>4
      <4>2. m + 1 + i = m + 1 + j
        BY <3>1, <3>5, <4>1
      <4>. QED
        BY <3>4, <4>2
    <3>8. ToSet(a) \subseteq ToSet(kids)
      <4>1. \A j \in 1 .. m + 1 : j \in 1 .. nk + 1
        BY <3>4
      <4>. QED
        BY <3>3, <4>1
    <3>9. ToSet(b) \subseteq ToSet(kids)
      <4>1. \A j \in 1 .. nk - m : m + 1 + j \in 1 .. nk + 1
        BY <3>4
      <4>. QED
        BY <3>3, <4>1
    <3>10. ToSet(kids) \subseteq ToSet(a) \cup ToSet(b)
      <4>. SUFFICES ASSUME NEW j \in 1 .. nk + 1
                    PROVE  kids[j] \in ToSet(a) \cup ToSet(b)
        BY <3>3
      <4>1. CASE j <= m + 1
        <5>1. j \in 1 .. m + 1
          BY <3>4, <4>1
        <5>. QED
          BY <3>3, <5>1
      <4>2. CASE j > m + 1
        <5>1. j - (m + 1) \in 1 .. nk - m /\ m + 1 + (j - (m + 1)) = j
          BY <3>4, <4>2
        <5>. QED
          BY <3>3, <5>1
      <4>. QED
        BY <3>4, <4>1, <4>2
    <3>11. ToSet(a) \cap ToSet(b) = {}
      <4>. SUFFICES ASSUME NEW i \in 1 .. m + 1, NEW j \in 1 .. nk - m,
                           kids[i] = kids[m + 1 + j]
                    PROVE  FALSE
        BY <3>3
      <4>1. i \in 1 .. nk + 1 /\ m + 1 + j \in 1 .. nk + 1 /\ i # m + 1 + j
        BY <3>4
      <4>. QED
        BY <3>5, <4>1
    <3>. QED
      BY <3>6, <3>7, <3>8, <3>9, <3>10, <3>11 DEF a, b
  <2>. QED
    BY <1>6, <2>1, <2>2
<1>10. \A j \in 1 .. n + 2 :
          /\ j < at => g[p].children[j] = h[p].children[j]
          /\ j = at => g[p].children[j] = lo
          /\ j = at + 1 => g[p].children[j] = hi
          /\ j > at + 1 => g[p].children[j] = h[p].children[j - 1]
  BY <1>5 DEF UpParts
<1>11. NumChild(g, p) = n + 2 /\ Len(g[p].children) = n + 2
  BY <1>5, <1>8 DEF UpParts
<1>. HIDE DEF p, at, n, kids, leaf, nk
<1>12. \A x : x \in ToSet(h[p].children) <=> \E j \in 1 .. n + 1 : h[p].children[j] = x
  BY <1>4, SetOf
<1>13. \A x : x \in ToSet(g[p].children) <=> \E j \in 1 .. n + 2 : g[p].children[j] = x
  BY <1>8, <1>11, SetOf
<1>14. n \in Nat /\ at \in Nat /\ 1 <= at /\ at <= n + 1
  BY <1>1, <1>4
<1>. DEFINE old(j) == IF j <= at THEN j ELSE j - 1
<1>15. ASSUME NEW j \in 1 .. n + 2
       PROVE  /\ old(j) \in 1 .. n + 1
              /\ g[p].children[j] = IF j = at THEN lo ELSE IF j = at + 1 THEN hi
                                    ELSE h[p].children[old(j)]
  <2>1. old(j) \in 1 .. n + 1
    BY <1>14
  <2>2. CASE j < at
    BY <1>10, <1>14, <2>2
  <2>3. CASE j = at
    BY <1>10, <1>14, <2>3
  <2>4. CASE j = at + 1
    BY <1>10, <1>14, <2>4
  <2>5. CASE j > at + 1
    BY <1>10, <1>14, <2>5
  <2>. QED
    BY <1>14, <2>1, <2>2, <2>3, <2>4, <2>5
<1>16. \A j \in 1 .. n + 1 : h[p].children[j] # new
  BY <1>3, <1>12
<1>17. \A i, j \in 1 .. n + 1 : h[p].children[i] = h[p].children[j] => i = j
  BY <1>3, <1>4 DEF Different
<1>18. \A j \in 1 .. n + 1 : h[p].children[j] = c => j = at
  BY <1>1, <1>17
<1>19. Different(g[p].children)
  <2>. SUFFICES ASSUME NEW i \in 1 .. n + 2, NEW j \in 1 .. n + 2, i # j,
                       g[p].children[i] = g[p].children[j]
                PROVE  FALSE
    BY <1>11 DEF Different
  <2>1. {lo, hi} = {c, new} /\ lo # hi
    BY <1>7
  <2>2. CASE i \in {at, at + 1} /\ j \in {at, at + 1}
    BY <1>14, <1>15, <2>1, <2>2
  <2>3. ASSUME NEW x \in 1 .. n + 2, x \notin {at, at + 1}
        PROVE  g[p].children[x] \notin {lo, hi} /\ g[p].children[x] = h[p].children[old(x)]
    <3>1. old(x) \in 1 .. n + 1 /\ g[p].children[x] = h[p].children[old(x)]
      BY <1>15, <2>3
    <3>2. old(x) # at
      BY <1>14, <2>3
    <3>. QED
      BY <1>16, <1>18, <2>1, <3>1, <3>2
  <2>4. \A x \in 1 .. n + 2 : x \in {at, at + 1} => g[p].children[x] \in {lo, hi}
    BY <1>14, <1>15
  <2>5. CASE i \notin {at, at + 1} /\ j \notin {at, at + 1}
    <3>1. old(i) = old(j)
      BY <1>15, <1>17, <2>3, <2>5
    <3>. QED
      BY <1>14, <2>5, <3>1
  <2>. QED
    BY <2>2, <2>3, <2>4, <2>5
<1>20. ToSet(g[p].children) = ToSet(h[p].children) \cup {new}
  <2>1. ASSUME NEW x \in ToSet(g[p].children) PROVE x \in ToSet(h[p].children) \cup {new}
    <3>1. PICK j \in 1 .. n + 2 : g[p].children[j] = x
      BY <1>13
    <3>2. x \in {lo, hi} \/ \E i \in 1 .. n + 1 : x = h[p].children[i]
      BY <1>15, <3>1
    <3>3. x \in {c, new} \/ \E i \in 1 .. n + 1 : x = h[p].children[i]
      BY <3>2
    <3>. QED
      BY <1>1, <1>12, <3>3
  <2>2. new \in ToSet(g[p].children) /\ c \in ToSet(g[p].children)
    <3>1. at \in 1 .. n + 2 /\ at + 1 \in 1 .. n + 2 /\ at + 1 # at
      BY <1>14
    <3>2. g[p].children[at] = lo /\ g[p].children[at + 1] = hi
      BY <1>15, <3>1
    <3>. QED
      BY <1>13, <3>1, <3>2
  <2>3. ASSUME NEW x \in ToSet(h[p].children), x # c PROVE x \in ToSet(g[p].children)
    <3>1. PICK j \in 1 .. n + 1 : h[p].children[j] = x
      BY <1>12
    <3>2. j # at
      BY <1>1, <2>3, <3>1
    <3>3. CASE j < at
      <4>1. j \in 1 .. n + 2
        BY <1>14
      <4>. QED
        BY <1>10, <1>13, <3>1, <3>3, <4>1
    <3>4. CASE j > at
      <4>1. j + 1 \in 1 .. n + 2 /\ j + 1 > at + 1 /\ (j + 1) - 1 = j
        BY <1>14, <3>4
      <4>. QED
        BY <1>10, <1>13, <3>1, <4>1
    <3>. QED
      BY <1>14, <3>2, <3>3, <3>4
  <2>. QED
    BY <2>1, <2>2, <2>3
<1>21. ToSet(kids) \cap ToSet(g[p].children) = {}
  BY <1>1, <1>2, <1>3, <1>20
<1>22. ToSet(kids) \cup ToSet(g[p].children) \subseteq DOMAIN g \ {RootPtr}
  BY <1>2, <1>3, <1>7, <1>20
<1>. QED
  BY <1>9, <1>19, <1>20, <1>21, <1>22 DEF KidsApart, p, kids
(* Between h and g, nothing but places and links has changed.              *)
SameHeap(g, h) == Heap(g) /\ DOMAIN g = DOMAIN h /\ \A x \in DOMAIN h : SameBody(g, h, x)

(* Consolidate places the children of n and leaves others where they are.  *)
LEMMA ConsolidatePlaces ==
    ASSUME NEW h, Heap(h), NEW n \in DOMAIN h,
           Different(h[n].children), ToSet(h[n].children) \subseteq DOMAIN h
    PROVE  /\ SameHeap(Consolidate(h, n), h)
           /\ Placed(Consolidate(h, n), n)
           /\ \A x \in DOMAIN h : x \notin ToSet(h[n].children) => SamePlace(Consolidate(h, n), h, x)
<1>. DEFINE g == Consolidate(h, n)
            kids == h[n].children
<1>1. /\ Heap(g) /\ DOMAIN g = DOMAIN h
      /\ \A x \in DOMAIN h : SameBody(g, h, x)
      /\ \A x \in DOMAIN h : x \notin ToSet(kids) => SamePlace(g, h, x)
      /\ \A x \in DOMAIN h : x \in ToSet(kids) => g[x].parent = n
      /\ \A i \in 1 .. NumChild(h, n) : kids[i] \in DOMAIN h => g[kids[i]].childIndex = i - 1
  BY ConsolidateFields
<1>2. kids \in Seq(Nat) /\ NumChild(h, n) = Len(kids)
  BY NodeType
<1>. HIDE DEF g
<1>3. g[n].children = kids /\ NumChild(g, n) = Len(kids)
  BY <1>1 DEF SameBody, NumChild
<1>4. Placed(g, n)
  <2>. SUFFICES ASSUME NEW i \in 1 .. Len(kids)
                PROVE  g[kids[i]].parent = n /\ g[kids[i]].childIndex = i - 1
    BY <1>3 DEF Placed
  <2>1. kids[i] \in ToSet(kids) /\ kids[i] \in DOMAIN h
    BY <1>2, SetOf
  <2>. QED
    BY <1>1, <1>2, <2>1
<1>. QED
  BY <1>1, <1>4 DEF g, SameHeap

(* A node whose children are where they were.                              *)
LEMMA StillPlaced ==
    ASSUME NEW h, Heap(h), NEW g, SameHeap(g, h), NEW n \in DOMAIN h, Placed(h, n),
           ToSet(h[n].children) \subseteq DOMAIN h,
           \A x \in ToSet(h[n].children) : SamePlace(g, h, x)
    PROVE  Placed(g, n)
<1>. DEFINE kids == h[n].children
<1>1. kids \in Seq(Nat) /\ NumChild(h, n) = Len(kids)
  BY NodeType
<1>2. g[n].children = kids /\ NumChild(g, n) = NumChild(h, n)
  BY DEF SameHeap, SameBody, NumChild
<1>. SUFFICES ASSUME NEW i \in 1 .. Len(kids)
              PROVE  g[kids[i]].parent = n /\ g[kids[i]].childIndex = i - 1
  BY <1>1, <1>2 DEF Placed
<1>3. kids[i] \in ToSet(kids)
  BY <1>1, SetOf
<1>4. h[kids[i]].parent = n /\ h[kids[i]].childIndex = i - 1
  BY <1>1 DEF Placed
<1>. QED
  BY <1>3, <1>4 DEF SamePlace

(* Heaps with the same bodies, one after the other.                        *)
LEMMA SameHeapAgain ==
    ASSUME NEW h, NEW g, NEW f, SameHeap(g, h), SameHeap(f, g)
    PROVE  SameHeap(f, h)
  BY DEF SameHeap, SameBody

(* Setting a link changes no more than that link.                          *)
LEMMA LinkSet ==
    ASSUME NEW h, Heap(h), NEW n \in Pointer, NEW m \in Pointer,
           NEW g, g = SetNext(h, n, m) \/ g = SetPrev(h, n, m)
    PROVE  SameHeap(g, h) /\ \A x \in DOMAIN h : SamePlace(g, h, x)
<1>1. \A x \in DOMAIN h : x # Null /\ h[x] \in Node
  BY DEF Heap, Null
<1>2. CASE n = Null
  BY <1>1, <1>2 DEF SetNext, SetPrev, SameBody, SamePlace, SameHeap
<1>3. CASE n # Null
  <2>1. g = [h EXCEPT ![n].next = m] \/ g = [h EXCEPT ![n].prev = m]
    BY <1>3 DEF SetNext, SetPrev
  <2>2. ASSUME NEW x \in DOMAIN h
        PROVE  g[x] = h[x] \/ g[x] = [h[x] EXCEPT !.next = m] \/ g[x] = [h[x] EXCEPT !.prev = m]
    BY <2>1
  <2>3. DOMAIN g = DOMAIN h /\ g = [x \in DOMAIN h |-> g[x]]
    BY <2>1
  <2>4. ASSUME NEW x \in DOMAIN h
        PROVE  g[x] \in Node /\ SameBody(g, h, x) /\ SamePlace(g, h, x)
    <3>1. CASE g[x] = h[x]
      BY <1>1, <3>1 DEF SameBody, SamePlace
    <3>2. CASE g[x] = [h[x] EXCEPT !.next = m]
      BY <1>1, <3>2 DEF Node, SameBody, SamePlace
    <3>3. CASE g[x] = [h[x] EXCEPT !.prev = m]
      BY <1>1, <3>3 DEF Node, SameBody, SamePlace
    <3>. QED
      BY <2>2, <3>1, <3>2, <3>3
  <2>5. Heap(g)
    BY <2>3, <2>4 DEF Heap
  <2>. QED
    BY <2>3, <2>4, <2>5 DEF SameHeap
<1>. QED
  BY <1>2, <1>3

(* Two links are set at the end.                                           *)
LEMMA LinksSet ==
    ASSUME NEW h, Heap(h), NEW n \in Pointer, NEW m \in Pointer,
           NEW k \in Pointer, NEW l \in Pointer,
           NEW g, g = SetNext(SetPrev(h, n, m), k, l) \/ g = SetPrev(SetNext(h, n, m), k, l)
    PROVE  SameHeap(g, h) /\ \A x \in DOMAIN h : SamePlace(g, h, x)
<1>1. PICK f : /\ f = SetNext(h, n, m) \/ f = SetPrev(h, n, m)
               /\ g = SetNext(f, k, l) \/ g = SetPrev(f, k, l)
  OBVIOUS
<1>2. SameHeap(f, h) /\ \A x \in DOMAIN h : SamePlace(f, h, x)
  BY <1>1, LinkSet
<1>3. Heap(f) /\ DOMAIN f = DOMAIN h
  BY <1>2 DEF SameHeap
<1>4. SameHeap(g, f) /\ \A x \in DOMAIN h : SamePlace(g, f, x)
  BY <1>1, <1>3, LinkSet
<1>. QED
  BY <1>2, <1>4, SameHeapAgain DEF SamePlace

(* A node with other links.                                                *)
LinkedTo(d, a, b) == [d EXCEPT !.prev = a, !.next = b]

(* A node with other links is a node.                                      *)
LEMMA LinkedType ==
    ASSUME NEW d \in Node, NEW a \in Pointer, NEW b \in Pointer
    PROVE  LinkedTo(d, a, b) \in Node /\ LinkedTo(d, a, b).isLeaf = d.isLeaf
  BY DEF Node, LinkedTo

(* Links and places do not matter to what a split does to the bodies.      *)
LEMMA SplitStill ==
    ASSUME NEW h, NEW w, NEW g, NEW c, NEW m, NEW lo, NEW hi,
           SplitBodies(h, w, c, m, lo, hi), SameHeap(g, w),
           DOMAIN h \subseteq DOMAIN w, {lo, hi, h[c].parent} \subseteq DOMAIN w
    PROVE  SplitBodies(h, g, c, m, lo, hi)
<1>1. /\ SameBody(g, w, lo) /\ SameBody(g, w, hi) /\ SameBody(g, w, h[c].parent)
      /\ \A x \in DOMAIN h : SameBody(g, w, x)
  BY DEF SameHeap
<1>2. \A x \in DOMAIN h \ {c, h[c].parent} : SameBody(w, h, x)
  BY DEF SplitBodies
<1>3. \A x \in DOMAIN h \ {c, h[c].parent} : SameBody(g, h, x)
  BY <1>1, <1>2 DEF SameBody
<1>. QED
  BY <1>1, <1>3 DEF SplitBodies, SameBody

(* The heap after a split, before it is known to be a tree.                *)
LEMMA SplitIs ==
    ASSUME NEW h, NEW range, NEW height, IsTree(h, range, height),
           NEW c \in DOMAIN h \ {RootPtr}, NEW m \in 1 .. NumKeys(h, c) - 1,
           NEW toLeft \in BOOLEAN
    PROVE  LET new == Allocate(h)
           IN IsSplit(h, SplitAt(h, c, m, toLeft), c, m,
                      IF toLeft THEN new ELSE c, IF toLeft THEN c ELSE new, new)
<1>. DEFINE p == h[c].parent
            new == Allocate(h)
            lo == IF toLeft THEN new ELSE c
            hi == IF toLeft THEN c ELSE new
            node == [NewNode(h[c].isLeaf) EXCEPT !.prev = IF toLeft THEN h[c].prev ELSE c,
                                                 !.next = IF toLeft THEN c ELSE h[c].next]
            w == Written(h, c, m, lo, hi, new, node)
            g1 == Consolidate(w, new)
            g2 == Consolidate(g1, c)
            g3 == Consolidate(g2, p)
            g == SplitAt(h, c, m, toLeft)
<1>1. Heap(h) /\ c \in Nat /\ c \in DOMAIN h /\ h[c].prev \in Pointer /\ h[c].next \in Pointer
      /\ h[c].isLeaf \in BOOLEAN
  BY NodeType DEF IsTree
<1>2. new \in Nat /\ new \notin DOMAIN h
  BY <1>1, AllocateIsNew
<1>3. p \in DOMAIN h /\ p # c
  BY ParentOf
<1>4. node \in Node /\ node.isLeaf = h[c].isLeaf
  <2>1. /\ (IF toLeft THEN h[c].prev ELSE c) \in Pointer
        /\ (IF toLeft THEN c ELSE h[c].next) \in Pointer
    BY <1>1 DEF Pointer
  <2>2. node = LinkedTo(NewNode(h[c].isLeaf), IF toLeft THEN h[c].prev ELSE c,
                                            IF toLeft THEN c ELSE h[c].next)
    BY DEF LinkedTo
  <2>3. NewNode(h[c].isLeaf) \in Node /\ NewNode(h[c].isLeaf).isLeaf = h[c].isLeaf
    BY <1>1, NewNodeType DEF NewNode
  <2>. HIDE DEF node
  <2>. QED
    BY <2>1, <2>2, <2>3, LinkedType
<1>5. (lo = c /\ hi = new) \/ (lo = new /\ hi = c)
  OBVIOUS
<1>6. \/ g = SetNext(SetPrev(g3, c, new), h[c].prev, new)
      \/ g = SetPrev(SetNext(g3, c, new), h[c].next, new)
  BY <1>2 DEF SplitAt, Written
<1>. HIDE DEF node, g, lo, hi, new
<1>. HIDE DEF w
<1>25. w = Written(h, c, m, lo, hi, new, node)
  BY DEF w
<1>7. /\ Heap(w) /\ DOMAIN w = DOMAIN h \cup {new}
      /\ SplitBodies(h, w, c, m, lo, hi)
      /\ \A x \in DOMAIN h : SamePlace(w, h, x)
  <2>. HIDE DEF p
  <2>1. IsWritten(h, w, c, m, lo, hi, new, node)
    BY <1>2, <1>4, <1>5, <1>25, SplitWritten
  <2>. QED
    BY <2>1 DEF IsWritten
<1>. HIDE DEF p
<1>8. KidsApart(h, w, c, lo, hi, new)
  BY <1>2, <1>5, <1>7, KidsAreApart
<1>9. {lo, hi} = {new, c} /\ {new, c, p} \subseteq DOMAIN w
  BY <1>1, <1>3, <1>5, <1>7
<1>. DEFINE N == ToSet(w[new].children)
            C == ToSet(w[c].children)
            P == ToSet(w[p].children)
<1>10. /\ Different(w[new].children) /\ Different(w[c].children) /\ Different(w[p].children)
       /\ N \subseteq DOMAIN w /\ C \subseteq DOMAIN w /\ P \subseteq DOMAIN w
       /\ N \cap C = {} /\ N \cap P = {} /\ C \cap P = {}
       /\ N \cup C \subseteq ToSet(h[c].children)
       /\ P = ToSet(h[p].children) \cup {new}
  BY <1>5, <1>8 DEF KidsApart, p
<1>11. /\ SameHeap(g1, w) /\ Placed(g1, new)
       /\ \A x \in DOMAIN w : x \notin N => SamePlace(g1, w, x)
  BY <1>7, <1>9, <1>10, ConsolidatePlaces
<1>12. /\ Heap(g1) /\ DOMAIN g1 = DOMAIN w /\ g1[c].children = w[c].children
       /\ g1[p].children = w[p].children /\ g1[new].children = w[new].children
  BY <1>9, <1>11 DEF SameHeap, SameBody
<1>. HIDE DEF g1
<1>13. /\ SameHeap(g2, g1) /\ Placed(g2, c)
       /\ \A x \in DOMAIN w : x \notin C => SamePlace(g2, g1, x)
  BY <1>9, <1>10, <1>12, ConsolidatePlaces
<1>14. /\ Heap(g2) /\ DOMAIN g2 = DOMAIN w /\ g2[c].children = w[c].children
       /\ g2[p].children = w[p].children /\ g2[new].children = w[new].children
  BY <1>9, <1>12, <1>13 DEF SameHeap, SameBody
<1>15. Placed(g2, new)
  BY <1>9, <1>10, <1>11, <1>12, <1>13, StillPlaced
<1>. HIDE DEF g2
<1>16. /\ SameHeap(g3, g2) /\ Placed(g3, p)
       /\ \A x \in DOMAIN w : x \notin P => SamePlace(g3, g2, x)
  BY <1>9, <1>10, <1>14, ConsolidatePlaces
<1>17. Placed(g3, new) /\ Placed(g3, c)
  BY <1>9, <1>10, <1>13, <1>14, <1>15, <1>16, StillPlaced
<1>18. /\ Heap(g3) /\ DOMAIN g3 = DOMAIN w /\ g3[c].children = w[c].children
       /\ g3[p].children = w[p].children /\ g3[new].children = w[new].children
  BY <1>9, <1>14, <1>16 DEF SameHeap, SameBody
<1>. HIDE DEF g3
<1>19. SameHeap(g, g3) /\ \A x \in DOMAIN w : SamePlace(g, g3, x)
  <2>1. c \in Pointer /\ new \in Pointer
    BY <1>1, <1>2 DEF Pointer
  <2>. QED
    BY <1>1, <1>6, <1>18, <2>1, LinksSet
<1>20. Placed(g, new) /\ Placed(g, c) /\ Placed(g, p)
  BY <1>9, <1>10, <1>16, <1>17, <1>18, <1>19, StillPlaced
<1>21. SameHeap(g, w)
  BY <1>11, <1>13, <1>16, <1>19, SameHeapAgain
<1>22. SplitBodies(h, g, c, m, lo, hi)
  BY <1>3, <1>7, <1>9, <1>21, SplitStill DEF p
<1>23. ASSUME NEW x \in DOMAIN h, x \notin ToSet(h[c].children) \cup ToSet(h[p].children)
       PROVE  SamePlace(g, h, x)
  <2>1. x \notin N /\ x \notin C /\ x \notin P /\ x \in DOMAIN w
    BY <1>2, <1>7, <1>10, <1>23
  <2>. QED
    BY <1>7, <1>11, <1>13, <1>16, <1>19, <2>1 DEF SamePlace
<1>24. Heap(g) /\ DOMAIN g = DOMAIN h \cup {new} /\ Placed(g, lo) /\ Placed(g, hi)
  BY <1>7, <1>9, <1>20, <1>21 DEF SameHeap
<1>. QED
  BY <1>2, <1>5, <1>20, <1>22, <1>23, <1>24 DEF IsSplit, g, lo, hi, new, p
-----------------------------------------------------------------------------
(* A split leaves a tree                                                   *)

Separator(h, c, m) == h[c].keys[m + 1]

SplitRange(h, range, c, m, lo, hi, new) ==
    [x \in DOMAIN h \cup {new} |->
        IF x = lo THEN {k \in range[c] : k < Separator(h, c, m)}
        ELSE IF x = hi THEN {k \in range[c] : k >= Separator(h, c, m)}
        ELSE range[x]]

SplitHeight(h, height, c, new) ==
    [x \in DOMAIN h \cup {new} |-> IF x = new THEN height[c] ELSE height[x]]

(* The keys of a node of a tree, and the search in it.                     *)
LEMMA KeysOf ==
    ASSUME NEW h, NEW range, NEW height, IsTree(h, range, height), NEW n \in DOMAIN h
    PROVE  /\ h[n].keys \in Seq(Nat) /\ NumKeys(h, n) \in Nat /\ NumKeys(h, n) = Len(h[n].keys)
           /\ \A i \in 1 .. NumKeys(h, n) : h[n].keys[i] \in Nat /\ h[n].keys[i] \in range[n]
           /\ \A i, j \in 1 .. NumKeys(h, n) : i < j => h[n].keys[i] < h[n].keys[j]
           /\ Ascending(h[n].keys)
           /\ range[n] \subseteq Nat
<1>1. NodeFits(h, range, height, n) /\ Heap(h) /\ range \in [DOMAIN h -> SUBSET Nat]
  BY DEF IsTree
<1>2. h[n].keys \in Seq(Nat) /\ NumKeys(h, n) \in Nat /\ NumKeys(h, n) = Len(h[n].keys)
  BY <1>1, NodeType
<1>3. \A i \in 1 .. Len(h[n].keys) : h[n].keys[i] \in ToSet(h[n].keys)
  BY <1>2, SetOf
<1>. QED
  BY <1>1, <1>2, <1>3 DEF NodeFits, Ascending

(* The search splits the keys at the child it turns to.                    *)
LEMMA SearchIn ==
    ASSUME NEW h, NEW range, NEW height, IsTree(h, range, height), NEW n \in DOMAIN h, NEW k \in Nat
    PROVE  /\ GtKeyIdx(h, n, k) \in 0 .. NumKeys(h, n)
           /\ \A i \in 1 .. NumKeys(h, n) : h[n].keys[i] <= k <=> i <= GtKeyIdx(h, n, k)
<1>1. h[n].keys \in Seq(Nat) /\ Ascending(h[n].keys) /\ NumKeys(h, n) = Len(h[n].keys)
  BY KeysOf
<1>. QED
  BY <1>1, Turn DEF GtKeyIdx

(* What the steps below need of a split.                                   *)
SplitFact(h, range, height, c, m, g, lo, hi, new) ==
    LET p == h[c].parent
        at == h[c].childIndex + 1
    IN /\ LoParts(h, g, c, m, lo) /\ HiParts(h, g, c, m, hi) /\ UpParts(h, g, c, m, lo, hi)
       /\ KidsApart(h, g, c, lo, hi, new)
       /\ Heap(g) /\ DOMAIN g = DOMAIN h \cup {new} /\ new \notin DOMAIN h /\ new \in Nat
       /\ {lo, hi} = {c, new} /\ lo # hi /\ new # RootPtr
       /\ p \in DOMAIN h /\ p \notin {lo, hi} /\ {lo, hi, p} \subseteq DOMAIN g
       /\ at \in Nat /\ at \in 1 .. NumKeys(h, p) + 1
       /\ NumChild(h, p) = NumKeys(h, p) + 1 /\ h[p].children[at] = c
       /\ height[p] = height[c] + 1
       /\ range[c] = Turned(h, range, p, at)
       /\ m \in Nat /\ m >= 1 /\ m + 1 \in 1 .. NumKeys(h, c)
       /\ Separator(h, c, m) \in Nat /\ Separator(h, c, m) \in range[c]
       /\ Separator(h, c, m) = h[c].keys[m + 1]

(* They hold in a tree.                                                    *)
LEMMA SplitFacts ==
    ASSUME NEW h, NEW range, NEW height, IsTree(h, range, height),
           NEW c \in DOMAIN h \ {RootPtr}, NEW m \in 1 .. NumKeys(h, c) - 1,
           NEW g, NEW lo, NEW hi, NEW new, IsSplit(h, g, c, m, lo, hi, new)
    PROVE  SplitFact(h, range, height, c, m, g, lo, hi, new)
<1>1. /\ Heap(g) /\ DOMAIN g = DOMAIN h \cup {new} /\ new \notin DOMAIN h
      /\ (lo = c /\ hi = new) \/ (lo = new /\ hi = c)
      /\ SplitBodies(h, g, c, m, lo, hi)
  BY DEF IsSplit
<1>2. new \in Nat /\ new # RootPtr /\ c \in DOMAIN h
  BY <1>1 DEF Heap, IsTree
<1>3. LoParts(h, g, c, m, lo) /\ HiParts(h, g, c, m, hi) /\ UpParts(h, g, c, m, lo, hi)
  BY <1>1, <1>2, LoIs, HiIs, UpIs
<1>4. KidsApart(h, g, c, lo, hi, new)
  BY <1>1, <1>2, KidsAreApart
<1>5. m \in Nat /\ m >= 1 /\ m + 1 \in 1 .. NumKeys(h, c)
  BY FullNode
<1>6. Separator(h, c, m) \in Nat /\ Separator(h, c, m) \in range[c]
  BY <1>2, <1>5, KeysOf DEF Separator
<1>. DEFINE p == h[c].parent
            at == h[c].childIndex + 1
<1>7. /\ p \in DOMAIN h /\ p # c
      /\ at \in 1 .. NumKeys(h, p) + 1 /\ NumChild(h, p) = NumKeys(h, p) + 1
      /\ h[p].children[at] = c
      /\ height[p] = height[c] + 1
      /\ range[c] = Turned(h, range, p, at)
  BY ParentOf
<1>8. at \in Nat
  BY <1>7
<1>9. p \notin {lo, hi} /\ {lo, hi, p} \subseteq DOMAIN g /\ {lo, hi} = {c, new} /\ lo # hi
  BY <1>1, <1>2, <1>7
<1>. QED
  BY <1>1, <1>2, <1>3, <1>4, <1>5, <1>6, <1>7, <1>8, <1>9 DEF Separator, SplitFact

(* Where the search goes below the separator, above it, and one node up.   *)
LEMMA SearchLo ==
    ASSUME NEW h, NEW range, NEW height, IsTree(h, range, height),
           NEW c \in DOMAIN h \ {RootPtr}, NEW m \in 1 .. NumKeys(h, c) - 1,
           NEW g, NEW lo, NEW hi, NEW new, IsSplit(h, g, c, m, lo, hi, new)
    PROVE  /\ Ascending(g[lo].keys)
           /\ \A x \in ToSet(g[lo].keys) : x \in range[c] /\ x < Separator(h, c, m)
           /\ \A k \in Nat : k < Separator(h, c, m) =>
                 GtKeyIdx(g, lo, k) = GtKeyIdx(h, c, k) /\ GtKeyIdx(h, c, k) <= m
<1>. DEFINE keys == h[c].keys
            nk == NumKeys(h, c)
            sep == Separator(h, c, m)
            l == g[lo].keys
<1>0. SplitFact(h, range, height, c, m, g, lo, hi, new)
  BY SplitFacts
<1>1. /\ LoParts(h, g, c, m, lo) /\ Heap(g) /\ lo \in DOMAIN g
      /\ m \in Nat /\ m >= 1 /\ m + 1 \in 1 .. nk /\ sep \in Nat /\ sep = keys[m + 1]
  BY <1>0 DEF SplitFact
<1>2. l \in Seq(Nat) /\ Len(l) = m /\ \A j \in 1 .. m : l[j] = keys[j]
  BY <1>1, NodeType DEF LoParts
<1>3. /\ nk \in Nat /\ \A i \in 1 .. nk : keys[i] \in Nat /\ keys[i] \in range[c]
      /\ \A i, j \in 1 .. nk : i < j => keys[i] < keys[j]
  BY KeysOf
<1>. HIDE DEF keys, nk, sep, l
<1>4. \A j \in 1 .. m : j \in 1 .. nk /\ l[j] = keys[j] /\ keys[j] < sep
  BY <1>1, <1>2, <1>3
<1>5. Ascending(l)
  BY <1>2, <1>3, <1>4 DEF Ascending
<1>6. \A x \in ToSet(l) : x \in range[c] /\ x < sep
  <2>1. \A x \in ToSet(l) : \E j \in 1 .. m : l[j] = x
    BY <1>2, SetOf
  <2>. QED
    BY <1>3, <1>4, <2>1
<1>7. ASSUME NEW k \in Nat, k < sep
      PROVE  GtKeyIdx(g, lo, k) = GtKeyIdx(h, c, k) /\ GtKeyIdx(h, c, k) <= m
  <2>. DEFINE r == GtKeyIdx(h, c, k)
  <2>1. r \in 0 .. nk /\ \A i \in 1 .. nk : keys[i] <= k <=> i <= r
    BY SearchIn DEF keys, nk
  <2>. HIDE DEF r
  <2>2. r <= m
    BY <1>1, <1>3, <1>7, <2>1
  <2>3. r \in 0 .. Len(l) /\ \A i \in 1 .. Len(l) : l[i] <= k <=> i <= r
    BY <1>1, <1>2, <1>4, <2>1, <2>2
  <2>4. BlockSearch(l, k) = r
    BY <1>2, <1>5, <2>3, TurnIs
  <2>. QED
    BY <2>2, <2>4 DEF GtKeyIdx, l, r
<1>. QED
  BY <1>5, <1>6, <1>7 DEF l, sep

(* The search in the node right of the cut.                                *)
LEMMA SearchHi ==
    ASSUME NEW h, NEW range, NEW height, IsTree(h, range, height),
           NEW c \in DOMAIN h \ {RootPtr}, NEW m \in 1 .. NumKeys(h, c) - 1,
           NEW g, NEW lo, NEW hi, NEW new, IsSplit(h, g, c, m, lo, hi, new)
    PROVE  /\ Ascending(g[hi].keys)
           /\ \A x \in ToSet(g[hi].keys) : x \in range[c] /\ x >= Separator(h, c, m)
           /\ ~h[c].isLeaf => \A k \in Nat : k >= Separator(h, c, m) =>
                 /\ GtKeyIdx(g, hi, k) = GtKeyIdx(h, c, k) - (m + 1)
                 /\ GtKeyIdx(h, c, k) >= m + 1
<1>. DEFINE keys == h[c].keys
            nk == NumKeys(h, c)
            sep == Separator(h, c, m)
            l == g[hi].keys
            leaf == h[c].isLeaf
            over == IF leaf THEN m ELSE m + 1
<1>0. SplitFact(h, range, height, c, m, g, lo, hi, new)
  BY SplitFacts
<1>1. /\ HiParts(h, g, c, m, hi) /\ Heap(g) /\ hi \in DOMAIN g
      /\ m \in Nat /\ m >= 1 /\ m + 1 \in 1 .. nk /\ sep \in Nat /\ sep = keys[m + 1]
  BY <1>0 DEF SplitFact
<1>2. /\ nk \in Nat /\ \A i \in 1 .. nk : keys[i] \in Nat /\ keys[i] \in range[c]
      /\ \A i, j \in 1 .. nk : i < j => keys[i] < keys[j]
  BY KeysOf
<1>3. l \in Seq(Nat) /\ NumKeys(g, hi) = Len(l)
  BY <1>1, NodeType
<1>4. Len(l) = nk - over /\ \A j \in 1 .. nk - over : l[j] = keys[over + j]
  <2>1. CASE leaf
    <3>1. over = m
      BY <2>1
    <3>. QED
      BY <1>1, <1>3, <2>1, <3>1 DEF HiParts
  <2>2. CASE ~leaf
    <3>1. over = m + 1 /\ nk - over = nk - m - 1
      BY <1>1, <1>2, <2>2
    <3>. QED
      BY <1>1, <1>3, <2>2, <3>1 DEF HiParts
  <2>3. leaf \in BOOLEAN
    BY FullNode
  <2>. QED
    BY <2>1, <2>2, <2>3
<1>5. over \in Nat /\ over <= nk /\ over >= m
  <2>. HIDE DEF leaf, nk
  <2>. QED
    BY <1>1, <1>2
<1>. HIDE DEF keys, nk, sep, l, leaf, over
<1>6. ASSUME NEW j \in 1 .. nk - over
      PROVE  over + j \in 1 .. nk /\ l[j] = keys[over + j] /\ keys[over + j] >= sep
  <2>1. over + j \in 1 .. nk /\ over + j >= m + 1
    BY <1>1, <1>2, <1>5
  <2>2. keys[over + j] >= sep
    BY <1>1, <1>2, <2>1
  <2>. QED
    BY <1>4, <2>1, <2>2
<1>7. Ascending(l)
  <2>. SUFFICES ASSUME NEW i \in 1 .. nk - over, NEW j \in 1 .. nk - over, i < j
                PROVE  l[i] < l[j]
    BY <1>4 DEF Ascending
  <2>1. over + i < over + j
    BY <1>5
  <2>. QED
    BY <1>2, <1>6, <2>1
<1>8. \A x \in ToSet(l) : x \in range[c] /\ x >= sep
  <2>1. \A x \in ToSet(l) : \E j \in 1 .. nk - over : l[j] = x
    BY <1>3, <1>4, SetOf
  <2>. QED
    BY <1>2, <1>6, <2>1
<1>9. ASSUME ~leaf, NEW k \in Nat, k >= sep
      PROVE  GtKeyIdx(g, hi, k) = GtKeyIdx(h, c, k) - (m + 1) /\ GtKeyIdx(h, c, k) >= m + 1
  <2>. DEFINE r == GtKeyIdx(h, c, k)
              q == r - (m + 1)
  <2>1. r \in 0 .. nk /\ \A i \in 1 .. nk : keys[i] <= k <=> i <= r
    BY SearchIn DEF keys, nk
  <2>. HIDE DEF r
  <2>2. over = m + 1
    BY <1>9 DEF over
  <2>3. r >= m + 1
    BY <1>1, <1>2, <1>9, <2>1
  <2>4. q \in 0 .. Len(l)
    BY <1>1, <1>2, <1>4, <2>1, <2>2, <2>3
  <2>5. ASSUME NEW i \in 1 .. Len(l) PROVE l[i] <= k <=> i <= q
    <3>1. over + i \in 1 .. nk /\ l[i] = keys[over + i]
      BY <1>4, <1>6
    <3>2. keys[over + i] <= k <=> over + i <= r
      BY <2>1, <3>1
    <3>3. over + i <= r <=> i <= q
      BY <1>1, <1>4, <1>5, <2>1, <2>2
    <3>. QED
      BY <3>1, <3>2, <3>3
  <2>. HIDE DEF q
  <2>6. BlockSearch(l, k) = q
    BY <1>3, <1>7, <2>4, <2>5, TurnIs
  <2>. QED
    BY <2>3, <2>6 DEF GtKeyIdx, l, r, q
<1>. QED
  BY <1>7, <1>8, <1>9 DEF l, sep, leaf

(* The search in the parent: it turns to one of the two where it turned to *)
(* c.                                                                      *)
LEMMA SearchUp ==
    ASSUME NEW h, NEW range, NEW height, IsTree(h, range, height),
           NEW c \in DOMAIN h \ {RootPtr}, NEW m \in 1 .. NumKeys(h, c) - 1,
           NEW g, NEW lo, NEW hi, NEW new, IsSplit(h, g, c, m, lo, hi, new)
    PROVE  LET p == h[c].parent
               at == h[c].childIndex + 1
           IN /\ Ascending(g[p].keys) /\ ToSet(g[p].keys) \subseteq range[p]
              /\ \A k \in Nat :
                    /\ GtKeyIdx(h, p, k) \in Nat
                    /\ GtKeyIdx(h, p, k) < at - 1 => GtKeyIdx(g, p, k) = GtKeyIdx(h, p, k)
                    /\ GtKeyIdx(h, p, k) >= at => GtKeyIdx(g, p, k) = GtKeyIdx(h, p, k) + 1
                    /\ GtKeyIdx(h, p, k) = at - 1 =>
                          GtKeyIdx(g, p, k) = IF k < Separator(h, c, m) THEN at - 1 ELSE at
<1>. DEFINE p == h[c].parent
            at == h[c].childIndex + 1
            n == NumKeys(h, p)
            pk == h[p].keys
            u == g[p].keys
            sep == Separator(h, c, m)
            low == h[c].keys[1]
<1>0. SplitFact(h, range, height, c, m, g, lo, hi, new)
  BY SplitFacts
<1>1. /\ UpParts(h, g, c, m, lo, hi) /\ Heap(g) /\ p \in DOMAIN g /\ p \in DOMAIN h
      /\ at \in Nat /\ at \in 1 .. n + 1 /\ range[c] = Turned(h, range, p, at)
      /\ m \in Nat /\ m >= 1 /\ m + 1 \in 1 .. NumKeys(h, c)
      /\ sep \in Nat /\ sep = h[c].keys[m + 1] /\ sep \in range[c]
  BY <1>0 DEF SplitFact
<1>2. u \in Seq(Nat) /\ Len(u) = NumKeys(g, p)
  BY <1>1, NodeType
<1>3. /\ Len(u) = n + 1
      /\ \A j \in 1 .. n + 1 : /\ j < at => u[j] = pk[j]
                               /\ j = at => u[j] = sep
                               /\ j > at => u[j] = pk[j - 1]
  BY <1>1, <1>2 DEF UpParts
<1>4. low \in Nat /\ low \in range[c] /\ low < sep
  <2>1. 1 \in 1 .. NumKeys(h, c) /\ 1 < m + 1 /\ NumKeys(h, c) \in Nat
    BY <1>1, KeysOf
  <2>. QED
    BY <1>1, <2>1, KeysOf
<1>5. /\ n \in Nat /\ \A i \in 1 .. n : pk[i] \in Nat /\ pk[i] \in range[p]
      /\ \A i, j \in 1 .. n : i < j => pk[i] < pk[j]
  BY <1>1, KeysOf
<1>6. \A k \in Nat : /\ GtKeyIdx(h, p, k) \in 0 .. n
                     /\ \A i \in 1 .. n : pk[i] <= k <=> i <= GtKeyIdx(h, p, k)
  BY <1>1, SearchIn
<1>7. GtKeyIdx(h, p, sep) = at - 1 /\ GtKeyIdx(h, p, low) = at - 1 /\ sep \in range[p]
  BY <1>1, <1>4 DEF Turned
<1>. HIDE DEF p, at, n, pk, u, sep, low
<1>8. \A i \in 1 .. n : (i < at => pk[i] < sep) /\ (i >= at => pk[i] > sep)
  <2>1. \A i \in 1 .. n : i <= at - 1 => pk[i] <= low
    BY <1>4, <1>6, <1>7
  <2>2. \A i \in 1 .. n : i > at - 1 => ~(pk[i] <= sep)
    BY <1>1, <1>6, <1>7
  <2>. QED
    BY <1>1, <1>4, <1>5, <2>1, <2>2
<1>9. ASSUME NEW j \in 1 .. n + 1
      PROVE  /\ j < at => j \in 1 .. n /\ u[j] = pk[j] /\ u[j] < sep
             /\ j = at => u[j] = sep
             /\ j > at => j - 1 \in 1 .. n /\ u[j] = pk[j - 1] /\ u[j] > sep /\ j - 1 >= at
             /\ u[j] \in range[p]
  <2>1. j < at => j \in 1 .. n /\ u[j] = pk[j] /\ u[j] < sep
    BY <1>1, <1>3, <1>5, <1>8
  <2>2. j > at => j - 1 \in 1 .. n /\ u[j] = pk[j - 1] /\ u[j] > sep /\ j - 1 >= at
    BY <1>1, <1>3, <1>5, <1>8
  <2>3. j = at => u[j] = sep
    BY <1>3
  <2>. QED
    BY <1>1, <1>5, <1>7, <2>1, <2>2, <2>3
<1>10. Ascending(u)
  <2>. SUFFICES ASSUME NEW i \in 1 .. n + 1, NEW j \in 1 .. n + 1, i < j PROVE u[i] < u[j]
    BY <1>3 DEF Ascending
  <2>1. CASE j < at
    BY <1>1, <1>5, <1>9, <2>1
  <2>2. CASE i > at
    <3>1. j > at /\ i - 1 < j - 1
      BY <1>1, <1>5, <2>2
    <3>. QED
      BY <1>5, <1>9, <2>2, <3>1
  <2>3. CASE i <= at /\ j >= at
    <3>0. \A x \in 1 .. n + 1 : u[x] \in Nat
      BY <1>2, <1>3
    <3>1. u[i] <= sep /\ sep <= u[j] /\ (u[i] < sep \/ sep < u[j])
      BY <1>1, <1>5, <1>9, <2>3, <3>0
    <3>. QED
      BY <1>1, <3>0, <3>1
  <2>. QED
    BY <1>1, <1>5, <2>1, <2>2, <2>3
<1>11. ToSet(u) \subseteq range[p]
  <2>1. \A x \in ToSet(u) : \E j \in 1 .. n + 1 : u[j] = x
    BY <1>2, <1>3, SetOf
  <2>. QED
    BY <1>9, <2>1
<1>12. ASSUME NEW k \in Nat
       PROVE  LET r == GtKeyIdx(h, p, k)
              IN /\ r \in Nat
                 /\ r < at - 1 => GtKeyIdx(g, p, k) = r
                 /\ r >= at => GtKeyIdx(g, p, k) = r + 1
                 /\ r = at - 1 => GtKeyIdx(g, p, k) = IF k < sep THEN at - 1 ELSE at
  <2>. DEFINE r == GtKeyIdx(h, p, k)
              q == IF r < at - 1 THEN r ELSE IF r >= at THEN r + 1
                   ELSE IF k < sep THEN at - 1 ELSE at
  <2>1. r \in 0 .. n /\ r \in Nat /\ \A i \in 1 .. n : pk[i] <= k <=> i <= r
    BY <1>5, <1>6
  <2>. HIDE DEF r
  <2>2. q \in 0 .. n + 1
    BY <1>1, <1>5, <2>1
  <2>3. sep <= k <=> q >= at
    <3>1. CASE r < at - 1
      <4>1. ~(sep <= k)
        <5>1. r + 1 \in 1 .. n /\ r + 1 < at
          BY <1>1, <1>5, <2>1, <3>1
        <5>2. pk[r + 1] < sep /\ ~(pk[r + 1] <= k)
          BY <1>8, <2>1, <5>1
        <5>. QED
          BY <1>1, <1>5, <5>1, <5>2
      <4>. QED
        BY <1>1, <2>1, <3>1, <4>1
    <3>2. CASE r >= at
      <4>1. sep <= k
        <5>1. r \in 1 .. n
          BY <1>1, <2>1, <3>2
        <5>2. pk[r] > sep /\ pk[r] <= k
          BY <1>8, <2>1, <3>2, <5>1
        <5>. QED
          BY <1>1, <1>5, <5>1, <5>2
      <4>. QED
        BY <1>1, <2>1, <3>2, <4>1
    <3>3. CASE r = at - 1
      BY <1>1, <2>1, <3>3
    <3>. QED
      BY <1>1, <2>1, <3>1, <3>2, <3>3
  <2>5. ASSUME NEW i \in 1 .. n + 1 PROVE u[i] <= k <=> i <= q
    <3>1. CASE i < at
      <4>1. u[i] <= k <=> i <= r
        BY <1>9, <2>1, <3>1
      <4>2. i <= r <=> i <= q
        BY <1>1, <2>1, <2>2, <3>1
      <4>. QED
        BY <4>1, <4>2
    <3>2. CASE i = at
      BY <1>1, <1>9, <2>3, <3>2
    <3>3. CASE i > at
      <4>1. u[i] <= k <=> i - 1 <= r
        BY <1>9, <2>1, <3>3
      <4>2. i - 1 <= r <=> i <= q
        BY <1>1, <2>1, <2>2, <3>3
      <4>. QED
        BY <4>1, <4>2
    <3>. QED
      BY <1>1, <3>1, <3>2, <3>3
  <2>. HIDE DEF q
  <2>6. BlockSearch(u, k) = q
    BY <1>2, <1>3, <1>10, <2>2, <2>5, TurnIs
  <2>7. GtKeyIdx(g, p, k) = q
    BY <2>6 DEF GtKeyIdx, u
  <2>8. /\ r < at - 1 => q = r
        /\ r >= at => q = r + 1
        /\ r = at - 1 => q = IF k < sep THEN at - 1 ELSE at
    BY <1>1, <2>1 DEF q
  <2>. QED
    BY <2>1, <2>7, <2>8 DEF r
<1>. QED
  BY <1>10, <1>11, <1>12 DEF u, p, at, sep
(* The ranges and heights after the split.                                 *)
LEMMA SplitRanges ==
    ASSUME NEW h, NEW range, NEW height, IsTree(h, range, height),
           NEW c \in DOMAIN h \ {RootPtr}, NEW m \in 1 .. NumKeys(h, c) - 1,
           NEW g, NEW lo, NEW hi, NEW new, IsSplit(h, g, c, m, lo, hi, new),
           NEW R, R = SplitRange(h, range, c, m, lo, hi, new),
           NEW H, H = SplitHeight(h, height, c, new)
    PROVE  /\ R \in [DOMAIN g -> SUBSET Nat] /\ H \in [DOMAIN g -> Nat]
           /\ R[lo] = {k \in range[c] : k < Separator(h, c, m)}
           /\ R[hi] = {k \in range[c] : k >= Separator(h, c, m)}
           /\ \A x \in DOMAIN h \ {c} : R[x] = range[x]
           /\ H[lo] = height[c] /\ H[hi] = height[c]
           /\ \A x \in DOMAIN h : H[x] = height[x]
           /\ \A x \in DOMAIN g : H[x] <= H[RootPtr]
<1>0. SplitFact(h, range, height, c, m, g, lo, hi, new)
  BY SplitFacts
<1>1. /\ DOMAIN g = DOMAIN h \cup {new} /\ new \notin DOMAIN h
      /\ {lo, hi} = {c, new} /\ lo # hi
  BY <1>0 DEF SplitFact
<1>2. /\ range \in [DOMAIN h -> SUBSET Nat] /\ height \in [DOMAIN h -> Nat]
      /\ \A x \in DOMAIN h : height[x] <= height[RootPtr]
      /\ c \in DOMAIN h /\ RootPtr \in DOMAIN h
  BY DEF IsTree, Heap
<1>3. DOMAIN R = DOMAIN g /\ DOMAIN H = DOMAIN g
  BY <1>1 DEF SplitRange, SplitHeight
<1>4. R[lo] = {k \in range[c] : k < Separator(h, c, m)}
  BY <1>1, <1>2 DEF SplitRange
<1>5. R[hi] = {k \in range[c] : k >= Separator(h, c, m)}
  BY <1>1, <1>2 DEF SplitRange
<1>6. \A x \in DOMAIN h \ {c} : R[x] = range[x]
  BY <1>1, <1>2 DEF SplitRange
<1>7. \A x \in DOMAIN h : H[x] = height[x]
  BY <1>1, <1>2 DEF SplitHeight
<1>8. H[new] = height[c]
  BY <1>1 DEF SplitHeight
<1>9. H[lo] = height[c] /\ H[hi] = height[c]
  BY <1>1, <1>2, <1>7, <1>8
<1>10. R = [x \in DOMAIN g |-> R[x]] /\ H = [x \in DOMAIN g |-> H[x]]
  BY <1>1 DEF SplitRange, SplitHeight
<1>11. \A x \in DOMAIN g : x \in {lo, hi} \/ x \in DOMAIN h \ {c}
  BY <1>1
<1>12. \A x \in DOMAIN g : R[x] \in SUBSET Nat
  BY <1>2, <1>4, <1>5, <1>6, <1>11
<1>13. \A x \in DOMAIN g : H[x] \in Nat /\ H[x] <= H[RootPtr]
  BY <1>1, <1>2, <1>7, <1>8
<1>. QED
  BY <1>3, <1>4, <1>5, <1>6, <1>7, <1>9, <1>10, <1>12, <1>13

(* Each node is in order again,                                            *)
LEMMA SplitNodesFit ==
    ASSUME NEW h, NEW range, NEW height, IsTree(h, range, height),
           NEW c \in DOMAIN h \ {RootPtr}, NEW m \in 1 .. NumKeys(h, c) - 1,
           NEW g, NEW lo, NEW hi, NEW new, IsSplit(h, g, c, m, lo, hi, new),
           NEW R, R = SplitRange(h, range, c, m, lo, hi, new),
           NEW H, H = SplitHeight(h, height, c, new),
           NEW n \in DOMAIN g
    PROVE  NodeFits(g, R, H, n)
<1>. DEFINE p == h[c].parent
<1>0. SplitFact(h, range, height, c, m, g, lo, hi, new)
  BY SplitFacts
<1>1. /\ LoParts(h, g, c, m, lo) /\ HiParts(h, g, c, m, hi) /\ UpParts(h, g, c, m, lo, hi)
      /\ Heap(g) /\ DOMAIN g = DOMAIN h \cup {new} /\ new \notin DOMAIN h
      /\ {lo, hi} = {c, new} /\ lo # hi
      /\ p \in DOMAIN h /\ p \notin {lo, hi}
      /\ NumChild(h, p) = NumKeys(h, p) + 1
      /\ m \in Nat
  BY <1>0 DEF SplitFact
<1>2. /\ R[lo] = {k \in range[c] : k < Separator(h, c, m)}
      /\ R[hi] = {k \in range[c] : k >= Separator(h, c, m)}
      /\ \A x \in DOMAIN h \ {c} : R[x] = range[x]
      /\ H[lo] = height[c] /\ H[hi] = height[c]
      /\ \A x \in DOMAIN h : H[x] = height[x]
  BY SplitRanges
<1>3. /\ NodeFits(h, range, height, c) /\ c \in DOMAIN h
  BY DEF IsTree
<1>4. CASE n = lo
  <2>1. /\ Ascending(g[lo].keys)
        /\ \A x \in ToSet(g[lo].keys) : x \in range[c] /\ x < Separator(h, c, m)
    BY SearchLo
  <2>2. h[c].isLeaf => height[c] = 0
    BY <1>3 DEF NodeFits
  <2>. QED
    BY <1>1, <1>2, <1>4, <2>1, <2>2 DEF NodeFits, LoParts
<1>5. CASE n = hi
  <2>1. /\ Ascending(g[hi].keys)
        /\ \A x \in ToSet(g[hi].keys) : x \in range[c] /\ x >= Separator(h, c, m)
    BY SearchHi
  <2>2. h[c].isLeaf => height[c] = 0
    BY <1>3 DEF NodeFits
  <2>3. NumKeys(h, c) \in Nat /\ NumKeys(h, c) - m = NumKeys(h, c) - m - 1 + 1
    BY <1>1, FullNode
  <2>4. ToSet(g[hi].keys) \subseteq R[hi]
    BY <1>2, <2>1
  <2>5. h[c].isLeaf => g[hi].isLeaf /\ g[hi].children = <<>>
    BY <1>1 DEF HiParts
  <2>6. ~g[hi].isLeaf => NumChild(g, hi) = NumKeys(g, hi) + 1
    BY <1>1, <2>3 DEF HiParts
  <2>7. g[hi].isLeaf = h[c].isLeaf
    BY <1>1 DEF HiParts
  <2>. QED
    BY <1>2, <1>5, <2>1, <2>2, <2>4, <2>5, <2>6, <2>7 DEF NodeFits
<1>6. CASE n = p
  <2>1. Ascending(g[p].keys) /\ ToSet(g[p].keys) \subseteq range[p]
    BY SearchUp
  <2>2. ~h[p].isLeaf /\ NumKeys(h, p) \in Nat
    BY <1>1, ParentOf, KeysOf
  <2>3. ~g[p].isLeaf /\ NumChild(g, p) = NumKeys(g, p) + 1
    BY <1>1, <2>2 DEF UpParts
  <2>4. R[p] = range[p]
    BY <1>1, <1>2
  <2>. QED
    BY <1>6, <2>1, <2>3, <2>4 DEF NodeFits
<1>7. CASE n \notin {lo, hi, p}
  <2>1. n \in DOMAIN h \ {c, p}
    BY <1>1, <1>7
  <2>2. SameBody(g, h, n)
    BY <2>1 DEF IsSplit, SplitBodies
  <2>3. NodeFits(h, range, height, n)
    BY <2>1 DEF IsTree
  <2>4. R[n] = range[n] /\ H[n] = height[n]
    BY <1>2, <2>1
  <2>. QED
    BY <2>2, <2>3, <2>4 DEF NodeFits, SameBody, NumKeys, NumChild
<1>. QED
  BY <1>4, <1>5, <1>6, <1>7

(* the children of each know their places,                                 *)
LEMMA SplitAllPlaced ==
    ASSUME NEW h, NEW range, NEW height, IsTree(h, range, height),
           NEW c \in DOMAIN h \ {RootPtr}, NEW m \in 1 .. NumKeys(h, c) - 1,
           NEW g, NEW lo, NEW hi, NEW new, IsSplit(h, g, c, m, lo, hi, new),
           NEW n \in DOMAIN g
    PROVE  Placed(g, n)
<1>. DEFINE p == h[c].parent
<1>0. SplitFact(h, range, height, c, m, g, lo, hi, new)
  BY SplitFacts
<1>1. /\ DOMAIN g = DOMAIN h \cup {new} /\ new \notin DOMAIN h /\ {lo, hi} = {c, new}
      /\ p \in DOMAIN h
  BY <1>0 DEF SplitFact
<1>2. Placed(g, lo) /\ Placed(g, hi) /\ Placed(g, p)
  BY DEF IsSplit
<1>3. CASE n \notin {lo, hi, p}
  <2>1. n \in DOMAIN h \ {c, p}
    BY <1>1, <1>3
  <2>2. SameBody(g, h, n)
    BY <2>1 DEF IsSplit, SplitBodies
  <2>3. Placed(h, n) /\ Heap(h)
    BY <2>1 DEF IsTree
  <2>4. \A x \in ToSet(h[n].children) : x \in DOMAIN h /\ h[x].parent = n
    BY <2>1, OneParent
  <2>5. \A x \in ToSet(h[n].children) : x \notin ToSet(h[c].children) \cup ToSet(h[p].children)
    BY <1>1, <2>1, <2>4, OneParent
  <2>6. \A x \in ToSet(h[n].children) : SamePlace(g, h, x)
    BY <2>4, <2>5 DEF IsSplit
  <2>7. h[n].children \in Seq(Nat) /\ NumChild(h, n) = Len(h[n].children)
    BY <2>1, <2>3, NodeType
  <2>8. \A i \in 1 .. NumChild(h, n) : h[n].children[i] \in ToSet(h[n].children)
    BY <2>7, SetOf
  <2>. QED
    BY <2>2, <2>3, <2>6, <2>8 DEF Placed, SameBody, SamePlace, NumChild
<1>. QED
  BY <1>2, <1>3

(* each node has a parent                                                  *)
LEMMA SplitHasParent ==
    ASSUME NEW h, NEW range, NEW height, IsTree(h, range, height),
           NEW c \in DOMAIN h \ {RootPtr}, NEW m \in 1 .. NumKeys(h, c) - 1,
           NEW g, NEW lo, NEW hi, NEW new, IsSplit(h, g, c, m, lo, hi, new),
           NEW n \in DOMAIN g \ {RootPtr}
    PROVE  HasParent(g, n)
<1>. DEFINE p == h[c].parent
<1>0. SplitFact(h, range, height, c, m, g, lo, hi, new)
  BY SplitFacts
<1>1. /\ DOMAIN g = DOMAIN h \cup {new} /\ new \notin DOMAIN h /\ {lo, hi} = {c, new}
      /\ p \in DOMAIN h /\ KidsApart(h, g, c, lo, hi, new) /\ {lo, hi, p} \subseteq DOMAIN g
  BY <1>0 DEF SplitFact
<1>2. /\ ToSet(h[c].children) \subseteq ToSet(g[lo].children) \cup ToSet(g[hi].children)
      /\ ToSet(g[p].children) = ToSet(h[p].children) \cup {new}
  BY <1>1 DEF KidsApart
<1>3. CASE n = new
  BY <1>1, <1>2, <1>3 DEF HasParent
<1>4. CASE n # new
  <2>1. PICK q \in DOMAIN h : n \in ToSet(h[q].children)
    BY <1>1, <1>4 DEF IsTree, HasParent
  <2>2. CASE q = c
    BY <1>1, <1>2, <2>1, <2>2 DEF HasParent
  <2>3. CASE q = p
    BY <1>1, <1>2, <2>1, <2>3 DEF HasParent
  <2>4. CASE q \notin {c, p}
    <3>1. SameBody(g, h, q)
      BY <2>4 DEF IsSplit, SplitBodies
    <3>. QED
      BY <1>1, <2>1, <3>1 DEF HasParent, SameBody
  <2>. QED
    BY <2>2, <2>3, <2>4
<1>. QED
  BY <1>3, <1>4
(* and each child gets what the search sends to it: below the separator,   *)
LEMMA SplitFitsLo ==
    ASSUME NEW h, NEW range, NEW height, IsTree(h, range, height),
           NEW c \in DOMAIN h \ {RootPtr}, NEW m \in 1 .. NumKeys(h, c) - 1,
           NEW g, NEW lo, NEW hi, NEW new, IsSplit(h, g, c, m, lo, hi, new),
           NEW R, R = SplitRange(h, range, c, m, lo, hi, new),
           NEW H, H = SplitHeight(h, height, c, new),
           NEW i \in 1 .. NumChild(g, lo)
    PROVE  ChildFits(g, R, H, lo, i)
<1>. DEFINE x == h[c].children[i]
            sep == Separator(h, c, m)
<1>0. SplitFact(h, range, height, c, m, g, lo, hi, new)
  BY SplitFacts
<1>1. /\ LoParts(h, g, c, m, lo) /\ DOMAIN g = DOMAIN h \cup {new}
      /\ m \in Nat /\ m + 1 \in 1 .. NumKeys(h, c) /\ sep \in Nat /\ sep = h[c].keys[m + 1]
      /\ c \in DOMAIN h
  BY <1>0 DEF SplitFact
<1>2. NumKeys(h, c) \in Nat /\ (~h[c].isLeaf => NumChild(h, c) = NumKeys(h, c) + 1)
      /\ h[c].isLeaf \in BOOLEAN
  BY FullNode
<1>3. ~h[c].isLeaf /\ i \in 1 .. m + 1 /\ g[lo].children[i] = x
  BY <1>1, <1>2 DEF LoParts
<1>4. i \in 1 .. NumChild(h, c)
  BY <1>1, <1>2, <1>3
<1>5. /\ x \in DOMAIN h /\ x # RootPtr
      /\ height[c] = height[x] + 1 /\ range[x] = Turned(h, range, c, i)
  BY <1>1, <1>4, ChildOf
<1>6. height[c] \in Nat /\ height[x] \in Nat /\ range[c] \subseteq Nat
  BY <1>5 DEF IsTree
<1>7. x # c
  BY <1>5, <1>6
<1>8. R[x] = range[x] /\ H[x] = height[x] /\ H[lo] = height[c] /\ R[lo] = {k \in range[c] : k < sep}
  BY <1>5, <1>7, SplitRanges
<1>9. \A k \in Nat : k < sep => GtKeyIdx(g, lo, k) = GtKeyIdx(h, c, k) /\ GtKeyIdx(h, c, k) <= m
  BY SearchLo
<1>10. \A k \in Nat : /\ GtKeyIdx(h, c, k) \in Nat
                      /\ sep <= k <=> m + 1 <= GtKeyIdx(h, c, k)
  BY <1>1, SearchIn
<1>. HIDE DEF x, sep
<1>11. \A k \in range[c] : GtKeyIdx(h, c, k) = i - 1 <=> k < sep /\ GtKeyIdx(g, lo, k) = i - 1
  <2>. SUFFICES ASSUME NEW k \in range[c]
                PROVE  GtKeyIdx(h, c, k) = i - 1 <=> k < sep /\ GtKeyIdx(g, lo, k) = i - 1
    OBVIOUS
  <2>1. k \in Nat
    BY <1>6
  <2>2. CASE k < sep
    BY <1>9, <2>1, <2>2
  <2>3. CASE ~(k < sep)
    <3>1. m + 1 <= GtKeyIdx(h, c, k)
      BY <1>1, <1>10, <2>1, <2>3
    <3>. QED
      BY <1>1, <1>3, <1>10, <2>1, <2>3, <3>1
  <2>. QED
    BY <2>2, <2>3
<1>12. range[x] = Turned(g, R, lo, i)
  BY <1>5, <1>8, <1>11 DEF Turned
<1>. QED
  BY <1>1, <1>3, <1>5, <1>8, <1>12 DEF ChildFits

(* above it,                                                               *)
LEMMA SplitFitsHi ==
    ASSUME NEW h, NEW range, NEW height, IsTree(h, range, height),
           NEW c \in DOMAIN h \ {RootPtr}, NEW m \in 1 .. NumKeys(h, c) - 1,
           NEW g, NEW lo, NEW hi, NEW new, IsSplit(h, g, c, m, lo, hi, new),
           NEW R, R = SplitRange(h, range, c, m, lo, hi, new),
           NEW H, H = SplitHeight(h, height, c, new),
           NEW i \in 1 .. NumChild(g, hi)
    PROVE  ChildFits(g, R, H, hi, i)
<1>. DEFINE x == h[c].children[m + 1 + i]
            sep == Separator(h, c, m)
<1>0. SplitFact(h, range, height, c, m, g, lo, hi, new)
  BY SplitFacts
<1>1. /\ HiParts(h, g, c, m, hi) /\ DOMAIN g = DOMAIN h \cup {new}
      /\ m \in Nat /\ m + 1 \in 1 .. NumKeys(h, c) /\ sep \in Nat /\ sep = h[c].keys[m + 1]
      /\ c \in DOMAIN h
  BY <1>0 DEF SplitFact
<1>2. NumKeys(h, c) \in Nat /\ (~h[c].isLeaf => NumChild(h, c) = NumKeys(h, c) + 1)
      /\ h[c].isLeaf \in BOOLEAN
  BY FullNode
<1>3. ~h[c].isLeaf /\ i \in 1 .. NumKeys(h, c) - m /\ g[hi].children[i] = x
  BY <1>1, <1>2 DEF HiParts
<1>4. m + 1 + i \in 1 .. NumChild(h, c) /\ i \in Nat
  BY <1>1, <1>2, <1>3
<1>5. /\ x \in DOMAIN h /\ x # RootPtr
      /\ height[c] = height[x] + 1 /\ range[x] = Turned(h, range, c, m + 1 + i)
  BY <1>1, <1>4, ChildOf
<1>6. height[c] \in Nat /\ height[x] \in Nat /\ range[c] \subseteq Nat
  BY <1>5 DEF IsTree
<1>7. x # c
  BY <1>5, <1>6
<1>8. R[x] = range[x] /\ H[x] = height[x] /\ H[hi] = height[c] /\ R[hi] = {k \in range[c] : k >= sep}
  BY <1>5, <1>7, SplitRanges
<1>9. \A k \in Nat : k >= sep => /\ GtKeyIdx(g, hi, k) = GtKeyIdx(h, c, k) - (m + 1)
                                 /\ GtKeyIdx(h, c, k) >= m + 1
  BY <1>3, SearchHi
<1>10. \A k \in Nat : /\ GtKeyIdx(h, c, k) \in Nat
                      /\ sep <= k <=> m + 1 <= GtKeyIdx(h, c, k)
  BY <1>1, SearchIn
<1>. HIDE DEF x, sep
<1>11. \A k \in range[c] : GtKeyIdx(h, c, k) = m + 1 + i - 1 <=>
                              k >= sep /\ GtKeyIdx(g, hi, k) = i - 1
  <2>. SUFFICES ASSUME NEW k \in range[c]
                PROVE  GtKeyIdx(h, c, k) = m + 1 + i - 1 <=>
                          k >= sep /\ GtKeyIdx(g, hi, k) = i - 1
    OBVIOUS
  <2>1. k \in Nat
    BY <1>6
  <2>2. CASE k >= sep
    BY <1>1, <1>4, <1>9, <1>10, <2>1, <2>2
  <2>3. CASE ~(k >= sep)
    <3>1. ~(m + 1 <= GtKeyIdx(h, c, k))
      BY <1>1, <1>10, <2>1, <2>3
    <3>. QED
      BY <1>1, <1>3, <1>4, <1>10, <2>1, <2>3, <3>1
  <2>. QED
    BY <2>2, <2>3
<1>12. range[x] = Turned(g, R, hi, i)
  BY <1>5, <1>8, <1>11 DEF Turned
<1>. QED
  BY <1>1, <1>3, <1>5, <1>8, <1>12 DEF ChildFits

(* one node up,                                                            *)
LEMMA SplitFitsUp ==
    ASSUME NEW h, NEW range, NEW height, IsTree(h, range, height),
           NEW c \in DOMAIN h \ {RootPtr}, NEW m \in 1 .. NumKeys(h, c) - 1,
           NEW g, NEW lo, NEW hi, NEW new, IsSplit(h, g, c, m, lo, hi, new),
           NEW R, R = SplitRange(h, range, c, m, lo, hi, new),
           NEW H, H = SplitHeight(h, height, c, new),
           NEW j \in 1 .. NumChild(g, h[c].parent)
    PROVE  ChildFits(g, R, H, h[c].parent, j)
<1>. DEFINE p == h[c].parent
            at == h[c].childIndex + 1
            sep == Separator(h, c, m)
            n == NumKeys(h, p)
            kids == h[p].children
<1>0. SplitFact(h, range, height, c, m, g, lo, hi, new)
  BY SplitFacts
<1>1. /\ UpParts(h, g, c, m, lo, hi) /\ DOMAIN g = DOMAIN h \cup {new}
      /\ sep \in Nat /\ c \in DOMAIN h /\ p \in DOMAIN h /\ p # c
      /\ {lo, hi} = {c, new} /\ lo # hi /\ new # RootPtr
      /\ at \in Nat /\ at \in 1 .. n + 1 /\ NumChild(h, p) = n + 1 /\ kids[at] = c
      /\ height[p] = height[c] + 1 /\ range[c] = Turned(h, range, p, at)
  BY <1>0 DEF SplitFact
<1>2. n \in Nat /\ range[p] \subseteq Nat /\ NumChild(g, p) = n + 2
  BY <1>1, KeysOf DEF UpParts
<1>3. /\ R[lo] = {k \in range[c] : k < sep}
      /\ R[hi] = {k \in range[c] : k >= sep}
      /\ \A x \in DOMAIN h \ {c} : R[x] = range[x]
      /\ H[lo] = height[c] /\ H[hi] = height[c]
      /\ \A x \in DOMAIN h : H[x] = height[x]
  BY SplitRanges
<1>4. \A k \in Nat : /\ GtKeyIdx(h, p, k) \in Nat
                     /\ GtKeyIdx(h, p, k) < at - 1 => GtKeyIdx(g, p, k) = GtKeyIdx(h, p, k)
                     /\ GtKeyIdx(h, p, k) >= at => GtKeyIdx(g, p, k) = GtKeyIdx(h, p, k) + 1
                     /\ GtKeyIdx(h, p, k) = at - 1 =>
                           GtKeyIdx(g, p, k) = IF k < sep THEN at - 1 ELSE at
  BY SearchUp
<1>5. j \in 1 .. n + 2 /\ j \in Nat
  BY <1>2
<1>6. /\ j < at => g[p].children[j] = kids[j]
      /\ j = at => g[p].children[j] = lo
      /\ j = at + 1 => g[p].children[j] = hi
      /\ j > at + 1 => g[p].children[j] = kids[j - 1]
  BY <1>1, <1>5 DEF UpParts
<1>7. R[p] = range[p] /\ H[p] = height[p]
  BY <1>1, <1>3
<1>8. ASSUME NEW i \in 1 .. n + 1, i # at
      PROVE  LET x == kids[i]
             IN /\ x \in DOMAIN h /\ x # RootPtr /\ x # c
                /\ height[p] = height[x] + 1 /\ range[x] = Turned(h, range, p, i)
                /\ R[x] = range[x] /\ H[x] = height[x]
  <2>1. /\ kids[i] \in DOMAIN h /\ kids[i] # RootPtr
        /\ height[p] = height[kids[i]] + 1 /\ range[kids[i]] = Turned(h, range, p, i)
        /\ h[kids[i]].childIndex = i - 1
    BY <1>1, ChildOf
  <2>2. kids[i] # c
    <3>1. i - 1 # h[c].childIndex
      BY <1>1, <1>8
    <3>. QED
      BY <2>1, <3>1
  <2>. QED
    BY <1>3, <2>1, <2>2
<1>. HIDE DEF p, at, sep, n, kids
<1>9. CASE j < at
  <2>1. j \in 1 .. n + 1 /\ j # at
    BY <1>1, <1>2, <1>5, <1>9
  <2>. DEFINE x == kids[j]
  <2>2. /\ x \in DOMAIN h /\ x # RootPtr
        /\ height[p] = height[x] + 1 /\ range[x] = Turned(h, range, p, j)
        /\ R[x] = range[x] /\ H[x] = height[x]
    BY <1>8, <2>1
  <2>3. ASSUME NEW k \in range[p]
        PROVE  GtKeyIdx(h, p, k) = j - 1 <=> GtKeyIdx(g, p, k) = j - 1
    BY <1>1, <1>2, <1>4, <1>5, <1>9
  <2>4. R[x] = Turned(g, R, p, j)
    BY <1>7, <2>2, <2>3 DEF Turned
  <2>. QED
    BY <1>1, <1>6, <1>7, <1>9, <2>2, <2>4 DEF ChildFits, p
<1>10. CASE j > at + 1
  <2>1. j - 1 \in 1 .. n + 1 /\ j - 1 # at
    BY <1>1, <1>2, <1>5, <1>10
  <2>. DEFINE x == kids[j - 1]
  <2>2. /\ x \in DOMAIN h /\ x # RootPtr
        /\ height[p] = height[x] + 1 /\ range[x] = Turned(h, range, p, j - 1)
        /\ R[x] = range[x] /\ H[x] = height[x]
    BY <1>8, <2>1
  <2>3. ASSUME NEW k \in range[p]
        PROVE  GtKeyIdx(h, p, k) = j - 1 - 1 <=> GtKeyIdx(g, p, k) = j - 1
    BY <1>1, <1>2, <1>4, <1>5, <1>10
  <2>4. R[x] = Turned(g, R, p, j)
    BY <1>7, <2>2, <2>3 DEF Turned
  <2>. QED
    BY <1>1, <1>6, <1>7, <1>10, <2>2, <2>4 DEF ChildFits, p
<1>11. CASE j = at
  <2>1. ASSUME NEW k \in range[p]
        PROVE  GtKeyIdx(h, p, k) = at - 1 /\ k < sep <=> GtKeyIdx(g, p, k) = at - 1
    BY <1>1, <1>2, <1>4
  <2>2. R[lo] = Turned(g, R, p, j)
    BY <1>1, <1>3, <1>7, <1>11, <2>1 DEF Turned
  <2>. QED
    BY <1>1, <1>3, <1>6, <1>7, <1>11, <2>2 DEF ChildFits, p
<1>12. CASE j = at + 1
  <2>1. ASSUME NEW k \in range[p]
        PROVE  GtKeyIdx(h, p, k) = at - 1 /\ k >= sep <=> GtKeyIdx(g, p, k) = at
    BY <1>1, <1>2, <1>4
  <2>2. j - 1 = at
    BY <1>1, <1>12
  <2>3. R[hi] = Turned(g, R, p, j)
    BY <1>1, <1>3, <1>7, <2>1, <2>2 DEF Turned
  <2>. QED
    BY <1>1, <1>3, <1>6, <1>7, <1>12, <2>3 DEF ChildFits, p
<1>. QED
  BY <1>1, <1>5, <1>9, <1>10, <1>11, <1>12 DEF p
(* The other children are where they were.                                 *)
LEMMA SplitFitsElsewhere ==
    ASSUME NEW h, NEW range, NEW height, IsTree(h, range, height),
           NEW c \in DOMAIN h \ {RootPtr}, NEW m \in 1 .. NumKeys(h, c) - 1,
           NEW g, NEW lo, NEW hi, NEW new, IsSplit(h, g, c, m, lo, hi, new),
           NEW R, R = SplitRange(h, range, c, m, lo, hi, new),
           NEW H, H = SplitHeight(h, height, c, new),
           NEW n \in DOMAIN g \ {lo, hi, h[c].parent}, NEW i \in 1 .. NumChild(g, n)
    PROVE  ChildFits(g, R, H, n, i)
<1>. DEFINE p == h[c].parent
            x == h[n].children[i]
<1>0. SplitFact(h, range, height, c, m, g, lo, hi, new)
  BY SplitFacts
<1>1. /\ DOMAIN g = DOMAIN h \cup {new} /\ new \notin DOMAIN h /\ {lo, hi} = {c, new}
      /\ p \in DOMAIN h /\ c \in DOMAIN h
  BY <1>0 DEF SplitFact
<1>2. n \in DOMAIN h \ {c, p}
  BY <1>1
<1>3. SameBody(g, h, n)
  BY <1>2 DEF IsSplit, SplitBodies
<1>4. NumChild(g, n) = NumChild(h, n) /\ g[n].children = h[n].children /\ g[n].keys = h[n].keys
  BY <1>3 DEF SameBody, NumChild
<1>5. /\ x \in DOMAIN h /\ x # RootPtr /\ h[x].parent = n
      /\ height[n] = height[x] + 1 /\ range[x] = Turned(h, range, n, i)
  BY <1>2, <1>4, ChildOf
<1>6. x # c
  BY <1>2, <1>5
<1>7. R[x] = range[x] /\ H[x] = height[x] /\ R[n] = range[n] /\ H[n] = height[n]
  BY <1>2, <1>5, <1>6, SplitRanges
<1>8. Turned(h, range, n, i) = Turned(g, R, n, i)
  BY <1>4, <1>7 DEF Turned, GtKeyIdx
<1>. QED
  BY <1>1, <1>4, <1>5, <1>7, <1>8 DEF ChildFits

(* All of it: a split leaves a tree.                                       *)
LEMMA SplitKeepsTree ==
    ASSUME NEW h, NEW range, NEW height, IsTree(h, range, height),
           NEW c \in DOMAIN h \ {RootPtr}, NEW m \in 1 .. NumKeys(h, c) - 1,
           h[c].parent # RootPtr,
           NEW g, NEW lo, NEW hi, NEW new, IsSplit(h, g, c, m, lo, hi, new)
    PROVE  IsTree(g, SplitRange(h, range, c, m, lo, hi, new), SplitHeight(h, height, c, new))
<1>. DEFINE R == SplitRange(h, range, c, m, lo, hi, new)
            H == SplitHeight(h, height, c, new)
            p == h[c].parent
<1>0. SplitFact(h, range, height, c, m, g, lo, hi, new)
  BY SplitFacts
<1>1. /\ Heap(g) /\ DOMAIN g = DOMAIN h \cup {new} /\ {lo, hi} = {c, new} /\ new # RootPtr
  BY <1>0 DEF SplitFact
<1>2. /\ RootPtr \in DOMAIN h /\ range[RootPtr] = Nat /\ h[RootPtr].keys = <<>>
  BY DEF IsTree, Heap
<1>. HIDE DEF R, H
<1>3. /\ R \in [DOMAIN g -> SUBSET Nat] /\ H \in [DOMAIN g -> Nat]
      /\ \A x \in DOMAIN h \ {c} : R[x] = range[x]
      /\ \A x \in DOMAIN g : H[x] <= H[RootPtr]
  BY SplitRanges DEF R, H
<1>4. R[RootPtr] = Nat
  BY <1>2, <1>3
<1>5. g[RootPtr].keys = <<>>
  <2>1. SameBody(g, h, RootPtr)
    BY <1>2 DEF IsSplit, SplitBodies
  <2>. QED
    BY <1>2, <2>1 DEF SameBody
<1>6. \A n \in DOMAIN g : NodeFits(g, R, H, n)
  BY SplitNodesFit DEF R, H
<1>7. \A n \in DOMAIN g : Placed(g, n)
  BY SplitAllPlaced
<1>8. \A n \in DOMAIN g \ {RootPtr} : HasParent(g, n)
  BY SplitHasParent
<1>9. ASSUME NEW n \in DOMAIN g, NEW i \in 1 .. NumChild(g, n)
      PROVE  ChildFits(g, R, H, n, i)
  <2>1. CASE n = lo
    BY <1>9, <2>1, SplitFitsLo DEF R, H
  <2>2. CASE n = hi
    BY <1>9, <2>2, SplitFitsHi DEF R, H
  <2>3. CASE n = p
    BY <1>9, <2>3, SplitFitsUp DEF R, H
  <2>4. CASE n \notin {lo, hi, p}
    BY <1>9, <2>4, SplitFitsElsewhere DEF R, H
  <2>. QED
    BY <2>1, <2>2, <2>3, <2>4
<1>. QED
  BY <1>1, <1>3, <1>4, <1>5, <1>6, <1>7, <1>8, <1>9 DEF IsTree, R, H
-----------------------------------------------------------------------------
(* What a move leaves alone, and the keys in the leaves                    *)

(* From h to g, only nodes of L changed, or their children's places: this  *)
(* is what others rely on who have latched nodes that are not in L.        *)
OnlyTouches(h, range, height, g, R, H, L) ==
    /\ DOMAIN h \subseteq DOMAIN g
    /\ \A x \in DOMAIN h : x \notin L => SameBody(g, h, x) /\ R[x] = range[x]
    /\ \A x \in DOMAIN h \ {RootPtr} : h[x].parent \notin L =>
          g[x].parent = h[x].parent /\ R[x] = range[x]
    /\ \A x \in DOMAIN h \ {RootPtr} : H[x] = height[x]
    /\ height[RootPtr] <= H[RootPtr]

(* The keys K are in the leaves, each in the one where it is searched for. *)
HoldsKeys(h, range, K) == \A n \in DOMAIN h : h[n].isLeaf =>
    ToSet(h[n].keys) = range[n] \cap K

(* One move after another.                                                 *)
LEMMA TouchesMore ==
    ASSUME NEW h, NEW range, NEW height, IsTree(h, range, height),
           NEW g, NEW R, NEW H, IsTree(g, R, H),
           NEW f, NEW S, NEW I, IsTree(f, S, I),
           NEW L, NEW M, M \cap DOMAIN h \subseteq L,
           OnlyTouches(h, range, height, g, R, H, L), OnlyTouches(g, R, H, f, S, I, M)
    PROVE  OnlyTouches(h, range, height, f, S, I, L)
<1>1. DOMAIN h \subseteq DOMAIN g /\ DOMAIN g \subseteq DOMAIN f
  BY DEF OnlyTouches
<1>2. ASSUME NEW x \in DOMAIN h, x \notin L PROVE SameBody(f, h, x) /\ S[x] = range[x]
  <2>1. x \notin M /\ x \in DOMAIN g
    BY <1>1, <1>2
  <2>2. SameBody(g, h, x) /\ R[x] = range[x]
    BY <1>2 DEF OnlyTouches
  <2>3. SameBody(f, g, x) /\ S[x] = R[x]
    BY <2>1 DEF OnlyTouches
  <2>. QED
    BY <2>2, <2>3 DEF SameBody
<1>3. ASSUME NEW x \in DOMAIN h \ {RootPtr}, h[x].parent \notin L
      PROVE  f[x].parent = h[x].parent /\ S[x] = range[x]
  <2>1. g[x].parent = h[x].parent /\ R[x] = range[x]
    BY <1>3 DEF OnlyTouches
  <2>2. h[x].parent \in DOMAIN h
    BY ParentOf
  <2>3. g[x].parent \notin M /\ x \in DOMAIN g \ {RootPtr}
    BY <1>1, <1>3, <2>1, <2>2
  <2>. QED
    BY <2>1, <2>3 DEF OnlyTouches
<1>4. \A x \in DOMAIN h \ {RootPtr} : I[x] = height[x]
  BY <1>1 DEF OnlyTouches
<1>5. height[RootPtr] <= I[RootPtr]
  <2>1. height[RootPtr] \in Nat /\ H[RootPtr] \in Nat /\ I[RootPtr] \in Nat
    BY DEF IsTree, Heap
  <2>2. height[RootPtr] <= H[RootPtr] /\ H[RootPtr] <= I[RootPtr]
    BY DEF OnlyTouches
  <2>. QED
    BY <2>1, <2>2
<1>. QED
  BY <1>1, <1>2, <1>3, <1>4, <1>5 DEF OnlyTouches

(* A split touches the node and its parent,                                *)
LEMMA SplitTouches ==
    ASSUME NEW h, NEW range, NEW height, IsTree(h, range, height),
           NEW c \in DOMAIN h \ {RootPtr}, NEW m \in 1 .. NumKeys(h, c) - 1,
           NEW g, NEW lo, NEW hi, NEW new, IsSplit(h, g, c, m, lo, hi, new)
    PROVE  OnlyTouches(h, range, height, g, SplitRange(h, range, c, m, lo, hi, new),
                       SplitHeight(h, height, c, new), {c, h[c].parent})
<1>. DEFINE R == SplitRange(h, range, c, m, lo, hi, new)
            H == SplitHeight(h, height, c, new)
            p == h[c].parent
<1>. HIDE DEF R, H
<1>1. /\ \A x \in DOMAIN h \ {c} : R[x] = range[x]
      /\ \A x \in DOMAIN h : H[x] = height[x]
  BY SplitRanges DEF R, H
<1>2. DOMAIN h \subseteq DOMAIN g
  BY DEF IsSplit
<1>3. \A x \in DOMAIN h \ {c, p} : SameBody(g, h, x)
  BY DEF IsSplit, SplitBodies
<1>4. ASSUME NEW x \in DOMAIN h \ {RootPtr}, h[x].parent \notin {c, p}
      PROVE  g[x].parent = h[x].parent /\ x # c
  <2>1. p \in DOMAIN h
    BY ParentOf
  <2>2. x \notin ToSet(h[c].children) \cup ToSet(h[p].children)
    BY <1>4, <2>1, OneParent
  <2>3. SamePlace(g, h, x)
    BY <2>2 DEF IsSplit
  <2>. QED
    BY <1>4, <2>3 DEF SamePlace
<1>5. RootPtr \in DOMAIN h /\ height[RootPtr] \in Nat
  BY DEF IsTree, Heap
<1>. QED
  BY <1>1, <1>2, <1>3, <1>4, <1>5 DEF OnlyTouches, R, H

(* adds a key to the parent,                                               *)
LEMMA SplitAddsAKey ==
    ASSUME NEW h, NEW range, NEW height, IsTree(h, range, height),
           NEW c \in DOMAIN h \ {RootPtr}, NEW m \in 1 .. NumKeys(h, c) - 1,
           NEW g, NEW lo, NEW hi, NEW new, IsSplit(h, g, c, m, lo, hi, new)
    PROVE  NumKeys(g, h[c].parent) = NumKeys(h, h[c].parent) + 1
<1>0. SplitFact(h, range, height, c, m, g, lo, hi, new)
  BY SplitFacts
<1>. QED
  BY <1>0 DEF SplitFact, UpParts

(* and loses none.                                                         *)
LEMMA SplitHolds ==
    ASSUME NEW h, NEW range, NEW height, IsTree(h, range, height),
           NEW c \in DOMAIN h \ {RootPtr}, NEW m \in 1 .. NumKeys(h, c) - 1,
           NEW g, NEW lo, NEW hi, NEW new, IsSplit(h, g, c, m, lo, hi, new),
           NEW K, HoldsKeys(h, range, K)
    PROVE  HoldsKeys(g, SplitRange(h, range, c, m, lo, hi, new), K)
<1>. DEFINE R == SplitRange(h, range, c, m, lo, hi, new)
            p == h[c].parent
            sep == Separator(h, c, m)
            keys == h[c].keys
            nk == NumKeys(h, c)
<1>0. SplitFact(h, range, height, c, m, g, lo, hi, new)
  BY SplitFacts
<1>1. /\ LoParts(h, g, c, m, lo) /\ HiParts(h, g, c, m, hi) /\ UpParts(h, g, c, m, lo, hi)
      /\ Heap(g) /\ DOMAIN g = DOMAIN h \cup {new} /\ {lo, hi} = {c, new}
      /\ {lo, hi} \subseteq DOMAIN g /\ p \in DOMAIN h
      /\ m \in Nat /\ m >= 1 /\ m + 1 \in 1 .. nk /\ sep \in Nat /\ sep = keys[m + 1]
  BY <1>0 DEF SplitFact
<1>. HIDE DEF R
<1>2. /\ R[lo] = {k \in range[c] : k < sep} /\ R[hi] = {k \in range[c] : k >= sep}
      /\ \A x \in DOMAIN h \ {c} : R[x] = range[x]
  BY SplitRanges DEF R
<1>3. /\ keys \in Seq(Nat) /\ nk = Len(keys) /\ nk \in Nat
      /\ \A i \in 1 .. nk : keys[i] \in Nat
      /\ \A i, j \in 1 .. nk : i < j => keys[i] < keys[j]
  BY KeysOf
<1>4. /\ \A x \in ToSet(g[lo].keys) : x < sep
      /\ \A x \in ToSet(g[hi].keys) : x >= sep
  BY SearchLo, SearchHi
<1>5. ASSUME h[c].isLeaf
      PROVE  /\ ToSet(g[lo].keys) = {k \in ToSet(keys) : k < sep}
             /\ ToSet(g[hi].keys) = {k \in ToSet(keys) : k >= sep}
  <2>. DEFINE l == g[lo].keys
              r == g[hi].keys
  <2>1. /\ l \in Seq(Nat) /\ Len(l) = m /\ \A j \in 1 .. m : l[j] = keys[j]
        /\ r \in Seq(Nat) /\ Len(r) = nk - m /\ \A j \in 1 .. nk - m : r[j] = keys[m + j]
    BY <1>1, <1>5, NodeType DEF LoParts, HiParts
  <2>2. /\ \A x \in ToSet(l) : x < sep
        /\ \A x \in ToSet(r) : x >= sep
    BY <1>4
  <2>. HIDE DEF sep, keys, nk, l, r
  <2>3. \A j \in 1 .. m : j \in 1 .. nk
    BY <1>1, <1>3
  <2>4. \A j \in 1 .. nk - m : m + j \in 1 .. nk
    BY <1>1, <1>3
  <2>5. \A j \in 1 .. nk : j \in 1 .. m \/ (j - m \in 1 .. nk - m /\ m + (j - m) = j)
    BY <1>1, <1>3
  <2>6. ASSUME NEW x \in ToSet(l) PROVE x \in ToSet(keys)
    <3>1. PICK j \in 1 .. m : l[j] = x
      BY <2>1, <2>6, SetOf
    <3>2. j \in 1 .. nk /\ keys[j] = x
      BY <2>1, <2>3, <3>1
    <3>. QED
      BY <1>3, <3>2, SetOf
  <2>7. ASSUME NEW x \in ToSet(r) PROVE x \in ToSet(keys)
    <3>1. PICK j \in 1 .. nk - m : r[j] = x
      BY <2>1, <2>7, SetOf
    <3>2. m + j \in 1 .. nk /\ keys[m + j] = x
      BY <2>1, <2>4, <3>1
    <3>. QED
      BY <1>3, <3>2, SetOf
  <2>8. ASSUME NEW x \in ToSet(keys) PROVE x \in ToSet(l) \/ x \in ToSet(r)
    <3>1. PICK j \in 1 .. nk : keys[j] = x
      BY <1>3, <2>8, SetOf
    <3>2. CASE j \in 1 .. m
      <4>1. l[j] = x
        BY <2>1, <3>1, <3>2
      <4>. QED
        BY <2>1, <3>2, <4>1, SetOf
    <3>3. CASE j - m \in 1 .. nk - m /\ m + (j - m) = j
      <4>1. r[j - m] = x
        BY <2>1, <3>1, <3>3
      <4>. QED
        BY <2>1, <3>3, <4>1, SetOf
    <3>. QED
      BY <2>5, <3>2, <3>3
  <2>9. \A x \in ToSet(keys) : x \in Nat
    BY <1>3, SetOf
  <2>10. \A x \in ToSet(keys) : ~(x < sep /\ x >= sep)
    BY <1>1, <2>9
  <2>. QED
    BY <2>2, <2>6, <2>7, <2>8, <2>10 DEF l, r
<1>6. ASSUME NEW n \in DOMAIN g, g[n].isLeaf PROVE ToSet(g[n].keys) = R[n] \cap K
  <2>1. CASE n \in {lo, hi}
    <3>1. h[c].isLeaf
      BY <1>1, <1>6, <2>1 DEF LoParts, HiParts
    <3>2. ToSet(keys) = range[c] \cap K
      BY <3>1 DEF HoldsKeys
    <3>. HIDE DEF sep, keys
    <3>. QED
      BY <1>2, <1>5, <2>1, <3>1, <3>2
  <2>2. CASE n = p
    BY <1>1, <1>6, <2>2, ParentOf DEF UpParts
  <2>3. CASE n \notin {lo, hi, p}
    <3>1. n \in DOMAIN h \ {c, p}
      BY <1>1, <2>3
    <3>2. SameBody(g, h, n)
      BY <3>1 DEF IsSplit, SplitBodies
    <3>. QED
      BY <1>2, <1>6, <3>1, <3>2 DEF HoldsKeys, SameBody
  <2>. QED
    BY <2>1, <2>2, <2>3
<1>. QED
  BY <1>6 DEF HoldsKeys, R
-----------------------------------------------------------------------------
(* A new node below rootPtr                                                *)

(* Between h and g, a new node has become the only child of RootPtr.       *)
IsTopped(h, g, new, leaf, kids) ==
    /\ Heap(g) /\ DOMAIN g = DOMAIN h \cup {new} /\ new \notin DOMAIN h /\ new # RootPtr
    /\ g[new].isLeaf = leaf /\ g[new].keys = <<>> /\ g[new].children = kids
    /\ ~g[RootPtr].isLeaf /\ g[RootPtr].keys = h[RootPtr].keys /\ g[RootPtr].children = <<new>>
    /\ \A x \in DOMAIN h \ {RootPtr} : SameBody(g, h, x)

TopWritten(w, h, new, node) ==
    \/ ~h[RootPtr].isLeaf /\ w = [Put(h, new, node) EXCEPT ![RootPtr].children = <<new>>]
    \/ w = [Put(h, new, node) EXCEPT ![RootPtr].children = <<new>>, ![RootPtr].isLeaf = FALSE]

(* A new node with the children of rootPtr, step by step.                  *)
LEMMA ToppedByWriting ==
    ASSUME NEW h, Heap(h), NEW new \in Nat, new \notin DOMAIN h,
           NEW node \in Node, node.keys = <<>>,
           NEW w, TopWritten(w, h, new, node)
    PROVE  /\ IsTopped(h, w, new, node.isLeaf, node.children)
           /\ \A x \in DOMAIN h : SamePlace(w, h, x)
<1>. DEFINE created == Put(h, new, node)
<1>1. /\ Heap(created) /\ DOMAIN created = DOMAIN h \cup {new}
      /\ created[new] = node /\ \A x \in DOMAIN h : created[x] = h[x]
  <2>1. IsPut(h, created, new, node)
    BY PutFields
  <2>. QED
    BY <2>1 DEF IsPut
<1>. HIDE DEF created
<1>2. RootPtr \in DOMAIN h /\ h[RootPtr] \in Node /\ new # RootPtr /\ <<new>> \in Seq(Nat)
  BY DEF Heap
<1>3. \/ ~h[RootPtr].isLeaf /\ w = [created EXCEPT ![RootPtr].children = <<new>>]
      \/ w = [created EXCEPT ![RootPtr].children = <<new>>, ![RootPtr].isLeaf = FALSE]
  BY DEF TopWritten, created
<1>4. DOMAIN w = DOMAIN created /\ w = [x \in DOMAIN created |-> w[x]]
  BY <1>3
<1>5. \A x \in DOMAIN created \ {RootPtr} : w[x] = created[x]
  BY <1>3
<1>6. \/ ~h[RootPtr].isLeaf /\ w[RootPtr] = [h[RootPtr] EXCEPT !.children = <<new>>]
      \/ w[RootPtr] = [h[RootPtr] EXCEPT !.children = <<new>>, !.isLeaf = FALSE]
  BY <1>1, <1>2, <1>3
<1>7. /\ w[RootPtr] \in Node /\ ~w[RootPtr].isLeaf /\ w[RootPtr].keys = h[RootPtr].keys
      /\ w[RootPtr].children = <<new>> /\ SamePlace(w, h, RootPtr)
  <2>1. CASE ~h[RootPtr].isLeaf /\ w[RootPtr] = [h[RootPtr] EXCEPT !.children = <<new>>]
    BY <1>2, <2>1 DEF Node, SamePlace
  <2>2. CASE w[RootPtr] = [h[RootPtr] EXCEPT !.children = <<new>>, !.isLeaf = FALSE]
    BY <1>2, <2>2 DEF Node, SamePlace
  <2>. QED
    BY <1>6, <2>1, <2>2
<1>8. Heap(w)
  <2>1. \A x \in DOMAIN created : w[x] \in Node
    BY <1>1, <1>5, <1>7 DEF Heap
  <2>. QED
    BY <1>1, <1>4, <2>1 DEF Heap
<1>. QED
  BY <1>1, <1>2, <1>4, <1>5, <1>7, <1>8 DEF IsTopped, SameBody, SamePlace

(* A sequence of one.                                                      *)
LEMMA OnlyOne ==
    ASSUME NEW n \in Nat
    PROVE  /\ <<n>> \in Seq(Nat) /\ Len(<<n>>) = 1 /\ <<n>>[1] = n
           /\ ToSet(<<n>>) = {n} /\ Different(<<n>>)
  BY DEF ToSet, Different

(* NewRoot puts a node between RootPtr and the root.                       *)
LEMMA NewRootIs ==
    ASSUME NEW h, Heap(h), ~h[RootPtr].isLeaf, NEW c \in DOMAIN h
    PROVE  LET g == NewRoot(h, c)
               new == Allocate(h)
           IN /\ IsTopped(h, g, new, FALSE, <<c>>)
              /\ Placed(g, new) /\ Placed(g, RootPtr)
              /\ \A x \in DOMAIN h \ {c} : SamePlace(g, h, x)
<1>. DEFINE new == Allocate(h)
            node == [NewNode(FALSE) EXCEPT !.children = <<c>>]
            w == [Put(h, new, node) EXCEPT ![RootPtr].children = <<new>>]
            g1 == Consolidate(w, RootPtr)
            g == Consolidate(g1, new)
<1>1. new \in Nat /\ new \notin DOMAIN h /\ new # RootPtr
  BY AllocateIsNew
<1>2. c \in Nat /\ RootPtr \in DOMAIN h
  BY DEF Heap
<1>3. node \in Node /\ node.keys = <<>> /\ node.children = <<c>> /\ node.isLeaf = FALSE
  <2>1. NewNode(FALSE) \in Node
    BY NewNodeType
  <2>2. <<c>> \in Seq(Nat)
    BY <1>2
  <2>. QED
    BY <2>1, <2>2 DEF NewNode, Node
<1>4. NewRoot(h, c) = g
  BY DEF NewRoot
<1>. HIDE DEF new, node
<1>5. TopWritten(w, h, new, node)
  BY DEF TopWritten
<1>. HIDE DEF w
<1>6. IsTopped(h, w, new, FALSE, <<c>>) /\ \A x \in DOMAIN h : SamePlace(w, h, x)
  BY <1>1, <1>3, <1>5, ToppedByWriting
<1>7. /\ Heap(w) /\ DOMAIN w = DOMAIN h \cup {new}
      /\ w[RootPtr].children = <<new>> /\ w[new].children = <<c>>
  BY <1>6 DEF IsTopped
<1>8. /\ SameHeap(g1, w) /\ Placed(g1, RootPtr)
      /\ \A x \in DOMAIN w : x # new => SamePlace(g1, w, x)
  BY <1>1, <1>2, <1>7, OnlyOne, ConsolidatePlaces
<1>. HIDE DEF g1
<1>9. /\ Heap(g1) /\ DOMAIN g1 = DOMAIN w
      /\ g1[RootPtr].children = <<new>> /\ g1[new].children = <<c>>
  BY <1>1, <1>2, <1>7, <1>8 DEF SameHeap, SameBody
<1>10. /\ SameHeap(g, g1) /\ Placed(g, new)
       /\ \A x \in DOMAIN w : x # c => SamePlace(g, g1, x)
  <2>1. /\ new \in DOMAIN g1 /\ Different(g1[new].children) /\ ToSet(g1[new].children) = {c}
        /\ {c} \subseteq DOMAIN g1
    BY <1>2, <1>7, <1>9, OnlyOne
  <2>. QED
    BY <1>9, <2>1, ConsolidatePlaces
<1>. HIDE DEF g
<1>11. Placed(g, RootPtr)
  <2>1. RootPtr \in DOMAIN g1 /\ ToSet(g1[RootPtr].children) = {new} /\ new \in DOMAIN g1
    BY <1>1, <1>2, <1>7, <1>9, OnlyOne
  <2>2. SamePlace(g, g1, new)
    BY <1>1, <1>7, <1>10
  <2>. QED
    BY <1>8, <1>9, <1>10, <2>1, <2>2, StillPlaced
<1>12. \A x \in DOMAIN h \ {c} : SamePlace(g, h, x)
  BY <1>1, <1>6, <1>7, <1>8, <1>10 DEF SamePlace
<1>13. SameHeap(g, w)
  BY <1>8, <1>10, SameHeapAgain
<1>14. IsTopped(h, g, new, FALSE, <<c>>)
  BY <1>1, <1>2, <1>6, <1>13 DEF IsTopped, SameHeap, SameBody
<1>. QED
  BY <1>4, <1>10, <1>11, <1>12, <1>14 DEF new
(* The root is the only child of RootPtr and takes every key.              *)
LEMMA RootOf ==
    ASSUME NEW h, NEW range, NEW height, IsTree(h, range, height),
           NEW c \in DOMAIN h \ {RootPtr}, h[c].parent = RootPtr
    PROVE  /\ ~h[RootPtr].isLeaf /\ NumChild(h, RootPtr) = 1 /\ h[RootPtr].children[1] = c
           /\ ToSet(h[RootPtr].children) = {c}
           /\ height[RootPtr] = height[c] + 1 /\ range[c] = Nat
<1>1. Len(h[RootPtr].keys) = 0 /\ RootPtr \in DOMAIN h /\ range[RootPtr] = Nat
  BY DEF IsTree, Heap
<1>2. NumKeys(h, RootPtr) = 0
  BY <1>1 DEF NumKeys
<1>. DEFINE at == h[c].childIndex + 1
<1>3. /\ ~h[RootPtr].isLeaf
      /\ at \in 1 .. NumKeys(h, RootPtr) + 1
      /\ NumChild(h, RootPtr) = NumKeys(h, RootPtr) + 1
      /\ h[RootPtr].children[at] = c
      /\ height[RootPtr] = height[c] + 1
      /\ range[c] = Turned(h, range, RootPtr, at)
  BY ParentOf
<1>. HIDE DEF at
<1>4. at = 1 /\ NumChild(h, RootPtr) = 1
  BY <1>2, <1>3
<1>5. h[RootPtr].children \in Seq(Nat) /\ Len(h[RootPtr].children) = 1
  BY <1>1, <1>4, NodeType DEF IsTree
<1>6. ToSet(h[RootPtr].children) = {c}
  <2>1. \A x : x \in ToSet(h[RootPtr].children) <=> \E i \in 1 .. 1 : h[RootPtr].children[i] = x
    BY <1>5, SetOf
  <2>. QED
    BY <1>3, <1>4, <2>1
<1>7. range[c] = Nat
  <2>1. \A k \in Nat : GtKeyIdx(h, RootPtr, k) \in 0 .. 0
    BY <1>1, <1>2, SearchIn
  <2>2. range[c] = {k \in Nat : GtKeyIdx(h, RootPtr, k) = 1 - 1}
    BY <1>1, <1>3, <1>4 DEF Turned
  <2>. QED
    BY <2>1, <2>2
<1>. QED
  BY <1>3, <1>4, <1>6, <1>7

(* The search in a node without keys.                                      *)
LEMMA NoKeys ==
    ASSUME NEW h, NEW n, h[n].keys = <<>>, NEW k \in Nat
    PROVE  GtKeyIdx(h, n, k) = 0
<1>1. <<>> \in Seq(Nat) /\ Ascending(<<>>) /\ Len(<<>>) = 0
  BY DEF Ascending
<1>2. BlockSearch(<<>>, k) \in 0 .. 0
  BY <1>1, Turn
<1>. QED
  BY <1>2 DEF GtKeyIdx

NewRootRange(h, range, new) == [x \in DOMAIN h \cup {new} |-> IF x = new THEN Nat ELSE range[x]]

NewRootHeight(h, height, c, new) ==
    [x \in DOMAIN h \cup {new} |-> IF x = new THEN height[c] + 1
                                   ELSE IF x = RootPtr THEN height[c] + 2 ELSE height[x]]

(* The tree may grow by a layer.                                           *)
LEMMA NewRootKeepsTree ==
    ASSUME NEW h, NEW range, NEW height, IsTree(h, range, height),
           NEW c \in DOMAIN h \ {RootPtr}, h[c].parent = RootPtr,
           NEW g, g = NewRoot(h, c), NEW new, new = Allocate(h),
           NEW R, R = NewRootRange(h, range, new),
           NEW H, H = NewRootHeight(h, height, c, new)
    PROVE  IsTree(g, R, H)
<1>1. /\ ~h[RootPtr].isLeaf /\ ToSet(h[RootPtr].children) = {c}
      /\ height[RootPtr] = height[c] + 1 /\ range[c] = Nat
  BY RootOf
<1>2. /\ Heap(h) /\ range[RootPtr] = Nat /\ h[RootPtr].keys = <<>>
      /\ range \in [DOMAIN h -> SUBSET Nat] /\ height \in [DOMAIN h -> Nat]
      /\ RootPtr \in DOMAIN h
      /\ \A x \in DOMAIN h : height[x] <= height[RootPtr]
  BY DEF IsTree, Heap
<1>3. /\ IsTopped(h, g, new, FALSE, <<c>>)
      /\ Placed(g, new) /\ Placed(g, RootPtr)
      /\ \A x \in DOMAIN h \ {c} : SamePlace(g, h, x)
  BY <1>1, <1>2, NewRootIs
<1>4. /\ Heap(g) /\ DOMAIN g = DOMAIN h \cup {new} /\ new \notin DOMAIN h /\ new # RootPtr
      /\ ~g[new].isLeaf /\ g[new].keys = <<>> /\ g[new].children = <<c>>
      /\ ~g[RootPtr].isLeaf /\ g[RootPtr].keys = <<>> /\ g[RootPtr].children = <<new>>
      /\ \A x \in DOMAIN h \ {RootPtr} : SameBody(g, h, x)
  BY <1>2, <1>3 DEF IsTopped
<1>5. /\ R[new] = Nat /\ H[new] = height[c] + 1 /\ H[RootPtr] = height[c] + 2
      /\ \A x \in DOMAIN h : R[x] = range[x]
      /\ \A x \in DOMAIN h \ {RootPtr} : H[x] = height[x]
      /\ DOMAIN R = DOMAIN g /\ DOMAIN H = DOMAIN g
      /\ R = [x \in DOMAIN g |-> R[x]] /\ H = [x \in DOMAIN g |-> H[x]]
  BY <1>2, <1>4 DEF NewRootRange, NewRootHeight
<1>6. new \in Nat /\ c \in Nat /\ c \in DOMAIN h /\ c # new /\ c # RootPtr /\ height[c] \in Nat
  BY <1>2, <1>4 DEF Heap
<1>7. R \in [DOMAIN g -> SUBSET Nat]
  <2>1. \A x \in DOMAIN g : R[x] \in SUBSET Nat
    BY <1>2, <1>4, <1>5
  <2>. QED
    BY <1>5, <2>1
<1>8. H \in [DOMAIN g -> Nat] /\ \A x \in DOMAIN g : H[x] <= H[RootPtr]
  <2>1. \A x \in DOMAIN h \ {RootPtr} : H[x] \in Nat /\ H[x] <= height[c] + 1
    BY <1>1, <1>2, <1>5, <1>6
  <2>2. \A x \in DOMAIN g : H[x] \in Nat /\ H[x] <= H[RootPtr]
    <3>. SUFFICES ASSUME NEW x \in DOMAIN g PROVE H[x] \in Nat /\ H[x] <= H[RootPtr]
      OBVIOUS
    <3>1. CASE x = new
      BY <1>5, <1>6, <3>1
    <3>2. CASE x = RootPtr
      BY <1>5, <1>6, <3>2
    <3>3. CASE x \in DOMAIN h \ {RootPtr}
      BY <1>5, <1>6, <2>1, <3>3
    <3>. QED
      BY <1>4, <3>1, <3>2, <3>3
  <2>. QED
    BY <1>5, <2>2
<1>9. /\ NumKeys(g, new) = 0 /\ NumChild(g, new) = 1 /\ g[new].children[1] = c
      /\ NumKeys(g, RootPtr) = 0 /\ NumChild(g, RootPtr) = 1 /\ g[RootPtr].children[1] = new
  BY <1>4, <1>6, OnlyOne DEF NumKeys, NumChild
<1>10. ASSUME NEW n \in DOMAIN g PROVE NodeFits(g, R, H, n)
  <2>1. CASE n \in {new, RootPtr}
    <3>1. Ascending(g[n].keys) /\ ToSet(g[n].keys) = {}
      BY <1>4, <2>1 DEF Ascending, ToSet
    <3>. QED
      BY <1>4, <1>9, <2>1, <3>1 DEF NodeFits
  <2>2. CASE n \in DOMAIN h \ {RootPtr}
    <3>1. NodeFits(h, range, height, n) /\ SameBody(g, h, n)
      BY <1>4, <2>2 DEF IsTree
    <3>. QED
      BY <1>5, <2>2, <3>1 DEF NodeFits, SameBody, NumKeys, NumChild
  <2>. QED
    BY <1>4, <2>1, <2>2
<1>11. ASSUME NEW n \in DOMAIN h \ {RootPtr}
       PROVE  /\ n \in DOMAIN h /\ SameBody(g, h, n) /\ c \notin ToSet(h[n].children)
              /\ \A x \in ToSet(h[n].children) : SamePlace(g, h, x) /\ x \in DOMAIN h
              /\ h[n].children \in Seq(Nat) /\ NumChild(h, n) = Len(h[n].children)
              /\ \A i \in 1 .. NumChild(h, n) : h[n].children[i] \in ToSet(h[n].children)
  <2>1. \A x \in ToSet(h[n].children) : x \in DOMAIN h /\ h[x].parent = n
    BY OneParent
  <2>2. c \notin ToSet(h[n].children)
    BY <2>1
  <2>3. h[n].children \in Seq(Nat) /\ NumChild(h, n) = Len(h[n].children)
    BY <1>2, NodeType
  <2>4. \A i \in 1 .. NumChild(h, n) : h[n].children[i] \in ToSet(h[n].children)
    BY <2>3, SetOf
  <2>. QED
    BY <1>3, <1>4, <2>1, <2>2, <2>3, <2>4
<1>12. ASSUME NEW n \in DOMAIN g PROVE Placed(g, n)
  <2>1. CASE n \in DOMAIN h \ {RootPtr}
    <3>1. Placed(h, n)
      BY <2>1 DEF IsTree
    <3>. QED
      BY <1>11, <2>1, <3>1 DEF Placed, SameBody, SamePlace, NumChild
  <2>. QED
    BY <1>3, <1>4, <2>1
<1>13. ASSUME NEW n \in DOMAIN g, NEW i \in 1 .. NumChild(g, n)
       PROVE  ChildFits(g, R, H, n, i)
  <2>1. CASE n \in DOMAIN h \ {RootPtr}
    <3>. DEFINE x == h[n].children[i]
    <3>1. NumChild(g, n) = NumChild(h, n) /\ g[n].children[i] = x /\ g[n].keys = h[n].keys
      BY <1>11, <2>1 DEF SameBody, NumChild
    <3>2. ChildFits(h, range, height, n, i)
      BY <1>13, <2>1, <3>1 DEF IsTree
    <3>3. Turned(g, R, n, i) = Turned(h, range, n, i)
      BY <1>5, <2>1, <3>1 DEF Turned, GtKeyIdx
    <3>. QED
      BY <1>4, <1>5, <2>1, <3>1, <3>2, <3>3 DEF ChildFits
  <2>2. CASE n = new
    <3>1. i = 1
      BY <1>9, <1>13, <2>2
    <3>2. Turned(g, R, new, 1) = Nat
      <4>1. \A k \in Nat : GtKeyIdx(g, new, k) = 0
        BY <1>4, NoKeys
      <4>. QED
        BY <1>5, <4>1 DEF Turned
    <3>. QED
      BY <1>1, <1>4, <1>5, <1>6, <1>9, <2>2, <3>1, <3>2 DEF ChildFits
  <2>3. CASE n = RootPtr
    <3>1. i = 1
      BY <1>9, <1>13, <2>3
    <3>2. Turned(g, R, RootPtr, 1) = Nat
      <4>1. \A k \in Nat : GtKeyIdx(g, RootPtr, k) = 0
        BY <1>4, NoKeys
      <4>2. R[RootPtr] = Nat
        BY <1>2, <1>5
      <4>. QED
        BY <4>1, <4>2 DEF Turned
    <3>3. H[RootPtr] = H[new] + 1
      BY <1>5, <1>6
    <3>. QED
      BY <1>4, <1>5, <1>9, <2>3, <3>1, <3>2, <3>3 DEF ChildFits
  <2>. QED
    BY <1>4, <2>1, <2>2, <2>3
<1>14. ASSUME NEW n \in DOMAIN g \ {RootPtr} PROVE HasParent(g, n)
  <2>1. CASE n = new
    <3>1. n \in ToSet(g[RootPtr].children)
      BY <1>4, <1>6, <2>1, OnlyOne
    <3>. QED
      BY <1>2, <1>4, <3>1 DEF HasParent
  <2>2. CASE n = c
    <3>1. n \in ToSet(g[new].children)
      BY <1>4, <1>6, <2>2, OnlyOne
    <3>. QED
      BY <1>4, <3>1 DEF HasParent
  <2>3. CASE n \in DOMAIN h \ {RootPtr, c}
    <3>1. PICK q \in DOMAIN h : n \in ToSet(h[q].children)
      BY <2>3 DEF IsTree, HasParent
    <3>2. q # RootPtr
      BY <1>1, <2>3, <3>1
    <3>3. SameBody(g, h, q)
      BY <1>4, <3>2
    <3>. QED
      BY <1>4, <3>1, <3>3 DEF HasParent, SameBody
  <2>. QED
    BY <1>4, <1>14, <2>1, <2>2, <2>3
<1>15. R[RootPtr] = Nat
  BY <1>2, <1>5
<1>. QED
  BY <1>4, <1>7, <1>8, <1>10, <1>12, <1>13, <1>14, <1>15 DEF IsTree
(* It touches RootPtr only, and the node below has a new parent.           *)
GrownAbove(h, range, height, g, R, H, c, new) ==
    /\ OnlyTouches(h, range, height, g, R, H, {RootPtr})
    /\ new \in DOMAIN g \ DOMAIN h /\ new # RootPtr
    /\ NumKeys(g, new) = 0 /\ g[c].parent = new /\ H[new] = height[c] + 1
    /\ SameBody(g, h, c)

(* A new root touches rootPtr only,                                        *)
LEMMA NewRootTouches ==
    ASSUME NEW h, NEW range, NEW height, IsTree(h, range, height),
           NEW c \in DOMAIN h \ {RootPtr}, h[c].parent = RootPtr,
           NEW g, g = NewRoot(h, c), NEW new, new = Allocate(h),
           NEW R, R = NewRootRange(h, range, new),
           NEW H, H = NewRootHeight(h, height, c, new)
    PROVE  GrownAbove(h, range, height, g, R, H, c, new)
<1>1. /\ ~h[RootPtr].isLeaf /\ height[RootPtr] = height[c] + 1
  BY RootOf
<1>2. /\ Heap(h) /\ height \in [DOMAIN h -> Nat] /\ RootPtr \in DOMAIN h
  BY DEF IsTree, Heap
<1>3. /\ IsTopped(h, g, new, FALSE, <<c>>) /\ Placed(g, new)
      /\ \A x \in DOMAIN h \ {c} : SamePlace(g, h, x)
  BY <1>1, <1>2, NewRootIs
<1>4. /\ DOMAIN g = DOMAIN h \cup {new} /\ new \notin DOMAIN h /\ new # RootPtr
      /\ g[new].keys = <<>> /\ g[new].children = <<c>>
      /\ \A x \in DOMAIN h \ {RootPtr} : SameBody(g, h, x)
  BY <1>3 DEF IsTopped
<1>5. /\ H[new] = height[c] + 1 /\ H[RootPtr] = height[c] + 2
      /\ \A x \in DOMAIN h : R[x] = range[x]
      /\ \A x \in DOMAIN h \ {RootPtr} : H[x] = height[x]
  BY <1>2, <1>4 DEF NewRootRange, NewRootHeight
<1>6. c \in Nat /\ height[c] \in Nat
  BY <1>2 DEF Heap
<1>7. NumChild(g, new) = 1 /\ g[new].children[1] = c /\ NumKeys(g, new) = 0
  BY <1>4, <1>6, OnlyOne DEF NumChild, NumKeys
<1>8. g[c].parent = new
  BY <1>3, <1>7 DEF Placed
<1>9. height[RootPtr] <= H[RootPtr]
  BY <1>1, <1>5, <1>6
<1>10. \A x \in DOMAIN h \ {RootPtr} : h[x].parent # RootPtr => g[x].parent = h[x].parent
  BY <1>3 DEF SamePlace
<1>. QED
  BY <1>4, <1>5, <1>7, <1>8, <1>9, <1>10 DEF OnlyTouches, GrownAbove

(* and holds the keys as before.                                           *)
LEMMA NewRootHolds ==
    ASSUME NEW h, NEW range, NEW height, IsTree(h, range, height),
           NEW c \in DOMAIN h \ {RootPtr}, h[c].parent = RootPtr,
           NEW g, g = NewRoot(h, c), NEW new, new = Allocate(h),
           NEW R, R = NewRootRange(h, range, new),
           NEW K, HoldsKeys(h, range, K)
    PROVE  HoldsKeys(g, R, K)
<1>1. ~h[RootPtr].isLeaf /\ Heap(h)
  BY RootOf DEF IsTree
<1>2. IsTopped(h, g, new, FALSE, <<c>>)
  BY <1>1, NewRootIs
<1>3. /\ DOMAIN g = DOMAIN h \cup {new} /\ ~g[new].isLeaf /\ ~g[RootPtr].isLeaf /\ new \notin DOMAIN h
      /\ \A x \in DOMAIN h \ {RootPtr} : SameBody(g, h, x)
  BY <1>2 DEF IsTopped
<1>4. \A x \in DOMAIN h : R[x] = range[x]
  BY <1>3 DEF NewRootRange
<1>. QED
  BY <1>3, <1>4 DEF HoldsKeys, SameBody
(* If RootPtr has no child, it is alone.                                   *)
LEMMA EmptyIs ==
    ASSUME NEW h, NEW range, NEW height, IsTree(h, range, height), h[RootPtr].isLeaf
    PROVE  DOMAIN h = {RootPtr} /\ height[RootPtr] = 0
<1>1. /\ RootPtr \in DOMAIN h /\ height \in [DOMAIN h -> Nat]
      /\ \A n \in DOMAIN h : height[n] <= height[RootPtr]
      /\ NodeFits(h, range, height, RootPtr)
  BY DEF IsTree, Heap
<1>2. height[RootPtr] = 0
  BY <1>1 DEF NodeFits
<1>3. ASSUME NEW n \in DOMAIN h \ {RootPtr} PROVE FALSE
  <2>1. h[n].parent \in DOMAIN h /\ height[h[n].parent] = height[n] + 1
    BY ParentOf
  <2>2. height[n] \in Nat /\ height[n] + 1 <= 0
    BY <1>1, <1>2, <2>1
  <2>. QED
    BY <2>2
<1>. QED
  BY <1>1, <1>2, <1>3

(* The heap with its first leaf.                                           *)
LEMMA FirstLeafIs ==
    ASSUME NEW h, Heap(h)
    PROVE  LET g == FirstLeaf(h)
               new == Allocate(h)
           IN /\ IsTopped(h, g, new, TRUE, <<>>)
              /\ Placed(g, RootPtr)
<1>. DEFINE new == Allocate(h)
            node == NewNode(TRUE)
            w == [Put(h, new, node) EXCEPT ![RootPtr].children = <<new>>,
                                           ![RootPtr].isLeaf = FALSE]
            g == Consolidate(w, RootPtr)
<1>1. new \in Nat /\ new \notin DOMAIN h /\ new # RootPtr
  BY AllocateIsNew
<1>2. RootPtr \in DOMAIN h
  BY DEF Heap
<1>3. node \in Node /\ node.keys = <<>> /\ node.children = <<>> /\ node.isLeaf = TRUE
  BY NewNodeType DEF NewNode
<1>4. FirstLeaf(h) = g
  BY DEF FirstLeaf
<1>. HIDE DEF new, node
<1>5. TopWritten(w, h, new, node)
  BY DEF TopWritten
<1>. HIDE DEF w
<1>6. IsTopped(h, w, new, TRUE, <<>>)
  BY <1>1, <1>3, <1>5, ToppedByWriting
<1>7. /\ Heap(w) /\ DOMAIN w = DOMAIN h \cup {new} /\ w[RootPtr].children = <<new>>
  BY <1>6 DEF IsTopped
<1>8. SameHeap(g, w) /\ Placed(g, RootPtr)
  <2>1. /\ RootPtr \in DOMAIN w /\ Different(w[RootPtr].children)
        /\ ToSet(w[RootPtr].children) = {new} /\ {new} \subseteq DOMAIN w
    BY <1>1, <1>2, <1>7, OnlyOne
  <2>. QED
    BY <1>7, <2>1, ConsolidatePlaces
<1>. HIDE DEF g
<1>9. IsTopped(h, g, new, TRUE, <<>>)
  BY <1>1, <1>2, <1>6, <1>8 DEF IsTopped, SameHeap, SameBody
<1>. QED
  BY <1>4, <1>8, <1>9 DEF new

(* From h to g, RootPtr has got its first child, a leaf that takes all.    *)
StartedTree(h, range, height, g, R, H, new, K) ==
    /\ IsTree(g, R, H) /\ HoldsKeys(g, R, K)
    /\ OnlyTouches(h, range, height, g, R, H, {RootPtr})
    /\ new \in DOMAIN g \ {RootPtr} /\ g[new].isLeaf /\ g[new].keys = <<>>
    /\ R[new] = Nat /\ g[RootPtr].children[1] = new /\ new \notin DOMAIN h

(* The empty tree with its first leaf is a tree of two nodes.              *)
LEMMA FirstLeafKeepsTree ==
    ASSUME NEW h, NEW range, NEW height, IsTree(h, range, height), h[RootPtr].isLeaf,
           NEW K, HoldsKeys(h, range, K),
           NEW g, g = FirstLeaf(h), NEW new, new = Allocate(h),
           NEW R, R = [x \in {RootPtr, new} |-> Nat],
           NEW H, H = [x \in {RootPtr, new} |-> IF x = new THEN 0 ELSE 1]
    PROVE  StartedTree(h, range, height, g, R, H, new, K)
<1>1. DOMAIN h = {RootPtr} /\ height[RootPtr] = 0
  BY EmptyIs
<1>2. Heap(h) /\ h[RootPtr].keys = <<>> /\ range[RootPtr] = Nat
  BY DEF IsTree
<1>3. IsTopped(h, g, new, TRUE, <<>>) /\ Placed(g, RootPtr)
  BY <1>2, FirstLeafIs
<1>4. /\ Heap(g) /\ DOMAIN g = {RootPtr, new} /\ new # RootPtr /\ new \notin DOMAIN h
      /\ g[new].isLeaf /\ g[new].keys = <<>> /\ g[new].children = <<>>
      /\ ~g[RootPtr].isLeaf /\ g[RootPtr].keys = <<>> /\ g[RootPtr].children = <<new>>
  BY <1>1, <1>2, <1>3 DEF IsTopped
<1>5. R[new] = Nat /\ R[RootPtr] = Nat /\ H[new] = 0 /\ H[RootPtr] = 1
  BY <1>4
<1>6. R \in [DOMAIN g -> SUBSET Nat] /\ H \in [DOMAIN g -> Nat]
  BY <1>4
<1>7. \A x \in DOMAIN g : H[x] <= H[RootPtr]
  BY <1>4, <1>5
<1>8. new \in Nat
  BY <1>4 DEF Heap
<1>9. /\ NumKeys(g, new) = 0 /\ NumChild(g, new) = 0
      /\ NumKeys(g, RootPtr) = 0 /\ NumChild(g, RootPtr) = 1 /\ g[RootPtr].children[1] = new
      /\ ToSet(g[RootPtr].children) = {new}
  <2>1. NumKeys(g, new) = 0 /\ NumChild(g, new) = 0 /\ NumKeys(g, RootPtr) = 0
    BY <1>4 DEF NumKeys, NumChild
  <2>2. NumChild(g, RootPtr) = 1 /\ g[RootPtr].children[1] = new /\ ToSet(g[RootPtr].children) = {new}
    BY <1>4, <1>8, OnlyOne DEF NumChild
  <2>. QED
    BY <2>1, <2>2
<1>10. ASSUME NEW n \in DOMAIN g PROVE NodeFits(g, R, H, n)
  <2>1. g[n].keys = <<>> /\ Ascending(g[n].keys) /\ ToSet(g[n].keys) = {}
    BY <1>4 DEF Ascending, ToSet
  <2>. QED
    BY <1>4, <1>5, <1>9, <2>1 DEF NodeFits
<1>11. ASSUME NEW n \in DOMAIN g PROVE Placed(g, n)
  BY <1>3, <1>4, <1>9 DEF Placed
<1>12. ASSUME NEW n \in DOMAIN g, NEW i \in 1 .. NumChild(g, n) PROVE ChildFits(g, R, H, n, i)
  <2>1. n = RootPtr /\ i = 1
    BY <1>4, <1>9, <1>12
  <2>2. Turned(g, R, RootPtr, 1) = Nat
    <3>1. \A k \in Nat : GtKeyIdx(g, RootPtr, k) = 0
      BY <1>4, NoKeys
    <3>. QED
      BY <1>5, <3>1 DEF Turned
  <2>3. H[RootPtr] = H[new] + 1
    BY <1>5
  <2>4. g[n].children[i] = new /\ new \in DOMAIN g \ {RootPtr}
    BY <1>4, <1>9, <2>1
  <2>5. R[new] = Turned(g, R, n, i)
    BY <1>5, <2>1, <2>2
  <2>. QED
    BY <2>1, <2>3, <2>4, <2>5 DEF ChildFits
<1>13. \A n \in DOMAIN g \ {RootPtr} : HasParent(g, n)
  BY <1>4, <1>9 DEF HasParent
<1>14. IsTree(g, R, H)
  BY <1>4, <1>5, <1>6, <1>7, <1>10, <1>11, <1>12, <1>13 DEF IsTree
<1>15. ToSet(<<>>) = {}
  BY DEF ToSet
<1>16. Nat \cap K = {}
  BY <1>1, <1>2, <1>15 DEF HoldsKeys
<1>17. HoldsKeys(g, R, K)
  BY <1>4, <1>5, <1>15, <1>16 DEF HoldsKeys
<1>18. OnlyTouches(h, range, height, g, R, H, {RootPtr})
  BY <1>1, <1>4, <1>5 DEF OnlyTouches
<1>. QED
  BY <1>4, <1>5, <1>9, <1>14, <1>17, <1>18 DEF StartedTree
-----------------------------------------------------------------------------
(* A key that is inserted in its leaf                                      *)

(* Only one node at each height takes a key.                               *)
LEMMA OnePath ==
    ASSUME NEW h, NEW range, NEW height, IsTree(h, range, height),
           NEW x \in DOMAIN h, NEW y \in DOMAIN h, height[x] = height[y],
           NEW k, k \in range[x], k \in range[y]
    PROVE  x = y
<1>. DEFINE T(d) == \A a, b \in DOMAIN h :
                /\ height[a] = height[b] /\ height[RootPtr] - height[a] = d
                /\ k \in range[a] /\ k \in range[b]
                => a = b
            S == {d \in Nat : T(d)}
<1>1. /\ height \in [DOMAIN h -> Nat] /\ RootPtr \in DOMAIN h
      /\ \A n \in DOMAIN h : height[n] <= height[RootPtr]
      /\ \A n \in DOMAIN h : height[n] \in Nat
  BY DEF IsTree, Heap
<1>2. ASSUME NEW a \in DOMAIN h \ {RootPtr}
      PROVE  /\ h[a].parent \in DOMAIN h /\ height[h[a].parent] = height[a] + 1
             /\ range[a] = Turned(h, range, h[a].parent, h[a].childIndex + 1)
             /\ h[h[a].parent].children[h[a].childIndex + 1] = a
             /\ h[a].childIndex + 1 \in Nat
             /\ height[a] < height[RootPtr]
  <2>1. /\ h[a].parent \in DOMAIN h /\ height[h[a].parent] = height[a] + 1
        /\ range[a] = Turned(h, range, h[a].parent, h[a].childIndex + 1)
        /\ h[h[a].parent].children[h[a].childIndex + 1] = a
        /\ h[a].childIndex + 1 \in 1 .. NumKeys(h, h[a].parent) + 1
    BY ParentOf
  <2>2. height[a] + 1 <= height[RootPtr] /\ height[a] \in Nat /\ height[RootPtr] \in Nat
    BY <1>1, <2>1
  <2>. QED
    BY <2>1, <2>2
<1>3. 0 \in S
  <2>. SUFFICES ASSUME NEW a \in DOMAIN h, NEW b \in DOMAIN h,
                       height[a] = height[b], height[RootPtr] - height[a] = 0
                PROVE  a = b
    OBVIOUS
  <2>1. height[a] = height[RootPtr] /\ height[b] = height[RootPtr]
    BY <1>1
  <2>2. a = RootPtr /\ b = RootPtr
    BY <1>1, <1>2, <2>1
  <2>. QED
    BY <2>2
<1>4. ASSUME NEW d \in Nat \ {0}, d - 1 \in S PROVE d \in S
  <2>. SUFFICES ASSUME NEW a \in DOMAIN h, NEW b \in DOMAIN h,
                       height[a] = height[b], height[RootPtr] - height[a] = d,
                       k \in range[a], k \in range[b]
                PROVE  a = b
    OBVIOUS
  <2>1. a # RootPtr /\ b # RootPtr
    BY <1>1
  <2>. DEFINE p == h[a].parent
              q == h[b].parent
              i == h[a].childIndex + 1
              j == h[b].childIndex + 1
  <2>2. /\ p \in DOMAIN h /\ height[p] = height[a] + 1 /\ range[a] = Turned(h, range, p, i)
        /\ h[p].children[i] = a /\ i \in Nat
    BY <1>2, <2>1
  <2>3. /\ q \in DOMAIN h /\ height[q] = height[b] + 1 /\ range[b] = Turned(h, range, q, j)
        /\ h[q].children[j] = b /\ j \in Nat
    BY <1>2, <2>1
  <2>4. /\ k \in range[p] /\ GtKeyIdx(h, p, k) = i - 1
        /\ k \in range[q] /\ GtKeyIdx(h, q, k) = j - 1
    BY <2>2, <2>3 DEF Turned
  <2>. HIDE DEF p, q, i, j
  <2>5. height[p] = height[q] /\ height[RootPtr] - height[p] = d - 1
    BY <1>1, <2>2, <2>3
  <2>6. p = q
    BY <1>4, <2>2, <2>3, <2>4, <2>5
  <2>7. i = j
    BY <2>2, <2>3, <2>4, <2>6
  <2>. QED
    BY <2>2, <2>3, <2>6, <2>7
<1>. HIDE DEF S
<1>5. Nat \subseteq S
  BY <1>3, <1>4, EveryNumber
<1>6. height[RootPtr] - height[x] \in Nat
  BY <1>1
<1>. QED
  BY <1>5, <1>6 DEF S

(* A key in its place between ascending ones.                              *)
LEMMA KeyInserted ==
    ASSUME NEW s \in Seq(Nat), Ascending(s), NEW k \in Nat, k \notin ToSet(s)
    PROVE  /\ InsertKeyToLeaf(s, k) \in Seq(Nat)
           /\ Ascending(InsertKeyToLeaf(s, k))
           /\ ToSet(InsertKeyToLeaf(s, k)) = ToSet(s) \cup {k}
<1>. DEFINE at == BlockSearch(s, k)
            i == at + 1
            r == InsertAt(s, i, k)
            n == Len(s)
<1>0. n \in Nat /\ \A j \in 1 .. n : s[j] \in Nat
  OBVIOUS
<1>1. at \in 0 .. n /\ \A j \in 1 .. n : s[j] <= k <=> j <= at
  BY Turn
<1>2. \A j \in 1 .. n : s[j] # k
  BY SetOf
<1>. HIDE DEF at
<1>3. i \in 1 .. n + 1
  BY <1>0, <1>1
<1>4. IsInserted(r, s, i, k)
  <2>. HIDE DEF i
  <2>. QED
    BY <1>3, Inserted
<1>5. InsertKeyToLeaf(s, k) = r
  BY DEF InsertKeyToLeaf, at
<1>. HIDE DEF r
<1>6. /\ r \in Seq(Nat) /\ Len(r) = n + 1
      /\ \A j \in 1 .. n + 1 : /\ j < i => r[j] = s[j]
                               /\ j = i => r[j] = k
                               /\ j > i => r[j] = s[j - 1]
  BY <1>4 DEF IsInserted
<1>7. \A a, b \in 1 .. n : a < b => s[a] < s[b]
  BY DEF Ascending
<1>. HIDE DEF n
<1>8. ASSUME NEW j \in 1 .. n + 1
      PROVE  /\ j < i => j \in 1 .. n /\ r[j] = s[j] /\ s[j] < k
             /\ j = i => r[j] = k
             /\ j > i => j - 1 \in 1 .. n /\ r[j] = s[j - 1] /\ k < s[j - 1]
             /\ r[j] \in Nat
  <2>1. j < i => j \in 1 .. n /\ r[j] = s[j] /\ s[j] < k
    BY <1>0, <1>1, <1>2, <1>3, <1>6
  <2>2. j > i => j - 1 \in 1 .. n /\ r[j] = s[j - 1] /\ k < s[j - 1]
    <3>. SUFFICES ASSUME j > i PROVE j - 1 \in 1 .. n /\ r[j] = s[j - 1] /\ k < s[j - 1]
      OBVIOUS
    <3>1. j - 1 \in 1 .. n /\ ~(j - 1 <= at)
      BY <1>0, <1>1, <1>3
    <3>2. ~(s[j - 1] <= k) /\ s[j - 1] \in Nat
      BY <1>0, <1>1, <3>1
    <3>. QED
      BY <1>6, <3>1, <3>2
  <2>3. j = i => r[j] = k
    BY <1>6
  <2>. QED
    BY <1>0, <1>3, <2>1, <2>2, <2>3
<1>9. Ascending(r)
  <2>. SUFFICES ASSUME NEW a \in 1 .. n + 1, NEW b \in 1 .. n + 1, a < b PROVE r[a] < r[b]
    BY <1>6 DEF Ascending
  <2>1. a \in Int /\ b \in Int /\ i \in Int
    BY <1>0, <1>3
  <2>2. CASE b < i
    BY <1>7, <1>8, <2>1, <2>2
  <2>3. CASE a > i
    <3>1. a - 1 < b - 1 /\ b > i
      BY <2>1, <2>3
    <3>. QED
      BY <1>7, <1>8, <2>3, <3>1
  <2>4. CASE a <= i /\ b >= i
    <3>1. r[a] <= k /\ k <= r[b] /\ (r[a] < k \/ k < r[b])
      BY <1>8, <2>1, <2>4
    <3>2. r[a] \in Nat /\ r[b] \in Nat
      BY <1>8
    <3>. QED
      BY <3>1, <3>2
  <2>. QED
    BY <2>1, <2>2, <2>3, <2>4
<1>10. ASSUME NEW x \in ToSet(r) PROVE x \in ToSet(s) \cup {k}
  <2>1. PICK j \in 1 .. n + 1 : r[j] = x
    BY <1>6, SetOf
  <2>2. x = k \/ \E a \in 1 .. n : s[a] = x
    <3>1. j < i \/ j = i \/ j > i
      BY <1>0, <1>3
    <3>. QED
      BY <1>8, <2>1, <3>1
  <2>. QED
    BY <2>2, SetOf DEF n
<1>11. ASSUME NEW x \in ToSet(s) \cup {k} PROVE x \in ToSet(r)
  <2>1. CASE x = k
    BY <1>3, <1>6, <2>1, SetOf
  <2>2. CASE x \in ToSet(s)
    <3>1. PICK a \in 1 .. n : s[a] = x
      BY <2>2, SetOf DEF n
    <3>2. CASE a < i
      <4>1. a \in 1 .. n + 1 /\ r[a] = x
        BY <1>0, <1>6, <3>1, <3>2
      <4>. QED
        BY <1>6, <4>1, SetOf
    <3>3. CASE a >= i
      <4>1. a + 1 \in 1 .. n + 1 /\ (a + 1) - 1 = a /\ a + 1 > i
        BY <1>0, <1>3, <3>3
      <4>2. r[a + 1] = x
        BY <1>6, <3>1, <4>1
      <4>. QED
        BY <1>6, <4>1, <4>2, SetOf
    <3>. QED
      BY <1>0, <1>3, <3>2, <3>3
  <2>. QED
    BY <2>1, <2>2
<1>. QED
  BY <1>5, <1>6, <1>9, <1>10, <1>11
(* Other keys in one node.                                                 *)
KeysSet(h, g, n, ks) ==
    /\ Heap(g) /\ DOMAIN g = DOMAIN h /\ g[n].keys = ks
    /\ g[n].isLeaf = h[n].isLeaf /\ g[n].children = h[n].children
    /\ \A x \in DOMAIN h : SamePlace(g, h, x)
    /\ \A x \in DOMAIN h \ {n} : g[x] = h[x]

(* What SetKeys makes of a heap.                                           *)
LEMMA SetKeysIs ==
    ASSUME NEW h, Heap(h), NEW n \in DOMAIN h, NEW ks \in Seq(Nat),
           NEW g, g = SetKeys(h, n, ks)
    PROVE  KeysSet(h, g, n, ks)
<1>1. \A x \in DOMAIN h : h[x] \in Node
  BY DEF Heap
<1>2. DOMAIN g = DOMAIN h /\ g = [x \in DOMAIN h |-> g[x]]
  BY DEF SetKeys
<1>3. g[n] = [h[n] EXCEPT !.keys = ks] /\ \A x \in DOMAIN h \ {n} : g[x] = h[x]
  BY DEF SetKeys
<1>4. /\ g[n] \in Node /\ g[n].keys = ks /\ SamePlace(g, h, n)
      /\ g[n].isLeaf = h[n].isLeaf /\ g[n].children = h[n].children
  BY <1>1, <1>3 DEF Node, SamePlace
<1>5. \A x \in DOMAIN h \ {n} : SamePlace(g, h, x)
  BY <1>3 DEF SamePlace
<1>6. Heap(g)
  <2>1. \A x \in DOMAIN h : g[x] \in Node
    BY <1>1, <1>3, <1>4
  <2>. QED
    BY <1>2, <2>1 DEF Heap
<1>. QED
  BY <1>2, <1>3, <1>4, <1>5, <1>6 DEF KeysSet

(* A key that goes to its leaf leaves a tree with that key.                *)
LeafGrown(h, range, height, g, n, K) ==
    /\ IsTree(g, range, height) /\ HoldsKeys(g, range, K)
    /\ OnlyTouches(h, range, height, g, range, height, {n})
    /\ DOMAIN g = DOMAIN h
    /\ \A x \in DOMAIN h : SamePlace(g, h, x)
    /\ \A x \in DOMAIN h \ {n} : g[x] = h[x]

(* A leaf may get any keys of those that are searched for in it.           *)
LEMMA LeafRewritten ==
    ASSUME NEW h, NEW range, NEW height, IsTree(h, range, height),
           NEW K, HoldsKeys(h, range, K), NEW L,
           NEW n \in DOMAIN h \ {RootPtr}, h[n].isLeaf, L \ range[n] = K \ range[n],
           NEW r \in Seq(Nat), Ascending(r), ToSet(r) = range[n] \cap L,
           NEW g, g = SetKeys(h, n, r)
    PROVE  LeafGrown(h, range, height, g, n, L)
<1>1. /\ range[n] \subseteq Nat /\ h[n].children = <<>> /\ height[n] = 0
  <2>1. NodeFits(h, range, height, n)
    BY DEF IsTree
  <2>. QED
    BY <2>1, KeysOf DEF NodeFits
<1>4. /\ Heap(g) /\ DOMAIN g = DOMAIN h /\ g[n].keys = r
      /\ g[n].isLeaf = h[n].isLeaf /\ g[n].children = h[n].children
      /\ \A x \in DOMAIN h : SamePlace(g, h, x)
      /\ \A x \in DOMAIN h \ {n} : g[x] = h[x]
  <2>1. Heap(h) /\ n \in DOMAIN h
    BY DEF IsTree
  <2>2. KeysSet(h, g, n, r)
    BY <2>1, SetKeysIs
  <2>. QED
    BY <2>2 DEF KeysSet
<1>5. ASSUME NEW x \in DOMAIN g PROVE NodeFits(g, range, height, x)
  <2>1. NodeFits(h, range, height, x)
    BY <1>4 DEF IsTree
  <2>2. CASE x = n
    BY <1>1, <1>4, <2>2 DEF NodeFits
  <2>3. CASE x # n
    BY <1>4, <2>1, <2>3 DEF NodeFits, NumKeys, NumChild
  <2>. QED
    BY <2>2, <2>3
<1>6. \A x \in DOMAIN h : g[x].children = h[x].children /\ NumChild(g, x) = NumChild(h, x)
  BY <1>4 DEF NumChild
<1>7. ASSUME NEW x \in DOMAIN g PROVE Placed(g, x)
  <2>1. Placed(h, x)
    BY <1>4 DEF IsTree
  <2>2. \A i \in 1 .. NumChild(h, x) : h[x].children[i] \in DOMAIN h
    BY <1>4, ChildOf
  <2>. QED
    BY <1>4, <1>6, <2>1, <2>2 DEF Placed, SamePlace
<1>8. NumChild(h, n) = 0
  BY <1>1 DEF NumChild
<1>9. ASSUME NEW x \in DOMAIN g, NEW i \in 1 .. NumChild(g, x)
      PROVE  ChildFits(g, range, height, x, i)
  <2>1. x # n
    BY <1>6, <1>8, <1>9
  <2>2. ChildFits(h, range, height, x, i)
    BY <1>4, <1>6, <1>9 DEF IsTree
  <2>3. g[x] = h[x] /\ Turned(g, range, x, i) = Turned(h, range, x, i)
    BY <1>4, <2>1 DEF Turned, GtKeyIdx
  <2>. QED
    BY <1>4, <2>2, <2>3 DEF ChildFits
<1>10. ASSUME NEW x \in DOMAIN g \ {RootPtr} PROVE HasParent(g, x)
  BY <1>4, <1>6 DEF IsTree, HasParent
<1>11. g[RootPtr].keys = <<>>
  BY <1>4 DEF IsTree, Heap
<1>12. IsTree(g, range, height)
  BY <1>4, <1>5, <1>7, <1>9, <1>10, <1>11 DEF IsTree
<1>13. ASSUME NEW x \in DOMAIN g, g[x].isLeaf
       PROVE  ToSet(g[x].keys) = range[x] \cap L
  <2>1. CASE x = n
    BY <1>4, <2>1
  <2>2. CASE x # n
    <3>1. h[x].isLeaf /\ ToSet(g[x].keys) = range[x] \cap K
      BY <1>4, <1>13, <2>2 DEF HoldsKeys
    <3>2. height[x] = 0
      BY <1>4, <3>1 DEF IsTree, NodeFits
    <3>3. \A k \in range[x] : k \notin range[n]
      BY <1>1, <1>4, <2>2, <3>2, OnePath
    <3>. QED
      BY <3>1, <3>3
  <2>. QED
    BY <2>1, <2>2
<1>14. OnlyTouches(h, range, height, g, range, height, {n})
  <2>1. height[RootPtr] <= height[RootPtr]
    BY DEF IsTree, Heap
  <2>. QED
    BY <1>4, <2>1 DEF OnlyTouches, SameBody, SamePlace
<1>. QED
  BY <1>4, <1>12, <1>13, <1>14 DEF LeafGrown, HoldsKeys

(* An insert of a key in its leaf leaves a tree, but perhaps a leaf too    *)
(* full.                                                                   *)
LEMMA LeafTakesKey ==
    ASSUME NEW h, NEW range, NEW height, IsTree(h, range, height),
           NEW K, HoldsKeys(h, range, K),
           NEW n \in DOMAIN h \ {RootPtr}, h[n].isLeaf, NEW k \in range[n], k \notin K,
           NEW g, g = SetKeys(h, n, InsertKeyToLeaf(h[n].keys, k))
    PROVE  LeafGrown(h, range, height, g, n, K \cup {k})
<1>. DEFINE s == h[n].keys
            r == InsertKeyToLeaf(s, k)
<1>1. s \in Seq(Nat) /\ Ascending(s) /\ range[n] \subseteq Nat
  BY KeysOf
<1>2. ToSet(s) = range[n] \cap K
  BY DEF HoldsKeys
<1>3. r \in Seq(Nat) /\ Ascending(r) /\ ToSet(r) = ToSet(s) \cup {k}
  BY <1>1, <1>2, KeyInserted
<1>4. g = SetKeys(h, n, r)
  OBVIOUS
<1>. HIDE DEF s, r
<1>. QED
  BY <1>2, <1>3, <1>4, LeafRewritten
-----------------------------------------------------------------------------
(* The links of the nodes that a split writes                              *)

(* From h to g, the next or prev of n has been set to m, and nothing else. *)
NextIs(g, h, n, m) == \A x \in DOMAIN h : /\ g[x].next = IF x = n THEN m ELSE h[x].next
                                          /\ g[x].prev = h[x].prev
PrevIs(g, h, n, m) == \A x \in DOMAIN h : /\ g[x].prev = IF x = n THEN m ELSE h[x].prev
                                          /\ g[x].next = h[x].next

(* Where the links of a node point after SetNext and SetPrev.              *)
LEMMA LinkFields ==
    ASSUME NEW h, Heap(h), NEW n \in Pointer, NEW m \in Pointer
    PROVE  NextIs(SetNext(h, n, m), h, n, m) /\ PrevIs(SetPrev(h, n, m), h, n, m)
<1>1. \A x \in DOMAIN h : x # Null /\ h[x] \in Node
  BY DEF Heap, Null
<1>2. CASE n = Null
  BY <1>1, <1>2 DEF SetNext, SetPrev, NextIs, PrevIs
<1>3. CASE n # Null
  <2>1. SetNext(h, n, m) = [h EXCEPT ![n].next = m] /\ SetPrev(h, n, m) = [h EXCEPT ![n].prev = m]
    BY <1>3 DEF SetNext, SetPrev
  <2>. SUFFICES ASSUME NEW x \in DOMAIN h
                PROVE  /\ SetNext(h, n, m)[x].next = IF x = n THEN m ELSE h[x].next
                       /\ SetNext(h, n, m)[x].prev = h[x].prev
                       /\ SetPrev(h, n, m)[x].prev = IF x = n THEN m ELSE h[x].prev
                       /\ SetPrev(h, n, m)[x].next = h[x].next
    BY DEF NextIs, PrevIs
  <2>2. CASE x = n
    <3>1. /\ SetNext(h, n, m)[x] = [h[x] EXCEPT !.next = m]
          /\ SetPrev(h, n, m)[x] = [h[x] EXCEPT !.prev = m]
      BY <2>1, <2>2
    <3>. QED
      BY <1>1, <2>2, <3>1 DEF Node
  <2>3. CASE x # n
    BY <2>1, <2>3
  <2>. QED
    BY <2>2, <2>3
<1>. QED
  BY <1>2, <1>3

(* The new node of a split is linked in beside the old one.                *)
LinkedRight(h, g, c, new) ==
    /\ g[new].prev = c /\ g[new].next = h[c].next
    /\ \A x \in DOMAIN h : /\ g[x].next = IF x = c THEN new ELSE h[x].next
                           /\ g[x].prev = IF x = h[c].next THEN new ELSE h[x].prev

LinkedLeft(h, g, c, new) ==
    /\ g[new].prev = h[c].prev /\ g[new].next = c
    /\ \A x \in DOMAIN h : /\ g[x].next = IF x = h[c].prev THEN new ELSE h[x].next
                           /\ g[x].prev = IF x = c THEN new ELSE h[x].prev

(* So SplitAt links it.                                                    *)
LEMMA SplitLinks ==
    ASSUME NEW h, NEW range, NEW height, IsTree(h, range, height),
           NEW c \in DOMAIN h \ {RootPtr}, NEW m \in 1 .. NumKeys(h, c) - 1,
           NEW toLeft \in BOOLEAN,
           (IF toLeft THEN h[c].prev ELSE h[c].next) \in DOMAIN h \cup {Null}
    PROVE  LET g == SplitAt(h, c, m, toLeft)
               new == Allocate(h)
           IN IF toLeft THEN LinkedLeft(h, g, c, new) ELSE LinkedRight(h, g, c, new)
<1>. DEFINE p == h[c].parent
            new == Allocate(h)
            lo == IF toLeft THEN new ELSE c
            hi == IF toLeft THEN c ELSE new
            before == IF toLeft THEN h[c].prev ELSE c
            after == IF toLeft THEN c ELSE h[c].next
            node == [NewNode(h[c].isLeaf) EXCEPT !.prev = before, !.next = after]
            w == Written(h, c, m, lo, hi, new, node)
            g1 == Consolidate(w, new)
            g2 == Consolidate(g1, c)
            g3 == Consolidate(g2, p)
            g == SplitAt(h, c, m, toLeft)
<1>1. Heap(h) /\ c \in Nat /\ c \in DOMAIN h /\ h[c].prev \in Pointer /\ h[c].next \in Pointer
      /\ h[c].isLeaf \in BOOLEAN
  BY NodeType DEF IsTree
<1>2. new \in Nat /\ new \notin DOMAIN h
  BY <1>1, AllocateIsNew
<1>3. p \in DOMAIN h /\ p # c
  BY ParentOf
<1>4. /\ node \in Node /\ node.isLeaf = h[c].isLeaf
      /\ node.prev = before /\ node.next = after
  <2>1. before \in Pointer /\ after \in Pointer
    BY <1>1 DEF Pointer
  <2>2. node = LinkedTo(NewNode(h[c].isLeaf), before, after)
    BY DEF LinkedTo
  <2>3. NewNode(h[c].isLeaf) \in Node /\ NewNode(h[c].isLeaf).isLeaf = h[c].isLeaf
    BY <1>1, NewNodeType DEF NewNode
  <2>. HIDE DEF node, before, after
  <2>4. node \in Node /\ node.isLeaf = h[c].isLeaf
    BY <2>1, <2>2, <2>3, LinkedType
  <2>5. node.prev = before /\ node.next = after
    BY <2>2, <2>3 DEF LinkedTo, Node
  <2>. QED
    BY <2>4, <2>5
<1>5. (lo = c /\ hi = new) \/ (lo = new /\ hi = c)
  OBVIOUS
<1>6. IF toLeft THEN g = SetNext(SetPrev(g3, c, new), h[c].prev, new)
                ELSE g = SetPrev(SetNext(g3, c, new), h[c].next, new)
  BY <1>2 DEF SplitAt, Written
<1>7. Null \notin DOMAIN h
  BY <1>1 DEF Heap, Null
<1>. HIDE DEF node, g, lo, hi, new
<1>. HIDE DEF w
<1>8. w = Written(h, c, m, lo, hi, new, node)
  BY DEF w
<1>9. IsWritten(h, w, c, m, lo, hi, new, node)
  <2>. HIDE DEF p, before, after
  <2>. QED
    BY <1>2, <1>4, <1>5, <1>8, SplitWritten
<1>10. /\ Heap(w) /\ DOMAIN w = DOMAIN h \cup {new}
       /\ \A x \in DOMAIN h : w[x].next = h[x].next /\ w[x].prev = h[x].prev
       /\ w[new].next = after /\ w[new].prev = before
  BY <1>4, <1>9 DEF IsWritten, SameLinks
<1>11. /\ Heap(g1) /\ DOMAIN g1 = DOMAIN w
       /\ \A x \in DOMAIN w : g1[x].next = w[x].next /\ g1[x].prev = w[x].prev
  <2>1. new \in DOMAIN w
    BY <1>10
  <2>. QED
    BY <1>10, <2>1, ConsolidateFields DEF SameLinks
<1>. HIDE DEF g1
<1>12. /\ Heap(g2) /\ DOMAIN g2 = DOMAIN w
       /\ \A x \in DOMAIN w : g2[x].next = w[x].next /\ g2[x].prev = w[x].prev
  <2>1. c \in DOMAIN g1
    BY <1>1, <1>10, <1>11
  <2>. QED
    BY <1>11, <2>1, ConsolidateFields DEF SameLinks
<1>. HIDE DEF g2, p
<1>13. /\ Heap(g3) /\ DOMAIN g3 = DOMAIN w
       /\ \A x \in DOMAIN w : g3[x].next = w[x].next /\ g3[x].prev = w[x].prev
  <2>1. p \in DOMAIN g2
    BY <1>3, <1>10, <1>12
  <2>. QED
    BY <1>12, <2>1, ConsolidateFields DEF SameLinks
<1>. HIDE DEF g3
<1>14. c \in Pointer /\ new \in Pointer
  BY <1>1, <1>2 DEF Pointer
<1>15. CASE toLeft
  <2>. DEFINE f == SetPrev(g3, c, new)
  <2>1. /\ \A x \in DOMAIN w : /\ f[x].prev = IF x = c THEN new ELSE g3[x].prev
                               /\ f[x].next = g3[x].next
        /\ Heap(f) /\ DOMAIN f = DOMAIN w
    BY <1>13, <1>14, LinkFields, LinkSet DEF SameHeap, NextIs, PrevIs
  <2>. HIDE DEF f
  <2>2. g = SetNext(f, h[c].prev, new)
    BY <1>6, <1>15 DEF f
  <2>3. \A x \in DOMAIN w : /\ g[x].next = IF x = h[c].prev THEN new ELSE f[x].next
                            /\ g[x].prev = f[x].prev
    <3>1. NextIs(g, f, h[c].prev, new)
      BY <1>1, <1>14, <2>1, <2>2, LinkFields
    <3>. QED
      BY <2>1, <3>1 DEF NextIs
  <2>4. ASSUME NEW x \in DOMAIN h
        PROVE  /\ g[x].next = IF x = h[c].prev THEN new ELSE h[x].next
               /\ g[x].prev = IF x = c THEN new ELSE h[x].prev
    BY <1>10, <1>13, <2>1, <2>3
  <2>5. h[c].prev # new
    BY <1>2, <1>15 DEF Null
  <2>6. g[new].prev = h[c].prev /\ g[new].next = c
    BY <1>1, <1>2, <1>10, <1>13, <1>15, <2>1, <2>3, <2>5
  <2>. QED
    BY <1>15, <2>4, <2>6 DEF LinkedLeft, g, new
<1>16. CASE ~toLeft
  <2>. DEFINE f == SetNext(g3, c, new)
  <2>1. /\ \A x \in DOMAIN w : /\ f[x].next = IF x = c THEN new ELSE g3[x].next
                               /\ f[x].prev = g3[x].prev
        /\ Heap(f) /\ DOMAIN f = DOMAIN w
    BY <1>13, <1>14, LinkFields, LinkSet DEF SameHeap, NextIs, PrevIs
  <2>. HIDE DEF f
  <2>2. g = SetPrev(f, h[c].next, new)
    BY <1>6, <1>16 DEF f
  <2>3. \A x \in DOMAIN w : /\ g[x].prev = IF x = h[c].next THEN new ELSE f[x].prev
                            /\ g[x].next = f[x].next
    <3>1. PrevIs(g, f, h[c].next, new)
      BY <1>1, <1>14, <2>1, <2>2, LinkFields
    <3>. QED
      BY <2>1, <3>1 DEF PrevIs
  <2>4. ASSUME NEW x \in DOMAIN h
        PROVE  /\ g[x].next = IF x = c THEN new ELSE h[x].next
               /\ g[x].prev = IF x = h[c].next THEN new ELSE h[x].prev
    BY <1>10, <1>13, <2>1, <2>3
  <2>5. h[c].next # new
    BY <1>2, <1>16 DEF Null
  <2>6. g[new].prev = c /\ g[new].next = h[c].next
    BY <1>1, <1>2, <1>10, <1>13, <1>16, <2>1, <2>3, <2>5
  <2>. QED
    BY <1>16, <2>4, <2>6 DEF LinkedRight, g, new
<1>. QED
  BY <1>15, <1>16
-----------------------------------------------------------------------------
(* How the nodes of a level are linked                                     *)

(* The node that next of a node points to points back.                     *)
NextFits(h, height, x) ==
    LET y == h[x].next
    IN y # Null => y \in DOMAIN h /\ y # x /\ height[y] = height[x] /\ h[y].prev = x

(* What comes after the i-th child of n: the next child, or the first one  *)
(* of the next node.                                                       *)
NextChild(h, n, i) == IF i < NumChild(h, n) THEN h[n].children[i + 1]
                      ELSE IF h[n].next = Null THEN Null ELSE h[h[n].next].children[1]

Woven(h, height) ==
    /\ h[RootPtr].next = Null
    /\ \A x \in DOMAIN h : NextFits(h, height, x)
    /\ \A n \in DOMAIN h : \A i \in 1 .. NumChild(h, n) :
          h[h[n].children[i]].next = NextChild(h, n, i)

(* From h to g, lo and hi have taken the place of c in its level.          *)
Spliced(h, g, c, lo, hi) ==
    /\ g[lo].next = hi /\ g[hi].prev = lo /\ g[hi].next = h[c].next
    /\ h[c].next # Null => g[h[c].next].prev = hi
    /\ \A x \in DOMAIN h \ {c} :
          /\ g[x].next = IF h[x].next = c THEN lo ELSE h[x].next
          /\ h[x].next = c => g[lo].prev = x
          /\ h[x].next \notin {Null, c} => g[h[x].next].prev = x

(* A split splices: the new node comes to the left only if c has a left    *)
(* neighbour below the same parent.                                        *)
LEMMA SplitSplices ==
    ASSUME NEW h, NEW range, NEW height, IsTree(h, range, height), Woven(h, height),
           NEW c \in DOMAIN h \ {RootPtr}, NEW m \in 1 .. NumKeys(h, c) - 1,
           NEW toLeft \in BOOLEAN, toLeft => h[c].childIndex > 0,
           NEW g, g = SplitAt(h, c, m, toLeft), NEW new, new = Allocate(h)
    PROVE  Spliced(h, g, c, IF toLeft THEN new ELSE c, IF toLeft THEN c ELSE new)
<1>1. /\ \A x \in DOMAIN h : NextFits(h, height, x)
      /\ \A n \in DOMAIN h : \A i \in 1 .. NumChild(h, n) :
            h[h[n].children[i]].next = NextChild(h, n, i)
  BY DEF Woven
<1>2. c \in DOMAIN h /\ c # Null /\ Null \notin DOMAIN h /\ new \notin DOMAIN h
  BY AllocateIsNew DEF IsTree, Heap, Null
<1>3. CASE ~toLeft
  <2>1. h[c].next \in DOMAIN h \cup {Null}
    BY <1>1, <1>2 DEF NextFits
  <2>2. LinkedRight(h, g, c, new)
    BY <1>3, <2>1, SplitLinks
  <2>. QED
    BY <1>1, <1>2, <1>3, <2>2 DEF LinkedRight, Spliced, NextFits
<1>4. CASE toLeft
  <2>. DEFINE p == h[c].parent
              l == h[p].children[h[c].childIndex]
  <2>1. /\ p \in DOMAIN h /\ h[c].childIndex + 1 \in 1 .. NumKeys(h, p) + 1
        /\ NumChild(h, p) = NumKeys(h, p) + 1 /\ h[p].children[h[c].childIndex + 1] = c
    BY ParentOf
  <2>2. h[c].childIndex \in Nat \cup {-1} /\ NumKeys(h, p) \in Nat
    BY <1>2, <2>1, NodeType DEF IsTree
  <2>3. h[c].childIndex \in 1 .. NumChild(h, p) /\ h[c].childIndex < NumChild(h, p)
    BY <1>4, <2>1, <2>2
  <2>4. l \in DOMAIN h
    BY <2>1, <2>3, ChildOf
  <2>5. h[l].next = c
    BY <1>1, <2>1, <2>3 DEF NextChild
  <2>. HIDE DEF l
  <2>6. h[c].prev = l /\ l # c
    BY <1>1, <1>2, <2>4, <2>5 DEF NextFits
  <2>7. LinkedLeft(h, g, c, new)
    BY <1>4, <2>4, <2>6, SplitLinks
  <2>8. \A x \in DOMAIN h : h[x].next = c <=> x = l
    BY <1>1, <1>2, <2>5, <2>6 DEF NextFits
  <2>9. /\ g[new].prev = l /\ g[new].next = c /\ g[c].prev = new
        /\ g[c].next = h[c].next
        /\ \A x \in DOMAIN h \ {c} : /\ g[x].next = IF x = l THEN new ELSE h[x].next
                                     /\ g[x].prev = h[x].prev
    BY <1>2, <2>6, <2>7 DEF LinkedLeft
  <2>10. h[c].next # Null => g[h[c].next].prev = c
    BY <1>1, <1>2, <2>9 DEF NextFits
  <2>11. ASSUME NEW x \in DOMAIN h \ {c}
         PROVE  /\ g[x].next = IF h[x].next = c THEN new ELSE h[x].next
                /\ h[x].next = c => g[new].prev = x
                /\ h[x].next \notin {Null, c} => g[h[x].next].prev = x
    <3>1. NextFits(h, height, x)
      BY <1>1
    <3>. QED
      BY <2>8, <2>9, <3>1 DEF NextFits
  <2>12. Spliced(h, g, c, new, c)
    BY <2>9, <2>10, <2>11 DEF Spliced
  <2>. QED
    BY <1>4, <2>12
<1>. QED
  BY <1>3, <1>4

(* A split of c, whose parent is not rootPtr, in a woven tree.             *)
Splicing(h, range, height, c, m, g, lo, hi, new) ==
    /\ IsTree(h, range, height) /\ Woven(h, height)
    /\ c \in DOMAIN h \ {RootPtr} /\ m \in 1 .. NumKeys(h, c) - 1
    /\ IsSplit(h, g, c, m, lo, hi, new) /\ Spliced(h, g, c, lo, hi)

(* A node of the old tree, next to which may be c.                         *)
LEMMA NextThen ==
    ASSUME NEW h, NEW range, NEW height, NEW c, NEW m, NEW g, NEW lo, NEW hi, NEW new,
           Splicing(h, range, height, c, m, g, lo, hi, new), NEW x \in DOMAIN h \ {c}
    PROVE  /\ g[x].next = IF h[x].next = c THEN lo ELSE h[x].next
           /\ height[x] # height[c] => g[x].next = h[x].next
<1>1. g[x].next = IF h[x].next = c THEN lo ELSE h[x].next
  BY DEF Splicing, Spliced
<1>2. NextFits(h, height, x)
  BY DEF Splicing, Woven
<1>3. c # Null
  BY DEF Splicing, IsTree, Heap, Null
<1>. QED
  BY <1>1, <1>2, <1>3 DEF NextFits

(* The children of a node of the old tree.                                 *)
LEMMA ChildThen ==
    ASSUME NEW h, NEW range, NEW height, NEW c, NEW m, NEW g, NEW lo, NEW hi, NEW new,
           Splicing(h, range, height, c, m, g, lo, hi, new),
           NEW n \in DOMAIN h, NEW i \in 1 .. NumChild(h, n)
    PROVE  LET x == h[n].children[i]
           IN /\ x \in DOMAIN h /\ h[x].parent = n /\ h[x].childIndex = i - 1
              /\ height[n] = height[x] + 1 /\ height[n] > 0
              /\ h[x].next = NextChild(h, n, i)
              /\ x = c <=> n = h[c].parent /\ i = h[c].childIndex + 1
              /\ height[x] # height[c] => x # c
<1>. DEFINE x == h[n].children[i]
<1>1. IsTree(h, range, height) /\ c \in DOMAIN h \ {RootPtr}
  BY DEF Splicing
<1>2. x \in DOMAIN h /\ h[x].parent = n /\ h[x].childIndex = i - 1 /\ height[n] = height[x] + 1
  BY <1>1, ChildOf
<1>3. height[x] \in Nat
  BY <1>1, <1>2 DEF IsTree
<1>4. h[x].next = NextChild(h, n, i)
  BY DEF Splicing, Woven
<1>5. h[h[c].parent].children[h[c].childIndex + 1] = c
  BY <1>1, ParentOf
<1>6. i - 1 + 1 = i
  OBVIOUS
<1>7. x = c <=> n = h[c].parent /\ i = h[c].childIndex + 1
  BY <1>2, <1>5, <1>6
<1>. QED
  BY <1>2, <1>3, <1>4, <1>7

(* A node that is not split keeps its first child, or has lo in its place. *)
LEMMA FirstThen ==
    ASSUME NEW h, NEW range, NEW height, NEW c, NEW m, NEW g, NEW lo, NEW hi, NEW new,
           Splicing(h, range, height, c, m, g, lo, hi, new),
           NEW q \in DOMAIN h \ {c}, ~h[q].isLeaf
    PROVE  LET x == h[q].children[1]
           IN /\ g[q].children[1] = IF x = c THEN lo ELSE x
              /\ x = c => q = h[c].parent
              /\ x \in DOMAIN h /\ height[q] = height[x] + 1
<1>. DEFINE x == h[q].children[1]
            p == h[c].parent
<1>1. IsTree(h, range, height)
  BY DEF Splicing
<1>2. 1 \in 1 .. NumChild(h, q)
  <2>1. NumChild(h, q) = NumKeys(h, q) + 1 /\ NumKeys(h, q) \in Nat
    BY <1>1, NodeType DEF IsTree, NodeFits
  <2>. QED
    BY <2>1
<1>3. /\ x \in DOMAIN h /\ height[q] = height[x] + 1
      /\ x = c <=> q = p /\ 1 = h[c].childIndex + 1
  BY <1>2, ChildThen
<1>4. CASE q = p
  <2>1. SplitFact(h, range, height, c, m, g, lo, hi, new)
    BY SplitFacts DEF Splicing
  <2>2. /\ UpParts(h, g, c, m, lo, hi) /\ h[c].childIndex + 1 \in 1 .. NumKeys(h, p) + 1
        /\ NumKeys(h, p) \in Nat
    BY <1>1, <1>4, <2>1, NodeType DEF SplitFact, IsTree
  <2>3. 1 \in 1 .. NumKeys(h, p) + 2
    BY <2>2
  <2>4. /\ 1 < h[c].childIndex + 1 => g[p].children[1] = h[p].children[1]
        /\ 1 = h[c].childIndex + 1 => g[p].children[1] = lo
    BY <2>2, <2>3 DEF UpParts
  <2>. QED
    BY <1>3, <1>4, <2>2, <2>4
<1>5. CASE q # p
  <2>1. SameBody(g, h, q)
    BY <1>5 DEF Splicing, IsSplit, SplitBodies
  <2>. QED
    BY <1>3, <1>5, <2>1 DEF SameBody
<1>. QED
  BY <1>4, <1>5

(* After the split the next of a child is right again: below a node that   *)
(* the split does not write,                                               *)
LEMMA WovenElsewhere ==
    ASSUME NEW h, NEW range, NEW height, NEW c, NEW m, NEW g, NEW lo, NEW hi, NEW new,
           Splicing(h, range, height, c, m, g, lo, hi, new),
           NEW n \in DOMAIN g \ {lo, hi, h[c].parent}, NEW i \in 1 .. NumChild(g, n)
    PROVE  g[g[n].children[i]].next = NextChild(g, n, i)
<1>. DEFINE p == h[c].parent
            x == h[n].children[i]
            q == h[n].next
<1>1. /\ IsTree(h, range, height) /\ c \in DOMAIN h \ {RootPtr}
      /\ DOMAIN g = DOMAIN h \cup {new} /\ {lo, hi} = {c, new} /\ p \in DOMAIN h
      /\ LoParts(h, g, c, m, lo) /\ m \in Nat /\ m >= 1
  <2>1. SplitFact(h, range, height, c, m, g, lo, hi, new)
    BY SplitFacts DEF Splicing
  <2>. QED
    BY <2>1 DEF SplitFact, Splicing
<1>2. n \in DOMAIN h \ {c, p}
  BY <1>1
<1>3. NumChild(g, n) = NumChild(h, n) /\ g[n].children = h[n].children
  <2>1. SameBody(g, h, n)
    BY <1>2 DEF Splicing, IsSplit, SplitBodies
  <2>. QED
    BY <2>1 DEF SameBody, NumChild
<1>4. /\ x \in DOMAIN h \ {c} /\ height[n] = height[x] + 1 /\ height[n] > 0
      /\ h[x].next = NextChild(h, n, i)
  BY <1>2, <1>3, ChildThen
<1>5. /\ g[x].next = IF h[x].next = c THEN lo ELSE h[x].next
      /\ g[n].next = IF q = c THEN lo ELSE q
  BY <1>2, <1>4, NextThen
<1>6. CASE i < NumChild(h, n)
  <2>1. i + 1 \in 1 .. NumChild(h, n)
    <3>1. NumChild(h, n) \in Nat
      BY <1>1, <1>2, NodeType DEF IsTree
    <3>. QED
      BY <1>3, <1>6, <3>1
  <2>2. h[n].children[i + 1] # c
    BY <1>2, <2>1, ChildThen
  <2>. QED
    BY <1>3, <1>4, <1>5, <1>6, <2>2 DEF NextChild
<1>7. CASE ~(i < NumChild(h, n)) /\ q = Null
  <2>1. c # Null
    BY <1>1 DEF IsTree, Heap, Null
  <2>. QED
    BY <1>3, <1>4, <1>5, <1>7, <2>1 DEF NextChild
<1>8. CASE ~(i < NumChild(h, n)) /\ q # Null
  <2>1. q \in DOMAIN h /\ height[q] = height[n] /\ ~h[q].isLeaf
    <3>1. NextFits(h, height, n)
      BY <1>2 DEF Splicing, Woven
    <3>2. q \in DOMAIN h /\ height[q] = height[n] /\ height[n] # 0
      BY <1>4, <1>8, <3>1 DEF NextFits
    <3>3. NodeFits(h, range, height, q)
      BY <1>1, <3>2 DEF IsTree
    <3>. QED
      BY <3>2, <3>3 DEF NodeFits
  <2>2. h[x].next = h[q].children[1]
    BY <1>4, <1>8 DEF NextChild
  <2>3. lo # Null
    BY <1>1 DEF LoParts, IsTree, Heap, Null, Splicing, IsSplit
  <2>4. CASE q = c
    <3>1. g[lo].children[1] = h[c].children[1]
      <4>1. 1 \in 1 .. m + 1
        BY <1>1
      <4>. QED
        BY <1>1, <2>1, <2>4, <4>1 DEF LoParts
    <3>2. h[c].children[1] # c
      <4>1. 1 \in 1 .. NumChild(h, c)
        <5>1. NumChild(h, c) = NumKeys(h, c) + 1 /\ NumKeys(h, c) \in Nat
          BY <1>1, <2>1, <2>4, NodeType DEF IsTree, NodeFits
        <5>. QED
          BY <5>1
      <4>2. h[h[c].children[1]].parent = c
        BY <1>1, <4>1, ChildThen
      <4>3. p # c
        BY <1>1, ParentOf
      <4>. QED
        BY <4>2, <4>3
    <3>. QED
      BY <1>3, <1>5, <1>8, <2>2, <2>3, <2>4, <3>1, <3>2 DEF NextChild
  <2>5. CASE q # c
    <3>1. g[q].children[1] = IF h[q].children[1] = c THEN lo ELSE h[q].children[1]
      BY <2>1, <2>5, FirstThen
    <3>. QED
      BY <1>3, <1>5, <1>8, <2>2, <2>5, <3>1 DEF NextChild
  <2>. QED
    BY <2>4, <2>5
<1>. QED
  BY <1>3, <1>6, <1>7, <1>8

(* in the left half,                                                       *)
LEMMA WovenLo ==
    ASSUME NEW h, NEW range, NEW height, NEW c, NEW m, NEW g, NEW lo, NEW hi, NEW new,
           Splicing(h, range, height, c, m, g, lo, hi, new), NEW i \in 1 .. NumChild(g, lo)
    PROVE  g[g[lo].children[i]].next = NextChild(g, lo, i)
<1>. DEFINE x == h[c].children[i]
<1>1. /\ IsTree(h, range, height) /\ c \in DOMAIN h \ {RootPtr} /\ lo # Null /\ hi # Null
      /\ LoParts(h, g, c, m, lo) /\ HiParts(h, g, c, m, hi)
      /\ m \in Nat /\ m >= 1 /\ m + 1 \in 1 .. NumKeys(h, c) /\ NumKeys(h, c) \in Nat
  <2>1. SplitFact(h, range, height, c, m, g, lo, hi, new)
    BY SplitFacts DEF Splicing
  <2>2. {lo, hi} \subseteq DOMAIN g /\ Heap(g)
    BY <2>1 DEF SplitFact
  <2>3. lo # Null /\ hi # Null
    BY <2>2 DEF Heap, Null
  <2>4. IsTree(h, range, height) /\ c \in DOMAIN h \ {RootPtr}
    BY DEF Splicing
  <2>5. NumKeys(h, c) \in Nat
    BY <2>4, NodeType DEF IsTree
  <2>. QED
    BY <2>1, <2>3, <2>4, <2>5 DEF SplitFact
<1>2. ~h[c].isLeaf
  BY <1>1 DEF LoParts
<1>3. NumChild(h, c) = NumKeys(h, c) + 1
  BY <1>1, <1>2 DEF IsTree, NodeFits
<1>4. /\ NumChild(g, lo) = m + 1 /\ \A j \in 1 .. m + 1 : g[lo].children[j] = h[c].children[j]
  BY <1>1, <1>2 DEF LoParts
<1>5. i \in 1 .. NumChild(h, c) /\ i < NumChild(h, c) /\ i + 1 \in 1 .. NumChild(h, c)
  BY <1>1, <1>3, <1>4
<1>6. /\ x \in DOMAIN h \ {c} /\ h[x].next = h[c].children[i + 1] /\ h[c].children[i + 1] # c
  <2>1. h[c].parent # c
    BY <1>1, ParentOf
  <2>. QED
    BY <1>1, <1>5, <2>1, ChildThen DEF NextChild
<1>7. g[x].next = h[c].children[i + 1]
  BY <1>6, NextThen
<1>8. CASE i < m + 1
  <2>1. i \in 1 .. m + 1 /\ i + 1 \in 1 .. m + 1
    BY <1>1, <1>4, <1>8
  <2>. QED
    BY <1>4, <1>7, <1>8, <2>1 DEF NextChild
<1>9. CASE ~(i < m + 1)
  <2>1. i = m + 1 /\ i \in 1 .. m + 1
    BY <1>1, <1>4, <1>9
  <2>2. g[hi].children[1] = h[c].children[m + 1 + 1]
    <3>1. 1 \in 1 .. NumKeys(h, c) - m
      BY <1>1
    <3>. QED
      BY <1>1, <1>2, <3>1 DEF HiParts
  <2>3. g[lo].next = hi
    BY DEF Splicing, Spliced
  <2>. QED
    BY <1>1, <1>4, <1>7, <1>9, <2>1, <2>2, <2>3 DEF NextChild
<1>. QED
  BY <1>8, <1>9

(* in the right half,                                                      *)
LEMMA WovenHi ==
    ASSUME NEW h, NEW range, NEW height, NEW c, NEW m, NEW g, NEW lo, NEW hi, NEW new,
           Splicing(h, range, height, c, m, g, lo, hi, new), NEW i \in 1 .. NumChild(g, hi)
    PROVE  g[g[hi].children[i]].next = NextChild(g, hi, i)
<1>. DEFINE k == m + 1 + i
            x == h[c].children[k]
            d == h[c].next
<1>1. /\ IsTree(h, range, height) /\ c \in DOMAIN h \ {RootPtr} /\ HiParts(h, g, c, m, hi)
      /\ m \in Nat /\ m >= 1 /\ m + 1 \in 1 .. NumKeys(h, c) /\ NumKeys(h, c) \in Nat
  <2>1. SplitFact(h, range, height, c, m, g, lo, hi, new)
    BY SplitFacts DEF Splicing
  <2>2. IsTree(h, range, height) /\ c \in DOMAIN h \ {RootPtr}
    BY DEF Splicing
  <2>3. NumKeys(h, c) \in Nat
    BY <2>2, NodeType DEF IsTree
  <2>. QED
    BY <2>1, <2>2, <2>3 DEF SplitFact
<1>2. ~h[c].isLeaf
  BY <1>1 DEF HiParts
<1>3. NumChild(h, c) = NumKeys(h, c) + 1
  BY <1>1, <1>2 DEF IsTree, NodeFits
<1>4. /\ NumChild(g, hi) = NumKeys(h, c) - m
      /\ \A j \in 1 .. NumKeys(h, c) - m : g[hi].children[j] = h[c].children[m + 1 + j]
  BY <1>1, <1>2 DEF HiParts
<1>5. k \in 1 .. NumChild(h, c) /\ (k < NumChild(h, c) <=> i < NumChild(g, hi))
  BY <1>1, <1>3, <1>4
<1>6. g[hi].children[i] = x
  BY <1>4
<1>. HIDE DEF k
<1>7. /\ x \in DOMAIN h \ {c} /\ height[c] = height[x] + 1
      /\ h[x].next = NextChild(h, c, k)
  <2>1. h[c].parent # c
    BY <1>1, ParentOf
  <2>. QED
    BY <1>1, <1>5, <2>1, ChildThen
<1>8. g[x].next = h[x].next
  <2>1. height[x] \in Nat
    BY <1>1, <1>7 DEF IsTree
  <2>2. height[x] # height[c]
    BY <1>7, <2>1
  <2>. QED
    BY <1>7, <2>2, NextThen
<1>9. CASE i < NumChild(g, hi)
  <2>1. k < NumChild(h, c)
    BY <1>5, <1>9
  <2>2. h[x].next = h[c].children[k + 1]
    BY <1>7, <2>1 DEF NextChild
  <2>3. i + 1 \in 1 .. NumKeys(h, c) - m /\ m + 1 + (i + 1) = k + 1
    BY <1>1, <1>4, <1>9 DEF k
  <2>4. g[hi].children[i + 1] = h[c].children[k + 1]
    BY <1>4, <2>3
  <2>. QED
    BY <1>6, <1>8, <1>9, <2>2, <2>4 DEF NextChild
<1>10. CASE ~(i < NumChild(g, hi))
  <2>1. h[x].next = IF d = Null THEN Null ELSE h[d].children[1]
    BY <1>5, <1>7, <1>10 DEF NextChild
  <2>2. g[hi].next = d
    BY DEF Splicing, Spliced
  <2>3. ASSUME d # Null PROVE g[d].children[1] = h[d].children[1]
    <3>1. d \in DOMAIN h /\ d # c /\ height[d] = height[c]
      <4>1. NextFits(h, height, c)
        BY <1>1 DEF Splicing, Woven
      <4>. QED
        BY <2>3, <4>1 DEF NextFits
    <3>2. ~h[d].isLeaf
      <4>1. height[x] \in Nat
        BY <1>1, <1>7 DEF IsTree
      <4>2. height[d] # 0
        BY <1>7, <3>1, <4>1
      <4>3. NodeFits(h, range, height, d)
        BY <1>1, <3>1 DEF IsTree
      <4>. QED
        BY <4>2, <4>3 DEF NodeFits
    <3>3. d # h[c].parent
      <4>1. height[h[c].parent] = height[c] + 1 /\ height[c] \in Nat
        BY <1>1, HeightOf
      <4>. QED
        BY <3>1, <4>1
    <3>. QED
      BY <3>1, <3>2, <3>3, FirstThen
  <2>. QED
    BY <1>6, <1>8, <1>10, <2>1, <2>2, <2>3 DEF NextChild
<1>. QED
  BY <1>9, <1>10

(* and below the parent, which has lo and hi in the place of c.            *)
LEMMA WovenUp ==
    ASSUME NEW h, NEW range, NEW height, NEW c, NEW m, NEW g, NEW lo, NEW hi, NEW new,
           Splicing(h, range, height, c, m, g, lo, hi, new),
           NEW j \in 1 .. NumChild(g, h[c].parent)
    PROVE  g[g[h[c].parent].children[j]].next = NextChild(g, h[c].parent, j)
<1>. DEFINE p == h[c].parent
            at == h[c].childIndex + 1
            n == NumChild(h, p)
            q == h[p].next
<1>1. /\ IsTree(h, range, height) /\ c \in DOMAIN h \ {RootPtr} /\ UpParts(h, g, c, m, lo, hi)
      /\ p \in DOMAIN h \ {c} /\ at \in Nat /\ at \in 1 .. n /\ h[p].children[at] = c
      /\ NumKeys(h, p) + 1 = n /\ NumKeys(h, p) \in Nat
  <2>1. SplitFact(h, range, height, c, m, g, lo, hi, new)
    BY SplitFacts DEF Splicing
  <2>2. IsTree(h, range, height) /\ c \in DOMAIN h \ {RootPtr}
    BY DEF Splicing
  <2>3. p \in DOMAIN h \ {c}
    BY <2>2, ParentOf
  <2>4. NumKeys(h, p) \in Nat
    BY <2>2, <2>3, NodeType DEF IsTree
  <2>. QED
    BY <2>1, <2>2, <2>3, <2>4 DEF SplitFact
<1>. HIDE DEF p, at, n
<1>2. /\ NumChild(g, p) = n + 1
      /\ \A i \in 1 .. n + 1 :
            /\ i < at => g[p].children[i] = h[p].children[i]
            /\ i = at => g[p].children[i] = lo
            /\ i = at + 1 => g[p].children[i] = hi
            /\ i > at + 1 => g[p].children[i] = h[p].children[i - 1]
  <2>1. NumKeys(h, p) + 2 = n + 1
    BY <1>1
  <2>. QED
    BY <1>1, <2>1 DEF UpParts, p, at
<1>3. j \in 1 .. n + 1
  BY <1>2 DEF p
<1>4. ASSUME NEW i \in 1 .. n
      PROVE  /\ h[p].children[i] \in DOMAIN h /\ h[h[p].children[i]].next = NextChild(h, p, i)
             /\ h[p].children[i] = c <=> i = at
  <2>1. i = h[c].childIndex + 1 <=> i = at
    BY DEF at
  <2>. QED
    BY <1>1, <2>1, ChildThen DEF n, p
<1>5. ASSUME NEW i \in 1 .. n, i # at
      PROVE  g[h[p].children[i]].next = IF NextChild(h, p, i) = c THEN lo ELSE NextChild(h, p, i)
  <2>1. h[p].children[i] \in DOMAIN h \ {c}
    BY <1>4, <1>5
  <2>. QED
    BY <1>4, <2>1, NextThen
<1>6. g[p].next = q
  <2>1. height[p] = height[c] + 1 /\ height[c] \in Nat
    BY <1>1, HeightOf DEF p
  <2>2. height[p] # height[c]
    BY <2>1
  <2>. QED
    BY <1>1, <2>2, NextThen
<1>7. ASSUME q # Null
      PROVE  g[q].children[1] = h[q].children[1] /\ h[q].children[1] # c
  <2>1. q \in DOMAIN h /\ q # p /\ height[q] = height[p]
    <3>1. NextFits(h, height, p)
      BY <1>1 DEF Splicing, Woven
    <3>. QED
      BY <1>7, <3>1 DEF NextFits
  <2>2. height[p] = height[c] + 1 /\ height[c] \in Nat
    BY <1>1, HeightOf DEF p
  <2>3. q # c /\ height[q] # 0
    BY <2>1, <2>2
  <2>4. ~h[q].isLeaf
    BY <1>1, <2>1, <2>3 DEF IsTree, NodeFits
  <2>. QED
    BY <2>1, <2>3, <2>4, FirstThen DEF p
<1>8. c # Null
  BY <1>1 DEF IsTree, Heap, Null
<1>9. \A i \in 1 .. n : NextChild(h, p, i) = IF i < n THEN h[p].children[i + 1]
                                             ELSE IF q = Null THEN Null ELSE h[q].children[1]
  BY DEF NextChild, n
<1>10. \A i \in 1 .. n + 1 : NextChild(g, p, i) = IF i < n + 1 THEN g[p].children[i + 1]
                                                  ELSE IF q = Null THEN Null ELSE g[q].children[1]
  BY <1>2, <1>6 DEF NextChild
<1>11. g[lo].next = hi /\ g[hi].next = h[c].next
  BY DEF Splicing, Spliced
<1>12. n \in Nat
  BY <1>1
<1>13. CASE j < at
  <2>1. j \in 1 .. n /\ j # at /\ j < n /\ j + 1 \in 1 .. n /\ j + 1 \in 1 .. n + 1
    BY <1>1, <1>3, <1>12, <1>13
  <2>2. g[p].children[j] = h[p].children[j]
    BY <1>2, <1>3, <1>13
  <2>3. g[h[p].children[j]].next = IF h[p].children[j + 1] = c THEN lo ELSE h[p].children[j + 1]
    BY <1>5, <1>9, <2>1
  <2>4. h[p].children[j + 1] = c <=> j + 1 = at
    BY <1>4, <2>1
  <2>5. g[p].children[j + 1] = IF j + 1 = at THEN lo ELSE h[p].children[j + 1]
    <3>1. j + 1 < at \/ j + 1 = at
      BY <1>1, <1>13
    <3>. QED
      BY <1>2, <2>1, <3>1
  <2>6. j < n + 1
    BY <1>12, <2>1
  <2>. QED
    BY <1>3, <1>10, <2>2, <2>3, <2>4, <2>5, <2>6 DEF p
<1>14. CASE j = at
  <2>1. at \in 1 .. n + 1 /\ at + 1 \in 1 .. n + 1 /\ at < n + 1
    BY <1>1, <1>12
  <2>2. g[p].children[at] = lo /\ g[p].children[at + 1] = hi
    BY <1>2, <2>1
  <2>. QED
    BY <1>10, <1>11, <1>14, <2>1, <2>2 DEF p
<1>15. CASE j = at + 1
  <2>1. g[p].children[j] = hi
    BY <1>2, <1>3, <1>15
  <2>2. h[c].next = NextChild(h, p, at)
    BY <1>1, <1>4
  <2>3. CASE at < n
    <3>. DEFINE k == at + 1 + 1
    <3>1. at + 1 < n + 1 /\ k \in 1 .. n + 1 /\ k > at + 1 /\ k - 1 = at + 1
      BY <1>1, <1>12, <2>3
    <3>2. g[p].children[k] = h[p].children[at + 1]
      <4>. HIDE DEF k
      <4>. QED
        BY <1>2, <3>1
    <3>. QED
      BY <1>1, <1>3, <1>9, <1>10, <1>11, <1>15, <2>1, <2>2, <2>3, <3>1, <3>2 DEF p
  <2>4. CASE ~(at < n)
    <3>1. ~(at + 1 < n + 1)
      BY <1>1, <1>12, <2>4
    <3>. QED
      BY <1>1, <1>3, <1>7, <1>9, <1>10, <1>11, <1>15, <2>1, <2>2, <2>4, <3>1 DEF p
  <2>. QED
    BY <2>3, <2>4
<1>16. CASE j > at + 1
  <2>1. j - 1 \in 1 .. n /\ j - 1 # at /\ j - 1 + 1 = j
    BY <1>1, <1>3, <1>12, <1>16
  <2>2. g[p].children[j] = h[p].children[j - 1]
    BY <1>2, <1>3, <1>16
  <2>3. g[h[p].children[j - 1]].next =
            IF NextChild(h, p, j - 1) = c THEN lo ELSE NextChild(h, p, j - 1)
    BY <1>5, <2>1
  <2>4. CASE j < n + 1
    <3>1. j - 1 < n /\ j \in 1 .. n /\ j # at /\ j + 1 \in 1 .. n + 1 /\ j + 1 > at + 1 /\ j + 1 - 1 = j
      BY <1>1, <1>3, <1>12, <1>16, <2>4
    <3>2. NextChild(h, p, j - 1) = h[p].children[j] /\ h[p].children[j] # c
      BY <1>4, <1>9, <2>1, <3>1
    <3>3. g[p].children[j + 1] = h[p].children[j]
      BY <1>2, <3>1
    <3>. QED
      BY <1>3, <1>10, <2>2, <2>3, <2>4, <3>2, <3>3 DEF p
  <2>5. CASE ~(j < n + 1)
    <3>1. ~(j - 1 < n)
      BY <1>3, <1>12, <2>5
    <3>2. NextChild(h, p, j - 1) = IF q = Null THEN Null ELSE h[q].children[1]
      BY <1>9, <2>1, <3>1
    <3>3. NextChild(g, p, j) = IF q = Null THEN Null ELSE g[q].children[1]
      BY <1>3, <1>10, <2>5
    <3>. QED
      BY <1>7, <1>8, <2>2, <2>3, <3>2, <3>3 DEF p
  <2>. QED
    BY <2>4, <2>5
<1>. QED
  BY <1>1, <1>3, <1>13, <1>14, <1>15, <1>16

(* So a split weaves the new node in.                                      *)
LEMMA SplitKeepsWoven ==
    ASSUME NEW h, NEW range, NEW height, NEW c, NEW m, NEW g, NEW lo, NEW hi, NEW new,
           Splicing(h, range, height, c, m, g, lo, hi, new),
           NEW H, H = SplitHeight(h, height, c, new)
    PROVE  Woven(g, H)
<1>1. /\ IsTree(h, range, height) /\ c \in DOMAIN h \ {RootPtr} /\ c \in DOMAIN h
      /\ DOMAIN g = DOMAIN h \cup {new} /\ new \notin DOMAIN h /\ {lo, hi} = {c, new} /\ lo # hi
      /\ Null \notin DOMAIN g
  <2>1. SplitFact(h, range, height, c, m, g, lo, hi, new)
    BY SplitFacts DEF Splicing
  <2>. QED
    BY <2>1 DEF SplitFact, Splicing, Heap, Null
<1>2. /\ \A x \in DOMAIN h : H[x] = height[x]
      /\ H[lo] = height[c] /\ H[hi] = height[c]
  BY <1>1, SplitRanges DEF Splicing
<1>3. /\ g[lo].next = hi /\ g[hi].prev = lo /\ g[hi].next = h[c].next
      /\ h[c].next # Null => g[h[c].next].prev = hi
  BY DEF Splicing, Spliced
<1>4. \A x \in DOMAIN h : NextFits(h, height, x)
  BY DEF Splicing, Woven
<1>5. NextFits(g, H, lo)
  BY <1>1, <1>2, <1>3 DEF NextFits
<1>6. NextFits(g, H, hi)
  <2>1. NextFits(h, height, c)
    BY <1>1, <1>4
  <2>. QED
    BY <1>1, <1>2, <1>3, <2>1 DEF NextFits
<1>7. ASSUME NEW x \in DOMAIN h \ {c} PROVE NextFits(g, H, x)
  <2>1. NextFits(h, height, x)
    BY <1>4
  <2>2. /\ g[x].next = IF h[x].next = c THEN lo ELSE h[x].next
        /\ h[x].next = c => g[lo].prev = x
        /\ h[x].next \notin {Null, c} => g[h[x].next].prev = x
    BY DEF Splicing, Spliced
  <2>. QED
    BY <1>1, <1>2, <2>1, <2>2 DEF NextFits
<1>8. ASSUME NEW x \in DOMAIN g PROVE NextFits(g, H, x)
  <2>1. x \in {lo, hi} \/ x \in DOMAIN h \ {c}
    BY <1>1
  <2>. QED
    BY <1>5, <1>6, <1>7, <2>1
<1>9. g[RootPtr].next = Null
  <2>1. RootPtr \in DOMAIN h \ {c} /\ h[RootPtr].next = Null
    BY <1>1 DEF IsTree, Heap, Splicing, Woven
  <2>. QED
    BY <1>1, <2>1, NextThen
<1>10. ASSUME NEW n \in DOMAIN g, NEW i \in 1 .. NumChild(g, n)
       PROVE  g[g[n].children[i]].next = NextChild(g, n, i)
  <2>1. CASE n = lo
    BY <1>10, <2>1, WovenLo
  <2>2. CASE n = hi
    BY <1>10, <2>2, WovenHi
  <2>3. CASE n = h[c].parent
    BY <1>10, <2>3, WovenUp
  <2>4. CASE n \notin {lo, hi, h[c].parent}
    BY <1>10, <2>4, WovenElsewhere
  <2>. QED
    BY <2>1, <2>2, <2>3, <2>4
<1>. QED
  BY <1>8, <1>9, <1>10 DEF Woven

(* A tree stays woven when keys are set,                                   *)
LEMMA KeysKeepWoven ==
    ASSUME NEW h, NEW range, NEW height, IsTree(h, range, height), Woven(h, height),
           NEW n \in DOMAIN h, NEW ks \in Seq(Nat), NEW g, g = SetKeys(h, n, ks)
    PROVE  Woven(g, height)
<1>1. \A x \in DOMAIN h : h[x] \in Node /\ RootPtr \in DOMAIN h
  BY DEF IsTree, Heap
<1>2. DOMAIN g = DOMAIN h
  BY DEF SetKeys
<1>3. ASSUME NEW x \in DOMAIN h
      PROVE  g[x].next = h[x].next /\ g[x].prev = h[x].prev /\ g[x].children = h[x].children
  BY <1>1 DEF SetKeys, Node
<1>4. \A x \in DOMAIN h : NextFits(h, height, x)
  BY DEF Woven
<1>5. \A x \in DOMAIN h : NextFits(g, height, x)
  BY <1>2, <1>3, <1>4 DEF NextFits
<1>6. ASSUME NEW x \in DOMAIN h, NEW i \in 1 .. NumChild(g, x)
      PROVE  g[g[x].children[i]].next = NextChild(g, x, i)
  <2>1. NumChild(g, x) = NumChild(h, x) /\ g[x].children = h[x].children
    BY <1>3 DEF NumChild
  <2>2. h[x].children[i] \in DOMAIN h /\ h[h[x].children[i]].next = NextChild(h, x, i)
    BY <1>6, <2>1, ChildOf DEF Woven
  <2>3. NextFits(h, height, x)
    BY <1>4
  <2>4. NextChild(g, x, i) = NextChild(h, x, i)
    BY <1>3, <2>1, <2>3 DEF NextChild, NextFits
  <2>. QED
    BY <1>3, <2>1, <2>2, <2>4
<1>. QED
  BY <1>1, <1>2, <1>3, <1>5, <1>6 DEF Woven

(* What a new node below rootPtr does to links: nothing.                   *)
LEMMA TopLinks ==
    ASSUME NEW h, Heap(h), NEW new \in Nat, new \notin DOMAIN h,
           NEW node \in Node, node.next = Null, node.prev = Null,
           NEW w, TopWritten(w, h, new, node)
    PROVE  /\ w[new].next = Null /\ w[new].prev = Null
           /\ \A x \in DOMAIN h : SameLinks(w, h, x)
<1>. DEFINE created == Put(h, new, node)
<1>1. /\ DOMAIN created = DOMAIN h \cup {new} /\ created[new] = node
      /\ \A x \in DOMAIN h : created[x] = h[x] /\ created[x] \in Node
      /\ RootPtr \in DOMAIN h
  <2>1. IsPut(h, created, new, node)
    BY PutFields
  <2>. QED
    BY <2>1 DEF IsPut, Heap
<1>. HIDE DEF created
<1>2. \/ w = [created EXCEPT ![RootPtr].children = <<new>>]
      \/ w = [created EXCEPT ![RootPtr].children = <<new>>, ![RootPtr].isLeaf = FALSE]
  BY DEF TopWritten, created
<1>3. new # RootPtr
  BY <1>1
<1>4. w[new] = node
  BY <1>1, <1>2, <1>3
<1>5. ASSUME NEW x \in DOMAIN h PROVE SameLinks(w, h, x)
  <2>1. CASE x = RootPtr
    <3>1. \/ w[x] = [created[x] EXCEPT !.children = <<new>>]
          \/ w[x] = [[created[x] EXCEPT !.children = <<new>>] EXCEPT !.isLeaf = FALSE]
      BY <1>1, <1>2, <2>1
    <3>. QED
      BY <1>1, <3>1 DEF SameLinks, Node
  <2>2. CASE x # RootPtr
    <3>1. w[x] = created[x]
      BY <1>1, <1>2, <2>2
    <3>. QED
      BY <1>1, <3>1 DEF SameLinks
  <2>. QED
    BY <2>1, <2>2
<1>. QED
  BY <1>4, <1>5

(* nor does a new root.                                                    *)
LEMMA NewRootLinks ==
    ASSUME NEW h, Heap(h), ~h[RootPtr].isLeaf, NEW c \in DOMAIN h,
           NEW g, g = NewRoot(h, c), NEW new, new = Allocate(h)
    PROVE  /\ g[new].next = Null /\ g[new].prev = Null
           /\ \A x \in DOMAIN h : SameLinks(g, h, x)
<1>. DEFINE node == [NewNode(FALSE) EXCEPT !.children = <<c>>]
            w == [Put(h, new, node) EXCEPT ![RootPtr].children = <<new>>]
            g1 == Consolidate(w, RootPtr)
<1>1. new \in Nat /\ new \notin DOMAIN h /\ new # RootPtr
  BY AllocateIsNew
<1>2. c \in Nat /\ RootPtr \in DOMAIN h
  BY DEF Heap
<1>3. node \in Node /\ node.keys = <<>> /\ node.next = Null /\ node.prev = Null
  <2>1. NewNode(FALSE) \in Node
    BY NewNodeType
  <2>2. <<c>> \in Seq(Nat)
    BY <1>2
  <2>. QED
    BY <2>1, <2>2 DEF NewNode, Node
<1>4. g = Consolidate(g1, new)
  BY DEF NewRoot
<1>. HIDE DEF node
<1>5. TopWritten(w, h, new, node)
  BY DEF TopWritten
<1>. HIDE DEF w
<1>6. Heap(w) /\ DOMAIN w = DOMAIN h \cup {new}
  <2>1. IsTopped(h, w, new, node.isLeaf, node.children)
    BY <1>1, <1>3, <1>5, ToppedByWriting
  <2>. QED
    BY <2>1 DEF IsTopped
<1>7. /\ w[new].next = Null /\ w[new].prev = Null
      /\ \A x \in DOMAIN h : SameLinks(w, h, x)
  BY <1>1, <1>3, <1>5, TopLinks
<1>8. Heap(g1) /\ DOMAIN g1 = DOMAIN w /\ \A x \in DOMAIN w : SameLinks(g1, w, x)
  BY <1>2, <1>6, ConsolidateFields
<1>. HIDE DEF g1
<1>9. \A x \in DOMAIN w : SameLinks(g, g1, x)
  <2>1. new \in DOMAIN g1
    BY <1>6, <1>8
  <2>. QED
    BY <1>4, <1>8, <2>1, ConsolidateFields
<1>. QED
  BY <1>6, <1>7, <1>8, <1>9 DEF SameLinks

(* when a new root is put above the root,                                  *)
LEMMA NewRootKeepsWoven ==
    ASSUME NEW h, NEW range, NEW height, IsTree(h, range, height), Woven(h, height),
           NEW c \in DOMAIN h \ {RootPtr}, h[c].parent = RootPtr,
           NEW g, g = NewRoot(h, c), NEW new, new = Allocate(h),
           NEW H, H = NewRootHeight(h, height, c, new)
    PROVE  Woven(g, H)
<1>1. /\ ~h[RootPtr].isLeaf /\ NumChild(h, RootPtr) = 1 /\ h[RootPtr].children[1] = c
      /\ height[RootPtr] = height[c] + 1
  BY RootOf
<1>2. Heap(h) /\ RootPtr \in DOMAIN h /\ c \in Nat
  BY DEF IsTree, Heap
<1>3. /\ DOMAIN g = DOMAIN h \cup {new} /\ new \notin DOMAIN h /\ new # RootPtr
      /\ g[new].children = <<c>> /\ g[RootPtr].children = <<new>> /\ new \in Nat
      /\ \A x \in DOMAIN h \ {RootPtr} : g[x].children = h[x].children
  <2>1. IsTopped(h, g, new, FALSE, <<c>>)
    BY <1>1, <1>2, NewRootIs
  <2>. QED
    BY <2>1 DEF IsTopped, SameBody, Heap
<1>4. g[new].next = Null /\ \A x \in DOMAIN h : g[x].next = h[x].next /\ g[x].prev = h[x].prev
  <2>1. g[new].next = Null /\ \A x \in DOMAIN h : SameLinks(g, h, x)
    BY <1>1, <1>2, NewRootLinks
  <2>. QED
    BY <2>1 DEF SameLinks
<1>5. \A x \in DOMAIN h \ {RootPtr} : H[x] = height[x]
  BY <1>3 DEF NewRootHeight
<1>6. h[RootPtr].next = Null /\ \A x \in DOMAIN h : NextFits(h, height, x)
  BY DEF Woven
<1>7. ASSUME NEW x \in DOMAIN h \ {RootPtr}, h[x].next # Null
      PROVE  h[x].next \in DOMAIN h \ {RootPtr}
  <2>1. h[x].next \in DOMAIN h /\ height[h[x].next] = height[x]
    BY <1>6, <1>7 DEF NextFits
  <2>2. height[x] \in Nat /\ height[RootPtr] \in Nat /\ height[x] + 1 <= height[RootPtr]
    BY HeightOf
  <2>. QED
    BY <2>1, <2>2
<1>8. ASSUME NEW x \in DOMAIN g PROVE NextFits(g, H, x)
  <2>1. CASE x \in {new, RootPtr}
    BY <1>2, <1>4, <1>6, <2>1 DEF NextFits
  <2>2. CASE x \in DOMAIN h \ {RootPtr}
    <3>1. NextFits(h, height, x)
      BY <1>6, <2>2
    <3>. QED
      BY <1>3, <1>4, <1>5, <1>7, <2>2, <3>1 DEF NextFits
  <2>. QED
    BY <1>3, <2>1, <2>2
<1>9. ASSUME NEW n \in DOMAIN g, NEW i \in 1 .. NumChild(g, n)
      PROVE  g[g[n].children[i]].next = NextChild(g, n, i)
  <2>. DEFINE up == g[RootPtr].children
              down == g[new].children
  <2>0. /\ Len(up) = 1 /\ up[1] = new /\ NumChild(g, RootPtr) = Len(up)
        /\ Len(down) = 1 /\ down[1] = c /\ NumChild(g, new) = Len(down)
    BY <1>2, <1>3, OnlyOne DEF NumChild
  <2>. HIDE DEF up, down
  <2>1. CASE n = RootPtr
    <3>1. NumChild(g, n) = 1 /\ i = 1
      BY <1>9, <2>0, <2>1
    <3>2. g[n].children[i] = new
      BY <2>0, <2>1, <3>1 DEF up
    <3>. QED
      BY <1>2, <1>4, <1>6, <2>1, <3>1, <3>2 DEF NextChild
  <2>2. CASE n = new
    <3>1. NumChild(g, n) = 1 /\ i = 1
      BY <1>9, <2>0, <2>2
    <3>3. g[n].children[i] = c
      BY <2>0, <2>2, <3>1 DEF down
    <3>2. h[c].next = Null
      <4>1. 1 \in 1 .. NumChild(h, RootPtr) /\ ~(1 < NumChild(h, RootPtr))
        BY <1>1
      <4>2. h[c].next = NextChild(h, RootPtr, 1)
        BY <1>1, <1>2, <4>1 DEF Woven
      <4>. QED
        BY <1>6, <4>1, <4>2 DEF NextChild
    <3>. QED
      BY <1>4, <2>2, <3>1, <3>2, <3>3 DEF NextChild
  <2>3. CASE n \in DOMAIN h \ {RootPtr}
    <3>1. NumChild(g, n) = NumChild(h, n) /\ g[n].children = h[n].children
      BY <1>3, <2>3 DEF NumChild
    <3>2. h[n].children[i] \in DOMAIN h /\ h[h[n].children[i]].next = NextChild(h, n, i)
      BY <1>9, <2>3, <3>1, ChildOf DEF Woven
    <3>3. NextChild(g, n, i) = NextChild(h, n, i)
      BY <1>3, <1>4, <1>7, <2>3, <3>1 DEF NextChild
    <3>. QED
      BY <1>4, <3>1, <3>2, <3>3
  <2>. QED
    BY <1>3, <2>1, <2>2, <2>3
<1>10. g[RootPtr].next = Null
  BY <1>2, <1>4, <1>6
<1>. QED
  BY <1>8, <1>9, <1>10 DEF Woven

(* The first leaf of the empty tree has no neighbours,                     *)
LEMMA FirstLeafLinks ==
    ASSUME NEW h, Heap(h), DOMAIN h = {RootPtr},
           NEW g, g = FirstLeaf(h), NEW new, new = Allocate(h)
    PROVE  g[new].next = Null /\ g[new].prev = Null /\ SameLinks(g, h, RootPtr)
<1>. DEFINE node == NewNode(TRUE)
            w == [Put(h, new, node) EXCEPT ![RootPtr].children = <<new>>,
                                           ![RootPtr].isLeaf = FALSE]
<1>1. new \in Nat /\ new \notin DOMAIN h /\ new # RootPtr
  BY AllocateIsNew
<1>2. node \in Node /\ node.keys = <<>> /\ node.next = Null /\ node.prev = Null
  BY NewNodeType DEF NewNode
<1>3. g = Consolidate(w, RootPtr)
  BY DEF FirstLeaf
<1>. HIDE DEF node
<1>4. TopWritten(w, h, new, node)
  BY DEF TopWritten
<1>. HIDE DEF w
<1>5. w[new].next = Null /\ w[new].prev = Null /\ SameLinks(w, h, RootPtr)
  BY <1>1, <1>2, <1>4, TopLinks
<1>6. Heap(w) /\ DOMAIN w = {RootPtr, new}
  <2>1. IsTopped(h, w, new, node.isLeaf, node.children)
    BY <1>1, <1>2, <1>4, ToppedByWriting
  <2>. QED
    BY <2>1 DEF IsTopped
<1>7. \A x \in DOMAIN w : SameLinks(g, w, x)
  BY <1>3, <1>6, ConsolidateFields
<1>. QED
  BY <1>5, <1>6, <1>7 DEF SameLinks

(* so its levels are linked.                                               *)
LEMMA FirstLeafWoven ==
    ASSUME NEW h, NEW range, NEW height, IsTree(h, range, height), Woven(h, height),
           h[RootPtr].isLeaf,
           NEW g, g = FirstLeaf(h), NEW H
    PROVE  Woven(g, H)
<1>. DEFINE new == Allocate(h)
<1>1. new \in Nat /\ new \notin DOMAIN h /\ new # RootPtr
  BY AllocateIsNew DEF IsTree
<1>2. Heap(h) /\ DOMAIN h = {RootPtr} /\ h[RootPtr].next = Null
  BY EmptyIs DEF IsTree, Woven
<1>3. IsTopped(h, g, new, TRUE, <<>>)
  BY <1>2, FirstLeafIs
<1>. HIDE DEF new
<1>4. g[new].next = Null /\ SameLinks(g, h, RootPtr)
  BY <1>2, FirstLeafLinks DEF new
<1>5. g[new].next = Null /\ g[RootPtr].next = Null /\ DOMAIN g = {RootPtr, new}
  BY <1>2, <1>3, <1>4 DEF SameLinks, IsTopped
<1>6. NumChild(g, new) = 0 /\ NumChild(g, RootPtr) = 1 /\ g[RootPtr].children[1] = new
  BY <1>1, <1>3, OnlyOne DEF IsTopped, NumChild
<1>7. ASSUME NEW n \in DOMAIN g, NEW i \in 1 .. NumChild(g, n)
      PROVE  g[g[n].children[i]].next = NextChild(g, n, i)
  <2>1. n = RootPtr /\ i = 1
    BY <1>5, <1>6, <1>7
  <2>. QED
    BY <1>5, <1>6, <2>1 DEF NextChild
<1>. QED
  BY <1>5, <1>7 DEF Woven, NextFits
-----------------------------------------------------------------------------
(* Splits up to the root                                                   *)

(* The nodes above the leaves have a key and not too many; n may have one  *)
(* too many.                                                               *)
Wide(h, order, n) == \A x \in DOMAIN h \ {RootPtr} : ~h[x].isLeaf =>
    NumKeys(h, x) \in 1 .. (IF x = n THEN order ELSE order - 1)

Neat(h, height, order) == Woven(h, height) /\ Wide(h, order, RootPtr)

(* The loop of Split has come to n in h, from a tree h0 with latches on L: *)
(* n is latched, and its parent, if n has become too full; and so it is    *)
(* with the nodes above, which may get one key more.  If the loop is not   *)
(* at its end it has come up i levels.                                     *)
Splitting(h0, range0, height0, L, K, order, i, h, range, height, n) ==
    /\ IsTree(h, range, height) /\ HoldsKeys(h, range, K)
    /\ OnlyTouches(h0, range0, height0, h, range, height, L)
    /\ n \in DOMAIN h \ {RootPtr}
    /\ NumKeys(h, n) >= order => n \in L /\ h[n].parent \in L
    /\ \A y \in L \ {RootPtr} :
          height[y] > height[n] /\ NumKeys(h, y) + 1 >= order => h[y].parent \in L
    /\ Woven(h, height) /\ Wide(h, order, n)
    /\ NumKeys(h, n) >= order => height[n] >= i /\ height[RootPtr] = height0[RootPtr]

(* Where a full node is split.                                             *)
LEMMA Middle ==
    ASSUME NEW k \in Nat, k >= 3
    PROVE  k \div 2 \in 1 .. k - 1
  OBVIOUS

(* Both halves of a node that is too full have keys, and not too many.     *)
LEMMA SplitKeepsWide ==
    ASSUME NEW h, NEW range, NEW height, IsTree(h, range, height),
           NEW c \in DOMAIN h \ {RootPtr}, NEW order \in Nat, order >= 3,
           NumKeys(h, c) >= order, NEW m, m = NumKeys(h, c) \div 2,
           NEW g, NEW lo, NEW hi, NEW new, IsSplit(h, g, c, m, lo, hi, new),
           \A x \in DOMAIN h \ {RootPtr} : ~h[x].isLeaf =>
               NumKeys(h, x) \in (IF x = h[c].parent THEN 0 ELSE 1) ..
                                 (IF x = c THEN order ELSE order - 1)
    PROVE  Wide(g, order, h[c].parent)
<1>. DEFINE p == h[c].parent
            k == NumKeys(h, c)
<1>1. k \in Nat /\ k >= 3 /\ m \in 1 .. k - 1
  <2>1. k \in Nat
    BY KeysOf
  <2>. QED
    BY <2>1, Middle
<1>2. SplitFact(h, range, height, c, m, g, lo, hi, new)
  BY <1>1, SplitFacts
<1>3. /\ DOMAIN g = DOMAIN h \cup {new} /\ {lo, hi} = {c, new} /\ p \notin {lo, hi}
      /\ p \in DOMAIN h /\ NumKeys(g, lo) = m /\ g[lo].isLeaf = h[c].isLeaf
      /\ g[hi].isLeaf = h[c].isLeaf /\ (~h[c].isLeaf => NumKeys(g, hi) = k - m - 1)
      /\ NumKeys(g, p) = NumKeys(h, p) + 1
  BY <1>2 DEF SplitFact, LoParts, HiParts, UpParts
<1>4. ~h[h[c].parent].isLeaf /\ p # c
  BY ParentOf
<1>5. ASSUME ~h[c].isLeaf PROVE m \in 1 .. order - 1 /\ k - m - 1 \in 1 .. order - 1
  <2>1. k \in 1 .. order
    BY <1>4, <1>5
  <2>2. k = order
    BY <1>1, <2>1
  <2>. QED
    BY <2>2
<1>6. ASSUME p # RootPtr PROVE NumKeys(g, p) \in 1 .. order
  <2>1. NumKeys(h, p) \in 0 .. order - 1
    BY <1>3, <1>4, <1>6
  <2>. QED
    BY <1>3, <2>1
<1>. HIDE DEF k
<1>7. ASSUME NEW x \in DOMAIN h \ {RootPtr, p, c}, ~g[x].isLeaf
      PROVE  NumKeys(g, x) \in 1 .. order - 1
  <2>1. SameBody(g, h, x)
    BY <1>7 DEF IsSplit, SplitBodies
  <2>. QED
    BY <1>7, <2>1 DEF SameBody, NumKeys
<1>8. ASSUME NEW x \in {lo, hi}, ~g[x].isLeaf PROVE NumKeys(g, x) \in 1 .. order - 1
  BY <1>3, <1>5, <1>8
<1>9. ASSUME NEW x \in DOMAIN g \ {RootPtr}, ~g[x].isLeaf
      PROVE  NumKeys(g, x) \in 1 .. (IF x = p THEN order ELSE order - 1)
  <2>1. CASE x = p
    BY <1>6, <1>9, <2>1
  <2>2. CASE x \in {lo, hi}
    BY <1>3, <1>8, <1>9, <2>2
  <2>3. CASE x \notin {lo, hi, p}
    BY <1>3, <1>7, <1>9, <2>3
  <2>. QED
    BY <2>1, <2>2, <2>3
<1>. QED
  BY <1>9 DEF Wide

(* A tree has no more levels than nodes.                                   *)
LEMMA Levels ==
    ASSUME NEW h, NEW range, NEW height, IsTree(h, range, height)
    PROVE  height[RootPtr] + 1 <= Cardinality(DOMAIN h)
<1>. DEFINE top == height[RootPtr]
            S == {j \in Nat : j <= top => \E x \in DOMAIN h : height[x] = top - j}
<1>1. /\ RootPtr \in DOMAIN h /\ IsFiniteSet(DOMAIN h)
      /\ \A x \in DOMAIN h : height[x] \in Nat
  BY DEF IsTree, Heap
<1>2. top \in Nat
  BY <1>1
<1>3. 0 \in S
  <2>1. height[RootPtr] = top - 0
    BY <1>2
  <2>. QED
    BY <1>1, <2>1
<1>4. ASSUME NEW j \in Nat \ {0}, j - 1 \in S PROVE j \in S
  <2>. SUFFICES ASSUME j <= top PROVE \E x \in DOMAIN h : height[x] = top - j
    OBVIOUS
  <2>1. PICK y \in DOMAIN h : height[y] = top - (j - 1)
    BY <1>2, <1>4
  <2>2. ~h[y].isLeaf
    <3>1. height[y] # 0
      BY <1>2, <2>1
    <3>. QED
      BY <3>1 DEF IsTree, NodeFits
  <2>3. 1 \in 1 .. NumChild(h, y)
    <3>1. NumChild(h, y) = NumKeys(h, y) + 1 /\ NumKeys(h, y) \in Nat
      BY <2>2, NodeType DEF IsTree, NodeFits
    <3>. QED
      BY <3>1
  <2>4. h[y].children[1] \in DOMAIN h /\ height[y] = height[h[y].children[1]] + 1
    BY <2>3, ChildOf
  <2>5. height[h[y].children[1]] = top - j
    BY <1>1, <1>2, <2>1, <2>4
  <2>. QED
    BY <2>4, <2>5
<1>. HIDE DEF top
<1>5. \A j \in 0 .. top : \E x \in DOMAIN h : height[x] = j
  <2>. SUFFICES ASSUME NEW j \in 0 .. top PROVE \E x \in DOMAIN h : height[x] = j
    OBVIOUS
  <2>1. Nat \subseteq S
    <3>. HIDE DEF S
    <3>. QED
      BY <1>3, <1>4, EveryNumber
  <2>2. top - j \in S /\ top - j <= top /\ top - (top - j) = j
    BY <1>2, <2>1
  <2>. QED
    BY <2>2
<1>. DEFINE f == [j \in 0 .. top |-> CHOOSE x \in DOMAIN h : height[x] = j]
<1>6. \A j \in 0 .. top : f[j] \in DOMAIN h /\ height[f[j]] = j
  BY <1>5
<1>7. f \in Injection(0 .. top, DOMAIN h)
  BY <1>6 DEF Injection, IsInjective
<1>. HIDE DEF f
<1>8. Cardinality(0 .. top) <= Cardinality(DOMAIN h)
  BY <1>1, <1>7, FS_Injection
<1>9. Cardinality(0 .. top) = top + 1
  BY <1>2, FS_Interval
<1>. QED
  BY <1>8, <1>9 DEF top

(* Between siblings, the split goes on with the parent.                    *)
LEMMA SplitBelow ==
    ASSUME NEW h0, NEW range0, NEW height0, IsTree(h0, range0, height0),
           NEW L, L \subseteq DOMAIN h0, NEW K, NEW order \in Nat, order >= 3, NEW i \in Nat,
           NEW h, NEW range, NEW height, NEW n,
           Splitting(h0, range0, height0, L, K, order, i, h, range, height, n),
           NumKeys(h, n) >= order, h[n].parent # RootPtr,
           NEW m, m = NumKeys(h, n) \div 2, NEW toLeft \in BOOLEAN,
           toLeft => h[n].childIndex > 0,
           NEW g, g = SplitAt(h, n, m, toLeft)
    PROVE  \E R, H : Splitting(h0, range0, height0, L, K, order, i + 1, g, R, H, h[n].parent)
<1>. DEFINE p == h[n].parent
            new == Allocate(h)
            lo == IF toLeft THEN new ELSE n
            hi == IF toLeft THEN n ELSE new
            R == SplitRange(h, range, n, m, lo, hi, new)
            H == SplitHeight(h, height, n, new)
<1>1. /\ IsTree(h, range, height) /\ HoldsKeys(h, range, K)
      /\ OnlyTouches(h0, range0, height0, h, range, height, L)
      /\ n \in DOMAIN h \ {RootPtr} /\ n \in L /\ p \in L
      /\ \A y \in L \ {RootPtr} :
            height[y] > height[n] /\ NumKeys(h, y) + 1 >= order => h[y].parent \in L
      /\ Woven(h, height) /\ Wide(h, order, n)
      /\ height[n] >= i /\ height[RootPtr] = height0[RootPtr]
  BY DEF Splitting
<1>2. m \in 1 .. NumKeys(h, n) - 1
  <2>1. NumKeys(h, n) \in Nat /\ NumKeys(h, n) >= 3
    BY <1>1, KeysOf
  <2>. QED
    BY <2>1, Middle
<1>3. IsSplit(h, g, n, m, lo, hi, new)
  BY <1>1, <1>2, SplitIs
<1>15. Spliced(h, g, n, lo, hi)
  BY <1>1, <1>2, SplitSplices
<1>. HIDE DEF new, lo, hi
<1>16. Woven(g, H)
  <2>1. Splicing(h, range, height, n, m, g, lo, hi, new)
    BY <1>1, <1>2, <1>3, <1>15 DEF Splicing
  <2>. QED
    BY <2>1, SplitKeepsWoven
<1>17. Wide(g, order, p)
  <2>1. \A x \in DOMAIN h \ {RootPtr} : ~h[x].isLeaf =>
            NumKeys(h, x) \in (IF x = p THEN 0 ELSE 1) .. (IF x = n THEN order ELSE order - 1)
    BY <1>1 DEF Wide
  <2>. HIDE DEF p
  <2>2. Wide(g, order, h[n].parent)
    BY <1>1, <1>3, <2>1, SplitKeepsWide DEF p
  <2>. QED
    BY <2>2 DEF p
<1>18. H[RootPtr] = height[RootPtr]
  <2>1. RootPtr \in DOMAIN h
    BY <1>1 DEF IsTree, Heap
  <2>. QED
    BY <1>1, <1>2, <1>3, <2>1, SplitRanges
<1>4. IsTree(g, R, H)
  BY <1>1, <1>2, <1>3, SplitKeepsTree
<1>5. HoldsKeys(g, R, K)
  BY <1>1, <1>2, <1>3, SplitHolds
<1>6. OnlyTouches(h, range, height, g, R, H, {n, p})
  BY <1>1, <1>2, <1>3, SplitTouches
<1>7. NumKeys(g, p) = NumKeys(h, p) + 1
  BY <1>1, <1>2, <1>3, SplitAddsAKey
<1>. HIDE DEF R, H
<1>8. OnlyTouches(h0, range0, height0, g, R, H, L)
  <2>1. {n, p} \cap DOMAIN h0 \subseteq L
    BY <1>1
  <2>. QED
    BY <1>1, <1>4, <1>6, <2>1, TouchesMore
<1>9. /\ p \in DOMAIN h \ {RootPtr} /\ height[p] = height[n] + 1
      /\ height[n] \in Nat /\ height[p] \in Nat
  BY <1>1, HeightOf
<1>10. DOMAIN h \subseteq DOMAIN g /\ DOMAIN h0 \subseteq DOMAIN h
  BY <1>1, <1>6 DEF OnlyTouches
<1>11. ASSUME NEW y \in DOMAIN h \ {RootPtr}, height[y] >= height[p]
       PROVE  g[y].parent = h[y].parent /\ H[y] = height[y]
  <2>1. height[h[y].parent] = height[y] + 1 /\ height[y] \in Nat
    BY <1>1, HeightOf
  <2>2. h[y].parent \notin {n, p}
    BY <1>9, <1>11, <2>1
  <2>. QED
    BY <1>6, <2>2 DEF OnlyTouches
<1>12. H[p] = height[p]
  BY <1>9, <1>11
<1>13. NumKeys(g, p) >= order => g[p].parent \in L
  <2>. SUFFICES ASSUME NumKeys(g, p) >= order PROVE g[p].parent \in L
    OBVIOUS
  <2>1. height[p] > height[n] /\ NumKeys(h, p) + 1 >= order
    BY <1>7, <1>9
  <2>2. h[p].parent \in L
    BY <1>1, <1>9, <2>1
  <2>. QED
    BY <1>9, <1>11, <2>2
<1>14. ASSUME NEW y \in L \ {RootPtr}, H[y] > H[p], NumKeys(g, y) + 1 >= order
       PROVE  g[y].parent \in L
  <2>1. y \in DOMAIN h \ {RootPtr}
    BY <1>10
  <2>2. H[y] = height[y]
    BY <1>6, <2>1 DEF OnlyTouches
  <2>3. height[y] \in Nat
    BY <1>1, <2>1, HeightOf
  <2>4. height[y] > height[p] /\ height[y] > height[n] /\ y # n /\ y # p
    BY <1>9, <1>12, <1>14, <2>2, <2>3
  <2>5. SameBody(g, h, y)
    BY <1>6, <2>1, <2>4 DEF OnlyTouches
  <2>6. NumKeys(h, y) = NumKeys(g, y)
    BY <2>5 DEF SameBody, NumKeys
  <2>7. h[y].parent \in L
    BY <1>1, <1>14, <2>4, <2>6
  <2>8. height[y] >= height[p]
    BY <1>9, <2>3, <2>4
  <2>. QED
    BY <1>11, <2>1, <2>7, <2>8
<1>19. H[p] >= i + 1 /\ H[RootPtr] = height0[RootPtr]
  BY <1>1, <1>9, <1>12, <1>18
<1>. QED
  BY <1>1, <1>4, <1>5, <1>8, <1>9, <1>10, <1>13, <1>14, <1>16, <1>17, <1>19 DEF Splitting

(* The root is split below a new one, where the loop ends.                 *)
LEMMA SplitRoot ==
    ASSUME NEW h0, NEW range0, NEW height0, IsTree(h0, range0, height0),
           NEW L, L \subseteq DOMAIN h0, NEW K, NEW order \in Nat, order >= 3, NEW i \in Nat,
           NEW h, NEW range, NEW height, NEW n,
           Splitting(h0, range0, height0, L, K, order, i, h, range, height, n),
           NumKeys(h, n) >= order, h[n].parent = RootPtr,
           NEW m, m = NumKeys(h, n) \div 2, NEW toLeft \in BOOLEAN, ~toLeft,
           NEW g, g = NewRoot(h, n), NEW f, f = SplitAt(g, n, m, toLeft)
    PROVE  \E R, H : Splitting(h0, range0, height0, L, K, order, i + 1, f, R, H, g[n].parent)
<1>. DEFINE root == Allocate(h)
            R1 == NewRootRange(h, range, root)
            H1 == NewRootHeight(h, height, n, root)
            new == Allocate(g)
            R == SplitRange(g, R1, n, m, n, new, new)
            H == SplitHeight(g, H1, n, new)
<1>1. /\ IsTree(h, range, height) /\ HoldsKeys(h, range, K)
      /\ OnlyTouches(h0, range0, height0, h, range, height, L)
      /\ n \in DOMAIN h \ {RootPtr} /\ n \in L /\ RootPtr \in L
      /\ Woven(h, height) /\ Wide(h, order, n)
  BY DEF Splitting
<1>2. IsTree(g, R1, H1) /\ Woven(g, H1)
  BY <1>1, NewRootKeepsTree, NewRootKeepsWoven
<1>3. HoldsKeys(g, R1, K)
  BY <1>1, NewRootHolds
<1>4. /\ OnlyTouches(h, range, height, g, R1, H1, {RootPtr})
      /\ root \in DOMAIN g \ DOMAIN h /\ root # RootPtr
      /\ NumKeys(g, root) = 0 /\ g[n].parent = root /\ H1[root] = height[n] + 1
      /\ SameBody(g, h, n)
  <2>1. GrownAbove(h, range, height, g, R1, H1, n, root)
    BY <1>1, NewRootTouches
  <2>. QED
    BY <2>1 DEF GrownAbove
<1>22. DOMAIN g = DOMAIN h \cup {root}
  <2>1. Heap(h) /\ ~h[RootPtr].isLeaf
    BY <1>1, RootOf DEF IsTree
  <2>. QED
    BY <1>1, <2>1, NewRootIs DEF IsTopped
<1>. HIDE DEF root, R1, H1
<1>5. OnlyTouches(h0, range0, height0, g, R1, H1, L)
  <2>1. {RootPtr} \cap DOMAIN h0 \subseteq L
    BY <1>1
  <2>. QED
    BY <1>1, <1>2, <1>4, <2>1, TouchesMore
<1>6. NumKeys(g, n) = NumKeys(h, n)
  BY <1>4 DEF SameBody, NumKeys
<1>7. m \in 1 .. NumKeys(g, n) - 1
  <2>1. NumKeys(h, n) \in Nat /\ NumKeys(h, n) >= 3
    BY <1>1, KeysOf
  <2>. QED
    BY <1>6, <2>1, Middle
<1>8. DOMAIN h \subseteq DOMAIN g /\ DOMAIN h0 \subseteq DOMAIN h
  BY <1>1, <1>4 DEF OnlyTouches
<1>9. n \in DOMAIN g \ {RootPtr}
  BY <1>1, <1>8
<1>10. IsSplit(g, f, n, m, n, new, new)
  <2>. HIDE DEF new
  <2>1. IsSplit(g, f, n, m, IF toLeft THEN new ELSE n, IF toLeft THEN n ELSE new, new)
    BY <1>2, <1>7, <1>9, SplitIs DEF new
  <2>. QED
    BY <2>1
<1>19. Spliced(g, f, n, n, new)
  <2>. HIDE DEF new
  <2>1. Spliced(g, f, n, IF toLeft THEN new ELSE n, IF toLeft THEN n ELSE new)
    BY <1>2, <1>7, <1>9, SplitSplices DEF new
  <2>. QED
    BY <2>1
<1>. HIDE DEF new
<1>20. Woven(f, H)
  <2>1. Splicing(g, R1, H1, n, m, f, n, new, new)
    BY <1>2, <1>7, <1>9, <1>10, <1>19 DEF Splicing
  <2>. QED
    BY <2>1, SplitKeepsWoven
<1>21. Wide(f, order, root)
  <2>1. ASSUME NEW x \in DOMAIN g \ {RootPtr}, ~g[x].isLeaf
        PROVE  NumKeys(g, x) \in (IF x = root THEN 0 ELSE 1) .. (IF x = n THEN order ELSE order - 1)
    <3>1. CASE x = root
      <4>1. x # n
        BY <1>1, <1>4, <3>1
      <4>. QED
        BY <1>4, <3>1, <4>1
    <3>2. CASE x # root
      <4>1. x \in DOMAIN h \ {RootPtr}
        BY <1>22, <2>1, <3>2
      <4>2. SameBody(g, h, x)
        BY <1>4, <4>1 DEF OnlyTouches
      <4>3. NumKeys(h, x) \in 1 .. (IF x = n THEN order ELSE order - 1)
        BY <1>1, <2>1, <4>1, <4>2 DEF Wide, SameBody
      <4>. QED
        BY <3>2, <4>2, <4>3 DEF SameBody, NumKeys
    <3>. QED
      BY <3>1, <3>2
  <2>2. NumKeys(g, n) >= order /\ m = NumKeys(g, n) \div 2
    BY <1>6
  <2>3. Wide(f, order, g[n].parent)
    BY <1>2, <1>4, <1>9, <1>10, <2>1, <2>2, SplitKeepsWide
  <2>. QED
    BY <1>4, <2>3
<1>11. IsTree(f, R, H)
  BY <1>2, <1>4, <1>7, <1>9, <1>10, SplitKeepsTree
<1>12. HoldsKeys(f, R, K)
  BY <1>2, <1>3, <1>7, <1>9, <1>10, SplitHolds
<1>13. OnlyTouches(g, R1, H1, f, R, H, {n, root})
  BY <1>2, <1>4, <1>7, <1>9, <1>10, SplitTouches
<1>14. NumKeys(f, root) = 0 + 1
  BY <1>2, <1>4, <1>7, <1>9, <1>10, SplitAddsAKey
<1>. HIDE DEF R, H
<1>15. OnlyTouches(h0, range0, height0, f, R, H, L)
  <2>1. {n, root} \cap DOMAIN h0 \subseteq L
    BY <1>1, <1>4, <1>8
  <2>. QED
    BY <1>2, <1>5, <1>11, <1>13, <2>1, TouchesMore
<1>16. ASSUME NEW y \in L \ {RootPtr} PROVE ~(H[y] > H[root])
  <2>1. y \in DOMAIN h \ {RootPtr} /\ y \in DOMAIN g \ {RootPtr}
    BY <1>8
  <2>2. H[y] = H1[y] /\ H1[y] = height[y]
    BY <1>4, <1>13, <2>1 DEF OnlyTouches
  <2>3. H[root] = height[n] + 1
    BY <1>4, <1>13 DEF OnlyTouches
  <2>4. height[y] + 1 <= height[RootPtr] /\ height[y] \in Nat /\ height[RootPtr] \in Nat
    BY <1>1, <2>1, HeightOf
  <2>5. height[RootPtr] = height[n] + 1 /\ height[n] \in Nat
    BY <1>1, HeightOf
  <2>. QED
    BY <2>2, <2>3, <2>4, <2>5
<1>17. ~(NumKeys(f, root) >= order)
  BY <1>14
<1>18. root \in DOMAIN f \ {RootPtr}
  BY <1>4, <1>13 DEF OnlyTouches
<1>. QED
  BY <1>4, <1>11, <1>12, <1>15, <1>16, <1>17, <1>18, <1>20, <1>21 DEF Splitting
(* One turn of the loop.                                                   *)
LEMMA SplitTurn ==
    ASSUME NEW h0, NEW range0, NEW height0, IsTree(h0, range0, height0),
           NEW L, L \subseteq DOMAIN h0, NEW K, NEW order \in Nat, order >= 3, NEW i \in Nat,
           NEW t, \E R, H : Splitting(h0, range0, height0, L, K, order, i, t.heap, R, H, t.node),
           ~(NumKeys(t.heap, t.node) < order), NEW s, s = SplitOnce(t)
    PROVE  \E R, H : Splitting(h0, range0, height0, L, K, order, i + 1, s.heap, R, H, s.node)
<1>. DEFINE h == t.heap
            n == t.node
            isRoot == h[n].parent = RootPtr
            g == IF isRoot THEN NewRoot(h, n) ELSE h
            p == g[n].parent
            toLeft == ~isRoot /\ h[n].childIndex = NumChild(h, p) - 1
            m == NumKeys(h, n) \div 2
<1>1. PICK R, H : Splitting(h0, range0, height0, L, K, order, i, h, R, H, n)
  OBVIOUS
<1>2. s = [heap |-> SplitAt(g, n, m, toLeft), node |-> p]
  BY DEF SplitOnce
<1>3. s.heap = SplitAt(g, n, m, toLeft) /\ s.node = p
  BY <1>2
<1>4. NumKeys(h, n) >= order
  <2>1. NumKeys(h, n) \in Nat
    BY <1>1, KeysOf DEF Splitting
  <2>. QED
    BY <2>1
<1>5. toLeft \in BOOLEAN
  OBVIOUS
<1>. HIDE DEF h, n, toLeft, m
<1>6. CASE isRoot
  <2>1. g = NewRoot(h, n) /\ h[n].parent = RootPtr
    BY <1>6
  <2>. HIDE DEF g
  <2>3. ~toLeft
    BY <1>6 DEF toLeft
  <2>2. \E R1, H1 : Splitting(h0, range0, height0, L, K, order, i + 1, s.heap, R1, H1, g[n].parent)
    BY <1>1, <1>3, <1>4, <1>5, <2>1, <2>3, SplitRoot DEF m
  <2>. QED
    BY <1>3, <2>2
<1>7. CASE ~isRoot
  <2>1. g = h /\ h[n].parent # RootPtr
    BY <1>7
  <2>2. s.heap = SplitAt(h, n, m, toLeft) /\ s.node = h[n].parent
    BY <1>3, <2>1
  <2>4. toLeft => h[n].childIndex > 0
    <3>1. IsTree(h, R, H) /\ n \in DOMAIN h \ {RootPtr} /\ Wide(h, order, n)
      BY <1>1 DEF Splitting
    <3>2. /\ h[n].parent \in DOMAIN h /\ h[n].parent # n /\ ~h[h[n].parent].isLeaf
          /\ NumChild(h, h[n].parent) = NumKeys(h, h[n].parent) + 1
      BY <3>1, ParentOf
    <3>3. NumKeys(h, h[n].parent) \in 1 .. order - 1
      BY <2>1, <3>1, <3>2 DEF Wide
    <3>4. toLeft => h[n].childIndex = NumChild(h, h[n].parent) - 1
      BY <2>1 DEF toLeft
    <3>. HIDE DEF toLeft
    <3>. QED
      BY <3>2, <3>3, <3>4
  <2>3. \E R1, H1 : Splitting(h0, range0, height0, L, K, order, i + 1, s.heap, R1, H1, h[n].parent)
    BY <1>1, <1>4, <1>5, <2>1, <2>2, <2>4, SplitBelow DEF m
  <2>. QED
    BY <2>2, <2>3
<1>. QED
  BY <1>6, <1>7

(* The table that Split fills in.                                          *)
IsSplitTable(f, h, n, order, levels) ==
    f = [i \in 0 .. levels |->
            IF i = 0 THEN [heap |-> h, node |-> n]
            ELSE LET t == f[i - 1]
                 IN IF NumKeys(t.heap, t.node) < order THEN t ELSE SplitOnce(t)]

(* There is such a table.                                                  *)
LEMMA SplitTableExists ==
    ASSUME NEW h, NEW n, NEW order, NEW levels \in Nat
    PROVE  \E f : IsSplitTable(f, h, n, order, levels)
<1>. DEFINE OneOn(t) == IF NumKeys(t.heap, t.node) < order THEN t ELSE SplitOnce(t)
            S == {k \in Nat : \E f : IsSplitTable(f, h, n, order, k)}
<1>1. 0 \in S
  <2>. DEFINE f == [i \in 0 .. 0 |-> [heap |-> h, node |-> n]]
  <2>1. \A i \in 0 .. 0 : i = 0
    OBVIOUS
  <2>2. IsSplitTable(f, h, n, order, 0)
    BY <2>1 DEF IsSplitTable
  <2>. QED
    BY <2>2
<1>2. ASSUME NEW k \in Nat \ {0}, k - 1 \in S PROVE k \in S
  <2>1. PICK f : IsSplitTable(f, h, n, order, k - 1)
    BY <1>2
  <2>2. DOMAIN f = 0 .. (k - 1)
    BY <2>1 DEF IsSplitTable
  <2>3. \A i \in 0 .. (k - 1) : f[i] = IF i = 0 THEN [heap |-> h, node |-> n] ELSE OneOn(f[i - 1])
    BY <2>1 DEF IsSplitTable
  <2>. HIDE DEF OneOn
  <2>. DEFINE g == [i \in 0 .. k |-> IF i < k THEN f[i] ELSE OneOn(f[k - 1])]
  <2>4. \A i \in 0 .. k : g[i] = IF i = 0 THEN [heap |-> h, node |-> n] ELSE OneOn(g[i - 1])
    <3>. SUFFICES ASSUME NEW i \in 0 .. k
                  PROVE  g[i] = IF i = 0 THEN [heap |-> h, node |-> n] ELSE OneOn(g[i - 1])
      OBVIOUS
    <3>1. CASE i < k
      <4>1. i \in 0 .. (k - 1) /\ g[i] = f[i] /\ (i # 0 => i - 1 \in 0 .. k /\ i - 1 < k)
        BY <3>1
      <4>2. i # 0 => g[i - 1] = f[i - 1]
        BY <4>1
      <4>. QED
        BY <2>3, <4>1, <4>2
    <3>2. CASE i = k
      <4>1. k - 1 \in 0 .. k /\ k - 1 < k /\ k # 0
        OBVIOUS
      <4>2. g[k - 1] = f[k - 1] /\ g[k] = OneOn(f[k - 1])
        BY <4>1
      <4>. QED
        BY <3>2, <4>1, <4>2
    <3>. QED
      BY <3>1, <3>2
  <2>5. g = [i \in 0 .. k |-> g[i]]
    OBVIOUS
  <2>. HIDE DEF g
  <2>6. g = [i \in 0 .. k |-> IF i = 0 THEN [heap |-> h, node |-> n] ELSE OneOn(g[i - 1])]
    BY <2>4, <2>5
  <2>7. IsSplitTable(g, h, n, order, k)
    BY <2>6 DEF IsSplitTable, OneOn
  <2>. QED
    BY <2>7
<1>. HIDE DEF S
<1>3. Nat \subseteq S
  BY <1>1, <1>2, EveryNumber
<1>. QED
  BY <1>3 DEF S

(* Split leaves a tree, with the same keys, and touches only what the      *)
(* thread has latched: it needs no latch that insert has given up.         *)
LEMMA SplitKeeps ==
    ASSUME NEW h0, NEW range0, NEW height0, IsTree(h0, range0, height0),
           NEW L, L \subseteq DOMAIN h0, NEW K, NEW order \in Nat, order >= 3,
           NEW h, NEW n,
           \E R, H : Splitting(h0, range0, height0, L, K, order, 0, h, R, H, n)
    PROVE  \E R, H : /\ IsTree(Split(h, n, order), R, H)
                     /\ HoldsKeys(Split(h, n, order), R, K)
                     /\ OnlyTouches(h0, range0, height0, Split(h, n, order), R, H, L)
                     /\ Neat(Split(h, n, order), H, order)
<1>. DEFINE levels == Cardinality(DOMAIN h)
            f == CHOOSE f : f = [i \in 0 .. levels |->
                    IF i = 0 THEN [heap |-> h, node |-> n]
                    ELSE LET t == f[i - 1]
                         IN IF NumKeys(t.heap, t.node) < order THEN t ELSE SplitOnce(t)]
            Good(s, i) == \E R, H : Splitting(h0, range0, height0, L, K, order, i, s.heap, R, H, s.node)
            S == {k \in Nat : k <= levels => Good(f[k], k)}
<1>1. levels \in Nat
  BY FS_CardinalityType DEF Splitting, IsTree, Heap
<1>2. Split(h, n, order) = f[levels].heap
  BY DEF Split
<1>3. IsSplitTable(f, h, n, order, levels)
  <2>1. PICK g : IsSplitTable(g, h, n, order, levels)
    BY <1>1, SplitTableExists
  <2>. QED
    BY <2>1 DEF IsSplitTable
<1>4. \A i \in 0 .. levels : f[i] =
            IF i = 0 THEN [heap |-> h, node |-> n]
            ELSE LET t == f[i - 1]
                 IN IF NumKeys(t.heap, t.node) < order THEN t ELSE SplitOnce(t)
  <2>. HIDE DEF f, levels
  <2>. QED
    BY <1>3 DEF IsSplitTable
<1>. HIDE DEF f, levels
<1>5. 0 \in S
  <2>1. f[0] = [heap |-> h, node |-> n]
    BY <1>1, <1>4
  <2>2. f[0].heap = h /\ f[0].node = n
    BY <2>1
  <2>3. Good(f[0], 0)
    BY <2>2
  <2>. QED
    BY <2>3
<1>6. ASSUME NEW k \in Nat \ {0}, k - 1 \in S PROVE k \in S
  <2>. SUFFICES ASSUME k <= levels PROVE Good(f[k], k)
    BY <1>6
  <2>1. k \in 0 .. levels /\ k - 1 <= levels /\ k # 0
    BY <1>1
  <2>2. Good(f[k - 1], k - 1)
    BY <1>6, <2>1
  <2>. DEFINE t == f[k - 1]
  <2>3. f[k] = IF NumKeys(t.heap, t.node) < order THEN t ELSE SplitOnce(t)
    BY <1>4, <2>1
  <2>. HIDE DEF t
  <2>4. CASE NumKeys(t.heap, t.node) < order
    <3>1. f[k] = t /\ Good(t, k - 1)
      BY <2>2, <2>3, <2>4 DEF t
    <3>2. PICK R, H : Splitting(h0, range0, height0, L, K, order, k - 1, t.heap, R, H, t.node)
      BY <3>1
    <3>3. NumKeys(t.heap, t.node) \in Nat
      BY <3>2, KeysOf DEF Splitting
    <3>4. Splitting(h0, range0, height0, L, K, order, k, t.heap, R, H, t.node)
      BY <2>4, <3>2, <3>3 DEF Splitting
    <3>. QED
      BY <3>1, <3>4
  <2>5. CASE ~(NumKeys(t.heap, t.node) < order)
    <3>1. Good(t, k - 1) /\ f[k] = SplitOnce(t)
      BY <2>2, <2>3, <2>5 DEF t
    <3>2. k - 1 \in Nat /\ (k - 1) + 1 = k
      OBVIOUS
    <3>. DEFINE i == k - 1
    <3>3. i \in Nat /\ i + 1 = k /\ Good(t, i)
      BY <3>1, <3>2
    <3>. HIDE DEF i
    <3>4. Good(f[k], i + 1)
      BY <2>5, <3>1, <3>3, SplitTurn
    <3>. QED
      BY <3>3, <3>4
  <2>. QED
    BY <2>4, <2>5
<1>. HIDE DEF S
<1>7. Nat \subseteq S
  BY <1>5, <1>6, EveryNumber
<1>8. Good(f[levels], levels)
  <2>1. levels \in S /\ levels <= levels
    BY <1>1, <1>7
  <2>. QED
    BY <2>1 DEF S
<1>. DEFINE s == f[levels]
<1>9. PICK R, H : Splitting(h0, range0, height0, L, K, order, levels, s.heap, R, H, s.node)
  BY <1>8
<1>. HIDE DEF s
<1>10. /\ IsTree(s.heap, R, H) /\ HoldsKeys(s.heap, R, K) /\ s.node \in DOMAIN s.heap \ {RootPtr}
       /\ OnlyTouches(h0, range0, height0, s.heap, R, H, L)
       /\ Woven(s.heap, H) /\ Wide(s.heap, order, s.node)
  BY <1>9 DEF Splitting
<1>11. NumKeys(s.heap, s.node) \in Nat
  BY <1>10, KeysOf
<1>12. NumKeys(s.heap, s.node) < order
  <2>. SUFFICES ASSUME NumKeys(s.heap, s.node) >= order PROVE FALSE
    BY <1>11
  <2>1. H[s.node] >= levels /\ H[RootPtr] = height0[RootPtr]
    BY <1>9 DEF Splitting
  <2>2. H[s.node] + 1 <= H[RootPtr] /\ H[s.node] \in Nat /\ H[RootPtr] \in Nat
    BY <1>10, HeightOf
  <2>3. height0[RootPtr] + 1 <= Cardinality(DOMAIN h0)
    BY Levels
  <2>4. Cardinality(DOMAIN h0) <= levels /\ Cardinality(DOMAIN h0) \in Nat
    <3>1. DOMAIN h0 \subseteq DOMAIN h /\ IsFiniteSet(DOMAIN h)
      BY DEF Splitting, OnlyTouches, IsTree, Heap
    <3>. QED
      BY <3>1, FS_Subset, FS_CardinalityType DEF levels
  <2>. QED
    BY <1>1, <2>1, <2>2, <2>3, <2>4
<1>13. Wide(s.heap, order, RootPtr)
  BY <1>10, <1>11, <1>12 DEF Wide
<1>. QED
  BY <1>2, <1>10, <1>13 DEF Neat, s
-----------------------------------------------------------------------------
(* An insert at a leaf, all of it                                          *)

(* Nothing has happened yet.                                               *)
LEMMA TouchesNothing ==
    ASSUME NEW h, NEW range, NEW height, IsTree(h, range, height), NEW L
    PROVE  OnlyTouches(h, range, height, h, range, height, L)
<1>1. height[RootPtr] <= height[RootPtr]
  BY DEF IsTree, Heap
<1>. QED
  BY <1>1 DEF OnlyTouches, SameBody

(* What insert does once it has come to n and n is a leaf.                 *)
InsertedAt(h, n, k, order) ==
    LET g == IF n = RootPtr THEN FirstLeaf(h) ELSE h
        leaf == IF n = RootPtr THEN g[RootPtr].children[1] ELSE n
        inserted == SetKeys(g, leaf, InsertKeyToLeaf(g[leaf].keys, k))
    IN IF NumKeys(inserted, leaf) < order THEN inserted ELSE Split(inserted, leaf, order)

(* The nodes of L reach as far up from a leaf as a split may.              *)
Guarded(h, L, order) == \A y \in L \ {RootPtr} :
    h[y].isLeaf \/ NumKeys(h, y) + 1 >= order => h[y].parent \in L

(* An insert leaves a tree with the key, and touches nodes of L only; the  *)
(* levels are linked as before, and no node has too many keys.             *)
THEOREM InsertKeeps ==
    ASSUME NEW h, NEW range, NEW height, IsTree(h, range, height),
           NEW K, HoldsKeys(h, range, K), NEW order \in Nat, order >= 3,
           Neat(h, height, order),
           NEW n \in DOMAIN h, h[n].isLeaf, NEW k \in range[n], k \notin K,
           NEW L, L \subseteq DOMAIN h, n \in L, Guarded(h, L, order),
           NEW g, g = InsertedAt(h, n, k, order)
    PROVE  \E R, H : /\ IsTree(g, R, H)
                     /\ HoldsKeys(g, R, K \cup {k})
                     /\ OnlyTouches(h, range, height, g, R, H, L)
                     /\ Neat(g, H, order)
<1>0. OnlyTouches(h, range, height, h, range, height, L)
  BY TouchesNothing
<1>3. Woven(h, height) /\ Wide(h, order, RootPtr)
  BY DEF Neat
<1>1. CASE n = RootPtr
  <2>. DEFINE f == FirstLeaf(h)
              leaf == f[RootPtr].children[1]
              inserted == SetKeys(f, leaf, InsertKeyToLeaf(f[leaf].keys, k))
  <2>1. g = IF NumKeys(inserted, leaf) < order THEN inserted ELSE Split(inserted, leaf, order)
    BY <1>1 DEF InsertedAt
  <2>. DEFINE new == Allocate(h)
              R == [x \in {RootPtr, new} |-> Nat]
              H == [x \in {RootPtr, new} |-> IF x = new THEN 0 ELSE 1]
  <2>2. StartedTree(h, range, height, f, R, H, new, K)
    BY <1>1, FirstLeafKeepsTree
  <2>11. Woven(f, H)
    BY <1>1, <1>3, FirstLeafWoven
  <2>12. DOMAIN f = {RootPtr, new} /\ f[RootPtr] \in Node
    <3>1. IsTopped(h, f, new, TRUE, <<>>)
      BY <1>1, FirstLeafIs DEF IsTree
    <3>2. DOMAIN h = {RootPtr}
      BY <1>1, EmptyIs
    <3>. QED
      BY <3>1, <3>2 DEF IsTopped, Heap
  <2>. HIDE DEF f, new, R, H
  <2>3. /\ IsTree(f, R, H) /\ HoldsKeys(f, R, K)
        /\ OnlyTouches(h, range, height, f, R, H, {RootPtr})
        /\ new \in DOMAIN f \ {RootPtr} /\ f[new].isLeaf /\ f[new].keys = <<>>
        /\ R[new] = Nat /\ leaf = new /\ new \notin DOMAIN h
    BY <2>2 DEF StartedTree
  <2>4. k \in R[leaf]
    BY <2>3 DEF IsTree
  <2>. HIDE DEF leaf
  <2>5. LeafGrown(f, R, H, inserted, leaf, K \cup {k})
    BY <2>3, <2>4, LeafTakesKey
  <2>6. NumKeys(inserted, leaf) < order
    <3>1. f[leaf].keys \in Seq(Nat) /\ Ascending(f[leaf].keys) /\ k \in Nat
      BY <2>3, <2>4, KeysOf
    <3>2. k \notin ToSet(f[leaf].keys)
      BY <2>3 DEF ToSet
    <3>. DEFINE ks == InsertKeyToLeaf(f[leaf].keys, k)
    <3>3. ks \in Seq(Nat) /\ Ascending(ks) /\ ToSet(ks) = {k}
      <4>1. ToSet(f[leaf].keys) = {}
        BY <2>3 DEF ToSet
      <4>. QED
        BY <3>1, <3>2, <4>1, KeyInserted
    <3>4. inserted[leaf].keys = ks
      <4>1. KeysSet(f, inserted, leaf, ks)
        BY <2>3, <3>3, SetKeysIs DEF IsTree
      <4>. QED
        BY <4>1 DEF KeysSet
    <3>. HIDE DEF ks
    <3>5. Len(ks) < 2
      <4>. SUFFICES ASSUME 2 \in 1 .. Len(ks), 1 \in 1 .. Len(ks) PROVE FALSE
        BY <3>3
      <4>1. ks[1] = k /\ ks[2] = k
        BY <3>3, SetOf
      <4>. QED
        BY <3>1, <3>3, <4>1 DEF Ascending
    <3>. QED
      BY <3>3, <3>4, <3>5 DEF NumKeys
  <2>7. g = inserted
    BY <2>1, <2>6
  <2>. HIDE DEF inserted
  <2>8. /\ IsTree(g, R, H) /\ HoldsKeys(g, R, K \cup {k})
        /\ OnlyTouches(f, R, H, g, R, H, {leaf})
    BY <2>5, <2>7 DEF LeafGrown
  <2>9. OnlyTouches(h, range, height, f, R, H, L)
    <3>1. {RootPtr} \cap DOMAIN h \subseteq L
      BY <1>1
    <3>. QED
      BY <1>0, <2>3, <3>1, TouchesMore
  <2>10. OnlyTouches(h, range, height, g, R, H, L)
    <3>1. {leaf} \cap DOMAIN h \subseteq L
      BY <2>3
    <3>. QED
      BY <2>3, <2>8, <2>9, <3>1, TouchesMore
  <2>13. Neat(g, H, order)
    <3>. DEFINE ks == InsertKeyToLeaf(f[leaf].keys, k)
    <3>1. ks \in Seq(Nat) /\ DOMAIN g = DOMAIN f /\ g[leaf].isLeaf
      <4>1. f[leaf].keys \in Seq(Nat) /\ Ascending(f[leaf].keys) /\ k \in Nat
        BY <2>3, <2>4, KeysOf
      <4>2. k \notin ToSet(f[leaf].keys)
        BY <2>3 DEF ToSet
      <4>3. ks \in Seq(Nat)
        BY <4>1, <4>2, KeyInserted
      <4>. HIDE DEF ks
      <4>4. KeysSet(f, inserted, leaf, ks)
        BY <2>3, <4>3, SetKeysIs DEF IsTree, inserted, ks
      <4>. QED
        BY <2>3, <2>7, <4>3, <4>4 DEF KeysSet
    <3>2. Woven(g, H)
      <4>. HIDE DEF ks
      <4>1. g = SetKeys(f, leaf, ks)
        BY <2>7 DEF inserted, ks
      <4>. QED
        BY <2>3, <2>11, <3>1, <4>1, KeysKeepWoven
    <3>3. Wide(g, order, RootPtr)
      BY <2>3, <2>12, <3>1 DEF Wide
    <3>. QED
      BY <3>2, <3>3 DEF Neat
  <2>. QED
    BY <2>8, <2>10, <2>13
<1>2. CASE n # RootPtr
  <2>. DEFINE inserted == SetKeys(h, n, InsertKeyToLeaf(h[n].keys, k))
  <2>1. g = IF NumKeys(inserted, n) < order THEN inserted ELSE Split(inserted, n, order)
    BY <1>2 DEF InsertedAt
  <2>2. LeafGrown(h, range, height, inserted, n, K \cup {k})
    BY <1>2, LeafTakesKey
  <2>7. InsertKeyToLeaf(h[n].keys, k) \in Seq(Nat)
    <3>1. h[n].keys \in Seq(Nat) /\ Ascending(h[n].keys) /\ k \in Nat
      BY <1>2, KeysOf DEF IsTree
    <3>2. k \notin ToSet(h[n].keys)
      BY DEF HoldsKeys
    <3>. QED
      BY <3>1, <3>2, KeyInserted
  <2>8. Woven(inserted, height)
    BY <1>3, <2>7, KeysKeepWoven
  <2>. HIDE DEF inserted
  <2>3. /\ IsTree(inserted, range, height) /\ HoldsKeys(inserted, range, K \cup {k})
        /\ OnlyTouches(h, range, height, inserted, range, height, {n})
        /\ DOMAIN inserted = DOMAIN h
        /\ \A x \in DOMAIN h : SamePlace(inserted, h, x)
        /\ \A x \in DOMAIN h \ {n} : inserted[x] = h[x]
    BY <2>2 DEF LeafGrown
  <2>10. inserted[n].isLeaf
    <3>1. KeysSet(h, inserted, n, InsertKeyToLeaf(h[n].keys, k))
      BY <2>7, SetKeysIs DEF IsTree, inserted
    <3>. QED
      BY <3>1 DEF KeysSet
  <2>4. OnlyTouches(h, range, height, inserted, range, height, L)
    <3>1. {n} \cap DOMAIN h \subseteq L
      OBVIOUS
    <3>. QED
      BY <1>0, <2>3, <3>1, TouchesMore
  <2>9. \A o : Wide(inserted, order, o)
    <3>. SUFFICES ASSUME NEW o, NEW x \in DOMAIN h \ {RootPtr}, ~inserted[x].isLeaf
                  PROVE  NumKeys(inserted, x) \in 1 .. (IF x = o THEN order ELSE order - 1)
      BY <2>3 DEF Wide
    <3>1. x # n
      BY <2>10
    <3>2. inserted[x] = h[x]
      BY <2>3, <3>1
    <3>. QED
      BY <1>3, <3>2 DEF Wide, NumKeys
  <2>5. CASE NumKeys(inserted, n) < order
    BY <2>1, <2>3, <2>4, <2>5, <2>8, <2>9 DEF Neat
  <2>6. CASE ~(NumKeys(inserted, n) < order)
    <3>1. h[n].parent \in L
      BY <1>2 DEF Guarded
    <3>2. inserted[n].parent \in L
      BY <2>3, <3>1 DEF SamePlace
    <3>3. ASSUME NEW y \in L \ {RootPtr}, height[y] > height[n], NumKeys(inserted, y) + 1 >= order
          PROVE  inserted[y].parent \in L
      <4>1. y # n
        <5>1. height[n] \in Nat
          BY DEF IsTree
        <5>. QED
          BY <3>3, <5>1
      <4>2. inserted[y] = h[y]
        BY <2>3, <4>1
      <4>3. h[y].parent \in L
        BY <3>3, <4>2 DEF Guarded, NumKeys
      <4>. QED
        BY <4>2, <4>3
    <3>6. height[n] >= 0
      BY DEF IsTree
    <3>4. Splitting(h, range, height, L, K \cup {k}, order, 0, inserted, range, height, n)
      BY <1>2, <2>3, <2>4, <2>8, <2>9, <3>2, <3>3, <3>6 DEF Splitting
    <3>5. \E R, H : /\ IsTree(Split(inserted, n, order), R, H)
                    /\ HoldsKeys(Split(inserted, n, order), R, K \cup {k})
                    /\ OnlyTouches(h, range, height, Split(inserted, n, order), R, H, L)
                    /\ Neat(Split(inserted, n, order), H, order)
      BY <3>4, SplitKeeps
    <3>. QED
      BY <2>1, <2>6, <3>5
  <2>. QED
    BY <2>5, <2>6
<1>. QED
  BY <1>1, <1>2
-----------------------------------------------------------------------------
(* One sequence behind another                                             *)

(* Smaller keys in front of larger ones.                                   *)
LEMMA Joined ==
    ASSUME NEW a \in Seq(Nat), NEW b \in Seq(Nat), Ascending(a), Ascending(b),
           \A x \in ToSet(a), y \in ToSet(b) : x < y
    PROVE  /\ a \o b \in Seq(Nat) /\ Ascending(a \o b)
           /\ ToSet(a \o b) = ToSet(a) \cup ToSet(b)
<1>. DEFINE c == a \o b
            n == Len(a)
            m == Len(b)
<1>1. /\ n \in Nat /\ m \in Nat
      /\ \A i \in 1 .. n : a[i] \in Nat /\ a[i] \in ToSet(a)
      /\ \A i \in 1 .. m : b[i] \in Nat /\ b[i] \in ToSet(b)
  BY SetOf
<1>2. /\ c \in Seq(Nat) /\ Len(c) = n + m
      /\ \A i \in 1 .. n + m : c[i] = IF i <= n THEN a[i] ELSE b[i - n]
  BY ConcatProperties
<1>3. /\ \A i, j \in 1 .. n : i < j => a[i] < a[j]
      /\ \A i, j \in 1 .. m : i < j => b[i] < b[j]
  BY DEF Ascending
<1>. HIDE DEF c, n, m
<1>4. Ascending(c)
  <2>. SUFFICES ASSUME NEW i \in 1 .. n + m, NEW j \in 1 .. n + m, i < j PROVE c[i] < c[j]
    BY <1>2 DEF Ascending
  <2>1. CASE j <= n
    <3>1. i \in 1 .. n /\ j \in 1 .. n /\ i <= n
      BY <1>1, <2>1
    <3>2. c[i] = a[i] /\ c[j] = a[j]
      BY <1>2, <2>1, <3>1
    <3>3. a[i] < a[j]
      BY <1>3, <3>1
    <3>. QED
      BY <3>2, <3>3
  <2>2. CASE i > n
    <3>1. i - n \in 1 .. m /\ j - n \in 1 .. m /\ i - n < j - n /\ ~(i <= n) /\ ~(j <= n)
      BY <1>1, <2>2
    <3>2. c[i] = b[i - n] /\ c[j] = b[j - n]
      BY <1>2, <3>1
    <3>3. b[i - n] < b[j - n]
      BY <1>3, <3>1
    <3>. QED
      BY <3>2, <3>3
  <2>3. CASE i <= n /\ j > n
    <3>1. i \in 1 .. n /\ j - n \in 1 .. m /\ ~(j <= n)
      BY <1>1, <2>3
    <3>2. c[i] = a[i] /\ c[j] = b[j - n]
      BY <1>2, <2>3, <3>1
    <3>3. a[i] \in ToSet(a) /\ b[j - n] \in ToSet(b)
      BY <1>1, <3>1
    <3>. QED
      BY <3>2, <3>3
  <2>. QED
    BY <1>1, <2>1, <2>2, <2>3
<1>5. ASSUME NEW x \in ToSet(c) PROVE x \in ToSet(a) \cup ToSet(b)
  <2>1. PICK i \in 1 .. n + m : c[i] = x
    BY <1>2, SetOf
  <2>2. CASE i <= n
    BY <1>1, <1>2, <2>1, <2>2
  <2>3. CASE i > n
    <3>1. i - n \in 1 .. m /\ ~(i <= n)
      BY <1>1, <2>3
    <3>. QED
      BY <1>1, <1>2, <2>1, <3>1
  <2>. QED
    BY <1>1, <2>2, <2>3
<1>6. ASSUME NEW x \in ToSet(a) PROVE x \in ToSet(c)
  <2>1. PICK i \in 1 .. n : a[i] = x
    BY SetOf DEF n
  <2>2. i \in 1 .. n + m /\ c[i] = x
    BY <1>1, <1>2, <2>1
  <2>. QED
    BY <1>2, <2>2, SetOf
<1>7. ASSUME NEW x \in ToSet(b) PROVE x \in ToSet(c)
  <2>1. PICK i \in 1 .. m : b[i] = x
    BY SetOf DEF m
  <2>2. i + n \in 1 .. n + m /\ ~(i + n <= n) /\ (i + n) - n = i
    BY <1>1
  <2>3. c[i + n] = x
    BY <1>2, <2>1, <2>2
  <2>. QED
    BY <1>2, <2>2, <2>3, SetOf
<1>. QED
  BY <1>2, <1>4, <1>5, <1>6, <1>7 DEF c

(* The table that FlattenSeq fills in.                                     *)
IsFlat(f, s, n) == f = [i \in 1 .. n |-> IF i = 1 THEN s[i] ELSE f[i - 1] \o s[i]]

(* There is such a table.                                                  *)
LEMMA FlatExists ==
    ASSUME NEW s, NEW n \in Nat \ {0}
    PROVE  \E f : IsFlat(f, s, n)
<1>. DEFINE S == {k \in Nat : k > 0 => \E f : IsFlat(f, s, k)}
<1>1. 0 \in S
  OBVIOUS
<1>2. ASSUME NEW k \in Nat \ {0}, k - 1 \in S PROVE k \in S
  <2>1. CASE k = 1
    <3>. DEFINE f == [i \in 1 .. 1 |-> s[i]]
    <3>1. \A i \in 1 .. 1 : i = 1
      OBVIOUS
    <3>2. IsFlat(f, s, 1)
      BY <3>1 DEF IsFlat
    <3>. QED
      BY <2>1, <3>2
  <2>2. CASE k # 1
    <3>1. k - 1 > 0
      BY <2>2
    <3>2. PICK f : IsFlat(f, s, k - 1)
      BY <1>2, <3>1
    <3>3. \A i \in 1 .. (k - 1) : f[i] = IF i = 1 THEN s[i] ELSE f[i - 1] \o s[i]
      BY <3>2 DEF IsFlat
    <3>. DEFINE g == [i \in 1 .. k |-> IF i < k THEN f[i] ELSE f[k - 1] \o s[k]]
    <3>4. ASSUME NEW i \in 1 .. k
          PROVE  g[i] = IF i = 1 THEN s[i] ELSE g[i - 1] \o s[i]
      <4>1. CASE i < k
        <5>1. i \in 1 .. (k - 1) /\ g[i] = f[i] /\ (i # 1 => i - 1 \in 1 .. k /\ i - 1 < k)
          BY <4>1
        <5>2. i # 1 => g[i - 1] = f[i - 1]
          BY <5>1
        <5>. QED
          BY <3>3, <5>1, <5>2
      <4>2. CASE i = k
        <5>1. k - 1 \in 1 .. k /\ k - 1 < k /\ k \in 1 .. k /\ ~(k < k)
          BY <2>2
        <5>. DEFINE tail == f[k - 1] \o s[k]
        <5>. HIDE DEF tail
        <5>3. g = [i0 \in 1 .. k |-> IF i0 < k THEN f[i0] ELSE tail]
          BY DEF tail
        <5>2. g[k - 1] = f[k - 1] /\ g[k] = f[k - 1] \o s[k]
          BY <5>1, <5>3 DEF tail
        <5>. QED
          BY <2>2, <4>2, <5>2
      <4>. QED
        BY <4>1, <4>2
    <3>5. g = [i \in 1 .. k |-> g[i]]
      OBVIOUS
    <3>. HIDE DEF g
    <3>6. IsFlat(g, s, k)
      BY <3>4, <3>5, Zenon DEF IsFlat
    <3>. QED
      BY <3>6
  <2>. QED
    BY <2>1, <2>2
<1>. HIDE DEF S
<1>3. Nat \subseteq S
  BY <1>1, <1>2, EveryNumber
<1>. QED
  BY <1>3 DEF S

(* Sequences each of which has smaller keys than the next are flattened to *)
(* one with all their keys.                                                *)
LEMMA Flattened ==
    ASSUME NEW n \in Nat \ {0}, NEW s, DOMAIN s = 1 .. n, Len(s) = n,
           \A i \in 1 .. n : s[i] \in Seq(Nat) /\ Ascending(s[i]),
           \A i, j \in 1 .. n : i < j =>
              \A x \in ToSet(s[i]), y \in ToSet(s[j]) : x < y
    PROVE  /\ FlattenSeq(s) \in Seq(Nat) /\ Ascending(FlattenSeq(s))
           /\ \A x : x \in ToSet(FlattenSeq(s)) <=> \E i \in 1 .. n : x \in ToSet(s[i])
<1>. DEFINE f == CHOOSE f : f = [i \in 1 .. Len(s) |-> IF i = 1 THEN s[i] ELSE f[i - 1] \o s[i]]
            Good(k) == /\ f[k] \in Seq(Nat) /\ Ascending(f[k])
                       /\ \A x : x \in ToSet(f[k]) <=> \E i \in 1 .. k : x \in ToSet(s[i])
            S == {k \in Nat : k \in 1 .. n => Good(k)}
<1>1. FlattenSeq(s) = f[n]
  BY DEF FlattenSeq
<1>2. IsFlat(f, s, n)
  <2>1. PICK g : IsFlat(g, s, n)
    BY FlatExists
  <2>. QED
    BY <2>1 DEF IsFlat
<1>3. \A i \in 1 .. n : f[i] = IF i = 1 THEN s[i] ELSE f[i - 1] \o s[i]
  <2>. HIDE DEF f
  <2>. QED
    BY <1>2 DEF IsFlat
<1>. HIDE DEF f
<1>4. 0 \in S
  OBVIOUS
<1>5. ASSUME NEW k \in Nat \ {0}, k - 1 \in S PROVE k \in S
  <2>. SUFFICES ASSUME k \in 1 .. n PROVE Good(k)
    OBVIOUS
  <2>1. CASE k = 1
    <3>1. f[1] = s[1]
      BY <1>3, <2>1
    <3>2. \A i \in 1 .. 1 : i = 1
      OBVIOUS
    <3>. QED
      BY <2>1, <3>1, <3>2
  <2>2. CASE k # 1
    <3>1. k - 1 \in 1 .. n
      BY <2>2
    <3>2. Good(k - 1) /\ f[k] = f[k - 1] \o s[k]
      BY <1>3, <1>5, <2>2, <3>1
    <3>3. ASSUME NEW x \in ToSet(f[k - 1]), NEW y \in ToSet(s[k]) PROVE x < y
      <4>1. PICK i \in 1 .. k - 1 : x \in ToSet(s[i])
        BY <3>2
      <4>2. i \in 1 .. n /\ i < k
        OBVIOUS
      <4>. QED
        BY <4>1, <4>2
    <3>4. /\ f[k] \in Seq(Nat) /\ Ascending(f[k])
          /\ ToSet(f[k]) = ToSet(f[k - 1]) \cup ToSet(s[k])
      BY <3>2, <3>3, Joined
    <3>5. \A x : x \in ToSet(f[k]) <=> \E i \in 1 .. k : x \in ToSet(s[i])
      <4>1. 1 .. k = (1 .. k - 1) \cup {k}
        OBVIOUS
      <4>. QED
        BY <3>2, <3>4, <4>1
    <3>. QED
      BY <3>4, <3>5
  <2>. QED
    BY <2>1, <2>2
<1>. HIDE DEF S
<1>6. Nat \subseteq S
  BY <1>4, <1>5, EveryNumber
<1>7. Good(n)
  <2>1. n \in S /\ n \in 1 .. n
    BY <1>6
  <2>. QED
    BY <2>1 DEF S
<1>. QED
  BY <1>1, <1>7
-----------------------------------------------------------------------------
(* The search for a key                                                    *)

(* It goes on in the child whose range has the key.                        *)
LEMMA ChildForIs ==
    ASSUME NEW h, NEW range, NEW height, IsTree(h, range, height),
           NEW n \in DOMAIN h, ~h[n].isLeaf, NEW k \in Nat
    PROVE  LET c == ChildFor(h, n, k)
           IN /\ c \in DOMAIN h /\ c # RootPtr /\ h[c].parent = n
              /\ height[n] = height[c] + 1
              /\ k \in range[n] => k \in range[c]
<1>. DEFINE i == GtKeyIdx(h, n, k) + 1
<1>1. GtKeyIdx(h, n, k) \in 0 .. NumKeys(h, n) /\ NumKeys(h, n) \in Nat
  BY SearchIn, KeysOf
<1>2. NumChild(h, n) = NumKeys(h, n) + 1
  BY DEF IsTree, NodeFits
<1>3. i \in 1 .. NumChild(h, n) /\ GtKeyIdx(h, n, k) = i - 1
  BY <1>1, <1>2
<1>. HIDE DEF i
<1>4. LET c == h[n].children[i]
      IN /\ c \in DOMAIN h /\ c # RootPtr /\ h[c].parent = n
         /\ height[n] = height[c] + 1 /\ range[c] = Turned(h, range, n, i)
  BY <1>3, ChildOf
<1>5. k \in range[n] => k \in Turned(h, range, n, i)
  BY <1>3 DEF Turned
<1>6. ChildFor(h, n, k) = h[n].children[i]
  BY DEF ChildFor, i
<1>. QED
  BY <1>4, <1>5, <1>6

(* The table that FindLeaf fills in, as far up as d.                       *)
FoundBelow(f, h, height, k, d) ==
    /\ f = [m \in DOMAIN h |-> f[m]]
    /\ \A m \in DOMAIN h : height[m] <= d =>
          f[m] = IF h[m].isLeaf THEN m ELSE f[ChildFor(h, m, k)]

(* There is such a table, since each child is nearer to the leaves.        *)
LEMMA SearchTableExists ==
    ASSUME NEW h, NEW range, NEW height, IsTree(h, range, height), NEW k \in Nat
    PROVE  \E f : f = [m \in DOMAIN h |-> IF h[m].isLeaf THEN m ELSE f[ChildFor(h, m, k)]]
<1>. DEFINE S == {d \in Nat : \E f : FoundBelow(f, h, height, k, d)}
<1>1. /\ \A m \in DOMAIN h : height[m] \in Nat /\ height[m] <= height[RootPtr]
      /\ RootPtr \in DOMAIN h
      /\ \A m \in DOMAIN h : h[m].isLeaf => height[m] = 0
  BY DEF IsTree, Heap, NodeFits
<1>2. \A m \in DOMAIN h : ~h[m].isLeaf =>
         ChildFor(h, m, k) \in DOMAIN h /\ height[m] = height[ChildFor(h, m, k)] + 1
  BY ChildForIs
<1>3. 0 \in S
  <2>. DEFINE f == [m \in DOMAIN h |-> m]
  <2>1. \A m \in DOMAIN h : height[m] <= 0 => h[m].isLeaf
    BY <1>1, <1>2
  <2>2. FoundBelow(f, h, height, k, 0)
    BY <2>1 DEF FoundBelow
  <2>. QED
    BY <2>2
<1>4. ASSUME NEW d \in Nat \ {0}, d - 1 \in S PROVE d \in S
  <2>1. PICK f : FoundBelow(f, h, height, k, d - 1)
    BY <1>4
  <2>. DEFINE g == [m \in DOMAIN h |-> IF height[m] <= d - 1 THEN f[m]
                                       ELSE IF h[m].isLeaf THEN m ELSE f[ChildFor(h, m, k)]]
  <2>2. ASSUME NEW m \in DOMAIN h, height[m] <= d
        PROVE  g[m] = IF h[m].isLeaf THEN m ELSE g[ChildFor(h, m, k)]
    <3>1. g[m] = IF h[m].isLeaf THEN m ELSE f[ChildFor(h, m, k)]
      <4>1. CASE height[m] <= d - 1
        BY <2>1, <4>1 DEF FoundBelow
      <4>2. CASE ~(height[m] <= d - 1)
        BY <4>2
      <4>. QED
        BY <4>1, <4>2
    <3>2. ~h[m].isLeaf => ChildFor(h, m, k) \in DOMAIN h /\ height[ChildFor(h, m, k)] <= d - 1
      BY <1>1, <1>2, <2>2
    <3>3. ~h[m].isLeaf => g[ChildFor(h, m, k)] = f[ChildFor(h, m, k)]
      BY <3>2
    <3>. HIDE DEF g
    <3>. QED
      BY <3>1, <3>3
  <2>3. g = [m \in DOMAIN h |-> g[m]]
    OBVIOUS
  <2>. HIDE DEF g
  <2>4. FoundBelow(g, h, height, k, d)
    BY <2>2, <2>3 DEF FoundBelow
  <2>. QED
    BY <2>4
<1>. HIDE DEF S
<1>5. height[RootPtr] \in S
  <2>1. Nat \subseteq S
    BY <1>3, <1>4, EveryNumber
  <2>. QED
    BY <1>1, <2>1
<1>6. PICK f : FoundBelow(f, h, height, k, height[RootPtr])
  BY <1>5 DEF S
<1>7. \A m \in DOMAIN h : f[m] = IF h[m].isLeaf THEN m ELSE f[ChildFor(h, m, k)]
  BY <1>1, <1>6 DEF FoundBelow
<1>8. f = [m \in DOMAIN h |-> IF h[m].isLeaf THEN m ELSE f[ChildFor(h, m, k)]]
  <2>1. f = [m \in DOMAIN h |-> f[m]]
    BY <1>6 DEF FoundBelow
  <2>. QED
    BY <1>7, <2>1
<1>. QED
  BY <1>8

(* It ends in a leaf that takes the key.                                   *)
LEMMA FindLeafFinds ==
    ASSUME NEW h, NEW range, NEW height, IsTree(h, range, height),
           NEW n \in DOMAIN h, NEW k \in range[n]
    PROVE  LET m == FindLeaf(h, n, k)
           IN m \in DOMAIN h /\ h[m].isLeaf /\ k \in range[m]
<1>. DEFINE f == CHOOSE f : f = [m \in DOMAIN h |-> IF h[m].isLeaf THEN m
                                                     ELSE f[ChildFor(h, m, k)]]
            Good(m) == f[m] \in DOMAIN h /\ h[f[m]].isLeaf /\ k \in range[f[m]]
            S == {d \in Nat : \A m \in DOMAIN h : height[m] = d /\ k \in range[m] => Good(m)}
<1>0. k \in Nat
  BY DEF IsTree
<1>1. FindLeaf(h, n, k) = f[n]
  BY DEF FindLeaf
<1>2. f = [m \in DOMAIN h |-> IF h[m].isLeaf THEN m ELSE f[ChildFor(h, m, k)]]
  BY <1>0, SearchTableExists
<1>. HIDE DEF f
<1>3. \A m \in DOMAIN h : f[m] = IF h[m].isLeaf THEN m ELSE f[ChildFor(h, m, k)]
  BY <1>2
<1>4. \A m \in DOMAIN h : height[m] \in Nat
  BY DEF IsTree
<1>5. ASSUME NEW m \in DOMAIN h, k \in range[m],
             ~h[m].isLeaf => Good(ChildFor(h, m, k))
      PROVE  Good(m)
  BY <1>3, <1>5
<1>6. \A m \in DOMAIN h : ~h[m].isLeaf =>
         /\ ChildFor(h, m, k) \in DOMAIN h /\ height[m] = height[ChildFor(h, m, k)] + 1
         /\ k \in range[m] => k \in range[ChildFor(h, m, k)]
  BY <1>0, ChildForIs
<1>. HIDE DEF Good
<1>7. 0 \in S
  <2>1. \A m \in DOMAIN h : height[m] = 0 => h[m].isLeaf
    BY <1>4, <1>6
  <2>. QED
    BY <1>5, <2>1
<1>8. ASSUME NEW d \in Nat \ {0}, d - 1 \in S PROVE d \in S
  <2>. SUFFICES ASSUME NEW m \in DOMAIN h, height[m] = d, k \in range[m] PROVE Good(m)
    OBVIOUS
  <2>1. ~h[m].isLeaf => Good(ChildFor(h, m, k))
    BY <1>4, <1>6, <1>8
  <2>. QED
    BY <1>5, <2>1
<1>. HIDE DEF S
<1>9. height[n] \in S
  <2>1. Nat \subseteq S
    BY <1>7, <1>8, EveryNumber
  <2>. QED
    BY <1>4, <2>1
<1>10. Good(n)
  BY <1>9 DEF S
<1>. QED
  BY <1>1, <1>10 DEF Good
-----------------------------------------------------------------------------
(* The keys of the leaves, in order                                        *)

(* What a function of the nodes has for the children of m.                 *)
Kids(h, m, f) == [i \in DOMAIN h[m].children |-> f[h[m].children[i]]]

(* The table that InOrder fills in, as far up as d.                        *)
CollectedBelow(f, h, height, d) ==
    /\ f = [m \in DOMAIN h |-> f[m]]
    /\ \A m \in DOMAIN h : height[m] <= d =>
          f[m] = IF h[m].isLeaf THEN h[m].keys ELSE FlattenSeq(Kids(h, m, f))

(* There is such a table.                                                  *)
LEMMA CollectedTableExists ==
    ASSUME NEW h, NEW range, NEW height, IsTree(h, range, height)
    PROVE  \E f : f = [m \in DOMAIN h |-> IF h[m].isLeaf THEN h[m].keys
                                          ELSE FlattenSeq(Kids(h, m, f))]
<1>. DEFINE S == {d \in Nat : \E f : CollectedBelow(f, h, height, d)}
<1>1. /\ \A m \in DOMAIN h : height[m] \in Nat /\ height[m] <= height[RootPtr]
      /\ RootPtr \in DOMAIN h
  BY DEF IsTree, Heap
<1>2. ASSUME NEW m \in DOMAIN h
      PROVE  /\ DOMAIN h[m].children = 1 .. NumChild(h, m)
             /\ \A i \in 1 .. NumChild(h, m) : /\ h[m].children[i] \in DOMAIN h
                                               /\ height[m] = height[h[m].children[i]] + 1
  <2>1. DOMAIN h[m].children = 1 .. NumChild(h, m)
    BY NodeType DEF IsTree
  <2>2. ASSUME NEW i \in 1 .. NumChild(h, m)
        PROVE  h[m].children[i] \in DOMAIN h /\ height[m] = height[h[m].children[i]] + 1
    BY ChildOf
  <2>. QED
    BY <2>1, <2>2
<1>3. 0 \in S
  <2>. DEFINE f == [m \in DOMAIN h |-> IF h[m].isLeaf THEN h[m].keys ELSE FlattenSeq(<<>>)]
  <2>1. ASSUME NEW m \in DOMAIN h, height[m] <= 0
        PROVE  f[m] = IF h[m].isLeaf THEN h[m].keys ELSE FlattenSeq(Kids(h, m, f))
    <3>1. ASSUME ~h[m].isLeaf PROVE FALSE
      <4>1. NumChild(h, m) = NumKeys(h, m) + 1 /\ NumKeys(h, m) \in Nat
        BY <3>1, NodeType DEF IsTree, NodeFits
      <4>2. 1 \in 1 .. NumChild(h, m)
        BY <4>1
      <4>3. h[m].children[1] \in DOMAIN h /\ height[m] = height[h[m].children[1]] + 1
        BY <1>2, <4>2
      <4>. QED
        BY <1>1, <2>1, <4>3
    <3>. QED
      BY <3>1
  <2>2. f = [m \in DOMAIN h |-> f[m]]
    OBVIOUS
  <2>. HIDE DEF f
  <2>3. CollectedBelow(f, h, height, 0)
    BY <2>1, <2>2 DEF CollectedBelow
  <2>. QED
    BY <2>3
<1>4. ASSUME NEW d \in Nat \ {0}, d - 1 \in S PROVE d \in S
  <2>1. PICK f : CollectedBelow(f, h, height, d - 1)
    BY <1>4
  <2>. DEFINE g == [m \in DOMAIN h |-> IF height[m] <= d - 1 THEN f[m]
                                       ELSE IF h[m].isLeaf THEN h[m].keys
                                       ELSE FlattenSeq(Kids(h, m, f))]
  <2>2. ASSUME NEW m \in DOMAIN h, height[m] <= d
        PROVE  g[m] = IF h[m].isLeaf THEN h[m].keys ELSE FlattenSeq(Kids(h, m, g))
    <3>1. g[m] = IF h[m].isLeaf THEN h[m].keys ELSE FlattenSeq(Kids(h, m, f))
      <4>1. CASE height[m] <= d - 1
        BY <2>1, <4>1 DEF CollectedBelow
      <4>2. CASE ~(height[m] <= d - 1)
        BY <4>2
      <4>. QED
        BY <4>1, <4>2
    <3>2. ASSUME NEW i \in DOMAIN h[m].children
          PROVE  g[h[m].children[i]] = f[h[m].children[i]]
      <4>1. h[m].children[i] \in DOMAIN h /\ height[m] = height[h[m].children[i]] + 1
        BY <1>2
      <4>2. height[m] \in Nat /\ height[h[m].children[i]] \in Nat
        BY <1>1, <4>1
      <4>3. height[h[m].children[i]] <= d - 1
        BY <2>2, <4>1, <4>2
      <4>. QED
        BY <4>1, <4>3
    <3>. HIDE DEF g
    <3>3. Kids(h, m, g) = Kids(h, m, f)
      BY <3>2 DEF Kids
    <3>. QED
      BY <3>1, <3>3
  <2>3. g = [m \in DOMAIN h |-> g[m]]
    OBVIOUS
  <2>. HIDE DEF g
  <2>4. CollectedBelow(g, h, height, d)
    BY <2>2, <2>3 DEF CollectedBelow
  <2>. QED
    BY <2>4
<1>. HIDE DEF S
<1>5. height[RootPtr] \in S
  <2>1. Nat \subseteq S
    BY <1>3, <1>4, EveryNumber
  <2>. QED
    BY <1>1, <2>1
<1>6. PICK f : CollectedBelow(f, h, height, height[RootPtr])
  BY <1>5 DEF S
<1>7. \A m \in DOMAIN h : f[m] = IF h[m].isLeaf THEN h[m].keys ELSE FlattenSeq(Kids(h, m, f))
  BY <1>1, <1>6 DEF CollectedBelow
<1>8. f = [m \in DOMAIN h |-> IF h[m].isLeaf THEN h[m].keys ELSE FlattenSeq(Kids(h, m, f))]
  <2>1. f = [m \in DOMAIN h |-> f[m]]
    BY <1>6 DEF CollectedBelow
  <2>. QED
    BY <1>7, <2>1, Zenon
<1>. QED
  BY <1>8

(* The keys of K that are searched for in n, in order.                     *)
Lists(s, range, n, K) == /\ s \in Seq(Nat) /\ Ascending(s)
                         /\ \A x : x \in ToSet(s) <=> x \in range[n] \cap K

(* The lists of the children, one after the other, make that of the node.  *)
LEMMA KidsListed ==
    ASSUME NEW h, NEW range, NEW height, IsTree(h, range, height), NEW K,
           NEW m \in DOMAIN h, ~h[m].isLeaf, NEW f,
           \A i \in 1 .. NumChild(h, m) : Lists(f[h[m].children[i]], range, h[m].children[i], K)
    PROVE  Lists(FlattenSeq(Kids(h, m, f)), range, m, K)
<1>. DEFINE n == NumChild(h, m)
            s == Kids(h, m, f)
<1>1. n = NumKeys(h, m) + 1 /\ NumKeys(h, m) \in Nat /\ DOMAIN h[m].children = 1 .. n
  BY NodeType DEF IsTree, NodeFits
<1>2. n \in Nat \ {0}
  BY <1>1
<1>3. DOMAIN s = 1 .. n /\ \A i \in 1 .. n : s[i] = f[h[m].children[i]]
  BY <1>1 DEF Kids
<1>4. \A i \in 1 .. n : h[m].children[i] \in DOMAIN h
                        /\ range[h[m].children[i]] = Turned(h, range, m, i)
  BY ChildOf
<1>5. range[m] \subseteq Nat
  BY DEF IsTree
<1>. HIDE DEF n, s
<1>6. Len(s) = n
  BY <1>2, <1>3
<1>7. ASSUME NEW i \in 1 .. n
      PROVE  /\ s[i] \in Seq(Nat) /\ Ascending(s[i])
             /\ \A x : x \in ToSet(s[i]) <=> x \in range[m] /\ GtKeyIdx(h, m, x) = i - 1 /\ x \in K
  <2>1. Lists(s[i], range, h[m].children[i], K)
    BY <1>3 DEF n
  <2>. QED
    BY <1>4, <2>1 DEF Lists, Turned
<1>8. ASSUME NEW i \in 1 .. n, NEW j \in 1 .. n, i < j,
             NEW x \in ToSet(s[i]), NEW y \in ToSet(s[j])
      PROVE  x < y
  <2>1. /\ x \in Nat /\ GtKeyIdx(h, m, x) = i - 1
        /\ y \in Nat /\ GtKeyIdx(h, m, y) = j - 1
    BY <1>5, <1>7
  <2>2. j - 1 \in 1 .. NumKeys(h, m) /\ ~(j - 1 <= i - 1)
    BY <1>1, <1>8 DEF n
  <2>3. h[m].keys[j - 1] <= y /\ ~(h[m].keys[j - 1] <= x)
    BY <2>1, <2>2, SearchIn
  <2>4. h[m].keys[j - 1] \in Nat
    BY <2>2, KeysOf
  <2>. QED
    BY <2>1, <2>3, <2>4
<1>9. /\ FlattenSeq(s) \in Seq(Nat) /\ Ascending(FlattenSeq(s))
      /\ \A x : x \in ToSet(FlattenSeq(s)) <=> \E i \in 1 .. n : x \in ToSet(s[i])
  BY <1>2, <1>3, <1>6, <1>7, <1>8, Flattened
<1>10. ASSUME NEW x, x \in ToSet(FlattenSeq(s)) PROVE x \in range[m] \cap K
  BY <1>7, <1>9, <1>10
<1>11. ASSUME NEW x, x \in range[m] \cap K PROVE x \in ToSet(FlattenSeq(s))
  <2>1. GtKeyIdx(h, m, x) \in 0 .. NumKeys(h, m)
    BY <1>5, <1>11, SearchIn
  <2>2. GtKeyIdx(h, m, x) + 1 \in 1 .. n /\ GtKeyIdx(h, m, x) = (GtKeyIdx(h, m, x) + 1) - 1
    BY <1>1, <2>1
  <2>3. x \in ToSet(s[GtKeyIdx(h, m, x) + 1])
    BY <1>7, <1>11, <2>2
  <2>. QED
    BY <1>9, <2>2, <2>3
<1>. QED
  BY <1>9, <1>10, <1>11 DEF Lists, s

(* So InOrder lists them.                                                  *)
LEMMA InOrderIs ==
    ASSUME NEW h, NEW range, NEW height, IsTree(h, range, height),
           NEW K, HoldsKeys(h, range, K), NEW n \in DOMAIN h
    PROVE  Lists(InOrder(h, n), range, n, K)
<1>. DEFINE f == CHOOSE f : f = [m \in DOMAIN h |->
                    IF h[m].isLeaf THEN h[m].keys
                    ELSE FlattenSeq([i \in DOMAIN h[m].children |-> f[h[m].children[i]]])]
            S == {d \in Nat : \A m \in DOMAIN h : height[m] = d => Lists(f[m], range, m, K)}
<1>1. InOrder(h, n) = f[n]
  BY DEF InOrder
<1>2. f = [m \in DOMAIN h |-> IF h[m].isLeaf THEN h[m].keys ELSE FlattenSeq(Kids(h, m, f))]
  <2>1. \E g : g = [m \in DOMAIN h |-> IF h[m].isLeaf THEN h[m].keys
                                       ELSE FlattenSeq(Kids(h, m, g))]
    BY CollectedTableExists
  <2>2. \E g : g = [m \in DOMAIN h |->
                    IF h[m].isLeaf THEN h[m].keys
                    ELSE FlattenSeq([i \in DOMAIN h[m].children |-> g[h[m].children[i]]])]
    BY <2>1, Zenon DEF Kids
  <2>3. f = [m \in DOMAIN h |->
                    IF h[m].isLeaf THEN h[m].keys
                    ELSE FlattenSeq([i \in DOMAIN h[m].children |-> f[h[m].children[i]]])]
    BY <2>2, Zenon
  <2>. HIDE DEF f
  <2>. QED
    BY <2>3, Zenon DEF Kids
<1>. HIDE DEF f
<1>3. \A m \in DOMAIN h : f[m] = IF h[m].isLeaf THEN h[m].keys ELSE FlattenSeq(Kids(h, m, f))
  BY <1>2, Zenon
<1>4. \A m \in DOMAIN h : height[m] \in Nat
  BY DEF IsTree
<1>5. ASSUME NEW m \in DOMAIN h, h[m].isLeaf PROVE Lists(f[m], range, m, K)
  <2>1. f[m] = h[m].keys
    BY <1>3, <1>5
  <2>2. h[m].keys \in Seq(Nat) /\ Ascending(h[m].keys)
    BY NodeType DEF IsTree, NodeFits
  <2>3. ToSet(h[m].keys) = range[m] \cap K
    BY <1>5 DEF HoldsKeys
  <2>. QED
    BY <2>1, <2>2, <2>3 DEF Lists
<1>6. ASSUME NEW m \in DOMAIN h, ~h[m].isLeaf,
             \A i \in 1 .. NumChild(h, m) : Lists(f[h[m].children[i]], range, h[m].children[i], K)
      PROVE  Lists(f[m], range, m, K)
  <2>1. Lists(FlattenSeq(Kids(h, m, f)), range, m, K)
    BY <1>6, KidsListed
  <2>. QED
    BY <1>3, <1>6, <2>1
<1>7. ASSUME NEW m \in DOMAIN h, NEW i \in 1 .. NumChild(h, m)
      PROVE  h[m].children[i] \in DOMAIN h /\ height[m] = height[h[m].children[i]] + 1
  BY ChildOf
<1>8. 0 \in S
  <2>. SUFFICES ASSUME NEW m \in DOMAIN h, height[m] = 0 PROVE Lists(f[m], range, m, K)
    OBVIOUS
  <2>1. CASE h[m].isLeaf
    BY <1>5, <2>1
  <2>2. CASE ~h[m].isLeaf
    <3>1. \A i \in 1 .. NumChild(h, m) : FALSE
      BY <1>4, <1>7
    <3>. QED
      BY <1>6, <2>2, <3>1
  <2>. QED
    BY <2>1, <2>2
<1>9. ASSUME NEW d \in Nat \ {0}, d - 1 \in S PROVE d \in S
  <2>. SUFFICES ASSUME NEW m \in DOMAIN h, height[m] = d PROVE Lists(f[m], range, m, K)
    OBVIOUS
  <2>1. CASE h[m].isLeaf
    BY <1>5, <2>1
  <2>2. CASE ~h[m].isLeaf
    <3>1. \A i \in 1 .. NumChild(h, m) : height[h[m].children[i]] = d - 1
      BY <1>4, <1>7
    <3>2. \A i \in 1 .. NumChild(h, m) : Lists(f[h[m].children[i]], range, h[m].children[i], K)
      BY <1>7, <1>9, <3>1
    <3>. QED
      BY <1>6, <2>2, <3>2
  <2>. QED
    BY <2>1, <2>2
<1>. HIDE DEF S
<1>10. height[n] \in S
  <2>1. Nat \subseteq S
    BY <1>8, <1>9, EveryNumber
  <2>. QED
    BY <1>4, <2>1
<1>11. Lists(f[n], range, n, K)
  BY <1>10 DEF S
<1>. QED
  BY <1>1, <1>11
-----------------------------------------------------------------------------
(* What NodeHeap asks of a tree                                            *)

(* The keys that are there.                                                *)
OnesOf(copies) == {k \in DOMAIN copies : copies[k] = 1}

(* A tree with the keys of which there is a copy holds them, and a search  *)
(* finds each.                                                             *)
THEOREM TreeHolds ==
    ASSUME NEW h, NEW range, NEW height, IsTree(h, range, height),
           NEW copies, HoldsKeys(h, range, OnesOf(copies)),
           DOMAIN copies \subseteq Nat, \A k \in DOMAIN copies : copies[k] \in {0, 1}
    PROVE  Holds(h, copies) /\ FindsAll(h)
<1>. DEFINE s == InOrder(h, RootPtr)
            K == OnesOf(copies)
<1>1. RootPtr \in DOMAIN h /\ range[RootPtr] = Nat
  BY DEF IsTree, Heap
<1>2. Lists(s, range, RootPtr, K)
  BY <1>1, InOrderIs
<1>3. K \subseteq Nat /\ \A k \in DOMAIN copies : k \in K <=> copies[k] = 1
  BY DEF OnesOf
<1>. HIDE DEF s, K
<1>4. /\ s \in Seq(Nat) /\ Len(s) \in Nat /\ \A i \in 1 .. Len(s) : s[i] \in Nat
      /\ \A i, j \in 1 .. Len(s) : i < j => s[i] < s[j]
      /\ \A x : x \in ToSet(s) <=> x \in K
  <2>1. s \in Seq(Nat) /\ Ascending(s) /\ \A x : x \in ToSet(s) <=> x \in range[RootPtr] \cap K
    BY <1>2 DEF Lists
  <2>2. \A x : x \in ToSet(s) <=> x \in K
    BY <1>1, <1>3, <2>1
  <2>3. Len(s) \in Nat /\ \A i \in 1 .. Len(s) : s[i] \in Nat
    BY <2>1
  <2>. QED
    BY <2>1, <2>2, <2>3 DEF Ascending
<1>5. ASSUME NEW i \in 1 .. Len(s) - 1 PROVE s[i] <= s[i + 1]
  <2>1. i \in 1 .. Len(s) /\ i + 1 \in 1 .. Len(s) /\ i < i + 1
    BY <1>4
  <2>2. s[i] < s[i + 1] /\ s[i] \in Nat /\ s[i + 1] \in Nat
    BY <1>4, <2>1
  <2>. QED
    BY <2>2
<1>6. ASSUME NEW k \in DOMAIN copies
      PROVE  Cardinality({i \in DOMAIN s : s[i] = k}) = copies[k]
  <2>. DEFINE I == {i \in DOMAIN s : s[i] = k}
  <2>1. DOMAIN s = 1 .. Len(s)
    BY <1>4
  <2>2. CASE k \in K
    <3>1. k \in ToSet(s)
      BY <1>4, <2>2
    <3>2. PICK i \in 1 .. Len(s) : s[i] = k
      BY <1>4, <3>1, SetOf
    <3>3. ASSUME NEW j \in 1 .. Len(s), s[j] = k PROVE j = i
      <4>1. ~(i < j) /\ ~(j < i)
        BY <1>4, <3>2, <3>3
      <4>. QED
        BY <1>4, <4>1
    <3>4. I = {i}
      BY <2>1, <3>2, <3>3
    <3>. HIDE DEF I
    <3>5. Cardinality(I) = 1
      BY <3>4, FS_Singleton
    <3>. QED
      BY <1>3, <2>2, <3>5 DEF I
  <2>3. CASE k \notin K
    <3>1. I = {}
      <4>1. k \notin ToSet(s)
        BY <1>4, <2>3
      <4>. QED
        BY <1>4, <2>1, <4>1, SetOf
    <3>. HIDE DEF I
    <3>2. Cardinality(I) = 0
      BY <3>1, FS_EmptySet
    <3>3. copies[k] = 0
      BY <1>3, <2>3
    <3>. QED
      BY <3>2, <3>3 DEF I
  <2>. QED
    BY <2>2, <2>3
<1>7. Holds(h, copies)
  BY <1>5, <1>6 DEF Holds, s
<1>8. ASSUME NEW k \in ToSet(InOrder(h, RootPtr))
      PROVE  Contains(h[FindLeaf(h, RootPtr, k)].keys, k)
  <2>. DEFINE m == FindLeaf(h, RootPtr, k)
  <2>1. k \in K /\ k \in range[RootPtr]
    BY <1>1, <1>3, <1>4 DEF s
  <2>2. m \in DOMAIN h /\ h[m].isLeaf /\ k \in range[m]
    BY <1>1, <2>1, FindLeafFinds
  <2>. HIDE DEF m
  <2>3. k \in ToSet(h[m].keys)
    BY <2>1, <2>2 DEF HoldsKeys, K
  <2>4. h[m].keys \in Seq(Nat)
    BY <2>2, NodeType DEF IsTree
  <2>5. Contains(h[m].keys, k)
    BY <2>3, <2>4, ContainsIsIn
  <2>. QED
    BY <2>5 DEF m
<1>. QED
  BY <1>7, <1>8 DEF FindsAll

(* The nodes of a tree are typed.                                          *)
LEMMA TreeTyped ==
    ASSUME NEW h, Heap(h)
    PROVE  IsHeap(h)
<1>1. ASSUME NEW n \in DOMAIN h PROVE n \in Nat /\ IsNode(h[n])
  <2>1. /\ n \in Nat /\ h[n].isLeaf \in BOOLEAN
        /\ h[n].keys \in Seq(Nat) /\ h[n].children \in Seq(Nat)
        /\ h[n].childIndex \in Nat \cup {-1}
    BY NodeType
  <2>2. h[n].parent \in Pointer /\ h[n].prev \in Pointer /\ h[n].next \in Pointer
    BY NodeType
  <2>. QED
    BY <2>1, <2>2 DEF IsNode, Pointer
<1>. QED
  BY <1>1 DEF IsHeap, Heap

(* The tree at the start, in which every search ends at rootPtr.           *)
LEMMA EmptyTreeIs ==
    /\ IsTree(EmptyTree, [n \in {RootPtr} |-> Nat], [n \in {RootPtr} |-> 0])
    /\ HoldsKeys(EmptyTree, [n \in {RootPtr} |-> Nat], {})
<1>. DEFINE h == EmptyTree
            range == [n \in {RootPtr} |-> Nat]
            height == [n \in {RootPtr} |-> 0]
<1>1. DOMAIN h = {RootPtr} /\ h[RootPtr] = NewNode(TRUE)
  BY DEF EmptyTree
<1>2. NewNode(TRUE) \in Node
  BY NewNodeType
<1>3. h[RootPtr].isLeaf /\ h[RootPtr].keys = <<>> /\ h[RootPtr].children = <<>>
  BY <1>1 DEF NewNode
<1>4. h = [n \in DOMAIN h |-> h[n]]
  BY DEF EmptyTree
<1>5. range[RootPtr] = Nat /\ height[RootPtr] = 0
      /\ range \in [{RootPtr} -> SUBSET Nat] /\ height \in [{RootPtr} -> Nat]
  OBVIOUS
<1>. HIDE DEF h, range, height
<1>6. Heap(h)
  <2>1. IsFiniteSet(DOMAIN h)
    BY <1>1, FS_Singleton
  <2>2. DOMAIN h \subseteq Nat /\ RootPtr \in DOMAIN h
    BY <1>1 DEF RootPtr
  <2>. QED
    BY <1>1, <1>2, <1>4, <2>1, <2>2 DEF Heap
<1>7. NumChild(h, RootPtr) = 0 /\ ToSet(h[RootPtr].keys) = {} /\ Ascending(h[RootPtr].keys)
  BY <1>3 DEF NumChild, ToSet, Ascending
<1>8. NodeFits(h, range, height, RootPtr) /\ Placed(h, RootPtr)
  <2>1. \A i \in 1 .. 0 : FALSE
    OBVIOUS
  <2>. QED
    BY <1>3, <1>5, <1>7, <2>1 DEF NodeFits, Placed
<1>9. \A i \in 1 .. NumChild(h, RootPtr) : ChildFits(h, range, height, RootPtr, i)
  BY <1>7
<1>10. IsTree(h, range, height)
  <2>1. range \in [DOMAIN h -> SUBSET Nat] /\ height \in [DOMAIN h -> Nat]
    BY <1>1, <1>5
  <2>2. \A n \in DOMAIN h : height[n] <= height[RootPtr]
    BY <1>1, <1>5
  <2>3. DOMAIN h \ {RootPtr} = {}
    BY <1>1
  <2>. QED
    BY <1>1, <1>3, <1>5, <1>6, <1>8, <1>9, <2>1, <2>2, <2>3 DEF IsTree
<1>11. HoldsKeys(h, range, {})
  BY <1>1, <1>7 DEF HoldsKeys
<1>. QED
  BY <1>10, <1>11 DEF h, range, height
-----------------------------------------------------------------------------
(* What debug_checkIsValid asks of a tree                                  *)

(* The nodes that x leads to: those of all sets with x and, for each node, *)
(* its children.                                                           *)
Closed(h, T) == \A y \in T : ToSet(h[y].children) \subseteq T
LedTo(h, x) == {z \in DOMAIN h : \A T \in SUBSET DOMAIN h : x \in T /\ Closed(h, T) => z \in T}

(* They fill the table that Below is defined by.                           *)
LEMMA BelowTable ==
    ASSUME NEW h, NEW range, NEW height, IsTree(h, range, height), NEW x \in DOMAIN h
    PROVE  LedTo(h, x) = {x} \cup UNION {LedTo(h, c) : c \in ToSet(h[x].children)}
<1>. DEFINE T == {x} \cup UNION {LedTo(h, c) : c \in ToSet(h[x].children)}
<1>1. \A y \in DOMAIN h : ToSet(h[y].children) \subseteq DOMAIN h
  BY OneParent
<1>2. \A y \in DOMAIN h : y \in LedTo(h, y) /\ Closed(h, LedTo(h, y))
  <2>. SUFFICES ASSUME NEW y \in DOMAIN h, NEW z \in LedTo(h, y), NEW c \in ToSet(h[z].children)
                PROVE  c \in LedTo(h, y)
    BY DEF LedTo, Closed
  <2>1. c \in DOMAIN h
    BY <1>1 DEF LedTo
  <2>2. ASSUME NEW U \in SUBSET DOMAIN h, y \in U, Closed(h, U) PROVE c \in U
    BY <2>2 DEF LedTo, Closed
  <2>. QED
    BY <2>1, <2>2 DEF LedTo
<1>3. T \subseteq DOMAIN h /\ x \in T
  BY DEF LedTo
<1>4. Closed(h, T)
  <2>. SUFFICES ASSUME NEW y \in T, NEW c \in ToSet(h[y].children) PROVE c \in T
    BY DEF Closed
  <2>1. CASE y = x
    BY <1>1, <1>2, <2>1
  <2>2. CASE y # x
    <3>1. PICK d \in ToSet(h[x].children) : y \in LedTo(h, d)
      BY <2>2
    <3>2. c \in LedTo(h, d)
      BY <1>1, <1>2, <3>1 DEF Closed
    <3>. QED
      BY <3>2
  <2>. QED
    BY <2>1, <2>2
<1>5. LedTo(h, x) \subseteq T
  <2>. HIDE DEF T
  <2>. QED
    BY <1>3, <1>4 DEF LedTo
<1>6. ASSUME NEW c \in ToSet(h[x].children) PROVE LedTo(h, c) \subseteq LedTo(h, x)
  <2>1. c \in LedTo(h, x)
    BY <1>2 DEF Closed
  <2>2. LedTo(h, x) \subseteq DOMAIN h /\ Closed(h, LedTo(h, x))
    BY <1>2 DEF LedTo
  <2>. DEFINE U == LedTo(h, x)
  <2>3. c \in U /\ U \subseteq DOMAIN h /\ Closed(h, U)
    BY <2>1, <2>2
  <2>. HIDE DEF U
  <2>4. LedTo(h, c) \subseteq U
    BY <2>3 DEF LedTo
  <2>. QED
    BY <2>4 DEF U
<1>. QED
  BY <1>2, <1>5, <1>6

(* So what is below a node are nodes.                                      *)
LEMMA BelowIs ==
    ASSUME NEW h, NEW range, NEW height, IsTree(h, range, height), NEW n \in DOMAIN h
    PROVE  Below(h, n) \subseteq DOMAIN h
<1>. DEFINE f == CHOOSE f : f = [m \in DOMAIN h |->
                                    {m} \cup UNION {f[c] : c \in ToSet(h[m].children)}]
            S == {d \in Nat : \A m \in DOMAIN h : height[m] = d => f[m] \subseteq DOMAIN h}
<1>1. Below(h, n) = f[n]
  BY DEF Below
<1>2. f = [m \in DOMAIN h |-> {m} \cup UNION {f[c] : c \in ToSet(h[m].children)}]
  <2>. DEFINE g == [m \in DOMAIN h |-> LedTo(h, m)]
  <2>1. \A m \in DOMAIN h : \A c \in ToSet(h[m].children) : g[c] = LedTo(h, c)
    BY OneParent
  <2>2. ASSUME NEW m \in DOMAIN h
        PROVE  g[m] = {m} \cup UNION {g[c] : c \in ToSet(h[m].children)}
    <3>1. g[m] = {m} \cup UNION {LedTo(h, c) : c \in ToSet(h[m].children)}
      BY BelowTable
    <3>. HIDE DEF g
    <3>2. {LedTo(h, c) : c \in ToSet(h[m].children)} = {g[c] : c \in ToSet(h[m].children)}
      BY <2>1
    <3>. QED
      BY <3>1, <3>2
  <2>3. g = [m \in DOMAIN h |-> g[m]]
    OBVIOUS
  <2>. HIDE DEF g
  <2>4. g = [m \in DOMAIN h |-> {m} \cup UNION {g[c] : c \in ToSet(h[m].children)}]
    BY <2>2, <2>3, Zenon
  <2>. QED
    BY <2>4, Zenon
<1>. HIDE DEF f
<1>3. \A m \in DOMAIN h : f[m] = {m} \cup UNION {f[c] : c \in ToSet(h[m].children)}
  BY <1>2, Zenon
<1>4. \A m \in DOMAIN h : height[m] \in Nat
  BY DEF IsTree
<1>5. ASSUME NEW m \in DOMAIN h, NEW c \in ToSet(h[m].children)
      PROVE  c \in DOMAIN h /\ height[m] = height[c] + 1
  <2>1. c \in DOMAIN h \ {RootPtr} /\ h[c].parent = m
    BY OneParent
  <2>. QED
    BY <2>1, HeightOf
<1>6. 0 \in S
  BY <1>3, <1>4, <1>5
<1>7. ASSUME NEW d \in Nat \ {0}, d - 1 \in S PROVE d \in S
  <2>. SUFFICES ASSUME NEW m \in DOMAIN h, height[m] = d, NEW c \in ToSet(h[m].children)
                PROVE  f[c] \subseteq DOMAIN h
    BY <1>3
  <2>1. c \in DOMAIN h /\ height[c] = d - 1
    BY <1>4, <1>5
  <2>. QED
    BY <1>7, <2>1
<1>. HIDE DEF S
<1>8. height[n] \in S
  <2>1. Nat \subseteq S
    BY <1>6, <1>7, EveryNumber
  <2>. QED
    BY <1>4, <2>1
<1>9. f[n] \subseteq DOMAIN h
  BY <1>8 DEF S
<1>. QED
  BY <1>1, <1>9

(* All leaves are equally far from a node above them.                      *)
LEMMA HeightsIs ==
    ASSUME NEW h, NEW range, NEW height, IsTree(h, range, height), NEW n \in DOMAIN h
    PROVE  Heights(h, n) = {height[n]}
<1>. DEFINE Of(m, g) == IF h[m].isLeaf THEN {0}
                        ELSE {d + 1 : d \in UNION {g[c] : c \in ToSet(h[m].children)}}
            f == CHOOSE f : f = [m \in DOMAIN h |->
                    IF h[m].isLeaf THEN {0}
                    ELSE {d + 1 : d \in UNION {f[c] : c \in ToSet(h[m].children)}}]
            S == {d \in Nat : \A m \in DOMAIN h : height[m] = d => f[m] = {height[m]}}
<1>1. Heights(h, n) = f[n]
  BY DEF Heights
<1>2. \A m \in DOMAIN h : height[m] \in Nat
  BY DEF IsTree
<1>3. ASSUME NEW m \in DOMAIN h, NEW c \in ToSet(h[m].children)
      PROVE  c \in DOMAIN h /\ height[m] = height[c] + 1
  <2>1. c \in DOMAIN h \ {RootPtr} /\ h[c].parent = m
    BY OneParent
  <2>. QED
    BY <2>1, HeightOf
<1>4. ASSUME NEW m \in DOMAIN h
      PROVE  /\ h[m].isLeaf => height[m] = 0
             /\ ~h[m].isLeaf => ToSet(h[m].children) # {}
  <2>1. NodeFits(h, range, height, m)
    BY DEF IsTree
  <2>2. ASSUME ~h[m].isLeaf PROVE ToSet(h[m].children) # {}
    <3>1. 1 \in 1 .. NumChild(h, m)
      <4>1. NumChild(h, m) = NumKeys(h, m) + 1 /\ NumKeys(h, m) \in Nat
        BY <2>1, <2>2, NodeType DEF IsTree, NodeFits
      <4>. QED
        BY <4>1
    <3>2. h[m].children[1] \in ToSet(h[m].children)
      BY <3>1, ChildOf
    <3>. QED
      BY <3>2
  <2>. QED
    BY <2>1, <2>2 DEF NodeFits
<1>5. ASSUME NEW m \in DOMAIN h, NEW g, \A c \in ToSet(h[m].children) : g[c] = {height[c]}
      PROVE  Of(m, g) = {height[m]}
  <2>1. CASE h[m].isLeaf
    BY <1>4, <2>1
  <2>2. CASE ~h[m].isLeaf
    <3>1. \A c \in ToSet(h[m].children) : height[c] \in Nat /\ height[c] + 1 = height[m]
      BY <1>2, <1>3
    <3>2. \A d \in UNION {g[c] : c \in ToSet(h[m].children)} : d + 1 = height[m]
      BY <1>5, <3>1
    <3>3. UNION {g[c] : c \in ToSet(h[m].children)} # {}
      BY <1>4, <1>5, <2>2
    <3>4. {d + 1 : d \in UNION {g[c] : c \in ToSet(h[m].children)}} = {height[m]}
      BY <3>2, <3>3
    <3>. QED
      BY <2>2, <3>4
  <2>. QED
    BY <2>1, <2>2
<1>6. \A m \in DOMAIN h : f[m] = Of(m, f)
  <2>. DEFINE g == [m \in DOMAIN h |-> {height[m]}]
  <2>1. \A m \in DOMAIN h : g[m] = Of(m, g)
    <3>1. \A m \in DOMAIN h : \A c \in ToSet(h[m].children) : g[c] = {height[c]}
      BY <1>3
    <3>2. \A m \in DOMAIN h : g[m] = {height[m]}
      OBVIOUS
    <3>. HIDE DEF g, Of
    <3>. QED
      BY <1>5, <3>1, <3>2
  <2>2. g = [m \in DOMAIN h |-> g[m]]
    OBVIOUS
  <2>. HIDE DEF g
  <2>3. g = [m \in DOMAIN h |-> IF h[m].isLeaf THEN {0}
                ELSE {d + 1 : d \in UNION {g[c] : c \in ToSet(h[m].children)}}]
    BY <2>1, <2>2, Zenon
  <2>4. f = [m \in DOMAIN h |-> IF h[m].isLeaf THEN {0}
                ELSE {d + 1 : d \in UNION {f[c] : c \in ToSet(h[m].children)}}]
    BY <2>3, Zenon
  <2>. HIDE DEF f
  <2>. QED
    BY <2>4, Zenon
<1>. HIDE DEF f, Of
<1>7. 0 \in S
  <2>. SUFFICES ASSUME NEW m \in DOMAIN h, height[m] = 0 PROVE f[m] = {height[m]}
    OBVIOUS
  <2>1. \A c \in ToSet(h[m].children) : FALSE
    BY <1>2, <1>3
  <2>. QED
    BY <1>5, <1>6, <2>1
<1>8. ASSUME NEW d \in Nat \ {0}, d - 1 \in S PROVE d \in S
  <2>. SUFFICES ASSUME NEW m \in DOMAIN h, height[m] = d PROVE f[m] = {height[m]}
    OBVIOUS
  <2>1. \A c \in ToSet(h[m].children) : c \in DOMAIN h /\ height[c] = d - 1
    BY <1>2, <1>3
  <2>2. \A c \in ToSet(h[m].children) : f[c] = {height[c]}
    BY <1>8, <2>1
  <2>. QED
    BY <1>5, <1>6, <2>2
<1>. HIDE DEF S
<1>9. height[n] \in S
  <2>1. Nat \subseteq S
    BY <1>7, <1>8, EveryNumber
  <2>. QED
    BY <1>2, <2>1
<1>10. f[n] = {height[n]}
  BY <1>9 DEF S
<1>. QED
  BY <1>1, <1>10
(* So the levels are linked from left to right.                            *)
LEMMA LevelsAreLinked ==
    ASSUME NEW h, NEW range, NEW height, IsTree(h, range, height), Woven(h, height)
    PROVE  LevelsLinked(h)
<1>1. RootPtr \in DOMAIN h
  BY DEF IsTree, Heap
<1>2. Below(h, RootPtr) \subseteq DOMAIN h
  BY <1>1, BelowIs
<1>3. ASSUME NEW n \in DOMAIN h, h[n].next # Null, NEW i \in 1 .. NumChild(h, n)
      PROVE  Head(h[h[n].next].children) = h[h[n].next].children[1]
  <2>. DEFINE m == h[n].next
  <2>1. m \in DOMAIN h /\ height[m] = height[n]
    BY <1>3 DEF Woven, NextFits
  <2>2. height[n] = height[h[n].children[i]] + 1 /\ h[n].children[i] \in DOMAIN h
    BY ChildOf
  <2>3. height[m] # 0
    BY <2>1, <2>2 DEF IsTree
  <2>. HIDE DEF m
  <2>4. NumChild(h, m) = NumKeys(h, m) + 1
    BY <2>1, <2>3 DEF IsTree, NodeFits
  <2>5. h[m].children \in Seq(Nat) /\ h[m].children # <<>>
    BY <2>1, <2>4, NodeType DEF IsTree
  <2>6. Head(h[m].children) = h[m].children[1]
    BY <2>5
  <2>. QED
    BY <2>6 DEF m
<1>4. ASSUME NEW n \in DOMAIN h, NEW i \in 1 .. NumChild(h, n)
      PROVE  LET c == h[n].children[i]
             IN /\ c \in DOMAIN h
                /\ h[c].next = NextChild(h, n, i)
                /\ h[c].next # Null => h[h[c].next].prev = c
  <2>. DEFINE c == h[n].children[i]
  <2>1. c \in DOMAIN h
    BY ChildOf
  <2>2. h[c].next = NextChild(h, n, i)
    BY DEF Woven
  <2>3. NextFits(h, height, c)
    BY <2>1 DEF Woven
  <2>. QED
    BY <2>1, <2>2, <2>3 DEF NextFits
<1>. QED
  BY <1>2, <1>3, <1>4 DEF LevelsLinked, NextChild

(* And there are as many keys in it as it holds.                           *)
LEMMA AsManyKeys ==
    ASSUME NEW h, NEW range, NEW height, IsTree(h, range, height),
           NEW K, K \subseteq Nat, HoldsKeys(h, range, K)
    PROVE  Len(InOrder(h, RootPtr)) = Cardinality(K)
<1>. DEFINE s == InOrder(h, RootPtr)
            f == [i \in 1 .. Len(s) |-> s[i]]
<1>1. RootPtr \in DOMAIN h /\ range[RootPtr] = Nat
  BY DEF IsTree, Heap
<1>2. Lists(s, range, RootPtr, K)
  BY <1>1, InOrderIs
<1>. HIDE DEF s
<1>3. s \in Seq(Nat) /\ Len(s) \in Nat /\ Ascending(s) /\ \A x : x \in ToSet(s) <=> x \in K
  BY <1>1, <1>2 DEF Lists
<1>4. \A i \in 1 .. Len(s) : s[i] \in Nat /\ s[i] \in K
  BY <1>3, SetOf
<1>5. \A x \in K : \E i \in 1 .. Len(s) : s[i] = x
  BY <1>3, SetOf
<1>6. ASSUME NEW i \in 1 .. Len(s), NEW j \in 1 .. Len(s), s[i] = s[j] PROVE i = j
  <2>1. ~(i < j) /\ ~(j < i)
    BY <1>3, <1>4, <1>6 DEF Ascending
  <2>. QED
    BY <1>3, <2>1
<1>7. f \in Bijection(1 .. Len(s), K)
  <2>1. f \in [1 .. Len(s) -> K] /\ \A i \in 1 .. Len(s) : f[i] = s[i]
    BY <1>4
  <2>. HIDE DEF f
  <2>2. \A i, j \in 1 .. Len(s) : f[i] = f[j] => i = j
    BY <1>6, <2>1
  <2>3. \A x \in K : \E i \in 1 .. Len(s) : f[i] = x
    BY <1>5, <2>1
  <2>. QED
    BY <2>1, <2>2, <2>3, Zenon DEF Bijection, Injection, Surjection, IsInjective
<1>8. Cardinality(K) = Len(s)
  BY <1>3, <1>7, FS_CountingElements DEF ExistsBijection
<1>. QED
  BY <1>8 DEF s

(* A tree with neat levels passes the checks of debug_checkIsValid.        *)
THEOREM TreeIsValid ==
    ASSUME NEW h, NEW range, NEW height, IsTree(h, range, height),
           NEW K, K \subseteq Nat, HoldsKeys(h, range, K),
           NEW order \in Nat, Neat(h, height, order)
    PROVE  /\ Len(InOrder(h, RootPtr)) = Cardinality(K)
           /\ ParentsFit(h) /\ LevelsLinked(h)
           /\ \A n \in Below(h, RootPtr) \ {RootPtr} :
                 ~h[n].isLeaf => CountsFit(h, n, order)
           /\ Cardinality(Heights(h, RootPtr)) = 1
<1>1. RootPtr \in DOMAIN h
  BY DEF IsTree, Heap
<1>2. Below(h, RootPtr) \subseteq DOMAIN h
  BY <1>1, BelowIs
<1>3. Len(InOrder(h, RootPtr)) = Cardinality(K)
  BY AsManyKeys
<1>4. ParentsFit(h)
  BY <1>2 DEF ParentsFit, IsTree, Placed
<1>5. LevelsLinked(h)
  BY LevelsAreLinked DEF Neat
<1>6. ASSUME NEW n \in DOMAIN h \ {RootPtr}, ~h[n].isLeaf PROVE CountsFit(h, n, order)
  <2>1. NumKeys(h, n) \in 1 .. order - 1
    BY <1>6 DEF Neat, Wide
  <2>2. NumChild(h, n) = NumKeys(h, n) + 1
    BY <1>6 DEF IsTree, NodeFits
  <2>. QED
    BY <2>1, <2>2 DEF CountsFit
<1>7. Cardinality(Heights(h, RootPtr)) = 1
  <2>1. Heights(h, RootPtr) = {height[RootPtr]}
    BY <1>1, HeightsIs
  <2>. QED
    BY <2>1, FS_Singleton, Zenon
<1>. QED
  BY <1>2, <1>3, <1>4, <1>5, <1>6, <1>7

(* No level of the empty tree has anything to link or to count.            *)
LEMMA EmptyTreeIsNeat ==
    ASSUME NEW order
    PROVE  Neat(EmptyTree, [n \in {RootPtr} |-> 0], order)
<1>. DEFINE h == EmptyTree
            height == [n \in {RootPtr} |-> 0]
<1>1. DOMAIN h = {RootPtr} /\ h[RootPtr].next = Null /\ h[RootPtr].children = <<>>
  BY DEF EmptyTree, NewNode
<1>. HIDE DEF h, height
<1>2. NumChild(h, RootPtr) = 0
  BY <1>1 DEF NumChild
<1>3. \A i \in 1 .. 0 : FALSE
  OBVIOUS
<1>4. Woven(h, height)
  BY <1>1, <1>2, <1>3 DEF Woven, NextFits
<1>5. Wide(h, order, RootPtr)
  BY <1>1 DEF Wide
<1>. QED
  BY <1>4, <1>5 DEF Neat, h, height
=============================================================================
