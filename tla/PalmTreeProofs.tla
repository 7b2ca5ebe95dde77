--------------------------- MODULE PalmTreeProofs ---------------------------
(***************************************************************************)
(* Whatever the order and however large the tree: if no key is there twice,*)
(* the stages of the PALM tree keep the contents, every key is where the   *)
(* search for it leads, and the pointers that repair follows are right.    *)
(***************************************************************************)
EXTENDS PalmTree, NeighbourProofs, TLAPS
-----------------------------------------------------------------------------
(* The copies of a key, request by request                                 *)

(* The table that CopiesDuring fills in.                                   *)
IsCopies(f, c, reqs, k, n) ==
    f = [i \in 0 .. n |-> IF i = 0 THEN c
                         ELSE LET t == f[i - 1] IN CASE reqs[i].key # k -> t
                            [] reqs[i].key = k /\ reqs[i].op = "INSERT" -> t + 1
                            [] OTHER -> IF t = 0 THEN 0 ELSE t - 1]

(* There is such a table.                                                  *)
LEMMA CopiesTableExists ==
    ASSUME NEW c, NEW reqs, NEW k, NEW n \in Nat
    PROVE  \E f : IsCopies(f, c, reqs, k, n)
<1>. DEFINE On(i, t) == CASE reqs[i].key # k -> t
                            [] reqs[i].key = k /\ reqs[i].op = "INSERT" -> t + 1
                            [] OTHER -> IF t = 0 THEN 0 ELSE t - 1
            S == {m \in Nat : \E f : IsCopies(f, c, reqs, k, m)}
<1>1. 0 \in S
  <2>. DEFINE f == [i \in 0 .. 0 |-> c]
  <2>1. \A i \in 0 .. 0 : i = 0
    OBVIOUS
  <2>2. IsCopies(f, c, reqs, k, 0)
    BY <2>1 DEF IsCopies
  <2>. QED
    BY <2>2
<1>2. ASSUME NEW m \in Nat \ {0}, m - 1 \in S PROVE m \in S
  <2>1. PICK f : IsCopies(f, c, reqs, k, m - 1)
    BY <1>2
  <2>2. \A i \in 0 .. (m - 1) : f[i] = IF i = 0 THEN c ELSE On(i, f[i - 1])
    BY <2>1 DEF IsCopies
  <2>. HIDE DEF On
  <2>. DEFINE g == [i \in 0 .. m |-> IF i < m THEN f[i] ELSE On(m, f[m - 1])]
  <2>3. \A i \in 0 .. m : g[i] = IF i = 0 THEN c ELSE On(i, g[i - 1])
    <3>. SUFFICES ASSUME NEW i \in 0 .. m
                  PROVE  g[i] = IF i = 0 THEN c ELSE On(i, g[i - 1])
      OBVIOUS
    <3>1. CASE i < m
      <4>1. i \in 0 .. (m - 1) /\ g[i] = f[i] /\ (i # 0 => i - 1 \in 0 .. m /\ i - 1 < m)
        BY <3>1
      <4>2. i # 0 => g[i - 1] = f[i - 1]
        BY <4>1
      <4>. QED
        BY <2>2, <4>1, <4>2
    <3>2. CASE i = m
      <4>1. m - 1 \in 0 .. m /\ m - 1 < m /\ m # 0
        OBVIOUS
      <4>2. g[m - 1] = f[m - 1] /\ g[m] = On(m, f[m - 1])
        BY <4>1
      <4>. QED
        BY <3>2, <4>1, <4>2
    <3>. QED
      BY <3>1, <3>2
  <2>4. g = [i \in 0 .. m |-> g[i]]
    OBVIOUS
  <2>. HIDE DEF g
  <2>5. g = [i \in 0 .. m |-> IF i = 0 THEN c ELSE On(i, g[i - 1])]
    BY <2>3, <2>4
  <2>6. IsCopies(g, c, reqs, k, m)
    BY <2>5 DEF IsCopies, On
  <2>. QED
    BY <2>6
<1>. HIDE DEF S
<1>3. Nat \subseteq S
  BY <1>1, <1>2, EveryNumber
<1>. QED
  BY <1>3 DEF S
(* So each number of copies follows from the one before.                   *)
LEMMA CopiesAre ==
    ASSUME NEW c, NEW reqs, NEW k, Len(reqs) \in Nat
    PROVE  LET f == CopiesDuring(c, reqs, k)
           IN /\ f[0] = c
              /\ \A i \in 1 .. Len(reqs) :
                    /\ reqs[i].key # k => f[i] = f[i - 1]
                    /\ reqs[i].key = k /\ reqs[i].op = "INSERT" => f[i] = f[i - 1] + 1
                    /\ reqs[i].key = k /\ reqs[i].op # "INSERT" =>
                          f[i] = IF f[i - 1] = 0 THEN 0 ELSE f[i - 1] - 1
<1>. DEFINE f == CopiesDuring(c, reqs, k)
<1>1. IsCopies(f, c, reqs, k, Len(reqs))
  <2>1. PICK g : IsCopies(g, c, reqs, k, Len(reqs))
    BY CopiesTableExists
  <2>. QED
    BY <2>1, Zenon DEF IsCopies, CopiesDuring
<1>. HIDE DEF f
<1>2. f[0] = c
  BY <1>1 DEF IsCopies
<1>3. ASSUME NEW i \in 1 .. Len(reqs)
      PROVE  f[i] = CASE reqs[i].key # k -> f[i - 1]
                      [] reqs[i].key = k /\ reqs[i].op = "INSERT" -> f[i - 1] + 1
                      [] OTHER -> IF f[i - 1] = 0 THEN 0 ELSE f[i - 1] - 1
  <2>1. i \in 0 .. Len(reqs) /\ i # 0
    OBVIOUS
  <2>. QED
    BY <1>1, <2>1 DEF IsCopies
<1>4. ASSUME NEW i \in 1 .. Len(reqs)
      PROVE  /\ reqs[i].key # k => f[i] = f[i - 1]
             /\ reqs[i].key = k /\ reqs[i].op = "INSERT" => f[i] = f[i - 1] + 1
             /\ reqs[i].key = k /\ reqs[i].op # "INSERT" =>
                   f[i] = IF f[i - 1] = 0 THEN 0 ELSE f[i - 1] - 1
  <2>. DEFINE a == reqs[i].key = k
              b == reqs[i].op = "INSERT"
              x == f[i - 1]
              y == IF f[i - 1] = 0 THEN 0 ELSE f[i - 1] - 1
  <2>1. f[i] = CASE ~a -> x [] a /\ b -> x + 1 [] OTHER -> y
    BY <1>3
  <2>. HIDE DEF a, b, x, y
  <2>2. ~a => f[i] = x
    BY <2>1
  <2>3. a /\ b => f[i] = x + 1
    BY <2>1
  <2>4. a /\ ~b => f[i] = y
    BY <2>1
  <2>. QED
    BY <2>2, <2>3, <2>4 DEF a, b, x, y
<1>. QED
  BY <1>2, <1>4 DEF f
-----------------------------------------------------------------------------
(* The keys of a leaf, request by request                                  *)

(* A key that leaves ascending ones.                                       *)
LEMMA KeyRemoved ==
    ASSUME NEW s \in Seq(Nat), Ascending(s), NEW k \in Nat
    PROVE  /\ RemoveFromLeaf(s, k) \in Seq(Nat)
           /\ Ascending(RemoveFromLeaf(s, k))
           /\ ToSet(RemoveFromLeaf(s, k)) = ToSet(s) \ {k}
<1>1. CASE ~Contains(s, k)
  <2>1. k \notin ToSet(s)
    BY <1>1, ContainsIsIn
  <2>. QED
    BY <1>1, <2>1 DEF RemoveFromLeaf
<1>2. CASE Contains(s, k)
  <2>1. PICK i \in 1 .. Len(s) : s[i] = k
    BY <1>2, ContainsIsIn, SetOf
  <2>2. Different(s)
    <3>. SUFFICES ASSUME NEW a \in 1 .. Len(s), NEW b \in 1 .. Len(s), s[a] = s[b] PROVE a = b
      BY DEF Different
    <3>1. s[a] \in Nat /\ s[b] \in Nat
      OBVIOUS
    <3>2. ~(a < b) /\ ~(b < a)
      BY <3>1 DEF Ascending
    <3>. QED
      BY <3>2
  <2>3. RemoveFromLeaf(s, k) = RemoveAt(s, i)
    BY <1>2, <2>1, <2>2, PositionOf DEF RemoveFromLeaf
  <2>. DEFINE r == RemoveAt(s, i)
  <2>4. IsRemoved(r, s, i)
    BY Removed
  <2>5. ToSet(r) = ToSet(s) \ {k}
    BY <2>1, <2>2, RemovedDifferent
  <2>. HIDE DEF r
  <2>6. r \in Seq(Nat) /\ Len(r) = Len(s) - 1
        /\ \A j \in 1 .. Len(s) - 1 : r[j] = IF j < i THEN s[j] ELSE s[j + 1]
    BY <2>4 DEF IsRemoved
  <2>7. ASSUME NEW a \in 1 .. Len(r), NEW b \in 1 .. Len(r), a < b PROVE r[a] < r[b]
    <3>1. /\ a \in 1 .. Len(s) - 1 /\ b \in 1 .. Len(s) - 1 /\ a \in 1 .. Len(s) /\ b \in 1 .. Len(s)
          /\ a + 1 \in 1 .. Len(s) /\ b + 1 \in 1 .. Len(s) /\ Len(s) \in Nat
      BY <2>6, <2>7
    <3>2. r[a] = (IF a < i THEN s[a] ELSE s[a + 1]) /\ r[b] = (IF b < i THEN s[b] ELSE s[b + 1])
      BY <2>6, <3>1
    <3>3. CASE b < i
      BY <2>7, <3>1, <3>2, <3>3 DEF Ascending
    <3>4. CASE ~(b < i)
      <4>1. a < b + 1 /\ a + 1 < b + 1
        BY <2>7, <3>1
      <4>. QED
        BY <3>1, <3>2, <3>4, <4>1 DEF Ascending
    <3>. QED
      BY <3>3, <3>4
  <2>8. Ascending(r)
    BY <2>7 DEF Ascending
  <2>. QED
    BY <2>3, <2>5, <2>6, <2>8 DEF r
<1>. QED
  BY <1>1, <1>2

(* The table that Apply fills in.                                          *)
IsApplied(f, keys, reqs, n) ==
    f = [i \in 0 .. n |-> IF i = 0 THEN keys
                         ELSE LET t == f[i - 1] IN IF reqs[i].op = "INSERT" THEN InsertKeyToLeaf(t, reqs[i].key)
                            ELSE RemoveFromLeaf(t, reqs[i].key)]

(* There is such a table.                                                  *)
LEMMA AppliedTableExists ==
    ASSUME NEW keys, NEW reqs, NEW n \in Nat
    PROVE  \E f : IsApplied(f, keys, reqs, n)
<1>. DEFINE On(i, t) == IF reqs[i].op = "INSERT" THEN InsertKeyToLeaf(t, reqs[i].key)
                            ELSE RemoveFromLeaf(t, reqs[i].key)
            S == {m \in Nat : \E f : IsApplied(f, keys, reqs, m)}
<1>1. 0 \in S
  <2>. DEFINE f == [i \in 0 .. 0 |-> keys]
  <2>1. \A i \in 0 .. 0 : i = 0
    OBVIOUS
  <2>2. IsApplied(f, keys, reqs, 0)
    BY <2>1 DEF IsApplied
  <2>. QED
    BY <2>2
<1>2. ASSUME NEW m \in Nat \ {0}, m - 1 \in S PROVE m \in S
  <2>1. PICK f : IsApplied(f, keys, reqs, m - 1)
    BY <1>2
  <2>2. \A i \in 0 .. (m - 1) : f[i] = IF i = 0 THEN keys ELSE On(i, f[i - 1])
    BY <2>1 DEF IsApplied
  <2>. HIDE DEF On
  <2>. DEFINE g == [i \in 0 .. m |-> IF i < m THEN f[i] ELSE On(m, f[m - 1])]
  <2>3. \A i \in 0 .. m : g[i] = IF i = 0 THEN keys ELSE On(i, g[i - 1])
    <3>. SUFFICES ASSUME NEW i \in 0 .. m
                  PROVE  g[i] = IF i = 0 THEN keys ELSE On(i, g[i - 1])
      OBVIOUS
    <3>1. CASE i < m
      <4>1. i \in 0 .. (m - 1) /\ g[i] = f[i] /\ (i # 0 => i - 1 \in 0 .. m /\ i - 1 < m)
        BY <3>1
      <4>2. i # 0 => g[i - 1] = f[i - 1]
        BY <4>1
      <4>. QED
        BY <2>2, <4>1, <4>2
    <3>2. CASE i = m
      <4>1. m - 1 \in 0 .. m /\ m - 1 < m /\ m # 0
        OBVIOUS
      <4>2. g[m - 1] = f[m - 1] /\ g[m] = On(m, f[m - 1])
        BY <4>1
      <4>. QED
        BY <3>2, <4>1, <4>2
    <3>. QED
      BY <3>1, <3>2
  <2>4. g = [i \in 0 .. m |-> g[i]]
    OBVIOUS
  <2>. HIDE DEF g
  <2>5. g = [i \in 0 .. m |-> IF i = 0 THEN keys ELSE On(i, g[i - 1])]
    BY <2>3, <2>4
  <2>6. IsApplied(g, keys, reqs, m)
    BY <2>5 DEF IsApplied, On
  <2>. QED
    BY <2>6
<1>. HIDE DEF S
<1>3. Nat \subseteq S
  BY <1>1, <1>2, EveryNumber
<1>. QED
  BY <1>3 DEF S

(* So do the keys of each request from those before.                       *)
LEMMA ApplyIs ==
    ASSUME NEW keys, NEW reqs, Len(reqs) \in Nat
    PROVE  \E f : /\ f[0] = keys /\ f[Len(reqs)] = Apply(keys, reqs)
                  /\ \A i \in 1 .. Len(reqs) :
                        f[i] = IF reqs[i].op = "INSERT" THEN InsertKeyToLeaf(f[i - 1], reqs[i].key)
                               ELSE RemoveFromLeaf(f[i - 1], reqs[i].key)
<1>. DEFINE f == CHOOSE f : f = [i \in 0 .. Len(reqs) |->
                    IF i = 0 THEN keys
                    ELSE IF reqs[i].op = "INSERT" THEN InsertKeyToLeaf(f[i - 1], reqs[i].key)
                         ELSE RemoveFromLeaf(f[i - 1], reqs[i].key)]
<1>1. Apply(keys, reqs) = f[Len(reqs)]
  BY DEF Apply
<1>2. IsApplied(f, keys, reqs, Len(reqs))
  <2>1. PICK g : IsApplied(g, keys, reqs, Len(reqs))
    BY AppliedTableExists
  <2>. QED
    BY <2>1 DEF IsApplied
<1>. HIDE DEF f
<1>3. f[0] = keys
  BY <1>2 DEF IsApplied
<1>4. ASSUME NEW i \in 1 .. Len(reqs)
      PROVE  f[i] = IF reqs[i].op = "INSERT" THEN InsertKeyToLeaf(f[i - 1], reqs[i].key)
                    ELSE RemoveFromLeaf(f[i - 1], reqs[i].key)
  <2>1. i \in 0 .. Len(reqs) /\ i # 0
    OBVIOUS
  <2>. QED
    BY <1>2, <2>1 DEF IsApplied
<1>. QED
  BY <1>1, <1>3, <1>4

(* The copies that a client expects after the requests.                    *)
CopiesThen(c, reqs) == [k \in Keys |-> CopiesAfter(c[k], reqs, k)]

(* The keys ks are what there is of S in d, and all else is as in c.       *)
AppliedTo(ks, S, c, d) ==
    /\ ks \in Seq(Nat) /\ Ascending(ks) /\ ToSet(ks) = S \cap OnesOf(d)
    /\ d \in [Keys -> 0 .. 1] /\ \A k \in Keys \ S : d[k] = c[k]

(* Requests for keys of S that never make two copies of a key: a leaf that *)
(* had what there was of S has what the client expects of it.              *)
LEMMA Applied ==
    ASSUME NEW s \in Seq(Nat), Ascending(s), NEW reqs \in Seq(Ops), NEW S,
           NEW c \in [Keys -> 0 .. 1], ToSet(s) = S \cap OnesOf(c),
           \A i \in 1 .. Len(reqs) : reqs[i].key \in S,
           \A k \in Keys \cap S : \A i \in 1 .. Len(reqs) : CopiesDuring(c[k], reqs, k)[i] <= 1,
           NEW d, d = CopiesThen(c, reqs)
    PROVE  AppliedTo(Apply(s, reqs), S, c, d)
<1>. DEFINE n == Len(reqs)
            Copies(k, i) == CopiesDuring(c[k], reqs, k)[i]
<1>1. Keys \subseteq Nat
  BY BoundAssumption
<1>2. n \in Nat /\ \A i \in 1 .. n : reqs[i] \in Ops
  OBVIOUS
<1>3. \A i \in 1 .. n : reqs[i].key \in Keys /\ reqs[i].key \in S
  BY <1>2 DEF Ops
<1>4. PICK f : /\ f[0] = s /\ f[n] = Apply(s, reqs)
               /\ \A i \in 1 .. n :
                     f[i] = IF reqs[i].op = "INSERT" THEN InsertKeyToLeaf(f[i - 1], reqs[i].key)
                            ELSE RemoveFromLeaf(f[i - 1], reqs[i].key)
  BY <1>2, ApplyIs
<1>5. ASSUME NEW k \in Keys
      PROVE  /\ Copies(k, 0) = c[k]
             /\ \A i \in 1 .. n :
                   /\ k \in S => Copies(k, i) <= 1
                   /\ reqs[i].key # k => Copies(k, i) = Copies(k, i - 1)
                   /\ reqs[i].key = k /\ reqs[i].op = "INSERT" => Copies(k, i) = Copies(k, i - 1) + 1
                   /\ reqs[i].key = k /\ reqs[i].op # "INSERT" =>
                         Copies(k, i) = IF Copies(k, i - 1) = 0 THEN 0 ELSE Copies(k, i - 1) - 1
  BY <1>2, CopiesAre
<1>6. \A k \in Keys : d[k] = Copies(k, n)
  BY DEF CopiesThen, CopiesAfter
<1>. HIDE DEF n, Copies
<1>. DEFINE Right(i) == /\ f[i] \in Seq(Nat) /\ Ascending(f[i])
                        /\ \A k : k \in ToSet(f[i]) <=> k \in S /\ k \in Keys /\ Copies(k, i) = 1
                        /\ \A k \in Keys : Copies(k, i) \in 0 .. 1
                        /\ \A k \in Keys \ S : Copies(k, i) = c[k]
            T == {i \in Nat : i <= n => Right(i)}
<1>7. 0 \in T
  <2>1. \A k : k \in ToSet(f[0]) <=> k \in S /\ k \in Keys /\ Copies(k, 0) = 1
    BY <1>4, <1>5 DEF OnesOf
  <2>. QED
    BY <1>4, <1>5, <2>1
<1>8. ASSUME NEW i \in Nat \ {0}, i - 1 \in T PROVE i \in T
  <2>. SUFFICES ASSUME i <= n PROVE Right(i)
    BY <1>8
  <2>1. i \in 1 .. n /\ i - 1 \in Nat /\ i - 1 <= n
    BY <1>2
  <2>. DEFINE j == i - 1
              e == reqs[i].key
  <2>2. Right(j)
    BY <1>8, <2>1
  <2>3. /\ f[j] \in Seq(Nat) /\ Ascending(f[j])
        /\ \A k : k \in ToSet(f[j]) <=> k \in S /\ k \in Keys /\ Copies(k, j) = 1
        /\ \A k \in Keys : Copies(k, j) \in 0 .. 1
        /\ \A k \in Keys \ S : Copies(k, j) = c[k]
    BY <2>2
  <2>4. e \in Keys /\ e \in S /\ e \in Nat
    BY <1>1, <1>3, <2>1
  <2>5. \A k \in Keys :
           /\ k \in S => Copies(k, i) <= 1
           /\ e # k => Copies(k, i) = Copies(k, j)
           /\ e = k /\ reqs[i].op = "INSERT" => Copies(k, i) = Copies(k, j) + 1
           /\ e = k /\ reqs[i].op # "INSERT" =>
                 Copies(k, i) = IF Copies(k, j) = 0 THEN 0 ELSE Copies(k, j) - 1
    BY <1>5, <2>1
  <2>6. f[i] = IF reqs[i].op = "INSERT" THEN InsertKeyToLeaf(f[j], e) ELSE RemoveFromLeaf(f[j], e)
    BY <1>4, <2>1
  <2>. HIDE DEF j, e
  <2>7. CASE reqs[i].op = "INSERT"
    <3>1. Copies(e, i) = Copies(e, j) + 1 /\ Copies(e, i) <= 1 /\ Copies(e, j) \in 0 .. 1
      BY <2>3, <2>4, <2>5, <2>7
    <3>2. Copies(e, j) = 0 /\ Copies(e, i) = 1
      BY <3>1
    <3>3. e \notin ToSet(f[j])
      BY <2>3, <3>2
    <3>4. f[i] \in Seq(Nat) /\ Ascending(f[i]) /\ ToSet(f[i]) = ToSet(f[j]) \cup {e}
      BY <2>3, <2>4, <2>6, <2>7, <3>3, KeyInserted
    <3>5. \A k \in Keys : k # e => Copies(k, i) = Copies(k, j)
      BY <2>5
    <3>6. ASSUME NEW k PROVE k \in ToSet(f[i]) <=> k \in S /\ k \in Keys /\ Copies(k, i) = 1
      <4>1. CASE k = e
        BY <2>4, <3>2, <3>4, <4>1
      <4>2. CASE k # e
        BY <2>3, <3>4, <3>5, <4>2
      <4>. QED
        BY <4>1, <4>2
    <3>7. ASSUME NEW k \in Keys PROVE Copies(k, i) \in 0 .. 1
      <4>1. CASE k = e
        BY <3>2, <4>1
      <4>2. CASE k # e
        BY <2>3, <3>5, <4>2
      <4>. QED
        BY <4>1, <4>2
    <3>8. ASSUME NEW k \in Keys \ S PROVE Copies(k, i) = c[k]
      <4>1. k # e
        BY <2>4
      <4>. QED
        BY <2>3, <3>5, <4>1
    <3>. QED
      BY <3>4, <3>6, <3>7, <3>8
  <2>8. CASE reqs[i].op # "INSERT"
    <3>1. Copies(e, i) = (IF Copies(e, j) = 0 THEN 0 ELSE Copies(e, j) - 1) /\ Copies(e, j) \in 0 .. 1
      BY <2>3, <2>4, <2>5, <2>8
    <3>2. Copies(e, i) = 0
      BY <3>1
    <3>3. f[i] \in Seq(Nat) /\ Ascending(f[i]) /\ ToSet(f[i]) = ToSet(f[j]) \ {e}
      BY <2>3, <2>4, <2>6, <2>8, KeyRemoved
    <3>5. \A k \in Keys : k # e => Copies(k, i) = Copies(k, j)
      BY <2>5
    <3>6. ASSUME NEW k PROVE k \in ToSet(f[i]) <=> k \in S /\ k \in Keys /\ Copies(k, i) = 1
      <4>1. CASE k = e
        BY <2>4, <3>2, <3>3, <4>1
      <4>2. CASE k # e
        BY <2>3, <3>3, <3>5, <4>2
      <4>. QED
        BY <4>1, <4>2
    <3>7. ASSUME NEW k \in Keys PROVE Copies(k, i) \in 0 .. 1
      <4>1. CASE k = e
        BY <3>2, <4>1
      <4>2. CASE k # e
        BY <2>3, <3>5, <4>2
      <4>. QED
        BY <4>1, <4>2
    <3>8. ASSUME NEW k \in Keys \ S PROVE Copies(k, i) = c[k]
      <4>1. k # e
        BY <2>4
      <4>. QED
        BY <2>3, <3>5, <4>1
    <3>. QED
      BY <3>3, <3>6, <3>7, <3>8
  <2>. QED
    BY <2>7, <2>8
<1>. HIDE DEF T
<1>9. Nat \subseteq T
  BY <1>7, <1>8, EveryNumber
<1>10. Right(n)
  <2>1. n \in T /\ n <= n
    BY <1>2, <1>9
  <2>. QED
    BY <2>1 DEF T
<1>11. d \in [Keys -> 0 .. 1]
  <2>1. d = [k \in Keys |-> d[k]]
    BY DEF CopiesThen
  <2>. QED
    BY <1>6, <1>10, <2>1
<1>12. ToSet(Apply(s, reqs)) = S \cap OnesOf(d)
  BY <1>4, <1>6, <1>10, <1>11 DEF OnesOf
<1>. QED
  BY <1>4, <1>6, <1>10, <1>11, <1>12 DEF AppliedTo
-----------------------------------------------------------------------------
(* The children of a node are repaired                                     *)

OrderFits == order \in Nat /\ order >= 3

(* A tree with the keys K that has come out of h0 while node was repaired. *)
Sound(h0, height0, node, K, h) ==
    \E R, H : Intact(h, R, H, K) /\ Kept(h0, height0, h, H, height0[node])

(* In it, c is node's child number i of n, from 0.                         *)
Stands(h0, height0, node, K, h, c, i, n) ==
    /\ Sound(h0, height0, node, K, h)
    /\ c \in DOMAIN h \ {RootPtr} /\ h[c].parent = node /\ h[c].childIndex = i
    /\ NumChild(h, node) = n

(* A node of a tree that is to be repaired.                                *)
Given(h0, range0, height0, node) ==
    IsTree(h0, range0, height0) /\ node \in DOMAIN h0 \ {RootPtr}

(* One more move.                                                          *)
LEMMA StillSound ==
    ASSUME NEW h0, NEW range0, NEW height0, NEW node, Given(h0, range0, height0, node),
           NEW K, NEW h, NEW R, NEW H, Kept(h0, height0, h, H, height0[node]),
           NEW d, d = 0 \/ d = H[node],
           NEW g, NEW S, NEW I, Intact(g, S, I, K), Kept(h, H, g, I, d)
    PROVE  Sound(h0, height0, node, K, g)
<1>1. height0 \in [DOMAIN h0 -> Nat] /\ node \in DOMAIN h0
  BY DEF Given, IsTree
<1>2. node \in DOMAIN h /\ H[node] = height0[node]
  BY <1>1 DEF Kept
<1>3. ASSUME NEW x \in DOMAIN h0, height0[x] >= height0[node]
      PROVE  x \in DOMAIN g /\ I[x] = height0[x]
  <2>1. x \in DOMAIN h /\ H[x] = height0[x]
    BY <1>3 DEF Kept
  <2>2. H[x] >= d
    BY <1>1, <1>2, <1>3, <2>1
  <2>. QED
    BY <2>1, <2>2 DEF Kept
<1>. QED
  BY <1>3 DEF Sound, Kept

(* The place of a child, and its neighbours below the same parent.         *)
LEMMA Neighbours ==
    ASSUME NEW h, NEW range, NEW height, NEW K, Intact(h, range, height, K),
           NEW c \in DOMAIN h \ {RootPtr}, NEW p, p = h[c].parent, NEW i, i = h[c].childIndex
    PROVE  /\ p \in DOMAIN h /\ NumKeys(h, p) \in Nat /\ NumChild(h, p) = NumKeys(h, p) + 1
           /\ i \in 0 .. NumKeys(h, p)
           /\ i < NumKeys(h, p) =>
                 Siblings(h, c, h[c].next) /\ h[h[c].next].parent = p /\ h[h[c].next].childIndex = i + 1
           /\ i > 0 =>
                 Siblings(h, h[c].prev, c) /\ h[h[c].prev].parent = p /\ h[h[c].prev].childIndex = i - 1
<1>1. IsTree(h, range, height) /\ Woven(h, height)
  BY DEF Intact
<1>2. /\ p \in DOMAIN h /\ i + 1 \in 1 .. NumKeys(h, p) + 1 /\ NumChild(h, p) = NumKeys(h, p) + 1
      /\ h[p].children[i + 1] = c
  BY <1>1, ParentOf
<1>3. Heap(h)
  BY <1>1 DEF IsTree
<1>4. NumKeys(h, p) \in Nat /\ h[c].childIndex \in Nat \cup {-1}
  BY <1>2, <1>3, NodeType
<1>5. i \in 0 .. NumKeys(h, p) /\ i \in Nat
  BY <1>2, <1>4
<1>6. ASSUME i < NumKeys(h, p)
      PROVE  Siblings(h, c, h[c].next) /\ h[h[c].next].parent = p /\ h[h[c].next].childIndex = i + 1
  <2>1. i + 1 \in 1 .. NumChild(h, p) /\ i + 2 \in 1 .. NumChild(h, p) /\ i + 1 < NumChild(h, p)
        /\ (i + 1) + 1 = i + 2 /\ (i + 2) - 1 = i + 1
    BY <1>2, <1>4, <1>5, <1>6
  <2>2. h[c].next = NextChild(h, p, i + 1)
    BY <1>1, <1>2, <2>1 DEF Woven
  <2>3. h[c].next = h[p].children[i + 2]
    BY <2>1, <2>2 DEF NextChild
  <2>4. h[c].next \in DOMAIN h \ {RootPtr} /\ h[h[c].next].parent = p
        /\ h[h[c].next].childIndex = i + 1
    BY <1>1, <1>2, <2>1, <2>3, ChildOf
  <2>. QED
    BY <2>4 DEF Siblings
<1>7. ASSUME i > 0
      PROVE  Siblings(h, h[c].prev, c) /\ h[h[c].prev].parent = p /\ h[h[c].prev].childIndex = i - 1
  <2>. DEFINE b == h[p].children[i]
  <2>1. i \in 1 .. NumChild(h, p) /\ i < NumChild(h, p)
    BY <1>2, <1>4, <1>5, <1>7
  <2>2. b \in DOMAIN h \ {RootPtr} /\ h[b].parent = p /\ h[b].childIndex = i - 1
    BY <1>1, <1>2, <2>1, ChildOf
  <2>3. h[b].next = NextChild(h, p, i)
    BY <1>1, <1>2, <2>1 DEF Woven
  <2>4. h[b].next = c
    BY <1>2, <2>1, <2>3 DEF NextChild
  <2>5. c \in Nat
    BY <1>3 DEF Heap
  <2>6. c # Null
    BY <2>5 DEF Null
  <2>7. h[c].prev = b
    BY <1>1, <2>2, <2>4, <2>6 DEF Woven, NextFits
  <2>8. h[c].childIndex = h[b].childIndex + 1
    BY <1>5, <2>2
  <2>. QED
    BY <2>2, <2>7, <2>8 DEF Siblings
<1>. QED
  BY <1>2, <1>4, <1>5, <1>6, <1>7

(* In a tree the children know their places, and nothing is to be deleted. *)
LEMMA InPlace ==
    ASSUME NEW h, NEW range, NEW height, IsTree(h, range, height), NEW n \in DOMAIN h
    PROVE  Consolidate(h, n) = h /\ Delete(h, {}) = h
<1>1. Heap(h) /\ h \in [DOMAIN h -> Node]
  BY DEF IsTree, Heap
<1>2. h[n].children \in Seq(Nat) /\ NumChild(h, n) = Len(h[n].children)
  BY <1>1, NodeType
<1>3. Different(h[n].children)
  BY OneParent
<1>. DEFINE kids == h[n].children
<1>4. ASSUME NEW c \in DOMAIN h, Contains(kids, c)
      PROVE  [h[c] EXCEPT !.parent = n, !.childIndex = Position(kids, c) - 1] = h[c]
  <2>1. PICK i \in 1 .. Len(kids) : kids[i] = c
    BY <1>2, <1>4, ContainsIsIn, SetOf
  <2>2. Position(kids, c) = i
    BY <1>2, <1>3, <2>1, PositionOf
  <2>3. h[c].parent = n /\ h[c].childIndex = i - 1
    BY <1>2, <2>1, SMTT(30) DEF IsTree, Placed
  <2>4. h[c] \in Node
    BY <1>1
  <2>. QED
    BY <2>2, <2>3, <2>4 DEF Node
<1>5. Consolidate(h, n) = [c \in DOMAIN h |-> h[c]]
  BY <1>4, Zenon DEF Consolidate
<1>6. Delete(h, {}) = [c \in DOMAIN h |-> h[c]]
  BY DEF Delete
<1>. QED
  BY <1>1, <1>5, <1>6
-----------------------------------------------------------------------------
(* Borrowing and merging                                                   *)

(* Half a node's worth, of an order of at least three.                     *)
LEMMA LeastIs ==
    ASSUME OrderFits
    PROVE  LeastKeys \in Nat /\ LeastKeys >= 1 /\ 2 * LeastKeys <= order - 1
BY DEF OrderFits, LeastKeys

(* The smaller of two numbers.                                             *)
LEMMA SmallerOf ==
    ASSUME NEW a \in Int, NEW b \in Int
    PROVE  Min({a, b}) \in Int /\ Min({a, b}) <= a /\ Min({a, b}) <= b
<1>1. CASE a <= b
  BY <1>1 DEF Min
<1>2. CASE ~(a <= b)
  BY <1>2 DEF Min
<1>. QED
  BY <1>1, <1>2

(* What tryBorrow leaves to the giver and the taker.                       *)
LEMMA BorrowIntact ==
    ASSUME OrderFits, NEW h, NEW range, NEW height, NEW K, Intact(h, range, height, K),
           NEW l, NEW r, Siblings(h, l, r), NEW p, p = h[l].parent, NEW fromLeft \in BOOLEAN,
           NEW f, f = TryBorrow(h, l, r, fromLeft)
    PROVE  /\ \E R, H : Intact(f, R, H, K) /\ Kept(h, height, f, H, 0)
           /\ DOMAIN f = DOMAIN h /\ f[p].children = h[p].children
<1>1. IsTree(h, range, height) /\ Heap(h) /\ l \in DOMAIN h /\ r \in DOMAIN h
  BY DEF Intact, IsTree, Siblings
<1>2. NumKeys(h, l) \in Nat /\ NumKeys(h, r) \in Nat /\ h[l].keys \in Seq(Nat) /\ h[r].keys \in Seq(Nat)
      /\ NumKeys(h, l) = Len(h[l].keys) /\ NumKeys(h, r) = Len(h[r].keys)
  BY <1>1, NodeType
<1>3. LeastKeys \in Nat /\ LeastKeys >= 1
  BY LeastIs
<1>. DEFINE nl == NumKeys(h, l)
            nr == NumKeys(h, r)
            giver == IF fromLeft THEN l ELSE r
            taker == IF fromLeft THEN r ELSE l
            a == NumKeys(h, giver) - LeastKeys
            b == LeastKeys - NumKeys(h, taker)
            give == Min({a, b})
            m == nl + (IF fromLeft THEN -give ELSE give)
<1>4. a \in Int /\ b \in Int
  BY <1>2, <1>3
<1>5. give \in Int /\ give <= a /\ give <= b
  <2>. HIDE DEF a, b
  <2>. QED
    BY <1>4, SmallerOf
<1>6. f = IF give <= 0 THEN h ELSE Deal(h, l, r, m)
  BY DEF TryBorrow
<1>7. Len(JoinedKeys(h, l, r)) \in Nat /\ Len(JoinedKeys(h, l, r)) >= nl + nr
  <2>. DEFINE sep == h[h[l].parent].keys[h[l].childIndex + 1]
              mid == IF h[l].isLeaf THEN <<>> ELSE <<sep>>
  <2>1. sep \in Nat
    BY <1>1, JointType
  <2>2. <<sep>> \in Seq(Nat) /\ <<>> \in Seq(Nat)
    BY <2>1
  <2>3. mid \in Seq(Nat)
    BY <2>2
  <2>4. JoinedKeys(h, l, r) = h[l].keys \o mid \o h[r].keys
    BY DEF JoinedKeys
  <2>. HIDE DEF mid
  <2>5. h[l].keys \o mid \in Seq(Nat) /\ Len(h[l].keys \o mid) = nl + Len(mid)
    BY <1>2, <2>3, OneBehind
  <2>6. Len((h[l].keys \o mid) \o h[r].keys) = (nl + Len(mid)) + nr
    BY <1>2, <2>5, OneBehind
  <2>7. Len(mid) \in Nat
    BY <2>3
  <2>8. Len(JoinedKeys(h, l, r)) = (nl + Len(mid)) + nr
    BY <2>4, <2>6
  <2>. DEFINE t == Len(JoinedKeys(h, l, r))
              u == Len(mid)
  <2>9. t = (nl + u) + nr /\ u \in Nat /\ nl \in Nat /\ nr \in Nat
    BY <1>2, <2>7, <2>8
  <2>. HIDE DEF t, u, nl, nr
  <2>10. t \in Nat /\ t >= nl + nr
    BY <2>9
  <2>. QED
    BY <2>10 DEF t
<1>. HIDE DEF give
<1>8. ASSUME ~(give <= 0) PROVE m \in 1 .. Len(JoinedKeys(h, l, r)) - 1
  <2>. DEFINE t == Len(JoinedKeys(h, l, r))
              least == LeastKeys
  <2>1. /\ nl \in Nat /\ nr \in Nat /\ t \in Nat /\ t >= nl + nr
        /\ least \in Nat /\ least >= 1
        /\ give \in Int /\ give >= 1
    <3>1. give \in Int
      BY <1>5
    <3>2. give >= 1
      BY <1>8, <3>1
    <3>. QED
      BY <1>2, <1>3, <1>7, <3>1, <3>2
  <2>2. /\ fromLeft => give <= nl - least /\ m = nl + (-give)
        /\ ~fromLeft => give <= nr - least /\ m = nl + give
    BY <1>5
  <2>. HIDE DEF t, least, nl, nr, m
  <2>3. CASE fromLeft
    BY <2>1, <2>2, <2>3 DEF t
  <2>4. CASE ~fromLeft
    BY <2>1, <2>2, <2>4 DEF t
  <2>. QED
    BY <2>3, <2>4
<1>9. CASE give <= 0
  <2>1. f = h
    BY <1>6, <1>9
  <2>2. Kept(h, height, h, height, 0)
    BY DEF Kept
  <2>. QED
    BY <2>1, <2>2
<1>10. CASE ~(give <= 0)
  <2>1. f = Deal(h, l, r, m)
    BY <1>6, <1>10
  <2>. HIDE DEF m
  <2>. QED
    BY <1>8, <1>10, <2>1, DealIntact
<1>. QED
  BY <1>9, <1>10

(* After a borrow between c and a neighbour c stands where it stood.       *)
LEMMA BorrowStands ==
    ASSUME OrderFits, NEW h0, NEW range0, NEW height0, NEW node, Given(h0, range0, height0, node),
           NEW K, NEW h, NEW c, NEW i, NEW n, Stands(h0, height0, node, K, h, c, i, n),
           NEW l, NEW r, Siblings(h, l, r), h[l].parent = node,
           NEW fromLeft \in BOOLEAN, NEW f, f = TryBorrow(h, l, r, fromLeft)
    PROVE  Stands(h0, height0, node, K, f, c, i, n)
<1>1. PICK R, H : Intact(h, R, H, K) /\ Kept(h0, height0, h, H, height0[node])
  BY DEF Stands, Sound
<1>2. /\ \E S, I : Intact(f, S, I, K) /\ Kept(h, H, f, I, 0)
      /\ DOMAIN f = DOMAIN h /\ f[node].children = h[node].children
  BY <1>1, BorrowIntact
<1>3. PICK S, I : Intact(f, S, I, K) /\ Kept(h, H, f, I, 0)
  BY <1>2
<1>4. Sound(h0, height0, node, K, f)
  BY <1>1, <1>3, StillSound
<1>5. IsTree(h, R, H) /\ IsTree(f, S, I) /\ Heap(h)
  BY <1>1, <1>3 DEF Intact, IsTree
<1>6. c \in DOMAIN h \ {RootPtr} /\ h[c].parent = node /\ h[c].childIndex = i /\ NumChild(h, node) = n
  BY DEF Stands
<1>7. /\ node \in DOMAIN h /\ i + 1 \in 1 .. NumKeys(h, node) + 1
      /\ NumChild(h, node) = NumKeys(h, node) + 1 /\ h[node].children[i + 1] = c
  BY <1>5, <1>6, ParentOf
<1>8. h[c].childIndex \in Int
  BY <1>5, <1>6, NodeType
<1>9. i + 1 \in 1 .. NumChild(f, node) /\ f[node].children[i + 1] = c /\ (i + 1) - 1 = i
      /\ NumChild(f, node) = n /\ node \in DOMAIN f
  BY <1>2, <1>6, <1>7, <1>8 DEF NumChild
<1>10. f[c].parent = node /\ f[c].childIndex = i
  BY <1>5, <1>9, ChildOf
<1>. QED
  BY <1>2, <1>4, <1>6, <1>9, <1>10 DEF Stands

(* After a merge the one that keeps all stands where the left one stood,   *)
(* and next of child c leads on.                                           *)
Leads(h0, height0, node, K, g, w, keep, i, n, l, r, toRight) ==
    /\ Stands(h0, height0, node, K, g, keep, i, n)
    /\ w[keep].next = g[keep].next
    /\ toRight => w[l].next = r

(* It is so.                                                               *)
LEMMA MergeStands ==
    ASSUME NEW h0, NEW range0, NEW height0, NEW node, Given(h0, range0, height0, node),
           NEW K, NEW h, NEW c, NEW i, NEW n, Stands(h0, height0, node, K, h, c, i, n),
           NEW l, NEW r, Siblings(h, l, r), h[l].parent = node, NEW toRight \in BOOLEAN,
           NEW keep, keep = (IF toRight THEN r ELSE l),
           NEW gone, gone = (IF toRight THEN l ELSE r),
           NEW w, w = Consolidate(Merge(h, l, r, toRight), node), NEW g, g = Delete(w, {gone})
    PROVE  Leads(h0, height0, node, K, g, w, keep, h[l].childIndex, n - 1, l, r, toRight)
<1>1. PICK R, H : Intact(h, R, H, K) /\ Kept(h0, height0, h, H, height0[node])
  BY DEF Stands, Sound
<1>2. /\ \E S, I : Intact(g, S, I, K) /\ Kept(h, H, g, I, H[node])
      /\ node \in DOMAIN g /\ keep \in DOMAIN g \ {RootPtr} /\ g[keep].parent = node
      /\ NumChild(g, node) = NumChild(h, node) - 1
      /\ g[keep].childIndex = h[l].childIndex
      /\ w[keep].next = g[keep].next
      /\ toRight => w[l].next = r
  BY <1>1, MergeIntact
<1>3. Sound(h0, height0, node, K, g)
  BY <1>1, <1>2, StillSound
<1>4. NumChild(h, node) = n
  BY DEF Stands
<1>. QED
  BY <1>2, <1>3, <1>4 DEF Stands, Leads
-----------------------------------------------------------------------------
(* One iteration over the children                                         *)

(* A state of the loop: what is left to do concerns child c and those right*)
(* of it.                                                                  *)
State(h, c, left) == [h |-> h, child |-> c, left |-> left]

Repairing(h0, height0, node, K, h, c, left) ==
    /\ Sound(h0, height0, node, K, h) /\ left \in Int
    /\ left > 0 => \E i, n \in Nat : /\ Stands(h0, height0, node, K, h, c, i, n)
                                     /\ n >= 2 /\ left <= n - i

(* The iteration under way is counted off already.                         *)
Underway(h0, height0, node, K, h, c, left) ==
    \E i, n \in Nat : /\ Stands(h0, height0, node, K, h, c, i, n)
                      /\ n >= 2 /\ left \in Nat /\ left + 1 <= n - i

(* The fields of a state.                                                  *)
LEMMA StateFields ==
    ASSUME NEW h, NEW c, NEW left, NEW gone
    PROVE  /\ State(h, c, left).h = h /\ State(h, c, left).child = c
           /\ State(h, c, left).left = left
           /\ GoOn(State(h, c, left), gone) = State(Delete(h, gone), h[c].next, left)
BY DEF State, GoOn

(* The place of a child that stands.                                       *)
LEMMA StandsAt ==
    ASSUME NEW h0, NEW range0, NEW height0, NEW node, Given(h0, range0, height0, node),
           NEW K, NEW h, NEW c, NEW i, NEW n, Stands(h0, height0, node, K, h, c, i, n)
    PROVE  /\ n \in Nat /\ NumKeys(h, node) = n - 1 /\ i \in 0 .. n - 1
           /\ i < n - 1 => /\ Siblings(h, c, h[c].next) /\ h[h[c].next].parent = node
                           /\ h[h[c].next].childIndex = i + 1
                           /\ Stands(h0, height0, node, K, h, h[c].next, i + 1, n)
           /\ i > 0 => /\ Siblings(h, h[c].prev, c) /\ h[h[c].prev].parent = node
                       /\ h[h[c].prev].childIndex = i - 1
<1>1. PICK R, H : Intact(h, R, H, K)
  BY DEF Stands, Sound
<1>2. c \in DOMAIN h \ {RootPtr} /\ h[c].parent = node /\ h[c].childIndex = i /\ NumChild(h, node) = n
  BY DEF Stands
<1>3. /\ NumKeys(h, node) \in Nat /\ NumChild(h, node) = NumKeys(h, node) + 1
      /\ i \in 0 .. NumKeys(h, node)
      /\ i < NumKeys(h, node) =>
            Siblings(h, c, h[c].next) /\ h[h[c].next].parent = node /\ h[h[c].next].childIndex = i + 1
      /\ i > 0 =>
            Siblings(h, h[c].prev, c) /\ h[h[c].prev].parent = node /\ h[h[c].prev].childIndex = i - 1
  BY <1>1, <1>2, Neighbours
<1>4. n \in Nat /\ NumKeys(h, node) = n - 1
  BY <1>2, <1>3
<1>5. ASSUME i < n - 1
      PROVE  Stands(h0, height0, node, K, h, h[c].next, i + 1, n)
  BY <1>2, <1>3, <1>4, <1>5 DEF Stands, Siblings
<1>. QED
  BY <1>3, <1>4, <1>5

(* On to the next child.                                                   *)
LEMMA NextStands ==
    ASSUME NEW h0, NEW range0, NEW height0, NEW node, Given(h0, range0, height0, node),
           NEW K, NEW h, NEW c, NEW left, Underway(h0, height0, node, K, h, c, left)
    PROVE  /\ Repairing(h0, height0, node, K, h, h[c].next, left)
           /\ Consolidate(h, node) = h /\ Delete(h, {}) = h
<1>1. PICK i \in Nat, n \in Nat : /\ Stands(h0, height0, node, K, h, c, i, n)
                                  /\ n >= 2 /\ left \in Nat /\ left + 1 <= n - i
  BY DEF Underway
<1>2. Sound(h0, height0, node, K, h)
  BY <1>1 DEF Stands
<1>3. ASSUME left > 0
      PROVE  Stands(h0, height0, node, K, h, h[c].next, i + 1, n) /\ left <= n - (i + 1) /\ i + 1 \in Nat
  <2>1. i < n - 1
    BY <1>1, <1>3
  <2>. QED
    BY <1>1, <2>1, StandsAt
<1>4. PICK R, H : Intact(h, R, H, K) /\ Kept(h0, height0, h, H, height0[node])
  BY <1>2 DEF Sound
<1>5. node \in DOMAIN h /\ IsTree(h, R, H)
  <2>1. node \in DOMAIN h0 /\ height0[node] \in Nat
    BY DEF Given, IsTree
  <2>. QED
    BY <1>4, <2>1 DEF Kept, Intact
<1>6. Consolidate(h, node) = h /\ Delete(h, {}) = h
  BY <1>5, InPlace
<1>. QED
  BY <1>1, <1>2, <1>3, <1>6 DEF Repairing

(* An underfull child is filled or merged.                                 *)
LEMMA FillStands ==
    ASSUME OrderFits, NEW h0, NEW range0, NEW height0, NEW node, Given(h0, range0, height0, node),
           NEW K, NEW h, NEW c, NEW left, Underway(h0, height0, node, K, h, c, left)
    PROVE  \E g, d, m : /\ FillChild(node, State(h, c, left)) = State(g, d, m)
                        /\ Repairing(h0, height0, node, K, g, d, m)
<1>1. PICK i \in Nat, n \in Nat : /\ Stands(h0, height0, node, K, h, c, i, n)
                                  /\ n >= 2 /\ left \in Nat /\ left + 1 <= n - i
  BY DEF Underway
<1>2. /\ NumKeys(h, node) = n - 1 /\ i \in 0 .. n - 1 /\ h[c].childIndex = i
      /\ i > 0 => Siblings(h, h[c].prev, c) /\ h[h[c].prev].parent = node
  BY <1>1, StandsAt DEF Stands
<1>. DEFINE first == i = 0
            last == i >= n - 1
            h1 == IF first THEN h ELSE TryBorrow(h, h[c].prev, c, TRUE)
<1>3. Stands(h0, height0, node, K, h1, c, i, n)
  <2>1. CASE first
    BY <1>1, <2>1
  <2>2. CASE ~first
    <3>1. Siblings(h, h[c].prev, c) /\ h[h[c].prev].parent = node
      BY <1>2, <2>2
    <3>. QED
      BY <1>1, <2>2, <3>1, BorrowStands
  <2>. QED
    BY <2>1, <2>2
<1>. HIDE DEF h1
<1>4. i < n - 1 => Siblings(h1, c, h1[c].next)
  BY <1>3, StandsAt
<1>5. h1[c].parent = node
  BY <1>3 DEF Stands
<1>. DEFINE h2 == IF (first \/ ~last) /\ ~IsHalfFull(h1, c)
                    THEN TryBorrow(h1, c, h1[c].next, FALSE) ELSE h1
<1>6. Stands(h0, height0, node, K, h2, c, i, n)
  <2>1. CASE (first \/ ~last) /\ ~IsHalfFull(h1, c)
    <3>1. i < n - 1
      BY <1>1, <1>2, <2>1
    <3>2. Siblings(h1, c, h1[c].next)
      BY <1>4, <3>1
    <3>. QED
      BY <1>3, <1>5, <2>1, <3>2, BorrowStands
  <2>2. CASE ~((first \/ ~last) /\ ~IsHalfFull(h1, c))
    BY <1>3, <2>2, Zenon
  <2>. QED
    BY <2>1, <2>2
<1>. DEFINE s == State(h, c, left)
            full == IsHalfFull(h2, c)
            Moved(l, r, toRight) == Consolidate(Merge(h2, l, r, toRight), node)
            Merged(l, r, toRight) ==
                GoOn(State(Moved(l, r, toRight), c, IF first THEN left - 1 ELSE left),
                     {IF toRight THEN l ELSE r})
<1>7. s.h = h /\ s.child = c /\ s.left = left
  BY DEF State
<1>8. FillChild(node, s) =
          CASE full -> [s EXCEPT !.h = h2]
            [] first /\ ~full -> Merged(c, h2[c].next, FALSE)
            [] ~first /\ ~last /\ ~full -> Merged(c, h2[c].next, TRUE)
            [] OTHER -> Merged(h2[c].prev, c, TRUE)
  BY <1>2, <1>7, ZenonT(30) DEF FillChild, h1, State
<1>. HIDE DEF h2
<1>9. ASSUME NEW l, NEW r, NEW toRight
      PROVE  Merged(l, r, toRight) =
                 State(Delete(Moved(l, r, toRight), {IF toRight THEN l ELSE r}),
                       Moved(l, r, toRight)[c].next, IF first THEN left - 1 ELSE left)
  <2>. DEFINE w == Moved(l, r, toRight)
              m == IF first THEN left - 1 ELSE left
  <2>. HIDE DEF w, m
  <2>1. GoOn(State(w, c, m), {IF toRight THEN l ELSE r}) =
            State(Delete(w, {IF toRight THEN l ELSE r}), w[c].next, m)
    BY StateFields
  <2>. QED
    BY <2>1 DEF w, m
<1>. HIDE DEF Merged
<1>10. /\ c \in DOMAIN h2 \ {RootPtr} /\ h2[c].parent = node /\ h2[c].childIndex = i
       /\ i < n - 1 => Siblings(h2, c, h2[c].next)
       /\ i > 0 => Siblings(h2, h2[c].prev, c) /\ h2[h2[c].prev].parent = node
                   /\ h2[h2[c].prev].childIndex = i - 1
  <2>1. c \in DOMAIN h2 \ {RootPtr} /\ h2[c].parent = node /\ h2[c].childIndex = i
    BY <1>6 DEF Stands
  <2>2. /\ i < n - 1 => Siblings(h2, c, h2[c].next)
        /\ i > 0 => Siblings(h2, h2[c].prev, c) /\ h2[h2[c].prev].parent = node
                    /\ h2[h2[c].prev].childIndex = i - 1
    BY ONLY Given(h0, range0, height0, node), <1>6, StandsAt
  <2>. QED
    BY <2>1, <2>2
<1>11. CASE full
  <2>1. FillChild(node, s) = State(h2, c, left)
    <3>1. FillChild(node, s) = [s EXCEPT !.h = h2]
      BY <1>8, <1>11
    <3>2. [State(h, c, left) EXCEPT !.h = h2] = State(h2, c, left)
      BY DEF State
    <3>. QED
      BY <3>1, <3>2
  <2>2. Sound(h0, height0, node, K, h2) /\ left <= n - i /\ left \in Int
    BY <1>1, <1>6 DEF Stands
  <2>3. Repairing(h0, height0, node, K, h2, c, left)
    BY <1>1, <1>6, <2>2 DEF Repairing
  <2>. QED
    BY <2>1, <2>3
<1>12. CASE ~full /\ first
  <2>. DEFINE r == h2[c].next
              w == Moved(c, r, FALSE)
              g == Delete(w, {r})
  <2>1. FillChild(node, s) = State(g, w[c].next, left - 1)
    <3>1. FillChild(node, s) = Merged(c, r, FALSE)
      BY <1>8, <1>12
    <3>. QED
      BY <1>9, <1>12, <3>1
  <2>2. Siblings(h2, c, r)
    BY <1>1, <1>10, <1>12
  <2>3. Stands(h0, height0, node, K, g, c, i, n - 1) /\ w[c].next = g[c].next
    <3>1. c = (IF FALSE THEN r ELSE c) /\ r = (IF FALSE THEN c ELSE r) /\ FALSE \in BOOLEAN
      OBVIOUS
    <3>. HIDE DEF r
    <3>2. h2[c].parent = node /\ h2[c].childIndex = i
      BY <1>10
    <3>3. Leads(h0, height0, node, K, g, w, c, h2[c].childIndex, n - 1, c, r, FALSE)
      BY <1>6, <2>2, <3>1, <3>2, MergeStands
    <3>. HIDE DEF w, g
    <3>. QED
      BY <3>2, <3>3 DEF Leads
  <2>. HIDE DEF r, w, g
  <2>4. Sound(h0, height0, node, K, g)
    BY <2>3 DEF Stands
  <2>5. ASSUME left - 1 > 0
        PROVE  Stands(h0, height0, node, K, g, g[c].next, i + 1, n - 1)
    <3>1. i < (n - 1) - 1
      BY <1>1, <1>12, <2>5
    <3>. QED
      BY <2>3, <3>1, StandsAt
  <2>6. left - 1 > 0 => n - 1 >= 2 /\ left - 1 <= (n - 1) - (i + 1)
    BY <1>1, <1>12
  <2>7. left - 1 \in Int /\ i + 1 \in Nat /\ n - 1 \in Nat
    BY <1>1
  <2>8. Repairing(h0, height0, node, K, g, w[c].next, left - 1)
    BY <2>3, <2>4, <2>5, <2>6, <2>7 DEF Repairing
  <2>. QED
    BY <2>1, <2>8
<1>13. CASE ~full /\ ~first /\ ~last
  <2>. DEFINE r == h2[c].next
              w == Moved(c, r, TRUE)
              g == Delete(w, {c})
  <2>1. FillChild(node, s) = State(g, w[c].next, left)
    <3>1. FillChild(node, s) = Merged(c, r, TRUE)
      BY <1>8, <1>13
    <3>. QED
      BY <1>9, <1>13, <3>1
  <2>2. Siblings(h2, c, r)
    BY <1>1, <1>10, <1>13
  <2>3. Stands(h0, height0, node, K, g, r, i, n - 1) /\ w[c].next = r
    <3>1. r = (IF TRUE THEN r ELSE c) /\ c = (IF TRUE THEN c ELSE r) /\ TRUE \in BOOLEAN
      OBVIOUS
    <3>. HIDE DEF r
    <3>2. h2[c].parent = node /\ h2[c].childIndex = i
      BY <1>10
    <3>3. Leads(h0, height0, node, K, g, w, r, h2[c].childIndex, n - 1, c, r, TRUE)
      BY <1>6, <2>2, <3>1, <3>2, MergeStands
    <3>. HIDE DEF w, g
    <3>. QED
      BY <3>2, <3>3 DEF Leads
  <2>. HIDE DEF r, w, g
  <2>4. Sound(h0, height0, node, K, g)
    BY <2>3 DEF Stands
  <2>5. n - 1 >= 2 /\ left <= (n - 1) - i /\ left \in Int /\ n - 1 \in Nat
    BY <1>1, <1>13
  <2>6. Repairing(h0, height0, node, K, g, w[c].next, left)
    BY <2>3, <2>4, <2>5 DEF Repairing
  <2>. QED
    BY <2>1, <2>6
<1>14. CASE ~full /\ ~first /\ last
  <2>. DEFINE l == h2[c].prev
              w == Moved(l, c, TRUE)
              g == Delete(w, {l})
  <2>1. FillChild(node, s) = State(g, w[c].next, left)
    <3>1. FillChild(node, s) = Merged(l, c, TRUE)
      BY <1>8, <1>14
    <3>. QED
      BY <1>9, <1>14, <3>1
  <2>2. Siblings(h2, l, c) /\ h2[l].parent = node
    BY <1>1, <1>10, <1>14
  <2>3. Stands(h0, height0, node, K, g, c, h2[l].childIndex, n - 1)
    <3>1. c = (IF TRUE THEN c ELSE l) /\ l = (IF TRUE THEN l ELSE c) /\ TRUE \in BOOLEAN
      OBVIOUS
    <3>. HIDE DEF l
    <3>2. Leads(h0, height0, node, K, g, w, c, h2[l].childIndex, n - 1, l, c, TRUE)
      BY <1>6, <2>2, <3>1, MergeStands
    <3>. HIDE DEF w, g
    <3>. QED
      BY <3>2 DEF Leads
  <2>. HIDE DEF l, w, g
  <2>4. Sound(h0, height0, node, K, g)
    BY <2>3 DEF Stands
  <2>5. ~(left > 0) /\ left \in Int
    BY <1>1, <1>14
  <2>6. Repairing(h0, height0, node, K, g, w[c].next, left)
    BY <2>4, <2>5 DEF Repairing
  <2>. QED
    BY <2>1, <2>6
<1>. QED
  BY <1>11, <1>12, <1>13, <1>14
-----------------------------------------------------------------------------
(* A child is split until it fits                                          *)

(* Where bigSplit cuts, both halves get a key.                             *)
LEMMA CutFits ==
    ASSUME OrderFits, NEW k \in Nat, k >= order,
           NEW count, count = (IF k - order >= LeastKeys THEN order - 1 ELSE LeastKeys)
    PROVE  /\ count \in 1 .. k - 1 /\ k - count \in 1 .. k - 1
           /\ k - count - 1 \in 1 .. k - 1
<1>1. order \in Nat /\ order >= 3
  BY DEF OrderFits
<1>2. LeastKeys \in Nat /\ LeastKeys >= 1 /\ 2 * LeastKeys <= order - 1
  BY LeastIs
<1>3. /\ k - order >= LeastKeys => count = order - 1
      /\ ~(k - order >= LeastKeys) => count = LeastKeys
  OBVIOUS
<1>4. ASSUME NEW least \in Nat, least >= 1, 2 * least <= order - 1,
             NEW z \in Int, (k - order >= least /\ z = order - 1) \/ z = least
      PROVE  z \in 1 .. k - 1 /\ k - z \in 1 .. k - 1 /\ k - z - 1 \in 1 .. k - 1
  <2>1. CASE k - order >= least /\ z = order - 1
    BY <1>1, <1>4, <2>1
  <2>2. CASE z = least
    BY <1>1, <1>4, <2>2
  <2>. QED
    BY <1>4, <2>1, <2>2
<1>5. count \in Int
  BY <1>1, <1>2, <1>3
<1>. QED
  BY <1>2, <1>3, <1>4, <1>5

(* So it is a split that keeps everything.                                 *)
LEMMA BigSplitIs ==
    ASSUME OrderFits, NEW h, Heap(h), NEW c \in DOMAIN h, Overfull(h, c), NEW toLeft \in BOOLEAN
    PROVE  \E m \in 1 .. NumKeys(h, c) - 1 : BigSplit(h, c, toLeft) = SplitAt(h, c, m, toLeft)
<1>. DEFINE k == NumKeys(h, c)
            count == IF k - order >= LeastKeys THEN order - 1 ELSE LeastKeys
            m == IF toLeft THEN count ELSE IF h[c].isLeaf THEN k - count ELSE k - count - 1
<1>1. k \in Nat /\ k >= order
  BY NodeType DEF Overfull
<1>2. /\ count \in 1 .. k - 1 /\ k - count \in 1 .. k - 1
      /\ k - count - 1 \in 1 .. k - 1
  <2>. HIDE DEF k
  <2>. QED
    BY <1>1, CutFits
<1>3. BigSplit(h, c, toLeft) = SplitAt(h, c, m, toLeft)
  BY DEF BigSplit
<1>. HIDE DEF count
<1>4. m \in 1 .. k - 1
  BY <1>2
<1>. HIDE DEF m
<1>. QED
  BY <1>3, <1>4

(* One turn of the loop.                                                   *)
LEMMA SplitOffStands ==
    ASSUME OrderFits, NEW h0, NEW range0, NEW height0, NEW node, Given(h0, range0, height0, node),
           NEW K, NEW h, NEW c, NEW left, Underway(h0, height0, node, K, h, c, left), Overfull(h, c)
    PROVE  \E g, m : /\ SplitOff(node, State(h, c, left)) = State(g, c, m)
                     /\ Underway(h0, height0, node, K, g, c, m)
<1>1. PICK i \in Nat, n \in Nat : /\ Stands(h0, height0, node, K, h, c, i, n)
                                  /\ n >= 2 /\ left \in Nat /\ left + 1 <= n - i
  BY DEF Underway
<1>2. NumKeys(h, node) = n - 1 /\ i \in 0 .. n - 1
  BY <1>1, StandsAt
<1>3. /\ c \in DOMAIN h \ {RootPtr} /\ h[c].parent = node /\ h[c].childIndex = i
      /\ NumChild(h, node) = n
  BY <1>1 DEF Stands
<1>4. PICK R, H : Intact(h, R, H, K) /\ Kept(h0, height0, h, H, height0[node])
  BY <1>1 DEF Stands, Sound
<1>. DEFINE toLeft == i >= n - 1
            g == BigSplit(h, c, toLeft)
            m == IF toLeft THEN left ELSE left + 1
<1>5. SplitOff(node, State(h, c, left)) = State(g, c, m)
  BY <1>2, <1>3 DEF SplitOff, State
<1>6. Heap(h)
  BY <1>4 DEF Intact, IsTree
<1>7. PICK k \in 1 .. NumKeys(h, c) - 1 : g = SplitAt(h, c, k, toLeft)
  <2>1. toLeft \in BOOLEAN
    OBVIOUS
  <2>. HIDE DEF toLeft
  <2>. QED
    BY <1>3, <1>6, <2>1, BigSplitIs
<1>8. node # RootPtr
  BY DEF Given
<1>9. toLeft => i > 0
  BY <1>1
<1>. HIDE DEF g
<1>10. /\ \E S, I : Intact(g, S, I, K) /\ Kept(h, H, g, I, 0)
       /\ ChildSplit(h, g, node, c, toLeft)
  <2>1. toLeft \in BOOLEAN
    OBVIOUS
  <2>. HIDE DEF toLeft
  <2>. QED
    BY <1>3, <1>4, <1>7, <1>8, <1>9, <2>1, SplitIntact
<1>11. Sound(h0, height0, node, K, g)
  BY <1>4, <1>10, StillSound
<1>. DEFINE j == IF toLeft THEN i + 1 ELSE i
<1>12. Stands(h0, height0, node, K, g, c, j, n + 1)
  BY <1>3, <1>10, <1>11 DEF Stands, ChildSplit
<1>13. j \in Nat /\ n + 1 \in Nat /\ n + 1 >= 2 /\ m \in Nat /\ m + 1 <= (n + 1) - j
  BY <1>1
<1>14. Underway(h0, height0, node, K, g, c, m)
  <2>. HIDE DEF j, m
  <2>. QED
    BY <1>12, <1>13 DEF Underway
<1>. HIDE DEF m
<1>. QED
  BY <1>5, <1>14

(* The table of the turns.                                                 *)
IsTurns(f, node, s, n) ==
    f = [i \in 0 .. n |-> IF i = 0 THEN s
                         ELSE LET t == f[i - 1] IN IF Overfull(t.h, t.child) THEN SplitOff(node, t) ELSE t]

(* There is such a table.                                                  *)
LEMMA TurnsTableExists ==
    ASSUME NEW node, NEW s, NEW n \in Nat
    PROVE  \E f : IsTurns(f, node, s, n)
<1>. DEFINE On(i, t) == IF Overfull(t.h, t.child) THEN SplitOff(node, t) ELSE t
            S == {m \in Nat : \E f : IsTurns(f, node, s, m)}
<1>1. 0 \in S
  <2>. DEFINE f == [i \in 0 .. 0 |-> s]
  <2>1. \A i \in 0 .. 0 : i = 0
    OBVIOUS
  <2>2. IsTurns(f, node, s, 0)
    BY <2>1 DEF IsTurns
  <2>. QED
    BY <2>2
<1>2. ASSUME NEW m \in Nat \ {0}, m - 1 \in S PROVE m \in S
  <2>1. PICK f : IsTurns(f, node, s, m - 1)
    BY <1>2
  <2>2. \A i \in 0 .. (m - 1) : f[i] = IF i = 0 THEN s ELSE On(i, f[i - 1])
    BY <2>1 DEF IsTurns
  <2>. HIDE DEF On
  <2>. DEFINE g == [i \in 0 .. m |-> IF i < m THEN f[i] ELSE On(m, f[m - 1])]
  <2>3. \A i \in 0 .. m : g[i] = IF i = 0 THEN s ELSE On(i, g[i - 1])
    <3>. SUFFICES ASSUME NEW i \in 0 .. m
                  PROVE  g[i] = IF i = 0 THEN s ELSE On(i, g[i - 1])
      OBVIOUS
    <3>1. CASE i < m
      <4>1. i \in 0 .. (m - 1) /\ g[i] = f[i] /\ (i # 0 => i - 1 \in 0 .. m /\ i - 1 < m)
        BY <3>1
      <4>2. i # 0 => g[i - 1] = f[i - 1]
        BY <4>1
      <4>. QED
        BY <2>2, <4>1, <4>2
    <3>2. CASE i = m
      <4>1. m - 1 \in 0 .. m /\ m - 1 < m /\ m # 0
        OBVIOUS
      <4>2. g[m - 1] = f[m - 1] /\ g[m] = On(m, f[m - 1])
        BY <4>1
      <4>. QED
        BY <3>2, <4>1, <4>2
    <3>. QED
      BY <3>1, <3>2
  <2>4. g = [i \in 0 .. m |-> g[i]]
    OBVIOUS
  <2>. HIDE DEF g
  <2>5. g = [i \in 0 .. m |-> IF i = 0 THEN s ELSE On(i, g[i - 1])]
    BY <2>3, <2>4
  <2>6. IsTurns(g, node, s, m)
    BY <2>5 DEF IsTurns, On
  <2>. QED
    BY <2>6
<1>. HIDE DEF S
<1>3. Nat \subseteq S
  BY <1>1, <1>2, EveryNumber
<1>. QED
  BY <1>3 DEF S

(* All the turns.                                                          *)
LEMMA SplitStands ==
    ASSUME OrderFits, NEW h0, NEW range0, NEW height0, NEW node, Given(h0, range0, height0, node),
           NEW K, NEW h, NEW c, NEW left, Underway(h0, height0, node, K, h, c, left)
    PROVE  \E g, m : /\ SplitChild(node, State(h, c, left)) = State(g, c, m)
                     /\ Underway(h0, height0, node, K, g, c, m)
<1>. DEFINE s == State(h, c, left)
            k == NumKeys(h, c)
            turn == CHOOSE turn : turn = [i \in 0 .. NumKeys(s.h, s.child) |->
                        IF i = 0 THEN s
                        ELSE LET t == turn[i - 1]
                             IN IF Overfull(t.h, t.child) THEN SplitOff(node, t) ELSE t]
<1>1. s.h = h /\ s.child = c
  BY DEF State
<1>2. SplitChild(node, s) = turn[k]
  BY <1>1 DEF SplitChild
<1>3. k \in Nat
  <2>1. \E R, H : Intact(h, R, H, K) /\ c \in DOMAIN h
    BY DEF Underway, Stands, Sound
  <2>2. Heap(h) /\ c \in DOMAIN h
    BY <2>1 DEF Intact, IsTree
  <2>. QED
    BY <2>2, NodeType
<1>4. IsTurns(turn, node, s, k)
  <2>. HIDE DEF s, k
  <2>1. PICK g : IsTurns(g, node, s, k)
    BY <1>3, TurnsTableExists
  <2>2. k = NumKeys(s.h, s.child)
    BY <1>1 DEF k
  <2>. QED
    BY <2>1, <2>2, Zenon DEF IsTurns
<1>. HIDE DEF turn
<1>. DEFINE Good(i) == \E g, m : turn[i] = State(g, c, m) /\ Underway(h0, height0, node, K, g, c, m)
            T == {i \in Nat : i <= k => Good(i)}
<1>. HIDE DEF k
<1>5. 0 \in T
  <2>1. turn[0] = State(h, c, left)
    BY <1>3, <1>4 DEF IsTurns
  <2>. QED
    BY <2>1
<1>6. ASSUME NEW i \in Nat \ {0}, i - 1 \in T PROVE i \in T
  <2>. SUFFICES ASSUME i <= k PROVE Good(i)
    BY <1>6
  <2>1. i \in 0 .. k /\ i # 0 /\ i - 1 <= k
    BY <1>3
  <2>2. PICK g, m : turn[i - 1] = State(g, c, m) /\ Underway(h0, height0, node, K, g, c, m)
    BY <1>6, <2>1
  <2>. DEFINE t == State(g, c, m)
  <2>3. turn[i] = IF Overfull(t.h, t.child) THEN SplitOff(node, t) ELSE t
    BY <1>4, <2>1, <2>2 DEF IsTurns
  <2>4. t.h = g /\ t.child = c
    BY DEF State
  <2>5. turn[i] = IF Overfull(g, c) THEN SplitOff(node, State(g, c, m)) ELSE State(g, c, m)
    BY <2>3, <2>4
  <2>6. CASE Overfull(g, c)
    BY <2>2, <2>5, <2>6, SplitOffStands
  <2>7. CASE ~Overfull(g, c)
    BY <2>2, <2>5, <2>7
  <2>. QED
    BY <2>6, <2>7
<1>. HIDE DEF T
<1>7. Nat \subseteq T
  BY <1>5, <1>6, EveryNumber
<1>8. Good(k)
  <2>1. k \in T /\ k <= k
    BY <1>3, <1>7
  <2>. QED
    BY <2>1 DEF T
<1>. QED
  BY <1>2, <1>8

(* One iteration.                                                          *)
LEMMA OnceStands ==
    ASSUME OrderFits, NEW h0, NEW range0, NEW height0, NEW node, Given(h0, range0, height0, node),
           NEW K, NEW h, NEW c, NEW left, Repairing(h0, height0, node, K, h, c, left), left > 0
    PROVE  \E g, d, m : /\ RepairOnce(node, State(h, c, left)) = State(g, d, m)
                        /\ Repairing(h0, height0, node, K, g, d, m)
<1>. DEFINE s == State(h, c, left)
            t == State(h, c, left - 1)
            v == SplitChild(node, t)
<1>1. left \in Int
  BY DEF Repairing
<1>2. Underway(h0, height0, node, K, h, c, left - 1)
  <2>1. PICK i \in Nat, n \in Nat : /\ Stands(h0, height0, node, K, h, c, i, n)
                                    /\ n >= 2 /\ left <= n - i
    BY DEF Repairing
  <2>2. left - 1 \in Nat /\ (left - 1) + 1 <= n - i
    BY <1>1, <2>1
  <2>. QED
    BY <2>1, <2>2 DEF Underway
<1>3. [s EXCEPT !.left = @ - 1] = t
  BY DEF State
<1>4. t.h = h /\ t.child = c
  BY DEF State
<1>5. RepairOnce(node, s) =
          CASE Overfull(h, c) -> GoOn([v EXCEPT !.h = Consolidate(v.h, node)], {})
            [] ~IsHalfFull(h, c) -> FillChild(node, t)
            [] OTHER -> GoOn(t, {})
  BY <1>3, <1>4 DEF RepairOnce
<1>6. ~(Overfull(h, c) /\ ~IsHalfFull(h, c))
  <2>1. PICK R, H : Intact(h, R, H, K) /\ c \in DOMAIN h
    BY <1>2 DEF Underway, Stands, Sound
  <2>2. NumKeys(h, c) \in Nat
    BY <2>1, NodeType DEF Intact, IsTree
  <2>3. order \in Nat /\ LeastKeys \in Nat /\ 2 * LeastKeys <= order - 1
    BY LeastIs DEF OrderFits
  <2>. QED
    BY <2>2, <2>3 DEF Overfull, IsHalfFull
<1>7. CASE Overfull(h, c)
  <2>1. PICK g, m : v = State(g, c, m) /\ Underway(h0, height0, node, K, g, c, m)
    BY <1>2, SplitStands
  <2>2. RepairOnce(node, s) = GoOn([v EXCEPT !.h = Consolidate(v.h, node)], {})
    BY <1>5, <1>6, <1>7
  <2>. HIDE DEF v
  <2>3. /\ Repairing(h0, height0, node, K, g, g[c].next, m)
        /\ Consolidate(g, node) = g /\ Delete(g, {}) = g
    BY <2>1, NextStands
  <2>4. [State(g, c, m) EXCEPT !.h = g] = State(g, c, m) /\ State(g, c, m).h = g
    BY DEF State
  <2>5. [v EXCEPT !.h = Consolidate(v.h, node)] = State(g, c, m)
    BY <2>1, <2>3, <2>4
  <2>6. GoOn(State(g, c, m), {}) = State(g, g[c].next, m)
    BY <2>3, StateFields
  <2>7. RepairOnce(node, s) = State(g, g[c].next, m)
    BY <2>2, <2>5, <2>6
  <2>. QED
    BY <2>3, <2>7
<1>8. CASE ~Overfull(h, c) /\ ~IsHalfFull(h, c)
  <2>1. RepairOnce(node, s) = FillChild(node, t)
    BY <1>5, <1>8
  <2>. QED
    BY <1>2, <2>1, FillStands
<1>9. CASE ~Overfull(h, c) /\ IsHalfFull(h, c)
  <2>1. RepairOnce(node, s) = GoOn(t, {})
    BY <1>5, <1>9
  <2>2. /\ Repairing(h0, height0, node, K, h, h[c].next, left - 1)
        /\ Delete(h, {}) = h
    BY <1>2, NextStands
  <2>3. GoOn(t, {}) = State(h, h[c].next, left - 1)
    BY <2>2, StateFields
  <2>. QED
    BY <2>1, <2>2, <2>3
<1>. QED
  BY <1>7, <1>8, <1>9
-----------------------------------------------------------------------------
(* internal_execute and root_execute, all of them                          *)

(* The table of the iterations.                                            *)
IsLoop(f, node, s, n) ==
    f = [i \in 0 .. n |-> IF i = 0 THEN s
                         ELSE LET t == f[i - 1] IN IF t.left <= 0 THEN t ELSE RepairOnce(node, t)]

(* There is such a table.                                                  *)
LEMMA LoopTableExists ==
    ASSUME NEW node, NEW s, NEW n \in Nat
    PROVE  \E f : IsLoop(f, node, s, n)
<1>. DEFINE On(i, t) == IF t.left <= 0 THEN t ELSE RepairOnce(node, t)
            S == {m \in Nat : \E f : IsLoop(f, node, s, m)}
<1>1. 0 \in S
  <2>. DEFINE f == [i \in 0 .. 0 |-> s]
  <2>1. \A i \in 0 .. 0 : i = 0
    OBVIOUS
  <2>2. IsLoop(f, node, s, 0)
    BY <2>1 DEF IsLoop
  <2>. QED
    BY <2>2
<1>2. ASSUME NEW m \in Nat \ {0}, m - 1 \in S PROVE m \in S
  <2>1. PICK f : IsLoop(f, node, s, m - 1)
    BY <1>2
  <2>2. \A i \in 0 .. (m - 1) : f[i] = IF i = 0 THEN s ELSE On(i, f[i - 1])
    BY <2>1 DEF IsLoop
  <2>. HIDE DEF On
  <2>. DEFINE g == [i \in 0 .. m |-> IF i < m THEN f[i] ELSE On(m, f[m - 1])]
  <2>3. \A i \in 0 .. m : g[i] = IF i = 0 THEN s ELSE On(i, g[i - 1])
    <3>. SUFFICES ASSUME NEW i \in 0 .. m
                  PROVE  g[i] = IF i = 0 THEN s ELSE On(i, g[i - 1])
      OBVIOUS
    <3>1. CASE i < m
      <4>1. i \in 0 .. (m - 1) /\ g[i] = f[i] /\ (i # 0 => i - 1 \in 0 .. m /\ i - 1 < m)
        BY <3>1
      <4>2. i # 0 => g[i - 1] = f[i - 1]
        BY <4>1
      <4>. QED
        BY <2>2, <4>1, <4>2
    <3>2. CASE i = m
      <4>1. m - 1 \in 0 .. m /\ m - 1 < m /\ m # 0
        OBVIOUS
      <4>2. g[m - 1] = f[m - 1] /\ g[m] = On(m, f[m - 1])
        BY <4>1
      <4>. QED
        BY <3>2, <4>1, <4>2
    <3>. QED
      BY <3>1, <3>2
  <2>4. g = [i \in 0 .. m |-> g[i]]
    OBVIOUS
  <2>. HIDE DEF g
  <2>5. g = [i \in 0 .. m |-> IF i = 0 THEN s ELSE On(i, g[i - 1])]
    BY <2>3, <2>4
  <2>6. IsLoop(g, node, s, m)
    BY <2>5 DEF IsLoop, On
  <2>. QED
    BY <2>6
<1>. HIDE DEF S
<1>3. Nat \subseteq S
  BY <1>1, <1>2, EveryNumber
<1>. QED
  BY <1>3 DEF S

(* There are finitely many iterations.                                     *)
LEMMA IterationsAre ==
    ASSUME NEW h, NEW range, NEW height, IsTree(h, range, height), NEW node \in DOMAIN h
    PROVE  Iterations(h, node) \in Nat
<1>. DEFINE C == ToSet(h[node].children)
            F(c) == {c} \X (0 .. NumKeys(h, c) + 1)
            S == {F(c) : c \in C}
<1>1. C \subseteq DOMAIN h /\ IsFiniteSet(DOMAIN h)
  <2>1. C \subseteq DOMAIN h
    BY OneParent
  <2>. QED
    BY <2>1 DEF IsTree, Heap
<1>2. IsFiniteSet(C)
  BY <1>1, FS_Subset
<1>3. IsFiniteSet(S)
  <2>. HIDE DEF C, F
  <2>. DEFINE f == [c \in C |-> F(c)]
  <2>1. f \in Surjection(C, S)
    BY DEF Surjection
  <2>. QED
    BY <1>2, <2>1, FS_Surjection
<1>4. ASSUME NEW c \in C PROVE IsFiniteSet(F(c))
  <2>1. NumKeys(h, c) \in Nat
    BY <1>1, NodeType DEF IsTree
  <2>2. IsFiniteSet(0 .. NumKeys(h, c) + 1)
    BY <2>1, FS_Interval
  <2>3. IsFiniteSet({c})
    BY FS_Singleton
  <2>. QED
    BY <2>2, <2>3, FS_Product
<1>5. IsFiniteSet(UNION S)
  <2>1. \A A \in S : IsFiniteSet(A)
    BY <1>4
  <2>. HIDE DEF S
  <2>. QED
    BY <1>3, <2>1, FS_UNION
<1>6. Iterations(h, node) = Cardinality(UNION S)
  BY DEF Iterations
<1>. HIDE DEF S
<1>. QED
  BY <1>5, <1>6, FS_CardinalityType

(* internal_execute keeps the tree, its keys and all nodes as high as the  *)
(* one it repairs.                                                         *)
THEOREM RepairSound ==
    ASSUME OrderFits, NEW h0, NEW range0, NEW height0, NEW K, Intact(h0, range0, height0, K),
           NEW node \in DOMAIN h0, NumChild(h0, node) >= 2
    PROVE  Sound(h0, height0, node, K, Repair(h0, node)) /\ node # RootPtr
<1>. DEFINE s == State(h0, h0[node].children[1], NumChild(h0, node))
            k == Iterations(h0, node)
            f == CHOOSE f : f = [i \in 0 .. k |->
                     IF i = 0 THEN s
                     ELSE IF f[i - 1].left <= 0 THEN f[i - 1] ELSE RepairOnce(node, f[i - 1])]
<1>1. Repair(h0, node) = f[k].h
  BY DEF Repair, State
<1>2. IsTree(h0, range0, height0) /\ Heap(h0)
  BY DEF Intact, IsTree
<1>3. k \in Nat
  BY <1>2, IterationsAre
<1>4. IsLoop(f, node, s, k)
  <2>. HIDE DEF s, k
  <2>1. PICK g : IsLoop(g, node, s, k)
    BY <1>3, LoopTableExists
  <2>. QED
    BY <2>1 DEF IsLoop
<1>. HIDE DEF f
<1>5. NumChild(h0, node) \in Nat /\ 1 \in 1 .. NumChild(h0, node)
  BY <1>2, NodeType
<1>6. node # RootPtr
  <2>1. ~h0[node].isLeaf /\ NumChild(h0, node) = NumKeys(h0, node) + 1
    BY <1>2, <1>5, ChildOf
  <2>2. NumKeys(h0, node) \in Nat /\ NumKeys(h0, node) # 0
    BY <1>2, <2>1, NodeType
  <2>3. h0[RootPtr].keys = <<>> /\ Len(<<>>) = 0
    BY <1>2 DEF IsTree
  <2>. QED
    BY <2>2, <2>3 DEF NumKeys
<1>7. Given(h0, range0, height0, node)
  BY <1>2, <1>6 DEF Given
<1>. DEFINE c == h0[node].children[1]
<1>8. Repairing(h0, height0, node, K, h0, c, NumChild(h0, node))
  <2>1. Kept(h0, height0, h0, height0, height0[node])
    BY DEF Kept
  <2>2. Sound(h0, height0, node, K, h0)
    BY <2>1 DEF Sound
  <2>3. c \in DOMAIN h0 \ {RootPtr} /\ h0[c].parent = node /\ h0[c].childIndex = 0
    BY <1>2, <1>5, ChildOf
  <2>4. Stands(h0, height0, node, K, h0, c, 0, NumChild(h0, node))
    BY <2>2, <2>3 DEF Stands
  <2>. HIDE DEF c
  <2>5. NumChild(h0, node) <= NumChild(h0, node) - 0 /\ NumChild(h0, node) \in Int
    BY <1>5
  <2>. QED
    BY <1>5, <2>2, <2>4, <2>5 DEF Repairing
<1>. DEFINE Good(i) == \E g, d, m : /\ f[i] = State(g, d, m)
                                    /\ Repairing(h0, height0, node, K, g, d, m)
            T == {i \in Nat : i <= k => Good(i)}
<1>. HIDE DEF k
<1>9. 0 \in T
  <2>1. f[0] = s
    BY <1>3, <1>4 DEF IsLoop
  <2>. QED
    BY <1>8, <2>1
<1>10. ASSUME NEW i \in Nat \ {0}, i - 1 \in T PROVE i \in T
  <2>. SUFFICES ASSUME i <= k PROVE Good(i)
    BY <1>10
  <2>1. i \in 0 .. k /\ i # 0 /\ i - 1 <= k
    BY <1>3
  <2>2. PICK g, d, m : f[i - 1] = State(g, d, m) /\ Repairing(h0, height0, node, K, g, d, m)
    BY <1>10, <2>1
  <2>3. f[i] = IF f[i - 1].left <= 0 THEN f[i - 1] ELSE RepairOnce(node, f[i - 1])
    BY <1>4, <2>1 DEF IsLoop
  <2>4. State(g, d, m).left = m
    BY DEF State
  <2>5. f[i] = IF m <= 0 THEN State(g, d, m) ELSE RepairOnce(node, State(g, d, m))
    BY <2>2, <2>3, <2>4
  <2>6. CASE m <= 0
    BY <2>2, <2>5, <2>6
  <2>7. CASE ~(m <= 0)
    <3>1. m > 0
      BY <2>2, <2>7 DEF Repairing
    <3>. QED
      BY <1>7, <2>2, <2>5, <2>7, <3>1, OnceStands
  <2>. QED
    BY <2>6, <2>7
<1>. HIDE DEF T
<1>11. Nat \subseteq T
  BY <1>9, <1>10, EveryNumber
<1>12. Good(k)
  <2>1. k \in T /\ k <= k
    BY <1>3, <1>11
  <2>. QED
    BY <2>1 DEF T
<1>13. PICK g, d, m : f[k] = State(g, d, m) /\ Repairing(h0, height0, node, K, g, d, m)
  BY <1>12
<1>14. Repair(h0, node) = g
  BY <1>1, <1>13 DEF k, State
<1>. QED
  BY <1>6, <1>13, <1>14 DEF Repairing

(* The table of the splits below a new root.                               *)
IsRight(f, h, c, n) ==
    f = [i \in 0 .. n |-> IF i = 0 THEN h
                         ELSE LET t == f[i - 1] IN IF Overfull(t, c) THEN BigSplit(t, c, FALSE) ELSE t]

(* There is such a table.                                                  *)
LEMMA RightTableExists ==
    ASSUME NEW h, NEW c, NEW n \in Nat
    PROVE  \E f : IsRight(f, h, c, n)
<1>. DEFINE On(i, t) == IF Overfull(t, c) THEN BigSplit(t, c, FALSE) ELSE t
            S == {m \in Nat : \E f : IsRight(f, h, c, m)}
<1>1. 0 \in S
  <2>. DEFINE f == [i \in 0 .. 0 |-> h]
  <2>1. \A i \in 0 .. 0 : i = 0
    OBVIOUS
  <2>2. IsRight(f, h, c, 0)
    BY <2>1 DEF IsRight
  <2>. QED
    BY <2>2
<1>2. ASSUME NEW m \in Nat \ {0}, m - 1 \in S PROVE m \in S
  <2>1. PICK f : IsRight(f, h, c, m - 1)
    BY <1>2
  <2>2. \A i \in 0 .. (m - 1) : f[i] = IF i = 0 THEN h ELSE On(i, f[i - 1])
    BY <2>1 DEF IsRight
  <2>. HIDE DEF On
  <2>. DEFINE g == [i \in 0 .. m |-> IF i < m THEN f[i] ELSE On(m, f[m - 1])]
  <2>3. \A i \in 0 .. m : g[i] = IF i = 0 THEN h ELSE On(i, g[i - 1])
    <3>. SUFFICES ASSUME NEW i \in 0 .. m
                  PROVE  g[i] = IF i = 0 THEN h ELSE On(i, g[i - 1])
      OBVIOUS
    <3>1. CASE i < m
      <4>1. i \in 0 .. (m - 1) /\ g[i] = f[i] /\ (i # 0 => i - 1 \in 0 .. m /\ i - 1 < m)
        BY <3>1
      <4>2. i # 0 => g[i - 1] = f[i - 1]
        BY <4>1
      <4>. QED
        BY <2>2, <4>1, <4>2
    <3>2. CASE i = m
      <4>1. m - 1 \in 0 .. m /\ m - 1 < m /\ m # 0
        OBVIOUS
      <4>2. g[m - 1] = f[m - 1] /\ g[m] = On(m, f[m - 1])
        BY <4>1
      <4>. QED
        BY <3>2, <4>1, <4>2
    <3>. QED
      BY <3>1, <3>2
  <2>4. g = [i \in 0 .. m |-> g[i]]
    OBVIOUS
  <2>. HIDE DEF g
  <2>5. g = [i \in 0 .. m |-> IF i = 0 THEN h ELSE On(i, g[i - 1])]
    BY <2>3, <2>4
  <2>6. IsRight(g, h, c, m)
    BY <2>5 DEF IsRight, On
  <2>. QED
    BY <2>6
<1>. HIDE DEF S
<1>3. Nat \subseteq S
  BY <1>1, <1>2, EveryNumber
<1>. QED
  BY <1>3 DEF S

(* A tree with the keys K, in which c is below a node of the tree.         *)
UnderNode(K, g, c) == /\ \E R, H : Intact(g, R, H, K)
                   /\ c \in DOMAIN g \ {RootPtr} /\ g[c].parent \in DOMAIN g \ {RootPtr}

(* These splits.                                                           *)
LEMMA SplitRightKeeps ==
    ASSUME OrderFits, NEW K, NEW h, NEW c, UnderNode(K, h, c)
    PROVE  UnderNode(K, SplitRight(h, c), c)
<1>. DEFINE k == NumKeys(h, c)
            g == CHOOSE g : g = [i \in 0 .. k |->
                     IF i = 0 THEN h
                     ELSE IF Overfull(g[i - 1], c) THEN BigSplit(g[i - 1], c, FALSE) ELSE g[i - 1]]
<1>1. SplitRight(h, c) = g[k]
  BY DEF SplitRight
<1>2. k \in Nat
  <2>1. Heap(h) /\ c \in DOMAIN h
    BY DEF UnderNode, Intact, IsTree
  <2>. QED
    BY <2>1, NodeType
<1>3. IsRight(g, h, c, k)
  <2>. HIDE DEF k
  <2>1. PICK f : IsRight(f, h, c, k)
    BY <1>2, RightTableExists
  <2>. QED
    BY <2>1 DEF IsRight
<1>. HIDE DEF g
<1>. DEFINE T == {i \in Nat : i <= k => UnderNode(K, g[i], c)}
<1>. HIDE DEF k
<1>4. 0 \in T
  <2>1. g[0] = h
    BY <1>2, <1>3 DEF IsRight
  <2>. QED
    BY <2>1
<1>5. ASSUME NEW i \in Nat \ {0}, i - 1 \in T PROVE i \in T
  <2>. SUFFICES ASSUME i <= k PROVE UnderNode(K, g[i], c)
    BY <1>5
  <2>1. i \in 0 .. k /\ i # 0 /\ i - 1 <= k
    BY <1>2
  <2>. DEFINE t == g[i - 1]
  <2>2. UnderNode(K, t, c)
    BY <1>5, <2>1
  <2>3. g[i] = IF Overfull(t, c) THEN BigSplit(t, c, FALSE) ELSE t
    BY <1>3, <2>1 DEF IsRight
  <2>. HIDE DEF t
  <2>4. CASE ~Overfull(t, c)
    BY <2>2, <2>3, <2>4
  <2>5. CASE Overfull(t, c)
    <3>1. PICK R, H : Intact(t, R, H, K)
      BY <2>2 DEF UnderNode
    <3>2. c \in DOMAIN t \ {RootPtr} /\ t[c].parent \in DOMAIN t \ {RootPtr} /\ Heap(t)
      BY <2>2, <3>1 DEF UnderNode, Intact, IsTree
    <3>3. FALSE \in BOOLEAN /\ (FALSE => t[c].childIndex > 0)
      OBVIOUS
    <3>4. PICK m \in 1 .. NumKeys(t, c) - 1 : g[i] = SplitAt(t, c, m, FALSE)
      BY <2>3, <2>5, <3>2, <3>3, BigSplitIs
    <3>5. /\ \E S, I : Intact(g[i], S, I, K) /\ Kept(t, H, g[i], I, 0)
          /\ ChildSplit(t, g[i], t[c].parent, c, FALSE)
      BY <3>1, <3>2, <3>3, <3>4, SplitIntact
    <3>. QED
      BY <3>2, <3>5 DEF ChildSplit, UnderNode
  <2>. QED
    BY <2>4, <2>5
<1>. HIDE DEF T
<1>6. Nat \subseteq T
  BY <1>4, <1>5, EveryNumber
<1>7. k \in T /\ k <= k
  BY <1>2, <1>6
<1>. QED
  BY <1>1, <1>7 DEF T, k

(* The table of the new roots.                                             *)
IsRoots(f, h, n) ==
    f = [i \in 0 .. n |-> IF i = 0 THEN h
                         ELSE LET t == f[i - 1] IN IF Overfull(t, Root(t)) THEN SplitRight(NewRoot(t, Root(t)), Root(t)) ELSE t]

(* There is such a table.                                                  *)
LEMMA RootsTableExists ==
    ASSUME NEW h, NEW n \in Nat
    PROVE  \E f : IsRoots(f, h, n)
<1>. DEFINE On(i, t) == IF Overfull(t, Root(t)) THEN SplitRight(NewRoot(t, Root(t)), Root(t)) ELSE t
            S == {m \in Nat : \E f : IsRoots(f, h, m)}
<1>1. 0 \in S
  <2>. DEFINE f == [i \in 0 .. 0 |-> h]
  <2>1. \A i \in 0 .. 0 : i = 0
    OBVIOUS
  <2>2. IsRoots(f, h, 0)
    BY <2>1 DEF IsRoots
  <2>. QED
    BY <2>2
<1>2. ASSUME NEW m \in Nat \ {0}, m - 1 \in S PROVE m \in S
  <2>1. PICK f : IsRoots(f, h, m - 1)
    BY <1>2
  <2>2. \A i \in 0 .. (m - 1) : f[i] = IF i = 0 THEN h ELSE On(i, f[i - 1])
    BY <2>1 DEF IsRoots
  <2>. HIDE DEF On
  <2>. DEFINE g == [i \in 0 .. m |-> IF i < m THEN f[i] ELSE On(m, f[m - 1])]
  <2>3. \A i \in 0 .. m : g[i] = IF i = 0 THEN h ELSE On(i, g[i - 1])
    <3>. SUFFICES ASSUME NEW i \in 0 .. m
                  PROVE  g[i] = IF i = 0 THEN h ELSE On(i, g[i - 1])
      OBVIOUS
    <3>1. CASE i < m
      <4>1. i \in 0 .. (m - 1) /\ g[i] = f[i] /\ (i # 0 => i - 1 \in 0 .. m /\ i - 1 < m)
        BY <3>1
      <4>2. i # 0 => g[i - 1] = f[i - 1]
        BY <4>1
      <4>. QED
        BY <2>2, <4>1, <4>2
    <3>2. CASE i = m
      <4>1. m - 1 \in 0 .. m /\ m - 1 < m /\ m # 0
        OBVIOUS
      <4>2. g[m - 1] = f[m - 1] /\ g[m] = On(m, f[m - 1])
        BY <4>1
      <4>. QED
        BY <3>2, <4>1, <4>2
    <3>. QED
      BY <3>1, <3>2
  <2>4. g = [i \in 0 .. m |-> g[i]]
    OBVIOUS
  <2>. HIDE DEF g
  <2>5. g = [i \in 0 .. m |-> IF i = 0 THEN h ELSE On(i, g[i - 1])]
    BY <2>3, <2>4
  <2>6. IsRoots(g, h, m)
    BY <2>5 DEF IsRoots, On
  <2>. QED
    BY <2>6
<1>. HIDE DEF S
<1>3. Nat \subseteq S
  BY <1>1, <1>2, EveryNumber
<1>. QED
  BY <1>3 DEF S

(* A tree with the keys K that is not empty.                               *)
Planted(K, g) == (\E R, H : Intact(g, R, H, K)) /\ ~g[RootPtr].isLeaf

(* Its root.                                                               *)
LEMMA RootIs ==
    ASSUME NEW K, NEW g, NEW R, NEW H, Intact(g, R, H, K), ~g[RootPtr].isLeaf
    PROVE  Root(g) \in DOMAIN g \ {RootPtr} /\ g[Root(g)].parent = RootPtr
<1>1. IsTree(g, R, H) /\ Heap(g) /\ RootPtr \in DOMAIN g
  BY DEF Intact, IsTree, Heap
<1>2. NumChild(g, RootPtr) = NumKeys(g, RootPtr) + 1
  BY <1>1 DEF IsTree, NodeFits
<1>3. NumKeys(g, RootPtr) \in Nat
  BY <1>1, NodeType
<1>4. 1 \in 1 .. NumChild(g, RootPtr)
  BY <1>2, <1>3
<1>. QED
  BY <1>1, <1>4, ChildOf DEF Root

(* The tree grows until its root fits.                                     *)
THEOREM GrowRootKeeps ==
    ASSUME OrderFits, NEW K, NEW h, Planted(K, h)
    PROVE  Planted(K, GrowRoot(h))
<1>. DEFINE k == NumKeys(h, Root(h))
            g == CHOOSE g : g = [i \in 0 .. k |->
                     IF i = 0 THEN h
                     ELSE LET c == Root(g[i - 1])
                          IN IF Overfull(g[i - 1], c) THEN SplitRight(NewRoot(g[i - 1], c), c)
                                                      ELSE g[i - 1]]
<1>1. GrowRoot(h) = g[k]
  BY DEF GrowRoot
<1>2. k \in Nat
  <2>1. Heap(h) /\ Root(h) \in DOMAIN h
    BY RootIs DEF Planted, Intact, IsTree
  <2>. QED
    BY <2>1, NodeType
<1>3. IsRoots(g, h, k)
  <2>. HIDE DEF k
  <2>1. PICK f : IsRoots(f, h, k)
    BY <1>2, RootsTableExists
  <2>. QED
    BY <2>1, Zenon DEF IsRoots
<1>. HIDE DEF g
<1>. DEFINE T == {i \in Nat : i <= k => Planted(K, g[i])}
<1>. HIDE DEF k
<1>4. 0 \in T
  <2>1. g[0] = h
    BY <1>2, <1>3 DEF IsRoots
  <2>. QED
    BY <2>1
<1>5. ASSUME NEW i \in Nat \ {0}, i - 1 \in T PROVE i \in T
  <2>. SUFFICES ASSUME i <= k PROVE Planted(K, g[i])
    BY <1>5
  <2>1. i \in 0 .. k /\ i # 0 /\ i - 1 <= k
    BY <1>2
  <2>. DEFINE t == g[i - 1]
              c == Root(t)
  <2>2. Planted(K, t)
    BY <1>5, <2>1
  <2>3. g[i] = IF Overfull(t, c) THEN SplitRight(NewRoot(t, c), c) ELSE t
    BY <1>3, <2>1 DEF IsRoots
  <2>. HIDE DEF t, c
  <2>4. CASE ~Overfull(t, c)
    BY <2>2, <2>3, <2>4
  <2>5. CASE Overfull(t, c)
    <3>1. PICK R, H : Intact(t, R, H, K)
      BY <2>2 DEF Planted
    <3>2. c \in DOMAIN t \ {RootPtr} /\ t[c].parent = RootPtr
      BY <2>2, <3>1, RootIs DEF Planted, c
    <3>. DEFINE w == NewRoot(t, c)
    <3>3. /\ \E S, I : Intact(w, S, I, K)
          /\ c \in DOMAIN w \ {RootPtr} /\ w[c].parent \in DOMAIN w \ {RootPtr}
      BY <3>1, <3>2, NewRootIntact
    <3>4. UnderNode(K, w, c)
      BY <3>3 DEF UnderNode
    <3>. HIDE DEF w
    <3>5. g[i] = SplitRight(w, c)
      BY <2>3, <2>5 DEF w
    <3>6. UnderNode(K, g[i], c)
      BY <3>4, <3>5, SplitRightKeeps
    <3>7. PICK S, I : Intact(g[i], S, I, K)
      BY <3>6 DEF UnderNode
    <3>8. ~g[i][RootPtr].isLeaf
      <4>1. IsTree(g[i], S, I) /\ c \in DOMAIN g[i] \ {RootPtr}
        BY <3>6, <3>7 DEF UnderNode, Intact
      <4>. QED
        BY <4>1, EmptyIs
    <3>. QED
      BY <3>7, <3>8 DEF Planted
  <2>. QED
    BY <2>4, <2>5
<1>. HIDE DEF T
<1>6. Nat \subseteq T
  BY <1>4, <1>5, EveryNumber
<1>7. k \in T /\ k <= k
  BY <1>2, <1>6
<1>. QED
  BY <1>1, <1>7 DEF T, k

(* Nothing is wrong with the empty tree.                                   *)
LEMMA EmptyIntact ==
    \E R, H : Intact(EmptyTree, R, H, {})
<1>. DEFINE R == [n \in {RootPtr} |-> Nat]
            H == [n \in {RootPtr} |-> 0]
<1>1. IsTree(EmptyTree, R, H) /\ HoldsKeys(EmptyTree, R, {})
  BY EmptyTreeIs
<1>2. Woven(EmptyTree, H)
  BY EmptyTreeIsNeat DEF Neat
<1>3. DOMAIN EmptyTree = {RootPtr} /\ EmptyTree[RootPtr].parent = Null
      /\ EmptyTree[RootPtr].next = Null /\ EmptyTree[RootPtr].prev = Null
  BY DEF EmptyTree, NewNode
<1>4. Tied(EmptyTree)
  BY <1>3 DEF Tied
<1>5. Roomy(EmptyTree, R)
  BY <1>3 DEF Roomy
<1>. QED
  BY <1>1, <1>2, <1>4, <1>5 DEF Intact
-----------------------------------------------------------------------------
(* The requests of a batch that go to one leaf                             *)

(* The table of the requests for a leaf.                                   *)
IsRequests(f, h, b, e, n) ==
    f = [i \in 0 .. n |-> IF i = 0 THEN <<>>
                         ELSE LET t == f[i - 1] IN IF FindLeaf(h, RootPtr, b[i].key) = e THEN Append(t, b[i]) ELSE t]

(* There is such a table.                                                  *)
LEMMA RequestsTableExists ==
    ASSUME NEW h, NEW b, NEW e, NEW n \in Nat
    PROVE  \E f : IsRequests(f, h, b, e, n)
<1>. DEFINE On(i, t) == IF FindLeaf(h, RootPtr, b[i].key) = e THEN Append(t, b[i]) ELSE t
            S == {m \in Nat : \E f : IsRequests(f, h, b, e, m)}
<1>1. 0 \in S
  <2>. DEFINE f == [i \in 0 .. 0 |-> <<>>]
  <2>1. \A i \in 0 .. 0 : i = 0
    OBVIOUS
  <2>2. IsRequests(f, h, b, e, 0)
    BY <2>1 DEF IsRequests
  <2>. QED
    BY <2>2
<1>2. ASSUME NEW m \in Nat \ {0}, m - 1 \in S PROVE m \in S
  <2>1. PICK f : IsRequests(f, h, b, e, m - 1)
    BY <1>2
  <2>2. \A i \in 0 .. (m - 1) : f[i] = IF i = 0 THEN <<>> ELSE On(i, f[i - 1])
    BY <2>1 DEF IsRequests
  <2>. HIDE DEF On
  <2>. DEFINE g == [i \in 0 .. m |-> IF i < m THEN f[i] ELSE On(m, f[m - 1])]
  <2>3. \A i \in 0 .. m : g[i] = IF i = 0 THEN <<>> ELSE On(i, g[i - 1])
    <3>. SUFFICES ASSUME NEW i \in 0 .. m
                  PROVE  g[i] = IF i = 0 THEN <<>> ELSE On(i, g[i - 1])
      OBVIOUS
    <3>1. CASE i < m
      <4>1. i \in 0 .. (m - 1) /\ g[i] = f[i] /\ (i # 0 => i - 1 \in 0 .. m /\ i - 1 < m)
        BY <3>1
      <4>2. i # 0 => g[i - 1] = f[i - 1]
        BY <4>1
      <4>. QED
        BY <2>2, <4>1, <4>2
    <3>2. CASE i = m
      <4>1. m - 1 \in 0 .. m /\ m - 1 < m /\ m # 0
        OBVIOUS
      <4>2. g[m - 1] = f[m - 1] /\ g[m] = On(m, f[m - 1])
        BY <4>1
      <4>. QED
        BY <3>2, <4>1, <4>2
    <3>. QED
      BY <3>1, <3>2
  <2>4. g = [i \in 0 .. m |-> g[i]]
    OBVIOUS
  <2>. HIDE DEF g
  <2>5. g = [i \in 0 .. m |-> IF i = 0 THEN <<>> ELSE On(i, g[i - 1])]
    BY <2>3, <2>4
  <2>6. IsRequests(g, h, b, e, m)
    BY <2>5 DEF IsRequests, On
  <2>. QED
    BY <2>6
<1>. HIDE DEF S
<1>3. Nat \subseteq S
  BY <1>1, <1>2, EveryNumber
<1>. QED
  BY <1>3 DEF S

(* The same, for the whole run.                                            *)
CopiesRun(f, c, reqs, k) ==
    /\ f[0] = c
    /\ \A i \in 1 .. Len(reqs) :
          /\ reqs[i].key # k => f[i] = f[i - 1]
          /\ reqs[i].key = k /\ reqs[i].op = "INSERT" => f[i] = f[i - 1] + 1
          /\ reqs[i].key = k /\ reqs[i].op # "INSERT" =>
                f[i] = IF f[i - 1] = 0 THEN 0 ELSE f[i - 1] - 1

(* It is what CopiesDuring says.                                           *)
LEMMA CopiesRunIs ==
    ASSUME NEW c, NEW reqs, NEW k, Len(reqs) \in Nat
    PROVE  CopiesRun(CopiesDuring(c, reqs, k), c, reqs, k)
  BY CopiesAre DEF CopiesRun

(* One more request at the end: nothing changes before it.                 *)
LEMMA CopiesPrefix ==
    ASSUME NEW c, NEW k, NEW q \in Seq(Ops), NEW r \in Ops
    PROVE  \A i \in 0 .. Len(q) : CopiesDuring(c, Append(q, r), k)[i] = CopiesDuring(c, q, k)[i]
<1>. DEFINE n == Len(q)
            p == Append(q, r)
            f == CopiesDuring(c, q, k)
            g == CopiesDuring(c, p, k)
<1>1. n \in Nat /\ Len(p) = n + 1 /\ \A i \in 1 .. n : p[i] = q[i]
  OBVIOUS
<1>2. /\ f[0] = c
      /\ \A i \in 1 .. n :
            /\ q[i].key # k => f[i] = f[i - 1]
            /\ q[i].key = k /\ q[i].op = "INSERT" => f[i] = f[i - 1] + 1
            /\ q[i].key = k /\ q[i].op # "INSERT" =>
                  f[i] = IF f[i - 1] = 0 THEN 0 ELSE f[i - 1] - 1
  BY <1>1, CopiesAre
<1>3. /\ g[0] = c
      /\ \A i \in 1 .. n :
            /\ q[i].key # k => g[i] = g[i - 1]
            /\ q[i].key = k /\ q[i].op = "INSERT" => g[i] = g[i - 1] + 1
            /\ q[i].key = k /\ q[i].op # "INSERT" =>
                  g[i] = IF g[i - 1] = 0 THEN 0 ELSE g[i - 1] - 1
  <2>1. /\ g[0] = c
        /\ \A i \in 1 .. Len(p) :
              /\ p[i].key # k => g[i] = g[i - 1]
              /\ p[i].key = k /\ p[i].op = "INSERT" => g[i] = g[i - 1] + 1
              /\ p[i].key = k /\ p[i].op # "INSERT" =>
                    g[i] = IF g[i - 1] = 0 THEN 0 ELSE g[i - 1] - 1
    <3>1. Len(p) \in Nat
      BY <1>1
    <3>. HIDE DEF p
    <3>. QED
      BY <3>1, CopiesAre
  <2>. HIDE DEF p, g, n
  <2>2. \A i \in 1 .. n : i \in 1 .. Len(p) /\ p[i] = q[i]
    BY <1>1
  <2>. QED
    BY <2>1, <2>2
<1>. HIDE DEF f, g, n
<1>. DEFINE T == {i \in Nat : i <= n => f[i] = g[i]}
<1>4. 0 \in T
  BY <1>2, <1>3
<1>5. ASSUME NEW i \in Nat \ {0}, i - 1 \in T PROVE i \in T
  <2>. SUFFICES ASSUME i <= n PROVE f[i] = g[i]
    BY <1>5
  <2>1. i \in 1 .. n /\ f[i - 1] = g[i - 1]
    BY <1>1, <1>5
  <2>2. CASE q[i].key # k
    BY <1>2, <1>3, <2>1, <2>2
  <2>3. CASE q[i].key = k /\ q[i].op = "INSERT"
    BY <1>2, <1>3, <2>1, <2>3
  <2>4. CASE q[i].key = k /\ q[i].op # "INSERT"
    BY <1>2, <1>3, <2>1, <2>4
  <2>. QED
    BY <2>2, <2>3, <2>4
<1>. HIDE DEF T
<1>6. Nat \subseteq T
  BY <1>4, <1>5, EveryNumber
<1>7. \A i \in 0 .. n : g[i] = f[i]
  BY <1>1, <1>6 DEF T
<1>. QED
  BY <1>7 DEF f, g, n

(* What a leaf gets of the first i requests of b: all those with keys that *)
(* are searched for in it, so that it sees the same copies of them.        *)
GetsFrom(h, b, e, i, q) ==
    /\ q \in Seq(Ops)
    /\ \A j \in 1 .. Len(q) : FindLeaf(h, RootPtr, q[j].key) = e
    /\ \A c : \A k \in Keys : FindLeaf(h, RootPtr, k) = e =>
          LET f == CopiesDuring(c, q, k)
              g == CopiesDuring(c, b, k)
          IN /\ f[Len(q)] = g[i]
             /\ \A j \in 1 .. Len(q) : \E m \in 1 .. i : f[j] = g[m]

(* One more request.                                                       *)
LEMMA GetsNext ==
    ASSUME NEW h, NEW b \in Seq(Ops), NEW e, NEW i \in 1 .. Len(b),
           NEW q, GetsFrom(h, b, e, i - 1, q),
           NEW p, p = (IF FindLeaf(h, RootPtr, b[i].key) = e THEN Append(q, b[i]) ELSE q)
    PROVE  GetsFrom(h, b, e, i, p)
<1>1. q \in Seq(Ops) /\ b[i] \in Ops /\ Len(b) \in Nat /\ Len(q) \in Nat
  BY DEF GetsFrom
<1>2. CASE FindLeaf(h, RootPtr, b[i].key) # e
  <2>1. p = q
    BY <1>2
  <2>2. ASSUME NEW c, NEW k \in Keys, FindLeaf(h, RootPtr, k) = e
        PROVE  LET f == CopiesDuring(c, q, k)
                   g == CopiesDuring(c, b, k)
               IN /\ f[Len(q)] = g[i]
                  /\ \A j \in 1 .. Len(q) : \E m \in 1 .. i : f[j] = g[m]
    <3>. DEFINE f == CopiesDuring(c, q, k)
                g == CopiesDuring(c, b, k)
    <3>1. b[i].key # k
      BY <1>2, <2>2
    <3>2. g[i] = g[i - 1]
      BY <1>1, <3>1, CopiesAre
    <3>3. f[Len(q)] = g[i - 1] /\ \A j \in 1 .. Len(q) : \E m \in 1 .. i - 1 : f[j] = g[m]
      BY <2>2 DEF GetsFrom
    <3>. HIDE DEF f, g
    <3>4. \A m \in 1 .. i - 1 : m \in 1 .. i
      OBVIOUS
    <3>5. \A j \in 1 .. Len(q) : \E m \in 1 .. i : f[j] = g[m]
      BY <3>3, <3>4
    <3>6. f[Len(q)] = g[i]
      BY <3>2, <3>3
    <3>. QED
      BY <3>5, <3>6 DEF f, g
  <2>. QED
    BY <2>1, <2>2 DEF GetsFrom
<1>3. CASE FindLeaf(h, RootPtr, b[i].key) = e
  <2>. DEFINE n == Len(q)
              r == b[i]
  <2>1. p = Append(q, r)
    BY <1>3
  <2>2. p \in Seq(Ops) /\ Len(p) = n + 1 /\ p[n + 1] = r /\ n \in Nat
        /\ \A j \in 1 .. n : p[j] = q[j]
    BY <1>1, <2>1
  <2>3. ASSUME NEW j \in 1 .. Len(p) PROVE FindLeaf(h, RootPtr, p[j].key) = e
    <3>1. CASE j = n + 1
      BY <1>3, <2>2, <3>1
    <3>2. CASE j # n + 1
      <4>1. j \in 1 .. n
        BY <2>2, <3>2
      <4>. QED
        BY <2>2, <4>1 DEF GetsFrom
    <3>. QED
      BY <3>1, <3>2
  <2>4. ASSUME NEW c, NEW k \in Keys, FindLeaf(h, RootPtr, k) = e
        PROVE  LET f == CopiesDuring(c, p, k)
                   g == CopiesDuring(c, b, k)
               IN /\ f[Len(p)] = g[i]
                  /\ \A j \in 1 .. Len(p) : \E m \in 1 .. i : f[j] = g[m]
    <3>. DEFINE f == CopiesDuring(c, p, k)
                f0 == CopiesDuring(c, q, k)
                g == CopiesDuring(c, b, k)
    <3>1. \A j \in 0 .. n : f[j] = f0[j]
      BY <1>1, <2>1, CopiesPrefix
    <3>2. f0[n] = g[i - 1] /\ \A j \in 1 .. n : \E m \in 1 .. i - 1 : f0[j] = g[m]
      BY <2>4 DEF GetsFrom
    <3>3. /\ r.key # k => g[i] = g[i - 1]
          /\ r.key = k /\ r.op = "INSERT" => g[i] = g[i - 1] + 1
          /\ r.key = k /\ r.op # "INSERT" => g[i] = IF g[i - 1] = 0 THEN 0 ELSE g[i - 1] - 1
      BY <1>1, CopiesAre
    <3>4. /\ r.key # k => f[n + 1] = f[n]
          /\ r.key = k /\ r.op = "INSERT" => f[n + 1] = f[n] + 1
          /\ r.key = k /\ r.op # "INSERT" => f[n + 1] = IF f[n] = 0 THEN 0 ELSE f[n] - 1
      <4>1. Len(p) \in Nat /\ n + 1 \in 1 .. Len(p) /\ (n + 1) - 1 = n
        BY <2>2
      <4>. HIDE DEF r, n
      <4>2. /\ f[0] = c
            /\ \A j \in 1 .. Len(p) :
                  /\ p[j].key # k => f[j] = f[j - 1]
                  /\ p[j].key = k /\ p[j].op = "INSERT" => f[j] = f[j - 1] + 1
                  /\ p[j].key = k /\ p[j].op # "INSERT" =>
                        f[j] = IF f[j - 1] = 0 THEN 0 ELSE f[j - 1] - 1
        <5>1. CopiesRun(f, c, p, k)
          BY <4>1, CopiesRunIs
        <5>. HIDE DEF f
        <5>. QED
          BY <5>1 DEF CopiesRun
      <4>. HIDE DEF f
      <4>. QED
        BY <2>2, <4>1, <4>2
    <3>. HIDE DEF f, f0, g, n, r
    <3>5. f[n] = g[i - 1]
      BY <2>2, <3>1, <3>2
    <3>6. f[n + 1] = g[i]
      <4>1. CASE r.key # k
        BY <3>3, <3>4, <3>5, <4>1
      <4>2. CASE r.key = k /\ r.op = "INSERT"
        BY <3>3, <3>4, <3>5, <4>2
      <4>3. CASE r.key = k /\ r.op # "INSERT"
        BY <3>3, <3>4, <3>5, <4>3
      <4>. QED
        BY <4>1, <4>2, <4>3
    <3>7. ASSUME NEW j \in 1 .. Len(p) PROVE \E m \in 1 .. i : f[j] = g[m]
      <4>1. CASE j = n + 1
        <5>1. i \in 1 .. i
          OBVIOUS
        <5>. QED
          BY <3>6, <4>1, <5>1
      <4>2. CASE j # n + 1
        <5>1. j \in 1 .. n /\ j \in 0 .. n
          BY <2>2, <4>2
        <5>2. PICK m \in 1 .. i - 1 : f0[j] = g[m]
          BY <3>2, <5>1
        <5>3. m \in 1 .. i
          OBVIOUS
        <5>. QED
          BY <3>1, <5>1, <5>2, <5>3
      <4>. QED
        BY <4>1, <4>2
    <3>. QED
      BY <2>2, <3>6, <3>7 DEF f, g
  <2>. QED
    BY <2>2, <2>3, <2>4 DEF GetsFrom
<1>. QED
  BY <1>2, <1>3

(* So distribute gives a leaf the requests that belong there, and the keys *)
(* that are searched for in it get no more copies than in the whole batch. *)
LEMMA RequestsAre ==
    ASSUME NEW h, NEW b \in Seq(Ops), NEW e
    PROVE  GetsFrom(h, b, e, Len(b), RequestsFor(h, b, e))
<1>. DEFINE n == Len(b)
            f == CHOOSE f : f = [i \in 0 .. n |->
                     IF i = 0 THEN <<>>
                     ELSE IF FindLeaf(h, RootPtr, b[i].key) = e THEN Append(f[i - 1], b[i])
                                                                ELSE f[i - 1]]
<1>1. RequestsFor(h, b, e) = f[n]
  BY DEF RequestsFor
<1>2. n \in Nat
  OBVIOUS
<1>3. IsRequests(f, h, b, e, n)
  <2>1. PICK g : IsRequests(g, h, b, e, n)
    BY <1>2, RequestsTableExists
  <2>. QED
    BY <2>1, Zenon DEF IsRequests
<1>. HIDE DEF f
<1>. DEFINE T == {i \in Nat : i <= n => GetsFrom(h, b, e, i, f[i])}
<1>4. 0 \in T
  <2>1. f[0] = <<>>
    BY <1>2, <1>3 DEF IsRequests
  <2>2. <<>> \in Seq(Ops) /\ Len(<<>>) = 0 /\ \A j \in 1 .. 0 : FALSE
    OBVIOUS
  <2>3. ASSUME NEW c, NEW k PROVE CopiesDuring(c, <<>>, k)[0] = CopiesDuring(c, b, k)[0]
    <3>1. CopiesDuring(c, <<>>, k)[0] = c
      BY <2>2, CopiesAre
    <3>2. CopiesDuring(c, b, k)[0] = c
      BY <1>2, CopiesAre
    <3>. QED
      BY <3>1, <3>2
  <2>4. GetsFrom(h, b, e, 0, <<>>)
    BY <2>2, <2>3 DEF GetsFrom
  <2>. QED
    BY <2>1, <2>4
<1>5. ASSUME NEW i \in Nat \ {0}, i - 1 \in T PROVE i \in T
  <2>. SUFFICES ASSUME i <= n PROVE GetsFrom(h, b, e, i, f[i])
    BY <1>5
  <2>1. i \in 0 .. n /\ i \in 1 .. n /\ i # 0 /\ i - 1 <= n
    BY <1>2
  <2>2. GetsFrom(h, b, e, i - 1, f[i - 1])
    BY <1>5, <2>1
  <2>3. f[i] = IF FindLeaf(h, RootPtr, b[i].key) = e THEN Append(f[i - 1], b[i]) ELSE f[i - 1]
    BY <1>3, <2>1 DEF IsRequests
  <2>. QED
    BY <2>1, <2>2, <2>3, GetsNext
<1>. HIDE DEF T, n
<1>6. Nat \subseteq T
  BY <1>4, <1>5, EveryNumber
<1>7. n \in T /\ n <= n
  BY <1>2, <1>6
<1>. QED
  BY <1>1, <1>7 DEF T, n
-----------------------------------------------------------------------------
(* leaf_execute                                                            *)

(* Leaf n has the requests reqs, for keys that are searched for in it and  *)
(* that get no second copy.                                                *)
LeafWork(h, range, c, n, reqs) ==
    /\ n \in DOMAIN h /\ h[n].isLeaf /\ reqs \in Seq(Ops)
    /\ \A i \in 1 .. Len(reqs) : reqs[i].key \in range[n]
    /\ \A k \in Keys \cap range[n] : \A i \in 1 .. Len(reqs) :
          CopiesDuring(c[k], reqs, k)[i] <= 1

(* They have been applied to it: nothing but its keys has changed.         *)
LeafDone(h, range, height, c, n, g, d) ==
    /\ Intact(g, range, height, OnesOf(d)) /\ d \in [Keys -> 0 .. 1]
    /\ \A k \in Keys \ range[n] : d[k] = c[k]
    /\ DOMAIN g = DOMAIN h
    /\ \A x \in DOMAIN h : g[x].parent = h[x].parent /\ g[x].isLeaf = h[x].isLeaf

(* A leaf is as low as can be, and none is its own neighbour.              *)
LEMMA LeavesAre ==
    ASSUME NEW h, NEW range, NEW height, IsTree(h, range, height),
           NEW n \in DOMAIN h, h[n].isLeaf
    PROVE  /\ height[n] = 0
           /\ \A m \in DOMAIN h : \A k : h[m].isLeaf /\ k \in range[m] /\ k \in range[n] => m = n
<1>1. \A m \in DOMAIN h : h[m].isLeaf => height[m] = 0
  BY DEF IsTree, NodeFits
<1>2. ASSUME NEW m \in DOMAIN h, NEW k, h[m].isLeaf, k \in range[m], k \in range[n]
      PROVE  m = n
  <2>1. height[m] = height[n]
    BY <1>1, <1>2
  <2>. QED
    BY <1>2, <2>1, OnePath
<1>. QED
  BY <1>1, <1>2

(* leaf_execute leaves in it what the clients expect to be there.          *)
LEMMA LeafStep ==
    ASSUME NEW h, NEW range, NEW height, NEW c \in [Keys -> 0 .. 1],
           Intact(h, range, height, OnesOf(c)),
           NEW n, n # RootPtr, NEW reqs, LeafWork(h, range, c, n, reqs),
           NEW g, g = SetKeys(h, n, Apply(h[n].keys, reqs)), NEW d, d = CopiesThen(c, reqs)
    PROVE  LeafDone(h, range, height, c, n, g, d)
<1>. DEFINE s == h[n].keys
            S == range[n]
            ks == Apply(s, reqs)
            K == OnesOf(c)
            L == OnesOf(d)
<1>1. n \in DOMAIN h \ {RootPtr} /\ h[n].isLeaf /\ reqs \in Seq(Ops) /\ IsTree(h, range, height)
  BY DEF LeafWork, Intact
<1>2. s \in Seq(Nat) /\ Ascending(s)
  BY <1>1, NodeType DEF IsTree, NodeFits
<1>3. ToSet(s) = S \cap OnesOf(c)
  BY <1>1 DEF Intact, HoldsKeys
<1>4. \A i \in 1 .. Len(reqs) : reqs[i].key \in S
  BY DEF LeafWork
<1>5. \A k \in Keys \cap S : \A i \in 1 .. Len(reqs) : CopiesDuring(c[k], reqs, k)[i] <= 1
  BY DEF LeafWork
<1>6. g = SetKeys(h, n, ks)
  OBVIOUS
<1>. HIDE DEF s, S
<1>7. AppliedTo(ks, S, c, d)
  <2>1. s \in Seq(Nat) /\ Ascending(s) /\ ToSet(s) = S \cap OnesOf(c) /\ reqs \in Seq(Ops)
    BY <1>1, <1>2, <1>3
  <2>. QED
    BY <1>4, <1>5, <2>1, Applied
<1>. HIDE DEF ks
<1>8. ks \in Seq(Nat) /\ Ascending(ks) /\ ToSet(ks) = S \cap L
  BY <1>7 DEF AppliedTo
<1>9. L \ S = K \ S
  <2>1. DOMAIN c = Keys /\ DOMAIN d = Keys
    BY <1>7 DEF AppliedTo
  <2>. QED
    BY <1>7, <2>1 DEF OnesOf, AppliedTo
<1>. HIDE DEF K, L
<1>10. KeysWritten(h, range, height, L, g)
  <2>1. Intact(h, range, height, K)
    BY DEF K
  <2>2. L \ range[n] = K \ range[n] /\ ToSet(ks) = range[n] \cap L
    BY <1>8, <1>9 DEF S
  <2>. QED
    BY <1>1, <1>6, <1>8, <2>1, <2>2, KeysIntact
<1>. QED
  BY <1>7, <1>10 DEF LeafDone, L, S, AppliedTo, KeysWritten
-----------------------------------------------------------------------------
(* The stages                                                              *)

(* No key is in the tree twice (see the README for what this leaves out).  *)
OneCopy == MaxCopies = 1

(* What the stage has to do, in a tree with these ranges and heights, in   *)
(* which the nodes to be repaired are at height d.                         *)
WorkFits(range, height, d) ==
    /\ stage = "COLLECT" => DOMAIN todo = {} /\ updates = {}
    /\ stage = "EXEC_LEAF" =>
          /\ \A n \in DOMAIN todo : LeafWork(heap, range, contents, n, todo[n])
          /\ \A p \in updates : p \in DOMAIN heap /\ height[p] = 1
    /\ stage = "EXEC_INTERNAL" =>
          /\ \A n \in DOMAIN todo : n \in DOMAIN heap /\ height[n] = d
          /\ \A p \in updates : p \in DOMAIN heap /\ height[p] = d + 1
    /\ stage = "EXEC_ROOT" => DOMAIN todo = {} /\ updates = {} /\ ~heap[RootPtr].isLeaf

Stages == {"COLLECT", "EXEC_LEAF", "EXEC_INTERNAL", "EXEC_ROOT"}

(* The tree between two executions of nodes is intact, holds what the      *)
(* clients put there, and has all nodes that are still to be executed.     *)
PalmInv ==
    /\ order \in Orders /\ stage \in Stages /\ contents \in [Keys -> 0 .. 1]
    /\ \E range, height, d : /\ d \in Nat /\ Intact(heap, range, height, OnesOf(contents))
                             /\ WorkFits(range, height, d)

(* The order of a tree is one of those it may have.                        *)
LEMMA OrderIs ==
    ASSUME order \in Orders
    PROVE  OrderFits
  BY OrdersAssumption DEF OrderFits

(* No client has put anything there.                                       *)
LEMMA NothingThere ==
    /\ [k \in Keys |-> 0] \in [Keys -> 0 .. 1]
    /\ OnesOf([k \in Keys |-> 0]) = {}
  BY DEF OnesOf

(* At the start.                                                           *)
LEMMA PalmStart ==
    ASSUME Init
    PROVE  PalmInv
<1>1. PICK R, H : Intact(EmptyTree, R, H, {})
  BY EmptyIntact
<1>2. contents \in [Keys -> 0 .. 1] /\ OnesOf(contents) = {}
  BY NothingThere DEF Init
<1>3. Intact(heap, R, H, OnesOf(contents))
  BY <1>1, <1>2 DEF Init
<1>4. WorkFits(R, H, 0)
  BY DEF Init, WorkFits
<1>5. 0 \in Nat /\ order \in Orders /\ stage \in Stages
  BY DEF Init, Stages
<1>. QED
  BY <1>2, <1>3, <1>4, <1>5 DEF PalmInv

(* What distribute gives a leaf is work for it.                            *)
LEMMA GivenWork ==
    ASSUME OneCopy, NEW range, NEW height, IsTree(heap, range, height),
           contents \in [Keys -> 0 .. 1], NEW b \in Seq(Ops),
           \A k \in Keys : \A i \in 1 .. Len(b) : CopiesDuring(contents[k], b, k)[i] <= MaxCopies,
           NEW e, \E i \in DOMAIN b : e = FindLeaf(heap, RootPtr, b[i].key)
    PROVE  LeafWork(heap, range, contents, e, RequestsFor(heap, b, e))
<1>. DEFINE q == RequestsFor(heap, b, e)
<1>1. Keys \subseteq Nat /\ range[RootPtr] = Nat /\ RootPtr \in DOMAIN heap
  BY BoundAssumption DEF IsTree, Heap
<1>2. ASSUME NEW k \in Keys, NEW m, m = FindLeaf(heap, RootPtr, k)
      PROVE  m \in DOMAIN heap /\ heap[m].isLeaf /\ k \in range[m]
  <2>1. k \in range[RootPtr]
    BY <1>1
  <2>. QED
    BY <1>1, <1>2, <2>1, FindLeafFinds
<1>3. \A i \in DOMAIN b : b[i].key \in Keys
  <2>1. \A i \in DOMAIN b : b[i] \in Ops
    OBVIOUS
  <2>. QED
    BY <2>1 DEF Ops
<1>4. e \in DOMAIN heap /\ heap[e].isLeaf
  BY <1>2, <1>3
<1>5. GetsFrom(heap, b, e, Len(b), q)
  BY RequestsAre
<1>. HIDE DEF q
<1>6. q \in Seq(Ops) /\ \A j \in 1 .. Len(q) : FindLeaf(heap, RootPtr, q[j].key) = e
  BY <1>5 DEF GetsFrom
<1>7. ASSUME NEW j \in 1 .. Len(q) PROVE q[j].key \in range[e]
  <2>1. q[j].key \in Keys /\ FindLeaf(heap, RootPtr, q[j].key) = e
    <3>1. q[j] \in Ops
      BY <1>6
    <3>. QED
      BY <1>6, <3>1 DEF Ops
  <2>. QED
    BY <1>2, <2>1
<1>8. ASSUME NEW k \in Keys \cap range[e], NEW j \in 1 .. Len(q)
      PROVE  CopiesDuring(contents[k], q, k)[j] <= 1
  <2>1. FindLeaf(heap, RootPtr, k) = e
    <3>. DEFINE m == FindLeaf(heap, RootPtr, k)
    <3>1. m \in DOMAIN heap /\ heap[m].isLeaf /\ k \in range[m] /\ k \in range[e]
      BY <1>2
    <3>. HIDE DEF m
    <3>2. m = e
      BY <1>4, <3>1, LeavesAre
    <3>. QED
      BY <3>2 DEF m
  <2>2. PICK i \in 1 .. Len(b) : CopiesDuring(contents[k], q, k)[j] = CopiesDuring(contents[k], b, k)[i]
    BY <1>5, <2>1 DEF GetsFrom
  <2>. QED
    BY <2>2 DEF OneCopy
<1>. QED
  BY <1>4, <1>6, <1>7, <1>8 DEF LeafWork, q

(* COLLECT, SEARCH and DISTRIBUTE.                                         *)
LEMMA CollectKeeps ==
    ASSUME OneCopy, PalmInv, NEW b \in Batches, Collect(b)
    PROVE  PalmInv'
<1>1. PICK range, height, d :
          d \in Nat /\ Intact(heap, range, height, OnesOf(contents)) /\ WorkFits(range, height, d)
  BY DEF PalmInv
<1>2. b \in Seq(Ops)
  <2>1. PICK n \in 1 .. BatchSize : b \in [1 .. n -> Ops]
    BY DEF Batches
  <2>2. n \in Nat
    BY <2>1, BoundAssumption
  <2>. QED
    BY <2>1, <2>2
<1>3. /\ order' = order /\ heap' = heap /\ contents' = contents /\ updates' = updates
      /\ stage = "COLLECT" /\ stage' = "EXEC_LEAF"
      /\ order \in Orders /\ contents \in [Keys -> 0 .. 1] /\ IsTree(heap, range, height)
  BY <1>1 DEF Collect, PalmInv, Intact
<1>4. updates = {}
  BY <1>1, <1>3 DEF WorkFits
<1>5. ASSUME NEW e \in DOMAIN todo' PROVE LeafWork(heap, range, contents, e, todo'[e])
  <2>1. /\ e \in {FindLeaf(heap, RootPtr, b[i].key) : i \in DOMAIN b}
        /\ todo'[e] = RequestsFor(heap, b, e)
    BY <1>5 DEF Collect
  <2>2. \A k \in Keys : \A i \in 1 .. Len(b) : CopiesDuring(contents[k], b, k)[i] <= MaxCopies
    BY DEF Collect
  <2>3. LeafWork(heap, range, contents, e, RequestsFor(heap, b, e))
    BY <1>2, <1>3, <2>1, <2>2, GivenWork
  <2>. QED
    BY <2>1, <2>3
<1>6. WorkFits(range, height, d)'
  BY <1>3, <1>4, <1>5 DEF WorkFits
<1>7. Intact(heap', range, height, OnesOf(contents'))
  BY <1>1, <1>3
<1>8. order' \in Orders /\ stage' \in Stages /\ contents' \in [Keys -> 0 .. 1]
  BY <1>3 DEF Stages
<1>. QED
  BY <1>1, <1>6, <1>7, <1>8 DEF PalmInv
(* Once there is a leaf, that it gets its requests means work for others   *)
(* as before, and for the node above it if it has got out of shape.        *)
LEMMA LeafKeeps ==
    ASSUME PalmInv, NEW n \in DOMAIN todo, LeafExecute(n)
    PROVE  PalmInv'
<1>1. PICK range, height, d :
          d \in Nat /\ Intact(heap, range, height, OnesOf(contents)) /\ WorkFits(range, height, d)
  BY DEF PalmInv
<1>. DEFINE reqs == todo[n]
            others == DOMAIN todo \ {n}
<1>2. /\ order' = order /\ stage = "EXEC_LEAF" /\ stage' = stage
      /\ contents' = CopiesThen(contents, reqs)
      /\ todo' = [m \in others |-> todo[m]]
      /\ order \in Orders /\ contents \in [Keys -> 0 .. 1]
  BY DEF LeafExecute, Done, CopiesThen, PalmInv
<1>3. /\ \A m \in DOMAIN todo : LeafWork(heap, range, contents, m, todo[m])
      /\ \A p \in updates : p \in DOMAIN heap /\ height[p] = 1
  BY <1>1, <1>2 DEF WorkFits
<1>4. LeafWork(heap, range, contents, n, reqs) /\ IsTree(heap, range, height)
  BY <1>1, <1>3 DEF Intact
<1>. HIDE DEF reqs, others
<1>5. CASE n # RootPtr
  <2>1. heap' = SetKeys(heap, n, Apply(heap[n].keys, reqs)) /\ RequestUpdate(n)
    BY <1>5 DEF LeafExecute, SetKeys, reqs
  <2>2. LeafDone(heap, range, height, contents, n, heap', contents')
    BY <1>1, <1>2, <1>4, <1>5, <2>1, LeafStep
  <2>3. /\ Intact(heap', range, height, OnesOf(contents')) /\ contents' \in [Keys -> 0 .. 1]
        /\ \A k \in Keys \ range[n] : contents'[k] = contents[k]
        /\ DOMAIN heap' = DOMAIN heap
        /\ \A x \in DOMAIN heap : heap'[x].parent = heap[x].parent /\ heap'[x].isLeaf = heap[x].isLeaf
    BY <2>2 DEF LeafDone
  <2>4. ASSUME NEW m \in others PROVE LeafWork(heap', range, contents', m, todo'[m])
    <3>1. LeafWork(heap, range, contents, m, todo[m]) /\ todo'[m] = todo[m] /\ m # n
      BY <1>2, <1>3 DEF others
    <3>2. ASSUME NEW k \in Keys \cap range[m] PROVE contents'[k] = contents[k]
      <4>1. k \notin range[n]
        BY <1>4, <3>1, LeavesAre DEF LeafWork
      <4>. QED
        BY <2>3, <4>1
    <3>. QED
      BY <2>3, <3>1, <3>2 DEF LeafWork
  <2>5. ASSUME NEW p \in updates' PROVE p \in DOMAIN heap' /\ height[p] = 1
    <3>1. p \in updates \/ p = heap'[n].parent
      BY <2>1 DEF RequestUpdate
    <3>2. height[n] = 0
      BY <1>4, LeavesAre DEF LeafWork
    <3>3. heap[n].parent \in DOMAIN heap /\ height[heap[n].parent] = height[n] + 1
      BY <1>4, <1>5, HeightOf DEF LeafWork
    <3>. QED
      BY <1>3, <1>4, <2>3, <3>1, <3>2, <3>3 DEF LeafWork
  <2>6. WorkFits(range, height, d)'
    <3>1. \A m \in DOMAIN todo' : LeafWork(heap', range, contents', m, todo'[m])
      BY <1>2, <2>4
    <3>. QED
      BY <1>2, <2>5, <3>1 DEF WorkFits
  <2>7. order' \in Orders /\ stage' \in Stages
    BY <1>2 DEF Stages
  <2>. QED
    BY <1>1, <2>3, <2>6, <2>7 DEF PalmInv
<1>6. CASE n = RootPtr
  <2>. DEFINE g == FirstLeaf(heap)
              leaf == g[RootPtr].children[1]
  <2>1. heap' = SetKeys(g, leaf, Apply(g[leaf].keys, reqs)) /\ RequestUpdate(leaf)
    BY <1>6 DEF LeafExecute, SetKeys, reqs
  <2>2. heap[RootPtr].isLeaf /\ DOMAIN heap = {RootPtr} /\ height[RootPtr] = 0
    BY <1>4, <1>6, EmptyIs DEF LeafWork
  <2>. HIDE DEF leaf
  <2>3. PICK R, H : Intact(g, R, H, OnesOf(contents)) /\ OnlyLeaf(g, R, leaf)
    <3>1. leaf = g[RootPtr].children[1]
      BY DEF leaf
    <3>2. g = FirstLeaf(heap)
      OBVIOUS
    <3>. HIDE DEF g
    <3>. QED
      BY <1>1, <2>2, <3>1, <3>2, FirstLeafIntact
  <2>. HIDE DEF g
  <2>4. LeafWork(g, R, contents, leaf, reqs)
    <3>1. range[n] = Nat
      BY <1>4, <1>6 DEF IsTree
    <3>. QED
      BY <1>4, <2>3, <3>1 DEF LeafWork, OnlyLeaf
  <2>5. LeafDone(g, R, H, contents, leaf, heap', contents')
    BY <1>2, <2>1, <2>3, <2>4, LeafStep DEF OnlyLeaf
  <2>6. /\ Intact(heap', R, H, OnesOf(contents')) /\ contents' \in [Keys -> 0 .. 1]
        /\ DOMAIN heap' = DOMAIN g /\ heap'[leaf].parent = RootPtr /\ heap'[leaf].isLeaf
    BY <2>3, <2>5 DEF LeafDone, OnlyLeaf
  <2>7. DOMAIN todo' = {} /\ updates = {}
    <3>1. \A m \in DOMAIN todo : m = n
      BY <1>3, <1>6, <2>2 DEF LeafWork
    <3>2. others = {}
      BY <3>1 DEF others
    <3>3. \A p \in updates : FALSE
      BY <1>3, <2>2
    <3>. QED
      BY <1>2, <3>2, <3>3
  <2>8. ASSUME NEW p \in updates' PROVE p \in DOMAIN heap' /\ H[p] = 1
    <3>1. p = RootPtr
      BY <2>1, <2>6, <2>7 DEF RequestUpdate
    <3>2. IsTree(heap', R, H) /\ leaf \in DOMAIN heap' \ {RootPtr}
      BY <2>3, <2>6 DEF Intact, OnlyLeaf
    <3>3. H[leaf] = 0
      BY <2>6, <3>2, LeavesAre
    <3>4. RootPtr \in DOMAIN heap' /\ H[RootPtr] = H[leaf] + 1
      BY <2>6, <3>2, HeightOf
    <3>. QED
      BY <3>1, <3>3, <3>4
  <2>9. WorkFits(R, H, d)'
    BY <1>2, <2>7, <2>8 DEF WorkFits
  <2>10. order' \in Orders /\ stage' \in Stages
    BY <1>2 DEF Stages
  <2>. QED
    BY <1>1, <2>6, <2>9, <2>10 DEF PalmInv
<1>. QED
  BY <1>5, <1>6
(* REDISTRIBUTE: the nodes that were asked for are one level higher.       *)
LEMMA RedistributeKeeps ==
    ASSUME PalmInv, Redistribute
    PROVE  PalmInv'
<1>1. PICK range, height, d :
          d \in Nat /\ Intact(heap, range, height, OnesOf(contents)) /\ WorkFits(range, height, d)
  BY DEF PalmInv
<1>2. /\ order' = order /\ heap' = heap /\ contents' = contents /\ updates' = {}
      /\ stage \in {"EXEC_LEAF", "EXEC_INTERNAL"} /\ stage' = AfterRedistribute
      /\ todo' = IF stage' = "EXEC_INTERNAL" THEN [n \in updates |-> <<>>] ELSE <<>>
      /\ order \in Orders /\ contents \in [Keys -> 0 .. 1] /\ IsTree(heap, range, height)
  BY <1>1 DEF Redistribute, PalmInv, Intact
<1>3. PICK e \in Nat : e >= 1 /\ \A p \in updates : p \in DOMAIN heap /\ height[p] = e
  <2>1. CASE stage = "EXEC_LEAF"
    BY <1>1, <2>1 DEF WorkFits
  <2>2. CASE stage = "EXEC_INTERNAL"
    <3>1. d + 1 \in Nat /\ d + 1 >= 1
      BY <1>1
    <3>. QED
      BY <1>1, <2>2, <3>1 DEF WorkFits
  <2>. QED
    BY <1>2, <2>1, <2>2
<1>4. DOMAIN <<>> = {}
  OBVIOUS
<1>5. CASE updates = {}
  <2>1. stage' = "COLLECT"
    BY <1>2, <1>5 DEF AfterRedistribute
  <2>2. DOMAIN todo' = {}
    BY <1>2, <1>4, <2>1
  <2>3. WorkFits(range, height, d)'
    BY <1>2, <2>1, <2>2 DEF WorkFits
  <2>. QED
    BY <1>1, <1>2, <2>1, <2>3 DEF PalmInv, Stages
<1>6. CASE updates = {RootPtr}
  <2>1. stage' = "EXEC_ROOT"
    BY <1>2, <1>6 DEF AfterRedistribute
  <2>2. DOMAIN todo' = {}
    BY <1>2, <1>4, <2>1
  <2>3. ~heap[RootPtr].isLeaf
    <3>1. heap[RootPtr].isLeaf => height[RootPtr] = 0
      BY <1>2, LeavesAre DEF IsTree, Heap
    <3>2. height[RootPtr] = e
      BY <1>3, <1>6
    <3>. QED
      BY <1>3, <3>1, <3>2
  <2>4. WorkFits(range, height, d)'
    BY <1>2, <2>1, <2>2, <2>3 DEF WorkFits
  <2>. QED
    BY <1>1, <1>2, <2>1, <2>4 DEF PalmInv, Stages
<1>7. CASE updates # {} /\ updates # {RootPtr}
  <2>1. stage' = "EXEC_INTERNAL"
    BY <1>2, <1>7 DEF AfterRedistribute
  <2>2. DOMAIN todo' = updates
    BY <1>2, <2>1
  <2>3. WorkFits(range, height, e)'
    BY <1>2, <1>3, <2>1, <2>2 DEF WorkFits
  <2>. QED
    BY <1>1, <1>2, <1>3, <2>1, <2>3 DEF PalmInv, Stages
<1>. QED
  BY <1>5, <1>6, <1>7

(* internal_execute: it merges away only nodes one level lower than the    *)
(* one that it repairs, so the other workers find theirs.                  *)
LEMMA InternalKeeps ==
    ASSUME PalmInv, NEW n \in DOMAIN todo, InternalExecute(n)
    PROVE  PalmInv'
<1>1. PICK range, height, d :
          d \in Nat /\ Intact(heap, range, height, OnesOf(contents)) /\ WorkFits(range, height, d)
  BY DEF PalmInv
<1>. DEFINE others == DOMAIN todo \ {n}
            K == OnesOf(contents)
<1>2. /\ order' = order /\ contents' = contents /\ stage = "EXEC_INTERNAL" /\ stage' = stage
      /\ heap' = Repair(heap, n) /\ NumChild(heap, n) >= 2
      /\ RequestUpdate(n) /\ todo' = [m \in others |-> todo[m]]
      /\ order \in Orders /\ contents \in [Keys -> 0 .. 1] /\ stage \in Stages
  BY DEF InternalExecute, Done, PalmInv
<1>3. /\ \A m \in DOMAIN todo : m \in DOMAIN heap /\ height[m] = d
      /\ \A p \in updates : p \in DOMAIN heap /\ height[p] = d + 1
  BY <1>1, <1>2 DEF WorkFits
<1>4. Intact(heap, range, height, K) /\ n \in DOMAIN heap /\ height[n] = d /\ OrderFits
  BY <1>1, <1>2, <1>3, OrderIs
<1>. HIDE DEF others, K
<1>5. Sound(heap, height, n, K, heap') /\ n # RootPtr
  BY <1>2, <1>4, RepairSound
<1>6. PICK R, H : Intact(heap', R, H, K) /\ Kept(heap, height, heap', H, d)
  BY <1>4, <1>5 DEF Sound
<1>7. \A m \in DOMAIN todo : m \in DOMAIN heap' /\ H[m] = d
  <2>1. \A m \in DOMAIN todo : m \in DOMAIN heap /\ height[m] = d /\ height[m] >= d
    BY <1>1, <1>3
  <2>. QED
    BY <1>6, <2>1 DEF Kept
<1>8. \A p \in updates : p \in DOMAIN heap' /\ H[p] = d + 1
  <2>1. \A p \in updates : p \in DOMAIN heap /\ height[p] = d + 1 /\ height[p] >= d
    BY <1>1, <1>3
  <2>. QED
    BY <1>6, <2>1 DEF Kept
<1>9. heap'[n].parent \in DOMAIN heap' /\ H[heap'[n].parent] = d + 1
  <2>1. IsTree(heap', R, H) /\ n \in DOMAIN heap' \ {RootPtr} /\ H[n] = d
    BY <1>5, <1>6, <1>7 DEF Intact
  <2>. QED
    BY <2>1, HeightOf
<1>10. \A p \in updates' : p \in DOMAIN heap' /\ H[p] = d + 1
  BY <1>2, <1>8, <1>9 DEF RequestUpdate
<1>11. \A m \in DOMAIN todo' : m \in DOMAIN heap' /\ H[m] = d
  BY <1>2, <1>7 DEF others
<1>12. WorkFits(R, H, d)'
  BY <1>2, <1>10, <1>11 DEF WorkFits
<1>13. Intact(heap', R, H, OnesOf(contents'))
  BY <1>2, <1>6 DEF K
<1>. QED
  BY <1>1, <1>2, <1>12, <1>13 DEF PalmInv

(* root_execute.                                                           *)
LEMMA RootKeeps ==
    ASSUME PalmInv, ExecRoot
    PROVE  PalmInv'
<1>1. PICK range, height, d :
          d \in Nat /\ Intact(heap, range, height, OnesOf(contents)) /\ WorkFits(range, height, d)
  BY DEF PalmInv
<1>. DEFINE K == OnesOf(contents)
<1>2. /\ order' = order /\ todo' = todo /\ updates' = updates
      /\ stage = "EXEC_ROOT" /\ stage' = "COLLECT" /\ heap' = RootExecute(heap)
      /\ contents' = IF heap'[RootPtr].isLeaf THEN [k \in Keys |-> 0] ELSE contents
      /\ order \in Orders /\ contents \in [Keys -> 0 .. 1]
  BY DEF ExecRoot, PalmInv
<1>3. DOMAIN todo = {} /\ updates = {} /\ ~heap[RootPtr].isLeaf
  BY <1>1, <1>2 DEF WorkFits
<1>. HIDE DEF K
<1>4. \E R, H : Intact(heap', R, H, OnesOf(contents'))
  <2>1. CASE NumKeys(heap, Root(heap)) # 0
    <3>1. heap' = GrowRoot(heap)
      BY <1>2, <2>1 DEF RootExecute
    <3>2. Planted(K, heap) /\ OrderFits
      BY <1>1, <1>2, <1>3, OrderIs DEF Planted, K
    <3>3. Planted(K, heap')
      BY <3>1, <3>2, GrowRootKeeps
    <3>4. contents' = contents
      BY <1>2, <3>3 DEF Planted
    <3>. QED
      BY <3>3, <3>4 DEF Planted, K
  <2>2. CASE NumKeys(heap, Root(heap)) = 0
    <3>1. heap' = EmptyTree
      BY <1>2, <2>2 DEF RootExecute
    <3>2. EmptyTree[RootPtr].isLeaf
      BY DEF EmptyTree, NewNode
    <3>3. OnesOf(contents') = {}
      BY <1>2, <3>1, <3>2, NothingThere
    <3>. QED
      BY <3>1, <3>3, EmptyIntact
  <2>. QED
    BY <2>1, <2>2
<1>5. PICK R, H : Intact(heap', R, H, OnesOf(contents'))
  BY <1>4
<1>6. WorkFits(R, H, d)'
  BY <1>2, <1>3 DEF WorkFits
<1>7. contents' \in [Keys -> 0 .. 1]
  BY <1>2, NothingThere
<1>. QED
  BY <1>1, <1>2, <1>5, <1>6, <1>7 DEF PalmInv, Stages

(* All the steps.                                                          *)
LEMMA PalmStep ==
    ASSUME OneCopy, PalmInv, [Next]_vars
    PROVE  PalmInv'
<1>1. CASE Redistribute
  BY <1>1, RedistributeKeeps
<1>2. CASE ExecRoot
  BY <1>2, RootKeeps
<1>3. ASSUME NEW b \in Batches, Collect(b) PROVE PalmInv'
  BY <1>3, CollectKeeps
<1>4. ASSUME NEW n \in DOMAIN todo, LeafExecute(n) PROVE PalmInv'
  BY <1>4, LeafKeeps
<1>5. ASSUME NEW n \in DOMAIN todo, InternalExecute(n) PROVE PalmInv'
  BY <1>5, InternalKeeps
<1>6. CASE UNCHANGED vars
  BY <1>6 DEF vars, PalmInv, WorkFits
<1>. QED
  BY <1>1, <1>2, <1>3, <1>4, <1>5, <1>6 DEF Next
-----------------------------------------------------------------------------
(* What the runs check                                                     *)

(* What is true of an intact tree, in the words of PalmTree.               *)
LEMMA PalmInvShows ==
    ASSUME OneCopy, PalmInv
    PROVE  TypeOK /\ ContentsKept /\ Searchable /\ Linked /\ UniformDepth
<1>1. PICK range, height, d :
          d \in Nat /\ Intact(heap, range, height, OnesOf(contents)) /\ WorkFits(range, height, d)
  BY DEF PalmInv
<1>2. /\ IsTree(heap, range, height) /\ HoldsKeys(heap, range, OnesOf(contents))
      /\ Woven(heap, height) /\ Tied(heap) /\ Heap(heap) /\ RootPtr \in DOMAIN heap
  BY <1>1 DEF Intact, IsTree, Heap
<1>3. order \in Orders /\ stage \in Stages /\ contents \in [Keys -> 0 .. 1]
  BY DEF PalmInv
<1>4. TypeOK
  <2>1. IsHeap(heap)
    BY <1>2, TreeTyped
  <2>2. DOMAIN todo \subseteq DOMAIN heap
    <3>1. stage \in {"COLLECT", "EXEC_ROOT"} => DOMAIN todo = {}
      BY <1>1 DEF WorkFits
    <3>2. stage = "EXEC_LEAF" => \A n \in DOMAIN todo : n \in DOMAIN heap
      BY <1>1 DEF WorkFits, LeafWork
    <3>3. stage = "EXEC_INTERNAL" => \A n \in DOMAIN todo : n \in DOMAIN heap
      BY <1>1 DEF WorkFits
    <3>. QED
      BY <1>3, <3>1, <3>2, <3>3 DEF Stages
  <2>3. updates \subseteq DOMAIN heap
    BY <1>1, <1>3 DEF WorkFits, Stages
  <2>4. contents \in [Keys -> 0 .. MaxCopies]
    BY <1>3 DEF OneCopy
  <2>. QED
    BY <1>3, <2>1, <2>2, <2>3, <2>4 DEF TypeOK, Stages
<1>5. ContentsKept /\ Searchable
  <2>1. DOMAIN contents \subseteq Nat /\ \A k \in DOMAIN contents : contents[k] \in {0, 1}
    BY <1>3, BoundAssumption
  <2>. QED
    BY <1>2, <2>1, TreeHolds DEF ContentsKept, Searchable
<1>6. ParentPointers
  <2>1. \A n \in Below(heap, RootPtr) : n \in DOMAIN heap
    BY <1>2, BelowIs
  <2>2. \A n \in DOMAIN heap : Placed(heap, n)
    BY <1>2 DEF IsTree
  <2>. QED
    BY <2>1, <2>2 DEF ParentPointers, ParentsFit, Placed
<1>7. LevelLists
  BY <1>2, LevelsAreLinked DEF LevelLists
<1>8. NoDanglingPointers
  <2>1. ASSUME NEW n \in DOMAIN heap
        PROVE  {heap[n].parent, heap[n].next, heap[n].prev} \cup ToSet(heap[n].children)
                   \subseteq DOMAIN heap \cup {Null}
    <3>1. heap[n].parent \in DOMAIN heap \cup {Null}
      <4>1. CASE n = RootPtr
        BY <1>2, <4>1 DEF Tied
      <4>2. CASE n # RootPtr
        BY <1>2, <4>2, HeightOf
      <4>. QED
        BY <4>1, <4>2
    <3>2. heap[n].next \in DOMAIN heap \cup {Null}
      BY <1>2 DEF Woven, NextFits
    <3>3. heap[n].prev \in DOMAIN heap \cup {Null}
      BY <1>2 DEF Tied
    <3>4. ToSet(heap[n].children) \subseteq DOMAIN heap
      BY <1>2, OneParent
    <3>. QED
      BY <3>1, <3>2, <3>3, <3>4
  <2>. QED
    BY <2>1 DEF NoDanglingPointers
<1>9. UniformDepth
  <2>1. Heights(heap, RootPtr) = {height[RootPtr]}
    BY <1>2, HeightsIs
  <2>. QED
    BY <2>1, FS_Singleton DEF UniformDepth
<1>. QED
  BY <1>4, <1>5, <1>6, <1>7, <1>8, <1>9 DEF Linked

(* The invariant holds.                                                    *)
LEMMA PalmInvHolds ==
    ASSUME OneCopy
    PROVE  Spec => []PalmInv
<1>1. Init => PalmInv
  BY PalmStart
<1>2. PalmInv /\ [Next]_vars => PalmInv'
  BY PalmStep
<1>. QED
  BY <1>1, <1>2, PTL DEF Spec

(* TypeOK: whatever the batches, the slots of a stage and the nodes to be  *)
(* updated after it are nodes of the tree: no merge deletes one that is    *)
(* still to be executed (release queue and slots of worker.hpp).           *)
THEOREM PalmTypeOK ==
    ASSUME OneCopy
    PROVE  Spec => []TypeOK
<1>1. PalmInv => TypeOK
  BY PalmInvShows
<1>. QED
  BY <1>1, PalmInvHolds, PTL

(* ContentsKept: the leaves hold what the clients put there, in order: no  *)
(* borrow, merge or split of internal_execute and root_execute loses,      *)
(* repeats or misplaces a key.                                             *)
THEOREM PalmContentsKept ==
    ASSUME OneCopy
    PROVE  Spec => []ContentsKept
<1>1. PalmInv => ContentsKept
  BY PalmInvShows
<1>. QED
  BY <1>1, PalmInvHolds, PTL

(* Searchable: at every stage SEARCH would find each key of the tree.      *)
THEOREM PalmSearchable ==
    ASSUME OneCopy
    PROVE  Spec => []Searchable
<1>1. PalmInv => Searchable
  BY PalmInvShows
<1>. QED
  BY <1>1, PalmInvHolds, PTL

(* Linked: parents, places and the lists of the levels are right between   *)
(* any two executions, and nothing leads to a node that was merged away.   *)
THEOREM PalmLinked ==
    ASSUME OneCopy
    PROVE  Spec => []Linked
<1>1. PalmInv => Linked
  BY PalmInvShows
<1>. QED
  BY <1>1, PalmInvHolds, PTL

(* UniformDepth: all leaves stay equally far from the root.                *)
THEOREM PalmUniformDepth ==
    ASSUME OneCopy
    PROVE  Spec => []UniformDepth
<1>1. PalmInv => UniformDepth
  BY PalmInvShows
<1>. QED
  BY <1>1, PalmInvHolds, PTL
=============================================================================
