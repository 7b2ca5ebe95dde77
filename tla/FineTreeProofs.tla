--------------------------- MODULE FineTreeProofs ---------------------------
(***************************************************************************)
(* What FineTree's latches protect, for any number of threads, keys and    *)
(* order of the tree, while keys are inserted and looked up: the tree is   *)
(* right at every step, gets tell the truth, some operation can go on,     *)
(* inserts write to latched nodes, and at rest the tree passes its checks. *)
(* Removes are left out: with them next to other operations the tree does  *)
(* not keep its keys (FineTreeMissed).                                     *)
(***************************************************************************)
EXTENDS FineTree, NodeHeapProofs, TLAPS

-----------------------------------------------------------------------------
(* The invariant                                                           *)

(* Loads in which nothing is removed.                                      *)
NoRemoves == "REMOVE" \notin load.ops

Present == {k \in load.keys : contents[k] = 1}

(* The keys that size counts: those present and those being inserted.      *)
Counted == {k \in load.keys : \/ contents[k] = 1
                              \/ \E t \in Threads : op[t] = "INSERT" /\ key[t] = k}

(* A latch has one writer or readers only; writers have different keys.    *)
Alone == \A t, u \in Threads : \A n \in held[t] \cap held[u] :
            t # u => op[t] = "GET" /\ op[u] = "GET"
OwnKeys == \A t, u \in Threads :
              op[t] = "INSERT" /\ op[u] = "INSERT" /\ key[t] = key[u] => t = u

AtRest(t) == op[t] = "none" /\ held[t] = {}

(* What is known of an operation under way: an insert's key is not there.  *)
Called(t) ==
    /\ op[t] \in {"INSERT", "GET"} /\ key[t] \in load.keys
    /\ (contents[key[t]] > 0) \in seen[t]
    /\ op[t] = "INSERT" => contents[key[t]] = 0

(* A thread has come to, or waits for, a node that its search leads to; it *)
(* holds the parent of the node it waits for and nothing below, and an     *)
(* insert holds what its split may reach.                                  *)
OnItsWay(t, range, height) ==
    /\ node[t] \in DOMAIN heap /\ key[t] \in range[node[t]]
    /\ held[t] \subseteq DOMAIN heap
    /\ node[t] = RootPtr => held[t] \subseteq {RootPtr}
    /\ pc[t] = "wait" =>
          /\ node[t] = RootPtr => held[t] = {}
          /\ node[t] # RootPtr => heap[node[t]].parent \in held[t]
          /\ \A y \in held[t] : height[y] > height[node[t]]
    /\ pc[t] = "hold" =>
          /\ node[t] \in held[t]
          /\ \A y \in held[t] : height[y] >= height[node[t]]
    /\ op[t] = "INSERT" => Guarded(heap, held[t], load.order)

Types ==
    /\ load \in Loads
    /\ pc \in [Threads -> {"idle", "wait", "hold"}]
    /\ op \in [Threads -> {"INSERT", "REMOVE", "GET", "none"}]
    /\ key \in [Threads -> load.keys \cup {NoKey}]
    /\ node \in [Threads -> Nat \cup {Null}]
    /\ held \in [Threads -> SUBSET Nat]
    /\ contents \in [load.keys -> {0, 1}]
    /\ seen \in [Threads -> SUBSET BOOLEAN]

Operations == \A t \in Threads : /\ pc[t] = "idle" => AtRest(t)
                                 /\ Running(t) => Called(t)

Searches(range, height) ==
    /\ IsTree(heap, range, height) /\ HoldsKeys(heap, range, Present)
    /\ Neat(heap, height, load.order)
    /\ \A t \in Threads : Running(t) => OnItsWay(t, range, height)

IInv == /\ Types /\ Alone /\ OwnKeys /\ Operations
        /\ size = Cardinality(Counted)
        /\ \E range, height : Searches(range, height)
-----------------------------------------------------------------------------
(* The load                                                                *)

(* What Loads may ask for.                                                 *)
LEMMA LoadIs ==
    ASSUME Types
    PROVE  /\ load.order \in Nat /\ load.order >= 3
           /\ load.keys \subseteq Nat /\ IsFiniteSet(load.keys)
           /\ NoRemoves => load.ops \subseteq {"INSERT", "GET"}
  BY LoadsAssumption DEF Types, NoRemoves

(* A step of one thread is a step of an operation.                         *)
LEMMA InitHolds == Init => IInv
<1>. SUFFICES ASSUME Init PROVE IInv
  OBVIOUS
<1>1. Types
  <2>1. load.keys \subseteq Nat
    BY LoadsAssumption DEF Init
  <2>. QED
    BY DEF Init, Types, Null
<1>2. Alone /\ OwnKeys /\ Operations
  BY DEF Init, Alone, OwnKeys, Operations, AtRest, Running
<1>3. size = Cardinality(Counted)
  <2>1. Counted = {}
    BY DEF Init, Counted
  <2>2. Cardinality(Counted) = 0
    BY <2>1, FS_EmptySet
  <2>. QED
    BY <2>2 DEF Init
<1>4. \E range, height : Searches(range, height)
  <2>. DEFINE range == [n \in {RootPtr} |-> Nat]
              height == [n \in {RootPtr} |-> 0]
  <2>1. heap = EmptyTree /\ \A t \in Threads : ~Running(t)
    BY DEF Init, Running
  <2>2. Present = {}
    BY DEF Init, Present
  <2>3. /\ IsTree(EmptyTree, range, height) /\ HoldsKeys(EmptyTree, range, {})
        /\ Neat(EmptyTree, height, load.order)
    BY EmptyTreeIs, EmptyTreeIsNeat
  <2>. HIDE DEF range, height
  <2>4. Searches(range, height)
    BY <2>1, <2>2, <2>3 DEF Searches
  <2>. QED
    BY <2>4
<1>. QED
  BY <1>1, <1>2, <1>3, <1>4 DEF IInv
-----------------------------------------------------------------------------
(* The steps on the way to a leaf                                          *)

(* A step that does not write the tree nor change what a thread is at      *)
(* leaves the thread on its way.                                           *)
Unmoved(u) == /\ pc'[u] = pc[u] /\ op'[u] = op[u] /\ key'[u] = key[u]
              /\ node'[u] = node[u] /\ held'[u] = held[u]

(* Then it is on its way still.                                            *)
LEMMA StaysOnItsWay ==
    ASSUME NEW u, NEW range, NEW height, OnItsWay(u, range, height),
           heap' = heap, load' = load, Unmoved(u)
    PROVE  OnItsWay(u, range, height)'
<1>. USE DEF Unmoved
<1>1. /\ node'[u] \in DOMAIN heap' /\ key'[u] \in range[node'[u]]
      /\ held'[u] \subseteq DOMAIN heap'
      /\ node'[u] = RootPtr => held'[u] \subseteq {RootPtr}
  BY DEF OnItsWay
<1>2. pc'[u] = "wait" =>
          /\ node'[u] = RootPtr => held'[u] = {}
          /\ node'[u] # RootPtr => heap'[node'[u]].parent \in held'[u]
          /\ \A y \in held'[u] : height[y] > height[node'[u]]
  BY DEF OnItsWay
<1>3. pc'[u] = "hold" =>
          /\ node'[u] \in held'[u]
          /\ \A y \in held'[u] : height[y] >= height[node'[u]]
  BY DEF OnItsWay
<1>4. op'[u] = "INSERT" => Guarded(heap', held'[u], load'.order)
  BY DEF OnItsWay
<1>. QED
  BY <1>1, <1>2, <1>3, <1>4 DEF OnItsWay

(* The keys of contents are there once or not at all.                      *)
LEMMA StartKeeps ==
    ASSUME IInv, NoRemoves, NEW t \in Threads, NEW o \in load.ops, NEW k \in load.keys,
           Start(t, o, k)
    PROVE  IInv'
<1>. USE DEF Running
<1>1. /\ load \in Loads /\ load' = load /\ heap' = heap /\ contents' = contents
      /\ held' = held /\ o \in {"INSERT", "GET"} /\ k \in Nat /\ IsFiniteSet(load.keys)
      /\ pc[t] = "idle" /\ op[t] = "none" /\ held[t] = {}
  BY LoadIs DEF IInv, Types, Start, Operations, AtRest
<1>2. /\ pc'[t] = "wait" /\ op'[t] = o /\ key'[t] = k /\ node'[t] = RootPtr
      /\ seen'[t] = {contents[k] > 0}
  BY DEF Start, IInv, Types
<1>3. \A u \in Threads \ {t} : Unmoved(u) /\ seen'[u] = seen[u]
  BY DEF Start, IInv, Types, Unmoved
<1>4. o = "INSERT" => /\ contents[k] = 0
                      /\ \A u \in Threads : Running(u) => op[u] = "GET" \/ key[u] # k
  BY DEF Start, MayStart
<1>5. Types'
  <2>1. /\ pc' \in [Threads -> {"idle", "wait", "hold"}]
        /\ op' \in [Threads -> {"INSERT", "REMOVE", "GET", "none"}]
        /\ key' \in [Threads -> load.keys \cup {NoKey}]
    BY <1>1 DEF IInv, Types, Start
  <2>2. node' \in [Threads -> Nat \cup {Null}]
    BY <1>1 DEF IInv, Types, Start, RootPtr
  <2>3. seen' \in [Threads -> SUBSET BOOLEAN]
    <3>1. {contents[k] > 0} \subseteq BOOLEAN
      BY DEF IInv
    <3>2. seen \in [Threads -> SUBSET BOOLEAN]
      BY DEF IInv, Types
    <3>3. seen' = [seen EXCEPT ![t] = {contents[k] > 0}]
      BY DEF Start
    <3>. DEFINE new == {contents[k] > 0}
    <3>. HIDE DEF new
    <3>. QED
      BY <3>1, <3>2, <3>3 DEF new
  <2>. QED
    BY <1>1, <2>1, <2>2, <2>3 DEF IInv, Types
<1>6. Alone'
  BY <1>1, <1>2, <1>3 DEF IInv, Alone, Unmoved
<1>7. OwnKeys'
  <2>1. ASSUME NEW u \in Threads \ {t}, o = "INSERT", op[u] = "INSERT" PROVE key[u] # k
    <3>1. Running(u)
      BY <2>1 DEF IInv, Operations, AtRest, Types
    <3>. QED
      BY <1>4, <2>1, <3>1
  <2>. QED
    BY <1>2, <1>3, <2>1 DEF IInv, OwnKeys, Unmoved
<1>8. Operations'
  <2>. SUFFICES ASSUME NEW u \in Threads
                PROVE  (pc'[u] = "idle" => AtRest(u)') /\ (Running(u)' => Called(u)')
    BY DEF Operations
  <2>1. CASE u = t
    <3>1. (contents[k] > 0) \in seen'[t]
      BY <1>2
    <3>2. Called(t)'
      BY <1>1, <1>2, <1>4, <3>1 DEF Called
    <3>. QED
      BY <1>2, <2>1, <3>2
  <2>2. CASE u # t
    <3>1. (pc[u] = "idle" => AtRest(u)) /\ (Running(u) => Called(u))
      BY DEF IInv, Operations
    <3>. QED
      BY <1>1, <1>3, <2>2, <3>1 DEF Unmoved, AtRest, Called
  <2>. QED
    BY <2>1, <2>2
<1>9. size' = Cardinality(Counted')
  <2>1. IsFiniteSet(Counted) /\ size = Cardinality(Counted)
    <3>1. Counted \subseteq load.keys
      BY DEF Counted
    <3>. QED
      BY <1>1, <3>1, FS_Subset DEF IInv
  <2>2. CASE o = "INSERT"
    <3>1. k \notin Counted
      <4>1. contents[k] # 1
        BY <1>4, <2>2
      <4>2. ASSUME NEW u \in Threads, op[u] = "INSERT" PROVE key[u] # k
        <5>1. Running(u)
          BY <4>2 DEF IInv, Operations, AtRest, Types
        <5>. QED
          BY <1>4, <2>2, <4>2, <5>1
      <4>. QED
        BY <4>1, <4>2 DEF Counted
    <3>2. Counted' = Counted \cup {k}
      BY <1>1, <1>2, <1>3, <2>2 DEF Counted, Unmoved
    <3>3. Cardinality(Counted \cup {k}) = Cardinality(Counted) + 1
      BY <2>1, <3>1, FS_AddElement
    <3>4. size' = size + 1
      BY <2>2 DEF Start
    <3>. QED
      BY <2>1, <3>2, <3>3, <3>4
  <2>3. CASE o # "INSERT"
    <3>1. Counted' = Counted
      BY <1>1, <1>2, <1>3, <2>3 DEF Counted, Unmoved
    <3>2. size' = size
      BY <2>3 DEF Start
    <3>. QED
      BY <2>1, <3>1, <3>2
  <2>. QED
    BY <2>2, <2>3
<1>10. PICK range, height : Searches(range, height)
  BY DEF IInv
<1>11. Searches(range, height)'
  <2>1. Present' = Present
    BY <1>1 DEF Present
  <2>2. /\ IsTree(heap, range, height) /\ HoldsKeys(heap, range, Present)
        /\ Neat(heap, height, load.order)
    BY <1>10 DEF Searches
  <2>3. ASSUME NEW u \in Threads, Running(u)' PROVE OnItsWay(u, range, height)'
    <3>1. CASE u = t
      <4>1. RootPtr \in DOMAIN heap /\ range[RootPtr] = Nat
        BY <2>2 DEF IsTree, Heap
      <4>2. held'[t] = {}
        BY <1>1
      <4>3. Guarded(heap', held'[t], load'.order)
        BY <4>2 DEF Guarded
      <4>. QED
        BY <1>1, <1>2, <3>1, <4>1, <4>2, <4>3 DEF OnItsWay
    <3>2. CASE u # t
      <4>1. Unmoved(u) /\ Running(u)
        BY <1>3, <2>3, <3>2 DEF Unmoved
      <4>2. OnItsWay(u, range, height)
        BY <1>10, <4>1 DEF Searches
      <4>. QED
        BY <1>1, <4>1, <4>2, StaysOnItsWay
    <3>. QED
      BY <3>1, <3>2
  <2>. QED
    BY <1>1, <2>1, <2>2, <2>3 DEF Searches
<1>. QED
  BY <1>5, <1>6, <1>7, <1>8, <1>9, <1>11 DEF IInv
(* A latch is taken from nobody who excludes it, and the latches given up  *)
(* are above a node that will not be split.                                *)
LEMMA LatchKeeps ==
    ASSUME IInv, NoRemoves, NEW t \in Threads, Latch(t)
    PROVE  IInv'
<1>. USE DEF Running
<1>. DEFINE n == node[t]
<1>1. /\ load' = load /\ heap' = heap /\ contents' = contents /\ size' = size
      /\ op' = op /\ key' = key /\ node' = node /\ seen' = seen
      /\ pc[t] = "wait"
  BY DEF Latch, treeVars
<1>2. /\ pc'[t] = "hold"
      /\ held'[t] = IF Safe(t, n) THEN {n} ELSE held[t] \cup {n}
  BY DEF Latch, IInv, Types
<1>3. \A u \in Threads \ {t} : Unmoved(u)
  BY <1>1 DEF Latch, IInv, Types, Unmoved
<1>4. PICK range, height : Searches(range, height)
  BY DEF IInv
<1>5. OnItsWay(t, range, height)
  BY <1>1, <1>4 DEF Searches
<1>6. n \in DOMAIN heap /\ n \in Nat
  BY <1>4, <1>5 DEF OnItsWay, Searches, IsTree, Heap
<1>7. n \in held'[t] /\ held'[t] \subseteq held[t] \cup {n}
  BY <1>2
<1>8. Types'
  <2>1. pc' \in [Threads -> {"idle", "wait", "hold"}]
    BY DEF Latch, IInv, Types
  <2>2. held' \in [Threads -> SUBSET Nat]
    BY <1>6 DEF Latch, IInv, Types
  <2>. QED
    BY <1>1, <2>1, <2>2 DEF IInv, Types
<1>9. Alone'
  <2>. SUFFICES ASSUME NEW u \in Threads, NEW v \in Threads,
                       NEW m \in held'[u] \cap held'[v], u # v
                PROVE  op[u] = "GET" /\ op[v] = "GET"
    BY <1>1 DEF Alone
  <2>1. ASSUME NEW w \in Threads \ {t}, m \in held[w], m \in held'[t]
        PROVE  op[w] = "GET" /\ op[t] = "GET"
    <3>1. CASE m = n
      BY <2>1, <3>1 DEF Latch, MayLatch
    <3>2. CASE m # n
      BY <1>7, <2>1, <3>2 DEF IInv, Alone
    <3>. QED
      BY <3>1, <3>2
  <2>2. CASE u = t
    BY <1>3, <2>1, <2>2 DEF Unmoved
  <2>3. CASE v = t
    BY <1>3, <2>1, <2>3 DEF Unmoved
  <2>4. CASE u # t /\ v # t
    BY <1>3, <2>4 DEF Unmoved, IInv, Alone
  <2>. QED
    BY <2>2, <2>3, <2>4
<1>10. OwnKeys'
  BY <1>1 DEF IInv, OwnKeys
<1>11. Operations'
  <2>. SUFFICES ASSUME NEW u \in Threads
                PROVE  (pc'[u] = "idle" => AtRest(u)') /\ (Running(u)' => Called(u)')
    BY DEF Operations
  <2>1. (pc[u] = "idle" => AtRest(u)) /\ (Running(u) => Called(u))
    BY DEF IInv, Operations
  <2>2. CASE u = t
    BY <1>1, <1>2, <2>1, <2>2 DEF AtRest, Called
  <2>3. CASE u # t
    BY <1>1, <1>3, <2>1, <2>3 DEF Unmoved, AtRest, Called
  <2>. QED
    BY <2>2, <2>3
<1>12. size' = Cardinality(Counted')
  <2>1. Counted' = Counted
    BY <1>1 DEF Counted
  <2>. QED
    BY <1>1, <2>1 DEF IInv
<1>13. OnItsWay(t, range, height)'
  <2>1. held'[t] \subseteq DOMAIN heap /\ (n = RootPtr => held'[t] \subseteq {RootPtr})
    BY <1>5, <1>6, <1>7 DEF OnItsWay
  <2>2. \A y \in held'[t] : height[y] >= height[n]
    <3>1. \A y \in held[t] : height[y] > height[n]
      BY <1>1, <1>5 DEF OnItsWay
    <3>2. \A y \in DOMAIN heap : height[y] \in Nat
      BY <1>4 DEF Searches, IsTree
    <3>. QED
      BY <1>6, <1>7, <2>1, <3>1, <3>2
  <2>3. ASSUME op[t] = "INSERT" PROVE Guarded(heap, held'[t], load.order)
    <3>1. CASE Safe(t, n)
      <4>1. held'[t] = {n} /\ ~heap[n].isLeaf /\ NumKeys(heap, n) + 1 < load.order
        BY <1>2, <2>3, <3>1 DEF Safe
      <4>2. NumKeys(heap, n) \in Nat /\ load.order \in Nat
        BY <1>4, <1>6, NodeType, LoadIs DEF Searches, IsTree, IInv
      <4>. QED
        BY <4>1, <4>2 DEF Guarded
    <3>2. CASE ~Safe(t, n)
      <4>1. held'[t] = held[t] \cup {n}
        BY <1>2, <3>2
      <4>2. Guarded(heap, held[t], load.order)
        BY <1>5, <2>3 DEF OnItsWay
      <4>3. n # RootPtr => heap[n].parent \in held[t]
        BY <1>1, <1>5 DEF OnItsWay
      <4>. QED
        BY <4>1, <4>2, <4>3 DEF Guarded
    <3>. QED
      BY <3>1, <3>2
  <2>4. key[t] \in range[n]
    BY <1>5 DEF OnItsWay
  <2>. QED
    BY <1>1, <1>2, <1>6, <1>7, <2>1, <2>2, <2>3, <2>4 DEF OnItsWay
<1>14. Searches(range, height)'
  <2>1. Present' = Present
    BY <1>1 DEF Present
  <2>2. /\ IsTree(heap, range, height) /\ HoldsKeys(heap, range, Present)
        /\ Neat(heap, height, load.order)
    BY <1>4 DEF Searches
  <2>3. ASSUME NEW u \in Threads, Running(u)' PROVE OnItsWay(u, range, height)'
    <3>1. CASE u = t
      BY <1>13, <3>1
    <3>2. CASE u # t
      <4>1. Unmoved(u) /\ Running(u)
        BY <1>3, <2>3, <3>2 DEF Unmoved
      <4>2. OnItsWay(u, range, height)
        BY <1>4, <4>1 DEF Searches
      <4>. QED
        BY <1>1, <4>1, <4>2, StaysOnItsWay
    <3>. QED
      BY <3>1, <3>2
  <2>. QED
    BY <1>1, <2>1, <2>2, <2>3 DEF Searches
<1>. QED
  BY <1>8, <1>9, <1>10, <1>11, <1>12, <1>14 DEF IInv

(* The search goes down one level.                                         *)
LEMMA DescendKeeps ==
    ASSUME IInv, NoRemoves, NEW t \in Threads, Descend(t)
    PROVE  IInv'
<1>. USE DEF Running
<1>. DEFINE n == node[t]
            c == ChildFor(heap, n, key[t])
<1>1. /\ load' = load /\ heap' = heap /\ contents' = contents /\ size' = size
      /\ op' = op /\ key' = key /\ held' = held /\ seen' = seen
      /\ pc[t] = "hold" /\ ~heap[n].isLeaf
  BY DEF Descend, treeVars
<1>2. pc'[t] = "wait" /\ node'[t] = c
  BY DEF Descend, IInv, Types
<1>3. \A u \in Threads \ {t} : Unmoved(u)
  BY <1>1 DEF Descend, IInv, Types, Unmoved
<1>4. PICK range, height : Searches(range, height)
  BY DEF IInv
<1>5. OnItsWay(t, range, height)
  BY <1>1, <1>4 DEF Searches
<1>6. n \in DOMAIN heap /\ key[t] \in range[n] /\ IsTree(heap, range, height) /\ key[t] \in Nat
  BY <1>4, <1>5 DEF OnItsWay, Searches, IsTree
<1>7. /\ c \in DOMAIN heap /\ c # RootPtr /\ heap[c].parent = n
      /\ height[n] = height[c] + 1 /\ key[t] \in range[c]
  BY <1>1, <1>6, ChildForIs
<1>. HIDE DEF c
<1>8. Types'
  <2>1. pc' \in [Threads -> {"idle", "wait", "hold"}]
    BY DEF Descend, IInv, Types
  <2>2. c \in Nat
    BY <1>6, <1>7 DEF IsTree, Heap
  <2>3. node' = [node EXCEPT ![t] = c]
    BY DEF Descend, c
  <2>4. node' \in [Threads -> Nat \cup {Null}]
    BY <2>2, <2>3 DEF IInv, Types
  <2>. QED
    BY <1>1, <2>1, <2>4 DEF IInv, Types
<1>9. Alone' /\ OwnKeys'
  BY <1>1 DEF IInv, Alone, OwnKeys
<1>10. Operations'
  <2>. SUFFICES ASSUME NEW u \in Threads
                PROVE  (pc'[u] = "idle" => AtRest(u)') /\ (Running(u)' => Called(u)')
    BY DEF Operations
  <2>1. (pc[u] = "idle" => AtRest(u)) /\ (Running(u) => Called(u))
    BY DEF IInv, Operations
  <2>2. CASE u = t
    BY <1>1, <1>2, <2>1, <2>2 DEF AtRest, Called
  <2>3. CASE u # t
    BY <1>1, <1>3, <2>1, <2>3 DEF Unmoved, AtRest, Called
  <2>. QED
    BY <2>2, <2>3
<1>11. size' = Cardinality(Counted')
  <2>1. Counted' = Counted
    BY <1>1 DEF Counted
  <2>. QED
    BY <1>1, <2>1 DEF IInv
<1>12. OnItsWay(t, range, height)'
  <2>1. \A y \in held[t] : height[y] > height[c]
    <3>1. held[t] \subseteq DOMAIN heap /\ \A y \in held[t] : height[y] >= height[n]
      BY <1>1, <1>5 DEF OnItsWay
    <3>2. \A y \in DOMAIN heap : height[y] \in Nat
      BY <1>6 DEF IsTree
    <3>. QED
      BY <1>6, <1>7, <3>1, <3>2
  <2>2. held[t] \subseteq DOMAIN heap /\ n \in held[t]
    BY <1>1, <1>5 DEF OnItsWay
  <2>3. op[t] = "INSERT" => Guarded(heap, held[t], load.order)
    BY <1>5 DEF OnItsWay
  <2>. QED
    BY <1>1, <1>2, <1>7, <2>1, <2>2, <2>3 DEF OnItsWay
<1>13. Searches(range, height)'
  <2>1. Present' = Present
    BY <1>1 DEF Present
  <2>2. /\ IsTree(heap, range, height) /\ HoldsKeys(heap, range, Present)
        /\ Neat(heap, height, load.order)
    BY <1>4 DEF Searches
  <2>3. ASSUME NEW u \in Threads, Running(u)' PROVE OnItsWay(u, range, height)'
    <3>1. CASE u = t
      BY <1>12, <3>1
    <3>2. CASE u # t
      <4>1. Unmoved(u) /\ Running(u)
        BY <1>3, <2>3, <3>2 DEF Unmoved
      <4>2. OnItsWay(u, range, height)
        BY <1>4, <4>1 DEF Searches
      <4>. QED
        BY <1>1, <4>1, <4>2, StaysOnItsWay
    <3>. QED
      BY <3>1, <3>2
  <2>. QED
    BY <1>1, <2>1, <2>2, <2>3 DEF Searches
<1>. QED
  BY <1>8, <1>9, <1>10, <1>11, <1>13 DEF IInv
-----------------------------------------------------------------------------
(* The steps at a leaf                                                     *)

(* A get leaves the copies of its key as they are, an insert makes it one. *)
Answers(t, copies) == \/ op[t] = "GET" /\ copies = contents[key[t]]
                      \/ op[t] = "INSERT" /\ copies = 1

Returned(t, copies) ==
    /\ Types' /\ Alone' /\ OwnKeys' /\ Operations' /\ Counted' = Counted
    /\ pc'[t] = "idle" /\ load' = load
    /\ \A u \in Threads \ {t} : Unmoved(u)
    /\ contents' = [contents EXCEPT ![key[t]] = copies]

(* The return of an operation, but for the tree.                           *)
LEMMA ReturnKeeps ==
    ASSUME IInv, NoRemoves, NEW t \in Threads, Running(t),
           NEW copies, Answers(t, copies), Return(t, copies)
    PROVE  Returned(t, copies)
<1>. USE DEF Running
<1>. DEFINE k == key[t]
<1>1. /\ load' = load /\ contents' = [contents EXCEPT ![k] = copies]
      /\ pc'[t] = "idle" /\ op'[t] = "none" /\ held'[t] = {}
  BY DEF Return, IInv, Types
<1>2. \A u \in Threads \ {t} : Unmoved(u)
  BY DEF Return, IInv, Types, Unmoved
<1>3. Called(t) /\ k \in load.keys /\ k \in Nat
  BY LoadIs DEF IInv, Operations, Called
<1>4. contents \in [load.keys -> {0, 1}] /\ copies \in {0, 1}
  BY <1>3 DEF IInv, Types, Answers
<1>5. contents'[k] = copies /\ \A x \in load.keys : x # k => contents'[x] = contents[x]
  BY <1>1, <1>3, <1>4
<1>6. \A u \in Threads \ {t} :
         seen'[u] = IF key[u] = k THEN seen[u] \cup {copies > 0} ELSE seen[u]
  BY Zenon DEF Return
<1>7. Types'
  <2>1. /\ pc' \in [Threads -> {"idle", "wait", "hold"}]
        /\ op' \in [Threads -> {"INSERT", "REMOVE", "GET", "none"}]
        /\ key' \in [Threads -> load.keys \cup {NoKey}]
        /\ node' \in [Threads -> Nat \cup {Null}]
    BY DEF Return, IInv, Types
  <2>2. held' \in [Threads -> SUBSET Nat]
    BY DEF Return, IInv, Types
  <2>3. contents' \in [load.keys -> {0, 1}]
    BY <1>1, <1>4
  <2>4. seen' \in [Threads -> SUBSET BOOLEAN]
    <3>. DEFINE b == copies > 0
    <3>1. b \in BOOLEAN
      BY <1>4
    <3>2. seen \in [Threads -> SUBSET BOOLEAN]
      BY DEF IInv, Types
    <3>3. seen' = [u \in Threads |->
                   CASE u = t -> {}
                     [] u # t /\ key[u] = key[t] -> seen[u] \cup {b}
                     [] OTHER -> seen[u]]
      BY DEF Return
    <3>. HIDE DEF b
    <3>4. seen' = [u \in Threads |-> IF u = t THEN {}
                       ELSE IF key[u] = key[t] THEN seen[u] \cup {b} ELSE seen[u]]
      BY <3>3
    <3>. QED
      BY <3>1, <3>2, <3>4
  <2>. QED
    BY <1>1, <2>1, <2>2, <2>3, <2>4 DEF IInv, Types
<1>8. Alone'
  BY <1>1, <1>2 DEF IInv, Alone, Unmoved
<1>9. OwnKeys'
  BY <1>1, <1>2 DEF IInv, OwnKeys, Unmoved
<1>10. Operations'
  <2>. SUFFICES ASSUME NEW u \in Threads
                PROVE  (pc'[u] = "idle" => AtRest(u)') /\ (Running(u)' => Called(u)')
    BY DEF Operations
  <2>1. (pc[u] = "idle" => AtRest(u)) /\ (Running(u) => Called(u))
    BY DEF IInv, Operations
  <2>2. CASE u = t
    BY <1>1, <2>2 DEF AtRest
  <2>3. CASE u # t
    <3>1. Unmoved(u)
      BY <1>2, <2>3
    <3>2. pc'[u] = "idle" => AtRest(u)'
      BY <2>1, <3>1 DEF Unmoved, AtRest
    <3>3. ASSUME Running(u) PROVE Called(u)'
      <4>1. /\ op'[u] \in {"INSERT", "GET"} /\ key'[u] \in load'.keys /\ key[u] \in load.keys
        BY <1>1, <2>1, <3>1, <3>3 DEF Unmoved, Called
      <4>2. (contents'[key[u]] > 0) \in seen'[u]
        <5>1. CASE key[u] = k
          <6>1. contents'[key[u]] = copies /\ seen'[u] = seen[u] \cup {copies > 0}
            BY <1>5, <1>6, <2>3, <5>1
          <6>. QED
            BY <6>1, Zenon
        <5>2. CASE key[u] # k
          <6>1. contents'[key[u]] = contents[key[u]] /\ seen'[u] = seen[u]
            BY <1>5, <1>6, <2>3, <4>1, <5>2
          <6>2. (contents[key[u]] > 0) \in seen[u]
            BY <2>1, <3>3 DEF Called
          <6>. QED
            BY <6>1, <6>2, Zenon
        <5>. QED
          BY <5>1, <5>2
      <4>3. op'[u] = "INSERT" => contents'[key[u]] = 0
        <5>. SUFFICES ASSUME op[u] = "INSERT" PROVE contents'[key[u]] = 0
          BY <3>1 DEF Unmoved
        <5>1. contents[key[u]] = 0
          BY <2>1, <3>3 DEF Called
        <5>2. CASE key[u] = k
          <6>1. op[t] # "INSERT"
            BY <2>3, <5>2 DEF IInv, OwnKeys
          <6>. QED
            BY <1>5, <5>1, <5>2, <6>1 DEF Answers
        <5>3. CASE key[u] # k
          BY <1>5, <4>1, <5>1, <5>3
        <5>. QED
          BY <5>2, <5>3
      <4>4. key'[u] = key[u]
        BY <3>1 DEF Unmoved
      <4>. QED
        BY <4>1, <4>2, <4>3, <4>4, Zenon DEF Called
    <3>. QED
      BY <3>1, <3>2, <3>3 DEF Unmoved
  <2>. QED
    BY <2>2, <2>3
<1>11. Counted' = Counted
  <2>1. CASE op[t] = "GET"
    <3>1. contents' = contents
      BY <1>1, <1>4, <2>1 DEF Answers
    <3>. QED
      BY <1>1, <1>2, <2>1, <3>1 DEF Counted, Unmoved
  <2>2. CASE op[t] = "INSERT"
    <3>1. copies = 1 /\ k \in Counted
      BY <1>3, <2>2 DEF Answers, Counted
    <3>2. k \in Counted'
      BY <1>1, <1>3, <1>5, <3>1 DEF Counted
    <3>3. ASSUME NEW x \in load.keys, x # k PROVE x \in Counted' <=> x \in Counted
      BY <1>1, <1>2, <1>5, <2>2, <3>3 DEF Counted, Unmoved
    <3>4. Counted \subseteq load.keys /\ Counted' \subseteq load.keys
      BY <1>1 DEF Counted
    <3>. QED
      BY <3>1, <3>2, <3>3, <3>4
  <2>. QED
    BY <2>1, <2>2 DEF Answers
<1>. QED
  BY <1>1, <1>2, <1>7, <1>8, <1>9, <1>10, <1>11 DEF Returned

(* A get changes nothing.                                                  *)
LEMMA GetKeeps ==
    ASSUME IInv, NoRemoves, NEW t \in Threads, GetAtLeaf(t)
    PROVE  IInv'
<1>1. Running(t) /\ op[t] = "GET" /\ heap' = heap /\ size' = size /\ Return(t, contents[key[t]])
  BY DEF GetAtLeaf, AtLeaf, Running
<1>2. Returned(t, contents[key[t]])
  BY <1>1, ReturnKeeps DEF Answers
<1>3. /\ Types' /\ Alone' /\ OwnKeys' /\ Operations' /\ Counted' = Counted
      /\ pc'[t] = "idle" /\ load' = load
      /\ \A u \in Threads \ {t} : Unmoved(u)
  BY <1>2 DEF Returned
<1>4. contents' = contents
  BY <1>2 DEF Returned, IInv, Types
<1>5. size' = Cardinality(Counted')
  BY <1>1, <1>3 DEF IInv
<1>6. PICK range, height : Searches(range, height)
  BY DEF IInv
<1>7. Searches(range, height)'
  <2>1. Present' = Present
    BY <1>3, <1>4 DEF Present
  <2>2. /\ IsTree(heap, range, height) /\ HoldsKeys(heap, range, Present)
        /\ Neat(heap, height, load.order)
    BY <1>6 DEF Searches
  <2>3. ASSUME NEW u \in Threads, Running(u)' PROVE OnItsWay(u, range, height)'
    <3>1. u # t
      BY <1>3, <2>3 DEF Running
    <3>2. Unmoved(u) /\ Running(u)
      BY <1>3, <2>3, <3>1 DEF Unmoved, Running
    <3>3. OnItsWay(u, range, height)
      BY <1>6, <3>2 DEF Searches
    <3>. QED
      BY <1>1, <1>3, <3>2, <3>3, StaysOnItsWay
  <2>. QED
    BY <1>1, <1>3, <2>1, <2>2, <2>3 DEF Searches
<1>. QED
  BY <1>3, <1>5, <1>7 DEF IInv
(* A thread that holds none of the nodes touched goes on as before.        *)
LEMMA GoesOn ==
    ASSUME NEW u, NEW range, NEW height, OnItsWay(u, range, height),
           IsTree(heap, range, height), pc[u] \in {"wait", "hold"},
           NEW R, NEW H, IsTree(heap', R, H),
           NEW L, OnlyTouches(heap, range, height, heap', R, H, L), held[u] \cap L = {},
           Unmoved(u), load' = load
    PROVE  OnItsWay(u, R, H)'
<1>. DEFINE n == node[u]
<1>1. /\ n \in DOMAIN heap /\ key[u] \in range[n] /\ held[u] \subseteq DOMAIN heap
      /\ n = RootPtr => held[u] \subseteq {RootPtr}
  BY DEF OnItsWay
<1>2. /\ DOMAIN heap \subseteq DOMAIN heap'
      /\ \A x \in DOMAIN heap : x \notin L => SameBody(heap', heap, x) /\ R[x] = range[x]
      /\ \A x \in DOMAIN heap \ {RootPtr} : heap[x].parent \notin L =>
            heap'[x].parent = heap[x].parent /\ R[x] = range[x]
      /\ \A x \in DOMAIN heap \ {RootPtr} : H[x] = height[x]
      /\ height[RootPtr] <= H[RootPtr]
  BY DEF OnlyTouches
<1>3. /\ \A x \in DOMAIN heap : height[x] \in Nat /\ H[x] \in Nat
      /\ RootPtr \in DOMAIN heap /\ R[RootPtr] = Nat /\ range[RootPtr] = Nat
  <2>1. \A x \in DOMAIN heap : height[x] \in Nat
    BY DEF IsTree
  <2>2. \A x \in DOMAIN heap' : H[x] \in Nat
    BY DEF IsTree
  <2>. QED
    BY <1>2, <2>1, <2>2 DEF IsTree, Heap
<1>4. \A y \in held[u] : y \notin L
  OBVIOUS
<1>5. key[u] \in R[n]
  <2>1. CASE n = RootPtr
    BY <1>1, <1>3, <2>1
  <2>2. CASE n # RootPtr /\ pc[u] = "hold"
    <3>1. n \notin L
      BY <1>4, <2>2 DEF OnItsWay
    <3>. QED
      BY <1>1, <1>2, <3>1
  <2>3. CASE n # RootPtr /\ pc[u] = "wait"
    <3>1. heap[n].parent \notin L
      BY <1>4, <2>3 DEF OnItsWay
    <3>. QED
      BY <1>1, <1>2, <2>3, <3>1
  <2>. QED
    BY <2>1, <2>2, <2>3
<1>6. ASSUME pc[u] = "wait"
      PROVE  /\ n = RootPtr => held[u] = {}
             /\ n # RootPtr => heap'[n].parent \in held[u]
             /\ \A y \in held[u] : H[y] > H[n]
  <2>1. /\ n = RootPtr => held[u] = {}
        /\ n # RootPtr => heap[n].parent \in held[u]
        /\ \A y \in held[u] : height[y] > height[n]
    BY <1>6 DEF OnItsWay
  <2>2. n # RootPtr => heap'[n].parent \in held[u]
    BY <1>1, <1>2, <1>4, <2>1
  <2>3. ASSUME NEW y \in held[u] PROVE H[y] > H[n]
    <3>1. n # RootPtr /\ H[n] = height[n]
      BY <1>1, <1>2, <2>1
    <3>2. H[y] >= height[y]
      BY <1>1, <1>2, <1>3
    <3>3. y \in DOMAIN heap /\ H[y] \in Nat /\ height[y] \in Nat /\ height[n] \in Nat
      BY <1>1, <1>3
    <3>4. height[y] > height[n]
      BY <2>1
    <3>. QED
      BY <3>1, <3>2, <3>3, <3>4
  <2>. QED
    BY <2>1, <2>2, <2>3
<1>7. ASSUME pc[u] = "hold"
      PROVE  n \in held[u] /\ \A y \in held[u] : H[y] >= H[n]
  <2>1. n \in held[u] /\ \A y \in held[u] : height[y] >= height[n]
    BY <1>7 DEF OnItsWay
  <2>2. ASSUME NEW y \in held[u] PROVE H[y] >= H[n]
    <3>0. y \in DOMAIN heap /\ H[y] \in Nat /\ height[y] \in Nat /\ height[n] \in Nat /\ H[n] \in Nat
      BY <1>1, <1>3
    <3>1. CASE n = RootPtr
      <4>1. y = n
        BY <1>1, <3>1
      <4>. QED
        BY <3>0, <4>1
    <3>2. CASE n # RootPtr
      <4>1. H[n] = height[n] /\ H[y] >= height[y]
        BY <1>1, <1>2, <1>3, <3>2
      <4>2. height[y] >= height[n]
        BY <2>1
      <4>. QED
        BY <3>0, <4>1, <4>2
    <3>. QED
      BY <3>1, <3>2
  <2>. QED
    BY <2>1, <2>2
<1>8. ASSUME op[u] = "INSERT" PROVE Guarded(heap', held[u], load.order)
  <2>. SUFFICES ASSUME NEW y \in held[u] \ {RootPtr},
                       heap'[y].isLeaf \/ NumKeys(heap', y) + 1 >= load.order
                PROVE  heap'[y].parent \in held[u]
    BY DEF Guarded
  <2>1. SameBody(heap', heap, y)
    BY <1>1, <1>2, <1>4
  <2>2. heap[y].isLeaf \/ NumKeys(heap, y) + 1 >= load.order
    BY <2>1 DEF SameBody, NumKeys
  <2>3. heap[y].parent \in held[u]
    BY <1>8, <2>2 DEF OnItsWay, Guarded
  <2>. QED
    BY <1>1, <1>2, <1>4, <2>3
<1>9. /\ pc'[u] = pc[u] /\ op'[u] = op[u] /\ key'[u] = key[u]
      /\ node'[u] = n /\ held'[u] = held[u]
  BY DEF Unmoved
<1>. HIDE DEF n
<1>. QED
  BY <1>1, <1>2, <1>5, <1>6, <1>7, <1>8, <1>9 DEF OnItsWay

(* What the insert writes is what NodeHeapProofs says keeps the tree.      *)
LEMMA InsertIs ==
    ASSUME NEW t, InsertAtLeaf(t)
    PROVE  heap' = InsertedAt(heap, node[t], key[t], load.order)
  BY DEF InsertAtLeaf, InsertedAt, SplitNode

(* The tree after it, as far as others see it.                             *)
Grown(t, range, height, R, H) ==
    /\ IsTree(heap', R, H) /\ HoldsKeys(heap', R, Present \cup {key[t]})
    /\ OnlyTouches(heap, range, height, heap', R, H, held[t])
    /\ Neat(heap', H, load.order)

(* Such a tree there is.                                                   *)
LEMMA InsertGrows ==
    ASSUME IInv, NoRemoves, NEW t \in Threads, InsertAtLeaf(t),
           NEW range, NEW height, Searches(range, height)
    PROVE  \E R, H : Grown(t, range, height, R, H)
<1>. DEFINE n == node[t]
            k == key[t]
            L == held[t]
<1>1. Running(t) /\ pc[t] = "hold" /\ op[t] = "INSERT" /\ heap[n].isLeaf
  BY DEF InsertAtLeaf, AtLeaf, Running
<1>2. /\ IsTree(heap, range, height) /\ HoldsKeys(heap, range, Present)
      /\ Neat(heap, height, load.order) /\ OnItsWay(t, range, height)
  BY <1>1 DEF Searches
<1>3. /\ n \in DOMAIN heap /\ k \in range[n] /\ L \subseteq DOMAIN heap /\ n \in L
      /\ Guarded(heap, L, load.order)
  BY <1>1, <1>2 DEF OnItsWay
<1>4. k \notin Present
  BY <1>1 DEF IInv, Operations, Called, Present
<1>5. load.order \in Nat /\ load.order >= 3
  BY LoadIs DEF IInv
<1>6. heap' = InsertedAt(heap, n, k, load.order)
  BY InsertIs
<1>. HIDE DEF n, k, L
<1>7. \E R, H : /\ IsTree(heap', R, H) /\ HoldsKeys(heap', R, Present \cup {k})
                /\ OnlyTouches(heap, range, height, heap', R, H, L)
                /\ Neat(heap', H, load.order)
  BY <1>1, <1>2, <1>3, <1>4, <1>5, <1>6, InsertKeeps DEF n
<1>. QED
  BY <1>7 DEF Grown, k, L

(* An insert, with all its splits.                                         *)
LEMMA InsertKeepsIt ==
    ASSUME IInv, NoRemoves, NEW t \in Threads, InsertAtLeaf(t)
    PROVE  IInv'
<1>1. Running(t) /\ op[t] = "INSERT" /\ size' = size
  BY DEF InsertAtLeaf, AtLeaf, Running
<1>2. key[t] \in load.keys /\ contents[key[t]] = 0
  BY <1>1 DEF IInv, Operations, Called
<1>3. Return(t, 1)
  <2>1. contents[key[t]] + 1 = 1
    BY <1>2
  <2>2. Return(t, contents[key[t]] + 1)
    BY DEF InsertAtLeaf
  <2>. QED
    BY <2>1, <2>2
<1>4. Returned(t, 1)
  BY <1>1, <1>3, ReturnKeeps DEF Answers
<1>5. /\ Types' /\ Alone' /\ OwnKeys' /\ Operations' /\ Counted' = Counted
      /\ pc'[t] = "idle" /\ load' = load
      /\ \A u \in Threads \ {t} : Unmoved(u)
      /\ contents' = [contents EXCEPT ![key[t]] = 1]
  BY <1>4 DEF Returned
<1>6. size' = Cardinality(Counted')
  BY <1>1, <1>5 DEF IInv
<1>7. PICK range, height : Searches(range, height)
  BY DEF IInv
<1>8. PICK R, H : Grown(t, range, height, R, H)
  BY <1>7, InsertGrows
<1>9. Searches(R, H)'
  <2>1. Present' = Present \cup {key[t]}
    BY <1>2, <1>5 DEF Present, IInv, Types
  <2>2. /\ IsTree(heap', R, H) /\ HoldsKeys(heap', R, Present')
        /\ Neat(heap', H, load'.order)
    BY <1>5, <1>8, <2>1 DEF Grown
  <2>3. ASSUME NEW u \in Threads, Running(u)' PROVE OnItsWay(u, R, H)'
    <3>1. u # t
      BY <1>5, <2>3 DEF Running
    <3>2. Unmoved(u) /\ Running(u)
      BY <1>5, <2>3, <3>1 DEF Unmoved, Running
    <3>3. OnItsWay(u, range, height) /\ IsTree(heap, range, height)
      BY <1>7, <3>2 DEF Searches
    <3>4. pc[u] \in {"wait", "hold"}
      BY <3>2 DEF IInv, Types, Running
    <3>5. held[u] \cap held[t] = {}
      BY <1>1, <3>1 DEF IInv, Alone
    <3>6. OnlyTouches(heap, range, height, heap', R, H, held[t])
      BY <1>8 DEF Grown
    <3>. QED
      BY <1>5, <2>2, <3>2, <3>3, <3>4, <3>5, <3>6, GoesOn
  <2>. QED
    BY <2>2, <2>3 DEF Searches
<1>. QED
  BY <1>5, <1>6, <1>9 DEF IInv
-----------------------------------------------------------------------------
(* Every step                                                              *)

(* The invariant is inductive while nothing is removed.                    *)
LEMMA StepKeeps == NoRemoves /\ IInv /\ [Next]_vars => IInv'
<1>. SUFFICES ASSUME NoRemoves, IInv, [Next]_vars PROVE IInv'
  OBVIOUS
<1>1. CASE UNCHANGED vars
  <2>1. /\ load' = load /\ heap' = heap /\ size' = size /\ contents' = contents
        /\ pc' = pc /\ op' = op /\ key' = key /\ node' = node /\ held' = held /\ seen' = seen
    BY <1>1 DEF vars, treeVars
  <2>2. Types' /\ Alone' /\ OwnKeys' /\ Operations'
    BY <2>1 DEF IInv, Types, Alone, OwnKeys, Operations, AtRest, Called, Running
  <2>3. size' = Cardinality(Counted')
    BY <2>1 DEF IInv, Counted
  <2>4. PICK range, height : Searches(range, height)
    BY DEF IInv
  <2>5. Searches(range, height)'
    <3>1. \A u \in Threads : OnItsWay(u, range, height) => OnItsWay(u, range, height)'
      BY <2>1, StaysOnItsWay DEF Unmoved
    <3>. QED
      BY <2>1, <2>4, <3>1 DEF Searches, Present, Running
  <2>. QED
    BY <2>2, <2>3, <2>5 DEF IInv
<1>2. ASSUME NEW t \in Threads, NEW o \in load.ops, NEW k \in load.keys, Start(t, o, k)
      PROVE  IInv'
  BY <1>2, StartKeeps
<1>3. ASSUME NEW t \in Threads, Latch(t) PROVE IInv'
  BY <1>3, LatchKeeps
<1>4. ASSUME NEW t \in Threads, Descend(t) PROVE IInv'
  BY <1>4, DescendKeeps
<1>5. ASSUME NEW t \in Threads, GetAtLeaf(t) PROVE IInv'
  BY <1>5, GetKeeps
<1>6. ASSUME NEW t \in Threads, InsertAtLeaf(t) PROVE IInv'
  BY <1>6, InsertKeepsIt
<1>7. ASSUME NEW t \in Threads, AtLeaf(t, "REMOVE") PROVE FALSE
  BY <1>7 DEF AtLeaf, Running, IInv, Operations, Called
<1>. QED
  BY <1>1, <1>2, <1>3, <1>4, <1>5, <1>6, <1>7 DEF Next, RemoveNothing, RemoveAtLeaf

(* A load is never exchanged for another.                                  *)
LEMMA LoadStays == [Next]_vars => load' = load
  BY DEF Next, vars, treeVars, Start, Latch, Descend, GetAtLeaf, InsertAtLeaf, RemoveNothing,
         RemoveAtLeaf, Return

(* Where nothing is removed, the invariant holds at every step.            *)
THEOREM Invariance == Spec /\ NoRemoves => [](NoRemoves /\ IInv)
<1>1. Init /\ NoRemoves => NoRemoves /\ IInv
  BY InitHolds
<1>2. NoRemoves /\ IInv /\ [Next]_vars => (NoRemoves /\ IInv)'
  BY StepKeeps, LoadStays DEF NoRemoves
<1>. QED
  BY <1>1, <1>2, PTL DEF Spec
-----------------------------------------------------------------------------
(* What follows from it                                                    *)

(* The tree holds the keys inserted, in order, and a search finds each, at *)
(* every step of any number of inserts and gets next to each other.        *)
THEOREM KeepsContents == Spec /\ NoRemoves => []ContentsKept
<1>1. IInv => ContentsKept
  <2>. SUFFICES ASSUME IInv PROVE ContentsKept
    OBVIOUS
  <2>1. PICK range, height : Searches(range, height)
    BY DEF IInv
  <2>2. load.keys \subseteq Nat /\ contents \in [load.keys -> {0, 1}]
    BY LoadIs DEF IInv, Types
  <2>3. Present = OnesOf(contents)
    BY <2>2 DEF Present, OnesOf
  <2>4. IsTree(heap, range, height) /\ HoldsKeys(heap, range, OnesOf(contents))
    BY <2>1, <2>3 DEF Searches
  <2>5. DOMAIN contents \subseteq Nat /\ \A k \in DOMAIN contents : contents[k] \in {0, 1}
    BY <2>2
  <2>. QED
    BY <2>4, <2>5, TreeHolds DEF ContentsKept
<1>. QED
  BY <1>1, Invariance, PTL

(* get says whether the key was there at some moment of the call.          *)
THEOREM TruthIsTold == Spec /\ NoRemoves => []AnswersFit
<1>1. IInv => AnswersFit
  <2>. SUFFICES ASSUME IInv, NEW t \in Threads, AtLeaf(t, "GET") \/ AtLeaf(t, "REMOVE")
                PROVE  Found(t) \in seen[t]
    BY DEF AnswersFit
  <2>1. Running(t) /\ pc[t] = "hold" /\ heap[node[t]].isLeaf
    BY DEF AtLeaf, Running
  <2>2. Called(t) /\ key[t] \in load.keys
    BY <2>1 DEF IInv, Operations, Called
  <2>3. PICK range, height : Searches(range, height)
    BY DEF IInv
  <2>4. /\ IsTree(heap, range, height) /\ HoldsKeys(heap, range, Present)
        /\ node[t] \in DOMAIN heap /\ key[t] \in range[node[t]]
    BY <2>1, <2>3 DEF Searches, OnItsWay
  <2>5. Found(t) <=> key[t] \in ToSet(heap[node[t]].keys)
    <3>1. heap[node[t]].keys \in Seq(Nat)
      BY <2>4, NodeType DEF IsTree
    <3>. QED
      BY <3>1, ContainsIsIn DEF Found
  <2>6. Found(t) <=> contents[key[t]] = 1
    BY <2>1, <2>2, <2>4, <2>5 DEF HoldsKeys, Present
  <2>7. Found(t) <=> contents[key[t]] > 0
    <3>1. contents[key[t]] \in {0, 1}
      BY <2>2 DEF IInv, Types
    <3>2. contents[key[t]] = 1 <=> contents[key[t]] > 0
      BY <3>1
    <3>. QED
      BY <2>6, <3>2
  <2>8. Found(t) = (contents[key[t]] > 0)
    <3>1. Found(t) \in BOOLEAN
      BY DEF Found, Contains
    <3>2. (contents[key[t]] > 0) \in BOOLEAN
      OBVIOUS
    <3>. QED
      BY <2>7, <3>1, <3>2
  <2>9. (contents[key[t]] > 0) \in seen[t]
    BY <2>2 DEF Called
  <2>. QED
    BY <2>8, <2>9, Zenon
<1>. QED
  BY <1>1, Invariance, PTL

(* Operations never all wait for one another: the one that waits for the   *)
(* lowest node waits for nobody who waits.                                 *)
THEOREM NoDeadlock == Spec /\ NoRemoves => []SomebodyRuns
<1>1. IInv => SomebodyRuns
  <2>. SUFFICES ASSUME IInv, \E t \in Threads : Running(t),
                       \A t \in Threads : Running(t) => pc[t] = "wait" /\ ~MayLatch(t, node[t])
                PROVE  FALSE
    BY DEF SomebodyRuns
  <2>1. PICK range, height : Searches(range, height)
    BY DEF IInv
  <2>. DEFINE D == {height[node[t]] : t \in {u \in Threads : Running(u)}}
  <2>2. \A t \in Threads : Running(t) => node[t] \in DOMAIN heap /\ height[node[t]] \in Nat
    BY <2>1 DEF Searches, OnItsWay, IsTree
  <2>3. D \subseteq Nat /\ D # {}
    BY <2>2
  <2>4. PICK t \in Threads : Running(t) /\ \A u \in Threads : Running(u) =>
                                height[node[t]] <= height[node[u]]
    <3>. HIDE DEF D
    <3>1. PICK m \in D : IsFirst(D, m)
      BY <2>3, FirstExists
    <3>2. \A d \in D : m <= d
      BY <3>1 DEF IsFirst
    <3>. QED
      BY <3>2 DEF D
  <2>5. PICK u \in Threads \ {t} : node[t] \in held[u]
    BY <2>4 DEF MayLatch
  <2>6. Running(u)
    BY <2>5 DEF Running, IInv, Operations, AtRest
  <2>7. OnItsWay(u, range, height) /\ pc[u] = "wait"
    BY <2>1, <2>6 DEF Searches
  <2>8. height[node[t]] > height[node[u]]
    BY <2>5, <2>7 DEF OnItsWay
  <2>9. height[node[t]] <= height[node[u]]
    BY <2>4, <2>6
  <2>. QED
    BY <2>2, <2>4, <2>6, <2>8, <2>9
<1>. QED
  BY <1>1, Invariance, PTL

(* size counts no more keys than there are, and all else is what it is     *)
(* meant to be.                                                            *)
THEOREM TypesFit == Spec /\ NoRemoves => []TypeOK
<1>1. IInv => TypeOK
  <2>. SUFFICES ASSUME IInv PROVE TypeOK
    OBVIOUS
  <2>1. IsHeap(heap)
    <3>1. Heap(heap)
      BY DEF IInv, Searches, IsTree
    <3>. QED
      BY <3>1, TreeTyped
  <2>2. size \in 0 .. Cardinality(load.keys)
    <3>1. Counted \subseteq load.keys /\ IsFiniteSet(load.keys)
      BY LoadIs DEF IInv, Counted
    <3>2. /\ IsFiniteSet(Counted) /\ Cardinality(Counted) <= Cardinality(load.keys)
      BY <3>1, FS_Subset
    <3>3. Cardinality(Counted) \in Nat /\ Cardinality(load.keys) \in Nat
      BY <3>1, <3>2, FS_CardinalityType
    <3>. QED
      BY <3>2, <3>3 DEF IInv
  <2>. QED
    BY <2>1, <2>2 DEF IInv, Types, TypeOK
<1>. QED
  BY <1>1, Invariance, PTL

(* When nothing is under way, size is the number of keys and all that      *)
(* debug_checkIsValid looks at fits.                                       *)
THEOREM ValidWhenIdle == Spec /\ NoRemoves => []ValidAtRest
<1>1. IInv => ValidAtRest
  <2>. SUFFICES ASSUME IInv, \A t \in Threads : ~Running(t)
                PROVE  /\ size = Len(InOrder(heap, RootPtr))
                       /\ ParentsFit(heap) /\ LevelsLinked(heap)
                       /\ \A n \in Below(heap, RootPtr) \ {RootPtr} :
                             ~heap[n].isLeaf => CountsFit(heap, n, load.order)
                       /\ Cardinality(Heights(heap, RootPtr)) = 1
    BY DEF ValidAtRest
  <2>1. PICK range, height : Searches(range, height)
    BY DEF IInv
  <2>2. Counted = Present
    <3>1. \A t \in Threads : op[t] = "none"
      BY DEF IInv, Types, Operations, AtRest, Running
    <3>. QED
      BY <3>1 DEF Counted, Present
  <2>3. size = Cardinality(Present)
    BY <2>2 DEF IInv
  <2>4. Present \subseteq Nat /\ load.order \in Nat
    BY LoadIs DEF IInv, Present
  <2>5. /\ IsTree(heap, range, height) /\ HoldsKeys(heap, range, Present)
        /\ Neat(heap, height, load.order)
    BY <2>1 DEF Searches
  <2>. QED
    BY <2>3, <2>4, <2>5, TreeIsValid
<1>. QED
  BY <1>1, Invariance, PTL

(* An insert changes what searches read of a node only where it holds the  *)
(* latch, with any number of threads and however far up its splits go.     *)
THEOREM InsertsAreLatched == Spec /\ NoRemoves => InsertsStayLatched
<1>. DEFINE Stays == \A t \in Threads : InsertAtLeaf(t) =>
                        \A n \in DOMAIN heap \ held[t] :
                            /\ n \in DOMAIN heap'
                            /\ heap'[n].isLeaf = heap[n].isLeaf
                            /\ heap'[n].keys = heap[n].keys
                            /\ heap'[n].children = heap[n].children
<1>1. NoRemoves /\ IInv /\ [Next]_vars => [Stays]_vars
  <2>. SUFFICES ASSUME NoRemoves, IInv, NEW t \in Threads, InsertAtLeaf(t),
                       NEW n \in DOMAIN heap \ held[t]
                PROVE  n \in DOMAIN heap' /\ SameBody(heap', heap, n)
    BY DEF SameBody
  <2>1. PICK range, height : Searches(range, height)
    BY DEF IInv
  <2>2. PICK R, H : Grown(t, range, height, R, H)
    BY <2>1, InsertGrows
  <2>. QED
    BY <2>2 DEF Grown, OnlyTouches
<1>. QED
  BY <1>1, Invariance, PTL DEF Spec, InsertsStayLatched
=============================================================================
