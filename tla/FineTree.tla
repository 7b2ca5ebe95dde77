------------------------------ MODULE FineTree ------------------------------
(***************************************************************************)
(* FineLockBPlusTree: several threads insert, remove and get keys in one   *)
(* B+ tree, with a reader-writer latch in every node (fineTree.hpp,        *)
(* lockQueue.hpp).                                                         *)
(*                                                                         *)
(* A thread takes one latch in a step and goes down to the next node in a  *)
(* step of its own, so that others run while it waits, while it holds a    *)
(* node it has not looked at yet and while it knows a child it has not     *)
(* latched.  What it does once it has the leaf is one step: the model is   *)
(* kinder there than the code, whose splits and merges write one field     *)
(* after the other.                                                        *)
(***************************************************************************)
EXTENDS Mending

CONSTANTS
    Threads,
    Loads       \* what they do: at most .threads operations at a time out of
                \* .ops on .keys, in a tree of order .order

ASSUME LoadsAssumption == \A l \in Loads :
    /\ l.threads \in 1 .. Cardinality(Threads)
    /\ l.order \in Nat /\ l.order >= 3
    /\ l.ops \subseteq {"INSERT", "REMOVE", "GET"}
    /\ l.keys \subseteq Nat /\ IsFiniteSet(l.keys)

NoKey == -1

VARIABLES load,      \* the load under way; load.order is ORDER_
          heap,      \* id -> FineNode, for the nodes allocated
          size,      \* size_
          pc,        \* "idle", "wait" for a latch, "hold" the last one taken
          op,        \* operation under way
          key,       \* its argument
          node,      \* node it waits for or has come to
          held,      \* nodes in its LockManager
          contents,  \* ghost: how often a key has been inserted, not removed
          seen       \* ghost: was the thread's key in the tree, since it began

treeVars == <<load, heap, size, contents>>
vars == <<treeVars, pc, op, key, node, held, seen>>

Init == /\ load \in Loads
        /\ heap = EmptyTree
        /\ size = 0
        /\ pc = [t \in Threads |-> "idle"]
        /\ op = [t \in Threads |-> "none"]
        /\ key = [t \in Threads |-> NoKey]
        /\ node = [t \in Threads |-> Null]
        /\ held = [t \in Threads |-> {}]
        /\ contents = [k \in load.keys |-> 0]
        /\ seen = [t \in Threads |-> {}]
-----------------------------------------------------------------------------
(* Mending: fineTree.hpp does what seqTree.hpp does, but for the latches,  *)
(* and for the nodes merged away, which it hands to popAndDelete.          *)

MoreHalfFull(h, n) == HasMoreThanHalf(h, n, load.order)
SplitNode(h, n) == Split(h, n, load.order)
RemoveBorrow(h, n) == Borrow(h, n, load.order)
-----------------------------------------------------------------------------
(* LockManager                                                             *)

Running(t) == pc[t] # "idle"

(* Mutant: readers and writers do not exclude each other.                  *)
MayLatchAmongReaders(t, n) ==
    op[t] = "GET" \/ \A u \in Threads \ {t} : n \in held[u] => op[u] = "GET"

(* retrieveLock: a reader shares a latch with readers.                     *)
MayLatch(t, n) == \A u \in Threads \ {t} :
                     n \in held[u] => op[t] = "GET" /\ op[u] = "GET"

(* Mutant: a node with one key less than the most is safe for a split.     *)
SafeOneKeyTooLate(t, n) ==
    CASE op[t] = "GET" -> TRUE
      [] op[t] = "INSERT" -> ~heap[n].isLeaf /\ NumKeys(heap, n) < load.order
      [] op[t] = "REMOVE" -> ~heap[n].isLeaf /\ MoreHalfFull(heap, n)

(* Mutant: the split of the leaf itself is forgotten.                      *)
SafeOnceAtLeaf(t, n) ==
    CASE op[t] = "GET" -> TRUE
      [] op[t] = "INSERT" -> heap[n].isLeaf \/ NumKeys(heap, n) + 1 < load.order
      [] op[t] = "REMOVE" -> ~heap[n].isLeaf /\ MoreHalfFull(heap, n)

(* When the latches above n are given up, by findLeafNodeRead, Insert and  *)
(* Delete: a writer keeps them while n might be split, borrow or be merged.*)
Safe(t, n) ==
    CASE op[t] = "GET" -> TRUE
      [] op[t] = "INSERT" -> ~heap[n].isLeaf /\ NumKeys(heap, n) + 1 < load.order
      [] op[t] = "REMOVE" -> ~heap[n].isLeaf /\ MoreHalfFull(heap, n)

Reachable(h) == Below(h, RootPtr)
-----------------------------------------------------------------------------
(* Threads                                                                 *)

(* A writer has a key of its own, and inserts it only if it is not there:  *)
(* ThreadEngine gives each key to one thread, which asks get first.        *)
MayStart(o, k) ==
    /\ o \in load.ops /\ k \in load.keys
    /\ o # "GET" => \A u \in Threads : Running(u) => op[u] = "GET" \/ key[u] # k
    /\ o = "INSERT" => contents[k] = 0

(* The call; insert counts its key at once.                                *)
Start(t, o, k) ==
    /\ ~Running(t) /\ MayStart(o, k)
    /\ Cardinality({u \in Threads : Running(u)}) < load.threads
    /\ pc' = [pc EXCEPT ![t] = "wait"]
    /\ op' = [op EXCEPT ![t] = o]
    /\ key' = [key EXCEPT ![t] = k]
    /\ node' = [node EXCEPT ![t] = RootPtr]
    /\ size' = IF o = "INSERT" THEN size + 1 ELSE size
    /\ seen' = [seen EXCEPT ![t] = {contents[k] > 0}]
    /\ UNCHANGED <<load, heap, contents, held>>

(* The latch of the node, and away with those above it if this is safe.    *)
Latch(t) ==
    /\ pc[t] = "wait" /\ MayLatch(t, node[t])
    /\ held' = [held EXCEPT ![t] = IF Safe(t, node[t]) THEN {node[t]}
                                   ELSE @ \cup {node[t]}]
    /\ pc' = [pc EXCEPT ![t] = "hold"]
    /\ UNCHANGED <<treeVars, op, key, node, seen>>

(* The next node on the way down.                                          *)
Descend(t) ==
    /\ pc[t] = "hold" /\ ~heap[node[t]].isLeaf
    /\ node' = [node EXCEPT ![t] = ChildFor(heap, @, key[t])]
    /\ pc' = [pc EXCEPT ![t] = "wait"]
    /\ UNCHANGED <<treeVars, op, key, held, seen>>

AtLeaf(t, o) == pc[t] = "hold" /\ heap[node[t]].isLeaf /\ op[t] = o

(* Whether the key is in the leaf: what get and remove return.             *)
Found(t) == Contains(heap[node[t]].keys, key[t])

(* The operation lets all latches go and returns.  What it writes changes  *)
(* contents for the clients: copies of its key are in the tree now, which  *)
(* others that are under way for that key have seen.                       *)
Return(t, copies) ==
    /\ pc' = [pc EXCEPT ![t] = "idle"]
    /\ op' = [op EXCEPT ![t] = "none"]
    /\ key' = [key EXCEPT ![t] = NoKey]
    /\ node' = [node EXCEPT ![t] = Null]
    /\ held' = [held EXCEPT ![t] = {}]
    /\ contents' = [contents EXCEPT ![key[t]] = copies]
    /\ seen' = [u \in Threads |->
                   CASE u = t -> {}
                     [] u # t /\ key[u] = key[t] -> seen[u] \cup {copies > 0}
                     [] OTHER -> seen[u]]
    /\ UNCHANGED load

(* get at its leaf.                                                        *)
GetAtLeaf(t) ==
    /\ AtLeaf(t, "GET")
    /\ Return(t, contents[key[t]])
    /\ UNCHANGED <<heap, size>>

(* insert at its leaf, or at rootPtr if the tree is empty.                 *)
InsertAtLeaf(t) ==
    /\ AtLeaf(t, "INSERT")
    /\ LET h == IF node[t] = RootPtr THEN FirstLeaf(heap) ELSE heap
           leaf == IF node[t] = RootPtr THEN h[RootPtr].children[1] ELSE node[t]
           inserted == SetKeys(h, leaf, InsertKeyToLeaf(h[leaf].keys, key[t]))
       IN heap' = IF NumKeys(inserted, leaf) < load.order THEN inserted
                  ELSE SplitNode(inserted, leaf)
    /\ Return(t, contents[key[t]] + 1)
    /\ UNCHANGED size

(* Mutant: the latches are not released on this way out.                   *)
RemoveNothingKeepsLatches(t) ==
    /\ AtLeaf(t, "REMOVE") /\ ~Found(t)
    /\ pc' = [pc EXCEPT ![t] = "idle"]
    /\ op' = [op EXCEPT ![t] = "none"]
    /\ UNCHANGED <<treeVars, key, node, held, seen>>

(* remove does not find its key.                                           *)
RemoveNothing(t) ==
    /\ AtLeaf(t, "REMOVE") /\ ~Found(t)
    /\ Return(t, contents[key[t]])
    /\ UNCHANGED <<heap, size>>

(* popAndDelete of the nodes gone: those the thread has latched are        *)
(* deleted.  The others leak in the code; here they are dropped, too, once *)
(* no other thread is at them.                                             *)
PopAndDelete(t, s) ==
    heap' = [n \in {m \in DOMAIN s.heap \ (s.gone \cap held[t]) :
                       \/ m \in Reachable(s.heap)
                       \/ \E u \in Threads \ {t} : m \in held[u] \cup {node[u]}} |->
                s.heap[n]]

(* The tree once the thread's key has been taken from its leaf: empty, or  *)
(* mended.                                                                 *)
Removed(t) ==
    LET n == node[t]
        h == SetKeys(heap, n, RemoveFromLeaf(heap[n].keys, key[t]))
    IN CASE h[n].parent = RootPtr /\ h[n].keys = <<>> ->
              [heap |-> [h EXCEPT ![RootPtr].children = <<>>, ![RootPtr].isLeaf = TRUE],
               gone |-> {n}]
         [] OTHER -> IF HasHalf(h, n, load.order) THEN [heap |-> h, gone |-> {}]
                     ELSE RemoveBorrow(h, n)

(* Mutant: size_ is not counted down.                                      *)
RemoveKeepsSize(t) ==
    /\ AtLeaf(t, "REMOVE") /\ Found(t)
    /\ PopAndDelete(t, Removed(t))
    /\ Return(t, contents[key[t]] - 1)
    /\ UNCHANGED size

(* remove takes its key from its leaf.                                     *)
RemoveAtLeaf(t) ==
    /\ AtLeaf(t, "REMOVE") /\ Found(t)
    /\ PopAndDelete(t, Removed(t))
    /\ size' = size - 1
    /\ Return(t, contents[key[t]] - 1)

Next == \E t \in Threads :
    \/ \E o \in load.ops, k \in load.keys : Start(t, o, k)
    \/ Latch(t) \/ Descend(t)
    \/ GetAtLeaf(t) \/ InsertAtLeaf(t) \/ RemoveNothing(t) \/ RemoveAtLeaf(t)

Spec == Init /\ [][Next]_vars
-----------------------------------------------------------------------------
TypeOK ==
    /\ load \in Loads
    /\ IsHeap(heap)
    /\ size \in 0 .. Cardinality(load.keys)
    /\ pc \in [Threads -> {"idle", "wait", "hold"}]
    /\ op \in [Threads -> {"INSERT", "REMOVE", "GET", "none"}]
    /\ key \in [Threads -> load.keys \cup {NoKey}]
    /\ node \in [Threads -> Nat \cup {Null}]
    /\ held \in [Threads -> SUBSET Nat]
    /\ contents \in [load.keys -> {0, 1}]
    /\ seen \in [Threads -> SUBSET BOOLEAN]

(* The tree holds, at every moment, the keys that were inserted and not    *)
(* removed, in order: no split, borrow or merge loses or misplaces one,    *)
(* and no insert reaches a leaf that has become the wrong one on its way.  *)
ContentsKept == Holds(heap, contents) /\ FindsAll(heap)

(* get and remove tell the truth: whether the key was there at some moment *)
(* between the call and the return (linearizability of one key).           *)
AnswersFit == \A t \in Threads :
    AtLeaf(t, "GET") \/ AtLeaf(t, "REMOVE") => Found(t) \in seen[t]

(* debug_checkIsValid, whenever no operation is under way: the size that   *)
(* threads counted before and after the fact is the number of keys, every  *)
(* pointer and index fits and the levels are linked.                       *)
ValidAtRest == (\A t \in Threads : ~Running(t)) =>
    /\ size = Len(InOrder(heap, RootPtr))
    /\ ParentsFit(heap) /\ LevelsLinked(heap)
    /\ \A n \in Below(heap, RootPtr) \ {RootPtr} :
          ~heap[n].isLeaf => CountsFit(heap, n, load.order)
    /\ Cardinality(Heights(heap, RootPtr)) = 1

(* Operations never all wait for one another's latches, nor for a latch    *)
(* that an operation left behind.                                          *)
SomebodyRuns == (\E t \in Threads : Running(t)) =>
    \E t \in Threads : Running(t) /\ (pc[t] = "wait" => MayLatch(t, node[t]))

(* An insert changes what searches read of a node only where it holds the *)
(* latch, however many levels its splits go up: it has not given up the    *)
(* latch of a node that one of them reaches.  (remove does not keep to     *)
(* this: it borrows from and merges with neighbours it has not latched.)   *)
InsertsStayLatched == [][\A t \in Threads : InsertAtLeaf(t) =>
    \A n \in DOMAIN heap \ held[t] :
        /\ n \in DOMAIN heap'
        /\ heap'[n].isLeaf = heap[n].isLeaf
        /\ heap'[n].keys = heap[n].keys
        /\ heap'[n].children = heap[n].children]_vars
=============================================================================
