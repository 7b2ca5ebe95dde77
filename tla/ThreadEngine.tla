---------------------------- MODULE ThreadEngine ----------------------------
(***************************************************************************)
(* ThreadEngine of engine.hpp: the test bench of the concurrent trees.     *)
(* threadNum worker threads run a test case on one concurrent tree, each   *)
(* the entries of its own keys; one more thread runs all of it on a tree of*)
(* its own; a checker thread reads and, at every BARRIER of the test case, *)
(* compares the two trees while the others wait between barrierA and       *)
(* barrierB.                                                               *)
(*                                                                         *)
(* The trees are CoarseLockBPlusTree: each call is one step, the critical  *)
(* section of its mutex, on the bag of keys that SeqTree implements.  The  *)
(* barriers are what Rendezvous promises and SpinBarrier keeps.            *)
(***************************************************************************)
EXTENDS Integers, Sequences

CONSTANTS
    ThreadNum,  \* worker threads
    Keys,
    Cases       \* test cases: sequences of entries

Ops == {"INSERT", "REMOVE", "GET"}
BARRIER == "BARRIER"
Entries == [op : Ops, value : Keys] \cup {[op |-> BARRIER]}

ASSUME ThreadNumAssumption == ThreadNum \in Nat \ {0}
ASSUME KeysAssumption == Keys \subseteq Nat
ASSUME CasesAssumption == Cases \subseteq Seq(Entries)

Workers == 0 .. ThreadNum - 1
Sequential == ThreadNum
Checker == ThreadNum + 1
Threads == 0 .. ThreadNum + 1

VARIABLES
    currCase,         \* the test case
    idx,              \* thread -> entry it is at
    pc,               \* thread -> where it is in that entry
    concurrent,       \* concurrent_tree: key -> copies of it
    sequential,       \* seq_tree
    concurrentVec,    \* concurrent_vec, in the hands of the checker
    arrivedA, leavingA, arrivedB, leavingB,  \* barrierA and barrierB
    replay            \* ghost: the keys there should be after each entry

treeVars == <<concurrent, sequential>>
barrierVars == <<arrivedA, leavingA, arrivedB, leavingB>>
vars == <<currCase, idx, pc, treeVars, concurrentVec, barrierVars, replay>>

A == INSTANCE Rendezvous WITH arrived <- arrivedA, leaving <- leavingA
B == INSTANCE Rendezvous WITH arrived <- arrivedB, leaving <- leavingB

Empty == [k \in Keys |-> 0]

(* What a test case asks for: an insert of a key that is there adds none.  *)
After(keys, e) ==
    CASE e.op = "INSERT" -> keys \cup {e.value}
      [] e.op = "REMOVE" -> keys \ {e.value}
      [] OTHER -> keys

Replays(case) == {f \in [0 .. Len(case) -> SUBSET Keys] :
    f[0] = {} /\ \A i \in 1 .. Len(case) : f[i] = After(f[i - 1], case[i])}

Init == /\ currCase \in Cases
        /\ idx = [t \in Threads |-> 1]
        /\ pc = [t \in Threads |-> "next"]
        /\ concurrent = Empty
        /\ sequential = Empty
        /\ concurrentVec = Empty
        /\ A!Init /\ B!Init
        /\ replay \in Replays(currCase)

Returned(t) == pc[t] = "next" /\ idx[t] > Len(currCase)
Entry(t) == currCase[idx[t]]

At(t, op) == /\ pc[t] = "next" /\ idx[t] <= Len(currCase)
             /\ Entry(t).op = op

Goto(t, label) == pc' = [pc EXCEPT ![t] = label]

(* On to the next entry.                                                   *)
Advance(t) == Goto(t, "next") /\ idx' = [idx EXCEPT ![t] = @ + 1]

(* Mutant: entries are dealt out by their number.                          *)
IsMineByNumber(t) == t \in Workers => idx[t] % ThreadNum = t

(* A worker runs the entries of its keys, the sequential thread all.       *)
IsMine(t) == t \in Workers => Entry(t).value % ThreadNum = t

Skip(t) == /\ \E op \in Ops : At(t, op) /\ (t = Checker => op # "GET")
           /\ t # Checker => ~IsMine(t)
           /\ Advance(t)
           /\ UNCHANGED <<currCase, treeVars, concurrentVec, barrierVars, replay>>
-----------------------------------------------------------------------------
(* The trees (coarseTree.hpp)                                              *)

TreeOf(t) == IF t = Sequential THEN sequential ELSE concurrent

TreeHas(t, k) == TreeOf(t)[k] > 0

(* The thread's tree holds n copies of k from now on.                      *)
TreePut(t, k, n) ==
    IF t = Sequential
      THEN sequential' = [sequential EXCEPT ![k] = n] /\ UNCHANGED concurrent
      ELSE concurrent' = [concurrent EXCEPT ![k] = n] /\ UNCHANGED sequential

Runs(t, op) == t # Checker /\ At(t, op) /\ IsMine(t)

(* INSERT asks get first; what it does then depends on the answer.         *)
InsertGet(t) ==
    /\ Runs(t, "INSERT")
    /\ IF TreeHas(t, Entry(t).value)
         THEN Advance(t)
         ELSE Goto(t, "insert") /\ UNCHANGED idx
    /\ UNCHANGED <<currCase, treeVars, concurrentVec, barrierVars, replay>>

(* insert does not look whether the key is there by now.                   *)
Insert(t) ==
    /\ pc[t] = "insert"
    /\ TreePut(t, Entry(t).value, TreeOf(t)[Entry(t).value] + 1)
    /\ Advance(t)
    /\ UNCHANGED <<currCase, concurrentVec, barrierVars, replay>>

(* Mutant: remove counts down in any case.                                 *)
FewerAnyway(n) == n - 1

Fewer(n) == IF n > 0 THEN n - 1 ELSE 0

RemoveKey(t) ==
    /\ Runs(t, "REMOVE")
    /\ TreePut(t, Entry(t).value, Fewer(TreeOf(t)[Entry(t).value]))
    /\ Advance(t)
    /\ UNCHANGED <<currCase, concurrentVec, barrierVars, replay>>

(* The checker gets every key of the case from the concurrent tree.        *)
Get(t) ==
    /\ At(t, "GET") /\ (t # Checker => IsMine(t))
    /\ Advance(t)
    /\ UNCHANGED <<currCase, treeVars, concurrentVec, barrierVars, replay>>
-----------------------------------------------------------------------------
(* BARRIER                                                                 *)

(* Mutant: who has nothing to do at a BARRIER goes on.                     *)
ArriveAOwner(t) ==
    IF t \in Workers \ {0}
      THEN /\ At(t, BARRIER) /\ Advance(t)
           /\ UNCHANGED <<currCase, treeVars, concurrentVec, barrierVars, replay>>
      ELSE /\ At(t, BARRIER)
           /\ A!Arrive(t) /\ Goto(t, "inA")
           /\ UNCHANGED <<currCase, idx, treeVars, concurrentVec, arrivedB, leavingB, replay>>

ArriveA(t) ==
    /\ At(t, BARRIER)
    /\ A!Arrive(t) /\ Goto(t, "inA")
    /\ UNCHANGED <<currCase, idx, treeVars, concurrentVec, arrivedB, leavingB, replay>>

TripA == /\ A!Trip
         /\ UNCHANGED <<currCase, idx, pc, treeVars, concurrentVec, arrivedB, leavingB, replay>>

(* Mutant: who has left barrierA does not wait at barrierB.                *)
LeaveAOnly(t) ==
    /\ pc[t] = "inA" /\ A!Leave(t)
    /\ IF t \in Workers THEN Advance(t) ELSE
         Goto(t, IF t = Checker THEN "compare" ELSE "atB") /\ UNCHANGED idx
    /\ UNCHANGED <<currCase, treeVars, concurrentVec, arrivedB, leavingB, replay>>

LeaveA(t) ==
    /\ pc[t] = "inA" /\ A!Leave(t)
    /\ Goto(t, IF t = Checker THEN "compare" ELSE "atB")
    /\ UNCHANGED <<currCase, idx, treeVars, concurrentVec, arrivedB, leavingB, replay>>

(* compare: first toVec of the concurrent tree ...                         *)
ReadConcurrent ==
    /\ pc[Checker] = "compare"
    /\ concurrentVec' = concurrent
    /\ Goto(Checker, "compareSeq")
    /\ UNCHANGED <<currCase, idx, treeVars, barrierVars, replay>>

(* ... then of the sequential one; it throws if they differ.               *)
ReadSequential ==
    /\ pc[Checker] = "compareSeq"
    /\ Goto(Checker, IF concurrentVec = sequential THEN "atB" ELSE "thrown")
    /\ UNCHANGED <<currCase, idx, treeVars, concurrentVec, barrierVars, replay>>

ArriveB(t) ==
    /\ pc[t] = "atB"
    /\ B!Arrive(t) /\ Goto(t, "inB")
    /\ UNCHANGED <<currCase, idx, treeVars, concurrentVec, arrivedA, leavingA, replay>>

TripB == /\ B!Trip
         /\ UNCHANGED <<currCase, idx, pc, treeVars, concurrentVec, arrivedA, leavingA, replay>>

LeaveB(t) ==
    /\ pc[t] = "inB" /\ B!Leave(t)
    /\ Advance(t)
    /\ UNCHANGED <<currCase, treeVars, concurrentVec, arrivedA, leavingA, replay>>
-----------------------------------------------------------------------------
Thread(t) == \/ Skip(t) \/ InsertGet(t) \/ Insert(t) \/ RemoveKey(t) \/ Get(t)
             \/ ArriveA(t) \/ LeaveA(t) \/ ArriveB(t) \/ LeaveB(t)

Compare == ReadConcurrent \/ ReadSequential

(* Nobody catches what compare throws.                                     *)
Thrown == pc[Checker] = "thrown"

AllReturned == (\A t \in Threads : Returned(t)) /\ UNCHANGED vars

Next == \/ ~Thrown /\ (TripA \/ TripB \/ Compare \/ \E t \in Threads : Thread(t))
        \/ AllReturned

(* The threads run; a barrier that all have reached lets them go.          *)
Spec == /\ Init /\ [][Next]_vars
        /\ WF_vars(TripA) /\ WF_vars(TripB) /\ WF_vars(Compare)
        /\ \A t \in Threads : WF_vars(Thread(t))
-----------------------------------------------------------------------------
TypeOK ==
    /\ currCase \in Cases
    /\ idx \in [Threads -> 1 .. Len(currCase) + 1]
    /\ pc \in [Threads -> {"next", "insert", "inA", "compare", "compareSeq", "atB", "inB",
                           "thrown"}]
    /\ concurrent \in [Keys -> Nat] /\ sequential \in [Keys -> Nat]
    /\ concurrentVec \in [Keys -> Nat]
    /\ {arrivedA, leavingA, arrivedB, leavingB} \subseteq SUBSET Threads
    /\ replay \in [0 .. Len(currCase) -> SUBSET Keys]

(* Each key is in a tree, once, if the test case up to where the thread is *)
(* that runs its entries says so: no other thread interferes, also between *)
(* the get and the insert of an INSERT.                                    *)
Expected(k, t) == IF k \in replay[idx[t] - 1] THEN 1 ELSE 0

TreesFollowTheCase == \A k \in Keys :
    /\ concurrent[k] = Expected(k, k % ThreadNum)
    /\ sequential[k] = Expected(k, Sequential)

(* compare finds the two trees equal, at every BARRIER: whatever the order *)
(* in which the workers run, all entries before it have been run, and none *)
(* after it.                                                               *)
CompareSucceeds == ~Thrown

(* The trees stay as they are from the moment the checker has passed       *)
(* barrierA until it comes to barrierB.                                    *)
NothingMovesDuringCompare ==
    [][pc[Checker] \in {"compare", "compareSeq"} => UNCHANGED treeVars]_vars

(* Every test case comes to its end: the threads meet at the same barriers *)
(* equally often.                                                          *)
ThreadsReturn == <>(\A t \in Threads : Returned(t))
=============================================================================
