------------------------- MODULE ThreadEngineProofs -------------------------
(***************************************************************************)
(* Proofs about ThreadEngine, for any number of workers, any keys and any  *)
(* set of test cases.                                                      *)
(***************************************************************************)
EXTENDS ThreadEngine, TLAPS

Labels == {"next", "insert", "inA", "compare", "compareSeq", "atB", "inB", "thrown"}

(* The thread is between barrierA and barrierB.                            *)
Between(t) == \/ t \in leavingA \cup arrivedB
              \/ pc[t] \in {"compare", "compareSeq", "atB", "thrown"}

(* The entry a thread will run next; one that is still leaving barrierB is *)
(* done with its BARRIER.                                                  *)
Position(t) == IF t \in leavingB THEN idx[t] + 1 ELSE idx[t]

(* Where pc says a thread is, the barriers and the test case say, too.     *)
BarriersFitPc == \A t \in Threads :
    /\ pc[t] = "inA" <=> t \in arrivedA \cup leavingA
    /\ pc[t] = "inB" <=> t \in arrivedB \cup leavingB
    /\ ~(t \in arrivedA /\ t \in leavingA)
    /\ ~(t \in arrivedB /\ t \in leavingB)

EntryFitsPc == \A t \in Threads :
    /\ pc[t] # "next" => idx[t] <= Len(currCase)
    /\ pc[t] = "insert" => Entry(t).op = "INSERT" /\ t # Checker /\ IsMine(t)
    /\ pc[t] \notin {"next", "insert"} => Entry(t).op = BARRIER
    /\ pc[t] \in {"compare", "compareSeq", "thrown"} => t = Checker

(* The threads are between the barriers together, at the same BARRIER.     *)
Together == \A t, u \in Threads : Between(t) => Between(u) /\ idx[t] = idx[u]

(* No BARRIER separates two threads.                                       *)
SameRound == \A t, u \in Threads : \A i \in 1 .. Len(currCase) :
    Position(t) <= i /\ i < Position(u) => currCase[i].op # BARRIER

(* What get has answered to an INSERT still holds at its insert.           *)
AnswerHolds == \A t \in Threads :
    pc[t] = "insert" => TreeOf(t)[Entry(t).value] = 0

VecIsTree == pc[Checker] = "compareSeq" => concurrentVec = concurrent

Protocol == TypeOK /\ BarriersFitPc /\ EntryFitsPc /\ Together /\ SameRound

IInv == /\ Protocol
        /\ replay \in Replays(currCase)
        /\ TreesFollowTheCase /\ AnswerHolds /\ VecIsTree /\ CompareSucceeds
-----------------------------------------------------------------------------
(* An entry of a test case is an operation on a key or a BARRIER.          *)
LEMMA EntryType ==
    ASSUME NEW c \in Cases, NEW i \in 1 .. Len(c)
    PROVE  /\ c \in Seq(Entries)
           /\ c[i].op \in Ops \cup {BARRIER}
           /\ c[i].op \in Ops => c[i].value \in Keys
<1>1. c \in Seq(Entries)
  BY CasesAssumption
<1>2. c[i] \in Entries
  BY <1>1
<1>. QED
  BY <1>1, <1>2 DEF Entries, Ops, BARRIER

(* Workers, the sequential thread and the checker are different.           *)
LEMMA ThreadSets ==
    /\ Workers \subseteq Threads /\ Sequential \in Threads \ Workers
    /\ Checker \in Threads \ Workers /\ Checker # Sequential
    /\ \A k \in Keys : k % ThreadNum \in Workers
  BY ThreadNumAssumption, KeysAssumption DEF Threads, Workers, Sequential, Checker

(* At first all trees are empty and all threads are at the start.          *)
LEMMA InitInv == Init => IInv
<1>. SUFFICES ASSUME Init PROVE IInv
  OBVIOUS
<1>. USE DEF Init, A!Init, B!Init
<1>1. Len(currCase) \in Nat /\ replay \in [0 .. Len(currCase) -> SUBSET Keys] /\ replay[0] = {}
  BY CasesAssumption DEF Replays
<1>2. TypeOK
  BY <1>1 DEF TypeOK, Empty
<1>3. BarriersFitPc /\ EntryFitsPc /\ Together /\ SameRound
  BY <1>1 DEF BarriersFitPc, EntryFitsPc, Together, Between, SameRound, Position
<1>4. TreesFollowTheCase
  BY <1>1, ThreadSets DEF TreesFollowTheCase, Expected, Empty
<1>. QED
  BY <1>2, <1>3, <1>4, ThreadSets DEF IInv, Protocol, AnswerHolds, VecIsTree, CompareSucceeds, Thrown
-----------------------------------------------------------------------------
(* Steps within an entry that is no BARRIER                                *)

(* The thread is in an entry that is no BARRIER and changes nothing of the *)
(* barriers; the trees keep their type.                                    *)
RunStep(t) ==
    /\ pc[t] \in {"next", "insert"} /\ idx[t] <= Len(currCase) /\ Entry(t).op \in Ops
    /\ TypeOK /\ concurrent' \in [Keys -> Nat] /\ sequential' \in [Keys -> Nat]
    /\ UNCHANGED <<currCase, concurrentVec, barrierVars, replay>>

(* A thread goes on from an entry that is no BARRIER.                      *)
LEMMA AdvanceKeepsProtocol ==
    ASSUME NEW t \in Threads, Protocol, RunStep(t), Advance(t)
    PROVE  Protocol'
<1>. USE DEF Protocol, RunStep, Advance, Goto
<1>1. /\ idx \in [Threads -> 1 .. Len(currCase) + 1]
      /\ pc \in [Threads -> Labels]
      /\ currCase \in Cases /\ Len(currCase) \in Nat
  BY CasesAssumption DEF TypeOK, Labels
<1>2. idx' \in [Threads -> 1 .. Len(currCase) + 1] /\ pc' \in [Threads -> Labels]
  BY <1>1 DEF Labels
<1>3. TypeOK'
  BY <1>1, <1>2 DEF TypeOK, Labels, barrierVars
<1>4. t \notin arrivedA \cup leavingA /\ t \notin arrivedB \cup leavingB /\ ~Between(t)
  BY <1>1 DEF BarriersFitPc, Between, Labels
<1>5. BarriersFitPc'
  BY <1>1, <1>4 DEF BarriersFitPc, barrierVars
<1>6. EntryFitsPc'
  BY <1>1 DEF EntryFitsPc, Entry, IsMine
<1>7. \A u \in Threads : ~Between(u) /\ ~Between(u)'
  BY <1>1, <1>4 DEF Together, Between, barrierVars
<1>8. Together'
  BY <1>7 DEF Together
<1>9. currCase[idx[t]].op # BARRIER
  BY DEF Entry, Ops, BARRIER
<1>10. \A u \in Threads : Position(u)' = IF u = t THEN Position(u) + 1 ELSE Position(u)
  BY <1>1, <1>4 DEF Position, barrierVars
<1>11. \A u \in Threads : Position(u) \in Nat
  BY <1>1 DEF Position
<1>12. Position(t) = idx[t]
  BY <1>4 DEF Position
<1>13. SameRound'
  <2>. SUFFICES ASSUME NEW u \in Threads, NEW v \in Threads, NEW i \in 1 .. Len(currCase),
                       Position(u)' <= i, i < Position(v)'
                PROVE  currCase[i].op # BARRIER
    BY DEF SameRound
  <2>1. CASE i = idx[t]
    BY <2>1, <1>9
  <2>2. CASE i # idx[t]
    <3>1. Position(u) <= i
      BY <1>10, <1>11
    <3>2. CASE v # t
      BY <3>1, <3>2, <1>10 DEF SameRound
    <3>3. CASE v = t
      <4>1. i < idx[t] + 1 /\ idx[t] \in Nat
        BY <3>3, <1>1, <1>10, <1>12
      <4>2. i < Position(v)
        BY <4>1, <3>3, <2>2, <1>12
      <4>. QED
        BY <3>1, <4>2 DEF SameRound
    <3>. QED
      BY <3>2, <3>3
  <2>. QED
    BY <2>1, <2>2
<1>. QED
  BY <1>3, <1>5, <1>6, <1>8, <1>13

(* The facts of Protocol that every step needs.                            *)
LEMMA Types ==
    ASSUME Protocol
    PROVE  /\ idx \in [Threads -> 1 .. Len(currCase) + 1]
           /\ pc \in [Threads -> Labels]
           /\ currCase \in Cases /\ Len(currCase) \in Nat
           /\ concurrent \in [Keys -> Nat] /\ sequential \in [Keys -> Nat]
           /\ concurrentVec \in [Keys -> Nat]
           /\ arrivedA \subseteq Threads /\ leavingA \subseteq Threads
           /\ arrivedB \subseteq Threads /\ leavingB \subseteq Threads
  BY CasesAssumption DEF Protocol, TypeOK, Labels

(* A thread has asked get and goes on to call insert.                      *)
LEMMA AskKeepsProtocol ==
    ASSUME NEW t \in Threads, Protocol, Runs(t, "INSERT"), Goto(t, "insert"),
           UNCHANGED <<currCase, idx, treeVars, concurrentVec, barrierVars, replay>>
    PROVE  Protocol'
<1>. USE Types DEF Protocol, Runs, At, Goto
<1>1. TypeOK'
  BY DEF TypeOK, Labels, treeVars, barrierVars
<1>2. BarriersFitPc'
  BY DEF BarriersFitPc, barrierVars
<1>3. EntryFitsPc'
  BY DEF EntryFitsPc, Entry, IsMine
<1>4. \A u \in Threads : Between(u)' <=> Between(u)
  BY DEF Between, barrierVars
<1>5. Together' /\ SameRound'
  BY <1>4 DEF Together, SameRound, Position, barrierVars
<1>. QED
  BY <1>1, <1>2, <1>3, <1>5
-----------------------------------------------------------------------------
(* Steps at a BARRIER                                                      *)

(* A thread arrives at the first barrier.                                  *)
LEMMA ArriveAKeepsProtocol ==
    ASSUME NEW t \in Threads, Protocol, ArriveA(t)
    PROVE  Protocol'
<1>. USE Types DEF Protocol, ArriveA, At, Goto, A!Arrive
<1>1. TypeOK'
  BY DEF TypeOK, Labels, treeVars
<1>2. BarriersFitPc'
  BY DEF BarriersFitPc
<1>3. EntryFitsPc'
  BY DEF EntryFitsPc, Entry, IsMine
<1>4. \A u \in Threads : Between(u)' <=> Between(u)
  BY DEF Between, BarriersFitPc
<1>5. Together' /\ SameRound'
  BY <1>4 DEF Together, SameRound, Position
<1>. QED
  BY <1>1, <1>2, <1>3, <1>5

(* All who meet at barrierA are at the same BARRIER, since none is between *)
(* them.                                                                   *)
LEMMA TripAKeepsProtocol ==
    ASSUME Protocol, TripA
    PROVE  Protocol'
<1>. USE Types DEF Protocol, TripA, A!Trip
<1>1. TypeOK'
  BY DEF TypeOK, treeVars
<1>2. BarriersFitPc'
  BY DEF BarriersFitPc
<1>3. EntryFitsPc'
  BY DEF EntryFitsPc, Entry, IsMine
<1>4. \A t \in Threads : pc[t] = "inA" /\ Position(t) = idx[t]
  BY DEF BarriersFitPc, Position
<1>5. \A t \in Threads : idx[t] \in 1 .. Len(currCase) /\ currCase[idx[t]].op = BARRIER
  BY <1>4 DEF EntryFitsPc, Entry
<1>6. ASSUME NEW t \in Threads, NEW u \in Threads PROVE idx[t] = idx[u]
  <2>1. ~(idx[t] < idx[u])
    BY <1>4, <1>5 DEF SameRound
  <2>2. ~(idx[u] < idx[t])
    BY <1>4, <1>5 DEF SameRound
  <2>. QED
    BY <2>1, <2>2
<1>7. Together'
  BY <1>6 DEF Together, Between
<1>8. SameRound'
  BY DEF SameRound, Position
<1>. QED
  BY <1>1, <1>2, <1>3, <1>7, <1>8

(* A thread leaves the first barrier.                                      *)
LEMMA LeaveAKeepsProtocol ==
    ASSUME NEW t \in Threads, Protocol, LeaveA(t)
    PROVE  Protocol'
<1>. USE Types DEF Protocol, LeaveA, Goto, A!Leave
<1>1. TypeOK'
  BY DEF TypeOK, Labels, treeVars
<1>2. BarriersFitPc'
  BY DEF BarriersFitPc
<1>3. EntryFitsPc'
  BY DEF EntryFitsPc, Entry, IsMine
<1>4. \A u \in Threads : Between(u)' <=> Between(u)
  BY DEF Between, BarriersFitPc
<1>5. Together' /\ SameRound'
  BY <1>4 DEF Together, SameRound, Position
<1>. QED
  BY <1>1, <1>2, <1>3, <1>5

(* The checker compares while the others wait.                             *)
LEMMA CompareKeepsProtocol ==
    ASSUME Protocol, Compare
    PROVE  Protocol'
<1>. USE Types, ThreadSets DEF Protocol, Compare, ReadConcurrent, ReadSequential, Goto, barrierVars
<1>1. TypeOK'
  BY DEF TypeOK, Labels, treeVars
<1>2. BarriersFitPc'
  BY DEF BarriersFitPc
<1>3. EntryFitsPc'
  BY DEF EntryFitsPc, Entry, IsMine
<1>4. \A u \in Threads : Between(u)' <=> Between(u)
  BY DEF Between
<1>5. Together' /\ SameRound'
  BY <1>4 DEF Together, SameRound, Position
<1>. QED
  BY <1>1, <1>2, <1>3, <1>5

(* A thread arrives at the second barrier.                                 *)
LEMMA ArriveBKeepsProtocol ==
    ASSUME NEW t \in Threads, Protocol, ArriveB(t)
    PROVE  Protocol'
<1>. USE Types DEF Protocol, ArriveB, Goto, B!Arrive
<1>1. TypeOK'
  BY DEF TypeOK, Labels, treeVars
<1>2. BarriersFitPc'
  BY DEF BarriersFitPc
<1>3. EntryFitsPc'
  BY DEF EntryFitsPc, Entry, IsMine
<1>4. \A u \in Threads : Between(u)' <=> Between(u)
  BY DEF Between, BarriersFitPc
<1>5. Together' /\ SameRound'
  BY <1>4 DEF Together, SameRound, Position
<1>. QED
  BY <1>1, <1>2, <1>3, <1>5

(* The last to arrive lets go those at the second barrier.                 *)
LEMMA TripBKeepsProtocol ==
    ASSUME Protocol, TripB
    PROVE  Protocol'
<1>. USE Types DEF Protocol, TripB, B!Trip
<1>1. TypeOK'
  BY DEF TypeOK, treeVars
<1>2. BarriersFitPc'
  BY DEF BarriersFitPc
<1>3. EntryFitsPc'
  BY DEF EntryFitsPc, Entry, IsMine
<1>4. \A t \in Threads : Between(t) /\ ~Between(t)'
  BY DEF Between, BarriersFitPc
<1>5. Together'
  BY <1>4 DEF Together
<1>6. \A t, u \in Threads : idx[t] = idx[u]
  BY <1>4 DEF Together
<1>7. SameRound'
  BY <1>6 DEF SameRound, Position
<1>. QED
  BY <1>1, <1>2, <1>3, <1>5, <1>7

(* A thread leaves the second barrier for the next entry.                  *)
LEMMA LeaveBKeepsProtocol ==
    ASSUME NEW t \in Threads, Protocol, LeaveB(t)
    PROVE  Protocol'
<1>. USE Types DEF Protocol, LeaveB, Advance, Goto, B!Leave
<1>0. idx[t] <= Len(currCase)
  BY DEF EntryFitsPc
<1>1. TypeOK'
  BY <1>0 DEF TypeOK, Labels, treeVars
<1>2. BarriersFitPc'
  BY DEF BarriersFitPc
<1>3. EntryFitsPc'
  BY DEF EntryFitsPc, Entry, IsMine
<1>4. \A u \in Threads : ~Between(u) /\ ~Between(u)'
  BY DEF Between, BarriersFitPc, Together
<1>5. Together'
  BY <1>4 DEF Together
<1>6. \A u \in Threads : Position(u)' = Position(u)
  BY DEF Position
<1>7. SameRound'
  BY <1>6 DEF SameRound
<1>. QED
  BY <1>1, <1>2, <1>3, <1>5, <1>7
-----------------------------------------------------------------------------
(* The trees                                                               *)

(* What the case says before and after an entry.                           *)
LEMMA ReplayStep ==
    ASSUME Protocol, replay \in Replays(currCase), NEW t \in Threads, idx[t] <= Len(currCase)
    PROVE  /\ replay[idx[t] - 1] \subseteq Keys /\ replay[idx[t]] \subseteq Keys
           /\ replay[idx[t]] = After(replay[idx[t] - 1], Entry(t))
           /\ Entry(t).op \in Ops \cup {BARRIER}
           /\ Entry(t).op \in Ops => Entry(t).value \in Keys
  BY Types, EntryType DEF Replays, Entry

(* If the tree of a thread that goes on to its next entry changes as this  *)
(* entry says, in its own keys, the trees go on to follow the case.        *)
LEMMA TreesGoOn ==
    ASSUME Protocol, replay \in Replays(currCase), TreesFollowTheCase,
           NEW t \in Threads, idx[t] <= Len(currCase), Advance(t),
           UNCHANGED <<currCase, replay>>,
           \A k \in Keys :
              /\ concurrent'[k] = IF k % ThreadNum = t
                                    THEN IF k \in replay[idx[t]] THEN 1 ELSE 0
                                    ELSE concurrent[k]
              /\ sequential'[k] = IF t = Sequential
                                    THEN IF k \in replay[idx[t]] THEN 1 ELSE 0
                                    ELSE sequential[k]
    PROVE  TreesFollowTheCase'
<1>. USE Types, ThreadSets
<1>1. \A u \in Threads : idx'[u] = IF u = t THEN idx[u] + 1 ELSE idx[u]
  BY DEF Advance
<1>2. (idx[t] + 1) - 1 = idx[t]
  OBVIOUS
<1>. SUFFICES ASSUME NEW k \in Keys
              PROVE  /\ concurrent'[k] = IF k \in replay[idx'[k % ThreadNum] - 1] THEN 1 ELSE 0
                     /\ sequential'[k] = IF k \in replay[idx'[Sequential] - 1] THEN 1 ELSE 0
  BY DEF TreesFollowTheCase, Expected
<1>3. /\ concurrent[k] = IF k \in replay[idx[k % ThreadNum] - 1] THEN 1 ELSE 0
      /\ sequential[k] = IF k \in replay[idx[Sequential] - 1] THEN 1 ELSE 0
  BY DEF TreesFollowTheCase, Expected
<1>4. k % ThreadNum \in Threads
  OBVIOUS
<1>. HIDE ThreadSets
<1>. QED
  BY <1>1, <1>2, <1>3, <1>4, ThreadSets

(* What a thread reads of its key is what the case says.                   *)
LEMMA OwnKey ==
    ASSUME Protocol, replay \in Replays(currCase), TreesFollowTheCase,
           NEW t \in Threads, t # Checker, idx[t] <= Len(currCase), Entry(t).op \in Ops, IsMine(t)
    PROVE  /\ Entry(t).value \in Keys
           /\ TreeOf(t)[Entry(t).value] = Expected(Entry(t).value, t)
           /\ t # Sequential => Entry(t).value % ThreadNum = t
<1>1. Entry(t).value \in Keys
  BY ReplayStep
<1>2. t # Sequential => t \in Workers
  BY ThreadNumAssumption DEF Threads, Workers, Sequential, Checker
<1>. QED
  BY <1>1, <1>2 DEF IsMine, TreeOf, TreesFollowTheCase

(* An entry that does not change the thread's tree: its effect is there.   *)
LEMMA NothingToDo ==
    ASSUME Protocol, replay \in Replays(currCase), TreesFollowTheCase,
           NEW t \in Threads, idx[t] <= Len(currCase), Advance(t),
           UNCHANGED <<currCase, treeVars, replay>>,
           t # Checker => \A k \in Keys :
              (t # Sequential => k % ThreadNum = t)
                  => (k \in replay[idx[t]] <=> k \in replay[idx[t] - 1])
    PROVE  TreesFollowTheCase'
<1>1. \A k \in Keys : k % ThreadNum \in Workers /\ k % ThreadNum # Checker /\ k % ThreadNum # Sequential
  BY ThreadSets
<1>2. Checker # Sequential
  BY ThreadSets
<1>3. \A k \in Keys :
         /\ concurrent[k] = IF k \in replay[idx[k % ThreadNum] - 1] THEN 1 ELSE 0
         /\ sequential[k] = IF k \in replay[idx[Sequential] - 1] THEN 1 ELSE 0
  BY DEF TreesFollowTheCase, Expected
<1>4. ASSUME NEW k \in Keys
      PROVE  /\ concurrent'[k] = IF k % ThreadNum = t
                                   THEN IF k \in replay[idx[t]] THEN 1 ELSE 0
                                   ELSE concurrent[k]
             /\ sequential'[k] = IF t = Sequential
                                   THEN IF k \in replay[idx[t]] THEN 1 ELSE 0
                                   ELSE sequential[k]
  BY <1>1, <1>2, <1>3 DEF treeVars
<1>. QED
  BY <1>4, TreesGoOn

(* An entry that is another worker's.                                      *)
LEMMA SkipFollows ==
    ASSUME IInv, NEW t \in Threads, Skip(t)
    PROVE  TreesFollowTheCase'
<1>. USE DEF IInv
<1>1. idx[t] <= Len(currCase) /\ Entry(t).op \in Ops
  BY DEF Skip, At
<1>2. t # Checker => t # Sequential /\ Entry(t).value % ThreadNum # t
  BY ThreadSets DEF Skip, IsMine
<1>3. t # Checker => \A k \in Keys : k % ThreadNum = t
                         => (k \in replay[idx[t]] <=> k \in replay[idx[t] - 1])
  BY <1>1, <1>2, ReplayStep DEF After
<1>. QED
  BY <1>1, <1>2, <1>3, NothingToDo DEF Skip

(* A GET changes no tree.                                                  *)
LEMMA GetFollows ==
    ASSUME IInv, NEW t \in Threads, Get(t)
    PROVE  TreesFollowTheCase'
<1>. USE DEF IInv
<1>1. idx[t] <= Len(currCase) /\ Entry(t).op = "GET"
  BY DEF Get, At
<1>2. replay[idx[t]] = replay[idx[t] - 1]
  BY <1>1, ReplayStep DEF After
<1>. QED
  BY <1>1, <1>2, NothingToDo DEF Get

(* An INSERT of a key that get has found changes no tree.                  *)
LEMMA FoundFollows ==
    ASSUME IInv, NEW t \in Threads, Runs(t, "INSERT"), TreeHas(t, Entry(t).value), Advance(t),
           UNCHANGED <<currCase, treeVars, replay>>
    PROVE  TreesFollowTheCase'
<1>. USE DEF IInv
<1>1. idx[t] <= Len(currCase) /\ Entry(t).op = "INSERT" /\ t # Checker
  BY DEF Runs, At
<1>2. TreeOf(t)[Entry(t).value] = Expected(Entry(t).value, t)
  BY <1>1, OwnKey DEF Runs, Ops
<1>3. Entry(t).value \in replay[idx[t] - 1]
  BY <1>2 DEF TreeHas, Expected
<1>4. replay[idx[t]] = replay[idx[t] - 1]
  BY <1>1, <1>3, ReplayStep DEF After
<1>. QED
  BY <1>1, <1>4, NothingToDo

(* A BARRIER changes no tree.                                              *)
LEMMA BarrierFollows ==
    ASSUME IInv, NEW t \in Threads, LeaveB(t)
    PROVE  TreesFollowTheCase'
<1>. USE DEF IInv
<1>1. idx[t] <= Len(currCase) /\ Entry(t).op = BARRIER
  BY DEF LeaveB, Protocol, EntryFitsPc
<1>2. replay[idx[t]] = replay[idx[t] - 1]
  BY <1>1, ReplayStep DEF After, BARRIER
<1>. QED
  BY <1>1, <1>2, NothingToDo DEF LeaveB

(* A write to the thread's own key.                                        *)
LEMMA PutFollows ==
    ASSUME IInv, NEW t \in Threads, t # Checker, idx[t] <= Len(currCase), Entry(t).op \in Ops,
           IsMine(t), NEW n \in 0 .. 1, TreePut(t, Entry(t).value, n), Advance(t),
           UNCHANGED <<currCase, replay>>,
           n = (IF Entry(t).value \in replay[idx[t]] THEN 1 ELSE 0),
           \A k \in Keys \ {Entry(t).value} : k \in replay[idx[t]] <=> k \in replay[idx[t] - 1]
    PROVE  TreesFollowTheCase'
<1>. USE DEF IInv
<1>1. Entry(t).value \in Keys /\ (t # Sequential => Entry(t).value % ThreadNum = t)
  BY OwnKey
<1>2. \A k \in Keys : k % ThreadNum # Checker /\ k % ThreadNum # Sequential
  BY ThreadSets
<1>3. \A k \in Keys :
         /\ concurrent[k] = IF k \in replay[idx[k % ThreadNum] - 1] THEN 1 ELSE 0
         /\ sequential[k] = IF k \in replay[idx[Sequential] - 1] THEN 1 ELSE 0
  BY DEF TreesFollowTheCase, Expected
<1>4. concurrent \in [Keys -> Nat] /\ sequential \in [Keys -> Nat]
  BY Types
<1>5. ASSUME NEW k \in Keys
      PROVE  /\ concurrent'[k] = IF k % ThreadNum = t
                                   THEN IF k \in replay[idx[t]] THEN 1 ELSE 0
                                   ELSE concurrent[k]
             /\ sequential'[k] = IF t = Sequential
                                   THEN IF k \in replay[idx[t]] THEN 1 ELSE 0
                                   ELSE sequential[k]
  <2>1. CASE t = Sequential
    BY <2>1, <1>1, <1>2, <1>3, <1>4 DEF TreePut
  <2>2. CASE t # Sequential
    BY <2>2, <1>1, <1>2, <1>3, <1>4 DEF TreePut
  <2>. QED
    BY <2>1, <2>2
<1>. QED
  BY <1>5, TreesGoOn

(* An insert puts the key where the case says.                             *)
LEMMA InsertFollows ==
    ASSUME IInv, NEW t \in Threads, Insert(t)
    PROVE  /\ t # Checker /\ idx[t] <= Len(currCase) /\ Entry(t).op = "INSERT" /\ IsMine(t)
           /\ TreePut(t, Entry(t).value, 1)
           /\ TreesFollowTheCase'
<1>. USE DEF IInv
<1>1. t # Checker /\ idx[t] <= Len(currCase) /\ Entry(t).op = "INSERT" /\ IsMine(t)
  BY DEF Insert, Protocol, EntryFitsPc
<1>2. TreeOf(t)[Entry(t).value] = 0
  BY DEF Insert, AnswerHolds
<1>3. TreePut(t, Entry(t).value, 1)
  BY <1>2 DEF Insert
<1>4. replay[idx[t]] = replay[idx[t] - 1] \cup {Entry(t).value}
  BY <1>1, ReplayStep DEF After
<1>. QED
  BY <1>1, <1>3, <1>4, PutFollows DEF Insert, Ops

(* A remove takes the key out where the case says.                         *)
LEMMA RemoveFollows ==
    ASSUME IInv, NEW t \in Threads, RemoveKey(t)
    PROVE  /\ t # Checker /\ idx[t] <= Len(currCase) /\ Entry(t).op = "REMOVE" /\ IsMine(t)
           /\ TreePut(t, Entry(t).value, 0)
           /\ TreesFollowTheCase'
<1>. USE DEF IInv
<1>1. t # Checker /\ idx[t] <= Len(currCase) /\ Entry(t).op = "REMOVE" /\ IsMine(t)
  BY DEF RemoveKey, Runs, At
<1>2. TreeOf(t)[Entry(t).value] \in {0, 1}
  BY <1>1, OwnKey DEF Ops, Expected
<1>3. TreePut(t, Entry(t).value, 0)
  BY <1>2 DEF RemoveKey, Fewer
<1>4. replay[idx[t]] = replay[idx[t] - 1] \ {Entry(t).value}
  BY <1>1, ReplayStep DEF After
<1>. QED
  BY <1>1, <1>3, <1>4, PutFollows DEF RemoveKey, Ops

(* A write of one thread is not to the key for which another one is about  *)
(* to call insert.                                                         *)
LEMMA PutKeepsAnswers ==
    ASSUME IInv, NEW t \in Threads, t # Checker, idx[t] <= Len(currCase), Entry(t).op \in Ops,
           IsMine(t), NEW n \in Nat, TreePut(t, Entry(t).value, n), Advance(t),
           UNCHANGED currCase
    PROVE  AnswerHolds'
<1>. USE DEF IInv
<1>. SUFFICES ASSUME NEW u \in Threads, pc'[u] = "insert"
              PROVE  TreeOf(u)'[Entry(u).value'] = 0
  BY DEF AnswerHolds
<1>1. u # t /\ pc[u] = "insert" /\ Entry(u)' = Entry(u)
  BY Types DEF Advance, Goto, Entry
<1>2. u # Checker /\ idx[u] <= Len(currCase) /\ Entry(u).op \in Ops /\ IsMine(u)
  BY <1>1 DEF Protocol, EntryFitsPc, Ops
<1>3. /\ Entry(t).value \in Keys /\ (t # Sequential => Entry(t).value % ThreadNum = t)
      /\ Entry(u).value \in Keys /\ (u # Sequential => Entry(u).value % ThreadNum = u)
  BY <1>2, OwnKey
<1>4. TreeOf(u)[Entry(u).value] = 0
  BY <1>1 DEF AnswerHolds
<1>5. concurrent \in [Keys -> Nat] /\ sequential \in [Keys -> Nat]
  BY Types
<1>6. TreeOf(u)'[Entry(u).value] = TreeOf(u)[Entry(u).value]
  <2>1. CASE t = Sequential
    BY <2>1, <1>1 DEF TreePut, TreeOf
  <2>2. CASE t # Sequential
    BY <2>2, <1>1, <1>3, <1>5 DEF TreePut, TreeOf
  <2>. QED
    BY <2>1, <2>2
<1>. QED
  BY <1>1, <1>4, <1>6

(* While the checker compares, no thread is in an entry that changes trees.*)
LEMMA ComparingAlone ==
    ASSUME IInv, pc[Checker] \in {"compare", "compareSeq"}
    PROVE  /\ \A t \in Threads : pc[t] \notin {"next", "insert"}
           /\ \A t \in Threads : idx[t] = idx[Checker]
<1>1. \A t \in Threads : Between(t) /\ idx[t] = idx[Checker]
  BY ThreadSets DEF IInv, Protocol, Together, Between
<1>. QED
  BY <1>1 DEF IInv, Protocol, Between, BarriersFitPc

(* All have run the same entries then, and so the trees are equal.         *)
LEMMA ComparedEqual ==
    ASSUME IInv, pc[Checker] \in {"compare", "compareSeq"}
    PROVE  concurrent = sequential
<1>. USE DEF IInv
<1>1. \A k \in Keys : idx[k % ThreadNum] = idx[Checker] /\ idx[Sequential] = idx[Checker]
  BY ComparingAlone, ThreadSets
<1>2. \A k \in Keys : concurrent[k] = sequential[k]
  BY <1>1 DEF TreesFollowTheCase, Expected
<1>. QED
  BY <1>2, Types
-----------------------------------------------------------------------------
(* Every step keeps the invariant                                          *)

(* A write keeps the types of the trees.                                   *)
LEMMA PutTypes ==
    ASSUME Protocol, NEW t, NEW k, NEW n \in Nat, TreePut(t, k, n)
    PROVE  concurrent' \in [Keys -> Nat] /\ sequential' \in [Keys -> Nat]
<1>1. concurrent \in [Keys -> Nat] /\ sequential \in [Keys -> Nat]
  BY Types
<1>2. CASE t = Sequential
  BY <1>1, <1>2 DEF TreePut
<1>3. CASE t # Sequential
  BY <1>1, <1>3 DEF TreePut
<1>. QED
  BY <1>2, <1>3

(* Every step of a thread keeps to the barriers.                           *)
LEMMA ThreadKeepsProtocol ==
    ASSUME IInv, NEW t \in Threads, Thread(t)
    PROVE  Protocol'
<1>. USE DEF IInv
<1>1. CASE Skip(t)
  BY <1>1, AdvanceKeepsProtocol, Types DEF Skip, At, RunStep, treeVars, Protocol
<1>2. CASE InsertGet(t)
  <2>1. CASE TreeHas(t, Entry(t).value)
    BY <1>2, <2>1, AdvanceKeepsProtocol, Types
    DEF InsertGet, Runs, At, RunStep, treeVars, Protocol, Ops
  <2>2. CASE ~TreeHas(t, Entry(t).value)
    BY <1>2, <2>2, AskKeepsProtocol DEF InsertGet
  <2>. QED
    BY <2>1, <2>2
<1>3. CASE Insert(t)
  <2>1. concurrent' \in [Keys -> Nat] /\ sequential' \in [Keys -> Nat]
    BY <1>3, InsertFollows, PutTypes
  <2>. QED
    BY <1>3, <2>1, InsertFollows, AdvanceKeepsProtocol DEF Insert, RunStep, Protocol, Ops
<1>4. CASE RemoveKey(t)
  <2>1. concurrent' \in [Keys -> Nat] /\ sequential' \in [Keys -> Nat]
    BY <1>4, RemoveFollows, PutTypes
  <2>. QED
    BY <1>4, <2>1, RemoveFollows, AdvanceKeepsProtocol
    DEF RemoveKey, Runs, At, RunStep, Protocol, Ops
<1>5. CASE Get(t)
  BY <1>5, AdvanceKeepsProtocol, Types DEF Get, At, RunStep, treeVars, Protocol, Ops
<1>6. CASE ArriveA(t)
  BY <1>6, ArriveAKeepsProtocol
<1>7. CASE LeaveA(t)
  BY <1>7, LeaveAKeepsProtocol
<1>8. CASE ArriveB(t)
  BY <1>8, ArriveBKeepsProtocol
<1>9. CASE LeaveB(t)
  BY <1>9, LeaveBKeepsProtocol
<1>. QED
  BY <1>1, <1>2, <1>3, <1>4, <1>5, <1>6, <1>7, <1>8, <1>9 DEF Thread

(* A step that moves no thread to another entry leaves the expectation.    *)
LEMMA StayFollows ==
    ASSUME TreesFollowTheCase, UNCHANGED <<idx, treeVars, replay>>
    PROVE  TreesFollowTheCase'
  BY DEF TreesFollowTheCase, Expected, treeVars

(* Every step of a thread leaves the trees following the case.             *)
LEMMA ThreadFollows ==
    ASSUME IInv, NEW t \in Threads, Thread(t)
    PROVE  TreesFollowTheCase'
<1>1. CASE Skip(t)
  BY <1>1, SkipFollows
<1>2. CASE InsertGet(t)
  BY <1>2, FoundFollows, StayFollows DEF InsertGet, IInv, treeVars
<1>3. CASE Insert(t) \/ RemoveKey(t)
  BY <1>3, InsertFollows, RemoveFollows
<1>4. CASE Get(t)
  BY <1>4, GetFollows
<1>5. CASE LeaveB(t)
  BY <1>5, BarrierFollows
<1>6. CASE ArriveA(t) \/ LeaveA(t) \/ ArriveB(t)
  BY <1>6, StayFollows DEF ArriveA, LeaveA, ArriveB, IInv
<1>. QED
  BY <1>1, <1>2, <1>3, <1>4, <1>5, <1>6 DEF Thread

(* No answer is recorded or used where the trees stay as they are and      *)
(* nobody enters or leaves "insert".                                       *)
LEMMA StayKeepsAnswers ==
    ASSUME IInv, UNCHANGED <<currCase, treeVars>>,
           \A u \in Threads : pc'[u] = "insert" => pc[u] = "insert" /\ idx'[u] = idx[u]
    PROVE  AnswerHolds'
  BY DEF IInv, AnswerHolds, TreeOf, Entry, treeVars

(* What get has answered holds until insert is called.                     *)
LEMMA ThreadKeepsAnswers ==
    ASSUME IInv, NEW t \in Threads, Thread(t)
    PROVE  AnswerHolds'
<1>. USE Types DEF IInv
<1>1. CASE Skip(t) \/ Get(t) \/ LeaveB(t)
  BY <1>1, StayKeepsAnswers DEF Skip, Get, LeaveB, Advance, Goto
<1>2. CASE InsertGet(t)
  <2>1. CASE TreeHas(t, Entry(t).value)
    BY <1>2, <2>1, StayKeepsAnswers DEF InsertGet, Advance, Goto
  <2>2. CASE ~TreeHas(t, Entry(t).value)
    <3>1. Entry(t).value \in Keys /\ TreeOf(t)[Entry(t).value] \in Nat
      BY <1>2, OwnKey DEF InsertGet, Runs, At, Ops, Expected
    <3>2. TreeOf(t)[Entry(t).value] = 0
      BY <3>1, <2>2 DEF TreeHas
    <3>3. /\ \A u \in Threads : pc'[u] = "insert" => u = t \/ pc[u] = "insert"
          /\ UNCHANGED <<currCase, idx, treeVars>>
      BY <1>2, <2>2 DEF InsertGet, Goto, treeVars
    <3>. QED
      BY <3>2, <3>3 DEF AnswerHolds, TreeOf, Entry, treeVars
  <2>. QED
    BY <2>1, <2>2
<1>3. CASE Insert(t)
  BY <1>3, InsertFollows, PutKeepsAnswers DEF Insert, Ops
<1>4. CASE RemoveKey(t)
  BY <1>4, RemoveFollows, PutKeepsAnswers DEF RemoveKey, Ops
<1>5. CASE ArriveA(t) \/ LeaveA(t) \/ ArriveB(t)
  BY <1>5, StayKeepsAnswers DEF ArriveA, LeaveA, ArriveB, Goto
<1>. QED
  BY <1>1, <1>2, <1>3, <1>4, <1>5 DEF Thread

(* No thread's step disturbs a comparison.                                 *)
LEMMA ThreadLeavesCompare ==
    ASSUME IInv, NEW t \in Threads, Thread(t)
    PROVE  /\ UNCHANGED <<currCase, concurrentVec, replay>>
           /\ ~Thrown => ~Thrown'
           /\ pc'[Checker] = "compareSeq" => pc[Checker] = "compareSeq"
           /\ pc[Checker] \in {"compare", "compareSeq"} => UNCHANGED treeVars
<1>. USE Types, ThreadSets DEF IInv, Thrown
<1>1. CASE Skip(t) \/ InsertGet(t) \/ Get(t) \/ ArriveA(t) \/ LeaveA(t) \/ ArriveB(t) \/ LeaveB(t)
  BY <1>1 DEF Skip, InsertGet, Get, ArriveA, LeaveA, ArriveB, LeaveB, Advance, Goto
<1>2. CASE Insert(t) \/ RemoveKey(t)
  <2>1. pc[t] \in {"next", "insert"}
    BY <1>2 DEF Insert, RemoveKey, Runs, At
  <2>. QED
    BY <1>2, <2>1, ComparingAlone DEF Insert, RemoveKey, Advance, Goto
<1>. QED
  BY <1>1, <1>2 DEF Thread

(* A comparison finds the trees equal.                                     *)
LEMMA CompareFits ==
    ASSUME IInv, Compare
    PROVE  VecIsTree' /\ CompareSucceeds' /\ AnswerHolds'
<1>. USE Types, ThreadSets DEF IInv
<1>1. concurrent = sequential
  BY ComparedEqual DEF Compare, ReadConcurrent, ReadSequential
<1>2. VecIsTree' /\ CompareSucceeds'
  BY <1>1 DEF Compare, ReadConcurrent, ReadSequential, Goto, VecIsTree, CompareSucceeds, Thrown,
              treeVars
<1>3. AnswerHolds'
  BY StayKeepsAnswers DEF Compare, ReadConcurrent, ReadSequential, Goto
<1>. QED
  BY <1>2, <1>3

(* Every step keeps the invariant.                                         *)
LEMMA NextInv == IInv /\ [Next]_vars => IInv'
<1>. SUFFICES ASSUME IInv, [Next]_vars PROVE IInv'
  OBVIOUS
<1>. USE DEF IInv
<1>1. ASSUME NEW t \in Threads, Thread(t) PROVE IInv'
  <2>1. replay' \in Replays(currCase')
    BY <1>1, ThreadLeavesCompare
  <2>2. VecIsTree' /\ CompareSucceeds'
    BY <1>1, ThreadLeavesCompare DEF VecIsTree, CompareSucceeds, treeVars
  <2>. QED
    BY <1>1, <2>1, <2>2, ThreadKeepsProtocol, ThreadFollows, ThreadKeepsAnswers
<1>2. CASE TripA \/ TripB
  <2>1. UNCHANGED <<currCase, idx, pc, treeVars, concurrentVec, replay>>
    BY <1>2 DEF TripA, TripB
  <2>2. Protocol'
    BY <1>2, TripAKeepsProtocol, TripBKeepsProtocol
  <2>3. AnswerHolds'
    BY <2>1, StayKeepsAnswers
  <2>4. VecIsTree' /\ CompareSucceeds'
    BY <2>1 DEF VecIsTree, CompareSucceeds, Thrown, treeVars
  <2>. QED
    BY <2>1, <2>2, <2>3, <2>4, StayFollows
<1>3. CASE Compare
  <2>1. UNCHANGED <<currCase, idx, treeVars, replay>>
    BY <1>3 DEF Compare, ReadConcurrent, ReadSequential
  <2>. QED
    BY <1>3, <2>1, CompareKeepsProtocol, CompareFits, StayFollows
<1>4. CASE UNCHANGED vars
  BY <1>4 DEF vars, treeVars, barrierVars, Protocol, TypeOK, BarriersFitPc, EntryFitsPc, Together,
              Between, SameRound, Position, TreesFollowTheCase, Expected, AnswerHolds, VecIsTree,
              CompareSucceeds, Thrown, Entry, IsMine, TreeOf
<1>. QED
  BY <1>1, <1>2, <1>3, <1>4 DEF Next, AllReturned

(* The inductive invariant holds in every reachable state.                 *)
THEOREM Invariance == Spec => []IInv
  BY InitInv, NextInv, PTL DEF Spec
-----------------------------------------------------------------------------
(* The program's types, whatever the test case and the number of workers.  *)
THEOREM TypeCorrect == Spec => []TypeOK
<1>1. IInv => TypeOK
  BY DEF IInv, Protocol
<1>. QED
  BY <1>1, Invariance, PTL

(* runTestCase: no two threads of the concurrent tree meet at one key, so  *)
(* that each of them finds in it what a sequential run would find.         *)
THEOREM ThreadsFollowTheCase == Spec => []TreesFollowTheCase
<1>1. IInv => TreesFollowTheCase
  BY DEF IInv
<1>. QED
  BY <1>1, Invariance, PTL

(* compare never throws: with a tree that keeps its promise for single     *)
(* calls the bench reports no failure.                                     *)
THEOREM CompareNeverThrows == Spec => []CompareSucceeds
<1>1. IInv => CompareSucceeds
  BY DEF IInv
<1>. QED
  BY <1>1, Invariance, PTL

(* barrierA and barrierB hold all other threads while compare reads first  *)
(* one tree and then the other.                                            *)
THEOREM ComparedTreesStay == Spec => NothingMovesDuringCompare
<1>1. ASSUME IInv, [Next]_vars, pc[Checker] \in {"compare", "compareSeq"}
      PROVE  UNCHANGED treeVars
  <2>1. ASSUME NEW t \in Threads, Thread(t) PROVE UNCHANGED treeVars
    BY <1>1, <2>1, ThreadLeavesCompare
  <2>2. CASE TripA \/ TripB \/ Compare \/ UNCHANGED vars
    BY <2>2 DEF TripA, TripB, Compare, ReadConcurrent, ReadSequential, vars
  <2>. QED
    BY <1>1, <2>1, <2>2 DEF Next, AllReturned
<1>2. IInv /\ [Next]_vars =>
          [pc[Checker] \in {"compare", "compareSeq"} => UNCHANGED treeVars]_vars
  BY <1>1
<1>. QED
  BY <1>2, Invariance, PTL DEF Spec, NothingMovesDuringCompare
=============================================================================
