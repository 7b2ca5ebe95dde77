------------------------- MODULE SpinBarrierProofs -------------------------
(***************************************************************************)
(* The barrier of utility/Sync.h is correct for any number of threads, any *)
(* width of its counters, and as many rounds as an int can number.         *)
(***************************************************************************)
EXTENDS SpinBarrier, FiniteSetTheorems, TLAPS

(* The rounds for which the theorems hold: 2^31 with an int of 32 bits.    *)
(* (For one round more it is not so: wait compares an int.)                *)
RoundsFitInt == MaxGeneration <= IntMax + 1

(* Whoever is in wait() and has not been let go is in a round of the bound.*)
RoundInBound == \A t \in Threads :
    pc[t] \in {"spin", "load", "dec"} \/ t \in Arrived => generation < MaxGeneration

(* Tickets are handed out and served in a circle: the strengthening that   *)
(* makes mutual exclusion and the count of missing threads inductive.      *)
IInv == /\ RoundsFitInt
        /\ TypeOK
        /\ TicketsInv
        /\ GenerationIsCurrent
        /\ RemainCounts
        /\ RoundInBound

(* N is a positive number, and every set of threads has a cardinality.     *)
LEMMA ThreadCount ==
    /\ N \in Nat
    /\ N > 0
    /\ \A S \in SUBSET Threads : /\ IsFiniteSet(S)
                                 /\ Cardinality(S) \in Nat
                                 /\ Cardinality(S) <= N
<1>1. \A S \in SUBSET Threads : /\ IsFiniteSet(S)
                                /\ Cardinality(S) \in Nat
                                /\ Cardinality(S) <= N
  BY ThreadsAssumption, FS_Subset, FS_CardinalityType DEF N
<1>2. N # 0
  BY ThreadsAssumption, FS_EmptySet DEF N
<1> QED
  BY <1>1, <1>2, ThreadsAssumption, FS_CardinalityType DEF N

(* Adding a new thread to a set of threads.                                *)
LEMMA AddThread ==
    ASSUME NEW S \in SUBSET Threads, NEW t \in Threads, t \notin S
    PROVE  Cardinality(S \cup {t}) = Cardinality(S) + 1
BY ThreadCount, FS_AddElement

(* Taking a thread out of a set of threads.                                *)
LEMMA RemoveThread ==
    ASSUME NEW S \in SUBSET Threads, NEW t \in S
    PROVE  Cardinality(S \ {t}) = Cardinality(S) - 1
BY ThreadCount, FS_RemoveElement

(* A thread outside a set leaves room in it.                               *)
LEMMA MissingThread ==
    ASSUME NEW S \in SUBSET Threads, NEW t \in Threads, t \notin S
    PROVE  Cardinality(S) < N
<1>1. S \cup {t} \in SUBSET Threads
  OBVIOUS
<1>2. Cardinality(S \cup {t}) <= N
  BY <1>1, ThreadCount
<1>3. Cardinality(S) \in Nat /\ N \in Nat
  BY ThreadCount
<1> QED
  BY <1>2, <1>3, AddThread

(* A set with as many elements as there are threads holds all of them.     *)
LEMMA AllThreads ==
    ASSUME NEW S \in SUBSET Threads, Cardinality(S) = N
    PROVE  S = Threads
BY MissingThread, ThreadCount

(* x++ stays within the width and really moves.                            *)
LEMMA IncType ==
    ASSUME NEW m \in Nat, m > 1, NEW x \in 0 .. (m - 1)
    PROVE  /\ Inc(x, m) \in 0 .. (m - 1)
           /\ Inc(x, m) # x
BY DEF Inc

(* There are at least two tickets.                                         *)
LEMMA TicketWidth == IntMod \in Nat /\ IntMod > 1 /\ N < IntMod
BY WidthAssumption, ThreadCount DEF N, IntMod

(* A number below the modulus is its own remainder.                        *)
LEMMA SmallMod == ASSUME NEW m \in Nat, m > 0, NEW g \in 0 .. (m - 1)
                  PROVE  g % m = g
OBVIOUS

(* A generation that fits an int survives the two conversions, and the     *)
(* next one is told apart from it.                                         *)
LEMMA Conversions ==
    ASSUME NEW g \in Nat, g <= IntMax
    PROVE  /\ ToInt(g) = g
           /\ ToInt(g) \in Ints
           /\ ToLong(ToInt(g)) = g
           /\ ToInt(g + 1) # g
<1>1. IntMax \in Nat /\ IntMod = 2 * (IntMax + 1)
  BY WidthAssumption DEF IntMod
<1>2. g % IntMod = g /\ (g + 1) % IntMod = g + 1
  BY <1>1, SmallMod
<1> QED
  BY <1>1, <1>2 DEF ToInt, ToLong, Ints

(* Initially.                                                              *)
LEMMA InitInvariant == Init /\ RoundsFitInt => IInv
<1> SUFFICES ASSUME Init, RoundsFitInt PROVE IInv
  OBVIOUS
<1> USE ThreadCount, TicketWidth, WidthAssumption
<1>1. TypeOK
  BY DEF Init, TypeOK, Tickets, Generations, Statements, Ints
<1>2. InLock = {} /\ Arrived = {}
  BY DEF Init, InLock, Arrived, Critical
<1>3. Cardinality({}) = 0
  BY FS_EmptySet
<1>4. TicketsInv
  BY <1>2, <1>3 DEF TicketsInv, Init, Distance, Critical
<1>5. GenerationIsCurrent /\ RemainCounts
  BY <1>2, <1>3 DEF GenerationIsCurrent, RemainCounts, Init
<1>6. RoundInBound
  BY <1>2 DEF RoundInBound, Init
<1> QED
  BY <1>1, <1>4, <1>5, <1>6 DEF IInv

(* SpinLock excludes.                                                      *)
LEMMA TicketsExclude == TicketsInv => MutualExclusion
BY DEF TicketsInv, MutualExclusion, InLock

(* The generation of a round of the bound fits an int.                     *)
LEMMA RoundFitsInt ==
    ASSUME IInv, generation < MaxGeneration
    PROVE  /\ generation \in Nat
           /\ generation <= IntMax
           /\ Inc(generation, GenMod) = generation + 1
BY WidthAssumption DEF IInv, RoundsFitInt, TypeOK, Generations, Inc

(* Every statement of wait() leaves every variable within its type.        *)
LEMMA NextType == IInv /\ [Next]_vars => TypeOK'
<1> SUFFICES ASSUME IInv, [Next]_vars PROVE TypeOK'
  OBVIOUS
<1> USE DEF TypeOK, Goto, lockVars, barrierVars
<1>0. TypeOK
  BY DEF IInv
<1>1. ASSUME NEW t \in Threads, Lock(t) PROVE TypeOK'
  BY <1>0, <1>1, TicketWidth, IncType DEF Lock, Tickets, Statements
<1>2. ASSUME NEW t \in Threads, Acquire(t) PROVE TypeOK'
  BY <1>0, <1>2 DEF Acquire, Statements
<1>3. ASSUME NEW t \in Threads, LoadGeneration(t) PROVE TypeOK'
  <2>1. generation < MaxGeneration
    BY <1>3 DEF IInv, RoundInBound, LoadGeneration
  <2>2. ToInt(generation) \in Ints
    BY <2>1, RoundFitsInt, Conversions
  <2> QED
    BY <1>0, <1>3, <2>2 DEF LoadGeneration, Statements
<1>4. ASSUME NEW t \in Threads, Decrement(t) PROVE TypeOK'
  <2>1. t \notin Arrived /\ Arrived \in SUBSET Threads
    BY <1>4 DEF Decrement, Arrived
  <2>2. pc[t] = "dec" /\ \A u \in Threads : pc[u] # "reset"
    BY <1>4, TicketsExclude DEF Decrement, IInv, MutualExclusion, Critical
  <2>3. remain = N - Cardinality(Arrived)
    BY <2>2 DEF IInv, RemainCounts
  <2>4. remain > 0 /\ remain' \in 0 .. N
    BY <2>1, <2>3, <1>4, MissingThread, ThreadCount DEF Decrement
  <2> QED
    BY <1>0, <1>4, <2>4 DEF Decrement, Statements
<1>5. ASSUME NEW t \in Threads, NewGeneration(t) PROVE TypeOK'
  <2>1. GenMod \in Nat /\ GenMod > 1
    BY WidthAssumption, TicketWidth
  <2>2. Inc(generation, GenMod) \in Generations
    BY <1>0, <2>1, IncType DEF Generations
  <2> QED
    BY <1>0, <1>5, <2>2 DEF NewGeneration, Statements
<1>6. ASSUME NEW t \in Threads, ResetRemain(t) PROVE TypeOK'
  BY <1>0, <1>6, ThreadCount DEF ResetRemain, Statements
<1>7. ASSUME NEW t \in Threads, Unlock(t) PROVE TypeOK'
  BY <1>0, <1>7, TicketWidth, IncType DEF Unlock, Tickets, Statements
<1>8. ASSUME NEW t \in Threads, Await(t) PROVE TypeOK'
  BY <1>0, <1>8 DEF Await, Statements
<1>9. CASE UNCHANGED vars
  BY <1>0, <1>9 DEF vars
<1> QED
  BY <1>1, <1>2, <1>3, <1>4, <1>5, <1>6, <1>7, <1>8, <1>9 DEF Next, Inside, Finished

(* Distances on the circle of tickets.                                     *)
LEMMA DistanceType ==
    ASSUME nowServing \in Tickets, NEW k \in Tickets
    PROVE  /\ Distance(k) \in Nat
           /\ Distance(k) < IntMod
           /\ Distance(k) = 0 <=> k = nowServing
BY TicketWidth DEF Tickets, Distance

(* The queue for the lock stays in order: nobody is skipped or served      *)
(* twice, and whoever is between lock() and unlock() has the served ticket.*)
LEMMA NextTickets == IInv /\ [Next]_vars => TicketsInv'
<1> SUFFICES ASSUME IInv, [Next]_vars PROVE TicketsInv'
  OBVIOUS
<1>a. TypeOK /\ TicketsInv /\ TypeOK'
  BY NextType DEF IInv
<1>b. InLock \in SUBSET Threads
  BY DEF InLock
<1>1. ASSUME NEW t \in Threads, Lock(t) PROVE TicketsInv'
  <2>1. InLock' = InLock \cup {t} /\ t \notin InLock
    BY <1>1, <1>a DEF Lock, Goto, InLock, Critical, TypeOK
  <2>2. Cardinality(InLock') = Cardinality(InLock) + 1 /\ Cardinality(InLock) < N
    BY <2>1, <1>b, AddThread, MissingThread
  <2>3. Cardinality(InLock) \in Nat /\ N \in Nat
    BY <1>b, ThreadCount
  <2>4. /\ nowServing' = nowServing
        /\ nextTicket' = Inc(nextTicket, IntMod)
        /\ myTicket' = [myTicket EXCEPT ![t] = nextTicket]
        /\ pc' = [pc EXCEPT ![t] = "spin"]
    BY <1>1 DEF Lock, Goto
  <2>5. Distance(nextTicket)' = Distance(nextTicket) + 1
    BY <2>2, <2>3, <2>4, <1>a, TicketWidth
       DEF Distance, Inc, TypeOK, Tickets, TicketsInv
  <2>6. \A u \in InLock' : IF u = t THEN myTicket'[u] = nextTicket
                                    ELSE myTicket'[u] = myTicket[u] /\ u \in InLock
    BY <2>1, <2>4, <1>a, <1>b DEF TypeOK
  <2>7. \A k \in Tickets : Distance(k)' = Distance(k)
    BY <2>4 DEF Distance
  <2>8. \A u \in InLock : myTicket[u] \in Tickets /\ Distance(myTicket[u]) \in Nat
    BY <1>a, <1>b, DistanceType DEF TypeOK
  <2>9. nextTicket \in Tickets /\ Distance(nextTicket) \in Nat
    BY <1>a, DistanceType DEF TypeOK
  <2>10. \A u \in InLock' : Distance(myTicket[u])' < Distance(nextTicket)'
    <3> SUFFICES ASSUME NEW u \in InLock'
                 PROVE  Distance(myTicket[u])' < Distance(nextTicket)'
      OBVIOUS
    <3>1. CASE u = t
      <4>1. Distance(myTicket[u])' = Distance(nextTicket)
        BY <3>1, <2>4, <2>6 DEF Distance
      <4> QED
        BY <4>1, <2>5, <2>9
    <3>2. CASE u # t
      <4>1. Distance(myTicket[u])' = Distance(myTicket[u])
        BY <3>2, <2>4, <2>6 DEF Distance
      <4>2. Distance(myTicket[u]) < Distance(nextTicket) /\ u \in InLock
        BY <3>2, <2>6, <1>a DEF TicketsInv
      <4> QED
        BY <4>1, <4>2, <2>5, <2>8, <2>9
    <3> QED
      BY <3>1, <3>2
  <2>11. \A u \in InLock : myTicket[u] # nextTicket
    BY <2>8, <2>9, <1>a DEF TicketsInv
  <2>12. \A u, v \in InLock' : myTicket'[u] = myTicket'[v] => u = v
    BY <2>6, <2>11, <1>a DEF TicketsInv
  <2>13. \A u \in Threads : pc'[u] \in Critical => myTicket'[u] = nowServing'
    BY <2>4, <1>a DEF TicketsInv, TypeOK, Critical
  <2> QED
    BY <2>2, <2>5, <2>10, <2>12, <2>13, <1>a DEF TicketsInv
<1>2. ASSUME NEW t \in Threads, Acquire(t) PROVE TicketsInv'
  <2>1. InLock' = InLock
    BY <1>2, <1>a DEF Acquire, Goto, InLock, Critical, TypeOK
  <2> QED
    BY <1>2, <2>1, <1>a
       DEF Acquire, Goto, TicketsInv, Distance, lockVars, TypeOK
<1>3. ASSUME NEW t \in Threads, Unlock(t) PROVE TicketsInv'
  <2>1. /\ InLock' = InLock \ {t}
        /\ t \in InLock
        /\ pc[t] \in Critical
        /\ \A u \in Threads : u # t => pc'[u] = pc[u]
        /\ pc'[t] \notin Critical
    BY <1>3, <1>a DEF Unlock, Goto, InLock, Critical, TypeOK
  <2>2. Cardinality(InLock') = Cardinality(InLock) - 1
    BY <2>1, <1>b, RemoveThread
  <2>3. Cardinality(InLock) \in Nat /\ N \in Nat /\ Cardinality(InLock) <= N
    BY <1>b, ThreadCount
  <2>4. /\ nowServing' = Inc(nowServing, IntMod)
        /\ nextTicket' = nextTicket
        /\ myTicket' = myTicket
    BY <1>3 DEF Unlock
  <2>5. myTicket[t] = nowServing
    BY <2>1, <1>a DEF TicketsInv
  <2>6. \A u \in InLock' : u \in InLock /\ myTicket[u] # nowServing
    BY <2>1, <2>5, <1>a DEF TicketsInv
  <2>7. \A k \in Tickets : k # nowServing => Distance(k)' = Distance(k) - 1
    BY <2>4, <1>a, TicketWidth DEF Distance, Inc, TypeOK, Tickets
  <2>8. nextTicket # nowServing
    <3>1. InLock # {}
      BY <2>1
    <3>2. Cardinality(InLock) # 0
      BY <2>2, <2>1, <1>b, ThreadCount
    <3> QED
      BY <3>2, <1>a, DistanceType DEF TicketsInv, TypeOK
  <2>9. Distance(nextTicket)' = Distance(nextTicket) - 1
    BY <2>4, <2>7, <2>8, <1>a DEF TypeOK, Distance
  <2>10. \A u \in InLock' : Distance(myTicket[u])' < Distance(nextTicket)'
    <3> SUFFICES ASSUME NEW u \in InLock'
                 PROVE  Distance(myTicket[u])' < Distance(nextTicket)'
      OBVIOUS
    <3>1. /\ myTicket[u] \in Tickets
          /\ Distance(myTicket[u]) \in Nat
          /\ Distance(nextTicket) \in Nat
      BY <2>6, <1>a, <1>b, DistanceType DEF TypeOK
    <3>2. Distance(myTicket[u])' = Distance(myTicket[u]) - 1
      BY <3>1, <2>4, <2>6, <2>7 DEF Distance
    <3>3. Distance(myTicket[u]) < Distance(nextTicket)
      BY <2>6, <1>a DEF TicketsInv
    <3> QED
      BY <3>1, <3>2, <3>3, <2>9
  <2>11. \A u, v \in InLock' : myTicket'[u] = myTicket'[v] => u = v
    BY <2>4, <2>6, <1>a DEF TicketsInv
  <2>12. \A u \in Threads : pc[u] \in Critical => u = t
    BY <2>1, <1>a, TicketsExclude DEF MutualExclusion
  <2>13. \A u \in Threads : pc'[u] \notin Critical
    BY <2>1, <2>12
  <2> QED
    BY <2>2, <2>9, <2>10, <2>11, <2>13, <1>a DEF TicketsInv
<1>4. ASSUME NEW t \in Threads,
             \/ LoadGeneration(t) \/ Decrement(t) \/ NewGeneration(t)
             \/ ResetRemain(t) \/ Await(t)
      PROVE  TicketsInv'
  <2>1. /\ InLock' = InLock
        /\ \A u \in Threads : pc'[u] \in Critical => pc[u] \in Critical
        /\ UNCHANGED lockVars
    BY <1>4, <1>a
       DEF LoadGeneration, Decrement, NewGeneration, ResetRemain, Await,
           Goto, InLock, Critical, TypeOK
  <2> QED
    BY <2>1, <1>a DEF TicketsInv, Distance, lockVars
<1>5. CASE UNCHANGED vars
  BY <1>5, <1>a DEF vars, TicketsInv, InLock, Distance
<1> QED
  BY <1>1, <1>2, <1>3, <1>4, <1>5 DEF Next, Inside, Finished

(* The lock keeps the generation still while a thread works with the value *)
(* it has read.                                                            *)
LEMMA NextGenerationIsCurrent == IInv /\ [Next]_vars => GenerationIsCurrent'
<1> SUFFICES ASSUME IInv, [Next]_vars PROVE GenerationIsCurrent'
  OBVIOUS
<1>a. TypeOK /\ GenerationIsCurrent /\ MutualExclusion
  BY TicketsExclude DEF IInv
<1>1. ASSUME NEW t \in Threads, NewGeneration(t) PROVE GenerationIsCurrent'
  BY <1>1, <1>a
     DEF NewGeneration, Goto, GenerationIsCurrent, MutualExclusion, Critical, TypeOK
<1>2. ASSUME NEW t \in Threads, LoadGeneration(t) PROVE GenerationIsCurrent'
  BY <1>2, <1>a DEF LoadGeneration, Goto, GenerationIsCurrent, TypeOK
<1>3. ASSUME NEW t \in Threads, Decrement(t) PROVE GenerationIsCurrent'
  BY <1>3, <1>a DEF Decrement, Goto, GenerationIsCurrent, TypeOK
<1>4. ASSUME NEW t \in Threads,
             Lock(t) \/ Acquire(t) \/ ResetRemain(t) \/ Unlock(t) \/ Await(t)
      PROVE  GenerationIsCurrent'
  BY <1>4, <1>a
     DEF Lock, Acquire, ResetRemain, Unlock, Await, Goto, GenerationIsCurrent,
         TypeOK, barrierVars
<1>5. CASE UNCHANGED vars
  BY <1>5, <1>a DEF vars, GenerationIsCurrent
<1> QED
  BY <1>1, <1>2, <1>3, <1>4, <1>5 DEF Next, Inside, Finished

-----------------------------------------------------------------------------
(* What each statement does to the two sets the rendezvous is about.       *)
(***************************************************************************)

(* --remain records an arrival.                                            *)
LEMMA DecrementArrives ==
    ASSUME IInv, NEW t \in Threads, Decrement(t)
    PROVE  /\ t \notin Arrived \cup Released
           /\ Arrived' = Arrived \cup {t}
           /\ Released' = Released
           /\ remain = N - Cardinality(Arrived)
           /\ \A u \in Threads : pc[u] \notin {"newgen", "reset"}
           /\ \A u \in Threads : pc'[u] \notin {"reset"}
<1>a. TypeOK /\ GenerationIsCurrent /\ MutualExclusion
  BY TicketsExclude DEF IInv
<1>1. \A u \in Threads : pc[u] \notin {"newgen", "reset"}
  BY <1>a DEF Decrement, Goto, MutualExclusion, Critical
<1>2. remain = N - Cardinality(Arrived)
  BY <1>1 DEF IInv, RemainCounts
<1>3. /\ t \notin Arrived \cup Released
      /\ Arrived' = Arrived \cup {t}
      /\ Released' = Released
      /\ \A u \in Threads : pc'[u] \notin {"reset"}
  BY <1>a, <1>1
     DEF Decrement, Goto, Arrived, Released, TypeOK
<1> QED
  BY <1>1, <1>2, <1>3

(* generation++ lets all threads go: at that point all have arrived.       *)
LEMMA NewGenerationTrips ==
    ASSUME IInv, NEW t \in Threads, NewGeneration(t)
    PROVE  /\ Arrived = Threads
           /\ Arrived' = {}
           /\ Released' = Threads
           /\ remain = 0
           /\ pc'[t] = "reset"
           /\ \A u \in Threads : pc'[u] # "newgen"
<1>a. TypeOK /\ GenerationIsCurrent /\ MutualExclusion
  BY TicketsExclude DEF IInv
<1>1. /\ pc[t] = "newgen"
      /\ pc' = [pc EXCEPT ![t] = "reset"]
      /\ generation' = Inc(generation, GenMod)
      /\ currGen' = currGen
  BY DEF NewGeneration, Goto
<1>2. \A u \in Threads : u # t => pc[u] \notin Critical
  BY <1>1, <1>a DEF MutualExclusion, Critical
<1>3. remain = 0 /\ remain = N - Cardinality(Arrived)
  BY <1>1, <1>2 DEF IInv, RemainCounts, Critical
<1>4. Arrived \in SUBSET Threads
  BY DEF Arrived
<1>5. Arrived = Threads
  BY <1>3, <1>4, ThreadCount, AllThreads
<1>6. \A u \in Threads : u # t => pc[u] = "await" /\ currGen[u] = ToInt(generation)
  BY <1>2, <1>5 DEF Arrived, Critical
<1>7. ToInt(generation') # ToInt(generation)
  <2>1. generation < MaxGeneration
    BY <1>5 DEF IInv, RoundInBound
  <2> QED
    BY <2>1, <1>1, RoundFitsInt, Conversions
<1>8. \A u \in Threads : IF u = t THEN pc'[u] = "reset"
                         ELSE pc'[u] = "await" /\ currGen'[u] # ToInt(generation')
  BY <1>1, <1>6, <1>7, <1>a DEF TypeOK
<1> QED
  BY <1>3, <1>5, <1>8 DEF Arrived, Released

(* A thread that leaves wait() was let go by the last round.               *)
LEMMA LeavingWasReleased ==
    ASSUME IInv, NEW t \in Threads,
           Await(t) \/ (Unlock(t) /\ pc[t] = "unlocklast")
    PROVE  /\ t \in Released
           /\ Released' = Released \ {t}
           /\ Arrived' = Arrived
           /\ UNCHANGED remain
           /\ \A u \in Threads : pc'[u] \in {"newgen", "reset"} <=>
                                  pc[u] \in {"newgen", "reset"} /\ pc'[u] = pc[u]
<1>a. TypeOK
  BY DEF IInv
<1>1. ASSUME Await(t) PROVE currGen[t] # ToInt(generation)
  <2>1. SUFFICES ASSUME currGen[t] = ToInt(generation) PROVE FALSE
    OBVIOUS
  <2>2. t \in Arrived
    BY <1>1, <2>1 DEF Await, Goto, Arrived
  <2>3. ToLong(currGen[t]) = generation
    BY <2>1, <2>2, RoundFitsInt, Conversions DEF IInv, RoundInBound
  <2> QED
    BY <1>1, <2>3 DEF Await
<1> QED
  BY <1>a, <1>1 DEF Await, Unlock, Goto, Arrived, Released, TypeOK, barrierVars

(* The other statements are of no concern to the rendezvous.               *)
LEMMA OthersStutter ==
    ASSUME IInv, NEW t \in Threads,
           \/ Lock(t) \/ Acquire(t) \/ LoadGeneration(t)
           \/ Unlock(t) /\ pc[t] # "unlocklast"
    PROVE  /\ Released' = Released
           /\ Arrived' = Arrived
           /\ UNCHANGED remain
           /\ \A u \in Threads : pc'[u] \in {"newgen", "reset"} <=>
                                  pc[u] \in {"newgen", "reset"} /\ pc'[u] = pc[u]
<1>a. TypeOK /\ GenerationIsCurrent
  BY DEF IInv
<1>1. ASSUME Unlock(t), pc[t] # "unlocklast"
      PROVE  Released' = Released /\ Arrived' = Arrived
  BY <1>1, <1>a
     DEF Unlock, Goto, Arrived, Released, TypeOK, barrierVars, GenerationIsCurrent
<1>2. ASSUME Lock(t) \/ Acquire(t) \/ LoadGeneration(t)
      PROVE  Released' = Released /\ Arrived' = Arrived
  BY <1>2, <1>a
     DEF Lock, Acquire, LoadGeneration, Goto, Arrived, Released, TypeOK, barrierVars
<1>3. /\ UNCHANGED remain
      /\ \A u \in Threads : pc'[u] \in {"newgen", "reset"} <=>
                             pc[u] \in {"newgen", "reset"} /\ pc'[u] = pc[u]
  BY <1>a DEF Lock, Acquire, LoadGeneration, Unlock, Goto, TypeOK, barrierVars
<1> QED
  BY <1>1, <1>2, <1>3

(* remain = ExpectThreadNum readies the round nobody has arrived at.       *)
LEMMA ResetReadies ==
    ASSUME IInv, NEW t \in Threads, ResetRemain(t)
    PROVE  /\ Released' = Released
           /\ Arrived = {}
           /\ Arrived' = {}
           /\ remain' = N
           /\ \A u \in Threads : pc'[u] \notin {"newgen", "reset"}
<1>a. TypeOK /\ MutualExclusion
  BY TicketsExclude DEF IInv
<1>1. /\ pc[t] = "reset"
      /\ pc' = [pc EXCEPT ![t] = "unlocklast"]
      /\ remain' = N
      /\ UNCHANGED <<generation, currGen>>
  BY DEF ResetRemain, Goto
<1>2. Arrived = {}
  BY <1>1 DEF IInv, RemainCounts
<1>3. \A u \in Threads : u # t => pc[u] \notin Critical
  BY <1>1, <1>a DEF MutualExclusion, Critical
<1>4. \A u \in Threads : pc'[u] \notin {"newgen", "reset"}
  BY <1>1, <1>3, <1>a DEF Critical, TypeOK
<1>5. Released' = Released /\ Arrived' = Arrived
  BY <1>1, <1>a DEF Arrived, Released, TypeOK
<1> QED
  BY <1>1, <1>2, <1>4, <1>5

(* remain stays the number of threads that are still missing.              *)
LEMMA NextRemain == IInv /\ [Next]_vars => RemainCounts'
<1> SUFFICES ASSUME IInv, [Next]_vars PROVE RemainCounts'
  OBVIOUS
<1>a. RemainCounts /\ TypeOK /\ Arrived \in SUBSET Threads
  BY DEF IInv, Arrived
<1>b. Cardinality({}) = 0 /\ N \in Nat
  BY FS_EmptySet, ThreadCount
<1>1. ASSUME NEW t \in Threads, Decrement(t) PROVE RemainCounts'
  <2>1. /\ Cardinality(Arrived') = Cardinality(Arrived) + 1
        /\ Cardinality(Arrived) \in Nat
    BY <1>1, <1>a, DecrementArrives, AddThread, ThreadCount
  <2>2. remain' = N - Cardinality(Arrived)'
    BY <1>1, <1>b, <2>1, DecrementArrives DEF Decrement
  <2>3. \A u \in Threads : pc'[u] = "newgen" => remain' = 0
    BY <1>1, <1>a, DecrementArrives DEF Decrement, Goto, TypeOK
  <2> QED
    BY <1>1, <2>2, <2>3, DecrementArrives DEF RemainCounts
<1>2. ASSUME NEW t \in Threads, NewGeneration(t) PROVE RemainCounts'
  BY <1>2, NewGenerationTrips DEF RemainCounts, NewGeneration
<1>3. ASSUME NEW t \in Threads, ResetRemain(t) PROVE RemainCounts'
  BY <1>3, <1>b, ResetReadies DEF RemainCounts
<1>4. ASSUME NEW t \in Threads,
             Await(t) \/ (Unlock(t) /\ pc[t] = "unlocklast")
      PROVE  RemainCounts'
  <2>1. /\ Arrived' = Arrived
        /\ remain' = remain
        /\ \A u \in Threads : pc'[u] = "reset" <=> pc[u] = "reset"
        /\ \A u \in Threads : pc'[u] = "newgen" => pc[u] = "newgen"
    BY <1>4, <1>a, LeavingWasReleased DEF Await, Unlock, Goto, TypeOK
  <2> QED
    BY <1>a, <2>1 DEF RemainCounts
<1>5. ASSUME NEW t \in Threads,
             \/ Lock(t) \/ Acquire(t) \/ LoadGeneration(t)
             \/ Unlock(t) /\ pc[t] # "unlocklast"
      PROVE  RemainCounts'
  <2>1. /\ Arrived' = Arrived
        /\ remain' = remain
        /\ \A u \in Threads : pc'[u] = "reset" <=> pc[u] = "reset"
        /\ \A u \in Threads : pc'[u] = "newgen" => pc[u] = "newgen"
    BY <1>5, <1>a, OthersStutter
       DEF Lock, Acquire, LoadGeneration, Unlock, Goto, TypeOK
  <2> QED
    BY <1>a, <2>1 DEF RemainCounts
<1>6. CASE UNCHANGED vars
  <2>1. Arrived' = Arrived
    BY <1>6 DEF vars, Arrived
  <2> QED
    BY <1>a, <1>6, <2>1 DEF vars, RemainCounts
<1> QED
  BY <1>1, <1>2, <1>3, <1>4, <1>5, <1>6 DEF Next, Inside, Finished

(* A round goes on until all have arrived: nobody is left in one that the  *)
(* bound does not number.                                                  *)
LEMMA NextRound == IInv /\ [Next]_vars => RoundInBound'
<1> SUFFICES ASSUME IInv, [Next]_vars, NEW u \in Threads,
                    pc'[u] \in {"spin", "load", "dec"} \/ u \in Arrived'
             PROVE  generation' < MaxGeneration
  BY DEF RoundInBound
<1>a. TypeOK /\ RoundInBound
  BY DEF IInv
<1>1. ASSUME NEW t \in Threads, Lock(t) PROVE generation' < MaxGeneration
  BY <1>1 DEF Lock, barrierVars
<1>2. ASSUME NEW t \in Threads, Acquire(t) \/ LoadGeneration(t) \/ Unlock(t) \/ Await(t)
      PROVE  generation' < MaxGeneration
  <2>1. generation' = generation
    BY <1>2 DEF Acquire, LoadGeneration, Unlock, Await, barrierVars
  <2>2. pc[u] \in {"spin", "load", "dec"} \/ u \in Arrived
    BY <1>2, <1>a, OthersStutter, LeavingWasReleased
       DEF Acquire, LoadGeneration, Unlock, Await, Goto, TypeOK
  <2> QED
    BY <2>1, <2>2, <1>a DEF RoundInBound
<1>3. ASSUME NEW t \in Threads, Decrement(t) PROVE generation' < MaxGeneration
  <2>1. generation' = generation
    BY <1>3 DEF Decrement
  <2>2. pc[t] = "dec"
    BY <1>3 DEF Decrement, Goto
  <2> QED
    BY <2>1, <2>2, <1>a DEF RoundInBound
<1>4. ASSUME NEW t \in Threads, NewGeneration(t) PROVE generation' < MaxGeneration
  <2>1. u \notin Arrived' /\ u \in Released'
    BY <1>4, NewGenerationTrips
  <2> QED
    BY <2>1 DEF Released
<1>5. ASSUME NEW t \in Threads, ResetRemain(t) PROVE generation' < MaxGeneration
  <2>1. generation' = generation /\ u \notin Arrived'
    BY <1>5, ResetReadies DEF ResetRemain
  <2>2. pc[u] \in {"spin", "load", "dec"}
    BY <2>1, <1>5, <1>a DEF ResetRemain, Goto, TypeOK
  <2> QED
    BY <2>1, <2>2, <1>a DEF RoundInBound
<1>6. CASE UNCHANGED vars
  BY <1>6, <1>a DEF vars, RoundInBound, Arrived
<1> QED
  BY <1>1, <1>2, <1>3, <1>4, <1>5, <1>6 DEF Next, Inside, Finished

-----------------------------------------------------------------------------
(* The strengthened invariant of SpinLock and Barrier holds in every       *)
(* reachable state.                                                        *)
THEOREM Invariance == Spec /\ RoundsFitInt => []IInv
<1>1. IInv /\ [Next]_vars => IInv'
  BY NextType, NextTickets, NextGenerationIsCurrent, NextRemain, NextRound
     DEF IInv, RoundsFitInt
<1> QED
  BY <1>1, InitInvariant, PTL DEF Spec, SafeSpec

(* Every variable keeps its type: in particular remain never goes below    *)
(* zero and no counter leaves its width.                                   *)
THEOREM TypeCorrect == Spec /\ RoundsFitInt => []TypeOK
<1>1. IInv => TypeOK
  BY DEF IInv
<1> QED
  BY <1>1, Invariance, PTL

(* SpinLock::lock/unlock: at most one thread is inside, for any number of  *)
(* threads smaller than the number of tickets, wrap-around included.       *)
THEOREM LockExcludes == Spec /\ RoundsFitInt => []MutualExclusion
<1>1. IInv => MutualExclusion
  BY TicketsExclude DEF IInv
<1> QED
  BY <1>1, Invariance, PTL

(* Barrier::remain counts the threads that are still missing.              *)
THEOREM RemainIsCount == Spec /\ RoundsFitInt => []RemainCounts
<1>1. IInv => RemainCounts
  BY DEF IInv
<1> QED
  BY <1>1, Invariance, PTL

-----------------------------------------------------------------------------
(* Nobody has arrived anywhere at the start.                               *)
LEMMA InitRefines == Init => Rdv!Init
BY DEF Init, Rdv!Init, Arrived, Released

(* Each statement of wait() is a step of the rendezvous or does not        *)
(* concern it.                                                             *)
LEMMA NextRefines == IInv /\ [Next]_vars => [Rdv!Next]_(Rdv!vars)
<1> SUFFICES ASSUME IInv, [Next]_vars PROVE [Rdv!Next]_(Rdv!vars)
  OBVIOUS
<1> USE DEF Rdv!Next, Rdv!vars
<1>1. ASSUME NEW t \in Threads, Decrement(t) PROVE Rdv!Arrive(t)
  BY <1>1, DecrementArrives DEF Rdv!Arrive
<1>2. ASSUME NEW t \in Threads, NewGeneration(t) PROVE Rdv!Trip
  BY <1>2, NewGenerationTrips DEF Rdv!Trip
<1>3. ASSUME NEW t \in Threads,
             Await(t) \/ (Unlock(t) /\ pc[t] = "unlocklast")
      PROVE  Rdv!Leave(t)
  BY <1>3, LeavingWasReleased DEF Rdv!Leave
<1>4. ASSUME NEW t \in Threads,
             \/ Lock(t) \/ Acquire(t) \/ LoadGeneration(t) \/ ResetRemain(t)
             \/ Unlock(t) /\ pc[t] # "unlocklast"
      PROVE  UNCHANGED Rdv!vars
  BY <1>4, OthersStutter, ResetReadies
<1>5. CASE UNCHANGED vars
  BY <1>5 DEF vars, Arrived, Released
<1> QED
  BY <1>1, <1>2, <1>3, <1>4, <1>5 DEF Next, Inside, Finished

(* Barrier::wait implements the rendezvous: no thread returns from a round *)
(* before all threads have arrived at it, and an early caller of the next  *)
(* round is never counted in the old one.  That all return once all have   *)
(* arrived (the fairness half of Rdv!Spec) is left to TLC.                 *)
THEOREM BarrierImplementsRendezvous == Spec /\ RoundsFitInt => ImplementsRendezvousSafely
<1>1. IInv /\ [Next]_vars => [Rdv!Next]_(Rdv!vars)
  BY NextRefines
<1> QED
  BY <1>1, InitRefines, Invariance, PTL
     DEF Spec, SafeSpec, ImplementsRendezvousSafely, Rdv!SafeSpec
=============================================================================
