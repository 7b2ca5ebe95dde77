---------------------------- MODULE SpinBarrier ----------------------------
(***************************************************************************)
(* utility/Sync.h: the ticket lock SpinLock and the generation barrier     *)
(* Barrier built on it, one action per access to a shared atomic.          *)
(*                                                                         *)
(* Tickets and generations are machine integers that wrap: a ticket is an  *)
(* int, a generation an unsigned long, and wait() keeps the generation it  *)
(* has read in an int, which the comparison extends again with its sign.   *)
(* The widths are constants.                                               *)
(***************************************************************************)
EXTENDS Integers, FiniteSets

CONSTANTS Threads,       \* the ExpectThreadNum threads that call wait()
          IntMax,        \* largest int
          GenMod,        \* number of values of an unsigned long
          MaxGeneration  \* bound: rounds the threads go through

(* The scheduler creates each barrier for numWorker + 1 threads and that   *)
(* many threads use it (scheduler.hpp:16-17, 28-36).                       *)
ASSUME ThreadsAssumption == IsFiniteSet(Threads) /\ Threads # {}

IntMod == 2 * (IntMax + 1)
Ints == (-IntMax - 1) .. IntMax

(* There are more tickets than threads, and a long is wider than an int.   *)
ASSUME WidthAssumption == /\ IntMax \in Nat
                          /\ Cardinality(Threads) < IntMod
                          /\ GenMod \in Nat
                          /\ IntMod < GenMod
                          /\ MaxGeneration \in 0 .. (GenMod - 1)

N == Cardinality(Threads)

VARIABLES nextTicket, nowServing,   \* SpinLock
          remain, generation,       \* Barrier
          pc,                       \* next statement of each thread
          myTicket,                 \* SpinLock::lock's my_ticket
          currGen                   \* Barrier::wait's curr_gen

lockVars == <<nextTicket, nowServing, myTicket>>
barrierVars == <<remain, generation, currGen>>
vars == <<nextTicket, nowServing, myTicket, remain, generation, currGen, pc>>

Statements == {"work", "spin", "load", "dec",
               "newgen", "reset", "unlocklast", "unlock", "await"}

(* Between the return of lock() and the return of unlock().                *)
Critical == {"load", "dec", "newgen", "reset", "unlocklast", "unlock"}

Tickets == 0 .. (IntMod - 1)
Generations == 0 .. (GenMod - 1)

(* An unsigned long stored in an int, and compared with one again.         *)
ToInt(g) == LET low == g % IntMod IN IF low <= IntMax THEN low ELSE low - IntMod
ToLong(i) == IF i >= 0 THEN i ELSE i + GenMod

(* x++ on an integer with m values.                                        *)
Inc(x, m) == IF x = m - 1 THEN 0 ELSE x + 1

Init == /\ nextTicket = 0
        /\ nowServing = 0
        /\ remain = N
        /\ generation = 0
        /\ pc = [t \in Threads |-> "work"]
        /\ myTicket = [t \in Threads |-> 0]
        /\ currGen = [t \in Threads |-> 0]

Goto(t, from, to) == /\ pc[t] = from
                     /\ pc' = [pc EXCEPT ![t] = to]

(* wait() is called: lock() draws a ticket.                                *)
Lock(t) == /\ Goto(t, "work", "spin")
           /\ generation < MaxGeneration
           /\ myTicket' = [myTicket EXCEPT ![t] = nextTicket]
           /\ nextTicket' = Inc(nextTicket, IntMod)
           /\ UNCHANGED <<nowServing, barrierVars>>

(* Mutant: the ticket is compared by order, which breaks when it wraps.     *)
AcquireByOrder(t) == /\ Goto(t, "spin", "load")
                     /\ myTicket[t] <= nowServing
                     /\ UNCHANGED <<lockVars, barrierVars>>

(* ... and spins until it is served.                                       *)
Acquire(t) == /\ Goto(t, "spin", "load")
              /\ myTicket[t] = nowServing
              /\ UNCHANGED <<lockVars, barrierVars>>

LoadGeneration(t) == /\ Goto(t, "load", "dec")
                     /\ currGen' = [currGen EXCEPT ![t] = ToInt(generation)]
                     /\ UNCHANGED <<lockVars, remain, generation>>

(* Mutant: the round is closed one thread early.                            *)
DecrementEarly(t) == /\ remain' = remain - 1
                     /\ Goto(t, "dec", IF remain' <= 1 THEN "newgen" ELSE "unlock")
                     /\ UNCHANGED <<lockVars, generation, currGen>>

(* if (--remain == 0): the last thread opens a new generation, the others  *)
(* go and wait for it.                                                     *)
Decrement(t) == /\ remain' = remain - 1
                /\ Goto(t, "dec", IF remain' = 0 THEN "newgen" ELSE "unlock")
                /\ UNCHANGED <<lockVars, generation, currGen>>

NewGeneration(t) == /\ Goto(t, "newgen", "reset")
                    /\ generation' = Inc(generation, GenMod)
                    /\ UNCHANGED <<lockVars, remain, currGen>>

(* Mutants: the count is not reset, or reset for one thread too few.        *)
ResetNothing(t) == /\ Goto(t, "reset", "unlocklast")
                   /\ UNCHANGED <<lockVars, barrierVars>>
ResetOneLess(t) == /\ Goto(t, "reset", "unlocklast")
                   /\ remain' = N - 1
                   /\ UNCHANGED <<lockVars, generation, currGen>>

ResetRemain(t) == /\ Goto(t, "reset", "unlocklast")
                  /\ remain' = N
                  /\ UNCHANGED <<lockVars, generation, currGen>>

(* unlock(), then return true for the last thread, spin for the others.    *)
Unlock(t) == /\ \/ Goto(t, "unlocklast", "work")
                \/ Goto(t, "unlock", "await")
             /\ nowServing' = Inc(nowServing, IntMod)
             /\ UNCHANGED <<nextTicket, myTicket, barrierVars>>

(* while (curr_gen == generation); return false;                           *)
Await(t) == /\ Goto(t, "await", "work")
            /\ ToLong(currGen[t]) # generation
            /\ UNCHANGED <<lockVars, barrierVars>>

(* The rest of wait() once it has been called.                             *)
Inside(t) == \/ Acquire(t) \/ LoadGeneration(t) \/ Decrement(t)
             \/ NewGeneration(t) \/ ResetRemain(t) \/ Unlock(t) \/ Await(t)

(* The threads have been through the rounds of the bound.                  *)
Finished == /\ generation = MaxGeneration /\ \A t \in Threads : pc[t] = "work"
            /\ UNCHANGED vars

Next == Finished \/ \E t \in Threads : Lock(t) \/ Inside(t)

SafeSpec == Init /\ [][Next]_vars

(* A thread inside wait() keeps running: it only spins, it never blocks,   *)
(* so the operating system gives it time again and again.  Whether it      *)
(* calls wait() again is up to the caller.                                 *)
Spec == SafeSpec /\ \A t \in Threads : WF_vars(Inside(t))
-----------------------------------------------------------------------------
TypeOK == /\ nextTicket \in Tickets
          /\ nowServing \in Tickets
          /\ remain \in 0 .. N
          /\ generation \in Generations
          /\ pc \in [Threads -> Statements]
          /\ myTicket \in [Threads -> Tickets]
          /\ currGen \in [Threads -> Ints]

(* The threads that hold a ticket that has not been handed on.             *)
InLock == {t \in Threads : pc[t] \in Critical \cup {"spin"}}

(* The threads that have decremented remain in the round under way ...     *)
Arrived == {t \in Threads : \/ pc[t] \in {"newgen", "unlock"}
                            \/ pc[t] = "await" /\ currGen[t] = ToInt(generation)}

(* ... and those the last round let go that are still inside wait().       *)
Released == {t \in Threads : \/ pc[t] \in {"reset", "unlocklast"}
                             \/ pc[t] = "await" /\ currGen[t] # ToInt(generation)}

(* SpinLock: at most one thread is between lock() and unlock(), although   *)
(* tickets wrap and are drawn by all threads at once.                      *)
MutualExclusion == \A t, u \in Threads :
    pc[t] \in Critical /\ pc[u] \in Critical => t = u

(* How far ticket k is from being served.                                  *)
Distance(k) == IF k >= nowServing THEN k - nowServing
               ELSE k - nowServing + IntMod

(* Tickets held are exactly the ones between nowServing and nextTicket:    *)
(* none is held twice, none is skipped.                                    *)
TicketsInv ==
    /\ Distance(nextTicket) = Cardinality(InLock)
    /\ \A t \in InLock : Distance(myTicket[t]) < Distance(nextTicket)
    /\ \A t, u \in InLock : myTicket[t] = myTicket[u] => t = u
    /\ \A t \in Threads : pc[t] \in Critical => myTicket[t] = nowServing

(* remain counts the threads still missing, except while the last thread   *)
(* is between generation++ and remain = ExpectThreadNum, where it is 0     *)
(* although nobody has arrived at the new round.                           *)
RemainCounts ==
    /\ IF \E t \in Threads : pc[t] = "reset"
         THEN remain = 0 /\ Arrived = {}
         ELSE remain = N - Cardinality(Arrived)
    /\ \A t \in Threads : pc[t] = "newgen" => remain = 0

(* The generation a thread has read is the one it arrives at, although     *)
(* other threads run between the load and the comparison.                  *)
GenerationIsCurrent == \A t \in Threads :
    pc[t] \in {"dec", "newgen", "unlock"} => currGen[t] = ToInt(generation)

(* The barrier the code implements.                                        *)
Rdv == INSTANCE Rendezvous WITH arrived <- Arrived, leaving <- Released

(* Barrier::wait implements the rendezvous: no thread returns from wait()  *)
(* before all have called it, a fast thread that calls wait() again is not *)
(* counted in the old round, and once all have called it all return.       *)
ImplementsRendezvous == Rdv!Spec

(* Sync.h:37, "wait blocks until all ExpectThreadNum threads arrive the    *)
(* barrier and call it", in whatever round: the safety half.  It holds for *)
(* the rounds that an int can number and fails in the one after them,      *)
(* whose number curr_gen cannot keep.                                      *)
ImplementsRendezvousSafely == Rdv!SafeSpec
=============================================================================
