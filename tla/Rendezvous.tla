----------------------------- MODULE Rendezvous -----------------------------
(***************************************************************************)
(* What a reusable barrier promises to the threads that share it, with no  *)
(* lock, counter or generation: nobody leaves a round before everybody has *)
(* arrived at it, and once everybody has arrived everybody leaves.         *)
(*                                                                         *)
(* SpinBarrier implements this specification; the other modules use a      *)
(* barrier only through what is promised here.                             *)
(***************************************************************************)
CONSTANT Threads

VARIABLES arrived,    \* threads that arrived at the current round
          leaving     \* threads let go by the last round, still inside wait()

vars == <<arrived, leaving>>

Init == /\ arrived = {}
        /\ leaving = {}

(* A thread arrives; it may do so while slower threads are still leaving   *)
(* the previous round.                                                     *)
Arrive(t) == /\ t \notin arrived \cup leaving
             /\ arrived' = arrived \cup {t}
             /\ UNCHANGED leaving

(* The round completes.                                                    *)
Trip == /\ arrived = Threads
        /\ arrived' = {}
        /\ leaving' = Threads

Leave(t) == /\ t \in leaving
            /\ leaving' = leaving \ {t}
            /\ UNCHANGED arrived

Next == Trip \/ \E t \in Threads : Arrive(t) \/ Leave(t)

SafeSpec == Init /\ [][Next]_vars

(* Nothing makes a thread call wait(); once inside, it is served.          *)
Spec == SafeSpec /\ WF_vars(Trip) /\ \A t \in Threads : WF_vars(Leave(t))
=============================================================================
