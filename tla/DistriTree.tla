----------------------------- MODULE DistriTree -----------------------------
(***************************************************************************)
(* distriTree/distriTree.hpp: one B+ tree per MPI process.  The foreground *)
(* thread of a rank calls insert, remove and get; its background thread    *)
(* serves the requests of the other ranks.  A process builds and destroys  *)
(* several trees one after the other (DistributeEngine::Run).              *)
(*                                                                         *)
(* MPI (external): messages between two ranks with one tag arrive in the   *)
(* order they were sent; MPI_ANY_SOURCE takes them from any rank; MPI_Isend*)
(* is assumed to have copied its buffer when it returns.  internalTree is  *)
(* taken as a bag of keys with atomic operations.                          *)
(***************************************************************************)
EXTENDS Integers, Sequences, FiniteSets, SequencesExt

CONSTANTS NumProc,         \* NUM_PROC_
          Keys,
          MaxOps,          \* bound: the rank calls with a key on a tree only
                           \* while it has made fewer calls on it than this
          MaxGeneration    \* bound: trees a process builds in a row

ASSUME NumProcAssumption == NumProc \in Nat \ {0}
ASSUME KeysAssumption == Keys # {}

Ranks == 0 .. (NumProc - 1)

ASSUME BoundAssumption == MaxOps \in [Ranks -> [Keys -> Nat]] /\ MaxGeneration \in Nat \ {0}

VARIABLES
    request,     \* <<from, to>> -> messages with RequestTAG
    result,      \* <<from, to>> -> messages with ResultTAG
    acks,        \* <<from, to>> -> number of messages with AckTAG
    tree,        \* rank -> key -> copies in its internalTree
    fg,          \* rank -> [pc, key, idx, found] of its foreground thread
    bg,          \* rank -> "run" or "done": its background thread
    stops,       \* rank -> terminateCounter
    generation,  \* rank -> number of its tree
    ops,         \* rank -> calls made on its tree
    expected,    \* ghost: r -> d -> what would be in the tree of d, had the
                 \* removes of r been executed there when they were called
    held,        \* ghost: rank -> ranks that held fg's key all during its get
    hope,        \* ghost: rank -> a tree as it expects it has held fg's key
                 \* at some moment of its get
    mixed        \* ghost: a tree has taken a request that was meant for another

channels == <<request, result, acks>>
ghosts == <<expected, held, hope, mixed>>
vars == <<channels, tree, fg, bg, stops, generation, ops, ghosts>>

Idle == [pc |-> "idle", key |-> CHOOSE k \in Keys : TRUE, idx |-> 0, found |-> FALSE]
Links == Ranks \X Ranks

(* A tree with no key, with one copy of k more, and less if it has one.    *)
NoKeys == [k \in Keys |-> 0]
Plus(bag, k) == [bag EXCEPT ![k] = @ + 1]
Minus(bag, k) == [bag EXCEPT ![k] = IF @ > 0 THEN @ - 1 ELSE 0]

Init == /\ request = [l \in Links |-> <<>>]
        /\ result = [l \in Links |-> <<>>]
        /\ acks = [l \in Links |-> 0]
        /\ tree = [r \in Ranks |-> NoKeys]
        /\ fg = [r \in Ranks |-> Idle]
        /\ bg = [r \in Ranks |-> "run"]
        /\ stops = [r \in Ranks |-> 0]
        /\ generation = [r \in Ranks |-> 1]
        /\ ops = [r \in Ranks |-> 0]
        /\ expected = [r \in Ranks |-> [d \in Ranks |-> NoKeys]]
        /\ held = [r \in Ranks |-> {}]
        /\ hope = [r \in Ranks |-> FALSE]
        /\ mixed = FALSE

(* A request as its sender builds it; the generation is a ghost, by which  *)
(* the properties tell which tree was meant.                               *)
Message(r, op, k) == [op |-> op, key |-> k, gen |-> generation[r]]

(* MPI_Isend of m from r to each rank of a set.  That the sends follow one *)
(* another is the interleaving of their receipts.                          *)
Send(r, to, m) ==
    request' = [l \in Links |-> IF l[1] = r /\ l[2] \in to THEN Append(request[l], m)
                                ELSE request[l]]

Others(r) == Ranks \ {r}

(* Rank r is in a get.                                                     *)
Getting(r) == fg[r].pc \in {"look", "collect"}

(* remove takes one copy of k from the tree of d, for rank r.  When it was *)
(* the last, whoever is getting the key may miss it.  The others now expect*)
(* a copy less; r has done so since its call.                              *)
TakeCopy(d, k, r) ==
    /\ tree' = [tree EXCEPT ![d] = Minus(@, k)]
    /\ held' = [s \in Ranks |-> IF fg[s].key = k /\ tree'[d][k] = 0 THEN held[s] \ {d}
                                ELSE held[s]]
    /\ expected' = [s \in Ranks |-> IF s = r THEN expected[s]
                                    ELSE [expected[s] EXCEPT ![d] = Minus(@, k)]]
-----------------------------------------------------------------------------
(* The foreground thread: insert, remove and get                           *)

Calls(r, k) == /\ fg[r].pc = "idle"
               /\ ops[r] < MaxOps[r][k]
               /\ ops' = [ops EXCEPT ![r] = @ + 1]

(* insert stays on its own rank.  A tree may have several copies of a key, *)
(* as the comment at distriTree.hpp:120 says.                              *)
Insert(r, k) ==
    /\ Calls(r, k)
    /\ tree' = [tree EXCEPT ![r] = Plus(@, k)]
    /\ expected' = [s \in Ranks |-> [expected[s] EXCEPT ![r] = Plus(@, k)]]
    /\ hope' = [s \in Ranks |-> hope[s] \/ (Getting(s) /\ fg[s].key = k)]
    /\ UNCHANGED <<channels, fg, bg, stops, generation, held, mixed>>

(* remove tells the others and does not wait for them ...                  *)
RemoveSend(r, k) ==
    /\ Calls(r, k)
    /\ Send(r, Others(r), Message(r, "REMOVE", k))
    /\ fg' = [fg EXCEPT ![r].pc = "remove", ![r].key = k]
    /\ expected' = [expected EXCEPT ![r] = [d \in Ranks |-> Minus(@[d], k)]]
    /\ UNCHANGED <<result, acks, tree, bg, stops, generation, held, hope, mixed>>

(* ... then removes from its own tree.                                     *)
RemoveLocal(r) ==
    /\ fg[r].pc = "remove"
    /\ TakeCopy(r, fg[r].key, r)
    /\ fg' = [fg EXCEPT ![r].pc = "idle"]
    /\ UNCHANGED <<channels, bg, stops, generation, ops, hope, mixed>>

(* get asks the others, looks in its own tree ...                          *)
GetSend(r, k) ==
    /\ Calls(r, k)
    /\ Send(r, Others(r), Message(r, "GET", k))
    /\ fg' = [fg EXCEPT ![r] = [pc |-> "look", key |-> k, idx |-> 0, found |-> FALSE]]
    /\ held' = [held EXCEPT ![r] = {d \in Ranks : tree[d][k] > 0}]
    /\ hope' = [hope EXCEPT ![r] = \E d \in Ranks : expected[r][d][k] > 0]
    /\ UNCHANGED <<result, acks, tree, bg, stops, generation, expected, mixed>>

GetLocal(r) ==
    /\ fg[r].pc = "look"
    /\ fg' = [fg EXCEPT ![r].pc = "collect", ![r].found = tree[r][fg[r].key] > 0]
    /\ UNCHANGED <<channels, tree, bg, stops, generation, ops, ghosts>>

(* What get makes of the result of one more rank.                          *)
Combine(found, other) == found \/ other

(* Mutant: the result of another rank overwrites the one it has.           *)
GetReceiveLast(r) ==
    LET s == fg[r].idx
    IN /\ fg[r].pc = "collect" /\ s < NumProc
       /\ IF s = r
            THEN fg' = [fg EXCEPT ![r].idx = s + 1] /\ UNCHANGED result
            ELSE /\ result[<<s, r>>] # <<>>
                 /\ fg' = [fg EXCEPT ![r].idx = s + 1, ![r].found = Head(result[<<s, r>>]).found]
                 /\ result' = [result EXCEPT ![<<s, r>>] = Tail(@)]
       /\ UNCHANGED <<request, acks, tree, bg, stops, generation, ops, ghosts>>

(* ... and receives the others' results in the order of their ranks.       *)
GetReceive(r) ==
    LET s == fg[r].idx
    IN /\ fg[r].pc = "collect" /\ s < NumProc
       /\ IF s = r
            THEN fg' = [fg EXCEPT ![r].idx = s + 1] /\ UNCHANGED result
            ELSE /\ result[<<s, r>>] # <<>>
                 /\ fg' = [fg EXCEPT ![r].idx = s + 1,
                                     ![r].found = Combine(@, Head(result[<<s, r>>]).found)]
                 /\ result' = [result EXCEPT ![<<s, r>>] = Tail(@)]
       /\ UNCHANGED <<request, acks, tree, bg, stops, generation, ops, ghosts>>

(* Mutant: get returns as soon as it has found the key.                    *)
GetReturnWhenFound(r) ==
    /\ fg[r].pc = "collect" /\ (fg[r].idx = NumProc \/ fg[r].found)
    /\ fg' = [fg EXCEPT ![r] = Idle]
    /\ held' = [held EXCEPT ![r] = {}]
    /\ hope' = [hope EXCEPT ![r] = FALSE]
    /\ UNCHANGED <<channels, tree, bg, stops, generation, ops, expected, mixed>>

GetReturn(r) ==
    /\ fg[r].pc = "collect" /\ fg[r].idx = NumProc
    /\ fg' = [fg EXCEPT ![r] = Idle]
    /\ held' = [held EXCEPT ![r] = {}]
    /\ hope' = [hope EXCEPT ![r] = FALSE]
    /\ UNCHANGED <<channels, tree, bg, stops, generation, ops, expected, mixed>>
-----------------------------------------------------------------------------
(* The destructor, and the constructor of the next tree                    *)

(* STOP goes to every rank, the own one included.                          *)
StopSend(r) ==
    /\ fg[r].pc = "idle"
    /\ Send(r, Ranks, Message(r, "STOP", fg[r].key))
    /\ fg' = [fg EXCEPT ![r] = [Idle EXCEPT !.pc = "stop"]]
    /\ UNCHANGED <<result, acks, tree, bg, stops, generation, ops, ghosts>>

(* Mutant: the destructor does not wait for the message.                   *)
AckNotAwaited(s, r) == TRUE

AckArrived(s, r) == acks[<<s, r>>] > 0

AckReceive(r) ==
    LET s == fg[r].idx
    IN /\ fg[r].pc = "stop" /\ s < NumProc
       /\ AckArrived(s, r)
       /\ acks' = [acks EXCEPT ![<<s, r>>] = @ - 1]
       /\ fg' = [fg EXCEPT ![r].idx = s + 1]
       /\ UNCHANGED <<request, result, tree, bg, stops, generation, ops, ghosts>>

(* pthread_join(bg_thread): the tree is gone.                              *)
Join(r) ==
    /\ fg[r].pc = "stop" /\ fg[r].idx = NumProc
    /\ bg[r] = "done"
    /\ fg' = [fg EXCEPT ![r].pc = "destroyed"]
    /\ UNCHANGED <<channels, tree, bg, stops, generation, ops, ghosts>>

(* The next test case builds the next tree, whether or not the other ranks *)
(* have got that far: there is no barrier.                                 *)
Construct(r) ==
    /\ fg[r].pc = "destroyed" /\ generation[r] < MaxGeneration
    /\ generation' = [generation EXCEPT ![r] = @ + 1]
    /\ tree' = [tree EXCEPT ![r] = NoKeys]
    /\ stops' = [stops EXCEPT ![r] = 0]
    /\ bg' = [bg EXCEPT ![r] = "run"]
    /\ fg' = [fg EXCEPT ![r] = Idle]
    /\ ops' = [ops EXCEPT ![r] = 0]
    /\ expected' = [s \in Ranks |-> [expected[s] EXCEPT ![r] = NoKeys]]
    /\ held' = [s \in Ranks |-> held[s] \ {r}]
    /\ UNCHANGED <<channels, hope, mixed>>
-----------------------------------------------------------------------------
(* MPI_background of rank r                                                *)

(* How many STOPs the background thread counts before it leaves.           *)
StopsNeeded(r) == NumProc

(* The ghost follows which tree a request was sent to.                     *)
Delivered(r, m) == mixed' = (mixed \/ m.gen # generation[r])

(* The next message from rank s, while fewer STOPs than ranks have come.   *)
Takes(r, s, op) ==
    /\ bg[r] = "run" /\ stops[r] < StopsNeeded(r)
    /\ request[<<s, r>>] # <<>> /\ Head(request[<<s, r>>]).op = op
    /\ request' = [request EXCEPT ![<<s, r>>] = Tail(@)]
    /\ Delivered(r, Head(request[<<s, r>>]))

(* Mutant: GET has a tag of its own and overtakes REMOVE.                  *)
ServeGetOwnTag(r, s) ==
    /\ bg[r] = "run" /\ stops[r] < StopsNeeded(r)
    /\ \E i \in DOMAIN request[<<s, r>>] :
          LET k == request[<<s, r>>][i].key
          IN /\ request[<<s, r>>][i].op = "GET"
             /\ request' = [request EXCEPT ![<<s, r>>] = RemoveAt(@, i)]
             /\ Delivered(r, request[<<s, r>>][i])
             /\ result' = [result EXCEPT ![<<r, s>>] =
                               Append(@, [key |-> k, found |-> tree[r][k] > 0])]
    /\ UNCHANGED <<acks, tree, fg, bg, stops, generation, ops, expected, held, hope>>

ServeGet(r, s) ==
    /\ Takes(r, s, "GET")
    /\ LET k == Head(request[<<s, r>>]).key
       IN result' = [result EXCEPT ![<<r, s>>] =
                         Append(@, [key |-> k, found |-> tree[r][k] > 0])]
    /\ UNCHANGED <<acks, tree, fg, bg, stops, generation, ops, expected, held, hope>>

(* Mutant: the key is not removed here.                                    *)
ServeRemoveDropped(r, s) ==
    /\ Takes(r, s, "REMOVE")
    /\ UNCHANGED <<result, acks, tree, fg, bg, stops, generation, ops, expected, held, hope>>

(* A REMOVE takes one copy, too.                                           *)
ServeRemove(r, s) ==
    /\ Takes(r, s, "REMOVE")
    /\ TakeCopy(r, Head(request[<<s, r>>]).key, s)
    /\ UNCHANGED <<result, acks, fg, bg, stops, generation, ops, hope>>

(* Mutant: STOP has a tag of its own and overtakes REMOVE.                 *)
ServeStopOwnTag(r, s) ==
    /\ bg[r] = "run" /\ stops[r] < StopsNeeded(r)
    /\ \E i \in DOMAIN request[<<s, r>>] :
          /\ request[<<s, r>>][i].op = "STOP"
          /\ request' = [request EXCEPT ![<<s, r>>] = RemoveAt(@, i)]
          /\ Delivered(r, request[<<s, r>>][i])
    /\ stops' = [stops EXCEPT ![r] = @ + 1]
    /\ acks' = [acks EXCEPT ![<<r, s>>] = @ + 1]
    /\ UNCHANGED <<result, tree, fg, bg, generation, ops, expected, held, hope>>

(* Mutant: only the other ranks get an ACK.                                *)
ServeStopAckOthers(r, s) ==
    /\ Takes(r, s, "STOP")
    /\ stops' = [stops EXCEPT ![r] = @ + 1]
    /\ acks' = IF r = s THEN acks ELSE [acks EXCEPT ![<<r, s>>] = @ + 1]
    /\ UNCHANGED <<result, tree, fg, bg, generation, ops, expected, held, hope>>

ServeStop(r, s) ==
    /\ Takes(r, s, "STOP")
    /\ stops' = [stops EXCEPT ![r] = @ + 1]
    /\ acks' = [acks EXCEPT ![<<r, s>>] = @ + 1]
    /\ UNCHANGED <<result, tree, fg, bg, generation, ops, expected, held, hope>>

(* if (terminateCounter == nProc) break;                                   *)
Exit(r) ==
    /\ bg[r] = "run" /\ stops[r] = StopsNeeded(r)
    /\ bg' = [bg EXCEPT ![r] = "done"]
    /\ UNCHANGED <<channels, tree, fg, stops, generation, ops, ghosts>>
-----------------------------------------------------------------------------
Background(r) == \/ Exit(r)
                 \/ \E s \in Ranks : ServeGet(r, s) \/ ServeRemove(r, s) \/ ServeStop(r, s)

(* The calls a foreground thread has begun.                                *)
Continue(r) == \/ RemoveLocal(r) \/ GetLocal(r) \/ GetReceive(r) \/ GetReturn(r)
               \/ AckReceive(r) \/ Join(r)

Begin(r) == \/ StopSend(r) \/ Construct(r)
            \/ \E k \in Keys : Insert(r, k) \/ RemoveSend(r, k) \/ GetSend(r, k)

Finished == \A r \in Ranks : fg[r].pc = "destroyed" /\ generation[r] = MaxGeneration

(* All processes have exited.                                              *)
AllExited == Finished /\ UNCHANGED vars

Next == AllExited \/ \E r \in Ranks : Begin(r) \/ Continue(r) \/ Background(r)

(* Threads run, MPI delivers; when a rank calls what is its own business.  *)
Spec == /\ Init /\ [][Next]_vars
        /\ \A r \in Ranks : WF_vars(Continue(r)) /\ WF_vars(Background(r))
-----------------------------------------------------------------------------
Requests == [op : {"GET", "REMOVE", "STOP"}, key : Keys, gen : 1 .. MaxGeneration]

TypeOK ==
    /\ request \in [Links -> Seq(Requests)]
    /\ result \in [Links -> Seq([key : Keys, found : BOOLEAN])]
    /\ acks \in [Links -> Nat]
    /\ tree \in [Ranks -> [Keys -> Nat]]
    /\ fg \in [Ranks -> [pc : {"idle", "remove", "look", "collect", "stop", "destroyed"},
                         key : Keys, idx : 0 .. NumProc, found : BOOLEAN]]
    /\ bg \in [Ranks -> {"run", "done"}]
    /\ stops \in [Ranks -> 0 .. NumProc]
    /\ generation \in [Ranks -> 1 .. MaxGeneration]
    /\ ops \in [Ranks -> Nat]
    /\ expected \in [Ranks -> [Ranks -> [Keys -> Nat]]]
    /\ held \in [Ranks -> SUBSET Ranks]
    /\ hope \in [Ranks -> BOOLEAN]
    /\ mixed \in BOOLEAN

AtReturn(r) == fg[r].pc = "collect" /\ fg[r].idx = NumProc

(* What a get returns is right whatever the processes do; the properties   *)
(* about stopping hold while every request has gone to the tree it was     *)
(* meant for, which nothing in the code ensures: see TerminatesOnAllStops. *)

(* get does not miss a key that some rank held from its call to its return.*)
GetMissesNothing == \A r \in Ranks :
    AtReturn(r) /\ ~fg[r].found => held[r] = {}

(* A result that is on its way belongs to the get its receiver is in.      *)
ResultsAreForThisGet == \A r, s \in Ranks :
    /\ Len(result[<<s, r>>]) <= 1
    /\ \A i \in DOMAIN result[<<s, r>>] : /\ fg[r].pc \in {"look", "collect"}
                                      /\ fg[r].idx <= s
                                      /\ result[<<s, r>>][i].key = fg[r].key

(* A rank reads its own removes, although remove does not wait for the     *)
(* other ranks: a get finds a key only if it might have done so had every  *)
(* remove of the rank been executed everywhere when it was called.  In     *)
(* particular, once it has removed all copies there were it does not find  *)
(* the key, before somebody inserts it again.                              *)
ReadsItsRemoves == \A r \in Ranks : AtReturn(r) /\ fg[r].found => hope[r]

(* A remove that has been sent is executed before its receiver stops, so   *)
(* in the end a tree has no copy more than if the removes of any one rank  *)
(* had been executed there when they were called.                          *)
RemovesReachEveryTree == ~mixed => \A r, d \in Ranks :
    bg[d] = "done" /\ generation[d] = generation[r]
        => \A k \in Keys : tree[d][k] <= expected[r][d][k]

(* A background thread that has stopped has left no request for its tree:  *)
(* none is lost, and none is there for the next tree to take for its own.  *)
NothingLeftAtStop == ~mixed => \A r, s \in Ranks :
    bg[r] = "done" => \A i \in DOMAIN request[<<s, r>>] : request[<<s, r>>][i].gen > generation[r]

(* When all ranks destroy their trees all destructors return, although     *)
(* each waits for all the others, and then for its own background thread;  *)
(* and a get among trees of one generation returns.                        *)
CallsReturn ==
    /\ \A g \in 1 .. MaxGeneration :
          (\A r \in Ranks : generation[r] = g /\ fg[r].pc = "stop")
              ~> (mixed \/ \A r \in Ranks : generation[r] > g \/ fg[r].pc = "destroyed")
    /\ \A r \in Ranks :
          (fg[r].pc = "look" /\ \A s \in Ranks : generation[s] = generation[r])
              ~> (mixed \/ fg[r].pc = "idle")

(* distriTree.hpp:53, "Count number of process sending STOP. Terminate this*)
(* if and only if all processes STOPs": a background thread that has left  *)
(* has received the STOP of every process for this generation of trees.    *)
TerminatesOnAllStops == \A r, s \in Ranks : bg[r] = "done" =>
    /\ \/ generation[s] > generation[r]
       \/ generation[s] = generation[r] /\ fg[s].pc \in {"stop", "destroyed"}
    /\ \A i \in DOMAIN request[<<s, r>>] :
          request[<<s, r>>][i].op = "STOP" => request[<<s, r>>][i].gen # generation[r]
=============================================================================
