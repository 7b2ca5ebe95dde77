--------------------------- MODULE PalmScheduler ---------------------------
(***************************************************************************)
(* freeTree/scheduler.hpp, background.hpp and the control of worker.hpp:   *)
(* the batched, staged execution of the PALM tree.  A client thread fills  *)
(* request_queue; the background thread collects a batch and drives the    *)
(* stages; the workers execute SEARCH, EXEC_LEAF and EXEC_INTERNAL between *)
(* barriers A and B.                                                       *)
(*                                                                         *)
(* The tree is kept only as far as scheduling depends on it: which leaf a  *)
(* key is found in and what a node's parent is.  What the stages do to the *)
(* keys is PalmTree's subject.  A barrier is what Rendezvous promises: it  *)
(* opens for all threads at once; that they leave it one by one is the     *)
(* interleaving of their next steps.                                       *)
(***************************************************************************)
EXTENDS Integers, Sequences, FiniteSets, SequencesExt

CONSTANTS NumWorker,     \* numWorker_
          BatchSize,     \* BATCHSIZE
          QueueSize,     \* QUEUE_SIZE
          Keys,
          LeafOf,        \* key -> leaf that lockFreeFindLeafNode returns
          Parent,        \* node -> its parent
          Level,         \* node -> its height above the leaves
          RootPtr,       \* the dummy node above the root
          Null,          \* nullptr
          NOP,           \* the padding request
          UPDATE,        \* the request that makes a node repair its children
          MaxRequests    \* bound: requests a client submits

ASSUME SizeAssumption == /\ NumWorker \in Nat \ {0}
                         /\ BatchSize \in Nat \ {0}
                         /\ QueueSize \in Nat \ {0}
                         /\ MaxRequests \in Nat
                         /\ NOP \notin Nat /\ UPDATE \notin Nat

(* All leaves have the same height and only RootPtr has no parent.         *)
ASSUME ShapeAssumption ==
    /\ RootPtr # Null
    /\ LeafOf \in [Keys -> DOMAIN Parent]
    /\ \A n \in DOMAIN Parent :
         /\ n # Null /\ n # RootPtr
         /\ Parent[n] \in DOMAIN Parent \cup {RootPtr}
         /\ Level[Parent[n]] = Level[n] + 1
         /\ Level[n] # Level[RootPtr]
    /\ \A k \in Keys : Level[LeafOf[k]] = 0
    /\ Level[RootPtr] \in Nat \ {0}

Workers == 0 .. (NumWorker - 1)
Slots == 0 .. (BatchSize - 1)
Nodes == DOMAIN Parent \cup {RootPtr}
Stages == {"COLLECT", "SEARCH", "DISTRIBUTE", "EXEC_LEAF",
           "REDISTRIBUTE", "EXEC_INTERNAL", "EXEC_ROOT"}

VARIABLES
    flag,        \* [stage, term]: the PalmStage and TERMINATE_FLAG bits
    notify,      \* bg_notify_worker_terminate
    queue,       \* request_queue
    batch,       \* curr_batch: slot -> [req, node], node being curr_node
    assign,      \* request_assign(_len, _all): slot -> [node, reqs]
    internalQ,   \* internal_request_queue: nodes to UPDATE
    releaseQ,    \* internal_release_queue: parents of the nodes merged away
    bg,          \* background thread: next statement,
    bgStage,     \*   currentState,
    nextStage,   \*   nextStage,
    bgTerm,      \*   the term bit setStage has read,
    fill,        \*   request_idx
    worker,      \* worker -> next statement
    slot,        \* worker -> i of its slot loop
    client,      \* client thread: next statement,
    clientFlag,  \*   the flag setTerminate has read
    submitted,   \* keys of the requests submitted so far, in order
    applied      \* key -> its requests executed so far, in order

bgVars == <<bg, bgStage, nextStage, bgTerm, fill>>
workerVars == <<worker, slot>>
clientVars == <<client, clientFlag, submitted>>
vars == <<flag, notify, queue, batch, assign, internalQ, releaseQ, bgVars,
          workerVars, clientVars, applied>>

(* The elements of seq at the places in I, in their order: SelectSeq, told *)
(* which places instead of by a test, in a form that proofs can unfold.    *)
ElementsAt(seq, I) ==
    LET upTo[i \in 0 .. Len(seq)] == CASE i = 0 -> <<>>
                                       [] i > 0 /\ i \in I -> Append(upTo[i - 1], seq[i])
                                       [] OTHER -> upTo[i - 1]
    IN upTo[Len(seq)]

NoRequest == [req |-> NOP, node |-> Null]
NoTask == [node |-> Null, reqs |-> <<>>]

(* The constructor has run and all threads are started (their first action *)
(* is independent of the order of the pthread_create calls).               *)
Init == /\ flag = [stage |-> "COLLECT", term |-> FALSE]
        /\ notify = FALSE
        /\ queue = <<>>
        /\ batch = [i \in Slots |-> NoRequest]
        /\ assign = [i \in Slots |-> NoTask]
        /\ internalQ = <<>>
        /\ releaseQ = {}
        /\ bg = "cond"
        /\ bgStage = "COLLECT"
        /\ nextStage = "COLLECT"
        /\ bgTerm = FALSE
        /\ fill = 0
        /\ worker = [w \in Workers |-> "A"]
        /\ slot = [w \in Workers |-> w]
        /\ client = "run"
        /\ clientFlag = flag
        /\ submitted = <<>>
        /\ applied = [k \in Keys |-> <<>>]
-----------------------------------------------------------------------------
(* The client thread                                                       *)

ClientGoto(from, to) == client = from /\ client' = to

(* Mutant: the ring buffer takes one more than it holds.                   *)
HasRoomForOneMore == Len(queue) <= QueueSize

HasRoom == Len(queue) < QueueSize

(* submit_request: spins while the ring buffer is full.                    *)
Submit(k) == /\ client = "run"
             /\ Len(submitted) < MaxRequests
             /\ HasRoom
             /\ submitted' = Append(submitted, k)
             /\ queue' = Append(queue, Len(submitted'))
             /\ UNCHANGED <<flag, notify, batch, assign, internalQ, releaseQ,
                            bgVars, workerVars, client, clientFlag, applied>>

(* ~FreeBPlusTree calls waitToExit, which spins until the queue is empty.  *)
WaitToExit == /\ ClientGoto("run", "drain")
              /\ UNCHANGED <<flag, notify, queue, batch, assign, internalQ,
                             releaseQ, bgVars, workerVars, clientFlag,
                             submitted, applied>>

Drained == /\ ClientGoto("drain", "release")
           /\ queue = <<>>
           /\ UNCHANGED <<flag, notify, queue, batch, assign, internalQ,
                          releaseQ, bgVars, workerVars, clientFlag, submitted,
                          applied>>

(* release_nodes, called on the client thread: one node per step.          *)
ClientRelease ==
    /\ \/ /\ client = "release" /\ UNCHANGED client
          /\ \E n \in releaseQ : releaseQ' = releaseQ \ {n}
       \/ /\ ClientGoto("release", "term")
          /\ releaseQ = {} /\ UNCHANGED releaseQ
    /\ UNCHANGED <<flag, notify, queue, batch, assign, internalQ, bgVars,
                   workerVars, clientFlag, submitted, applied>>

(* setTerminate: flag |= TERMINATE_FLAG, a load and a store.               *)
SetTerminateLoad ==
    /\ ClientGoto("term", "store")
    /\ clientFlag' = flag
    /\ UNCHANGED <<flag, notify, queue, batch, assign, internalQ, releaseQ,
                   bgVars, workerVars, submitted, applied>>

SetTerminateStore ==
    /\ ClientGoto("store", "join")
    /\ flag' = [clientFlag EXCEPT !.term = TRUE]
    /\ UNCHANGED <<notify, queue, batch, assign, internalQ, releaseQ, bgVars,
                   workerVars, clientFlag, submitted, applied>>

(* The pthread_joins.                                                      *)
Join == /\ ClientGoto("join", "done")
        /\ bg = "exited" /\ \A w \in Workers : worker[w] = "exited"
        /\ UNCHANGED <<flag, notify, queue, batch, assign, internalQ, releaseQ,
                       bgVars, workerVars, clientFlag, submitted, applied>>

(* What waitToExit does once it has been called.                           *)
Exiting == Drained \/ ClientRelease \/ SetTerminateLoad \/ SetTerminateStore
           \/ Join
Client == WaitToExit \/ Exiting \/ \E k \in Keys : Submit(k)
-----------------------------------------------------------------------------
(* The barriers                                                            *)

(* The background thread's first wait in the loop, or the one after it.    *)
BarrierA == /\ \A w \in Workers : worker[w] = "A"
            /\ \/ bg = "A" /\ bg' = "stage"
               \/ bg = "lastA" /\ bg' = "exited"
            /\ worker' = [w \in Workers |-> "read"]
            /\ UNCHANGED <<flag, notify, queue, batch, assign, internalQ,
                           releaseQ, bgStage, nextStage, bgTerm, fill, slot,
                           clientVars, applied>>

BarrierB == /\ \A w \in Workers : worker[w] = "B"
            /\ bg = "B" /\ bg' = "cond"
            /\ worker' = [w \in Workers |-> "A"]
            /\ UNCHANGED <<flag, notify, queue, batch, assign, internalQ,
                           releaseQ, bgStage, nextStage, bgTerm, fill, slot,
                           clientVars, applied>>
-----------------------------------------------------------------------------
(* The background thread                                                   *)

BgGoto(from, to) == bg = from /\ bg' = to

(* while (getStage(flag) != COLLECT || !isTerminate(flag)): two reads.     *)
LoopCondition ==
    /\ \/ BgGoto("cond", "set") /\ flag.stage # "COLLECT" /\ UNCHANGED notify
       \/ BgGoto("cond", "cond2") /\ flag.stage = "COLLECT" /\ UNCHANGED notify
       \/ BgGoto("cond2", "set") /\ ~flag.term /\ UNCHANGED notify
       \/ BgGoto("cond2", "lastA") /\ flag.term /\ notify' = TRUE
    /\ UNCHANGED <<flag, queue, batch, assign, internalQ, releaseQ, bgStage,
                   nextStage, bgTerm, fill, workerVars, clientVars, applied>>

(* setStage: flag = (flag & TERMINATE_FLAG) | stage, a load and a store.   *)
SetStageLoad ==
    /\ BgGoto("set", "store")
    /\ bgTerm' = flag.term
    /\ UNCHANGED <<flag, notify, queue, batch, assign, internalQ, releaseQ,
                   bgStage, nextStage, fill, workerVars, clientVars, applied>>

SetStageStore ==
    /\ BgGoto("store", "A")
    /\ flag' = [stage |-> nextStage, term |-> bgTerm]
    /\ UNCHANGED <<notify, queue, batch, assign, internalQ, releaseQ, bgStage,
                   nextStage, bgTerm, fill, workerVars, clientVars, applied>>

(* currentState = getStage(flag) past barrier A; request_idx = 0.          *)
BgReadStage ==
    /\ BgGoto("stage", "body")
    /\ bgStage' = flag.stage
    /\ fill' = 0
    /\ UNCHANGED <<flag, notify, queue, batch, assign, internalQ, releaseQ,
                   nextStage, bgTerm, workerVars, clientVars, applied>>

(* Mutant: no barrier at the end of the stage.                             *)
CaseWithoutB(stage, next) == /\ bgStage = stage
                             /\ BgGoto("body", "cond")
                             /\ nextStage' = next

(* A case of the switch: it runs in one stage and names the next one.      *)
Case(stage, next) == /\ bgStage = stage
                     /\ BgGoto("body", "B")
                     /\ nextStage' = next

(* Mutant: COLLECT waits without a timeout.                                *)
PadNever == FALSE

Pad == queue = <<>> /\ batch' = [batch EXCEPT ![fill] = NoRequest] /\ UNCHANGED queue

Pop == /\ queue # <<>>
       /\ batch' = [batch EXCEPT ![fill] = [req |-> Head(queue), node |-> Null]]
       /\ queue' = Tail(queue)

(* COLLECT, one slot of the batch: the oldest request, or NOP once the     *)
(* queue is empty and the timeout has passed.                              *)
CollectSlot ==
    /\ bg = "body" /\ bgStage = "COLLECT" /\ fill < BatchSize
    /\ fill' = fill + 1
    /\ Pop \/ Pad
    /\ UNCHANGED <<flag, notify, assign, internalQ, releaseQ, bg, bgStage,
                   nextStage, bgTerm, workerVars, clientVars, applied>>

(* Mutant: it does so in the other stages, too.                            *)
CollectReleaseAnyStage ==
    /\ bg = "body" /\ queue = <<>>
    /\ \E n \in releaseQ : releaseQ' = releaseQ \ {n}
    /\ UNCHANGED <<flag, notify, queue, batch, assign, internalQ, bgVars,
                   workerVars, clientVars, applied>>

(* While COLLECT waits for a request it deletes a released node.           *)
CollectRelease ==
    /\ bg = "body" /\ bgStage = "COLLECT" /\ fill < BatchSize
    /\ queue = <<>>
    /\ \E n \in releaseQ : releaseQ' = releaseQ \ {n}
    /\ UNCHANGED <<flag, notify, queue, batch, assign, internalQ, bgVars,
                   workerVars, clientVars, applied>>

CollectDone ==
    /\ Case("COLLECT", "SEARCH")
    /\ fill = BatchSize
    /\ UNCHANGED <<flag, notify, queue, batch, assign, internalQ, releaseQ,
                   bgStage, bgTerm, fill, workerVars, clientVars, applied>>

(* Mutant: a repair on one level is taken to end the batch.                *)
NextStageForgetsParents ==
    [SEARCH |-> "DISTRIBUTE", EXEC_LEAF |-> "REDISTRIBUTE",
     EXEC_INTERNAL |-> "COLLECT", EXEC_ROOT |-> "COLLECT"]

NextStage == [SEARCH |-> "DISTRIBUTE", EXEC_LEAF |-> "REDISTRIBUTE",
              EXEC_INTERNAL |-> "REDISTRIBUTE", EXEC_ROOT |-> "COLLECT"]

(* The stages in which the background thread only waits for the workers,   *)
(* and EXEC_ROOT, where root_execute works on the tree alone.              *)
PassStage ==
    /\ \E stage \in DOMAIN NextStage : Case(stage, NextStage[stage])
    /\ UNCHANGED <<flag, notify, queue, batch, assign, internalQ, releaseQ,
                   bgStage, bgTerm, fill, workerVars, clientVars, applied>>

(* Mutant: a leaf's requests in the reverse of batch order.                *)
RequestsAtReversed(n) ==
    LET inOrder == [i \in 1 .. BatchSize |-> batch[BatchSize - i]]
        here == {i \in 1 .. BatchSize : inOrder[i].req # NOP /\ inOrder[i].node = n}
    IN ElementsAt([i \in 1 .. BatchSize |-> inOrder[i].req], here)

(* Mutant: only the first request of each leaf.                            *)
FirstRequestAt(n) == IF RequestsAtReversed(n) = <<>> THEN <<>>
                     ELSE <<Last(RequestsAtReversed(n))>>

(* The requests of the batch that were found in leaf n, in batch order.    *)
RequestsAt(n) ==
    LET here == {i \in 1 .. BatchSize : batch[i - 1].req # NOP /\ batch[i - 1].node = n}
    IN ElementsAt([i \in 1 .. BatchSize |-> batch[i - 1].req], here)

(* Mutant: a slot left over keeps what it was given before.                *)
LeftOverKept(s) == assign[s]

LeftOver(s) == NoTask

(* processAssignments: one slot per node, in the order of the hash map,    *)
(* then the slots left over are cleared.                                   *)
Assignment(order, requests) ==
    [s \in Slots |-> IF s < Len(order)
                       THEN [node |-> order[s + 1], reqs |-> requests[order[s + 1]]]
                       ELSE LeftOver(s)]

Distribute ==
    /\ Case("DISTRIBUTE", "EXEC_LEAF")
    /\ \E order \in SetToSeqs({batch[i].node : i \in {j \in Slots : batch[j].req # NOP}}) :
          assign' = Assignment(order, [n \in ToSet(order) |-> RequestsAt(n)])
    /\ UNCHANGED <<flag, notify, queue, batch, internalQ, releaseQ, bgStage,
                   bgTerm, fill, workerVars, clientVars, applied>>

(* Mutant: the workers get rootPtr as any other node.                      *)
AfterRedistributeAnyNode(nodes) == IF nodes = {} THEN "COLLECT" ELSE "EXEC_INTERNAL"

AfterRedistribute(nodes) == CASE nodes = {} -> "COLLECT"
                              [] nodes = {RootPtr} -> "EXEC_ROOT"
                              [] OTHER -> "EXEC_INTERNAL"

(* redistribute empties the internal queue and keeps one UPDATE per node;  *)
(* a lone UPDATE of rootPtr is the background thread's own.  Before the    *)
(* workers run again release_nodes deletes what is in the release queue.   *)
Redistribute ==
    LET nodes == ToSet(internalQ)
    IN /\ Case("REDISTRIBUTE", AfterRedistribute(nodes))
       /\ \E order \in SetToSeqs(nodes) :
             assign' = Assignment(order, [n \in nodes |-> <<UPDATE>>])
       /\ internalQ' = <<>>
       /\ releaseQ' = IF nextStage' = "EXEC_INTERNAL" THEN {} ELSE releaseQ
       /\ UNCHANGED <<flag, notify, queue, batch, bgStage, bgTerm, fill,
                      workerVars, clientVars, applied>>

Background == \/ LoopCondition \/ SetStageLoad \/ SetStageStore \/ BgReadStage
              \/ CollectSlot \/ CollectRelease \/ CollectDone \/ PassStage
              \/ Distribute \/ Redistribute
-----------------------------------------------------------------------------
(* The workers                                                             *)

WorkerGoto(w, from, to) == worker[w] = from /\ worker' = [worker EXCEPT ![w] = to]

WorkOf == [SEARCH |-> "search", EXEC_LEAF |-> "leaf", EXEC_INTERNAL |-> "internal"]

(* Mutant: the stage is looked at before the order to leave.               *)
StageFirst == CASE flag.stage \in DOMAIN WorkOf -> WorkOf[flag.stage]
                [] notify -> "exited"
                [] OTHER -> "B"

(* Leave if told so, else the case of the stage.                           *)
NextWork == CASE notify -> "exited"
              [] ~notify /\ flag.stage \in DOMAIN WorkOf -> WorkOf[flag.stage]
              [] OTHER -> "B"

(* Past barrier A.                                                         *)
WorkerReadStage(w) ==
    /\ WorkerGoto(w, "read", NextWork)
    /\ slot' = [slot EXCEPT ![w] = w]
    /\ UNCHANGED <<flag, notify, queue, batch, assign, internalQ, releaseQ,
                   bgVars, clientVars, applied>>

(* SEARCH: the leaf of each request in the worker's slots of the batch.    *)
Search(w) ==
    /\ WorkerGoto(w, "search", "B")
    /\ batch' = [i \in Slots |->
                   IF i % NumWorker = w /\ batch[i].req # NOP
                     THEN [batch[i] EXCEPT !.node = LeafOf[submitted[batch[i].req]]]
                     ELSE batch[i]]
    /\ UNCHANGED <<flag, notify, queue, assign, internalQ, releaseQ, bgVars,
                   slot, clientVars, applied>>

ParentOf(n) == IF n \in DOMAIN Parent THEN Parent[n] ELSE Null

(* Node n is left over- or underfull, or it is not: the UPDATE request for *)
(* its parent.                                                             *)
MayPushUpdate(n) == internalQ' \in {internalQ, Append(internalQ, ParentOf(n))}

NextSlot(w) == slot' = [slot EXCEPT ![w] = @ + NumWorker]

(* leaf_execute on the worker's next slot.                                 *)
LeafExecute(w) ==
    /\ worker[w] = "leaf" /\ slot[w] \in Slots
    /\ NextSlot(w)
    /\ LET task == assign[slot[w]]
           ForKey(k) == {i \in DOMAIN task.reqs :
                           task.reqs[i] # UPDATE /\ submitted[task.reqs[i]] = k}
       IN IF task.reqs = <<>>
            THEN UNCHANGED <<applied, internalQ>>
            ELSE /\ applied' = [k \in Keys |-> applied[k] \o ElementsAt(task.reqs, ForKey(k))]
                 /\ MayPushUpdate(task.node)
    /\ UNCHANGED <<flag, notify, queue, batch, assign, releaseQ, bgVars, worker,
                   clientVars>>

(* internal_execute on the worker's next slot.                             *)
InternalExecute(w) ==
    /\ worker[w] = "internal" /\ slot[w] \in Slots
    /\ NextSlot(w)
    /\ IF assign[slot[w]].reqs = <<>> THEN UNCHANGED internalQ
                                      ELSE MayPushUpdate(assign[slot[w]].node)
    /\ UNCHANGED <<flag, notify, queue, batch, assign, releaseQ, bgVars, worker,
                   clientVars, applied>>

(* internal_execute when it merges a middle child with its right sibling:  *)
(* merge pushes the child to the release queue, after which the loop goes  *)
(* on with child->next.  The released node is named by its old parent.     *)
MergeChild(w) ==
    /\ slot[w] \in Slots
    /\ assign[slot[w]].reqs # <<>>
    /\ WorkerGoto(w, "internal", "next")
    /\ releaseQ' = releaseQ \cup {assign[slot[w]].node}
    /\ UNCHANGED <<flag, notify, queue, batch, assign, internalQ, bgVars, slot,
                   clientVars, applied>>

ReadNextChild(w) ==
    /\ WorkerGoto(w, "next", "internal")
    /\ NextSlot(w)
    /\ MayPushUpdate(assign[slot[w]].node)
    /\ UNCHANGED <<flag, notify, queue, batch, assign, releaseQ, bgVars,
                   clientVars, applied>>

SlotsDone(w) ==
    /\ slot[w] \notin Slots
    /\ WorkerGoto(w, worker[w], "B") /\ worker[w] \in {"leaf", "internal"}
    /\ UNCHANGED <<flag, notify, queue, batch, assign, internalQ, releaseQ,
                   bgVars, slot, clientVars, applied>>

Worker(w) == \/ WorkerReadStage(w) \/ Search(w) \/ LeafExecute(w)
             \/ InternalExecute(w) \/ MergeChild(w) \/ ReadNextChild(w)
             \/ SlotsDone(w)
-----------------------------------------------------------------------------
(* waitToExit has returned: nothing is left to run.                        *)
Stopped == client = "done" /\ UNCHANGED vars

Next == \/ Client \/ BarrierA \/ BarrierB \/ Background
        \/ (\E w \in Workers : Worker(w))
        \/ Stopped

(* All threads run without ever blocking: the queues are lock-free, a      *)
(* barrier is SpinBarrier, which lets everybody go once all have arrived.  *)
(* The client need not submit anything or ever stop, but once waitToExit   *)
(* is called it keeps going.                                               *)
Spec == /\ Init /\ [][Next]_vars
        /\ WF_vars(BarrierA) /\ WF_vars(BarrierB) /\ WF_vars(Background)
        /\ WF_vars(Exiting)
        /\ \A w \in Workers : WF_vars(Worker(w))
-----------------------------------------------------------------------------
Request == 1 .. Len(submitted)

TypeOK ==
    /\ flag \in [stage : Stages, term : BOOLEAN]
    /\ notify \in BOOLEAN
    /\ queue \in Seq(Request) /\ Len(queue) <= QueueSize
    /\ batch \in [Slots -> [req : Request \cup {NOP}, node : Nodes \cup {Null}]]
    /\ assign \in [Slots -> [node : Nodes \cup {Null}, reqs : Seq(Request \cup {UPDATE})]]
    /\ internalQ \in Seq(Nodes \cup {Null})
    /\ releaseQ \subseteq Nodes \cup {Null}
    /\ bg \in {"cond", "cond2", "set", "store", "A", "stage", "body", "B",
               "lastA", "exited"}
    /\ bgStage \in Stages /\ nextStage \in Stages /\ bgTerm \in BOOLEAN
    /\ fill \in 0 .. BatchSize
    /\ worker \in [Workers -> {"A", "read", "search", "leaf", "internal", "next",
                              "B", "exited"}]
    /\ slot \in [Workers -> Nat]
    /\ client \in {"run", "drain", "release", "term", "store", "join", "done"}
    /\ clientFlag \in [stage : Stages, term : BOOLEAN]
    /\ submitted \in Seq(Keys) /\ Len(submitted) <= MaxRequests
    /\ applied \in [Keys -> Seq(Request)]

(* The properties below hold until waitToExit interferes with the stages   *)
(* (setTerminate's store) or with the released nodes (release_nodes).      *)
BeforeTerminate == client \notin {"join", "done"}
BeforeRelease == client \in {"run", "drain"}

StageOf == [search |-> "SEARCH", leaf |-> "EXEC_LEAF",
            internal |-> "EXEC_INTERNAL", next |-> "EXEC_INTERNAL"]

(* A worker works on a stage only while the background thread is between   *)
(* the two barriers in that same stage, although the stage is passed in an *)
(* unsynchronised int that three kinds of threads access.                  *)
StageAgreement == BeforeTerminate =>
    \A w \in Workers : worker[w] \in DOMAIN StageOf =>
        /\ flag.stage = StageOf[worker[w]]
        /\ bg \in {"stage", "body", "B"}
        /\ bg # "stage" => bgStage = StageOf[worker[w]]

(* The stage of the round under way, or of the last one between two rounds.*)
Round == IF bg = "stage" THEN flag.stage ELSE bgStage

IsApplied(r) == r \in Request /\ r \in ToSet(applied[submitted[r]])

(* Requests for one key are executed in the order of their submission and  *)
(* never twice, whatever batches, slots and workers they went through.     *)
AppliedInOrder == BeforeTerminate =>
    \A k \in Keys : IsPrefix(applied[k],
                             ElementsAt([r \in Request |-> r],
                                        {r \in Request : submitted[r] = k}))

(* A request that has left the queue is not forgotten: its batch is not    *)
(* overwritten, and the leaf stage not left, before it has been executed.  *)
NothingLost == BeforeTerminate =>
    \A r \in Request :
        \/ IsApplied(r)
        \/ r \in ToSet(queue)
        \/ /\ \E i \in Slots : batch[i].req = r
           /\ Round \in {"COLLECT", "SEARCH", "DISTRIBUTE", "EXEC_LEAF"}

(* Each request is executed once, and those for one key in their order.    *)
ExecutedOnceInOrder == AppliedInOrder /\ NothingLost

(* Every repair a worker has asked for is made before the next batch is    *)
(* collected, so SEARCH never descends through a node that is over- or     *)
(* underfull because its UPDATE is still queued.                           *)
NoUpdateLeftBehind == BeforeTerminate =>
    (Round \in {"COLLECT", "SEARCH"} => internalQ = <<>>)

(* redistribute hands rootPtr to the background thread only when it is     *)
(* alone; it never comes together with nodes for the workers, so that      *)
(* internal_execute, which needs two children, never runs on rootPtr.      *)
RootIsForBackground == BeforeTerminate =>
    \A w \in Workers, s \in Slots :
        worker[w] = "internal" => assign[s].node # RootPtr

(* Stage EXEC_INTERNAL repairs one level of the tree at a time: no worker  *)
(* works below a node another worker works on (tree.h, background.hpp:     *)
(* "the worker should be at least one-level above").                       *)
OneLevelAtATime == BeforeTerminate =>
    \A w \in Workers, s, u \in Slots :
        worker[w] = "internal" /\ assign[s].reqs # <<>> /\ assign[u].reqs # <<>>
            => Level[assign[s].node] = Level[assign[u].node]

(* A node merged away is deleted only when no worker can still follow its  *)
(* next pointer: here a worker still needs the node it has just pushed, so *)
(* it must not have been taken out of the release queue.                   *)
NodeInUseNotDeleted == \A w \in Workers :
    worker[w] = "next" => assign[slot[w]].node \in releaseQ

(* ... which the background thread respects.                               *)
BackgroundDeletesSafely == BeforeRelease => NodeInUseNotDeleted

(* Every accepted request is executed in the end, even when it is the last *)
(* one and no further request ever fills its batch.                        *)
EventuallyApplied == \A r \in 1 .. MaxRequests :
    r \in Request ~> (IsApplied(r) \/ ~BeforeTerminate)

(* When the background thread has gone no worker waits for it at a barrier *)
(* and none begins another stage: each has got the message, or will see it *)
(* first, even if setTerminate has garbled the stage.                      *)
NoWorkerLeftBehind == bg = "exited" =>
    \A w \in Workers : worker[w] = "exited" \/ (worker[w] = "read" /\ notify)

(* Claimed by scheduler.hpp:41, "Scheduler get Terminate signal, will exit *)
(* after current batch": once waitToExit is called it returns, and all     *)
(* that was submitted has been executed by then.                           *)
ExitsAfterCurrentBatch ==
    client = "drain" ~> client = "done" /\ \A r \in Request : IsApplied(r)
=============================================================================
