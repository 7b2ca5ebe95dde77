------------------------ MODULE PalmSchedulerProofs -------------------------
(***************************************************************************)
(* Proofs about PalmScheduler, for any number of workers, any size of the  *)
(* batch and the ring buffer, any keys, and any tree whose leaves have one *)
(* height: the stages keep apart what must not meet; and each request is   *)
(* executed once, those for one key in the order in which they were        *)
(* submitted.                                                              *)
(***************************************************************************)
EXTENDS PalmScheduler, FiniteSetTheorems, WellFoundedInduction, TLAPS

BgLabels == {"cond", "cond2", "set", "store", "A", "stage", "body", "B", "lastA", "exited"}
WorkerLabels == {"A", "read", "search", "leaf", "internal", "next", "B", "exited"}

Types ==
    /\ flag \in [stage : Stages, term : BOOLEAN] /\ bgTerm \in BOOLEAN
    /\ clientFlag \in [stage : Stages, term : BOOLEAN]
    /\ worker \in [Workers -> WorkerLabels] /\ slot \in [Workers -> Nat]
    /\ bg \in BgLabels /\ bgStage \in Stages /\ nextStage \in Stages
    /\ fill \in 0 .. BatchSize
    /\ submitted \in Seq(Keys) /\ queue \in Seq(Request)
    /\ batch \in [Slots -> [req : Request \cup {NOP}, node : Nodes \cup {Null}]]

(* The workers are where the barriers put them: all at A while the         *)
(* background thread is between B and A, and let go by its last A only to  *)
(* find its message.                                                       *)
Meeting ==
    /\ bg \in {"cond", "cond2", "set", "store", "A", "lastA"} =>
          \A w \in Workers : worker[w] = "A"
    /\ bg \in {"stage", "body", "B"} =>
          \A w \in Workers : worker[w] \notin {"A", "exited"}
    /\ bg = "exited" => \A w \in Workers : worker[w] \in {"read", "exited"}
    /\ notify <=> bg \in {"lastA", "exited"}

(* The stages that may follow a stage; the first round begins as if a      *)
(* COLLECT had come before it.                                             *)
Following == [COLLECT |-> {"COLLECT", "SEARCH"}, SEARCH |-> {"DISTRIBUTE"},
              DISTRIBUTE |-> {"EXEC_LEAF"}, EXEC_LEAF |-> {"REDISTRIBUTE"},
              REDISTRIBUTE |-> {"COLLECT", "EXEC_INTERNAL", "EXEC_ROOT"},
              EXEC_INTERNAL |-> {"REDISTRIBUTE"}, EXEC_ROOT |-> {"COLLECT"}]

(* The flag holds the stage that was decided on, from the store before A to*)
(* the next one; a worker at work has read it.                             *)
FlagFits ==
    /\ bg \in {"A", "stage"} => flag.stage = nextStage
    /\ bg \in {"body", "B"} => flag.stage = bgStage
    /\ bg # "body" => nextStage \in Following[bgStage]
    /\ \A w \in Workers : worker[w] \in DOMAIN StageOf => flag.stage = StageOf[worker[w]]

(* An UPDATE is queued only between the work that asked for it and the     *)
(* REDISTRIBUTE that hands it out.                                         *)
UpdatesFit == internalQ # <<>> =>
    \/ bg = "body" /\ bgStage \in {"EXEC_LEAF", "EXEC_INTERNAL", "REDISTRIBUTE"}
    \/ bg # "body" /\ nextStage = "REDISTRIBUTE"
    \/ bg = "stage" /\ flag.stage \in {"EXEC_LEAF", "EXEC_INTERNAL"}

Leaves == {n \in DOMAIN Parent : Level[n] = 0}
Found(i) == batch[i].req # NOP => batch[i].node = LeafOf[submitted[batch[i].req]]

(* A worker done with SEARCH has found the leaves of its slots, and after  *)
(* the stage all are found, until the next batch.                          *)
LeavesFound ==
    /\ bg \in {"stage", "body", "B"} /\ flag.stage = "SEARCH" =>
          \A i \in Slots : worker[i % NumWorker] = "B" => Found(i)
    /\ bg \notin {"body", "B"} /\ nextStage \in {"DISTRIBUTE", "EXEC_LEAF"} =>
          \A i \in Slots : Found(i)
    /\ bg \in {"body", "B"} /\ bgStage \in {"DISTRIBUTE", "EXEC_LEAF"} =>
          \A i \in Slots : Found(i)

(* The slots hold nodes of one level, and UPDATEs go to the level above it;*)
(* rootPtr is not among what the workers are given.                        *)
Given(s) == assign[s].node # Null
TasksFit ==
    /\ \A s \in Slots : assign[s].node \in Nodes \cup {Null}
    /\ internalQ \in Seq(Nodes)
    /\ \A s \in Slots : assign[s].reqs # <<>> => Given(s)
    /\ \A s, u \in Slots : Given(s) /\ Given(u) => Level[assign[s].node] = Level[assign[u].node]
    /\ \A i, j \in DOMAIN internalQ : Level[internalQ[i]] = Level[internalQ[j]]
    /\ \A i \in DOMAIN internalQ, s \in Slots :
          Given(s) => Level[internalQ[i]] = Level[assign[s].node] + 1
    /\ \A w \in Workers : worker[w] = "next" => slot[w] \in Slots /\ Given(slot[w])
    /\ \/ bg # "body" /\ nextStage \in {"EXEC_LEAF", "EXEC_INTERNAL"}
       \/ bg \in {"body", "B"} /\ bgStage \in {"EXEC_LEAF", "EXEC_INTERNAL"}
       => \A s \in Slots : assign[s].node # RootPtr

IInv == /\ Types /\ Meeting
        /\ BeforeTerminate => FlagFits /\ UpdatesFit /\ LeavesFound /\ TasksFit
        /\ BackgroundDeletesSafely
-----------------------------------------------------------------------------
(* Every slot has a worker.                                                *)
LEMMA WorkerOfSlot == \A i \in Slots : i % NumWorker \in Workers
  BY SizeAssumption DEF Slots, Workers

(* A worker's work after barrier A is that of the stage in the flag.       *)
LEMMA WorkAndStage ==
    /\ DOMAIN StageOf = {"search", "leaf", "internal", "next"}
    /\ StageOf["search"] = "SEARCH" /\ StageOf["leaf"] = "EXEC_LEAF"
    /\ StageOf["internal"] = "EXEC_INTERNAL" /\ StageOf["next"] = "EXEC_INTERNAL"
    /\ notify => NextWork = "exited"
    /\ ~notify => \/ NextWork \in DOMAIN StageOf /\ flag.stage = StageOf[NextWork]
                  \/ NextWork = "B" /\ flag.stage # "SEARCH"
  BY DEF StageOf, NextWork, WorkOf

(* What comes before DISTRIBUTE and before EXEC_LEAF.                      *)
LEMMA BeforeIn ==
    \A stage \in Stages : /\ "DISTRIBUTE" \in Following[stage] => stage = "SEARCH"
                          /\ "EXEC_LEAF" \in Following[stage] => stage = "DISTRIBUTE"
  BY DEF Stages, Following

(* At first all threads are before their first barrier.                    *)
LEMMA InitInv == Init => IInv
<1>. SUFFICES ASSUME Init PROVE IInv
  OBVIOUS
<1>. USE DEF Init
<1>1. Types
  <2>1. flag \in [stage : Stages, term : BOOLEAN] /\ clientFlag \in [stage : Stages, term : BOOLEAN]
    BY DEF Stages
  <2>2. batch \in [Slots -> [req : Request \cup {NOP}, node : Nodes \cup {Null}]]
    BY DEF NoRequest
  <2>3. worker \in [Workers -> WorkerLabels] /\ slot \in [Workers -> Nat]
    BY SizeAssumption DEF WorkerLabels, Workers
  <2>4. bgTerm \in BOOLEAN /\ bg \in BgLabels /\ bgStage \in Stages /\ nextStage \in Stages
    BY DEF BgLabels, Stages
  <2>5. fill \in 0 .. BatchSize /\ submitted \in Seq(Keys) /\ queue \in Seq(Request)
    BY SizeAssumption
  <2>. QED
    BY <2>1, <2>2, <2>3, <2>4, <2>5 DEF Types
<1>2. Meeting
  BY DEF Meeting
<1>3. FlagFits /\ UpdatesFit /\ LeavesFound
  BY DEF FlagFits, UpdatesFit, LeavesFound, Following, StageOf
<1>4. TasksFit
  BY SizeAssumption DEF TasksFit, Given, NoTask, Slots
<1>5. BackgroundDeletesSafely
  BY DEF BackgroundDeletesSafely, NodeInUseNotDeleted
<1>. QED
  BY <1>1, <1>2, <1>3, <1>4, <1>5 DEF IInv
-----------------------------------------------------------------------------
(* Types and Meeting                                                       *)

(* A request from the client is one of the requests.                       *)
LEMMA SubmitKeepsTypes ==
    ASSUME Types, NEW k \in Keys, Submit(k)
    PROVE  Types'
<1>. USE DEF Types, Submit
<1>1. submitted' \in Seq(Keys) /\ Len(submitted') = Len(submitted) + 1 /\ Len(submitted) \in Nat
  OBVIOUS
<1>2. Request \subseteq Request' /\ Len(submitted') \in Request'
  BY <1>1 DEF Request
<1>3. queue' \in Seq(Request')
  BY <1>2
<1>4. batch' \in [Slots -> [req : Request' \cup {NOP}, node : Nodes \cup {Null}]]
  BY <1>2
<1>. QED
  BY <1>1, <1>3, <1>4 DEF bgVars, workerVars

(* What a worker changes: its own place and slot, and next to them only    *)
(* what the work of the stage is about.                                    *)
LEMMA WorkerStep ==
    ASSUME worker \in [Workers -> WorkerLabels], NEW w \in Workers, Worker(w)
    PROVE  /\ UNCHANGED <<flag, notify, queue, bg, bgStage, nextStage, bgTerm, fill,
                          client, clientFlag, submitted>>
           /\ worker' \in [Workers -> WorkerLabels]
           /\ \A u \in Workers \ {w} : worker'[u] = worker[u]
           /\ \/ worker[w] = "read" /\ worker'[w] = NextWork /\ UNCHANGED <<batch, internalQ>>
              \/ worker[w] \in {"leaf", "internal"} /\ worker'[w] = worker[w] /\ UNCHANGED batch
              \/ worker[w] = "internal" /\ worker'[w] = "next" /\ UNCHANGED <<batch, internalQ>>
              \/ worker[w] = "next" /\ worker'[w] = "internal" /\ UNCHANGED batch
              \/ worker[w] \in {"leaf", "internal"} /\ worker'[w] = "B"
                    /\ UNCHANGED <<batch, internalQ>>
              \/ worker[w] = "search" /\ worker'[w] = "B" /\ UNCHANGED internalQ
<1>1. NextWork \in WorkerLabels
  BY DEF NextWork, WorkOf, WorkerLabels
<1>2. CASE WorkerReadStage(w)
  BY <1>1, <1>2 DEF WorkerReadStage, WorkerGoto, bgVars, clientVars
<1>3. CASE Search(w) \/ MergeChild(w) \/ SlotsDone(w)
  BY <1>3 DEF Search, MergeChild, SlotsDone, WorkerGoto, WorkerLabels, bgVars, clientVars
<1>4. CASE LeafExecute(w) \/ InternalExecute(w)
  BY <1>4 DEF LeafExecute, InternalExecute, bgVars, clientVars
<1>5. CASE ReadNextChild(w)
  BY <1>5 DEF ReadNextChild, WorkerGoto, WorkerLabels, bgVars, clientVars
<1>. QED
  BY <1>2, <1>3, <1>4, <1>5 DEF Worker

(* Only a merge leaves a next pointer to be read.                          *)
LEMMA OnlyMergeThenNext ==
    ASSUME worker \in [Workers -> WorkerLabels], NEW w \in Workers, Worker(w), worker'[w] = "next"
    PROVE  MergeChild(w)
<1>1. NextWork # "next"
  BY DEF NextWork, WorkOf
<1>2. ~WorkerReadStage(w)
  BY <1>1 DEF WorkerReadStage, WorkerGoto
<1>3. ~Search(w) /\ ~ReadNextChild(w) /\ ~SlotsDone(w)
  BY DEF Search, ReadNextChild, SlotsDone, WorkerGoto
<1>4. ~LeafExecute(w) /\ ~InternalExecute(w)
  BY DEF LeafExecute, InternalExecute, WorkerGoto
<1>. QED
  BY <1>2, <1>3, <1>4 DEF Worker

(* Every step keeps the types.                                             *)
LEMMA TypesKept ==
    ASSUME Types, [Next]_vars
    PROVE  Types'
<1>. USE DEF Types
<1>1. CASE UNCHANGED vars
  BY <1>1 DEF vars, bgVars, workerVars, clientVars, Request
<1>2. CASE Client
  <2>1. CASE \E k \in Keys : Submit(k)
    BY <2>1, SubmitKeepsTypes
  <2>2. CASE WaitToExit \/ Exiting
    BY <2>2 DEF WaitToExit, Exiting, Drained, ClientRelease, SetTerminateLoad,
                SetTerminateStore, Join, bgVars, workerVars, clientVars, Request
  <2>. QED
    BY <1>2, <2>1, <2>2 DEF Client
<1>3. CASE BarrierA \/ BarrierB
  BY <1>3 DEF BarrierA, BarrierB, BgLabels, WorkerLabels, clientVars, Request
<1>4. CASE LoopCondition \/ SetStageLoad \/ SetStageStore
  BY <1>4 DEF LoopCondition, SetStageLoad, SetStageStore, BgGoto, BgLabels, workerVars,
              clientVars, Request
<1>5. CASE BgReadStage
  BY <1>5, SizeAssumption DEF BgReadStage, BgGoto, BgLabels, workerVars, clientVars, Request
<1>6. CASE CollectSlot
  <2>. USE <1>6, SizeAssumption DEF CollectSlot
  <2>1. fill \in Slots /\ fill' \in 0 .. BatchSize
    BY DEF Slots
  <2>2. queue' \in Seq(Request) /\ UNCHANGED submitted
    <3>1. CASE Pop
      BY <3>1 DEF Pop, clientVars
    <3>2. CASE Pad
      BY <3>2 DEF Pad, clientVars
    <3>. QED
      BY <3>1, <3>2
  <2>3. PICK r \in Request \cup {NOP} : batch' = [batch EXCEPT ![fill] = [req |-> r, node |-> Null]]
    <3>1. CASE Pop
      <4>1. Head(queue) \in Request
        BY <3>1 DEF Pop
      <4>. QED
        BY <3>1, <4>1 DEF Pop
    <3>2. CASE Pad
      BY <3>2 DEF Pad, NoRequest
    <3>. QED
      BY <3>1, <3>2
  <2>. QED
    BY <2>1, <2>2, <2>3 DEF workerVars, clientVars, Request
<1>7. CASE CollectRelease
  BY <1>7 DEF CollectRelease, bgVars, workerVars, clientVars, Request
<1>8. CASE CollectDone \/ PassStage \/ Distribute \/ Redistribute
  BY <1>8 DEF CollectDone, PassStage, Distribute, Redistribute, AfterRedistribute, Case,
              NextStage, Stages, BgGoto, BgLabels, workerVars, clientVars, Request
<1>9. ASSUME NEW w \in Workers, Worker(w) PROVE Types'
  <2>2. slot' \in [Workers -> Nat]
    <3>1. w \in Nat /\ slot[w] + NumWorker \in Nat
      BY SizeAssumption DEF Workers
    <3>. QED
      BY <1>9, <3>1 DEF Worker, WorkerReadStage, Search, LeafExecute, InternalExecute,
                  MergeChild, ReadNextChild, SlotsDone, NextSlot
  <2>4. batch' \in [Slots -> [req : Request \cup {NOP}, node : Nodes \cup {Null}]]
    <3>1. CASE Search(w)
      BY <3>1, ShapeAssumption, SizeAssumption DEF Search, Request, Nodes
    <3>2. CASE ~Search(w)
      BY <1>9, <3>2 DEF Worker, WorkerReadStage, LeafExecute, InternalExecute, MergeChild,
                ReadNextChild, SlotsDone
    <3>. QED
      BY <3>1, <3>2
  <2>. QED
    BY <1>9, <2>2, <2>4, WorkerStep DEF Request
<1>. QED
  BY <1>1, <1>2, <1>3, <1>4, <1>5, <1>6, <1>7, <1>8, <1>9 DEF Next, Background, Stopped

(* Every step leaves the workers where the barriers put them.              *)
LEMMA MeetingKept ==
    ASSUME Types, Meeting, [Next]_vars
    PROVE  Meeting'
<1>. USE DEF Types, Meeting
<1>1. CASE UNCHANGED vars \/ Client
  BY <1>1 DEF vars, bgVars, workerVars, clientVars, Client, Submit, WaitToExit, Exiting, Drained,
              ClientRelease, SetTerminateLoad, SetTerminateStore, Join
<1>2. CASE BarrierA \/ BarrierB
  BY <1>2 DEF BarrierA, BarrierB, BgLabels, WorkerLabels
<1>3. CASE Background
  BY <1>3 DEF Background, LoopCondition, SetStageLoad, SetStageStore, BgReadStage, CollectSlot,
              CollectRelease, CollectDone, PassStage, Distribute, Redistribute, Case, BgGoto,
              bgVars, workerVars
<1>4. ASSUME NEW w \in Workers, Worker(w) PROVE Meeting'
  <2>1. /\ worker[w] \notin {"A", "exited"}
        /\ worker'[w] # "A"
        /\ worker'[w] = "exited" => notify
        /\ notify /\ worker[w] = "read" => worker'[w] = "exited"
    BY <1>4, WorkerStep, WorkAndStage
  <2>. QED
    BY <1>4, <2>1, WorkerStep DEF BgLabels
<1>. QED
  BY <1>1, <1>2, <1>3, <1>4 DEF Next, Stopped
-----------------------------------------------------------------------------
(* FlagFits                                                                *)

(* Every step keeps the flag in step with the background thread.           *)
LEMMA FlagFitsKept ==
    ASSUME Types, Meeting, FlagFits, [Next]_vars, BeforeTerminate'
    PROVE  FlagFits'
<1>. USE DEF Meeting, FlagFits
<1>1. CASE UNCHANGED vars \/ Client
  BY <1>1 DEF vars, bgVars, workerVars, clientVars, Client, ClientGoto, Submit, WaitToExit,
              Exiting, Drained, ClientRelease, SetTerminateLoad, SetTerminateStore, Join,
              BeforeTerminate
<1>2. CASE BarrierA \/ BarrierB
  BY <1>2 DEF BarrierA, BarrierB, StageOf
<1>3. CASE LoopCondition \/ SetStageLoad \/ CollectRelease \/ CollectSlot
  BY <1>3 DEF LoopCondition, SetStageLoad, CollectRelease, CollectSlot, BgGoto, bgVars, workerVars
<1>4. CASE SetStageStore
  <2>1. \A w \in Workers : worker'[w] = "A"
    BY <1>4 DEF SetStageStore, BgGoto, workerVars
  <2>. QED
    BY <1>4, <2>1 DEF SetStageStore, BgGoto, StageOf
<1>5. CASE BgReadStage
  BY <1>5 DEF BgReadStage, BgGoto, workerVars, BgLabels
<1>6. CASE CollectDone \/ PassStage \/ Distribute \/ Redistribute
  <2>1. nextStage' \in Following[bgStage]
    BY <1>6 DEF CollectDone, PassStage, Distribute, Redistribute, AfterRedistribute, Case,
                NextStage, Following
  <2>2. UNCHANGED <<flag, bgStage, worker>> /\ bg = "body" /\ bg' = "B"
    BY <1>6 DEF CollectDone, PassStage, Distribute, Redistribute, Case, BgGoto, workerVars
  <2>. QED
    BY <2>1, <2>2
<1>7. ASSUME NEW w \in Workers, Worker(w) PROVE FlagFits'
  <2>1. worker'[w] \in DOMAIN StageOf => flag.stage = StageOf[worker'[w]]
    BY <1>7, WorkerStep, WorkAndStage DEF Types
  <2>. QED
    BY <1>7, <2>1, WorkerStep DEF Types
<1>. QED
  BY <1>1, <1>2, <1>3, <1>4, <1>5, <1>6, <1>7 DEF Next, Background, Stopped
-----------------------------------------------------------------------------
(* UpdatesFit                                                              *)

(* UPDATEs are queued in the stages that make them only.                   *)
LEMMA UpdatesFitKept ==
    ASSUME Types, Meeting, FlagFits, FlagFits', UpdatesFit, [Next]_vars, BeforeTerminate'
    PROVE  UpdatesFit'
<1>. USE DEF UpdatesFit
<1>1. CASE UNCHANGED vars \/ Client
  BY <1>1 DEF vars, bgVars, workerVars, clientVars, Client, ClientGoto, Submit, WaitToExit,
              Exiting, Drained, ClientRelease, SetTerminateLoad, SetTerminateStore, Join,
              BeforeTerminate
<1>2. CASE BarrierA \/ BarrierB
  BY <1>2 DEF BarrierA, BarrierB
<1>3. CASE LoopCondition \/ SetStageLoad \/ SetStageStore \/ CollectRelease \/ CollectSlot
  BY <1>3 DEF LoopCondition, SetStageLoad, SetStageStore, CollectRelease, CollectSlot, BgGoto, bgVars
<1>4. CASE BgReadStage
  BY <1>4 DEF BgReadStage, BgGoto, FlagFits
<1>5. CASE CollectDone \/ PassStage \/ Distribute
  BY <1>5 DEF CollectDone, PassStage, Distribute, Case, NextStage, BgGoto
<1>6. CASE Redistribute
  BY <1>6 DEF Redistribute
<1>7. ASSUME NEW w \in Workers, Worker(w) PROVE UpdatesFit'
  <2>1. CASE worker[w] \in {"leaf", "internal", "next"}
    <3>1. flag.stage \in {"EXEC_LEAF", "EXEC_INTERNAL"}
      BY <2>1, WorkAndStage DEF FlagFits
    <3>2. bg \in {"stage", "body", "B"}
      BY <2>1 DEF Meeting, Types, BgLabels
    <3>. QED
      BY <1>7, <3>1, <3>2, WorkerStep DEF FlagFits, Following, Types
  <2>2. CASE worker[w] \notin {"leaf", "internal", "next"}
    BY <1>7, <2>2, WorkerStep DEF Types
  <2>. QED
    BY <2>1, <2>2
<1>. QED
  BY <1>1, <1>2, <1>3, <1>4, <1>5, <1>6, <1>7 DEF Next, Background, Stopped
-----------------------------------------------------------------------------
(* LeavesFound                                                             *)

(* Requests keep the leaves SEARCH has found, worker by worker.            *)
LEMMA LeavesFoundKept ==
    ASSUME Types, Meeting, FlagFits, FlagFits', LeavesFound, [Next]_vars, BeforeTerminate'
    PROVE  LeavesFound'
<1>. USE DEF LeavesFound, Found
<1>1. CASE UNCHANGED vars \/ Client
  <2>1. \A i \in Slots : batch[i].req # NOP => submitted'[batch[i].req] = submitted[batch[i].req]
    BY <1>1 DEF vars, clientVars, Client, Submit, WaitToExit, Exiting, Drained, ClientRelease,
                SetTerminateLoad, SetTerminateStore, Join, Types, Request
  <2>. QED
    BY <1>1, <2>1 DEF vars, bgVars, workerVars, clientVars, Client, ClientGoto, Submit,
                WaitToExit, Exiting, Drained, ClientRelease, SetTerminateLoad,
                SetTerminateStore, Join, BeforeTerminate
<1>2. CASE BarrierA
  BY <1>2, WorkerOfSlot DEF BarrierA, clientVars
<1>3. CASE BarrierB
  <2>1. /\ bg = "B" /\ bg' = "cond" /\ \A w \in Workers : worker[w] = "B"
        /\ UNCHANGED <<flag, batch, bgStage, nextStage, submitted>>
    BY <1>3 DEF BarrierB, clientVars
  <2>2. /\ nextStage = "DISTRIBUTE" => bgStage = "SEARCH"
        /\ nextStage = "EXEC_LEAF" => bgStage = "DISTRIBUTE"
    BY <2>1, BeforeIn DEF FlagFits, Types
  <2>3. nextStage = "DISTRIBUTE" => flag.stage = "SEARCH"
    BY <2>1, <2>2 DEF FlagFits
  <2>. QED
    BY <2>1, <2>2, <2>3, WorkerOfSlot
<1>4. CASE LoopCondition \/ SetStageLoad \/ SetStageStore \/ CollectRelease
  BY <1>4 DEF LoopCondition, SetStageLoad, SetStageStore, CollectRelease, BgGoto, bgVars, workerVars,
              clientVars
<1>5. CASE BgReadStage
  BY <1>5 DEF BgReadStage, BgGoto, workerVars, clientVars, FlagFits
<1>6. CASE CollectSlot
  BY <1>6 DEF CollectSlot, FlagFits, clientVars
<1>7. CASE CollectDone \/ PassStage \/ Distribute \/ Redistribute
  BY <1>7 DEF CollectDone, PassStage, Distribute, Redistribute, Case, BgGoto, workerVars,
              clientVars
<1>8. ASSUME NEW w \in Workers, Worker(w) PROVE LeavesFound'
  <2>1. CASE Search(w)
    <3>1. worker[w] = "search" /\ flag.stage = "SEARCH"
      BY <2>1, WorkAndStage DEF Search, WorkerGoto, FlagFits
    <3>2. bg \in {"stage", "body", "B"}
      BY <3>1 DEF Meeting, Types, BgLabels
    <3>3. bg # "body" => nextStage \notin {"DISTRIBUTE", "EXEC_LEAF"} \/ bg = "B"
      BY <3>1, <3>2 DEF FlagFits
    <3>4. bg \in {"body", "B"} => bgStage = "SEARCH"
      BY <3>1 DEF FlagFits
    <3>5. ASSUME NEW i \in Slots, worker'[i % NumWorker] = "B" PROVE Found(i)'
      <4>1. CASE i % NumWorker = w
        <5>. QED
          BY <2>1, <4>1 DEF Search, Types, clientVars
      <4>2. CASE i % NumWorker # w
        <5>1. batch'[i] = batch[i] /\ UNCHANGED submitted
          BY <2>1, <4>2 DEF Search, clientVars
        <5>2. worker[i % NumWorker] = "B"
          BY <1>8, <4>2, <3>5, WorkerStep, WorkerOfSlot DEF Types
        <5>. QED
          BY <5>1, <5>2, <3>1, <3>2
      <4>. QED
        BY <4>1, <4>2
    <3>. QED
      BY <1>8, <3>2, <3>3, <3>4, <3>5, WorkerStep DEF Types
  <2>2. CASE ~Search(w)
    <3>1. worker[w] # "search" /\ UNCHANGED batch
      BY <1>8, <2>2 DEF Worker, WorkerReadStage, LeafExecute, InternalExecute, MergeChild,
                        ReadNextChild, SlotsDone, WorkerGoto
    <3>2. flag.stage = "SEARCH" /\ bg \in {"stage", "body", "B"} /\ worker'[w] = "B"
            => worker[w] = "B"
      BY <1>8, <3>1, WorkerStep, WorkAndStage DEF Types, FlagFits, Meeting
    <3>. QED
      BY <1>8, <3>1, <3>2, WorkerStep, WorkerOfSlot DEF Types
  <2>. QED
    BY <2>1, <2>2
<1>. QED
  BY <1>1, <1>2, <1>3, <1>4, <1>5, <1>6, <1>7, <1>8 DEF Next, Background, Stopped
-----------------------------------------------------------------------------
(* TasksFit                                                                *)

(* What SEARCH finds are leaves.                                           *)
LEMMA FoundIsLeaf ==
    ASSUME Types
    PROVE  \A i \in Slots : batch[i].req # NOP /\ Found(i) => batch[i].node \in Leaves
<1>1. \A i \in Slots : batch[i].req # NOP => submitted[batch[i].req] \in Keys
  BY DEF Types, Request
<1>. QED
  BY <1>1, ShapeAssumption DEF Leaves, Found

(* Slots are filled with what is in the order, or cleared.                 *)
LEMMA AssignedFromOrder ==
    ASSUME NEW S, IsFiniteSet(S), NEW order \in SetToSeqs(S), NEW requests, NEW s \in Slots
    PROVE  \/ Assignment(order, requests)[s] = NoTask
           \/ Assignment(order, requests)[s].node \in S
<1>1. Cardinality(S) \in Nat /\ order \in [1 .. Cardinality(S) -> S]
  BY FS_CardinalityType DEF SetToSeqs
<1>2. Len(order) = Cardinality(S)
  BY <1>1
<1>3. s < Len(order) => order[s + 1] \in S
  BY <1>1, <1>2, SizeAssumption DEF Slots
<1>. QED
  BY <1>3 DEF Assignment, LeftOver

(* New tasks for nodes of one level, while no UPDATE is queued.            *)
LEMMA AssignmentFits ==
    ASSUME NEW S, IsFiniteSet(S), S \subseteq Nodes,
           \A m, n \in S : Level[m] = Level[n],
           NEW order \in SetToSeqs(S), NEW requests,
           assign' = Assignment(order, requests), internalQ' = <<>>,
           \A w \in Workers : worker'[w] # "next",
           RootPtr \in S => ~ \/ bg' # "body" /\ nextStage' \in {"EXEC_LEAF", "EXEC_INTERNAL"}
                              \/ bg' \in {"body", "B"} /\ bgStage' \in {"EXEC_LEAF", "EXEC_INTERNAL"}
    PROVE  TasksFit'
<1>1. \A s \in Slots : assign'[s] = NoTask \/ assign'[s].node \in S
  BY AssignedFromOrder
<1>2. Null \notin Nodes /\ RootPtr # Null
  BY ShapeAssumption DEF Nodes
<1>3. \A s \in Slots : /\ assign'[s].node \in S \cup {Null}
                       /\ assign'[s].node = Null => assign'[s].reqs = <<>>
  BY <1>1, <1>2 DEF NoTask
<1>. QED
  BY <1>2, <1>3 DEF TasksFit, Given

(* What a worker asks for is one level above its slot.                     *)
LEMMA PushFits ==
    ASSUME TasksFit, NEW s \in Slots, Given(s), assign[s].node # RootPtr,
           MayPushUpdate(assign[s].node), UNCHANGED assign
    PROVE  /\ internalQ' \in Seq(Nodes)
           /\ \A i, j \in DOMAIN internalQ' : Level[internalQ'[i]] = Level[internalQ'[j]]
           /\ \A i \in DOMAIN internalQ', u \in Slots :
                 Given(u)' => Level[internalQ'[i]] = Level[assign'[u].node] + 1
<1>. DEFINE n == assign[s].node
            p == ParentOf(n)
<1>1. n \in DOMAIN Parent
  BY DEF TasksFit, Given, Nodes
<1>2. p \in Nodes /\ Level[p] = Level[n] + 1
  BY <1>1, ShapeAssumption DEF ParentOf, Nodes
<1>3. CASE internalQ' = internalQ
  BY <1>3 DEF TasksFit, Given
<1>4. CASE internalQ' = Append(internalQ, p)
  <2>1. internalQ \in Seq(Nodes)
    BY DEF TasksFit
  <2>2. \A u \in Slots : Given(u) => Level[p] = Level[assign[u].node] + 1
    BY <1>2 DEF TasksFit
  <2>3. \A i \in DOMAIN internalQ : Level[internalQ[i]] = Level[p]
    BY <1>2 DEF TasksFit
  <2>4. \A i \in DOMAIN internalQ' :
          \/ i \in DOMAIN internalQ /\ internalQ'[i] = internalQ[i]
          \/ internalQ'[i] = p
    BY <1>4, <2>1
  <2>5. internalQ' \in Seq(Nodes)
    BY <1>2, <1>4, <2>1
  <2>. QED
    BY <2>2, <2>3, <2>4, <2>5 DEF TasksFit, Given
<1>. QED
  BY <1>3, <1>4 DEF MayPushUpdate

(* Every step keeps the levels of slots and queued UPDATEs apart.          *)
LEMMA TasksFitKept ==
    ASSUME Types, Meeting, FlagFits, FlagFits', UpdatesFit, LeavesFound, TasksFit,
           [Next]_vars, BeforeTerminate'
    PROVE  TasksFit'
<1>1. CASE UNCHANGED vars \/ Client
  BY <1>1 DEF TasksFit, Given, vars, bgVars, workerVars, clientVars, Client, ClientGoto, Submit,
              WaitToExit, Exiting, Drained, ClientRelease, SetTerminateLoad, SetTerminateStore,
              Join, BeforeTerminate
<1>2. CASE BarrierA \/ BarrierB
  BY <1>2 DEF TasksFit, Given, BarrierA, BarrierB
<1>3. CASE LoopCondition \/ SetStageLoad \/ SetStageStore \/ CollectRelease \/ CollectSlot
  BY <1>3 DEF TasksFit, Given, LoopCondition, SetStageLoad, SetStageStore, CollectRelease,
              CollectSlot, BgGoto, bgVars, workerVars
<1>4. CASE BgReadStage
  BY <1>4 DEF TasksFit, Given, BgReadStage, BgGoto, workerVars, FlagFits
<1>5. CASE CollectDone \/ PassStage
  BY <1>5 DEF TasksFit, Given, CollectDone, PassStage, Case, NextStage, BgGoto, workerVars
<1>6. CASE Distribute
  <2>. DEFINE T == {j \in Slots : batch[j].req # NOP}
              S == {batch[i].node : i \in T}
  <2>1. bg = "body" /\ bgStage = "DISTRIBUTE" /\ bg' = "B" /\ UNCHANGED <<worker, bgStage, internalQ>>
    BY <1>6 DEF Distribute, Case, BgGoto, workerVars
  <2>2. S \subseteq Leaves
    BY <2>1, FoundIsLeaf DEF LeavesFound
  <2>3. IsFiniteSet(S)
    <3>1. IsFiniteSet(Slots) /\ T \subseteq Slots
      BY FS_Interval, SizeAssumption DEF Slots
    <3>2. IsFiniteSet(T)
      BY <3>1, FS_Subset
    <3>3. [i \in T |-> batch[i].node] \in Surjection(T, S)
      BY DEF Surjection
    <3>. QED
      BY <3>2, <3>3, FS_Surjection
  <2>4. internalQ' = <<>>
    BY <2>1 DEF UpdatesFit
  <2>5. \A w \in Workers : worker'[w] # "next"
    BY <2>1, WorkAndStage DEF FlagFits
  <2>6. S \subseteq Nodes /\ RootPtr \notin S /\ \A m, n \in S : Level[m] = Level[n]
    BY <2>2, ShapeAssumption DEF Leaves, Nodes
  <2>7. \E order \in SetToSeqs(S) :
            assign' = Assignment(order, [n \in ToSet(order) |-> RequestsAt(n)])
    BY <1>6 DEF Distribute
  <2>. HIDE DEF S
  <2>. QED
    BY <2>3, <2>4, <2>5, <2>6, <2>7, AssignmentFits
<1>7. CASE Redistribute
  <2>. DEFINE S == ToSet(internalQ)
  <2>1. /\ bg = "body" /\ bgStage = "REDISTRIBUTE" /\ bg' = "B"
        /\ nextStage' = AfterRedistribute(S) /\ internalQ' = <<>>
        /\ UNCHANGED <<worker, bgStage>>
    BY <1>7 DEF Redistribute, Case, BgGoto, workerVars
  <2>2. S \subseteq Nodes /\ \A m, n \in S : Level[m] = Level[n]
    BY DEF TasksFit, ToSet
  <2>3. IsFiniteSet(S)
    <3>1. internalQ \in Seq(S)
      BY DEF TasksFit, ToSet
    <3>2. \A n \in S : \E i \in 1 .. Len(internalQ) : internalQ[i] = n
      BY DEF TasksFit, ToSet
    <3>. QED
      BY <3>1, <3>2 DEF IsFiniteSet
  <2>4. \A w \in Workers : worker'[w] # "next"
    BY <2>1, WorkAndStage DEF FlagFits
  <2>5. RootPtr \in S => S = {RootPtr}
    BY <2>2, ShapeAssumption DEF Nodes
  <2>6. RootPtr \in S => nextStage' = "EXEC_ROOT"
    BY <2>1, <2>5 DEF AfterRedistribute
  <2>7. \E order \in SetToSeqs(S) : assign' = Assignment(order, [n \in S |-> <<UPDATE>>])
    BY <1>7 DEF Redistribute
  <2>. HIDE DEF S
  <2>. QED
    BY <2>1, <2>2, <2>3, <2>4, <2>6, <2>7, AssignmentFits
<1>8. ASSUME NEW w \in Workers, Worker(w) PROVE TasksFit'
  <2>1. UNCHANGED <<assign, bg, bgStage, nextStage>>
    BY <1>8 DEF Worker, WorkerReadStage, Search, LeafExecute, InternalExecute, MergeChild,
                ReadNextChild, SlotsDone, bgVars
  <2>2. \A u \in Workers : worker'[u] = "next" => slot'[u] \in Slots /\ Given(slot'[u])
    <3>1. CASE MergeChild(w)
      BY <3>1 DEF MergeChild, WorkerGoto, TasksFit, Types
    <3>2. CASE ~MergeChild(w)
      <4>1. worker'[w] # "next"
        BY <1>8, <3>2, OnlyMergeThenNext DEF Types
      <4>2. \A u \in Workers \ {w} : slot'[u] = slot[u] /\ worker'[u] = worker[u]
        BY <1>8, <3>2 DEF Types, Worker, WorkerReadStage, Search, LeafExecute, InternalExecute,
              ReadNextChild, SlotsDone, WorkerGoto, NextSlot
      <4>. QED
        BY <4>1, <4>2 DEF TasksFit
    <3>. QED
      BY <3>1, <3>2
  <2>3. CASE UNCHANGED internalQ
    BY <2>1, <2>2, <2>3 DEF TasksFit, Given
  <2>4. CASE internalQ' # internalQ
    <3>1. /\ worker[w] \in {"leaf", "internal", "next"}
          /\ slot[w] \in Slots /\ Given(slot[w]) /\ MayPushUpdate(assign[slot[w]].node)
      BY <1>8, <2>4 DEF Worker, WorkerReadStage, Search, LeafExecute, InternalExecute, MergeChild,
                ReadNextChild, SlotsDone, WorkerGoto, TasksFit
    <3>2. bg \in {"stage", "body", "B"}
      BY <3>1 DEF Meeting, Types, BgLabels
    <3>3. flag.stage \in {"EXEC_LEAF", "EXEC_INTERNAL"}
      BY <3>1, WorkAndStage DEF FlagFits
    <3>4. assign[slot[w]].node # RootPtr
      BY <3>1, <3>2, <3>3 DEF FlagFits, TasksFit
    <3>. QED
      BY <2>1, <2>2, <3>1, <3>4, PushFits DEF TasksFit, Given
  <2>. QED
    BY <2>3, <2>4
<1>. QED
  BY <1>1, <1>2, <1>3, <1>4, <1>5, <1>6, <1>7, <1>8 DEF Next, Background, Stopped
-----------------------------------------------------------------------------
(* The other two                                                           *)

(* Nobody begins to read a merged node while nodes are deleted.            *)
LEMMA DeletesKept ==
    ASSUME Types, Meeting, BeforeTerminate => FlagFits, BackgroundDeletesSafely, [Next]_vars
    PROVE  BackgroundDeletesSafely'
<1>. SUFFICES ASSUME BeforeRelease', NEW w \in Workers, worker'[w] = "next"
              PROVE  assign'[slot'[w]].node \in releaseQ'
  BY DEF BackgroundDeletesSafely, NodeInUseNotDeleted
<1>1. BeforeRelease /\ FlagFits
  BY DEF BeforeRelease, BeforeTerminate, Next, Client, ClientGoto, Submit, WaitToExit, Exiting,
         Drained, ClientRelease, SetTerminateLoad, SetTerminateStore, Join, BarrierA, BarrierB,
         Background, LoopCondition, SetStageLoad, SetStageStore, BgReadStage, CollectSlot,
         CollectRelease, CollectDone, PassStage, Distribute, Redistribute, Worker,
         WorkerReadStage, Search, LeafExecute, InternalExecute, MergeChild, ReadNextChild,
         SlotsDone, Stopped, vars, clientVars
<1>2. worker[w] = "next" => assign[slot[w]].node \in releaseQ
  BY <1>1 DEF BackgroundDeletesSafely, NodeInUseNotDeleted
<1>3. worker[w] = "next" => bg # "body" \/ bgStage = "EXEC_INTERNAL"
  BY <1>1, WorkAndStage DEF FlagFits
<1>4. CASE UNCHANGED vars \/ Client
  BY <1>1, <1>2, <1>4 DEF vars, workerVars, BeforeRelease, Client, ClientGoto, Submit, WaitToExit,
         Exiting, Drained, ClientRelease, SetTerminateLoad, SetTerminateStore, Join
<1>5. CASE BarrierA \/ BarrierB
  BY <1>5 DEF BarrierA, BarrierB
<1>6. CASE Background
  <2>1. worker[w] = "next" /\ UNCHANGED slot
    BY <1>6 DEF Background, LoopCondition, SetStageLoad, SetStageStore, BgReadStage, CollectSlot,
                CollectRelease, CollectDone, PassStage, Distribute, Redistribute, workerVars
  <2>2. UNCHANGED <<assign, releaseQ>>
    BY <1>3, <1>6, <2>1 DEF Background, LoopCondition, SetStageLoad, SetStageStore, BgReadStage,
                CollectSlot, CollectRelease, CollectDone, PassStage, Distribute, Redistribute,
                Case, BgGoto
  <2>. QED
    BY <1>2, <2>1, <2>2
<1>7. ASSUME NEW v \in Workers, Worker(v) PROVE assign'[slot'[w]].node \in releaseQ'
  <2>1. UNCHANGED assign /\ releaseQ \subseteq releaseQ'
    BY <1>7 DEF Worker, WorkerReadStage, Search, LeafExecute, InternalExecute, MergeChild,
                ReadNextChild, SlotsDone
  <2>2. CASE v # w
    <3>1. slot'[w] = slot[w]
      BY <1>7, <2>2 DEF Types, Worker, WorkerReadStage, Search, LeafExecute, InternalExecute,
                MergeChild, ReadNextChild, SlotsDone, NextSlot
    <3>2. worker[w] = "next"
      BY <1>7, <2>2, WorkerStep DEF Types
    <3>. QED
      BY <1>2, <2>1, <3>1, <3>2
  <2>3. CASE v = w
    <3>1. MergeChild(w)
      BY <1>7, <2>3, OnlyMergeThenNext DEF Types
    <3>. QED
      BY <3>1 DEF MergeChild
  <2>. QED
    BY <2>2, <2>3
<1>. QED
  BY <1>4, <1>5, <1>6, <1>7 DEF Next, Stopped

(* The terminate bit is never taken back.                                  *)
LEMMA BeforeTerminateOnce ==
    ASSUME [Next]_vars, BeforeTerminate'
    PROVE  BeforeTerminate
  BY DEF BeforeTerminate, Next, Client, ClientGoto, Submit, WaitToExit, Exiting,
         Drained, ClientRelease, SetTerminateLoad, SetTerminateStore, Join, BarrierA, BarrierB,
         Background, LoopCondition, SetStageLoad, SetStageStore, BgReadStage, CollectSlot,
         CollectRelease, CollectDone, PassStage, Distribute, Redistribute, Worker,
         WorkerReadStage, Search, LeafExecute, InternalExecute, MergeChild, ReadNextChild,
         SlotsDone, Stopped, vars, clientVars
-----------------------------------------------------------------------------
(* The inductive invariant holds in every reachable state.                 *)
THEOREM Invariance == Spec => []IInv
<1>1. IInv /\ [Next]_vars => IInv'
  <2>. SUFFICES ASSUME IInv, [Next]_vars PROVE IInv'
    OBVIOUS
  <2>1. Types' /\ Meeting'
    BY TypesKept, MeetingKept DEF IInv
  <2>2. BackgroundDeletesSafely'
    BY DeletesKept DEF IInv
  <2>3. ASSUME BeforeTerminate' PROVE (FlagFits /\ UpdatesFit /\ LeavesFound /\ TasksFit)'
    <3>1. FlagFits /\ UpdatesFit /\ LeavesFound /\ TasksFit
      BY <2>3, BeforeTerminateOnce DEF IInv
    <3>2. FlagFits'
      BY <2>3, <3>1, FlagFitsKept DEF IInv
    <3>. QED
      BY <2>3, <3>1, <3>2, UpdatesFitKept, LeavesFoundKept, TasksFitKept DEF IInv
  <2>. QED
    BY <2>1, <2>2, <2>3 DEF IInv
<1>. QED
  BY <1>1, InitInv, PTL DEF Spec

(* A worker at work is in the stage the background thread waits in.        *)
THEOREM StagesAgree == Spec => []StageAgreement
<1>1. IInv => StageAgreement
  <2>. SUFFICES ASSUME IInv, BeforeTerminate, NEW w \in Workers, worker[w] \in DOMAIN StageOf
                PROVE  /\ flag.stage = StageOf[worker[w]]
                       /\ bg \in {"stage", "body", "B"}
                       /\ bg # "stage" => bgStage = StageOf[worker[w]]
    BY DEF StageAgreement
  <2>1. flag.stage = StageOf[worker[w]]
    BY DEF IInv, FlagFits
  <2>2. bg \in {"stage", "body", "B"}
    BY WorkAndStage DEF IInv, Types, BgLabels, Meeting
  <2>. QED
    BY <2>1, <2>2 DEF IInv, FlagFits
<1>. QED
  BY <1>1, Invariance, PTL

(* When the background thread has gone the workers go, too.                *)
THEOREM WorkersLeave == Spec => []NoWorkerLeftBehind
<1>1. IInv => NoWorkerLeftBehind
  BY DEF IInv, Meeting, NoWorkerLeftBehind
<1>. QED
  BY <1>1, Invariance, PTL

(* A batch is collected, and the tree searched, when all repairs are made. *)
THEOREM RepairsComeFirst == Spec => []NoUpdateLeftBehind
<1>1. IInv => NoUpdateLeftBehind
  <2>1. \A stage \in {"COLLECT", "SEARCH"} : "REDISTRIBUTE" \notin Following[stage]
    BY DEF Following
  <2>. QED
    BY <2>1 DEF IInv, FlagFits, UpdatesFit, NoUpdateLeftBehind, Round
<1>. QED
  BY <1>1, Invariance, PTL

(* In EXEC_INTERNAL no slot holds rootPtr: it is the background thread's.  *)
THEOREM RootIsLeftAlone == Spec => []RootIsForBackground
<1>1. IInv => RootIsForBackground
  <2>. SUFFICES ASSUME IInv, BeforeTerminate, NEW w \in Workers, NEW s \in Slots,
                       worker[w] = "internal"
                PROVE  assign[s].node # RootPtr
    BY DEF RootIsForBackground
  <2>1. bg \in {"stage", "body", "B"} /\ flag.stage = "EXEC_INTERNAL"
    BY WorkAndStage DEF IInv, Types, BgLabels, Meeting, FlagFits
  <2>. QED
    BY <2>1 DEF IInv, FlagFits, TasksFit
<1>. QED
  BY <1>1, Invariance, PTL

(* The slots of EXEC_INTERNAL hold nodes of one level, so no worker merges *)
(* the parents of nodes another worker is still mending.                   *)
THEOREM LevelByLevel == Spec => []OneLevelAtATime
<1>1. IInv => OneLevelAtATime
  BY DEF IInv, TasksFit, OneLevelAtATime
<1>. QED
  BY <1>1, Invariance, PTL

(* Until waitToExit releases nodes itself, none is deleted that a worker   *)
(* still reads the next pointer of.                                        *)
THEOREM ReleasedInTime == Spec => []BackgroundDeletesSafely
  BY Invariance, PTL DEF IInv
-----------------------------------------------------------------------------
(* ElementsAt                                                              *)

(* A set of numbers has a first one.                                       *)
LEMMA FirstOf ==
    ASSUME NEW S, S \subseteq Nat, S # {}
    PROVE  \E m \in S : \A n \in S : m <= n
<1>. DEFINE Below == OpToRel(<, Nat)
<1>1. \A x, y \in S : <<y, x>> \in Below <=> y < x
  BY DEF OpToRel
<1>2. IsWellFoundedOn(Below, Nat)
  BY NatLessThanWellFounded, Zenon
<1>. HIDE DEF Below
<1>3. PICK x \in S : \A y \in S : ~ (<<y, x>> \in Below)
  BY <1>2, WFMin, Zenon
<1>4. \A y \in S : ~ (y < x)
  BY <1>1, <1>3, Zenon
<1>. QED
  BY <1>4

(* What is true of 0 and of each number after one it is true of.           *)
LEMMA EveryNumber ==
    ASSUME NEW S, 0 \in S, \A n \in Nat \ {0} : n - 1 \in S => n \in S
    PROVE  Nat \subseteq S
<1>. SUFFICES ASSUME Nat \ S # {} PROVE FALSE
  OBVIOUS
<1>1. PICK m \in Nat \ S : \A n \in Nat \ S : m <= n
  BY FirstOf
<1>2. m # 0 /\ m - 1 \in Nat
  OBVIOUS
<1>3. m - 1 \in S
  BY <1>1, <1>2
<1>. QED
  BY <1>2, <1>3

(* The table that ElementsAt fills in.                                     *)
IsTable(f, seq, I, n) ==
    f = [i \in 0 .. n |-> CASE i = 0 -> <<>>
                            [] i > 0 /\ i \in I -> Append(f[i - 1], seq[i])
                            [] OTHER -> f[i - 1]]

(* There is such a table.                                                  *)
LEMMA TableExists ==
    ASSUME NEW seq, NEW I, NEW n \in Nat
    PROVE  \E f : IsTable(f, seq, I, n)
<1>. DEFINE S == {m \in Nat : \E f : IsTable(f, seq, I, m)}
<1>1. 0 \in S
  <2>1. IsTable([i \in 0 .. 0 |-> <<>>], seq, I, 0)
    BY DEF IsTable
  <2>. QED
    BY <2>1
<1>2. ASSUME NEW m \in Nat \ {0}, m - 1 \in S PROVE m \in S
  <2>1. PICK g : IsTable(g, seq, I, m - 1)
    BY <1>2
  <2>. DEFINE next == IF m \in I THEN Append(g[m - 1], seq[m]) ELSE g[m - 1]
              h == [i \in 0 .. m |-> IF i < m THEN g[i] ELSE next]
  <2>2. /\ \A i \in 0 .. (m - 1) : h[i] = g[i]
        /\ h[m] = next
        /\ \A i \in 1 .. m : h[i - 1] = g[i - 1]
    OBVIOUS
  <2>3. \A i \in 0 .. (m - 1) : g[i] = CASE i = 0 -> <<>>
                                         [] i > 0 /\ i \in I -> Append(g[i - 1], seq[i])
                                         [] OTHER -> g[i - 1]
    BY <2>1 DEF IsTable
  <2>4. h = [i \in 0 .. m |-> h[i]]
    OBVIOUS
  <2>. HIDE DEF h
  <2>5. ASSUME NEW i \in 0 .. m
        PROVE  h[i] = CASE i = 0 -> <<>>
                        [] i > 0 /\ i \in I -> Append(h[i - 1], seq[i])
                        [] OTHER -> h[i - 1]
    <3>1. CASE i = m
      BY <2>2, <3>1
    <3>2. CASE i # m
      <4>1. i \in 0 .. (m - 1)
        BY <3>2
      <4>2. h[i] = g[i] /\ (i > 0 => h[i - 1] = g[i - 1])
        BY <2>2, <4>1
      <4>. QED
        BY <2>3, <4>1, <4>2
    <3>. QED
      BY <3>1, <3>2
  <2>6. IsTable(h, seq, I, m)
    BY <2>4, <2>5, Zenon DEF IsTable
  <2>. QED
    BY <2>6
<1>. QED
  BY <1>1, <1>2, EveryNumber

(* ElementsAt reads its last entry.                                        *)
LEMMA ElementsAtTable ==
    ASSUME NEW T, NEW seq \in Seq(T), NEW I
    PROVE  \E f : /\ ElementsAt(seq, I) = f[Len(seq)]
                  /\ f[0] = <<>>
                  /\ \A i \in 1 .. Len(seq) :
                        f[i] = IF i \in I THEN Append(f[i - 1], seq[i]) ELSE f[i - 1]
<1>. DEFINE f == CHOOSE f : f = [i \in 0 .. Len(seq) |->
                                   CASE i = 0 -> <<>>
                                     [] i > 0 /\ i \in I -> Append(f[i - 1], seq[i])
                                     [] OTHER -> f[i - 1]]
<1>. Len(seq) \in Nat
  OBVIOUS
<1>1. ElementsAt(seq, I) = f[Len(seq)]
  BY DEF ElementsAt
<1>2. f = [i \in 0 .. Len(seq) |-> CASE i = 0 -> <<>>
                                     [] i > 0 /\ i \in I -> Append(f[i - 1], seq[i])
                                     [] OTHER -> f[i - 1]]
  <2>1. \E g : g = [i \in 0 .. Len(seq) |-> CASE i = 0 -> <<>>
                                              [] i > 0 /\ i \in I -> Append(g[i - 1], seq[i])
                                              [] OTHER -> g[i - 1]]
    <3>1. PICK g : IsTable(g, seq, I, Len(seq))
      BY TableExists
    <3>. QED
      BY <3>1 DEF IsTable
  <2>. QED
    BY <2>1
<1>. HIDE DEF f
<1>3. \A i \in 0 .. Len(seq) : f[i] = CASE i = 0 -> <<>>
                                          [] i > 0 /\ i \in I -> Append(f[i - 1], seq[i])
                                          [] OTHER -> f[i - 1]
  BY <1>2
<1>4. f[0] = <<>>
  BY <1>3
<1>5. ASSUME NEW i \in 1 .. Len(seq)
      PROVE  f[i] = IF i \in I THEN Append(f[i - 1], seq[i]) ELSE f[i - 1]
  <2>1. i \in 0 .. Len(seq) /\ i # 0 /\ i > 0
    OBVIOUS
  <2>. QED
    BY <1>3, <2>1
<1>. QED
  BY <1>1, <1>4, <1>5

(* e has the elements of the first n of seq that are at places in I, and   *)
(* in their order.                                                         *)
Picked(e, seq, I, n) ==
    /\ \A j \in 1 .. Len(e) : \E i \in I \cap 1 .. n : e[j] = seq[i]
    /\ \A i \in I \cap 1 .. n : \E j \in 1 .. Len(e) : e[j] = seq[i]
    /\ \A j, l \in 1 .. Len(e) : j < l =>
          \E h, i \in I \cap 1 .. n : h < i /\ e[j] = seq[h] /\ e[l] = seq[i]

(* One more element.                                                       *)
LEMMA PickedNext ==
    ASSUME NEW T, NEW seq \in Seq(T), NEW I, NEW n \in 1 .. Len(seq),
           NEW e \in Seq(T), Picked(e, seq, I, n - 1),
           NEW d, d = IF n \in I THEN Append(e, seq[n]) ELSE e
    PROVE  d \in Seq(T) /\ Picked(d, seq, I, n)
<1>1. \A i \in I \cap 1 .. (n - 1) : i \in I \cap 1 .. n /\ i < n
  OBVIOUS
<1>2. CASE n \notin I
  <2>1. I \cap 1 .. n = I \cap 1 .. (n - 1)
    BY <1>2
  <2>2. d = e
    BY <1>2
  <2>3. Picked(e, seq, I, n)
    <3>. DEFINE places == I \cap 1 .. (n - 1)
    <3>1. /\ \A j \in 1 .. Len(e) : \E i \in places : e[j] = seq[i]
          /\ \A i \in places : \E j \in 1 .. Len(e) : e[j] = seq[i]
          /\ \A j, l \in 1 .. Len(e) : j < l =>
                \E h, i \in places : h < i /\ e[j] = seq[h] /\ e[l] = seq[i]
      BY DEF Picked
    <3>. HIDE DEF places
    <3>2. I \cap 1 .. n = places
      BY <2>1 DEF places
    <3>. QED
      BY <3>1, <3>2, Zenon DEF Picked
  <2>. QED
    BY <2>2, <2>3
<1>3. CASE n \in I
  <2>1. /\ d \in Seq(T) /\ Len(d) = Len(e) + 1 /\ d[Len(e) + 1] = seq[n]
        /\ \A j \in 1 .. Len(e) : d[j] = e[j]
    BY <1>3
  <2>2. \A j \in 1 .. Len(d) : j = Len(e) + 1 \/ j \in 1 .. Len(e)
    BY <2>1
  <2>3. n \in I \cap 1 .. n
    BY <1>3
  <2>4. \A j \in 1 .. Len(d) : \E i \in I \cap 1 .. n : d[j] = seq[i]
    BY <1>1, <2>1, <2>2, <2>3 DEF Picked
  <2>5. ASSUME NEW i \in I \cap 1 .. n PROVE \E j \in 1 .. Len(d) : d[j] = seq[i]
    <3>1. CASE i = n
      BY <2>1, <3>1
    <3>2. CASE i # n
      <4>1. PICK j \in 1 .. Len(e) : e[j] = seq[i]
        BY <3>2 DEF Picked
      <4>. QED
        BY <2>1, <4>1
    <3>. QED
      BY <3>1, <3>2
  <2>6. ASSUME NEW j \in 1 .. Len(d), NEW l \in 1 .. Len(d), j < l
        PROVE  \E h, i \in I \cap 1 .. n : h < i /\ d[j] = seq[h] /\ d[l] = seq[i]
    <3>1. j \in 1 .. Len(e) /\ d[j] = e[j]
      BY <2>1, <2>2, <2>6
    <3>2. CASE l = Len(e) + 1
      <4>1. PICK h \in I \cap 1 .. (n - 1) : e[j] = seq[h]
        BY <3>1 DEF Picked
      <4>. QED
        BY <1>1, <2>1, <2>3, <3>1, <3>2, <4>1
    <3>3. CASE l \in 1 .. Len(e)
      <4>1. PICK h, i \in I \cap 1 .. (n - 1) : h < i /\ e[j] = seq[h] /\ e[l] = seq[i]
        BY <2>6, <3>1, <3>3 DEF Picked
      <4>. QED
        BY <1>1, <2>1, <3>1, <3>3, <4>1
    <3>. QED
      BY <2>2, <3>2, <3>3
  <2>. QED
    BY <2>1, <2>4, <2>5, <2>6 DEF Picked
<1>. QED
  BY <1>2, <1>3

(* ElementsAt picks what its name says.                                    *)
LEMMA ElementsAtPicks ==
    ASSUME NEW T, NEW seq \in Seq(T), NEW I
    PROVE  /\ ElementsAt(seq, I) \in Seq(T)
           /\ Picked(ElementsAt(seq, I), seq, I, Len(seq))
<1>1. PICK f : /\ ElementsAt(seq, I) = f[Len(seq)]
               /\ f[0] = <<>>
               /\ \A i \in 1 .. Len(seq) :
                     f[i] = IF i \in I THEN Append(f[i - 1], seq[i]) ELSE f[i - 1]
  BY ElementsAtTable
<1>. DEFINE S == {n \in Nat : n <= Len(seq) => f[n] \in Seq(T) /\ Picked(f[n], seq, I, n)}
<1>. Len(seq) \in Nat
  OBVIOUS
<1>2. 0 \in S
  <2>1. I \cap 1 .. 0 = {}
    OBVIOUS
  <2>2. <<>> \in Seq(T) /\ 1 .. Len(<<>>) = {}
    OBVIOUS
  <2>. QED
    BY <1>1, <2>1, <2>2 DEF Picked
<1>3. ASSUME NEW n \in Nat \ {0}, n - 1 \in S PROVE n \in S
  <2>. SUFFICES ASSUME n <= Len(seq) PROVE f[n] \in Seq(T) /\ Picked(f[n], seq, I, n)
    OBVIOUS
  <2>1. n \in 1 .. Len(seq) /\ f[n - 1] \in Seq(T) /\ Picked(f[n - 1], seq, I, n - 1)
    BY <1>3
  <2>2. f[n] = IF n \in I THEN Append(f[n - 1], seq[n]) ELSE f[n - 1]
    BY <1>1, <2>1
  <2>. QED
    BY <2>1, <2>2, PickedNext
<1>. HIDE DEF S
<1>4. Nat \subseteq S
  BY <1>2, <1>3, EveryNumber
<1>. USE DEF S
<1>. QED
  BY <1>1, <1>4

Increasing(q) == \A i, j \in 1 .. Len(q) : i < j => q[i] < q[j]

(* Elements of an increasing sequence are increasing.                      *)
LEMMA ElementsIncrease ==
    ASSUME NEW T, NEW seq \in Seq(T), NEW I,
           \A h, i \in I \cap 1 .. Len(seq) : h < i => seq[h] < seq[i]
    PROVE  Increasing(ElementsAt(seq, I))
<1>1. Picked(ElementsAt(seq, I), seq, I, Len(seq))
  BY ElementsAtPicks
<1>. QED
  BY <1>1 DEF Picked, Increasing

(* An increasing sequence is a prefix of another one if it has all that is *)
(* smaller than any of its elements.                                       *)
LEMMA IncreasingPrefix ==
    ASSUME NEW p \in Seq(Nat), NEW q \in Seq(Nat), Increasing(p), Increasing(q),
           \A i \in 1 .. Len(p) : \E j \in 1 .. Len(q) : p[i] = q[j],
           \A i \in 1 .. Len(p), j \in 1 .. Len(q) :
              q[j] < p[i] => \E h \in 1 .. Len(p) : p[h] = q[j]
    PROVE  IsPrefix(p, q)
<1>. /\ Len(p) \in Nat /\ Len(q) \in Nat
     /\ \A i \in 1 .. Len(p) : p[i] \in Nat
     /\ \A i \in 1 .. Len(q) : q[i] \in Nat
  OBVIOUS
<1>. DEFINE Differ == {i \in 1 .. Len(p) : i > Len(q) \/ p[i] # q[i]}
<1>1. Differ = {}
  <2>. SUFFICES ASSUME Differ # {} PROVE FALSE
    OBVIOUS
  <2>1. PICK m \in Differ : \A i \in Differ : m <= i
    <3>1. Differ \subseteq Nat
      OBVIOUS
    <3>. HIDE DEF Differ
    <3>. QED
      BY <3>1, FirstOf
  <2>2. m \in 1 .. Len(p) /\ \A i \in 1 .. (m - 1) : i <= Len(q) /\ p[i] = q[i]
    <3>1. ASSUME NEW i \in 1 .. (m - 1) PROVE i <= Len(q) /\ p[i] = q[i]
      <4>1. i \in 1 .. Len(p) /\ ~(m <= i)
        OBVIOUS
      <4>. QED
        BY <2>1, <4>1
    <3>. QED
      BY <3>1
  <2>3. m > Len(q) \/ p[m] # q[m]
    BY <2>1
  <2>. HIDE DEF Differ
  <2>4. PICK j \in 1 .. Len(q) : p[m] = q[j]
    BY <2>2
  <2>. m \in Nat /\ j \in Nat /\ p[m] \in Nat
    BY <2>2
  <2>5. j # m
    BY <2>3, <2>4
  <2>6. CASE j < m
    <3>1. j \in 1 .. (m - 1) /\ j \in 1 .. Len(p)
      BY <2>2, <2>6
    <3>2. p[j] = q[j] /\ p[j] < p[m]
      BY <2>2, <2>6, <3>1 DEF Increasing
    <3>. QED
      BY <2>4, <3>2
  <2>7. CASE m < j
    <3>1. m \in 1 .. Len(q)
      BY <2>2, <2>7
    <3>2. q[m] < p[m] /\ q[m] \in Nat
      BY <2>4, <2>7, <3>1 DEF Increasing
    <3>3. PICK h \in 1 .. Len(p) : p[h] = q[m]
      BY <2>2, <3>1, <3>2
    <3>. h \in Nat /\ h # m
      BY <3>2, <3>3
    <3>4. CASE h < m
      <4>1. h \in 1 .. (m - 1) /\ h \in 1 .. Len(q)
        BY <2>2, <3>1, <3>4
      <4>2. p[h] = q[h] /\ q[h] < q[m]
        BY <2>2, <3>1, <3>4, <4>1 DEF Increasing
      <4>. QED
        BY <3>2, <3>3, <4>2
    <3>5. CASE m < h
      <4>1. p[m] < p[h]
        BY <2>2, <3>5 DEF Increasing
      <4>. QED
        BY <3>2, <3>3, <4>1
    <3>. QED
      BY <3>4, <3>5
  <2>. QED
    BY <2>5, <2>6, <2>7
<1>2. \A i \in 1 .. Len(p) : i <= Len(q) /\ p[i] = q[i]
  <2>1. \A i \in 1 .. Len(p) : i \notin Differ
    BY <1>1
  <2>. QED
    BY <2>1
<1>. HIDE DEF Differ
<1>3. Len(p) <= Len(q)
  <2>1. CASE Len(p) = 0
    BY <2>1
  <2>2. CASE Len(p) # 0
    BY <1>2, <2>2
  <2>. QED
    BY <2>1, <2>2
<1>4. SubSeq(p, 1, Len(p)) = SubSeq(q, 1, Len(p))
  BY <1>2, <1>3
<1>. QED
  BY <1>3, <1>4 DEF IsPrefix

(* Quotient and remainder.                                                 *)
LEMMA Division ==
    ASSUME NEW N \in Nat \ {0}, NEW s \in Nat
    PROVE  s = N * (s \div N) + (s % N) /\ s % N \in 0 .. (N - 1) /\ s \div N \in Nat
  OBVIOUS

(* A multiple of N that is smaller than N either way is zero.              *)
LEMMA SmallMultiple ==
    ASSUME NEW N \in Nat \ {0}, NEW c \in Int, -N < N * c, N * c < N
    PROVE  c = 0
<1>1. CASE c >= 1
  <2>1. N * c >= N
    BY <1>1
  <2>. QED
    BY <2>1
<1>2. CASE c <= -1
  <2>1. N * c <= -N
    BY <1>2
  <2>. QED
    BY <2>1
<1>. QED
  BY <1>1, <1>2

(* The slots of one worker are NumWorker apart.                            *)
LEMMA SlotsApart ==
    ASSUME NEW s \in Nat, NEW u \in Nat, s % NumWorker = u % NumWorker, s < u
    PROVE  s + NumWorker <= u
<1>. DEFINE a == s \div NumWorker
            b == u \div NumWorker
<1>. NumWorker \in Nat \ {0}
  BY SizeAssumption
<1>1. s = NumWorker * a + (s % NumWorker) /\ s % NumWorker \in 0 .. (NumWorker - 1) /\ a \in Nat
  BY Division, Zenon
<1>4. u = NumWorker * b + (u % NumWorker) /\ u % NumWorker \in 0 .. (NumWorker - 1) /\ b \in Nat
  BY Division, Zenon
<1>. HIDE DEF a, b
<1>2. u - s = NumWorker * (b - a)
  BY <1>1, <1>4
<1>. SUFFICES ASSUME u - s < NumWorker PROVE FALSE
  OBVIOUS
<1>3. b - a = 0
  BY <1>1, <1>2, <1>4, SmallMultiple
<1>. QED
  BY <1>1, <1>2, <1>3

(* A worker's next slot is its own, too.                                   *)
LEMMA NextSlotIsOwn ==
    ASSUME NEW s \in Nat
    PROVE  (s + NumWorker) % NumWorker = s % NumWorker
<1>. DEFINE a == s \div NumWorker
            b == (s + NumWorker) \div NumWorker
            r == s % NumWorker
            t == (s + NumWorker) % NumWorker
<1>. NumWorker \in Nat \ {0}
  BY SizeAssumption
<1>1. s = NumWorker * a + r /\ r \in 0 .. (NumWorker - 1) /\ a \in Nat
  BY Division, Zenon
<1>5. s + NumWorker \in Nat
  OBVIOUS
<1>6. s + NumWorker = NumWorker * b + t /\ t \in 0 .. (NumWorker - 1) /\ b \in Nat
  BY <1>5, Division, Zenon
<1>. HIDE DEF a, b, r, t
<1>2. r - t = NumWorker * (b - (a + 1))
  BY <1>1, <1>6
<1>3. b - (a + 1) = 0
  BY <1>1, <1>2, <1>6, SmallMultiple
<1>4. r = t
  BY <1>1, <1>2, <1>3, <1>6
<1>. QED
  BY <1>4 DEF r, t

(* The first slots are the workers' own.                                   *)
LEMMA FirstSlotIsOwn == \A w \in Workers : w \in Nat /\ w % NumWorker = w
  BY SizeAssumption DEF Workers
-----------------------------------------------------------------------------
(* The invariant                                                           *)

(* Requests are numbered in the order of their submission; the queue holds *)
(* the last of them.                                                       *)
Popped == Len(submitted) - Len(queue)
QueueFits == /\ Len(queue) <= Len(submitted)
             /\ \A i \in 1 .. Len(queue) : queue[i] = Popped + i

(* The slots of the batch that count: those COLLECT has filled, all of     *)
(* them from then on until everything in them has been executed.           *)
Carrying == {"SEARCH", "DISTRIBUTE", "EXEC_LEAF"}
Fresh(i) == \/ bg = "body" /\ bgStage = "COLLECT" /\ i < fill
            \/ bg = "body" /\ bgStage \in Carrying
            \/ bg # "body" /\ nextStage \in Carrying
            \/ bg = "B" /\ bgStage = "EXEC_LEAF"
Carries(i) == Fresh(i) /\ batch[i].req # NOP

BatchFits ==
    /\ \A i \in Slots : Carries(i) => batch[i].req <= Popped
    /\ \A i, j \in Slots : Carries(i) /\ Carries(j) /\ i < j => batch[i].req < batch[j].req

(* From DISTRIBUTE to the end of EXEC_LEAF each leaf of the batch has one  *)
(* slot, with all its requests in batch order.                             *)
Distributed == \/ bg # "body" /\ nextStage = "EXEC_LEAF"
               \/ bg \in {"body", "B"} /\ bgStage = "EXEC_LEAF"
AtNode(i, n) == batch[i].req # NOP /\ batch[i].node = n
SlotFits(s) ==
    LET reqs == assign[s].reqs
        node == assign[s].node
    IN /\ reqs \in Seq(Nat) /\ Increasing(reqs)
       /\ \A j \in 1 .. Len(reqs) : \E i \in Slots : AtNode(i, node) /\ batch[i].req = reqs[j]
       /\ \A i \in Slots : AtNode(i, node) =>
             \E j \in 1 .. Len(reqs) : reqs[j] = batch[i].req
SlotsFit == Distributed =>
    /\ \A s \in Slots : SlotFits(s)
    /\ \A s, u \in Slots : Given(s) /\ assign[s].node = assign[u].node => s = u
    /\ \A i \in Slots : batch[i].req # NOP => \E s \in Slots : assign[s].node = batch[i].node

(* A worker executes its own slots one after the other.                    *)
SlotsOwn == \A w \in Workers : worker[w] = "leaf" => slot[w] % NumWorker = w
LeafStage == bg \in {"stage", "body", "B"} /\ flag.stage = "EXEC_LEAF"
Passed(w, s) == worker[w] = "B" \/ (worker[w] = "leaf" /\ s < slot[w])
Executed(s) == LeafStage /\ Passed(s % NumWorker, s)
LeafDone(n) == \E s \in Slots : assign[s].node = n /\ Executed(s)

(* What is executed has left the queue.                                    *)
KeyFits(k) == /\ Increasing(applied[k])
              /\ \A j \in 1 .. Len(applied[k]) : /\ applied[k][j] \in 1 .. Popped
                                                 /\ submitted[applied[k][j]] = k
AppliedFits == applied \in [Keys -> Seq(Nat)] /\ \A k \in Keys : KeyFits(k)

(* A request that counts is executed with its leaf, and until then only    *)
(* requests before it are.                                                 *)
NotBefore(r) == LET done == applied[submitted[r]]
                IN \A j \in 1 .. Len(done) : done[j] < r
InTime(i) == IF LeafDone(batch[i].node) THEN IsApplied(batch[i].req)
                                        ELSE NotBefore(batch[i].req)
AllInTime == \A i \in Slots : Carries(i) => InTime(i)

NothingForgotten == \A r \in 1 .. Popped :
    IsApplied(r) \/ \E i \in Slots : Fresh(i) /\ batch[i].req = r

OrderParts == /\ QueueFits /\ BatchFits /\ SlotsFit /\ SlotsOwn
              /\ AppliedFits /\ AllInTime /\ NothingForgotten
OrderInv == BeforeTerminate => OrderParts
-----------------------------------------------------------------------------
(* Steps that leave the requests alone                                     *)

(* At first there are no requests.                                         *)
LEMMA InitOrder == Init => OrderInv
<1>. SUFFICES ASSUME Init PROVE OrderParts
  BY DEF OrderInv
<1>. USE DEF Init
<1>1. Len(submitted) = 0 /\ Len(queue) = 0 /\ Popped = 0
  BY DEF Popped
<1>2. QueueFits
  BY <1>1 DEF QueueFits
<1>3. \A i \in Slots : ~Carries(i)
  BY DEF Carries, Fresh, Carrying
<1>4. BatchFits /\ AllInTime
  BY <1>3 DEF BatchFits, AllInTime
<1>5. SlotsFit /\ SlotsOwn
  BY DEF SlotsFit, SlotsOwn, Distributed
<1>6. AppliedFits
  <2>1. applied \in [Keys -> Seq(Nat)] /\ \A k \in Keys : applied[k] = <<>>
    OBVIOUS
  <2>2. 1 .. Len(<<>>) = {}
    OBVIOUS
  <2>. QED
    BY <2>1, <2>2 DEF AppliedFits, KeyFits, Increasing
<1>7. NothingForgotten
  <2>1. 1 .. Popped = {}
    BY <1>1
  <2>. QED
    BY <2>1 DEF NothingForgotten
<1>. QED
  BY <1>2, <1>4, <1>5, <1>6, <1>7 DEF OrderParts

(* The requests and tasks are as before, and count and are executed as     *)
(* before.                                                                 *)
LEMMA Undisturbed ==
    ASSUME OrderParts, UNCHANGED <<batch, applied, queue, submitted>>,
           assign' = assign \/ ~(LeafStage \/ LeafStage'),
           \A i \in Slots : Fresh(i)' <=> Fresh(i),
           \A s \in Slots : Executed(s)' <=> Executed(s),
           SlotsFit' \/ (Distributed' => Distributed /\ UNCHANGED assign),
           SlotsOwn'
    PROVE  OrderParts'
<1>. USE DEF OrderParts
<1>1. Popped' = Popped /\ Request' = Request
  BY DEF Popped, Request
<1>2. \A i \in Slots : Carries(i)' <=> Carries(i)
  BY DEF Carries
<1>3. \A i \in Slots : LeafDone(batch[i].node)' <=> LeafDone(batch[i].node)
  BY DEF LeafDone, Executed
<1>4. ASSUME NEW r PROVE /\ IsApplied(r)' <=> IsApplied(r)
                         /\ NotBefore(r)' <=> NotBefore(r)
  BY <1>1 DEF IsApplied, NotBefore
<1>5. QueueFits' /\ BatchFits'
  BY <1>1, <1>2 DEF QueueFits, BatchFits
<1>6. SlotsFit'
  <2>1. CASE ~Distributed'
    BY <2>1 DEF SlotsFit
  <2>2. CASE Distributed /\ UNCHANGED assign
    BY <2>2 DEF SlotsFit, SlotFits, AtNode, Given
  <2>. QED
    BY <2>1, <2>2
<1>7. AppliedFits'
  BY <1>1 DEF AppliedFits, KeyFits
<1>8. AllInTime'
  BY <1>2, <1>3, <1>4 DEF AllInTime, InTime
<1>9. NothingForgotten'
  BY <1>1, <1>4 DEF NothingForgotten
<1>. QED
  BY <1>5, <1>6, <1>7, <1>8, <1>9

(* The client, as long as it submits nothing, and the barriers, the loop   *)
(* and the stages without work of the background thread are no disturbance.*)
LEMMA QuietSteps ==
    ASSUME Types, Meeting, FlagFits, FlagFits', OrderParts, BeforeTerminate',
           \/ UNCHANGED vars \/ WaitToExit \/ Exiting \/ BarrierA \/ LoopCondition \/ SetStageLoad
           \/ SetStageStore \/ BgReadStage \/ CollectRelease \/ CollectDone \/ PassStage
           \/ Redistribute
    PROVE  OrderParts'
<1>1. CASE UNCHANGED vars \/ WaitToExit \/ Exiting
  <2>1. UNCHANGED <<batch, assign, applied, queue, submitted, flag, bgVars, workerVars>>
    BY <1>1 DEF vars, clientVars, WaitToExit, Exiting, Drained, ClientRelease, SetTerminateLoad,
                SetTerminateStore, Join, ClientGoto, BeforeTerminate
  <2>. QED
    BY <2>1, Undisturbed DEF bgVars, workerVars, Fresh, Executed, LeafStage, Passed, Distributed,
                SlotsOwn, OrderParts
<1>2. CASE BarrierA \/ LoopCondition \/ SetStageLoad \/ SetStageStore
  <2>1. /\ UNCHANGED <<batch, assign, applied, queue, submitted, bgStage, nextStage, fill, slot>>
        /\ bg \notin {"stage", "body", "B"} /\ bg' \notin {"body", "B"}
    BY <1>2 DEF BarrierA, LoopCondition, SetStageLoad, SetStageStore, BgGoto, clientVars, workerVars
  <2>2. bg' = "stage" => \A w \in Workers : worker'[w] = "read"
    BY <1>2 DEF BarrierA, LoopCondition, SetStageLoad, SetStageStore, BgGoto
  <2>3. \A s \in Slots : ~Executed(s) /\ ~Executed(s)'
    BY <2>1, <2>2, WorkerOfSlot DEF Executed, LeafStage, Passed
  <2>4. SlotsOwn'
    BY <1>2 DEF BarrierA, LoopCondition, SetStageLoad, SetStageStore, workerVars, SlotsOwn, OrderParts
  <2>. QED
    BY <2>1, <2>3, <2>4, Undisturbed DEF Fresh, Distributed
<1>3. CASE BgReadStage
  <2>1. /\ UNCHANGED <<batch, assign, applied, queue, submitted, nextStage, flag, worker, slot>>
        /\ bg = "stage" /\ bg' = "body" /\ bgStage' = nextStage /\ fill' = 0
    BY <1>3 DEF BgReadStage, BgGoto, clientVars, workerVars, FlagFits
  <2>. QED
    BY <2>1, Undisturbed DEF Fresh, Carrying, Executed, LeafStage, Passed, Distributed, SlotsOwn,
                OrderParts, Slots
<1>4. CASE CollectRelease
  BY <1>4, Undisturbed DEF CollectRelease, bgVars, workerVars, clientVars, Fresh, Executed, LeafStage,
                Passed, Distributed, SlotsOwn, OrderParts
<1>5. CASE CollectDone \/ PassStage \/ Redistribute
  <2>1. /\ UNCHANGED <<batch, applied, queue, submitted, flag, bgStage, fill, worker, slot>>
        /\ bg = "body" /\ bg' = "B"
        /\ assign' # assign => bgStage = "REDISTRIBUTE"
    BY <1>5 DEF CollectDone, PassStage, Redistribute, Case, BgGoto, clientVars, workerVars
  <2>2. \/ bgStage = "COLLECT" /\ fill = BatchSize /\ nextStage' \in Carrying \ {"EXEC_LEAF"}
        \/ bgStage = "SEARCH" /\ nextStage' \in Carrying \ {"EXEC_LEAF"}
        \/ bgStage = "EXEC_LEAF" /\ nextStage' = "REDISTRIBUTE"
        \/ bgStage \notin Carrying \cup {"COLLECT"} /\ nextStage' \notin Carrying
    BY <1>5 DEF CollectDone, PassStage, Redistribute, AfterRedistribute, Case, NextStage, Carrying
  <2>3. \A i \in Slots : Fresh(i)' <=> Fresh(i)
    BY <2>1, <2>2, SizeAssumption DEF Fresh, Carrying, Slots
  <2>4. Distributed' => bgStage = "EXEC_LEAF" /\ Distributed
    BY <2>1, <2>2 DEF Distributed, Carrying
  <2>5. LeafStage <=> bgStage = "EXEC_LEAF"
    BY <2>1 DEF LeafStage, FlagFits
  <2>6. LeafStage' <=> LeafStage
    BY <2>1 DEF LeafStage
  <2>7. \A s \in Slots : Executed(s)' <=> Executed(s)
    BY <2>1, <2>6 DEF Executed, Passed
  <2>8. SlotsOwn'
    BY <2>1 DEF SlotsOwn, OrderParts
  <2>. QED
    BY <2>1, <2>3, <2>4, <2>5, <2>6, <2>7, <2>8, Undisturbed
<1>. QED
  BY <1>1, <1>2, <1>3, <1>4, <1>5

(* A slot is not smaller than its worker's number.                         *)
LEMMA WorkerBeforeSlot == \A s \in Slots : s % NumWorker <= s
<1>. SUFFICES ASSUME NEW s \in Slots PROVE s % NumWorker <= s
  OBVIOUS
<1>. DEFINE a == s \div NumWorker
            r == s % NumWorker
<1>1. NumWorker \in Nat \ {0} /\ s \in Nat
  BY SizeAssumption DEF Slots
<1>2. s = NumWorker * a + r /\ r \in 0 .. (NumWorker - 1) /\ a \in Nat
  BY <1>1, Division, Zenon
<1>. HIDE DEF a, r
<1>3. NumWorker * a >= 0
  BY <1>1, <1>2
<1>4. r <= s
  BY <1>1, <1>2, <1>3
<1>. QED
  BY <1>4 DEF r

(* A worker's steps in the other stages, and before its first and after its*)
(* last slot, execute no request.                                          *)
LEMMA IdleSteps ==
    ASSUME Types, Meeting, FlagFits, OrderParts, NEW w \in Workers,
           \/ WorkerReadStage(w) \/ InternalExecute(w) \/ MergeChild(w)
           \/ ReadNextChild(w) \/ SlotsDone(w)
    PROVE  OrderParts'
<1>1. UNCHANGED <<batch, assign, applied, queue, submitted, flag, bg, bgStage, nextStage, fill>>
  BY DEF WorkerReadStage, InternalExecute, MergeChild, ReadNextChild, SlotsDone, bgVars, clientVars
<1>2. \A i \in Slots : (Fresh(i)' <=> Fresh(i)) /\ (Distributed' <=> Distributed)
  BY <1>1 DEF Fresh, Distributed
<1>3. \A v \in Workers \ {w} : worker'[v] = worker[v] /\ slot'[v] = slot[v]
  BY DEF Types, WorkerReadStage, InternalExecute, MergeChild, ReadNextChild, SlotsDone, WorkerGoto,
         NextSlot
<1>4. \A s \in Slots : s % NumWorker # w => (Executed(s)' <=> Executed(s))
  BY <1>1, <1>3, WorkerOfSlot DEF Executed, LeafStage, Passed
<1>5. LeafStage' <=> LeafStage
  BY <1>1 DEF LeafStage
<1>6. CASE WorkerReadStage(w)
  <2>1. worker[w] = "read" /\ worker'[w] = NextWork /\ slot'[w] = w
    BY <1>6 DEF WorkerReadStage, WorkerGoto, Types
  <2>2. LeafStage => worker'[w] = "leaf"
    BY <2>1 DEF LeafStage, NextWork, WorkOf, Meeting
  <2>3. \A s \in Slots : s % NumWorker = w => ~Executed(s) /\ ~Executed(s)'
    BY <1>5, <2>1, <2>2, WorkerBeforeSlot, FirstSlotIsOwn DEF Executed, Passed, Slots
  <2>4. SlotsOwn'
    BY <1>3, <2>1, FirstSlotIsOwn DEF SlotsOwn, OrderParts
  <2>. QED
    BY <1>1, <1>2, <1>4, <2>3, <2>4, Undisturbed DEF Distributed
<1>7. CASE SlotsDone(w) /\ worker[w] = "leaf"
  <2>1. worker'[w] = "B" /\ slot' = slot /\ slot[w] \in Nat /\ slot[w] \notin Slots
    BY <1>7 DEF SlotsDone, WorkerGoto, Types
  <2>2. \A s \in Slots : s < slot[w]
    BY <2>1, SizeAssumption DEF Slots
  <2>3. \A s \in Slots : s % NumWorker = w => (Executed(s)' <=> Executed(s))
    BY <1>5, <1>7, <2>1, <2>2 DEF Executed, Passed
  <2>4. SlotsOwn'
    BY <1>3, <2>1 DEF SlotsOwn, OrderParts
  <2>. QED
    BY <1>1, <1>2, <1>4, <2>3, <2>4, Undisturbed DEF Distributed
<1>8. CASE worker[w] \in {"internal", "next"}
  <2>1. ~LeafStage /\ worker'[w] # "leaf"
    BY <1>8, WorkAndStage DEF LeafStage, FlagFits, WorkerReadStage, InternalExecute, MergeChild,
                ReadNextChild, SlotsDone, WorkerGoto, Types
  <2>2. \A s \in Slots : ~Executed(s) /\ ~Executed(s)'
    BY <1>5, <2>1 DEF Executed
  <2>3. SlotsOwn'
    BY <1>3, <2>1 DEF SlotsOwn, OrderParts
  <2>. QED
    BY <1>1, <1>2, <2>2, <2>3, Undisturbed DEF Distributed
<1>. QED
  BY <1>6, <1>7, <1>8 DEF InternalExecute, MergeChild, ReadNextChild, SlotsDone, WorkerGoto

(* A new request goes behind the others.                                   *)
LEMMA SubmitOrder ==
    ASSUME Types, OrderParts, NEW k \in Keys, Submit(k)
    PROVE  OrderParts'
<1>. USE DEF OrderParts
<1>1. /\ submitted' = Append(submitted, k) /\ queue' = Append(queue, Len(submitted'))
      /\ UNCHANGED <<batch, assign, applied, flag, bg, bgStage, nextStage, fill, worker, slot>>
  BY DEF Submit, bgVars, workerVars
<1>2. /\ Len(submitted) \in Nat /\ Len(queue) \in Nat
      /\ Len(submitted') = Len(submitted) + 1 /\ Len(queue') = Len(queue) + 1
      /\ \A r \in Request : r \in Request' /\ submitted'[r] = submitted[r]
  BY <1>1 DEF Types, Request
<1>3. Popped' = Popped /\ Popped \in Nat /\ 1 .. Popped \subseteq Request
  BY <1>2 DEF Popped, QueueFits, Request
<1>4. QueueFits'
  <2>1. \A i \in 1 .. Len(queue) : queue'[i] = queue[i]
    BY <1>1 DEF Types
  <2>2. queue'[Len(queue) + 1] = Len(submitted) + 1
    BY <1>1, <1>2 DEF Types
  <2>3. \A i \in 1 .. Len(queue') : i \in 1 .. Len(queue) \/ i = Len(queue) + 1
    BY <1>2
  <2>4. Len(submitted) + 1 = Popped + (Len(queue) + 1)
    BY <1>2 DEF Popped
  <2>5. \A i \in 1 .. Len(queue') : queue'[i] = Popped + i
    BY <2>1, <2>2, <2>3, <2>4 DEF QueueFits
  <2>6. Len(queue') <= Len(submitted')
    BY <1>2 DEF QueueFits
  <2>. QED
    BY <1>3, <2>5, <2>6 DEF QueueFits
<1>5. /\ \A i \in Slots : (Carries(i)' <=> Carries(i)) /\ (Fresh(i)' <=> Fresh(i))
      /\ \A n : LeafDone(n)' <=> LeafDone(n)
  BY <1>1 DEF Carries, Fresh, LeafDone, Executed, LeafStage, Passed
<1>6. \A r \in Request : IsApplied(r) => IsApplied(r)'
  BY <1>1, <1>2 DEF IsApplied
<1>7. \A r \in Request : NotBefore(r) => NotBefore(r)'
  BY <1>1, <1>2 DEF NotBefore
<1>8. BatchFits'
  BY <1>1, <1>3, <1>5 DEF BatchFits
<1>9. SlotsFit' /\ SlotsOwn'
  BY <1>1 DEF SlotsFit, SlotFits, AtNode, Given, Distributed, SlotsOwn
<1>10. AppliedFits'
  BY <1>1, <1>2, <1>3 DEF AppliedFits, KeyFits
<1>11. AllInTime'
  <2>1. \A i \in Slots : Carries(i) => batch[i].req \in Request
    BY DEF Carries, Types
  <2>. QED
    BY <1>1, <1>5, <1>6, <1>7, <2>1 DEF AllInTime, InTime
<1>12. NothingForgotten'
  BY <1>1, <1>3, <1>5, <1>6 DEF NothingForgotten
<1>. QED
  BY <1>4, <1>8, <1>9, <1>10, <1>11, <1>12

(* When EXEC_LEAF ends all slots have been executed, so all requests of    *)
(* the batch.                                                              *)
LEMMA BarrierBOrder ==
    ASSUME Types, FlagFits, OrderParts, BarrierB
    PROVE  OrderParts'
<1>1. /\ UNCHANGED <<batch, assign, applied, queue, submitted, flag, bgStage, nextStage, fill, slot>>
      /\ bg = "B" /\ bg' = "cond" /\ worker' = [w \in Workers |-> "A"]
      /\ \A w \in Workers : worker[w] = "B"
  BY DEF BarrierB, clientVars
<1>2. SlotsOwn' /\ ~LeafStage'
  BY <1>1 DEF SlotsOwn, LeafStage
<1>3. Distributed' => Distributed
  BY <1>1 DEF Distributed
<1>4. \A s \in Slots : ~Executed(s)'
  BY <1>2 DEF Executed
<1>5. CASE bgStage # "EXEC_LEAF"
  <2>1. \A i \in Slots : Fresh(i)' <=> Fresh(i)
    BY <1>1, <1>5 DEF Fresh
  <2>2. \A s \in Slots : ~Executed(s)
    BY <1>1, <1>5 DEF FlagFits, Executed, LeafStage
  <2>. QED
    BY <1>1, <1>2, <1>3, <1>4, <2>1, <2>2, Undisturbed
<1>6. CASE bgStage = "EXEC_LEAF"
  <2>. USE DEF OrderParts
  <2>1. \A i \in Slots : Fresh(i) /\ ~Fresh(i)' /\ ~Carries(i)'
    BY <1>1, <1>6 DEF Fresh, Carries, FlagFits, Following, Carrying
  <2>2. \A i \in Slots : batch[i].req # NOP => IsApplied(batch[i].req)
    <3>1. \A s \in Slots : Executed(s)
      BY <1>1, <1>6, WorkerOfSlot DEF Executed, LeafStage, Passed, FlagFits
    <3>2. \A i \in Slots : batch[i].req # NOP => LeafDone(batch[i].node)
      BY <1>1, <1>6, <3>1 DEF SlotsFit, Distributed, LeafDone
    <3>. QED
      BY <2>1, <3>2 DEF AllInTime, InTime, Carries
  <2>3. Popped' = Popped /\ Request' = Request
    BY <1>1 DEF Popped, Request
  <2>4. QueueFits' /\ AppliedFits'
    BY <1>1, <2>3 DEF QueueFits, AppliedFits, KeyFits
  <2>5. BatchFits' /\ AllInTime'
    BY <2>1 DEF BatchFits, AllInTime
  <2>6. ~Distributed'
    BY <1>1, <1>6 DEF Distributed, FlagFits, Following
  <2>7. SlotsFit'
    BY <2>6 DEF SlotsFit
  <2>8. NothingForgotten'
    <3>1. \A r \in 1 .. Popped : r # NOP
      BY SizeAssumption DEF Popped, Types, QueueFits
    <3>2. \A r \in 1 .. Popped : IsApplied(r)
      BY <2>2, <3>1 DEF NothingForgotten
    <3>3. \A r \in 1 .. Popped : IsApplied(r)'
      BY <1>1, <2>3, <3>2 DEF IsApplied
    <3>. QED
      BY <2>3, <3>3 DEF NothingForgotten
  <2>. QED
    BY <1>2, <2>4, <2>5, <2>7, <2>8
<1>. QED
  BY <1>5, <1>6

(* COLLECT takes the oldest request, or none, for the next slot.           *)
LEMMA CollectOrder ==
    ASSUME Types, FlagFits, OrderParts, CollectSlot
    PROVE  OrderParts'
<1>. USE DEF OrderParts
<1>. PICK f \in Slots : f = fill
  BY SizeAssumption DEF CollectSlot, Types, Slots
<1>1. /\ UNCHANGED <<assign, applied, submitted, flag, bg, bgStage, nextStage, worker, slot>>
      /\ bg = "body" /\ bgStage = "COLLECT" /\ fill' = f + 1
  BY SizeAssumption DEF CollectSlot, workerVars, clientVars, Types, Slots
<1>2. SlotsOwn' /\ SlotsFit' /\ Request' = Request /\ ~LeafStage'
  BY <1>1 DEF SlotsOwn, SlotsFit, Distributed, Request, LeafStage, FlagFits
<1>3. \A n : ~LeafDone(n)'
  BY <1>2 DEF LeafDone, Executed
<1>4. /\ \A i \in Slots : Fresh(i) <=> i < f
      /\ \A i \in Slots : Fresh(i)' <=> i < f \/ i = f
  BY <1>1 DEF Fresh, Carrying, Slots
<1>5. \A i \in Slots : i # f => batch'[i] = batch[i]
  BY DEF CollectSlot, Pop, Pad, Types
<1>6. \A i \in Slots : i # f => (Fresh(i)' <=> Fresh(i)) /\ (Carries(i)' <=> Carries(i))
  BY <1>4, <1>5 DEF Carries
<1>7. \A r : (IsApplied(r)' <=> IsApplied(r)) /\ (NotBefore(r)' <=> NotBefore(r))
  BY <1>1, <1>2 DEF IsApplied, NotBefore
<1>8. \A i \in Slots : Carries(i) => ~LeafDone(batch[i].node) /\ NotBefore(batch[i].req)
  <2>1. \A n : ~LeafDone(n)
    BY <1>1 DEF LeafDone, Executed, LeafStage, FlagFits
  <2>. QED
    BY <2>1 DEF AllInTime, InTime
<1>9. Len(queue) \in Nat /\ Len(submitted) \in Nat /\ Popped \in Nat
  BY DEF Types, Popped, QueueFits
<1>10. CASE Pad
  <2>1. UNCHANGED queue /\ batch'[f].req = NOP
    BY <1>1, <1>10 DEF Pad, NoRequest, Types
  <2>2. Popped' = Popped /\ ~Carries(f)'
    BY <1>1, <2>1 DEF Popped, Carries
  <2>3. QueueFits' /\ AppliedFits'
    BY <1>1, <2>1, <2>2 DEF QueueFits, AppliedFits, KeyFits
  <2>4. BatchFits'
    BY <1>5, <1>6, <2>2 DEF BatchFits
  <2>5. AllInTime'
    BY <1>3, <1>5, <1>6, <1>7, <1>8, <2>2 DEF AllInTime, InTime
  <2>6. NothingForgotten'
    <3>1. \A i \in Slots : Fresh(i) => Fresh(i)' /\ batch'[i] = batch[i]
      BY <1>4, <1>5 DEF Slots
    <3>. QED
      BY <1>7, <2>2, <3>1 DEF NothingForgotten
  <2>. QED
    BY <1>2, <2>3, <2>4, <2>5, <2>6
<1>11. CASE Pop
  <2>1. queue # <<>> /\ queue' = Tail(queue) /\ batch'[f].req = Head(queue)
    BY <1>1, <1>11 DEF Pop, Types
  <2>2. /\ Len(queue) \in Nat \ {0} /\ Len(queue') = Len(queue) - 1 /\ Head(queue) = queue[1]
        /\ \A i \in 1 .. Len(queue') : queue'[i] = queue[i + 1]
    BY <2>1 DEF Types
  <2>3. Popped' = Popped + 1 /\ Head(queue) = Popped'
    BY <1>1, <1>9, <2>2 DEF Popped, QueueFits
  <2>4. QueueFits'
    <3>1. \A i \in 1 .. Len(queue') : i + 1 \in 1 .. Len(queue)
      BY <2>2
    <3>2. \A i \in 1 .. Len(queue') : queue'[i] = Popped + (i + 1)
      BY <2>2, <3>1 DEF QueueFits
    <3>3. \A i \in 1 .. Len(queue') : queue'[i] = Popped' + i
      BY <1>9, <2>3, <3>2
    <3>. QED
      BY <1>1, <1>9, <2>2, <3>3 DEF QueueFits
  <2>5. AppliedFits'
    BY <1>1, <1>9, <2>3 DEF AppliedFits, KeyFits
  <2>6. Carries(f)' /\ batch'[f].req = Popped + 1
    BY <1>1, <1>4, <1>9, <2>1, <2>3, SizeAssumption DEF Carries
  <2>7. BatchFits'
    <3>1. ASSUME NEW i \in Slots, Carries(i)'
          PROVE  \/ i = f /\ batch'[i].req = Popped + 1
                 \/ /\ i < f /\ i # f /\ Carries(i)
                    /\ batch'[i] = batch[i] /\ batch[i].req <= Popped /\ batch[i].req \in Nat
      <4>1. CASE i = f
        BY <2>6, <4>1
      <4>2. CASE i # f
        <5>1. Carries(i) /\ i < f /\ batch'[i] = batch[i]
          BY <1>4, <1>5, <1>6, <3>1, <4>2 DEF Carries
        <5>2. batch[i].req \in Nat
          BY <5>1 DEF Types, Request, Carries
        <5>. QED
          BY <4>2, <5>1, <5>2 DEF BatchFits
      <4>. QED
        BY <4>1, <4>2
    <3>4. \A i \in Slots : Carries(i)' => batch'[i].req <= Popped'
      BY <1>9, <2>3, <3>1
    <3>5. ASSUME NEW i \in Slots, NEW j \in Slots, Carries(i)', Carries(j)', i < j
          PROVE  batch'[i].req < batch'[j].req
      <4>1. i # f
        BY <3>1, <3>5 DEF Slots
      <4>2. CASE j = f
        BY <1>9, <3>1, <3>5, <4>1, <4>2
      <4>3. CASE j # f
        BY <3>1, <3>5, <4>1, <4>3 DEF BatchFits
      <4>. QED
        BY <4>2, <4>3
    <3>. QED
      BY <3>4, <3>5 DEF BatchFits
  <2>8. NotBefore(Popped + 1)
    <3>1. submitted[Popped + 1] \in Keys
      BY <1>9, <2>2 DEF Types, Popped
    <3>. QED
      BY <1>9, <3>1 DEF NotBefore, AppliedFits, KeyFits
  <2>9. AllInTime'
    BY <1>3, <1>5, <1>6, <1>7, <1>8, <2>6, <2>8 DEF AllInTime, InTime
  <2>10. NothingForgotten'
    <3>1. \A r \in 1 .. Popped' : r \in 1 .. Popped \/ r = Popped + 1
      BY <1>9, <2>3
    <3>2. ASSUME NEW r \in 1 .. Popped
          PROVE  IsApplied(r)' \/ \E i \in Slots : Fresh(i)' /\ batch'[i].req = r
      BY <1>4, <1>5, <1>7 DEF NothingForgotten, Slots
    <3>. QED
      BY <1>1, <2>6, <3>1, <3>2 DEF NothingForgotten, Carries
  <2>. QED
    BY <1>2, <2>4, <2>5, <2>7, <2>9, <2>10
<1>. QED
  BY <1>10, <1>11 DEF CollectSlot

(* SEARCH changes nothing but the leaves in the batch.                     *)
LEMMA SearchOrder ==
    ASSUME Types, Meeting, FlagFits, OrderParts, NEW w \in Workers, Search(w)
    PROVE  OrderParts'
<1>. USE DEF OrderParts
<1>1. /\ UNCHANGED <<assign, applied, queue, submitted, flag, bg, bgStage, nextStage, fill, slot>>
      /\ worker[w] = "search" /\ worker' = [worker EXCEPT ![w] = "B"]
  BY DEF Search, WorkerGoto, bgVars, clientVars
<1>2. flag.stage = "SEARCH" /\ bg \in {"stage", "body", "B"}
  BY <1>1, WorkAndStage DEF FlagFits, Meeting, Types, BgLabels
<1>3. \A i \in Slots : batch'[i].req = batch[i].req
  BY DEF Search, Types
<1>4. \A i \in Slots : (Fresh(i)' <=> Fresh(i)) /\ (Carries(i)' <=> Carries(i))
  BY <1>1, <1>3 DEF Fresh, Carries
<1>5. \A n : ~LeafDone(n) /\ ~LeafDone(n)'
  BY <1>1, <1>2 DEF LeafDone, Executed, LeafStage
<1>6. Popped' = Popped /\ Request' = Request
  BY <1>1 DEF Popped, Request
<1>7. \A r : (IsApplied(r)' <=> IsApplied(r)) /\ (NotBefore(r)' <=> NotBefore(r))
  BY <1>1, <1>6 DEF IsApplied, NotBefore
<1>8. QueueFits' /\ AppliedFits'
  BY <1>1, <1>6 DEF QueueFits, AppliedFits, KeyFits
<1>9. BatchFits' /\ AllInTime' /\ NothingForgotten'
  BY <1>3, <1>4, <1>5, <1>6, <1>7 DEF BatchFits, AllInTime, InTime, NothingForgotten
<1>10. ~Distributed'
  BY <1>1, <1>2 DEF Distributed, FlagFits, Following
<1>11. SlotsFit' /\ SlotsOwn'
  BY <1>1, <1>10 DEF SlotsFit, SlotsOwn, Types
<1>. QED
  BY <1>8, <1>9, <1>11

-----------------------------------------------------------------------------
(* DISTRIBUTE                                                              *)

(* An order of a set has each of its elements once.                        *)
LEMMA OrderOfSet ==
    ASSUME NEW S, IsFiniteSet(S), NEW order \in SetToSeqs(S)
    PROVE  /\ order \in Seq(S) /\ Len(order) = Cardinality(S) /\ Len(order) \in Nat
           /\ \A i, j \in 1 .. Len(order) : order[i] = order[j] => i = j
           /\ \A n \in S : \E i \in 1 .. Len(order) : order[i] = n
<1>. DEFINE c == Cardinality(S)
<1>1. /\ c \in Nat /\ order \in [1 .. c -> S]
      /\ \A i, j \in 1 .. c : i # j => order[i] # order[j]
  BY FS_CardinalityType DEF SetToSeqs
<1>2. Len(order) = c /\ order \in Seq(S)
  BY <1>1
<1>3. order \in Injection(1 .. c, S)
  BY <1>1 DEF Injection, IsInjective
<1>4. Cardinality(1 .. c) = c
  BY <1>1, FS_Interval
<1>5. order \in Surjection(1 .. c, S)
  BY <1>3, <1>4, FS_Injection
<1>. QED
  BY <1>1, <1>2, <1>5 DEF Surjection

(* A leaf's requests are the ones found there, in their order.             *)
LEMMA RequestsAtFit ==
    ASSUME Types, BatchFits, \A i \in Slots : Fresh(i), NEW n, NEW reqs, reqs = RequestsAt(n)
    PROVE  /\ reqs \in Seq(Nat) /\ Increasing(reqs)
           /\ \A j \in 1 .. Len(reqs) : \E i \in Slots : AtNode(i, n) /\ batch[i].req = reqs[j]
           /\ \A i \in Slots : AtNode(i, n) => \E j \in 1 .. Len(reqs) : reqs[j] = batch[i].req
<1>. DEFINE seq == [i \in 1 .. BatchSize |-> batch[i - 1].req]
            here == {i \in 1 .. BatchSize : batch[i - 1].req # NOP /\ batch[i - 1].node = n}
<1>1. reqs = ElementsAt(seq, here)
  BY DEF RequestsAt
<1>2. \A i \in 1 .. BatchSize : i - 1 \in Slots /\ seq[i] = batch[i - 1].req
  BY SizeAssumption DEF Slots
<1>3. \A i \in Slots : i + 1 \in 1 .. BatchSize /\ seq[i + 1] = batch[i].req /\ (i + 1) - 1 = i
  BY SizeAssumption DEF Slots
<1>4. seq \in Seq(Request \cup {NOP}) /\ Len(seq) = BatchSize
  <2>1. \A i \in 1 .. BatchSize : batch[i - 1].req \in Request \cup {NOP}
    BY <1>2 DEF Types
  <2>2. seq \in [1 .. BatchSize -> Request \cup {NOP}]
    BY <2>1
  <2>. QED
    BY <2>2, SizeAssumption
<1>5. \A i \in here : /\ i \in 1 .. BatchSize /\ AtNode(i - 1, n) /\ i - 1 \in Slots
                      /\ seq[i] = batch[i - 1].req /\ Carries(i - 1) /\ seq[i] \in Request
  BY <1>2 DEF AtNode, Carries, Types
<1>6. \A i \in Slots : AtNode(i, n) => i + 1 \in here
  BY <1>3 DEF AtNode
<1>. HIDE DEF seq, here
<1>7. \A h, i \in here \cap 1 .. Len(seq) : h < i => seq[h] < seq[i]
  BY <1>4, <1>5, SizeAssumption DEF BatchFits
<1>8. reqs \in Seq(Request \cup {NOP}) /\ Picked(reqs, seq, here, Len(seq))
  BY <1>1, <1>4, ElementsAtPicks
<1>9. Increasing(reqs)
  BY <1>1, <1>4, <1>7, ElementsIncrease
<1>10. \A j \in 1 .. Len(reqs) : \E i \in here : reqs[j] = seq[i]
  BY <1>8 DEF Picked
<1>11. reqs \in Seq(Nat)
  <2>1. \A j \in 1 .. Len(reqs) : reqs[j] \in Nat
    BY <1>5, <1>10 DEF Request
  <2>. QED
    BY <1>8, <2>1
<1>12. \A j \in 1 .. Len(reqs) : \E i \in Slots : AtNode(i, n) /\ batch[i].req = reqs[j]
  BY <1>5, <1>10
<1>13. ASSUME NEW i \in Slots, AtNode(i, n) PROVE \E j \in 1 .. Len(reqs) : reqs[j] = batch[i].req
  <2>1. i + 1 \in here \cap 1 .. Len(seq) /\ seq[i + 1] = batch[i].req
    BY <1>3, <1>4, <1>6, <1>13
  <2>. QED
    BY <1>8, <2>1 DEF Picked
<1>. QED
  BY <1>9, <1>11, <1>12, <1>13

(* The leaves of the batch, of which there are no more than slots.         *)
LeavesOfBatch == {batch[i].node : i \in {j \in Slots : batch[j].req # NOP}}
LEMMA LeavesOfBatchFit ==
    IsFiniteSet(LeavesOfBatch) /\ Cardinality(LeavesOfBatch) <= BatchSize
<1>. DEFINE T == {j \in Slots : batch[j].req # NOP}
<1>1. IsFiniteSet(Slots) /\ Cardinality(Slots) = BatchSize /\ T \subseteq Slots
  BY FS_Interval, SizeAssumption DEF Slots
<1>2. IsFiniteSet(T) /\ Cardinality(T) <= BatchSize /\ Cardinality(T) \in Nat
  BY <1>1, FS_Subset, FS_CardinalityType
<1>3. [i \in T |-> batch[i].node] \in Surjection(T, LeavesOfBatch)
  BY DEF Surjection, LeavesOfBatch
<1>4. IsFiniteSet(LeavesOfBatch) /\ Cardinality(LeavesOfBatch) <= Cardinality(T)
  BY <1>2, <1>3, FS_Surjection
<1>5. Cardinality(LeavesOfBatch) \in Nat
  BY <1>4, FS_CardinalityType
<1>. QED
  BY <1>2, <1>4, <1>5, SizeAssumption

(* Each leaf gets one slot, with its requests.                             *)
LEMMA DistributeOrder ==
    ASSUME Types, FlagFits, LeavesFound, OrderParts, Distribute
    PROVE  OrderParts'
<1>. USE DEF OrderParts
<1>1. /\ UNCHANGED <<batch, applied, queue, submitted, flag, bgStage, fill, worker, slot>>
      /\ bg = "body" /\ bg' = "B" /\ bgStage = "DISTRIBUTE" /\ nextStage' = "EXEC_LEAF"
  BY DEF Distribute, Case, BgGoto, clientVars, workerVars
<1>2. ~LeafStage /\ ~LeafStage' /\ SlotsOwn'
  BY <1>1 DEF LeafStage, FlagFits, SlotsOwn
<1>3. \A i \in Slots : Fresh(i) /\ Fresh(i)'
  BY <1>1 DEF Fresh, Carrying
<1>4. PICK order \in SetToSeqs(LeavesOfBatch) :
          assign' = Assignment(order, [n \in ToSet(order) |-> RequestsAt(n)])
  BY DEF Distribute, LeavesOfBatch
<1>5. /\ order \in Seq(LeavesOfBatch) /\ Len(order) \in Nat /\ Len(order) <= BatchSize
      /\ \A i, j \in 1 .. Len(order) : order[i] = order[j] => i = j
      /\ \A n \in LeavesOfBatch : \E i \in 1 .. Len(order) : order[i] = n
  BY LeavesOfBatchFit, OrderOfSet
<1>6. \A n \in LeavesOfBatch : n # Null
  BY <1>1, FoundIsLeaf, ShapeAssumption DEF LeavesOfBatch, LeavesFound, Leaves
<1>7. \A i \in Slots : batch[i].req # NOP => batch[i].node \in LeavesOfBatch
  BY DEF LeavesOfBatch
<1>8. \A s \in Slots : s < Len(order) =>
        /\ s + 1 \in 1 .. Len(order)
        /\ assign'[s].node = order[s + 1] /\ assign'[s].reqs = RequestsAt(order[s + 1])
        /\ order[s + 1] \in LeavesOfBatch
  BY <1>4, <1>5 DEF Assignment, ToSet, Slots
<1>9. \A s \in Slots : ~(s < Len(order)) => assign'[s].node = Null /\ assign'[s].reqs = <<>>
  BY <1>4 DEF Assignment, LeftOver, NoTask
<1>10. ASSUME NEW s \in Slots PROVE SlotFits(s)'
  <2>1. CASE s < Len(order)
    <3>1. assign'[s].reqs = RequestsAt(assign'[s].node)
      BY <1>8, <2>1
    <3>. QED
      BY <1>1, <1>3, <3>1, RequestsAtFit DEF SlotFits, AtNode
  <2>2. CASE ~(s < Len(order))
    <3>1. \A i \in Slots : ~AtNode(i, Null)
      BY <1>6, <1>7 DEF AtNode
    <3>2. <<>> \in Seq(Nat) /\ 1 .. Len(<<>>) = {}
      OBVIOUS
    <3>. QED
      BY <1>1, <1>9, <2>2, <3>1, <3>2 DEF SlotFits, AtNode, Increasing
  <2>. QED
    BY <2>1, <2>2
<1>11. ASSUME NEW s \in Slots, NEW u \in Slots, Given(s)', assign'[s].node = assign'[u].node
       PROVE  s = u
  <2>1. s < Len(order) /\ u < Len(order)
    BY <1>9, <1>11 DEF Given
  <2>2. s + 1 = u + 1
    BY <1>5, <1>8, <1>11, <2>1
  <2>. QED
    BY <2>2 DEF Slots
<1>12. ASSUME NEW i \in Slots, batch[i].req # NOP
       PROVE  \E s \in Slots : assign'[s].node = batch[i].node
  <2>1. PICK j \in 1 .. Len(order) : order[j] = batch[i].node
    BY <1>5, <1>7, <1>12
  <2>2. j - 1 \in Slots /\ j - 1 < Len(order) /\ (j - 1) + 1 = j
    BY <1>5, SizeAssumption DEF Slots
  <2>. QED
    BY <1>8, <2>1, <2>2
<1>13. SlotsFit'
  BY <1>1, <1>10, <1>11, <1>12 DEF SlotsFit
<1>. QED
  BY <1>1, <1>2, <1>3, <1>13, Undisturbed DEF Executed

-----------------------------------------------------------------------------
(* EXEC_LEAF                                                               *)

(* What comes after all of an increasing sequence goes behind it.          *)
LEMMA IncreasingBehind ==
    ASSUME NEW a \in Seq(Nat), NEW b \in Seq(Nat), Increasing(a), Increasing(b),
           \A i \in 1 .. Len(a), j \in 1 .. Len(b) : a[i] < b[j]
    PROVE  Increasing(a \o b)
<1>. DEFINE c == a \o b
<1>1. /\ Len(a) \in Nat /\ Len(b) \in Nat /\ Len(c) = Len(a) + Len(b)
      /\ \A i \in 1 .. Len(a) : c[i] = a[i]
      /\ \A i \in 1 .. Len(c) : i > Len(a) => c[i] = b[i - Len(a)] /\ i - Len(a) \in 1 .. Len(b)
  OBVIOUS
<1>. SUFFICES ASSUME NEW i \in 1 .. Len(c), NEW j \in 1 .. Len(c), i < j PROVE c[i] < c[j]
  BY DEF Increasing
<1>2. CASE j <= Len(a)
  <2>1. i \in 1 .. Len(a) /\ j \in 1 .. Len(a)
    BY <1>1, <1>2
  <2>. QED
    BY <1>1, <2>1 DEF Increasing
<1>3. CASE i <= Len(a) /\ j > Len(a)
  <2>1. i \in 1 .. Len(a)
    BY <1>1, <1>3
  <2>. QED
    BY <1>1, <1>3, <2>1
<1>4. CASE i > Len(a)
  <2>1. j > Len(a) /\ i - Len(a) < j - Len(a)
    BY <1>1, <1>4
  <2>2. b[i - Len(a)] < b[j - Len(a)]
    BY <1>1, <1>4, <2>1 DEF Increasing
  <2>. QED
    BY <1>1, <1>4, <2>1, <2>2
<1>. QED
  BY <1>1, <1>2, <1>3, <1>4

(* What leaf_execute adds for a key: the slot's requests for it, in their  *)
(* order.                                                                  *)
LEMMA Added ==
    ASSUME NEW w \in Workers, LeafExecute(w), SlotFits(slot[w]), NEW k \in Keys,
           applied \in [Keys -> Seq(Nat)]
    PROVE  \E e \in Seq(Nat) :
              /\ applied'[k] = applied[k] \o e /\ Increasing(e)
              /\ \A j \in 1 .. Len(e) :
                    /\ submitted[e[j]] = k
                    /\ \E i \in Slots : AtNode(i, assign[slot[w]].node) /\ batch[i].req = e[j]
              /\ \A i \in Slots :
                    AtNode(i, assign[slot[w]].node) /\ submitted[batch[i].req] = k
                       => \E j \in 1 .. Len(e) : e[j] = batch[i].req
<1>. DEFINE reqs == assign[slot[w]].reqs
            node == assign[slot[w]].node
            part == {i \in DOMAIN reqs : reqs[i] # UPDATE /\ submitted[reqs[i]] = k}
            e == ElementsAt(reqs, part)
<1>1. /\ reqs \in Seq(Nat) /\ Increasing(reqs) /\ Len(reqs) \in Nat
      /\ \A j \in 1 .. Len(reqs) : \E i \in Slots : AtNode(i, node) /\ batch[i].req = reqs[j]
      /\ \A i \in Slots : AtNode(i, node) => \E j \in 1 .. Len(reqs) : reqs[j] = batch[i].req
  BY DEF SlotFits
<1>2. reqs # <<>> => applied'[k] = applied[k] \o e
  BY DEF LeafExecute
<1>3. reqs = <<>> => applied'[k] = applied[k]
  BY DEF LeafExecute
<1>4. DOMAIN reqs = 1 .. Len(reqs) /\ \A j \in 1 .. Len(reqs) : reqs[j] # UPDATE
  BY <1>1, SizeAssumption
<1>5. part = {i \in 1 .. Len(reqs) : submitted[reqs[i]] = k}
  BY <1>4
<1>. HIDE DEF reqs, node, part
<1>6. e \in Seq(Nat) /\ Picked(e, reqs, part, Len(reqs))
  BY <1>1, ElementsAtPicks
<1>7. Increasing(e)
  <2>1. \A h, i \in part \cap 1 .. Len(reqs) : h < i => reqs[h] < reqs[i]
    BY <1>1 DEF Increasing
  <2>. QED
    BY <1>1, <2>1, ElementsIncrease
<1>. HIDE DEF e
<1>8. \A j \in 1 .. Len(e) : /\ submitted[e[j]] = k
                             /\ \E i \in Slots : AtNode(i, node) /\ batch[i].req = e[j]
  <2>. SUFFICES ASSUME NEW j \in 1 .. Len(e)
                PROVE  /\ submitted[e[j]] = k
                       /\ \E i \in Slots : AtNode(i, node) /\ batch[i].req = e[j]
    OBVIOUS
  <2>1. PICK h \in part \cap 1 .. Len(reqs) : e[j] = reqs[h]
    BY <1>6 DEF Picked
  <2>. QED
    BY <1>1, <1>5, <2>1
<1>9. ASSUME NEW i \in Slots, AtNode(i, node), submitted[batch[i].req] = k
      PROVE  \E j \in 1 .. Len(e) : e[j] = batch[i].req
  <2>1. PICK h \in 1 .. Len(reqs) : reqs[h] = batch[i].req
    BY <1>1, <1>9
  <2>2. h \in part \cap 1 .. Len(reqs)
    BY <1>5, <1>9, <2>1
  <2>. QED
    BY <1>6, <2>1, <2>2 DEF Picked
<1>10. applied'[k] = applied[k] \o e
  <2>1. CASE reqs = <<>>
    <3>1. 1 .. Len(reqs) = {}
      BY <2>1
    <3>2. \A j \in 1 .. Len(e) : FALSE
      BY <1>6, <3>1 DEF Picked
    <3>3. e = <<>>
      BY <1>6, <3>2
    <3>4. applied[k] \in Seq(Nat)
      OBVIOUS
    <3>. QED
      BY <1>3, <2>1, <3>3, <3>4
  <2>. QED
    BY <1>2, <2>1
<1>. QED
  BY <1>6, <1>7, <1>8, <1>9, <1>10 DEF node

(* A worker executes the requests of one leaf: all of them, in their order,*)
(* and none of another leaf's keys.                                        *)
LEMMA LeafOrder ==
    ASSUME Types, Meeting, FlagFits, LeavesFound, OrderParts, NEW w \in Workers, LeafExecute(w)
    PROVE  OrderParts'
<1>. USE DEF OrderParts
<1>. PICK u \in Slots : u = slot[w]
  BY DEF LeafExecute
<1>. DEFINE node == assign[u].node
<1>1. /\ UNCHANGED <<batch, assign, queue, submitted, flag, bg, bgStage, nextStage, fill, worker>>
      /\ worker[w] = "leaf" /\ slot'[w] = u + NumWorker
      /\ \A v \in Workers \ {w} : slot'[v] = slot[v]
  BY DEF LeafExecute, NextSlot, Types, bgVars, clientVars
<1>2. /\ LeafStage /\ LeafStage' /\ Distributed /\ Distributed'
      /\ \A i \in Slots : Fresh(i) /\ Fresh(i)' /\ Found(i)
  <2>1. flag.stage = "EXEC_LEAF" /\ bg \in {"stage", "body", "B"}
    BY <1>1, WorkAndStage DEF FlagFits, Meeting, Types, BgLabels
  <2>2. \/ bg = "stage" /\ nextStage = "EXEC_LEAF"
        \/ bg \in {"body", "B"} /\ bgStage = "EXEC_LEAF"
    BY <2>1 DEF FlagFits
  <2>. QED
    BY <1>1, <2>1, <2>2 DEF LeafStage, Distributed, Fresh, Carrying, LeavesFound
<1>3. u % NumWorker = w /\ \A s \in Slots : s \in Nat
  BY <1>1, SizeAssumption DEF SlotsOwn, Slots
<1>4. \A s \in Slots : Executed(s)' <=> Executed(s) \/ s = u
  <2>. SUFFICES ASSUME NEW s \in Slots PROVE Executed(s)' <=> Executed(s) \/ s = u
    OBVIOUS
  <2>1. CASE s % NumWorker # w
    BY <1>1, <1>2, <1>3, <2>1, WorkerOfSlot DEF Executed, Passed
  <2>2. CASE s % NumWorker = w
    <3>1. (Executed(s) <=> s < u) /\ (Executed(s)' <=> s < u + NumWorker)
      BY <1>1, <1>2, <2>2 DEF Executed, Passed
    <3>2. u < s => u + NumWorker <= s
      BY <1>3, <2>2, SlotsApart
    <3>. QED
      BY <1>3, <3>1, <3>2, SizeAssumption
  <2>. QED
    BY <2>1, <2>2
<1>5. ~Executed(u)
  BY <1>1, <1>3 DEF Executed, Passed
<1>6. \A n : LeafDone(n)' <=> LeafDone(n) \/ n = node
  BY <1>1, <1>4 DEF LeafDone
<1>7. /\ \A i \in Slots : AtNode(i, node) => ~LeafDone(node)
      /\ \A i \in Slots : Carries(i) <=> batch[i].req # NOP
      /\ \A i \in Slots : Carries(i)' <=> Carries(i)
      /\ \A i \in Slots : Carries(i) => batch[i].req \in Request /\ submitted[batch[i].req] \in Keys
  <2>1. \A i \in Slots : AtNode(i, node) => node # Null
    BY <1>2, FoundIsLeaf, ShapeAssumption DEF AtNode, Leaves
  <2>2. node # Null => ~LeafDone(node)
    BY <1>2, <1>5 DEF SlotsFit, Given, LeafDone
  <2>. QED
    BY <1>1, <1>2, <2>1, <2>2 DEF Carries, Types, Request
<1>8. ASSUME NEW k \in Keys
      PROVE  \E e \in Seq(Nat) :
                /\ applied'[k] = applied[k] \o e /\ Increasing(e)
                /\ \A j \in 1 .. Len(e) :
                      /\ submitted[e[j]] = k
                      /\ \E i \in Slots : AtNode(i, node) /\ batch[i].req = e[j]
                /\ \A i \in Slots : AtNode(i, node) /\ submitted[batch[i].req] = k
                      => \E j \in 1 .. Len(e) : e[j] = batch[i].req
  <2>1. SlotFits(slot[w]) /\ applied \in [Keys -> Seq(Nat)]
    BY <1>2 DEF SlotsFit, AppliedFits
  <2>2. \E e \in Seq(Nat) :
           /\ applied'[k] = applied[k] \o e /\ Increasing(e)
           /\ \A j \in 1 .. Len(e) :
                 /\ submitted[e[j]] = k
                 /\ \E i \in Slots : AtNode(i, assign[slot[w]].node) /\ batch[i].req = e[j]
           /\ \A i \in Slots :
                 AtNode(i, assign[slot[w]].node) /\ submitted[batch[i].req] = k
                    => \E j \in 1 .. Len(e) : e[j] = batch[i].req
    BY <2>1, Added, Zenon
  <2>. QED
    BY <2>2
<1>9. Popped' = Popped /\ Request' = Request
  BY <1>1 DEF Popped, Request
<1>10. applied' \in [Keys -> Seq(Nat)]
  <2>1. ASSUME NEW k \in Keys PROVE applied'[k] \in Seq(Nat)
    <3>1. PICK e \in Seq(Nat) : applied'[k] = applied[k] \o e
      BY <1>8
    <3>. QED
      BY <3>1 DEF AppliedFits
  <2>2. applied' = [k \in Keys |-> applied'[k]]
    BY DEF LeafExecute, AppliedFits
  <2>. QED
    BY <2>1, <2>2
<1>11. \A k \in Keys : \A j \in 1 .. Len(applied[k]) :
          j \in 1 .. Len(applied'[k]) /\ applied'[k][j] = applied[k][j]
  BY <1>8 DEF AppliedFits
<1>12. \A r \in Request : IsApplied(r) => IsApplied(r)'
  <2>. SUFFICES ASSUME NEW r \in Request, IsApplied(r) PROVE IsApplied(r)'
    OBVIOUS
  <2>1. submitted[r] \in Keys
    BY DEF Types, Request
  <2>2. PICK j \in 1 .. Len(applied[submitted[r]]) : applied[submitted[r]][j] = r
    BY <2>1 DEF IsApplied, ToSet, AppliedFits
  <2>3. j \in DOMAIN applied'[submitted[r]] /\ applied'[submitted[r]][j] = r
    BY <1>10, <1>11, <2>1, <2>2
  <2>. QED
    BY <1>1, <1>9, <2>3 DEF IsApplied, ToSet
<1>13. ASSUME NEW k \in Keys PROVE KeyFits(k)'
  <2>1. PICK e \in Seq(Nat) :
            /\ applied'[k] = applied[k] \o e /\ Increasing(e)
            /\ \A j \in 1 .. Len(e) :
                  /\ submitted[e[j]] = k
                  /\ \E i \in Slots : AtNode(i, node) /\ batch[i].req = e[j]
    BY <1>8
  <2>2. applied[k] \in Seq(Nat) /\ KeyFits(k)
    BY DEF AppliedFits
  <2>3. ASSUME NEW j \in 1 .. Len(e)
        PROVE  e[j] \in 1 .. Popped /\ \A l \in 1 .. Len(applied[k]) : applied[k][l] < e[j]
    <3>1. PICK i \in Slots : AtNode(i, node) /\ batch[i].req = e[j]
      BY <2>1
    <3>2. Carries(i) /\ batch[i].node = node /\ ~LeafDone(node)
      BY <1>7, <3>1 DEF AtNode
    <3>3. NotBefore(e[j])
      BY <3>1, <3>2 DEF AllInTime, InTime
    <3>4. e[j] <= Popped /\ e[j] \in Request
      BY <1>7, <3>1, <3>2 DEF BatchFits
    <3>5. e[j] \in 1 .. Popped
      BY <3>4 DEF Request, Popped, Types
    <3>. QED
      BY <2>1, <3>3, <3>5 DEF NotBefore
  <2>4. Increasing(applied[k] \o e)
    BY <2>1, <2>2, <2>3, IncreasingBehind DEF KeyFits
  <2>5. ASSUME NEW j \in 1 .. Len(applied[k] \o e)
        PROVE  (applied[k] \o e)[j] \in 1 .. Popped /\ submitted[(applied[k] \o e)[j]] = k
    <3>1. CASE j \in 1 .. Len(applied[k])
      <4>1. (applied[k] \o e)[j] = applied[k][j]
        BY <2>2, <3>1
      <4>. QED
        BY <2>2, <3>1, <4>1 DEF KeyFits
    <3>2. CASE j \notin 1 .. Len(applied[k])
      <4>1. j - Len(applied[k]) \in 1 .. Len(e) /\ (applied[k] \o e)[j] = e[j - Len(applied[k])]
        BY <2>2, <3>2
      <4>. QED
        BY <2>1, <2>3, <4>1
    <3>. QED
      BY <3>1, <3>2
  <2>. QED
    BY <1>1, <1>9, <2>1, <2>4, <2>5 DEF KeyFits
<1>14. ASSUME NEW i \in Slots, Carries(i)' PROVE InTime(i)'
  <2>. DEFINE r == batch[i].req
              k == submitted[r]
  <2>1. Carries(i) /\ r \in Request /\ k \in Keys /\ r # NOP /\ InTime(i)
    BY <1>7, <1>14 DEF AllInTime
  <2>2. PICK e \in Seq(Nat) :
            /\ applied'[k] = applied[k] \o e
            /\ \A j \in 1 .. Len(e) :
                  /\ submitted[e[j]] = k
                  /\ \E h \in Slots : AtNode(h, node) /\ batch[h].req = e[j]
            /\ \A h \in Slots : AtNode(h, node) /\ submitted[batch[h].req] = k
                  => \E j \in 1 .. Len(e) : e[j] = batch[h].req
    BY <1>8, <2>1
  <2>3. CASE LeafDone(batch[i].node)
    BY <1>1, <1>6, <1>12, <2>1, <2>3 DEF InTime
  <2>4. CASE batch[i].node = node
    <3>1. PICK j \in 1 .. Len(e) : e[j] = r
      BY <2>1, <2>2, <2>4 DEF AtNode
    <3>2. applied[k] \in Seq(Nat)
      BY <2>1 DEF AppliedFits
    <3>3. Len(applied[k]) + j \in DOMAIN applied'[k] /\ applied'[k][Len(applied[k]) + j] = r
      BY <2>2, <3>1, <3>2
    <3>4. IsApplied(r)'
      BY <1>1, <1>9, <2>1, <3>3 DEF IsApplied, ToSet
    <3>. QED
      BY <1>1, <1>6, <2>4, <3>4 DEF InTime
  <2>5. CASE ~LeafDone(batch[i].node) /\ batch[i].node # node
    <3>1. \A j \in 1 .. Len(e) : FALSE
      <4>. SUFFICES ASSUME NEW j \in 1 .. Len(e) PROVE FALSE
        OBVIOUS
      <4>1. PICK h \in Slots : AtNode(h, node) /\ batch[h].req = e[j] /\ submitted[e[j]] = k
        BY <2>2
      <4>2. node = LeafOf[k]
        BY <1>2, <4>1 DEF AtNode, Found
      <4>3. batch[i].node = LeafOf[k]
        BY <1>2, <2>1 DEF Found
      <4>. QED
        BY <2>5, <4>2, <4>3
    <3>2. e = <<>> /\ applied[k] \in Seq(Nat)
      BY <2>1, <3>1 DEF AppliedFits
    <3>3. applied'[k] = applied[k]
      BY <2>2, <3>2
    <3>4. NotBefore(r)
      BY <2>1, <2>5 DEF InTime
    <3>5. NotBefore(r)'
      BY <1>1, <3>3, <3>4 DEF NotBefore
    <3>. QED
      BY <1>1, <1>6, <2>5, <3>5 DEF InTime
  <2>. QED
    BY <2>3, <2>4, <2>5
<1>15. QueueFits' /\ BatchFits'
  BY <1>1, <1>7, <1>9 DEF QueueFits, BatchFits
<1>16. SlotsFit'
  BY <1>1, <1>2 DEF SlotsFit, SlotFits, AtNode, Given
<1>17. SlotsOwn'
  BY <1>1, <1>3, NextSlotIsOwn DEF SlotsOwn
<1>18. NothingForgotten'
  <2>1. \A r \in 1 .. Popped : r \in Request
    BY DEF Popped, Request, Types
  <2>. QED
    BY <1>1, <1>2, <1>9, <1>12, <2>1 DEF NothingForgotten
<1>. QED
  BY <1>10, <1>13, <1>14, <1>15, <1>16, <1>17, <1>18 DEF AppliedFits, AllInTime

-----------------------------------------------------------------------------
(* Every step keeps the order.                                             *)
LEMMA OrderKept ==
    ASSUME Types, Meeting, FlagFits, FlagFits', LeavesFound, OrderParts, [Next]_vars,
           BeforeTerminate'
    PROVE  OrderParts'
<1>1. CASE UNCHANGED vars \/ Stopped
  BY <1>1, QuietSteps DEF Stopped
<1>2. CASE Client
  BY <1>2, QuietSteps, SubmitOrder DEF Client
<1>3. CASE BarrierA
  BY <1>3, QuietSteps
<1>4. CASE BarrierB
  BY <1>4, BarrierBOrder
<1>5. CASE Background
  BY <1>5, QuietSteps, CollectOrder, DistributeOrder DEF Background
<1>6. ASSUME NEW w \in Workers, Worker(w) PROVE OrderParts'
  BY <1>6, IdleSteps, SearchOrder, LeafOrder DEF Worker
<1>. QED
  BY <1>1, <1>2, <1>3, <1>4, <1>5, <1>6 DEF Next

(* The invariant of the order holds in every reachable state.              *)
THEOREM OrderInvariance == Spec => [](IInv /\ OrderInv)
<1>1. IInv /\ IInv' /\ OrderInv /\ [Next]_vars => OrderInv'
  BY OrderKept, BeforeTerminateOnce DEF IInv, OrderInv
<1>. QED
  BY <1>1, InitOrder, Invariance, PTL DEF Spec

(* What has been executed for a key is the beginning of what was submitted *)
(* for it.                                                                 *)
LEMMA PrefixApplied ==
    ASSUME Types, OrderParts, NEW k \in Keys
    PROVE  IsPrefix(applied[k], ElementsAt([r \in Request |-> r], {r \in Request : submitted[r] = k}))
<1>. USE DEF OrderParts
<1>. DEFINE seq == [r \in Request |-> r]
            mine == {r \in Request : submitted[r] = k}
            q == ElementsAt(seq, mine)
            p == applied[k]
<1>1. Len(submitted) \in Nat /\ Request = 1 .. Len(submitted)
  BY DEF Types, Request
<1>2. seq \in Seq(Nat) /\ Len(seq) = Len(submitted) /\ \A r \in Request : seq[r] = r
  BY <1>1
<1>3. p \in Seq(Nat) /\ KeyFits(k)
  BY DEF AppliedFits
<1>. HIDE DEF seq
<1>4. q \in Seq(Nat) /\ Picked(q, seq, mine, Len(seq))
  BY <1>2, ElementsAtPicks
<1>5. Increasing(q)
  <2>1. \A h, i \in mine \cap 1 .. Len(seq) : h < i => seq[h] < seq[i]
    BY <1>2
  <2>. QED
    BY <1>2, <2>1, ElementsIncrease
<1>. HIDE DEF q, p
<1>6. /\ \A j \in 1 .. Len(q) : q[j] \in mine
      /\ \A r \in mine : \E j \in 1 .. Len(q) : q[j] = r
  <2>1. mine \cap 1 .. Len(seq) = mine /\ \A r \in mine : seq[r] = r
    BY <1>1, <1>2
  <2>. HIDE DEF mine
  <2>2. /\ \A j \in 1 .. Len(q) : \E i \in mine : q[j] = seq[i]
        /\ \A i \in mine : \E j \in 1 .. Len(q) : q[j] = seq[i]
    BY <1>4, <2>1 DEF Picked
  <2>. QED
    BY <2>1, <2>2
<1>7. Popped <= Len(submitted) /\ Popped \in Nat
  BY DEF Popped, QueueFits, Types
<1>8. \A i \in 1 .. Len(p) : p[i] \in mine /\ p[i] <= Popped
  BY <1>1, <1>3, <1>7 DEF KeyFits, p
<1>9. ASSUME NEW i \in 1 .. Len(p), NEW j \in 1 .. Len(q), q[j] < p[i]
      PROVE  \E h \in 1 .. Len(p) : p[h] = q[j]
  <2>. DEFINE r == q[j]
  <2>1. r \in mine /\ r \in 1 .. Popped /\ r \in Nat
    BY <1>1, <1>6, <1>7, <1>8, <1>9
  <2>2. p = applied[submitted[r]]
    BY <2>1 DEF p
  <2>. HIDE DEF r
  <2>3. ~NotBefore(r)
    BY <1>1, <1>8, <1>9, <2>1, <2>2 DEF NotBefore, r
  <2>4. IsApplied(r)
    BY <2>1, <2>3, SizeAssumption DEF NothingForgotten, AllInTime, InTime, Carries
  <2>. QED
    BY <1>3, <2>2, <2>4 DEF IsApplied, ToSet, r, p
<1>10. p \in Seq(Nat) /\ Increasing(p)
  BY <1>3 DEF KeyFits, p
<1>11. IsPrefix(p, q)
  BY <1>4, <1>5, <1>6, <1>8, <1>9, <1>10, IncreasingPrefix
<1>. QED
  BY <1>11 DEF p, q, seq

(* Each request is executed once, those for one key in the order in which  *)
(* they were submitted, and none is lost between the queue, the batch, the *)
(* slots and the leaves.                                                   *)
THEOREM OnceInOrder == Spec => []ExecutedOnceInOrder
<1>1. ASSUME IInv, OrderInv PROVE AppliedInOrder
  BY <1>1, PrefixApplied DEF AppliedInOrder, IInv, OrderInv
<1>2. ASSUME IInv, OrderInv PROVE NothingLost
  <2>. SUFFICES ASSUME BeforeTerminate, NEW r \in Request, ~IsApplied(r), r \notin ToSet(queue)
                PROVE  /\ \E i \in Slots : batch[i].req = r
                       /\ Round \in {"COLLECT", "SEARCH", "DISTRIBUTE", "EXEC_LEAF"}
    BY DEF NothingLost
  <2>1. Types /\ FlagFits /\ QueueFits /\ NothingForgotten
    BY <1>1, <1>2 DEF IInv, OrderInv, OrderParts
  <2>2. Len(queue) \in Nat /\ Len(submitted) \in Nat /\ r \in 1 .. Len(submitted)
    BY <2>1 DEF Types, Request
  <2>3. r <= Popped
    <3>. SUFFICES ASSUME r > Popped PROVE FALSE
      BY <2>2 DEF Popped
    <3>1. r - Popped \in 1 .. Len(queue) /\ Popped + (r - Popped) = r
      BY <2>2 DEF Popped
    <3>2. queue[r - Popped] = r
      BY <2>1, <3>1 DEF QueueFits
    <3>. QED
      BY <2>1, <3>1, <3>2 DEF ToSet, Types
  <2>4. PICK i \in Slots : Fresh(i) /\ batch[i].req = r
    BY <2>1, <2>2, <2>3 DEF NothingForgotten
  <2>5. \A stage \in Stages : "SEARCH" \in Following[stage] => stage = "COLLECT"
    BY DEF Stages, Following
  <2>6. Round \in {"COLLECT", "SEARCH", "DISTRIBUTE", "EXEC_LEAF"}
    BY <2>1, <2>4, <2>5, BeforeIn DEF Fresh, Carrying, FlagFits, Round, Types
  <2>. QED
    BY <2>4, <2>6
<1>. QED
  BY <1>1, <1>2, OrderInvariance, PTL DEF ExecutedOnceInOrder

-----------------------------------------------------------------------------
(* TypeOK                                                                  *)

(* What Types leaves out.                                                  *)
MoreTypes ==
    /\ notify \in BOOLEAN
    /\ Len(queue) <= QueueSize /\ Len(submitted) <= MaxRequests
    /\ assign \in [Slots -> [node : Nodes \cup {Null}, reqs : Seq(Request \cup {UPDATE})]]
    /\ internalQ \in Seq(Nodes \cup {Null}) /\ releaseQ \subseteq Nodes \cup {Null}
    /\ client \in {"run", "drain", "release", "term", "store", "join", "done"}
    /\ applied \in [Keys -> Seq(Request)]

(* Elements at places of which all have some type.                         *)
LEMMA ElementsTyped ==
    ASSUME NEW T, NEW U, NEW seq \in Seq(T), NEW I, \A i \in I \cap 1 .. Len(seq) : seq[i] \in U
    PROVE  ElementsAt(seq, I) \in Seq(U)
<1>. DEFINE e == ElementsAt(seq, I)
<1>1. e \in Seq(T) /\ Picked(e, seq, I, Len(seq))
  BY ElementsAtPicks
<1>. HIDE DEF e
<1>2. \A j \in 1 .. Len(e) : e[j] \in U
  BY <1>1 DEF Picked
<1>3. e \in Seq(U)
  BY <1>1, <1>2
<1>. QED
  BY <1>3 DEF e

(* The tasks that an order of nodes is made into.                          *)
LEMMA AssignmentTyped ==
    ASSUME NEW S, IsFiniteSet(S), S \subseteq Nodes \cup {Null}, NEW T,
           NEW requests, \A n \in S : requests[n] \in Seq(T), NEW order \in SetToSeqs(S)
    PROVE  Assignment(order, requests) \in [Slots -> [node : Nodes \cup {Null}, reqs : Seq(T)]]
<1>1. order \in Seq(S) /\ Len(order) \in Nat
  BY OrderOfSet
<1>2. ASSUME NEW s \in Slots, s < Len(order) PROVE order[s + 1] \in S
  BY <1>1, <1>2 DEF Slots
<1>3. NoTask \in [node : Nodes \cup {Null}, reqs : Seq(T)]
  BY DEF NoTask
<1>. QED
  BY <1>2, <1>3 DEF Assignment, LeftOver

(* A pushed UPDATE is for a node.                                          *)
LEMMA PushTyped ==
    ASSUME MoreTypes, NEW n, MayPushUpdate(n)
    PROVE  internalQ' \in Seq(Nodes \cup {Null})
<1>1. ParentOf(n) \in Nodes \cup {Null}
  BY ShapeAssumption DEF ParentOf, Nodes
<1>. QED
  BY <1>1 DEF MoreTypes, MayPushUpdate

(* Every step keeps the other types, too.                                  *)
LEMMA MoreTypesKept ==
    ASSUME Types, MoreTypes, [Next]_vars
    PROVE  MoreTypes'
<1>. USE DEF MoreTypes
<1>1. CASE UNCHANGED vars \/ Stopped
  BY <1>1 DEF Stopped, vars, bgVars, workerVars, clientVars, Request
<1>2. CASE Client
  <2>1. CASE \E k \in Keys : Submit(k)
    <3>1. PICK k \in Keys : Submit(k)
      BY <2>1
    <3>2. /\ submitted' = Append(submitted, k) /\ queue' = Append(queue, Len(submitted'))
          /\ Len(submitted) < MaxRequests /\ Len(queue) < QueueSize
          /\ UNCHANGED <<notify, assign, internalQ, releaseQ, client, applied>>
      BY <3>1 DEF Submit, HasRoom
    <3>3. /\ Len(submitted') = Len(submitted) + 1 /\ Len(queue') = Len(queue) + 1
          /\ Len(submitted) \in Nat /\ Len(queue) \in Nat
      BY <3>2 DEF Types
    <3>4. Request \subseteq Request'
      BY <3>3 DEF Request
    <3>5. Len(queue') <= QueueSize /\ Len(submitted') <= MaxRequests
      BY <3>2, <3>3, SizeAssumption
    <3>6. applied' \in [Keys -> Seq(Request')]
      BY <3>2, <3>4
    <3>7. assign' \in [Slots -> [node : Nodes \cup {Null}, reqs : Seq(Request' \cup {UPDATE})]]
      <4>1. Seq(Request \cup {UPDATE}) \subseteq Seq(Request' \cup {UPDATE})
        BY <3>4
      <4>. QED
        BY <3>2, <4>1
    <3>. QED
      BY <3>2, <3>5, <3>6, <3>7
  <2>2. CASE WaitToExit \/ Exiting
    BY <2>2 DEF WaitToExit, Exiting, Drained, ClientRelease, SetTerminateLoad, SetTerminateStore,
                Join, ClientGoto, bgVars, workerVars, Request
  <2>. QED
    BY <1>2, <2>1, <2>2 DEF Client
<1>3. CASE BarrierA \/ BarrierB
  BY <1>3 DEF BarrierA, BarrierB, clientVars, Request
<1>4. CASE LoopCondition \/ SetStageLoad \/ SetStageStore \/ BgReadStage \/ CollectRelease
           \/ CollectDone \/ PassStage
  BY <1>4 DEF LoopCondition, SetStageLoad, SetStageStore, BgReadStage, CollectRelease, CollectDone,
              PassStage, clientVars, Request
<1>5. CASE CollectSlot
  <2>1. queue' = queue \/ (queue # <<>> /\ queue' = Tail(queue))
    BY <1>5 DEF CollectSlot, Pop, Pad
  <2>2. Len(queue') <= QueueSize
    BY <2>1, SizeAssumption DEF Types
  <2>. QED
    BY <1>5, <2>2 DEF CollectSlot, clientVars, Request
<1>6. CASE Distribute
  <2>1. PICK order \in SetToSeqs(LeavesOfBatch) :
            assign' = Assignment(order, [n \in ToSet(order) |-> RequestsAt(n)])
    BY <1>6 DEF Distribute, LeavesOfBatch
  <2>2. IsFiniteSet(LeavesOfBatch) /\ LeavesOfBatch \subseteq Nodes \cup {Null}
    BY LeavesOfBatchFit DEF LeavesOfBatch, Types
  <2>3. \A n \in LeavesOfBatch : n \in ToSet(order)
    BY <2>1, <2>2, OrderOfSet DEF ToSet
  <2>4. ASSUME NEW n PROVE RequestsAt(n) \in Seq(Request \cup {UPDATE})
    <3>. DEFINE seq == [i \in 1 .. BatchSize |-> batch[i - 1].req]
                here == {i \in 1 .. BatchSize : batch[i - 1].req # NOP /\ batch[i - 1].node = n}
    <3>1. \A i \in 1 .. BatchSize : batch[i - 1].req \in Request \cup {NOP}
      BY SizeAssumption DEF Types, Slots
    <3>2. seq \in Seq(Request \cup {NOP})
      <4>1. seq \in [1 .. BatchSize -> Request \cup {NOP}]
        BY <3>1
      <4>2. BatchSize \in Nat
        BY SizeAssumption
      <4>. HIDE DEF seq
      <4>. QED
        BY <4>1, <4>2
    <3>3. \A i \in here \cap 1 .. Len(seq) : seq[i] \in Request \cup {UPDATE}
      BY <3>1
    <3>. HIDE DEF seq, here
    <3>4. ElementsAt(seq, here) \in Seq(Request \cup {UPDATE})
      BY <3>2, <3>3, ElementsTyped
    <3>. QED
      BY <3>4 DEF RequestsAt, seq, here
  <2>5. assign' \in [Slots -> [node : Nodes \cup {Null}, reqs : Seq(Request \cup {UPDATE})]]
    BY <2>1, <2>2, <2>3, <2>4, AssignmentTyped
  <2>. QED
    BY <1>6, <2>5 DEF Distribute, clientVars, Request
<1>7. CASE Redistribute
  <2>. DEFINE S == ToSet(internalQ)
  <2>1. PICK order \in SetToSeqs(S) : assign' = Assignment(order, [n \in S |-> <<UPDATE>>])
    BY <1>7 DEF Redistribute
  <2>2. S \subseteq Nodes \cup {Null}
    BY DEF ToSet
  <2>3. IsFiniteSet(S)
    <3>1. internalQ \in Seq(S)
      BY DEF ToSet
    <3>2. \A n \in S : \E i \in 1 .. Len(internalQ) : internalQ[i] = n
      BY DEF ToSet
    <3>. QED
      BY <3>1, <3>2 DEF IsFiniteSet
  <2>4. <<UPDATE>> \in Seq(Request \cup {UPDATE})
    OBVIOUS
  <2>5. assign' \in [Slots -> [node : Nodes \cup {Null}, reqs : Seq(Request \cup {UPDATE})]]
    BY <2>1, <2>2, <2>3, <2>4, AssignmentTyped
  <2>. QED
    BY <1>7, <2>5 DEF Redistribute, clientVars, Request
<1>8. ASSUME NEW w \in Workers, Worker(w) PROVE MoreTypes'
  <2>1. UNCHANGED <<notify, queue, submitted, assign, client>> /\ Request' = Request
    BY <1>8 DEF Worker, WorkerReadStage, Search, LeafExecute, InternalExecute, MergeChild,
                ReadNextChild, SlotsDone, clientVars, Request
  <2>2. internalQ' \in Seq(Nodes \cup {Null})
    BY <1>8, PushTyped DEF Worker, WorkerReadStage, Search, LeafExecute, InternalExecute,
                MergeChild, ReadNextChild, SlotsDone
  <2>3. releaseQ' \subseteq Nodes \cup {Null}
    BY <1>8 DEF Worker, WorkerReadStage, Search, LeafExecute, InternalExecute, MergeChild,
                ReadNextChild, SlotsDone
  <2>4. applied' \in [Keys -> Seq(Request)]
    <3>1. CASE UNCHANGED applied
      BY <3>1
    <3>2. CASE LeafExecute(w) /\ assign[slot[w]].reqs # <<>>
      <4>. DEFINE reqs == assign[slot[w]].reqs
                  part(k) == {i \in DOMAIN reqs : reqs[i] # UPDATE /\ submitted[reqs[i]] = k}
      <4>1. reqs \in Seq(Request \cup {UPDATE})
        BY <3>2 DEF LeafExecute
      <4>2. applied' = [k \in Keys |-> applied[k] \o ElementsAt(reqs, part(k))]
        BY <3>2 DEF LeafExecute
      <4>3. ASSUME NEW k \in Keys PROVE ElementsAt(reqs, part(k)) \in Seq(Request)
        <5>1. \A i \in part(k) \cap 1 .. Len(reqs) : reqs[i] \in Request
          BY <4>1
        <5>. HIDE DEF reqs, part
        <5>. QED
          BY <4>1, <5>1, ElementsTyped
      <4>. HIDE DEF reqs, part
      <4>4. \A k \in Keys : applied[k] \o ElementsAt(reqs, part(k)) \in Seq(Request)
        BY <4>3
      <4>. QED
        BY <4>2, <4>4
    <3>. QED
      BY <1>8, <3>1, <3>2 DEF Worker, WorkerReadStage, Search, LeafExecute, InternalExecute,
                MergeChild, ReadNextChild, SlotsDone
  <2>. QED
    BY <2>1, <2>2, <2>3, <2>4
<1>. QED
  BY <1>1, <1>2, <1>3, <1>4, <1>5, <1>6, <1>7, <1>8 DEF Next, Background

(* The queue stays within the ring buffer and every batch slot, task and   *)
(* queued node is what its place is meant for.                             *)
THEOREM TypesFit == Spec => []TypeOK
<1>1. Init => MoreTypes
  <2>. SUFFICES ASSUME Init PROVE MoreTypes
    OBVIOUS
  <2>1. Len(queue) = 0 /\ Len(submitted) = 0
    BY DEF Init
  <2>2. NoTask \in [node : Nodes \cup {Null}, reqs : Seq(Request \cup {UPDATE})]
    BY DEF NoTask
  <2>3. Len(queue) <= QueueSize /\ Len(submitted) <= MaxRequests
    BY <2>1, SizeAssumption
  <2>4. notify \in BOOLEAN
    BY DEF Init
  <2>. QED
    BY <2>2, <2>3, <2>4 DEF Init, MoreTypes
<1>2. IInv /\ MoreTypes /\ [Next]_vars => MoreTypes'
  BY MoreTypesKept DEF IInv
<1>3. IInv /\ MoreTypes => TypeOK
  <2>. SUFFICES ASSUME IInv, MoreTypes PROVE TypeOK
    OBVIOUS
  <2>1. Types /\ notify \in BOOLEAN
    BY DEF IInv, MoreTypes
  <2>. QED
    BY <2>1 DEF Types, MoreTypes, TypeOK, BgLabels, WorkerLabels
<1>. QED
  BY <1>1, <1>2, <1>3, Invariance, PTL DEF Spec
=============================================================================
