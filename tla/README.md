# TLA+ models and proofs of the parallel B+ trees

The repository holds four implementations of one interface (`ITree`: insert,
remove, get) as a B+ tree — sequential, coarse-locked, with a latch per node
("fine"), and latch-free in batches after the PALM algorithm ("free") — and a
fifth that spreads keys over MPI processes.  This directory models the trees, the
locks and barriers below them, and the test bench that runs them against each
other.  Paths below are relative to `src/src/includes/` unless they begin with
`docs/`.

## 1. Inventory

| Component | State | Operations | Talks to | Hard because | Correct if |
|---|---|---|---|---|---|
| Spin lock and barrier, `utility/Sync.h` | two ticket counters; `remain`, `generation` | lock, unlock, wait | used by the PALM scheduler and `ThreadEngine` | spinning threads, counters that wrap, a fast thread in the next round while slow ones are in the last | excludes; nobody leaves a round early, everybody leaves it |
| PALM scheduler, `freeTree/scheduler.hpp`, `background.hpp`, `worker.hpp` | request ring buffer, batch, slots, update queue, release queue, `flag` (stage + terminate bit) | submit_request, waitToExit; stages COLLECT, SEARCH, DISTRIBUTE, EXEC_LEAF, REDISTRIBUTE, EXEC_INTERNAL, EXEC_ROOT | client, one background thread, workers; barriers A and B | plain `int` flag written by two threads; batches padded on timeout; termination | all agree on the stage; each request executed once and in order; every repair made before the next batch |
| PALM tree nodes, `worker.hpp`, `background.hpp` | heap of linked nodes | leaf_execute, internal_execute (borrow, merge, big splits), root_execute | called by the stages | a leaf may be several times too large, or empty; the loop walks children it splits and merges | no key lost or misplaced; pointers, lists, depth and separators fit |
| SIMD key search and packing, `utility/SIMDOptimizer.h` | — | getGtKeyIdx, processAssignments | all trees | blocks, masks, a rest that does not fill a block | equals the loop key by key |
| Sequential tree, `seqTree/*` | heap of nodes, `size_` | insert, remove, get | inside the coarse tree; second tree of the test bench | long call sequences; keys inserted several times | behaves as a bag of keys; `debug_checkIsValid` |
| Coarse tree, `coarseTree/*` | a mutex and a sequential tree | the same under the mutex | client threads | several calls in a row are not atomic | the sequential tree, call by call |
| Fine tree, `fineTree/*` | heap of latched nodes, `size_` | insert, remove, get | client threads, through latches | latch coupling with early release; siblings changed without their latch | linearizable; `debug_checkIsValid` at rest; nobody stuck |
| Distributed tree, `distriTree/*` | a local tree (`FineLockBPlusTree`, `distriTree.h:12`), `terminateCounter`, message channels | insert, remove, get, destructor, background thread | MPI, three tags | remove is not awaited; results in any order; termination by counting; several trees in a row | get combines its own results; no request left; all destructors return |
| Thread engine, `engine.hpp` `ThreadEngine` | test case, barriers A and B, two trees | workers, sequential thread, checker | a concurrent tree, the sequential tree | workers run apart between BARRIERs; get and insert are two calls | at each BARRIER both trees hold the same keys and nobody changes them |
| Distributed engine, `engine.hpp` `DistributeEngine` | — | builds, uses, destroys trees in a loop | distributed tree | trees of different generations overlap | see distributed tree |
| `SeqEngine`, `BenchmarkEngine`, runners, timer, test generators | files, clock | drive and measure | all trees | — | — |
| `papers/palmtree.h` | third-party code, not part of the program | | | | |

## 2. Modules

| Module | Models | Notes |
|---|---|---|
| `Rendezvous` | abstract: a reusable barrier | no lock, no counter |
| `SpinBarrier` | `SpinLock` and `Barrier::wait` | one action per access to a shared atomic; refines `Rendezvous` |
| `PalmScheduler`, `MCPalmScheduler` | the threads of the PALM tree | barrier as `Rendezvous` promises it; the tree only as key → leaf and node → parent |
| `KeySearch` | the search in one node, by SIMD blocks and key by key | used by every tree |
| `NodeHeap` | nodes and the moves on two neighbours, or a node and its parent | shared by the trees |
| `PalmTree`, `MCPalmTree` | what the stages do to the nodes | the threads are left out: `PalmScheduler` shows stages do not overlap |
| `Mending` | split, borrow and merge of `seqTree.hpp` | the fine tree's code is a copy of them |
| `KeyBag` | abstract: a bag of keys | what the sequential tree promises |
| `SeqTree`, `MCSeqTree` | the sequential tree | refines `KeyBag` |
| `FineTree`, `MCFineTree` | threads with latches on the same nodes | one latch per step |
| `ThreadEngine`, `MCThreadEngine` | the test bench of the concurrent trees | barriers are instances of `Rendezvous`; the tree is the coarse one |
| `DistriTree`, `MCDistriTree` | foreground and background threads of the ranks over MPI channels | MPI is external; the local tree is a bag of keys |
| `SpinBarrierProofs`, `PalmSchedulerProofs`, `PalmTreeProofs`, `FineTreeProofs`, `ThreadEngineProofs`, `DistriTreeProofs` | theorems about the module of that name | TLAPS, section 5 |
| `NodeHeapProofs`, `NeighbourProofs` | theorems about the moves of `NodeHeap`: those of an insert, with `KeySearch` and `Split` of `Mending`; and splits, merges and borrows among neighbours, links included | TLAPS, section 5 |

How they fit together:

* `SpinBarrier` is shown to implement `Rendezvous`.  `ThreadEngine` takes its two
  barriers as instances of `Rendezvous`.  `PalmScheduler` goes one step further: its
  actions `BarrierA`, `BarrierB` let all threads go at once, and the order in which
  they really leave is the order of their next steps.
* `PalmScheduler` shows that stages do not overlap, that in EXEC_INTERNAL all slots
  are on one level (`OneLevelAtATime`) and that rootPtr is never a worker's
  (`RootIsForBackground`).  `PalmTree` takes stages as a sequence on that ground and
  executes the slots of a stage one after the other in any order.
* `NodeHeapProofs` shows that `BlockSearch` is `Scan`.  `NodeHeap` and with it
  `PalmTree` and `FineTree` search by blocks; `SeqTree` scans, as its code does.
* `SeqTree` implements `KeyBag`.  A call of the coarse tree is one critical section
  around a call of the sequential tree, so `ThreadEngine` takes each as one step on
  a bag of keys.

### State and actions against the code

*SpinBarrier.*  `nextTicket`, `nowServing`, `remain`, `generation` are the
members; `myTicket` and `currGen` the locals of `lock` and `wait`; `pc` the next
statement.  `Lock` draws a ticket, `Acquire` ends the spin, `LoadGeneration`,
`Decrement`, `NewGeneration`, `ResetRemain`, `Unlock`, `Await` are the
statements of `wait`.  Integers have their widths: a ticket is an `int`, a
generation an `unsigned long`, and `curr_gen` is an `int` that holds what fits of
it and is compared with sign extension (`ToInt`, `ToLong`).

*PalmScheduler.*  The variables are the scheduler's members and the locals of
`background_loop` that live across a barrier.  `flag |= TERMINATE_FLAG` and
`setStage` are a load and a store each (`SetTerminateLoad/Store`,
`SetStageLoad/Store`), since `flag` is a plain `int` that three kinds of threads
access.  The loop condition is read before barrier A and `setStage` follows it,
as written.  `Pop` and `Pad` are two ways to fill a slot in COLLECT; the timer is
the choice between them.  Whether a node needs repair, and whether a merge
releases a node, is a choice (`MayPushUpdate`, `MergeChild`).

*KeySearch.*  `Blocks` are the iterations of the vector loop, which ends short of
the last keys also when they would fill a block; `Mask` is what the comparison of a
block gives; `Rest` is where the loop over the remaining keys begins.

*NodeHeap, PalmTree.*  A node is a record with the fields of `FreeNode`.
Borrowing is dealing out the joint keys of two neighbours again (`Deal`):
`tryBorrow` moves one key at a time until one side is half full, and the last of
these moves decides.  `SplitAt` is both big splits, and `BigSplit` computes how
much goes over.  `Repair` is the loop of `internal_execute` with its hand-made
iteration count, including the `continue` that spends an iteration without going
on to the next child.  The nodes that it releases leave the heap when it goes on
(`GoOn`), earlier than the code deletes them, so that a later use of one would show.
`LeafExecute`, `InternalExecute`, `ExecRoot`,
`Redistribute` are the stages; `Collect` is COLLECT, SEARCH and DISTRIBUTE, with
`RequestsFor` what DISTRIBUTE gives one leaf.

*Mending, SeqTree.*  `SplitOnce` is `splitNode` with its rule that the last child is
split to the left; `BorrowOnce` is `removeBorrow` with the fall-through to
`removeMerge` (`MergeWithSibling`).  Both functions end by calling themselves for the
parent, if at all: `Split` and `Borrow` are these calls as a loop, which has come to
the root when it has gone up as often as there are nodes.  `Insert`, `Get`, `RemoveOne`/`RemoveNone` are the calls, `answer` what they
return.  Nodes taken out of the tree are deleted (`Freed`).  `doubled` is a ghost
for keys that are in the tree several times.

*FineTree.*  `Start` is the call, `Latch` is `retrieveLock` and then
`releasePrev` where the code calls it for the node just reached, `Descend` reads
the index and the child pointer.  Between `Latch` and `Descend`, and between
`Descend` and the next `Latch`, others run.  `GetAtLeaf`, `InsertAtLeaf`,
`RemoveNothing`, `RemoveAtLeaf` are what is done at the leaf, with the whole
cascade of splits, borrows or merges and `releaseAll`, in one step.  The client
follows `ThreadEngine::runTestCase`: a key is written by one thread at a time and
inserted only when it is not there.  `contents` and `seen` are ghosts.

*ThreadEngine.*  `idx` is the loop variable of each thread, `pc` where it is in
the entry.  A worker runs the entries whose `value % threadNum` is its number
(`IsMine`) and skips the others; the sequential thread runs all.  INSERT is a
`get` and then, if the key was not there, an `insert` (`InsertGet`, `Insert`).
At a BARRIER everybody passes barrierA, the checker then reads both trees
(`ReadConcurrent`, `ReadSequential`), and everybody passes barrierB.  `replay` is a
ghost: the keys that should be there after each entry.

*DistriTree.*  `request`, `result` and `acks` are the messages under the three
tags, first in first out between two ranks.  A remove or get sends to all ranks
(`RemoveSend`, `GetSend`), then works on the local tree, then a get receives the
results rank by rank.  `ServeGet`, `ServeRemove`, `ServeStop` are the cases of
`MPI_background`; `StopSend`, `AckReceive`, `Join` the destructor; `Construct` the
next tree of the engine's loop.  A local tree is a bag, as a key may be inserted
several times (`distriTree.hpp:120`; `DistributeEngine` inserts without asking): a
remove takes one copy there and one in each tree its REMOVE reaches (`TakeCopy`).

The `gen` in a message, `expected`, `held`, `hope` and `mixed` are ghosts.  What a
remove of `r` does elsewhere depends on when it arrives: a copy that was inserted
meanwhile may be taken in place of an older one, or one be taken where there was none
at the call.  `expected[r][d]` is what the tree of `d` would hold had the removes of
`r` been executed there at their calls, all other calls as they happen.
`hope[r]` says that during the get of `r` some tree has
held the key by that account; `ReadsItsRemoves` is that a get finds nothing else,
`RemovesReachEveryTree` that a tree ends with no copy beyond it.
`mixed` becomes true when a background thread takes a request
that was sent to another tree than its own, which finding 4 makes possible: what a
get returns is right all the same (`GetMissesNothing`, `ResultsAreForThisGet` and
`ReadsItsRemoves` do not mention `mixed`), while stopping and the reach of removes
are only promised without it.

## 3. Runs

| Run | Instance | Shows |
|---|---|---|
| `SpinBarrier` | 3 threads, `IntMax` 3 (tickets of 3 bits), 4 rounds | the lock excludes although tickets wrap (8 values, 12 drawn), and `wait` implements `Rendezvous` with its liveness |
| `PalmScheduler` | 2 workers, batch 2, ring buffer 1, 2 requests, 2 leaves with parents of their own and a root above (3 levels) | the invariants of the stages; every request executed once and in order; `EventuallyApplied` |
| `PalmTree` | orders 3 and 5, keys 1..6, batches of 2 | contents, search, links and depth of the tree after every step of every stage |
| `SeqTree` | orders 3, 4, 5 with keys 1..8 once each; order 3 with keys 1..4 up to twice and 1..3 up to three times | the tree is valid after each call and behaves as a bag of keys |
| `FineTree` | see below | linearizability, validity at rest, nobody stuck, inserts change only what they have latched |
| `ThreadEngine` | 2 workers, sequential thread and checker; every test case of at most 3 entries on 2 keys, and a last BARRIER | both trees follow the test case, `compare` succeeds at every BARRIER and sees trees at rest, all threads return |
| `DistriTree` | 2 ranks, 2 trees in a row; on each tree up to 4 calls of one rank and 2 of the other (`CallsOfTwo`) | what a get returns, also with several copies of a key in a tree; order of removes and gets, nothing left at a stop, gets and destructors return |
| `PalmTreeOneChild` | order 3, keys 1..8, a script of ten batches (`MCPalmTree`) | finding 1 |
| `PalmSchedulerExit` | 2 workers, batch 1, 1 request | finding 2 |
| `PalmTreeCleared` | order 3, keys 1..5 | finding 3 |
| `DistriTreeGenerations` | 2 ranks, 2 trees in a row | finding 4 |
| `FineTreeMissed` | order 3, 2 threads, removes next to gets, keys 1..3 | finding 5 |

`DistriTree` and `DistriTreeGenerations` do not check for deadlock: because of
finding 4 the ranks may hang.

**Why the bounds are enough.**  Three threads are the least for which one thread
can be a round ahead while another is still leaving and a third holds the lock.
Two workers share the slots `i`, `i + 2`, …, so with a batch of two each has one
and either can be ahead of the other; two requests for one key meet in one batch
or in successive ones; the ring buffer of one is full with the second request.
Three levels are the least in which EXEC_INTERNAL is followed by EXEC_INTERNAL
and then by EXEC_ROOT.  Six keys at order 3 make a tree of three levels that is
taken down to nothing again; order 5 is the least at which several keys are moved
in one borrow and splits are uneven.  A SIMD register holds 4 or 8 keys, which no
node of these orders fills; it holds two in the runs (`SimdWidth`), so that nodes
have a block and a rest.  Eight keys take the sequential tree to three levels at
order 3 and to full and underfull inner nodes at 4 and 5; three copies of a key at
order 3 fill a leaf and its neighbour with one key.  For `FineTree`, the loads
(`TameLoads`) are: one operation at a time with seven keys at order 3 and eight at
order 5 (borrows and merges of inner nodes, a level won and lost); two and three
threads that insert and get, up to three levels; and three threads that insert and
remove in trees of two levels (four keys cannot make a third at order 3).  A test
case of three entries with two keys has room for a BARRIER between two operations
of one worker while the other worker has nothing to do, for two BARRIERs in a row,
and for INSERT, REMOVE, INSERT of one key; what is longer is covered by the proof.
Two trees in a row of two ranks are the least in which a STOP, REMOVE or GET of
one tree reaches another.  Four calls are the least in
which a rank inserts a key twice, removes it once and asks for it, while the other's
REMOVEs, two at most, come before, between or after.  Its first call may be for a second
key; more calls with that one would only multiply the states, as keys do not affect one
another in this protocol.  Nodes are compared up to their names (`UpToNames`) and
threads of `FineTree` up to a permutation.

**Fairness.**  Threads inside `wait()` only spin and are scheduled again
(`WF(Inside)`); calling `wait()` is the caller's business.  In `PalmScheduler` the
background thread, the workers and a client inside `waitToExit` never block, the
ring buffer and the queues being lock-free; the client need not submit or stop.
In `ThreadEngine` threads run and a barrier that all have reached lets them go,
which is what `SpinBarrier` is shown to do; the coarse tree's mutex is held for a
bounded time.  In `DistriTree` threads run and MPI delivers; which calls a rank
makes, and whether it stops, is free.  `std::shared_mutex` promises no thread the
latch, so `FineTree` states no fairness: that threads do not all wait for one
another is the invariant `SomebodyRuns`.

## 4. Where the code does not do what it says

1. After a borrow that was enough, `internal_execute` goes on with `continue`
   (`worker.hpp:197`): the iteration is spent, the loop stays at the same child, and
   the last child of the node is not visited.  It may stay underfull, down to an inner
   node with no key and one child.  When that one is to be repaired later, the
   assertion of `worker.hpp:157` fails.  `InternalExecute` has the assertion as its
   guard (in a build without `DEBUG` the node's only child would be merged with a
   cousin or with nothing); the invariants of `PalmTree` are about what comes before.
2. `setStage` between whose load and store `setTerminate` stores puts back a flag
   without the terminate bit: `waitToExit` never returns.  In the same place a batch
   can be dropped: `waitToExit` only waits for `request_queue` to be empty, and the
   loop of `background_loop` may end with a batch just collected.
3. `root_execute` clears rootPtr whenever the node below it has no key; an internal
   node without a key still has a child with keys.  They are lost.
4. `terminateCounter` counts STOP messages, not processes: a process that has gone
   on to its next tree and destroys that, too, is counted twice.
5. `removeBorrow` and `removeMerge` change the sibling of a node without its latch.
   A get that has latched the sibling then misses a key that was there all the time.
   The same happens between writers from three levels on: with loads of two
   threads, `{"INSERT", "REMOVE"}`, keys 1..5 at order 3, `ContentsKept` fails
   because an insert holds an inner node that a remove merges away, and puts its key
   into the wrong leaf.  This is why the `FineTree` run keeps removes away from gets,
   and writers with removes in two levels: what passes there is what the latches do
   protect.

The invariants of `PalmScheduler` are stated for the time before `setTerminate`'s
store (`BeforeTerminate`) or before `release_nodes` (`BeforeRelease`) because of 2
and the first point below; `PalmTree`'s ghost `contents` follows `root_execute` when
it clears the tree because of 3, so that the other properties are checked beyond it.

Smaller observations, without a run of their own:

* `waitToExit` calls `release_nodes` on the client thread while a worker may be in
  `internal_execute`, between `merge` and the read of `child->next`.
* `Barrier::wait` keeps the generation, an `unsigned long`, in an `int` (`Sync.h:40`).
  In the round after 2^31 of them `curr_gen` is negative, extended with its sign it
  never equals `generation`, and all threads but the last leave at once.  The run
  `SpinBarrier` ends with the last round an `int` can number (`MaxGeneration = IntMax +
  1`), and so does what is proved (`RoundsFitInt`): nothing here promises more.
* `debug_checkChildCnt` asks a leaf that is the root for half of its keys, too
  (`seqNode.hpp:87`): at order 5 it rejects a valid tree with one key.  And
  `debug_checkOrdering` rejects a tree in which copies of a key are on both sides of
  a separator.  `IsValid` allows both.
* A key that is inserted while it is in the tree may be missed by get and remove
  until all its copies are gone, since copies can end up on both sides of a
  separator and the search goes to one.  `KeyBag` says so (`doubtful`).  Only
  `ThreadEngine` asks before it inserts; `SeqEngine`, `BenchmarkEngine` and
  `DistributeEngine` (`engine.hpp:584`) insert whatever is there, and
  `distriTree.hpp:120` and `docs/index.md:206` allow several copies.
* In the fine tree a child merged into its sibling by a remove is deleted only if
  the thread holds its latch (`popAndDelete`) and leaks otherwise.
* The comment at `tree.h:81` speaks of keys "greater than or equal"; the code
  returns the index of the first key that is strictly greater.
* A negative key would be run by no worker (`value % threadNum`,
  `engine.hpp:209`).  The generator makes none, and `Keys \subseteq Nat` here.
* `MPI_Isend` is given buffers on the stack of functions that return before the
  send is known to be complete; `DistriTree` assumes MPI has copied them.

## 5. Proofs

All are proved for every value of the constants allowed by the `ASSUME`s of the
module.

**SpinBarrierProofs**, for every finite set of threads and all widths with fewer
threads than tickets and a `long` wider than an `int`, and from `RoundsFitInt` (at
most `IntMax + 1` rounds; section 4 says what happens in the next one):
`TypeCorrect` (`TypeOK`), `LockExcludes` (`MutualExclusion`), `RemainIsCount`
(`RemainCounts`) and `BarrierImplementsRendezvous` (`ImplementsRendezvousSafely`):
`wait` refines the safety half of `Rendezvous`, with `arrived` and `leaving`
computed from the threads' program counters.

`MutualExclusion` is not inductive: two threads may draw one ticket unless the
outstanding tickets are distinct.  `TicketsInv` says that the threads in the lock
hold exactly the tickets from `nowServing` on, counted round the circle, one each;
as there are fewer threads than tickets a new one is not among them, although the
counter wraps.  `RemainCounts` is `N` less the threads that have arrived, except in
the window between `generation++` and the reset; `GenerationIsCurrent` says that the
generation in `curr_gen` is still the current one while its thread is in the lock,
from which follows that a waiting thread is let go by its own round only.
`RoundInBound` keeps the current generation below the bound while anybody is
inside, so that it fits the `int`.  The refinement is proved step by step: only
`Decrement` (arrive), `NewGeneration` (trip) and `Await` or the last `Unlock`
(leave) change the mapped state, the others stutter.

**PalmSchedulerProofs**, for any number of workers, size of batch and ring buffer,
keys, and tree whose leaves have one height: `StagesAgree` (`StageAgreement`),
`WorkersLeave` (`NoWorkerLeftBehind`), `RepairsComeFirst` (`NoUpdateLeftBehind`),
`RootIsLeftAlone` (`RootIsForBackground`), `LevelByLevel` (`OneLevelAtATime`),
`ReleasedInTime` (`BackgroundDeletesSafely`).

The invariant has two halves.  `Meeting` says where the barriers put the workers:
all at A while the background thread is between B and A, none there while it is
between A and B.  It does not depend on the flag and holds to the end.  The other
half holds until the terminate bit is stored.  `FlagFits` follows the stage from the
background thread's decision through `setStage`'s store and barrier A to the
workers, and `Following` lists which stage comes after which.  `UpdatesFit`
says in which stages an UPDATE can be queued; `LeavesFound` that SEARCH has given
every request a leaf by DISTRIBUTE, worker by worker; and `TasksFit` that slots hold
nodes of one level and queued UPDATEs nodes of the level above, so that a level is
finished before the next begins.  A merged node is read again only by the worker
that released it, in EXEC_INTERNAL; the background thread deletes in COLLECT only.

Its second half, from `ElementsAt` on: `OnceInOrder` (`ExecutedOnceInOrder`) and `TypesFit` (`TypeOK`, with the bounds on ring buffer and
batch).  Requests are numbered as they are submitted.  `QueueFits` says that the ring
buffer holds the last of them in order, `BatchFits` that the batch holds the next
ones before those, in order, each in one place, padding aside.  `SlotsFit`: after
DISTRIBUTE each leaf of the batch has one slot, with the places of its requests in
order; `SlotsOwn`: the slots a worker visits are its own, `NumWorker` apart, so no
slot is executed twice.  A request is applied with its slot (`AppliedFits`,
`NothingForgotten`): until then only earlier requests of its key have been
(`AllInTime`), as all requests of a key lie in the same leaf's slot.  What is applied
for a key is thus always the places of that key in `submitted` up to some point
(`IncreasingPrefix`).  The elements at a set of places (`ElementsAt` in
`PalmScheduler`) are a recursive function; what it gives is proved by taking the
least counterexample (`EveryNumber`, from `WFMin`), in place of the induction
theorems, which take an operator.

**ThreadEngineProofs**, for any number of workers, keys and test cases:
`TypeCorrect` (`TypeOK`), `ThreadsFollowTheCase` (`TreesFollowTheCase`),
`CompareNeverThrows` (`CompareSucceeds`), `ComparedTreesStay`
(`NothingMovesDuringCompare`).  The first half of the invariant is about the
barriers: `Together` (threads between the barriers are at the same entry) and
`SameRound` (no BARRIER lies between the positions of two threads).  The second is
about the keys: each key is written by one worker and the sequential thread, each
tree holds what `replay` says at its writer's position, and what `get` has answered
to an INSERT still holds at its insert.  When the checker compares, all threads
are at one entry, so both trees hold what `replay` says there.

**DistriTreeProofs**, for any number of ranks, keys, calls and trees:
`TypeCorrect` (`TypeOK`), `GetsMissNothing` (`GetMissesNothing`), `ResultsBelong`
(`ResultsAreForThisGet`), `RemovesAreRead` (`ReadsItsRemoves`).  `GetsFit` says that
for each rank whose result is awaited a GET is the last of the messages to it, or
its result is on its way, or neither, never both; for others there is none.
`RemovesPending` counts copies: the tree of `d` has at most as many of a key as
`expected[r][d]` and the REMOVEs of `r` for it that are on their way to `d` (`Owed`).
It is inductive because every other change (an insert, a remove of some third rank)
does the same to both sides, save that a side that is empty stays so, and because a
REMOVE taken from a tree without a copy leaves `0` on the left.  When a GET is taken it
was the only message left, so nothing is owed and what it finds `expected` has, too
(`FoundHoped`).  `HeldIsFound` follows a key that is held all the time
through the answer and its receipt.  None of this depends on which tree a message
was meant for, so it holds across finding 4.

Its second half is about the end of a tree: `NothingIsLeft` (`NothingLeftAtStop`),
`RemovesArrive` (`RemovesReachEveryTree`) and `CountsEveryProcess` (finding 4 cannot happen unless a request strays into the tree
after or before its own, `mixed`).  Channels keep their order, so the requests in a
queue are ordered by tree and a STOP is the last of its tree (`QueuesOrdered`).  As
the destructor joins the background thread, nobody builds the next tree before all
ranks have begun to stop this one (`StopsUnderWay`).  A STOP that has been sent is on
its way or has been counted together with all that was sent before it; `Taken[r]` is
the set of ranks for which the latter holds.  The counter of `r` is the number of
ranks in `Taken[r]` (`StopsCounted`), hence at exit they are all in it and no request
for this tree is left.  Then nothing is owed, and `RemovesPending` says that the tree
has no copy beyond `expected`.

**NodeHeapProofs**, about the search in a node and the moves by which a tree grows, for trees of any size and
shape, any order from 3 on and any keys.  `IsTree(h, range, height)` is what the
other facts are said of: `range[n]` are the keys whose search comes through node
`n`, `height[n]` is how far the leaves below are from it.  The range of a child is
the part of its parent's range that `GtKeyIdx` sends to it (`ChildFits`), keys ascend,
children know their place, every node has a parent, leaves have height 0.  Nothing
is said of the order of the keys across nodes: that follows.  `HoldsKeys(h, range, K)`
says that each leaf has just the keys of `K` in its range.  `SplitKeepsTree` shows for
one `SplitAt`, to the left or to the right, in a leaf or above, that with the range of
the split node cut at the separator it is a tree again; `NewRootKeepsTree`,
`FirstLeafKeepsTree` and `LeafTakesKey` do so for the other moves.  `SplitTurn` puts
them together to one turn of the loop, and `SplitKeeps` to all of `Split`, which ends
because each turn is one level higher.  `OnlyTouches` says what none of this may
change: the keys, children and range of nodes outside a set `L`, and the ranges of
their children.  `InsertKeeps` is the result: the whole of `insert` at its leaf leaves
a tree with the new key and touches only `L`, if `L` holds the leaf and, with each node
that has no room for one more key, the node above it (`Guarded`).  `TreeHolds`: in
such a tree `InOrder` lists the keys once each, in ascending order, and `FindLeaf`
finds each.

What `IsTree` does not say is said by `Neat`: `Woven` for `next` and `prev`, and `Wide`
for the number of keys of the nodes above the leaves, which one node may exceed while
its split is due.  `Woven` is inductive because it gives the next node of a child by
the next node of its parent (`NextChild`): a split between two parents links cousins,
and what it must write there depends on the level above only.  `SplitKeepsWoven`,
`SplitKeepsWide` and `NewRootKeepsWoven` keep them move by move, and `InsertKeeps` ends
in a neat tree.  `TreeIsValid`: a neat tree passes the checks of `debug_checkIsValid`,
with the leaves on one level (`HeightsIs`), `Below` among the nodes of the heap
(`BelowIs`) and as many keys as it holds (`AsManyKeys`).

It begins with the search in one node, for every register width, node and key: `BlockSearchIsScan`
(the two searches return the same index, also in a node that is not sorted) and
`BlockSearchSplits` (in a sorted node the index splits the keys into those up to the
key and those above).  Every index belongs to one block or to the rest (`BlockOf`,
`RestBegins`).  If no block has a key above, the scan may begin at the rest
(`NoBlockHit`); otherwise the first key above is in the first block that has one, as
blocks are in order (`FirstBlockHit`).

**FineTreeProofs**, for any number of threads, keys and any order from 3 on, for
loads without REMOVE (`NoRemoves`: finding 5 is what happens with them):
`KeepsContents` (`ContentsKept`), `TruthIsTold` (`AnswersFit`), `NoDeadlock`
(`SomebodyRuns`), `ValidWhenIdle` (`ValidAtRest`), `TypesFit` (`TypeOK`) and `InsertsAreLatched`
(`InsertsStayLatched`).  The invariant says that the heap is a neat tree with the keys of `contents` for some `range`
and `height`, and for each operation (`OnItsWay`) that its key is in the range of the
node it has come to or waits for, that it holds the parent of a node it waits for,
and that an insert's latches are `Guarded`, which is what `Safe` is for.  `Alone` says
that nodes latched by an insert are latched by nobody else.  So an insert touches no
node that others hold, and the nodes they wait for are children of such nodes: their
ranges stay (`GoesOn`), and no insert reaches a leaf that has become the wrong one.
Nobody holds a node lower than the one it waits for; therefore the operation that
waits for the lowest node waits for one that does not wait.  `size` counts the keys that
are there or being inserted (`Counted`), which are the same at rest.

**NeighbourProofs**, about what is done to two neighbours below one parent, and about
splits once more, now with all the links: `SplitIntact`, `MergeIntact`, `DealIntact`.
`Intact(h, range, height, K)` is a tree that holds the keys `K`, `Woven` from left to
right and `Tied` back (whatever `prev` leads to leads here), in which the range
of no node is empty (`Roomy`).  A merge gives the one that stays both ranges, and a borrow is
a merge and a split at another place (`DealRange`), which is how `Deal` is treated: what
it computes from the joint keys is the same.  The hard part is the merge to the right,
in which the node that goes is the one its left neighbour, perhaps a cousin, points
to, and the children of both get a new parent while those of the level keep their
order (`MergeKeepsWoven`).  `Roomy` is needed to know that the separator that a merge brings down is
less than the first key of the right node (`KeysMeet`): a key that is searched for in that
node's first child lies between the two.

**PalmTreeProofs**, for any order from 3 on, any keys and any batches, as long as no key
is in the tree twice (`OneCopy`; the hazard at `worker.hpp:254` is about what happens
otherwise): `PalmTypeOK` (`TypeOK`), `PalmContentsKept` (`ContentsKept`), `PalmSearchable`
(`Searchable`), `PalmLinked` (`Linked`) and `PalmUniformDepth` (`UniformDepth`).  The
invariant `PalmInv` has two parts: the heap is `Intact` with the keys of `contents`;
and the stage has the work that fits it (`WorkFits`).  In EXEC_LEAF each leaf has
requests for keys that are searched for in it, none of which gets a second copy
(`LeafWork`); in EXEC_INTERNAL the nodes to be repaired have one height, those to be
repaired next are one higher; in EXEC_ROOT there is a root.  None of the invariants
is inductive without this: the loop of `internal_execute` is only right for a node all of
whose pointers are, and a worker is only safe because no other one deletes its node.

`RepairSound` is about that loop, all of it: `Sound` says that the tree is intact again
with the same keys and that all nodes at least as high as the one repaired are still
there (`Kept`), which are those of the other workers and of the next stage.  Its loop
invariant (`Repairing`) relates the hand-made count to the place of the child: `left`
never exceeds the children from `child` to the last one, so `child->next` stays below
the node and there always is a neighbour to borrow from or merge with.  This holds
although finding 1 makes the count too small: children are left out, but none beyond
the last is touched.  `FillStands` and `SplitStands` are the two branches of an
iteration.  `GrowRootKeeps` is the same for the loops of `root_execute`.  On the leaves'
side, `RequestsAre` says what DISTRIBUTE gives a leaf, and `LeafStep` that applying it
leaves the leaf what the clients expect (`Applied`).  The assertion of `worker.hpp:157`
is a guard of `InternalExecute` (finding 1), and `contents` follows a tree that
`root_execute` clears (finding 3); the theorems are about what the code does up to and
after that.

Only model-checked: liveness (`ImplementsRendezvous`'s other half,
`EventuallyApplied`, `ThreadsReturn`, `CallsReturn`), which is beyond this prover;
the removes of `FineTree`; and `SeqTree`, with keys that come several times and the
cascades of `Borrow`, for which the theorems of `NeighbourProofs` are the single steps.

## 6. What is not modelled

* `DistriTree` takes its local tree as a bag with atomic operations, from which a
  remove takes a copy if there is one.  That is an assumption: foreground and
  background thread call the fine tree concurrently (finding 5), and a search may
  miss copies on the other side of a separator (`doubtful`, section 4).
* Several clients of one `spsc_queue`: `submit_request` is documented for them
  (`scheduler.hpp:56`), two pushes at once are undefined, and the program has one
  client.
* Several copies of one key in the PALM tree (`MaxCopies` is 1 in the runs;
  `SeqTree` has several).
* The separate field writes of one split or merge in the fine tree, in particular of
  the links into a cousin's subtree.
* `processAssignments`, the packing of slots, is modelled by its result
  (`Assignment`).
* `SeqEngine` and `BenchmarkEngine`: one thread, or threads that meet at nothing but
  the tree; parsing, printing, runners, test generators and the timer: no protocol
  of their own.  A BARRIER entry leaves its `value` uninitialised; nothing reads it.
* `papers/palmtree.h` is third-party code that the program does not include.

## 7. Plan

Done, in this order: `Rendezvous`, `SpinBarrier` with its proofs, `PalmScheduler`,
`PalmTree` on `NodeHeap`, `DistriTree`, `FineTree`; then `KeySearch` with its
proofs, `Mending`, `KeyBag`, `SeqTree`, `ThreadEngine` with its proofs, several
trees in a row in `DistriTree`, and the proofs of `DistriTree` (those with the STOPs
counted per rank last) and of `PalmScheduler` (those about the order of requests
last); `NodeHeap`, `Mending` and `PalmTree` without recursive operators, the proofs about
inserts in `NodeHeap` and `FineTree`, those about splits, merges and borrows among
neighbours, and those of `PalmTree`.

Left, the most valuable first:

1. `SeqTree` for keys that come once, and loads of one thread with removes in `FineTree`,
   from the theorems of `NeighbourProofs`.
2. The removes of `FineTree` field by field, for the cousins' links.
3. Several copies of a key in `PalmTree`, and several producers of the ring buffer.
