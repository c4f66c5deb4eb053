# Lace in TLA+

Lace (`src/lace`) is a work-stealing fork-join framework in Rust: a pool of
workers, one double-ended queue (the *split deque*) per worker, tasks that spawn
tasks and sync them newest first, thieves that take the oldest ones, and owners
that *leapfrog* (rob their thief) while a stolen task is not finished. A pool can
also broadcast a closure to all of its workers. The code relies on hand-made
synchronisation: plain cells shared between threads, indices packed into one
atomic word, flags acknowledged with relaxed stores, pointers into stack frames
of other threads. This directory holds the models, the model-checking runs and
the machine-checked proofs about it.

## 1. Inventory

| Part | State | Operations | Interacts with | What is hard |
|---|---|---|---|---|
| **Split deque** `lace_deque.rs`, `buffer/` | shared: `split_tail` (two halves of one word), `splitreq`, `allstolen`, task slots, thief flags; owner: `head`, `split`, `allstolen` | owner: `push`, `sync_fast`, `pop`, `pop_stolen`, `grow_shared`, `shrink_shared`; thief: `steal`, `steal_finished` | `Worker` calls it; thieves of other threads | every access interleaves with thieves; the owner's copies lag behind the word; slots are plain cells |
| **Workers** `lib.rs` `Worker` | own deque, arena, call stack, handles to steal from the others | `spawn`, `sync`, `sync_slow`, `join`, `steal_work`, `leapfrog`, `steal_random`, thread loop | deques of all workers; task bodies call back into it | nested leapfrogging on one stack, stale thief ids, tasks that borrow from frames of other threads |
| **Pool** `lib.rs` `Lace` | `keep_going`, thread handles, root worker, `BroadcastState` (`epoch`, `remaining`, `job`) | `init`, `run`, `broadcast`, `stop`, `drop` | every worker polls `keep_going` and `epoch` | a job that points into the caller's frame; late workers; panics; stop while workers steal |
| **Tasks** `task/` | function, boxed input or output | `new`, `execute`, `execute_stolen`, `take_input`, `take_output` | slots of the deque, arena | input and output each taken exactly once, by the right thread |
| **Arena** `arena/unsafe.rs` | per bin: buffers, head of the free list | `alloc`, `take`, `dealloc` | tasks' inputs | free list threaded through freed memory; a 0 with two meanings |
| **Chase-Lev variant** `lib.rs`, feature `chase_lev` | crossbeam deque, recycled flag per task | as Worker | as Worker | recycled flags, relaxed loads |
| **Current worker** `lib.rs` | a thread-local cell | `with_current_worker`, `try_run_current` | `run`, `broadcast`, `thread` | nested pools in one thread |
| **Victim choice** `prng.rs` | shift register | `next` | `steal_random` | range, never stuck |
| **Pinning** `lib.rs` | hwloc topology, a PU per worker | at start-up | operating system | loops over irregular topologies |
| **lace_task macro** `lace-macros` | none | rewrites `call!`, `spawn!`, `sync!`, `join!` | task bodies | tokens are used newest first |
| metrics, debugging, benchmarks, build files | counters, text | none that decides anything | | |

`PROJECT.json` lists these parts with what is modelled of each, and every hazard
of the code at its line with the properties that watch it.

What makes each part correct:

* deque: one user per slot; `sync` gets its own task, as input or as output;
  every task is run by the owner or by one thief; the assertions the code can
  switch on hold; a `sync` ends; thieves' requests are served. In short, it is
  a stack for the owner and a queue for thieves (`WorkDeque`).
* workers: a task runs exactly once and inside the lifetime of the frame that
  spawned it; `run` returns, and leaves nothing behind; no worker waits in a
  circle.
* pool: each `broadcast` runs the closure once on each worker, before it
  returns; nobody uses a dead frame; `stop` ends unless a panic has taken a task
  that a worker waits for.
* arena: live values do not overlap and stay as written; no slot is lost.
* Chase-Lev worker: the same promise `WorkDeque`, kept by an external deque and
  thief slots that are used again; a box has one user.
* current worker: the cell names the innermost worker of its thread, and no
  other thread runs as that worker.
* pinning: workers are spread as evenly as each feature says.

## 2. Modules

| Module | Models | State and actions |
|---|---|---|
| `WorkDeque` | the promise of a deque | a stack of tasks, each ready, stolen or done |
| `SplitDeque` | `lace_deque.rs`, `buffer/safe.rs`, and the parts of `sync_slow` and `steal_work` that drive them | one action per access to shared memory |
| `WorkerPool` | `Worker` and `Lace::run`, with panics | a call stack per worker, a deque (as in `WorkDeque`) per worker, one action per operation |
| `ForkJoin` | the promise of the pool | what each task is: fresh, forked, running, ended or lost to a panic, and the operation a running body is at |
| `ChaseLev` | the `Worker` of the feature `chase_lev` | deque, tokens, thief slots, boxes; one action per access to what owner and thieves share |
| `Broadcast` | `Lace::init`, `broadcast`, `stop`, `drop`, `Worker::thread`, `try_run_broadcast` | one action per access to shared memory |
| `BroadcastCall` | the promise of a broadcast | a call, and the workers that have run it |
| `CurrentWorker` | `with_current_worker`, `try_run_current`, and who calls them | a cell and a stack of calls per thread, the state of each pool |
| `Arena` | `arena/unsafe.rs` | memory in blocks, one action per `alloc` path and release |
| `Affinity` | the pinning loops of `Lace::init` | the PUs chosen so far and the cursors; one action per worker that gets its PU |
| `Stacks` | | top and rest of a sequence, with lemmas |
| `SplitDequeProofs`, `ChaseLevProofs`, `BroadcastProofs`, `WorkerPoolProofs`, `CurrentWorkerProofs`, `ArenaProofs`, `AffinityProofs` | | theorems |
| `MC...` | | programs, symmetry and fairness for TLC |

The modules compose by refinement. `SplitDeque` implements `WorkDeque` (checked
and proved), and `WorkerPool` uses one `WorkDeque` per worker, in the way
`WorkDeque` allows (`UsesWorkDeque`, checked and proved). So the pool can be
reasoned about with deques whose operations are single steps. `ChaseLev`
implements the same `WorkDeque` (checked and proved), so what holds of the pool
holds for the feature `chase_lev` too. `WorkerPool` in turn implements
`ForkJoin`, and `Broadcast` implements `BroadcastCall` (both checked and
proved).

**SplitDeque.** `tail` and `split` are the halves of the atomic word; a step
reads or writes both or, as `fetch_xor` on the upper half does, one. The xor of
`set_shared_split` is modelled by what it does: it yields the new split only if
the old one is what the owner believes, and any value otherwise. A thief is one
`steal_work` frame in flight: a worker that steals again inside of a stolen
task is a second thief. The weak compare-exchange may always fail
(`StealRetry`). After `sync_slow` has read a thief's id the owner is idle again
with that depth in `waiting`: it runs tasks that push and sync above it.
`InPlace` is the feature `unsafe_steal`: the run `deque` has it off, `deque_live`
has it on, and the theorems hold for both. `Overflow` is the panic of a full
deque and ends the owner; `EverySyncReturns` excuses that.
The features `stronger_splitreq` and `unsafe_atomic` differ in memory order and
in store against xor only, and are covered by the same actions.

**WorkerPool.** The program is a constant: a body is a sequence of spawns, syncs
and direct calls, and `Held` gives the tokens it holds after each of them. That
tokens are used newest first is not enforced by the types; it is the assumption
`LifoTokens`, and what the code asserts in its own error message
(`lib.rs:468`). A frame is in its body, about to look at the thief flag, or
about to leapfrog with an id that may be stale by then. Stealing takes the
oldest ready task of a victim; finding nothing (`LeapFail`) is always possible,
because a real deque may have nothing shared. `join` is a spawn, a call and a
sync.

A task of `Panicking` may panic at any point of its body, also between a spawn
and its sync; a push on a full deque panics too (`Overflow`). Nothing in the
library catches a panic, so it unwinds the whole stack of its thread (a task
body that catches a panic itself is outside of the model). What the
unwound frames had spawned stays in the deque: thieves may still run it, and
the next run pushes above it. What they had stolen stays "stolen" for ever. The
thread of another worker is gone; the root's caller may catch the panic and run
again. The properties are stated for such pools, with `lost` in the place where
a panic is the excuse.

**ChaseLev.** The crossbeam deque is external and taken as an atomic sequence:
the owner's end is its newest element, thieves take the oldest. An entry is a
box and a slot (the `Arc` of a flag). Slots of tasks that were popped go to
`recycle`; slots of stolen tasks go with their token, so that a fresh slot may
have any address nobody refers to, and boxes are allocated again once free.
With `WeakLoads` what is read after the relaxed first load (`LoadFirst`) may be
older than its value: `acquired` remembers whether an acquiring load has seen
FINISHED, and without it `Readable` is what the box holds now or held before.

**Broadcast.** `live` is the call whose stack frame exists and a job is the
number of the call whose frame it points into, so "late worker in a dead frame"
is a state predicate. `PanickingOps` says on which workers the closure may
panic and `PanickingTasks` on which a task may: one that a thread has stolen, or
the root's `run` (`RunPanics`). A panic on a thread ends that thread, one on the
root's worker unwinds `broadcast` or `run`, and the caller may catch it and use
the pool again. A stolen task or a closure is one step, so what a panic does to
the tasks on other stacks is decided when it happens: tasks the panicking worker
had stolen are lost, whoever syncs one spins in `sync_slow` for ever, and so
does whoever waits for him. `Unwind` therefore leaves any set of the workers
that are inside of a task or of the closure at that moment `"stuck"`. Only they
can be: all that a task waits for was spawned after the task began, so one that
begins after the panic does not wait for what was lost in it. `WorkerPool` shows
the same in detail (`Stuck`). `stop` may panic as soon as some
thread has crashed, since threads are not ordered in the model; fairness makes
it do so only when all threads have ended.

**CurrentWorker.** A thread's stack holds the calls of `with_current_worker`
("scope", with the value its guard restores) and of `try_run_current` ("task").
User code in them may run other pools, panic, and catch panics at any depth.
The borrow checker's part is in the guards: `run`, `broadcast`, `stop` and drop
take `&mut Lace`, so one of them at a time.

**Affinity.** A machine is a sequence of sockets, each a sequence of cores with
a number of PUs. hwloc's lists of all cores and of all PUs are constants that
list each of them once, in any order. `thread_nospread` indexes the second PU of each core and
panics on a core that has one (`NospreadPanic`).

**Arena.** Addresses are real ones at a granularity of `Granule` bytes. A block
holds part of a value or the word at its start. Boxes are released newest
first, which is what LIFO syncs on the owner give.

**Memory model.** All modules are sequentially consistent. The places where
this matters are named in section 7.

## 3. Runs

| Run | Shows | Bounds |
|---|---|---|
| `deque` | the inductive invariant and all safety properties of the deque, every interleaving; it implements `WorkDeque` | 4 slots, 2 thieves, 2 task names, any number of operations |
| `deque_live` | syncs return and programs end, with `unsafe_steal` | 3 slots, 2 thieves, 4 spawns |
| `broadcast` | the protocol, that it implements `BroadcastCall`, that calls and stop end unless they need a worker that a panic has ended or left waiting | 4 workers, 3 calls, stop at any time, calls after stop; the closure may panic on one thread, a stolen task on another, and the root's `run` |
| `broadcast_stop` | the same for stop if the closure also panics on the root's worker | 3 workers, 2 calls |
| `broadcast_panic` | **violation**, see section 6 | 2 workers, 2 calls |
| `pool` | tasks run once and inside their parents' lifetime, syncs match, a finished body leaves nothing, the pool rests after a run, nobody waits in a circle, deques are used legally, the pool implements `ForkJoin`, `run` returns; the inductive invariant of the proofs | 3 workers, 10 tasks in 2 runs, deques of 3, random leapfrogging, one task that may panic |
| `arena` | no overlap, values intact, no slot lost | types of 300, 768 and 1000 bytes, 3 buffers, 6 boxes |
| `arena_bins` | **violation**, see section 6 | types of 256 and 384 bytes |
| `chase_lev` | sync gets its own task, boxes have one user, `WorkDeque` is implemented, a stolen sync returns | 2 thieves, 3 tokens, 3 boxes and 3 slots that are used again, any number of operations |
| `chase_lev_relaxed` | **violation**, see section 6 | the same with weak loads |
| `current_worker` | the cell is the innermost worker's, workers are exclusive | 1 user thread, 2 pools of 2 workers, nesting up to 4 |
| `affinity` | each feature's spread | 6 topologies, up to 9 workers |

*Why the bounds are enough.* The deque compares indices for equality and moves
split to a midpoint; with four slots both roundings, the "fix" of
`shrink_shared` (thieves got past the new split), the re-opening after "all
stolen" at non-zero depth and the overflow all occur, and two thieves can hold
different stale words. Operations are unbounded. The theorems remove the bounds.
Two task names suffice because no action looks at a name. In the pool, eight
tasks at depth four and two of a second run on three workers give leapfrogging
inside of leapfrogging, stealing back, and thieves whose id is stale, including
one that is already running something unrelated. The task that may panic, `b`,
is spawned, spawns two itself, and runs on any worker, so that each of a lost
root, a lost thief and a stale item under the second run occurs. Deques of three
overflow in the midst of a run and below what a panic has left. Every action
compares at most two boxes or slots with each other, and the theorems about
`ChaseLev` and `CurrentWorker` remove those bounds. Four levels of nesting are
two pools and a task in each. In the arena, 300-byte values fill a buffer with
four slots and 768-byte ones with two; a bin gets a second and third buffer with
a list of freed slots in the first one; 1000 bytes go to the heap.

Deadlock is checked in every run. Where the system rests there is a step for
it: `Idle` threads of a pool without a run, spinning owners and stuck workers.

Every property has a mutant: an operator next to the one it replaces, whose
comment names the bug, and with which the run finds the property violated.

## 4. Fairness

* `deque_live`: weak fairness of the owner's steps inside an operation, of
  `Sync` (task bodies come to their syncs: `SpawnToken` is `must_use`, and tasks
  end), and of a thief that holds a task. None for spawning, and none for
  thieves that look for work: no operation may depend on being robbed.
* `chase_lev`: the same. `StolenSyncReturns` excuses an owner that spawns for
  ever in the tasks it runs while it waits; nothing in the code bounds them.
* `broadcast`, `broadcast_stop`: weak fairness of the owner inside `broadcast`
  and `stop`, and of each worker's next step. Threads are operating system
  threads that never block on a lock; closures and tasks end or panic, but for
  those that wait for a task which a panic took: such a worker is `"stuck"` and
  has no step to be fair to. So a broadcast is claimed to return unless a thread
  has crashed or some worker is stuck, and `stop` unless some worker is stuck.
  Both excuses are needed: `sync_slow` (`lib.rs:321-340`) reads neither `epoch`
  nor `keep_going`, and `stop` joins its thread.
* `pool`: weak fairness of each worker's own steps (a leapfrog attempt
  included, successful or not). None for `StealRandom`: a pool whose threads
  never steal must finish too. A run is claimed to end unless some worker waits
  for a task that a panic took (`Stuck`).

`run` returns because of two things. The safety part is that no group of workers
waits for nobody but itself: whatever a frame is buried under started after
everything the frame awaits was taken, so the waits of the running tasks are
ordered (`OrderInv`) and one of them waits for no other. That is proved
(`NobodyWaitsInACircle`). The other part, that the worker at the end of each
chain goes on and that there are finitely many tasks, is fairness and left to
the run. Note that leapfrogging with a stale id (or
`leapfrog_random`) *can* run a task that is no descendant of the awaited one;
this costs time, not progress, and nothing is claimed about it.

## 5. Proofs

`SplitDequeProofs` proves, for every set of thieves and tasks, every buffer size
and both values of `InPlace`, that `IndInv` is inductive and implies the safety
properties:

| Theorem | Property |
|---|---|
| `Invariance` | `IndInv` |
| `TypeCorrect` | `TypeOK`: no index leaves the buffer |
| `OwnerInvariantsHold` | `OwnerInvariants`, the macro of the source |
| `SlotsExclusive` | `SlotExclusive`, absence of data races on slots |
| `SyncCorrect` | `SyncReturnsOwnTask` |
| `FlagsCorrect` | `FlagProtocol`, the assertions on flags and slots |
| `PublishIsSafe` | `NoStealLost` |
| `XorIsStore` | `XorHitsOldSplit` |
| `GrowingShares` | `GrowShares` |

None of these is inductive alone. That a slot has one user needs that a
successful exchange hits the oldest ready task, which needs `tail < head`, which
needs to know, at each point inside of `shrink_shared` and `push_allstolen`, how
far the owner's copies lag behind the word. `IndInv` has one conjunct per
concern: `OwnerInv` (copies against word at each program counter), `WaitingInv`
(depths being waited for are stolen ones), `SlotInv` (what each slot and flag
holds according to its depth) and `ThiefInv` (each thief's slot is its own). The
central lemma is `CasHitsOldestReady`: whenever the exchange can succeed the word
is in force, so neither the plain store nor the moved split loses a task. There
is one lemma per conjunct, with one step per action that disturbs it.

`Refinement` is `Spec => ImplementsWorkDeque`. Each action either leaves the
abstract stack as it is (`Invisible`) or is one of its steps. A task counts as
stolen from the exchange on, and the push becomes visible with `head`, before
`push_allstolen` has published it; `StolenBelow` covers that window.

`ChaseLevProofs` proves, for all thieves, boxes, slots and capacities, that
`ChaseInv` is inductive, and from it:

| Theorem | Property |
|---|---|
| `ChaseInvariance` | `ChaseInv` |
| `ChaseSyncsOwnTask` | `SyncFindsOwnTask` |
| `ChaseBoxIsExclusive` | `BoxExclusive` |
| `ChaseOutputThere` | `OutputThere`, assuming `~WeakLoads` |
| `ChaseImplementsWorkDeque` | `ImplementsWorkDeque` |

The invariant says that the deque is the upper part of the tokens (`TokenInv`),
that slots are referred to by one token or one recycled pair and that recycled
ones are `THIEF_NONE` (`SlotInv`), that a thief's entry is one of the stolen
tokens until it finishes (`ThiefInv`), and what the box holds at each point of
sync (`OwnerInv`). `ChaseOutputThere` together with the violated run says that
the relaxed load is the only way to the panic of `take_output`.

`CurrentWorkerProofs` proves, for any threads, pools and nesting, that `CellInv`
is inductive (`CellInvariance`) and implies `CellIsInnermost`
(`CellNamesInnermost`) and `ExclusiveWorker` (`WorkerIsExclusive`). It adds what
each guard will restore (`Linked`: the worker around its call) and that each
worker has one call (`ScopeInv`), which is where `&mut Lace` is used.

`WorkerPoolProofs` proves, for any set of workers, any deque size, any panics
and every program that uses its tokens newest first (`ProgramAssumption`), that
`PoolInv` and `WholeInv` (`PoolInv` and four conjuncts more) are inductive, and
from them:

| Theorem | Property | from |
|---|---|---|
| `PoolInvariance` | | |
| `SyncsOwn` | `SyncsOwnTask` | `PoolInv` |
| `TasksRunOnce` | `RunsOnce` | `PoolInv` |
| `ParentsStay` | `ParentsOutlive` | `PoolInv` |
| `NoneLeftBehind` | `NothingLeftBehind` | `PoolInv` |
| `DequesUsedAsPromised` | `UsesWorkDeque` | `PoolInv` |
| `WholeInvariance` | `WholeInv` | |
| `NobodyWaitsInACircle` | `NoCircle` | `WholeInv` |
| `PoolRests` | `RestsAfterRun` | `WholeInv` |
| `PoolImplementsForkJoin` | `ImplementsForkJoin` | `WholeInv` |

None is inductive alone, because each needs to know what the frames *below* the
top will find when they come to the top again. `PoolInv` has one conjunct per
relation:

* `StackInv`: what the frames of a stack hold as tokens is, from bottom to top,
  what lies in the worker's deque, each frame from its `base` on. So the newest
  item at a sync is the token of that sync, even after a leapfrogged task with
  syncs of its own, and whatever a panic has left at the bottom stays there.
* `ItemInv`: a task is in one deque at most, once; a ready one has not begun, and
  what is behind it is ready; the task of a stolen one is on the stack of the
  thief whose id it has, or was there when a panic unwound it.
* `FrameInv`: a task has one frame at most, and the frame of a stolen task names
  the item it came from. With `ItemInv` this is a one-to-one match of stolen
  items and running stolen tasks, which lets `Return` find its item at an index
  taken long before.
* `ChildInv`: what a body starts is fresh before its operation, and after it
  either over, or one of its tokens, or running directly on top of it.

A step either replaces the top frame of one stack (`Replaced`), puts one on top
(`Grown`, `Started`), takes it off, or unwinds the stack, and either leaves the
deques, pushes or pops the newest item of one, or changes the status of one
item. There is a lemma for each conjunct and each of these shapes; the actions
are then combinations of them. What each action does to the deques is stated
once more as a step of `WorkDeque` or a stutter, per worker, which gives
`DequesUsedAsPromised`.

What `WholeInv` adds:

* `OrderInv`: in every set of running tasks one waits for no other, where a task
  waits for the one on top of it and for those whose tokens it holds. This is
  well-foundedness said without induction. A task that starts waits for nobody
  yet, so adding it at the top of a stack keeps the order, however unrelated it
  is to what it covers.
* `AwaitInv`: a frame that is past its first look at the flag waits for an item
  that is no longer ready. With `ItemInv` the task is running, over or lost, so
  a chain of waits always has a running task at its end. `NoCircle` follows: in
  a group of workers take the tasks on their stacks; the one that waits for no
  other is at the top of its stack, and what its worker awaits would be on a
  stack of the group.
* `OriginInv`: what is on stacks and in deques can be reached from the tasks a
  run starts with, and only the root runs those. `Reached` is the least set
  closed under starting others, so that `PoolRests` needs no induction either:
  when the root's stack is empty and nothing is lost, the tasks that are on no
  stack and in no deque are closed under starting others.
* `LastInv`: what a body called or synced last has returned or is on top of it.
  `ForkJoin` lets a body go on only if it has returned.

The mapping to `ForkJoin` forgets where a task is. `State` says what became of
it: begun and neither ended nor lost is "running", in a deque and not begun is
"forked". `Place` is the `pc` of its frame (`FrameFor`, unique by `FrameInv`).
Looking at a flag, leapfrogging and finding nothing are stutters. A sync of a
stolen task is one step, at the moment the owner sees it done, `StealWork` and
a leapfrog that finds a task are `Take`, and a panic is `Fail`, with the set of
tasks it unwinds.

`ArenaProofs` proves, for any types, any number of buffers and any number of
boxes, the following under `OneSize`: types that share a bin share the size of
its slots. Types of 193 to 256 bytes together with types of 257 to 384 bytes are
the only ones that `OneSize` excludes, so the finding of `arena_bins` is the only
way to an overlap.

| Theorem | Property |
|---|---|
| `ArenaInvariance` | `ArenaInv` |
| `BoxesApart` | `NoOverlap` |
| `ValuesKept` | `ValuesIntact` |
| `NoSlotIsLost` | `NoSlotLost` |

The invariant numbers the slots of a bin in the order of its buffers
(`Positions`, `At`) and says that at each moment there is a position from which
on all slots are free and linked to each other in that order, while all before
it are taken (`FreeFrom`), by boxes that are the newer the further behind they
are (`Before`). That is why the word 0 at the end of a free list can only mean
"the slots behind this one have never been used": it is found in the current
buffer only. It is also where releases newest first are needed. The invariant
takes the state as parameters: `extend_bin` with the allocation that follows is
`ExtendStep`, to a state the program does not stop in, and then the same
`PlaceStep` as for a free slot. `BumpStep` is `alloc_bump`. TLC confirmed
`ArenaInv` on the instance of `arena` with 4 boxes; it is not part of that run
because it is slow to evaluate.

`AffinityProofs` proves `LoadEven` (`WorkersSpreadEvenly`) for any machines, any
order of hwloc's lists and any number of workers. That loads differ by one at
most is not inductive: whether the next worker keeps it so depends on where the
cursors are. `AffinityInv` (`AffinityInvariance`) says for each level of the
machine that its parts are served *in turn* (`InTurn`): those before the cursor
have one worker more than the others. A part that is next moves the cursor on
(`ServesNext`), the parts of other cores and sockets are not touched
(`ServesElsewhere`). For `thread_nospread`, which has no cursor, the rotation is
in the arithmetic of the worker's number: `NextPair`.

`BroadcastProofs` proves for any finite set of workers and any number of calls,
under `RootCalm` (the closure does not panic on the root's worker; it may on
threads, and tasks may panic anywhere), `BroadcastInvariance` and from it
`JobIsPublished`, `JobCellNotRaced`, `OpsRunInLiveFrames`, `ResultsAreComplete`
and `BroadcastImplementsCall`. The invariant says that `remaining` is the number
of *pending* workers, those that have not seen the epoch of the call, have not
yet subtracted themselves, or never will because the closure has panicked or is
stuck on them, and that nobody is pending outside of a call; its lemmas
(`PendingDrop`, `PendingAll`, `PendingKept`) count. `PanicFells` gives all
panics one shape. Without `RootCalm` it is false, see
section 6.

Assumptions are the named ones on the constants in the modules, which TLC
evaluates in the runs. Every safety property and every refinement of a passing
run is proved. Model-checked only: what is temporal under fairness
(`EverySyncReturns`, `StolenSyncReturns`, `BroadcastReturns`, `StopEnds`,
`RunReturns`), since liveness and ENABLED are out of the prover's reach.

## 6. Disagreements between code and its own statements

1. **A closure that panics on the root's worker breaks the next broadcast**
   (`broadcast_panic`). `try_run_broadcast` expects that a published epoch has a
   job (`src/lace/src/lib.rs:566`). If the closure panics in the root's own call
   (lines 834-836), `broadcast` unwinds without waiting. A caller that catches
   the panic and broadcasts again stores `remaining` anew, the late `fetch_sub`
   of the first call (line 571) counts for the second, which returns early and
   clears the job, and a worker finds none. The same trace has a worker use a
   frame that is gone.
2. **Two bins of the arena share an index** (`arena_bins`). The comment at
   `src/lace/src/arena/unsafe.rs:57` lists thirteen bin sizes, `N_BINS` is 12,
   and both 256 and 384 bytes get index 9 (lines 111 and 113). A recycled slot
   of 256 bytes is then given to a value of 384, which overlaps the next one.
   The `arena` run checks everything else with types that avoid the pair.
3. **The Chase-Lev sync may read an output that is not there yet**
   (`chase_lev_relaxed`). `take_output` panics with "Task Output Taken Twice or
   Not Written" (`src/lace/src/task/safe.rs:39`). The first load of the thief
   slot in `sync` is relaxed (`lib.rs:481`). When it reads `THIEF_FINISHED` at
   once, the loop with the acquiring load is skipped and nothing orders the read
   of the box after the thief's release store. The same line of the split deque
   reads the flag through `thief_flag`, which acquires.

One more, too small for a run: the comment at `lib.rs:768-769` gives the order
of the PUs chosen by `numa_awareness` as starting on core 0, while the line
before it reverses the cores so that core 0 comes last. `Affinity` follows the
code, and `LoadEven` states what the comment above it (764-766) wants.

## 7. Not modelled, and why

* Panics that a task or a closure catches itself: a panic unwinds the whole
  stack of its worker, up to `run`, `broadcast` or the thread.
* What a stolen task does with borrows of a parent that a panic has unwound.
  The code lets it run; the frame is gone. `ParentsOutlive` exempts it.
* After `stop`, `broadcast` waits for threads that have ended and spins for
  ever. The steps are in the model, a return is not claimed.
* `Affinity` starts from a topology in which sockets, cores and PUs were found.
  The asserts on its depth (`lib.rs:712, 715`), the panics where binding is not
  supported and the path on which hwloc knows no sockets (lines 703, 743) end
  `init` before a worker is placed.
* Weak memory, but for the one load above. For the split deque the models
  interleave. A thief that reads an old word is a thief that was delayed, its
  compare-exchange reads the newest word, slots are published by the release
  store or exchange of the word, and the owner reads flags with an acquiring
  load. What this leaves open: the store of `allstolen` against that of
  `split_tail` in `push_allstolen`, the relaxed store of a thief's id, the
  relaxed reset of a flag.
* The crossbeam deque is taken as correct. `Steal::Retry` is a steal that finds
  nothing.
* `Lfsr`: a victim is any other worker, which includes every sequence the
  register gives. That the register is never 0 and has full period is a fact
  about one 64-bit polynomial; a narrower one would be another program.
* `arena/safe.rs` and the boxes of outputs: the global allocator.
* `task/unsafe.rs`, `buffer/unsafe.rs`: same steps as the default files without
  their checks. `SlotExclusive`, `FlagProtocol`, `SyncFindsOwnTask` and
  `BoxExclusive` say the checks never fail. Type erasure compares addresses of
  generic functions, which a model would only restate.
* Metrics, debugging output, benchmarks, build files, macro rewriting: nothing
  in them decides a step. Backoff in `sync_slow` only delays.

## 8. State of the plan

All components with steps of their own are modelled. Every invariant, action
property and refinement that a passing run checks is proved. What could be
added: weaker memory for `push_allstolen`.
