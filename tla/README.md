# Formal models of the concurrent components of code-snippets-cpp

The repository is a collection of C++ snippets. Most of them show a language
idiom; seven are real concurrent or stateful components whose correctness
depends on interleavings that no test in the repository exercises. This
directory holds TLA+ models of them, the TLC configurations that check the
models on small instances, and proofs for TLAPS that hold for every value of
the constants. `PROJECT.json` maps every definition to the source lines it
stands for.

    tlc -workers 2 -config MCSPMCQueue.cfg MCSPMCQueue     # model-check
    tlapm SPMCQueueProofs.tla                              # check proofs

## 1. The components

All sources are header files under `src/`. "Hard" is what a test hardly reaches.

| Component (file) | State | Operations | Hard | Correct means |
|---|---|---|---|---|
| `SPMCQueue` (`single-produer-multiply-consumer.h`) | ring of slots with a sequence number each, `producer_pos_`, `consumer_cursor_`, four counters | `try_enqueue`, `try_dequeue`, their batch and blocking forms, `size`/`empty`/`full`, statistics | one producer and many consumers without a lock; stale cursor values; slots recycled by laps; partial batches | FIFO, every item once, no two threads in one slot, true answers "empty" and "full" |
| `ManagedSPMCSystem` (same) | `running_`, consumer threads | `produce`..., `consumer_loop` (items or batches), `stop` | `stop` while everyone is anywhere; draining by several threads | nothing published before `stop` is lost or processed twice; `stop` returns |
| `AdaptiveMutex` (`adaptive-mutex.h`) | `state_` (free, locked, locked with waiters), counters, adaptive parameters | `lock` (try, spin, sleep), `try_lock`, `try_lock_for`, `unlock`, `reset_statistics` | two-step `unlock` against the waiters' mark; adaptation inside the lock; polling without notification | exclusion; `unlock` cannot fail; counters add up; a free mutex that is waited for is taken |
| `CircularBuffer` (`circular-buffer.h`) | `buf_`, `head_`, `tail_`, `full_`, `mutex_` | `put`, `get`, `reset`, and unlocked `empty`, `full`, `size` | equal positions mean both empty and full; unlocked readers of a half-finished operation | queue that overwrites its oldest item |
| `Future`/`Promise` (`future-based-async-system.h`) | a shared state per pair: result, continuation, mutex, condition | `set_value`, `set_exception`, `get`, `wait_for`, `then` (inline or on an executor), `catch_error`, `when_any`, `async` | continuations run while the mutex is held and take the mutex of the next state; `then` against `set_value` | results set once; no continuation and no wake-up lost; no deadlock between threads |
| `ThreadPoolExecutor` (same) | task queue, mutex, condition, `stop_` | `operator()`, `worker`, destructor | notify after unlock; `stop_` stored without the mutex | tasks begun once and in order; destructor leaves nothing half done |
| `CoroutineScheduler` (`coroutines-based-task-scheduler.h`) | a queue per worker, `active_tasks`, `next_worker`, `shutdown` | `schedule`, `worker_loop`, stealing, three awaitables, `wait_for_all_tasks` | a coroutine may be resumed elsewhere before its own suspension has returned; the task counter is decided by a look at a coroutine that may run elsewhere; tasks and workers are destroyed while others use them | a coroutine is in one place; `wait_for_all_tasks` not early; frames outlive their use; the destructor returns |
| `LockFreeStack` (`lock-free-stack.h`) | `head`, the nodes, 100 hazard pointers and the list `to_be_deleted`, which all stacks of a type share | `push`, `pop`, `delete_nodes_no_hazards`, `empty`, destructor | no lock; addresses that come back; a scan of the hazard pointers that others set and clear meanwhile | LIFO, every item once; no protected node deleted; no node lost or retired twice |

How a pop of `LockFreeStack` is meant to be safe: it stores the head in its
hazard pointer, loads the head again, and goes on only if it is the same.

How they interact: `ManagedSPMCSystem` owns an `SPMCQueue` and threads that
call it; `AdaptiveLockGuard` calls `AdaptiveMutex`; a `then` on an executor
and `async` hand a task to `ThreadPoolExecutor`, whose worker satisfies the
promise of the new shared state; a shared state calls back into others
through its continuation; `CoroutineScheduler`'s awaitables call back into
`schedule` from detached threads. The remaining files (smart pointers,
factories, builders, SFINAE, string formatting, ...) keep at most the state of
one object in one thread and are listed in `PROJECT.json` as not modelled,
each group with its reason.

## 2. The modules

| Module | Models | State and actions against the code |
|---|---|---|
| `SPMCQueue` | `SPMCQueue` | One action per access to an atomic or to a slot's data. `ppc` and `cpc` say where in `try_enqueue[_batch]` and `try_dequeue[_batch]` a thread is; a one-item call is a call for one item with `batch` false. Items are named by their position. `enqueue` and `dequeue` are repeated calls. |
| `FifoQueue` | what `SPMCQueue` promises | `Put`, `Take`, `Receive`. `SPMCQueue!Fifo` is the refinement mapping: an item is put when its number is published, taken when the cursor passes it. |
| `ManagedSPMC` | `ManagedSPMCSystem` | Extends `SPMCQueue`: `consumer_loop` in both modes around the step-by-step queue calls, `stop`, the joins. `item` and `batch` are the locals of the loop, `processed` what each thread handed to its processor, in order. `use_batching` is chosen at the start, as by the two constructors. |
| `AdaptiveMutex` | `AdaptiveMutex`, `AdaptiveLockGuard` | One action per access to `state_` or a counter; the load and the store of an adaptive parameter are one, as the owner of the mutex alone writes it. `how` is the call and then the phase that got the mutex; `adapt_parameters` runs with the mutex held, as in the code. Times are nondeterministic: a deadline passes at any moment, the measured contention is low, middle or high. |
| `CircularBuffer` | `CircularBuffer` | One action per store under `mutex_`, one per load of an unlocked `empty()`. |
| `OverwritingQueue` | what `CircularBuffer` promises | `CircularBuffer!Queue` maps the fields, also those of a half-finished operation, to the sequence of items. |
| `FutureSystem` | `SharedState`, `Promise`, `Future`, `when_any`, `async` | Shared states are numbers; `path[t]` is the stack of mutexes a thread holds in nested calls; a continuation is a record of its kind (ignores its future, gets it, gets it as `when_any`), where it runs and the state it will satisfy. The look at `ready` and what is done about it (the store of a result, keeping a continuation, going to sleep) are two steps; nothing but the mutex keeps others out between them. |
| `ThreadPoolExecutor` | `ThreadPoolExecutor` | Mutex, wait set and tasks; `Check`, `Sleep` and the second load of `stop_` (`LoadStopAgain`) are steps of their own, because `stop_` is stored without the mutex, also between line 533 and the pop. |
| `TaskPool` | what the executor promises | tasks begun once, in order, until closed; one more may be begun while it closes (`door`). `FutureSystem` uses the executor at this level: a queue that workers take from. |
| `CoroutineScheduler` | `CoroutineScheduler`, `Task`, awaitables | One action per critical section of a queue mutex and per access to a counter; detached threads carry the name of their coroutine. `~CoroutineScheduler` is `Shutdown` and one `DestroyWorker` per worker, in order; a thread that steals from, pushes to or notifies a destroyed worker becomes "undefined". `Suspend` is the part the compiler adds around `await_suspend`. `DropTask` is `~Task`, by a client that knows `is_ready()` and has come back from `wait_for_all_tasks` (`MayDrop`). |
| `LockFreeStack` | `LockFreeStack` | One action per access to `head`, `to_be_deleted`, a hazard pointer or a shared node. Nodes are addresses that `new` gives out again. `astray` is set when a pop whose hazard pointer is not on its node reads a deallocated node or null, or exchanges `head` for a `next` that is no longer that of the node. |
| `LifoStack` | what `LockFreeStack` promises | `Push`, `Pop`, `Destroy` on a sequence of items, until a thread goes astray. `LockFreeStack!Stack` follows the `next` fields from `head`. |
| `MC*` | | symmetry sets for TLC |
| `SPMCQueueProofs`, `ManagedSPMCProofs`, `AdaptiveMutexProofs`, `CircularBufferProofs`, `FutureProofs`, `ThreadPoolProofs`, `CoroutineProofs`, `LockFreeStackProofs` | | theorems and proofs |

An operator whose comment says "variant with a mistake" is a plausible wrong
version of the definition after it (a dropped guard, an off-by-one, a
forgotten reset). It is not part of the model; with it in the place of the
right definition, the property it is listed with in `PROJECT.json` fails.
This shows that the property depends on that piece of the code.

### Assumptions of all the models

* Atomics are sequentially consistent. The code uses acquire/release where it
  publishes data, and relaxed accesses for counters and flags. What weaker
  orders add is not modelled. `running_` and the statistics are relaxed.
* 64-bit positions and counters are natural numbers: they do not wrap.
* Compare-exchange in its weak form may fail spuriously.
* Payloads are names; formatting, printing and time measurement are left out.

## 3. What the runs check

Safety runs use symmetry of threads; runs with liveness do not. Deadlock is
checked where the system cannot stop by itself (the queue and the ring);
elsewhere it may stop for good reasons (all clients have used up their bound,
all threads have ended, a caller waits for a promise nobody satisfies).

| Run | Instance | Properties and what they show |
|---|---|---|
| `spmc` | 2 consumers, 2 slots, 3 items, batches of up to 2 | `NoSlotRace`: sequence numbers alone keep threads out of each other's slot. `ExactlyOnce`: every position below the cursor went to one consumer. `SizeBounds`: how far the two positions are apart at one moment (not what `size()` returns, which loads them one after the other). `StatisticsAgree`: counters equal positions at rest. `EmptyIsEmpty`, `FullIsFull`: the answers are true at the moment they are decided. `ImplementsFifo`: refinement of `FifoQueue`. |
| `spmc_one_slot` | 1 slot | finding: the static_assert allows `Capacity == 1`, with which an unread item is overwritten |
| `managed` | 2 consumer threads, 2 slots, 2 items, batches of up to 2, both modes | `NothingLeftBehind`; `ProcessedOnce`: each thread processes its items in order and once, also where it goes over from batches to single items; `StopReturns`, `EveryItemProcessed` |
| `mutex` | 2 threads, all three ways to lock, adaptation every 2 acquisitions, one `reset_statistics` | `MutualExclusion`, `WordMatchesOwner`, `NeverSurprised` (the branch of `unlock` that "should not happen"), `WaitersAreReal`, `StatisticsAddUp` (but for the moments between the stores that clear the counters), `TunesOnWholePeriods` (the counters that `adapt_parameters` loads one by one belong together), `NoLostWaiter` |
| `ring` | 2 threads, 3 slots, 5 puts | `ImplementsQueue`: refinement of `OverwritingQueue` through wraps, overwrites and resets |
| `ring_empty` | same | finding: an unlocked `empty()` says true although the buffer held items throughout |
| `future` | 2 clients, 1 worker, 3 states, 4 calls | `ContinuationNotLost`, `RunsOnce` (no continuation is run twice, or after a later `then` displaced it), `SleepersWillBeWoken` (a thread is still to notify; it may itself be blocked), `SettledOnce`, `LocksAreOrdered` (threads cannot block each other; the inline `get` blocks its own thread) |
| `future_live` | 2 clients, 1 worker, 2 states, 4 calls | `GetEnds`, `ThenCompletes` |
| `future_catch` | 2 clients, 3 states, 3 calls | finding: the continuation of `catch_error` locks a mutex its thread holds |
| `pool` | 2 clients, 3 workers, 4 tasks | `ImplementsPool` (at most one task is begun after `stop_` is stored), `WorkIsNoticed`, `DestroyedQuietly`, `TaskIsRun`, `DestructorReturns` (unless a worker was on its way to sleep: the wake-up the unlocked `stop_` loses) |
| `coroutines` | 2 coroutines of up to 2 suspensions, 2 workers, tasks and scheduler destroyed at any moment | `InOnePlace`, `ActiveCoversPending` (of coroutines that `schedule` has counted), `ScheduledIsResumed`, `WaitReturns` (if none suspends twice), `FramesOutliveUse` (if the client waits for `wait_for_all_tasks`), `DestructorReturns` (unless a destroyed worker is used) |
| `stack` | 3 threads, 3 nodes, 2 hazard pointers, 4 pushes | `ProtectedLives`, `NodesAccounted`, `ImplementsStack`: all until a pop goes astray; unprotected pops that go well are covered |

### Bounds

* `spmc`: 3 items on 2 slots wrap the ring, so that a slot is reused while a
  slow consumer may hold it; batches of 2 are cut in half by a full or an
  empty queue. The safety properties of the queue are proved for every
  instance (below).
* `managed`: with 2 items each consumer can take one before or after `stop`,
  one can take both in a batch, or find none. The queue never fills
  (`MaxItems = Capacity`), so no slot has to be given back for the liveness
  properties, and production ends, without which draining need not. The two
  invariants are proved for any number of items, consumers, slots from two on
  and any batch size (below), so that the small instance matters for
  `StopReturns` and `EveryItemProcessed` only.
* `mutex`: `spin_limit_` moves between 1 and 2 (both clamps are reached), the
  period of adaptation is 2 instead of 256, `MaxTotal` stops new calls when
  the counter has reached 2. Exclusion and the lock word are proved for any
  number of threads.
* `ring`: 3 slots and 5 puts fill the ring, overwrite twice and wrap.
* `future`: 3 states make a chain of two `then`s, or a `when_any` of two
  futures; 4 calls make two setters race with an attach and a waiter.
* `future_live`: 2 states are one `then`; chains are covered by the safety
  properties, which are proved for any number of states.
* `pool`: 4 tasks for 3 workers: a task without a worker and workers without
  a task. Spurious wake-ups are unbounded.
* `stack`: with 3 nodes and 4 pushes an address is used again while another
  thread may still hold it; one hazard pointer fewer than threads, or none at
  all, may be left, as threads that ended before keep theirs. `BeyondStray`
  is not a bound of the code: a behaviour ends where a pop went astray,
  because the properties promise nothing after it.
* `coroutines`: two suspensions are enough for a coroutine to be resumed on
  one worker while another still looks at it.

### Fairness

Weak fairness of a thread inside a call says that the operating system runs
it. Strong fairness is used in three places: a weak compare-exchange that
could succeed again and again does (`ManagedSPMC`: the claim of a position,
`AdaptiveMutex`: some thread's acquisition, never a given thread's), and a
mutex that is free again and again is got (`FutureSystem`,
`ThreadPoolExecutor`). In `CoroutineScheduler` workers, detached threads and
coroutines run (weak fairness), and so does the destructor once it was called;
a thread about to use a destroyed worker does so. `LockFreeStack` has no
liveness property: its loops retry as long as other threads succeed, and the
exchange that retires a node may spin for ever (section 5). Clients owe nothing: no fairness makes them call, set
a promise or stop; a holder of the adaptive mutex need not release it.

## 4. What is proved

TLAPS proves every invariant, action property and refinement that the passing
runs check, for all values of the constants that satisfy the assumptions named
in the modules. What is left to TLC is liveness. Each module of proofs has one
inductive invariant, `IInv` (`MInv` in `ManagedSPMCProofs`), which was found to
hold by TLC on the instances of section 3 before it was proved; the proof that
it is kept has one case per action.

`SPMCQueueProofs`, for any set of consumers, any bounds
and any `Capacity >= 2` (with one slot the theorems are false, see
`spmc_one_slot`): `TypeOK`, `NoSlotRace`, `ExactlyOnce`, `SizeBounds`,
`EmptyIsEmpty`, `FullIsFull`, `InOrder`, `StatisticsAgree`, and that the queue
implements `FifoQueue`. None of them is inductive. The inductive invariant `IInv`
speaks of positions rather than of slots:

* `SlotInv`: the slots belong, one each, to the `Capacity` positions from
  `Published` on. A slot carries its position's number when it is free, and
  the number of the item one lap earlier plus one while that item is
  unreleased. With `IndexInjective` (positions less than a lap apart have
  different slots) this is why numbers keep the threads apart.
* `PastInv`: the number of a published position's slot never falls behind, so
  that a stale position can be recognised (`EmptyIsEmpty`).
* `DataInv`, `HolderInv`, `ReceivedInv`: what is in the slots, who holds which
  position, what was received.
* `ProducerInv`, `ConsumerInv`: what a thread knows between two accesses.

Steps are sorted into those that leave the ring alone (`QuietStep`) and the
five that change it, one lemma each. The refinement adds `BudgetInv` (the
producer never publishes more than it was asked to), and lemmas on the
sequence of positions that the mapping builds. For `StatisticsAgree` the
counters would have to be sums over the threads, about which nothing can be
proved without induction over sets; `StatInv` says instead that there is an
assignment of positions to counter or thread that explains every counter.

`ManagedSPMCProofs`, for any set of consumer threads: that the threads use the
queue as its specification allows (`MSpec => Spec`, so that all of the above
holds inside the managed system), `ProcessedOnce`, and, if there is a consumer
thread at all, `NothingLeftBehind`. The invariant adds to `IInv` where a thread
is in its loop (`LoopInv`), that what it processed, then what is in `batch`,
then `item` is an ascending sequence of exactly the items it received
(`HandsInv`), and what it knows once it saw
`running_` false (`StopInv`): a call of `try_dequeue` that fails then found the
queue empty (`EmptyMeansEmpty`), so the cursor has passed everything published
before `stop`, and what the cursor passed was received by a thread that has
processed it before it ended. `Consumers # {}` is an assumption because the
code takes the number of threads from `hardware_concurrency()`, which may be 0.

`AdaptiveMutexProofs`, for any set of threads and any parameters: `TypeOK`,
`MutualExclusion`, `WordMatchesOwner`, `NeverSurprised`, `ParametersBounded`,
`WaitersAreReal`, `StatisticsAddUp`, `TunesOnWholePeriods`. Exclusion needs
`WordMatchesOwner`; that `unlock` cannot fail needs `SeenWaiters` (between its
two compare-exchanges the word is "locked with waiters"). The counters are
changed by the owner alone, so `Accounts` (what they add up to at each step of
the owner, those that clear a counter included) rests on exclusion, and
`SamplePath` follows the owner from its count of the acquisition through the
loads of `adapt_parameters`.

`CircularBufferProofs`, for any threads, slots and items: the ring implements
`OverwritingQueue`, store by store. The items are a line of slots from `First`
on; every store leaves the line as it is, appends to it, turns it by one slot,
drops its front or drops all of it, and there is a lemma on slot arithmetic for
each. `MutexInv` and `FieldsInv` say where the thread that holds the mutex is
and how `head_`, `tail_` and `full_` are related there.

`ThreadPoolProofs`, for any finite sets of clients and workers and any number
of tasks: `TypeOK`, one holder of the mutex, `WorkIsNoticed`,
`DestroyedQuietly`, and the refinement of `TaskPool`, in which the worker that
holds the mutex with `stop_` found false keeps the door open for one task. A worker that may sleep
saw no task while it held the mutex (`SleepIsJustified`), one that leaves the
awake ones has taken a decision it may take (`DecisionIsJustified`).
`OnlyLateSleepersHang` is the safety core of `DestructorReturns`: after
`notify_all` only a worker that was already on its way to sleep is asleep. The
sets are finite because `WorkIsNoticed` compares numbers of workers and tasks.

`CoroutineProofs`, for any number of workers and any finite set of coroutines:
`TypeOK`, `InOnePlace`, `ActiveCoversPending`, `FramesOutliveUse`. Besides
these `IInv` says which thread can be where (`RolesInv`), what state a
coroutine has in each place (`StatesMatch`), that a coroutine suspends for the
first time where it was started (`FirstInv`), and counts a thread that became
"undefined" with a coroutine in its hands as a place of that coroutine
(`PlaceInv`).

`FutureProofs`, for any threads, shared states and calls: `TypeOK`, every
mutex has one holder, `ContinuationNotLost`, `LocksAreOrdered`,
`SleepersWillBeWoken`, `RunsOnce`, and the action property `SettledOnce`.
`Fits` says for each place in the code how the mutexes a thread
holds in nested calls, the state its call is on and the continuation it runs
belong together: continuations lead to states with larger numbers, which is
why threads never wait for each other in a circle. `HeldInv` says that the
owner of a mutex is the thread that holds its state, and so (`LookedInv`) what
a thread saw of `ready` is still true when it acts on it; without it none of
the rest would be kept. `WakeInv` is why a sleeper is notified, `PendingInv`
where a continuation is that was not run yet, `OnceInv` that it is there alone.

`LockFreeStackProofs`, for any threads, any finite set of addresses and any
number of hazard pointers: `TypeOK`, `ProtectedLives`, `NodesAccounted`, and
that the stack implements `LifoStack`. The invariant says that there are
functions `kind` and `who` that put every node in one place: free, on the
stack, on the list to be deleted, on the rest of the list that a clean-up works
through, or in the hands of one thread (`Placed`), such that

* a node that a thread has verified is allocated, nobody pushes or deletes it,
  and a clean-up that looks at it has not yet come to that thread's hazard
  pointer (`Guarded`); while the node is on the stack, the `next` that was read
  from it is still right, which is the absence of ABA;
* allocated nodes hold different items, and no item is in a node and returned
  (`DataInv`).

The model finds the nodes of a list by a recursive function along `next`.
`ListIsChain` shows what it gives on a list without a cycle, by looking at the
least index at which two solutions differ. All this holds until a pop goes
astray, as `ImplementsStack` says; from then on only `TypeOK` does. A pop whose
hazard pointer is on its node never goes astray. One that lost its protection
at line 112 and finds its node in place with the `next` it read takes the top
of the stack like any other (`RightNext`).

Only model-checked: `StopReturns`, `EveryItemProcessed`, `NoLostWaiter`,
`GetEnds`, `ThenCompletes`, `TaskIsRun`, `DestructorReturns` (pool and
scheduler), `ScheduledIsResumed` and `WaitReturns`. They are liveness under
fairness, which TLAPS cannot prove. The findings are counterexamples of TLC.

## 5. What the work found

* `SPMCQueue<T, 1>` compiles and loses items (`spmc_one_slot`).
* `CircularBuffer::empty()`, public and unlocked, calls a full buffer empty in
  two windows (`ring_empty`). The comment at line 73 describes another test
  for "full" than the code has.
* `catch_error` and `when_any` block the thread that completes their future
  (`future_catch`; `when_any` calls `get` in the same way, line 502).
* Not runs, but visible in the models: `try_dequeue_batch` may return 0 on a
  queue that is not empty (line 159, its comment says there are no items); a
  sleeper that gets the adaptive mutex wipes out the other sleepers' mark
  (line 165 stores `LOCKED`); the second `then` on a pending future silently
  displaces the first; a coroutine that suspends twice leaves `active_tasks`
  above zero, and `wait_for_all_tasks` never returns, while one that sleeps in
  `delay` is not counted at all; a `Task` destroyed as soon as it `is_ready()`
  frees a frame that a worker may still ask `done()` (line 201), unless the
  client waits for `wait_for_all_tasks`; `workers.clear()` destroys workers
  that later ones still steal from; `~ThreadPoolExecutor` can miss a worker
  and hang in `join`.
* `LockFreeStack` against its comment at line 18, which says that the hazard
  pointers protect from ABA: `continue` (line 112) in a do-while loop goes to
  the loop's condition, so a pop that finds the head changed exchanges it at
  once for the `next` of the new head, which no hazard pointer protects. That
  head may be `nullptr` or deleted, and an address that comes back makes the
  exchange succeed with a stale `next`. `LoadNext` with `~Protected(t)` and
  `LoadNextOfNull` are these steps; where they go wrong the behaviour goes
  astray, which the run reaches. A node is retired (lines 130-131, 64-65)
  by an exchange whose expected value is not loaded again: after a failure the
  loop spins until the list is the same again. A thread never gives its
  hazard pointer back, and after 100 threads `pop` returns `nullptr` on a
  stack that is not empty. Lines 65, 131 and 134 do not compile.

## 6. What is not modelled

* `SPMCQueue`: `reset_statistics` and `get_statistics`, which touch counters
  the queue never reads; `size()`, `empty()` and `full()`, which load the two
  positions one after the other and decide nothing in the queue; positions that wrap at 2^64; memory orders.
  `SPMCMoveOnlyQueue` forwards to `SPMCQueue` and has no state.
* `FutureSystem`: `when_all` (does not compile), results moved out twice,
  moved-from futures, promises destroyed without a result (a promise that is
  never set is a behaviour of the model).
* `CircularBuffer`: `size()` and `full()` load by load.
* `CoroutineScheduler`: the constructor, whose workers read the vector it
  still fills; there is no coroutine yet, so nothing but the formal data race
  can come of it. The result that `Task::get` returns.
* `cas.h`: two compare-exchange loops, which `LockFreeStack` and `SPMCQueue`
  contain in a richer form. `ScopeFail` compares the number of exceptions
  in flight at its destructor with the one at its constructor, in one thread;
  the thread performance monitor adds up durations in a map, each operation
  wholly under one mutex.
* The snippets without a protocol (see `PROJECT.json`).

Some of what the code does is reached by the models and exempted by the
properties, because no statement in the repository is against it. The
properties say nothing about:

* a continuation displaced by a later `then`, whose future never becomes ready
  (`ContinuationNotLost`, `ThenCompletes`);
* the inline `get` of `when_any`, line 502: its winner blocks itself, and so no
  continuation reaches line 503. That one of them only would is not shown;
* workers on their way to sleep at `notify_all` (`DestructorReturns` of the
  pool) and threads that use a destroyed worker (that of the scheduler);
* coroutines that suspend more than once (`WaitReturns`), and those in their
  first `delay()`, for which `wait_for_all_tasks` is early
  (`ActiveCoversPending`);
* what follows after a pop went astray, and the loops at lines 65 and 131 that
  may spin for ever (`LockFreeStack` has safety properties only);
* a slot that is never given back, at which `enqueue` spins, and a client that
  produces faster than `stop` drains.

## 7. Plan

All safety properties and refinements of the passing runs are proved. What
would say more:

1. Safety cores of further liveness properties, in the way of
   `OnlyLateSleepersHang`: a sleeper of the adaptive mutex, or a caller of
   `wait_for_all_tasks`, has in each state somebody who can still let it go on.
2. The conditions under which the promise of `LifoStack` never ends: a pop that
   finds the head unchanged at its second load never goes astray, so with the
   `continue` of line 112 leading back to line 103 `astray` would stay false.
   (Its parts are in `LockFreeStackProofs`.)
3. The two uncovered hazards of `CircularBuffer::size()` and of
   `reset_statistics`, which need the loads and stores one by one.
