# Verification of the concurrent core of Bun (ohos-bun)

TLA+ models of the concurrent core of this repository, the TLC configurations
that check them, and TLAPS proofs. This file says what the system consists of,
what is modelled and how it corresponds to the code, what each run and each
theorem shows, and what is left.

Paths below are relative to the repository; `T/` stands for `src/threading/`.

## 1. The system

Bun is a JavaScript runtime, bundler, package manager and test runner in Rust:
about a million lines, nearly all of them sequential transformations of data
(parsers, printers, compilers, bindings). What the rest stands on, and what a
test reaches least, is a small set of hand-written lock-free and futex-based
components in `T/`, the event loop they feed, and the protocols between threads
built on both. The project starts there and follows them outwards: the queue into
a loop, the bundle thread and the VM's life over that queue, and one client that
is a protocol of its own on a single thread.

| Component | State | Operations | Hard part | Correct when |
|---|---|---|---|---|
| `T/Mutex.rs` | futex word, debug owner | lock, try_lock, unlock_raw | park against unlock; barging | exclusion; owner exact; no sleeper without a wake on its way |
| `T/Condition.rs` | packed waiters/signals word, epoch | wait, timed_wait, signal, broadcast | two words, timeout against signal | signals never exceed waiters; every signal is consumed |
| `T/Semaphore.rs` | permits | wait, post | post against a waiter about to sleep | a counting semaphore |
| `T/WaitGroup.rs` | raw_count | add_one, finish_raw, wait | the owner frees it when wait returns | wait returns, and nobody touches it afterwards |
| `T/RwLock.rs` | packed writers/readers/IS_WRITING | lock, unlock, lock_shared, unlock_shared | handing the drained lock to the writer | a writer is alone; everybody gets in |
| `T/ResetEvent.rs` | one word | wait, set | announcing against setting | set releases all, for good |
| `T/ThreadPool.rs` `Event` | one word | wait, notify, shutdown, wake-all | several sleepers behind a word that may say EMPTY | no sleeper is forgotten |
| `T/ThreadPool.rs` pool | packed Sync word, thread stack, join events | schedule, notify, wait, warm, register, unregister, shutdown, join, idle tasks | wake-up throttling, spawn failure, shutdown racing everything, freeing the pool | every task runs; dropping ends; the counts are exact |
| `T/ThreadPool.rs` `node` | tagged stack + cache, ring of 256 | push, consume, pop, steal, overflow | one consumer at a time; thieves copying what may be overwritten | each task in exactly one place |
| `T/unbounded_queue.rs` | back, front, links | push_batch, pop, pop_batch, is_empty | push publishes in two steps; nodes are freed or reused when popped | FIFO, nothing lost, no link into a node that is gone |
| `T/signal_ring.rs`, `src/jsc/PosixSignalHandle.rs` | 16-bit head/tail, slots | enqueue (in a signal handler), dequeue | claimed but unwritten slots | no signal skipped |
| `src/jsc/VmHandle.rs` | state, tickets, active, condition variable | ticket, post, unref_keep_alive, drop, weak post, stop, close_and_wait | a thread that posts against a VM that ends | nothing reaches a VM that is gone, nothing posted is slept over |
| `src/jsc/event_loop.rs`, worker loop | tasks, concurrent queue, keep-alive delta, immediates | enqueue, tick, wakeup, ref/unref, release at teardown | task posted between batch and poll; re-entry | every task run or released once |
| `src/bundler/BundleThread.rs`, `src/runtime/api/js_bundle_completion_task.rs` | queue, waker, stage of each build, ticket | spawn, enqueue, the thread's loop, stop at teardown | a build released while queued; a plugin request whose VM ends | each build run or freed, once; a teardown waits for one build at most |
| `src/runtime/valkey_jsc` | connection state, offline queue, in-flight queue, write buffer, two timers, keep-alive | connect, close, send, socket callbacks, retries | scripts between two replies; retries against timers and close() | no answer for the wrong command; everything settled |
| `src/runtime/timer`, `src/http/HTTPThread.rs`, `src/watcher`, `src/sql_jsc` | heaps, queues, connection states | - | limits, deferred removal | see the plan |

Interactions: `Semaphore`, `WaitGroup` and `Channel` use `Mutex` and
`Condition`; `RwLock` uses `Mutex` and `Semaphore`; the pool uses its own
`Event` and queues; `WorkPool` is one static pool. Pool tasks report to the event
loop through `UnboundedQueue` and a wake-up of the loop, by way of a `Ticket` that
the VM's teardown waits for; signal handlers through `SignalRing`; `Bun.build` goes
to the bundle thread through `UnboundedQueue` and `ResetEvent`, and the bundle
thread asks plugins on the VM's thread by a ticket and gets the answers on its own
mini loop. `PROJECT.json` lists all components, with a reason for each that is
not modelled, and the hazards of this code, each at its line.

## 2. How the models are written

- **Steps.** One action per atomic access or system call. A compare-exchange loop
  is one action: a failed exchange only re-reads the word, and every decision is
  taken on the word as last read. Program counters (`pc`, `at`, `cv`, `ev`) name
  the accesses a thread has ahead.
- **Memory model.** Interleavings, that is, sequential consistency. What the
  code's Acquire/Release annotations add for other memory locations is not
  examined. Where the code's comments argue about reordering (Condition's epoch,
  notify's read-modify-write) the models check the order in which the code does
  its accesses.
- **Futex.** `Futex.tla`, the wake calls of `T/Futex.rs`; in each module `wait` compares
  and sleeps in one step and may return without a wake; `wake(n)` releases up to
  n sleepers, any of them. Timeouts are a return that may happen at any time.
- **Abstraction.** Packed words are split into their fields, because each access
  changes them in one step; the invariants say that no field ever borrows from
  its neighbour. Payloads are model values. Condition's epoch is kept as one bit
  per waiter, "unchanged since I read it".
- **Composition.** A component that another one uses is instantiated step by step
  where its steps matter to the user (the condition variable in the semaphore and
  the wait group, the semaphore in the read-write lock, the reset event in the
  bundle thread, the event in the pool), and by the specification it is shown to
  implement where they do not (`Lock` for the mutex, `Fifo` for the queue).
- **Type invariants.** Most modules state `TypeOK`; the run `rwlock`
  checks it, and for the mutex, the condition variable and the read-write lock it is
  a theorem. The proof modules of the others state the types their invariants need
  (`PoolTypes`, `VmTypes`, `QueueTypes`, `Client`); the runs spend their properties on hazards.
- **Slips.** Definitions called `Slip...` are plausible mistakes in the code (a
  dropped guard, a swapped order). For each property of a passing run one slip
  is substituted for the definition it distorts, and TLC must then find the
  property violated; this shows that the property depends on what the code does.

## 3. Modules

| Module | Models | Notes |
|---|---|---|
| `Futex` | `T/Futex.rs` | which sleepers a wake call may release |
| `Lock` | what a mutex promises | abstract: owner, set of waiters; `LockSpec` adds that a free lock that is waited for is taken |
| `Mutex` | `T/Mutex.rs` FutexImpl inside DebugImpl | `ImplementsLock` by the mapping owner = the thread in its critical section |
| `Condition` | `T/Condition.rs` FutexImpl | its mutex is the abstract lock |
| `CountingSemaphore` | what a semaphore promises | abstract |
| `Semaphore` | `T/Semaphore.rs` | instantiates `Condition`, every step interleaved; implements `CountingSemaphore` |
| `WaitGroup` | `T/WaitGroup.rs`, its owner as in `src/install/PackageInstall.rs` | instantiates `Condition`; the owner adds tasks while others end, waits, and frees the group |
| `RwLock` | `T/RwLock.rs` RawRwLock | its mutex is the abstract lock; instantiates `Semaphore`, every step interleaved |
| `ResetEvent` | `T/ResetEvent.rs` | actions only; used by `BundleThread` |
| `Event` | `T/ThreadPool.rs` Event | actions only; used by `ThreadPool` |
| `ThreadPool` | `T/ThreadPool.rs` Sync word, scheduling, worker loop, shutdown, join | instantiates `Event` for `idle_event`; queues are sets of tasks |
| `RunQueues` | `T/ThreadPool.rs` mod node with schedule_impl's and Thread::pop's use of it | what `ThreadPool` abstracts to sets |
| `Fifo` | what a queue into a loop promises | abstract: the items in the order of their pushes, and the pushes not yet linked, behind which a consumer may find the queue empty |
| `UnboundedQueue` | `T/unbounded_queue.rs` | implements `Fifo` |
| `BundleThread` | `src/bundler/BundleThread.rs`, `js_bundle_completion_task.rs`, the plugin requests of `bundle_v2.rs`, `MiniEventLoop.rs` | over `Fifo` and the detailed `ResetEvent` |
| `VmHandle` | `src/jsc/VmHandle.rs`, `event_loop.rs`, the worker's loop of `web_worker.rs` and `VirtualMachine.rs` | over `Fifo` |
| `Valkey` | `src/runtime/valkey_jsc/valkey.rs`, `js_valkey.rs` | one record, functions from clients to clients |
| `ConditionProofs`, `RwLockProofs`, `ThreadPoolProofs`, `RunQueuesProofs`, `BundleThreadProofs`, `VmHandleProofs`, `ValkeyProofs` | theorems about the module named | section 6 |
| `ThreadingProofs` | theorems about `Mutex`, `WaitGroup` and `UnboundedQueue` | extends the three, which do not use each other; that is why two of them call their specifications `MutexSpec` and `GroupSpec` |
| `MC*` | instances for TLC | no definitions but symmetry sets, the functions given to constants and, in `MCThreadPool`, a start state that warm(3) reaches (`Settled`), and in `MCThreading` the choice of the component that is used |

Correspondence of the larger ones:

- **Mutex.** `state` is the word (0, 1, 3), `lockingThread` the debug owner.
  lock is `LockCall` (with the "Deadlock detected" panic), `TryLockSucceeds`/
  `TryLockFails`, `LoadState`, `SwapContended`, `FutexWait`, `StoreOwner`;
  unlock is `ClearOwner`, `Release`, `FutexWake`. The macOS and Windows backends
  are calls of the system's lock.
- **Condition.** `waiters` and `signals` are the halves of the state word,
  `toWake` what a wake() has reserved. wait loads the epoch, joins the count,
  unlocks, sleeps, and consumes a signal or times out; wake reserves, bumps the
  epoch and calls the futex.
- **WaitGroup.** The owner is `NewTaskQueue` of the package manager: push is `AddOne`
  (add_one) and `ScheduleTask`, wait is `WaitBegins` and then the loop `Block`,
  `FreeGroup`. `FinishSlow` reads a count of one and `FinishLast` decrements under the
  mutex; an `AddOne` may come in between.
- **ThreadPool.** `sync` is the Sync word by field. `at` of a worker follows
  `Thread::run` (register, wait, pop from own queue, global queue, the steal
  scan over the thread stack, execute, drain of idle tasks, unregister, the chain
  of `.next` links); `at` of the owner follows warm, schedule, wake_for_idle_events,
  shutdown, join and the free. `waking` and `isIdle` are the locals of the same
  names; `ev` is where a thread is inside `Event`. Thread creation may fail where
  `SpawnMayFail`. Each `join_event` has one waiter and one notifier and is a flag.
- **RunQueues.** `queue[q]` holds a `Queue`'s tagged word (stack, HAS_CACHE,
  the holder of IS_CONSUMING) and its cache; `head`, `tail`, `array` are a
  `Buffer`. Indexes are taken modulo `IndexMod`. A steal is four steps (load head,
  load tail, copy, commit), and the owner's push writes slots before it publishes
  the tail.
- **UnboundedQueue.** `front`, `back` and `next` are the pointers. A push is `Push`
  (the swap of the back) and `Link` (the store into the old back or the front).
  pop and pop_batch are one action per access; the consumer is the one thread of
  the loop, as everywhere in the repository. A node that was popped may be pushed
  again at once, so that a late link would hit a live node. The mapping to `Fifo`
  follows the stored links and those that producers are about to store.
- **BundleThread.** `once`, `ready` and `at` are the singleton's OnceLock and its
  reset event; `waker`, `items` the bundle thread's own; `task[b]` a
  JSBundleCompletionTask with its `stage`, its ticket, its JavaScript side and its
  request to a plugin; `mini` the wake-up of the pass's loop. The VM's thread is
  `vm[v]`: schedule and enqueue, the hop to the plugin and its answer,
  on_complete, and the teardown (stop_for_vm_teardown for each build that is
  registered, then the wait for tickets with the release of what is queued). A
  pass does nothing but ask its plugin and wait; `IsDone` leaves out
  drain_deferred_tasks (`src/bundler/bundle_v2.rs:2218`), which only puts off the end of
  a pass to make more requests of the kind there is. NothingTouchedDead does not cover
  the read of remark 2.
- **VmHandle.** `js` is the VM's thread: tick with its refills, auto_tick with the
  poll, on_before_exit (which shares the loop's actions, told apart by `turned`),
  then shutdown, close_and_wait and the release of queued tasks. A job is a ticket
  with one completion; it gives its keep-alive back either from the pool
  (unref_keep_alive) or when its completion runs. A poster passes the gate of
  weak posts. `Parent` is `WebWorker::request_termination`. deliver is three steps
  (push, link, wake); its last one reads the state and wakes in one step, since
  both wakes persist; request_termination's flag and stop are one step, being
  under the handle's lock. pop_batch is two steps: its two swaps fix
  what is in the batch (`BatchCut`), and its walk takes that once the links are there,
  while others push. Left out: the macro loop (the same queue again),
  Ticket::clone, weak keep-alive changes, IsolatedPoster, the debug test gate. Also
  the conjunct `unhandled_error_counter == 0` of the loop's test
  (`src/jsc/VirtualMachine.rs:1338`) and the worker's own process.exit: in a worker an
  unhandled error and process.exit both end in request_termination
  (`src/jsc/web_worker.rs:1111`, `:1262`), which the model lets happen at any time.
- **Valkey.** `c` is the client. Each function of valkey.rs that changes it is an
  operator; an action is a callback of the event loop or a call of a script. on_data
  is `Data`, then `Reply` and `Continue` for each reply, with scripts able to run in
  between (`c.in`). The server answers in order; a dial, a write, a connection or a
  handshake may fail, and a timer fire, `MaxFaults` times in all. Automatic
  pipelining is on. The scripts of onclose and of rejected promises run after the
  callback that caused them instead of inside it. The fail() of a reply that cannot be
  read or handled (valkey.rs:792, 806, 814, 862, 873) is the same `Fail` that the idle timer
  and a failed SELECT make, and has no action of its own; nor has the HELLO reply
  that does not convert to a JavaScript value in on_valkey_connect, which fails and
  closes the connection as a failed handshake does.

## 4. Runs

All runs but `pool_free` and `pool_late` pass. CHECK_DEADLOCK is off where the system
comes to rest (all tasks done, pool dropped, every command settled).

| Run | Instance | Question and answer |
|---|---|---|
| `threading`: mutex | 4 threads | Exclusion, exact debug owner, no stranded sleeper, refinement of `Lock` with its progress clause; everyone who locks gets in if nobody barges for ever. Four threads give one holder, one being woken, one parking and one barging. |
| `threading`: wait group | 4 tasks, 2 counted at the start and 2 added by the owner while the others end; 3,552 states | wait returns, and then no task is to come or has an access to the group ahead; the owner does not sleep on a count of zero that nobody will tell it of. Two and two make finishers that read a count of one and are overtaken by an add, twice, so that their signals are posted while the last one is to come. |
| `threading`: queue | 3 producers, 3 nodes, 1 consumer that pops and takes batches; 20,674 states | Refinement of `Fifo`; no link is stored into a node that has left; whatever is pushed is popped. Three producers give a stored link, a published one behind it, and one behind that. |
| `condition` | 4 threads, one timed | Signals never exceed waiters; a posted signal has somebody who will look at it; every posted signal is consumed. Four give two waiters, a late waiter and a signaller, or two signallers. |
| `rwlock` | 4 threads, each reader or writer as it likes; 65,953 states | A writer is alone; permits match the drain; every call returns once new callers stay away; the semaphore inside, with its mutex and condition variable step by step, implements the counting semaphore, its progress clause included. The lock uses at most one permit and one waiter, so the semaphore never has a permit to pass on. Four give two readers, a writer that drains them and a writer behind it. |
| `pool_work` | 2 workers, 1 warmed, 3 tasks, 1 forks | The Sync word tells the truth about idle, waking and spawned; queued work always has someone awake or a wake-up on its way; no forgotten sleeper; every task is executed. |
| `pool_drop` | 2 workers, spawn may fail, 1 idle task, pool dropped with work queued | The join chain starts after every worker has unregistered (the last may still have its join_event.notify() to make: the first finding); unless a notify comes late, the drop ends with all workers gone and the idle task is run. |
| `pool_end` | 3 workers asleep on the idle event, 1 task, pool dropped; 130,764 states | Unless a notify comes late, the drop ends with all workers gone: the shutdown reaches those who sleep behind an EMPTY or NOTIFIED word too. Three give one that takes a token, one that notifies and one that sleeps. |
| `run_queues` | 2 workers, ring of 3, indexes modulo 12 starting at 11, 5 tasks in batches of 1 and 4 | Every task is in exactly one place whatever interleaves; the ring stays within bounds; HAS_CACHE agrees with the cache. The ring overflows (batch of 4 into 3), the indexes wrap, both workers steal, and a thief meets a moving owner. Thief against thief, which needs a third worker, rests on the theorem `EveryNodeInOnePlace`. |
| `bundle_thread` | 2 VMs, 1 build each with a plugin request; 146,967 states | Nobody touches a task, VM, waker or pass that is gone; a teardown waits for no build but the one in hand; every build is freed and every teardown returns. Either VM may be torn down at any step, before its build is claimed, while it runs, and while its request is out. |
| `vm_life` | 2 jobs, one of each way to give back its keep-alive, 1 poster, 1 refill, a parent that may terminate; 617,232 states | Nothing reaches the VM after its teardown; a worker that ends by itself has run every completion; nothing posted is slept over, in the poll or in the teardown's wait, and a teardown returns. |
| `valkey` | 2 commands that pipeline and 1 that does not, a database, 2 faults, 1 retry, 2 calls of connect or close; 150,696 states | The commands in flight are those whose answers are to come on this connection; calls keep their order; the event loop is kept alive exactly while something is to come; every command and every connect() is settled. Two faults with one retry reach the last retry and its end; two calls give close and connect between two replies of one read. |
| `pool_free` | 1 worker, pool dropped | **Violation** of `NoUseAfterFree`: the first finding. |
| `pool_late` | as `pool_end` | **Violation** of `DropReturns`: the second finding. |

`threading` checks the three components that do not use each other in one run of 33,729
states (`MCThreading`): each behaviour uses one of them while the others are at rest.

"Late" is `LateNotify`: a worker that decided to notify before the shutdown makes its
swap after the shutdown's. `DropReturnsUnlessLate` and `IdleTasksRun` have its absence
as their premise; `DropReturns` has not, and fails.

### Fairness

Weak fairness of a thread's own next step inside a call: an operating system
thread that can run is run again, and callbacks and critical sections end. No
fairness on starting a call, on spurious futex returns or timeouts, or on a
spawn failing, so no liveness result depends on these. In modules that take the mutex as
`Lock`, weak fairness of "somebody who waits takes the free lock" is assumed;
it is `Lock`'s progress clause, which `threading` checks of the detailed mutex. That
is weaker than every locker getting in, which this mutex does not promise
while others barge.

Module by module, beyond that:

- `WaitGroup`: the owner comes to its wait, and every task that was counted ends.
- `UnboundedQueue`: the consumer keeps asking (a loop that runs), and its
  compare-exchange in pop is not overtaken for ever (strong fairness).
- `BundleThread`: both threads go on, and a plugin answers as long as its VM runs,
  which is the plugin's part; no VM has to build anything or end.
- `VmHandle`: a notifier that keeps finding the teardown's lock free gets it
  (strong fairness, the mutex's progress; the teardown gives it up in each wait).
  The 1 s timeout of the wait has no fairness, so that no result leans on it.
- `Valkey`: the event loop, the network and the server get round to everything
  (one weak fairness condition for all callbacks). Faults and script calls need
  never happen and are bounded.

### Findings

**The last worker touches a freed pool** (`T/ThreadPool.rs:1014`). Between the
worker's `fetch_sub` and its `join_event.notify()`, join() sees spawned = 0,
skips the wait and returns.

**A late notify erases SHUTDOWN** (`T/ThreadPool.rs:1451`). The swap in `Event::wake`
ignores the old value. A worker that decided to notify before the shutdown and swaps
after it replaces SHUTDOWN by one token. Of three workers one takes the token and leaves
WAITING in the word; another one parks on that for good, and join() with it. The
doc of `Event` (`:1342`) says that after shutdown() every wait() returns immediately.

### Remarks

What modelling showed beside them. No run claims these.

1. A failed spawn strands the queue (`T/ThreadPool.rs:823`). notify_slow undoes
   the spawned count but leaves `notified` and SIGNALED. With no other worker, the
   task stays queued and later schedules return on the fast path. `pool_work` has
   no spawn failures for that reason.
2. `MiniEventLoop::enqueue_task_concurrent_with_extra_ctx` pushes and then reads
   the loop pointer from the mini loop (`src/event_loop/MiniEventLoop.rs:383`). A
   pass that takes the task in between may end first, and its mini loop is on
   its stack (`src/runtime/api/js_bundle_completion_task.rs:1245`). The model lets
   the wake-up come late and shows that nothing else depends on it.
3. When a VM cancels the build that runs, it and the build may each miss the
   other's store (`js_bundle_completion_task.rs:614` and `:1250`). No harm comes of
   it in the model: the answers of the released requests wake the pass.

Three more: a broadcast's
signal may be consumed by a waiter that arrived after it (`T/Condition.rs:390`,
compare `:128`); a reader on the slow path may overtake a pending writer
(`T/RwLock.rs:92`, compare `:133`); `wake_for_idle_events` wakes all sleepers but
leaves one token, so a worker may go back to sleep without looking at its idle
queue (`T/ThreadPool.rs:290`), which is why `IdleTasksRun` is checked with the
pool's drop following. It is checked with two workers.

## 5. What the runs do not show

Bounds: the number of threads and tasks above; a semaphore's permits; each task is
scheduled once; a pool is dropped once, and the runs with three workers start where
they all sleep and schedule one task before the drop; a job, a poster and a build post once; a
build asks one plugin question; the faults, calls and commands of `valkey`. The 32-bit epoch of `Condition` and the
32-bit indexes of a ring may in theory come round to a value a sleeping thread
remembers; neither is modelled. Weak memory, priorities and the latency of futex
calls are outside the models.

## 6. Proofs

Every theorem is `Spec => []P` (`MutexSpec` in `Mutex`, `GroupSpec` in `WaitGroup`, and
`Safety` in `ThreadPool`, its specification without fairness) for a type invariant or a property `P` that a run checks, unless the table says otherwise, and
holds for every value of the constants that satisfies the module's named assumption.

| Module | Theorem | States |
|---|---|---|
| `ThreadingProofs` | `MutexTypeCorrect`, `MutexExcludes`, `OwnerIsExact`, `SleepersAreSeenTo` | TypeOK, MutualExclusion, OwnerExact, NoStrandedSleeper of `Mutex` |
| | `RefinesLock` | `MutexSpec => LockAbs!LockSafety`: the safety part of the refinement |
| | `WaiterIsSeenTo`, `GroupMayBeFreed` | NoForgottenWaiter, NoUseAfterFree of `WaitGroup` |
| | `GroupSignalsAreSeenTo` | `GroupSpec => []CP!NoStrandedSignal`: the condition variable inside the group |
| | `QueueLinksStayInside` | LinksStayInside of `UnboundedQueue` |
| | `QueueImplementsFifo` | `Spec => ImplementsFifo`: the whole refinement of `Fifo`, which has no progress clause |
| `RwLockProofs` | `LockTypeCorrect`, `WriterIsAlone`, `PermitIsForTheDrain` | TypeOK, WriterAlone, PermitsMatchDrain |
| | `SemaphoreIsCounting` | `Spec => S!Abs!SemSafety`: the semaphore, step by step inside the lock, implements the safety part of `CountingSemaphore` |
| `ConditionProofs` | `ConditionTypeCorrect`, `SignalsAreCovered`, `SignalsAreSeenTo` | TypeOK, SignalsCovered, NoStrandedSignal |
| `ThreadPoolProofs` | `IdleSleepersAreSeenTo`, `SyncWordIsTrue`, `JoinWaitsForAll` | SleepersSeenTo, SyncConsistent, ChainAfterAll |
| | `QueuedTasksAreSeenTo` | `~SpawnMayFail => (Safety => []NoStrandedTask)` |
| `VmHandleProofs` | `TeardownIsFinal`, `NaturalExitLeavesNothing` | NothingAfterTeardown, NaturalExitRunsAll |
| `RunQueuesProofs` | `ConsumersAreExact` | CacheBitExact |
| | `RingsAreWithinBounds`, `EveryNodeInOnePlace` | `Spec /\ [][HeadsMoveOn]_vars => []P` for RingWithinBounds, ExactlyOnePlace |
| `BundleThreadProofs` | `NobodyTouchesTheDead`, `TeardownWaitsForOneBuild` | NothingTouchedDead, TeardownWaitsOnlyForStarted |
| `ValkeyProofs` | `ValkeyInFlightMatchesWire`, `ValkeyCallOrderKept`, `ValkeyAliveForAReason` | InFlightMatchesWire, CallOrderKept, AliveForAReason |

### Assumptions

- The mutex is proved for any set of threads. Where counts matter the set of threads
  (jobs, posters, workers) is finite; names of absence (`NoThread`, `Nobody`, `Nil`,
  `Global`) are not names of threads or nodes.
- `RunQueues`: the capacity is positive and divides the number of indexes, which
  is larger (256 and 2^32 in the code). Any number of workers, nodes and batch sizes.
- `UnboundedQueue`: any producers and a finite set of nodes, which `NULL` is not in.
- `Valkey`: automatic pipelining on; any set of commands, any subset of them pipelined, with or without database and
  idle timeout, any limits; the handshake's requests are not commands.
- `BundleThread`: any VMs, any builds, any owner of each; `None` is no build and no
  holder of a ticket.
- `~SpawnMayFail` for NoStrandedTask only: with failures it is false (remark 1).
- `HeadsMoveOn`: between the loads of a steal and its compare-exchange, the
  victim's head, once moved, does not come back to the value that was loaded. The
  code relies on this (2^32 nodes would have to pass in between); without it the
  exchange would accept a stale copy. It is a condition on behaviours, not on
  constants, because tasks may go from ring to ring by stealing. No behaviour of
  the `run_queues` instance breaks it. `ConsumersAreExact` does not need it.

### The arguments

- **Mutex.** `SafetyInv` is the conjunction of the four invariants.
  `MutualExclusion` ties the word to the presence of exactly one holder, so that a
  swap or exchange that finds UNLOCKED proves that nobody holds. `OwnerExact` is not
  inductive without it: a thread that stores or clears its name leaves the others'
  names right only if it is the only holder. `NoStrandedSleeper` survives a release
  because whoever was to wake or swap is not the releasing thread. `RefinesLock`
  uses `SafetyInv` before and after the step: at most one thread holds, so the
  abstract owner, a CHOOSE, is the thread that moves.
- **Condition.** NoStrandedSignal only says that somebody is on the way to the
  signals, which the next consumer could falsify. What is inductive is a count:
  every posted signal is matched by a waiter that will look at the signals again or
  by a wake still owed to the futex (`Matched`), and every signal whose epoch has
  changed by a waiter that the change reaches (`Reached`). The second is what a wake
  that finds fewer sleepers than it reserved leans on.
- **WaitGroup.** Every step is a step of the condition variable or leaves it alone,
  so its invariant carries over by an instance of `ConditionProofs`. `TaskPlace` says
  where a finisher can be in the mutex: from its last decrement to its unlock it
  holds it, so the owner's wait cannot return in between. `CountExact` makes raw_count the
  number of tasks that have not published their end, those the owner is still to schedule
  included, so that zero means all. For NoForgottenWaiter, the owner asleep has seen a
  count above zero; when the last decrement comes, that task owes a signal
  (`SignalOwed`), and when it signals it posts one or finds one posted for every
  waiter, which the condition's invariant says somebody sees to: the owner is the only waiter.
- **RwLock.** That a writer is alone rests on the permit. `DrainExact`: a permit or a
  post on its way exists exactly when a marked writer needs one and the last reader
  has left. `WordExact` ties the packed counts to the threads they count, `MutexHeld`
  gives one marked writer at a time, and Condition's `CoreInv` is needed for the
  semaphore's own mutex.
- **ThreadPool.** `SyncInv`: the event's own invariant, where a thread can be in the
  event, and the word's fields as counts of threads (`StateExact`, `IdleExact`,
  `SpawnedExact`). `StateExact` says more than SyncConsistent: in state Waking the
  one waking thread is on the way to read the word again. `WorkInv` adds who sees
  queued work: a worker's own queue (`LocalSeen`), the global queue (`GlobalSeen`), the
  notified bit (`NotifiedSeen`); a worker that gives up searching does so by an
  exchange that would have seen the bit. `JoinExact`: past the last unregister
  nobody is alive or about to be started.
- **VmHandle.** `TeardownInv`: tickets and active are the numbers of those who hold a
  ticket or are inside the gate (`CountsExact`), the state says where the teardown is,
  and what is unlinked belongs to a thread at its link, so that the last batch takes
  all. `ExitInv`: references and their pending delta together count the jobs whose
  keep-alive is out (`KeepAliveExact`), which neither does alone, and every queued task
  is once in one of the three lists (`OncePerTask`).
- **RunQueues.** Three layers. `QueueInv`: types, one consumer per queue and which
  worker it is, and a count of claimed nodes that fits. `Rings`: what each ring's owner
  knows about its head and tail at each step of push, consume and steal; in particular
  a thief whose exchange will succeed has counted no more than the victim has. These
  need the arithmetic of wrapping indexes, from remainders up. `PlaceInv` adds
  where the nodes are. Seven kinds of place hold a list (`Pile`): a queue's stack and
  cache, a worker's ring, list, chain, claimed slots and the node in hand. `Kept`:
  what is at a place is scheduled and not run (`Stored`), what is scheduled and not run
  is at a place (`NoneLost`), no node is twice at one place or at two (`Apart`), none runs
  twice (`RanOnce`). `Hands` says what the locals mean in the middle of a call: what was
  written behind the tail is the beginning of the list, and what was copied is what the
  victim still has, as long as its head is the one loaded. Each operation moves
  lists among at most three places (`Regroup` and its cases), one lemma for each.
  ExactlyOnePlace itself counts occurrences in sums and is far from inductive; the last
  lemmas turn the places into those counts.
- **UnboundedQueue.** The state variables hold pointers only, so the invariant has to say
  what they stand for: there are a sequence q of distinct nodes and a number k, how many
  the consumer has cut off, that all of them spell (`Spelled`). Every push under way is of
  a node of q, behind the node before it (`Pushes`); the links are those of q but for the
  pushes under way (`Links`); `Ends` and `Locals` say where front, back and the consumer's
  locals point. `ChainIs` and `SpelledQueue` show that the q of the invariant is the
  sequence the refinement mapping computes. The mapping and the batch that pop_batch
  returns are recursive functions; that they are what the invariant says is shown by the
  least position where they could differ (`LeastNumber`, from `WFMin`: a theorem about
  sets, which the provers can use where the induction theorems with an operator parameter
  cannot). Each access then has a lemma of its own, which gives the sequence after it.
- **Valkey.** `ClientInv`. InFlightMatchesWire is not inductive without where the
  connection is: what the status says of socket, timers and failure (`StatusFits`), that
  nothing is left of a closed connection and nothing but the handshake is written before
  its end (`WireFits`), and that on_data reads on only on the socket its replies came from
  (`DataFits`); a script between two replies may have closed that socket and opened
  another. `OrderFits` is CallOrderKept. `LoopFits` adds to AliveForAReason that a command
  that could go out has its flush registered. The functions of the client are proved about
  any record that `Fits`, one lemma each (`Over` and `Shut` say what the end of a connection
  leaves behind); the callbacks compose them, one lemma per action.
- **BundleThread.** `BuildInv`. A build's stage decides who may free it and its ticket
  who must wait for it (`StageMatches`, `HeldMatches`): not started, it is registered with
  its VM, which therefore has not begun to drain; taken back, its VM's thread is at the
  release and nobody else frees it before ReleasedUnstarted; started, it has a ticket as
  long as the bundle thread has it in hand, and from then on a note in its VM's queue
  until it is freed. NothingTouchedDead is not inductive without where the others have
  a build: at most once in the queue and not in hand then (`ItemsMatch`), what each VM's
  thread is doing to which build (`VmMatches`), and what the notes in a VM's queue mean,
  one question per build at most (`NotesMatch`). `StartMatches` follows the waker from the
  bundle thread's start through ready_event and the OnceLock to the first enqueue.

### Only model-checked

Liveness of every module and the progress clauses of the refinements (fairness and
ENABLED are out of the prover's reach). Every safety invariant that a passing run checks has a
theorem. `GroupSignalsAreSeenTo`, `SemaphoreIsCounting` and `RefinesLock` have no safety
run of their own; the refinement runs check the last two together with their progress
clauses.

## 7. Not modelled, and the plan

The great part of the repository is compilers, parsers, printers, bindings and
wrappers of system calls: sequential code over unbounded data, which small
instances say little about and which its tests reach well. `PROJECT.json` gives
the reason for each component. Of the components modelled in part: the event
loop without immediates, yield tasks, microtasks, the GC timer, signals and the
main thread's exit; the mini loop only as the bundle thread's pass uses it; the
Valkey client without TLS, subscriptions, replies in pieces, the finalizer and the
VM's shutdown.

What comes next, by importance; the number of runs is kept at a dozen by composing
components rather than adding instances:

1. `SignalRing` and `PosixSignalHandle` as a source of `VmHandle`'s loop; immediates
   and their re-entry; `Channel` over `Condition`.
2. Timers (heap order and rescheduling from callbacks), the HTTP thread's queue
   and limits, the watcher's deferred eviction, the SQL clients' request queues.
