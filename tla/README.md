# A TLA+ model of galay-kernel

galay-kernel is a C++23 coroutine runtime: schedulers that resume coroutines,
an I/O event loop, timers, a pool for blocking calls, and the mutex, channels
and waiter coroutines synchronise with.  This directory holds TLA+ modules for
its concurrent core, the configurations TLC checks them with, and proofs TLAPS
checks.  Paths below are relative to `src/galay-kernel/`; `PROJECT.json` gives
for every definition the lines it models, for every run its properties, and
the findings and hazards by line.

    tlc -workers 2 -config AsyncMutex.cfg MCAsyncMutex
    tlc -workers 2 -config ReadinessIO.cfg MCReadinessIO
    tlapm --threads 4 QueueProofs.tla

## The system

| Part | State | Operations | Talks to |
| --- | --- | --- | --- |
| Runtime (`kernel/runtime.*`) | `m_running`, the scheduler vectors, two round-robin indices | `start`, `stop`, `blockOn`, `spawn`, `spawnBlocking` | schedulers, timer thread, BlockingExecutor |
| ComputeScheduler (`kernel/compute_scheduler.*`) | `m_running`, `m_queue`, the worker thread | `start`, `stop`, `schedule`, `scheduleDeferred` | tasks |
| IO schedulers (`kernel/io_scheduler.hpp`, `scheduler_core.h`, `sched_loop.hpp`, `wake_coordinator.h`, `epoll_scheduler.*`) | LIFO slot, ring, inject queue, counters, sleep and wake-up flags | `schedule`, `scheduleDeferred`, ready passes, stealing, poll, `stop` | tasks, reactor, timer wheel, sibling schedulers |
| Ready ring (`ChaseLevTaskRing`) | `m_head`, `m_tail`, 256 slots | `push_back`, `pop_back` by the owner, `steal_front` by siblings | two schedulers |
| Tasks (`kernel/task.*`) | `m_done`, result, `m_next`, `m_then`, waiter | completion, `co_await`, `then`, `wait`, `join` | schedulers, joining threads |
| Waker, WaitRegistration (`kernel/waker.*`, `wait_registration.h`) | `m_queued`, waiter slot | `wakeUp`, `arm`, `consumeWake` | all primitives below |
| AsyncMutex (`concurrency/async_mutex.h`) | `m_locked`, queue of waiters | `lock`, `unlock` | wakers, timers |
| MpscChannel (`concurrency/mpsc_channel.h`) | `m_size`, queue, prefetch buffer, waiter | `send`, `sendBatch`, `recv`, `recvBatch`, `tryRecv` | wakers, timers |
| UnsafeChannel (`concurrency/unsafe_channel.h`) | queue, waiter, wake threshold | `send`, three receive forms | wakers, timers |
| AsyncWaiter (`concurrency/async_waiter.h`) | `m_ready`, `m_waiting`, result | `notify`, `wait` | wakers, timers |
| WithTimeout (`kernel/timeout.hpp`) | timer flags | arm, expire, cancel | every awaitable |
| Timer wheel of a scheduler (`common/timer_manager.hpp`) | five wheels, `m_currentTick`, `m_size` | `push`, `tick`, cancel | IO scheduler loop |
| Timer thread (`common/safetimer_mgr.hpp`, `kernel/timer_scheduler.*`) | the same, pending queue and its counter | `addTimer`, `tick`, `stop` | compute tasks |
| BlockingExecutor (`kernel/blocking_executor.*`) | task queue, worker counters | `submit`, worker loop, destructor | `spawnBlocking` |
| Reactors (`kernel/epoll_reactor.*`, `uring_reactor.*`, `kqueue_reactor.*`) | registrations, pending changes, events | add, remove, poll | IO scheduler, IOController |
| IOController (`kernel/io_controller.hpp`) | awaitable slots, sequence owner, ready chunks, tokens | fill, remove, move, consume | reactors, awaitables |
| Awaitables (`kernel/awaitable.*`) | sequence steps, state machines | suspend, pump, resume | IOController |
| Sockets, files, watcher (`async/*`), buffers, strategies, errors (`common/*`) | little of their own | wrappers | awaitables |

What makes this code hard to test: coroutines are resumed by wake-ups that do
not say what they are for, so that a late one resumes whatever the coroutine is
suspended in; flags and counters are updated apart from the queues they
describe; sleeping and waking race; timers fire on the same thread as the
coroutine (IO scheduler) or on another (compute scheduler); queues and rings
are bounded; start and stop overlap with calls.  `PROJECT.json` lists these
hazards at the lines where they bite.

## Conventions

* Variables, and definitions where TLA+ allows it, carry the names of the code.
  `pc`-like variables hold labels between the atomic steps of an operation.
* Every atomic access to shared state is a step of its own; code between two of
  them that only touches the thread's own state belongs to the step before.
  Steps interleave sequentially consistently.  The code orders most accesses
  with acquire/release or seq_cst read-modify-writes; reorderings the memory
  model allows beyond that are not modelled.
* `moodycamel::ConcurrentQueue` is external: one FIFO per producer in
  MpscChannel, any queued item first in AsyncMutex and ComputeScheduler, and one
  FIFO in IOScheduler and SafeTimer (there the order between producers is not
  observable by the properties).
* A wake-up (`Waker::wakeUp`, `requestTaskResume`) sets `m_queued` of the
  coroutine, if it is clear, and the scheduler later resumes the coroutine where
  it is suspended by then.  This is how the code works, and the origin of
  several of the disagreements below.
* `Name_Variant` beside `Name` is the same code with one plausible fault.  It
  belongs to no specification; with it in place of `Name` a property of some run
  fails, which shows that the property depends on that code.
* There is one run per component or composition, `X.cfg`, with its safety and
  liveness properties together; what a program may choose once (a back end, a wake
  mode, the value or the void form, spawned or awaited, the awaitables a coroutine
  uses) is chosen in `Init`, so that one run covers all forms.  `Coroutines` and
  `Structures` put several small components into one run: `part` says which of
  them a behaviour is about, the others do not move.  `MCX.tla` exists where a
  run needs that, a symmetry set, or a structured value as a constant.  Bounds are
  constants with "bound" in their comment or listed below.
* In the I/O modules a reactor call is an operator from a record to a record: `w`
  in ReadinessCore and UringReactor bundles the variables a call sees.  The action
  around it takes the record apart again.

## Modules

**BlockingExecutor** (`kernel/blocking_executor.cc`).  A worker is named after the
task it was started for.  `Submit` is the critical section of `submit` with its
three outcomes; notifying and starting the thread come after it.  Workers wait
with or without the keep-alive deadline; `WakeUp` re-acquires the mutex and
evaluates the predicate of the wait, spurious wake-ups included, and `Relock` is
the loop head a worker comes back to after a task.  `Destroy` may come at any
time.  **WorkerPool** is what the callers see of it, which `AcceptedRunsOnce` checks it to
implement: a task is refused only by a pool that stops, an accepted one runs once, no
more than `m_maxWorkers` run together, and the destructor returns after all of them.
Proofs: `TaskProofs`.

**AsyncMutex** (`concurrency/async_mutex.h`, `kernel/timeout.hpp`).  A waiter
record is the pair of a coroutine and the number of its `lock()` call.  `unlock`
is seven steps; `handleTimeout` three.  `Timed` is the set of coroutines that use
`lock().timeout()`.  `TimerOnOwnThread` says whether timers
fire between resumes of their own scheduler (IO scheduler) or at any time
(compute scheduler).  Proofs: `SyncProofs`.

**MpscChannel** (`concurrency/mpsc_channel.h`, `kernel/wait_registration.h`).  The
stages of an await (`await_ready`, `await_suspend` before and after publishing the
waiter, `await_resume`) each call `tryRecv` or `tryRecvBatch`, whose steps are
`Check`, `Take` and `Settle`.  The bulk dequeue and the prefetch are one step, and
the decrements of a batch's cached messages are merged with that of the batch:
only the consumer takes messages, and producers read `m_size` only through the
value their own increment returns.  Proofs: `MpscChannelProofs`.

**AsyncWaiter** (`concurrency/async_waiter.h`).  `hasValue` selects the value form,
whose assignment of `m_result` takes time (a reader may see a torn value), or the
void form.  Proof: `SyncProofs`.

**UnsafeChannel** (`concurrency/unsafe_channel.h`).  All on one thread: a send, a
timer or a resume is one step.  `m_wakeMode` is inline (`send` resumes the
consumer) or deferred.  Proofs: `QueueProofs`.

**ChaseLevTaskRing** (`kernel/io_scheduler.hpp`).  One step per access to `m_head`,
`m_tail` and the slots.  `overwritten` records the tasks a push has met in a slot
that was not empty.  Proofs: `QueueProofs`.

**IOScheduler** (`kernel/io_scheduler.hpp`, `scheduler_core.h`, `sched_loop.hpp`,
`wake_coordinator.h`, `epoll_scheduler.cc`, `epoll_reactor.cc`).  One scheduler:
its loop thread with the passes, the counters and budgets, poll with the eventfd,
injecting threads with their three-step wake-up, `stop`, thieves (`Stolen`) and
its own stealing.  `Remote` are the tasks other threads schedule, `Yielder` those that
co_yield, `Sleeper` those that suspend and are woken again, any number of times.  Here the
ring is a sequence, since ChaseLevTaskRing covers its inside.  Proofs: `IOSchedulerProofs`.

**TaskCompletion** (`kernel/task.h`, `task.cc`).  One task with a parent that
co_awaits it or threads that wait for it, and a continuation.  `stolen` says that a
sibling scheduler runs the parent.  Proof: `TaskProofs`.

**TimerWheel**, **TimingWheel** (`common/timer_manager.hpp`), **SafeTimer**
(`common/safetimer_mgr.hpp`, `kernel/timer_scheduler.cc`).  TimerWheel is what both
managers have line for line: the variables of the wheel, its geometry over any
sequence of level sizes, the cascade and the turn of a tick.  The other two are the
managers, whose rounding, rebasing and cancellation differ.  `early` records by how
much a timer was handled too early, `behind` the timers added when `m_currentTick`
lagged by more than the slack of their slot.  Proofs: `TimerLemmas`, `TimerProofs`.

**ComputeScheduler** (`kernel/compute_scheduler.cc`) and **Runtime**
(`kernel/runtime.cc`).  ComputeScheduler has the state and the steps of the members
of a set of schedulers; Runtime instantiates it and composes its steps with those
of `blockOn` in several client threads and of `stop()`.  The runtime is one
configured without IO schedulers: `acquireDefaultScheduler` prefers compute
schedulers and would fall back to an IO scheduler.  Proofs: `RuntimeProofs`.

**IOOperations**, **KernelSocket** (`kernel/io_handlers.hpp`, `common/defn.hpp`).  The
twelve operations, their slots, and what each handler makes of a system call's
answer: done, failed, or not ready.  KernelSocket is external: a descriptor with
received bytes (numbered in the order the peer sent them), end of stream, an error,
room in the send buffer and a connection state.  For `watch()` the bytes are inotify
events: a read takes as many as fit, and `Reported` says that the first is all the user
gets.

**IOController** (`kernel/io_controller.hpp`, `kernel/awaitable.h`).  Two slots, each
with the awaitable stored in it and the sequence that owns it; claim, release, the
interest and armed masks, and what `close` resets.

**StateMachineAwaitable**, **SequenceAwaitable** (`kernel/awaitable.h`).  The pump over the
LinearMachine that `AwaitableBuilder` builds, and the ring of steps.  The user's
handlers are one flow, the one the guides show: it reads frames of `FrameSize` bytes,
asks for more when it has too few, and finishes after `Frames` frames, or writes.

**ReadinessCore**, **EpollReactor**, **KqueueReactor** (`kernel/epoll_reactor.cc`,
`kqueue_reactor.cc`, `awaitable.inl`).  Registrations, batched changes, the wait and the
dispatch of events.  The epoll registration is edge-triggered; `edge` is what the
kernel has to report and has not reported.  `fault` makes epoll_ctl or kevent fail.

**ReadinessIO** composes them: coroutines that co_await, one after the other and in any
order, the awaitables of their programs on one socket, the scheduler's poll and
dispatch, timers, `close`, and the peer.  Between the wait and the handling of its events
the peer goes on.

**UringController**, **UringReactor** (`kernel/io_controller.hpp`, `uring_reactor.cc`) and
**UringIO**: the same for io_uring.  A request in flight is a record in `sq` with its
token and generation, a completion one in `cq`; the kernel completes requests in any
order.  `Interrupt` completes a request with EINTR; `EndRecv` does it to a multishot recv,
or ends it for buffers that other sockets hold, and `ended` remembers that a multishot
recv ended without a byte.  `orphan` marks, for the properties only, completions whose
coroutine no longer waits.  The controller may be moved (`moveController`) at any await.

**SlotOwnership** is the abstract protocol of the slots that ReadinessIO is checked
against, and **ByteStream** the abstract promise to the user that both compositions are
checked against: consecutive bytes, in order, at most once, and none missing without a
reason the user knows.  Proofs: `RuntimeProofs`.

## What the runs show

| Run | Bounds | Shows |
| --- | --- | --- |
| `BlockingExecutor` | 4 tasks, 1 to 2 workers | exact counters, no lost wake-up, each accepted task runs once, the pool shrinks to its minimum, the destructor returns and leaves nothing behind |
| `AsyncMutex` | 3 coroutines, 2 locks each, one coroutine with timeouts | mutual exclusion, no waiter dropped |
| `AsyncMutex_lost` | 3 coroutines, 1 lock each | violation: a waiter sleeps beside a free mutex |
| `MpscChannel` | 2 producers, 2 messages each, batches of 2, prefetch of 1 | `m_size` exact, order, no lost wake-up, delivery |
| `Coroutines` | AsyncWaiter: 3 notifiers; TaskCompletion: 2 joiners, or a parent that may be stolen; Runtime: 3 clients, 2 schedulers, 1 yield per task | a wait returns only after `notify` or its timeout, and does after `notify`; a result is taken once, by a parent that did not block or by joiners that return, and the continuation follows; a running runtime has its schedulers, submitted calls return unless another client is starting it, stop drains and returns |
| `Structures` | ChaseLevTaskRing: 2 slots, 4 pushes, 2 thieves; UnsafeChannel: 6 messages, batches up to 3; TimingWheel: 2 timers, levels of 4, 2, 2 slots, 8 delays | nothing taken twice, owner-only tasks not stolen, nothing lost but by one kind of overwrite; order, and no sleep beside enough messages, in both wake modes; size exact, never late, hardly early |
| `IOScheduler` | 3 tasks, two scheduled by 2 injectors, the third yields, suspends and is woken at will; a thief, ring of 2, batches of 2, other limits 1 | queues and counter exact, no lost wake; scheduled tasks run once work stops coming, stop ends the loop once nothing is injected |
| `SafeTimer` | 2 timers, 3 levels, 3 delays, one of them out of range | each timer in one place, pending counter settles, never late, hardly early |
| `ReadinessIO` | epoll and kqueue; a reader and a writer with 15 pairs of programs on each (on epoll one that reads with a builder and with recv by turns), 2 bytes, send buffer of 1, 1 failing registration, cap of 8 transitions | only the slot protocol's steps; no coroutine sleeps on a ready operation; woken only with an outcome; the peer's byte stream |
| `ReadinessIO_kqueue` | kqueue, that mixed reader and a writer, 3 bytes, no failure | violation: a registered recv is never served |
| `UringIO` | 17 pairs of programs, 3 bytes, 2 provided buffers of 2 bytes, reads of up to 2, 4 tokens per slot (an await starts with at most one in use), 1 failing or interrupted request, 1 multishot recv ended from outside | tokens of outstanding requests not reused, late completions ignored, buffers accounted for, and the last three promises of ReadinessIO |
| `UringIO_rearm` | one receiver, the rest as `UringIO` | violation: a multishot recv that ended is not submitted again |

Each run also checks the types of the module's variables: `TypeOK` is a conjunct of
one of its invariants.

The bounds are the smallest at which each race has all its actors and each limit
can be reached and passed: a ring of 2 slots wraps within 4 pushes; a batch of 1
makes every bulk operation stop short; two timers share a slot or differ by a
level; three coroutines are a holder, a waiter and one that barges in; three tasks
overflow a ring of two, and one that is woken again and again lies above an older one; one
failure can hit any call.  With 3 bytes, buffers of 2 and reads of up to 2 a chunk is read
in part, a read takes from two chunks, and the pool of 2 runs out by itself.  Counters
that wrap keep a width (`SizeRange`, `IndexRange`), small enough to wrap in a run.
Symmetry is used only in runs without liveness properties.

### Fairness

Threads that have work go on (weak fairness of each thread's steps); nobody is
obliged to call anything (`submit`, `send`, `notify`, `stop` and the like have no
fairness), and poll's timeout and spurious wake-ups are never relied on.  Strong
fairness is used for steps other threads can disable again and again: the
keep-alive deadline, which is absolute; a mutex that joining threads contend for;
a task that returns in spite of suspending many times; and, in MpscChannel, a
consumer that uses `recv` infinitely often instead of only polling.  The liveness
properties of IOScheduler have premises: `ScheduledRuns` that from some point on no task
is scheduled, woken or yields (`WorkEnds`), `StopEndsLoop` that from some point on
nothing enters the inject queue, from another thread or by a co_yield (`InjectsEnd`; tasks
may be woken for ever).
Runtime bounds how often a task yields.  Without these they fail, as the next section
says.  In ReadinessIO and UringIO the loop goes on while it has events to
process or coroutines to resume (weak), it polls when it keeps coming to the end of
them (strong, since a peer or a timer may give it work again and again), and the
kernel serves the requests of each slot; peer, timers and user have no fairness.
Their fairness is stated of `Processes`, `Resumes`, `Flushes`, `Polls` and `Completes`,
which name each step by what it does to one variable: TLC would evaluate ENABLED of the
whole handler through the recursive pump.

`CHECK_DEADLOCK FALSE` stands where the system may stop: coroutines that have
ended or wait for a message or a byte nobody will send (AsyncMutex, AsyncWaiter,
UnsafeChannel, the I/O runs), a stolen parent that is never resumed
(TaskCompletion), a clock at its bound (the timers).

## Where the code departs from its documentation

Each line below was found by TLC: the property, defined in the module beside those
that hold, states what the documentation says and is violated.  `AsyncMutex_lost`,
`ReadinessIO_kqueue` and `UringIO_rearm` are kept as runs; the others are reproduced
by the constants given, on top of those of the component's run.  The passing runs check the weaker statement that is true.

* `AsyncMutex`, `NoSleeperBesideFreeMutex` (run `AsyncMutex_lost`): `unlock()` claims
  a waiter, loses `tryLock()` to a third coroutine and puts the waiter back after
  that coroutine's own `unlock()` has found the queue empty.  `async_mutex.h:146`
  says that a waiter that is still valid is woken.  True is
  `SuspendedIsReachable`: the record is never dropped, so that the next `unlock()`
  finds it.
* `AsyncMutex`, `HeldHasHolder` (2 coroutines, 1 lock): a coroutine whose second
  `tryLock()` succeeds cancels its waiter while `unlock()` holds it claimed;
  `unlock()` activates it again, and a later `unlock()` locks the mutex for a
  coroutine that does not wait (`async_mutex.h:175`; `:185` says of `isLocked()`
  that some path holds the lock).
* `AsyncMutex`, `TimedOutWaiterSkipped` (2 coroutines, both timed): a waiter is marked as
  timed out when its coroutine resumes, so that `unlock()` still takes the lock for
  it after its timer has fired (`async_mutex.h:150` says it is skipped).
* `AsyncMutex`, `MutualExclusion` with `TimerOnOwnThread` false (2 coroutines, both
  timed, 2 locks): the wake-up of a timer on another thread ends a later `lock()`
  as if it had been granted (`timeout.hpp:41`).
* `BlockingExecutor`, `QueuesOnlyAtLimit` (`MinWorkers` 0): an idle worker stays
  counted until it has re-acquired the mutex, so that a burst of submissions queues
  behind it below the limit (`blocking_executor.cc:101`; the repository's
  `README.md:54`).
* `MpscChannel`, `TimeoutOnlyOnTimeout` (1 producer, no timeouts): a late wake-up of a
  message received before ends the next `recv()` with kTimeout
  (`mpsc_channel.h:449`, `:71`).
* `AsyncWaiter`, `ReadyResultVisible`: `m_ready` is set before the result is assigned
  (`async_waiter.h:151`, `:179`).  `WaitingHasNotReturned`: a wait that ends by
  its timeout leaves `m_waiting` set (`:172`).  `WakesOnlyTheWait`: `notify()` takes
  the registration of a coroutine that then sees `m_ready` and does not suspend;
  the wake-up reaches it at a later suspension (`:164`).
* `UnsafeChannel`, `TimeoutOnlyOnTimeout`: in the inline mode the
  queued wake-up of an expired timer outlives its await (`unsafe_channel.h:75`).
  `PartialBatchOnTimeout`: a timeout returns an error beside a partial batch
  (`:489`; `:117` promises the batch).
* `ChaseLevTaskRing`: `steal_front()` advances `m_head` before it empties the slot; a
  lap later `push_back()` overwrites the claimed task (`io_scheduler.hpp:172`;
  `test/t100_ringsteal.cc:4` says that nothing is lost).  `NoTaskLost` holds until
  then, and `OnlyClaimedOverwritten` says that no other slot is ever overwritten; both
  are proved for every capacity (Proofs).
* `IOScheduler`, `EveryTaskRuns` (the run's own constants): tasks that are woken, and those
  drained from the inject queue, go into the LIFO slot or on top of the ring, from which
  the loop takes; a task that is woken over and over starves an older one at the bottom,
  without any co_yield (`io_scheduler.hpp:310` says oldest first).  True is
  `ScheduledRuns`, once work stops coming.  On a ring of one slot this is not visible.
  `StopEndsLoop` with a premise about yields only (2 tasks, both in `Remote` and `Sleeper`,
  `kCapacity` 1): a pass that other threads keep supplying does not come back to the test of `m_running`.
  `PassEnds`: in a pass that starts
  without local work each drained task adds burst credit, and the pass ends only at
  credit 0; two yielding tasks keep it going for ever (no stealing, `kCapacity` 4),
  and with stealing one is enough, since the credit of a stolen task is never spent
  (`scheduler_core.h:122`; `test/t40_ready.cc:4`).
* `TaskCompletion`, `ParentContinues`: `await_suspend` tests `done()` and then stores
  `m_next`; if a sibling stole the parent, the child can complete on the
  scheduler's own thread in between, and the parent is never resumed
  (`task.h:808`, `:762`).
* `TimingWheel`, `NeverEarly` (delays 3, 6, 7, `MaxTime` 16, `MaxLag` 6): slots are chosen
  by the clock and reached from `m_currentTick`, which lags; a delay just under the
  span of a level can land a lap ahead, in the slot handled next
  (`timer_manager.hpp:147`).  `CancelledNotHandled`: the first level is handled
  without a test of `cancelled()` (`:278`; `timer.hpp:85`).
* `SafeTimer`, `SleepsLongEnough` (delay 7, tick 2, `MaxTime` 13, `MaxLag` 2): an empty
  wheel does not advance `m_currentTick`, so that the first timer after an idle time
  is handled at once (`safetimer_mgr.hpp:195`).  `AcceptedIsProcessed`: `addTimer()`
  overtaken by `stop()` accepts a timer nothing will handle
  (`timer_scheduler.cc:94`, `:120`).
* `Runtime`: `m_running` is set before the schedulers exist, so that a second caller
  may find none (`runtime.cc:63`; `runtime.h:178` says that the runtime is started
  as needed); `CallReturns` confines this to the time another client
  creates them.  With `StopDuringCalls` true `RunningHasSchedulers` fails: `stop()`
  during another thread's `start()` leaves schedulers running in a stopped runtime.

* `ReadinessIO` on kqueue, `RegisteredIsServed` (run `ReadinessIO_kqueue`): a sequence that
  completes leaves READ in `m_sequence_armed_mask`; a single recv then registers the
  filter; the next sequence, a writer, finds READ armed and not wanted and removes the
  filter with EV_DELETE (`kqueue_reactor.cc:473`).  `kqueue_reactor.h:49` says that the
  recv is registered.  True is `ReadyIsServed`: on epoll for such sockets too, on kqueue
  for those that do not change between the two kinds of awaitable in one direction.
* `ReadinessIO` on epoll, `UnreadIsReported` (`Programs <- MCWatch`, `MaxFaults` 0): an inotify
  event that comes between two `watch()` calls is reported while nobody waits and dropped
  (`epoll_reactor.cc:429`); the next `watch()` asks for the mask that is registered already,
  which changes nothing (`:159`), and does not try to read first: it sleeps beside the
  event until another comes.  `file_watcher.h:129` says that it waits for the next event.
  True is the second half of `ReadyIsServed`: a watch that waits when the kernel reports
  an event ends.
* `UringIO`, `EndedRecvIsRearmed` (run `UringIO_rearm`): a multishot recv that ends for want
  of provided buffers, or interrupted, clears `m_recv_multishot_armed`
  (`uring_reactor.cc:1232`, `:1292`), and nothing submits it again for the coroutine that
  waits; `docs/12-网络IO.md:19` says that it is mounted again.  `ReadyIsServed` therefore
  speaks of behaviours until a multishot recv has ended without a byte.
* `UringIO` with `Programs <- MCMixed`, `MaxFaults` 0: `BuffersAccounted`, `ReadyIsServed` and
  `IsByteStream` fail.  A readv, recvfrom or sequence that follows a recv on the same socket
  advances the generation of the READ slot (`io_scheduler.hpp:811`) while the multishot
  recv stays armed; its completions no longer match and are dropped with their bytes and
  buffers (`uring_reactor.cc:945`), its end included, so that a later recv finds it armed
  and sleeps.  The documentation does not forbid the mixture.  The run, and what the three
  properties promise, keep to sockets that are read either with recv or in other ways;
  `TokensSound`, `WokenWithOutcome` and `LateCompletionIgnored` hold for mixed ones as well.

Seen while modelling the I/O part, and built into the models as the code has it; no run
of their own:

* `close` wakes nobody on any back end: a coroutine suspended on the socket stays so
  until its timer, if it has one, fires.  `ReadyIsServed` is about open sockets.
* A timer that fires between the completion of a single operation and its coroutine's
  resumption turns the result into kTimeout, and received bytes are gone
  (`timeout.hpp:109`); on io_uring a timed-out read also leaves its request with the
  kernel, which may take bytes for nobody.  StateMachineAwaitable keeps its result.
  `IsByteStream` excuses both.
* An inotify read returns as many events as fit its buffer; `watch()` reports the first, the
  others are gone (`epoll_reactor.cc:486`, `io_handlers.hpp:360`).  `IsByteStream` excuses
  them.
* On io_uring, `close` drops completions whose provided buffers are not returned to the
  ring (`BuffersAccounted` is about open sockets); a zero-copy send that fails without
  a notification keeps its token for good.
* A parser that continues over a backlog of `kInlineTransitionCap` frames or more fails
  with kParamInvalid (`awaitable.h:2100`); the repository's `README.md:83` does not
  mention the limit.
* Moving a socket that is idle but registered with epoll leaves the kernel with the old
  controller's address; moves are therefore modelled on io_uring only, where the tokens
  follow.

## Proofs

Every theorem below holds for all values of the constants that satisfy the named
assumption of its component, and states the definition a run checks, unless said
otherwise.  Each rests on an inductive invariant; TLC checked the invariant on the
small instance before it was proved.  There is one lemma per step of the code, or per
group of steps that touch the same state, and the theorems are at the end of their
component's part.

| Module | Theorems |
| --- | --- |
| `SyncProofs` | AsyncMutex: `TypeCorrect`, `MutexCorrect`, `NoWaiterDropped`; AsyncWaiter: `WaiterCorrect` |
| `TaskProofs` | TaskCompletion: `TaskCorrect`; BlockingExecutor: `PoolCorrect`, `NothingLostOrRepeated` |
| `QueueProofs` | ChaseLevTaskRing: `TakenOnce`, `RingCorrect`, `OverwritesCorrect`; UnsafeChannel: `UnsafeChannelCorrect`, `NoConsumerLeft` |
| `MpscChannelProofs` | `DeliveredOnceInOrder`, `SleeperIsWoken` |
| `IOSchedulerProofs` | `SchedulerCorrect`, `TasksQueuedOnce` |
| `RuntimeProofs` | SlotOwnership: `SlotsCorrect`; ByteStream: `StreamCorrect`; Runtime and ComputeScheduler: `RuntimeCorrect`, `StopCorrect`, `CallFailsOnlyDuringStart`, `TaskInOnePlace` |
| `TimerLemmas`, `TimerProofs` | TimingWheel: `ManagerKeepsTimers`, `ManagerIsPunctual`; SafeTimer: `SafeKeepsTimers`, `SafeIsPunctual` |

Facts about the sizes of finite sets come from the library.  Its many facts slow down
every proof that follows them in a module, so a module that needs them states what it
needs as a definition (`Sums`, `SetSizes`, `WheelFacts`), assumes that in its lemmas and
proves it at the end; the theorems assume nothing but the constants' assumptions.

**AsyncMutex**, for any set of coroutines, any number of `lock()` calls and any set
`Timed` of coroutines that use timeouts:

* `MutexCorrect`: `TimerOnOwnThread => (Spec => []MutualExclusion)`;
* `NoWaiterDropped`: `Spec => []SuspendedIsReachable`, on whatever thread timers run.

Mutual exclusion is not inductive: a coroutine enters its critical section when
it is resumed, and nothing in that step looks at the lock.  The invariant follows
the lock as a token (`OneToken`): whoever holds it, an `unlock()` that has
relocked for a waiter, or a coroutine with a pending resume that will report
success, there is one such owner at most, and `m_locked` is set while there is
one.  A pending resume reports success unless the timer's flag is set, so the
invariant also needs that timers act only for the `lock()` their coroutine is
suspended in (`TimersBelongToSuspension`); this is where `TimerOnOwnThread` is
used, and it cannot be dropped, as the section above says.

That no waiter is dropped needs that a record exists once, in the queue or in the
hands of one `unlock()`, and only after its enqueue (`OneRecord`): otherwise a
second copy could be skipped as inactive while the first counts as reachable.
`WaitingIsReachable` says it from the enqueue on, before the coroutine is suspended,
since an `unlock()` may take the record while `lock()` still tries a second time.

**AsyncWaiter**, for any number of notifying threads: `WaiterCorrect`,
`WaiterSpec => []ReturnsOnlyAfterNotify`.  The step that returns looks only at the
timer's flag, so the invariant (`ReturnHasReason`) follows the reason backwards: a
queued resume or a coroutine past its suspension has `m_ready` or a fired timer behind
it, and a notifier past its exchange has set `m_ready`.

**TaskCompletion**, for any number of joining threads: `TaskCorrect`,
`TaskSpec => []OutcomeTakenOnce`.  A join tests `m_done` and takes the result later,
and completion sets the result and `m_done` apart, so `ResultSound` says at each label
of the task what of the two is there, `JoinersSound` that a thread that takes the
outcome has found the task done and that the one with the value consumed it (with
`OneValue`), and `ParentSound` where the parent can be while the task runs inside its
`await_suspend`, and that nobody but the parent takes an awaited outcome.  Stolen
parents are included: the theorem says that what they get is right, not that they
continue (`ParentContinues` fails).

**BlockingExecutor**, for any number of callers and any minimum and maximum of workers:
`PoolCorrect`, `Spec => [](NoLostWakeUp /\ DestroyedMeansQuiet)`.  `submit()` decides by two
counters whether to queue for an idle worker, to start a thread or to queue at the
limit, so the invariant says first that they count what they claim to (`Counted`:
`m_workerCount` the live threads and those being started, `m_idleWorkers` the threads in
the wait), over sets that stay finite.  `Attended` is the wake-up argument: a queued task
has a thread being started, a live thread that is not in the wait, or a caller about to
notify while somebody waits.  A worker that retires or goes to wait has just seen the
queue empty under the mutex, and a caller that queues for an idle worker finds one in
the wait, because the count is exact.  `NotStarted` (a caller starts the thread it has
counted, once) and `Destroyed` (the destructor ends only having seen the count at 0)
complete the invariant.  `NothingLostOrRepeated`, `Spec => []NeitherLostNorRunTwice`, is the
safety half of `AcceptedRunsOnce`: `Placed` says that a task is with its caller, once in the
queue, with one worker, or ended, and in one of these only.

**ChaseLevTaskRing**, for every capacity and any number of thieves and pushes:

* `TakenOnce`: `Spec => []TakenAtMostOnce`, and `RingCorrect`: `Spec => []NoTaskLost`;
* `OverwritesCorrect`: `Spec => OnlyClaimedOverwritten`.

The code looks at a slot without asking who else may, so the invariant has to say which
positions may hold a task: those from `m_head` up to `Top` (the tail, or one past the
position a push or a pop under way works on) and those `Claimed` by a thief or the owner
and not yet emptied.  `Located` says that every task in a slot is at such a position at
most one lap back; `OneClaim` that no position is claimed twice, which needs `ThiefPlace`
(a thief whose compare-and-swap may still succeed has seen its position below the tail,
also while a pop has lowered it); `OneCopy` that no task is in two slots or in one after
it was taken.  `ThiefSlots` and `Kept` hold until the first overwrite: a lap does not
reach a claimed slot, what a thief looked at is what it takes, and what was pushed and
not taken is in the ring.  `OverwritesCorrect` is then arithmetic: two positions less than
a lap apart have different slots (`Apart`), so the task a push meets is exactly one lap
old and claimed.

**UnsafeChannel**, for any number of messages and any batch:

* `UnsafeChannelCorrect`: `ChannelSpec => []InOrderExactlyOnce`;
* `NoConsumerLeft`: `ChannelSpec => []NoSleepBesideEnough`.

`ChannelOrder` says that what was received and what is queued are consecutive messages;
`ThresholdFits` that `m_wakeThreshold` is that of the await the consumer is suspended in,
which is what `send` compares with: a threshold left by an earlier `recvBatched` would
keep a `recv` asleep.

**MpscChannel**, for any number of producers and messages:

* `DeliveredOnceInOrder`: `Spec => []InOrderExactlyOnce`, with `m_size` exact;
* `SleeperIsWoken`: `Spec => []NoLostWakeUp`.

`InOrder` follows the messages of a producer from the consumer back to its queue:
received, taken out, prefetched, queued and yet to be sent are consecutive.  `Sized` says
that `m_size` is the sum over the producers of what is accounted for, the messages a
thread has enqueued and not yet counted included; `Sums` is what is needed of that sum.
The consumer sleeps if it found `m_size` at 0, so `NothingLeft` (with `m_size` 0 nothing is
available) is the link from the count to the wake-up argument `Wakes`: a registered
consumer is woken or can be, and one that sleeps beside a message has a producer that is
yet to test the registration, to consume it or to wake.

**IOScheduler**, for any set of tasks, any number of injecting threads and any capacity,
batch size and limits:

* `SchedulerCorrect`: `Spec => [](NoLostWake /\ OutstandingExact)`;
* `TasksQueuedOnce`: `Spec => []EachTaskQueuedOnce`.

The loop asks for work once more before it sleeps, and what it asks is
`injected_outstanding`; so the count has to be exact first (`Outstanding`: the queue, the
batch being moved, and the threads between their increment and their enqueue).
`MarkedSleeping` says that the loop has announced its sleep before it asks, so that a
thread that enqueues later finds the announcement; `PendingIsCarried` that a thread which
leaves the wake to another may do so, because the descriptor is readable, about to be, or
the loop is awake and about to withdraw the mark.  With these `Attended`, the property
from the last question on, is inductive.  For `TasksQueuedOnce` the invariant `OnePlace`
says of every task that it is queued exactly when it is in the ring or the inject queue
(once, `QueuesDistinct`), in the LIFO slot or with an injecting thread, and in one of these
only; the ring has room for what a drain moves because `RemainingCapacity` bounds it.

**Runtime** with its compute schedulers, for any number of clients, schedulers and yields,
when no `stop()` is called during calls:

* `RuntimeCorrect`: `~StopDuringCalls => (Spec => []RunningHasSchedulers)`;
* `StopCorrect`: `~StopDuringCalls => (Spec => []StopDrains)`;
* `CallFailsOnlyDuringStart`: a call fails for want of a scheduler only in a step during
  which another client's `start()` is creating them (`FailsOnlyDuringStart`, the safety
  half of `CallReturns`);
* `TaskInOnePlace`: the task of a client in `join()` is in one queue, with one worker or
  ended (`NoTaskLost` of the module).

The last two are stated in the module and are not properties of a run.  `m_running`
changes before the schedulers do, so the invariant says what is true at each label:
`StarterSound` and `StopperSound` say which schedulers `start()` has created or launched and
`stop()` ended, that one client at most starts, and that the stop signal lies in the queue
of the scheduler `stop()` is at; `TasksSound` that a submitted task is in one place, which
makes the drained queue of an ended scheduler imply that its tasks have run.
`~StopDuringCalls` cannot be dropped, as the section above says.

**SlotOwnership** and **ByteStream**, for any set of coroutines, any order of steps and
streams of any length:

* `SlotsCorrect`: `SlotSpec => []SlotsSound`;
* `StreamCorrect`: `StreamSpec => []InOrder`.

A slot never serves a single operation and a sequence at once; a stored awaitable or an
owner belongs to a coroutine that waits in just that; a waiting coroutine is found by
the reactor as long as the descriptor is open, and nothing is found after `close`; and
`m_type`, by which events are dispatched, has exactly the bits of what is waited for.
None of these is inductive alone: that removing an awaitable clears the right bit of
`m_type` needs that nobody else stored one in its slot, which needs that whoever waits
is stored; that a claim does not cover a stored awaitable is the check of `CanClaim`.
The link to the code is `KeepsSlotProtocol`: in run `ReadinessIO` every step of the two
reactors and the awaitables, seen through `Own`, is a step of SlotOwnership, and the
initial states agree.  That two single operations in one direction do not wait at once
is the caller's part there as in the code, which overwrites the first; the programs of
the run keep to it.  `IsByteStream` in runs `ReadinessIO` and `UringIO` says that the steps
of the back ends are steps of ByteStream; `StreamCorrect` says what that gives a user:
every byte received is one the peer sent, in order and once, and no more are skipped
than were lost with an excuse.

**TimingWheel** and **SafeTimer**, for any set of timers, any number and size of levels,
any duration of a tick and any bound on how late `tick()` is called:

* `ManagerKeepsTimers`: `ManagerSpec => []EveryTimerInOneSlot`, and `ManagerIsPunctual`:
  `ManagerSpec => []TickIsPunctual`;
* `SafeKeepsTimers`: `Spec => []EveryTimerInOnePlace`, and `SafeIsPunctual`:
  `Spec => []Punctual`.

A timer is put into the slot of its expiry at the level whose span covers its delay, and
looked at when the wheel comes to that slot; nothing in a step compares it with the clock
again before it is handled.  `Reached` therefore says that the slot of every waiting timer
has a tick ahead of the wheel at which `tick()` looks into it (`Visits`), no later than the
timer expires, up to the rounding of the manager; a cascade moves the timer to a lower
level whose slot has such a tick again.  This is the statement that none is overlooked,
and with the loop condition of `tick()` none is overdue when it returns.  `NearlyDue`
bounds the other side: a timer in the first level is looked at within one lap, when it
expires within two ticks and `MaxLag`.  It is kept only if the wheel is not further behind
the clock than the calls of `tick()` are apart when a timer comes down to the first level
(`ManagerLag`; `UpperLag` for the timer thread, whose wheel stands still while it is
empty); the timers added to a wheel that was further behind are in `behind`, and for them
the bound fails, as the section above says.  For the timer thread `Places` says that the
queue, the batch and the wheel hold different timers and `NoneMissing` that an enqueued one
is in one of them; `m_pendingSize` is counted modulo its width, since the timer thread may
subtract before the adding thread has added.  The spans of the levels are a recursive
function; that they grow, and that every delay in range falls into a level
(`WheelFacts`), follows from the least counterexample (`Least`), not from an induction
rule.

### What is model-checked only, and why

* Liveness (`NotifiedReturns`, `WaitersContinue`, `CallReturns`, `StopEnds`, `SentIsReceived`,
  `ScheduledRuns`, `StopEndsLoop`, `AcceptedRunsOnce`, `ShrinksToMinimum`,
  `DestructorReturns`, `ReadyIsServed`) is out of the prover's reach.  The safety halves of
  `AcceptedRunsOnce`, `DestructorReturns` and `CallReturns` are proved (`NothingLostOrRepeated`,
  `PoolCorrect`, `CallFailsOnlyDuringStart`); that BlockingExecutor implements WorkerPool is
  checked.
* Everything that rests on the pump of the awaitables, which is recursive: the
  refinements `KeepsSlotProtocol` and `IsByteStream`, `LateCompletionIgnored`, and
  `WokenWithOutcome`, `TokensSound` and `BuffersAccounted` of ReadinessIO and UringIO.  The
  prover does not reason about RECURSIVE operators.

## Not modelled, and the plan

* AioFile and the libaio branch of the epoll reactor.  What a commit waits for is
  decided between `io_submit`, `io_getevents` and an eventfd; a model would mostly state
  assumptions about those three.  Points a reader of that code should look at: a batch
  that `io_submit` accepts in part is waited for in full; the eventfd stays registered
  after a commit, because the registration is re-applied on removal, while
  `test/t67` expects it to be gone; and an edge that comes after the commit finds the
  controller's slot still set.
* Reference counts and free list of tasks, and the completion state of `spawnBlocking`.
* Stealing between two complete schedulers, and with it the co_yield that schedules a
  task before it is suspended (`task.h:884`).
* Sockets, files and the file watcher (wrappers around awaitables and system calls),
  buffers and load-balancing strategies (sequential code without shared protocol),
  errors, logging, options, affinity, the module interface, and memory orders weaker
  than sequential consistency.

Next, in this order:

1. `TaskState` reference counting with its free list, and `TaskCompletionState`.
2. Two IOSchedulers that steal from each other, and IO schedulers beside the compute
   schedulers of Runtime.
3. An abstract mutex, channel and one-shot event, which AsyncMutex, the channels
   and AsyncWaiter are shown to implement where they do.
4. Proofs: the token generations of UringController and the completion of awaitables,
   which need the pump of the awaitables written without RECURSIVE operators.
5. `RingBuffer` and the strategies as operators against reference definitions.
