-------------------------- MODULE BlockingExecutor --------------------------
(***************************************************************************)
(* The elastic thread pool behind Runtime::spawnBlocking                   *)
(* (kernel/blocking_executor.cc).                                          *)
(*                                                                         *)
(* A critical section of m_mutex is one step; what a caller of submit does *)
(* after it unlocked (notify_one, or starting the thread it has already    *)
(* counted) is a step of its own.  A worker thread is named by the task it *)
(* was started for: every task is submitted once.                          *)
(*                                                                         *)
(* A definition Name_Variant beside a definition Name is the same code     *)
(* with one fault in it; it is in no behaviour of Spec and shows that a    *)
(* property tells the two apart.                                           *)
(***************************************************************************)
EXTENDS Integers, Sequences, FiniteSets

CONSTANTS Task,          \* the tasks submitted, each by a thread of its own
          MinWorkers,    \* m_minWorkers
          MaxWorkers     \* m_maxWorkers

\* The constructor replaces a maximum of 0 by 1 and lowers the minimum to it.
ASSUME PoolAssumption ==
    /\ MaxWorkers \in Nat \ {0}
    /\ MinWorkers \in 0..MaxWorkers

VARIABLES
    m_tasks,          \* queue of tasks no worker has taken yet
    m_workerCount,    \* threads counted, one whose start is pending included
    m_idleWorkers,    \* threads between ++m_idleWorkers and --m_idleWorkers
    m_stopping,
    caller,           \* where the caller of submit(t) is
    worker,           \* where the worker thread started for t is
    holding,          \* tasks the worker has in its local variable `task'
    canTimeOut,       \* whether the worker waits with the keep-alive limit
    finished,         \* tasks whose callable has returned
    destructor        \* where ~BlockingExecutor is

vars == <<m_tasks, m_workerCount, m_idleWorkers, m_stopping, caller, worker,
          holding, canTimeOut, finished, destructor>>

\* "waiting" is blocked on m_taskCv; "notified" and "timedOut" have left the
\* condition variable and compete for m_mutex.
Blocked == {"waiting", "notified", "timedOut"}
WorkerPc == {"none", "run", "relock", "exited"} \cup Blocked
CallerPc == {"new", "notify", "spawn", "done", "rejected"}

Init ==
    /\ m_tasks = <<>>
    /\ m_workerCount = 0
    /\ m_idleWorkers = 0
    /\ m_stopping = FALSE
    /\ caller = [t \in Task |-> "new"]
    /\ worker = [t \in Task |-> "none"]
    /\ holding = [t \in Task |-> {}]
    /\ canTimeOut = [t \in Task |-> FALSE]
    /\ finished = {}
    /\ destructor = "alive"

-----------------------------------------------------------------------------
(* submit *)

\* An idle worker was counted: queue the task and owe it a notification.
QueueForIdle_NoNotify(t) ==
    /\ m_idleWorkers > 0
    /\ m_tasks' = Append(m_tasks, t)
    /\ caller' = [caller EXCEPT ![t] = "done"]
    /\ UNCHANGED m_workerCount

QueueForIdle(t) ==
    /\ m_idleWorkers > 0
    /\ m_tasks' = Append(m_tasks, t)
    /\ caller' = [caller EXCEPT ![t] = "notify"]
    /\ UNCHANGED m_workerCount

\* No idle worker, room for one more: count it now, start it after the unlock.
CountWorker(t) ==
    /\ m_idleWorkers = 0
    /\ m_workerCount < MaxWorkers
    /\ m_workerCount' = m_workerCount + 1
    /\ caller' = [caller EXCEPT ![t] = "spawn"]
    /\ UNCHANGED m_tasks

QueueAtLimit(t) ==
    /\ m_idleWorkers = 0
    /\ m_workerCount >= MaxWorkers
    /\ m_tasks' = Append(m_tasks, t)
    /\ caller' = [caller EXCEPT ![t] = "done"]
    /\ UNCHANGED m_workerCount

\* The critical section of submit(t).
Submit(t) ==
    /\ caller[t] = "new"
    /\ destructor # "done"
    /\ \/ /\ m_stopping
          /\ caller' = [caller EXCEPT ![t] = "rejected"]
          /\ UNCHANGED <<m_tasks, m_workerCount>>
       \/ /\ ~m_stopping
          /\ QueueForIdle(t) \/ CountWorker(t) \/ QueueAtLimit(t)
    /\ UNCHANGED <<m_idleWorkers, m_stopping, worker, holding, canTimeOut,
                   finished, destructor>>

\* m_taskCv.notify_one() after the unlock: one blocked worker, if there is one.
NotifyOne(t) ==
    /\ caller[t] = "notify"
    /\ caller' = [caller EXCEPT ![t] = "done"]
    /\ \/ \E w \in Task : /\ worker[w] = "waiting"
                          /\ worker' = [worker EXCEPT ![w] = "notified"]
       \/ /\ \A w \in Task : worker[w] # "waiting"
          /\ UNCHANGED worker
    /\ UNCHANGED <<m_tasks, m_workerCount, m_idleWorkers, m_stopping, holding,
                   canTimeOut, finished, destructor>>

\* The detached thread starts, with the submitted task as its first one.
StartWorker(t) ==
    /\ caller[t] = "spawn"
    /\ caller' = [caller EXCEPT ![t] = "done"]
    /\ worker' = [worker EXCEPT ![t] = "run"]
    /\ holding' = [holding EXCEPT ![t] = {t}]
    /\ UNCHANGED <<m_tasks, m_workerCount, m_idleWorkers, m_stopping,
                   canTimeOut, finished, destructor>>

-----------------------------------------------------------------------------
(* workerLoop *)

\* task(); task = {}: outside the lock.
RunTask(w) ==
    /\ worker[w] = "run"
    /\ finished' = finished \cup holding[w]
    /\ holding' = [holding EXCEPT ![w] = {}]
    /\ worker' = [worker EXCEPT ![w] = "relock"]
    /\ UNCHANGED <<m_tasks, m_workerCount, m_idleWorkers, m_stopping, caller,
                   canTimeOut, destructor>>

\* retireWorkerLocked(): the last worker of a stopping pool wakes the
\* destructor.
retireWorkerLocked_NoNotify(w) ==
    /\ worker' = [worker EXCEPT ![w] = "exited"]
    /\ m_workerCount' = m_workerCount - 1
    /\ UNCHANGED destructor

retireWorkerLocked(w) ==
    /\ worker' = [worker EXCEPT ![w] = "exited"]
    /\ m_workerCount' = m_workerCount - 1
    /\ destructor' = IF m_stopping /\ m_workerCount = 1 /\ destructor = "blocked"
                     THEN "woken" ELSE destructor

\* The wait condition of m_taskCv.
Ready == m_stopping \/ m_tasks # <<>>

\* ++m_idleWorkers, choose whether the wait is timed, and block on m_taskCv.
EnterWait_TimedTooLate(w, idle) ==
    /\ ~Ready
    /\ m_idleWorkers' = idle + 1
    /\ canTimeOut' = [canTimeOut EXCEPT ![w] = m_workerCount > MinWorkers + 1]
    /\ worker' = [worker EXCEPT ![w] = "waiting"]
    /\ UNCHANGED <<m_tasks, m_workerCount, holding, destructor>>

EnterWait(w, idle) ==
    /\ ~Ready
    /\ m_idleWorkers' = idle + 1
    /\ canTimeOut' = [canTimeOut EXCEPT ![w] = m_workerCount > MinWorkers]
    /\ worker' = [worker EXCEPT ![w] = "waiting"]
    /\ UNCHANGED <<m_tasks, m_workerCount, holding, destructor>>

\* A stopping pool drains its queue before its workers retire.
RetireStopped(w, idle) ==
    /\ m_stopping
    /\ m_tasks = <<>>
    /\ m_idleWorkers' = idle
    /\ retireWorkerLocked(w)
    /\ UNCHANGED <<m_tasks, holding, canTimeOut>>

TakeTask(w, idle) ==
    /\ m_tasks # <<>>
    /\ m_idleWorkers' = idle
    /\ m_tasks' = Tail(m_tasks)
    /\ holding' = [holding EXCEPT ![w] = {Head(m_tasks)}]
    /\ worker' = [worker EXCEPT ![w] = "run"]
    /\ UNCHANGED <<m_workerCount, canTimeOut, destructor>>

\* From the head of the inner while loop to the next release of the mutex,
\* with m_idleWorkers = idle on arrival.
LoopHead(w, idle) ==
    EnterWait(w, idle) \/ RetireStopped(w, idle) \/ TakeTask(w, idle)

Relock(w) ==
    /\ worker[w] = "relock"
    /\ LoopHead(w, m_idleWorkers)
    /\ UNCHANGED <<m_stopping, caller, finished>>

\* A notified worker has m_mutex again: it goes back to waiting unless the
\* condition holds (the wait with a predicate).
WakeUp(w) ==
    /\ worker[w] = "notified"
    /\ \/ /\ ~Ready
          /\ worker' = [worker EXCEPT ![w] = "waiting"]
          /\ UNCHANGED <<m_tasks, m_workerCount, m_idleWorkers, holding,
                         canTimeOut, destructor>>
       \/ /\ Ready
          /\ LoopHead(w, m_idleWorkers - 1)
    /\ UNCHANGED <<m_stopping, caller, finished>>

\* A worker whose wait_for ran out has m_mutex again: it retires if there is
\* nothing to do and the pool is above its minimum, and else stays.
KeepAliveExpired(w) ==
    /\ worker[w] = "timedOut"
    /\ \/ /\ ~Ready
          /\ m_workerCount > MinWorkers
          /\ m_idleWorkers' = m_idleWorkers - 1
          /\ retireWorkerLocked(w)
          /\ UNCHANGED <<m_tasks, holding, canTimeOut>>
       \/ /\ Ready \/ m_workerCount <= MinWorkers
          /\ LoopHead(w, m_idleWorkers - 1)
    /\ UNCHANGED <<m_stopping, caller, finished>>

-----------------------------------------------------------------------------
(* The condition variable and the destructor *)

LeaveCv(w, pc) ==
    /\ worker[w] = "waiting"
    /\ worker' = [worker EXCEPT ![w] = pc]
    /\ UNCHANGED <<m_tasks, m_workerCount, m_idleWorkers, m_stopping, caller,
                   holding, canTimeOut, finished, destructor>>

KeepAliveTimer(w) == canTimeOut[w] /\ LeaveCv(w, "timedOut")

SpuriousWake(w) == LeaveCv(w, "notified")

\* ~BlockingExecutor up to its wait on m_shutdownCv.
Destroy ==
    /\ destructor = "alive"
    /\ m_stopping' = TRUE
    /\ worker' = [w \in Task |->
                    IF worker[w] = "waiting" THEN "notified" ELSE worker[w]]
    /\ destructor' = IF m_workerCount = 0 THEN "done" ELSE "blocked"
    /\ UNCHANGED <<m_tasks, m_workerCount, m_idleWorkers, caller, holding,
                   canTimeOut, finished>>

\* The wait on m_shutdownCv, too, may end without a notification.
DestructorSpuriousWake ==
    /\ destructor = "blocked"
    /\ destructor' = "woken"
    /\ UNCHANGED <<m_tasks, m_workerCount, m_idleWorkers, m_stopping, caller,
                   worker, holding, canTimeOut, finished>>

DestructorWakes ==
    /\ destructor = "woken"
    /\ destructor' = IF m_workerCount = 0 THEN "done" ELSE "blocked"
    /\ UNCHANGED <<m_tasks, m_workerCount, m_idleWorkers, m_stopping, caller,
                   worker, holding, canTimeOut, finished>>

Terminated ==
    /\ destructor = "done"
    /\ \A t \in Task : caller[t] # "notify"
    /\ UNCHANGED vars

WorkerStep(w) == RunTask(w) \/ Relock(w) \/ WakeUp(w) \/ KeepAliveExpired(w)

CallerStep(t) == NotifyOne(t) \/ StartWorker(t)

Next ==
    \/ \E t \in Task : Submit(t) \/ CallerStep(t)
    \/ \E w \in Task : WorkerStep(w) \/ KeepAliveTimer(w) \/ SpuriousWake(w)
    \/ Destroy
    \/ DestructorSpuriousWake
    \/ DestructorWakes
    \/ Terminated

\* Threads are scheduled, callables return and the keep-alive clock advances
\* (strongly fair: its deadline is absolute, a wake-up in between does not move
\* it); nobody has to submit or to destroy the pool.
Fairness ==
    /\ \A t \in Task : /\ WF_vars(CallerStep(t))
                       /\ WF_vars(WorkerStep(t))
                       /\ SF_vars(KeepAliveTimer(t))
    /\ WF_vars(DestructorWakes)

Spec == Init /\ [][Next]_vars

FairSpec == Spec /\ Fairness

-----------------------------------------------------------------------------
(* Properties *)

\* Type correctness: m_idleWorkers and m_workerCount are never
\* decremented below zero.
TypeOK ==
    /\ m_tasks \in Seq(Task)
    /\ m_workerCount \in Nat
    /\ m_idleWorkers \in Nat
    /\ m_stopping \in BOOLEAN
    /\ caller \in [Task -> CallerPc]
    /\ worker \in [Task -> WorkerPc]
    /\ holding \in [Task -> SUBSET Task]
    /\ canTimeOut \in [Task -> BOOLEAN]
    /\ finished \in SUBSET Task
    /\ destructor \in {"alive", "blocked", "woken", "done"}

Live == {w \in Task : worker[w] \notin {"none", "exited"}}
Starting == {t \in Task : caller[t] = "spawn"}
Idle == {w \in Task : worker[w] \in Blocked}

\* Types, and the two counters submit decides on are exact: m_workerCount counts the live
\* workers and the ones about to start and never passes m_maxWorkers, and
\* m_idleWorkers counts the workers inside the wait, woken ones included.
CountersExact ==
    /\ TypeOK
    /\ m_workerCount = Cardinality(Live) + Cardinality(Starting)
    /\ m_idleWorkers = Cardinality(Idle)
    /\ m_workerCount <= MaxWorkers

\* No lost wake-up: the counters are exact, and while a task is queued, some worker is
\* starting or is not asleep on m_taskCv, or a caller still owes its notify_one.  (submit
\* only notifies when it saw an idle worker, and after it has released the mutex.)
NoLostWakeUp ==
    /\ CountersExact
    /\ m_tasks # <<>> =>
        \/ Starting # {}
        \/ \E w \in Live : worker[w] # "waiting"
        \/ \E t \in Task : caller[t] = "notify" /\ Idle # {}

\* A task is accepted at most once into one place: the queue, a starting
\* thread, a worker's hands, or the finished set.
TaskPlaces(t) ==
    Cardinality({i \in 1..Len(m_tasks) : m_tasks[i] = t})
      + Cardinality({w \in Task : t \in holding[w]})
      + (IF t \in finished THEN 1 ELSE 0)
      + (IF caller[t] \in {"new", "spawn", "rejected"} THEN 1 ELSE 0)

NeitherLostNorRunTwice == \A t \in Task : TaskPlaces(t) = 1

\* The destructor returns only when no thread of the pool is left that could
\* still touch its members, and no accepted task is abandoned in the queue.
DestroyedMeansQuiet ==
    destructor = "done" => Live = {} /\ Starting = {} /\ m_tasks = <<>>

\* What a caller of submit can tell of its task.
Stage(t) ==
    IF caller[t] = "new" THEN "new"
    ELSE IF caller[t] = "rejected" THEN "refused"
    ELSE IF t \in finished THEN "done"
    ELSE IF \E w \in Task : t \in holding[w] THEN "running"
    ELSE "accepted"

Pool == INSTANCE WorkerPool WITH
    Job <- Task, Limit <- MaxWorkers, stage <- [t \in Task |-> Stage(t)],
    closing <- m_stopping, closed <- (destructor = "done")

\* Every task submit accepts is run, once, whatever retires meanwhile, and the
\* threads, queue and counters implement the pool their callers see: no more
\* than m_maxWorkers tasks run at once, a task is refused only by a stopping
\* pool, and the destructor returns only when each accepted task has run.
AcceptedRunsOnce ==
    /\ []NeitherLostNorRunTwice
    /\ Pool!PoolSpec
    /\ \A t \in Task : caller[t] \in {"notify", "spawn", "done"} ~> t \in finished

\* Idle threads above m_minWorkers go away: with no more work the pool shrinks.
ShrinksToMinimum == <>[](m_workerCount <= MinWorkers)

\* ~BlockingExecutor returns, and leaves nothing behind.
DestructorReturns ==
    /\ []DestroyedMeansQuiet
    /\ m_stopping ~> destructor = "done"

\* README.md:54 of the repository: an idle worker is reused, the pool grows when
\* there is none, and tasks queue only at the limit.
\* (Does not hold: README, "Where the code departs from its documentation".)
QueuesOnlyAtLimit ==
    m_tasks # <<>> /\ (\A w \in Live : worker[w] = "run") /\ Starting = {}
        => m_workerCount = MaxWorkers
=============================================================================
