-------------------------- MODULE ComputeScheduler -------------------------
(***************************************************************************)
(* ComputeScheduler: a worker thread that resumes the tasks it takes from  *)
(* a blocking concurrent queue, ended by a stop signal in the same queue   *)
(* after which it drains what is left.  The module has the state and the   *)
(* steps of each scheduler of a set; Runtime says who starts and stops     *)
(* them and who schedules tasks.  The queue keeps the order of one         *)
(* producer only, and every producer here enqueues one item at a time, so  *)
(* the worker may take any item.  Name_Variant beside Name is the same     *)
(* code with one fault in it.                                              *)
(***************************************************************************)
EXTENDS Naturals

CONSTANTS
    Sched,
    Task,
    Yields,        \* bound: how often a task gives way before it ends
    StopSignal,
    Nothing

VARIABLES
    m_running,
    m_queue,
    worker,        \* the worker thread: "none", "loop", "run", "drain", "drainRun" or "exited"
    holding,       \* the item the worker resumes
    left,          \* yields a task has left
    done           \* tasks that have ended

Init ==
    /\ m_running = [s \in Sched |-> FALSE]
    /\ m_queue = [s \in Sched |-> {}]
    /\ worker = [s \in Sched |-> "none"]
    /\ holding = [s \in Sched |-> Nothing]
    /\ left = [t \in Task |-> Yields]
    /\ done = {}

WorkerGoto(s, l) == worker' = [worker EXCEPT ![s] = l]

Enqueue(s, item) == m_queue' = [m_queue EXCEPT ![s] = @ \union {item}]

Dequeue(s, item) == item \in m_queue[s] /\ m_queue' = [m_queue EXCEPT ![s] = @ \ {item}]

Hold(s, item) == holding' = [holding EXCEPT ![s] = item]

-----------------------------------------------------------------------------
(* start(), stop() and schedule() *)

\* The exchange of start(), which returns at once if the scheduler runs.
Start(s) ==
    /\ m_running' = [m_running EXCEPT ![s] = TRUE]
    /\ UNCHANGED <<m_queue, worker, holding, left, done>>

StartThread(s) ==
    /\ WorkerGoto(s, "loop")
    /\ UNCHANGED <<m_running, m_queue, holding, left, done>>

\* The exchange of stop(), which returns at once if the scheduler does not run.
Stop(s) ==
    /\ m_running' = [m_running EXCEPT ![s] = FALSE]
    /\ UNCHANGED <<m_queue, worker, holding, left, done>>

SendStop_NotSent(s) == UNCHANGED <<m_running, m_queue, worker, holding, left, done>>

SendStop(s) ==
    /\ Enqueue(s, StopSignal)
    /\ UNCHANGED <<m_running, worker, holding, left, done>>

Join(s) ==
    /\ worker[s] = "exited"
    /\ WorkerGoto(s, "none")
    /\ UNCHANGED <<m_running, m_queue, holding, left, done>>

\* schedule() and scheduleDeferred(), at any time.
Schedule(s, t) ==
    /\ Enqueue(s, t)
    /\ UNCHANGED <<m_running, worker, holding, left, done>>

-----------------------------------------------------------------------------
(* workerLoop *)

\* wait_dequeue_timed gives up after a millisecond, and is called again.
WaitTimesOut(s) == worker[s] = "loop" /\ m_queue[s] = {}

Take(s, item) ==
    /\ worker[s] = "loop"
    /\ Dequeue(s, item)
    /\ WorkerGoto(s, IF item = StopSignal THEN "drain" ELSE "run")
    /\ Hold(s, IF item = StopSignal THEN Nothing ELSE item)
    /\ UNCHANGED <<m_running, left, done>>

DrainTake_Exits(s, item) ==
    /\ worker[s] = "drain" /\ item \in m_queue[s]
    /\ WorkerGoto(s, "exited")
    /\ UNCHANGED <<m_running, m_queue, holding, left, done>>

DrainTake_PutsBack(s, item) ==
    /\ worker[s] = "drain" /\ item \in m_queue[s]
    /\ UNCHANGED <<m_running, m_queue, worker, holding, left, done>>

DrainTake(s, item) ==
    /\ worker[s] = "drain"
    /\ Dequeue(s, item)
    /\ WorkerGoto(s, IF item = StopSignal THEN "drain" ELSE "drainRun")
    /\ Hold(s, IF item = StopSignal THEN Nothing ELSE item)
    /\ UNCHANGED <<m_running, left, done>>

\* try_dequeue finds nothing.
DrainEnds(s) ==
    /\ worker[s] = "drain" /\ m_queue[s] = {}
    /\ WorkerGoto(s, "exited")
    /\ UNCHANGED <<m_running, m_queue, holding, left, done>>

\* resume: the task yields, which schedules it again, or ends.
Yield(s, t) ==
    /\ left[t] > 0
    /\ left' = [left EXCEPT ![t] = @ - 1]
    /\ Enqueue(s, t)
    /\ UNCHANGED done

End(s, t) ==
    /\ left[t] = 0
    /\ done' = done \union {t}
    /\ UNCHANGED <<m_queue, left>>

Run(s) ==
    /\ worker[s] \in {"run", "drainRun"}
    /\ WorkerGoto(s, IF worker[s] = "run" THEN "loop" ELSE "drain")
    /\ Yield(s, holding[s]) \/ End(s, holding[s])
    /\ Hold(s, Nothing)
    /\ UNCHANGED m_running

WorkerStep(s) ==
    \/ \E item \in m_queue[s] : Take(s, item) \/ DrainTake(s, item)
    \/ DrainEnds(s)
    \/ Run(s)

-----------------------------------------------------------------------------
\* The worker holds a task exactly while it resumes one.
Types ==
    /\ m_running \in [Sched -> BOOLEAN]
    /\ m_queue \in [Sched -> SUBSET (Task \union {StopSignal})]
    /\ worker \in [Sched -> {"none", "loop", "run", "drain", "drainRun", "exited"}]
    /\ holding \in [Sched -> Task \union {Nothing}]
    /\ \A s \in Sched : (holding[s] # Nothing) <=> (worker[s] \in {"run", "drainRun"})
    /\ left \in [Task -> 0..Yields]
    /\ done \subseteq Task
=============================================================================
