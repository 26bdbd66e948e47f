-------------------------- MODULE TaskCompletion ---------------------------
(***************************************************************************)
(* How one task completes and how others learn of it: the parent coroutine *)
(* that co_awaits it (TaskAwaiter), the threads that wait() or join() it   *)
(* (JoinHandle, waitTaskCompletion, tryTakeTaskResult), its then()         *)
(* continuation, and completeTaskState.                                    *)
(*                                                                         *)
(* The task runs on its scheduler's thread.  So does the parent, unless a  *)
(* sibling has stolen it: then the two run concurrently.                   *)
(* Accesses to atomics, to m_next and under the waiter's mutex are steps.  *)
(* Name_Variant beside Name is the same code with one fault in it.         *)
(***************************************************************************)
EXTENDS Naturals

CONSTANTS
    Joiner,        \* threads with access to the task's JoinHandle
    MayBeStolen,   \* siblings may have stolen the parent
    Nobody

VARIABLES
    m_done, m_next, m_then, m_waiter,
    m_mutex,              \* who holds the TaskWaiter's mutex
    m_result,             \* "empty", "value", or "taken"
    m_result_error, m_result_consumed,
    bound,                \* the parent belongs to a scheduler
    stolen,               \* the parent runs on a sibling's thread
    task,                 \* [pc, inline: run from inside await_suspend]
    parent,               \* [pc, got]
    joiner,               \* per thread [pc, join: whether it consumes, got]; a task that
                          \* is co_awaited has no JoinHandle
    thenRuns              \* times the continuation was scheduled

taskVars == <<m_done, m_next, m_then, m_waiter, m_mutex, m_result, m_result_error,
              m_result_consumed, bound, stolen, task, parent, joiner, thenRuns>>
resultVars == <<m_result, m_result_error, m_result_consumed>>
origin == <<bound, stolen>>
waitVars == <<m_waiter, m_mutex, joiner>>

\* The task is co_awaited, and otherwise spawned.
Awaited == parent.pc # "none"

TaskInit ==
    /\ parent \in [pc : {"none", "ready"}, got : {"nothing"}]
    /\ m_done = FALSE
    /\ m_next = FALSE
    /\ m_then \in BOOLEAN
    /\ m_waiter = FALSE
    /\ m_mutex = Nobody
    /\ m_result = "empty"
    /\ m_result_error = FALSE
    /\ m_result_consumed = FALSE
    /\ bound \in {b \in BOOLEAN : Awaited \/ b}
    /\ stolen \in {b \in BOOLEAN : b => Awaited /\ bound /\ MayBeStolen}
    /\ task = [pc |-> IF Awaited THEN "new" ELSE "queued", inline |-> FALSE]
    /\ joiner \in [Joiner -> {[pc |-> IF Awaited THEN "none" ELSE "load", join |-> j,
                                got |-> "nothing"] : j \in {b \in BOOLEAN : Awaited => ~b}}]
    /\ thenRuns = 0

-----------------------------------------------------------------------------
(* The task, up to and including completeTaskState *)

\* The parent occupies the scheduler's thread unless it is stolen or suspended.
ThreadFree == stolen \/ parent.pc \in {"none", "suspended", "queued", "finished"}

TaskGoto(l) == task' = [task EXCEPT !.pc = l]

\* Control returns from an inline resume to await_suspend.
ReturnInline ==
    parent' = IF task.inline THEN [parent EXCEPT !.pc = "check"] ELSE parent

TaskResumes ==
    /\ task.pc = "queued"
    /\ ThreadFree
    /\ TaskGoto("running")
    /\ UNCHANGED <<m_done, m_next, m_then, waitVars, resultVars, origin, parent, thenRuns>>

\* The coroutine suspends; whatever it waits for puts it back in the queue.
TaskSuspends ==
    /\ task.pc = "running"
    /\ task' = [pc |-> "queued", inline |-> FALSE]
    /\ ReturnInline
    /\ UNCHANGED <<m_done, m_next, m_then, waitVars, resultVars, origin, thenRuns>>

\* return_value, return_void or unhandled_exception.
TaskReturns ==
    /\ task.pc = "running"
    /\ \/ m_result' = "value" /\ UNCHANGED m_result_error
       \/ m_result_error' = TRUE /\ UNCHANGED m_result
    /\ TaskGoto("done")
    /\ UNCHANGED <<m_done, m_next, m_then, waitVars, m_result_consumed, origin,
                   parent, thenRuns>>

SetDone ==
    /\ task.pc = "done"
    /\ m_done' = TRUE
    /\ TaskGoto("waiter")
    /\ UNCHANGED <<m_next, m_then, waitVars, resultVars, origin, parent, thenRuns>>

\* notifyTaskWaiters: nothing to do without a waiter ...
LoadWaiter ==
    /\ task.pc = "waiter"
    /\ TaskGoto(IF m_waiter THEN "notify" ELSE "then")
    /\ UNCHANGED <<m_done, m_next, m_then, waitVars, resultVars, origin, parent, thenRuns>>

\* ... else notify_all with the mutex held.
NotifyWaiters_One ==
    /\ task.pc = "notify"
    /\ m_mutex = Nobody
    /\ \E j \in Joiner : joiner' = IF joiner[j].pc = "asleep"
                                   THEN [joiner EXCEPT ![j].pc = "lock"] ELSE joiner
    /\ TaskGoto("then")
    /\ UNCHANGED <<m_done, m_next, m_then, m_waiter, m_mutex, resultVars, origin,
                   parent, thenRuns>>

NotifyWaiters ==
    /\ task.pc = "notify"
    /\ m_mutex = Nobody
    /\ joiner' = [j \in Joiner |-> IF joiner[j].pc = "asleep"
                                   THEN [joiner[j] EXCEPT !.pc = "lock"] ELSE joiner[j]]
    /\ TaskGoto("then")
    /\ UNCHANGED <<m_done, m_next, m_then, m_waiter, m_mutex, resultVars, origin,
                   parent, thenRuns>>

RunThen ==
    /\ task.pc = "then"
    /\ thenRuns' = IF m_then THEN thenRuns + 1 ELSE thenRuns
    /\ m_then' = FALSE
    /\ TaskGoto("next")
    /\ UNCHANGED <<m_done, m_next, waitVars, resultVars, origin, parent>>

\* The waiting parent is scheduled; then the coroutine is at its end.
RunNext ==
    /\ task.pc = "next"
    /\ task' = [pc |-> "finished", inline |-> FALSE]
    /\ m_next' = FALSE
    /\ IF m_next THEN parent' = [parent EXCEPT !.pc = "queued"] ELSE ReturnInline
    /\ UNCHANGED <<m_done, m_then, waitVars, resultVars, origin, thenRuns>>

TaskStep ==
    \/ TaskResumes \/ TaskReturns \/ SetDone \/ LoadWaiter \/ NotifyWaiters
    \/ RunThen \/ RunNext

-----------------------------------------------------------------------------
(* The parent: TaskAwaiter *)

ParentGoto(l) == parent' = [parent EXCEPT !.pc = l]

\* await_suspend resumes the task from within, or completes it with
\* kScheduleFailed if the parent has no scheduler.
AwaitSuspend ==
    /\ parent.pc = "ready"
    /\ ParentGoto("inline")
    /\ task' = [pc |-> IF bound THEN "running" ELSE "done", inline |-> TRUE]
    /\ m_result_error' = ~bound
    /\ UNCHANGED <<m_done, m_next, m_then, waitVars, m_result, m_result_consumed,
                   origin, thenRuns>>

AwaitCheck ==
    /\ parent.pc = "check"
    /\ ParentGoto(IF m_done THEN "resume" ELSE "publish")
    /\ UNCHANGED <<m_done, m_next, m_then, waitVars, resultVars, origin, task, thenRuns>>

AwaitPublish ==
    /\ parent.pc = "publish"
    /\ m_next' = TRUE
    /\ ParentGoto("suspended")
    /\ UNCHANGED <<m_done, m_then, waitVars, resultVars, origin, task, thenRuns>>

\* The scheduler resumes the parent once its thread is free.
ParentResumes ==
    /\ parent.pc = "queued"
    /\ task.pc = "finished"
    /\ ParentGoto("resume")
    /\ UNCHANGED <<m_done, m_next, m_then, waitVars, resultVars, origin, task, thenRuns>>

\* tryTakeTaskResult after the wait: an error stays, a value is handed out once.
Take_Copy == UNCHANGED resultVars

Take ==
    /\ m_result_consumed' = (m_result_consumed \/ ~m_result_error)
    /\ m_result' = IF m_result_error \/ m_result_consumed THEN m_result ELSE "taken"
    /\ UNCHANGED m_result_error

Taken == CASE m_result_error    -> "error"
           [] m_result_consumed -> "consumed"
           [] OTHER             -> m_result

AwaitResume ==
    /\ parent.pc = "resume"
    /\ m_done
    /\ Take
    /\ parent' = [pc |-> "finished", got |-> Taken]
    /\ UNCHANGED <<m_done, m_next, m_then, waitVars, origin, task, thenRuns>>

ParentStep == AwaitSuspend \/ AwaitCheck \/ AwaitPublish \/ ParentResumes \/ AwaitResume

-----------------------------------------------------------------------------
(* Threads: wait() and join() *)

JoinerGoto(j, l) == joiner' = [joiner EXCEPT ![j].pc = l]

\* while (!m_done)
JoinLoad(j) ==
    /\ joiner[j].pc = "load"
    /\ JoinerGoto(j, IF m_done THEN "take" ELSE "ensure")
    /\ UNCHANGED <<m_done, m_next, m_then, m_waiter, m_mutex, resultVars, origin, task,
                   parent, thenRuns>>

\* ensureTaskWaiter: the first to need it allocates it.
EnsureWaiter(j) ==
    /\ joiner[j].pc = "ensure"
    /\ m_waiter' = TRUE
    /\ JoinerGoto(j, "lock")
    /\ UNCHANGED <<m_done, m_next, m_then, m_mutex, resultVars, origin, task, parent,
                   thenRuns>>

JoinLock(j) ==
    /\ joiner[j].pc = "lock"
    /\ m_mutex = Nobody
    /\ m_mutex' = j
    /\ JoinerGoto(j, "test")
    /\ UNCHANGED <<m_done, m_next, m_then, m_waiter, resultVars, origin, task, parent,
                   thenRuns>>

\* m_done again under the mutex; the wait releases it.
JoinTest(j) ==
    /\ joiner[j].pc = "test"
    /\ m_mutex' = Nobody
    /\ JoinerGoto(j, IF m_done THEN "take" ELSE "asleep")
    /\ UNCHANGED <<m_done, m_next, m_then, m_waiter, resultVars, origin, task, parent,
                   thenRuns>>

JoinWakes(j) ==
    /\ joiner[j].pc = "asleep"
    /\ JoinerGoto(j, "lock")
    /\ UNCHANGED <<m_done, m_next, m_then, m_waiter, m_mutex, resultVars, origin, task,
                   parent, thenRuns>>

\* wait() returns; join() takes the result.
JoinTake(j) ==
    /\ joiner[j].pc = "take"
    /\ \/ /\ joiner[j].join
          /\ Take
          /\ joiner' = [joiner EXCEPT ![j].pc = "finished", ![j].got = Taken]
       \/ /\ ~joiner[j].join
          /\ JoinerGoto(j, "finished")
          /\ UNCHANGED resultVars
    /\ UNCHANGED <<m_done, m_next, m_then, m_waiter, m_mutex, origin, task, parent,
                   thenRuns>>

JoinStep(j) ==
    JoinLoad(j) \/ EnsureWaiter(j) \/ JoinLock(j) \/ JoinTest(j) \/ JoinTake(j)

-----------------------------------------------------------------------------
TaskTerminated ==
    /\ task.pc = "finished"
    /\ parent.pc \in {"none", "finished"}
    /\ \A j \in Joiner : joiner[j].pc \in {"none", "finished"}
    /\ UNCHANGED taskVars

TaskNext ==
    \/ TaskStep \/ TaskSuspends \/ ParentStep
    \/ \E j \in Joiner : JoinStep(j) \/ JoinWakes(j)
    \/ TaskTerminated

\* Threads go on, and the task does not suspend for ever.
TaskFairness ==
    /\ WF_taskVars(TaskStep) /\ SF_taskVars(TaskReturns) /\ SF_taskVars(NotifyWaiters)
    /\ WF_taskVars(ParentStep)
    /\ \A j \in Joiner : WF_taskVars(JoinStep(j)) /\ SF_taskVars(JoinLock(j))

TaskSpec == TaskInit /\ [][TaskNext]_taskVars

TaskFairSpec == TaskSpec /\ TaskFairness

-----------------------------------------------------------------------------
(* Properties *)

\* Type correctness: a thread that takes the result finds one, and the
\* continuation is scheduled once at most.
TaskTypeOK ==
    /\ m_done \in BOOLEAN /\ m_next \in BOOLEAN /\ m_then \in BOOLEAN
    /\ m_waiter \in BOOLEAN
    /\ m_mutex \in Joiner \union {Nobody}
    /\ m_result \in {"empty", "value", "taken"}
    /\ m_result_error \in BOOLEAN /\ m_result_consumed \in BOOLEAN
    /\ task \in [pc : {"new", "queued", "running", "done", "waiter", "notify", "then",
                       "next", "finished"}, inline : BOOLEAN]
    /\ parent \in [pc : {"none", "ready", "inline", "check", "publish", "suspended",
                         "queued", "resume", "finished"},
                   got : {"nothing", "value", "error", "consumed"}]
    /\ joiner \in [Joiner -> [pc : {"none", "load", "ensure", "lock", "test", "asleep", "take",
                                    "finished"}, join : BOOLEAN,
                              got : {"nothing", "value", "error", "consumed"}]]
    /\ thenRuns \in 0..1

\* Types, and of all joins at most one gets the value; with an error each gets the error; none
\* of them returns before the task is done.  co_await never blocks the scheduler's thread
\* inside tryTakeTaskResult, and gives the parent the task's own outcome.
OutcomeTakenOnce ==
    /\ TaskTypeOK
    /\ \A j, k \in Joiner : joiner[j].got = "value" /\ joiner[k].got = "value" => j = k
    /\ \A j \in Joiner : joiner[j].pc = "finished" =>
         /\ m_done
         /\ m_result_error /\ joiner[j].join => joiner[j].got = "error"
    /\ parent.pc = "resume" => m_done
    /\ parent.pc = "finished" => parent.got = IF m_result_error THEN "error" ELSE "value"

\* Once the task completes, every wait() and join() returns, although the waiter they
\* sleep on is allocated while the task completes; and a parent that co_awaits the task
\* on its own scheduler's thread goes on.  The then() continuation is scheduled, once,
\* after the task is done.
WaitersContinue ==
    /\ (m_then ~> thenRuns = 1) /\ [](thenRuns > 0 => m_done)
    /\ \A j \in Joiner : m_done /\ ~Awaited ~> joiner[j].pc = "finished"
    /\ m_done /\ Awaited /\ ~stolen ~> parent.pc = "finished"

\* A parent that co_awaits the task goes on after the task has completed, stolen or not.
\* (Does not hold: README, "Where the code departs from its documentation".)
ParentContinues == m_done /\ Awaited ~> parent.pc = "finished"
=============================================================================
