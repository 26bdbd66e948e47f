------------------------------ MODULE Runtime ------------------------------
(***************************************************************************)
(* Runtime over its compute schedulers: client threads call blockOn, which *)
(* starts the runtime if it is not running, creates its default schedulers *)
(* once, picks one by turns, submits a task to it and joins the task;      *)
(* another thread calls stop().  The runtime is one configured without IO  *)
(* schedulers, to which acquireDefaultScheduler would fall back.  The      *)
(* vector of schedulers is read without a lock while start() fills it; a   *)
(* reader sees what has been pushed so far.  Name_Variant beside Name is   *)
(* the same code with one fault in it.                                     *)
(***************************************************************************)
EXTENDS Naturals, FiniteSets

CONSTANTS
    Client,           \* threads that each run one task
    Count,            \* computeCount, or the number of schedulers added by hand
    IndexRange,       \* m_compute_index wraps at this (2^32 in the code)
    StopDuringCalls,  \* whether stop() may begin while a client is in a call
    Yields, StopSignal, Nothing

ASSUME RuntimeAssumption ==
    /\ Count \in Nat \ {0} /\ IndexRange \in Nat \ {0} /\ Yields \in Nat
    /\ StopDuringCalls \in BOOLEAN
    /\ StopSignal \notin Client /\ Nothing \notin Client \union {StopSignal}

Sched == 1..Count

VARIABLES
    m_running,
    m_compute_schedulers,   \* how many schedulers the vector holds
    m_compute_index,
    client,                 \* where each client is
    at,                     \* the scheduler a client is starting, or has picked
    stopper,                \* the thread that calls stop()
    stopAt,                 \* the scheduler it stops next
    running, m_queue, worker, holding, left, done   \* of the schedulers

runtimeVars == <<m_running, m_compute_schedulers, m_compute_index>>
clientVars == <<client, at>>
stopVars == <<stopper, stopAt>>
schedulerVars == <<running, m_queue, worker, holding, left, done>>
vars == <<runtimeVars, clientVars, stopVars, schedulerVars>>

C == INSTANCE ComputeScheduler WITH Task <- Client, m_running <- running

\* Schedulers were added by hand, or start() has to create the default ones.
Init ==
    /\ m_running = FALSE
    /\ m_compute_schedulers \in {0, Count}
    /\ m_compute_index = 0
    /\ client = [c \in Client |-> "idle"]
    /\ at = [c \in Client |-> 1]
    /\ stopper = "idle" /\ stopAt = 0
    /\ C!Init

Goto(c, from, to) == client[c] = from /\ client' = [client EXCEPT ![c] = to]

InCall(c) == client[c] \notin {"idle", "waiting", "returned", "noScheduler"}

-----------------------------------------------------------------------------
(* blockOn *)

EnsureStarted(c) ==
    /\ IF m_running THEN Goto(c, "idle", "acquire") ELSE Goto(c, "idle", "start")
    /\ UNCHANGED <<runtimeVars, at, stopVars, schedulerVars>>

\* start(): one of the threads that found the runtime not running starts it.
StartExchange(c) ==
    /\ IF m_running THEN Goto(c, "start", "acquire") ELSE Goto(c, "start", "create")
    /\ m_running' = TRUE
    /\ UNCHANGED <<m_compute_schedulers, m_compute_index, at, stopVars, schedulerVars>>

TestEmpty(c) ==
    /\ IF m_compute_schedulers = 0 THEN Goto(c, "create", "push")
                                   ELSE Goto(c, "create", "launch")
    /\ at' = [at EXCEPT ![c] = 1]
    /\ UNCHANGED <<runtimeVars, stopVars, schedulerVars>>

\* createDefaultSchedulers.
Push(c) ==
    /\ m_compute_schedulers' = m_compute_schedulers + 1
    /\ IF at[c] = Count THEN /\ Goto(c, "push", "launch")
                             /\ at' = [at EXCEPT ![c] = 1]
                        ELSE /\ Goto(c, "push", "push")
                             /\ at' = [at EXCEPT ![c] = @ + 1]
    /\ UNCHANGED <<m_running, m_compute_index, stopVars, schedulerVars>>

\* On to the next scheduler of start()'s loop, or to the end of start().
NextLaunch_SkipsLast(c, from) ==
    IF at[c] >= m_compute_schedulers - 1
    THEN Goto(c, from, "acquire") /\ UNCHANGED at
    ELSE Goto(c, from, "launch") /\ at' = [at EXCEPT ![c] = @ + 1]

NextLaunch(c, from) ==
    IF at[c] = m_compute_schedulers
    THEN Goto(c, from, "acquire") /\ UNCHANGED at
    ELSE Goto(c, from, "launch") /\ at' = [at EXCEPT ![c] = @ + 1]

Launch(c) ==
    /\ \/ running[at[c]] /\ NextLaunch(c, "launch") /\ UNCHANGED schedulerVars
       \/ ~running[at[c]] /\ Goto(c, "launch", "thread") /\ C!Start(at[c]) /\ UNCHANGED at
    /\ UNCHANGED <<runtimeVars, stopVars>>

LaunchThread(c) ==
    /\ NextLaunch(c, "thread")
    /\ C!StartThread(at[c])
    /\ UNCHANGED <<runtimeVars, stopVars>>

\* acquireDefaultScheduler, with getNextComputeScheduler.
NextScheduler == (m_compute_index % m_compute_schedulers) + 1

Acquire(c) ==
    /\ \/ /\ m_compute_schedulers = 0
          /\ Goto(c, "acquire", "noScheduler")
          /\ UNCHANGED <<m_compute_index, at>>
       \/ /\ m_compute_schedulers > 0
          /\ Goto(c, "acquire", "submit")
          /\ at' = [at EXCEPT ![c] = NextScheduler]
          /\ m_compute_index' = (m_compute_index + 1) % IndexRange
    /\ UNCHANGED <<m_running, m_compute_schedulers, stopVars, schedulerVars>>

Submit(c) ==
    /\ Goto(c, "submit", "waiting")
    /\ C!Schedule(at[c], c)
    /\ UNCHANGED <<runtimeVars, at, stopVars>>

\* join() returns once the task has ended.
Joined(c) ==
    /\ c \in done
    /\ Goto(c, "waiting", "returned")
    /\ UNCHANGED <<runtimeVars, at, stopVars, schedulerVars>>

-----------------------------------------------------------------------------
(* stop() *)

Stop ==
    /\ stopper = "idle"
    /\ m_running
    /\ StopDuringCalls \/ \A c \in Client : ~InCall(c)
    /\ m_running' = FALSE
    /\ stopper' = "stopping" /\ stopAt' = m_compute_schedulers
    /\ UNCHANGED <<m_compute_schedulers, m_compute_index, clientVars, schedulerVars>>

\* stop() of the next scheduler, from the last to the first.
StopScheduler ==
    /\ stopper = "stopping" /\ stopAt > 0
    /\ \/ /\ running[stopAt]
          /\ C!Stop(stopAt)
          /\ stopper' = "signal" /\ UNCHANGED stopAt
       \/ /\ ~running[stopAt]
          /\ stopAt' = stopAt - 1
          /\ UNCHANGED <<stopper, schedulerVars>>
    /\ UNCHANGED <<runtimeVars, clientVars>>

SignalScheduler ==
    /\ stopper = "signal"
    /\ C!SendStop(stopAt)
    /\ stopper' = "join"
    /\ UNCHANGED <<runtimeVars, clientVars, stopAt>>

JoinScheduler ==
    /\ stopper = "join"
    /\ C!Join(stopAt)
    /\ stopper' = "stopping" /\ stopAt' = stopAt - 1
    /\ UNCHANGED <<runtimeVars, clientVars>>

StopReturns ==
    /\ stopper = "stopping" /\ stopAt = 0
    /\ stopper' = "idle"
    /\ UNCHANGED <<runtimeVars, clientVars, stopAt, schedulerVars>>

-----------------------------------------------------------------------------
\* A client that begins a call while stop() is under way counts as one of the two
\* overlapping.
ClientStep(c) ==
    \/ (StopDuringCalls \/ stopper = "idle") /\ EnsureStarted(c)
    \/ StartExchange(c) \/ TestEmpty(c) \/ Push(c) \/ Launch(c) \/ LaunchThread(c)
    \/ Acquire(c) \/ Submit(c) \/ Joined(c)

StopStep == StopScheduler \/ SignalScheduler \/ JoinScheduler \/ StopReturns

Worker(s) == C!WorkerStep(s) /\ UNCHANGED <<runtimeVars, clientVars, stopVars>>

Terminated ==
    /\ \A c \in Client : client[c] \in {"returned", "noScheduler"}
    /\ stopper = "idle" /\ ~m_running
    /\ UNCHANGED vars

Next ==
    \/ \E c \in Client : ClientStep(c)
    \/ \E s \in Sched : Worker(s) \/ (C!WaitTimesOut(s) /\ UNCHANGED vars)
    \/ Stop \/ StopStep \/ Terminated

\* Clients, worker threads and a stop() that has begun go on; nobody has to call
\* stop().
Fairness ==
    /\ \A c \in Client : WF_vars(ClientStep(c))
    /\ \A s \in Sched : WF_vars(Worker(s))
    /\ WF_vars(StopStep)

Spec == Init /\ [][Next]_vars

FairSpec == Spec /\ Fairness

-----------------------------------------------------------------------------
(* Properties *)

\* Type correctness: the vector of schedulers never grows beyond the
\* configured count, since one start() creates them.
TypeOK ==
    /\ m_running \in BOOLEAN
    /\ m_compute_schedulers \in 0..Count
    /\ m_compute_index \in 0..(IndexRange - 1)
    /\ client \in [Client -> {"idle", "start", "create", "push", "launch", "thread",
                              "acquire", "submit", "waiting", "returned", "noScheduler"}]
    /\ at \in [Client -> Sched]
    /\ stopper \in {"idle", "stopping", "signal", "join"} /\ stopAt \in 0..Count
    /\ C!Types

\* Types, and between calls of start() and stop() m_running says whether the schedulers run:
\* what isRunning() and ensureStarted() take it to mean.
RunningHasSchedulers ==
    /\ TypeOK
    /\ stopper = "idle" /\ (\A c \in Client :
                            client[c] \notin {"start", "create", "push", "launch", "thread"})
        => \A s \in Sched : /\ running[s] <=> m_running
                            /\ worker[s] # "none" <=> m_running

\* The task of a client that waits in join() is in exactly one place: the queue of
\* a scheduler, the hands of a worker, or the set of ended tasks.
NoTaskLost ==
    \A c \in Client : client[c] = "waiting" =>
        Cardinality({s \in Sched : c \in m_queue[s]})
        + Cardinality({s \in Sched : holding[s] = c})
        + (IF c \in done THEN 1 ELSE 0) = 1

\* When stop() has returned, every task submitted before has run to its end, the
\* times it gave way included: the worker drains the queue before it exits, whatever
\* place the stop signal took in it.
StopDrains ==
    stopper = "idle" /\ ~m_running =>
        \A c \in Client : client[c] = "waiting" => c \in done

\* A call fails for want of a scheduler only while another client's start() is still
\* creating them.  (runtime.h:178 promises that blockOn starts the runtime itself;
\* m_running, which ensureStarted tests, is set before the schedulers exist.)
FailsOnlyDuringStart ==
    [][\A c \in Client : client[c] # "noScheduler" /\ client'[c] = "noScheduler" =>
          \E d \in Client : client[d] \in {"create", "push"}]_vars

\* blockOn returns once its task is submitted, also when stop() comes meanwhile, and
\* until then its task is in one place; it fails only while another start() is at work.
CallReturns ==
    /\ FailsOnlyDuringStart
    /\ []NoTaskLost
    /\ \A c \in Client : client[c] = "waiting" ~> client[c] = "returned"

\* stop() returns, when tasks give way finitely often.
StopEnds == stopper = "stopping" ~> stopper = "idle"
=============================================================================
