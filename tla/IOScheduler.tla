---------------------------- MODULE IOScheduler ----------------------------
(***************************************************************************)
(* One IO scheduler: its worker state (IOSchedulerWorkerState), the ready  *)
(* passes of SchedulerCore, the event loop of sched_loop.hpp, and the wake *)
(* protocol between that loop and threads that inject tasks                *)
(* (WakeCoordinator and the reactor's event descriptor).                   *)
(*                                                                         *)
(* The loop is one thread, Injector are the others.  Each access to an     *)
(* atomic that the two sides share is a step; what the loop does to its    *)
(* own queues in between is merged with it.  Operations of local_ring are  *)
(* atomic here, a steal included (ChaseLevTaskRing has them in steps), and *)
(* inject_queue is a FIFO.  An "idle" task is suspended, not started yet,  *)
(* or on a sibling scheduler.  Name_Variant beside Name is the same code   *)
(* with one fault in it.                                                   *)
(***************************************************************************)
EXTENDS Naturals, Sequences, FiniteSetsExt, Functions

CONSTANTS
    Task, Injector,
    Remote,                  \* tasks that other threads schedule
    Yielder,                 \* tasks that may co_yield true
    Sleeper,                 \* tasks that suspend and are woken again
    Stealing,                \* stealing_enabled and there are siblings
    CreditBound,             \* steals cease above this burst_credit
    kCapacity,               \* of local_ring
    InjectBatch,             \* size of inject_buffer
    lifo_poll_limit, inject_check_interval, ready_budget,
    FollowupLimit,           \* local_followup_pass_limit
    Null

ASSUME SchedulerAssumption ==
    /\ Yielder \subseteq Task /\ Sleeper \subseteq Task /\ Remote \subseteq Task
    /\ Stealing \in BOOLEAN
    /\ CreditBound \in Nat
    /\ {kCapacity, InjectBatch, ready_budget, FollowupLimit} \subseteq Nat \ {0}
    /\ {lifo_poll_limit, inject_check_interval} \subseteq Nat
    /\ Null \notin Task

VARIABLES
    lifo_slot, lifo_enabled, consecutive_lifo_polls, polls_since_inject,
    local_ring, inject_queue, injected_outstanding,
    m_sleeping, m_wakeup_pending,
    eventfd,    \* the wake descriptor is readable
    m_running, stopper,
    loop,       \* label and local variables of the loop thread
    injector,   \* label, task and was_empty of each injecting thread
    task        \* "idle", "queued", "running" or "done"

workerVars == <<lifo_slot, lifo_enabled, consecutive_lifo_polls,
                polls_since_inject, local_ring>>
injectVars == <<inject_queue, injected_outstanding>>
wakeVars == <<m_sleeping, m_wakeup_pending, eventfd>>
stopVars == <<m_running, stopper>>
vars == <<workerVars, injectVars, wakeVars, stopVars, loop, injector, task>>

Init ==
    /\ lifo_slot = Null
    /\ lifo_enabled = TRUE
    /\ consecutive_lifo_polls = 0
    /\ polls_since_inject = 0
    /\ local_ring = <<>>
    /\ inject_queue = <<>>
    /\ injected_outstanding = 0
    /\ m_sleeping = FALSE
    /\ m_wakeup_pending = FALSE
    /\ eventfd = FALSE
    /\ m_running = TRUE
    /\ stopper = "idle"
    /\ loop = [pc |-> "head", next |-> Null, burst |-> FALSE, credit |-> 0,
               ran |-> 0, remote |-> FALSE, passes |-> 0, count |-> 0,
               last |-> FALSE]
    /\ injector = [i \in Injector |->
                     [pc |-> "idle", task |-> Null, wasEmpty |-> FALSE]]
    /\ task = [t \in Task |-> "idle"]

Goto(l) == loop' = [loop EXCEPT !.pc = l]

-----------------------------------------------------------------------------
(* Other threads: schedule(task) *)

\* To a label from which was_empty is not read again.
InjectorGoto(i, l) == injector' = [injector EXCEPT ![i].pc = l, ![i].wasEmpty = FALSE]

\* was_empty = injected_outstanding.fetch_add(1) == 0.
InjectBegin(i, t) ==
    /\ injector[i].pc = "idle"
    /\ t \in Remote /\ task[t] = "idle"
    /\ task' = [task EXCEPT ![t] = "queued"]
    /\ injector' = [injector EXCEPT ![i] =
          [pc |-> "enqueue", task |-> t, wasEmpty |-> injected_outstanding = 0]]
    /\ injected_outstanding' = injected_outstanding + 1
    /\ UNCHANGED <<workerVars, inject_queue, wakeVars, stopVars, loop>>

InjectEnqueue(i) ==
    /\ injector[i].pc = "enqueue"
    /\ inject_queue' = Append(inject_queue, injector[i].task)
    /\ injector' = [injector EXCEPT ![i].pc = "test", ![i].task = Null]
    /\ UNCHANGED <<workerVars, injected_outstanding, wakeVars, stopVars, loop, task>>

\* requestWake: coalesce unless the queue was empty or the loop may sleep ...
WakeTest_OnlyEdge(i) ==
    /\ injector[i].pc = "test"
    /\ InjectorGoto(i, IF injector[i].wasEmpty THEN "exchange" ELSE "idle")
    /\ UNCHANGED <<workerVars, injectVars, wakeVars, stopVars, loop, task>>

WakeTest(i) ==
    /\ injector[i].pc = "test"
    /\ InjectorGoto(i, IF injector[i].wasEmpty \/ m_sleeping
                       THEN "exchange" ELSE "idle")
    /\ UNCHANGED <<workerVars, injectVars, wakeVars, stopVars, loop, task>>

\* ... and unless a wake is pending already.
WakeExchange(i) ==
    /\ injector[i].pc = "exchange"
    /\ m_wakeup_pending' = TRUE
    /\ InjectorGoto(i, IF m_wakeup_pending THEN "idle" ELSE "notify")
    /\ UNCHANGED <<workerVars, injectVars, m_sleeping, eventfd, stopVars, loop, task>>

\* notify(): write the event descriptor.
Notify(i) ==
    /\ injector[i].pc = "notify"
    /\ eventfd' = TRUE
    /\ InjectorGoto(i, "idle")
    /\ UNCHANGED <<workerVars, injectVars, m_sleeping, m_wakeup_pending, stopVars,
                   loop, task>>

\* stop(): clear m_running, then forceWake.
Stop_NoWake ==
    /\ stopper = "idle"
    /\ m_running' = FALSE
    /\ stopper' = "done"
    /\ UNCHANGED <<workerVars, injectVars, wakeVars, loop, injector, task>>

Stop ==
    /\ stopper = "idle"
    /\ m_running' = FALSE
    /\ stopper' = "wake"
    /\ UNCHANGED <<workerVars, injectVars, wakeVars, loop, injector, task>>

ForceWake ==
    /\ stopper = "wake"
    /\ eventfd' = TRUE
    /\ stopper' = "done"
    /\ UNCHANGED <<workerVars, injectVars, m_sleeping, m_wakeup_pending, m_running,
                   loop, injector, task>>

-----------------------------------------------------------------------------
(* The worker's queues, used by the loop thread *)

HasLocalWork == lifo_slot # Null \/ local_ring # <<>>
HasPendingInjected == injected_outstanding > 0
RemainingCapacity == kCapacity - Len(local_ring)

\* enqueueDeferred: onto the ring, or through the inject queue if it is full.
enqueueDeferred_DropsIfFull(t) ==
    /\ local_ring' = IF RemainingCapacity = 0 THEN local_ring
                     ELSE Append(local_ring, t)
    /\ UNCHANGED injectVars

enqueueDeferred(t) ==
    \/ /\ RemainingCapacity # 0
       /\ local_ring' = Append(local_ring, t)
       /\ UNCHANGED injectVars
    \/ /\ RemainingCapacity = 0
       /\ injected_outstanding' = injected_outstanding + 1
       /\ inject_queue' = Append(inject_queue, t)
       /\ UNCHANGED local_ring

\* scheduleLocal: the newcomer takes the LIFO slot, if that is enabled.
scheduleLocal(t) ==
    /\ task' = [task EXCEPT ![t] = "queued"]
    /\ UNCHANGED <<lifo_enabled, consecutive_lifo_polls, polls_since_inject>>
    /\ \/ lifo_enabled /\ lifo_slot # Null /\ lifo_slot' = t
          /\ enqueueDeferred(lifo_slot)
       \/ lifo_enabled /\ lifo_slot = Null /\ lifo_slot' = t
          /\ UNCHANGED <<local_ring, injectVars>>
       \/ ~lifo_enabled /\ enqueueDeferred(t) /\ UNCHANGED lifo_slot

\* drainInjected: at most InjectBatch tasks and never more than the ring takes,
\* pushed in reverse so that the oldest is popped first.
DrainLimit == Min({RemainingCapacity, InjectBatch})

DrainCount == Min({DrainLimit, Len(inject_queue)})

drainInjected ==
    LET filled == local_ring
                  \o [k \in 1..DrainCount |-> inject_queue[DrainCount + 1 - k]]
    IN /\ local_ring' = SubSeq(filled, 1, Min({Len(filled), kCapacity}))
       /\ inject_queue' = SubSeq(inject_queue, DrainCount + 1, Len(inject_queue))
       /\ polls_since_inject' = IF RemainingCapacity = 0 THEN polls_since_inject
                                ELSE 0

-----------------------------------------------------------------------------
(* The loop thread *)

\* while (running): runLocalFollowupPasses begins, or the thread ends.
LoopHead ==
    /\ loop.pc = "head"
    /\ loop' = [loop EXCEPT !.pc = IF m_running THEN "pass" ELSE "exited",
                            !.passes = 0]
    /\ UNCHANGED <<workerVars, injectVars, wakeVars, stopVars, injector, task>>

\* runReadyPassDetailed begins.
PassBegin ==
    /\ loop.pc = "pass"
    /\ loop' = [loop EXCEPT !.pc = "collect", !.burst = ~HasLocalWork,
                            !.credit = 0, !.ran = 0, !.remote = FALSE,
                            !.passes = @ + 1]
    /\ UNCHANGED <<workerVars, injectVars, wakeVars, stopVars, injector, task>>

\* Tasks move to the ring and are counted as burst credit.
Drain(last) ==
    /\ drainInjected
    /\ loop' = [loop EXCEPT
          !.pc = IF DrainCount > 0 THEN "settle" ELSE IF last THEN "end" ELSE "pop",
          !.count = DrainCount,
          !.last = last,
          !.remote = @ \/ DrainCount > 0,
          !.credit = IF loop.burst THEN @ + DrainCount ELSE @]
    /\ UNCHANGED <<lifo_slot, lifo_enabled, consecutive_lifo_polls,
                   injected_outstanding, wakeVars, stopVars, injector, task>>

\* collectRemote.
Collect ==
    /\ loop.pc = "collect"
    /\ \/ /\ ~HasLocalWork \/ polls_since_inject >= inject_check_interval
             \/ HasPendingInjected
          /\ Drain(FALSE)
       \/ /\ HasLocalWork /\ polls_since_inject < inject_check_interval
             /\ ~HasPendingInjected
          /\ Goto("pop")
          /\ UNCHANGED <<workerVars, injectVars, wakeVars, stopVars, injector, task>>

\* injected_outstanding.fetch_sub(count).
Settle ==
    /\ loop.pc = "settle"
    /\ injected_outstanding' = injected_outstanding - loop.count
    /\ loop' = [loop EXCEPT !.pc = "announce", !.count = 0]
    /\ UNCHANGED <<workerVars, inject_queue, wakeVars, stopVars, injector, task>>

\* onRemoteCollected: markAwake and cancelPendingWake.
Announce ==
    /\ loop.pc = "announce"
    /\ m_sleeping' = FALSE
    /\ m_wakeup_pending' = FALSE
    /\ Goto("pop")
    /\ UNCHANGED <<workerVars, injectVars, eventfd, stopVars, injector, task>>

\* prepareForRun: after too many turns of the LIFO slot its task goes to the ring.
MustDemote == lifo_enabled /\ lifo_slot # Null
              /\ consecutive_lifo_polls >= lifo_poll_limit

Demote ==
    /\ loop.pc = "pop"
    /\ MustDemote
    /\ enqueueDeferred(lifo_slot)
    /\ lifo_slot' = Null
    /\ lifo_enabled' = FALSE
    /\ consecutive_lifo_polls' = 0
    /\ UNCHANGED <<polls_since_inject, wakeVars, stopVars, loop, injector, task>>

Capped(n, bound) == Min({n, bound})

Runs(t) ==
    /\ task' = [task EXCEPT ![t] = "running"]
    /\ loop' = [loop EXCEPT !.pc = "run", !.next = t, !.last = FALSE]
    /\ polls_since_inject' = Capped(polls_since_inject + 1, inject_check_interval)

\* popNext: the LIFO slot, else the youngest task of the ring.
PopLifo ==
    /\ loop.pc = "pop"
    /\ lifo_slot # Null /\ ~MustDemote
    /\ Runs(lifo_slot)
    /\ lifo_slot' = Null
    /\ consecutive_lifo_polls' =
         Capped(consecutive_lifo_polls + 1, lifo_poll_limit)
    /\ UNCHANGED <<lifo_enabled, local_ring, injectVars, wakeVars, stopVars, injector>>

PopRing ==
    /\ loop.pc = "pop"
    /\ lifo_slot = Null /\ local_ring # <<>>
    /\ Runs(local_ring[Len(local_ring)])
    /\ local_ring' = SubSeq(local_ring, 1, Len(local_ring) - 1)
    /\ lifo_enabled' = TRUE
    /\ consecutive_lifo_polls' = 0
    /\ UNCHANGED <<lifo_slot, injectVars, wakeVars, stopVars, injector>>

\* Nothing to pop: go round while tasks are being injected, else drain once more.
PopNothing ==
    /\ loop.pc = "pop"
    /\ ~HasLocalWork
    /\ \/ /\ loop.last
          /\ Goto("end")
          /\ UNCHANGED <<workerVars, injectVars, wakeVars, stopVars, injector, task>>
       \/ /\ ~loop.last /\ HasPendingInjected
          /\ Goto("collect")
          /\ UNCHANGED <<workerVars, injectVars, wakeVars, stopVars, injector, task>>
       \/ /\ ~loop.last /\ ~HasPendingInjected
          /\ Drain(TRUE)

-----------------------------------------------------------------------------
(* resume_fn(next): the task runs, schedules others, and stops running *)

RunSchedules(t) ==
    /\ loop.pc = "run"
    /\ task[t] = "idle"
    /\ scheduleLocal(t)
    /\ UNCHANGED <<wakeVars, stopVars, loop, injector>>

\* ran and burst_credit are adjusted, and the budget decides about another turn.
AfterRun ==
    LET ran == Capped(loop.ran + 1, ready_budget)
        credit == IF loop.credit > 0 THEN loop.credit - 1 ELSE 0
    IN loop' = [loop EXCEPT !.next = Null, !.ran = ran, !.credit = credit,
                  !.pc = IF ran >= ready_budget /\ (~loop.burst \/ credit = 0)
                         THEN "end" ELSE "collect"]

RunEnds ==
    /\ loop.pc = "run"
    /\ \E s \in {"done"} \union (IF loop.next \in Sleeper THEN {"idle"} ELSE {}) :
          task' = [task EXCEPT ![loop.next] = s]
    /\ AfterRun
    /\ UNCHANGED <<workerVars, injectVars, wakeVars, stopVars, injector>>

\* co_yield true: scheduleLocalDeferred, through the inject queue.
RunYields ==
    /\ loop.pc = "run"
    /\ loop.next \in Yielder
    /\ task' = [task EXCEPT ![loop.next] = "queued"]
    /\ injected_outstanding' = injected_outstanding + 1
    /\ inject_queue' = Append(inject_queue, loop.next)
    /\ AfterRun
    /\ UNCHANGED <<workerVars, wakeVars, stopVars, injector>>

\* The next follow-up pass, or on to the timers and poll.
PassEnd ==
    /\ loop.pc = "end"
    /\ LET again == /\ loop.ran >= ready_budget /\ ~loop.remote
                    /\ HasLocalWork /\ loop.passes < FollowupLimit
       IN loop' = [loop EXCEPT !.pc = IF again THEN "pass" ELSE "tick",
                     !.passes = IF again THEN @ ELSE 0, !.last = FALSE,
                     !.burst = FALSE, !.credit = 0, !.ran = 0, !.remote = FALSE]
    /\ UNCHANGED <<workerVars, injectVars, wakeVars, stopVars, injector, task>>

\* A timer of tick(), or a completion found by poll, wakes a task.
LoopWakes(t) ==
    /\ loop.pc \in {"tick", "polled"}
    /\ task[t] = "idle"
    /\ scheduleLocal(t)
    /\ UNCHANGED <<wakeVars, stopVars, loop, injector>>

MarkSleeping ==
    /\ loop.pc = "tick"
    /\ m_sleeping' = TRUE
    /\ Goto("recheck")
    /\ UNCHANGED <<workerVars, injectVars, m_wakeup_pending, eventfd, stopVars,
                   injector, task>>

\* hasPendingWork is asked once more before poll.
Recheck ==
    /\ loop.pc = "recheck"
    /\ Goto(IF HasLocalWork \/ HasPendingInjected THEN "awake" ELSE "steal")
    /\ UNCHANGED <<workerVars, injectVars, wakeVars, stopVars, injector, task>>

\* trySteal: some tasks of a sibling's ring come here, or there are none.
TrySteal ==
    /\ loop.pc = "steal"
    /\ \/ /\ Stealing /\ ~HasPendingInjected
          /\ \E s \in {q \in UNION {[1..n -> Task] : n \in 1..kCapacity} :
                         IsInjective(q) /\ \A k \in DOMAIN q : task[q[k]] = "idle"} :
                /\ local_ring' = s
                /\ task' = [t \in Task |-> IF t \in Range(s) THEN "queued" ELSE task[t]]
          /\ lifo_enabled' = TRUE
          /\ consecutive_lifo_polls' = 0
          /\ polls_since_inject' = 0
          /\ Goto("awake")
          /\ UNCHANGED lifo_slot
       \/ Goto("poll") /\ UNCHANGED <<workerVars, task>>
    /\ UNCHANGED <<injectVars, wakeVars, stopVars, injector>>

\* A sibling's trySteal takes the oldest task of this ring.
Stolen ==
    /\ Stealing
    /\ loop.credit <= CreditBound
    /\ local_ring # <<>>
    /\ local_ring' = Tail(local_ring)
    /\ task' = [task EXCEPT ![local_ring[1]] =
                             IF local_ring[1] \in Sleeper THEN "idle" ELSE "done"]
    /\ UNCHANGED <<lifo_slot, lifo_enabled, consecutive_lifo_polls,
                   polls_since_inject, injectVars, wakeVars, stopVars, loop, injector>>

\* epoll_wait returns with the event descriptor among its events ...
PollWoken ==
    /\ loop.pc = "poll"
    /\ eventfd
    /\ loop' = [loop EXCEPT !.pc = "polled", !.last = TRUE]
    /\ UNCHANGED <<workerVars, injectVars, wakeVars, stopVars, injector, task>>

\* ... or with other events only, interrupted, or after its timeout.
PollReturns ==
    /\ loop.pc = "poll"
    /\ Goto("polled")
    /\ UNCHANGED <<workerVars, injectVars, wakeVars, stopVars, injector, task>>

\* The descriptor is read until it is empty ...
PollReadsEvent ==
    /\ loop.pc = "polled"
    /\ loop.last
    /\ eventfd' = FALSE
    /\ loop' = [loop EXCEPT !.pc = "cancel", !.last = FALSE]
    /\ UNCHANGED <<workerVars, injectVars, m_sleeping, m_wakeup_pending, stopVars,
                   injector, task>>

\* ... and cancelPendingWake follows.
PollCancels_Missing ==
    /\ loop.pc = "cancel"
    /\ Goto("polled")
    /\ UNCHANGED <<workerVars, injectVars, wakeVars, stopVars, injector, task>>

PollCancels ==
    /\ loop.pc = "cancel"
    /\ m_wakeup_pending' = FALSE
    /\ Goto("polled")
    /\ UNCHANGED <<workerVars, injectVars, m_sleeping, eventfd, stopVars, injector,
                   task>>

MarkAwake ==
    /\ loop.pc \in {"awake", "polled"}
    /\ ~loop.last
    /\ m_sleeping' = FALSE
    /\ Goto("head")
    /\ UNCHANGED <<workerVars, injectVars, m_wakeup_pending, eventfd, stopVars,
                   injector, task>>

-----------------------------------------------------------------------------
InjectorStep(i) ==
    \/ InjectEnqueue(i) \/ WakeTest(i) \/ WakeExchange(i) \/ Notify(i)

LoopStep ==
    \/ LoopHead \/ PassBegin \/ Collect \/ Settle \/ Announce
    \/ Demote \/ PopLifo \/ PopRing \/ PopNothing
    \/ RunEnds \/ RunYields \/ PassEnd
    \/ MarkSleeping \/ Recheck \/ TrySteal
    \/ PollWoken \/ PollReadsEvent \/ PollCancels \/ MarkAwake

Terminated == loop.pc = "exited" /\ UNCHANGED vars

Next ==
    \/ \E i \in Injector : InjectorStep(i) \/ \E t \in Task : InjectBegin(i, t)
    \/ LoopStep
    \/ \E t \in Task : RunSchedules(t) \/ LoopWakes(t)
    \/ PollReturns \/ Stolen
    \/ Stop \/ ForceWake
    \/ Terminated

\* Threads go on.  Nothing is assumed of poll's timeout: a task must be reached
\* through the wake protocol.
Fairness ==
    /\ WF_vars(LoopStep)
    /\ WF_vars(ForceWake)
    /\ \A i \in Injector : WF_vars(InjectorStep(i))

Spec == Init /\ [][Next]_vars

FairSpec == Spec /\ Fairness

-----------------------------------------------------------------------------
(* Properties *)

\* Type correctness: injected_outstanding, a uint64_t, is never lowered
\* below zero, and the ring never overflows.
TypeOK ==
    /\ lifo_slot \in Task \union {Null}
    /\ lifo_enabled \in BOOLEAN
    /\ consecutive_lifo_polls \in 0..lifo_poll_limit
    /\ polls_since_inject \in 0..inject_check_interval
    /\ local_ring \in Seq(Task) /\ Len(local_ring) <= kCapacity
    /\ inject_queue \in Seq(Task)
    /\ injected_outstanding \in Nat
    /\ m_sleeping \in BOOLEAN /\ m_wakeup_pending \in BOOLEAN
    /\ eventfd \in BOOLEAN /\ m_running \in BOOLEAN
    /\ stopper \in {"idle", "wake", "done"}
    /\ loop.next \in Task \union {Null}
    /\ \A i \in Injector : injector[i].task \in Task \union {Null}
    /\ task \in [Task -> {"idle", "queued", "running", "done"}]

\* Where t is held: in the ring, in the inject queue, in the LIFO slot, or by a thread that
\* is about to enqueue it.
Places(t) ==
    ({"ring"} \X {k \in DOMAIN local_ring : local_ring[k] = t})
    \union ({"inject"} \X {k \in DOMAIN inject_queue : inject_queue[k] = t})
    \union ({"lifo"} \X {s \in {lifo_slot} : s = t})
    \union ({"injector"} \X {i \in Injector : injector[i].task = t})

\* Types, and injected_outstanding counts what is in the inject queue, what is about to be
\* enqueued and what has just been moved; it neither wraps nor stays positive.
OutstandingExact ==
    /\ TypeOK
    /\ injected_outstanding =
        Len(inject_queue) + loop.count
        + Quantify(Injector, LAMBDA i : injector[i].pc = "enqueue")

\* A scheduled task is in exactly one queue and no other task is in any: none is
\* lost or doubled when the ring overflows into the inject queue, when the LIFO
\* slot is displaced, or while batches are moved; and injected_outstanding is exact.
EachTaskQueuedOnce ==
    /\ OutstandingExact
    /\ \A t \in Task : Cardinality(Places(t)) = IF task[t] = "queued" THEN 1 ELSE 0

\* The loop never sleeps over a task: in poll it has no local one, and while an
\* injected one waits the event descriptor is readable or an injecting thread has
\* yet to decide or write.
NoLostWake ==
    loop.pc = "poll" =>
        /\ ~HasLocalWork
        /\ inject_queue # <<>> =>
              \/ eventfd
              \/ \E i \in Injector : injector[i].pc \in {"test", "exchange", "notify"}

\* From some point on no task is scheduled: none is woken, yields, is scheduled by another,
\* or comes from a sibling.
WorkEnds == <>[][\A t \in Task : task'[t] = "queued" => task[t] = "queued"]_vars

\* Once work stops coming every scheduled task has run, unless the scheduler is stopped,
\* even if poll never times out: the wake protocol alone brings it about.  (While work keeps
\* coming the ring's oldest task may starve: EveryTaskRuns.)
ScheduledRuns ==
    WorkEnds => []<>(~m_running \/ \A t \in Task : task[t] # "queued")

\* A deferred task runs in its turn (io_scheduler.hpp:310, "oldest-first FIFO"), however
\* often others are woken, if none yields for ever.
\* (Does not hold: README, "Where the code departs from its documentation".)
EveryTaskRuns ==
    <>[][~RunYields]_vars =>
        \A t \in Task : task[t] = "queued" ~> task[t] # "queued" \/ ~m_running

\* Ready passes end: the loop keeps returning to its timers and poll.
\* (Does not hold: README, "Where the code departs from its documentation".)
PassEnds == loop.pc = "pass" ~> loop.pc \in {"tick", "exited"}

\* From some point on nothing goes through the inject queue.
InjectsEnd == <>[][injected_outstanding' <= injected_outstanding]_vars

\* stop() ends the loop unless tasks are injected or yield for ever, even if poll never
\* times out and however many tasks timers, completions and other tasks go on waking.
StopEndsLoop == InjectsEnd => []<>(m_running \/ loop.pc = "exited")
=============================================================================
