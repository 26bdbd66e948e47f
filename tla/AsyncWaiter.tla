---------------------------- MODULE AsyncWaiter ----------------------------
(***************************************************************************)
(* AsyncWaiter<T> and AsyncWaiter<void> (concurrency/async_waiter.h): one  *)
(* coroutine awaits wait(), possibly with a timeout, and several threads   *)
(* call notify().  Each step is one access to a shared variable.           *)
(*                                                                         *)
(* The optional m_result is not atomic.  While a notifier assigns it, a    *)
(* read may find it empty, engaged, or engaged with a half-written value.  *)
(* Name_Variant beside Name is the same code with one fault in it.         *)
(***************************************************************************)
EXTENDS Naturals

CONSTANTS
    Notifier,
    WithTimeouts   \* whether wait().timeout(...) is used

VARIABLES
    hasValue,   \* AsyncWaiter<T> if TRUE, AsyncWaiter<void> if FALSE
    m_ready, m_waiting,
    w_result,   \* m_result: "empty", "writing" or "set"
    notifier,   \* label of each notifying thread
    w_pc,       \* label of the awaiting coroutine
    w_timer,    \* the TimeoutTimer: "none", "armed" or "fired"
    w_queued,   \* a resume of the coroutine is queued
    outcome,    \* what await_resume returned
    stray       \* a wake-up resumed the coroutine at a later await

coroutineVars == <<w_pc, w_timer, outcome, stray>>
waiterVars == <<hasValue, m_ready, m_waiting, w_result, notifier, w_queued, coroutineVars>>

WaiterInit ==
    /\ hasValue \in BOOLEAN
    /\ m_ready = FALSE
    /\ m_waiting = FALSE
    /\ w_result = "empty"
    /\ notifier = [n \in Notifier |-> "idle"]
    /\ w_pc = "ready?"
    /\ w_timer = "none"
    /\ w_queued = FALSE
    /\ outcome = "none"
    /\ stray = FALSE

-----------------------------------------------------------------------------
(* notify *)

NotifierGoto(n, l) == notifier' = [notifier EXCEPT ![n] = l]

\* The exchange on m_ready elects one notifier; the others return false.
ClaimReady(n) ==
    /\ notifier[n] = "idle"
    /\ m_ready' = TRUE
    /\ NotifierGoto(n, CASE m_ready -> "refused"
                         [] ~m_ready /\ hasValue -> "assign"
                         [] OTHER -> "handoff")
    /\ UNCHANGED <<m_waiting, w_result, w_queued, coroutineVars>>

\* m_result = std::move(result), begun and finished.
Assign(n) ==
    /\ \/ /\ notifier[n] = "assign"
          /\ w_result' = "writing"
          /\ NotifierGoto(n, "assigning")
       \/ /\ notifier[n] = "assigning"
          /\ w_result' = "set"
          /\ NotifierGoto(n, "handoff")
    /\ UNCHANGED <<m_ready, m_waiting, w_queued, coroutineVars>>

\* The exchange on m_waiting takes the registration, if there is one.
Handoff(n) ==
    /\ notifier[n] = "handoff"
    /\ m_waiting' = FALSE
    /\ NotifierGoto(n, IF m_waiting THEN "wake" ELSE "notified")
    /\ UNCHANGED <<m_ready, w_result, w_queued, coroutineVars>>

\* m_waker.wakeUp().
WakeWaiting(n) ==
    /\ notifier[n] = "wake"
    /\ w_queued' = TRUE
    /\ NotifierGoto(n, "notified")
    /\ UNCHANGED <<m_ready, m_waiting, w_result, coroutineVars>>

-----------------------------------------------------------------------------
(* co_await wait() *)

WaitReady ==
    /\ w_pc = "ready?"
    /\ w_pc' = IF m_ready THEN "resume" ELSE "register"
    /\ UNCHANGED <<m_ready, m_waiting, w_result, notifier, w_queued, w_timer,
                   outcome, stray>>

\* m_waker is stored and m_waiting exchanged to true.
Register ==
    /\ w_pc = "register"
    /\ m_waiting' = TRUE
    /\ w_pc' = IF m_waiting THEN "resume" ELSE "recheck"
    /\ UNCHANGED <<m_ready, w_result, notifier, w_queued, w_timer, outcome, stray>>

\* The second look at m_ready, after which the coroutine suspends.
Recheck_Skipped ==
    /\ w_pc = "recheck"
    /\ w_pc' = "suspended"
    /\ UNCHANGED <<m_ready, m_waiting, w_result, notifier, w_queued, w_timer,
                   outcome, stray>>

Recheck ==
    /\ w_pc = "recheck"
    /\ w_pc' = IF m_ready THEN "withdraw" ELSE "suspended"
    /\ UNCHANGED <<m_ready, m_waiting, w_result, notifier, w_queued, w_timer,
                   outcome, stray>>

\* m_waiting.store(false): the coroutine does not suspend.
Withdraw ==
    /\ w_pc = "withdraw"
    /\ m_waiting' = FALSE
    /\ w_pc' = "resume"
    /\ UNCHANGED <<m_ready, w_result, notifier, w_queued, w_timer, outcome, stray>>

\* WithTimeout: the timer is added once the inner await has suspended.
ArmWaitTimer ==
    /\ WithTimeouts
    /\ w_pc = "suspended"
    /\ w_timer = "none"
    /\ w_timer' = "armed"
    /\ UNCHANGED <<m_ready, m_waiting, w_result, notifier, w_queued, w_pc, outcome,
                   stray>>

\* handleTimeout sets kTimeout and wakes the coroutine.
TimerFires_Unflagged ==
    /\ w_pc = "suspended"
    /\ w_timer = "armed"
    /\ w_queued' = TRUE
    /\ UNCHANGED <<m_ready, m_waiting, w_result, notifier, w_timer, w_pc, outcome,
                   stray>>

TimerFires ==
    /\ w_pc = "suspended"
    /\ w_timer = "armed"
    /\ w_timer' = "fired"
    /\ w_queued' = TRUE
    /\ UNCHANGED <<m_ready, m_waiting, w_result, notifier, w_pc, outcome, stray>>

\* Scheduler::resume runs the coroutine wherever it is suspended.
ResumeWait ==
    /\ w_queued
    /\ \/ w_pc = "suspended" /\ w_pc' = "resume" /\ UNCHANGED stray
       \/ w_pc = "after" /\ stray' = TRUE /\ UNCHANGED w_pc
    /\ w_queued' = FALSE
    /\ UNCHANGED <<m_ready, m_waiting, w_result, notifier, w_timer, outcome>>

\* await_resume.  The void form returns its own m_result, which WithTimeout has
\* overwritten after a timeout; the other reads the waiter's m_result.
WaitResume ==
    /\ w_pc = "resume"
    /\ w_pc' = "after"
    /\ \/ /\ ~hasValue
          /\ outcome' = IF w_timer = "fired" THEN "timeout" ELSE "result"
       \/ /\ hasValue
          /\ outcome' \in CASE w_result = "empty" -> {"timeout"}
                            [] w_result = "set" -> {"result"}
                            [] OTHER -> {"timeout", "result", "torn"}
    /\ UNCHANGED <<m_ready, m_waiting, w_result, notifier, w_queued, w_timer, stray>>

-----------------------------------------------------------------------------
NotifyStep(n) == (Assign(n) \/ Handoff(n) \/ WakeWaiting(n)) /\ UNCHANGED hasValue

CoroutineStep ==
    /\ WaitReady \/ Register \/ Recheck \/ Withdraw \/ ResumeWait \/ WaitResume
    /\ UNCHANGED hasValue

WaiterNext ==
    \/ \E n \in Notifier : (ClaimReady(n) /\ UNCHANGED hasValue) \/ NotifyStep(n)
    \/ CoroutineStep
    \/ (ArmWaitTimer \/ TimerFires) /\ UNCHANGED hasValue

\* A notify that was entered returns; the coroutine's thread keeps running.
WaiterFairness == WF_waiterVars(CoroutineStep) /\ \A n \in Notifier : WF_waiterVars(NotifyStep(n))

WaiterSpec == WaiterInit /\ [][WaiterNext]_waiterVars

WaiterFairSpec == WaiterSpec /\ WaiterFairness

-----------------------------------------------------------------------------
(* Properties *)

\* Type correctness: await_resume never takes the value of an empty
\* m_result.
WaiterTypeOK ==
    /\ hasValue \in BOOLEAN
    /\ m_ready \in BOOLEAN
    /\ m_waiting \in BOOLEAN
    /\ w_result \in {"empty", "writing", "set"}
    /\ notifier \in [Notifier -> {"idle", "refused", "assign", "assigning",
                                  "handoff", "wake", "notified"}]
    /\ w_pc \in {"ready?", "register", "recheck", "withdraw", "suspended", "resume",
               "after"}
    /\ w_timer \in {"none", "armed", "fired"}
    /\ w_queued \in BOOLEAN
    /\ outcome \in {"none", "result", "torn", "timeout"}
    /\ stray \in BOOLEAN

\* Types, and a wait that did not time out returns only after notify.
ReturnsOnlyAfterNotify ==
    /\ WaiterTypeOK
    /\ outcome # "none" /\ w_timer # "fired" => m_ready

\* Once notify is entered, the wait returns: no order of the notifiers' steps and
\* the registration loses the notification.
NotifiedReturns == m_ready ~> outcome # "none"

\* async_waiter.h:179: isReady() means notified, and the result visible to the
\* waiting side: a wait without a timeout returns it.
\* (Does not hold: README, "Where the code departs from its documentation".)
ReadyResultVisible == w_timer # "fired" => outcome \in {"none", "result"}

\* async_waiter.h:171: isWaiting() means a coroutine is registered and suspended.
\* (Does not hold: README, "Where the code departs from its documentation".)
WaitingHasNotReturned == m_waiting => outcome = "none"

\* async_waiter.h:159: notify wakes the waiting coroutine, if there is one.
\* (Does not hold: README, "Where the code departs from its documentation".)
WakesOnlyTheWait == ~stray
=============================================================================
