----------------------------- MODULE AsyncMutex -----------------------------
(***************************************************************************)
(* AsyncMutex (concurrency/async_mutex.h) with co_await lock() and         *)
(* co_await lock().timeout(...) (kernel/timeout.hpp).                      *)
(*                                                                         *)
(* Every atomic operation of the code is one step.  A waiter record        *)
(* (AsyncMutexWaiter) is the pair <<c, n>>: the n-th lock() of coroutine   *)
(* c.  Each coroutine runs on a scheduler thread of its own; its Waker     *)
(* sets m_queued and the scheduler later resumes it at whatever co_await   *)
(* it is then suspended in.                                                *)
(*                                                                         *)
(* Name_Variant beside Name is the same code with one fault in it, used to *)
(* show that a property can fail; it is in no behaviour of Spec.           *)
(***************************************************************************)
EXTENDS Integers, FiniteSets

CONSTANTS
    Coroutine,
    MaxLocks,         \* bound: lock() calls per coroutine
    Timed,            \* coroutines that may use lock().timeout(...)
    TimerOnOwnThread  \* an IOScheduler ticks its timers on the thread that
                      \* resumes its tasks; a ComputeScheduler's timers fire on
                      \* the TimerScheduler thread

ASSUME MutexAssumption ==
    /\ MaxLocks \in Nat \ {0}
    /\ Timed \subseteq Coroutine
    /\ TimerOnOwnThread \in BOOLEAN

Waiter == Coroutine \X (1..MaxLocks)
NoWaiter == <<>>

VARIABLES
    m_locked,
    m_waiters,  \* records in the queue; producers are different threads, so
                \* moodycamel::ConcurrentQueue may deliver them in any order
    active,     \* AsyncMutexWaiter::active
    pc,         \* where each coroutine is
    round,      \* which lock() call of the coroutine this is
    dequeued,   \* `waiter' in unlock()
    m_queued,   \* a resume of the coroutine is in its scheduler's queue
    timer,      \* TimeoutTimer of each lock(): how far handleTimeout is
    timedOut    \* kTimeout flag of that timer

vars == <<m_locked, m_waiters, active, pc, round, dequeued, m_queued, timer,
          timedOut>>

Pc == {"idle", "enqueue", "retry", "cancel", "arm", "suspended", "locked",
       "dequeue", "claim", "relock", "wake", "reactivate", "requeue", "ended"}

Init ==
    /\ m_locked = FALSE
    /\ m_waiters = {}
    /\ active = [w \in Waiter |-> FALSE]
    /\ pc = [c \in Coroutine |-> "idle"]
    /\ round = [c \in Coroutine |-> 1]
    /\ dequeued = [c \in Coroutine |-> NoWaiter]
    /\ m_queued = [c \in Coroutine |-> FALSE]
    /\ timer = [w \in Waiter |-> "none"]
    /\ timedOut = [w \in Waiter |-> FALSE]

Goto(c, l) == pc' = [pc EXCEPT ![c] = l]

\* The record of the lock() call c is in.
Current(c) == <<c, round[c]>>

\* The thread of c is inside handleTimeout of one of c's timers.
InTimer(c) == \E n \in 1..MaxLocks : timer[<<c, n>>] \in {"expired", "flagged"}

\* The owner thread of c is free to execute c.
MayRun(c) == TimerOnOwnThread => ~InTimer(c)

\* Waker::wakeUp -> requestTaskResume: a finished or already queued task is left
\* alone.
WakeUp(c) == m_queued' = [m_queued EXCEPT ![c] = @ \/ pc[c] # "ended"]

-----------------------------------------------------------------------------
(* lock(): await_ready, await_suspend, await_resume *)

\* await_ready: tryLock.
AwaitReady(c) ==
    /\ pc[c] = "idle"
    /\ MayRun(c)
    /\ m_locked' = TRUE
    /\ Goto(c, IF m_locked THEN "enqueue" ELSE "locked")
    /\ UNCHANGED <<m_waiters, active, round, dequeued, m_queued, timer, timedOut>>

\* await_suspend: a fresh waiter, active, goes into the queue.
Enqueue(c) ==
    /\ pc[c] = "enqueue"
    /\ m_waiters' = m_waiters \cup {Current(c)}
    /\ active' = [active EXCEPT ![Current(c)] = TRUE]
    /\ Goto(c, "retry")
    /\ UNCHANGED <<m_locked, round, dequeued, m_queued, timer, timedOut>>

\* await_suspend: tryLock once more, in case the lock was released meanwhile.
Retry(c) ==
    /\ pc[c] = "retry"
    /\ m_locked' = TRUE
    /\ \/ ~m_locked /\ Goto(c, "cancel")
       \/ m_locked /\ Goto(c, "suspended")
       \/ m_locked /\ c \in Timed /\ Goto(c, "arm")
    /\ UNCHANGED <<m_waiters, active, round, dequeued, m_queued, timer, timedOut>>

\* cancelWaiter() after that tryLock succeeded, and again in await_resume.
CancelWaiter(c) ==
    /\ pc[c] = "cancel"
    /\ active' = [active EXCEPT ![Current(c)] = FALSE]
    /\ Goto(c, "locked")
    /\ UNCHANGED <<m_locked, m_waiters, round, dequeued, m_queued, timer, timedOut>>

\* WithTimeout::await_suspend hands the timer to the scheduler.
ArmTimer(c) ==
    /\ pc[c] = "arm"
    /\ timer' = [timer EXCEPT ![Current(c)] = "armed"]
    /\ Goto(c, "suspended")
    /\ UNCHANGED <<m_locked, m_waiters, active, round, dequeued, m_queued, timedOut>>

\* A lock() call is over: the next one has a fresh waiter and a fresh timer.
NextRound(c) ==
    /\ round' = [round EXCEPT ![c] = IF @ < MaxLocks THEN @ + 1 ELSE @]
    /\ Goto(c, IF round[c] < MaxLocks THEN "idle" ELSE "ended")

\* Scheduler::resume, then WithTimeout::await_resume and
\* AsyncMutexAwaitable::await_resume: kTimeout if the timer's flag is set, and
\* else success, whatever the reason of the wake-up; the waiter is cancelled.
Resume(c) ==
    /\ pc[c] = "suspended"
    /\ m_queued[c]
    /\ MayRun(c)
    /\ m_queued' = [m_queued EXCEPT ![c] = FALSE]
    /\ active' = [active EXCEPT ![Current(c)] = FALSE]
    /\ \/ /\ timedOut[Current(c)]
          /\ NextRound(c)
          /\ UNCHANGED timer
       \/ /\ ~timedOut[Current(c)]
          /\ Goto(c, "locked")
          /\ timer' = [timer EXCEPT ![Current(c)] =
                         IF @ = "armed" THEN "cancelled" ELSE @]
          /\ UNCHANGED round
    /\ UNCHANGED <<m_locked, m_waiters, dequeued, timedOut>>

-----------------------------------------------------------------------------
(* TimeoutTimer::handleTimeout: test the flags, set kTimeout, wake up *)

TimerStep(w, from, to) ==
    /\ timer[w] = from
    /\ TimerOnOwnThread => pc[w[1]] = "suspended"
    /\ timer' = [timer EXCEPT ![w] = to]
    /\ UNCHANGED <<m_locked, m_waiters, active, pc, round, dequeued>>

TimerExpires(w) ==
    TimerStep(w, "armed", "expired") /\ UNCHANGED <<m_queued, timedOut>>

TimerFlags(w) ==
    /\ TimerStep(w, "expired", "flagged")
    /\ timedOut' = [timedOut EXCEPT ![w] = TRUE]
    /\ UNCHANGED m_queued

TimerWakes(w) ==
    TimerStep(w, "flagged", "done") /\ WakeUp(w[1]) /\ UNCHANGED timedOut

-----------------------------------------------------------------------------
(* unlock() *)

\* m_locked.store(false).
Unlock(c) ==
    /\ pc[c] = "locked"
    /\ m_locked' = FALSE
    /\ Goto(c, "dequeue")
    /\ UNCHANGED <<m_waiters, active, round, dequeued, m_queued, timer, timedOut>>

\* try_dequeue: an empty queue ends the call.
Dequeue(c) ==
    /\ pc[c] = "dequeue"
    /\ \/ /\ m_waiters = {}
          /\ NextRound(c)
          /\ UNCHANGED <<m_waiters, dequeued>>
       \/ \E w \in m_waiters :
             /\ m_waiters' = m_waiters \ {w}
             /\ dequeued' = [dequeued EXCEPT ![c] = w]
             /\ Goto(c, "claim")
             /\ UNCHANGED round
    /\ UNCHANGED <<m_locked, active, m_queued, timer, timedOut>>

\* active.compare_exchange_strong(true, false), or try the next waiter: `waiter'
\* is then overwritten before it is used.
Claim(c) ==
    /\ pc[c] = "claim"
    /\ active' = [active EXCEPT ![dequeued[c]] = FALSE]
    /\ IF active[dequeued[c]] THEN Goto(c, "relock") /\ UNCHANGED dequeued
       ELSE Goto(c, "dequeue") /\ dequeued' = [dequeued EXCEPT ![c] = NoWaiter]
    /\ UNCHANGED <<m_locked, m_waiters, round, m_queued, timer, timedOut>>

\* tryLock() on behalf of the waiter.
Relock_Unchecked(c) ==
    /\ pc[c] = "relock"
    /\ m_locked' = TRUE
    /\ Goto(c, "wake")
    /\ UNCHANGED <<m_waiters, active, round, dequeued, m_queued, timer, timedOut>>

Relock(c) ==
    /\ pc[c] = "relock"
    /\ m_locked' = TRUE
    /\ Goto(c, IF m_locked THEN "reactivate" ELSE "wake")
    /\ UNCHANGED <<m_waiters, active, round, dequeued, m_queued, timer, timedOut>>

WakeWaiter(c) ==
    /\ pc[c] = "wake"
    /\ WakeUp(dequeued[c][1])
    /\ dequeued' = [dequeued EXCEPT ![c] = NoWaiter]
    /\ NextRound(c)
    /\ UNCHANGED <<m_locked, m_waiters, active, timer, timedOut>>

\* The lock was taken in between: active.store(true) ...
Reactivate(c) ==
    /\ pc[c] = "reactivate"
    /\ active' = [active EXCEPT ![dequeued[c]] = TRUE]
    /\ Goto(c, "requeue")
    /\ UNCHANGED <<m_locked, m_waiters, round, dequeued, m_queued, timer, timedOut>>

\* ... and back into the queue.
Requeue_Dropped(c) ==
    /\ pc[c] = "requeue"
    /\ dequeued' = [dequeued EXCEPT ![c] = NoWaiter]
    /\ NextRound(c)
    /\ UNCHANGED <<m_locked, m_waiters, active, m_queued, timer, timedOut>>

Requeue(c) ==
    /\ pc[c] = "requeue"
    /\ m_waiters' = m_waiters \cup {dequeued[c]}
    /\ dequeued' = [dequeued EXCEPT ![c] = NoWaiter]
    /\ NextRound(c)
    /\ UNCHANGED <<m_locked, active, m_queued, timer, timedOut>>

-----------------------------------------------------------------------------
LockStep(c) ==
    \/ AwaitReady(c) \/ Enqueue(c) \/ Retry(c) \/ CancelWaiter(c)
    \/ ArmTimer(c) \/ Resume(c)

UnlockStep(c) ==
    \/ Unlock(c) \/ Dequeue(c) \/ Claim(c) \/ Relock(c) \/ WakeWaiter(c)
    \/ Reactivate(c) \/ Requeue(c)

Next ==
    \/ \E c \in Coroutine : LockStep(c) \/ UnlockStep(c)
    \/ \E w \in Waiter : TimerExpires(w) \/ TimerFlags(w) \/ TimerWakes(w)

Spec == Init /\ [][Next]_vars

-----------------------------------------------------------------------------
(* Properties *)

\* Type correctness: unlock() only puts back in m_waiters the record
\* it dequeued.
TypeOK ==
    /\ m_locked \in BOOLEAN
    /\ m_waiters \in SUBSET Waiter
    /\ active \in [Waiter -> BOOLEAN]
    /\ pc \in [Coroutine -> Pc]
    /\ round \in [Coroutine -> 1..MaxLocks]
    /\ dequeued \in [Coroutine -> Waiter \cup {NoWaiter}]
    /\ m_queued \in [Coroutine -> BOOLEAN]
    /\ timer \in [Waiter -> {"none", "armed", "expired", "flagged", "done",
                             "cancelled"}]
    /\ timedOut \in [Waiter -> BOOLEAN]

\* c is past a successful lock() and has not started unlock().
Holds(c) == pc[c] \in {"cancel", "locked"}

\* An unlock() has taken the lock for c and not woken it yet.
Handing(c) ==
    \E u \in Coroutine : pc[u] = "wake" /\ dequeued[u][1] = c

\* At most one coroutine is between a successful lock() and its unlock(), and
\* while there is one m_locked is set.
MutualExclusion ==
    /\ \A c, d \in Coroutine : Holds(c) /\ Holds(d) => c = d
    /\ (\E c \in Coroutine : Holds(c)) => m_locked

\* The lock is a token, and m_locked is set while it exists.  It is with a
\* holder, with an unlock() that has relocked for a waiter, or with a coroutine
\* whose pending resume will report success.
GrantPending(c) ==
    m_queued[c] /\ ~(pc[c] = "suspended" /\ timedOut[Current(c)])

Token(c) == Holds(c) \/ pc[c] = "wake" \/ GrantPending(c)

OneToken ==
    /\ \A c \in Coroutine : Token(c) => m_locked
    /\ \A c, d \in Coroutine : Token(c) /\ Token(d) => c = d
    /\ \A c \in Coroutine : GrantPending(c) => ~Holds(c) /\ pc[c] # "wake"

\* A timer can still act only for the lock() its coroutine is suspended in.
TimersBelongToSuspension ==
    \A w \in Waiter :
        /\ timer[w] \in {"armed", "expired", "flagged"} =>
              pc[w[1]] = "suspended" /\ round[w[1]] = w[2]
        /\ timer[w] = "flagged" => timedOut[w]
        /\ timedOut[w] => timer[w] \in {"flagged", "done"}
        /\ \/ w[2] > round[w[1]]
           \/ /\ w[2] = round[w[1]]
              /\ pc[w[1]] \in {"idle", "enqueue", "retry", "cancel", "arm"}
           => timer[w] = "none"

\* Types, and no waiter is dropped: a suspended coroutine that nobody has woken still has
\* its record, active, in the queue, or in the hands of an unlock() that has
\* claimed it and will either wake it or put it back.
SuspendedIsReachable ==
    /\ TypeOK
    /\ \A c \in Coroutine :
        pc[c] = "suspended" /\ ~m_queued[c] =>
            \/ Current(c) \in m_waiters /\ active[Current(c)]
            \/ \E u \in Coroutine : /\ dequeued[u] = Current(c)
                                    /\ pc[u] \in {"claim", "relock", "wake",
                                                  "reactivate", "requeue"}

\* async_mutex.h:146 and :109: unlock() wakes a waiter that is still valid.  So
\* no coroutine sleeps beside a free mutex that nobody is locking or unlocking.
NoSleeperBesideFreeMutex ==
    ~m_locked /\ (\A c \in Coroutine : pc[c] \in {"idle", "suspended", "ended"})
        => \A c \in Coroutine : pc[c] = "suspended" => m_queued[c]

\* async_mutex.h:185: isLocked() is true only while some path holds the lock: a
\* coroutine, an unlock() handing it over, or a coroutine about to be resumed.
\* (Does not hold: README, "Where the code departs from its documentation".)
HeldHasHolder ==
    m_locked =>
        \E c \in Coroutine :
            \/ Holds(c)
            \/ Handing(c)
            \/ m_queued[c] /\ pc[c] # "ended"

\* async_mutex.h:150: unlock() skips a waiter that has timed out and does not
\* take the lock for it.
\* (Does not hold: README, "Where the code departs from its documentation".)
TimedOutWaiterSkipped ==
    [][\A u \in Coroutine :
          pc[u] = "claim" /\ pc'[u] = "relock" => ~timedOut[dequeued[u]]]_vars
=============================================================================
