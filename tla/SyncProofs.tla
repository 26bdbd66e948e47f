----------------------------- MODULE SyncProofs -----------------------------
(***************************************************************************)
(* What coroutines wait on. Type correctness of AsyncMutex, and mutual     *)
(* exclusion for any number of coroutines and lock() calls, with or        *)
(* without timeouts, when the timers of a coroutine fire on the thread     *)
(* that resumes it (IOScheduler). On whatever thread they fire, no waiting *)
(* coroutine is forgotten. And AsyncWaiter: a wait() that did not time out *)
(* returns only after notify(), for any number of notifying threads.       *)
(***************************************************************************)
EXTENDS AsyncMutex, AsyncWaiter, TLAPS

\* Every record an unlock() is working on is a real one.
DequeuedIsWaiter ==
    \A u \in Coroutine :
        pc[u] \in {"claim", "relock", "wake", "reactivate", "requeue"}
            => dequeued[u] \in Waiter

TypeInv == TypeOK /\ DequeuedIsWaiter

\* The strengthening of MutualExclusion that every step preserves.
IInv == TypeInv /\ OneToken /\ TimersBelongToSuspension

-----------------------------------------------------------------------------

\* The record of a lock() call in progress is one of the modelled records.
LEMMA CurrentIsWaiter ==
    ASSUME TypeOK, NEW c \in Coroutine
    PROVE  Current(c) \in Waiter
  BY Zenon DEF TypeOK, Current, Waiter

\* A record is the pair of its coroutine and the number of its lock() call.
LEMMA WaiterParts ==
    ASSUME TypeOK
    PROVE  /\ \A w \in Waiter : w[1] \in Coroutine /\ w[2] \in 1..MaxLocks
           /\ \A c \in Coroutine : Current(c)[1] = c /\ Current(c)[2] = round[c]
           /\ \A w \in Waiter : round[w[1]] = w[2] => w = Current(w[1])
  BY SMTT(60) DEF TypeOK, Current, Waiter

\* The types of all variables are kept by every step of lock(), unlock() and
\* handleTimeout; in particular unlock() never works on a missing record.
LEMMA TypeInductive == TypeInv /\ [Next]_vars => TypeInv'
<1> SUFFICES ASSUME TypeInv, [Next]_vars PROVE TypeInv'
  OBVIOUS
<1>0. \A c \in Coroutine : Current(c) \in Waiter
  BY Zenon, CurrentIsWaiter DEF TypeInv
<1> USE <1>0, MutexAssumption DEF TypeInv, TypeOK, DequeuedIsWaiter, Goto, Pc
<1>1. ASSUME NEW c \in Coroutine, AwaitReady(c) PROVE TypeInv'
  BY Zenon, <1>1 DEF AwaitReady
<1>2. ASSUME NEW c \in Coroutine, Enqueue(c) PROVE TypeInv'
  BY Zenon, <1>2 DEF Enqueue
<1>3. ASSUME NEW c \in Coroutine, Retry(c) PROVE TypeInv'
  BY Zenon, <1>3 DEF Retry
<1>4. ASSUME NEW c \in Coroutine, CancelWaiter(c) PROVE TypeInv'
  BY Zenon, <1>4 DEF CancelWaiter
<1>5. ASSUME NEW c \in Coroutine, ArmTimer(c) PROVE TypeInv'
  BY Zenon, <1>5 DEF ArmTimer
<1>6. ASSUME NEW c \in Coroutine, Resume(c) PROVE TypeInv'
  <2>1. CASE timedOut[Current(c)]
    <3>1. round' \in [Coroutine -> 1..MaxLocks]
      BY <1>6, <2>1 DEF Resume, NextRound
    <3> QED
      BY Zenon, <1>6, <2>1, <3>1 DEF Resume, NextRound
  <2>2. CASE ~timedOut[Current(c)]
    BY <1>6, <2>2 DEF Resume
  <2> QED
    BY Zenon, <2>1, <2>2
<1>7. ASSUME NEW c \in Coroutine, Unlock(c) PROVE TypeInv'
  BY Zenon, <1>7 DEF Unlock
<1>8. ASSUME NEW c \in Coroutine, Dequeue(c) PROVE TypeInv'
  BY <1>8 DEF Dequeue, NextRound
<1>9. ASSUME NEW c \in Coroutine, Claim(c) PROVE TypeInv'
  BY <1>9 DEF Claim
<1>10. ASSUME NEW c \in Coroutine, Relock(c) PROVE TypeInv'
  BY Zenon, <1>10 DEF Relock
<1>11. ASSUME NEW c \in Coroutine, WakeWaiter(c) PROVE TypeInv'
  <2>1. m_queued' \in [Coroutine -> BOOLEAN]
    BY Zenon, <1>11 DEF WakeWaiter, WakeUp
  <2>2. round' \in [Coroutine -> 1..MaxLocks]
    BY <1>11 DEF WakeWaiter, NextRound
  <2> QED
    BY Zenon, <1>11, <2>1, <2>2 DEF WakeWaiter, NextRound
<1>12. ASSUME NEW c \in Coroutine, Reactivate(c) PROVE TypeInv'
  BY Zenon, <1>12 DEF Reactivate
<1>13. ASSUME NEW c \in Coroutine, Requeue(c) PROVE TypeInv'
  BY <1>13 DEF Requeue, NextRound
<1>14. ASSUME NEW w \in Waiter, TimerExpires(w) PROVE TypeInv'
  BY Zenon, <1>14 DEF TimerExpires, TimerStep
<1>15. ASSUME NEW w \in Waiter, TimerFlags(w) PROVE TypeInv'
  BY Zenon, <1>15 DEF TimerFlags, TimerStep
<1>16. ASSUME NEW w \in Waiter, TimerWakes(w) PROVE TypeInv'
  BY Zenon, <1>16 DEF TimerWakes, TimerStep, WakeUp
<1>17. CASE UNCHANGED vars
  BY Zenon, <1>17 DEF vars
<1> QED
  BY Zenon, <1>1, <1>2, <1>3, <1>4, <1>5, <1>6, <1>7, <1>8, <1>9, <1>10, <1>11, <1>12,
     <1>13, <1>14, <1>15, <1>16, <1>17 DEF Next, LockStep, UnlockStep

\* The initial state is well typed.
LEMMA InitTypeInv == Init => TypeInv
<1> SUFFICES ASSUME Init PROVE TypeInv
  OBVIOUS
<1>1. round \in [Coroutine -> 1..MaxLocks]
  BY MutexAssumption DEF Init
<1>2. pc \in [Coroutine -> Pc] /\ DequeuedIsWaiter
  BY Zenon DEF Init, Pc, DequeuedIsWaiter
<1>3. /\ active \in [Waiter -> BOOLEAN]
      /\ timedOut \in [Waiter -> BOOLEAN]
      /\ m_queued \in [Coroutine -> BOOLEAN]
      /\ m_locked \in BOOLEAN
  BY Zenon DEF Init
<1> QED
  BY Zenon, <1>1, <1>2, <1>3 DEF Init, TypeInv, TypeOK

\* The variables keep their types; in particular unlock() puts back in m_waiters only
\* a record it dequeued.
THEOREM TypeCorrect == Spec => []TypeOK
<1>1. Init => TypeInv
  BY Zenon, InitTypeInv
<1>2. TypeInv => TypeOK
  BY Zenon DEF TypeInv
<1> QED
  BY <1>1, <1>2, TypeInductive, PTL DEF Spec

-----------------------------------------------------------------------------

\* With the timers on the thread of their coroutine, only the timer of the
\* suspension a coroutine is in can act: handleTimeout cannot overlap the
\* resumption that cancels it.
LEMMA TimersInductive ==
    ASSUME TimerOnOwnThread, IInv, [Next]_vars
    PROVE  TimersBelongToSuspension'
<1>0. \A c \in Coroutine : Current(c) \in Waiter
  BY Zenon, CurrentIsWaiter DEF IInv, TypeInv
<1> USE <1>0 DEF IInv, TypeInv, TypeOK, TimersBelongToSuspension, Goto
<1>1. ASSUME NEW c \in Coroutine, AwaitReady(c)
      PROVE  TimersBelongToSuspension'
  BY <1>1 DEF AwaitReady, Waiter
<1>2. ASSUME NEW c \in Coroutine, Enqueue(c) PROVE TimersBelongToSuspension'
  BY <1>2 DEF Enqueue, Waiter
<1>3. ASSUME NEW c \in Coroutine, Retry(c) PROVE TimersBelongToSuspension'
  BY <1>3 DEF Retry, Waiter
<1>4. ASSUME NEW c \in Coroutine, CancelWaiter(c)
      PROVE  TimersBelongToSuspension'
  BY Zenon, <1>4 DEF CancelWaiter, Waiter
<1>5. ASSUME NEW c \in Coroutine, ArmTimer(c) PROVE TimersBelongToSuspension'
  <2>1. ~timedOut[Current(c)]
    BY <1>5, WaiterParts DEF ArmTimer
  <2> QED
    BY <1>5, <2>1, WaiterParts DEF ArmTimer
<1>6. ASSUME NEW c \in Coroutine, Resume(c) PROVE TimersBelongToSuspension'
  <2>1. ASSUME NEW w \in Waiter, w[1] = c,
               timer[w] \in {"armed", "expired", "flagged"}
        PROVE  w = Current(c) /\ timer[w] = "armed"
    <3>1. w = Current(c)
      BY Zenon, <2>1, WaiterParts
    <3>2. timer[w] \notin {"expired", "flagged"}
      BY ZenonT(60), <1>6, <3>1 DEF Resume, MayRun, InTimer, Current
    <3> QED
      BY Zenon, <2>1, <3>1, <3>2
  <2>2. CASE timedOut[Current(c)]
    BY <1>6, <2>1, <2>2 DEF Resume, NextRound, Waiter
  <2>3. CASE ~timedOut[Current(c)]
    BY <1>6, <2>1, <2>3 DEF Resume, Waiter
  <2> QED
    BY Zenon, <2>2, <2>3
<1>7. ASSUME NEW c \in Coroutine, Unlock(c) PROVE TimersBelongToSuspension'
  BY Zenon, <1>7 DEF Unlock, Waiter
<1>8. ASSUME NEW c \in Coroutine, Dequeue(c) PROVE TimersBelongToSuspension'
  BY <1>8 DEF Dequeue, NextRound, Waiter
<1>9. ASSUME NEW c \in Coroutine, Claim(c) PROVE TimersBelongToSuspension'
  BY <1>9 DEF Claim, Waiter
<1>10. ASSUME NEW c \in Coroutine, Relock(c) PROVE TimersBelongToSuspension'
  BY Zenon, <1>10 DEF Relock, Waiter
<1>11. ASSUME NEW c \in Coroutine, WakeWaiter(c)
       PROVE  TimersBelongToSuspension'
  BY <1>11 DEF WakeWaiter, NextRound, Waiter
<1>12. ASSUME NEW c \in Coroutine, Reactivate(c)
       PROVE  TimersBelongToSuspension'
  BY Zenon, <1>12 DEF Reactivate, Waiter
<1>13. ASSUME NEW c \in Coroutine, Requeue(c) PROVE TimersBelongToSuspension'
  BY <1>13 DEF Requeue, NextRound, Waiter
<1>14. ASSUME NEW w \in Waiter, TimerExpires(w)
       PROVE  TimersBelongToSuspension'
  BY <1>14 DEF TimerExpires, TimerStep
<1>15. ASSUME NEW w \in Waiter, TimerFlags(w) PROVE TimersBelongToSuspension'
  BY <1>15 DEF TimerFlags, TimerStep
<1>16. ASSUME NEW w \in Waiter, TimerWakes(w) PROVE TimersBelongToSuspension'
  BY Zenon, <1>16 DEF TimerWakes, TimerStep
<1>17. CASE UNCHANGED vars
  BY SMTT(60), <1>17 DEF vars
<1> QED
  BY ZenonT(60), <1>1, <1>2, <1>3, <1>4, <1>5, <1>6, <1>7, <1>8, <1>9, <1>10, <1>11, <1>12,
     <1>13, <1>14, <1>15, <1>16, <1>17 DEF Next, LockStep, UnlockStep

\* The token is created only by a tryLock that finds the mutex free, moves from
\* unlock() to the coroutine it wakes and from there to the holder, and is
\* never duplicated; a timer wake-up creates none.
LEMMA TokenInductive ==
    ASSUME TimerOnOwnThread, IInv, [Next]_vars
    PROVE  OneToken'
<1>0. \A c \in Coroutine : Current(c) \in Waiter
  BY Zenon, CurrentIsWaiter DEF IInv, TypeInv
<1> USE <1>0 DEF IInv, TypeInv, TypeOK, OneToken, Token, GrantPending, Holds, Goto
<1>1. ASSUME NEW c \in Coroutine, AwaitReady(c) PROVE OneToken'
  BY <1>1 DEF AwaitReady, Current
<1>2. ASSUME NEW c \in Coroutine, Enqueue(c) PROVE OneToken'
  BY <1>2 DEF Enqueue, Current
<1>3. ASSUME NEW c \in Coroutine, Retry(c) PROVE OneToken'
  BY <1>3 DEF Retry, Current
<1>4. ASSUME NEW c \in Coroutine, CancelWaiter(c) PROVE OneToken'
  BY Zenon, <1>4 DEF CancelWaiter, Current
<1>5. ASSUME NEW c \in Coroutine, ArmTimer(c) PROVE OneToken'
  BY SMTT(60), <1>5 DEF ArmTimer, Current
<1>6. ASSUME NEW c \in Coroutine, Resume(c) PROVE OneToken'
  <2>1. CASE timedOut[Current(c)]
    BY SMTT(60), <1>6, <2>1 DEF Resume, NextRound, Current
  <2>2. CASE ~timedOut[Current(c)]
    BY <1>6, <2>2 DEF Resume, Current
  <2> QED
    BY SMTT(60), <2>1, <2>2
<1>7. ASSUME NEW c \in Coroutine, Unlock(c) PROVE OneToken'
  BY ZenonT(60), <1>7 DEF Unlock, Current
<1>8. ASSUME NEW c \in Coroutine, Dequeue(c) PROVE OneToken'
  <2>1. pc[c] = "dequeue" /\ pc' = [pc EXCEPT ![c] = pc'[c]]
        /\ pc'[c] \in {"claim", "idle", "ended"}
    BY Zenon, <1>8 DEF Dequeue, NextRound
  <2>2. \A d \in Coroutine : d # c => Current(d)' = Current(d)
    BY Zenon, <1>8 DEF Dequeue, NextRound, Current
  <2>3. UNCHANGED <<m_locked, m_queued, timedOut>>
    BY Zenon, <1>8 DEF Dequeue
  <2> QED
    BY <2>1, <2>2, <2>3
<1>9. ASSUME NEW c \in Coroutine, Claim(c) PROVE OneToken'
  BY <1>9 DEF Claim, Current
<1>10. ASSUME NEW c \in Coroutine, Relock(c) PROVE OneToken'
  BY <1>10 DEF Relock, Current
<1>11. ASSUME NEW c \in Coroutine, WakeWaiter(c) PROVE OneToken'
  <2> DEFINE d == dequeued[c][1]
  <2>1. d \in Coroutine
    BY Zenon, <1>11 DEF WakeWaiter, DequeuedIsWaiter, Waiter
  <2>2. pc[c] = "wake" /\ pc' = [pc EXCEPT ![c] = pc'[c]]
        /\ pc'[c] \in {"idle", "ended"}
    BY SMTT(60), <1>11 DEF WakeWaiter, NextRound
  <2>3. \A e \in Coroutine : e # c => Current(e)' = Current(e)
    BY Zenon, <1>11 DEF WakeWaiter, NextRound, Current
  <2>4. UNCHANGED <<m_locked, timedOut>>
        /\ \A e \in Coroutine : e # d => m_queued'[e] = m_queued[e]
    BY Zenon, <1>11, <2>1 DEF WakeWaiter, WakeUp
  <2>5. \A e \in Coroutine : Token(e) <=> e = c
    BY SMTT(60), <2>2
  <2>6. \A e \in Coroutine : Token(e)' => e = d
    BY <2>2, <2>3, <2>4, <2>5
  <2>7. \A e \in Coroutine : ~Holds(e)' /\ pc'[e] # "wake"
    BY SMTT(60), <2>2, <2>5
  <2> QED
    BY Zenon, <2>1, <2>2, <2>4, <2>6, <2>7
<1>12. ASSUME NEW c \in Coroutine, Reactivate(c) PROVE OneToken'
  BY SMTT(60), <1>12 DEF Reactivate, Current
<1>13. ASSUME NEW c \in Coroutine, Requeue(c) PROVE OneToken'
  BY ZenonT(60), <1>13 DEF Requeue, NextRound, Current
<1>14. ASSUME NEW w \in Waiter, TimerExpires(w) PROVE OneToken'
  BY Zenon, <1>14 DEF TimerExpires, TimerStep, Current
<1>15. ASSUME NEW w \in Waiter, TimerFlags(w) PROVE OneToken'
  BY <1>15 DEF TimerFlags, TimerStep, Current
<1>16. ASSUME NEW w \in Waiter, TimerWakes(w) PROVE OneToken'
  <2> DEFINE d == w[1]
  <2>1. d \in Coroutine /\ w = Current(d) /\ pc[d] = "suspended" /\ timedOut[w]
    BY <1>16, WaiterParts DEF TimerWakes, TimerStep, TimersBelongToSuspension
  <2>2. UNCHANGED <<m_locked, timedOut, pc, round>>
        /\ \A e \in Coroutine : e # d => m_queued'[e] = m_queued[e]
    BY SMTT(60), <1>16, <2>1 DEF TimerWakes, TimerStep, WakeUp
  <2>3. \A e \in Coroutine : Current(e)' = Current(e)
    BY Zenon, <2>2 DEF Current
  <2>4. ~Token(d)'
    BY <2>1, <2>2, <2>3
  <2> QED
    BY <2>1, <2>2, <2>3, <2>4
<1>17. CASE UNCHANGED vars
  BY Zenon, <1>17 DEF vars, Current
<1> QED
  BY ZenonT(60), <1>1, <1>2, <1>3, <1>4, <1>5, <1>6, <1>7, <1>8, <1>9, <1>10, <1>11, <1>12,
     <1>13, <1>14, <1>15, <1>16, <1>17 DEF Next, LockStep, UnlockStep

\* On IO schedulers at most one coroutine is inside the lock at any time, for
\* every number of coroutines and lock() calls, with and without timeouts.
THEOREM MutexCorrect == TimerOnOwnThread => (Spec => []MutualExclusion)
<1> SUFFICES ASSUME TimerOnOwnThread PROVE Spec => []MutualExclusion
  OBVIOUS
<1>1. Init => IInv
  <2> SUFFICES ASSUME Init PROVE IInv
    OBVIOUS
  <2>1. TypeInv
    BY Zenon, InitTypeInv
  <2>2. OneToken /\ TimersBelongToSuspension
    BY Zenon DEF Init, OneToken, Token, GrantPending, Holds, TimersBelongToSuspension
  <2> QED
    BY Zenon, <2>1, <2>2 DEF IInv
<1>2. IInv /\ [Next]_vars => IInv'
  BY Zenon, TypeInductive, TimersInductive, TokenInductive DEF IInv
<1>3. IInv => MutualExclusion
  BY Zenon DEF IInv, OneToken, Token, MutualExclusion
<1> QED
  BY <1>1, <1>2, <1>3, PTL DEF Spec

-----------------------------------------------------------------------------
\* A coroutine whose unlock() has taken a record out of the queue.
Working == {"claim", "relock", "wake", "reactivate", "requeue"}

\* The record has been put in the queue: its lock() call is past await_suspend's enqueue.
Enqueued(w) ==
    \/ w[2] < round[w[1]]
    \/ w[2] = round[w[1]] /\ pc[w[1]] \notin {"idle", "enqueue"}

\* A record exists once: in the queue or with one unlock(), and only after its enqueue.
OneRecord ==
    /\ \A w \in m_waiters : Enqueued(w)
    /\ \A u \in Coroutine : dequeued[u] # NoWaiter =>
          /\ pc[u] \in Working
          /\ Enqueued(dequeued[u])
          /\ dequeued[u] \notin m_waiters
          /\ \A v \in Coroutine : dequeued[v] = dequeued[u] => v = u

\* The record of c can still be claimed, or is with an unlock() that will wake c or put
\* it back.
Reachable(c) ==
    \/ Current(c) \in m_waiters /\ active[Current(c)]
    \/ \E u \in Coroutine :
          /\ dequeued[u] = Current(c)
          /\ pc[u] \in {"claim", "requeue"} => active[Current(c)]

\* From its enqueue on, a coroutine that nobody has woken is reachable.
WaitingIsReachable ==
    \A c \in Coroutine :
        pc[c] \in {"retry", "arm", "suspended"} /\ ~m_queued[c] => Reachable(c)

RInv == TypeInv /\ OneRecord /\ WaitingIsReachable

\* A record that was put in the queue never counts as fresh again: the coroutine comes
\* back to the start of lock() only with the next record.
LEMMA EnqueuedStays ==
    ASSUME TypeInv, [Next]_vars, NEW w \in Waiter, Enqueued(w)
    PROVE  Enqueued(w)'
<1>0. w[1] \in Coroutine /\ w[2] \in 1..MaxLocks
  BY Zenon DEF Waiter
<1> USE <1>0, MutexAssumption DEF TypeInv, TypeOK, Enqueued, Goto
<1>1. ASSUME NEW c \in Coroutine, AwaitReady(c) PROVE Enqueued(w)'
  BY Zenon, <1>1 DEF AwaitReady
<1>2. ASSUME NEW c \in Coroutine, Enqueue(c) PROVE Enqueued(w)'
  BY Zenon, <1>2 DEF Enqueue
<1>3. ASSUME NEW c \in Coroutine, Retry(c) PROVE Enqueued(w)'
  BY Zenon, <1>3 DEF Retry
<1>4. ASSUME NEW c \in Coroutine, CancelWaiter(c) PROVE Enqueued(w)'
  BY Zenon, <1>4 DEF CancelWaiter
<1>5. ASSUME NEW c \in Coroutine, ArmTimer(c) PROVE Enqueued(w)'
  BY Zenon, <1>5 DEF ArmTimer
<1>6. ASSUME NEW c \in Coroutine, Resume(c) PROVE Enqueued(w)'
  BY <1>6 DEF Resume, NextRound
<1>7. ASSUME NEW c \in Coroutine, Unlock(c) PROVE Enqueued(w)'
  BY Zenon, <1>7 DEF Unlock
<1>8. ASSUME NEW c \in Coroutine, Dequeue(c) PROVE Enqueued(w)'
  BY <1>8 DEF Dequeue, NextRound
<1>9. ASSUME NEW c \in Coroutine, Claim(c) PROVE Enqueued(w)'
  BY Zenon, <1>9 DEF Claim
<1>10. ASSUME NEW c \in Coroutine, Relock(c) PROVE Enqueued(w)'
  BY Zenon, <1>10 DEF Relock
<1>11. ASSUME NEW c \in Coroutine, WakeWaiter(c) PROVE Enqueued(w)'
  BY <1>11 DEF WakeWaiter, NextRound
<1>12. ASSUME NEW c \in Coroutine, Reactivate(c) PROVE Enqueued(w)'
  BY Zenon, <1>12 DEF Reactivate
<1>13. ASSUME NEW c \in Coroutine, Requeue(c) PROVE Enqueued(w)'
  BY <1>13 DEF Requeue, NextRound
<1>14. ASSUME NEW t \in Waiter, TimerExpires(t) PROVE Enqueued(w)'
  BY Zenon, <1>14 DEF TimerExpires, TimerStep
<1>15. ASSUME NEW t \in Waiter, TimerFlags(t) PROVE Enqueued(w)'
  BY Zenon, <1>15 DEF TimerFlags, TimerStep
<1>16. ASSUME NEW t \in Waiter, TimerWakes(t) PROVE Enqueued(w)'
  BY Zenon, <1>16 DEF TimerWakes, TimerStep
<1>17. CASE UNCHANGED vars
  BY Zenon, <1>17 DEF vars
<1> QED
  BY Zenon, <1>1, <1>2, <1>3, <1>4, <1>5, <1>6, <1>7, <1>8, <1>9, <1>10, <1>11, <1>12,
     <1>13, <1>14, <1>15, <1>16, <1>17 DEF Next, LockStep, UnlockStep

\* Records are neither duplicated nor made up: Enqueue adds a fresh one, unlock() moves
\* one out of the queue and back.
LEMMA RecordsInductive ==
    ASSUME TypeInv, OneRecord, [Next]_vars
    PROVE  OneRecord'
<1>0. \A w \in Waiter : Enqueued(w) => Enqueued(w)'
  BY Zenon, EnqueuedStays
<1>a. /\ m_waiters \subseteq Waiter
      /\ \A u \in Coroutine : dequeued[u] # NoWaiter => dequeued[u] \in Waiter
  BY Zenon DEF TypeInv, TypeOK
<1>b. ASSUME UNCHANGED <<m_waiters, dequeued>>,
             \A u \in Coroutine : dequeued[u] # NoWaiter => pc'[u] \in Working
      PROVE  OneRecord'
  BY SMTT(60), <1>0, <1>a, <1>b DEF OneRecord
<1>c. ASSUME UNCHANGED <<m_waiters, dequeued>>, NEW c \in Coroutine,
             \/ pc[c] \notin Working
             \/ pc'[c] \in Working,
             \A u \in Coroutine \ {c} : pc'[u] = pc[u]
      PROVE  OneRecord'
  BY Zenon, <1>b, <1>c DEF OneRecord
<1>1. ASSUME NEW c \in Coroutine,
             \/ AwaitReady(c) \/ Enqueue(c) \/ Retry(c) \/ CancelWaiter(c) \/ ArmTimer(c)
             \/ Resume(c) \/ Unlock(c) \/ Dequeue(c) \/ Claim(c) \/ Relock(c)
             \/ WakeWaiter(c) \/ Reactivate(c) \/ Requeue(c)
      PROVE  \A u \in Coroutine \ {c} : pc'[u] = pc[u]
  BY SMTT(60), <1>1 DEF AwaitReady, Enqueue, Retry, CancelWaiter, ArmTimer, Resume, Unlock, Dequeue,
              Claim, Relock, WakeWaiter, Reactivate, Requeue, Goto, NextRound, TypeInv, TypeOK
<1>2. ASSUME NEW c \in Coroutine,
             \/ AwaitReady(c) \/ Retry(c) \/ CancelWaiter(c) \/ ArmTimer(c) \/ Resume(c)
             \/ Unlock(c)
      PROVE  OneRecord'
  <2>1. UNCHANGED <<m_waiters, dequeued>> /\ pc[c] \notin Working
    BY ZenonT(60), <1>2 DEF AwaitReady, Retry, CancelWaiter, ArmTimer, Resume, Unlock, Working
  <2> QED BY ZenonT(60), <1>1, <1>2, <1>c, <2>1
<1>3. ASSUME NEW c \in Coroutine, Relock(c) \/ Reactivate(c) PROVE OneRecord'
  <2>1. UNCHANGED <<m_waiters, dequeued>> /\ pc'[c] \in Working
    BY Zenon, <1>3 DEF Relock, Reactivate, Goto, Working, TypeInv, TypeOK
  <2> QED BY Zenon, <1>1, <1>3, <1>c, <2>1
<1>4. ASSUME NEW c \in Coroutine, Enqueue(c) PROVE OneRecord'
  <2>1. /\ m_waiters' = m_waiters \union {Current(c)} /\ UNCHANGED dequeued
        /\ pc[c] = "enqueue" /\ pc'[c] = "retry" /\ UNCHANGED round
    BY Zenon, <1>4 DEF Enqueue, Goto, TypeInv, TypeOK
  <2>2. ~Enqueued(Current(c)) /\ Enqueued(Current(c))'
    BY <2>1 DEF Enqueued, Current, TypeInv, TypeOK
  <2>3. \A u \in Coroutine : dequeued[u] # NoWaiter => dequeued[u] # Current(c)
    BY Zenon, <2>2 DEF OneRecord
  <2>4. \A w \in m_waiters' : Enqueued(w)'
    BY Zenon, <1>0, <1>a, <2>1, <2>2 DEF OneRecord, Current
  <2>5. \A u \in Coroutine : dequeued[u] # NoWaiter => pc'[u] \in Working
    BY Zenon, <1>1, <1>4, <2>1 DEF OneRecord, Working
  <2> QED BY Zenon, <1>0, <1>a, <2>1, <2>3, <2>4, <2>5 DEF OneRecord
<1>5. ASSUME NEW c \in Coroutine, Dequeue(c) PROVE OneRecord'
  <2>1. pc[c] = "dequeue" /\ dequeued[c] = NoWaiter
    BY Zenon, <1>5 DEF Dequeue, OneRecord, Working
  <2>2. CASE UNCHANGED <<m_waiters, dequeued>>
    BY Zenon, <1>1, <1>5, <1>c, <2>1, <2>2 DEF Working
  <2>3. ASSUME NEW w \in m_waiters, m_waiters' = m_waiters \ {w},
               dequeued' = [dequeued EXCEPT ![c] = w], pc'[c] = "claim"
        PROVE  OneRecord'
    <3>1. /\ dequeued'[c] = w /\ w \in Waiter
          /\ \A u \in Coroutine \ {c} : dequeued'[u] = dequeued[u]
      BY Zenon, <1>a, <2>3 DEF TypeInv, TypeOK
    <3>2. \A v \in m_waiters' : Enqueued(v)'
      BY Zenon, <1>0, <1>a, <2>3 DEF OneRecord
    <3>3. \A u \in Coroutine : dequeued[u] # NoWaiter => dequeued[u] # w
      BY Zenon, <2>3 DEF OneRecord
    <3>4. ASSUME NEW u \in Coroutine, dequeued'[u] # NoWaiter
          PROVE  /\ pc'[u] \in Working /\ Enqueued(dequeued[u])'
                 /\ dequeued'[u] \notin m_waiters'
                 /\ \A v \in Coroutine : dequeued'[v] = dequeued'[u] => v = u
      <4>1. CASE u = c
        BY SMTT(60), <1>0, <2>3, <3>1, <3>3, <4>1, <1>a DEF OneRecord, Working, NoWaiter, Waiter
      <4>2. CASE u # c
        <5>1. dequeued'[u] = dequeued[u] /\ pc'[u] = pc[u]
          BY Zenon, <1>1, <1>5, <3>1, <4>2
        <5>2. /\ pc[u] \in Working /\ Enqueued(dequeued[u]) /\ dequeued[u] \notin m_waiters
              /\ dequeued[u] # w /\ dequeued[u] \in Waiter
              /\ \A v \in Coroutine : dequeued[v] = dequeued[u] => v = u
          BY Zenon, <1>a, <3>3, <3>4, <5>1 DEF OneRecord
        <5>3. Enqueued(dequeued[u])'
          BY Zenon, <1>0, <5>1, <5>2
        <5>4. \A v \in Coroutine : dequeued'[v] = dequeued'[u] => v = u
          BY Zenon, <3>1, <5>1, <5>2
        <5>5. dequeued'[u] \notin m_waiters'
          BY <2>3, <5>1, <5>2
        <5> QED BY Zenon, <5>1, <5>2, <5>3, <5>4, <5>5
      <4> QED BY SMTT(60), <4>1, <4>2
    <3> QED BY Zenon, <3>2, <3>4 DEF OneRecord
  <2> QED BY Zenon, <1>5, <2>2, <2>3 DEF Dequeue, Goto, TypeInv, TypeOK
<1>6. ASSUME NEW c \in Coroutine, dequeued' = [dequeued EXCEPT ![c] = NoWaiter],
             m_waiters' = m_waiters \/ m_waiters' = m_waiters \union {dequeued[c]},
             dequeued[c] # NoWaiter, \A u \in Coroutine \ {c} : pc'[u] = pc[u]
      PROVE  OneRecord'
  <2>1. dequeued'[c] = NoWaiter /\ \A u \in Coroutine \ {c} : dequeued'[u] = dequeued[u]
    BY Zenon, <1>6 DEF TypeInv, TypeOK
  <2>2. \A w \in m_waiters' : Enqueued(w)'
    BY SMTT(60), <1>0, <1>6, <1>a DEF OneRecord
  <2>3. ASSUME NEW u \in Coroutine, dequeued'[u] # NoWaiter
        PROVE  /\ pc'[u] \in Working /\ Enqueued(dequeued[u])'
               /\ dequeued'[u] \notin m_waiters'
               /\ \A v \in Coroutine : dequeued'[v] = dequeued'[u] => v = u
    BY SMTT(60), <1>0, <1>6, <1>a, <2>1, <2>3 DEF OneRecord
  <2> QED BY Zenon, <2>2, <2>3 DEF OneRecord
<1>7. ASSUME NEW c \in Coroutine, Claim(c) \/ WakeWaiter(c) \/ Requeue(c) PROVE OneRecord'
  <2>1. pc[c] \in Working /\ dequeued[c] # NoWaiter
    BY <1>7 DEF Claim, WakeWaiter, Requeue, Working, TypeInv, DequeuedIsWaiter, NoWaiter, Waiter
  <2>2. CASE /\ dequeued' = [dequeued EXCEPT ![c] = NoWaiter]
             /\ m_waiters' = m_waiters \/ m_waiters' = m_waiters \union {dequeued[c]}
    BY ZenonT(60), <1>1, <1>6, <1>7, <2>1, <2>2
  <2>3. CASE UNCHANGED <<m_waiters, dequeued>> /\ pc'[c] = "relock"
    BY Zenon, <1>1, <1>7, <1>c, <2>3 DEF Working
  <2> QED BY Zenon, <1>7, <2>2, <2>3 DEF Claim, WakeWaiter, Requeue, Goto, TypeInv, TypeOK
<1>8. ASSUME NEW w \in Waiter, TimerExpires(w) \/ TimerFlags(w) \/ TimerWakes(w)
      PROVE  OneRecord'
  BY SMTT(60), <1>8, <1>b DEF TimerExpires, TimerFlags, TimerWakes, TimerStep, OneRecord
<1>9. CASE UNCHANGED vars
  BY Zenon, <1>9, <1>b DEF vars, OneRecord
<1> QED
  BY Zenon, <1>2, <1>3, <1>4, <1>5, <1>7, <1>8, <1>9 DEF Next, LockStep, UnlockStep

\* Nobody loses the record of a waiting coroutine: it is claimed only while active, and
\* whoever has claimed it wakes its coroutine or makes it active again and puts it back.
LEMMA WaitingInductive ==
    ASSUME RInv, [Next]_vars
    PROVE  WaitingIsReachable'
<1> DEFINE Waits == {"retry", "arm", "suspended"}
<1> SUFFICES ASSUME NEW d \in Coroutine, pc'[d] \in Waits, ~m_queued'[d]
             PROVE  Reachable(d)'
  BY Zenon DEF WaitingIsReachable
<1> USE DEF RInv
<1>a. /\ m_waiters \subseteq Waiter /\ Current(d) \in Waiter /\ Current(d) # NoWaiter
      /\ \A u \in Coroutine : dequeued[u] # NoWaiter => dequeued[u] \in Waiter
  BY SMTT(60), MutexAssumption DEF TypeInv, TypeOK, Current, Waiter, NoWaiter
\* The record stays where it is.
<1>b. ASSUME Reachable(d), round'[d] = round[d],
             Current(d) \in m_waiters => Current(d) \in m_waiters',
             \A u \in Coroutine : dequeued[u] = Current(d) =>
                /\ dequeued'[u] = dequeued[u]
                /\ pc'[u] \in {"claim", "requeue"} => pc[u] \in {"claim", "requeue"},
             active[Current(d)] => active'[Current(d)]
      PROVE  Reachable(d)'
  BY Zenon, <1>b DEF Reachable, Current
\* The record is in one place only.
<1>c. ASSUME NEW c \in Coroutine, dequeued[c] = Current(d), Reachable(d)
      PROVE  pc[c] \in {"claim", "requeue"} => active[Current(d)]
  BY Zenon, <1>a, <1>c DEF Reachable, OneRecord
<1>1. ASSUME NEW c \in Coroutine,
             \/ AwaitReady(c) \/ Enqueue(c) \/ Retry(c) \/ CancelWaiter(c) \/ ArmTimer(c)
             \/ Resume(c) \/ Unlock(c) \/ Dequeue(c) \/ Claim(c) \/ Relock(c)
             \/ WakeWaiter(c) \/ Reactivate(c) \/ Requeue(c)
      PROVE  /\ \A u \in Coroutine \ {c} : pc'[u] = pc[u] /\ round'[u] = round[u]
             /\ c # d => ~m_queued[d]
  <2> USE DEF TypeInv, TypeOK, Goto
  <2>1. CASE AwaitReady(c) \/ Enqueue(c) \/ Retry(c) \/ CancelWaiter(c) \/ ArmTimer(c)
    BY Zenon, <2>1 DEF AwaitReady, Enqueue, Retry, CancelWaiter, ArmTimer, NextRound
  <2>2. CASE Resume(c) \/ Unlock(c)
    BY Zenon, <2>2 DEF Resume, Unlock, NextRound
  <2>3. CASE Dequeue(c) \/ Claim(c) \/ Relock(c)
    BY Zenon, <2>3 DEF Dequeue, Claim, Relock, NextRound
  <2>4. CASE WakeWaiter(c) \/ Reactivate(c) \/ Requeue(c)
    BY Zenon, <2>4 DEF WakeWaiter, WakeUp, Reactivate, Requeue, NextRound
  <2> QED BY Zenon, <1>1, <2>1, <2>2, <2>3, <2>4
<1>2. ASSUME NEW c \in Coroutine,
             \/ AwaitReady(c) \/ Retry(c) \/ ArmTimer(c) \/ Unlock(c) \/ Relock(c)
      PROVE  Reachable(d)'
  <2>1. /\ UNCHANGED <<m_waiters, dequeued, active, round, m_queued>>
        /\ pc'[c] \notin {"claim", "requeue"}
    BY SMTT(60), <1>2 DEF AwaitReady, Retry, ArmTimer, Unlock, Relock, Goto, TypeInv, TypeOK
  <2>2. pc[d] \in Waits
    <3>1. CASE d = c
      BY SMTT(60), <1>2, <3>1 DEF AwaitReady, Retry, ArmTimer, Unlock, Relock, Goto, TypeInv, TypeOK
    <3>2. CASE d # c
      <4>1. \A u \in Coroutine \ {c} : pc'[u] = pc[u]
        BY Zenon, <1>1, <1>2
      <4> QED BY Zenon, <3>2, <4>1
    <3> QED BY ZenonT(60), <3>1, <3>2
  <2>3. Reachable(d)
    BY SMTT(60), <2>1, <2>2 DEF WaitingIsReachable
  <2>4. \A u \in Coroutine : pc'[u] \in {"claim", "requeue"} => pc[u] \in {"claim", "requeue"}
    BY ZenonT(60), <1>1, <1>2, <2>1
  <2> QED BY ZenonT(60), <1>b, <2>1, <2>3, <2>4
<1>3. ASSUME NEW c \in Coroutine,
             \/ Enqueue(c) \/ CancelWaiter(c) \/ Resume(c) \/ Dequeue(c) \/ Claim(c)
             \/ WakeWaiter(c) \/ Reactivate(c) \/ Requeue(c),
             d # c
      PROVE  /\ pc[d] \in Waits /\ round'[d] = round[d] /\ Reachable(d)
             /\ \A u \in Coroutine \ {c} : pc'[u] = pc[u]
  <2>1. /\ pc'[d] = pc[d] /\ round'[d] = round[d] /\ ~m_queued[d]
        /\ \A u \in Coroutine \ {c} : pc'[u] = pc[u]
    BY Zenon, <1>1, <1>3
  <2> QED BY Zenon, <2>1 DEF WaitingIsReachable
<1>4. ASSUME NEW c \in Coroutine, Enqueue(c) PROVE Reachable(d)'
  <2>1. /\ m_waiters' = m_waiters \union {Current(c)} /\ active'[Current(c)] = TRUE
        /\ \A w \in Waiter : active[w] => active'[w]
        /\ UNCHANGED <<dequeued, round>> /\ pc'[c] = "retry"
    BY Zenon, <1>4 DEF Enqueue, Goto, TypeInv, TypeOK, Current, Waiter
  <2>2. CASE d = c
    BY Zenon, <2>1, <2>2 DEF Reachable, Current
  <2>3. CASE d # c
    <3>1. \A u \in Coroutine : pc'[u] \in {"claim", "requeue"} => pc[u] \in {"claim", "requeue"}
      BY ZenonT(60), <1>1, <1>4, <2>1
    <3> QED BY ZenonT(60), <1>3, <1>4, <1>a, <1>b, <2>1, <2>3, <3>1
  <2> QED BY Zenon, <2>2, <2>3
<1>5. ASSUME NEW c \in Coroutine, CancelWaiter(c) \/ Resume(c) PROVE Reachable(d)'
  <2>1. /\ UNCHANGED <<m_waiters, dequeued>> /\ pc'[c] \in {"locked", "idle", "ended"}
        /\ active' = [active EXCEPT ![Current(c)] = FALSE]
    BY Zenon, <1>5 DEF CancelWaiter, Resume, NextRound, Goto, TypeInv, TypeOK
  <2>2. d # c /\ Current(d) # Current(c)
    BY Zenon, <2>1 DEF Current
  <2>3. active'[Current(d)] = active[Current(d)]
    BY Zenon, <1>a, <2>1, <2>2 DEF TypeInv, TypeOK
  <2>4. \A u \in Coroutine : pc'[u] \in {"claim", "requeue"} => pc[u] \in {"claim", "requeue"}
    BY SMTT(60), <1>1, <1>5, <2>1
  <2> QED BY ZenonT(60), <1>3, <1>5, <1>b, <2>1, <2>2, <2>3, <2>4
<1>6. ASSUME NEW c \in Coroutine, Dequeue(c) PROVE Reachable(d)'
  <2>1. /\ pc[c] = "dequeue" /\ UNCHANGED active /\ dequeued[c] = NoWaiter
        /\ pc'[c] \in {"claim", "idle", "ended"}
    BY Zenon, <1>6 DEF Dequeue, NextRound, Goto, TypeInv, TypeOK, OneRecord, Working
  <2>2. d # c /\ Reachable(d) /\ round'[d] = round[d]
    BY Zenon, <1>3, <1>6, <2>1
  <2>3. CASE UNCHANGED <<m_waiters, dequeued>> /\ pc'[c] # "claim"
    <3>1. \A u \in Coroutine : pc'[u] \in {"claim", "requeue"} => pc[u] \in {"claim", "requeue"}
      BY Zenon, <1>1, <1>6, <2>1, <2>3
    <3> QED BY Zenon, <1>b, <2>1, <2>2, <2>3, <3>1
  <2>4. ASSUME NEW w \in m_waiters, m_waiters' = m_waiters \ {w},
               dequeued' = [dequeued EXCEPT ![c] = w]
        PROVE  Reachable(d)'
    <3>1. dequeued'[c] = w /\ \A u \in Coroutine \ {c} : dequeued'[u] = dequeued[u]
      BY Zenon, <2>4 DEF TypeInv, TypeOK
    <3>2. CASE w = Current(d)
      <4>1. active[Current(d)]
        BY Zenon, <1>a, <2>2, <2>4, <3>2 DEF Reachable, OneRecord
      <4> QED BY Zenon, <2>1, <2>2, <3>1, <3>2, <4>1 DEF Reachable, Current
    <3>3. CASE w # Current(d)
      BY ZenonT(60), <1>1, <1>6, <1>a, <1>b, <2>1, <2>2, <2>4, <3>1, <3>3
    <3> QED BY Zenon, <3>2, <3>3
  <2> QED BY Zenon, <1>6, <2>1, <2>3, <2>4 DEF Dequeue, NextRound, Goto, TypeInv, TypeOK
<1>7. ASSUME NEW c \in Coroutine, Claim(c) PROVE Reachable(d)'
  <2>1. /\ pc[c] = "claim" /\ UNCHANGED m_waiters /\ dequeued[c] \in Waiter
        /\ active' = [active EXCEPT ![dequeued[c]] = FALSE]
        /\ pc'[c] = IF active[dequeued[c]] THEN "relock" ELSE "dequeue"
        /\ active[dequeued[c]] => UNCHANGED dequeued
        /\ \A u \in Coroutine \ {c} : dequeued'[u] = dequeued[u]
    BY SMTT(60), <1>7 DEF Claim, Goto, TypeInv, TypeOK, DequeuedIsWaiter
  <2>2. d # c /\ Reachable(d) /\ round'[d] = round[d]
    BY ZenonT(60), <1>3, <1>7, <2>1
  <2>3. CASE dequeued[c] = Current(d)
    <3>1. active[Current(d)]
      BY Zenon, <1>c, <2>1, <2>2, <2>3
    <3>2. dequeued'[c] = Current(d) /\ pc'[c] = "relock"
      BY Zenon, <2>1, <2>3, <3>1
    <3> QED BY Zenon, <2>2, <3>2 DEF Reachable, Current
  <2>4. CASE dequeued[c] # Current(d)
    <3>1. active'[Current(d)] = active[Current(d)]
      BY ZenonT(60), <1>a, <2>1, <2>4 DEF TypeInv, TypeOK
    <3> QED BY ZenonT(60), <1>1, <1>7, <1>b, <2>1, <2>2, <2>4, <3>1
  <2> QED BY SMTT(60), <2>3, <2>4
<1>8. ASSUME NEW c \in Coroutine, WakeWaiter(c) \/ Requeue(c) PROVE Reachable(d)'
  <2>1. /\ pc'[c] \in {"idle", "ended"} /\ UNCHANGED active
        /\ m_waiters \subseteq m_waiters'
        /\ \A u \in Coroutine \ {c} : dequeued'[u] = dequeued[u]
    BY Zenon, <1>8 DEF WakeWaiter, Requeue, NextRound, Goto, TypeInv, TypeOK
  <2>2. d # c /\ Reachable(d) /\ round'[d] = round[d] /\ pc[d] \in Waits
    BY Zenon, <1>3, <1>8, <2>1
  <2>3. CASE dequeued[c] = Current(d) /\ WakeWaiter(c)
    <3>1. dequeued[c][1] = d /\ pc[d] # "ended"
      BY <2>2, <2>3 DEF Current
    <3>2. m_queued' = [m_queued EXCEPT ![d] = m_queued[d] \/ pc[d] # "ended"]
      BY ZenonT(60), <2>3, <3>1 DEF WakeWaiter, WakeUp
    <3>3. m_queued'[d]
      BY ZenonT(60), <3>1, <3>2 DEF TypeInv, TypeOK
    <3> QED BY Zenon, <3>3
  <2>4. CASE dequeued[c] = Current(d) /\ Requeue(c)
    <3>1. active[Current(d)] /\ Current(d) \in m_waiters'
      BY Zenon, <1>c, <2>2, <2>4 DEF Requeue
    <3> QED BY Zenon, <2>1, <2>2, <3>1 DEF Reachable, Current
  <2>5. CASE dequeued[c] # Current(d)
    BY ZenonT(60), <1>1, <1>8, <1>b, <2>1, <2>2, <2>5
  <2> QED BY Zenon, <1>8, <2>3, <2>4, <2>5
<1>9. ASSUME NEW c \in Coroutine, Reactivate(c) PROVE Reachable(d)'
  <2>1. /\ pc'[c] = "requeue" /\ UNCHANGED <<m_waiters, dequeued>>
        /\ active' = [active EXCEPT ![dequeued[c]] = TRUE] /\ dequeued[c] \in Waiter
    BY SMTT(60), <1>9 DEF Reactivate, Goto, TypeInv, TypeOK, DequeuedIsWaiter
  <2>2. d # c /\ Reachable(d) /\ round'[d] = round[d]
    BY Zenon, <1>3, <1>9, <2>1
  <2>3. CASE dequeued[c] = Current(d)
    <3>1. active'[Current(d)]
      BY SMTT(60), <2>1, <2>3 DEF TypeInv, TypeOK
    <3> QED BY SMTT(60), <2>1, <2>2, <2>3, <3>1 DEF Reachable, Current
  <2>4. CASE dequeued[c] # Current(d)
    <3>1. active'[Current(d)] = active[Current(d)]
      BY Zenon, <1>a, <2>1, <2>4 DEF TypeInv, TypeOK
    <3> QED BY ZenonT(60), <1>1, <1>9, <1>b, <2>1, <2>2, <2>4, <3>1
  <2> QED BY Zenon, <2>3, <2>4
<1>10. ASSUME NEW w \in Waiter, TimerExpires(w) \/ TimerFlags(w) \/ TimerWakes(w)
       PROVE  Reachable(d)'
  <2>1. UNCHANGED <<m_waiters, active, pc, round, dequeued>> /\ ~m_queued[d]
    BY Zenon, <1>10 DEF TimerExpires, TimerFlags, TimerWakes, TimerStep, WakeUp, TypeInv, TypeOK
  <2> QED BY SMTT(60), <1>b, <2>1 DEF WaitingIsReachable
<1>11. CASE UNCHANGED vars
  BY Zenon, <1>11, <1>b DEF vars, WaitingIsReachable
<1> QED
  BY Zenon, <1>2, <1>4, <1>5, <1>6, <1>7, <1>8, <1>9, <1>10, <1>11 DEF Next, LockStep, UnlockStep

\* No waiter is dropped, on whatever thread the timers fire: a suspended coroutine that
\* nobody has woken still has its record, active, in the queue, or in the hands of an
\* unlock() that has claimed it and will wake it or put it back.
THEOREM NoWaiterDropped == Spec => []SuspendedIsReachable
<1>1. Init => RInv
  <2> SUFFICES ASSUME Init PROVE RInv
    OBVIOUS
  <2>1. TypeInv
    BY Zenon, InitTypeInv
  <2>2. OneRecord /\ WaitingIsReachable
    BY Zenon DEF Init, OneRecord, WaitingIsReachable
  <2> QED BY Zenon, <2>1, <2>2 DEF RInv
<1>2. RInv /\ [Next]_vars => RInv'
  BY Zenon, TypeInductive, RecordsInductive, WaitingInductive DEF RInv
<1>3. RInv => SuspendedIsReachable
  <2> SUFFICES ASSUME RInv, NEW c \in Coroutine, pc[c] = "suspended", ~m_queued[c],
                      NEW u \in Coroutine, dequeued[u] = Current(c)
               PROVE  pc[u] \in Working
    BY Zenon DEF RInv, TypeInv, SuspendedIsReachable, WaitingIsReachable, Reachable, Working
  <2>1. dequeued[u] # NoWaiter
    BY DEF Current, NoWaiter
  <2> QED BY Zenon, <2>1 DEF RInv, OneRecord
<1> QED BY <1>1, <1>2, <1>3, PTL DEF Spec

-----------------------------------------------------------------------------
(* AsyncWaiter *)

(* Whoever is past the exchange in notify() has seen to it that m_ready is set. *)
NotifiersReady == \A n \in Notifier : notifier[n] # "idle" => m_ready

(* A coroutine that is about to return, or whose resume is queued, was notified
   or timed out; Withdraw is reached only through m_ready. *)
ReturnHasReason ==
    /\ w_pc = "withdraw" => m_ready
    /\ (w_pc \in {"resume", "after"} \/ w_queued) /\ w_timer # "fired" => m_ready

(* The registration is still free when the coroutine takes it. *)
FreeUntilRegistered == w_pc \in {"ready?", "register"} => m_waiting = FALSE

NotReturned == outcome # "none" => w_pc = "after"

WaiterInv == WaiterTypeOK /\ NotifiersReady /\ ReturnHasReason /\ FreeUntilRegistered /\ NotReturned

(* The types hold after every step. *)
LEMMA WaiterTypes == WaiterTypeOK /\ [WaiterNext]_waiterVars => WaiterTypeOK'
<1> SUFFICES ASSUME WaiterTypeOK, [WaiterNext]_waiterVars PROVE WaiterTypeOK'
    OBVIOUS
<1> USE DEF WaiterTypeOK
<1>1. ASSUME NEW n \in Notifier, ClaimReady(n), UNCHANGED hasValue PROVE WaiterTypeOK'
    BY <1>1 DEF ClaimReady, NotifierGoto, coroutineVars
<1>2. ASSUME NEW n \in Notifier, NotifyStep(n) PROVE WaiterTypeOK'
    <2>1. CASE Assign(n) BY <1>2, <2>1 DEF NotifyStep, Assign, NotifierGoto, coroutineVars
    <2>2. CASE Handoff(n)
        <3>1. NotifierGoto(n, "wake") \/ NotifierGoto(n, "notified")
            BY Zenon, <2>2 DEF Handoff
        <3>2. notifier' \in [Notifier -> {"idle", "refused", "assign", "assigning",
                                         "handoff", "wake", "notified"}]
            BY Zenon, <3>1 DEF NotifierGoto
        <3> QED BY ZenonT(60), <1>2, <2>2, <3>2 DEF NotifyStep, Handoff, coroutineVars
    <2>3. CASE WakeWaiting(n) BY <1>2, <2>3 DEF NotifyStep, WakeWaiting, NotifierGoto, coroutineVars
    <2> QED BY Zenon, <1>2, <2>1, <2>2, <2>3 DEF NotifyStep
<1>3. ASSUME CoroutineStep PROVE WaiterTypeOK'
    <2>1. CASE WaitReady BY Zenon, <1>3, <2>1 DEF CoroutineStep, WaitReady
    <2>2. CASE Register BY Zenon, <1>3, <2>2 DEF CoroutineStep, Register
    <2>3. CASE Recheck BY Zenon, <1>3, <2>3 DEF CoroutineStep, Recheck
    <2>4. CASE Withdraw BY Zenon, <1>3, <2>4 DEF CoroutineStep, Withdraw
    <2>5. CASE ResumeWait BY ZenonT(60), <1>3, <2>5 DEF CoroutineStep, ResumeWait
    <2>6. CASE WaitResume BY Zenon, <1>3, <2>6 DEF CoroutineStep, WaitResume
    <2> QED BY Zenon, <1>3, <2>1, <2>2, <2>3, <2>4, <2>5, <2>6 DEF CoroutineStep
<1>4. ASSUME ArmWaitTimer \/ TimerFires, UNCHANGED hasValue PROVE WaiterTypeOK'
    BY ZenonT(60), <1>4 DEF ArmWaitTimer, TimerFires
<1>5. CASE UNCHANGED waiterVars
    BY <1>5 DEF waiterVars, coroutineVars
<1> QED BY Zenon, <1>1, <1>2, <1>3, <1>4, <1>5 DEF WaiterNext

(* So do the other conjuncts. *)
LEMMA WaiterStep == WaiterInv /\ [WaiterNext]_waiterVars => WaiterInv'
<1> SUFFICES ASSUME WaiterInv, [WaiterNext]_waiterVars PROVE WaiterInv'
    OBVIOUS
<1>0. WaiterTypeOK'
    BY Zenon, WaiterTypes DEF WaiterInv
<1> DEFINE Rest == NotifiersReady /\ ReturnHasReason /\ FreeUntilRegistered /\ NotReturned
<1> USE DEF WaiterInv, WaiterTypeOK, NotifiersReady, ReturnHasReason, FreeUntilRegistered, NotReturned
<1>1. ASSUME NEW n \in Notifier, ClaimReady(n), UNCHANGED hasValue PROVE Rest'
    BY Zenon, <1>1 DEF ClaimReady, NotifierGoto, coroutineVars
<1>2. ASSUME NEW n \in Notifier, NotifyStep(n) PROVE Rest'
    BY Zenon, <1>2 DEF NotifyStep, Assign, Handoff, WakeWaiting, NotifierGoto, coroutineVars
<1>3. ASSUME CoroutineStep PROVE Rest'
    <2>1. CASE WaitReady BY Zenon, <1>3, <2>1 DEF CoroutineStep, WaitReady
    <2>2. CASE Register BY Zenon, <1>3, <2>2 DEF CoroutineStep, Register
    <2>3. CASE Recheck BY Zenon, <1>3, <2>3 DEF CoroutineStep, Recheck
    <2>4. CASE Withdraw BY Zenon, <1>3, <2>4 DEF CoroutineStep, Withdraw
    <2>5. CASE ResumeWait BY Zenon, <1>3, <2>5 DEF CoroutineStep, ResumeWait
    <2>6. CASE WaitResume BY Zenon, <1>3, <2>6 DEF CoroutineStep, WaitResume
    <2> QED BY Zenon, <1>3, <2>1, <2>2, <2>3, <2>4, <2>5, <2>6 DEF CoroutineStep
<1>4. ASSUME ArmWaitTimer \/ TimerFires, UNCHANGED hasValue PROVE Rest'
    BY <1>4 DEF ArmWaitTimer, TimerFires
<1>5. CASE UNCHANGED waiterVars
    BY <1>5 DEF waiterVars, coroutineVars
<1>6. Rest'
    BY Zenon, <1>1, <1>2, <1>3, <1>4, <1>5 DEF WaiterNext
<1> QED BY Zenon, <1>0, <1>6

(* A wait() whose timer has not fired returns only after notify(), whatever the order
   of the notifiers' steps and the registration. *)
THEOREM WaiterCorrect == WaiterSpec => []ReturnsOnlyAfterNotify
<1>1. WaiterInit => WaiterInv
    BY Zenon DEF WaiterInit, WaiterInv, WaiterTypeOK, NotifiersReady, ReturnHasReason, FreeUntilRegistered,
           NotReturned
<1>2. WaiterInv /\ [WaiterNext]_waiterVars => WaiterInv'
    BY Zenon, WaiterStep
<1>3. WaiterInv => ReturnsOnlyAfterNotify
    BY Zenon DEF WaiterInv, ReturnHasReason, NotReturned, ReturnsOnlyAfterNotify
<1> QED BY <1>1, <1>2, <1>3, PTL DEF WaiterSpec

=============================================================================
