----------------------------- MODULE SafeTimer -----------------------------
(***************************************************************************)
(* TimerScheduler and its ThreadSafeTimerManager: any thread adds timers   *)
(* to a lock-free queue, the timer thread moves them to its wheel and      *)
(* handles those that are due, and stop() ends that thread after one more  *)
(* tick().  Each timer stands for the thread that adds it.  Time passes in *)
(* units smaller than a tick, at most MaxLag of them while the timer       *)
(* thread sleeps, and none during tick().  Name_Variant beside Name is the *)
(* same code with one fault in it.                                         *)
(***************************************************************************)
EXTENDS TimerWheel

CONSTANTS
    BATCH_SIZE,
    SizeRange     \* m_pendingSize counts modulo this (2^64 in the code)

ASSUME SafeAssumption == BATCH_SIZE \in Nat \ {0} /\ SizeRange \in Nat \ {0}

VARIABLES
    m_wheelSize, m_pendingQueue, m_pendingSize, m_running, m_stopFlag,
    thread,      \* where the timer thread is
    batch,       \* timers it has dequeued but not added to the wheel
    last,        \* it has left its loop
    slept,       \* how long it has slept
    adder        \* where the thread adding each timer is

vars == <<now, m_startTime, m_currentTick, wheel, m_wheelSize, m_pendingQueue,
          m_pendingSize, m_running, m_stopFlag, thread, batch, last, slept, adder,
          expire, state, cancelled, early, behind>>

wheelVars == <<m_startTime, m_currentTick, wheel, m_wheelSize>>
threadVars == <<thread, batch, last, slept>>
timerVars == <<expire, state, cancelled, early, behind>>
stopVars == <<m_running, m_stopFlag>>

Init ==
    /\ now = 0 /\ m_startTime = 0 /\ m_currentTick = 0
    /\ wheel = EmptyWheel /\ m_wheelSize = 0
    /\ m_pendingQueue = <<>> /\ m_pendingSize = 0
    /\ m_running = TRUE /\ m_stopFlag = FALSE
    /\ thread = "loop" /\ batch = {} /\ last = FALSE /\ slept = 0
    /\ adder = [t \in Timer |-> "idle"]
    /\ expire = [t \in Timer |-> 0]
    /\ state = [t \in Timer |-> "new"]
    /\ cancelled = {} /\ early = [t \in Timer |-> 0] /\ behind = {}

-----------------------------------------------------------------------------
(* Adding a timer, from any thread: addTimer and push. *)

AddTimer(t) ==
    /\ adder[t] = "idle"
    /\ \/ m_running /\ adder' = [adder EXCEPT ![t] = "enqueue"]
       \/ ~m_running /\ adder' = [adder EXCEPT ![t] = "refused"]
    /\ UNCHANGED <<now, wheelVars, m_pendingQueue, m_pendingSize, stopVars, threadVars,
                   timerVars>>

Enqueue(t, d) ==
    /\ adder[t] = "enqueue"
    /\ expire' = [expire EXCEPT ![t] = now + d]
    /\ m_pendingQueue' = Append(m_pendingQueue, t)
    /\ adder' = [adder EXCEPT ![t] = "count"]
    /\ UNCHANGED <<now, wheelVars, m_pendingSize, stopVars, threadVars, state, cancelled,
                   early, behind>>

CountPending(t) ==
    /\ adder[t] = "count"
    /\ m_pendingSize' = (m_pendingSize + 1) % SizeRange
    /\ adder' = [adder EXCEPT ![t] = "added"]
    /\ UNCHANGED <<now, wheelVars, m_pendingQueue, stopVars, threadVars, timerVars>>

Cancel(t) ==
    /\ adder[t] = "added" /\ t \notin cancelled
    /\ cancelled' = cancelled \union {t}
    /\ UNCHANGED <<now, wheelVars, m_pendingQueue, m_pendingSize, stopVars, threadVars,
                   adder, expire, state, early, behind>>

-----------------------------------------------------------------------------
(* The timer thread. *)

\* timerLoop: a tick() per turn, and one more after the loop.
Loop ==
    /\ thread = "loop"
    /\ last' = m_stopFlag
    /\ thread' = "pending"

BeginTick ==
    /\ Loop
    /\ UNCHANGED <<now, wheelVars, m_pendingQueue, m_pendingSize, stopVars, batch, slept,
                   adder, timerVars>>

\* processPendingTimers: a batch at a time until the queue is empty.
DequeueBatch ==
    /\ thread = "pending"
    /\ m_pendingQueue # <<>>
    /\ LET n == IF Len(m_pendingQueue) < BATCH_SIZE THEN Len(m_pendingQueue) ELSE BATCH_SIZE
       IN /\ batch' = {m_pendingQueue[i] : i \in 1..n}
          /\ m_pendingQueue' = SubSeq(m_pendingQueue, n + 1, Len(m_pendingQueue))
    /\ thread' = "batch"
    /\ UNCHANGED <<now, wheelVars, m_pendingSize, stopVars, last, slept, adder, timerVars>>

\* addTimerToWheel for the timers of the batch.
AddToWheel_Uncounted(timers) ==
    /\ wheel' = [s \in WheelSlots |-> wheel[s] \union
                    {t \in Placed(timers) : Position(Remaining(t), Elapsed + Remaining(t)) = s}]
    /\ UNCHANGED m_wheelSize

AddToWheel(timers) ==
    /\ wheel' = [s \in WheelSlots |-> wheel[s] \union
                    {t \in Placed(timers) : Position(Remaining(t), Elapsed + Remaining(t)) = s}]
    /\ m_wheelSize' = m_wheelSize + Cardinality(Placed(timers))

\* At level 1, the wheel has yet to turn through the slot the timer goes to, a lap
\* early; above, it lags by more than the sleep of the timer thread explains.
TooFarBehind(t) ==
    LET level == Position(Remaining(t), Elapsed + Remaining(t))[1]
    IN \/ level = 1 /\ Elapsed + Remaining(t) >= m_currentTick + Span[1]
       \/ level # 1 /\ now >= m_startTime + (m_currentTick + 1) * m_tickDuration + MaxLag

AddBatch ==
    /\ thread = "batch"
    /\ m_pendingSize' = (m_pendingSize - Cardinality(batch)) % SizeRange
    /\ AddToWheel(batch)
    /\ HandleTimeouts(Due(batch), expire)
    /\ state' = [t \in Timer |-> IF t \in Placed(batch) THEN "set"
                                 ELSE IF t \in Due(batch) THEN "handled"
                                 ELSE IF t \in OutOfRange(batch) THEN "dropped" ELSE state[t]]
    /\ behind' = behind \union {t \in Placed(batch) : TooFarBehind(t)}
    /\ batch' = {}
    /\ thread' = "pending"
    /\ UNCHANGED <<now, m_startTime, m_currentTick, m_pendingQueue, stopVars, last, slept,
                   adder, expire, cancelled>>

PendingDone ==
    /\ thread = "pending"
    /\ m_pendingQueue = <<>>
    /\ thread' = IF m_wheelSize > 0 /\ Elapsed > m_currentTick THEN "turn" ELSE "ticked"
    /\ UNCHANGED <<now, wheelVars, m_pendingQueue, m_pendingSize, stopVars, batch, last,
                   slept, adder, timerVars>>

\* One turn of tick()'s loop, which handles what is not cancelled of the current slot.
Turn ==
    LET handled == Due(Moved) \union Live(Current)
    IN /\ HandleTimeouts(handled, expire)
       /\ state' = [t \in Timer |-> IF t \in handled THEN "handled"
                                    ELSE IF t \in OutOfRange(Moved) THEN "dropped" ELSE state[t]]
       /\ wheel' = Turned
       /\ m_wheelSize' = m_wheelSize - Cardinality(Current) - Cardinality(Moved \ Placed(Moved))
       /\ m_currentTick' = m_currentTick + 1

TickTurn ==
    /\ thread = "turn"
    /\ m_wheelSize > 0 /\ m_currentTick < Elapsed
    /\ Turn
    /\ UNCHANGED <<now, m_startTime, m_pendingQueue, m_pendingSize, stopVars, thread, batch,
                   last, slept, adder, expire, cancelled, behind>>

\* tick() ends, resetting a wheel it has emptied.
TickEnd ==
    /\ thread = "turn"
    /\ m_wheelSize = 0 \/ m_currentTick >= Elapsed
    /\ thread' = "ticked"
    /\ m_startTime' = IF m_wheelSize = 0 THEN now ELSE m_startTime
    /\ m_currentTick' = IF m_wheelSize = 0 THEN 0 ELSE m_currentTick
    /\ UNCHANGED <<now, wheel, m_wheelSize, m_pendingQueue, m_pendingSize, stopVars, batch,
                   last, slept, adder, timerVars>>

SleepOrExit ==
    /\ thread = "ticked"
    /\ thread' = IF last THEN "exited" ELSE "sleep"
    /\ slept' = 0
    /\ UNCHANGED <<now, wheelVars, m_pendingQueue, m_pendingSize, stopVars, batch, last,
                   adder, timerVars>>

\* The sleep lasts a tick or longer.
WakeUp ==
    /\ thread = "sleep"
    /\ slept >= m_tickDuration \/ now = MaxTime
    /\ thread' = "loop"
    /\ UNCHANGED <<now, wheelVars, m_pendingQueue, m_pendingSize, stopVars, batch, last,
                   slept, adder, timerVars>>

Pass ==
    /\ thread = "sleep" /\ slept < MaxLag /\ now < MaxTime
    /\ now' = now + 1
    /\ slept' = slept + 1
    /\ UNCHANGED <<wheelVars, m_pendingQueue, m_pendingSize, stopVars, thread, batch, last,
                   adder, timerVars>>

-----------------------------------------------------------------------------
(* stop(), which then joins the timer thread. *)

StopRunning ==
    /\ m_running
    /\ m_running' = FALSE
    /\ UNCHANGED <<now, wheelVars, m_pendingQueue, m_pendingSize, m_stopFlag, threadVars,
                   adder, timerVars>>

StopFlag ==
    /\ ~m_running /\ ~m_stopFlag
    /\ m_stopFlag' = TRUE
    /\ UNCHANGED <<now, wheelVars, m_pendingQueue, m_pendingSize, m_running, threadVars,
                   adder, timerVars>>

TimerThread ==
    BeginTick \/ DequeueBatch \/ AddBatch \/ PendingDone \/ TickTurn \/ TickEnd
    \/ SleepOrExit \/ WakeUp

AdderStep(t) ==
    AddTimer(t) \/ (\E d \in Delay : Enqueue(t, d)) \/ CountPending(t)

Next ==
    \/ TimerThread \/ Pass \/ StopRunning \/ StopFlag
    \/ \E t \in Timer : AdderStep(t) \/ Cancel(t)

Spec == Init /\ [][Next]_vars

-----------------------------------------------------------------------------
(* Properties *)

\* Type correctness: m_wheelSize, unsigned, is never decremented at
\* zero, and reset() never puts m_startTime ahead of the clock.
TypeOK ==
    /\ now \in 0..MaxTime /\ m_startTime \in 0..now /\ m_currentTick \in Nat
    /\ wheel \in [WheelSlots -> SUBSET Timer] /\ m_wheelSize \in 0..Cardinality(Timer)
    /\ m_pendingQueue \in Seq(Timer) /\ m_pendingSize \in 0..(SizeRange - 1)
    /\ m_running \in BOOLEAN /\ m_stopFlag \in BOOLEAN /\ last \in BOOLEAN
    /\ thread \in {"loop", "pending", "batch", "turn", "ticked", "sleep", "exited"}
    /\ batch \subseteq Timer /\ slept \in 0..MaxLag
    /\ adder \in [Timer -> {"idle", "enqueue", "count", "added", "refused"}]
    /\ expire \in [Timer -> Nat] /\ early \in [Timer -> Nat]
    /\ state \in [Timer -> {"new", "set", "handled", "dropped"}]
    /\ cancelled \subseteq Timer /\ behind \subseteq Timer

\* m_pendingSize is off by the threads between their enqueue and fetch_add, and by
\* the batch between its dequeue and fetch_sub; it has wrapped below zero when the
\* timer thread overtakes a thread adding a timer, and settles afterwards.
PendingAccounts ==
    m_pendingSize = (Len(m_pendingQueue) + Cardinality(batch)
                     - Cardinality({t \in Timer : adder[t] = "count"})) % SizeRange

\* Types; every timer that was enqueued is in exactly one of the pending queue, the batch
\* in the timer thread's hands and a slot of the wheel until it is handled, dropped
\* or cancelled, and both sizes account for them.
EveryTimerInOnePlace ==
    /\ TypeOK
    /\ PendingAccounts
    /\ m_wheelSize = Cardinality(InWheel(wheel))
    /\ \A t \in Timer :
        LET places == Cardinality({i \in DOMAIN m_pendingQueue : m_pendingQueue[i] = t})
                      + Cardinality({s \in WheelSlots : t \in wheel[s]})
                      + (IF t \in batch THEN 1 ELSE 0)
        IN /\ places <= 1
           /\ adder[t] \in {"count", "added"} /\ state[t] \in {"new", "set"}
              /\ t \notin cancelled => places = 1

\* Every timer is handled in time: when tick() has just returned none is overdue by a
\* tick, and none was handled early by more than rounding and a late tick() explain.
Punctual == (thread = "ticked" => NoneOverdueBy(1)) /\ HardlyEarly

\* Not even a timer added to a wheel that is behind the clock is handled earlier, so that
\* sleep() lasts about as long as it is asked to.
\* (Does not hold: README, "Where the code departs from its documentation".)
SleepsLongEnough == \A t \in Timer : early[t] < MaxLag + 2 * m_tickDuration

\* timerLoop's last tick() leaves no timer that addTimer accepted in the pending
\* queue, where nothing would ever handle it.
\* (Does not hold: README, "Where the code departs from its documentation".)
AcceptedIsProcessed ==
    thread = "exited" => \A i \in DOMAIN m_pendingQueue : adder[m_pendingQueue[i]] # "added"
=============================================================================
