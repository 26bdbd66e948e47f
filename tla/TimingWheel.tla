---------------------------- MODULE TimingWheel ----------------------------
(***************************************************************************)
(* TimingWheelTimerManager, the timer wheel of an IO scheduler: push and   *)
(* tick, called from the scheduler's thread, and cancel from anywhere.     *)
(* Time passes in units smaller than a tick, at most MaxLag of them        *)
(* between two calls of tick, and none during a call.  Name_Variant beside *)
(* Name is the same code with one fault in it.                             *)
(***************************************************************************)
EXTENDS TimerWheel

VARIABLES
    m_size,
    ticking,     \* inside tick()
    sinceTick    \* time since tick() was called

managerVars == <<now, m_startTime, m_currentTick, wheel, m_size, ticking, sinceTick,
                 expire, state, cancelled, early, behind>>

ManagerInit ==
    /\ now = 0
    /\ m_startTime = 0
    /\ m_currentTick = 0
    /\ wheel = EmptyWheel
    /\ m_size = 0
    /\ ticking = FALSE
    /\ sinceTick = 0
    /\ expire = [t \in Timer |-> 0]
    /\ state = [t \in Timer |-> "new"]
    /\ cancelled = {}
    /\ early = [t \in Timer |-> 0]
    /\ behind = {}

TimePasses ==
    /\ now < MaxTime /\ ~ticking /\ sinceTick < MaxLag
    /\ now' = now + 1
    /\ sinceTick' = sinceTick + 1
    /\ UNCHANGED <<m_startTime, m_currentTick, wheel, m_size, ticking, expire,
                   state, cancelled, early, behind>>

\* push, once the wheel has been rebased if it was empty.
Rebased ==
    /\ m_startTime' = IF m_size = 0 THEN now ELSE m_startTime
    /\ m_currentTick' = IF m_size = 0 THEN 0 ELSE m_currentTick

DelayTicks(d) == (d + m_tickDuration - 1) \div m_tickDuration

PushDue(t) ==
    /\ HandleTimeouts({t}, expire')
    /\ state' = [state EXCEPT ![t] = "handled"]
    /\ UNCHANGED <<wheel, m_size, behind>>

PushRefused(t) ==
    /\ state' = [state EXCEPT ![t] = "refused"]
    /\ UNCHANGED <<wheel, m_size, early, behind>>

\* The slot follows from the clock, and tick() reaches it from m_currentTick: if that
\* lags so far that a slot of level 1 is a lap ahead, it is reached a lap early.  (A
\* timer of another level then only moves early.)
PushSet(t, ticks) ==
    LET absoluteTick == (now - m_startTime') \div m_tickDuration + ticks
        slot == Position(ticks, absoluteTick)
    IN /\ wheel' = [wheel EXCEPT ![slot] = @ \union {t}]
       /\ behind' = IF slot[1] = 1 /\ absoluteTick >= m_currentTick' + Span[1]
                    THEN behind \union {t} ELSE behind
       /\ m_size' = m_size + 1
       /\ state' = [state EXCEPT ![t] = "set"]
       /\ UNCHANGED early

Push(t, d) ==
    /\ ~ticking
    /\ state[t] = "new"
    /\ expire' = [expire EXCEPT ![t] = now + d]
    /\ Rebased
    /\ \/ d = 0 /\ PushDue(t)
       \/ d > 0 /\ DelayTicks(d) >= MaxSpan /\ PushRefused(t)
       \/ d > 0 /\ DelayTicks(d) < MaxSpan /\ PushSet(t, DelayTicks(d))
    /\ UNCHANGED <<now, ticking, sinceTick, cancelled>>

CancelSet(t) ==
    /\ state[t] = "set" /\ t \notin cancelled
    /\ cancelled' = cancelled \union {t}
    /\ UNCHANGED <<now, m_startTime, m_currentTick, wheel, m_size, ticking, sinceTick,
                   expire, state, early, behind>>

\* tick(): nothing without timers, or before the next tick is due.
TickBegins ==
    /\ ~ticking
    /\ sinceTick' = 0
    /\ ticking' = (m_size > 0 /\ Elapsed > m_currentTick)
    /\ UNCHANGED <<now, m_startTime, m_currentTick, wheel, m_size, expire, state,
                   cancelled, early, behind>>

\* One turn of tick()'s loop, which handles all of the current slot.
TickOnce_Uncounted ==
    /\ HandleTimeouts(Due(Moved) \union Current, expire)
    /\ state' = [t \in Timer |-> IF t \in Due(Moved) \union Current THEN "handled" ELSE state[t]]
    /\ wheel' = Turned
    /\ m_size' = m_size - Cardinality(Current) - Cardinality(Due(Moved))
    /\ m_currentTick' = m_currentTick + 1

TickOnce ==
    /\ HandleTimeouts(Due(Moved) \union Current, expire)
    /\ state' = [t \in Timer |-> IF t \in Due(Moved) \union Current THEN "handled" ELSE state[t]]
    /\ wheel' = Turned
    /\ m_size' = m_size - Cardinality(Current) - Cardinality(Moved \ Placed(Moved))
    /\ m_currentTick' = m_currentTick + 1

TickTurns ==
    /\ ticking
    /\ m_size > 0 /\ m_currentTick <= Elapsed
    /\ TickOnce
    /\ UNCHANGED <<now, m_startTime, ticking, sinceTick, expire, cancelled, behind>>

TickReturns ==
    /\ ticking
    /\ m_size = 0 \/ m_currentTick > Elapsed
    /\ ticking' = FALSE
    /\ m_startTime' = IF m_size = 0 THEN now ELSE m_startTime
    /\ m_currentTick' = IF m_size = 0 THEN 0 ELSE m_currentTick
    /\ UNCHANGED <<now, wheel, m_size, sinceTick, expire, state, cancelled, early, behind>>

ManagerNext ==
    \/ TimePasses \/ TickBegins \/ TickTurns \/ TickReturns
    \/ \E t \in Timer : CancelSet(t) \/ \E d \in Delay : Push(t, d)

ManagerSpec == ManagerInit /\ [][ManagerNext]_managerVars

-----------------------------------------------------------------------------
(* Properties *)

\* Type correctness: m_size, unsigned, is never decremented at zero.
ManagerTypeOK ==
    /\ now \in 0..MaxTime /\ m_startTime \in 0..now /\ sinceTick \in 0..MaxLag
    /\ m_currentTick \in Nat
    /\ wheel \in [WheelSlots -> SUBSET Timer]
    /\ m_size \in Nat
    /\ ticking \in BOOLEAN
    /\ expire \in [Timer -> Nat]
    /\ state \in [Timer -> {"new", "set", "refused", "handled"}]
    /\ cancelled \subseteq Timer /\ behind \subseteq Timer
    /\ early \in [Timer -> Nat]

\* Types; every accepted timer that was neither handled nor cancelled is in exactly one
\* slot, and m_size counts the timers in the wheel: the wheel is never thought empty
\* (and rebased or no longer ticked) while it holds one.
EveryTimerInOneSlot ==
    /\ ManagerTypeOK
    /\ \A s, r \in WheelSlots : s # r => wheel[s] \intersect wheel[r] = {}
    /\ m_size = Cardinality(InWheel(wheel))
    /\ \A t \in Timer : state[t] = "set" => t \in InWheel(wheel) \union cancelled

\* Every timer is handled in time: when tick() has just returned none is overdue by two
\* ticks, and none was handled early by more than rounding and a late tick() explain.
TickIsPunctual == (~ticking /\ sinceTick = 0 => NoneOverdueBy(2)) /\ HardlyEarly

\* No timer is handled a tick or more before it expires.
\* (Does not hold: README, "Where the code departs from its documentation".)
NeverEarly ==
    \A t \in Timer : early[t] < m_tickDuration

\* handleTimeout is not called for a timer that was cancelled before.
\* (Does not hold: README, "Where the code departs from its documentation".)
CancelledNotHandled ==
    [][\A t \in cancelled : state[t] = "set" => state'[t] # "handled"]_managerVars
=============================================================================
