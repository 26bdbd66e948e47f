----------------------------- MODULE TimerWheel ----------------------------
(***************************************************************************)
(* What both timer managers share: the geometry of the wheel (levels of    *)
(* slots, where a timer with a given delay goes, which slots a tick        *)
(* cascades), the state of the timers, and one turn of tick()'s loop,      *)
(* which is the same code in both.  The code has five levels of 256, 64,   *)
(* 64, 64 and 64 slots; WheelSize makes it any.  The order of timers       *)
(* within a slot is left out.  Name_Variant beside Name is the same code   *)
(* with one fault in it.                                                   *)
(***************************************************************************)
EXTENDS Naturals, Sequences, FiniteSets

CONSTANTS
    Timer,
    WheelSize,       \* number of slots of each level
    m_tickDuration,  \* units of time per tick
    Delay,           \* delays timers are created with, in units
    MaxTime,         \* the clock stops here
    MaxLag           \* tick() is called at least this often

ASSUME WheelAssumption ==
    /\ IsFiniteSet(Timer)
    /\ WheelSize \in Seq(Nat \ {0, 1}) /\ Len(WheelSize) > 1
    /\ m_tickDuration \in Nat \ {0}
    /\ Delay \subseteq Nat /\ MaxTime \in Nat /\ MaxLag \in Nat \ {0}

VARIABLES
    now, m_startTime, m_currentTick, wheel,
    expire,      \* m_expireTime of each timer
    state,       \* "new", "set", "handled", "refused" or "dropped"
    cancelled,   \* timers with kCancel set
    early,       \* how long before it expired a timer was handled
    behind       \* timers added to a wheel too far behind the clock for them

Levels == 1..Len(WheelSize)

\* WHEELk_SPAN, in ticks.
Span[k \in 0..Len(WheelSize)] == IF k = 0 THEN 1 ELSE Span[k - 1] * WheelSize[k]

MaxSpan == Span[Len(WheelSize)]

SlotAt(k, tick) == <<k, (tick \div Span[k - 1]) % WheelSize[k]>>

WheelSlots == UNION {{k} \X (0..(WheelSize[k] - 1)) : k \in Levels}

EmptyWheel == [s \in WheelSlots |-> {}]

\* The slot for a timer due at absoluteTick, which is delayTicks away.
Position(delayTicks, absoluteTick) ==
    LET level == CHOOSE k \in Levels : Span[k - 1] <= delayTicks /\ delayTicks < Span[k]
    IN IF delayTicks = 0 THEN SlotAt(1, absoluteTick) ELSE SlotAt(level, absoluteTick)

\* The slots cascaded at a tick: one of every level above a level that wraps.
CascadedAt_NextLevel(tick) ==
    {SlotAt(k, tick) : k \in {l \in Levels \ {1} : tick > 0 /\ tick % Span[l] = 0}}

CascadedAt(tick) ==
    {SlotAt(k, tick) : k \in {l \in Levels \ {1} : tick > 0 /\ tick % Span[l - 1] = 0}}

InSlots(w, slots) == UNION {w[s] : s \in slots}

InWheel(w) == InSlots(w, WheelSlots)

-----------------------------------------------------------------------------
(* Timers *)

Elapsed == (now - m_startTime) \div m_tickDuration

Remaining(t) == IF expire[t] <= now THEN 0 ELSE (expire[t] - now) \div m_tickDuration

\* A timer that is cancelled is dropped, one with less than a tick to go is handled,
\* one beyond the last level is dropped, the others go to where their remaining time
\* puts them.
Live(timers) == timers \ cancelled

Due(timers) == {t \in Live(timers) : Remaining(t) = 0}

OutOfRange(timers) == {t \in Live(timers) : Remaining(t) >= MaxSpan}

Placed(timers) == {t \in Live(timers) : Remaining(t) \in 1..(MaxSpan - 1)}

\* handleTimeout of timers that expire at expiry.
HandleTimeouts(timers, expiry) ==
    early' = [t \in Timer |-> IF t \in timers /\ expiry[t] > now
                              THEN expiry[t] - now ELSE early[t]]

-----------------------------------------------------------------------------
(* One turn of tick()'s loop: cascade, then empty the current slot of level 1. *)

Moved == InSlots(wheel, CascadedAt(m_currentTick))

\* cascadeSlot.
Cascaded_ToFirst(timers) ==
    [s \in WheelSlots |-> (wheel[s] \ timers) \union
        {t \in Placed(timers) : SlotAt(1, m_currentTick + Remaining(t)) = s}]

Cascaded(timers) ==
    [s \in WheelSlots |-> (wheel[s] \ timers) \union
        {t \in Placed(timers) : Position(Remaining(t), m_currentTick + Remaining(t)) = s}]

Current == Cascaded(Moved)[SlotAt(1, m_currentTick)]

Turned == [Cascaded(Moved) EXCEPT ![SlotAt(1, m_currentTick)] = {}]

-----------------------------------------------------------------------------
\* No timer still waiting is overdue by this many ticks.
NoneOverdueBy(ticks) ==
    \A t \in Timer : state[t] = "set" /\ t \notin cancelled =>
        expire[t] + ticks * m_tickDuration > now

\* A timer that was not added to a wheel too far behind the clock for it is handled
\* early by less than two ticks and the longest time between two calls of tick():
\* rounding costs a tick each way, and a cascade places a timer by the current tick,
\* which may be behind the clock, and the time it has left from now.
HardlyEarly == \A t \in Timer \ behind : early[t] < MaxLag + 2 * m_tickDuration
=============================================================================
