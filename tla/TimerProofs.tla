---------------------------- MODULE TimerProofs ----------------------------
(***************************************************************************)
(* The timer managers for any set of timers, any wheel, any duration of a  *)
(* tick and however late tick() is called: a timer that waits is in one    *)
(* place, and none is handled early or left behind.  First what each step  *)
(* of TimingWheelTimerManager keeps, then the facts about spans and sizes  *)
(* that the lemmas of both managers assume, then the theorems.             *)
(***************************************************************************)
EXTENDS TimerLemmas, TimingWheel

-----------------------------------------------------------------------------
(* TimingWheelTimerManager *)

(* A timer that was accepted is within the range of the wheel. *)
InRange == \A t \in Timer : state[t] = "set" => expire[t] < now + MaxSpan * m_tickDuration

(* The timers of the wheel wait. *)
WheelHoldsSet == \A t \in InWheel(wheel) : state[t] = "set"

(* The wheel is at most a tick ahead of the clock, and no further behind it than the
   calls of tick() are apart. *)
ManagerLag ==
    /\ m_startTime + m_currentTick * m_tickDuration <= now + m_tickDuration
    /\ m_size > 0 => BehindBy(IF ticking THEN MaxLag ELSE sinceTick)
    /\ ticking => sinceTick = 0

ManagerInv ==
    /\ EveryTimerInOneSlot /\ WheelHoldsSet /\ InRange /\ ManagerLag
    /\ Reached(m_tickDuration - 1) /\ NearlyDue /\ HardlyEarly

(* What the types say of the wheel. *)
LEMMA ManagerTypes ==
    ASSUME WheelFacts, EveryTimerInOneSlot
    PROVE  /\ WheelTypes /\ Apart(wheel) /\ m_startTime <= now /\ sinceTick \in Nat
           /\ sinceTick <= MaxLag /\ m_size \in Nat /\ InWheel(wheel) \subseteq Timer
           /\ m_size = 0 <=> InWheel(wheel) = {}
           /\ m_size = Cardinality(InWheel(wheel))
<1>1. ManagerTypeOK
    BY Zenon DEF EveryTimerInOneSlot
<1>2. /\ WheelTypes /\ m_startTime <= now /\ sinceTick \in Nat /\ sinceTick <= MaxLag
      /\ m_size \in Nat
    BY <1>1, Numbers DEF ManagerTypeOK, WheelTypes
<1>3. Apart(wheel) /\ m_size = Cardinality(InWheel(wheel))
    BY Zenon DEF EveryTimerInOneSlot, Apart
<1>4. InWheel(wheel) \subseteq Timer
    BY Zenon, <1>2, InWheelDef DEF WheelTypes
<1> QED BY ZenonT(60), <1>2, <1>3, <1>4, Sizes

(* A new manager. *)
LEMMA ManagerStart ==
    ASSUME WheelFacts, ManagerInit
    PROVE  ManagerInv
<1>0. /\ now = 0 /\ m_startTime = 0 /\ m_currentTick = 0 /\ m_size = 0 /\ ticking = FALSE
      /\ sinceTick = 0 /\ expire = [t \in Timer |-> 0] /\ state = [t \in Timer |-> "new"]
      /\ cancelled = {} /\ early = [t \in Timer |-> 0] /\ behind = {}
    BY Zenon DEF ManagerInit
<1>1. wheel \in [WheelSlots -> SUBSET Timer] /\ \A s \in WheelSlots : wheel[s] = {}
    BY Zenon DEF ManagerInit, EmptyWheel
<1>2. InWheel(wheel) = {} /\ Cardinality(InWheel(wheel)) = 0
    BY Zenon, <1>1, InWheelDef, Sizes
<1>3. EveryTimerInOneSlot
    <2>0. /\ 0 \in 0..MaxTime /\ 0 \in 0..0 /\ 0 \in 0..MaxLag /\ 0 \in Nat
          /\ [t \in Timer |-> 0] \in [Timer -> Nat]
          /\ [t \in Timer |-> "new"] \in [Timer -> {"new", "set", "refused", "handled"}]
        BY Numbers
    <2>1. ManagerTypeOK
        BY Zenon, <1>0, <1>1, <2>0 DEF ManagerTypeOK
    <2> QED BY Zenon, <1>0, <1>1, <1>2, <2>1 DEF EveryTimerInOneSlot
<1>4. WheelHoldsSet /\ InRange
    BY Zenon, <1>0, <1>2 DEF WheelHoldsSet, InRange
<1>5. ManagerLag
    BY <1>0, Numbers DEF ManagerLag
<1>6. Reached(m_tickDuration - 1) /\ NearlyDue
    BY Zenon, <1>1 DEF Reached, NearlyDue
<1>7. HardlyEarly
    BY <1>0, Numbers DEF HardlyEarly
<1> QED BY Zenon, <1>3, <1>4, <1>5, <1>6, <1>7 DEF ManagerInv

(* Time passes between two calls of tick(). *)
LEMMA TimePassesKeeps ==
    ASSUME WheelFacts, ManagerInv, TimePasses
    PROVE  ManagerInv'
<1>0. /\ now < MaxTime /\ ~ticking /\ sinceTick < MaxLag /\ now' = now + 1
      /\ sinceTick' = sinceTick + 1
      /\ UNCHANGED <<m_startTime, m_currentTick, wheel, m_size, ticking, expire, state,
                     cancelled, early, behind>>
    BY Zenon DEF TimePasses
<1>1. EveryTimerInOneSlot /\ WheelHoldsSet /\ InRange /\ ManagerLag /\ Reached(m_tickDuration - 1)
      /\ NearlyDue /\ HardlyEarly
    BY Zenon DEF ManagerInv
<1>2. ManagerTypeOK
    BY Zenon, <1>1 DEF EveryTimerInOneSlot
<1>3. ManagerTypeOK'
    BY <1>0, <1>2, Numbers DEF ManagerTypeOK
<1>4. EveryTimerInOneSlot'
    BY Zenon, <1>0, <1>1, <1>3 DEF EveryTimerInOneSlot
<1>5. WheelHoldsSet' /\ Reached(m_tickDuration - 1)' /\ NearlyDue' /\ HardlyEarly'
    BY Zenon, <1>0, <1>1 DEF WheelHoldsSet, Reached, NearlyDue, HardlyEarly
<1> DEFINE S == MaxSpan * m_tickDuration
           C == m_currentTick * m_tickDuration
           D == (m_currentTick + 1) * m_tickDuration
<1>6. S \in Nat /\ C \in Nat /\ D \in Nat
    BY <1>2, Numbers DEF ManagerTypeOK
<1>7. InRange'
    <2>1. \A t \in Timer : state[t] = "set" => expire[t] < now + S
        BY Zenon, <1>1 DEF InRange
    <2> HIDE DEF S
    <2>2. \A t \in Timer : state'[t] = "set" => expire'[t] < now' + S
        BY <1>0, <1>2, <1>6, <2>1 DEF ManagerTypeOK
    <2> QED BY Zenon, <2>2 DEF InRange, S
<1>8. ManagerLag'
    <2>1. /\ m_startTime + C <= now + m_tickDuration
          /\ m_size > 0 => now < m_startTime + D + sinceTick
        BY Zenon, <1>0, <1>1 DEF ManagerLag, BehindBy
    <2> HIDE DEF C, D
    <2>2. /\ m_startTime + C <= now + 1 + m_tickDuration
          /\ m_size > 0 => now + 1 < m_startTime + D + (sinceTick + 1)
        BY <1>2, <1>6, <2>1, Numbers DEF ManagerTypeOK
    <2> QED BY Zenon, <1>0, <2>2 DEF ManagerLag, BehindBy, C, D
<1> QED BY Zenon, <1>4, <1>5, <1>7, <1>8 DEF ManagerInv

(* tick() reads the clock. *)
LEMMA TickBeginsKeeps ==
    ASSUME WheelFacts, ManagerInv, TickBegins
    PROVE  ManagerInv'
<1>0. /\ ~ticking /\ sinceTick' = 0 /\ ticking' = (m_size > 0 /\ Elapsed > m_currentTick)
      /\ UNCHANGED <<now, m_startTime, m_currentTick, wheel, m_size, expire, state,
                     cancelled, early, behind>>
    BY Zenon DEF TickBegins
<1>1. EveryTimerInOneSlot /\ WheelHoldsSet /\ InRange /\ ManagerLag /\ Reached(m_tickDuration - 1)
      /\ NearlyDue /\ HardlyEarly
    BY Zenon DEF ManagerInv
<1>2. ManagerTypeOK
    BY Zenon, <1>1 DEF EveryTimerInOneSlot
<1>3. ManagerTypeOK'
    BY <1>0, <1>2, Numbers DEF ManagerTypeOK
<1>4. EveryTimerInOneSlot'
    BY Zenon, <1>0, <1>1, <1>3 DEF EveryTimerInOneSlot
<1>5. WheelHoldsSet' /\ Reached(m_tickDuration - 1)' /\ NearlyDue' /\ HardlyEarly' /\ InRange'
    BY Zenon, <1>0, <1>1 DEF WheelHoldsSet, Reached, NearlyDue, HardlyEarly, InRange
<1> DEFINE D == (m_currentTick + 1) * m_tickDuration
           P == Elapsed * m_tickDuration
<1>6. /\ m_startTime \in Nat /\ now \in Nat /\ m_currentTick \in Nat /\ m_startTime <= now
      /\ sinceTick \in Nat /\ sinceTick <= MaxLag /\ D \in Nat
    BY <1>2, Numbers DEF ManagerTypeOK
<1>7. Elapsed \in Nat /\ now < m_startTime + P + m_tickDuration /\ P \in Nat
    BY Zenon, <1>1, ManagerTypes, ElapsedFacts
<1>8. m_size > 0 => now < m_startTime + D + sinceTick
    BY Zenon, <1>0, <1>1 DEF ManagerLag, BehindBy
<1>9. m_size > 0 => BehindBy(MaxLag)
    <2> HIDE DEF D
    <2>1. m_size > 0 => now < m_startTime + D + MaxLag
        BY <1>6, <1>8, Numbers
    <2> QED BY Zenon, <2>1 DEF BehindBy, D
<1>10. Elapsed <= m_currentTick => BehindBy(0)
    <2>1. Elapsed <= m_currentTick => P + m_tickDuration <= D
        BY <1>6, <1>7, Numbers, Scale
    <2> HIDE DEF D, P
    <2>2. Elapsed <= m_currentTick => now < m_startTime + D + 0
        BY <1>6, <1>7, <2>1, Numbers
    <2> QED BY Zenon, <2>2 DEF BehindBy, D
<1>11. ManagerLag'
    <2>1. m_size > 0 => BehindBy(IF ticking' THEN MaxLag ELSE sinceTick')
        <3>1. ASSUME m_size > 0, ~ticking' PROVE Elapsed <= m_currentTick
            <4>1. ~(Elapsed > m_currentTick)
                BY Zenon, <1>0, <3>1
            <4> QED BY <1>6, <1>7, <4>1
        <3> QED BY Zenon, <1>0, <1>9, <1>10, <3>1
    <2>2. m_size' > 0 => BehindBy(IF ticking THEN MaxLag ELSE sinceTick)'
        BY Zenon, <1>0, <2>1 DEF BehindBy
    <2> QED BY Zenon, <1>0, <1>1, <2>2 DEF ManagerLag
<1> QED BY Zenon, <1>4, <1>5, <1>11 DEF ManagerInv

(* tick() turns the wheel by one tick. *)
LEMMA TickTurnsKeeps ==
    ASSUME WheelFacts, ManagerInv, TickTurns
    PROVE  ManagerInv'
<1> DEFINE H == Due(Moved) \cup Current
<1>0. /\ ticking /\ m_size > 0 /\ m_currentTick <= Elapsed
      /\ HandleTimeouts(H, expire)
      /\ state' = [t \in Timer |-> IF t \in H THEN "handled" ELSE state[t]]
      /\ wheel' = Turned
      /\ m_size' = m_size - Cardinality(Current) - Cardinality(Moved \ Placed(Moved))
      /\ m_currentTick' = m_currentTick + 1
      /\ UNCHANGED <<now, m_startTime, ticking, sinceTick, expire, cancelled, behind>>
    BY Zenon DEF TickTurns, TickOnce
<1>1. EveryTimerInOneSlot /\ WheelHoldsSet /\ InRange /\ ManagerLag /\ Reached(m_tickDuration - 1)
      /\ NearlyDue /\ HardlyEarly
    BY Zenon DEF ManagerInv
<1>2. /\ WheelTypes /\ Apart(wheel) /\ m_startTime <= now
      /\ m_size = Cardinality(InWheel(wheel)) /\ ManagerTypeOK
    BY Zenon, <1>1, ManagerTypes DEF EveryTimerInOneSlot
<1>3. /\ now \in Nat /\ m_startTime \in Nat /\ m_currentTick \in Nat /\ Elapsed \in Nat
      /\ early \in [Timer -> Nat] /\ expire \in [Timer -> Nat]
    BY Zenon, <1>2, ElapsedFacts DEF WheelTypes, ManagerTypeOK
<1> DEFINE C == m_currentTick * m_tickDuration
<1>4. m_startTime + C <= now /\ C \in Nat
    <2> DEFINE P == Elapsed * m_tickDuration
    <2>1. C <= P /\ C \in Nat /\ P \in Nat
        BY Zenon, <1>0, <1>3, Numbers, Scale
    <2>2. m_startTime + P <= now
        BY Zenon, <1>2, ElapsedFacts
    <2> HIDE DEF C, P
    <2> QED BY <1>3, <2>1, <2>2
<1>5. HardlyEarly' /\ early' \in [Timer -> Nat]
    <2>1. \A t \in H \ behind : t \in Timer => expire[t] < now + MaxLag + 2 * m_tickDuration
        BY Zenon, <1>1, <1>2, <1>4, TurnHandles
    <2> HIDE DEF H
    <2> QED BY Zenon, <1>0, <1>1, <1>3, <2>1, HandlesHardlyEarly
<1>6. NearlyDue'
    <2>1. BehindBy(MaxLag)
        BY Zenon, <1>0, <1>1 DEF ManagerLag
    <2> HIDE DEF H, C
    <2> QED BY Zenon, <1>0, <1>1, <1>2, <2>1, NearlyDueTurn
<1>7. Reached(m_tickDuration - 1)'
    <2> HIDE DEF H
    <2>1. \A s \in WheelSlots : \A t \in wheel'[s] \ cancelled' : \E v \in Nat \ {0} :
               /\ m_currentTick' <= v /\ Visits(v, s)
               /\ m_startTime' + v * m_tickDuration <= expire'[t] + (m_tickDuration - 1)
        BY Zenon, <1>0, <1>1, <1>2, <1>4, Numbers, ReachedTurn
    <2> QED BY Zenon, <2>1 DEF Reached
<1>8. /\ InWheel(Turned) \subseteq InWheel(wheel) \ H
      /\ \A t \in InWheel(wheel) \ H : t \in InWheel(Turned) \cup cancelled \cup OutOfRange(Moved)
    BY Zenon, <1>2, TurnLeaves
<1>9. WheelHoldsSet'
    <2> HIDE DEF H
    <2>1. \A t \in InWheel(Turned) : t \in Timer /\ t \notin H /\ state[t] = "set"
        BY Zenon, <1>1, <1>8, ManagerTypes DEF WheelHoldsSet
    <2>2. \A t \in InWheel(Turned) : state'[t] = "set"
        BY Zenon, <1>0, <2>1
    <2> QED BY Zenon, <1>0, <2>2 DEF WheelHoldsSet
<1>10. \A t \in Timer : state'[t] = "set" => state[t] = "set" /\ t \notin H
    <2> HIDE DEF H
    <2> QED BY Zenon, <1>0
<1>11. InRange'
    BY Zenon, <1>0, <1>1, <1>10 DEF InRange
<1>12. \A t \in Timer : state[t] = "set" => t \notin OutOfRange(Moved)
    <2> SUFFICES ASSUME NEW t \in Timer, state[t] = "set", t \in OutOfRange(Moved) PROVE FALSE
        OBVIOUS
    <2> DEFINE S == MaxSpan * m_tickDuration
               r == Remaining(t)
               R == r * m_tickDuration
    <2>1. expire[t] < now + S /\ S \in Nat
        BY <1>1, Numbers DEF InRange
    <2>2. r >= MaxSpan
        BY Zenon DEF OutOfRange
    <2>3. ~(expire[t] <= now)
        BY <2>2, Numbers DEF Remaining
    <2>4. r = (expire[t] - now) \div m_tickDuration /\ expire[t] - now \in Nat /\ expire[t] \in Nat
        BY <1>3, <2>3 DEF Remaining
    <2>5. r \in Nat /\ R <= expire[t] - now
        BY ZenonT(60), <2>4, Numbers, Division
    <2> HIDE DEF r
    <2>6. S <= R /\ R \in Nat
        BY Zenon, <2>2, <2>5, Numbers, Scale
    <2> HIDE DEF S, R
    <2> QED BY <1>3, <2>1, <2>4, <2>5, <2>6
<1>13. EveryTimerInOneSlot'
    <2> HIDE DEF H
    <2>1. Turned \in [WheelSlots -> SUBSET Timer] /\ Apart(Turned)
        BY Zenon, <1>2, TurnedFacts
    <2>2. m_size' = Cardinality(InWheel(wheel')) /\ m_size' \in Nat
        BY Zenon, <1>0, <1>2, TurnSize
    <2>3. state' \in [Timer -> {"new", "set", "refused", "handled"}]
        BY Zenon, <1>0, <1>2 DEF ManagerTypeOK
    <2>4. m_currentTick' \in Nat
        BY <1>0, <1>3
    <2>5. ManagerTypeOK'
        BY Zenon, <1>0, <1>2, <1>5, <2>1, <2>2, <2>3, <2>4 DEF ManagerTypeOK
    <2>6. \A t \in Timer : state'[t] = "set" => t \in InWheel(wheel') \cup cancelled'
        <3>1. \A t \in Timer : state[t] = "set" => t \in InWheel(wheel) \cup cancelled
            BY Zenon, <1>1 DEF EveryTimerInOneSlot
        <3> QED BY Zenon, <1>0, <1>8, <1>10, <1>12, <3>1
    <2> QED BY Zenon, <1>0, <2>1, <2>2, <2>5, <2>6 DEF EveryTimerInOneSlot, Apart
<1>14. ManagerLag'
    <2> DEFINE D == (m_currentTick + 1) * m_tickDuration
               F == (m_currentTick + 1 + 1) * m_tickDuration
    <2>1. D = C + m_tickDuration /\ D \in Nat /\ F \in Nat /\ D <= F
        BY <1>3, Numbers
    <2>2. now < m_startTime + D + MaxLag
        BY Zenon, <1>0, <1>1 DEF ManagerLag, BehindBy
    <2>3. ticking' => sinceTick' = 0
        BY Zenon, <1>0, <1>1 DEF ManagerLag
    <2> HIDE DEF C, D, F, H
    <2>4. m_startTime + D <= now + m_tickDuration /\ now < m_startTime + F + MaxLag
        BY <1>3, <1>4, <2>1, <2>2, Numbers
    <2>5. BehindBy(MaxLag)'
        BY Zenon, <1>0, <2>4 DEF BehindBy, F
    <2> QED BY Zenon, <1>0, <2>3, <2>4, <2>5 DEF ManagerLag, D
<1> QED BY Zenon, <1>5, <1>6, <1>7, <1>9, <1>11, <1>13, <1>14 DEF ManagerInv

(* tick() has caught up, or has emptied the wheel and sets the clock back. *)
LEMMA TickReturnsKeeps ==
    ASSUME WheelFacts, ManagerInv, TickReturns
    PROVE  ManagerInv'
<1>0. /\ ticking /\ (m_size = 0 \/ m_currentTick > Elapsed) /\ ticking' = FALSE
      /\ m_startTime' = IF m_size = 0 THEN now ELSE m_startTime
      /\ m_currentTick' = IF m_size = 0 THEN 0 ELSE m_currentTick
      /\ UNCHANGED <<now, wheel, m_size, sinceTick, expire, state, cancelled, early, behind>>
    BY Zenon DEF TickReturns
<1>1. EveryTimerInOneSlot /\ WheelHoldsSet /\ InRange /\ ManagerLag /\ Reached(m_tickDuration - 1)
      /\ NearlyDue /\ HardlyEarly
    BY Zenon DEF ManagerInv
<1>2. ManagerTypeOK
    BY Zenon, <1>1 DEF EveryTimerInOneSlot
<1>3. ManagerTypeOK'
    <2>0. now \in Nat /\ m_startTime \in 0..now /\ m_currentTick \in Nat
        BY <1>2 DEF ManagerTypeOK
    <2>1. m_startTime' \in 0..now /\ m_currentTick' \in Nat
        BY <1>0, <2>0
    <2>2. UNCHANGED <<now, wheel, m_size, sinceTick, expire, state, cancelled, early, behind>>
        BY Zenon, <1>0
    <2> QED BY Zenon, <1>0, <1>2, <2>1, <2>2 DEF ManagerTypeOK
<1>4. EveryTimerInOneSlot'
    BY Zenon, <1>0, <1>1, <1>3 DEF EveryTimerInOneSlot
<1>5. WheelHoldsSet' /\ HardlyEarly' /\ InRange'
    BY Zenon, <1>0, <1>1 DEF WheelHoldsSet, HardlyEarly, InRange
<1>6. Reached(m_tickDuration - 1)' /\ NearlyDue'
    <2>1. CASE m_size = 0
        <3>1. \A s \in WheelSlots : wheel'[s] = {}
            BY Zenon, <1>0, <1>1, <2>1, ManagerTypes, EmptyReached
        <3> QED BY Zenon, <3>1 DEF Reached, NearlyDue
    <2>2. CASE m_size # 0
        <3>1. UNCHANGED <<m_startTime, m_currentTick, wheel, expire, cancelled, behind>>
            BY Zenon, <1>0, <2>2
        <3> QED BY Zenon, <1>1, <3>1 DEF Reached, NearlyDue
    <2> QED BY Zenon, <2>1, <2>2
<1>7. ManagerLag'
    <2>0. /\ now \in Nat /\ m_startTime \in Nat /\ m_currentTick \in Nat /\ m_size \in Nat
          /\ sinceTick' = 0
        BY Zenon, <1>0, <1>1, ManagerTypes DEF WheelTypes, ManagerLag
    <2>1. CASE m_size = 0
        <3>1. m_startTime' + m_currentTick' * m_tickDuration <= now' + m_tickDuration
            BY <1>0, <2>0, <2>1, Numbers
        <3>2. ~(m_size' > 0)
            BY <1>0, <2>1
        <3> QED BY Zenon, <1>0, <3>1, <3>2 DEF ManagerLag
    <2>2. CASE m_size # 0
        <3>1. UNCHANGED <<m_startTime, m_currentTick>> /\ Elapsed < m_currentTick
            BY Zenon, <1>0, <1>1, <2>0, <2>2, ManagerTypes, ElapsedFacts
        <3> DEFINE P == Elapsed * m_tickDuration
                   C == m_currentTick * m_tickDuration
                   D == (m_currentTick + 1) * m_tickDuration
        <3>2. now < m_startTime + P + m_tickDuration /\ P \in Nat /\ Elapsed \in Nat
            BY Zenon, <1>1, ManagerTypes, ElapsedFacts
        <3>3. P + m_tickDuration <= C /\ C \in Nat
            BY Zenon, <2>0, <3>1, <3>2, Numbers, Scale
        <3>4. D = C + m_tickDuration
            BY <2>0, Numbers
        <3>5. m_startTime + C <= now + m_tickDuration
            BY Zenon, <1>1 DEF ManagerLag
        <3> HIDE DEF P, C, D
        <3>6. now < m_startTime + D + 0
            BY <2>0, <3>2, <3>3, <3>4, Numbers
        <3>7. BehindBy(0)'
            BY Zenon, <1>0, <3>1, <3>6 DEF BehindBy, D
        <3> QED BY Zenon, <1>0, <2>0, <3>1, <3>5, <3>7 DEF ManagerLag, C
    <2> QED BY Zenon, <2>1, <2>2
<1> QED BY Zenon, <1>4, <1>5, <1>6, <1>7 DEF ManagerInv

(* A timer is cancelled where it is. *)
LEMMA CancelSetKeeps ==
    ASSUME WheelFacts, ManagerInv, NEW t \in Timer, CancelSet(t)
    PROVE  ManagerInv'
<1>0. /\ cancelled' = cancelled \cup {t}
      /\ UNCHANGED <<now, m_startTime, m_currentTick, wheel, m_size, ticking, sinceTick,
                     expire, state, early, behind>>
    BY Zenon DEF CancelSet
<1>1. EveryTimerInOneSlot /\ WheelHoldsSet /\ InRange /\ ManagerLag /\ Reached(m_tickDuration - 1)
      /\ NearlyDue /\ HardlyEarly
    BY Zenon DEF ManagerInv
<1>2. cancelled \subseteq cancelled' /\ (cancelled \subseteq Timer => cancelled' \subseteq Timer)
    BY Zenon, <1>0
<1>3. EveryTimerInOneSlot'
    <2>1. ManagerTypeOK'
        BY Zenon, <1>0, <1>1, <1>2 DEF EveryTimerInOneSlot, ManagerTypeOK
    <2>2. \A u \in Timer : state'[u] = "set" => u \in InWheel(wheel') \cup cancelled'
        BY Zenon, <1>0, <1>1, <1>2 DEF EveryTimerInOneSlot
    <2> QED BY Zenon, <1>0, <1>1, <2>1, <2>2 DEF EveryTimerInOneSlot
<1>4. WheelHoldsSet' /\ HardlyEarly' /\ InRange' /\ NearlyDue' /\ ManagerLag'
    BY Zenon, <1>0, <1>1 DEF WheelHoldsSet, HardlyEarly, InRange, NearlyDue, ManagerLag, BehindBy
<1>5. Reached(m_tickDuration - 1)'
    BY Zenon, <1>0, <1>1, <1>2 DEF Reached
<1> QED BY Zenon, <1>3, <1>4, <1>5 DEF ManagerInv

(* push rebases an empty wheel to the clock, and leaves a wheel with timers alone. *)
LEMMA RebaseFacts ==
    ASSUME WheelFacts, ManagerInv, ~ticking, Rebased
    PROVE  /\ m_startTime' \in 0..now /\ m_currentTick' \in Nat
           /\ m_startTime' + m_currentTick' * m_tickDuration <= now + m_tickDuration
           /\ now < m_startTime' + (m_currentTick' + 1) * m_tickDuration + sinceTick
           /\ InWheel(wheel) # {} => UNCHANGED <<m_startTime, m_currentTick>>
<1>1. EveryTimerInOneSlot /\ ManagerLag
    BY Zenon DEF ManagerInv
<1>2. /\ now \in Nat /\ m_startTime \in Nat /\ m_currentTick \in Nat /\ m_size \in Nat
      /\ sinceTick \in Nat /\ m_startTime <= now /\ (m_size = 0 <=> InWheel(wheel) = {})
    BY Zenon, <1>1, ManagerTypes DEF WheelTypes
<1>3. CASE m_size = 0
    <2>1. m_startTime' = now /\ m_currentTick' = 0
        BY Zenon, <1>3 DEF Rebased
    <2>2. 0 * m_tickDuration = 0 /\ (0 + 1) * m_tickDuration = m_tickDuration
        BY Numbers
    <2>3. now < now + m_tickDuration + sinceTick
        BY <1>2, Numbers
    <2> QED BY <1>2, <1>3, <2>1, <2>2, <2>3, Numbers
<1>4. CASE m_size # 0
    <2>1. UNCHANGED <<m_startTime, m_currentTick>>
        BY Zenon, <1>4 DEF Rebased
    <2>2. m_size > 0
        BY <1>2, <1>4
    <2>3. /\ m_startTime + m_currentTick * m_tickDuration <= now + m_tickDuration
          /\ now < m_startTime + (m_currentTick + 1) * m_tickDuration + sinceTick
        BY Zenon, <1>1, <2>2 DEF ManagerLag, BehindBy
    <2> QED BY <1>2, <2>1, <2>3
<1> QED BY Zenon, <1>3, <1>4

(* The part of push() that the three outcomes share. *)
Pushing(t, d) ==
    /\ ManagerInv /\ ~ticking /\ state[t] = "new" /\ Rebased
    /\ expire' = [expire EXCEPT ![t] = now + d]
    /\ UNCHANGED <<now, ticking, sinceTick, cancelled>>

(* The timers that wait are where they were. *)
LEMMA PushingFacts ==
    ASSUME WheelFacts, NEW t \in Timer, NEW d \in Nat, Pushing(t, d)
    PROVE  /\ t \notin InWheel(wheel) /\ expire' \in [Timer -> Nat] /\ expire'[t] = now + d
           /\ \A u \in Timer \ {t} : expire'[u] = expire[u]
           /\ m_startTime' \in Nat /\ m_startTime' <= now /\ m_currentTick' \in Nat
           /\ now \in Nat /\ sinceTick \in Nat
           /\ \A s \in WheelSlots : \A u \in wheel[s] \ cancelled : \E v \in Nat \ {0} :
                  /\ m_currentTick' <= v /\ Visits(v, s)
                  /\ m_startTime' + v * m_tickDuration <= expire'[u] + (m_tickDuration - 1)
           /\ \A s \in WheelSlots : \A u \in wheel[s] \ behind : s[1] = 1 => \E v \in Nat :
                  /\ m_currentTick' <= v /\ v < m_currentTick' + Span[1] /\ SlotAt(1, v) = s
                  /\ expire'[u] < m_startTime' + (v + 2) * m_tickDuration + MaxLag
<1>0. /\ EveryTimerInOneSlot /\ WheelHoldsSet /\ Reached(m_tickDuration - 1) /\ NearlyDue
      /\ state[t] = "new" /\ expire' = [expire EXCEPT ![t] = now + d] /\ ~ticking /\ Rebased
      /\ ManagerInv
    BY Zenon DEF ManagerInv, Pushing
<1>1. /\ now \in Nat /\ sinceTick \in Nat /\ expire \in [Timer -> Nat]
      /\ wheel \in [WheelSlots -> SUBSET Timer]
    BY Zenon, <1>0, ManagerTypes DEF WheelTypes
<1>2. t \notin InWheel(wheel)
    BY Zenon, <1>0 DEF WheelHoldsSet
<1>3. /\ expire' \in [Timer -> Nat] /\ expire'[t] = now + d
      /\ \A u \in Timer \ {t} : expire'[u] = expire[u]
    BY <1>0, <1>1
<1>4. /\ m_startTime' \in 0..now /\ m_currentTick' \in Nat
      /\ InWheel(wheel) # {} => UNCHANGED <<m_startTime, m_currentTick>>
    BY Zenon, <1>0, RebaseFacts
<1>5. ASSUME NEW s \in WheelSlots, NEW u \in wheel[s]
      PROVE  UNCHANGED <<m_startTime, m_currentTick>> /\ expire'[u] = expire[u]
    <2>1. u \in InWheel(wheel) /\ u \in Timer
        BY Zenon, <1>1, <1>5, InWheelDef
    <2> QED BY Zenon, <1>2, <1>3, <1>4, <2>1
<1>6. \A s \in WheelSlots : \A u \in wheel[s] \ cancelled : \E v \in Nat \ {0} :
          /\ m_currentTick' <= v /\ Visits(v, s)
          /\ m_startTime' + v * m_tickDuration <= expire'[u] + (m_tickDuration - 1)
    BY Zenon, <1>0, <1>5 DEF Reached
<1>7. \A s \in WheelSlots : \A u \in wheel[s] \ behind : s[1] = 1 => \E v \in Nat :
          /\ m_currentTick' <= v /\ v < m_currentTick' + Span[1] /\ SlotAt(1, v) = s
          /\ expire'[u] < m_startTime' + (v + 2) * m_tickDuration + MaxLag
    BY Zenon, <1>0, <1>5 DEF NearlyDue
<1>8. m_startTime' \in Nat /\ m_startTime' <= now
    BY <1>1, <1>4
<1> QED BY Zenon, <1>1, <1>2, <1>3, <1>4, <1>6, <1>7, <1>8

(* A timer that is handled or refused at once leaves the wheel as it is. *)
LEMMA PushNotSetKeeps ==
    ASSUME WheelFacts, NEW t \in Timer, NEW d \in Nat, Pushing(t, d),
           state' = [state EXCEPT ![t] = "handled"] \/ state' = [state EXCEPT ![t] = "refused"],
           HardlyEarly', early' \in [Timer -> Nat], UNCHANGED <<wheel, m_size, behind>>
    PROVE  ManagerInv'
<1>0. /\ EveryTimerInOneSlot /\ WheelHoldsSet /\ InRange /\ ManagerLag
      /\ ManagerInv /\ ~ticking /\ Rebased /\ UNCHANGED <<now, ticking, sinceTick, cancelled>>
    BY Zenon DEF ManagerInv, Pushing
<1>1. /\ t \notin InWheel(wheel) /\ expire' \in [Timer -> Nat] /\ m_currentTick' \in Nat
      /\ \A u \in Timer \ {t} : expire'[u] = expire[u]
    BY Zenon, PushingFacts
<1>2. /\ m_startTime' \in 0..now
      /\ m_startTime' + m_currentTick' * m_tickDuration <= now + m_tickDuration
      /\ now < m_startTime' + (m_currentTick' + 1) * m_tickDuration + sinceTick
    BY Zenon, <1>0, RebaseFacts
<1>3. ManagerTypeOK /\ InWheel(wheel) \subseteq Timer
    BY Zenon, <1>0, ManagerTypes DEF EveryTimerInOneSlot
<1>4. /\ state' \in [Timer -> {"new", "set", "refused", "handled"}]
      /\ \A u \in Timer \ {t} : state'[u] = state[u]
      /\ state'[t] # "set"
    BY Zenon, <1>3 DEF ManagerTypeOK
<1>5. ManagerTypeOK'
    BY Zenon, <1>0, <1>1, <1>2, <1>3, <1>4 DEF ManagerTypeOK
<1>6. EveryTimerInOneSlot'
    <2>1. \A u \in Timer : state'[u] = "set" => u \in InWheel(wheel') \cup cancelled'
        BY Zenon, <1>0, <1>4 DEF EveryTimerInOneSlot
    <2> QED BY Zenon, <1>0, <1>5, <2>1 DEF EveryTimerInOneSlot
<1>7. WheelHoldsSet'
    BY Zenon, <1>0, <1>1, <1>3, <1>4 DEF WheelHoldsSet
<1>8. InRange'
    BY Zenon, <1>0, <1>1, <1>4 DEF InRange
<1>9. Reached(m_tickDuration - 1)' /\ NearlyDue'
    BY Zenon, <1>0, PushingFacts DEF Reached, NearlyDue
<1>10. ManagerLag'
    BY Zenon, <1>0, <1>2 DEF ManagerLag, BehindBy
<1> QED BY Zenon, <1>6, <1>7, <1>8, <1>9, <1>10 DEF ManagerInv

(* The rounded delay is a tick at least, and the delay and less than a tick more. *)
LEMMA DelayFacts ==
    ASSUME WheelFacts, NEW d \in Nat \ {0}
    PROVE  /\ DelayTicks(d) \in Nat \ {0} /\ DelayTicks(d) * m_tickDuration \in Nat
           /\ d <= DelayTicks(d) * m_tickDuration
           /\ DelayTicks(d) * m_tickDuration <= d + m_tickDuration - 1
<1> DEFINE x == d + m_tickDuration - 1
           q == DelayTicks(d)
           p == q * m_tickDuration
<1>1. x \in Nat /\ x = d + m_tickDuration - 1 /\ q = x \div m_tickDuration
    BY Numbers DEF DelayTicks
<1> HIDE DEF x
<1>2. q \in Nat /\ p <= x /\ x < p + m_tickDuration
    BY ZenonT(60), <1>1, Numbers, Division
<1> HIDE DEF q
<1>3. p \in Nat /\ (q = 0 => p = 0)
    BY <1>2, Numbers
<1> HIDE DEF p
<1>4. d <= p /\ p <= d + m_tickDuration - 1 /\ q # 0
    BY <1>1, <1>2, <1>3, Numbers
<1> QED BY Zenon, <1>2, <1>3, <1>4 DEF p, q

(* push() into a slot. *)
Setting(t, d) == Pushing(t, d) /\ DelayTicks(d) < MaxSpan /\ PushSet(t, DelayTicks(d))

(* A timer put where its delay says is reached in time, and not a lap early unless it
   was put behind. *)
LEMMA PushSetKeeps ==
    ASSUME WheelFacts, NEW t \in Timer, NEW d \in Nat \ {0}, Setting(t, d)
    PROVE  ManagerInv'
<1>p. PICK start, cur : start = m_startTime' /\ cur = m_currentTick'
    BY Zenon
<1> DEFINE k == DelayTicks(d)
           E == (now - start) \div m_tickDuration
           slot == Position(k, E + k)
           K == k * m_tickDuration
           P == E * m_tickDuration
<1>0. /\ EveryTimerInOneSlot /\ WheelHoldsSet /\ InRange /\ HardlyEarly
      /\ ManagerInv /\ ~ticking /\ Rebased /\ UNCHANGED <<now, ticking, sinceTick, cancelled>>
    BY Zenon DEF ManagerInv, Pushing, Setting
<1>1. /\ wheel' = [wheel EXCEPT ![slot] = @ \cup {t}]
      /\ behind' = IF slot[1] = 1 /\ E + k >= cur + Span[1]
                   THEN behind \cup {t} ELSE behind
      /\ m_size' = m_size + 1 /\ state' = [state EXCEPT ![t] = "set"] /\ UNCHANGED early
    BY Zenon, <1>p DEF PushSet, Setting
<1>2. /\ k \in Nat \ {0} /\ K \in Nat /\ d <= K /\ K <= d + m_tickDuration - 1 /\ k < MaxSpan
    BY Zenon, DelayFacts DEF Setting
<1> HIDE DEF k
<1>3. /\ t \notin InWheel(wheel) /\ expire' \in [Timer -> Nat] /\ expire'[t] = now + d
      /\ \A u \in Timer \ {t} : expire'[u] = expire[u]
    BY Zenon, <1>p, PushingFacts DEF Setting
<1>n. /\ start \in Nat /\ start <= now /\ cur \in Nat
      /\ now \in Nat /\ sinceTick \in Nat
    BY Zenon, <1>p, PushingFacts DEF Setting
<1>4. E \in Nat /\ P <= now - start /\ now - start < P + m_tickDuration
    <2>1. now - start \in Nat
        BY <1>n
    <2> QED BY ZenonT(60), <2>1, Numbers, Division
<1> HIDE DEF E
<1>5. /\ P \in Nat /\ (E + k) * m_tickDuration = P + K
      /\ (E + k + 2) * m_tickDuration = P + K + 2 * m_tickDuration
    BY <1>2, <1>4, Numbers
<1>6. cur <= E + 1
    <2> DEFINE C == cur * m_tickDuration
    <2>0. start + C <= now + m_tickDuration
        BY Zenon, <1>0, <1>p, RebaseFacts
    <2>1. start + C <= now + m_tickDuration /\ C \in Nat
        BY <1>n, <2>0, Numbers
    <2>2. (E + 1) * m_tickDuration = P + m_tickDuration
        BY <1>4, Numbers
    <2>3. E + 1 < cur => P + m_tickDuration + m_tickDuration <= C
        BY <1>n, <1>4, <2>2, Numbers, Scale
    <2> HIDE DEF C, P
    <2> QED BY <1>n, <1>4, <1>5, <2>1, <2>3, Numbers
<1>7. /\ slot \in WheelSlots
      /\ \E v \in Nat \ {0} : E < v /\ v <= E + k /\ Visits(v, slot)
      /\ slot[1] = 1 => k < Span[1] /\ slot = SlotAt(1, E + k)
    BY ZenonT(60), <1>2, <1>4, Placement
<1> HIDE DEF slot
<1>8. /\ wheel \in [WheelSlots -> SUBSET Timer] /\ Apart(wheel) /\ ManagerTypeOK
      /\ m_size \in Nat /\ InWheel(wheel) \subseteq Timer /\ m_size = Cardinality(InWheel(wheel))
    BY Zenon, <1>0, ManagerTypes DEF EveryTimerInOneSlot, WheelTypes
<1>9. /\ wheel' \in [WheelSlots -> SUBSET Timer]
      /\ \A s \in WheelSlots : wheel'[s] = IF s = slot THEN wheel[s] \cup {t} ELSE wheel[s]
    BY ZenonT(60), <1>1, <1>7, <1>8
<1>10. \A s \in WheelSlots : t \notin wheel[s]
    BY Zenon, <1>3, InWheelDef
<1>11. Apart(wheel')
    BY <1>8, <1>9, <1>10 DEF Apart
<1>12. InWheel(wheel') = InWheel(wheel) \cup {t}
    <2>1. \A u : u \in InWheel(wheel') <=> \E s \in WheelSlots : u \in wheel'[s]
        BY Zenon, InWheelDef
    <2>2. \A u : u \in InWheel(wheel) <=> \E s \in WheelSlots : u \in wheel[s]
        BY Zenon, InWheelDef
    <2>3. \A s \in WheelSlots : \A u : u \in wheel'[s] <=> (u \in wheel[s] \/ (s = slot /\ u = t))
        BY Zenon, <1>9
    <2>4. ASSUME NEW u \in InWheel(wheel') PROVE u \in InWheel(wheel) \/ u = t
        <3>1. PICK s \in WheelSlots : u \in wheel'[s]
            BY Zenon, <2>1, <2>4
        <3> QED BY Zenon, <2>2, <2>3, <3>1
    <2>5. \A u : u \in InWheel(wheel) => u \in InWheel(wheel')
        BY Zenon, <2>1, <2>2, <2>3
    <2>6. t \in InWheel(wheel')
        BY Zenon, <1>7, <2>1, <2>3
    <2> QED BY Zenon, <2>4, <2>5, <2>6
<1>13. m_size' = Cardinality(InWheel(wheel'))
    <2>1. Cardinality({t}) = 1
        BY Zenon DEF WheelFacts, SmallSizes
    <2>2. InWheel(wheel) \cap {t} = {}
        BY Zenon, <1>3
    <2>3. /\ Cardinality(InWheel(wheel) \cup {t}) = Cardinality(InWheel(wheel)) + Cardinality({t})
        BY <1>8, <2>2, Sizes
    <2> QED BY ZenonT(60), <1>1, <1>8, <1>12, <2>1, <2>3
<1>14. behind \subseteq behind' /\ behind' \subseteq Timer
    BY Zenon, <1>1, <1>8 DEF ManagerTypeOK
<1>15. /\ state' \in [Timer -> {"new", "set", "refused", "handled"}] /\ state'[t] = "set"
       /\ \A u \in Timer \ {t} : state'[u] = state[u]
    BY Zenon, <1>1, <1>8 DEF ManagerTypeOK
<1>16. start \in 0..now /\ m_size' \in Nat
    BY <1>1, <1>n, <1>8
<1>17. EveryTimerInOneSlot'
    <2>1. ManagerTypeOK'
        BY Zenon, <1>p, <1>0, <1>1, <1>3, <1>n, <1>8, <1>9, <1>14, <1>15, <1>16 DEF ManagerTypeOK
    <2>2. \A u \in Timer : state'[u] = "set" => u \in InWheel(wheel') \cup cancelled'
        BY Zenon, <1>0, <1>12, <1>15 DEF EveryTimerInOneSlot
    <2> QED BY Zenon, <1>11, <1>13, <2>1, <2>2 DEF EveryTimerInOneSlot, Apart
<1>18. WheelHoldsSet'
    BY Zenon, <1>0, <1>8, <1>12, <1>15 DEF WheelHoldsSet
<1>19. InRange'
    <2> DEFINE S == MaxSpan * m_tickDuration
    <2>1. K < S /\ S \in Nat
        BY <1>2, Numbers, Scale
    <2> HIDE DEF S, K
    <2>2. now + d < now + S
        BY <1>2, <1>n, <2>1
    <2> QED BY Zenon, <1>0, <1>3, <1>15, <2>2 DEF InRange, S
<1>20. ManagerLag'
    <2>1. /\ start + cur * m_tickDuration <= now + m_tickDuration
          /\ now < start + (cur + 1) * m_tickDuration + sinceTick
        BY Zenon, <1>0, <1>p, RebaseFacts
    <2> QED BY Zenon, <1>p, <1>0, <2>1 DEF ManagerLag, BehindBy
<1>21. Reached(m_tickDuration - 1)'
    <2>1. PICK v \in Nat \ {0} : E < v /\ v <= E + k /\ Visits(v, slot)
        BY Zenon, <1>7
    <2>2. cur <= v
        BY <1>n, <1>4, <1>6, <2>1
    <2>3. start + v * m_tickDuration <= expire'[t] + (m_tickDuration - 1)
        <3> DEFINE V == v * m_tickDuration
        <3>1. V <= P + K /\ V \in Nat
            <4>1. E + k \in Nat
                BY <1>2, <1>4
            <4> QED BY <1>5, <2>1, <4>1, Numbers, Scale
        <3> HIDE DEF V, P, K
        <3>2. start + V <= now + d + (m_tickDuration - 1)
            BY <1>2, <1>n, <1>4, <1>5, <3>1, Numbers
        <3> QED BY Zenon, <1>3, <3>2 DEF V
    <2>4. \A s \in WheelSlots : \A u \in wheel[s] \ cancelled : \E x \in Nat \ {0} :
              /\ cur <= x /\ Visits(x, s)
              /\ start + x * m_tickDuration <= expire'[u] + (m_tickDuration - 1)
        BY Zenon, <1>p, PushingFacts DEF Setting
    <2>5. ASSUME NEW s \in WheelSlots, NEW u \in wheel'[s], u \notin cancelled'
          PROVE  \E x \in Nat \ {0} :
                    /\ cur <= x /\ Visits(x, s)
                    /\ start + x * m_tickDuration <= expire'[u] + (m_tickDuration - 1)
        <3>1. u \in wheel[s] \/ (s = slot /\ u = t)
            BY Zenon, <1>9, <2>5
        <3> QED BY Zenon, <1>0, <2>1, <2>2, <2>3, <2>4, <2>5, <3>1
    <2> QED BY Zenon, <1>p, <2>5 DEF Reached
<1>22. NearlyDue'
    <2>1. \A s \in WheelSlots : \A u \in wheel[s] \ behind : s[1] = 1 => \E v \in Nat :
              /\ cur <= v /\ v < cur + Span[1] /\ SlotAt(1, v) = s
              /\ expire'[u] < start + (v + 2) * m_tickDuration + MaxLag
        BY Zenon, <1>p, PushingFacts DEF Setting
    <2>2. ASSUME slot[1] = 1, t \notin behind'
          PROVE  /\ E + k \in Nat /\ cur <= E + k /\ E + k < cur + Span[1]
                 /\ SlotAt(1, E + k) = slot
                 /\ expire'[t] < start + (E + k + 2) * m_tickDuration + MaxLag
        <3>1. E + k \in Nat /\ cur <= E + k
            BY <1>2, <1>n, <1>4, <1>6
        <3>2. ~(E + k >= cur + Span[1])
            BY Zenon, <1>1, <2>2
        <3>3. E + k < cur + Span[1]
            BY <1>n, <3>1, <3>2, Numbers
        <3> HIDE DEF P, K
        <3>4. now + d < start + (P + K + 2 * m_tickDuration) + MaxLag
            BY <1>2, <1>n, <1>4, <1>5, Numbers
        <3>5. expire'[t] < start + (E + k + 2) * m_tickDuration + MaxLag
            BY Zenon, <1>3, <1>5, <3>4
        <3> QED BY Zenon, <1>7, <2>2, <3>1, <3>3, <3>5
    <2>3. ASSUME NEW s \in WheelSlots, NEW u \in wheel'[s], u \notin behind', s[1] = 1
          PROVE  \E v \in Nat :
              /\ cur <= v /\ v < cur + Span[1] /\ SlotAt(1, v) = s
              /\ expire'[u] < start + (v + 2) * m_tickDuration + MaxLag
        <3>1. (u \in wheel[s] /\ u \notin behind) \/ (s = slot /\ u = t)
            BY Zenon, <1>9, <1>14, <2>3
        <3> QED BY Zenon, <2>1, <2>2, <2>3, <3>1
    <2> QED BY Zenon, <1>p, <2>3 DEF NearlyDue
<1>23. HardlyEarly'
    BY Zenon, <1>0, <1>1, <1>14 DEF HardlyEarly
<1> QED BY Zenon, <1>17, <1>18, <1>19, <1>20, <1>21, <1>22, <1>23 DEF ManagerInv

(* push() puts a timer into the wheel, or refuses it. *)
LEMMA PushKeeps ==
    ASSUME WheelFacts, ManagerInv, NEW t \in Timer, NEW d \in Delay, Push(t, d)
    PROVE  ManagerInv'
<1>0. d \in Nat /\ Pushing(t, d)
    BY Zenon, Numbers DEF Push, Pushing
<1>1. /\ now \in Nat /\ early \in [Timer -> Nat] /\ HardlyEarly
      /\ expire' \in [Timer -> Nat] /\ expire'[t] = now + d
    <2>1. early \in [Timer -> Nat] /\ HardlyEarly
        BY Zenon DEF ManagerInv, EveryTimerInOneSlot, ManagerTypeOK
    <2> QED BY Zenon, <1>0, <2>1, PushingFacts
<1>2. CASE d = 0 /\ PushDue(t)
    <2>1. /\ HandleTimeouts({t}, expire') /\ state' = [state EXCEPT ![t] = "handled"]
          /\ UNCHANGED <<wheel, m_size, behind>>
        BY Zenon, <1>2 DEF PushDue
    <2>2. expire'[t] < now + MaxLag + 2 * m_tickDuration
        BY <1>1, <1>2, Numbers
    <2>3. HardlyEarly' /\ early' \in [Timer -> Nat]
        <3>1. \A u \in {t} \ behind : u \in Timer =>
                  expire'[u] < now + MaxLag + 2 * m_tickDuration
            BY Zenon, <2>2
        <3>2. behind \subseteq behind'
            BY Zenon, <2>1
        <3> QED BY Zenon, <1>1, <2>1, <3>1, <3>2, HandlesHardlyEarly
    <2> QED BY Zenon, <1>0, <2>1, <2>3, PushNotSetKeeps
<1>3. CASE PushRefused(t)
    <2>1. /\ state' = [state EXCEPT ![t] = "refused"]
          /\ UNCHANGED <<wheel, m_size, early, behind>>
        BY Zenon, <1>3 DEF PushRefused
    <2>2. HardlyEarly' /\ early' \in [Timer -> Nat]
        BY Zenon, <1>1, <2>1 DEF HardlyEarly
    <2> QED BY Zenon, <1>0, <2>1, <2>2, PushNotSetKeeps
<1>4. CASE d > 0 /\ DelayTicks(d) < MaxSpan /\ PushSet(t, DelayTicks(d))
    <2>1. d \in Nat \ {0}
        BY <1>0, <1>4
    <2> QED BY Zenon, <1>0, <1>4, <2>1, PushSetKeeps DEF Setting
<1> QED BY Zenon, <1>2, <1>3, <1>4 DEF Push

(* Every step keeps the invariant. *)
LEMMA ManagerStep ==
    ASSUME WheelFacts, ManagerInv, [ManagerNext]_managerVars
    PROVE  ManagerInv'
<1>1. CASE UNCHANGED managerVars
    <2>1. UNCHANGED <<now, m_startTime, m_currentTick, wheel, m_size, ticking, sinceTick,
                      expire, state, cancelled, early, behind>>
        BY Zenon, <1>1 DEF managerVars
    <2>2. EveryTimerInOneSlot' /\ WheelHoldsSet' /\ InRange'
        BY Zenon, <2>1 DEF ManagerInv, EveryTimerInOneSlot, ManagerTypeOK, WheelHoldsSet, InRange
    <2>3. ManagerLag' /\ Reached(m_tickDuration - 1)' /\ NearlyDue' /\ HardlyEarly'
        BY Zenon, <2>1 DEF ManagerInv, ManagerLag, BehindBy, Reached, NearlyDue, HardlyEarly
    <2> QED BY Zenon, <2>2, <2>3 DEF ManagerInv
<1>2. CASE TimePasses \/ TickBegins \/ TickTurns \/ TickReturns
    BY Zenon, <1>2, TimePassesKeeps, TickBeginsKeeps, TickTurnsKeeps, TickReturnsKeeps
<1>3. ASSUME NEW t \in Timer, CancelSet(t) \/ \E d \in Delay : Push(t, d) PROVE ManagerInv'
    BY Zenon, <1>3, CancelSetKeeps, PushKeeps
<1> QED BY Zenon, <1>1, <1>2, <1>3 DEF ManagerNext

(* Reached in time and hardly behind is punctual. *)
LEMMA ManagerPunctual ==
    ASSUME WheelFacts, ManagerInv
    PROVE  TickIsPunctual
<1>0. EveryTimerInOneSlot /\ ManagerLag /\ Reached(m_tickDuration - 1) /\ HardlyEarly
    BY Zenon DEF ManagerInv
<1>1. ASSUME ~ticking, sinceTick = 0, NEW t \in Timer, state[t] = "set", t \notin cancelled
      PROVE  expire[t] + 2 * m_tickDuration > now
    <2>1. t \in InWheel(wheel)
        BY Zenon, <1>0, <1>1 DEF EveryTimerInOneSlot
    <2>2. PICK s \in WheelSlots : t \in wheel[s]
        BY Zenon, <2>1, InWheelDef
    <2>3. PICK v \in Nat \ {0} :
              /\ m_currentTick <= v
              /\ m_startTime + v * m_tickDuration <= expire[t] + (m_tickDuration - 1)
        BY Zenon, <1>0, <1>1, <2>2 DEF Reached
    <2>4. /\ m_size > 0 /\ now \in Nat /\ m_startTime \in Nat /\ m_currentTick \in Nat
          /\ expire[t] \in Nat
        BY <1>0, <1>1, <2>1, ManagerTypes DEF WheelTypes
    <2> DEFINE D == (m_currentTick + 1) * m_tickDuration
               C == m_currentTick * m_tickDuration
               V == v * m_tickDuration
    <2>5. now < m_startTime + D + 0
        BY Zenon, <1>0, <1>1, <2>4 DEF ManagerLag, BehindBy
    <2>6. C <= V /\ C \in Nat /\ V \in Nat /\ D = C + m_tickDuration
        BY <2>3, <2>4, Numbers, Scale
    <2> HIDE DEF C, D, V
    <2> QED BY <2>3, <2>4, <2>5, <2>6, Numbers DEF V
<1> QED BY Zenon, <1>0, <1>1 DEF TickIsPunctual, NoneOverdueBy


INSTANCE FiniteSetTheorems

(* A nonempty set of naturals has a least member. *)
LEMMA Least ==
    ASSUME NEW T \in SUBSET Nat, T # {}
    PROVE  \E x \in T : \A y \in T : x <= y
<1> DEFINE R == OpToRel(<, Nat)
<1>1. IsWellFoundedOn(R, Nat)
    BY ZenonT(60), NatLessThanWellFounded
<1>2. \A x, y \in Nat : <<y, x>> \in R <=> y < x
    BY Zenon DEF OpToRel
<1> HIDE DEF R
<1>3. \E x \in T : \A y \in T : ~(<<y, x>> \in R)
    BY ZenonT(60), <1>1, WFMin
<1>4. PICK x \in T : \A y \in T : ~(<<y, x>> \in R)
    BY Zenon, <1>3
<1>5. \A y \in T : x <= y
    <2> TAKE y \in T
    <2>1. x \in Nat /\ y \in Nat /\ ~(y < x)
        BY ZenonT(60), <1>2, <1>4
    <2> QED BY <2>1
<1> QED BY Zenon, <1>5

Spanning(f, n) == f = [k \in 0..n |-> IF k = 0 THEN 1 ELSE f[k - 1] * WheelSize[k]]

(* The spans of the first n levels can be computed, for every n. *)
LEMMA SpanExists == \A n \in 0..Len(WheelSize) : \E f : Spanning(f, n)
<1>0. Len(WheelSize) \in Nat /\ \A k \in 1..Len(WheelSize) : WheelSize[k] \in Nat \ {0, 1}
    BY WheelAssumption
<1> DEFINE T == {n \in 0..Len(WheelSize) : ~\E f : Spanning(f, n)}
<1>1. SUFFICES ASSUME T # {} PROVE FALSE
    OBVIOUS
<1>2. PICK x \in T : \A y \in T : x <= y
    <2>1. T \in SUBSET Nat
        BY <1>0
    <2> HIDE DEF T
    <2> QED BY Zenon, <1>1, <2>1, Least
<1>3. x # 0
    <2>1. Spanning([k \in 0..0 |-> 1], 0)
        BY DEF Spanning
    <2> QED BY Zenon, <2>1
<1>4. PICK f : Spanning(f, x - 1)
    <2>1. x - 1 \notin T /\ x - 1 \in 0..Len(WheelSize)
        BY <1>0, <1>2, <1>3
    <2> QED BY Zenon, <2>1
<1> DEFINE g == [k \in 0..x |-> IF k = x THEN f[x - 1] * WheelSize[x] ELSE f[k]]
<1>5. Spanning(g, x)
    <2>1. x \in Nat \ {0} /\ x \in 1..Len(WheelSize)
        BY <1>0, <1>2, <1>3
    <2>2. \A k \in 0..(x - 1) : f[k] = IF k = 0 THEN 1 ELSE f[k - 1] * WheelSize[k]
        BY Zenon, <1>4, <2>1 DEF Spanning
    <2>4. \A k \in 0..x : g[k] = IF k = 0 THEN 1 ELSE g[k - 1] * WheelSize[k]
        BY <2>1, <2>2
    <2> QED BY Zenon, <2>4 DEF Spanning
<1> QED BY Zenon, <1>2, <1>5

(* The spans are positive, and each is a multiple of the one before. *)
LEMMA SpansOrdered ==
    /\ Len(WheelSize) \in Nat /\ Len(WheelSize) > 1
    /\ Span[0] = 1
    /\ \A k \in 0..Len(WheelSize) : Span[k] \in Nat \ {0}
    /\ \A k \in Levels : /\ WheelSize[k] \in Nat \ {0, 1}
                         /\ Span[k] = Span[k - 1] * WheelSize[k]
                         /\ Span[k - 1] \in Nat \ {0} /\ Span[k] \in Nat \ {0}
<1>0. /\ Len(WheelSize) \in Nat /\ Len(WheelSize) > 1
      /\ \A k \in Levels : WheelSize[k] \in Nat \ {0, 1}
    BY WheelAssumption DEF Levels
<1>1. PICK f : Spanning(f, Len(WheelSize))
    BY <1>0, SpanExists
<1>2. Span = [k \in 0..Len(WheelSize) |-> IF k = 0 THEN 1 ELSE Span[k - 1] * WheelSize[k]]
    BY Zenon, <1>1 DEF Span, Spanning
<1>3. Span[0] = 1 /\ \A k \in Levels : Span[k] = Span[k - 1] * WheelSize[k]
    BY <1>0, <1>2 DEF Levels
<1> DEFINE T == {n \in 0..Len(WheelSize) : Span[n] \notin Nat \ {0}}
<1>4. T = {}
    <2>1. SUFFICES ASSUME T # {} PROVE FALSE
        OBVIOUS
    <2>2. T \in SUBSET Nat
        BY <1>0
    <2>3. PICK x \in T : \A y \in T : x <= y
        <3> HIDE DEF T
        <3> QED BY Zenon, <2>1, <2>2, Least
    <2>4. x \in Levels
        BY <1>0, <1>3, <2>3 DEF Levels
    <2>5. x - 1 \notin T /\ x - 1 \in 0..Len(WheelSize)
        BY <1>0, <2>3, <2>4 DEF Levels
    <2>6. Span[x - 1] \in Nat \ {0} /\ WheelSize[x] \in Nat \ {0}
        BY Zenon, <1>0, <2>4, <2>5
    <2>7. Span[x - 1] * WheelSize[x] \in Nat \ {0}
        BY <2>6
    <2> QED BY Zenon, <1>3, <2>3, <2>4, <2>7
<1>5. \A k \in 0..Len(WheelSize) : Span[k] \in Nat \ {0}
    BY Zenon, <1>4
<1>6. \A k \in Levels : k \in 0..Len(WheelSize) /\ k - 1 \in 0..Len(WheelSize)
    BY <1>0 DEF Levels
<1> QED BY Zenon, <1>0, <1>3, <1>5, <1>6

(* A delay below the span of the last level belongs to one of the levels. *)
LEMMA LevelsOrdered ==
    ASSUME NEW d \in Nat \ {0}, d < MaxSpan
    PROVE  \E k \in Levels : Span[k - 1] <= d /\ d < Span[k]
<1> DEFINE T == {n \in 0..Len(WheelSize) : d < Span[n]}
<1>1. T \in SUBSET Nat /\ Len(WheelSize) \in T
    BY SpansOrdered DEF MaxSpan
<1>2. PICK x \in T : \A y \in T : x <= y
    <2> HIDE DEF T
    <2> QED BY Zenon, <1>1, Least
<1>3. x \in Levels
    BY <1>2, SpansOrdered DEF Levels
<1>4. x - 1 \notin T /\ x - 1 \in 0..Len(WheelSize)
    BY <1>2, <1>3, SpansOrdered DEF Levels
<1>5. Span[x - 1] \in Nat /\ ~(d < Span[x - 1])
    BY Zenon, <1>4, SpansOrdered
<1> QED BY <1>2, <1>3, <1>5

(* Sizes of sets of timers. *)
LEMMA SizesAdd ==
    ASSUME NEW S \in SUBSET Timer, NEW T \in SUBSET Timer
    PROVE  /\ IsFiniteSet(S) /\ Cardinality(S) \in Nat /\ Cardinality(S) <= Cardinality(Timer)
           /\ Cardinality(S) = 0 <=> S = {}
           /\ T \subseteq S => /\ Cardinality(S \ T) = Cardinality(S) - Cardinality(T)
                              /\ Cardinality(T) <= Cardinality(S)
           /\ S \cap T = {} => Cardinality(S \cup T) = Cardinality(S) + Cardinality(T)
<1>1. \A X \in SUBSET Timer : /\ IsFiniteSet(X) /\ Cardinality(X) \in Nat
                              /\ Cardinality(X) <= Cardinality(Timer)
    BY Zenon, WheelAssumption, FS_Subset, FS_CardinalityType
<1>2. Cardinality(S) = 0 <=> S = {}
    BY Zenon, <1>1, FS_EmptySet
<1>3. ASSUME T \subseteq S
      PROVE  Cardinality(S \ T) = Cardinality(S) - Cardinality(T) /\ Cardinality(T) <= Cardinality(S)
    <2>1. S \cap T = T
        BY Zenon, <1>3
    <2> QED BY ZenonT(60), <1>1, <1>3, <2>1, FS_Difference, FS_Subset
<1>4. ASSUME S \cap T = {} PROVE Cardinality(S \cup T) = Cardinality(S) + Cardinality(T)
    <2>1. Cardinality(S \cup T) = Cardinality(S) + Cardinality(T) - Cardinality(S \cap T)
        BY ZenonT(60), <1>1, FS_Union
    <2>2. Cardinality(S \cap T) = 0
        BY <1>4, FS_EmptySet
    <2> QED BY <1>1, <2>1, <2>2
<1> QED BY Zenon, <1>1, <1>2, <1>3, <1>4

(* Small sets, and what an injection of 1..n reaches. *)
LEMMA SmallSizesHold == SmallSizes
<1>1. Cardinality({}) = 0 /\ \A x : Cardinality({x}) = 1
    BY Zenon, FS_EmptySet, FS_Singleton
<1>2. ASSUME NEW n \in Nat, NEW f \in [1..n -> Timer], \A i, j \in 1..n : f[i] = f[j] => i = j
      PROVE  Cardinality({f[i] : i \in 1..n}) = n
    <2> DEFINE R == {f[i] : i \in 1..n}
    <2>1. f \in Surjection(1..n, R)
        BY Zenon DEF Surjection
    <2>2. f \in Injection(1..n, R)
        BY Zenon, <1>2 DEF Injection, IsInjective
    <2>3. IsFiniteSet(1..n) /\ Cardinality(1..n) = n
        <3>1. Cardinality(1..n) = IF 1 > n THEN 0 ELSE n - 1 + 1
            BY FS_Interval
        <3>2. IsFiniteSet(1..n)
            BY FS_Interval
        <3> QED BY <3>1, <3>2
    <2> HIDE DEF R
    <2>4. Cardinality(R) = Cardinality(1..n)
        BY Zenon, <2>1, <2>2, <2>3, FS_Surjection
    <2> QED BY <2>3, <2>4 DEF R
<1> QED BY ZenonT(60), <1>1, <1>2 DEF SmallSizes

(* The facts the proofs have used. *)
LEMMA FactsHold == WheelFacts
<1>1. SpanOrder
    BY Zenon, SpansOrdered DEF SpanOrder
<1>2. LevelOrder
    BY Zenon, LevelsOrdered DEF LevelOrder
<1>3. SizeLaws
    BY Zenon, SizesAdd DEF SizeLaws
<1> QED BY Zenon, <1>1, <1>2, <1>3, SmallSizesHold DEF WheelFacts

(* What TimingWheelTimerManager keeps. *)
LEMMA ManagerInvariant == ManagerSpec => []ManagerInv
<1>1. ManagerInit => ManagerInv
    BY Zenon, FactsHold, ManagerStart
<1>2. ManagerInv /\ [ManagerNext]_managerVars => ManagerInv'
    BY Zenon, FactsHold, ManagerStep
<1> QED BY <1>1, <1>2, PTL DEF ManagerSpec

(* For every number of timers, wheel geometry and duration of a tick, and however late
   tick() is called, no accepted timer is lost or in two slots, and m_size counts those in
   the wheel. *)
THEOREM ManagerKeepsTimers == ManagerSpec => []EveryTimerInOneSlot
<1>1. ManagerInv => EveryTimerInOneSlot
    BY Zenon DEF ManagerInv
<1> QED BY <1>1, ManagerInvariant, PTL

(* tick() then leaves no timer overdue by two ticks, and handles none early by more than
   MaxLag and two ticks unless push() put it a lap ahead of the wheel. *)
THEOREM ManagerIsPunctual == ManagerSpec => []TickIsPunctual
<1>1. ManagerInv => TickIsPunctual
    BY Zenon, FactsHold, ManagerPunctual
<1> QED BY <1>1, ManagerInvariant, PTL

(* What ThreadSafeTimerManager and the timer thread keep. *)
LEMMA SafeInvariant == Spec => []SafeInv
<1>1. Init => SafeInv
    BY Zenon, FactsHold, SafeStart
<1>2. SafeInv /\ [Next]_vars => SafeInv'
    BY Zenon, FactsHold, SafeStep
<1> QED BY <1>1, <1>2, PTL DEF Spec

(* For every number of timers, wheel geometry, duration of a tick, batch size and range of
   m_pendingSize, and every interleaving of the threads that add and cancel timers with the
   timer thread: a timer that was enqueued is in exactly one of the queue, the batch and the
   wheel until it is handled, dropped or cancelled, and both sizes account for them. *)
THEOREM SafeKeepsTimers == Spec => []EveryTimerInOnePlace
<1>1. SafeInv => EveryTimerInOnePlace
    BY Zenon, FactsHold, SafePlaces
<1> QED BY <1>1, SafeInvariant, PTL

(* The tick() of the timer thread then leaves no timer of the wheel overdue by a tick, and
   handles none early by more than MaxLag and two ticks unless it was added to a wheel too
   far behind the clock. *)
THEOREM SafeIsPunctual == Spec => []Punctual
<1>1. SafeInv => Punctual
    BY Zenon, FactsHold, SafePunctual
<1> QED BY <1>1, SafeInvariant, PTL

============================================================================
