---------------------------- MODULE TimerLemmas ----------------------------
(***************************************************************************)
(* What TimerProofs needs about the timer managers, for any set of timers, *)
(* any wheel, any duration of a tick and however late tick() is called:    *)
(* the geometry of the wheel, which the managers share, and what each step *)
(* of ThreadSafeTimerManager keeps.  The argument is the same              *)
(* for both: every timer that waits is in a slot that the wheel has yet to *)
(* visit, at a tick that is not later than it expires (Reached), and one   *)
(* in the first level is nearly due when its slot is visited (NearlyDue).  *)
(***************************************************************************)
EXTENDS SafeTimer, Integers, TLAPS

(* What is needed of the spans of the levels and of the sizes of sets of timers.  Both
   are proved at the end of TimerProofs, from libraries whose many facts would burden
   every proof that follows them. *)
SpanOrder ==
    /\ Len(WheelSize) \in Nat /\ Len(WheelSize) > 1
    /\ Span[0] = 1
    /\ \A k \in 0..Len(WheelSize) : Span[k] \in Nat \ {0}
    /\ \A k \in Levels : /\ WheelSize[k] \in Nat \ {0, 1}
                         /\ Span[k] = Span[k - 1] * WheelSize[k]
                         /\ Span[k - 1] \in Nat \ {0} /\ Span[k] \in Nat \ {0}

LevelOrder ==
    \A d \in Nat \ {0} : d < MaxSpan => \E k \in Levels : Span[k - 1] <= d /\ d < Span[k]

SizeLaws ==
    \A S, T \in SUBSET Timer :
        /\ IsFiniteSet(S) /\ Cardinality(S) \in Nat /\ Cardinality(S) <= Cardinality(Timer)
        /\ Cardinality(S) = 0 <=> S = {}
        /\ T \subseteq S => /\ Cardinality(S \ T) = Cardinality(S) - Cardinality(T)
                            /\ Cardinality(T) <= Cardinality(S)
        /\ S \cap T = {} => Cardinality(S \cup T) = Cardinality(S) + Cardinality(T)

SmallSizes ==
    /\ Cardinality({}) = 0 /\ \A x : Cardinality({x}) = 1
    /\ \A n \in Nat : \A f \in [1..n -> Timer] :
           (\A i, j \in 1..n : f[i] = f[j] => i = j) => Cardinality({f[i] : i \in 1..n}) = n

WheelFacts == SpanOrder /\ LevelOrder /\ SizeLaws /\ SmallSizes

(* The spans are positive, and each is a multiple of the one before. *)
LEMMA SpanFacts ==
    ASSUME WheelFacts
    PROVE  /\ Len(WheelSize) \in Nat /\ Len(WheelSize) > 1
           /\ Span[0] = 1
           /\ \A k \in 0..Len(WheelSize) : Span[k] \in Nat \ {0}
           /\ \A k \in Levels : /\ WheelSize[k] \in Nat \ {0, 1}
                                /\ Span[k] = Span[k - 1] * WheelSize[k]
                                /\ Span[k - 1] \in Nat \ {0} /\ Span[k] \in Nat \ {0}
BY Zenon DEF WheelFacts, SpanOrder

(* A delay below the span of the last level belongs to one of the levels. *)
LEMMA LevelExists ==
    ASSUME WheelFacts, NEW d \in Nat \ {0}, d < MaxSpan
    PROVE  \E k \in Levels : Span[k - 1] <= d /\ d < Span[k]
BY Zenon DEF WheelFacts, LevelOrder

(* Sizes of sets of timers. *)
LEMMA Sizes ==
    ASSUME WheelFacts, NEW S \in SUBSET Timer, NEW T \in SUBSET Timer
    PROVE  /\ IsFiniteSet(S) /\ Cardinality(S) \in Nat /\ Cardinality(S) <= Cardinality(Timer)
           /\ Cardinality(S) = 0 <=> S = {}
           /\ T \subseteq S => /\ Cardinality(S \ T) = Cardinality(S) - Cardinality(T)
                              /\ Cardinality(T) <= Cardinality(S)
           /\ S \cap T = {} => Cardinality(S \cup T) = Cardinality(S) + Cardinality(T)
BY Zenon DEF WheelFacts, SizeLaws


(* Rounding down to a multiple. *)
LEMMA Division ==
    ASSUME NEW x \in Nat, NEW n \in Nat \ {0}
    PROVE  /\ x \div n \in Nat /\ x % n \in 0..(n - 1)
           /\ x = (x \div n) * n + (x % n)
           /\ (x \div n) * n <= x /\ x < (x \div n) * n + n
<1>1. x \div n \in Nat
    BY SMT
<1>2. x % n \in 0..(n - 1)
    BY SMT
<1>3. x = n * (x \div n) + (x % n)
    BY SMT
<1>4. n * (x \div n) = (x \div n) * n
    BY <1>1
<1> DEFINE p == (x \div n) * n
           r == x % n
<1>5. p \in Nat /\ r \in 0..(n - 1) /\ x = p + r
    BY <1>1, <1>2, <1>3, <1>4
<1> HIDE DEF p, r
<1>6. p <= x /\ x < p + n
    BY <1>5
<1> QED BY Zenon, <1>1, <1>2, <1>5, <1>6 DEF p, r

(* Quotient and remainder are unique. *)
LEMMA DivisionUnique ==
    ASSUME NEW q \in Int, NEW n \in Nat \ {0}, NEW r \in 0..(n - 1)
    PROVE  (q * n + r) \div n = q /\ (q * n + r) % n = r
OBVIOUS

(* Multiplication by a positive number keeps the order. *)
LEMMA Scale ==
    ASSUME NEW a \in Nat, NEW b \in Nat, NEW n \in Nat \ {0}
    PROVE  /\ a * n \in Nat /\ b * n \in Nat
           /\ a <= b => a * n <= b * n
           /\ a < b => a * n + n <= b * n
<1>1. a * n \in Nat /\ b * n \in Nat
    OBVIOUS
<1>2. a <= b => a * n <= b * n
    OBVIOUS
<1>3. ASSUME a < b PROVE a * n + n <= b * n
    <2>1. a + 1 <= b /\ a + 1 \in Nat
        BY <1>3
    <2>2. (a + 1) * n <= b * n
        BY <2>1
    <2>3. (a + 1) * n = a * n + n
        OBVIOUS
    <2> QED BY Zenon, <2>2, <2>3
<1> QED BY Zenon, <1>1, <1>2, <1>3

(* tick() looks into slot s at tick v. *)
Visits(v, s) == v % Span[s[1] - 1] = 0 /\ SlotAt(s[1], v) = s

(* No timer is in two slots. *)
Apart(w) == \A s, r \in WheelSlots : s # r => w[s] \cap w[r] = {}

(* Every timer that waits is yet to be looked at, in time but for slack. *)
Reached(slack) ==
    \A s \in WheelSlots : \A t \in wheel[s] \ cancelled : \E v \in Nat \ {0} :
        /\ m_currentTick <= v /\ Visits(v, s)
        /\ m_startTime + v * m_tickDuration <= expire[t] + slack

(* A timer of level 1 is first looked at when it is nearly due. *)
NearlyDue ==
    \A s \in WheelSlots : \A t \in wheel[s] \ behind : s[1] = 1 => \E v \in Nat :
        /\ m_currentTick <= v /\ v < m_currentTick + Span[1] /\ SlotAt(1, v) = s
        /\ expire[t] < m_startTime + (v + 2) * m_tickDuration + MaxLag

(* The clock is less than a tick and lag ahead of the wheel. *)
BehindBy(lag) == now < m_startTime + (m_currentTick + 1) * m_tickDuration + lag

(* A slot of the current geometry. *)
LEMMA SlotFacts ==
    ASSUME WheelFacts, NEW k \in Levels, NEW x \in Nat
    PROVE  /\ SlotAt(k, x) \in WheelSlots /\ SlotAt(k, x)[1] = k
           /\ x \div Span[k - 1] \in Nat
<1>1. /\ Span[k - 1] \in Nat \ {0} /\ WheelSize[k] \in Nat \ {0}
    BY Zenon, SpanFacts
<1>2. x \div Span[k - 1] \in Nat
    BY Zenon, <1>1, Division
<1>3. (x \div Span[k - 1]) % WheelSize[k] \in 0..(WheelSize[k] - 1)
    BY Zenon, <1>1, <1>2, Division
<1> DEFINE i == (x \div Span[k - 1]) % WheelSize[k]
<1> HIDE DEF i
<1>4. <<k, i>> \in {k} \X (0..(WheelSize[k] - 1)) /\ <<k, i>>[1] = k
    BY Zenon, <1>3 DEF i
<1>5. <<k, i>> \in WheelSlots
    BY Zenon, <1>4 DEF WheelSlots
<1> QED BY Zenon, <1>2, <1>4, <1>5 DEF SlotAt, i

(* Level 1 turns once in Span[1] ticks. *)
LEMMA FirstLevel ==
    ASSUME WheelFacts
    PROVE  /\ 1 \in Levels /\ Span[1] \in Nat \ {0}
           /\ \A v \in Nat : SlotAt(1, v) = <<1, v % Span[1]>>
           /\ \A c, v \in Nat : c <= v /\ v < c + Span[1] /\ SlotAt(1, v) = SlotAt(1, c) => v = c
<1>1. 1 \in Levels
    BY SpanFacts DEF Levels
<1>2. /\ Span[1] \in Nat \ {0} /\ WheelSize[1] \in Nat \ {0} /\ Span[0] = 1 /\ 1 - 1 = 0
      /\ Span[1] = Span[1 - 1] * WheelSize[1]
    BY <1>1, SpanFacts
<1>3. Span[1] = WheelSize[1]
    BY <1>2
<1>4. \A v \in Nat : v \div 1 = v
    OBVIOUS
<1>5. ASSUME NEW v \in Nat PROVE SlotAt(1, v) = <<1, v % Span[1]>>
    BY Zenon, <1>2, <1>3, <1>4 DEF SlotAt
<1>6. ASSUME NEW c \in Nat, NEW v \in Nat, c <= v, v < c + Span[1], SlotAt(1, v) = SlotAt(1, c)
      PROVE  v = c
    <2>1. v % Span[1] = c % Span[1]
        BY <1>5, <1>6
    <2> DEFINE n == Span[1]
               q == v \div n
               p == c \div n
               r == c % n
    <2>2. /\ q \in Nat /\ p \in Nat /\ r \in Nat /\ n \in Nat \ {0}
          /\ v = q * n + r /\ c = p * n + r
        <3>1. n \in Nat \ {0} /\ v % n = r
            BY Zenon, <1>2, <2>1
        <3>2. q \in Nat /\ v = q * n + (v % n)
            BY Zenon, <3>1, Division
        <3>3. p \in Nat /\ r \in 0..(n - 1) /\ c = p * n + r
            BY Zenon, <3>1, Division
        <3> QED BY <3>1, <3>2, <3>3
    <2> HIDE DEF n, q, p, r
    <2>3. c <= v /\ v < c + n
        BY Zenon, <1>6 DEF n
    <2>4. p * n <= q * n /\ q * n < p * n + n /\ p * n \in Nat /\ q * n \in Nat
        BY <2>2, <2>3
    <2>5. q = p
        <3>1. CASE q < p
            <4>1. q + 1 <= p
                BY <2>2, <3>1
            <4>2. (q + 1) * n <= p * n
                BY <2>2, <4>1
            <4> QED BY <2>2, <2>4, <4>2
        <3>2. CASE q > p
            <4>1. p + 1 <= q
                BY <2>2, <3>2
            <4>2. (p + 1) * n <= q * n
                BY <2>2, <4>1
            <4> QED BY <2>2, <2>4, <4>2
        <3> QED BY <2>2, <3>1, <3>2
    <2> QED BY Zenon, <2>2, <2>5
<1> QED BY Zenon, <1>1, <1>2, <1>5, <1>6

(* Where a delay puts a timer, tick() looks after the current tick and not after the
   one it is due at. *)
LEMMA Placement ==
    ASSUME WheelFacts, NEW c \in Nat, NEW d \in Nat \ {0}, d < MaxSpan
    PROVE  /\ Position(d, c + d) \in WheelSlots
           /\ \E v \in Nat \ {0} : c < v /\ v <= c + d /\ Visits(v, Position(d, c + d))
           /\ Position(d, c + d)[1] = 1 => d < Span[1] /\ Position(d, c + d) = SlotAt(1, c + d)
<1> DEFINE k == CHOOSE l \in Levels : Span[l - 1] <= d /\ d < Span[l]
<1>1. k \in Levels /\ Span[k - 1] <= d /\ d < Span[k]
    BY Zenon, LevelExists
<1>2. Position(d, c + d) = SlotAt(k, c + d)
    BY Zenon DEF Position
<1> HIDE DEF k
<1> DEFINE S == Span[k - 1]
           q == (c + d) \div S
           v == q * S
<1>3. /\ S \in Nat \ {0} /\ c + d \in Nat /\ S <= d
      /\ WheelSize[k] \in Nat \ {0}
    BY <1>1, SpanFacts
<1>4. q \in Nat /\ v <= c + d /\ c + d < v + S
    BY Zenon, <1>3, Division
<1>5. v % S = 0 /\ v \div S = q
    <2> HIDE DEF S, q
    <2>1. q * S + 0 = q * S /\ 0 \in 0..(S - 1) /\ q \in Int
        BY <1>3, <1>4
    <2>2. (q * S + 0) \div S = q /\ (q * S + 0) % S = 0
        BY Zenon, <1>3, <2>1, DivisionUnique
    <2> QED BY Zenon, <2>1, <2>2
<1>6. v \in Nat \ {0} /\ c < v
    <2>1. v \in Nat
        BY <1>3, <1>4
    <2> HIDE DEF v, S
    <2> QED BY <1>3, <1>4, <2>1
<1>7. SlotAt(k, v) = SlotAt(k, c + d)
    BY Zenon, <1>5 DEF SlotAt
<1>8. Position(d, c + d) \in WheelSlots /\ Position(d, c + d)[1] = k
    BY Zenon, <1>1, <1>2, <1>3, SlotFacts
<1>9. Visits(v, Position(d, c + d))
    BY Zenon, <1>2, <1>5, <1>7, <1>8 DEF Visits
<1> HIDE DEF v
<1> QED BY Zenon, <1>1, <1>2, <1>4, <1>6, <1>8, <1>9

(* A slot above level 1 is cascaded when tick() looks at it. *)
LEMMA CascadeFacts ==
    ASSUME WheelFacts, NEW c \in Nat
    PROVE  /\ CascadedAt(c) \subseteq WheelSlots
           /\ \A s \in CascadedAt(c) : s[1] # 1
           /\ \A s \in WheelSlots : s[1] # 1 /\ c # 0 /\ Visits(c, s) => s \in CascadedAt(c)
<1>1. \A k \in Levels : SlotAt(k, c) \in WheelSlots /\ SlotAt(k, c)[1] = k
    BY Zenon, SlotFacts
<1>2. \A s \in WheelSlots : s[1] \in Levels
    BY DEF WheelSlots
<1>3. CascadedAt(c) \subseteq WheelSlots /\ \A s \in CascadedAt(c) : s[1] # 1
    BY Zenon, <1>1 DEF CascadedAt
<1>4. ASSUME NEW s \in WheelSlots, s[1] # 1, c # 0, Visits(c, s) PROVE s \in CascadedAt(c)
    <2>1. c > 0
        BY <1>4
    <2> QED BY Zenon, <1>2, <1>4, <2>1 DEF Visits, CascadedAt
<1> QED BY Zenon, <1>3, <1>4

(* Being in the wheel. *)
LEMMA InWheelDef == \A w, t : t \in InWheel(w) <=> \E s \in WheelSlots : t \in w[s]
BY Zenon DEF InWheel, InSlots

(* Emptying a slot. *)
LEMMA EmptySlot ==
    ASSUME NEW w \in [WheelSlots -> SUBSET Timer], Apart(w), NEW c \in WheelSlots
    PROVE  /\ [w EXCEPT ![c] = {}] \in [WheelSlots -> SUBSET Timer]
           /\ Apart([w EXCEPT ![c] = {}])
           /\ InWheel([w EXCEPT ![c] = {}]) = InWheel(w) \ w[c]
           /\ w[c] \subseteq InWheel(w) /\ InWheel(w) \subseteq Timer
<1> DEFINE e == [w EXCEPT ![c] = {}]
<1>1. e \in [WheelSlots -> SUBSET Timer] /\ \A s \in WheelSlots : e[s] = IF s = c THEN {} ELSE w[s]
    OBVIOUS
<1> HIDE DEF e
<1>2. Apart(e)
    BY Zenon, <1>1 DEF Apart
<1>3. InWheel(e) = InWheel(w) \ w[c]
    <2>1. \A t : t \in InWheel(e) <=> \E s \in WheelSlots : s # c /\ t \in w[s]
        BY Zenon, <1>1, InWheelDef
    <2>2. \A s \in WheelSlots : s # c => w[s] \cap w[c] = {}
        BY Zenon DEF Apart
    <2>3. \A t : t \in InWheel(w) <=> \E s \in WheelSlots : t \in w[s]
        BY Zenon, InWheelDef
    <2> QED BY Zenon, <2>1, <2>2, <2>3
<1>4. w[c] \subseteq InWheel(w) /\ InWheel(w) \subseteq Timer
    BY Zenon, InWheelDef
<1> QED BY Zenon, <1>1, <1>2, <1>3, <1>4 DEF e

WheelTypes ==
    /\ wheel \in [WheelSlots -> SUBSET Timer] /\ expire \in [Timer -> Nat]
    /\ now \in Nat /\ m_startTime \in Nat /\ m_currentTick \in Nat

(* Where a timer that is cascaded goes. *)
Goes(t) == Position(Remaining(t), m_currentTick + Remaining(t))

(* A timer placed in the wheel has at least a tick to go. *)
LEMMA RemainingFacts ==
    ASSUME WheelFacts, NEW timers, NEW t \in Placed(timers)
    PROVE  /\ t \in timers /\ t \notin cancelled
           /\ Remaining(t) \in Nat \ {0} /\ Remaining(t) < MaxSpan
           /\ ~(expire[t] <= now) /\ Remaining(t) = (expire[t] - now) \div m_tickDuration
<1>1. MaxSpan \in Nat
    BY SpanFacts DEF MaxSpan
<1>2. t \in timers /\ t \notin cancelled /\ Remaining(t) \in 1..(MaxSpan - 1)
    BY Zenon DEF Placed, Live
<1>3. Remaining(t) \in Nat \ {0} /\ Remaining(t) < MaxSpan
    BY <1>1, <1>2
<1>4. ~(expire[t] <= now)
    <2>1. expire[t] <= now => Remaining(t) = 0
        BY Zenon DEF Remaining
    <2> QED BY Zenon, <1>3, <2>1
<1> QED BY Zenon, <1>2, <1>3, <1>4 DEF Remaining

(* What is cascaded was in the wheel, above level 1, and goes to one slot. *)
LEMMA MovedFacts ==
    ASSUME WheelFacts, WheelTypes
    PROVE  /\ Moved \subseteq InWheel(wheel) /\ Placed(Moved) \subseteq Moved
           /\ Due(Moved) \subseteq Moved /\ Moved \subseteq Timer
           /\ \A t \in Moved : \E s \in WheelSlots : s[1] # 1 /\ t \in wheel[s]
           /\ \A t \in Placed(Moved) : Goes(t) \in WheelSlots
<1>1. \A t \in Moved : \E s \in WheelSlots : s[1] # 1 /\ t \in wheel[s]
    <2>1. CascadedAt(m_currentTick) \subseteq WheelSlots /\ \A s \in CascadedAt(m_currentTick) : s[1] # 1
        BY Zenon, CascadeFacts DEF WheelTypes
    <2> QED BY Zenon, <2>1 DEF Moved, InSlots
<1>2. Moved \subseteq InWheel(wheel)
    BY Zenon, <1>1, InWheelDef
<1>3. Placed(Moved) \subseteq Moved /\ Due(Moved) \subseteq Moved
    BY Zenon DEF Placed, Due, Live
<1>4. Moved \subseteq Timer
    BY Zenon, <1>1 DEF WheelTypes
<1>5. ASSUME NEW t \in Placed(Moved) PROVE Goes(t) \in WheelSlots
    <2>1. Remaining(t) \in Nat \ {0} /\ Remaining(t) < MaxSpan
        BY Zenon, RemainingFacts
    <2> QED BY Zenon, <2>1, Placement DEF Goes, WheelTypes
<1> QED BY Zenon, <1>1, <1>2, <1>3, <1>4, <1>5

(* The wheel after the cascade. *)
LEMMA CascadedFacts ==
    ASSUME WheelFacts, WheelTypes, Apart(wheel)
    PROVE  /\ Cascaded(Moved) \in [WheelSlots -> SUBSET Timer] /\ Apart(Cascaded(Moved))
           /\ InWheel(Cascaded(Moved)) = (InWheel(wheel) \ Moved) \cup Placed(Moved)
           /\ \A s \in WheelSlots : \A t \in Cascaded(Moved)[s] :
                  \/ t \in wheel[s] /\ t \notin Moved
                  \/ t \in Placed(Moved) /\ Goes(t) = s
<1> DEFINE w == Cascaded(Moved)
<1>1. w \in [WheelSlots -> SUBSET Timer]
    BY Zenon, MovedFacts DEF Cascaded, WheelTypes
<1>2. ASSUME NEW s \in WheelSlots, NEW t
      PROVE  t \in w[s] <=> \/ t \in wheel[s] /\ t \notin Moved
                            \/ t \in Placed(Moved) /\ Goes(t) = s
    BY Zenon DEF Cascaded, Goes
<1> HIDE DEF w
<1>3. \A t \in Placed(Moved) : t \in Moved /\ Goes(t) \in WheelSlots
    BY Zenon, MovedFacts
<1>4. Apart(w)
    <2> SUFFICES ASSUME NEW s \in WheelSlots, NEW r \in WheelSlots, s # r,
                        NEW t \in w[s], t \in w[r]
                 PROVE  FALSE
        BY Zenon DEF Apart
    <2>1. ~(t \in wheel[s] /\ t \in wheel[r])
        BY Zenon DEF Apart
    <2> QED BY Zenon, <1>2, <1>3, <2>1
<1>5. InWheel(w) = (InWheel(wheel) \ Moved) \cup Placed(Moved)
    <2>1. \A t : t \in InWheel(w) <=> \E s \in WheelSlots : t \in w[s]
        BY Zenon, InWheelDef
    <2>2. \A t : t \in InWheel(wheel) <=> \E s \in WheelSlots : t \in wheel[s]
        BY Zenon, InWheelDef
    <2> QED BY Zenon, <1>2, <1>3, <2>1, <2>2
<1> QED BY Zenon, <1>1, <1>2, <1>4, <1>5 DEF w

(* The wheel after a turn of tick()'s loop. *)
LEMMA TurnedFacts ==
    ASSUME WheelFacts, WheelTypes, Apart(wheel)
    PROVE  /\ Turned \in [WheelSlots -> SUBSET Timer] /\ Apart(Turned)
           /\ InWheel(Turned) = ((InWheel(wheel) \ Moved) \cup Placed(Moved)) \ Current
           /\ Current \subseteq (InWheel(wheel) \ Moved) \cup Placed(Moved)
           /\ \A s \in WheelSlots : \A t \in Turned[s] :
                  /\ s # SlotAt(1, m_currentTick)
                  /\ \/ t \in wheel[s] /\ t \notin Moved
                     \/ t \in Placed(Moved) /\ Goes(t) = s
<1> DEFINE w == Cascaded(Moved)
           c == SlotAt(1, m_currentTick)
<1>1. c \in WheelSlots
    BY Zenon, FirstLevel, SlotFacts DEF WheelTypes
<1>2. /\ w \in [WheelSlots -> SUBSET Timer] /\ Apart(w)
      /\ InWheel(w) = (InWheel(wheel) \ Moved) \cup Placed(Moved)
      /\ \A s \in WheelSlots : \A t \in w[s] :
             \/ t \in wheel[s] /\ t \notin Moved
             \/ t \in Placed(Moved) /\ Goes(t) = s
    BY Zenon, CascadedFacts
<1>3. Turned = [w EXCEPT ![c] = {}] /\ Current = w[c]
    BY Zenon DEF Turned, Current
<1> HIDE DEF w, c
<1>4. /\ Turned \in [WheelSlots -> SUBSET Timer] /\ Apart(Turned)
      /\ InWheel(Turned) = InWheel(w) \ Current /\ Current \subseteq InWheel(w)
    BY ZenonT(60), <1>1, <1>2, <1>3, EmptySlot
<1>5. \A s \in WheelSlots : Turned[s] = IF s = c THEN {} ELSE w[s]
    BY Zenon, <1>1, <1>2, <1>3
<1>6. ASSUME NEW s \in WheelSlots, NEW t \in Turned[s]
      PROVE  /\ s # c
             /\ \/ t \in wheel[s] /\ t \notin Moved
                \/ t \in Placed(Moved) /\ Goes(t) = s
    BY Zenon, <1>2, <1>5
<1> QED BY Zenon, <1>2, <1>4, <1>6 DEF c

(* Every timer that waits stays ahead of the wheel. *)
LEMMA ReachedTurn ==
    ASSUME WheelFacts, WheelTypes, Apart(wheel), NEW slack \in Nat, Reached(slack),
           m_startTime + m_currentTick * m_tickDuration <= now,
           wheel' = Turned, m_currentTick' = m_currentTick + 1,
           UNCHANGED <<m_startTime, expire, cancelled>>
    PROVE  \A s \in WheelSlots : \A t \in wheel'[s] \ cancelled' : \E v \in Nat \ {0} :
               /\ m_currentTick' <= v /\ Visits(v, s)
               /\ m_startTime' + v * m_tickDuration <= expire'[t] + slack
<1> SUFFICES ASSUME NEW s \in WheelSlots, NEW t \in Turned[s], t \notin cancelled
             PROVE  \E v \in Nat \ {0} :
                        /\ m_currentTick + 1 <= v /\ Visits(v, s)
                        /\ m_startTime + v * m_tickDuration <= expire[t] + slack
    BY Zenon
<1>0. /\ m_tickDuration \in Nat \ {0} /\ t \in Timer /\ m_currentTick \in Nat
      /\ expire[t] \in Nat /\ now \in Nat /\ m_startTime \in Nat
    BY Zenon, TurnedFacts, WheelAssumption DEF WheelTypes
<1>1. CASE t \in wheel[s] /\ t \notin Moved
    <2>1. PICK v \in Nat \ {0} :
              /\ m_currentTick <= v /\ Visits(v, s)
              /\ m_startTime + v * m_tickDuration <= expire[t] + slack
        BY Zenon, <1>1 DEF Reached
    <2>2. v # m_currentTick
        <3>1. SUFFICES ASSUME v = m_currentTick PROVE FALSE
            OBVIOUS
        <3>2. s # SlotAt(1, m_currentTick)
            BY Zenon, TurnedFacts
        <3>3. s[1] # 1 /\ m_currentTick # 0
            BY Zenon, <2>1, <3>1, <3>2 DEF Visits
        <3>4. s \in CascadedAt(m_currentTick)
            BY Zenon, <1>0, <2>1, <3>1, <3>3, CascadeFacts
        <3> QED BY Zenon, <1>1, <3>4 DEF Moved, InSlots
    <2>3. m_currentTick + 1 <= v
        BY <1>0, <2>1, <2>2
    <2> QED BY Zenon, <2>1, <2>3
<1>2. CASE t \in Placed(Moved) /\ Goes(t) = s
    <2> DEFINE r == Remaining(t)
               p == r * m_tickDuration
    <2>1. /\ r \in Nat \ {0} /\ r < MaxSpan /\ ~(expire[t] <= now)
          /\ r = (expire[t] - now) \div m_tickDuration
        BY Zenon, <1>2, RemainingFacts
    <2>2. PICK v \in Nat \ {0} : m_currentTick < v /\ v <= m_currentTick + r /\ Visits(v, s)
        <3> HIDE DEF r
        <3>1. \E v \in Nat \ {0} : /\ m_currentTick < v /\ v <= m_currentTick + r
                                   /\ Visits(v, Position(r, m_currentTick + r))
            BY Zenon, <1>0, <2>1, Placement
        <3>2. Position(r, m_currentTick + r) = s
            BY Zenon, <1>2 DEF Goes, r
        <3> QED BY Zenon, <3>1, <3>2
    <2>3. p <= expire[t] - now /\ p \in Nat
        <3>1. expire[t] - now \in Nat
            BY <1>0, <2>1
        <3>2. ((expire[t] - now) \div m_tickDuration) * m_tickDuration <= expire[t] - now
            BY Zenon, <1>0, <3>1, Division
        <3> QED BY <1>0, <2>1, <3>2
    <2>4. v * m_tickDuration <= m_currentTick * m_tickDuration + p
        <3> HIDE DEF r
        <3>1. v * m_tickDuration <= (m_currentTick + r) * m_tickDuration
            BY <1>0, <2>1, <2>2
        <3> QED BY <1>0, <2>1, <3>1
    <2>5. v * m_tickDuration \in Nat /\ m_currentTick * m_tickDuration \in Nat
        BY <1>0
    <2> HIDE DEF p, r
    <2>6. m_startTime + v * m_tickDuration <= expire[t] + slack
        BY <1>0, <2>3, <2>4, <2>5
    <2>7. m_currentTick + 1 <= v
        BY <1>0, <2>2
    <2> QED BY Zenon, <2>2, <2>6, <2>7
<1> QED BY Zenon, <1>1, <1>2, TurnedFacts

(* A timer of level 1 stays nearly due when it is looked at. *)
LEMMA NearlyDueTurn ==
    ASSUME WheelFacts, WheelTypes, Apart(wheel), NearlyDue,
           \A s \in WheelSlots : s[1] # 1 /\ wheel[s] \ behind # {} => BehindBy(MaxLag),
           wheel' = Turned, m_currentTick' = m_currentTick + 1,
           UNCHANGED <<m_startTime, expire, behind>>
    PROVE  NearlyDue'
<1> SUFFICES ASSUME NEW s \in WheelSlots, NEW t \in Turned[s], t \notin behind, s[1] = 1
             PROVE  \E v \in Nat :
                        /\ m_currentTick + 1 <= v /\ v < m_currentTick + 1 + Span[1]
                        /\ SlotAt(1, v) = s
                        /\ expire[t] < m_startTime + (v + 2) * m_tickDuration + MaxLag
    BY Zenon DEF NearlyDue
<1>0. /\ m_tickDuration \in Nat \ {0} /\ MaxLag \in Nat /\ t \in Timer /\ m_currentTick \in Nat
      /\ expire[t] \in Nat /\ now \in Nat /\ m_startTime \in Nat /\ Span[1] \in Nat \ {0}
    BY Zenon, TurnedFacts, WheelAssumption, FirstLevel DEF WheelTypes
<1>1. CASE t \in wheel[s] /\ t \notin Moved
    <2>1. PICK v \in Nat :
              /\ m_currentTick <= v /\ v < m_currentTick + Span[1] /\ SlotAt(1, v) = s
              /\ expire[t] < m_startTime + (v + 2) * m_tickDuration + MaxLag
        BY Zenon, <1>1 DEF NearlyDue
    <2>2. s # SlotAt(1, m_currentTick)
        BY Zenon, TurnedFacts
    <2>3. m_currentTick + 1 <= v /\ v < m_currentTick + 1 + Span[1]
        BY <1>0, <2>1, <2>2
    <2> QED BY Zenon, <2>1, <2>3
<1>2. CASE t \in Placed(Moved) /\ Goes(t) = s
    <2> DEFINE r == Remaining(t)
               p == r * m_tickDuration
    <2>1. /\ r \in Nat \ {0} /\ r < MaxSpan /\ ~(expire[t] <= now) /\ t \in Moved
          /\ r = (expire[t] - now) \div m_tickDuration
        BY Zenon, <1>2, RemainingFacts
    <2>2. r < Span[1] /\ SlotAt(1, m_currentTick + r) = s
        <3> HIDE DEF r
        <3>1. Position(r, m_currentTick + r) = s
            BY Zenon, <1>2 DEF Goes, r
        <3> QED BY ZenonT(60), <1>0, <2>1, <3>1, Placement
    <2>3. expire[t] - now < p + m_tickDuration /\ p \in Nat
        <3>1. expire[t] - now \in Nat
            BY <1>0, <2>1
        <3>2. r \in Nat /\ expire[t] - now < p + m_tickDuration
            BY Zenon, <1>0, <2>1, <3>1, Division
        <3> HIDE DEF r
        <3>3. p \in Nat
            BY Zenon, <1>0, <3>2, Scale
        <3> QED BY Zenon, <3>2, <3>3
    <2>4. now < m_startTime + (m_currentTick + 1) * m_tickDuration + MaxLag
        BY Zenon, <2>1, MovedFacts DEF BehindBy
    <2> HIDE DEF r
    <2>5. /\ (m_currentTick + r + 2) * m_tickDuration
              = (m_currentTick + 1) * m_tickDuration + p + m_tickDuration
          /\ (m_currentTick + 1) * m_tickDuration \in Nat
        BY <1>0, <2>1
    <2> HIDE DEF p
    <2>6. expire[t] < m_startTime + (m_currentTick + r + 2) * m_tickDuration + MaxLag
        BY <1>0, <2>3, <2>4, <2>5
    <2>7. m_currentTick + 1 <= m_currentTick + r /\ m_currentTick + r < m_currentTick + 1 + Span[1]
        BY <1>0, <2>1, <2>2
    <2>8. m_currentTick + r \in Nat
        BY <1>0, <2>1
    <2> QED BY Zenon, <2>2, <2>6, <2>7, <2>8
<1> QED BY Zenon, <1>1, <1>2, TurnedFacts

(* What a turn handles is nearly due. *)
LEMMA TurnHandles ==
    ASSUME WheelFacts, WheelTypes, Apart(wheel), NearlyDue,
           m_startTime + m_currentTick * m_tickDuration <= now,
           NEW t \in Due(Moved) \cup Current, t \notin behind
    PROVE  expire[t] < now + MaxLag + 2 * m_tickDuration
<1> DEFINE c == SlotAt(1, m_currentTick)
<1>0. /\ m_tickDuration \in Nat \ {0} /\ MaxLag \in Nat /\ t \in Timer /\ m_currentTick \in Nat
      /\ expire[t] \in Nat /\ now \in Nat /\ m_startTime \in Nat /\ Span[1] \in Nat \ {0}
      /\ c \in WheelSlots /\ c[1] = 1
    <2>1. t \in Timer
        BY Zenon, MovedFacts, TurnedFacts, InWheelDef DEF WheelTypes
    <2> QED BY Zenon, <2>1, WheelAssumption, FirstLevel, SlotFacts DEF WheelTypes
<1>1. CASE t \in Due(Moved)
    <2>1. Remaining(t) = 0
        BY Zenon, <1>1 DEF Due
    <2>2. CASE expire[t] <= now
        BY <1>0, <2>2
    <2>3. CASE ~(expire[t] <= now)
        <3>1. expire[t] - now \in Nat /\ (expire[t] - now) \div m_tickDuration = 0
            BY <1>0, <2>1, <2>3 DEF Remaining
        <3>2. expire[t] - now < 0 * m_tickDuration + m_tickDuration
            BY ZenonT(60), <1>0, <3>1, Division
        <3> QED BY <1>0, <3>1, <3>2
    <2> QED BY Zenon, <2>2, <2>3
<1>2. CASE t \in Current
    <2>1. t \in Cascaded(Moved)[c]
        BY Zenon, <1>2 DEF Current
    <2>2. CASE t \in wheel[c]
        <3>1. PICK v \in Nat :
                  /\ m_currentTick <= v /\ v < m_currentTick + Span[1] /\ SlotAt(1, v) = c
                  /\ expire[t] < m_startTime + (v + 2) * m_tickDuration + MaxLag
            BY Zenon, <1>0, <2>2 DEF NearlyDue
        <3>2. v = m_currentTick
            BY Zenon, <1>0, <3>1, FirstLevel
        <3> HIDE DEF c
        <3>3. (v + 2) * m_tickDuration = m_currentTick * m_tickDuration + 2 * m_tickDuration
            BY <1>0, <3>2
        <3>4. m_currentTick * m_tickDuration \in Nat
            BY <1>0
        <3> QED BY <1>0, <3>1, <3>3, <3>4
    <2>3. CASE t \in Placed(Moved) /\ Goes(t) = c
        <3> DEFINE r == Remaining(t)
        <3>1. r \in Nat \ {0} /\ r < MaxSpan
            BY Zenon, <2>3, RemainingFacts
        <3>2. Position(r, m_currentTick + r) = c
            BY Zenon, <2>3 DEF Goes
        <3> HIDE DEF r
        <3>3. r < Span[1] /\ SlotAt(1, m_currentTick + r) = c
            BY Zenon, <1>0, <3>1, <3>2, Placement
        <3>4. m_currentTick + r = m_currentTick
            <4>1. /\ m_currentTick + r \in Nat /\ m_currentTick <= m_currentTick + r
                  /\ m_currentTick + r < m_currentTick + Span[1]
                BY <1>0, <3>1, <3>3
            <4> QED BY Zenon, <1>0, <3>3, <4>1, FirstLevel
        <3> QED BY <1>0, <3>1, <3>4
    <2> QED BY Zenon, <1>0, <2>1, <2>2, <2>3, CascadedFacts
<1> QED BY Zenon, <1>1, <1>2

(* Handling timers that are nearly due keeps HardlyEarly. *)
LEMMA HandlesHardlyEarly ==
    ASSUME WheelFacts, NEW timers, NEW expiry \in [Timer -> Nat], early \in [Timer -> Nat], now \in Nat,
           HardlyEarly, HandleTimeouts(timers, expiry), behind \subseteq behind',
           \A t \in timers \ behind : t \in Timer =>
               expiry[t] < now + MaxLag + 2 * m_tickDuration
    PROVE  HardlyEarly' /\ early' \in [Timer -> Nat]
<1>0. MaxLag + 2 * m_tickDuration \in Nat /\ MaxLag \in Nat /\ 2 * m_tickDuration \in Nat
    BY WheelAssumption
<1> DEFINE b == 2 * m_tickDuration
<1>1. early' = [t \in Timer |-> IF t \in timers /\ expiry[t] > now
                               THEN expiry[t] - now ELSE early[t]]
    BY Zenon DEF HandleTimeouts
<1>2. early' \in [Timer -> Nat]
    BY <1>1
<1> HIDE DEF b
<1>3. ASSUME NEW t \in Timer, t \notin behind' PROVE early'[t] < MaxLag + b
    <2>1. t \notin behind /\ early[t] < MaxLag + b
        BY Zenon, <1>3 DEF HardlyEarly, b
    <2>2. t \in timers => expiry[t] < now + MaxLag + b
        BY Zenon, <1>3, <2>1 DEF b
    <2> QED BY <1>0, <1>1, <2>1, <2>2 DEF b
<1> QED BY Zenon, <1>2, <1>3 DEF HardlyEarly, b

(* A turn takes out of the wheel the current slot and what it does not place again. *)
LEMMA TurnSize ==
    ASSUME WheelFacts, WheelTypes, Apart(wheel)
    PROVE  /\ Cardinality(InWheel(Turned)) \in Nat
           /\ Cardinality(InWheel(Turned)) =
                  Cardinality(InWheel(wheel)) - Cardinality(Current)
                  - Cardinality(Moved \ Placed(Moved))
<1> DEFINE W == InWheel(wheel)
           O == Moved \ Placed(Moved)
           K == W \ O
<1>1. /\ W \subseteq Timer /\ O \subseteq W /\ K \subseteq Timer
      /\ (W \ Moved) \cup Placed(Moved) = K
    BY Zenon, MovedFacts, InWheelDef DEF WheelTypes
<1>2. InWheel(Turned) = K \ Current /\ Current \subseteq K
    BY Zenon, <1>1, TurnedFacts
<1> HIDE DEF W, O, K
<1>3. Cardinality(K) = Cardinality(W) - Cardinality(O)
    BY Zenon, <1>1, Sizes DEF K
<1>4. Cardinality(K \ Current) = Cardinality(K) - Cardinality(Current)
    BY Zenon, <1>1, <1>2, Sizes
<1>5. /\ Cardinality(K) \in Nat /\ Cardinality(W) \in Nat /\ Cardinality(O) \in Nat
      /\ Cardinality(Current) \in Nat /\ Cardinality(K \ Current) \in Nat
    BY ZenonT(60), <1>1, <1>2, Sizes
<1> QED BY <1>2, <1>3, <1>4, <1>5 DEF W, O

(* The numbers of the model. *)
LEMMA Numbers ==
    ASSUME WheelFacts
    PROVE  /\ m_tickDuration \in Nat \ {0} /\ m_tickDuration - 1 \in Nat /\ MaxLag \in Nat \ {0}
           /\ MaxTime \in Nat /\ Delay \subseteq Nat /\ MaxSpan \in Nat \ {0} /\ Span[1] \in Nat \ {0}
<1>1. MaxSpan \in Nat \ {0}
    BY SpanFacts DEF MaxSpan
<1>2. m_tickDuration \in Nat \ {0} /\ MaxLag \in Nat \ {0} /\ MaxTime \in Nat /\ Delay \subseteq Nat
    BY Zenon, WheelAssumption
<1>3. m_tickDuration - 1 \in Nat
    BY <1>2
<1> QED BY Zenon, <1>1, <1>2, <1>3, FirstLevel

(* The clock, in ticks. *)
LEMMA ElapsedFacts ==
    ASSUME WheelFacts, WheelTypes, m_startTime <= now
    PROVE  /\ Elapsed \in Nat /\ Elapsed * m_tickDuration \in Nat
           /\ m_startTime + Elapsed * m_tickDuration <= now
           /\ now < m_startTime + Elapsed * m_tickDuration + m_tickDuration
<1>1. now \in Nat /\ m_startTime \in Nat /\ now - m_startTime \in Nat
    BY DEF WheelTypes
<1> DEFINE P == Elapsed * m_tickDuration
<1>2. Elapsed \in Nat /\ P <= now - m_startTime /\ now - m_startTime < P + m_tickDuration
    BY ZenonT(60), <1>1, Numbers, Division DEF Elapsed
<1>3. P \in Nat
    BY <1>2, Numbers
<1> HIDE DEF P
<1> QED BY <1>1, <1>2, <1>3, Numbers DEF P

(* A wheel without timers. *)
LEMMA EmptyReached ==
    ASSUME InWheel(wheel) = {}
    PROVE  \A s \in WheelSlots : wheel[s] = {}
BY Zenon, InWheelDef

(* What a turn leaves in the wheel was there before and is neither handled nor dropped;
   an accepted timer is in range. *)
LEMMA TurnLeaves ==
    ASSUME WheelFacts, WheelTypes, Apart(wheel)
    PROVE  /\ InWheel(Turned) \subseteq InWheel(wheel) \ (Due(Moved) \cup Current)
           /\ \A t \in InWheel(wheel) \ (Due(Moved) \cup Current) :
                  t \in InWheel(Turned) \cup cancelled \cup OutOfRange(Moved)
<1> DEFINE K == (InWheel(wheel) \ Moved) \cup Placed(Moved)
<1>1. InWheel(Turned) = K \ Current
    BY Zenon, TurnedFacts
<1>2. \A t \in Placed(Moved) : t \in InWheel(wheel) /\ t \notin Due(Moved)
    <2>1. \A t \in Placed(Moved) : t \in Moved /\ Remaining(t) # 0
        BY Zenon, RemainingFacts
    <2> QED BY Zenon, <2>1, MovedFacts DEF Due
<1>3. Due(Moved) \subseteq Moved
    BY Zenon, MovedFacts
<1>4. ASSUME NEW t \in Moved, t \notin Due(Moved)
      PROVE  t \in Placed(Moved) \cup cancelled \cup OutOfRange(Moved)
    <2>1. t \in Timer /\ expire[t] \in Nat /\ now \in Nat
        BY Zenon, MovedFacts DEF WheelTypes
    <2>2. Remaining(t) \in Nat
        <3>1. CASE expire[t] <= now
            BY Zenon, <3>1 DEF Remaining
        <3>2. CASE ~(expire[t] <= now)
            <4>1. expire[t] - now \in Nat /\ Remaining(t) = (expire[t] - now) \div m_tickDuration
                BY <2>1, <3>2 DEF Remaining
            <4> QED BY Zenon, <4>1, Numbers, Division
        <3> QED BY Zenon, <3>1, <3>2
    <2>3. Remaining(t) # 0 \/ t \in cancelled
        BY Zenon, <1>4 DEF Due, Live
    <2>4. Remaining(t) = 0 \/ Remaining(t) \in 1..(MaxSpan - 1) \/ Remaining(t) >= MaxSpan
        BY <2>2, Numbers
    <2> QED BY Zenon, <1>4, <2>3, <2>4 DEF Placed, OutOfRange, Live
<1> QED BY Zenon, <1>1, <1>2, <1>3, <1>4



-----------------------------------------------------------------------------
(* ThreadSafeTimerManager *)

Queued == {m_pendingQueue[i] : i \in DOMAIN m_pendingQueue}

QueuedOnce == \A i, j \in DOMAIN m_pendingQueue : m_pendingQueue[i] = m_pendingQueue[j] => i = j

(* The queue, the batch and the wheel hold different timers, all of them enqueued; those
   of the wheel are set, the others new. *)
Places ==
    /\ QueuedOnce /\ Apart(wheel)
    /\ Queued \cap batch = {}
    /\ \A t \in Queued \cup batch : adder[t] \in {"count", "added"} /\ state[t] = "new"
    /\ \A t \in InWheel(wheel) : adder[t] \in {"count", "added"} /\ state[t] = "set"
    /\ \A t \in Timer : state[t] # "new" => adder[t] \in {"count", "added"}
    /\ thread # "batch" => batch = {}

(* A timer that is enqueued and not cancelled is in one of them until it is handled. *)
NoneMissing ==
    \A t \in Timer \ cancelled : adder[t] \in {"count", "added"} =>
        /\ state[t] = "new" => t \in Queued \cup batch
        /\ state[t] = "set" => t \in InWheel(wheel)

(* How far the wheel may be behind the clock, unless a timer was added to it too late. *)
ThreadDelay ==
    IF thread \in {"ticked", "exited"} THEN 0 ELSE IF thread = "sleep" THEN slept ELSE MaxLag

UpperLag == \A s \in WheelSlots : s[1] # 1 /\ wheel[s] \ behind # {} => BehindBy(ThreadDelay)

ThreadLag ==
    /\ m_startTime + m_currentTick * m_tickDuration <= now
    /\ thread = "ticked" /\ m_wheelSize > 0 => BehindBy(0)
    /\ UpperLag

QueueInv ==
    /\ TypeOK /\ Places /\ NoneMissing /\ PendingAccounts
    /\ m_wheelSize = Cardinality(InWheel(wheel))

ClockInv == ThreadLag /\ Reached(0) /\ NearlyDue /\ HardlyEarly

SafeInv == QueueInv /\ ClockInv

(* What the types say of the wheel. *)
LEMMA SafeTypes ==
    ASSUME WheelFacts, QueueInv
    PROVE  /\ WheelTypes /\ Apart(wheel) /\ m_startTime <= now /\ InWheel(wheel) \subseteq Timer
           /\ early \in [Timer -> Nat] /\ slept \in Nat /\ slept <= MaxLag
           /\ m_wheelSize \in Nat /\ (m_wheelSize = 0 <=> InWheel(wheel) = {})
<1>1. TypeOK /\ Apart(wheel) /\ m_wheelSize = Cardinality(InWheel(wheel))
    BY Zenon DEF QueueInv, Places
<1>2. /\ WheelTypes /\ m_startTime <= now /\ slept \in Nat /\ slept <= MaxLag
      /\ early \in [Timer -> Nat]
    BY <1>1, Numbers DEF TypeOK, WheelTypes
<1>3. InWheel(wheel) \subseteq Timer
    BY Zenon, <1>2, InWheelDef DEF WheelTypes
<1> QED BY Zenon, <1>1, <1>2, <1>3, Sizes

(* BehindBy is monotonic. *)
LEMMA BehindMonotonic ==
    ASSUME WheelFacts, WheelTypes, NEW a \in Nat, NEW b \in Nat, a <= b, BehindBy(a)
    PROVE  BehindBy(b)
<1> DEFINE D == (m_currentTick + 1) * m_tickDuration
<1>1. D \in Nat /\ now \in Nat /\ m_startTime \in Nat
    BY Numbers DEF WheelTypes
<1>2. now < m_startTime + D + a
    BY Zenon DEF BehindBy
<1> HIDE DEF D
<1>3. now < m_startTime + D + b
    BY <1>1, <1>2
<1> QED BY Zenon, <1>3 DEF BehindBy, D

(* A wheel that has turned up to the clock is not behind. *)
LEMMA CaughtUp ==
    ASSUME WheelFacts, WheelTypes, m_startTime <= now, Elapsed <= m_currentTick
    PROVE  BehindBy(0)
<1> DEFINE D == (m_currentTick + 1) * m_tickDuration
           P == Elapsed * m_tickDuration
<1>1. /\ Elapsed \in Nat /\ now < m_startTime + P + m_tickDuration /\ P \in Nat
      /\ now \in Nat /\ m_startTime \in Nat /\ m_currentTick \in Nat
    BY Zenon, ElapsedFacts DEF WheelTypes
<1>2. P + m_tickDuration <= D /\ D \in Nat
    BY <1>1, Numbers, Scale
<1> HIDE DEF D, P
<1>3. now < m_startTime + D + 0
    BY <1>1, <1>2, Numbers
<1> QED BY Zenon, <1>3 DEF BehindBy, D

(* A new manager. *)
LEMMA SafeStart ==
    ASSUME WheelFacts, Init
    PROVE  SafeInv
<1>0. /\ now = 0 /\ m_startTime = 0 /\ m_currentTick = 0 /\ m_wheelSize = 0 /\ m_pendingQueue = <<>>
      /\ m_pendingSize = 0 /\ m_running = TRUE /\ m_stopFlag = FALSE /\ thread = "loop" /\ batch = {}
      /\ last = FALSE /\ slept = 0 /\ adder = [t \in Timer |-> "idle"]
      /\ expire = [t \in Timer |-> 0] /\ state = [t \in Timer |-> "new"]
      /\ cancelled = {} /\ early = [t \in Timer |-> 0] /\ behind = {}
    BY Zenon DEF Init
<1>1. wheel \in [WheelSlots -> SUBSET Timer] /\ \A s \in WheelSlots : wheel[s] = {}
    BY Zenon DEF Init, EmptyWheel
<1>2. InWheel(wheel) = {} /\ Cardinality(InWheel(wheel)) = 0
    BY Zenon, <1>1, InWheelDef, Sizes
<1>3. TypeOK
    <2>0. /\ 0 \in 0..MaxTime /\ 0 \in 0..0 /\ 0 \in 0..MaxLag /\ 0 \in Nat
          /\ [t \in Timer |-> 0] \in [Timer -> Nat] /\ <<>> \in Seq(Timer)
          /\ [t \in Timer |-> "new"] \in [Timer -> {"new", "set", "handled", "dropped"}]
          /\ [t \in Timer |-> "idle"] \in
                 [Timer -> {"idle", "enqueue", "count", "added", "refused"}]
        BY Numbers
    <2>1. 0 \in 0..(SizeRange - 1) /\ 0 \in 0..Cardinality(Timer)
        <3>1. SizeRange \in Nat \ {0} /\ Cardinality(Timer) \in Nat
            BY Zenon, SafeAssumption, Sizes
        <3> QED BY <3>1
    <2> QED BY Zenon, <1>0, <1>1, <2>0, <2>1 DEF TypeOK
<1>4. Queued = {}
    BY <1>0 DEF Queued
<1>5. Places
    <2>1. QueuedOnce
        BY <1>0 DEF QueuedOnce
    <2>2. Apart(wheel)
        BY Zenon, <1>1 DEF Apart
    <2>3. \A t \in Timer : state[t] = "new"
        BY Zenon, <1>0
    <2> QED BY Zenon, <1>0, <1>2, <1>4, <2>1, <2>2, <2>3 DEF Places
<1>6. NoneMissing
    <2>1. \A t \in Timer : adder[t] = "idle"
        BY Zenon, <1>0
    <2> QED BY Zenon, <2>1 DEF NoneMissing
<1>7. PendingAccounts
    <2>1. {t \in Timer : adder[t] = "count"} = {}
        BY Zenon, <1>0
    <2>2. Cardinality({}) = 0
        BY Zenon DEF WheelFacts, SmallSizes
    <2>3. (0 + 0 - 0) % SizeRange = 0
        BY SafeAssumption
    <2>4. Len(m_pendingQueue) = 0
        BY Zenon, <1>0
    <2> QED BY Zenon, <1>0, <2>1, <2>2, <2>3, <2>4 DEF PendingAccounts
<1>8. ThreadLag
    <2>1. m_startTime + m_currentTick * m_tickDuration <= now
        BY <1>0, Numbers
    <2> QED BY Zenon, <1>0, <1>1, <2>1 DEF ThreadLag, UpperLag
<1>9. Reached(0) /\ NearlyDue
    BY Zenon, <1>1 DEF Reached, NearlyDue
<1>10. HardlyEarly
    BY <1>0, Numbers DEF HardlyEarly
<1> QED BY Zenon, <1>0, <1>2, <1>3, <1>5, <1>6, <1>7, <1>8, <1>9, <1>10
        DEF SafeInv, QueueInv, ClockInv

(* A step of the timer thread or of stop() between the changes of the timers and the
   wheel. *)
LEMMA ThreadMoves ==
    ASSUME WheelFacts, SafeInv,
           UNCHANGED <<now, m_startTime, m_currentTick, wheel, m_wheelSize, m_pendingQueue,
                       m_pendingSize, batch, adder, expire, state, cancelled, early, behind>>,
           thread' # "batch" => batch = {},
           thread' \in {"loop", "pending", "turn", "ticked", "sleep", "exited"} \/ thread' = thread,
           m_running' \in BOOLEAN, m_stopFlag' \in BOOLEAN, last' \in BOOLEAN,
           slept' \in 0..MaxLag, ThreadLag'
    PROVE  SafeInv'
<1>1. /\ TypeOK /\ Places /\ NoneMissing /\ PendingAccounts
      /\ m_wheelSize = Cardinality(InWheel(wheel)) /\ Reached(0) /\ NearlyDue /\ HardlyEarly
    BY Zenon DEF SafeInv, QueueInv, ClockInv
<1>2. thread' \in {"loop", "pending", "batch", "turn", "ticked", "sleep", "exited"}
    BY Zenon, <1>1 DEF TypeOK
<1>3. TypeOK'
    BY Zenon, <1>1, <1>2 DEF TypeOK
<1>4. Queued' = Queued /\ (QueuedOnce => QueuedOnce')
    BY Zenon DEF Queued, QueuedOnce
<1>5. Places'
    BY Zenon, <1>1, <1>4 DEF Places
<1>6. NoneMissing' /\ PendingAccounts' /\ (m_wheelSize = Cardinality(InWheel(wheel)))'
    BY Zenon, <1>1, <1>4 DEF NoneMissing, PendingAccounts
<1>7. Reached(0)' /\ NearlyDue' /\ HardlyEarly'
    BY Zenon, <1>1 DEF Reached, NearlyDue, HardlyEarly
<1> QED BY Zenon, <1>3, <1>5, <1>6, <1>7 DEF SafeInv, QueueInv, ClockInv

(* The steps of the timer thread that only move it on. *)
LEMMA BeginTickKeeps ==
    ASSUME WheelFacts, SafeInv, BeginTick
    PROVE  SafeInv'
<1>0. /\ thread = "loop" /\ thread' = "pending" /\ last' = m_stopFlag
      /\ UNCHANGED <<now, m_startTime, m_currentTick, wheel, m_wheelSize, m_pendingQueue,
                     m_pendingSize, m_running, m_stopFlag, batch, slept, adder,
                     expire, state, cancelled, early, behind>>
    BY Zenon DEF BeginTick, Loop, wheelVars, stopVars, timerVars
<1>1. TypeOK /\ Places /\ ThreadLag
    BY Zenon DEF SafeInv, QueueInv, ClockInv
<1>2. /\ m_running' \in BOOLEAN /\ m_stopFlag' \in BOOLEAN /\ last' \in BOOLEAN
      /\ slept' \in 0..MaxLag /\ batch = {}
    BY Zenon, <1>0, <1>1 DEF TypeOK, Places
<1>3. ThreadDelay' = ThreadDelay
    BY Zenon, <1>0 DEF ThreadDelay
<1>4. UpperLag'
    BY Zenon, <1>0, <1>1, <1>3 DEF ThreadLag, UpperLag, BehindBy
<1>5. ThreadLag'
    BY Zenon, <1>0, <1>1, <1>4 DEF ThreadLag
<1>6. thread' \in {"loop", "pending", "turn", "ticked", "sleep", "exited"}
    BY Zenon, <1>0
<1> QED BY Zenon, <1>0, <1>2, <1>5, <1>6, ThreadMoves

(* The thread has emptied its batch and reads the clock. *)
LEMMA PendingDoneKeeps ==
    ASSUME WheelFacts, SafeInv, PendingDone
    PROVE  SafeInv'
<1>0. /\ thread = "pending"
      /\ thread' = IF m_wheelSize > 0 /\ Elapsed > m_currentTick THEN "turn" ELSE "ticked"
      /\ UNCHANGED <<now, m_startTime, m_currentTick, wheel, m_wheelSize, m_pendingQueue,
                     m_pendingSize, m_running, m_stopFlag, batch, last, slept, adder,
                     expire, state, cancelled, early, behind>>
    BY Zenon DEF PendingDone, wheelVars, stopVars, timerVars
<1>1. TypeOK /\ Places /\ ThreadLag /\ QueueInv
    BY Zenon DEF SafeInv, QueueInv, ClockInv
<1>2. /\ m_running' \in BOOLEAN /\ m_stopFlag' \in BOOLEAN /\ last' \in BOOLEAN
      /\ slept' \in 0..MaxLag /\ batch = {}
    BY Zenon, <1>0, <1>1 DEF TypeOK, Places
<1>3. CASE thread' = "turn"
    <2>1. ThreadDelay' = ThreadDelay
        BY Zenon, <1>0, <1>3 DEF ThreadDelay
    <2>2. UpperLag'
        BY Zenon, <1>0, <1>1, <2>1 DEF ThreadLag, UpperLag, BehindBy
    <2>3. ThreadLag'
        BY Zenon, <1>0, <1>1, <1>3, <2>2 DEF ThreadLag
    <2> QED BY Zenon, <1>0, <1>2, <1>3, <2>3, ThreadMoves
<1>4. CASE thread' = "ticked" /\ ~(m_wheelSize > 0 /\ Elapsed > m_currentTick)
    <2>1. /\ WheelTypes /\ m_startTime <= now /\ m_wheelSize \in Nat
          /\ (m_wheelSize = 0 <=> InWheel(wheel) = {})
        BY Zenon, <1>1, SafeTypes
    <2>2. m_wheelSize > 0 => BehindBy(0)
        <3>1. SUFFICES ASSUME m_wheelSize > 0 PROVE BehindBy(0)
            OBVIOUS
        <3>2. ~(Elapsed > m_currentTick)
            BY Zenon, <1>4, <3>1
        <3>3. Elapsed <= m_currentTick
            BY <2>1, <3>2, ElapsedFacts DEF WheelTypes
        <3> QED BY Zenon, <2>1, <3>3, CaughtUp
    <2>3. BehindBy(0) => BehindBy(0)'
        BY Zenon, <1>0 DEF BehindBy
    <2>4. ThreadDelay' = 0
        BY Zenon, <1>4 DEF ThreadDelay
    <2>5. \A s \in WheelSlots : wheel[s] # {} => m_wheelSize > 0
        BY <2>1, InWheelDef
    <2>6. UpperLag'
        <3>1. \A s \in WheelSlots : wheel'[s] \ behind' # {} => BehindBy(0)'
            BY Zenon, <1>0, <2>2, <2>3, <2>5
        <3>2. BehindBy(0)' => BehindBy(ThreadDelay)'
            BY Zenon, <2>4 DEF BehindBy
        <3> QED BY Zenon, <3>1, <3>2 DEF UpperLag
    <2>7. ThreadLag'
        BY Zenon, <1>0, <1>1, <2>2, <2>3, <2>6 DEF ThreadLag
    <2> QED BY Zenon, <1>0, <1>2, <1>4, <2>7, ThreadMoves
<1> QED BY Zenon, <1>0, <1>3, <1>4

(* The thread sleeps for a tick, or leaves its loop. *)
LEMMA SleepOrExitKeeps ==
    ASSUME WheelFacts, SafeInv, SleepOrExit
    PROVE  SafeInv'
<1>0. /\ thread = "ticked" /\ thread' = (IF last THEN "exited" ELSE "sleep") /\ slept' = 0
      /\ UNCHANGED <<now, m_startTime, m_currentTick, wheel, m_wheelSize, m_pendingQueue,
                     m_pendingSize, m_running, m_stopFlag, batch, last, adder,
                     expire, state, cancelled, early, behind>>
    BY Zenon DEF SleepOrExit, wheelVars, stopVars, timerVars
<1>1. TypeOK /\ Places /\ ThreadLag
    BY Zenon DEF SafeInv, QueueInv, ClockInv
<1>2. /\ m_running' \in BOOLEAN /\ m_stopFlag' \in BOOLEAN /\ last' \in BOOLEAN /\ batch = {}
    BY Zenon, <1>0, <1>1 DEF TypeOK, Places
<1>3. 0 \in 0..MaxLag
    BY Numbers
<1>4. thread' = "exited" \/ thread' = "sleep"
    BY Zenon, <1>0
<1>5. ThreadDelay = 0 /\ ThreadDelay' = 0
    BY Zenon, <1>0, <1>4 DEF ThreadDelay
<1>6. UpperLag'
    BY Zenon, <1>0, <1>1, <1>5 DEF ThreadLag, UpperLag, BehindBy
<1>7. ThreadLag'
    BY Zenon, <1>0, <1>1, <1>4, <1>6 DEF ThreadLag
<1> QED BY Zenon, <1>0, <1>2, <1>3, <1>4, <1>7, ThreadMoves

(* The thread begins another turn of its loop. *)
LEMMA WakeUpKeeps ==
    ASSUME WheelFacts, SafeInv, WakeUp
    PROVE  SafeInv'
<1>0. /\ thread = "sleep" /\ thread' = "loop"
      /\ UNCHANGED <<now, m_startTime, m_currentTick, wheel, m_wheelSize, m_pendingQueue,
                     m_pendingSize, m_running, m_stopFlag, batch, last, slept, adder,
                     expire, state, cancelled, early, behind>>
    BY Zenon DEF WakeUp, wheelVars, stopVars, timerVars
<1>1. TypeOK /\ Places /\ ThreadLag /\ QueueInv
    BY Zenon DEF SafeInv, QueueInv, ClockInv
<1>2. /\ m_running' \in BOOLEAN /\ m_stopFlag' \in BOOLEAN /\ last' \in BOOLEAN
      /\ slept' \in 0..MaxLag /\ batch = {}
    BY Zenon, <1>0, <1>1 DEF TypeOK, Places
<1>3. ThreadDelay = slept /\ ThreadDelay' = MaxLag
    BY Zenon, <1>0 DEF ThreadDelay
<1>4. WheelTypes /\ slept \in Nat /\ slept <= MaxLag /\ MaxLag \in Nat
    BY Zenon, <1>1, SafeTypes, Numbers
<1>5. BehindBy(slept) => BehindBy(MaxLag)
    BY Zenon, <1>4, BehindMonotonic
<1>6. UpperLag'
    BY Zenon, <1>0, <1>1, <1>3, <1>5 DEF ThreadLag, UpperLag, BehindBy
<1>7. ThreadLag'
    BY Zenon, <1>0, <1>1, <1>6 DEF ThreadLag
<1> QED BY Zenon, <1>0, <1>2, <1>7, ThreadMoves

(* stop() and the passing of time. *)
LEMMA StopKeeps ==
    ASSUME WheelFacts, SafeInv, StopRunning \/ StopFlag
    PROVE  SafeInv'
<1>0. /\ UNCHANGED <<now, m_startTime, m_currentTick, wheel, m_wheelSize, m_pendingQueue,
                     m_pendingSize, thread, batch, last, slept, adder,
                     expire, state, cancelled, early, behind>>
      /\ m_running' = FALSE \/ m_running' = m_running
      /\ m_stopFlag' = TRUE \/ m_stopFlag' = m_stopFlag
    BY Zenon DEF StopRunning, StopFlag, wheelVars, threadVars, timerVars
<1>1. TypeOK /\ Places /\ ThreadLag
    BY Zenon DEF SafeInv, QueueInv, ClockInv
<1>2. /\ m_running' \in BOOLEAN /\ m_stopFlag' \in BOOLEAN /\ last' \in BOOLEAN
      /\ slept' \in 0..MaxLag /\ (thread' # "batch" => batch = {})
    BY Zenon, <1>0, <1>1 DEF TypeOK, Places
<1>3. UpperLag'
    BY Zenon, <1>0, <1>1 DEF ThreadLag, UpperLag, BehindBy, ThreadDelay
<1>4. ThreadLag'
    BY Zenon, <1>0, <1>1, <1>3 DEF ThreadLag, BehindBy
<1> QED BY Zenon, <1>0, <1>2, <1>4, ThreadMoves

(* Time passes while the thread sleeps. *)
LEMMA PassKeeps ==
    ASSUME WheelFacts, SafeInv, Pass
    PROVE  SafeInv'
<1>0. /\ thread = "sleep" /\ slept < MaxLag /\ now < MaxTime /\ now' = now + 1
      /\ slept' = slept + 1
      /\ UNCHANGED <<m_startTime, m_currentTick, wheel, m_wheelSize, m_pendingQueue,
                     m_pendingSize, m_running, m_stopFlag, thread, batch, last, adder,
                     expire, state, cancelled, early, behind>>
    BY Zenon DEF Pass, wheelVars, stopVars, timerVars
<1>1. /\ TypeOK /\ Places /\ NoneMissing /\ PendingAccounts /\ ThreadLag /\ QueueInv
      /\ m_wheelSize = Cardinality(InWheel(wheel)) /\ Reached(0) /\ NearlyDue /\ HardlyEarly
    BY Zenon DEF SafeInv, QueueInv, ClockInv
<1>2. /\ now \in 0..MaxTime /\ m_startTime \in 0..now /\ slept \in 0..MaxLag
    BY Zenon, <1>1 DEF TypeOK
<1>3. now + 1 \in 0..MaxTime /\ m_startTime \in 0..(now + 1) /\ slept + 1 \in 0..MaxLag
    BY <1>0, <1>2, Numbers
<1>4. TypeOK'
    BY Zenon, <1>0, <1>1, <1>3 DEF TypeOK
<1>5. Queued' = Queued /\ (QueuedOnce => QueuedOnce')
    BY Zenon, <1>0 DEF Queued, QueuedOnce
<1>6. Places' /\ NoneMissing' /\ PendingAccounts' /\ (m_wheelSize = Cardinality(InWheel(wheel)))'
    BY Zenon, <1>0, <1>1, <1>5 DEF Places, NoneMissing, PendingAccounts
<1>7. Reached(0)' /\ NearlyDue' /\ HardlyEarly'
    BY Zenon, <1>0, <1>1 DEF Reached, NearlyDue, HardlyEarly
<1> DEFINE C == m_currentTick * m_tickDuration
           D == (m_currentTick + 1) * m_tickDuration
<1>8. C \in Nat /\ D \in Nat /\ m_startTime \in Nat /\ now \in Nat /\ slept \in Nat
    BY SMTT(30), <1>1, Numbers DEF TypeOK
<1>9. m_startTime + C <= now
    BY Zenon, <1>1 DEF ThreadLag
<1>10. BehindBy(slept) => now + 1 < m_startTime + D + (slept + 1)
    <2>1. BehindBy(slept) => now < m_startTime + D + slept
        BY Zenon DEF BehindBy
    <2> HIDE DEF D
    <2> QED BY <1>8, <2>1
<1>11. m_startTime + C <= now + 1
    <2> HIDE DEF C
    <2> QED BY <1>8, <1>9
<1>12. ThreadDelay = slept /\ ThreadDelay' = slept + 1
    BY Zenon, <1>0 DEF ThreadDelay
<1>13. UpperLag'
    BY Zenon, <1>0, <1>1, <1>10, <1>12 DEF ThreadLag, UpperLag, BehindBy
<1>14. ThreadLag'
    BY Zenon, <1>0, <1>11, <1>13 DEF ThreadLag
<1> QED BY Zenon, <1>4, <1>6, <1>7, <1>14 DEF SafeInv, QueueInv, ClockInv

(* A step that leaves the wheel, the clock and the timers in the wheel alone. *)
LEMMA ClockStays ==
    ASSUME WheelFacts, SafeInv, cancelled \subseteq cancelled',
           UNCHANGED <<now, m_startTime, m_currentTick, wheel, m_wheelSize, slept, early, behind>>,
           thread' = thread \/ (thread \in {"pending", "batch"} /\ thread' \in {"pending", "batch"}),
           \A u \in InWheel(wheel) : expire'[u] = expire[u]
    PROVE  ClockInv' /\ (m_wheelSize = Cardinality(InWheel(wheel)))'
<1>1. /\ ThreadLag /\ Reached(0) /\ NearlyDue /\ HardlyEarly
      /\ m_wheelSize = Cardinality(InWheel(wheel))
    BY Zenon DEF SafeInv, QueueInv, ClockInv
<1>2. \A s \in WheelSlots : \A u \in wheel[s] : expire'[u] = expire[u]
    BY Zenon, InWheelDef
<1>3. Reached(0)'
    BY Zenon, <1>1, <1>2 DEF Reached
<1>4. NearlyDue' /\ HardlyEarly' /\ (m_wheelSize = Cardinality(InWheel(wheel)))'
    BY Zenon, <1>1, <1>2 DEF NearlyDue, HardlyEarly
<1>5. ThreadDelay' = ThreadDelay /\ (thread' = "ticked" => thread = "ticked")
    BY Zenon DEF ThreadDelay
<1>6. UpperLag'
    BY Zenon, <1>1, <1>5 DEF ThreadLag, UpperLag, BehindBy
<1>7. ThreadLag'
    BY Zenon, <1>1, <1>5, <1>6 DEF ThreadLag, BehindBy
<1> QED BY Zenon, <1>3, <1>4, <1>7 DEF ClockInv

(* The remainder of a sum. *)
LEMMA Remainder ==
    ASSUME NEW x \in Int, NEW k \in Int, NEW n \in Nat \ {0}
    PROVE  ((x % n) + k) % n = (x + k) % n /\ x % n \in 0..(n - 1)
<1>1. \A y \in Int : y \div n \in Int /\ y % n \in 0..(n - 1) /\ y = n * (y \div n) + (y % n)
    BY SMT
<1> DEFINE q == x \div n
           r == x % n
           p == (r + k) \div n
           s == (r + k) % n
<1>2. q \in Int /\ r \in 0..(n - 1) /\ x = n * q + r
    BY Zenon, <1>1
<1> HIDE DEF q, r
<1>3. r + k \in Int
    BY <1>2
<1>4. p \in Int /\ s \in 0..(n - 1) /\ r + k = n * p + s
    BY Zenon, <1>1, <1>3
<1> HIDE DEF p, s
<1>5. x + k = (q + p) * n + s /\ q + p \in Int
    BY <1>2, <1>4
<1>6. ((q + p) * n + s) % n = s
    BY Zenon, <1>4, <1>5, DivisionUnique
<1>7. (x + k) % n = s
    BY Zenon, <1>5, <1>6
<1> QED BY Zenon, <1>2, <1>7 DEF r, s

(* m_pendingSize and what it counts. *)
Counting == {t \in Timer : adder[t] = "count"}

Pending == Len(m_pendingQueue) + Cardinality(batch) - Cardinality(Counting)

(* m_pendingSize is Pending as a number of its width, which may be behind or ahead of the queue. *)
LEMMA PendingFacts ==
    ASSUME WheelFacts, QueueInv
    PROVE  /\ m_pendingSize = Pending % SizeRange /\ Pending \in Int
           /\ Len(m_pendingQueue) \in Nat /\ Cardinality(batch) \in Nat
           /\ Cardinality(Counting) \in Nat /\ SizeRange \in Nat \ {0}
           /\ Counting \subseteq Timer
<1>1. m_pendingSize = Pending % SizeRange
    BY Zenon DEF QueueInv, PendingAccounts, Pending, Counting
<1>2. Counting \subseteq Timer
    BY Zenon DEF Counting
<1>3. Cardinality(batch) \in Nat /\ Cardinality(Counting) \in Nat
    BY Zenon, <1>2, Sizes DEF QueueInv, TypeOK
<1>4. Len(m_pendingQueue) \in Nat
    BY DEF QueueInv, TypeOK
<1>5. Pending \in Int
    BY <1>3, <1>4 DEF Pending
<1> QED BY Zenon, <1>1, <1>2, <1>3, <1>4, <1>5, SafeAssumption

(* The steps of a thread that adds a timer, and cancel(). *)
LEMMA AddTimerKeeps ==
    ASSUME WheelFacts, SafeInv, NEW t \in Timer, AddTimer(t)
    PROVE  SafeInv'
<1>0. /\ adder[t] = "idle"
      /\ adder' = [adder EXCEPT ![t] = "enqueue"] \/ adder' = [adder EXCEPT ![t] = "refused"]
      /\ UNCHANGED <<now, m_startTime, m_currentTick, wheel, m_wheelSize, m_pendingQueue,
                     m_pendingSize, m_running, m_stopFlag, thread, batch, last, slept,
                     expire, state, cancelled, early, behind>>
    BY Zenon DEF AddTimer, wheelVars, stopVars, threadVars, timerVars
<1>1. TypeOK /\ Places /\ NoneMissing /\ PendingAccounts
    BY Zenon DEF SafeInv, QueueInv
<1>2. /\ adder' \in [Timer -> {"idle", "enqueue", "count", "added", "refused"}]
      /\ \A u \in Timer : adder[u] \in {"count", "added"} <=> adder'[u] \in {"count", "added"}
      /\ \A u \in Timer : adder[u] = "count" <=> adder'[u] = "count"
    BY Zenon, <1>0, <1>1 DEF TypeOK
<1>3. TypeOK'
    BY Zenon, <1>0, <1>1, <1>2 DEF TypeOK
<1>4. Queued' = Queued /\ (QueuedOnce => QueuedOnce')
    BY Zenon, <1>0 DEF Queued, QueuedOnce
<1>5. \A u \in Queued \cup batch \cup InWheel(wheel) : u \in Timer
    BY <1>1, InWheelDef DEF TypeOK, Queued
<1>6. Places'
    BY Zenon, <1>0, <1>1, <1>2, <1>4, <1>5 DEF Places
<1>7. NoneMissing'
    BY Zenon, <1>0, <1>1, <1>2, <1>4 DEF NoneMissing
<1>8. {u \in Timer : adder'[u] = "count"} = {u \in Timer : adder[u] = "count"}
    BY Zenon, <1>2
<1>9. PendingAccounts'
    BY Zenon, <1>0, <1>1, <1>8 DEF PendingAccounts
<1>10. ClockInv' /\ (m_wheelSize = Cardinality(InWheel(wheel)))'
    <2>1. cancelled \subseteq cancelled' /\ \A u \in InWheel(wheel) : expire'[u] = expire[u]
        BY Zenon, <1>0
    <2> QED BY Zenon, <1>0, <2>1, ClockStays
<1> QED BY Zenon, <1>3, <1>6, <1>7, <1>9, <1>10 DEF SafeInv, QueueInv

(* push() puts a timer into the queue. *)
LEMMA EnqueueKeeps ==
    ASSUME WheelFacts, SafeInv, NEW t \in Timer, NEW d \in Delay, Enqueue(t, d)
    PROVE  SafeInv'
<1>0. /\ adder[t] = "enqueue" /\ expire' = [expire EXCEPT ![t] = now + d]
      /\ m_pendingQueue' = Append(m_pendingQueue, t) /\ adder' = [adder EXCEPT ![t] = "count"]
      /\ UNCHANGED <<now, m_startTime, m_currentTick, wheel, m_wheelSize,
                     m_pendingSize, m_running, m_stopFlag, thread, batch, last, slept,
                     state, cancelled, early, behind>>
    BY Zenon DEF Enqueue, wheelVars, stopVars, threadVars
<1>1. TypeOK /\ Places /\ NoneMissing /\ PendingAccounts /\ QueueInv
    BY Zenon DEF SafeInv, QueueInv
<1>2. /\ adder' \in [Timer -> {"idle", "enqueue", "count", "added", "refused"}]
      /\ adder'[t] = "count" /\ \A u \in Timer \ {t} : adder'[u] = adder[u]
    BY Zenon, <1>0, <1>1 DEF TypeOK
<1>3. m_pendingQueue \in Seq(Timer) /\ expire \in [Timer -> Nat] /\ now \in Nat /\ d \in Nat
    BY <1>1, Numbers DEF TypeOK
<1>4. m_pendingQueue' \in Seq(Timer) /\ expire' \in [Timer -> Nat]
    BY <1>0, <1>3
<1>5. TypeOK'
    BY Zenon, <1>0, <1>1, <1>2, <1>4 DEF TypeOK
<1>6. t \notin Queued /\ t \notin batch /\ t \notin InWheel(wheel) /\ state[t] = "new"
    BY Zenon, <1>0, <1>1 DEF Places
<1>7. Queued' = Queued \cup {t}
    <2> DEFINE n == Len(m_pendingQueue)
    <2>1. /\ n \in Nat /\ DOMAIN m_pendingQueue = 1..n /\ DOMAIN m_pendingQueue' = 1..(n + 1)
          /\ \A k \in 1..n : m_pendingQueue'[k] = m_pendingQueue[k]
          /\ m_pendingQueue'[n + 1] = t
        BY SMTT(60), <1>0, <1>3
    <2> HIDE DEF n
    <2>2. \A k : k \in 1..(n + 1) <=> k \in 1..n \/ k = n + 1
        <3>1. n \in Nat
            BY Zenon, <2>1
        <3> QED BY SMTT(60), <3>1
    <2>3. Queued' = {m_pendingQueue'[k] : k \in 1..(n + 1)} /\ Queued = {m_pendingQueue[k] : k \in 1..n}
        BY Zenon, <2>1 DEF Queued
    <2>4. n + 1 \in 1..(n + 1)
        BY <2>1
    <2> QED BY Zenon, <2>1, <2>2, <2>3, <2>4
<1>8. QueuedOnce'
    <2> SUFFICES ASSUME NEW i \in DOMAIN m_pendingQueue', NEW j \in DOMAIN m_pendingQueue',
                        m_pendingQueue'[i] = m_pendingQueue'[j]
                 PROVE  i = j
        BY Zenon DEF QueuedOnce
    <2> DEFINE n == Len(m_pendingQueue)
    <2>1. /\ n \in Nat /\ i \in 1..(n + 1) /\ j \in 1..(n + 1) /\ DOMAIN m_pendingQueue = 1..n
          /\ \A k \in 1..n : m_pendingQueue'[k] = m_pendingQueue[k]
          /\ m_pendingQueue'[n + 1] = t
        BY <1>0, <1>3
    <2>2. \A k \in 1..n : m_pendingQueue[k] # t
        BY Zenon, <1>6, <2>1 DEF Queued
    <2>3. \A k, l \in 1..n : m_pendingQueue[k] = m_pendingQueue[l] => k = l
        BY Zenon, <1>1, <2>1 DEF Places, QueuedOnce
    <2> HIDE DEF n
    <2> QED BY <2>1, <2>2, <2>3
<1>9. \A u \in Queued \cup batch \cup InWheel(wheel) : u \in Timer
    BY <1>1, InWheelDef DEF TypeOK, Queued
<1>10. Places'
    <2>1. Queued' \cap batch' = {} /\ Apart(wheel') /\ (thread' # "batch" => batch' = {})
        BY Zenon, <1>0, <1>1, <1>6, <1>7 DEF Places
    <2>2. /\ \A u \in Queued' \cup batch' : adder'[u] \in {"count", "added"} /\ state'[u] = "new"
          /\ \A u \in InWheel(wheel') : adder'[u] \in {"count", "added"} /\ state'[u] = "set"
          /\ \A u \in Timer : state'[u] # "new" => adder'[u] \in {"count", "added"}
        BY Zenon, <1>0, <1>1, <1>2, <1>6, <1>7, <1>9 DEF Places
    <2> QED BY Zenon, <1>8, <2>1, <2>2 DEF Places
<1>11. NoneMissing'
    <2> SUFFICES ASSUME NEW u \in Timer \ cancelled, adder'[u] \in {"count", "added"}
                 PROVE  /\ state[u] = "new" => u \in Queued' \cup batch
                        /\ state[u] = "set" => u \in InWheel(wheel)
        BY Zenon, <1>0 DEF NoneMissing
    <2>1. CASE u = t
        BY Zenon, <1>6, <1>7, <2>1
    <2>2. CASE u # t
        <3>1. adder[u] \in {"count", "added"}
            BY Zenon, <1>2, <2>2
        <3> QED BY Zenon, <1>1, <1>7, <3>1 DEF NoneMissing
    <2> QED BY Zenon, <2>1, <2>2
<1>12. PendingAccounts'
    <2>1. Counting' = Counting \cup {t} /\ Counting \cap {t} = {}
        BY Zenon, <1>0, <1>2 DEF Counting
    <2>2. Cardinality({t}) = 1
        BY Zenon DEF WheelFacts, SmallSizes
    <2>3. Cardinality(Counting') = Cardinality(Counting) + 1
        BY <1>1, <2>1, <2>2, PendingFacts, Sizes
    <2>4. Len(m_pendingQueue') = Len(m_pendingQueue) + 1
        BY <1>0, <1>3
    <2>5. Pending' = Pending
        BY <1>0, <1>1, <2>3, <2>4, PendingFacts DEF Pending
    <2> QED BY Zenon, <1>0, <1>1, <2>5, PendingFacts DEF PendingAccounts, Pending, Counting
<1>13. ClockInv' /\ (m_wheelSize = Cardinality(InWheel(wheel)))'
    <2>1. cancelled \subseteq cancelled' /\ \A u \in InWheel(wheel) : expire'[u] = expire[u]
        BY Zenon, <1>0, <1>3, <1>6, <1>9
    <2> QED BY Zenon, <1>0, <2>1, ClockStays
<1> QED BY Zenon, <1>5, <1>10, <1>11, <1>12, <1>13 DEF SafeInv, QueueInv

(* push() counts it. *)
LEMMA CountPendingKeeps ==
    ASSUME WheelFacts, SafeInv, NEW t \in Timer, CountPending(t)
    PROVE  SafeInv'
<1>0. /\ adder[t] = "count" /\ adder' = [adder EXCEPT ![t] = "added"]
      /\ m_pendingSize' = (m_pendingSize + 1) % SizeRange
      /\ UNCHANGED <<now, m_startTime, m_currentTick, wheel, m_wheelSize, m_pendingQueue,
                     m_running, m_stopFlag, thread, batch, last, slept,
                     expire, state, cancelled, early, behind>>
    BY Zenon DEF CountPending, wheelVars, stopVars, threadVars, timerVars
<1>1. TypeOK /\ Places /\ NoneMissing /\ PendingAccounts /\ QueueInv
    BY Zenon DEF SafeInv, QueueInv
<1>2. /\ adder' \in [Timer -> {"idle", "enqueue", "count", "added", "refused"}]
      /\ \A u \in Timer : adder[u] \in {"count", "added"} <=> adder'[u] \in {"count", "added"}
      /\ \A u \in Timer : adder'[u] = "count" <=> adder[u] = "count" /\ u # t
    BY Zenon, <1>0, <1>1 DEF TypeOK
<1>3. Counting' = Counting \ {t} /\ {t} \subseteq Counting
    BY Zenon, <1>0, <1>2 DEF Counting
<1>4. Cardinality(Counting') = Cardinality(Counting) - 1
    <2>1. Cardinality({t}) = 1
        BY Zenon DEF WheelFacts, SmallSizes
    <2> QED BY <1>1, <1>3, <2>1, PendingFacts, Sizes
<1>5. Pending' = Pending + 1
    BY <1>0, <1>1, <1>4, PendingFacts DEF Pending
<1>6. m_pendingSize' = (Pending + 1) % SizeRange /\ m_pendingSize' \in 0..(SizeRange - 1)
    <2>1. Pending \in Int /\ 1 \in Int /\ SizeRange \in Nat \ {0} /\ Pending + 1 \in Int
        BY <1>1, PendingFacts
    <2>2. ((Pending % SizeRange) + 1) % SizeRange = (Pending + 1) % SizeRange
        BY Zenon, <2>1, Remainder
    <2>3. (Pending + 1) % SizeRange \in 0..(SizeRange - 1)
        BY Zenon, <2>1, Remainder
    <2> QED BY Zenon, <1>0, <1>1, <2>2, <2>3, PendingFacts
<1>7. PendingAccounts'
    BY Zenon, <1>5, <1>6 DEF PendingAccounts, Pending, Counting
<1>8. TypeOK'
    BY Zenon, <1>0, <1>1, <1>2, <1>6 DEF TypeOK
<1>9. Queued' = Queued /\ (QueuedOnce => QueuedOnce')
    BY Zenon, <1>0 DEF Queued, QueuedOnce
<1>10. \A u \in Queued \cup batch \cup InWheel(wheel) : u \in Timer
    BY <1>1, InWheelDef DEF TypeOK, Queued
<1>11. Places'
    BY Zenon, <1>0, <1>1, <1>2, <1>9, <1>10 DEF Places
<1>12. NoneMissing'
    BY Zenon, <1>0, <1>1, <1>2, <1>9 DEF NoneMissing
<1>13. ClockInv' /\ (m_wheelSize = Cardinality(InWheel(wheel)))'
    <2>1. cancelled \subseteq cancelled' /\ \A u \in InWheel(wheel) : expire'[u] = expire[u]
        BY Zenon, <1>0
    <2> QED BY Zenon, <1>0, <2>1, ClockStays
<1> QED BY Zenon, <1>7, <1>8, <1>11, <1>12, <1>13 DEF SafeInv, QueueInv

(* A timer is cancelled where it is. *)
LEMMA CancelKeeps ==
    ASSUME WheelFacts, SafeInv, NEW t \in Timer, Cancel(t)
    PROVE  SafeInv'
<1>0. /\ cancelled' = cancelled \cup {t}
      /\ UNCHANGED <<now, m_startTime, m_currentTick, wheel, m_wheelSize, m_pendingQueue,
                     m_pendingSize, m_running, m_stopFlag, thread, batch, last, slept, adder,
                     expire, state, early, behind>>
    BY Zenon DEF Cancel, wheelVars, stopVars, threadVars
<1>1. TypeOK /\ Places /\ NoneMissing /\ PendingAccounts
    BY Zenon DEF SafeInv, QueueInv
<1>2. cancelled \subseteq cancelled' /\ (cancelled \subseteq Timer => cancelled' \subseteq Timer)
    BY Zenon, <1>0
<1>3. TypeOK'
    BY Zenon, <1>0, <1>1, <1>2 DEF TypeOK
<1>4. Queued' = Queued /\ (QueuedOnce => QueuedOnce')
    BY Zenon, <1>0 DEF Queued, QueuedOnce
<1>5. Places' /\ PendingAccounts'
    BY Zenon, <1>0, <1>1, <1>4 DEF Places, PendingAccounts
<1>6. NoneMissing'
    BY Zenon, <1>0, <1>1, <1>2, <1>4 DEF NoneMissing
<1>7. ClockInv' /\ (m_wheelSize = Cardinality(InWheel(wheel)))'
    <2>1. \A u \in InWheel(wheel) : expire'[u] = expire[u]
        BY Zenon, <1>0
    <2> QED BY Zenon, <1>0, <1>2, <2>1, ClockStays
<1> QED BY Zenon, <1>3, <1>5, <1>6, <1>7 DEF SafeInv, QueueInv

(* Taking a batch splits the queue. *)
LEMMA DequeueBatchKeeps ==
    ASSUME WheelFacts, SafeInv, DequeueBatch
    PROVE  SafeInv'
<1> DEFINE q == m_pendingQueue
           L == Len(q)
           n == IF L < BATCH_SIZE THEN L ELSE BATCH_SIZE
<1>0. /\ thread = "pending" /\ thread' = "batch"
      /\ batch' = {q[i] : i \in 1..n} /\ m_pendingQueue' = SubSeq(q, n + 1, L)
      /\ UNCHANGED <<now, m_startTime, m_currentTick, wheel, m_wheelSize,
                     m_pendingSize, m_running, m_stopFlag, last, slept, adder,
                     expire, state, cancelled, early, behind>>
    BY Zenon DEF DequeueBatch, wheelVars, stopVars, timerVars
<1>1. TypeOK /\ Places /\ NoneMissing /\ PendingAccounts /\ QueueInv
    BY Zenon DEF SafeInv, QueueInv
<1>2. q \in Seq(Timer) /\ L \in Nat /\ n \in 0..L /\ DOMAIN q = 1..L /\ BATCH_SIZE \in Nat
    BY <1>1, SafeAssumption DEF TypeOK
<1> HIDE DEF n
<1>3. /\ m_pendingQueue' \in Seq(Timer) /\ Len(m_pendingQueue') = L - n
      /\ DOMAIN m_pendingQueue' = 1..(L - n)
      /\ \A i \in 1..(L - n) : m_pendingQueue'[i] = q[i + n]
    BY <1>0, <1>2
<1>4. batch' \subseteq Timer
    BY <1>0, <1>2
<1>5. TypeOK'
    BY Zenon, <1>0, <1>1, <1>3, <1>4 DEF TypeOK
<1>6. batch = {} /\ QueuedOnce
    BY Zenon, <1>0, <1>1 DEF Places
<1>7. \A i, j \in 1..L : q[i] = q[j] => i = j
    BY Zenon, <1>2, <1>6 DEF QueuedOnce
<1>8. Queued' = {q[i] : i \in (n + 1)..L}
    <2>1. Queued' = {q[i + n] : i \in 1..(L - n)}
        BY Zenon, <1>3 DEF Queued
    <2>2. \A i \in 1..(L - n) : i + n \in (n + 1)..L
        BY <1>2
    <2>3. \A i \in (n + 1)..L : i - n \in 1..(L - n) /\ (i - n) + n = i
        BY <1>2
    <2> QED BY Zenon, <2>1, <2>2, <2>3
<1>9. Queued = {q[i] : i \in 1..L}
    BY Zenon, <1>2 DEF Queued
<1>10. Queued' \cap batch' = {} /\ Queued' \cup batch' = Queued
    <2>1. \A i \in (n + 1)..L, j \in 1..n : q[i] # q[j]
        BY <1>2, <1>7
    <2>2. \A i : i \in 1..L <=> i \in 1..n \/ i \in (n + 1)..L
        BY <1>2
    <2> QED BY Zenon, <1>0, <1>8, <1>9, <2>1, <2>2
<1>11. QueuedOnce'
    <2>1. \A i, j \in 1..(L - n) : i + n \in 1..L /\ (i + n = j + n => i = j)
        BY <1>2
    <2>2. \A i, j \in 1..(L - n) : m_pendingQueue'[i] = m_pendingQueue'[j] => i = j
        BY Zenon, <1>3, <1>7, <2>1
    <2> QED BY Zenon, <1>3, <2>2 DEF QueuedOnce
<1>12. Places'
    <2>1. thread' = "batch"
        BY Zenon, <1>0
    <2> QED BY Zenon, <1>0, <1>1, <1>6, <1>10, <1>11, <2>1 DEF Places
<1>13. NoneMissing'
    BY Zenon, <1>0, <1>1, <1>6, <1>10 DEF NoneMissing
<1>14. Cardinality(batch') = n
    <2> DEFINE f == [i \in 1..n |-> q[i]]
    <2>1. f \in [1..n -> Timer] /\ n \in Nat /\ \A i \in 1..n : f[i] = q[i]
        BY <1>2
    <2>2. \A i, j \in 1..n : f[i] = f[j] => i = j
        BY <1>2, <1>7
    <2>3. batch' = {f[i] : i \in 1..n}
        BY Zenon, <1>0
    <2> HIDE DEF f
    <2>4. Cardinality({f[i] : i \in 1..n}) = n
        BY Zenon, <2>1, <2>2 DEF WheelFacts, SmallSizes
    <2> QED BY Zenon, <2>3, <2>4
<1>15. PendingAccounts'
    <2>1. Cardinality(batch) = 0
        BY Zenon, <1>6 DEF WheelFacts, SmallSizes
    <2>2. Counting' = Counting
        BY Zenon, <1>0 DEF Counting
    <2>3. Pending' = Pending
        <3>1. Cardinality(Counting) \in Nat
            BY Zenon, <1>1, PendingFacts
        <3>2. (L - n) + n - Cardinality(Counting) = L + 0 - Cardinality(Counting)
            BY <1>2, <3>1
        <3> QED BY Zenon, <1>3, <1>14, <2>1, <2>2, <3>2 DEF Pending
    <2> QED BY Zenon, <1>0, <1>1, <2>3, PendingFacts DEF PendingAccounts, Pending, Counting
<1>16. ClockInv' /\ (m_wheelSize = Cardinality(InWheel(wheel)))'
    <2>1. cancelled \subseteq cancelled' /\ \A u \in InWheel(wheel) : expire'[u] = expire[u]
        BY Zenon, <1>0
    <2>2. thread \in {"pending", "batch"} /\ thread' \in {"pending", "batch"}
        BY Zenon, <1>0
    <2> QED BY Zenon, <1>0, <2>1, <2>2, ClockStays
<1> QED BY Zenon, <1>5, <1>12, <1>13, <1>15, <1>16 DEF SafeInv, QueueInv

(* A timer that is not cancelled is due, or placed in the wheel, or out of range. *)
LEMMA Sorting ==
    ASSUME WheelFacts, WheelTypes, NEW timers \in SUBSET Timer
    PROVE  /\ \A t \in timers \ cancelled :
                  t \in Due(timers) \/ t \in Placed(timers) \/ t \in OutOfRange(timers)
           /\ Due(timers) \cap Placed(timers) = {} /\ OutOfRange(timers) \cap Placed(timers) = {}
           /\ Due(timers) \subseteq timers /\ Placed(timers) \subseteq timers
           /\ OutOfRange(timers) \subseteq timers
           /\ \A t \in Due(timers) : expire[t] < now + m_tickDuration
<1>1. ASSUME NEW t \in timers \ cancelled
      PROVE  /\ Remaining(t) \in Nat
             /\ Remaining(t) = 0 => expire[t] < now + m_tickDuration
    <2>1. t \in Timer /\ expire[t] \in Nat /\ now \in Nat /\ m_tickDuration \in Nat \ {0}
        BY Zenon, Numbers DEF WheelTypes
    <2>2. CASE expire[t] <= now
        BY <2>1, <2>2 DEF Remaining
    <2>3. CASE ~(expire[t] <= now)
        <3> DEFINE r == (expire[t] - now) \div m_tickDuration
        <3>1. expire[t] - now \in Nat /\ Remaining(t) = r
            BY <2>1, <2>3 DEF Remaining
        <3>2. r \in Nat /\ expire[t] - now < r * m_tickDuration + m_tickDuration
            BY Zenon, <2>1, <3>1, Division
        <3> HIDE DEF r
        <3> QED BY <2>1, <3>1, <3>2
    <2> QED BY Zenon, <2>2, <2>3
<1>2. \A t \in timers \ cancelled :
          Remaining(t) = 0 \/ Remaining(t) \in 1..(MaxSpan - 1) \/ Remaining(t) >= MaxSpan
    BY <1>1, Numbers
<1>3. \A t \in timers \ cancelled :
          t \in Due(timers) \/ t \in Placed(timers) \/ t \in OutOfRange(timers)
    BY Zenon, <1>2 DEF Due, Placed, OutOfRange, Live
<1>4. Due(timers) \cap Placed(timers) = {} /\ OutOfRange(timers) \cap Placed(timers) = {}
    BY Numbers DEF Due, Placed, OutOfRange
<1>5. /\ Due(timers) \subseteq timers /\ Placed(timers) \subseteq timers
      /\ OutOfRange(timers) \subseteq timers
    BY Zenon DEF Due, Placed, OutOfRange, Live
<1>6. \A t \in Due(timers) : expire[t] < now + m_tickDuration
    <2>1. \A t \in Due(timers) : t \in timers \ cancelled /\ Remaining(t) = 0
        BY Zenon DEF Due, Live
    <2> QED BY Zenon, <1>1, <2>1
<1> QED BY Zenon, <1>3, <1>4, <1>5, <1>6

(* Where a timer of the batch goes. *)
Into(t) == Position(Remaining(t), Elapsed + Remaining(t))

(* It is looked at in time; at level 1, when it is nearly due. *)
LEMMA Entering ==
    ASSUME WheelFacts, WheelTypes, m_startTime <= now,
           m_startTime + m_currentTick * m_tickDuration <= now,
           batch \subseteq Timer, NEW t \in Placed(batch)
    PROVE  /\ Into(t) \in WheelSlots
           /\ \E v \in Nat \ {0} : /\ m_currentTick <= v /\ Visits(v, Into(t))
                                   /\ m_startTime + v * m_tickDuration <= expire[t] + 0
           /\ Into(t)[1] = 1 /\ ~TooFarBehind(t) => \E v \in Nat :
                  /\ m_currentTick <= v /\ v < m_currentTick + Span[1] /\ SlotAt(1, v) = Into(t)
                  /\ expire[t] < m_startTime + (v + 2) * m_tickDuration + MaxLag
           /\ Into(t)[1] # 1 /\ ~TooFarBehind(t) => BehindBy(MaxLag)
<1> DEFINE r == Remaining(t)
           R == r * m_tickDuration
           E == Elapsed
           P == E * m_tickDuration
           C == m_currentTick * m_tickDuration
<1>1. /\ t \in Timer /\ r \in Nat \ {0} /\ r < MaxSpan
      /\ ~(expire[t] <= now) /\ r = (expire[t] - now) \div m_tickDuration
    BY Zenon, RemainingFacts
<1>2. /\ E \in Nat /\ P \in Nat /\ m_startTime + P <= now
      /\ now < m_startTime + P + m_tickDuration
    BY Zenon, ElapsedFacts
<1>3. /\ now \in Nat /\ m_startTime \in Nat /\ m_currentTick \in Nat /\ expire[t] \in Nat
      /\ expire[t] - now \in Nat
    BY <1>1 DEF WheelTypes
<1>4. R <= expire[t] - now /\ expire[t] - now < R + m_tickDuration
    BY ZenonT(60), <1>1, <1>3, Numbers, Division
<1>5. Into(t) = Position(r, E + r)
    BY Zenon DEF Into
<1>6. TooFarBehind(t) <=>
         \/ Into(t)[1] = 1 /\ E + r >= m_currentTick + Span[1]
         \/ Into(t)[1] # 1 /\ now >= m_startTime + (m_currentTick + 1) * m_tickDuration + MaxLag
    BY Zenon DEF TooFarBehind, Into
<1> HIDE DEF r, E
<1>7. /\ Into(t) \in WheelSlots
      /\ \E v \in Nat \ {0} : E < v /\ v <= E + r /\ Visits(v, Into(t))
      /\ Into(t)[1] = 1 => r < Span[1] /\ Into(t) = SlotAt(1, E + r)
    BY ZenonT(60), <1>1, <1>2, <1>5, Placement
<1>8. R \in Nat /\ C \in Nat /\ (E + r) * m_tickDuration = P + R
      /\ (E + r + 2) * m_tickDuration = P + R + 2 * m_tickDuration
    BY <1>1, <1>2, <1>3, Numbers
<1>9. m_currentTick <= E
    <2>1. E < m_currentTick => P + m_tickDuration <= C
        BY Zenon, <1>2, <1>3, Numbers, Scale
    <2> HIDE DEF P, C
    <2>2. m_startTime + C <= now
        BY Zenon DEF C
    <2> QED BY <1>2, <1>3, <1>8, <2>1, <2>2, Numbers
<1>10. \E v \in Nat \ {0} : /\ m_currentTick <= v /\ Visits(v, Into(t))
                            /\ m_startTime + v * m_tickDuration <= expire[t] + 0
    <2>1. PICK v \in Nat \ {0} : E < v /\ v <= E + r /\ Visits(v, Into(t))
        BY Zenon, <1>7
    <2>2. m_currentTick <= v
        BY <1>2, <1>3, <1>9, <2>1
    <2> DEFINE V == v * m_tickDuration
    <2>3. V <= P + R /\ V \in Nat
        <3>1. E + r \in Nat
            BY <1>1, <1>2
        <3> QED BY <1>8, <2>1, <3>1, Numbers, Scale
    <2> HIDE DEF V, P, R
    <2>4. m_startTime + V <= expire[t] + 0
        BY <1>2, <1>3, <1>4, <1>8, <2>3, Numbers
    <2> QED BY Zenon, <2>1, <2>2, <2>4 DEF V
<1>11. ASSUME Into(t)[1] = 1, ~TooFarBehind(t)
       PROVE  \E v \in Nat :
                  /\ m_currentTick <= v /\ v < m_currentTick + Span[1] /\ SlotAt(1, v) = Into(t)
                  /\ expire[t] < m_startTime + (v + 2) * m_tickDuration + MaxLag
    <2>1. E + r \in Nat /\ m_currentTick <= E + r
        BY <1>1, <1>2, <1>3, <1>9
    <2>2. ~(E + r >= m_currentTick + Span[1])
        BY Zenon, <1>6, <1>11
    <2>3. E + r < m_currentTick + Span[1]
        BY <1>3, <2>1, <2>2, Numbers
    <2> HIDE DEF P, R
    <2>4. expire[t] < m_startTime + (P + R + 2 * m_tickDuration) + MaxLag
        BY <1>2, <1>3, <1>4, <1>8, Numbers
    <2>5. expire[t] < m_startTime + (E + r + 2) * m_tickDuration + MaxLag
        BY Zenon, <1>8, <2>4
    <2> QED BY Zenon, <1>7, <1>11, <2>1, <2>3, <2>5
<1>12. ASSUME Into(t)[1] # 1, ~TooFarBehind(t)
       PROVE  BehindBy(MaxLag)
    <2> DEFINE B == m_startTime + (m_currentTick + 1) * m_tickDuration + MaxLag
    <2>1. ~(now >= B)
        BY Zenon, <1>6, <1>12
    <2>2. B \in Nat
        BY <1>3, Numbers
    <2> HIDE DEF B
    <2>3. now < B
        BY <1>3, <2>1, <2>2
    <2> QED BY Zenon, <2>3 DEF B, BehindBy
<1> QED BY Zenon, <1>7, <1>10, <1>11, <1>12

(* The thread puts the batch it took from the queue into the wheel. *)
LEMMA AddBatchKeeps ==
    ASSUME WheelFacts, SafeInv, AddBatch
    PROVE  SafeInv'
<1> DEFINE P == Placed(batch)
           D == Due(batch)
           O == OutOfRange(batch)
<1>0. /\ thread = "batch" /\ thread' = "pending" /\ batch' = {}
      /\ m_pendingSize' = (m_pendingSize - Cardinality(batch)) % SizeRange
      /\ wheel' = [s \in WheelSlots |-> wheel[s] \cup {t \in P : Into(t) = s}]
      /\ m_wheelSize' = m_wheelSize + Cardinality(P)
      /\ HandleTimeouts(D, expire)
      /\ state' = [t \in Timer |-> IF t \in P THEN "set" ELSE IF t \in D THEN "handled"
                                   ELSE IF t \in O THEN "dropped" ELSE state[t]]
      /\ behind' = behind \cup {t \in P : TooFarBehind(t)}
      /\ UNCHANGED <<now, m_startTime, m_currentTick, m_pendingQueue, m_running, m_stopFlag,
                     last, slept, adder, expire, cancelled>>
    BY Zenon DEF AddBatch, AddToWheel, Into, stopVars
<1>1. /\ TypeOK /\ Places /\ NoneMissing /\ PendingAccounts /\ QueueInv
      /\ m_wheelSize = Cardinality(InWheel(wheel))
      /\ ThreadLag /\ UpperLag /\ Reached(0) /\ NearlyDue /\ HardlyEarly
      /\ m_startTime + m_currentTick * m_tickDuration <= now
    BY Zenon DEF SafeInv, QueueInv, ClockInv, ThreadLag
<1>2. /\ WheelTypes /\ Apart(wheel) /\ m_startTime <= now /\ InWheel(wheel) \subseteq Timer
      /\ early \in [Timer -> Nat] /\ m_wheelSize \in Nat
    BY Zenon, <1>1, SafeTypes
<1>3. batch \subseteq Timer
    BY Zenon, <1>1 DEF TypeOK
<1>4. /\ \A t \in batch \ cancelled : t \in D \/ t \in P \/ t \in O
      /\ D \cap P = {} /\ D \subseteq batch /\ P \subseteq batch /\ O \subseteq batch
      /\ \A t \in D : expire[t] < now + m_tickDuration
    BY Zenon, <1>2, <1>3, Sorting
<1>5. \A t \in P : Into(t) \in WheelSlots
    BY Zenon, <1>1, <1>2, <1>3, Entering
<1> HIDE DEF P, D, O
<1>6. \A t \in batch : t \notin InWheel(wheel) /\ t \notin Queued /\ state[t] = "new" /\ t \in Timer
    BY Zenon, <1>1, <1>3 DEF Places
<1>7. /\ wheel \in [WheelSlots -> SUBSET Timer] /\ wheel' \in [WheelSlots -> SUBSET Timer]
      /\ \A s \in WheelSlots : \A u : u \in wheel'[s] <=> (u \in wheel[s] \/ (u \in P /\ Into(u) = s))
    BY Zenon, <1>0, <1>2, <1>3, <1>4 DEF WheelTypes
<1>8. \A u \in P : \A s \in WheelSlots : u \notin wheel[s]
    BY Zenon, <1>4, <1>6, InWheelDef
<1>9. Apart(wheel')
    <2> SUFFICES ASSUME NEW s \in WheelSlots, NEW r \in WheelSlots, s # r,
                        NEW u \in wheel'[s], u \in wheel'[r]
                 PROVE  FALSE
        BY Zenon DEF Apart
    <2>1. u \in wheel[s] \/ (u \in P /\ Into(u) = s)
        BY Zenon, <1>7
    <2>2. u \in wheel[r] \/ (u \in P /\ Into(u) = r)
        BY Zenon, <1>7
    <2>3. ~(u \in wheel[s] /\ u \in wheel[r])
        BY Zenon, <1>2 DEF Apart
    <2> QED BY Zenon, <1>8, <2>1, <2>2, <2>3
<1>10. InWheel(wheel') = InWheel(wheel) \cup P
    <2>1. \A u : u \in InWheel(wheel') <=> \E s \in WheelSlots : u \in wheel'[s]
        BY Zenon, InWheelDef
    <2>2. \A u : u \in InWheel(wheel) <=> \E s \in WheelSlots : u \in wheel[s]
        BY Zenon, InWheelDef
    <2>3. ASSUME NEW u \in InWheel(wheel') PROVE u \in InWheel(wheel) \/ u \in P
        <3>1. PICK s \in WheelSlots : u \in wheel'[s]
            BY Zenon, <2>1, <2>3
        <3> QED BY Zenon, <1>7, <2>2, <3>1
    <2>4. \A u : u \in InWheel(wheel) => u \in InWheel(wheel')
        BY Zenon, <1>7, <2>1, <2>2
    <2>5. \A u \in P : u \in InWheel(wheel')
        BY Zenon, <1>5, <1>7, <2>1
    <2> QED BY Zenon, <2>3, <2>4, <2>5
<1>11. /\ m_wheelSize' = Cardinality(InWheel(wheel')) /\ m_wheelSize' \in 0..Cardinality(Timer)
    <2>1. InWheel(wheel) \cap P = {} /\ P \in SUBSET Timer /\ InWheel(wheel) \in SUBSET Timer
        BY Zenon, <1>2, <1>3, <1>4, <1>6
    <2>2. Cardinality(InWheel(wheel) \cup P) = Cardinality(InWheel(wheel)) + Cardinality(P)
        BY Zenon, <2>1, Sizes
    <2>3. m_wheelSize' = Cardinality(InWheel(wheel'))
        BY Zenon, <1>0, <1>1, <1>10, <2>2
    <2>4. InWheel(wheel') \in SUBSET Timer /\ Timer \in SUBSET Timer
        BY Zenon, <1>10, <2>1
    <2>5. Cardinality(InWheel(wheel')) \in Nat /\ Cardinality(Timer) \in Nat
          /\ Cardinality(InWheel(wheel')) <= Cardinality(Timer)
        BY Zenon, <2>4, Sizes
    <2> QED BY <2>3, <2>5
<1>12. behind \subseteq behind' /\ behind' \subseteq Timer
    BY Zenon, <1>0, <1>1, <1>3, <1>4 DEF TypeOK
<1>13. /\ state' \in [Timer -> {"new", "set", "handled", "dropped"}]
       /\ \A u \in P : state'[u] = "set"
       /\ \A u \in D : state'[u] = "handled"
       /\ \A u \in O \ P : state'[u] \notin {"new", "set"}
       /\ \A u \in Timer \ batch : state'[u] = state[u]
       /\ \A u \in Timer : state'[u] = "set" => u \in P \/ state[u] = "set"
       /\ \A u \in Timer : state'[u] = "new" => state[u] = "new" /\ u \notin D \cup P \cup O
    BY Zenon, <1>0, <1>1, <1>3, <1>4 DEF TypeOK
<1>14. HardlyEarly' /\ early' \in [Timer -> Nat]
    <2>1. expire \in [Timer -> Nat] /\ now \in Nat
        BY Zenon, <1>2 DEF WheelTypes
    <2>2. \A t \in D \ behind : t \in Timer => expire[t] < now + MaxLag + 2 * m_tickDuration
        <3>1. \A t \in D : t \in Timer => expire[t] \in Nat
            BY Zenon, <2>1
        <3> QED BY <1>4, <2>1, <3>1, Numbers
    <2> QED BY Zenon, <1>0, <1>1, <1>2, <1>12, <2>1, <2>2, HandlesHardlyEarly
<1>15. PendingAccounts' /\ m_pendingSize' \in 0..(SizeRange - 1)
    <2> DEFINE b == Cardinality(batch)
    <2>1. /\ m_pendingSize = Pending % SizeRange /\ Pending \in Int /\ b \in Nat
          /\ SizeRange \in Nat \ {0} /\ Len(m_pendingQueue) \in Nat /\ Cardinality(Counting) \in Nat
        BY Zenon, <1>1, PendingFacts
    <2>2. Cardinality(batch') = 0
        BY Zenon, <1>0 DEF WheelFacts, SmallSizes
    <2>3. Counting' = Counting
        BY Zenon, <1>0 DEF Counting
    <2>4. Pending' = Len(m_pendingQueue) + 0 - Cardinality(Counting)
        BY Zenon, <1>0, <2>2, <2>3 DEF Pending
    <2>5. Pending' = Pending + (0 - b)
        BY <2>1, <2>4 DEF Pending
    <2> HIDE DEF b
    <2>6. 0 - b \in Int /\ Pending + (0 - b) \in Int /\ Pending % SizeRange \in Int
        BY <2>1
    <2>7. ((Pending % SizeRange) + (0 - b)) % SizeRange = (Pending + (0 - b)) % SizeRange
        BY Zenon, <2>1, <2>6, Remainder
    <2>8. (Pending + (0 - b)) % SizeRange \in 0..(SizeRange - 1)
        BY Zenon, <2>1, <2>6, Remainder
    <2>9. (Pending % SizeRange) - b = (Pending % SizeRange) + (0 - b)
        BY <2>1, <2>6
    <2>10. m_pendingSize' = Pending' % SizeRange
        BY Zenon, <1>0, <2>1, <2>5, <2>7, <2>9 DEF b
    <2> QED BY Zenon, <2>5, <2>8, <2>10 DEF PendingAccounts, Pending, Counting
<1>16. TypeOK'
    <2>1. thread' \in {"loop", "pending", "batch", "turn", "ticked", "sleep", "exited"}
          /\ batch' \subseteq Timer
        BY Zenon, <1>0
    <2> QED BY Zenon, <1>0, <1>1, <1>7, <1>11, <1>12, <1>13, <1>14, <1>15, <2>1 DEF TypeOK
<1>17. Queued' = Queued /\ QueuedOnce' /\ \A u \in Queued : u \in Timer /\ u \notin batch
    <2>1. \A u \in Queued : u \in Timer
        BY <1>1 DEF TypeOK, Queued
    <2>2. Queued \cap batch = {} /\ QueuedOnce
        BY Zenon, <1>1 DEF Places
    <2>3. Queued' = Queued /\ (QueuedOnce' <=> QueuedOnce)
        BY Zenon, <1>0 DEF Queued, QueuedOnce
    <2>4. \A u \in Queued : u \notin batch
        BY Zenon, <2>2
    <2> QED BY Zenon, <2>1, <2>2, <2>3, <2>4
<1>18. Places'
    <2>1. Queued' \cap batch' = {} /\ (thread' # "batch" => batch' = {})
        BY Zenon, <1>0
    <2>2. \A u \in Queued' \cup batch' : adder'[u] \in {"count", "added"} /\ state'[u] = "new"
        <3>1. \A u \in Queued : adder[u] \in {"count", "added"} /\ state[u] = "new"
            BY Zenon, <1>1 DEF Places
        <3>2. \A u \in Queued : state'[u] = state[u]
            BY Zenon, <1>13, <1>17
        <3>3. Queued' \cup batch' = Queued
            BY Zenon, <1>0, <1>17
        <3> QED BY Zenon, <1>0, <3>1, <3>2, <3>3
    <2>3. \A u \in InWheel(wheel') : adder'[u] \in {"count", "added"} /\ state'[u] = "set"
        <3>1. \A u \in InWheel(wheel) : adder[u] \in {"count", "added"} /\ state[u] = "set"
            BY Zenon, <1>1 DEF Places
        <3>2. \A u \in InWheel(wheel) : u \notin batch /\ u \in Timer
            BY Zenon, <1>2, <1>6
        <3>3. \A u \in P : adder[u] \in {"count", "added"} /\ state'[u] = "set"
            BY Zenon, <1>1, <1>4, <1>13 DEF Places
        <3>4. \A u \in InWheel(wheel) : state'[u] = "set"
            BY Zenon, <1>13, <3>1, <3>2
        <3> QED BY Zenon, <1>0, <1>10, <3>1, <3>3, <3>4
    <2>4. \A u \in Timer : state'[u] # "new" => adder'[u] \in {"count", "added"}
        <3>1. ASSUME NEW u \in Timer, state'[u] # "new" PROVE adder[u] \in {"count", "added"}
            <4>1. CASE u \in batch
                BY Zenon, <1>1, <4>1 DEF Places
            <4>2. CASE u \notin batch
                BY Zenon, <1>1, <1>13, <3>1, <4>2 DEF Places
            <4> QED BY Zenon, <4>1, <4>2
        <3> QED BY Zenon, <1>0, <3>1
    <2> QED BY Zenon, <1>9, <1>17, <2>1, <2>2, <2>3, <2>4 DEF Places
<1>19. NoneMissing'
    <2> SUFFICES ASSUME NEW u \in Timer \ cancelled, adder[u] \in {"count", "added"}
                 PROVE  /\ state'[u] = "new" => u \in Queued' \cup batch'
                        /\ state'[u] = "set" => u \in InWheel(wheel')
        BY Zenon, <1>0 DEF NoneMissing
    <2>1. /\ state[u] = "new" => u \in Queued \cup batch
          /\ state[u] = "set" => u \in InWheel(wheel)
        BY Zenon, <1>1 DEF NoneMissing
    <2>2. state'[u] = "new" => u \notin batch /\ state[u] = "new"
        BY Zenon, <1>4, <1>13
    <2>3. state'[u] = "set" => u \in P \/ state[u] = "set"
        BY Zenon, <1>13
    <2> QED BY Zenon, <1>10, <1>17, <2>1, <2>2, <2>3
<1>20. Reached(0)'
    <2>1. ASSUME NEW s \in WheelSlots, NEW u \in wheel'[s] \ cancelled
          PROVE  \E v \in Nat \ {0} : /\ m_currentTick <= v /\ Visits(v, s)
                                      /\ m_startTime + v * m_tickDuration <= expire[u] + 0
        <3>1. CASE u \in wheel[s]
            BY Zenon, <1>1, <2>1, <3>1 DEF Reached
        <3>2. CASE u \in P /\ Into(u) = s
            <4>1. u \in Placed(batch)
                BY Zenon, <3>2 DEF P
            <4>2. \E v \in Nat \ {0} : /\ m_currentTick <= v /\ Visits(v, Into(u))
                                       /\ m_startTime + v * m_tickDuration <= expire[u] + 0
                BY Zenon, <1>1, <1>2, <1>3, <4>1, Entering
            <4> QED BY Zenon, <3>2, <4>2
        <3>3. u \in wheel[s] \/ (u \in P /\ Into(u) = s)
            BY Zenon, <1>7, <2>1
        <3> QED BY Zenon, <3>1, <3>2, <3>3
    <2> QED BY Zenon, <1>0, <2>1 DEF Reached
<1>21. \A u \in P : u \notin behind' => ~TooFarBehind(u)
    BY Zenon, <1>0
<1>22. NearlyDue'
    <2>1. ASSUME NEW s \in WheelSlots, NEW u \in wheel'[s] \ behind', s[1] = 1
          PROVE  \E v \in Nat :
                    /\ m_currentTick <= v /\ v < m_currentTick + Span[1] /\ SlotAt(1, v) = s
                    /\ expire[u] < m_startTime + (v + 2) * m_tickDuration + MaxLag
        <3>1. CASE u \in wheel[s]
            <4>1. u \notin behind
                BY Zenon, <1>12, <2>1
            <4> QED BY Zenon, <1>1, <2>1, <3>1, <4>1 DEF NearlyDue
        <3>2. CASE u \in P /\ Into(u) = s
            <4>1. u \in Placed(batch) /\ ~TooFarBehind(u)
                BY Zenon, <1>21, <2>1, <3>2 DEF P
            <4>2. Into(u)[1] = 1 /\ ~TooFarBehind(u) => \E v \in Nat :
                      /\ m_currentTick <= v /\ v < m_currentTick + Span[1] /\ SlotAt(1, v) = Into(u)
                      /\ expire[u] < m_startTime + (v + 2) * m_tickDuration + MaxLag
                BY Zenon, <1>1, <1>2, <1>3, <4>1, Entering
            <4> QED BY Zenon, <2>1, <3>2, <4>1, <4>2
        <3>3. u \in wheel[s] \/ (u \in P /\ Into(u) = s)
            BY Zenon, <1>7, <2>1
        <3> QED BY Zenon, <3>1, <3>2, <3>3
    <2> QED BY Zenon, <1>0, <2>1 DEF NearlyDue
<1>23. ThreadLag'
    <2>1. ThreadDelay = MaxLag /\ ThreadDelay' = MaxLag /\ thread' # "ticked"
        BY Zenon, <1>0 DEF ThreadDelay
    <2>2. ASSUME NEW s \in WheelSlots, s[1] # 1, NEW u \in wheel'[s] \ behind'
          PROVE  BehindBy(MaxLag)
        <3>1. CASE u \in wheel[s]
            <4>1. wheel[s] \ behind # {}
                BY Zenon, <1>12, <2>2, <3>1
            <4> QED BY Zenon, <1>1, <2>1, <2>2, <4>1 DEF UpperLag
        <3>2. CASE u \in P /\ Into(u) = s
            <4>1. u \in Placed(batch) /\ ~TooFarBehind(u)
                BY Zenon, <1>21, <2>2, <3>2 DEF P
            <4>2. Into(u)[1] # 1 /\ ~TooFarBehind(u) => BehindBy(MaxLag)
                BY Zenon, <1>1, <1>2, <1>3, <4>1, Entering
            <4> QED BY Zenon, <2>2, <3>2, <4>1, <4>2
        <3>3. u \in wheel[s] \/ (u \in P /\ Into(u) = s)
            BY Zenon, <1>7, <2>2
        <3> QED BY Zenon, <3>1, <3>2, <3>3
    <2>3. \A s \in WheelSlots : s[1] # 1 /\ wheel'[s] \ behind' # {} => BehindBy(MaxLag)
        BY Zenon, <2>2
    <2>4. UpperLag'
        BY Zenon, <1>0, <2>1, <2>3 DEF UpperLag, BehindBy
    <2> QED BY Zenon, <1>0, <1>1, <2>1, <2>4 DEF ThreadLag
<1> QED BY Zenon, <1>11, <1>14, <1>15, <1>16, <1>18, <1>19, <1>20, <1>22, <1>23
        DEF SafeInv, QueueInv, ClockInv

(* The thread turns the wheel by one tick. *)
LEMMA TickTurnKeeps ==
    ASSUME WheelFacts, SafeInv, TickTurn
    PROVE  SafeInv'
<1> DEFINE H == Due(Moved) \cup Live(Current)
           O == OutOfRange(Moved)
<1>0. /\ thread = "turn" /\ m_wheelSize > 0 /\ m_currentTick < Elapsed
      /\ HandleTimeouts(H, expire)
      /\ state' = [t \in Timer |-> IF t \in H THEN "handled" ELSE IF t \in O THEN "dropped" ELSE state[t]]
      /\ wheel' = Turned
      /\ m_wheelSize' = m_wheelSize - Cardinality(Current) - Cardinality(Moved \ Placed(Moved))
      /\ m_currentTick' = m_currentTick + 1
      /\ UNCHANGED <<now, m_startTime, m_pendingQueue, m_pendingSize, m_running, m_stopFlag,
                     thread, batch, last, slept, adder, expire, cancelled, behind>>
    BY Zenon DEF TickTurn, Turn, stopVars
<1>1. /\ TypeOK /\ Places /\ NoneMissing /\ PendingAccounts /\ QueueInv
      /\ m_wheelSize = Cardinality(InWheel(wheel))
      /\ ThreadLag /\ UpperLag /\ Reached(0) /\ NearlyDue /\ HardlyEarly
      /\ m_startTime + m_currentTick * m_tickDuration <= now
    BY Zenon DEF SafeInv, QueueInv, ClockInv, ThreadLag
<1>2. /\ WheelTypes /\ Apart(wheel) /\ m_startTime <= now /\ InWheel(wheel) \subseteq Timer
      /\ early \in [Timer -> Nat] /\ m_wheelSize \in Nat
    BY Zenon, <1>1, SafeTypes
<1>3. /\ now \in Nat /\ m_startTime \in Nat /\ m_currentTick \in Nat /\ Elapsed \in Nat
      /\ expire \in [Timer -> Nat]
    BY Zenon, <1>2, ElapsedFacts DEF WheelTypes
<1>4. H \subseteq Due(Moved) \cup Current /\ \A t \in Current : t \in H \/ t \in cancelled
    BY Zenon DEF Live
<1>5. HardlyEarly' /\ early' \in [Timer -> Nat]
    <2>1. \A t \in H \ behind : t \in Timer => expire[t] < now + MaxLag + 2 * m_tickDuration
        BY Zenon, <1>1, <1>2, <1>4, TurnHandles
    <2>2. behind \subseteq behind'
        BY Zenon, <1>0
    <2> HIDE DEF H
    <2> QED BY Zenon, <1>0, <1>1, <1>2, <1>3, <2>1, <2>2, HandlesHardlyEarly
<1>6. \A s \in WheelSlots : s[1] # 1 /\ wheel[s] \ behind # {} => BehindBy(MaxLag)
    <2>1. ThreadDelay = MaxLag
        BY Zenon, <1>0 DEF ThreadDelay
    <2> QED BY Zenon, <1>1, <2>1 DEF UpperLag
<1>7. NearlyDue'
    BY Zenon, <1>0, <1>1, <1>2, <1>6, NearlyDueTurn
<1>8. Reached(0)'
    <2>0. 0 \in Nat
        OBVIOUS
    <2>1. \A s \in WheelSlots : \A t \in wheel'[s] \ cancelled' : \E v \in Nat \ {0} :
               /\ m_currentTick' <= v /\ Visits(v, s)
               /\ m_startTime' + v * m_tickDuration <= expire'[t] + 0
        BY Zenon, <1>0, <1>1, <1>2, <2>0, ReachedTurn
    <2> QED BY Zenon, <2>1 DEF Reached
<1>9. /\ InWheel(Turned) \subseteq InWheel(wheel) \ (Due(Moved) \cup Current)
      /\ \A t \in InWheel(wheel) \ (Due(Moved) \cup Current) :
             t \in InWheel(Turned) \cup cancelled \cup OutOfRange(Moved)
    BY Zenon, <1>2, TurnLeaves
<1>10. /\ Turned \in [WheelSlots -> SUBSET Timer] /\ Apart(Turned)
       /\ InWheel(Turned) = ((InWheel(wheel) \ Moved) \cup Placed(Moved)) \ Current
       /\ \A s \in WheelSlots : \A t \in Turned[s] : t \in wheel[s] \/ t \in Moved
    <2>1. Placed(Moved) \subseteq Moved
        BY Zenon, <1>2, MovedFacts
    <2>2. /\ Turned \in [WheelSlots -> SUBSET Timer] /\ Apart(Turned)
          /\ InWheel(Turned) = ((InWheel(wheel) \ Moved) \cup Placed(Moved)) \ Current
          /\ \A s \in WheelSlots : \A t \in Turned[s] : t \in wheel[s] \/ t \in Placed(Moved)
        BY Zenon, <1>2, TurnedFacts
    <2> QED BY Zenon, <2>1, <2>2
<1>11. \A t \in InWheel(Turned) : t \notin O
    <2>1. Moved \in SUBSET Timer
        BY Zenon, <1>2, MovedFacts
    <2>2. OutOfRange(Moved) \subseteq Moved /\ OutOfRange(Moved) \cap Placed(Moved) = {}
        BY Zenon, <1>2, <2>1, Sorting
    <2> QED BY Zenon, <1>10, <2>2
<1>12. /\ m_wheelSize' = Cardinality(InWheel(wheel')) /\ m_wheelSize' \in 0..Cardinality(Timer)
    <2>1. m_wheelSize' = Cardinality(InWheel(wheel'))
        BY Zenon, <1>0, <1>1, <1>2, TurnSize
    <2>2. InWheel(wheel') \in SUBSET Timer /\ Timer \in SUBSET Timer
        BY Zenon, <1>0, <1>2, <1>9
    <2>3. Cardinality(InWheel(wheel')) \in Nat /\ Cardinality(Timer) \in Nat
          /\ Cardinality(InWheel(wheel')) <= Cardinality(Timer)
        BY Zenon, <2>2, Sizes
    <2> QED BY <2>1, <2>3
<1> HIDE DEF H, O
<1>13. /\ state' \in [Timer -> {"new", "set", "handled", "dropped"}]
       /\ \A u \in Timer \ (H \cup O) : state'[u] = state[u]
       /\ \A u \in Timer : state'[u] \in {"new", "set"} => state'[u] = state[u] /\ u \notin H \cup O
    BY Zenon, <1>0, <1>1 DEF TypeOK
<1>14. TypeOK'
    <2>1. m_currentTick' \in Nat
        BY <1>0, <1>3
    <2> QED BY Zenon, <1>0, <1>1, <1>5, <1>10, <1>12, <1>13, <2>1 DEF TypeOK
<1>15. PendingAccounts'
    BY Zenon, <1>0, <1>1 DEF PendingAccounts
<1>16. Queued' = Queued /\ QueuedOnce'
    BY Zenon, <1>0, <1>1 DEF Queued, QueuedOnce, Places
<1>17. \A u \in H \cup O : u \in InWheel(wheel)
    <2>1. /\ Moved \subseteq InWheel(wheel) /\ Placed(Moved) \subseteq Moved
          /\ Due(Moved) \subseteq Moved /\ Moved \in SUBSET Timer
        BY Zenon, <1>2, MovedFacts
    <2>2. Current \subseteq (InWheel(wheel) \ Moved) \cup Placed(Moved)
        BY Zenon, <1>2, TurnedFacts
    <2>3. O \subseteq Moved
        BY Zenon, <1>2, <2>1, Sorting DEF O
    <2> QED BY Zenon, <1>4, <2>1, <2>2, <2>3
<1>18. Places'
    <2>1. Queued' \cap batch' = {} /\ (thread' # "batch" => batch' = {}) /\ Apart(wheel')
        BY Zenon, <1>0, <1>1, <1>10, <1>16 DEF Places
    <2>2. \A u \in Queued \cup batch : u \in Timer /\ u \notin H \cup O
        <3>1. \A u \in Queued \cup batch : u \in Timer /\ state[u] = "new"
            BY <1>1 DEF TypeOK, Queued, Places
        <3>2. \A u \in H \cup O : state[u] = "set"
            BY Zenon, <1>1, <1>17 DEF Places
        <3> QED BY Zenon, <3>1, <3>2
    <2>3. \A u \in Queued' \cup batch' : adder'[u] \in {"count", "added"} /\ state'[u] = "new"
        <3>1. \A u \in Queued \cup batch : state'[u] = state[u]
            BY Zenon, <1>13, <2>2
        <3> QED BY Zenon, <1>0, <1>1, <1>16, <3>1 DEF Places
    <2>4. \A u \in InWheel(wheel') : adder'[u] \in {"count", "added"} /\ state'[u] = "set"
        <3>1. \A u \in InWheel(Turned) : u \in InWheel(wheel) /\ u \notin H \cup O /\ u \in Timer
            BY Zenon, <1>2, <1>4, <1>9, <1>11
        <3>2. \A u \in InWheel(Turned) : adder[u] \in {"count", "added"} /\ state[u] = "set"
            BY Zenon, <1>1, <3>1 DEF Places
        <3>3. \A u \in InWheel(Turned) : state'[u] = state[u]
            BY Zenon, <1>13, <3>1
        <3> QED BY Zenon, <1>0, <3>2, <3>3
    <2>5. \A u \in Timer : state'[u] # "new" => adder'[u] \in {"count", "added"}
        <3>1. ASSUME NEW u \in Timer, state'[u] # "new" PROVE adder[u] \in {"count", "added"}
            <4>1. CASE u \in H \cup O
                BY Zenon, <1>1, <1>17, <4>1 DEF Places
            <4>2. CASE u \notin H \cup O
                BY Zenon, <1>1, <1>13, <3>1, <4>2 DEF Places
            <4> QED BY Zenon, <4>1, <4>2
        <3> QED BY Zenon, <1>0, <3>1
    <2> QED BY Zenon, <1>16, <2>1, <2>3, <2>4, <2>5 DEF Places
<1>19. NoneMissing'
    <2> SUFFICES ASSUME NEW u \in Timer \ cancelled, adder[u] \in {"count", "added"}
                 PROVE  /\ state'[u] = "new" => u \in Queued' \cup batch'
                        /\ state'[u] = "set" => u \in InWheel(wheel')
        BY Zenon, <1>0 DEF NoneMissing
    <2>1. /\ state[u] = "new" => u \in Queued \cup batch
          /\ state[u] = "set" => u \in InWheel(wheel)
        BY Zenon, <1>1 DEF NoneMissing
    <2>2. state'[u] = "new" => state[u] = "new"
        BY Zenon, <1>13
    <2>3. state'[u] = "set" => state[u] = "set" /\ u \notin H \cup O
        BY Zenon, <1>13
    <2>4. u \notin H => u \notin Due(Moved) \cup Current
        BY Zenon, <1>4 DEF H
    <2> QED BY Zenon, <1>0, <1>9, <1>16, <2>1, <2>2, <2>3, <2>4 DEF O
<1>20. ThreadLag'
    <2> DEFINE F == (m_currentTick + 1) * m_tickDuration
               G == (m_currentTick + 1 + 1) * m_tickDuration
               X == Elapsed * m_tickDuration
    <2>1. F \in Nat /\ G \in Nat /\ F <= G
        BY <1>3, Numbers
    <2>2. F <= X /\ X \in Nat
        <3>1. m_currentTick + 1 <= Elapsed /\ m_currentTick + 1 \in Nat
            BY <1>0, <1>3
        <3> QED BY Zenon, <1>3, <3>1, Numbers, Scale
    <2>3. m_startTime + X <= now
        BY Zenon, <1>2, ElapsedFacts
    <2> HIDE DEF F, G, X
    <2>4. m_startTime + F <= now
        BY <1>3, <2>1, <2>2, <2>3
    <2>5. ASSUME BehindBy(MaxLag) PROVE BehindBy(MaxLag)'
        <3>1. now < m_startTime + F + MaxLag
            BY Zenon, <2>5 DEF BehindBy, F
        <3>2. now < m_startTime + G + MaxLag
            BY <1>3, <2>1, <3>1, Numbers
        <3> QED BY Zenon, <1>0, <3>2 DEF BehindBy, G
    <2>6. ThreadDelay' = MaxLag /\ thread' # "ticked"
        BY Zenon, <1>0 DEF ThreadDelay
    <2>7. ASSUME NEW s \in WheelSlots, s[1] # 1, NEW u \in Turned[s] \ behind
          PROVE  BehindBy(MaxLag)
        <3>1. CASE u \in wheel[s]
            <4>1. wheel[s] \ behind # {}
                BY Zenon, <2>7, <3>1
            <4> QED BY Zenon, <1>6, <2>7, <4>1
        <3>2. CASE u \in Moved
            <4>1. PICK r \in WheelSlots : r[1] # 1 /\ u \in wheel[r]
                BY Zenon, <1>2, <3>2, MovedFacts
            <4>2. wheel[r] \ behind # {}
                BY Zenon, <2>7, <4>1
            <4> QED BY Zenon, <1>6, <4>1, <4>2
        <3> QED BY Zenon, <1>10, <2>7, <3>1, <3>2
    <2>8. \A s \in WheelSlots : s[1] # 1 /\ wheel'[s] \ behind' # {} => BehindBy(MaxLag)'
        BY Zenon, <1>0, <2>5, <2>7
    <2>9. BehindBy(MaxLag)' => BehindBy(ThreadDelay)'
        BY Zenon, <2>6 DEF BehindBy
    <2>10. UpperLag'
        BY Zenon, <2>8, <2>9 DEF UpperLag
    <2> QED BY Zenon, <1>0, <2>4, <2>6, <2>10 DEF ThreadLag, F
<1> QED BY Zenon, <1>5, <1>7, <1>8, <1>12, <1>14, <1>15, <1>18, <1>19, <1>20
        DEF SafeInv, QueueInv, ClockInv

(* The wheel has caught up, or is empty and its clock is set back. *)
LEMMA TickEndKeeps ==
    ASSUME WheelFacts, SafeInv, TickEnd
    PROVE  SafeInv'
<1>0. /\ thread = "turn" /\ (m_wheelSize = 0 \/ m_currentTick >= Elapsed) /\ thread' = "ticked"
      /\ m_startTime' = IF m_wheelSize = 0 THEN now ELSE m_startTime
      /\ m_currentTick' = IF m_wheelSize = 0 THEN 0 ELSE m_currentTick
      /\ UNCHANGED <<now, wheel, m_wheelSize, m_pendingQueue, m_pendingSize, m_running,
                     m_stopFlag, batch, last, slept, adder, expire, state, cancelled, early, behind>>
    BY Zenon DEF TickEnd, stopVars, timerVars
<1>1. /\ TypeOK /\ Places /\ NoneMissing /\ PendingAccounts /\ QueueInv
      /\ m_wheelSize = Cardinality(InWheel(wheel))
      /\ ThreadLag /\ Reached(0) /\ NearlyDue /\ HardlyEarly
      /\ m_startTime + m_currentTick * m_tickDuration <= now
    BY Zenon DEF SafeInv, QueueInv, ClockInv, ThreadLag
<1>2. /\ WheelTypes /\ m_startTime <= now /\ m_wheelSize \in Nat
      /\ (m_wheelSize = 0 <=> InWheel(wheel) = {})
    BY Zenon, <1>1, SafeTypes
<1>3. now \in Nat /\ m_startTime \in Nat /\ m_currentTick \in Nat
    BY Zenon, <1>2 DEF WheelTypes
<1>4. TypeOK'
    <2>1. m_startTime' \in 0..now /\ m_currentTick' \in Nat
        BY <1>0, <1>2, <1>3
    <2>2. thread' \in {"loop", "pending", "batch", "turn", "ticked", "sleep", "exited"}
        BY Zenon, <1>0
    <2>3. UNCHANGED <<now, wheel, m_wheelSize, m_pendingQueue, m_pendingSize, m_running,
                     m_stopFlag, batch, last, slept, adder, expire, state, cancelled, early, behind>>
        BY Zenon, <1>0
    <2> QED BY Zenon, <1>1, <2>1, <2>2, <2>3 DEF TypeOK
<1>5. Queued' = Queued /\ QueuedOnce' /\ batch' = {}
    <2>1. thread # "batch"
        BY Zenon, <1>0
    <2> QED BY Zenon, <1>0, <1>1, <2>1 DEF Queued, QueuedOnce, Places
<1>6. Places' /\ NoneMissing' /\ PendingAccounts'
    BY Zenon, <1>0, <1>1, <1>5 DEF Places, NoneMissing, PendingAccounts
<1>7. HardlyEarly' /\ (m_wheelSize = Cardinality(InWheel(wheel)))'
    BY Zenon, <1>0, <1>1 DEF HardlyEarly
<1>8. ThreadDelay' = 0
    BY Zenon, <1>0 DEF ThreadDelay
<1>9. Reached(0)' /\ NearlyDue' /\ ThreadLag'
    <2>1. CASE m_wheelSize = 0
        <3>1. \A s \in WheelSlots : wheel'[s] = {}
            BY Zenon, <1>0, <1>2, <2>1, EmptyReached
        <3>2. \A s \in WheelSlots : wheel'[s] \ behind' = {}
            BY Zenon, <3>1
        <3>3. Reached(0)' /\ NearlyDue'
            BY Zenon, <3>1 DEF Reached, NearlyDue
        <3>4. m_startTime' + m_currentTick' * m_tickDuration <= now'
            BY <1>0, <1>3, <2>1, Numbers
        <3>5. ~(m_wheelSize' > 0)
            BY <1>0, <2>1
        <3> QED BY Zenon, <3>2, <3>3, <3>4, <3>5 DEF ThreadLag, UpperLag
    <2>2. CASE m_wheelSize # 0
        <3>1. UNCHANGED <<m_startTime, m_currentTick>> /\ Elapsed <= m_currentTick
            BY Zenon, <1>0, <1>2, <1>3, <2>2, ElapsedFacts
        <3>2. Reached(0)' /\ NearlyDue'
            <4>1. UNCHANGED <<m_startTime, m_currentTick, wheel, expire, cancelled, behind>>
                BY Zenon, <1>0, <3>1
            <4> QED BY Zenon, <1>1, <4>1 DEF Reached, NearlyDue
        <3>3. BehindBy(0)
            BY Zenon, <1>2, <3>1, CaughtUp
        <3>4. BehindBy(0)' /\ BehindBy(ThreadDelay)'
            BY Zenon, <1>0, <1>8, <3>1, <3>3 DEF BehindBy
        <3> QED BY Zenon, <1>0, <1>1, <3>1, <3>2, <3>4 DEF ThreadLag, UpperLag
    <2> QED BY Zenon, <2>1, <2>2
<1> QED BY Zenon, <1>4, <1>6, <1>7, <1>9 DEF SafeInv, QueueInv, ClockInv

(* Every step of the system. *)
LEMMA SafeStep ==
    ASSUME WheelFacts, SafeInv, [Next]_vars
    PROVE  SafeInv'
<1>1. CASE UNCHANGED vars
    <2>1. UNCHANGED <<now, m_startTime, m_currentTick, wheel, m_wheelSize, m_pendingQueue,
                      m_pendingSize, m_running, m_stopFlag, thread, batch, last, slept, adder,
                      expire, state, cancelled, early, behind>>
        BY Zenon, <1>1 DEF vars
    <2>2. QueueInv'
        <3>1. TypeOK /\ Places /\ NoneMissing /\ PendingAccounts /\ m_wheelSize = Cardinality(InWheel(wheel))
            BY Zenon DEF SafeInv, QueueInv
        <3>2. TypeOK'
            BY Zenon, <2>1, <3>1 DEF TypeOK
        <3>3. Queued' = Queued /\ QueuedOnce'
            BY Zenon, <2>1, <3>1 DEF Places, Queued, QueuedOnce
        <3>4. Places' /\ NoneMissing'
            BY Zenon, <2>1, <3>1, <3>3 DEF Places, NoneMissing
        <3>5. PendingAccounts' /\ (m_wheelSize = Cardinality(InWheel(wheel)))'
            BY Zenon, <2>1, <3>1 DEF PendingAccounts
        <3> QED BY Zenon, <3>2, <3>4, <3>5 DEF QueueInv
    <2>3. ThreadDelay' = ThreadDelay
        BY Zenon, <2>1 DEF ThreadDelay
    <2>4. ClockInv'
        BY Zenon, <2>1, <2>3 DEF SafeInv, ClockInv, ThreadLag, UpperLag, BehindBy, Reached,
                                 NearlyDue, HardlyEarly
    <2> QED BY Zenon, <2>2, <2>4 DEF SafeInv
<1>2. CASE TimerThread
    BY Zenon, <1>2, BeginTickKeeps, DequeueBatchKeeps, AddBatchKeeps, PendingDoneKeeps,
       TickTurnKeeps, TickEndKeeps, SleepOrExitKeeps, WakeUpKeeps DEF TimerThread
<1>3. CASE Pass \/ StopRunning \/ StopFlag
    BY Zenon, <1>3, PassKeeps, StopKeeps
<1>4. CASE \E t \in Timer : AdderStep(t) \/ Cancel(t)
    BY Zenon, <1>4, AddTimerKeeps, EnqueueKeeps, CountPendingKeeps, CancelKeeps DEF AdderStep
<1> QED BY Zenon, <1>1, <1>2, <1>3, <1>4 DEF Next

(* A timer has one index in the queue, one slot in the wheel. *)
LEMMA SafePlaces ==
    ASSUME WheelFacts, SafeInv
    PROVE  EveryTimerInOnePlace
<1>1. TypeOK /\ Places /\ NoneMissing /\ PendingAccounts /\ m_wheelSize = Cardinality(InWheel(wheel))
    BY Zenon DEF SafeInv, QueueInv
<1>2. ASSUME NEW t \in Timer
      PROVE  /\ Cardinality({i \in DOMAIN m_pendingQueue : m_pendingQueue[i] = t})
                    = IF t \in Queued THEN 1 ELSE 0
             /\ Cardinality({s \in WheelSlots : t \in wheel[s]})
                    = IF t \in InWheel(wheel) THEN 1 ELSE 0
    <2> DEFINE I == {i \in DOMAIN m_pendingQueue : m_pendingQueue[i] = t}
               S == {s \in WheelSlots : t \in wheel[s]}
    <2>0. Cardinality({}) = 0 /\ \A x : Cardinality({x}) = 1
        BY Zenon DEF WheelFacts, SmallSizes
    <2>1. ASSUME t \in Queued PROVE Cardinality(I) = IF t \in Queued THEN 1 ELSE 0
        <3>1. PICK i \in DOMAIN m_pendingQueue : m_pendingQueue[i] = t
            BY Zenon, <2>1 DEF Queued
        <3>2. \A j \in DOMAIN m_pendingQueue : m_pendingQueue[j] = t => j = i
            BY Zenon, <1>1, <3>1 DEF Places, QueuedOnce
        <3>3. I = {i}
            BY Zenon, <3>1, <3>2
        <3>4. Cardinality(I) = 1
            BY Zenon, <2>0, <3>3
        <3> HIDE DEF I
        <3> QED BY Zenon, <2>1, <3>4
    <2>2. ASSUME t \notin Queued PROVE Cardinality(I) = IF t \in Queued THEN 1 ELSE 0
        <3>1. I = {}
            BY Zenon, <2>2 DEF Queued
        <3>2. Cardinality(I) = 0
            BY Zenon, <2>0, <3>1
        <3> HIDE DEF I
        <3> QED BY Zenon, <2>2, <3>2
    <2>3. ASSUME t \in InWheel(wheel) PROVE Cardinality(S) = IF t \in InWheel(wheel) THEN 1 ELSE 0
        <3>1. PICK s \in WheelSlots : t \in wheel[s]
            BY Zenon, <2>3, InWheelDef
        <3>2. \A r \in WheelSlots : t \in wheel[r] => r = s
            BY Zenon, <1>1, <3>1 DEF Places, Apart
        <3>3. S = {s}
            BY Zenon, <3>1, <3>2
        <3>4. Cardinality(S) = 1
            BY Zenon, <2>0, <3>3
        <3> HIDE DEF S
        <3> QED BY Zenon, <2>3, <3>4
    <2>4. ASSUME t \notin InWheel(wheel) PROVE Cardinality(S) = IF t \in InWheel(wheel) THEN 1 ELSE 0
        <3>1. S = {}
            BY Zenon, <2>4, InWheelDef
        <3>2. Cardinality(S) = 0
            BY Zenon, <2>0, <3>1
        <3> HIDE DEF S
        <3> QED BY Zenon, <2>4, <3>2
    <2>5. Cardinality(I) = IF t \in Queued THEN 1 ELSE 0
        BY Zenon, <2>1, <2>2
    <2>6. Cardinality(S) = IF t \in InWheel(wheel) THEN 1 ELSE 0
        BY Zenon, <2>3, <2>4
    <2> QED BY Zenon, <2>5, <2>6
<1>3. ASSUME NEW t \in Timer
      PROVE  /\ ~(t \in Queued /\ t \in batch) /\ ~(t \in Queued /\ t \in InWheel(wheel))
             /\ ~(t \in batch /\ t \in InWheel(wheel))
             /\ adder[t] \in {"count", "added"} /\ state[t] \in {"new", "set"} /\ t \notin cancelled
                => t \in Queued \/ t \in batch \/ t \in InWheel(wheel)
    BY Zenon, <1>1 DEF Places, NoneMissing
<1>4. \A t \in Timer :
        LET places == Cardinality({i \in DOMAIN m_pendingQueue : m_pendingQueue[i] = t})
                      + Cardinality({s \in WheelSlots : t \in wheel[s]})
                      + (IF t \in batch THEN 1 ELSE 0)
        IN /\ places <= 1
           /\ adder[t] \in {"count", "added"} /\ state[t] \in {"new", "set"}
              /\ t \notin cancelled => places = 1
    <2> TAKE t \in Timer
    <2> DEFINE a == Cardinality({i \in DOMAIN m_pendingQueue : m_pendingQueue[i] = t})
               b == Cardinality({s \in WheelSlots : t \in wheel[s]})
    <2>1. /\ a = IF t \in Queued THEN 1 ELSE 0
          /\ b = IF t \in InWheel(wheel) THEN 1 ELSE 0
        BY Zenon, <1>2
    <2> HIDE DEF a, b
    <2>2. /\ a + b + (IF t \in batch THEN 1 ELSE 0) <= 1
          /\ adder[t] \in {"count", "added"} /\ state[t] \in {"new", "set"}
             /\ t \notin cancelled => a + b + (IF t \in batch THEN 1 ELSE 0) = 1
        BY <1>3, <2>1
    <2> QED BY Zenon, <2>2 DEF a, b
<1> QED BY Zenon, <1>1, <1>4 DEF EveryTimerInOnePlace

(* When tick() has just returned the wheel is not behind the clock. *)
LEMMA SafePunctual ==
    ASSUME WheelFacts, SafeInv
    PROVE  Punctual
<1>1. /\ TypeOK /\ Places /\ NoneMissing /\ ThreadLag /\ Reached(0) /\ HardlyEarly /\ QueueInv
    BY Zenon DEF SafeInv, QueueInv, ClockInv
<1>2. /\ WheelTypes /\ m_wheelSize \in Nat /\ (m_wheelSize = 0 <=> InWheel(wheel) = {})
    BY Zenon, <1>1, SafeTypes
<1>3. ASSUME thread = "ticked", NEW t \in Timer, state[t] = "set", t \notin cancelled
      PROVE  expire[t] + 1 * m_tickDuration > now
    <2>1. adder[t] \in {"count", "added"}
        <3>1. state[t] # "new"
            BY Zenon, <1>3
        <3> QED BY Zenon, <1>1, <3>1 DEF Places
    <2>2. t \in InWheel(wheel)
        BY Zenon, <1>1, <1>3, <2>1 DEF NoneMissing
    <2>3. m_wheelSize > 0
        BY <1>2, <2>2
    <2>4. PICK s \in WheelSlots : t \in wheel[s]
        BY Zenon, <2>2, InWheelDef
    <2>5. PICK v \in Nat \ {0} : m_currentTick <= v /\ m_startTime + v * m_tickDuration <= expire[t] + 0
        BY Zenon, <1>1, <1>3, <2>4 DEF Reached
    <2> DEFINE V == v * m_tickDuration
               C == m_currentTick * m_tickDuration
               B == (m_currentTick + 1) * m_tickDuration
    <2>6. now < m_startTime + B + 0
        BY Zenon, <1>1, <1>3, <2>3 DEF ThreadLag, BehindBy
    <2>7. /\ now \in Nat /\ m_startTime \in Nat /\ m_currentTick \in Nat /\ expire[t] \in Nat
        BY Zenon, <1>2 DEF WheelTypes
    <2>8. B = C + m_tickDuration /\ C \in Nat /\ V \in Nat /\ C <= V
        BY <2>5, <2>7, Numbers, Scale
    <2>9. m_startTime + V <= expire[t] + 0
        BY Zenon, <2>5
    <2> HIDE DEF V, C, B
    <2> QED BY <2>6, <2>7, <2>8, <2>9, Numbers
<1>4. thread = "ticked" => NoneOverdueBy(1)
    BY Zenon, <1>3 DEF NoneOverdueBy
<1> QED BY Zenon, <1>1, <1>4 DEF Punctual
=============================================================================
