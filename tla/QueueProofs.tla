---------------------------- MODULE QueueProofs ----------------------------
(***************************************************************************)
(* The two queues of the kernel that use no lock. The task ring, for any   *)
(* capacity, any number of thieves and of pushes: no task is handed out    *)
(* twice, none is lost until a push overwrites one, and a push overwrites  *)
(* only a task a thief has claimed a lap ago. The single-threaded channel, *)
(* for any number of messages and any batch: every message is received     *)
(* once and in order, and no consumer sleeps beside what it waits for.     *)
(***************************************************************************)
EXTENDS ChaseLevTaskRing, UnsafeChannel, TLAPS

(* The work-stealing ring *)

(* One past the last position that may hold a task: a push or a pop under way
   counts its own. *)
Top == IF owner.pc \in {"idle", "push"} THEN m_tail ELSE owner.tail + 1

(* Positions below m_head whose task is claimed and not yet taken. *)
Claimed(i) ==
    \/ \E s \in Thief : thief[s].pc = "take" /\ thief[s].head = i
    \/ owner.pc \in {"raise", "take"} /\ owner.tail = i

(* A task never lies in two slots, and lies in none before its push or once it
   was handed out. *)
OneCopy ==
    /\ \A i \in Slot : m_slots[i] # Null => m_slots[i] <= pushed /\ taken[m_slots[i]] = 0
    /\ \A i, j \in Slot : m_slots[i] = m_slots[j] /\ m_slots[i] # Null => i = j
    /\ \A t \in Task : taken[t] <= 1 /\ (pushed < t => taken[t] = 0)
    /\ \A t \in ownerOnly \union stolen : t <= pushed

(* Head, tail and the owner's copies of them. *)
OwnerPlace ==
    /\ m_head <= Top /\ Top <= m_head + kCapacity /\ Top <= TailBound
    /\ owner.pc = "push" => /\ owner.tail = m_tail /\ m_tail < m_head + kCapacity
                            /\ m_tail < TailBound /\ pushed < MaxPushes
    /\ owner.pc \in {"publish", "pop", "contend", "restore", "raise"} => owner.tail = m_tail
    /\ owner.pc = "publish" => m_head <= m_tail
    /\ owner.pc = "contend" => owner.head = m_tail /\ m_tail <= m_head
    /\ owner.pc = "restore" => owner.head = m_head /\ m_head = m_tail + 1
    /\ owner.pc = "raise" => m_head = m_tail + 1
    /\ owner.pc = "take" => \/ m_tail = owner.tail /\ m_head <= m_tail
                            \/ m_tail = owner.tail + 1 /\ m_head = m_tail

(* A thief that may still win position m_head has seen it below the tail. *)
ThiefPlace ==
    \A s \in Thief :
        /\ thief[s].head <= m_head
        /\ thief[s].pc = "take" => thief[s].head < m_head
        /\ thief[s].pc \in {"look", "claim"} /\ thief[s].head = m_head =>
              IF owner.pc \in {"pop", "contend"} THEN m_head <= m_tail ELSE m_head < m_tail

(* No position is claimed twice. *)
OneClaim ==
    /\ \A s, r \in Thief : s # r /\ thief[s].pc = "take" /\ thief[r].pc = "take"
                              => thief[s].head # thief[r].head
    /\ owner.pc \in {"raise", "take"} =>
          \A s \in Thief : thief[s].pc = "take" => thief[s].head # owner.tail

(* Until a push overwrites a task, a lap does not reach the slot a thief has yet
   to empty, and what the thief has looked at is what it takes. *)
ThiefSlots ==
    overwritten = {} =>
        /\ \A s \in Thief : thief[s].pc = "take" =>
              /\ Top <= thief[s].head + kCapacity
              /\ m_slots[thief[s].head % kCapacity] \notin ownerOnly \union {Null}
        /\ \A s \in Thief : thief[s].pc = "claim" /\ thief[s].head = m_head =>
              m_slots[m_head % kCapacity] \notin ownerOnly \union {Null}
        /\ stolen \intersect ownerOnly = {}

(* Every task in the ring is at a position of the last lap that is between head
   and tail or claimed. *)
Lies(i) == (m_head <= i /\ i < Top) \/ Claimed(i)
Located ==
    \A k \in Slot : m_slots[k] # Null =>
        \E i \in 0..TailBound : i % kCapacity = k /\ Top <= i + kCapacity /\ Lies(i)

(* Until a push overwrites a task, those not handed out are in the ring. *)
Kept ==
    overwritten = {} => \A t \in 1..pushed : taken[t] # 0 \/ \E k \in Slot : m_slots[k] = t

IInv == /\ TypeOK /\ OneCopy /\ OwnerPlace /\ ThiefPlace /\ OneClaim /\ ThiefSlots
        /\ Located /\ Kept

-----------------------------------------------------------------------------
(* Arithmetic of positions. *)
LEMMA DivMod ==
    ASSUME NEW c \in Nat, c > 0, NEW a \in Nat
    PROVE  /\ a = c * (a \div c) + (a % c)
           /\ a \div c \in Nat /\ a % c \in 0..(c - 1)
BY Z3

(* Two multiples of c less than c apart, in this order, are the same. *)
LEMMA Multiple ==
    ASSUME NEW c \in Nat \ {0}, NEW q \in Nat, NEW r \in Nat,
           c * q <= c * r, c * r < c * q + c
    PROVE  q = r
<1>1. CASE r > q
    <2>1. c * r >= c * (q + 1)
        BY <1>1
    <2> QED BY <2>1
<1>2. CASE r < q
    <2>1. c * q >= c * (r + 1)
        BY <1>2
    <2> QED BY <2>1
<1> QED BY <1>1, <1>2

(* A position has a slot. *)
LEMMA SlotOf == \A a \in Nat : a % kCapacity \in Slot
<1>1. kCapacity \in Nat /\ kCapacity > 0
    BY RingAssumption
<1> QED BY Zenon, <1>1, DivMod DEF Slot

(* Two positions less than a lap apart share no slot. *)
LEMMA Apart ==
    ASSUME NEW a \in Nat, NEW b \in Nat, a < b, b < a + kCapacity
    PROVE  a % kCapacity # b % kCapacity
<1> SUFFICES ASSUME a % kCapacity = b % kCapacity PROVE FALSE
    OBVIOUS
<1> DEFINE c == kCapacity
           q == a \div c
           r == b \div c
           m == a % c
<1>0. c \in Nat \ {0} /\ c > 0
    BY RingAssumption
<1>1. /\ a = c * q + m /\ b = c * r + m
      /\ q \in Nat /\ r \in Nat /\ m \in Nat
    BY <1>0, DivMod
<1> HIDE DEF c, q, r, m
<1>2. c * q \in Int /\ c * r \in Int
    BY <1>0, <1>1
<1>3. c * q <= c * r /\ c * r < c * q + c
    BY <1>0, <1>1, <1>2 DEF c
<1>4. q = r
    BY Zenon, <1>0, <1>1, <1>3, Multiple
<1> QED BY <1>1, <1>2, <1>4

(* Positions a lap apart share a slot. *)
LEMMA NextLap == ASSUME NEW a \in Nat PROVE (a + kCapacity) % kCapacity = a % kCapacity
<1> DEFINE c == kCapacity
           q == a \div c
           r == (a + c) \div c
           m == a % c
           n == (a + c) % c
<1>0. c \in Nat \ {0} /\ c > 0 /\ a + c \in Nat
    BY RingAssumption
<1>1. /\ a + c = c * r + n /\ a = c * q + m
      /\ q \in Nat /\ r \in Nat /\ m \in 0..(c - 1) /\ n \in 0..(c - 1)
    BY Zenon, <1>0, DivMod
<1> HIDE DEF c, q, r, m, n
<1>2. c * (q + 1) = c * q + c /\ c * (q + 1) \in Int /\ c * r \in Int /\ c * q \in Int
    BY <1>0, <1>1
<1>3. c * r < c * (q + 1) + c /\ c * (q + 1) < c * r + c
    BY <1>0, <1>1, <1>2
<1>4. q + 1 = r
    <2>1. q + 1 \in Nat
        BY <1>1
    <2>2. CASE c * (q + 1) <= c * r
        BY Zenon, <1>0, <1>1, <1>3, <2>1, <2>2, Multiple
    <2>3. CASE c * r <= c * (q + 1)
        BY Zenon, <1>0, <1>1, <1>3, <2>1, <2>3, Multiple
    <2> QED BY <1>2, <2>2, <2>3
<1>5. m = n
    BY <1>0, <1>1, <1>2, <1>4
<1> QED BY Zenon, <1>5 DEF m, n, c

-----------------------------------------------------------------------------
(* What the steps that leave slots and tasks alone keep. *)
LEMMA Kinds ==
    ASSUME TypeOK
    PROVE  /\ m_head \in Nat /\ m_tail \in Nat /\ owner.tail \in Nat /\ owner.head \in Nat
           /\ owner.pc \in {"idle", "push", "publish", "pop", "restore", "contend",
                            "raise", "take"}
           /\ owner = [pc |-> owner.pc, tail |-> owner.tail, head |-> owner.head]
           /\ Top \in Nat /\ pushed \in Nat /\ kCapacity \in Nat /\ kCapacity > 0
           /\ TailBound \in Nat /\ MaxPushes \in Nat
           /\ \A s \in Thief : /\ thief[s].head \in Nat
                               /\ thief[s].pc \in {"idle", "tail", "look", "claim", "take"}
BY RingAssumption DEF TypeOK, Top

(* A step that changes no slot and no task keeps what is said of them alone. *)
LEMMA SlotsKept ==
    ASSUME IInv, UNCHANGED <<m_slots, pushed, ownerOnly, taken, stolen, overwritten>>
    PROVE  OneCopy' /\ Kept'
BY Zenon DEF IInv, OneCopy, Kept

(* A step that changes no slot keeps Located when it leaves Top alone and ends no claim. *)
LEMMA LocatedKept ==
    ASSUME IInv, UNCHANGED m_slots, Top' = Top,
           \A i \in 0..TailBound : Lies(i) => Lies(i)'
    PROVE  Located'
BY Zenon DEF IInv, Located

(* push_back reads head and tail. *)
LEMMA PushBeginSound == ASSUME IInv, PushBegin, UNCHANGED overwritten PROVE IInv'
<1> USE Kinds DEF IInv
<1>1. /\ owner' = [pc |-> "push", tail |-> m_tail, head |-> 0]
      /\ owner.pc = "idle" /\ m_tail < TailBound /\ m_tail - m_head < kCapacity
      /\ pushed < MaxPushes
      /\ UNCHANGED <<m_head, m_tail, m_slots, pushed, ownerOnly, thief, taken, stolen,
                     overwritten>>
    BY Zenon DEF PushBegin
<1>2. Top' = Top
    BY Zenon, <1>1 DEF Top
<1>3. TypeOK'
    BY <1>1 DEF TypeOK
<1>4. OneCopy' /\ Kept'
    BY Zenon, <1>1, SlotsKept
<1>5. OwnerPlace'
    BY <1>1, <1>2 DEF OwnerPlace, Top
<1>6. ThiefPlace'
    BY Zenon, <1>1 DEF ThiefPlace
<1>7. OneClaim'
    BY Zenon, <1>1 DEF OneClaim
<1>8. ThiefSlots'
    BY Zenon, <1>1, <1>2 DEF ThiefSlots
<1>9. Located'
    <2>1. \A i \in 0..TailBound : Lies(i) => Lies(i)'
        BY Zenon, <1>1, <1>2 DEF Lies, Claimed
    <2> QED BY Zenon, <1>1, <1>2, <2>1, LocatedKept
<1> QED BY Zenon, <1>3, <1>4, <1>5, <1>6, <1>7, <1>8, <1>9

(* push_back stores the new tail. *)
LEMMA PushPublishSound == ASSUME IInv, PushPublish, UNCHANGED overwritten PROVE IInv'
<1> USE Kinds DEF IInv
<1>1. /\ owner' = [owner EXCEPT !.pc = "idle"] /\ m_tail' = owner.tail + 1
      /\ owner.pc = "publish" /\ owner.tail = m_tail
      /\ UNCHANGED <<m_head, m_slots, pushed, ownerOnly, thief, taken, stolen, overwritten>>
    BY Zenon DEF PushPublish, OwnerGoto, OwnerPlace
<1>2. Top' = Top /\ owner'.pc = "idle"
    BY Zenon, <1>1 DEF Top
<1>3. TypeOK'
    BY <1>1, <1>2 DEF TypeOK, OwnerPlace, Top
<1>4. OneCopy' /\ Kept'
    BY Zenon, <1>1, SlotsKept
<1>5. OwnerPlace'
    BY Zenon, <1>1, <1>2 DEF OwnerPlace
<1>6. ThiefPlace'
    BY <1>1, <1>2 DEF ThiefPlace
<1>7. OneClaim'
    BY Zenon, <1>1, <1>2 DEF OneClaim
<1>8. ThiefSlots'
    BY Zenon, <1>1, <1>2 DEF ThiefSlots
<1>9. Located'
    <2>1. \A i \in 0..TailBound : Lies(i) => Lies(i)'
        BY Zenon, <1>1, <1>2 DEF Lies, Claimed
    <2> QED BY Zenon, <1>1, <1>2, <2>1, LocatedKept
<1> QED BY Zenon, <1>3, <1>4, <1>5, <1>6, <1>7, <1>8, <1>9

(* pop_back lowers the tail. *)
LEMMA PopBeginSound == ASSUME IInv, PopBegin, UNCHANGED overwritten PROVE IInv'
<1> USE Kinds DEF IInv
<1>1. /\ owner' = [pc |-> "pop", tail |-> m_tail - 1, head |-> 0] /\ m_tail' = m_tail - 1
      /\ owner.pc = "idle" /\ m_tail > 0
      /\ UNCHANGED <<m_head, m_slots, pushed, ownerOnly, thief, taken, stolen, overwritten>>
    BY Zenon DEF PopBegin
<1>2. Top' = Top
    BY <1>1 DEF Top
<1>3. TypeOK'
    BY <1>1, <1>2 DEF TypeOK
<1>4. OneCopy' /\ Kept'
    BY Zenon, <1>1, SlotsKept
<1>5. OwnerPlace'
    BY Zenon, <1>1, <1>2 DEF OwnerPlace
<1>6. ThiefPlace'
    BY <1>1, <1>2 DEF ThiefPlace
<1>7. OneClaim'
    BY Zenon, <1>1, <1>2 DEF OneClaim
<1>8. ThiefSlots'
    BY Zenon, <1>1, <1>2 DEF ThiefSlots
<1>9. Located'
    <2>1. \A i \in 0..TailBound : Lies(i) => Lies(i)'
        BY Zenon, <1>1, <1>2 DEF Lies, Claimed
    <2> QED BY Zenon, <1>1, <1>2, <2>1, LocatedKept
<1> QED BY Zenon, <1>3, <1>4, <1>5, <1>6, <1>7, <1>8, <1>9

(* pop_back reads the head and so chooses its branch. *)
LEMMA PopLoadHeadSound == ASSUME IInv, PopLoadHead, UNCHANGED overwritten PROVE IInv'
<1> USE Kinds DEF IInv
<1>1. /\ owner.pc = "pop" /\ owner.tail = m_tail /\ m_head <= m_tail + 1
      /\ UNCHANGED <<m_head, m_tail, m_slots, pushed, ownerOnly, thief, taken, stolen,
                     overwritten>>
    BY Zenon DEF PopLoadHead, OwnerPlace, Top
<1>2. /\ owner'.tail = owner.tail /\ owner'.head = m_head
      /\ \/ owner'.pc = "restore" /\ m_head > owner.tail
         \/ owner'.pc = "contend" /\ m_head = owner.tail
         \/ owner'.pc = "take" /\ m_head < owner.tail
    BY <1>1 DEF PopLoadHead
<1>3. owner' \in [pc : {"idle", "push", "publish", "pop", "restore", "contend",
                        "raise", "take"},
                  tail : 0..TailBound, head : 0..TailBound]
    BY Zenon, <1>1, <1>2 DEF PopLoadHead, TypeOK
<1>4. Top' = Top
    BY Zenon, <1>1, <1>2 DEF Top
<1>5. TypeOK'
    BY Zenon, <1>1, <1>3 DEF TypeOK
<1>6. OneCopy' /\ Kept'
    BY Zenon, <1>1, SlotsKept
<1>7. OwnerPlace'
    BY <1>1, <1>2, <1>4 DEF OwnerPlace
<1>8. ThiefPlace'
    BY <1>1, <1>2 DEF ThiefPlace
<1>9. OneClaim'
    BY <1>1, <1>2 DEF OneClaim, ThiefPlace
<1>10. ThiefSlots'
    BY Zenon, <1>1, <1>4 DEF ThiefSlots
<1>11. Located'
    <2>1. \A i \in 0..TailBound : Lies(i) => Lies(i)'
        BY Zenon, <1>1, <1>2, <1>4 DEF Lies, Claimed
    <2> QED BY Zenon, <1>1, <1>4, <2>1, LocatedKept
<1> QED BY Zenon, <1>5, <1>6, <1>7, <1>8, <1>9, <1>10, <1>11

(* pop_back puts the tail of an empty ring back. *)
LEMMA PopRestoreSound == ASSUME IInv, PopRestore, UNCHANGED overwritten PROVE IInv'
<1> USE Kinds DEF IInv
<1>1. /\ owner' = [owner EXCEPT !.pc = "idle"] /\ m_tail' = m_head
      /\ owner.pc = "restore" /\ owner.tail = m_tail /\ m_head = m_tail + 1
      /\ UNCHANGED <<m_head, m_slots, pushed, ownerOnly, thief, taken, stolen, overwritten>>
    BY Zenon DEF PopRestore, OwnerGoto, OwnerPlace
<1>2. Top' = Top /\ owner'.pc = "idle"
    BY Zenon, <1>1 DEF Top
<1>3. TypeOK'
    BY Zenon, <1>1, <1>2 DEF TypeOK
<1>4. OneCopy' /\ Kept'
    BY Zenon, <1>1, SlotsKept
<1>5. OwnerPlace'
    BY Zenon, <1>1, <1>2 DEF OwnerPlace
<1>6. ThiefPlace'
    BY <1>1, <1>2 DEF ThiefPlace
<1>7. OneClaim'
    BY Zenon, <1>1, <1>2 DEF OneClaim
<1>8. ThiefSlots'
    BY Zenon, <1>1, <1>2 DEF ThiefSlots
<1>9. Located'
    <2>1. \A i \in 0..TailBound : Lies(i) => Lies(i)'
        BY Zenon, <1>1, <1>2 DEF Lies, Claimed
    <2> QED BY Zenon, <1>1, <1>2, <2>1, LocatedKept
<1> QED BY Zenon, <1>3, <1>4, <1>5, <1>6, <1>7, <1>8, <1>9

(* pop_back and a thief compete for the last task. *)
LEMMA PopContendSound == ASSUME IInv, PopContend, UNCHANGED overwritten PROVE IInv'
<1> USE Kinds DEF IInv
<1>1. /\ owner.pc = "contend" /\ owner.tail = m_tail /\ owner.head = m_tail
      /\ m_tail <= m_head /\ m_head <= m_tail + 1
      /\ UNCHANGED <<m_tail, m_slots, pushed, ownerOnly, thief, taken, stolen, overwritten>>
    BY Zenon DEF PopContend, OwnerPlace, Top
<1>2. \/ /\ m_head = m_tail /\ m_head' = m_tail + 1
         /\ owner' = [owner EXCEPT !.pc = "raise"]
      \/ /\ m_head = m_tail + 1 /\ m_head' = m_head
         /\ owner' = [owner EXCEPT !.pc = "restore", !.head = m_head]
    BY <1>1 DEF PopContend, OwnerGoto
<1>3. /\ owner'.tail = owner.tail /\ m_head' = m_tail + 1
      /\ \/ owner'.pc = "raise" /\ m_head = m_tail
         \/ owner'.pc = "restore" /\ owner'.head = m_head'
    BY Zenon, <1>2
<1>4. Top' = Top /\ m_tail + 1 <= TailBound
    BY Zenon, <1>1, <1>3 DEF Top, OwnerPlace
<1>5. TypeOK'
    <2>1. m_head \in 0..TailBound /\ m_head' \in 0..TailBound
        BY <1>1, <1>3, <1>4 DEF TypeOK
    <2>2. owner' \in [pc : {"idle", "push", "publish", "pop", "restore", "contend",
                            "raise", "take"},
                      tail : 0..TailBound, head : 0..TailBound]
        BY ZenonT(60), <1>2, <2>1 DEF TypeOK
    <2> QED BY Zenon, <1>1, <2>1, <2>2 DEF TypeOK
<1>6. OneCopy' /\ Kept'
    BY Zenon, <1>1, SlotsKept
<1>7. OwnerPlace'
    BY <1>1, <1>3, <1>4 DEF OwnerPlace, Top
<1>8. ThiefPlace'
    BY <1>1, <1>2, <1>3 DEF ThiefPlace
<1>9. OneClaim'
    <2>1. owner'.pc = "raise" =>
              \A s \in Thief : thief[s].pc = "take" => thief[s].head # owner.tail
        BY <1>1, <1>3 DEF ThiefPlace
    <2> QED BY Zenon, <1>1, <1>3, <2>1 DEF OneClaim
<1>10. ThiefSlots'
    BY <1>1, <1>2, <1>3, <1>4 DEF ThiefSlots, ThiefPlace
<1>11. Located'
    <2>1. \A i \in 0..TailBound : Lies(i) => Lies(i)'
        BY <1>1, <1>2, <1>3, <1>4 DEF Lies, Claimed, Top
    <2> QED BY Zenon, <1>1, <1>4, <2>1, LocatedKept
<1> QED BY Zenon, <1>5, <1>6, <1>7, <1>8, <1>9, <1>10, <1>11

(* pop_back, having won the last task, puts the tail back. *)
LEMMA PopRaiseSound == ASSUME IInv, PopRaise, UNCHANGED overwritten PROVE IInv'
<1> USE Kinds DEF IInv
<1>1. /\ owner' = [owner EXCEPT !.pc = "take"] /\ m_tail' = owner.tail + 1
      /\ owner.pc = "raise" /\ owner.tail = m_tail /\ m_head = m_tail + 1
      /\ UNCHANGED <<m_head, m_slots, pushed, ownerOnly, thief, taken, stolen, overwritten>>
    BY Zenon DEF PopRaise, OwnerGoto, OwnerPlace
<1>2. Top' = Top /\ owner'.pc = "take" /\ owner'.tail = owner.tail
    BY Zenon, <1>1 DEF Top
<1>3. TypeOK'
    BY Zenon, <1>1, <1>2 DEF TypeOK
<1>4. OneCopy' /\ Kept'
    BY Zenon, <1>1, SlotsKept
<1>5. OwnerPlace'
    BY Zenon, <1>1, <1>2 DEF OwnerPlace
<1>6. ThiefPlace'
    BY <1>1, <1>2 DEF ThiefPlace
<1>7. OneClaim'
    BY Zenon, <1>1, <1>2 DEF OneClaim
<1>8. ThiefSlots'
    BY Zenon, <1>1, <1>2 DEF ThiefSlots
<1>9. Located'
    <2>1. \A i \in 0..TailBound : Lies(i) => Lies(i)'
        BY Zenon, <1>1, <1>2 DEF Lies, Claimed
    <2> QED BY Zenon, <1>1, <1>2, <2>1, LocatedKept
<1> QED BY Zenon, <1>3, <1>4, <1>5, <1>6, <1>7, <1>8, <1>9

-----------------------------------------------------------------------------
(* The steps of a thief.  Only its claim moves m_head, and only its last step
   changes a slot. *)
LEMMA ThiefKept ==
    ASSUME IInv, NEW l, NEW h \in 0..TailBound, NEW s \in Thief,
           l \in {"idle", "tail", "look", "claim"},
           thief' = [thief EXCEPT ![s] = [pc |-> l, head |-> h]],
           thief[s].pc # "take", h <= m_head,
           l \in {"look", "claim"} /\ h = m_head =>
              IF owner.pc \in {"pop", "contend"} THEN m_head <= m_tail ELSE m_head < m_tail,
           l = "claim" /\ h = m_head /\ overwritten = {} =>
              m_slots[m_head % kCapacity] \notin ownerOnly \union {Null},
           UNCHANGED <<m_head, m_tail, m_slots, pushed, ownerOnly, owner, taken, stolen,
                       overwritten>>
    PROVE  IInv'
<1> USE Kinds DEF IInv
<1>1. /\ \A r \in Thief : thief'[r] = IF r = s THEN [pc |-> l, head |-> h] ELSE thief[r]
      /\ thief' \in [Thief -> [pc : {"idle", "tail", "look", "claim", "take"},
                               head : 0..TailBound]]
    BY Zenon DEF TypeOK
<1>2. Top' = Top
    BY Zenon DEF Top
<1>3. TypeOK'
    BY Zenon, <1>1 DEF TypeOK
<1>4. OneCopy' /\ Kept'
    BY Zenon, SlotsKept
<1>5. OwnerPlace'
    BY Zenon, <1>2 DEF OwnerPlace
<1>6. ThiefPlace'
    BY Zenon, <1>1 DEF ThiefPlace
<1>7. OneClaim'
    BY <1>1 DEF OneClaim
<1>8. ThiefSlots'
    BY Zenon, <1>1, <1>2 DEF ThiefSlots
<1>9. Located'
    <2>1. \A i \in 0..TailBound : Lies(i) => Lies(i)'
        BY Zenon, <1>1, <1>2 DEF Lies, Claimed
    <2> QED BY Zenon, <1>2, <2>1, LocatedKept
<1> QED BY Zenon, <1>3, <1>4, <1>5, <1>6, <1>7, <1>8, <1>9

(* steal_front reads head, tail and the task before it claims. *)
LEMMA StealLookingSound ==
    ASSUME IInv, NEW s \in Thief, StealLoadHead(s) \/ StealLoadTail(s) \/ StealLook(s),
           UNCHANGED overwritten
    PROVE  IInv'
<1> USE Kinds DEF IInv
<1>0. /\ thief[s].head \in 0..TailBound /\ m_head \in 0..TailBound
      /\ thief[s].head <= m_head
      /\ \A l : [thief EXCEPT ![s].pc = l]
                    = [thief EXCEPT ![s] = [pc |-> l, head |-> thief[s].head]]
    BY DEF TypeOK, ThiefPlace
<1>1. CASE StealLoadHead(s)
    <2>1. /\ thief' = [thief EXCEPT ![s] = [pc |-> "tail", head |-> m_head]]
          /\ thief[s].pc = "idle"
          /\ UNCHANGED <<m_head, m_tail, m_slots, pushed, ownerOnly, owner, taken, stolen,
                         overwritten>>
        BY Zenon, <1>1 DEF StealLoadHead
    <2>2. m_head <= m_head
        OBVIOUS
    <2> HIDE DEF IInv
    <2> QED BY Zenon, <1>0, <2>1, <2>2, ThiefKept
<1>2. CASE StealLoadTail(s)
    <2>1. CASE thief[s].head >= m_tail
        BY Zenon, <1>0, <1>2, <2>1, ThiefKept DEF StealLoadTail, ThiefGoto
    <2>2. CASE ~(thief[s].head >= m_tail)
        <3>1. thief[s].head = m_head =>
                 IF owner.pc \in {"pop", "contend"} THEN m_head <= m_tail ELSE m_head < m_tail
            BY <2>2
        <3> QED BY Zenon, <1>0, <1>2, <2>2, <3>1, ThiefKept DEF StealLoadTail, ThiefGoto
    <2> QED BY Zenon, <2>1, <2>2
<1>3. CASE StealLook(s)
    <2>1. CASE m_slots[thief[s].head % kCapacity] \in ownerOnly \union {Null}
        BY Zenon, <1>0, <1>3, <2>1, ThiefKept DEF StealLook, ThiefGoto
    <2>2. CASE m_slots[thief[s].head % kCapacity] \notin ownerOnly \union {Null}
        <3>1. thief[s].head = m_head =>
                 IF owner.pc \in {"pop", "contend"} THEN m_head <= m_tail ELSE m_head < m_tail
            BY Zenon, <1>3 DEF StealLook, ThiefPlace
        <3> QED BY Zenon, <1>0, <1>3, <2>2, <3>1, ThiefKept DEF StealLook, ThiefGoto
    <2> QED BY Zenon, <2>1, <2>2
<1> QED BY Zenon, <1>1, <1>2, <1>3

(* steal_front claims its position with the compare-and-swap. *)
LEMMA StealClaimSound ==
    ASSUME IInv, NEW s \in Thief, StealClaim(s), UNCHANGED overwritten PROVE IInv'
<1> USE Kinds DEF IInv
<1>0. /\ thief[s].pc = "claim" /\ thief[s].head \in 0..TailBound /\ thief[s].head <= m_head
      /\ \A l : [thief EXCEPT ![s].pc = l]
                    = [thief EXCEPT ![s] = [pc |-> l, head |-> thief[s].head]]
      /\ UNCHANGED <<m_tail, m_slots, pushed, ownerOnly, owner, taken, stolen, overwritten>>
    BY DEF TypeOK, ThiefPlace, StealClaim
<1>1. CASE m_head # thief[s].head
    BY Zenon, <1>0, <1>1, ThiefKept DEF StealClaim, ThiefGoto
<1>2. CASE m_head = thief[s].head
    <2>1. /\ m_head' = m_head + 1
          /\ IF owner.pc \in {"pop", "contend"} THEN m_head <= m_tail ELSE m_head < m_tail
          /\ thief' = [thief EXCEPT ![s] = [pc |-> "take", head |-> m_head]]
        BY Zenon, <1>0, <1>2 DEF StealClaim, ThiefGoto, ThiefPlace
    <2>2. /\ \A r \in Thief : thief'[r] = IF r = s THEN [pc |-> "take", head |-> m_head]
                                                   ELSE thief[r]
          /\ thief' \in [Thief -> [pc : {"idle", "tail", "look", "claim", "take"},
                                   head : 0..TailBound]]
        BY Zenon, <1>0, <1>2, <2>1 DEF TypeOK
    <2>3. Top' = Top
        BY Zenon, <1>0 DEF Top
    <2>4. OwnerPlace'
        BY <1>0, <2>1, <2>3 DEF OwnerPlace, Top
    <2>5. TypeOK'
        BY <1>0, <2>1, <2>2, <2>3, <2>4 DEF TypeOK, OwnerPlace
    <2>6. OneCopy' /\ Kept'
        BY Zenon, <1>0, SlotsKept
    <2>7. ThiefPlace'
        BY <1>0, <2>1, <2>2 DEF ThiefPlace
    <2>8. OneClaim'
        <3>1. \A r \in Thief : thief[r].pc = "take" => thief[r].head # m_head
            BY DEF ThiefPlace
        <3>2. owner.pc \in {"raise", "take"} => owner.tail # m_head
            BY <2>1 DEF OwnerPlace
        <3> QED BY <1>0, <2>2, <3>1, <3>2 DEF OneClaim
    <2>9. ThiefSlots'
        <3>1. Top <= m_head + kCapacity
            BY Zenon DEF OwnerPlace
        <3>2. overwritten = {} => m_slots[m_head % kCapacity] \notin ownerOnly \union {Null}
            BY Zenon, <1>0, <1>2 DEF ThiefSlots
        <3>3. \A r \in Thief : ~(thief'[r].pc = "claim" /\ thief'[r].head = m_head + 1)
            BY <2>2 DEF ThiefPlace
        <3> QED BY Zenon, <1>0, <2>1, <2>2, <2>3, <3>1, <3>2, <3>3 DEF ThiefSlots
    <2>10. Located'
        <3>1. ASSUME NEW i \in 0..TailBound, Lies(i) PROVE Lies(i)'
            <4>1. CASE i = m_head
                BY <2>2, <4>1 DEF Lies, Claimed
            <4>2. CASE Claimed(i)
                BY Zenon, <1>0, <2>2, <4>2 DEF Lies, Claimed
            <4>3. CASE i # m_head /\ m_head <= i /\ i < Top
                BY <2>1, <2>3, <4>3 DEF Lies
            <4> QED BY Zenon, <3>1, <4>1, <4>2, <4>3 DEF Lies
        <3> QED BY Zenon, <1>0, <2>3, <3>1, LocatedKept
    <2> QED BY Zenon, <2>4, <2>5, <2>6, <2>7, <2>8, <2>9, <2>10
<1> QED BY Zenon, <1>1, <1>2

-----------------------------------------------------------------------------
(* The steps that change a slot. *)
LEMMA PushStoreSound == ASSUME IInv, PushStore PROVE IInv'
<1> USE Kinds DEF IInv
<1> DEFINE P == m_tail % kCapacity
<1>1. /\ owner.pc = "push" /\ owner.tail = m_tail /\ m_head <= m_tail
      /\ m_tail < m_head + kCapacity /\ m_tail < TailBound /\ pushed < MaxPushes
      /\ owner' = [owner EXCEPT !.pc = "publish"]
      /\ pushed' = pushed + 1 /\ m_slots' = [m_slots EXCEPT ![P] = pushed']
      /\ overwritten' = overwritten \union ({m_slots[P]} \ {Null})
      /\ ownerOnly' \in {ownerOnly, ownerOnly \union {pushed'}}
      /\ UNCHANGED <<m_head, m_tail, thief, taken, stolen>>
    BY Zenon DEF PushStore, OwnerGoto, OwnerPlace, Top
<1>2. P \in Slot /\ pushed' \in Task /\ Top = m_tail /\ Null \notin Task
    BY <1>1, SlotOf DEF Task, Top, Null
<1>3. /\ owner'.pc = "publish" /\ owner'.tail = m_tail /\ Top' = m_tail + 1
      /\ \A k \in Slot : m_slots'[k] = IF k = P THEN pushed + 1 ELSE m_slots[k]
      /\ m_slots' \in [Slot -> Task \union {Null}]
    BY Zenon, <1>1, <1>2 DEF TypeOK, Top
<1> HIDE DEF P
<1>4. TypeOK'
    <2>1. pushed' \in 0..MaxPushes /\ ownerOnly' \subseteq Task
        BY <1>1, <1>2 DEF TypeOK
    <2>2. overwritten' \subseteq Task
        BY Zenon, <1>1, <1>2 DEF TypeOK
    <2>3. owner' \in [pc : {"idle", "push", "publish", "pop", "restore", "contend",
                            "raise", "take"},
                      tail : 0..TailBound, head : 0..TailBound]
        BY Zenon, <1>1 DEF TypeOK
    <2> QED BY Zenon, <1>1, <1>3, <2>1, <2>2, <2>3 DEF TypeOK
<1>5. OneCopy'
    <2>1. /\ m_slots \in [Slot -> Task \union {Null}] /\ taken \in [Task -> Nat]
          /\ \A k \in Slot : m_slots[k] # Null => m_slots[k] \in Nat /\ m_slots[k] <= pushed
        BY SMTT(60) DEF TypeOK, OneCopy, Task
    <2>2. taken[pushed + 1] = 0
        BY <1>1, <1>2 DEF OneCopy
    <2>3. \A i \in Slot : m_slots'[i] # Null =>
              m_slots'[i] <= pushed' /\ taken'[m_slots'[i]] = 0
        BY <1>1, <1>3, <2>1, <2>2 DEF OneCopy
    <2>4. \A i, j \in Slot : m_slots'[i] = m_slots'[j] /\ m_slots'[i] # Null => i = j
        <3> TAKE i, j \in Slot
        <3> HAVE m_slots'[i] = m_slots'[j] /\ m_slots'[i] # Null
        <3>1. CASE i # P /\ j # P
            BY Zenon, <1>3, <3>1 DEF OneCopy
        <3>2. CASE i = P /\ j # P
            BY <1>3, <2>1, <3>2
        <3>3. CASE i # P /\ j = P
            BY <1>3, <2>1, <3>3
        <3> QED BY Zenon, <3>1, <3>2, <3>3
    <2>5. \A t \in Task : taken'[t] <= 1 /\ (pushed' < t => taken'[t] = 0)
        BY <1>1 DEF OneCopy, Task
    <2>6. \A t \in ownerOnly' \union stolen' : t <= pushed'
        BY <1>1 DEF OneCopy, TypeOK, Task
    <2> QED BY Zenon, <2>3, <2>4, <2>5, <2>6 DEF OneCopy
<1>6. overwritten' = {} => overwritten = {} /\ m_slots[P] = Null
    BY Zenon, <1>1
<1>7. Kept'
    <2> SUFFICES ASSUME overwritten' = {}, NEW t \in 1..pushed'
                 PROVE  taken[t] # 0 \/ \E k \in Slot : m_slots'[k] = t
        BY Zenon, <1>1 DEF Kept
    <2>1. CASE t = pushed + 1
        BY Zenon, <1>2, <1>3, <2>1
    <2>2. CASE t # pushed + 1
        <3>1. t \in 1..pushed /\ t # Null
            BY <1>1, <2>2 DEF Null
        <3>2. taken[t] # 0 \/ \E k \in Slot : m_slots[k] = t
            BY Zenon, <1>6, <3>1 DEF Kept
        <3> QED BY Zenon, <1>3, <1>6, <3>1, <3>2
    <2> QED BY Zenon, <2>1, <2>2
<1>8. OwnerPlace'
    BY <1>1, <1>3 DEF OwnerPlace
<1>9. ThiefPlace'
    BY Zenon, <1>1, <1>3 DEF ThiefPlace
<1>10. OneClaim'
    BY Zenon, <1>1, <1>3 DEF OneClaim
<1>11. ThiefSlots'
    <2> SUFFICES ASSUME overwritten' = {} PROVE ThiefSlots'
        BY Zenon DEF ThiefSlots
    <2>0. overwritten = {} /\ m_slots[P] = Null
        BY Zenon, <1>6
    <2>1. ASSUME NEW k \in Slot, k # P, m_slots[k] \notin ownerOnly \union {Null}
          PROVE  m_slots'[k] \notin ownerOnly' \union {Null}
        BY <1>1, <1>3, <2>1 DEF OneCopy
    <2>2. ASSUME NEW s \in Thief, thief[s].pc = "take"
          PROVE  /\ Top' <= thief[s].head + kCapacity
                 /\ m_slots'[thief[s].head % kCapacity] \notin ownerOnly' \union {Null}
        <3> DEFINE h == thief[s].head
        <3>0. m_slots[h % kCapacity] \notin ownerOnly \union {Null}
            BY Zenon, <2>0, <2>2 DEF ThiefSlots
        <3>1. m_tail <= h + kCapacity /\ h < m_head
            BY Zenon, <1>2, <2>0, <2>2 DEF ThiefSlots, ThiefPlace
        <3>2. m_tail # h + kCapacity
            BY Zenon, <2>0, <3>0, NextLap DEF P
        <3>3. h % kCapacity # P
            <4>1. h \in Nat /\ m_tail \in Nat /\ m_head \in Nat /\ kCapacity \in Nat
                OBVIOUS
            <4> HIDE DEF h
            <4>2. h < m_tail
                BY <1>1, <3>1, <4>1
            <4>3. m_tail < h + kCapacity
                BY <3>1, <3>2, <4>1
            <4> QED BY Zenon, <4>1, <4>2, <4>3, Apart DEF P
        <3>4. h % kCapacity \in Slot
            BY Zenon, SlotOf
        <3>5. m_slots'[h % kCapacity] \notin ownerOnly' \union {Null}
            BY Zenon, <2>1, <3>0, <3>3, <3>4
        <3>6. Top' <= h + kCapacity
            BY <1>3, <3>1, <3>2
        <3> QED BY Zenon, <3>5, <3>6
    <2>3. ASSUME NEW s \in Thief, thief[s].pc = "claim", thief[s].head = m_head
          PROVE  m_slots'[m_head % kCapacity] \notin ownerOnly' \union {Null}
        <3>1. m_head < m_tail
            BY Zenon, <1>1, <2>3 DEF ThiefPlace
        <3>2. m_head % kCapacity # P
            BY Zenon, <1>1, <3>1, Apart DEF P
        <3>3. m_head % kCapacity \in Slot
            BY Zenon, SlotOf
        <3> QED BY Zenon, <2>0, <2>1, <2>3, <3>2, <3>3 DEF ThiefSlots
    <2>4. stolen' \intersect ownerOnly' = {}
        BY <1>1, <2>0 DEF ThiefSlots, OneCopy
    <2> QED BY Zenon, <1>1, <2>2, <2>3, <2>4 DEF ThiefSlots
<1>12. Located'
    <2> SUFFICES ASSUME NEW k \in Slot, m_slots'[k] # Null
                 PROVE  \E i \in 0..TailBound : /\ i % kCapacity = k
                                                /\ Top' <= i + kCapacity /\ Lies(i)'
        BY Zenon DEF Located
    <2>1. CASE k = P
        <3>1. PICK i \in 0..TailBound : i = m_tail
            BY <1>1
        <3>2. Lies(i)'
            BY <1>1, <1>3, <3>1 DEF Lies
        <3>3. i % kCapacity = k /\ Top' <= i + kCapacity
            BY <1>3, <2>1, <3>1 DEF P
        <3> QED BY Zenon, <3>2, <3>3
    <2>2. CASE k # P
        <3>1. PICK i \in 0..TailBound : i % kCapacity = k /\ Top <= i + kCapacity /\ Lies(i)
            BY Zenon, <1>3, <2>2 DEF Located
        <3>2. m_tail # i + kCapacity
            BY <2>2, <3>1, NextLap DEF P
        <3>3. Lies(i)'
            BY <1>1, <1>2, <1>3, <3>1 DEF Lies, Claimed
        <3> QED BY <1>2, <1>3, <3>1, <3>2, <3>3
    <2> QED BY Zenon, <2>1, <2>2
<1> QED BY Zenon, <1>4, <1>5, <1>7, <1>8, <1>9, <1>10, <1>11, <1>12

(* Moving a task out of its slot. *)
LEMMA TakeSlotSound ==
    ASSUME IInv, NEW a \in Nat, TakeSlot(a), UNCHANGED <<pushed, ownerOnly, overwritten>>,
           stolen' \subseteq stolen \union ({m_slots[a % kCapacity]} \ {Null})
    PROVE  /\ OneCopy' /\ Kept'
           /\ m_slots' \in [Slot -> Task \union {Null}] /\ taken' \in [Task -> Nat]
           /\ \A k \in Slot : m_slots'[k] = IF k = a % kCapacity THEN Null ELSE m_slots[k]
<1> USE Kinds DEF IInv
<1> DEFINE P == a % kCapacity
<1>1. P \in Slot
    BY Zenon, SlotOf
<1>2. /\ \A k \in Slot : m_slots'[k] = IF k = P THEN Null ELSE m_slots[k]
      /\ m_slots' \in [Slot -> Task \union {Null}]
      /\ taken' \in [Task -> Nat]
      /\ \A u \in Task : taken'[u] = IF u = m_slots[P] THEN taken[u] + 1 ELSE taken[u]
    BY <1>1 DEF TakeSlot, TypeOK
<1> HIDE DEF P
<1>3. stolen' \subseteq stolen \union ({m_slots[P]} \ {Null})
    BY Zenon DEF P
<1>4. m_slots \in [Slot -> Task \union {Null}] /\ Null \notin Task /\ taken \in [Task -> Nat]
    BY DEF TypeOK, Task, Null
<1>5. OneCopy'
    <2>1. \A i \in Slot : m_slots'[i] # Null =>
              m_slots'[i] <= pushed' /\ taken'[m_slots'[i]] = 0
        BY <1>1, <1>2, <1>4 DEF OneCopy
    <2>2. \A i, j \in Slot : m_slots'[i] = m_slots'[j] /\ m_slots'[i] # Null => i = j
        BY Zenon, <1>2 DEF OneCopy
    <2>3. \A t \in Task : taken'[t] <= 1 /\ (pushed' < t => taken'[t] = 0)
        BY SMTT(60), <1>1, <1>2, <1>4 DEF OneCopy, Task
    <2>4. \A t \in ownerOnly' \union stolen' : t <= pushed'
        BY Zenon, <1>1, <1>3, <1>4 DEF OneCopy
    <2> QED BY Zenon, <2>1, <2>2, <2>3, <2>4 DEF OneCopy
<1>6. Kept'
    <2> SUFFICES ASSUME overwritten = {}, NEW t \in 1..pushed
                 PROVE  taken'[t] # 0 \/ \E k \in Slot : m_slots'[k] = t
        BY Zenon DEF Kept
    <2>1. t \in Task
        BY DEF TypeOK, Task
    <2>2. CASE t = m_slots[P]
        BY <1>2, <1>4, <2>1, <2>2
    <2>3. CASE t # m_slots[P]
        <3>1. taken[t] # 0 \/ \E k \in Slot : m_slots[k] = t
            BY Zenon DEF Kept
        <3> QED BY Zenon, <1>2, <2>1, <2>3, <3>1
    <2> QED BY Zenon, <2>2, <2>3
<1> QED BY Zenon, <1>2, <1>5, <1>6 DEF P

(* pop_back takes its task. *)
LEMMA PopTakeSound == ASSUME IInv, PopTake, UNCHANGED overwritten PROVE IInv'
<1> USE Kinds DEF IInv
<1> DEFINE p == owner.tail
           P == p % kCapacity
<1>1. /\ owner.pc = "take" /\ owner' = [owner EXCEPT !.pc = "idle"]
      /\ UNCHANGED <<m_head, m_tail, pushed, ownerOnly, thief, stolen, overwritten>>
    BY Zenon DEF PopTake, OwnerGoto
<1>2. /\ OneCopy' /\ Kept'
      /\ m_slots' \in [Slot -> Task \union {Null}] /\ taken' \in [Task -> Nat]
      /\ \A k \in Slot : m_slots'[k] = IF k = P THEN Null ELSE m_slots[k]
    BY Zenon, <1>1, TakeSlotSound DEF PopTake
<1>3. /\ \/ m_tail = p /\ m_head <= p
         \/ m_tail = p + 1 /\ m_head = p + 1
      /\ Top = p + 1 /\ Top' = m_tail /\ owner'.pc = "idle"
      /\ p + 1 <= m_head + kCapacity
    BY Zenon, <1>1 DEF OwnerPlace, Top
<1> HIDE DEF P
<1>4. TypeOK'
    BY Zenon, <1>1, <1>2 DEF TypeOK
<1>5. OwnerPlace'
    BY <1>1, <1>3 DEF OwnerPlace
<1>6. ThiefPlace'
    BY Zenon, <1>1, <1>3 DEF ThiefPlace
<1>7. OneClaim'
    BY Zenon, <1>1, <1>3 DEF OneClaim
<1>8. ThiefSlots'
    <2> SUFFICES ASSUME overwritten = {} PROVE ThiefSlots'
        BY Zenon, <1>1 DEF ThiefSlots
    <2>1. ASSUME NEW s \in Thief, thief[s].pc = "take"
          PROVE  /\ Top' <= thief[s].head + kCapacity
                 /\ m_slots'[thief[s].head % kCapacity] \notin ownerOnly \union {Null}
        <3> DEFINE h == thief[s].head
        <3>1. /\ p + 1 <= h + kCapacity /\ h < m_head /\ h # p
              /\ m_slots[h % kCapacity] \notin ownerOnly \union {Null}
            BY Zenon, <1>1, <1>3, <2>1 DEF ThiefSlots, ThiefPlace, OneClaim
        <3>2. h % kCapacity # P
            <4>1. h < p /\ p < h + kCapacity
                BY <1>3, <3>1
            <4> QED BY Zenon, <4>1, Apart DEF P
        <3>3. h % kCapacity \in Slot
            BY Zenon, SlotOf
        <3>4. Top' <= h + kCapacity
            BY <1>3, <3>1
        <3> QED BY Zenon, <1>2, <3>1, <3>2, <3>3, <3>4
    <2>2. ASSUME NEW s \in Thief, thief[s].pc = "claim", thief[s].head = m_head
          PROVE  m_slots'[m_head % kCapacity] \notin ownerOnly \union {Null}
        <3>1. m_head < p
            BY <1>1, <1>3, <2>2 DEF ThiefPlace
        <3>2. m_head % kCapacity # P
            <4>1. p < m_head + kCapacity
                BY <1>3
            <4> QED BY Zenon, <3>1, <4>1, Apart DEF P
        <3>3. m_head % kCapacity \in Slot
            BY Zenon, SlotOf
        <3> QED BY Zenon, <1>2, <2>2, <3>2, <3>3 DEF ThiefSlots
    <2> QED BY Zenon, <1>1, <2>1, <2>2 DEF ThiefSlots
<1>9. Located'
    <2> SUFFICES ASSUME NEW k \in Slot, m_slots'[k] # Null
                 PROVE  \E i \in 0..TailBound : /\ i % kCapacity = k
                                                /\ Top' <= i + kCapacity /\ Lies(i)'
        BY Zenon DEF Located
    <2>1. k # P /\ m_slots[k] # Null
        BY Zenon, <1>2
    <2>2. PICK i \in 0..TailBound : i % kCapacity = k /\ Top <= i + kCapacity /\ Lies(i)
        BY Zenon, <2>1 DEF Located
    <2>3. i # p
        BY Zenon, <2>1, <2>2 DEF P
    <2>4. Lies(i)'
        BY <1>1, <1>3, <2>2, <2>3 DEF Lies, Claimed
    <2>5. Top' <= i + kCapacity
        BY <1>3, <2>2
    <2> QED BY Zenon, <2>2, <2>4, <2>5
<1> QED BY Zenon, <1>2, <1>4, <1>5, <1>6, <1>7, <1>8, <1>9

(* steal_front takes the task it has claimed. *)
LEMMA StealTakeSound ==
    ASSUME IInv, NEW s \in Thief, StealTake(s), UNCHANGED overwritten PROVE IInv'
<1> USE Kinds DEF IInv
<1> DEFINE p == thief[s].head
           P == p % kCapacity
<1>1. /\ thief[s].pc = "take" /\ p < m_head
      /\ stolen' = stolen \union ({m_slots[P]} \ {Null})
      /\ UNCHANGED <<m_head, m_tail, pushed, ownerOnly, owner, overwritten>>
    BY Zenon DEF StealTake, ThiefPlace
<1>2. /\ OneCopy' /\ Kept'
      /\ m_slots' \in [Slot -> Task \union {Null}] /\ taken' \in [Task -> Nat]
      /\ \A k \in Slot : m_slots'[k] = IF k = P THEN Null ELSE m_slots[k]
    BY Zenon, <1>1, TakeSlotSound DEF StealTake
<1>3. /\ \A r \in Thief : thief'[r] = IF r = s THEN [pc |-> "idle", head |-> p] ELSE thief[r]
      /\ thief' \in [Thief -> [pc : {"idle", "tail", "look", "claim", "take"},
                               head : 0..TailBound]]
    BY DEF StealTake, ThiefGoto, TypeOK
<1>4. /\ Top' = Top /\ m_head <= Top /\ m_tail <= Top
      /\ owner.pc \in {"pop", "contend"} => m_tail < Top
    BY <1>1 DEF OwnerPlace, Top
<1>5. P \in Slot
    BY Zenon, SlotOf
<1> HIDE DEF P
<1>6. TypeOK'
    <2>1. stolen' \subseteq Task
        BY Zenon, <1>1, <1>5 DEF TypeOK
    <2> QED BY Zenon, <1>1, <1>2, <1>3, <2>1 DEF TypeOK
<1>7. OwnerPlace'
    BY Zenon, <1>1, <1>4 DEF OwnerPlace
<1>8. ThiefPlace'
    BY <1>1, <1>3 DEF ThiefPlace
<1>9. OneClaim'
    BY <1>1, <1>3 DEF OneClaim
<1>10. ThiefSlots'
    <2> SUFFICES ASSUME overwritten = {} PROVE ThiefSlots'
        BY Zenon, <1>1 DEF ThiefSlots
    <2>0. Top <= p + kCapacity /\ m_slots[P] \notin ownerOnly \union {Null}
        BY Zenon, <1>1 DEF ThiefSlots, P
    <2>1. ASSUME NEW r \in Thief, thief'[r].pc = "take"
          PROVE  /\ Top <= thief'[r].head + kCapacity
                 /\ m_slots'[thief'[r].head % kCapacity] \notin ownerOnly \union {Null}
        <3> DEFINE h == thief[r].head
        <3>1. r # s /\ thief'[r] = thief[r]
            BY <1>3, <2>1
        <3>2. /\ Top <= h + kCapacity /\ h < m_head /\ h # p
              /\ m_slots[h % kCapacity] \notin ownerOnly \union {Null}
            BY Zenon, <1>1, <2>1, <3>1 DEF ThiefSlots, ThiefPlace, OneClaim
        <3>3. h % kCapacity # P
            <4>1. p < h + kCapacity /\ h < p + kCapacity
                BY <1>1, <1>4, <2>0, <3>2
            <4>2. CASE h < p
                BY Zenon, <4>1, <4>2, Apart DEF P
            <4>3. CASE p < h
                BY Zenon, <4>1, <4>3, Apart DEF P
            <4> QED BY <3>2, <4>2, <4>3
        <3>4. h % kCapacity \in Slot
            BY Zenon, SlotOf
        <3> QED BY Zenon, <1>2, <3>1, <3>2, <3>3, <3>4
    <2>2. ASSUME NEW r \in Thief, thief'[r].pc = "claim", thief'[r].head = m_head
          PROVE  m_slots'[m_head % kCapacity] \notin ownerOnly \union {Null}
        <3>1. r # s /\ thief[r].pc = "claim" /\ thief[r].head = m_head
            BY <1>3, <2>2
        <3>2. m_head < Top
            BY <1>4, <3>1 DEF ThiefPlace
        <3>3. m_head % kCapacity # P
            <4>1. p < m_head /\ m_head < p + kCapacity
                BY <1>1, <2>0, <3>2
            <4> QED BY Zenon, <4>1, Apart DEF P
        <3>4. m_head % kCapacity \in Slot
            BY Zenon, SlotOf
        <3> QED BY Zenon, <1>2, <3>1, <3>3, <3>4 DEF ThiefSlots
    <2>3. stolen' \intersect ownerOnly = {}
        BY Zenon, <1>1, <2>0 DEF ThiefSlots
    <2> QED BY Zenon, <1>1, <1>4, <2>1, <2>2, <2>3 DEF ThiefSlots
<1>11. Located'
    <2> SUFFICES ASSUME NEW k \in Slot, m_slots'[k] # Null
                 PROVE  \E i \in 0..TailBound : /\ i % kCapacity = k
                                                /\ Top' <= i + kCapacity /\ Lies(i)'
        BY Zenon DEF Located
    <2>1. k # P /\ m_slots[k] # Null
        BY Zenon, <1>2
    <2>2. PICK i \in 0..TailBound : i % kCapacity = k /\ Top <= i + kCapacity /\ Lies(i)
        BY Zenon, <2>1 DEF Located
    <2>3. i # p
        BY Zenon, <2>1, <2>2 DEF P
    <2>4. Lies(i)'
        BY Zenon, <1>1, <1>3, <1>4, <2>2, <2>3 DEF Lies, Claimed
    <2> QED BY Zenon, <1>4, <2>2, <2>4
<1> QED BY Zenon, <1>2, <1>6, <1>7, <1>8, <1>9, <1>10, <1>11

-----------------------------------------------------------------------------
(* The empty ring satisfies the invariant. *)
LEMMA InitSound == Init => IInv
<1> SUFFICES ASSUME Init PROVE IInv
    OBVIOUS
<1> USE RingAssumption DEF Init
<1>1. TypeOK
    BY DEF TypeOK, Null
<1>2. Top = 0
    BY Zenon DEF Top
<1>3. OneCopy /\ Located
    BY DEF OneCopy, Located, Task
<1>4. OwnerPlace /\ ThiefPlace /\ OneClaim
    BY <1>2 DEF OwnerPlace, ThiefPlace, OneClaim
<1>5. ThiefSlots /\ Kept
    BY DEF ThiefSlots, Kept
<1> QED BY Zenon, <1>1, <1>3, <1>4, <1>5 DEF IInv

(* Every step preserves the invariant. *)
LEMMA NextSound == IInv /\ [Next]_vars => IInv'
<1> SUFFICES ASSUME IInv, [Next]_vars PROVE IInv'
    OBVIOUS
<1>1. CASE OwnerStep
    BY Zenon, <1>1, PushBeginSound, PushStoreSound, PushPublishSound, PopBeginSound,
       PopLoadHeadSound, PopRestoreSound, PopContendSound, PopRaiseSound, PopTakeSound
       DEF OwnerStep
<1>2. ASSUME NEW s \in Thief, ThiefStep(s) PROVE IInv'
    BY Zenon, <1>2, StealLookingSound, StealClaimSound, StealTakeSound DEF ThiefStep
<1>3. CASE UNCHANGED vars
    <2>1. Top' = Top
        BY Zenon, <1>3 DEF vars, Top
    <2>2. \A i : Lies(i) => Lies(i)'
        BY Zenon, <1>3, <2>1 DEF vars, Lies, Claimed
    <2>3. Located'
        BY Zenon, <1>3, <2>1, <2>2, LocatedKept DEF vars
    <2>4. OneCopy' /\ Kept'
        BY SMTT(60), <1>3, SlotsKept DEF vars
    <2>5. TypeOK' /\ OwnerPlace' /\ ThiefPlace' /\ OneClaim' /\ ThiefSlots'
        BY Zenon, <1>3, <2>1 DEF vars, IInv, TypeOK, OwnerPlace, ThiefPlace, OneClaim, ThiefSlots
    <2> QED BY Zenon, <2>3, <2>4, <2>5 DEF IInv
<1> QED BY Zenon, <1>1, <1>2, <1>3 DEF Next

(* In a quiet ring every task lies between head and tail: Quiet rules out claims. *)
LEMMA QuietRing == IInv => NoTaskLost
<1> SUFFICES ASSUME IInv, overwritten = {}, Quiet, NEW t \in 1..pushed, taken[t] = 0
             PROVE  \E i \in 0..TailBound :
                        m_head <= i /\ i < m_tail /\ m_slots[i % kCapacity] = t
    BY Zenon DEF NoTaskLost
<1>1. PICK k \in Slot : m_slots[k] = t
    BY Zenon DEF IInv, Kept
<1>2. t # Null /\ Top = m_tail
    BY DEF Null, Quiet, Top
<1>3. PICK i \in 0..TailBound : i % kCapacity = k /\ Lies(i)
    BY Zenon, <1>1, <1>2 DEF IInv, Located
<1>4. ~Claimed(i)
    BY Zenon DEF Quiet, Claimed
<1> QED BY Zenon, <1>1, <1>2, <1>3, <1>4 DEF Lies

(* A push meets a task only a lap behind, in a slot some thief has claimed. *)
LEMMA PushMeets ==
    IInv /\ [Next]_vars =>
        (overwritten' # overwritten =>
            \E s \in Thief : /\ thief[s].pc = "take"
                             /\ thief[s].head = owner.tail - kCapacity)
<1> SUFFICES ASSUME IInv, [Next]_vars, overwritten' # overwritten
             PROVE  \E s \in Thief : /\ thief[s].pc = "take"
                                     /\ thief[s].head = owner.tail - kCapacity
    OBVIOUS
<1>1. PushStore
    BY Zenon DEF Next, OwnerStep, ThiefStep, vars
<1> USE Kinds DEF IInv
<1> DEFINE P == m_tail % kCapacity
<1>2. /\ owner.pc = "push" /\ owner.tail = m_tail /\ Top = m_tail
      /\ m_head <= m_tail /\ m_tail < m_head + kCapacity
    BY Zenon, <1>1 DEF PushStore, OwnerPlace, Top
<1>3. P \in Slot /\ m_slots[P] # Null
    BY Zenon, <1>1, <1>2, SlotOf DEF PushStore
<1>4. PICK i \in 0..TailBound : i % kCapacity = P /\ m_tail <= i + kCapacity /\ Lies(i)
    BY Zenon, <1>2, <1>3 DEF Located
<1> HIDE DEF P
<1>5. i < m_head
    <2>1. CASE m_head <= i /\ i < m_tail
        <3>1. m_tail < i + kCapacity
            BY <1>2, <2>1
        <3> QED BY <1>4, <2>1, <3>1, Apart DEF P
    <2>2. CASE Claimed(i)
        BY Zenon, <1>2, <2>2 DEF Claimed, ThiefPlace
    <2> QED BY Zenon, <1>2, <1>4, <2>1, <2>2 DEF Lies
<1>6. PICK s \in Thief : thief[s].pc = "take" /\ thief[s].head = i
    BY <1>2, <1>4, <1>5 DEF Lies, Claimed
<1>7. m_tail = i + kCapacity
    <2>1. CASE m_tail < i + kCapacity
        <3>1. i < m_tail
            BY <1>2, <1>5
        <3> QED BY <1>4, <2>1, <3>1, Apart DEF P
    <2> QED BY <1>4, <2>1
<1> QED BY <1>2, <1>6, <1>7

-----------------------------------------------------------------------------
(* pop_back and steal_front hand out no task twice, and leave none in a slot that was
   handed out: for every capacity and any number of thieves and pushes. *)
THEOREM TakenOnce == Spec => []TakenAtMostOnce
<1>1. IInv => TakenAtMostOnce
    BY Zenon DEF IInv, TakenAtMostOnce, OneCopy, ThiefSlots
<1> QED BY <1>1, InitSound, NextSound, PTL DEF Spec

(* The ring loses no task until a push overwrites one, and hands no task bound to its
   owner to a thief until then: for every capacity and any number of thieves and pushes. *)
THEOREM RingCorrect == Spec => []NoTaskLost
<1>1. IInv => NoTaskLost
    BY Zenon, QuietRing
<1> QED BY <1>1, InitSound, NextSound, PTL DEF Spec

(* A push overwrites only a task that a thief claimed one lap before and has not
   taken out: the one way this ring loses a task. *)
THEOREM OverwritesCorrect == Spec => OnlyClaimedOverwritten
<1>1. IInv /\ [Next]_vars =>
          [overwritten' # overwritten =>
              \E s \in Thief : /\ thief[s].pc = "take"
                               /\ thief[s].head = owner.tail - kCapacity]_vars
    BY Zenon, PushMeets
<1> QED BY <1>1, InitSound, NextSound, PTL DEF Spec, OnlyClaimedOverwritten

-----------------------------------------------------------------------------
(* The single-threaded channel *)

Message == 1..Messages

(* The messages k+1, k+2, ... *)
Run(s, k) == \A i \in 1..Len(s) : s[i] = k + i

(* What was received, and then what is queued, are the messages sent. *)
ChannelOrder ==
    /\ Run(received, 0) /\ Run(m_queue, Len(received))
    /\ Len(received) + Len(m_queue) = sent

(* The threshold of a batched await does not outlive it, and only a suspended
   consumer is registered. *)
ThresholdFits ==
    /\ IF await.kind = "recvBatched" THEN m_wakeThreshold <= await.limit
                                     ELSE m_wakeThreshold = 1
    /\ await = Running => ~m_hasWaiter

ChannelInv == ChannelTypeOK /\ ChannelOrder /\ ThresholdFits /\ NoSleepBesideEnough

(* One run after another. *)
LEMMA RunConcat ==
    ASSUME NEW s \in Seq(Message), NEW t \in Seq(Message), NEW k \in Nat,
           Run(s, k), Run(t, k + Len(s))
    PROVE  s \o t \in Seq(Message) /\ Len(s \o t) = Len(s) + Len(t) /\ Run(s \o t, k)
<1>1. s \o t \in Seq(Message) /\ Len(s \o t) = Len(s) + Len(t)
    OBVIOUS
<1>2. ASSUME NEW i \in 1..Len(s \o t) PROVE (s \o t)[i] = k + i
    <2>1. CASE i <= Len(s)
        BY <1>1, <2>1 DEF Run
    <2>2. CASE i > Len(s)
        <3>1. i - Len(s) \in 1..Len(t) /\ (s \o t)[i] = t[i - Len(s)]
            BY <1>1, <2>2
        <3>2. t[i - Len(s)] = (k + Len(s)) + (i - Len(s))
            BY Zenon, <3>1 DEF Run
        <3> QED BY <3>1, <3>2
    <2> QED BY <2>1, <2>2
<1> QED BY Zenon, <1>1, <1>2 DEF Run

(* The parts of a run. *)
LEMMA RunParts ==
    ASSUME NEW s \in Seq(Message), NEW n \in Nat, n <= Len(s)
    PROVE  /\ SubSeq(s, 1, n) \in Seq(Message) /\ Len(SubSeq(s, 1, n)) = n
           /\ SubSeq(s, n + 1, Len(s)) \in Seq(Message)
           /\ Len(SubSeq(s, n + 1, Len(s))) = Len(s) - n
           /\ \A k \in Nat : Run(s, k) => /\ Run(SubSeq(s, 1, n), k)
                                          /\ Run(SubSeq(s, n + 1, Len(s)), k + n)
<1>1. n \in 0..Len(s) /\ n + 1 \in 1..(Len(s) + 1)
    OBVIOUS
<1>2. /\ SubSeq(s, 1, n) \in Seq(Message) /\ Len(SubSeq(s, 1, n)) = n
      /\ \A i \in 1..n : SubSeq(s, 1, n)[i] = s[i]
    BY <1>1
<1>3. /\ SubSeq(s, n + 1, Len(s)) \in Seq(Message)
      /\ Len(SubSeq(s, n + 1, Len(s))) = Len(s) - n
      /\ \A i \in 1..(Len(s) - n) : SubSeq(s, n + 1, Len(s))[i] = s[n + i]
    BY <1>1
<1>4. ASSUME NEW k \in Nat, Run(s, k) PROVE Run(SubSeq(s, 1, n), k)
    BY <1>2, <1>4 DEF Run
<1>5. ASSUME NEW k \in Nat, Run(s, k) PROVE Run(SubSeq(s, n + 1, Len(s)), k + n)
    <2>1. \A i \in 1..(Len(s) - n) : n + i \in 1..Len(s) /\ k + (n + i) = (k + n) + i
        BY <1>1
    <2>2. \A i \in 1..(Len(s) - n) : s[n + i] = k + (n + i)
        BY Zenon, <1>5, <2>1 DEF Run
    <2> QED BY Zenon, <1>3, <2>1, <2>2 DEF Run
<1> QED BY Zenon, <1>2, <1>3, <1>4, <1>5

(* The smaller of two numbers. *)
LEMMA MinOfTwo ==
    ASSUME NEW a \in Nat, NEW b \in Nat
    PROVE  Min({a, b}) \in Nat /\ Min({a, b}) <= b /\ (a >= 1 /\ b >= 1 => Min({a, b}) >= 1)
<1>1. \E x \in {a, b} : \A y \in {a, b} : x <= y
    OBVIOUS
<1>2. /\ Min({a, b}) \in {a, b}
      /\ \A y \in {a, b} : Min({a, b}) <= y
    BY Zenon, <1>1 DEF Min
<1> QED BY Zenon, <1>2

(* Deliver moves messages from the front of the queue to what was received. *)
LEMMA DeliverKeepsOrder ==
    ASSUME received \in Seq(1..Messages), Run(received, 0),
           NEW queue \in Seq(1..Messages), Run(queue, Len(received)),
           NEW n \in 0..Len(queue), Deliver(queue, n)
    PROVE  /\ received' \in Seq(1..Messages) /\ m_queue' \in Seq(1..Messages)
           /\ Run(received', 0) /\ Run(m_queue', Len(received'))
           /\ Len(received') + Len(m_queue') = Len(received) + Len(queue)
<1> DEFINE a == SubSeq(queue, 1, n)
           b == SubSeq(queue, n + 1, Len(queue))
<1>0. n \in Nat /\ n <= Len(queue) /\ Len(received) \in Nat /\ Len(queue) \in Nat
    OBVIOUS
<1>1. /\ a \in Seq(1..Messages) /\ b \in Seq(1..Messages)
      /\ Len(a) = n /\ Len(b) = Len(queue) - n
      /\ Run(a, Len(received)) /\ Run(b, Len(received) + n)
    <2>1. /\ a \in Seq(1..Messages) /\ Len(a) = n
          /\ b \in Seq(1..Messages) /\ Len(b) = Len(queue) - n
          /\ \A k \in Nat : Run(queue, k) => Run(a, k) /\ Run(b, k + n)
        BY Zenon, <1>0, RunParts DEF Message
    <2> QED BY Zenon, <1>0, <2>1
<1>2. received' = received \o a /\ m_queue' = b
    BY Zenon DEF Deliver
<1> HIDE DEF a, b
<1>3. 0 \in Nat /\ 0 + Len(received) = Len(received)
    BY <1>0
<1>4. /\ received \o a \in Seq(1..Messages) /\ Len(received \o a) = Len(received) + n
      /\ Run(received \o a, 0)
    BY Zenon, <1>1, <1>3, RunConcat DEF Message
<1>5. (Len(received) + n) + (Len(queue) - n) = Len(received) + Len(queue)
    BY <1>0
<1> QED BY Zenon, <1>1, <1>2, <1>4, <1>5

(* How many messages an await takes. *)
LEMMA TakenFits ==
    ASSUME NEW a \in Await \union {Running}, NEW queue \in Seq(1..Messages)
    PROVE  Taken(a, queue) \in 0..Len(queue)
<1>1. a.limit \in Nat /\ Len(queue) \in Nat
    BY ChannelAssumption DEF Await, Running
<1>2. Min({a.limit, Len(queue)}) \in 0..Len(queue)
    BY <1>1, MinOfTwo
<1> QED BY <1>1, <1>2 DEF Taken

(* An await that ends puts the threshold back and keeps the order. *)
LEMMA ResumedSound ==
    ASSUME ChannelTypeOK, ThresholdFits, NEW byWake \in BOOLEAN,
           NEW queue \in Seq(1..Messages),
           Run(received, 0), Run(queue, Len(received)), Resumed(queue, byWake)
    PROVE  /\ received' \in Seq(1..Messages) /\ m_queue' \in Seq(1..Messages)
           /\ Run(received', 0) /\ Run(m_queue', Len(received'))
           /\ Len(received') + Len(m_queue') = Len(received) + Len(queue)
           /\ m_wakeThreshold' = 1 /\ ~m_hasWaiter' /\ await' = Running /\ timer' = "none"
           /\ wrong' \subseteq {"timeoutUntimed", "dataWithheld"}
<1>1. Taken(await, queue) \in 0..Len(queue)
    BY Zenon, TakenFits DEF ChannelTypeOK
<1>2. Deliver(queue, Taken(await, queue)) /\ received \in Seq(1..Messages)
    BY Zenon DEF Resumed, ChannelTypeOK
<1>3. /\ received' \in Seq(1..Messages) /\ m_queue' \in Seq(1..Messages)
      /\ Run(received', 0) /\ Run(m_queue', Len(received'))
      /\ Len(received') + Len(m_queue') = Len(received) + Len(queue)
    BY Zenon, <1>1, <1>2, DeliverKeepsOrder
<1>4. m_wakeThreshold' = 1
    BY Zenon DEF Resumed, ResetThreshold, ThresholdFits
<1>5. wrong' \subseteq {"timeoutUntimed", "dataWithheld"}
    BY Zenon DEF Resumed, ChannelTypeOK
<1> QED BY Zenon, <1>3, <1>4, <1>5 DEF Resumed

(* The receives of a running consumer. *)
LEMMA ReceiveSound ==
    ASSUME ChannelInv, TryRecv \/ AwaitAtOnce, UNCHANGED m_wakeMode
    PROVE  ChannelInv'
<1>0. /\ ChannelTypeOK /\ await = Running /\ ~m_hasWaiter /\ m_wakeThreshold = 1
      /\ m_queue \in Seq(1..Messages) /\ received \in Seq(1..Messages)
      /\ Run(received, 0) /\ Run(m_queue, Len(received)) /\ Len(received) + Len(m_queue) = sent
    <2>1. await = Running /\ ChannelTypeOK /\ ChannelOrder /\ ThresholdFits
        BY Zenon DEF ChannelInv, TryRecv, AwaitAtOnce
    <2>2. ~m_hasWaiter /\ m_wakeThreshold = 1
        BY Zenon, <2>1 DEF ThresholdFits, Running
    <2> QED BY Zenon, <2>1, <2>2 DEF ChannelTypeOK, ChannelOrder
<1>1. \E n \in 0..Len(m_queue) : Deliver(m_queue, n)
    <2>1. CASE TryRecv
        <3>1. PICK n \in 1..MaxBatch : Deliver(m_queue, Min({n, Len(m_queue)}))
            BY ZenonT(60), <2>1 DEF TryRecv
        <3>2. Min({n, Len(m_queue)}) \in 0..Len(m_queue)
            <4>1. n \in Nat /\ Len(m_queue) \in Nat
                BY <1>0, ChannelAssumption
            <4>2. Min({n, Len(m_queue)}) \in Nat /\ Min({n, Len(m_queue)}) <= Len(m_queue)
                BY Zenon, <4>1, MinOfTwo
            <4> QED BY <4>1, <4>2
        <3> QED BY Zenon, <3>1, <3>2
    <2>2. CASE AwaitAtOnce
        <3>1. PICK a \in Await : Deliver(m_queue, Taken(a, m_queue))
            BY Zenon, <2>2 DEF AwaitAtOnce
        <3> QED BY Zenon, <1>0, <3>1, TakenFits
    <2> QED BY Zenon, <2>1, <2>2
<1>2. /\ received' \in Seq(1..Messages) /\ m_queue' \in Seq(1..Messages)
      /\ Run(received', 0) /\ Run(m_queue', Len(received'))
      /\ Len(received') + Len(m_queue') = Len(received) + Len(m_queue)
    BY Zenon, <1>0, <1>1, DeliverKeepsOrder
<1>3. /\ m_hasWaiter' = FALSE /\ m_wakeThreshold' = 1
      /\ UNCHANGED <<m_wakeMode, sent, await, timer, m_queued, wrong>>
    BY Zenon, <1>0 DEF TryRecv, AwaitAtOnce, ResetThreshold, ChannelTypeOK
<1>4. ChannelTypeOK'
    BY Zenon, <1>0, <1>2, <1>3 DEF ChannelTypeOK
<1>5. ChannelOrder' /\ ThresholdFits' /\ NoSleepBesideEnough'
    BY Zenon, <1>0, <1>2, <1>3
       DEF ChannelOrder, ThresholdFits, NoSleepBesideEnough, Running
<1> QED BY Zenon, <1>4, <1>5 DEF ChannelInv

(* A consumer suspends. *)
LEMMA SuspendSound ==
    ASSUME ChannelInv, AwaitSuspends, UNCHANGED m_wakeMode
    PROVE  ChannelInv'
<1>0. /\ ChannelTypeOK /\ ChannelOrder /\ m_wakeThreshold = 1
      /\ UNCHANGED <<m_wakeMode, m_queue, sent, received, m_queued, wrong>>
      /\ m_hasWaiter' = TRUE /\ timer' \in {"none", "armed"}
    BY Zenon DEF ChannelInv, ThresholdFits, AwaitSuspends, Running
<1>1. PICK a \in Await :
          /\ ~Enough(a) /\ await' = a
          /\ m_wakeThreshold' = IF a.kind = "recvBatched" THEN a.limit ELSE m_wakeThreshold
    BY Zenon DEF AwaitSuspends
<1>2. /\ a.kind \in {"recv", "recvBatch", "recvBatched"} /\ a.limit \in 1..MaxBatch
      /\ a # Running
    BY ChannelAssumption DEF Await, Running
<1>3. ChannelTypeOK'
    BY Zenon, <1>0, <1>1, <1>2 DEF ChannelTypeOK
<1>4. ThresholdFits'
    BY <1>0, <1>1, <1>2 DEF ThresholdFits
<1>5. NoSleepBesideEnough' /\ ChannelOrder'
    BY Zenon, <1>0, <1>1
       DEF NoSleepBesideEnough, Enough, ChannelOrder
<1> QED BY Zenon, <1>3, <1>4, <1>5 DEF ChannelInv

(* The ready queue and the timer. *)
LEMMA ReadySound ==
    ASSUME ChannelInv, RunReady \/ RunReadyElsewhere \/ TimerFires, UNCHANGED m_wakeMode
    PROVE  ChannelInv'
<1>0. /\ ChannelTypeOK /\ ChannelOrder /\ ThresholdFits /\ Run(received, 0)
      /\ m_queue \in Seq(1..Messages) /\ Run(m_queue, Len(received))
      /\ Len(received) + Len(m_queue) = sent
    BY Zenon DEF ChannelInv, ChannelOrder, ChannelTypeOK
<1>1. CASE RunReady
    <2>1. Resumed(m_queue, FALSE) /\ UNCHANGED sent /\ m_queued' = FALSE
        BY ZenonT(60), <1>1 DEF RunReady
    <2>2. /\ received' \in Seq(1..Messages) /\ m_queue' \in Seq(1..Messages)
          /\ Run(received', 0) /\ Run(m_queue', Len(received'))
          /\ Len(received') + Len(m_queue') = Len(received) + Len(m_queue)
          /\ m_wakeThreshold' = 1 /\ ~m_hasWaiter' /\ await' = Running /\ timer' = "none"
          /\ wrong' \subseteq {"timeoutUntimed", "dataWithheld"}
        BY Zenon, <1>0, <2>1, ResumedSound
    <2>3. m_hasWaiter' = FALSE
        BY Zenon, <2>1 DEF Resumed
    <2>4. ChannelTypeOK'
        <3>1. 1 \in 1..MaxBatch
            BY ChannelAssumption
        <3> QED BY Zenon, <1>0, <2>1, <2>2, <2>3, <3>1 DEF ChannelTypeOK
    <2> QED BY Zenon, <1>0, <2>1, <2>2, <2>4 DEF ChannelInv, ChannelOrder, ThresholdFits,
               NoSleepBesideEnough, Running
<1>2. CASE RunReadyElsewhere
    BY Zenon, <1>0, <1>2 DEF RunReadyElsewhere, ChannelInv, ChannelOrder, ThresholdFits,
       NoSleepBesideEnough, ChannelTypeOK
<1>3. CASE TimerFires
    BY Zenon, <1>0, <1>3 DEF TimerFires, ChannelInv, ChannelOrder, ThresholdFits,
       NoSleepBesideEnough, ChannelTypeOK
<1> QED BY Zenon, <1>1, <1>2, <1>3

(* Sending: the new messages follow the old ones. *)
LEMMA SendAppends ==
    ASSUME ChannelInv, NEW n \in 1..MaxBatch, sent + n <= Messages
    PROVE  LET queue == m_queue \o [i \in 1..n |-> sent + i]
           IN  /\ queue \in Seq(1..Messages) /\ Run(queue, Len(received))
               /\ Len(received) + Len(queue) = sent + n /\ queue # <<>>
<1> DEFINE new == [i \in 1..n |-> sent + i]
           k == Len(received)
<1>1. /\ m_queue \in Seq(1..Messages) /\ k \in Nat /\ Len(m_queue) \in Nat /\ n \in Nat
      /\ sent \in Nat /\ n >= 1 /\ Run(m_queue, k) /\ k + Len(m_queue) = sent
    BY ChannelAssumption DEF ChannelInv, ChannelTypeOK, ChannelOrder
<1>2. new \in Seq(1..Messages) /\ Len(new) = n
    <2>1. \A i \in 1..n : sent + i \in 1..Messages
        BY <1>1, ChannelAssumption
    <2> QED BY <1>1, <2>1
<1>3. Run(new, k + Len(m_queue))
    BY ZenonT(60), <1>1, <1>2 DEF Run
<1> HIDE DEF new, k
<1>4. /\ m_queue \o new \in Seq(1..Messages) /\ Len(m_queue \o new) = Len(m_queue) + n
      /\ Run(m_queue \o new, k)
    BY Zenon, <1>1, <1>2, <1>3, RunConcat DEF Message
<1>5. k + (Len(m_queue) + n) = sent + n /\ Len(m_queue) + n # 0
    BY <1>1
<1>6. m_queue \o new # <<>>
    BY Zenon, <1>4, <1>5
<1> QED BY Zenon, <1>4, <1>5, <1>6 DEF new, k

(* send and sendBatch. *)
LEMMA SendSound ==
    ASSUME ChannelInv, Send, UNCHANGED m_wakeMode
    PROVE  ChannelInv'
<1>1. PICK n \in 1..MaxBatch : \E immediately \in BOOLEAN :
          LET queue == m_queue \o [i \in 1..n |-> sent + i]
          IN /\ sent + n <= Messages
             /\ sent' = sent + n
             /\ \/ WakeDue(queue, immediately) /\ wakeUpWaiter(queue)
                \/ /\ ~WakeDue(queue, immediately)
                   /\ m_queue' = queue
                   /\ UNCHANGED <<m_hasWaiter, m_wakeThreshold, received, await,
                                  timer, m_queued, wrong>>
    BY Zenon DEF Send
<1> DEFINE queue == m_queue \o [i \in 1..n |-> sent + i]
<1>2. PICK immediately \in BOOLEAN :
             /\ sent + n <= Messages
             /\ sent' = sent + n
             /\ \/ WakeDue(queue, immediately) /\ wakeUpWaiter(queue)
                \/ /\ ~WakeDue(queue, immediately)
                   /\ m_queue' = queue
                   /\ UNCHANGED <<m_hasWaiter, m_wakeThreshold, received, await,
                                  timer, m_queued, wrong>>
    BY Zenon, <1>1
<1>3. /\ queue \in Seq(1..Messages) /\ Run(queue, Len(received))
      /\ Len(received) + Len(queue) = sent + n /\ queue # <<>>
    BY Zenon, <1>2, SendAppends
<1>4. sent + n \in 0..Messages /\ Len(queue) \in Nat /\ Len(queue) >= 1
    BY <1>2, <1>3, ChannelAssumption DEF ChannelInv, ChannelTypeOK
<1> HIDE DEF queue
<1>5. /\ ChannelTypeOK /\ ThresholdFits /\ Run(received, 0) /\ NoSleepBesideEnough
      /\ 1 \in 1..MaxBatch /\ received \in Seq(1..Messages)
    BY ChannelAssumption DEF ChannelInv, ChannelOrder, ChannelTypeOK
<1>6. CASE m_wakeMode = "Inline" /\ Resumed(queue, TRUE) /\ UNCHANGED m_queued
    <2>1. /\ received' \in Seq(1..Messages) /\ m_queue' \in Seq(1..Messages)
          /\ Run(received', 0) /\ Run(m_queue', Len(received'))
          /\ Len(received') + Len(m_queue') = Len(received) + Len(queue)
          /\ m_wakeThreshold' = 1 /\ ~m_hasWaiter' /\ await' = Running /\ timer' = "none"
          /\ wrong' \subseteq {"timeoutUntimed", "dataWithheld"}
        BY Zenon, <1>3, <1>5, <1>6, ResumedSound
    <2>2. m_hasWaiter' = FALSE
        BY Zenon, <1>6 DEF Resumed
    <2>3. ChannelTypeOK'
        BY Zenon, <1>2, <1>4, <1>5, <1>6, <2>1, <2>2 DEF ChannelTypeOK
    <2> QED BY Zenon, <1>2, <1>3, <2>1, <2>3 DEF ChannelInv, ChannelOrder, ThresholdFits,
               NoSleepBesideEnough, Running
<1>7. CASE /\ m_wakeMode = "Deferred" /\ m_queue' = queue /\ m_hasWaiter' = FALSE
           /\ m_wakeThreshold' = 1 /\ m_queued' = TRUE /\ m_hasWaiter
           /\ UNCHANGED <<received, await, timer, wrong>>
    <2>1. ChannelTypeOK'
        BY Zenon, <1>2, <1>3, <1>4, <1>5, <1>7 DEF ChannelTypeOK
    <2>2. await.kind = "recvBatched" => 1 <= await.limit
        BY <1>5 DEF ChannelTypeOK, Await, Running
    <2> QED BY Zenon, <1>2, <1>3, <1>5, <1>7, <2>1, <2>2
           DEF ChannelInv, ChannelOrder, ThresholdFits,
               NoSleepBesideEnough
<1>8. CASE /\ ~WakeDue(queue, immediately) /\ m_queue' = queue
           /\ UNCHANGED <<m_hasWaiter, m_wakeThreshold, received, await, timer, m_queued, wrong>>
    <2>1. ChannelTypeOK'
        BY Zenon, <1>2, <1>3, <1>4, <1>5, <1>8 DEF ChannelTypeOK
    <2>2. ASSUME await # Running, ~m_queued PROVE m_hasWaiter /\ ~Enough(await)'
        <3>1. m_hasWaiter /\ ~(Len(queue) >= m_wakeThreshold)
            BY Zenon, <1>5, <1>8, <2>2 DEF NoSleepBesideEnough, WakeDue
        <3>2. await.kind = "recvBatched" /\ ~(Len(queue) >= await.limit)
            BY <1>4, <1>5, <3>1 DEF ThresholdFits, ChannelTypeOK, Await, Running
        <3> QED BY Zenon, <1>8, <3>1, <3>2 DEF Enough
    <2>3. NoSleepBesideEnough'
        BY Zenon, <1>8, <2>2 DEF NoSleepBesideEnough
    <2> QED BY Zenon, <1>2, <1>3, <1>5, <1>8, <2>1, <2>3 DEF ChannelInv, ChannelOrder, ThresholdFits
<1> QED BY Zenon, <1>2, <1>6, <1>7, <1>8 DEF wakeUpWaiter, WakeDue

(* Every step of the channel keeps its invariant. *)
LEMMA ChannelNextSound == ChannelInv /\ [ChannelNext]_channelVars => ChannelInv'
<1> SUFFICES ASSUME ChannelInv, [ChannelNext]_channelVars PROVE ChannelInv'
    OBVIOUS
<1>1. CASE ChannelNext
    BY Zenon, <1>1, ReceiveSound, SuspendSound, ReadySound, SendSound DEF ChannelNext
<1>2. CASE UNCHANGED channelVars
    BY Zenon, <1>2 DEF channelVars, ChannelInv, ChannelTypeOK, ChannelOrder, ThresholdFits,
       NoSleepBesideEnough, Enough
<1> QED BY Zenon, <1>1, <1>2

(* The channel starts within its invariant. *)
LEMMA ChannelInitSound == ChannelInit => ChannelInv
<1> SUFFICES ASSUME ChannelInit PROVE ChannelInv
    OBVIOUS
<1>0. <<>> \in Seq(1..Messages) /\ 1 \in 1..MaxBatch /\ 0 \in 0..Messages
    BY ChannelAssumption
<1>1. ChannelTypeOK
    BY Zenon, <1>0 DEF ChannelInit, ChannelTypeOK
<1> QED BY <1>1 DEF ChannelInit, ChannelInv, ChannelOrder, Run, ThresholdFits,
           NoSleepBesideEnough, Running

(* UnsafeChannel hands every message over once and in the order sent, in both wake modes,
   whichever receive forms, batches and timeouts are mixed. *)
THEOREM UnsafeChannelCorrect == ChannelSpec => []InOrderExactlyOnce
<1>1. /\ ChannelInit => ChannelInv
      /\ ChannelInv /\ [ChannelNext]_channelVars => ChannelInv'
    BY Zenon, ChannelInitSound, ChannelNextSound
<1>2. ChannelInv => InOrderExactlyOnce
    <2> SUFFICES ASSUME ChannelInv PROVE InOrderExactlyOnce
        OBVIOUS
    <2>1. /\ received \in Seq(1..Messages) /\ m_queue \in Seq(1..Messages) /\ ChannelTypeOK
          /\ Run(received, 0) /\ Run(m_queue, 0 + Len(received))
          /\ Len(received) + Len(m_queue) = sent
        BY DEF ChannelInv, ChannelTypeOK, ChannelOrder
    <2>2. /\ received \o m_queue \in Seq(1..Messages) /\ Len(received \o m_queue) = sent
          /\ Run(received \o m_queue, 0)
        BY Zenon, <2>1, RunConcat DEF Message
    <2>3. received \o m_queue = [i \in 1..sent |-> i]
        <3> DEFINE s == received \o m_queue
        <3>1. s \in Seq(1..Messages) /\ Len(s) = sent /\ \A i \in 1..sent : s[i] = i
            BY <2>2 DEF Run
        <3> HIDE DEF s
        <3>2. s = [i \in 1..sent |-> i]
            BY <3>1
        <3> QED BY Zenon, <3>2 DEF s
    <2> QED BY Zenon, <2>1, <2>3 DEF InOrderExactlyOnce
<1> QED BY <1>1, <1>2, PTL DEF ChannelSpec

(* No consumer sleeps beside what it waits for: no threshold of an earlier recvBatched
   outlives it. *)
THEOREM NoConsumerLeft == ChannelSpec => []NoSleepBesideEnough
<1>1. /\ ChannelInit => ChannelInv
      /\ ChannelInv /\ [ChannelNext]_channelVars => ChannelInv'
    BY Zenon, ChannelInitSound, ChannelNextSound
<1>2. ChannelInv => NoSleepBesideEnough
    BY Zenon DEF ChannelInv
<1> QED BY <1>1, <1>2, PTL DEF ChannelSpec

=============================================================================
