------------------------- MODULE ChaseLevTaskRing -------------------------
(***************************************************************************)
(* ChaseLevTaskRing (kernel/io_scheduler.hpp): the fixed ring of ready     *)
(* tasks of one IO scheduler.  Its owner thread pushes and pops at the     *)
(* tail, sibling schedulers steal at the head.  One step is one access to  *)
(* m_head, m_tail or a slot; the accesses are interleaved sequentially     *)
(* consistently, which the seq_cst fences and exchanges are there for.     *)
(* Tasks are numbered in the order they are pushed.  Name_Variant beside   *)
(* Name is the same code with one fault in it.                             *)
(***************************************************************************)
EXTENDS Integers

CONSTANTS
    Thief,       \* sibling schedulers that steal from this ring
    kCapacity,
    MaxPushes,   \* bound: number of tasks pushed
    TailBound    \* bound: positions 0..TailBound-1 are used

ASSUME RingAssumption ==
    /\ kCapacity \in Nat \ {0}
    /\ MaxPushes \in Nat /\ TailBound \in Nat

VARIABLES
    m_head, m_tail, m_slots,
    pushed,      \* number of tasks pushed so far
    ownerOnly,   \* tasks pushed with m_resume_owner_only set
    owner,       \* the owner: label, local tail and head
    thief,       \* each thief: label, local head
    taken,       \* how often each task has been handed out
    stolen,      \* tasks handed to a thief
    overwritten  \* tasks lost to a push into a slot not emptied yet

vars == <<m_head, m_tail, m_slots, pushed, ownerOnly, owner, thief, taken, stolen,
          overwritten>>

Task == 1..MaxPushes
Null == 0
Slot == 0..(kCapacity - 1)

Init ==
    /\ m_head = 0
    /\ m_tail = 0
    /\ m_slots = [i \in Slot |-> Null]
    /\ pushed = 0
    /\ ownerOnly = {}
    /\ owner = [pc |-> "idle", tail |-> 0, head |-> 0]
    /\ thief = [s \in Thief |-> [pc |-> "idle", head |-> 0]]
    /\ taken = [t \in Task |-> 0]
    /\ stolen = {}
    /\ overwritten = {}

OwnerGoto(l) == owner' = [owner EXCEPT !.pc = l]

\* m_slots[position & kMask].exchange(nullptr), handed to the caller.
TakeSlot_Load(position) ==
    LET t == m_slots[position % kCapacity]
    IN /\ UNCHANGED m_slots
       /\ taken' = [u \in Task |-> IF u = t THEN taken[u] + 1 ELSE taken[u]]

TakeSlot(position) ==
    LET t == m_slots[position % kCapacity]
    IN /\ m_slots' = [m_slots EXCEPT ![position % kCapacity] = Null]
       /\ taken' = [u \in Task |-> IF u = t THEN taken[u] + 1 ELSE taken[u]]

-----------------------------------------------------------------------------
(* push_back *)

\* Load tail and head; refuse if the ring is full.
PushBegin_NoLimit ==
    /\ owner.pc = "idle"
    /\ pushed < MaxPushes /\ m_tail < TailBound
    /\ owner' = [pc |-> "push", tail |-> m_tail, head |-> 0]
    /\ UNCHANGED <<m_head, m_tail, m_slots, pushed, ownerOnly, thief, taken, stolen>>

PushBegin ==
    /\ owner.pc = "idle"
    /\ pushed < MaxPushes /\ m_tail < TailBound
    /\ m_tail - m_head < kCapacity
    /\ owner' = [pc |-> "push", tail |-> m_tail, head |-> 0]
    /\ UNCHANGED <<m_head, m_tail, m_slots, pushed, ownerOnly, thief, taken, stolen>>

\* Store the next task, which may be one that has to stay with its owner.
PushStore ==
    /\ owner.pc = "push"
    /\ pushed' = pushed + 1
    /\ m_slots' = [m_slots EXCEPT ![owner.tail % kCapacity] = pushed']
    /\ overwritten' = overwritten \union ({m_slots[owner.tail % kCapacity]} \ {Null})
    /\ ownerOnly' \in {ownerOnly, ownerOnly \union {pushed'}}
    /\ OwnerGoto("publish")
    /\ UNCHANGED <<m_head, m_tail, thief, taken, stolen>>

PushPublish ==
    /\ owner.pc = "publish"
    /\ m_tail' = owner.tail + 1
    /\ OwnerGoto("idle")
    /\ UNCHANGED <<m_head, m_slots, pushed, ownerOnly, thief, taken, stolen>>

-----------------------------------------------------------------------------
(* pop_back *)

\* Lower the tail ...
PopBegin ==
    /\ owner.pc = "idle"
    /\ m_tail > 0
    /\ m_tail' = m_tail - 1
    /\ owner' = [pc |-> "pop", tail |-> m_tail - 1, head |-> 0]
    /\ UNCHANGED <<m_head, m_slots, pushed, ownerOnly, thief, taken, stolen>>

\* ... then look at the head: empty, the last task, or one of several.
PopLoadHead ==
    /\ owner.pc = "pop"
    /\ owner' = [owner EXCEPT !.head = m_head,
                    !.pc = CASE m_head > owner.tail -> "restore"
                             [] m_head = owner.tail -> "contend"
                             [] OTHER -> "take"]
    /\ UNCHANGED <<m_head, m_tail, m_slots, pushed, ownerOnly, thief, taken, stolen>>

\* m_tail.store(head), nothing to hand out.
PopRestore ==
    /\ owner.pc = "restore"
    /\ m_tail' = owner.head
    /\ OwnerGoto("idle")
    /\ UNCHANGED <<m_head, m_slots, pushed, ownerOnly, thief, taken, stolen>>

\* The last task: compete with thieves for m_head.
PopContend ==
    /\ owner.pc = "contend"
    /\ \/ /\ m_head = owner.head
          /\ m_head' = owner.tail + 1
          /\ OwnerGoto("raise")
       \/ /\ m_head # owner.head
          /\ owner' = [owner EXCEPT !.pc = "restore", !.head = m_head]
          /\ UNCHANGED m_head
    /\ UNCHANGED <<m_tail, m_slots, pushed, ownerOnly, thief, taken, stolen>>

\* Won: m_tail.store(tail + 1).
PopRaise_Kept ==
    /\ owner.pc = "raise"
    /\ OwnerGoto("take")
    /\ UNCHANGED <<m_head, m_tail, m_slots, pushed, ownerOnly, thief, taken, stolen>>

PopRaise ==
    /\ owner.pc = "raise"
    /\ m_tail' = owner.tail + 1
    /\ OwnerGoto("take")
    /\ UNCHANGED <<m_head, m_slots, pushed, ownerOnly, thief, taken, stolen>>

PopTake ==
    /\ owner.pc = "take"
    /\ TakeSlot(owner.tail)
    /\ OwnerGoto("idle")
    /\ UNCHANGED <<m_head, m_tail, pushed, ownerOnly, thief, stolen>>

-----------------------------------------------------------------------------
(* steal_front *)

ThiefGoto(s, l) == thief' = [thief EXCEPT ![s].pc = l]

StealLoadHead(s) ==
    /\ thief[s].pc = "idle"
    /\ thief' = [thief EXCEPT ![s] = [pc |-> "tail", head |-> m_head]]
    /\ UNCHANGED <<m_head, m_tail, m_slots, pushed, ownerOnly, owner, taken, stolen>>

StealLoadTail(s) ==
    /\ thief[s].pc = "tail"
    /\ ThiefGoto(s, IF thief[s].head >= m_tail THEN "idle" ELSE "look")
    /\ UNCHANGED <<m_head, m_tail, m_slots, pushed, ownerOnly, owner, taken, stolen>>

\* Leave an empty slot and a task that must be resumed by its owner.
StealLook(s) ==
    /\ thief[s].pc = "look"
    /\ ThiefGoto(s, IF m_slots[thief[s].head % kCapacity]
                          \in ownerOnly \union {Null}
                    THEN "idle" ELSE "claim")
    /\ UNCHANGED <<m_head, m_tail, m_slots, pushed, ownerOnly, owner, taken, stolen>>

StealClaim(s) ==
    /\ thief[s].pc = "claim"
    /\ \/ /\ m_head = thief[s].head
          /\ m_head' = m_head + 1
          /\ ThiefGoto(s, "take")
       \/ /\ m_head # thief[s].head
          /\ ThiefGoto(s, "idle")
          /\ UNCHANGED m_head
    /\ UNCHANGED <<m_tail, m_slots, pushed, ownerOnly, owner, taken, stolen>>

StealTake(s) ==
    /\ thief[s].pc = "take"
    /\ TakeSlot(thief[s].head)
    /\ stolen' = stolen \union ({m_slots[thief[s].head % kCapacity]} \ {Null})
    /\ ThiefGoto(s, "idle")
    /\ UNCHANGED <<m_head, m_tail, pushed, ownerOnly, owner>>

-----------------------------------------------------------------------------
OwnerStep ==
    \/ PushStore
    \/ /\ \/ PushBegin \/ PushPublish
          \/ PopBegin \/ PopLoadHead \/ PopRestore \/ PopContend \/ PopRaise \/ PopTake
       /\ UNCHANGED overwritten

ThiefStep(s) ==
    /\ \/ StealLoadHead(s) \/ StealLoadTail(s) \/ StealLook(s) \/ StealClaim(s)
       \/ StealTake(s)
    /\ UNCHANGED overwritten

Next == OwnerStep \/ \E s \in Thief : ThiefStep(s)

Spec == Init /\ [][Next]_vars

-----------------------------------------------------------------------------
(* Properties *)

\* Type correctness: m_tail, a uint64_t, is never decremented at
\* zero, and indices stay within their bound.
TypeOK ==
    /\ m_head \in 0..TailBound
    /\ m_tail \in 0..TailBound
    /\ m_slots \in [Slot -> Task \union {Null}]
    /\ pushed \in 0..MaxPushes
    /\ ownerOnly \subseteq Task
    /\ owner \in [pc : {"idle", "push", "publish", "pop", "restore", "contend",
                        "raise", "take"},
                  tail : 0..TailBound, head : 0..TailBound]
    /\ thief \in [Thief -> [pc : {"idle", "tail", "look", "claim", "take"},
                            head : 0..TailBound]]
    /\ taken \in [Task -> Nat]
    /\ stolen \subseteq Task /\ overwritten \subseteq Task

\* Types, and no task is handed out twice, to the owner and a thief or to two thieves
\* (t100_ringsteal.cc: "无重复"); and a task woken for its owner's thread is never handed
\* to a thief (CHANGELOG.md:108) until a push overwrites a claimed task, when the thief
\* takes the new one unseen.
TakenAtMostOnce ==
    /\ TypeOK
    /\ \A t \in Task : taken[t] <= 1
    /\ overwritten = {} => stolen \intersect ownerOnly = {}

Quiet == owner.pc = "idle" /\ \A s \in Thief : thief[s].pc # "take"

\* Until a push overwrites a task, none is lost: whenever no removal is under way,
\* every task pushed has been handed out or lies between head and tail
\* (t100_ringsteal.cc: "无丢失").
NoTaskLost ==
    overwritten = {} /\ Quiet => \A t \in 1..pushed :
        \/ taken[t] # 0
        \/ \E i \in 0..TailBound :
              m_head <= i /\ i < m_tail /\ m_slots[i % kCapacity] = t

\* A push overwrites a task only if a thief has claimed it a lap ago and has not
\* emptied its slot yet: steal_front moves the head before it takes the task.
OnlyClaimedOverwritten ==
    [][overwritten' # overwritten =>
          \E s \in Thief : /\ thief[s].pc = "take"
                           /\ thief[s].head = owner.tail - kCapacity]_vars
=============================================================================
