---------------------------- MODULE RuntimeProofs ----------------------------
(***************************************************************************)
(* What every coroutine runs on.                                           *)
(* SlotOwnership and ByteStream, what the models of all three back ends    *)
(* are checked against, for any set of coroutines and streams of any       *)
(* length: SlotsSound is inductive once the types are added, and           *)
(* ByteStream means what its name says.                                    *)
(* Runtime, for any number of clients, schedulers and yields, when no call *)
(* overlaps stop(): m_running tells whether the schedulers run, a task is  *)
(* in one place until it ends, and stop() drains.                          *)
(***************************************************************************)
EXTENDS SlotOwnership, ByteStream, Runtime, TLAPS

-----------------------------------------------------------------------------
(* The slots of an IOController *)

Waits == {NotWaiting} \cup {InPlain(a) : a \in Awaitables} \cup {InSequence(d) : d \in Domains}

SlotTypes == ctl \in Controller /\ waits \in [Coroutine -> Waits]

SlotInv == SlotTypes /\ SlotsSound

(* The bit of an operation tells its slot, and is not that of a sequence: the
   twelve awaitables of awaitable.h. *)
LEMMA AwaitableFacts ==
    \A a \in Awaitables :
        /\ a.slot \in Slots /\ a.event \in Events /\ a.event # "SEQUENCE"
        /\ a.slot = "READ" <=> a.event \in ReadEvents
BY DEF Awaitables, AcceptAwaitable, RecvAwaitable, SendAwaitable, ReadvAwaitable,
       WritevAwaitable, ConnectAwaitable, RecvFromAwaitable, SendToAwaitable,
       FileReadAwaitable, FileWriteAwaitable, FileWatchAwaitable, SendFileAwaitable,
       Awaitable, sequenceEventUsesSlot, Slots, Events, ReadEvents, WriteEvents

(* Every SequenceOwnerDomain claims a slot. *)
LEMMA DomainFacts ==
    \A d \in Domains : \E s \in Slots : sequenceOwnerDomainUsesSlot(d, s)
BY Zenon DEF Domains, Slots, sequenceOwnerDomainUsesSlot

(* What a coroutine waits in determines the awaitable or the domain. *)
LEMMA WaitsFacts ==
    /\ \A w \in Waits : /\ w.kind = "plain" => \E a \in Awaitables : w = InPlain(a)
                        /\ w.kind = "sequence" => \E d \in Domains : w = InSequence(d)
    /\ \A a : InPlain(a).kind = "plain" /\ InPlain(a).a = a
    /\ \A d : InSequence(d).kind = "sequence" /\ InSequence(d).domain = d
    /\ NotWaiting.kind = "none"
BY DEF Waits, NotWaiting, InPlain, InSequence

(* A fresh IOController is sound. *)
LEMMA SlotInitSound == SlotInit => SlotInv
<1> SUFFICES ASSUME SlotInit PROVE SlotInv
    OBVIOUS
<1>1. SlotTypes
    BY Zenon DEF SlotInit, NewController, SlotTypes, Controller, Waits, Slots
<1>2. SlotsSound
    BY Zenon, WaitsFacts DEF SlotInit, NewController, SlotsSound, Exclusive, StoredIsWaiting,
                      OwnerIsWaiting, TypeBits, Reachable, Slots
<1> QED BY Zenon, <1>1, <1>2 DEF SlotInv

(* Storing an awaitable in a free slot. *)
LEMMA FillSound ==
    ASSUME SlotInv, NEW c \in Coroutine, NEW a \in Awaitables, Fill(c, a)
    PROVE  SlotInv'
<1> USE NobodyAssumption DEF SlotInv
<1>1. /\ ctl' \in Controller /\ ctl'.m_handle = ctl.m_handle
      /\ ctl'.m_type = ctl.m_type \cup {a.event}
      /\ ctl'.m_awaitable = [ctl.m_awaitable EXCEPT ![a.slot] = c]
      /\ ctl'.m_sequence_owner = ctl.m_sequence_owner
    BY ZenonT(60) DEF Fill, Become, View, fillAwaitable, SlotTypes, Controller
<1>2. /\ ctl.m_handle
      /\ waits[c] = NotWaiting /\ waits' = [waits EXCEPT ![c] = InPlain(a)]
      /\ ctl.m_sequence_owner[a.slot] = Nobody /\ ctl.m_awaitable[a.slot] = Nobody
    BY Zenon DEF Fill, SlotOwned
<1>3. /\ a.slot \in Slots /\ a.event # "SEQUENCE"
      /\ \A d \in Coroutine : d # c => waits'[d] = waits[d]
      /\ waits'[c] = InPlain(a)
    BY Zenon, <1>2, AwaitableFacts DEF SlotTypes
<1>4. \A s \in Slots : ctl'.m_awaitable[s] = IF s = a.slot THEN c ELSE ctl.m_awaitable[s]
    BY Zenon, <1>1, <1>3 DEF SlotTypes, Controller
<1>5. \A s \in Slots : /\ ctl.m_awaitable[s] \in Coroutine \cup {Nobody} /\ ctl.m_awaitable[s] # c
                       /\ ctl.m_sequence_owner[s] \in Coroutine \cup {Nobody}
                       /\ ctl.m_sequence_owner[s] # c
    BY <1>2, WaitsFacts DEF SlotTypes, Controller, SlotsSound, StoredIsWaiting, OwnerIsWaiting
<1>6. SlotTypes'
    BY Zenon, <1>1, <1>2 DEF SlotTypes, Waits
<1>7. Exclusive'
    BY Zenon, <1>1, <1>2, <1>4 DEF SlotsSound, Exclusive
<1>8. StoredIsWaiting'
    BY <1>1, <1>3, <1>4, <1>5 DEF SlotsSound, StoredIsWaiting
<1>9. OwnerIsWaiting'
    BY <1>1, <1>3, <1>5 DEF SlotsSound, OwnerIsWaiting
<1>10. TypeBits'
    BY <1>1, <1>2, <1>3, <1>4, <1>5, WaitsFacts DEF SlotsSound, TypeBits
<1>11. Reachable'
    BY <1>1, <1>2, <1>3, <1>4, <1>5, WaitsFacts, AwaitableFacts DEF SlotsSound, Reachable, SlotTypes
<1> QED BY Zenon, <1>6, <1>7, <1>8, <1>9, <1>10, <1>11 DEF SlotsSound

(* Taking an awaitable out: nobody else's is in its slot. *)
LEMMA RemoveSound ==
    ASSUME SlotInv, NEW c \in Coroutine, Remove(c)
    PROVE  SlotInv'
<1> USE NobodyAssumption DEF SlotInv
<1>1. PICK a \in Awaitables : waits[c] = InPlain(a)
    BY Zenon, WaitsFacts DEF Remove, SlotTypes
<1>2. /\ ctl' \in Controller /\ ctl'.m_handle = ctl.m_handle
      /\ ctl'.m_type = ctl.m_type \ {a.event}
      /\ ctl'.m_awaitable = [ctl.m_awaitable EXCEPT ![a.slot] = Nobody]
      /\ ctl'.m_sequence_owner = ctl.m_sequence_owner
    BY <1>1, WaitsFacts DEF Remove, Become, View, removeAwaitable, SlotTypes, Controller
<1>3. /\ a.slot \in Slots /\ a.event # "SEQUENCE"
      /\ waits' = [waits EXCEPT ![c] = NotWaiting]
      /\ \A d \in Coroutine : d # c => waits'[d] = waits[d]
      /\ waits'[c] = NotWaiting
    BY Zenon, AwaitableFacts DEF Remove, SlotTypes
<1>4. \A s \in Slots :
        /\ ctl'.m_awaitable[s] = IF s = a.slot THEN Nobody ELSE ctl.m_awaitable[s]
        /\ ctl.m_awaitable[s] \in Coroutine \cup {Nobody}
        /\ ctl.m_sequence_owner[s] \in Coroutine \cup {Nobody}
    BY Zenon, <1>2, <1>3 DEF SlotTypes, Controller
<1>5. /\ ctl.m_awaitable[a.slot] \in {c, Nobody}
      /\ ctl.m_handle => ctl.m_awaitable[a.slot] = c
    BY <1>1, <1>3, WaitsFacts DEF SlotsSound, Reachable
<1>6. \A s \in Slots : /\ s # a.slot => ctl.m_awaitable[s] # c
                       /\ ctl.m_sequence_owner[s] # c
    BY <1>1, WaitsFacts DEF SlotsSound, StoredIsWaiting, OwnerIsWaiting
<1>7. \A s \in Slots : s # a.slot /\ ctl.m_awaitable[s] # Nobody =>
        waits[ctl.m_awaitable[s]].a.event # a.event
    BY <1>1, <1>3, <1>4, AwaitableFacts, WaitsFacts DEF SlotsSound, StoredIsWaiting, Slots
<1>8. SlotTypes'
    BY Zenon, <1>2, <1>3 DEF SlotTypes, Waits
<1>9. Exclusive'
    BY Zenon, <1>2, <1>4 DEF SlotsSound, Exclusive
<1>10. StoredIsWaiting'
  <2> SUFFICES ASSUME NEW s \in Slots, ctl'.m_awaitable[s] # Nobody
               PROVE  \E b \in Awaitables : /\ waits'[ctl'.m_awaitable[s]] = InPlain(b)
                                            /\ b.slot = s /\ b.event \in ctl'.m_type
      BY Zenon DEF StoredIsWaiting
  <2>1. s # a.slot /\ ctl'.m_awaitable[s] = ctl.m_awaitable[s]
      BY Zenon, <1>4
  <2>2. PICK b \in Awaitables : /\ waits[ctl.m_awaitable[s]] = InPlain(b)
                                /\ b.slot = s /\ b.event \in ctl.m_type
      BY Zenon, <2>1 DEF SlotsSound, StoredIsWaiting
  <2> QED BY <1>2, <1>3, <1>4, <1>6, <1>7, <2>1, <2>2, WaitsFacts
<1>11. OwnerIsWaiting'
  <2> SUFFICES ASSUME NEW s \in Slots, ctl'.m_sequence_owner[s] # Nobody
               PROVE  \E d \in Domains : /\ waits'[ctl'.m_sequence_owner[s]] = InSequence(d)
                                         /\ sequenceOwnerDomainUsesSlot(d, s)
      BY Zenon DEF OwnerIsWaiting
  <2>1. PICK d \in Domains : /\ waits[ctl.m_sequence_owner[s]] = InSequence(d)
                             /\ sequenceOwnerDomainUsesSlot(d, s)
      BY Zenon, <1>2 DEF SlotsSound, OwnerIsWaiting
  <2>2. ctl'.m_sequence_owner[s] = ctl.m_sequence_owner[s]
      BY Zenon, <1>2
  <2>3. ctl.m_sequence_owner[s] \in Coroutine
      BY Zenon, <1>4, <2>2
  <2>4. waits'[ctl.m_sequence_owner[s]] = waits[ctl.m_sequence_owner[s]]
      BY Zenon, <1>3, <1>6, <2>3
  <2> QED BY Zenon, <2>1, <2>2, <2>4
<1>12. TypeBits'
  <2>1. ("SEQUENCE" \in ctl'.m_type) <=> (\E s \in Slots : ctl'.m_sequence_owner[s] # Nobody)
      BY Zenon, <1>2, <1>3 DEF SlotsSound, TypeBits
  <2>2. ASSUME NEW e \in ctl'.m_type, e # "SEQUENCE"
        PROVE  \E s \in Slots : /\ ctl'.m_awaitable[s] # Nobody
                                /\ waits'[ctl'.m_awaitable[s]].a.event = e
    <3>1. PICK s \in Slots : /\ ctl.m_awaitable[s] # Nobody
                             /\ waits[ctl.m_awaitable[s]].a.event = e
        BY Zenon, <1>2, <2>2 DEF SlotsSound, TypeBits
    <3>2. s # a.slot
        BY <1>1, <1>2, <1>5, <2>2, <3>1, WaitsFacts
    <3> QED BY <1>3, <1>4, <1>6, <3>1, <3>2
  <2> QED BY Zenon, <2>1, <2>2 DEF TypeBits
<1>13. Reachable'
  <2>1. CASE ctl.m_handle
    <3>1. ASSUME NEW d \in Coroutine, waits'[d].kind = "plain"
          PROVE  ctl'.m_awaitable[waits'[d].a.slot] = d
      <4>1. d # c /\ waits'[d] = waits[d]
          BY Zenon, <1>3, <3>1, WaitsFacts
      <4>2. PICK b \in Awaitables : waits[d] = InPlain(b)
          BY Zenon, <3>1, <4>1, WaitsFacts DEF SlotTypes
      <4>3. b.slot \in Slots /\ ctl.m_awaitable[b.slot] = d
          BY <2>1, <4>2, WaitsFacts, AwaitableFacts DEF SlotsSound, Reachable
      <4> QED BY <1>4, <1>5, <2>1, <4>1, <4>2, <4>3, WaitsFacts
    <3>2. ASSUME NEW d \in Coroutine, waits'[d].kind = "sequence",
                 NEW s \in Slots, sequenceOwnerDomainUsesSlot(waits'[d].domain, s)
          PROVE  ctl'.m_sequence_owner[s] = d
        BY <1>2, <1>3, <2>1, <3>2, WaitsFacts DEF SlotsSound, Reachable
    <3> QED BY Zenon, <1>2, <2>1, <3>1, <3>2 DEF Reachable
  <2>2. CASE ~ctl.m_handle
      BY <1>2, <1>4, <2>2 DEF SlotsSound, Reachable
  <2> QED BY Zenon, <2>1, <2>2
<1> QED BY Zenon, <1>8, <1>9, <1>10, <1>11, <1>12, <1>13 DEF SlotsSound

(* Claiming the slots of a domain: each is free. *)
LEMMA ClaimSound ==
    ASSUME SlotInv, NEW c \in Coroutine, NEW d \in Domains, Claim(c, d)
    PROVE  SlotInv'
<1> USE NobodyAssumption DEF SlotInv
<1>1. /\ ctl' \in Controller /\ ctl'.m_handle = ctl.m_handle
      /\ ctl'.m_type = ctl.m_type \cup {"SEQUENCE"}
      /\ ctl'.m_awaitable = ctl.m_awaitable
      /\ \A s \in Slots : ctl'.m_sequence_owner[s] =
            IF sequenceOwnerDomainUsesSlot(d, s) THEN c ELSE ctl.m_sequence_owner[s]
  <2>1. Become(claimRequestedDomain(ctl, c, d))
      BY Zenon DEF Claim
  <2>2. View(ctl') = <<ctl.m_handle, ctl.m_type \cup {"SEQUENCE"}, ctl.m_awaitable,
                       [s \in Slots |-> IF sequenceOwnerDomainUsesSlot(d, s) THEN c
                                        ELSE ctl.m_sequence_owner[s]]>>
      BY Zenon, <2>1 DEF Become, View, claimRequestedDomain, SlotTypes, Controller
  <2> QED BY Zenon, <2>1, <2>2 DEF Become, View
<1>2. /\ ctl.m_handle /\ waits[c] = NotWaiting
      /\ waits' = [waits EXCEPT ![c] = InSequence(d)]
      /\ \A s \in Slots : sequenceOwnerDomainUsesSlot(d, s) =>
            ctl.m_awaitable[s] = Nobody /\ ctl.m_sequence_owner[s] \in {Nobody, c}
    BY Zenon DEF Claim, CanClaim
<1>3. /\ \A e \in Coroutine : e # c => waits'[e] = waits[e]
      /\ waits'[c] = InSequence(d)
    BY Zenon, <1>2 DEF SlotTypes
<1>4. \A s \in Slots : /\ ctl.m_awaitable[s] \in Coroutine \cup {Nobody} /\ ctl.m_awaitable[s] # c
                       /\ ctl.m_sequence_owner[s] \in Coroutine \cup {Nobody}
                       /\ ctl.m_sequence_owner[s] # c
    BY <1>2, WaitsFacts DEF SlotTypes, Controller, SlotsSound, StoredIsWaiting, OwnerIsWaiting
<1>5. SlotTypes'
    BY Zenon, <1>1, <1>2 DEF SlotTypes, Waits
<1>6. Exclusive'
    BY Zenon, <1>1, <1>2 DEF SlotsSound, Exclusive
<1>7. StoredIsWaiting'
    BY <1>1, <1>3, <1>4 DEF SlotsSound, StoredIsWaiting
<1>8. OwnerIsWaiting'
    BY Zenon, <1>1, <1>3, <1>4 DEF SlotsSound, OwnerIsWaiting
<1>9. TypeBits'
  <2>1. \E s \in Slots : ctl'.m_sequence_owner[s] # Nobody
      BY Zenon, <1>1, DomainFacts
  <2>2. \A e \in ctl'.m_type : e # "SEQUENCE" =>
          \E s \in Slots : /\ ctl'.m_awaitable[s] # Nobody
                           /\ waits'[ctl'.m_awaitable[s]].a.event = e
      BY <1>1, <1>3, <1>4 DEF SlotsSound, TypeBits
  <2> QED BY Zenon, <1>1, <2>1, <2>2 DEF TypeBits
<1>10. Reachable'
  <2>1. ASSUME NEW e \in Coroutine, waits'[e].kind = "plain"
        PROVE  ctl'.m_awaitable[waits'[e].a.slot] = e
      BY <1>1, <1>2, <1>3, <2>1, WaitsFacts DEF SlotsSound, Reachable
  <2>2. ASSUME NEW e \in Coroutine, waits'[e].kind = "sequence",
               NEW s \in Slots, sequenceOwnerDomainUsesSlot(waits'[e].domain, s)
        PROVE  ctl'.m_sequence_owner[s] = e
    <3>1. CASE e = c
        BY <1>1, <1>3, <2>2, <3>1, WaitsFacts
    <3>2. CASE e # c
        BY <1>1, <1>2, <1>3, <2>2, <3>2 DEF SlotsSound, Reachable
    <3> QED BY Zenon, <3>1, <3>2
  <2> QED BY Zenon, <1>1, <1>2, <2>1, <2>2 DEF Reachable
<1> QED BY Zenon, <1>5, <1>6, <1>7, <1>8, <1>9, <1>10 DEF SlotsSound

(* Releasing a sequence's slots, if close() has left it any. *)
LEMMA ReleaseSound ==
    ASSUME SlotInv, NEW c \in Coroutine, Release(c)
    PROVE  SlotInv'
<1> USE NobodyAssumption DEF SlotInv
<1>1. /\ ctl' \in Controller /\ ctl'.m_handle = ctl.m_handle
      /\ ctl'.m_awaitable = ctl.m_awaitable
      /\ \A s \in Slots : ctl'.m_sequence_owner[s] =
            IF ctl.m_sequence_owner[s] = c THEN Nobody ELSE ctl.m_sequence_owner[s]
      /\ ctl'.m_type = IF Owns(c) /\ \A s \in Slots : ctl'.m_sequence_owner[s] = Nobody
                       THEN ctl.m_type \ {"SEQUENCE"} ELSE ctl.m_type
  <2>1. CASE Owns(c)
      BY <2>1 DEF Release, Become, View, releaseRegisteredDomain, syncSequenceInterestMask,
                  clearSequenceInterestMask, SlotTypes, Controller
  <2>2. CASE ~Owns(c)
      BY Zenon, <2>2 DEF Release, Become, View, Owns, SlotTypes, Controller
  <2> QED BY Zenon, <2>1, <2>2
<1>2. /\ waits[c].kind = "sequence" /\ waits' = [waits EXCEPT ![c] = NotWaiting]
      /\ \A e \in Coroutine : e # c => waits'[e] = waits[e]
      /\ waits'[c] = NotWaiting
    BY Zenon DEF Release, SlotTypes
<1>3. \A s \in Slots : /\ ctl.m_awaitable[s] \in Coroutine \cup {Nobody} /\ ctl.m_awaitable[s] # c
                       /\ ctl.m_sequence_owner[s] \in Coroutine \cup {Nobody}
    BY <1>2, WaitsFacts DEF SlotTypes, Controller, SlotsSound, StoredIsWaiting
<1>4. SlotTypes'
    BY Zenon, <1>1, <1>2 DEF SlotTypes, Waits
<1>5. Exclusive'
    BY Zenon, <1>1 DEF SlotsSound, Exclusive
<1>6. StoredIsWaiting'
    BY <1>1, <1>2, <1>3, AwaitableFacts DEF SlotsSound, StoredIsWaiting
<1>7. OwnerIsWaiting'
  <2> SUFFICES ASSUME NEW s \in Slots, ctl'.m_sequence_owner[s] # Nobody
               PROVE  \E d \in Domains : /\ waits'[ctl'.m_sequence_owner[s]] = InSequence(d)
                                         /\ sequenceOwnerDomainUsesSlot(d, s)
      BY Zenon DEF OwnerIsWaiting
  <2>1. ctl'.m_sequence_owner[s] = ctl.m_sequence_owner[s] /\ ctl.m_sequence_owner[s] # c
      BY Zenon, <1>1
  <2>2. waits'[ctl'.m_sequence_owner[s]] = waits[ctl.m_sequence_owner[s]]
      BY Zenon, <1>2, <1>3, <2>1
  <2> QED BY Zenon, <2>1, <2>2 DEF SlotsSound, OwnerIsWaiting
<1>8. TypeBits'
  <2>1. ("SEQUENCE" \in ctl'.m_type) <=> (\E s \in Slots : ctl'.m_sequence_owner[s] # Nobody)
      BY Zenon, <1>1, <1>3 DEF SlotsSound, TypeBits, Owns
  <2>2. \A e \in ctl'.m_type : e # "SEQUENCE" =>
          \E s \in Slots : /\ ctl'.m_awaitable[s] # Nobody
                           /\ waits'[ctl'.m_awaitable[s]].a.event = e
      BY SMTT(60), <1>1, <1>2, <1>3 DEF SlotsSound, TypeBits
  <2> QED BY Zenon, <2>1, <2>2 DEF TypeBits
<1>9. Reachable'
    BY SMTT(60), <1>1, <1>2, <1>3, WaitsFacts DEF SlotsSound, Reachable
<1> QED BY Zenon, <1>4, <1>5, <1>6, <1>7, <1>8, <1>9 DEF SlotsSound

(* close() leaves every slot empty and no bit set. *)
LEMMA CloseSound ==
    ASSUME SlotInv, Close
    PROVE  SlotInv'
<1>1. /\ ctl' \in Controller /\ ~ctl'.m_handle /\ ctl'.m_type = {} /\ waits' = waits
      /\ \A s \in Slots : ctl'.m_awaitable[s] = Nobody /\ ctl'.m_sequence_owner[s] = Nobody
    BY SMTT(60) DEF SlotInv, Close, Become, View, ClosedController, clearSequenceInterestMask,
           SlotTypes, Controller
<1> QED BY Zenon, <1>1 DEF SlotInv, SlotTypes, SlotsSound, Exclusive, StoredIsWaiting, OwnerIsWaiting,
                    TypeBits, Reachable

(* The reactor's own steps, and stuttering, leave what SlotsSound is about alone. *)
LEMMA ReactorSound ==
    ASSUME SlotInv, Reactor \/ UNCHANGED slotVars
    PROVE  SlotInv'
<1>1. /\ ctl' \in Controller /\ waits' = waits
      /\ ctl'.m_handle = ctl.m_handle /\ ctl'.m_type = ctl.m_type
      /\ ctl'.m_awaitable = ctl.m_awaitable /\ ctl'.m_sequence_owner = ctl.m_sequence_owner
    BY Zenon DEF SlotInv, Reactor, Become, View, slotVars, SlotTypes
<1> QED BY <1>1 DEF SlotInv, SlotTypes, SlotsSound, Exclusive, StoredIsWaiting, OwnerIsWaiting,
                    TypeBits, Reachable

(* SlotsSound holds always, for any set of coroutines: whatever order they store,
   claim, remove, release and close in (awaitable.h, io_controller.hpp), no awaitable
   is left in a slot after its coroutine has gone on, and none waits unreachably
   while the descriptor is open. *)
THEOREM SlotsCorrect == SlotSpec => []SlotsSound
<1>1. SlotInit => SlotInv
    BY Zenon, SlotInitSound
<1>2. SlotInv /\ [SlotNext]_slotVars => SlotInv'
  <2> SUFFICES ASSUME SlotInv, [SlotNext]_slotVars PROVE SlotInv'
      OBVIOUS
  <2>1. CASE \E c \in Coroutine, a \in Awaitables : Fill(c, a)
      BY Zenon, <2>1, FillSound
  <2>2. CASE \E c \in Coroutine, d \in Domains : Claim(c, d)
      BY Zenon, <2>2, ClaimSound
  <2>3. CASE \E c \in Coroutine : Remove(c)
      BY Zenon, <2>3, RemoveSound
  <2>4. CASE \E c \in Coroutine : Release(c)
      BY Zenon, <2>4, ReleaseSound
  <2>5. CASE Close
      BY Zenon, <2>5, CloseSound
  <2>6. CASE Reactor \/ UNCHANGED slotVars
      BY Zenon, <2>6, ReactorSound
  <2> QED BY Zenon, <2>1, <2>2, <2>3, <2>4, <2>5, <2>6 DEF SlotNext
<1>3. SlotInv => SlotsSound
    BY Zenon DEF SlotInv
<1> QED BY <1>1, <1>2, <1>3, PTL DEF SlotSpec

-------------------------------------------------------------------------------
(* The stream *)

StreamTypes == sent \in Nat /\ lost \in Nat /\ got \in Seq(Nat)

StreamInv == StreamTypes /\ InOrder

(* The last byte received is the greatest. *)
LEMMA LastIsGreatest ==
    ASSUME StreamInv
    PROVE  Last \in 0..sent /\ \A i \in 1..Len(got) : got[i] <= Last
<1>1. CASE got = <<>>
    BY <1>1 DEF StreamInv, StreamTypes, Last
<1>2. CASE got # <<>>
    <2>1. Len(got) \in 1..Len(got) /\ Last = got[Len(got)]
        BY <1>2 DEF StreamInv, StreamTypes, Last
    <2>2. ASSUME NEW i \in 1..Len(got) PROVE got[i] <= Last
        BY SMTT(60), <2>1 DEF StreamInv, StreamTypes, InOrder
    <2> QED BY <2>1, <2>2 DEF StreamInv, StreamTypes, InOrder
<1> QED BY Zenon, <1>1, <1>2

(* A delivery appends consecutive bytes above all others. *)
LEMMA DeliverInOrder == StreamInv /\ Deliver => StreamInv'
<1> SUFFICES ASSUME StreamInv, Deliver PROVE StreamInv'
    OBVIOUS
<1>1. PICK gap \in 0..lost, n \in 1..sent :
          /\ Last + gap + n <= sent
          /\ Last + gap - Len(got) <= lost
          /\ got' = got \o [i \in 1..n |-> Last + gap + i]
          /\ UNCHANGED <<sent, lost>>
    BY Zenon DEF Deliver
<1> DEFINE new == [i \in 1..n |-> Last + gap + i]
<1>2. Last \in 0..sent /\ \A i \in 1..Len(got) : got[i] <= Last
    BY Zenon, LastIsGreatest
<1>3. StreamTypes /\ sent \in Nat /\ lost \in Nat /\ gap \in Nat /\ n \in Nat /\ n >= 1
    BY <1>1 DEF StreamInv, StreamTypes
<1>4. new \in Seq(Nat) /\ Len(new) = n
    BY <1>2, <1>3
<1>5. got' \in Seq(Nat) /\ Len(got') = Len(got) + n
    BY <1>1, <1>3, <1>4 DEF StreamTypes
<1>6. \A i \in 1..Len(got') :
          got'[i] = IF i <= Len(got) THEN got[i] ELSE Last + gap + (i - Len(got))
    <2> TAKE i \in 1..Len(got')
    <2>1. got'[i] = IF i <= Len(got) THEN got[i] ELSE new[i - Len(got)]
        BY <1>1, <1>3, <1>4, <1>5 DEF StreamTypes
    <2> QED BY <2>1, <1>3, <1>5 DEF StreamTypes
<1>7. StreamTypes'
    BY Zenon, <1>1, <1>3, <1>5 DEF StreamTypes
<1>8. \A i \in 1..Len(got') : got'[i] \in 1..sent'
    BY <1>1, <1>2, <1>3, <1>5, <1>6 DEF StreamInv, StreamTypes, InOrder
<1>9. \A i, j \in 1..Len(got') : i < j => got'[i] < got'[j]
    <2> SUFFICES ASSUME NEW i \in 1..Len(got'), NEW j \in 1..Len(got'), i < j
                 PROVE  got'[i] < got'[j]
        OBVIOUS
    <2> Len(got) \in Nat /\ i \in Nat /\ j \in Nat /\ i >= 1
        BY <1>3, <1>5 DEF StreamTypes
    <2>1. CASE j <= Len(got)
        <3>1. i \in 1..Len(got) /\ j \in 1..Len(got)
            BY <2>1
        <3>2. got[i] < got[j] /\ got'[i] = got[i] /\ got'[j] = got[j]
            BY <2>1, <3>1, <1>6 DEF StreamInv, InOrder
        <3> QED BY Zenon, <3>2
    <2>2. CASE i <= Len(got) /\ j > Len(got)
        <3>1. i \in 1..Len(got)
            BY <2>2
        <3>2. got'[i] = got[i] /\ got[i] <= Last /\ got[i] \in Nat
            BY <3>1, <2>2, <1>2, <1>3, <1>6 DEF StreamTypes
        <3>3. got'[j] = Last + gap + (j - Len(got))
            BY <2>2, <1>6
        <3> QED BY <2>2, <3>2, <3>3, <1>2, <1>3
    <2>3. CASE i > Len(got)
        BY <2>3, <1>2, <1>3, <1>5, <1>6 DEF StreamTypes
    <2> QED BY SMTT(60), <2>1, <2>2, <2>3, <1>3, <1>5 DEF StreamTypes
<1>10. Last' = Last + gap + n
    <2>1. Len(got') \in 1..Len(got') /\ got' # <<>> /\ Len(got') > Len(got)
        BY <1>3, <1>5 DEF StreamTypes
    <2>2. got'[Len(got')] = Last + gap + n
        BY <2>1, <1>2, <1>3, <1>5, <1>6 DEF StreamTypes
    <2> QED BY Zenon, <2>1, <2>2 DEF Last
<1>11. Last' - Len(got') <= lost'
    BY <1>1, <1>2, <1>3, <1>5, <1>10 DEF StreamTypes
<1> QED BY Zenon, <1>7, <1>8, <1>9, <1>11 DEF StreamInv, InOrder

(* In every behaviour of ByteStream the bytes handed to the user are the peer's, in
   order, without repetition, and without a gap beyond the bytes reported lost. *)
THEOREM StreamCorrect == StreamSpec => []InOrder
<1>1. StreamInit => StreamInv
    BY DEF StreamInit, StreamInv, StreamTypes, InOrder, Last
<1>2. StreamInv /\ [StreamNext]_streamVars => StreamInv'
    <2> SUFFICES ASSUME StreamInv, [StreamNext]_streamVars PROVE StreamInv'
        OBVIOUS
    <2>1. CASE Send
        BY <2>1 DEF Send, StreamInv, StreamTypes, InOrder, Last
    <2>2. CASE Deliver
        BY Zenon, <2>2, DeliverInOrder
    <2>3. CASE Lose
        BY <2>3, LastIsGreatest DEF Lose, StreamInv, StreamTypes, InOrder, Last
    <2>4. CASE Tell
        BY Zenon, <2>4 DEF Tell, StreamInv, StreamTypes, InOrder, Last
    <2>5. CASE UNCHANGED streamVars
        BY Zenon, <2>5 DEF streamVars, StreamInv, StreamTypes, InOrder, Last
    <2> QED BY Zenon, <2>1, <2>2, <2>3, <2>4, <2>5 DEF StreamNext
<1>3. StreamInv => InOrder
    BY Zenon DEF StreamInv
<1> QED BY <1>1, <1>2, <1>3, PTL DEF StreamSpec

-----------------------------------------------------------------------------
(* The runtime *)

Starting(c) == client[c] \in {"create", "push", "launch", "thread"}

Up(s) == running[s] /\ worker[s] \in {"loop", "run"}

Down(s) == ~running[s] /\ worker[s] = "none"

(* A client beyond its test of m_running finds it set, nobody stops, and one of them at
   most starts the schedulers. *)
CallersSound ==
    /\ \A c \in Client : InCall(c) => stopper = "idle"
    /\ \A c \in Client : InCall(c) /\ client[c] # "start" => m_running
    /\ \A c, d \in Client : Starting(c) /\ Starting(d) => c = d

(* start() has created or launched the schedulers before the one it is at, and no other. *)
StarterSound ==
    \A c \in Client :
        /\ client[c] = "create" =>
             m_compute_schedulers \in {0, Count} /\ \A s \in Sched : Down(s)
        /\ client[c] = "push" =>
             m_compute_schedulers = at[c] - 1 /\ \A s \in Sched : Down(s)
        /\ client[c] = "launch" =>
             /\ m_compute_schedulers = Count
             /\ \A s \in Sched : IF s < at[c] THEN Up(s) ELSE Down(s)
        /\ client[c] = "thread" =>
             /\ m_compute_schedulers = Count
             /\ running[at[c]] /\ worker[at[c]] = "none"
             /\ \A s \in Sched \ {at[c]} : IF s < at[c] THEN Up(s) ELSE Down(s)

(* With no start() at work, m_running says whether the schedulers are there and run; and
   then what stop() leaves behind has an empty queue. *)
SettledSound ==
    /\ (\A c \in Client : ~Starting(c)) =>
         /\ m_compute_schedulers \in {0, Count}
         /\ m_running \/ stopper # "idle" => m_compute_schedulers = Count
         /\ m_running => \A s \in Sched : Up(s)
    /\ stopper = "idle" /\ ~m_running => \A s \in Sched : Down(s) /\ m_queue[s] = {}

(* stop() has ended the schedulers after the one it is at and drained them; the stop
   signal lies in the queue of that one only, until its worker takes it. *)
StopperSound ==
    /\ stopper # "idle" =>
         /\ ~m_running
         /\ \A s \in Sched : /\ s < stopAt => Up(s)
                             /\ s > stopAt => Down(s) /\ m_queue[s] = {}
    /\ stopper = "stopping" => \A s \in Sched : s = stopAt => Up(s)
    /\ stopper \in {"signal", "join"} => stopAt \in Sched /\ ~running[stopAt]
    /\ stopper = "signal" => worker[stopAt] \in {"loop", "run"}
    /\ stopper = "join" =>
         \/ worker[stopAt] \in {"loop", "run"} /\ StopSignal \in m_queue[stopAt]
         \/ worker[stopAt] \in {"drain", "drainRun"}
         \/ worker[stopAt] = "exited" /\ m_queue[stopAt] = {}
    /\ \A s \in Sched : StopSignal \in m_queue[s] =>
         stopper = "join" /\ s = stopAt /\ worker[s] \in {"loop", "run"}

(* A submitted task is in one place, and one that is not submitted nowhere. *)
Held(c) == \E s \in Sched : c \in m_queue[s] \/ holding[s] = c

TasksSound ==
    /\ \A c \in Client : c \in done \/ Held(c) => client[c] \in {"waiting", "returned"}
    /\ \A c \in Client : client[c] = "waiting" => c \in done \/ Held(c)
    /\ \A c \in Client : c \in done => ~Held(c)
    /\ \A c \in Client, s, r \in Sched :
         /\ c \in m_queue[s] /\ c \in m_queue[r] => s = r
         /\ holding[s] = c /\ holding[r] = c => s = r
         /\ ~(c \in m_queue[s] /\ holding[r] = c)

RuntimeInv == TypeOK /\ CallersSound /\ StarterSound /\ SettledSound /\ StopperSound /\ TasksSound

Stages == {"idle", "start", "create", "push", "launch", "thread", "acquire", "submit",
           "waiting", "returned", "noScheduler"}

Workers == {"none", "loop", "run", "drain", "drainRun", "exited"}

(* The state of the schedulers, with its sets named. *)
SchedulersTyped ==
    /\ running \in [Sched -> BOOLEAN]
    /\ m_queue \in [Sched -> SUBSET (Client \union {StopSignal})]
    /\ worker \in [Sched -> Workers]
    /\ holding \in [Sched -> Client \union {Nothing}]
    /\ \A s \in Sched : holding[s] # Nothing <=> worker[s] \in {"run", "drainRun"}
    /\ left \in [Client -> 0..Yields]
    /\ done \subseteq Client

CallersTyped ==
    /\ m_running \in BOOLEAN
    /\ m_compute_schedulers \in 0..Count
    /\ m_compute_index \in 0..(IndexRange - 1)
    /\ client \in [Client -> Stages]
    /\ at \in [Client -> Sched]
    /\ stopper \in {"idle", "stopping", "signal", "join"} /\ stopAt \in 0..Count

(* The types of the runtime, in the form the proofs use. *)
LEMMA RuntimeTypes ==
    /\ TypeOK <=> CallersTyped /\ SchedulersTyped
    /\ TypeOK' <=> CallersTyped' /\ SchedulersTyped'
<1>1. (C!Types <=> SchedulersTyped) /\ (C!Types' <=> SchedulersTyped')
    BY Zenon DEF C!Types, SchedulersTyped, Workers
<1> QED BY Zenon, <1>1 DEF TypeOK, CallersTyped, Stages

(* A client that moves on, and no other does. *)
LEMMA ClientMoves ==
    ASSUME CallersTyped, NEW c \in Client, NEW from, NEW to \in Stages, Goto(c, from, to)
    PROVE  /\ client[c] = from /\ client'[c] = to /\ client' \in [Client -> Stages]
           /\ \A d \in Client : d # c => client'[d] = client[d]
<1> QED BY Zenon DEF CallersTyped, Goto

(* The scheduler a client is at changes with its own steps only. *)
LEMMA AtMoves ==
    ASSUME CallersTyped, NEW c \in Client, NEW s \in Sched, at' = [at EXCEPT ![c] = s]
    PROVE  /\ at'[c] = s /\ at' \in [Client -> Sched]
           /\ \A d \in Client : d # c => at'[d] = at[d]
<1> QED BY Zenon DEF CallersTyped

(* What a step of a client keeps that leaves the schedulers and stop() alone. *)
LEMMA CallKeeps ==
    ASSUME RuntimeInv, UNCHANGED schedulerVars, UNCHANGED stopVars
    PROVE  /\ SchedulersTyped' /\ CallersTyped
           /\ \A s \in Sched : /\ (Up(s)' <=> Up(s)) /\ (Down(s)' <=> Down(s))
                               /\ m_queue'[s] = m_queue[s] /\ running'[s] = running[s]
                               /\ worker'[s] = worker[s]
           /\ \A c \in Client : (Held(c)' <=> Held(c)) /\ (c \in done' <=> c \in done)
           /\ m_running' = m_running \/ stopper = "idle" => StopperSound'
           /\ (\A c \in Client : client[c] \in {"waiting", "returned"}
                                     <=> client'[c] \in {"waiting", "returned"})
              /\ (\A c \in Client : client'[c] = "waiting" => client[c] = "waiting") => TasksSound'
<1>1. SchedulersTyped /\ CallersTyped
    BY Zenon, RuntimeTypes DEF RuntimeInv
<1>2. SchedulersTyped'
    BY Zenon, <1>1 DEF SchedulersTyped, schedulerVars
<1>3. \A s \in Sched : /\ (Up(s)' <=> Up(s)) /\ (Down(s)' <=> Down(s))
                       /\ m_queue'[s] = m_queue[s] /\ running'[s] = running[s]
                       /\ worker'[s] = worker[s]
    BY Zenon DEF Up, Down, schedulerVars
<1>4. \A c \in Client : (Held(c)' <=> Held(c)) /\ (c \in done' <=> c \in done)
    BY Zenon DEF Held, schedulerVars
<1>5. m_running' = m_running \/ stopper = "idle" => StopperSound'
    BY <1>1 DEF CallersTyped, SchedulersTyped, RuntimeInv, StopperSound, Up, Down,
       schedulerVars, stopVars
<1>6. ASSUME \A c \in Client : client[c] \in {"waiting", "returned"}
                                   <=> client'[c] \in {"waiting", "returned"},
             \A c \in Client : client'[c] = "waiting" => client[c] = "waiting"
      PROVE  TasksSound'
    <2>1. TasksSound
        BY Zenon DEF RuntimeInv
    <2> QED BY Zenon, <1>6, <2>1 DEF TasksSound, Held, schedulerVars
<1> QED BY Zenon, <1>1, <1>2, <1>3, <1>4, <1>5, <1>6

(* A step that starts and ends no scheduler and leaves the starting client where it is. *)
LEMMA StartKept ==
    ASSUME RuntimeInv, m_compute_schedulers' = m_compute_schedulers,
           \A s \in Sched : /\ (Up(s) => Up(s)') /\ (Down(s) => Down(s)')
                            /\ running[s] => running'[s]
                            /\ worker[s] = "none" => worker'[s] = "none",
           \A c \in Client : Starting(c)' => client'[c] = client[c] /\ at'[c] = at[c]
    PROVE  StarterSound'
<1> SUFFICES ASSUME NEW c \in Client, Starting(c)'
             PROVE  /\ client'[c] = "create" =>
                         m_compute_schedulers' \in {0, Count} /\ \A s \in Sched : Down(s)'
                    /\ client'[c] = "push" =>
                         m_compute_schedulers' = at'[c] - 1 /\ \A s \in Sched : Down(s)'
                    /\ client'[c] = "launch" =>
                         /\ m_compute_schedulers' = Count
                         /\ \A s \in Sched : IF s < at'[c] THEN Up(s)' ELSE Down(s)'
                    /\ client'[c] = "thread" =>
                         /\ m_compute_schedulers' = Count
                         /\ running'[at'[c]] /\ worker'[at'[c]] = "none"
                         /\ \A s \in Sched \ {at'[c]} : IF s < at'[c] THEN Up(s)' ELSE Down(s)'
    BY Zenon DEF StarterSound, Starting
<1>1. client'[c] = client[c] /\ at'[c] = at[c] /\ at[c] \in Sched
    BY Zenon, RuntimeTypes DEF RuntimeInv, CallersTyped
<1>2. /\ client[c] = "create" =>
           m_compute_schedulers \in {0, Count} /\ \A s \in Sched : Down(s)
      /\ client[c] = "push" =>
           m_compute_schedulers = at[c] - 1 /\ \A s \in Sched : Down(s)
      /\ client[c] = "launch" =>
           /\ m_compute_schedulers = Count
           /\ \A s \in Sched : IF s < at[c] THEN Up(s) ELSE Down(s)
      /\ client[c] = "thread" =>
           /\ m_compute_schedulers = Count
           /\ running[at[c]] /\ worker[at[c]] = "none"
           /\ \A s \in Sched \ {at[c]} : IF s < at[c] THEN Up(s) ELSE Down(s)
    BY Zenon DEF RuntimeInv, StarterSound
<1> QED BY Zenon, <1>1, <1>2

(* A step that starts and ends no scheduler and lets nobody begin or end a start(). *)
LEMMA SettledKept ==
    ASSUME RuntimeInv, UNCHANGED m_compute_schedulers, UNCHANGED m_running, UNCHANGED stopper,
           \A c \in Client : Starting(c) => Starting(c)',
           \A s \in Sched : /\ (Up(s) => Up(s)') /\ (Down(s) => Down(s)')
                            /\ Down(s) /\ ~m_running => m_queue'[s] = m_queue[s]
    PROVE  SettledSound'
<1>1. SettledSound
    BY Zenon DEF RuntimeInv
<1>2. ASSUME \A c \in Client : ~Starting(c)'
      PROVE  /\ m_compute_schedulers' \in {0, Count}
             /\ m_running' \/ stopper' # "idle" => m_compute_schedulers' = Count
             /\ m_running' => \A s \in Sched : Up(s)'
    BY Zenon, <1>1, <1>2 DEF SettledSound
<1>3. ASSUME stopper' = "idle", ~m_running'
      PROVE  \A s \in Sched : Down(s)' /\ m_queue'[s] = {}
    BY Zenon, <1>1, <1>3 DEF SettledSound
<1> QED BY Zenon, <1>2, <1>3 DEF SettledSound

(* ensureStarted. *)
LEMMA EnsureStartedSound ==
    ASSUME RuntimeInv, NEW c \in Client, EnsureStarted(c), stopper = "idle"
    PROVE  RuntimeInv'
<1> DEFINE to == IF m_running THEN "acquire" ELSE "start"
<1>1. /\ Goto(c, "idle", to) /\ UNCHANGED runtimeVars /\ UNCHANGED at
      /\ UNCHANGED stopVars /\ UNCHANGED schedulerVars
    BY Zenon DEF EnsureStarted
<1>3. SchedulersTyped' /\ CallersTyped
    BY Zenon, <1>1, CallKeeps
<1>2. to \in Stages /\ to \in {"start", "acquire"} /\ (to = "acquire" => m_running)
    BY Zenon, <1>3 DEF Stages, CallersTyped
<1> HIDE DEF to
<1>4. /\ client[c] = "idle" /\ client'[c] = to /\ client' \in [Client -> Stages]
      /\ \A d \in Client : d # c => client'[d] = client[d]
    BY Zenon, <1>1, <1>2, <1>3, ClientMoves
<1>5. TypeOK'
    <2>1. CallersTyped'
        BY Zenon, <1>1, <1>3, <1>4 DEF CallersTyped, runtimeVars, stopVars
    <2> QED BY Zenon, <1>3, <2>1, RuntimeTypes
<1>6. \A d \in Client : /\ (Starting(d)' <=> Starting(d))
                        /\ InCall(d)' => InCall(d) \/ d = c
                        /\ client[d] \in {"waiting", "returned"}
                               <=> client'[d] \in {"waiting", "returned"}
                        /\ client'[d] = "waiting" => client[d] = "waiting"
    BY Zenon, <1>2, <1>4 DEF Starting, InCall
<1>7. CallersSound'
    BY Zenon, <1>1, <1>2, <1>4, <1>6 DEF RuntimeInv, CallersSound, InCall, runtimeVars, stopVars
<1>8. \A s \in Sched : /\ (Up(s)' <=> Up(s)) /\ (Down(s)' <=> Down(s))
                       /\ m_queue'[s] = m_queue[s] /\ running'[s] = running[s]
                       /\ worker'[s] = worker[s]
    BY Zenon, <1>1, CallKeeps
<1>9. StarterSound' /\ SettledSound'
    BY Zenon, <1>1, <1>4, <1>6, <1>8, StartKept, SettledKept
       DEF runtimeVars, stopVars, Starting
<1>10. StopperSound' /\ TasksSound'
    BY Zenon, <1>1, <1>6, CallKeeps DEF runtimeVars
<1> QED BY Zenon, <1>5, <1>7, <1>9, <1>10 DEF RuntimeInv

(* The exchange of start(). *)
LEMMA StartExchangeSound ==
    ASSUME RuntimeInv, NEW c \in Client, StartExchange(c)
    PROVE  RuntimeInv'
<1> DEFINE to == IF m_running THEN "acquire" ELSE "create"
<1>1. /\ Goto(c, "start", to) /\ m_running' = TRUE
      /\ UNCHANGED m_compute_schedulers /\ UNCHANGED m_compute_index /\ UNCHANGED at
      /\ UNCHANGED stopVars /\ UNCHANGED schedulerVars
    BY Zenon DEF StartExchange
<1>2. SchedulersTyped' /\ CallersTyped
    BY Zenon, <1>1, CallKeeps
<1>3. to \in Stages /\ (m_running => to = "acquire") /\ (~m_running => to = "create")
    BY Zenon, <1>2 DEF Stages, CallersTyped
<1> HIDE DEF to
<1>4. /\ client[c] = "start" /\ client'[c] = to /\ client' \in [Client -> Stages]
      /\ \A d \in Client : d # c => client'[d] = client[d]
    BY Zenon, <1>1, <1>2, <1>3, ClientMoves
<1>5. TypeOK' /\ stopper' = stopper
    <2>1. CallersTyped'
        BY Zenon, <1>1, <1>2, <1>4 DEF CallersTyped, stopVars
    <2> QED BY Zenon, <1>1, <1>2, <2>1, RuntimeTypes DEF stopVars
<1>6. /\ stopper = "idle"
      /\ ~m_running => \A d \in Client :
             client[d] \in {"idle", "start", "waiting", "returned", "noScheduler"}
    <2>1. CallersSound
        BY Zenon DEF RuntimeInv
    <2> QED BY Zenon, <1>4, <2>1 DEF CallersSound, InCall
<1>7. \A d \in Client : /\ client[d] \in {"waiting", "returned"}
                               <=> client'[d] \in {"waiting", "returned"}
                        /\ client'[d] = "waiting" => client[d] = "waiting"
                        /\ Starting(d) => Starting(d)'
                        /\ m_running /\ Starting(d)'
                               => Starting(d) /\ client'[d] = client[d] /\ d # c
                        /\ ~m_running /\ Starting(d)' => d = c
                        /\ ~m_running => Starting(c)'
    BY Zenon, <1>2, <1>3, <1>4, <1>6 DEF Starting, CallersTyped
<1>8. CallersSound'
    <2>1. CallersSound
        BY Zenon DEF RuntimeInv
    <2> QED BY Zenon, <1>1, <1>5, <1>6, <1>7, <2>1 DEF CallersSound
<1>9. \A s \in Sched : /\ (Up(s)' <=> Up(s)) /\ (Down(s)' <=> Down(s))
                       /\ m_queue'[s] = m_queue[s] /\ running'[s] = running[s]
                       /\ worker'[s] = worker[s]
    BY Zenon, <1>1, CallKeeps
<1>10. StarterSound' /\ SettledSound'
    <2>1. CASE m_running
        <3>1. m_running' = m_running
            BY Zenon, <1>1, <1>2, <2>1 DEF CallersTyped
        <3> QED BY Zenon, <1>1, <1>5, <1>7, <1>9, <2>1, <3>1, StartKept, SettledKept
    <2>2. CASE ~m_running
        <3>1. \A d \in Client : ~Starting(d)
            BY Zenon, <1>6, <2>2 DEF Starting
        <3>2. m_compute_schedulers \in {0, Count} /\ \A s \in Sched : Down(s)
            BY Zenon, <1>6, <2>2, <3>1 DEF RuntimeInv, SettledSound
        <3>3. SettledSound'
            BY Zenon, <1>1, <1>7, <2>2 DEF SettledSound
        <3>4. \A d \in Client : d # c => ~Starting(d)'
            BY Zenon, <1>7, <2>2
        <3>5. StarterSound'
            BY Zenon, <1>1, <1>3, <1>4, <1>9, <2>2, <3>2, <3>4 DEF StarterSound, Starting
        <3> QED BY Zenon, <3>3, <3>5
    <2> QED BY Zenon, <2>1, <2>2
<1>11. StopperSound' /\ TasksSound'
    BY Zenon, <1>1, <1>6, <1>7, CallKeeps
<1> QED BY Zenon, <1>5, <1>8, <1>10, <1>11 DEF RuntimeInv

(* Joined. *)
LEMMA JoinedSound ==
    ASSUME RuntimeInv, NEW c \in Client, Joined(c)
    PROVE  RuntimeInv'
<1>1. /\ Goto(c, "waiting", "returned") /\ c \in done
      /\ UNCHANGED runtimeVars /\ UNCHANGED at /\ UNCHANGED stopVars /\ UNCHANGED schedulerVars
    BY Zenon DEF Joined
<1>2. SchedulersTyped' /\ CallersTyped /\ "returned" \in Stages
    BY Zenon, <1>1, CallKeeps DEF Stages
<1>3. /\ client[c] = "waiting" /\ client'[c] = "returned" /\ client' \in [Client -> Stages]
      /\ \A d \in Client : d # c => client'[d] = client[d]
    BY Zenon, <1>1, <1>2, ClientMoves
<1>4. TypeOK'
    <2>1. CallersTyped'
        BY Zenon, <1>1, <1>2, <1>3 DEF CallersTyped, runtimeVars, stopVars
    <2> QED BY Zenon, <1>2, <2>1, RuntimeTypes
<1>5. \A d \in Client : /\ client[d] \in {"waiting", "returned"}
                               <=> client'[d] \in {"waiting", "returned"}
                        /\ client'[d] = "waiting" => client[d] = "waiting"
                        /\ (Starting(d) <=> Starting(d)') /\ (InCall(d) <=> InCall(d)')
                        /\ Starting(d)' \/ InCall(d)' => client'[d] = client[d]
    BY Zenon, <1>3 DEF Starting, InCall
<1>6. \A s \in Sched : /\ (Up(s)' <=> Up(s)) /\ (Down(s)' <=> Down(s))
                       /\ m_queue'[s] = m_queue[s] /\ running'[s] = running[s]
                       /\ worker'[s] = worker[s]
    BY Zenon, <1>1, CallKeeps
<1>7. CallersSound'
    <2>1. CallersSound
        BY Zenon DEF RuntimeInv
    <2> QED BY Zenon, <1>1, <1>5, <2>1 DEF CallersSound, runtimeVars, stopVars
<1>8. StarterSound' /\ SettledSound'
    BY Zenon, <1>1, <1>5, <1>6, StartKept, SettledKept DEF runtimeVars, stopVars
<1>9. StopperSound' /\ TasksSound'
    BY Zenon, <1>1, <1>5, CallKeeps DEF runtimeVars
<1> QED BY Zenon, <1>4, <1>7, <1>8, <1>9 DEF RuntimeInv

(* acquireDefaultScheduler stays within the vector, and its counter within its range. *)
LEMMA TurnInRange ==
    ASSUME NEW n \in Nat, NEW k \in Nat \ {0}
    PROVE  n % k \in 0..(k - 1)
<1> QED OBVIOUS

(* acquireDefaultScheduler. *)
LEMMA AcquireSound ==
    ASSUME RuntimeInv, NEW c \in Client, Acquire(c)
    PROVE  /\ RuntimeInv'
           /\ client'[c] = "noScheduler" => \E d \in Client : client[d] \in {"create", "push"}
<1>1. PICK to \in {"noScheduler", "submit"} :
          /\ Goto(c, "acquire", to)
          /\ to = "noScheduler" => m_compute_schedulers = 0 /\ UNCHANGED <<m_compute_index, at>>
          /\ to = "submit" => /\ m_compute_schedulers > 0
                              /\ at' = [at EXCEPT ![c] = NextScheduler]
                              /\ m_compute_index' = (m_compute_index + 1) % IndexRange
    BY Zenon DEF Acquire
<1>2. /\ UNCHANGED m_running /\ UNCHANGED m_compute_schedulers
      /\ UNCHANGED stopVars /\ UNCHANGED schedulerVars
    BY Zenon DEF Acquire
<1>3. SchedulersTyped' /\ CallersTyped /\ to \in Stages
    BY Zenon, <1>2, CallKeeps DEF Stages
<1>4. /\ client[c] = "acquire" /\ client'[c] = to /\ client' \in [Client -> Stages]
      /\ \A d \in Client : d # c => client'[d] = client[d]
    BY Zenon, <1>1, <1>3, ClientMoves
<1>5. /\ at' \in [Client -> Sched] /\ m_compute_index' \in 0..(IndexRange - 1)
      /\ \A d \in Client : d # c => at'[d] = at[d]
    <2>1. CASE to = "noScheduler"
        BY Zenon, <1>1, <1>3, <2>1 DEF CallersTyped
    <2>2. CASE to = "submit"
        <3>1. /\ m_compute_index \in Nat /\ m_compute_index + 1 \in Nat
              /\ IndexRange \in Nat \ {0} /\ Count \in Nat
              /\ m_compute_schedulers \in Nat \ {0} /\ m_compute_schedulers <= Count
            BY <1>1, <1>3, <2>2, RuntimeAssumption DEF CallersTyped
        <3>2. /\ (m_compute_index + 1) % IndexRange \in 0..(IndexRange - 1)
              /\ m_compute_index % m_compute_schedulers \in 0..(m_compute_schedulers - 1)
            BY Zenon, <3>1, TurnInRange
        <3>3. NextScheduler \in Sched
            BY <3>1, <3>2 DEF NextScheduler, Sched
        <3> QED BY Zenon, <1>1, <1>3, <2>2, <3>2, <3>3, AtMoves
    <2> QED BY Zenon, <2>1, <2>2
<1>6. TypeOK'
    <2>1. CallersTyped'
        BY Zenon, <1>2, <1>3, <1>4, <1>5 DEF CallersTyped, stopVars
    <2> QED BY Zenon, <1>3, <2>1, RuntimeTypes
<1>7. \A d \in Client : /\ client[d] \in {"waiting", "returned"}
                               <=> client'[d] \in {"waiting", "returned"}
                        /\ client'[d] = "waiting" => client[d] = "waiting"
                        /\ (Starting(d) <=> Starting(d)') /\ (InCall(d)' => InCall(d))
                        /\ Starting(d)' => client'[d] = client[d] /\ at'[d] = at[d]
                        /\ client[d] # "start" => client'[d] # "start"
                        /\ InCall(d)' /\ client'[d] # "start" => client[d] # "start"
    BY Zenon, <1>1, <1>4, <1>5 DEF Starting, InCall
<1>8. \A s \in Sched : /\ (Up(s)' <=> Up(s)) /\ (Down(s)' <=> Down(s))
                       /\ m_queue'[s] = m_queue[s] /\ running'[s] = running[s]
                       /\ worker'[s] = worker[s]
    BY Zenon, <1>2, CallKeeps
<1>9. CallersSound'
    <2>1. CallersSound
        BY Zenon DEF RuntimeInv
    <2> QED BY Zenon, <1>2, <1>7, <2>1 DEF CallersSound, stopVars
<1>10. StarterSound' /\ SettledSound'
    BY Zenon, <1>2, <1>7, <1>8, StartKept, SettledKept DEF stopVars
<1>11. StopperSound' /\ TasksSound'
    BY Zenon, <1>2, <1>7, CallKeeps
<1>12. ASSUME to = "noScheduler"
       PROVE  \E d \in Client : client[d] \in {"create", "push"}
    <2>1. m_running /\ m_compute_schedulers = 0 /\ Count # 0
        <3>1. InCall(c) /\ client[c] # "start"
            BY Zenon, <1>4 DEF InCall
        <3>2. Count # 0
            BY Zenon, RuntimeAssumption
        <3> QED BY Zenon, <1>1, <1>12, <3>1, <3>2 DEF RuntimeInv, CallersSound
    <2>2. PICK d \in Client : Starting(d)
        BY Zenon, <2>1 DEF RuntimeInv, SettledSound
    <2>3. client[d] \notin {"launch", "thread"}
        BY Zenon, <2>1 DEF RuntimeInv, StarterSound
    <2> QED BY Zenon, <2>2, <2>3 DEF Starting
<1> QED BY Zenon, <1>4, <1>6, <1>9, <1>10, <1>11, <1>12 DEF RuntimeInv

(* A step of start() before the schedulers are launched, or to the next one. *)
LEMMA StarterMoves ==
    ASSUME RuntimeInv, NEW c \in Client, Starting(c), Starting(c)',
           CallersTyped', UNCHANGED m_running, UNCHANGED stopVars, UNCHANGED schedulerVars,
           \A d \in Client : d # c => client'[d] = client[d],
           /\ client'[c] = "push" =>
                m_compute_schedulers' = at'[c] - 1 /\ \A s \in Sched : Down(s)
           /\ client'[c] = "launch" =>
                /\ m_compute_schedulers' = Count
                /\ \A s \in Sched : IF s < at'[c] THEN Up(s) ELSE Down(s)
           /\ client'[c] \notin {"create", "thread"}
    PROVE  RuntimeInv'
<1>1. TypeOK' /\ stopper' = stopper
    BY Zenon, CallKeeps, RuntimeTypes DEF stopVars
<1>2. /\ stopper = "idle" /\ m_running
      /\ \A d \in Client : d # c => ~Starting(d)
    <2>1. InCall(c) /\ client[c] # "start"
        BY Zenon DEF Starting, InCall
    <2> QED BY Zenon, <2>1 DEF RuntimeInv, CallersSound
<1>3. \A d \in Client : /\ client[d] \in {"waiting", "returned"}
                               <=> client'[d] \in {"waiting", "returned"}
                        /\ client'[d] = "waiting" => client[d] = "waiting"
                        /\ d # c => ~Starting(d)'
    BY Zenon, <1>2 DEF Starting
<1>4. CallersSound'
    BY Zenon, <1>1, <1>2, <1>3 DEF CallersSound
<1>5. \A s \in Sched : (Up(s)' <=> Up(s)) /\ (Down(s)' <=> Down(s))
    BY Zenon, CallKeeps
<1>6. StarterSound'
    BY Zenon, <1>3, <1>5 DEF StarterSound, Starting
<1>7. SettledSound'
    BY Zenon, <1>2 DEF SettledSound
<1>8. StopperSound' /\ TasksSound'
    BY Zenon, <1>2, <1>3, CallKeeps
<1> QED BY Zenon, <1>1, <1>4, <1>6, <1>7, <1>8 DEF RuntimeInv

(* The test of start() for schedulers added by hand. *)
LEMMA TestEmptySound ==
    ASSUME RuntimeInv, NEW c \in Client, TestEmpty(c)
    PROVE  RuntimeInv'
<1> DEFINE to == IF m_compute_schedulers = 0 THEN "push" ELSE "launch"
<1>1. /\ Goto(c, "create", to) /\ at' = [at EXCEPT ![c] = 1]
      /\ UNCHANGED runtimeVars /\ UNCHANGED stopVars /\ UNCHANGED schedulerVars
    BY Zenon DEF TestEmpty
<1>2. to \in Stages /\ to = IF m_compute_schedulers = 0 THEN "push" ELSE "launch"
    BY Zenon DEF Stages
<1> HIDE DEF to
<1>3. CallersTyped /\ 1 \in Sched /\ Count \in Nat
    BY <1>1, CallKeeps, RuntimeAssumption DEF Sched
<1>4. /\ client[c] = "create" /\ client'[c] = to /\ client' \in [Client -> Stages]
      /\ \A d \in Client : d # c => client'[d] = client[d]
    BY Zenon, <1>1, <1>2, <1>3, ClientMoves
<1>5. at'[c] = 1 /\ at' \in [Client -> Sched]
    BY Zenon, <1>1, <1>3, AtMoves
<1>6. CallersTyped'
    BY Zenon, <1>1, <1>3, <1>4, <1>5 DEF CallersTyped, runtimeVars, stopVars
<1>7. m_compute_schedulers \in {0, Count} /\ \A s \in Sched : Down(s)
    BY Zenon, <1>4 DEF RuntimeInv, StarterSound
<1>8. Starting(c) /\ Starting(c)'
    BY Zenon, <1>2, <1>4 DEF Starting
<1>9. /\ client'[c] = "push" =>
           m_compute_schedulers' = at'[c] - 1 /\ \A s \in Sched : Down(s)
      /\ client'[c] = "launch" =>
           /\ m_compute_schedulers' = Count
           /\ \A s \in Sched : IF s < at'[c] THEN Up(s) ELSE Down(s)
      /\ client'[c] \notin {"create", "thread"}
    BY <1>1, <1>2, <1>3, <1>4, <1>5, <1>7 DEF runtimeVars, Sched
<1> QED BY Zenon, <1>1, <1>4, <1>6, <1>8, <1>9, StarterMoves DEF runtimeVars

(* createDefaultSchedulers. *)
LEMMA PushSound ==
    ASSUME RuntimeInv, NEW c \in Client, Push(c)
    PROVE  RuntimeInv'
<1> DEFINE last == at[c] = Count
           to == IF last THEN "launch" ELSE "push"
           next == IF last THEN 1 ELSE at[c] + 1
<1>1. /\ Goto(c, "push", to) /\ m_compute_schedulers' = m_compute_schedulers + 1
      /\ UNCHANGED m_running /\ UNCHANGED m_compute_index
      /\ UNCHANGED stopVars /\ UNCHANGED schedulerVars
    BY Zenon DEF Push
<1>2. CallersTyped /\ Count \in Nat \ {0} /\ at[c] \in 1..Count
    BY Zenon, <1>1, CallKeeps, RuntimeAssumption DEF Sched, CallersTyped
<1>3. to \in Stages /\ next \in Sched
    BY <1>2 DEF Stages, Sched
<1>4. at' = [at EXCEPT ![c] = next]
    BY Zenon, <1>2 DEF Push, CallersTyped
<1>5. \/ to = "launch" /\ at[c] = Count /\ next = 1
      \/ to = "push" /\ at[c] # Count /\ next = at[c] + 1
    OBVIOUS
<1> HIDE DEF to, next, last
<1>6. /\ client[c] = "push" /\ client'[c] = to /\ client' \in [Client -> Stages]
      /\ \A d \in Client : d # c => client'[d] = client[d]
    BY Zenon, <1>1, <1>2, <1>3, ClientMoves
<1>7. at'[c] = next /\ at' \in [Client -> Sched]
    BY Zenon, <1>2, <1>3, <1>4, AtMoves
<1>8. m_compute_schedulers = at[c] - 1 /\ \A s \in Sched : Down(s)
    BY Zenon, <1>6 DEF RuntimeInv, StarterSound
<1>9. m_compute_schedulers' = at[c] /\ m_compute_schedulers' \in 0..Count
    BY <1>1, <1>2, <1>8
<1>10. CallersTyped'
    BY Zenon, <1>1, <1>2, <1>6, <1>7, <1>9 DEF CallersTyped, stopVars
<1>11. Starting(c) /\ Starting(c)'
    BY Zenon, <1>5, <1>6 DEF Starting
<1>12. /\ client'[c] = "push" =>
            m_compute_schedulers' = at'[c] - 1 /\ \A s \in Sched : Down(s)
       /\ client'[c] = "launch" =>
            /\ m_compute_schedulers' = Count
            /\ \A s \in Sched : IF s < at'[c] THEN Up(s) ELSE Down(s)
       /\ client'[c] \notin {"create", "thread"}
    BY <1>2, <1>5, <1>6, <1>7, <1>8, <1>9 DEF Sched
<1> QED BY Zenon, <1>1, <1>6, <1>10, <1>11, <1>12, StarterMoves

(* A step that moves no task. *)
LEMMA TasksKept ==
    ASSUME RuntimeInv, UNCHANGED m_queue, UNCHANGED holding, UNCHANGED done,
           \A c \in Client :
               /\ client[c] \in {"waiting", "returned"} => client'[c] \in {"waiting", "returned"}
               /\ client'[c] = "waiting" => client[c] = "waiting"
    PROVE  TasksSound'
<1>1. TasksSound
    BY Zenon DEF RuntimeInv
<1> QED BY Zenon, <1>1 DEF TasksSound, Held

(* Outside stop(), no queue holds a stop signal. *)
LEMMA NotStopping ==
    ASSUME RuntimeInv, stopper = "idle", UNCHANGED stopper,
           \A s \in Sched : StopSignal \in m_queue'[s] => StopSignal \in m_queue[s]
    PROVE  StopperSound'
<1>1. \A s \in Sched : StopSignal \notin m_queue[s]
    BY Zenon DEF RuntimeInv, StopperSound
<1>2. /\ stopper' = "idle" /\ stopper' # "stopping" /\ stopper' # "signal" /\ stopper' # "join"
      /\ \A s \in Sched : StopSignal \notin m_queue'[s]
    BY Zenon, <1>1
<1> QED BY Zenon, <1>2 DEF StopperSound

(* A client in start() is the only one, and nobody stops. *)
LEMMA StarterAlone ==
    ASSUME RuntimeInv, NEW c \in Client, Starting(c)
    PROVE  /\ stopper = "idle" /\ m_running /\ CallersTyped /\ SchedulersTyped
           /\ \A d \in Client : d # c => ~Starting(d)
           /\ Count \in Nat \ {0} /\ at[c] \in 1..Count
<1>1. InCall(c) /\ client[c] # "start"
    BY Zenon DEF Starting, InCall
<1>2. CallersTyped /\ SchedulersTyped
    BY Zenon, RuntimeTypes DEF RuntimeInv
<1>3. Count \in Nat \ {0} /\ at[c] \in 1..Count
    BY Zenon, <1>2, RuntimeAssumption DEF CallersTyped, Sched
<1> QED BY Zenon, <1>1, <1>2, <1>3 DEF RuntimeInv, CallersSound

(* The exchange of a scheduler's start(), which always finds it not running. *)
LEMMA LaunchSound ==
    ASSUME RuntimeInv, NEW c \in Client, Launch(c)
    PROVE  RuntimeInv'
<1> DEFINE a == at[c]
<1>1. client[c] = "launch" /\ UNCHANGED runtimeVars /\ UNCHANGED stopVars
    BY Zenon DEF Launch, NextLaunch, Goto
<1>2. Starting(c)
    BY Zenon, <1>1 DEF Starting
<1>3. /\ stopper = "idle" /\ m_running /\ CallersTyped /\ SchedulersTyped
      /\ \A d \in Client : d # c => ~Starting(d)
      /\ Count \in Nat \ {0} /\ a \in 1..Count
    BY Zenon, <1>2, StarterAlone
<1>4. /\ m_compute_schedulers = Count
      /\ \A s \in Sched : IF s < a THEN Up(s) ELSE Down(s)
    BY Zenon, <1>1 DEF RuntimeInv, StarterSound
<1>5. a \in Sched /\ Down(a) /\ ~running[a]
    BY <1>3, <1>4 DEF Sched, Down
<1>6. Goto(c, "launch", "thread") /\ C!Start(a) /\ UNCHANGED at
    BY Zenon, <1>5 DEF Launch
<1>7. /\ client'[c] = "thread" /\ client' \in [Client -> Stages]
      /\ \A d \in Client : d # c => client'[d] = client[d]
    <2>1. "thread" \in Stages
        BY Zenon DEF Stages
    <2> QED BY Zenon, <1>3, <1>6, <2>1, ClientMoves
<1>8. /\ running' = [running EXCEPT ![a] = TRUE] /\ UNCHANGED m_queue /\ UNCHANGED worker
      /\ UNCHANGED holding /\ UNCHANGED left /\ UNCHANGED done
    BY Zenon, <1>6 DEF C!Start
<1> HIDE DEF a
<1>9. /\ running' \in [Sched -> BOOLEAN] /\ running'[a]
      /\ \A s \in Sched : s # a => running'[s] = running[s]
    BY Zenon, <1>3, <1>5, <1>8 DEF SchedulersTyped
<1>10. TypeOK'
    <2>1. CallersTyped'
        BY Zenon, <1>1, <1>3, <1>6, <1>7 DEF CallersTyped, runtimeVars, stopVars
    <2>2. SchedulersTyped'
        BY Zenon, <1>3, <1>8, <1>9 DEF SchedulersTyped
    <2> QED BY Zenon, <2>1, <2>2, RuntimeTypes
<1>11. /\ Starting(c)' /\ \A d \in Client : d # c => ~Starting(d)'
       /\ stopper' = "idle" /\ m_running'
    BY Zenon, <1>1, <1>3, <1>7 DEF Starting, runtimeVars, stopVars
<1>12. CallersSound'
    BY Zenon, <1>11 DEF CallersSound
<1>13. StarterSound'
    <2>1. at'[c] = a /\ m_compute_schedulers' = Count
        BY Zenon, <1>1, <1>4, <1>6 DEF runtimeVars, a
    <2>2. running'[a] /\ worker'[a] = "none"
        BY Zenon, <1>5, <1>8, <1>9 DEF Down
    <2>3. \A s \in Sched \ {a} : IF s < a THEN Up(s)' ELSE Down(s)'
        BY Zenon, <1>4, <1>8, <1>9 DEF Up, Down
    <2>4. \A d \in Client : client'[d] \in {"create", "push", "launch", "thread"} => d = c
        BY Zenon, <1>11 DEF Starting
    <2> QED BY Zenon, <1>7, <2>1, <2>2, <2>3, <2>4 DEF StarterSound
<1>14. SettledSound'
    BY Zenon, <1>11 DEF SettledSound
<1>15. StopperSound' /\ TasksSound'
    <2>1. \A d \in Client : client[d] \in {"waiting", "returned"}
                                <=> client'[d] \in {"waiting", "returned"}
        BY Zenon, <1>1, <1>7
    <2>2. \A d \in Client : client'[d] = "waiting" => client[d] = "waiting"
        BY Zenon, <1>1, <1>7
    <2> QED BY Zenon, <1>3, <1>8, <1>11, <2>1, <2>2, NotStopping, TasksKept
<1> QED BY Zenon, <1>10, <1>12, <1>13, <1>14, <1>15 DEF RuntimeInv

(* A scheduler's start() creates its worker, and start() goes on to the next or ends. *)
LEMMA LaunchThreadSound ==
    ASSUME RuntimeInv, NEW c \in Client, LaunchThread(c)
    PROVE  RuntimeInv'
<1> DEFINE a == at[c]
           last == a = m_compute_schedulers
           to == IF last THEN "acquire" ELSE "launch"
<1>1. client[c] = "thread" /\ UNCHANGED runtimeVars /\ UNCHANGED stopVars /\ C!StartThread(a)
    BY Zenon DEF LaunchThread, NextLaunch, Goto
<1>2. Starting(c)
    BY Zenon, <1>1 DEF Starting
<1>3. /\ stopper = "idle" /\ m_running /\ CallersTyped /\ SchedulersTyped
      /\ \A d \in Client : d # c => ~Starting(d)
      /\ Count \in Nat \ {0} /\ a \in 1..Count
    BY Zenon, <1>2, StarterAlone
<1>4. /\ m_compute_schedulers = Count /\ running[a] /\ worker[a] = "none"
      /\ \A s \in Sched \ {a} : IF s < a THEN Up(s) ELSE Down(s)
    BY Zenon, <1>1 DEF RuntimeInv, StarterSound
<1>5. Goto(c, "thread", to) /\ (last => UNCHANGED at) /\ (~last => at' = [at EXCEPT ![c] = a + 1])
    BY Zenon, <1>3, <1>4 DEF LaunchThread, NextLaunch, CallersTyped
<1>6. to \in Stages /\ (last => to = "acquire") /\ (~last => to = "launch")
    BY Zenon DEF Stages
<1>7. last <=> a = Count
    BY Zenon, <1>4
<1> HIDE DEF a, last, to
<1>8. /\ client'[c] = to /\ client' \in [Client -> Stages]
      /\ \A d \in Client : d # c => client'[d] = client[d]
    BY Zenon, <1>3, <1>5, <1>6, ClientMoves
<1>9. at' \in [Client -> Sched] /\ (~last => at'[c] = a + 1)
    <2>1. CASE last
        BY Zenon, <1>3, <1>5, <2>1 DEF CallersTyped
    <2>2. CASE ~last
        <3>1. a + 1 \in Sched
            BY <1>3, <1>7, <2>2 DEF Sched
        <3> QED BY Zenon, <1>3, <1>5, <2>2, <3>1, AtMoves
    <2> QED BY Zenon, <2>1, <2>2
<1>10. /\ worker' = [worker EXCEPT ![a] = "loop"] /\ UNCHANGED m_queue /\ UNCHANGED running
       /\ UNCHANGED holding /\ UNCHANGED left /\ UNCHANGED done
    BY Zenon, <1>1 DEF C!StartThread, C!WorkerGoto
<1>11. /\ worker' \in [Sched -> Workers] /\ worker'[a] = "loop" /\ a \in Sched
       /\ \A s \in Sched : s # a => worker'[s] = worker[s]
    BY Zenon, <1>3, <1>10 DEF SchedulersTyped, Workers, Sched
<1>12. TypeOK'
    <2>1. CallersTyped'
        BY Zenon, <1>1, <1>3, <1>8, <1>9 DEF CallersTyped, runtimeVars, stopVars
    <2>2. \A s \in Sched : holding'[s] # Nothing <=> worker'[s] \in {"run", "drainRun"}
        BY Zenon, <1>3, <1>4, <1>10, <1>11 DEF SchedulersTyped
    <2>3. SchedulersTyped'
        BY Zenon, <1>3, <1>10, <1>11, <2>2 DEF SchedulersTyped
    <2> QED BY Zenon, <2>1, <2>3, RuntimeTypes
<1>13. /\ \A s \in Sched : IF s < a + 1 THEN Up(s)' ELSE Down(s)'
       /\ last => \A s \in Sched : Up(s)'
    <2>1. \A s \in Sched : /\ s < a + 1 <=> s < a \/ s = a
                           /\ last => s < a \/ s = a
        BY <1>3, <1>7 DEF Sched
    <2>2. \A s \in Sched : s = a => Up(s)'
        BY Zenon, <1>4, <1>10, <1>11 DEF Up
    <2>3. \A s \in Sched \ {a} : IF s < a THEN Up(s)' ELSE Down(s)'
        BY Zenon, <1>4, <1>10, <1>11 DEF Up, Down
    <2> QED BY Zenon, <1>11, <2>1, <2>2, <2>3
<1>14. /\ \A d \in Client : d # c => ~Starting(d)'
       /\ stopper' = "idle" /\ m_running' /\ m_compute_schedulers' = Count
       /\ Starting(c)' <=> ~last
    BY Zenon, <1>1, <1>3, <1>4, <1>6, <1>8 DEF Starting, runtimeVars, stopVars
<1>15. CallersSound'
    BY Zenon, <1>14 DEF CallersSound
<1>16. StarterSound'
    <2>1. \A d \in Client : client'[d] \in {"create", "push", "launch", "thread"} =>
              d = c /\ ~last
        BY Zenon, <1>14 DEF Starting
    <2>2. CASE last
        BY Zenon, <2>1, <2>2 DEF StarterSound
    <2>3. CASE ~last
        <3>1. client'[c] = "launch" /\ at'[c] = a + 1
            BY Zenon, <1>6, <1>8, <1>9, <2>3
        <3> QED BY Zenon, <1>13, <1>14, <2>1, <3>1 DEF StarterSound
    <2> QED BY Zenon, <2>2, <2>3
<1>17. SettledSound'
    BY Zenon, <1>13, <1>14 DEF SettledSound
<1>18. StopperSound' /\ TasksSound'
    <2>1. \A d \in Client : /\ client[d] \in {"waiting", "returned"}
                                   <=> client'[d] \in {"waiting", "returned"}
                            /\ client'[d] = "waiting" => client[d] = "waiting"
        BY Zenon, <1>1, <1>6, <1>8
    <2> QED BY Zenon, <1>3, <1>10, <1>14, <2>1, NotStopping, TasksKept
<1> QED BY Zenon, <1>12, <1>15, <1>16, <1>17, <1>18 DEF RuntimeInv

(* schedule() of the scheduler a client has picked. *)
LEMMA SubmitSound ==
    ASSUME RuntimeInv, NEW c \in Client, Submit(c)
    PROVE  RuntimeInv'
<1> DEFINE a == at[c]
<1>1. /\ Goto(c, "submit", "waiting") /\ C!Schedule(a, c)
      /\ UNCHANGED runtimeVars /\ UNCHANGED stopVars /\ UNCHANGED at
    BY Zenon DEF Submit
<1>2. CallersTyped /\ SchedulersTyped /\ "waiting" \in Stages
    BY Zenon, RuntimeTypes DEF RuntimeInv, Stages
<1>3. a \in Sched
    BY Zenon, <1>2 DEF CallersTyped
<1>4. /\ client[c] = "submit" /\ client'[c] = "waiting" /\ client' \in [Client -> Stages]
      /\ \A d \in Client : d # c => client'[d] = client[d]
    BY Zenon, <1>1, <1>2, ClientMoves
<1>5. /\ m_queue' = [m_queue EXCEPT ![a] = @ \union {c}] /\ UNCHANGED running
      /\ UNCHANGED worker /\ UNCHANGED holding /\ UNCHANGED left /\ UNCHANGED done
    BY Zenon, <1>1 DEF C!Schedule, C!Enqueue
<1> HIDE DEF a
<1>6. /\ m_queue' \in [Sched -> SUBSET (Client \union {StopSignal})]
      /\ m_queue'[a] = m_queue[a] \union {c}
      /\ \A s \in Sched : s # a => m_queue'[s] = m_queue[s]
    <2>1. m_queue \in [Sched -> SUBSET (Client \union {StopSignal})]
        BY Zenon, <1>2 DEF SchedulersTyped
    <2> QED BY Zenon, <1>3, <1>5, <2>1
<1>7. TypeOK'
    <2>1. CallersTyped'
        BY Zenon, <1>1, <1>2, <1>4 DEF CallersTyped, runtimeVars, stopVars
    <2>2. SchedulersTyped'
        BY Zenon, <1>2, <1>5, <1>6 DEF SchedulersTyped
    <2> QED BY Zenon, <2>1, <2>2, RuntimeTypes
<1>8. stopper = "idle" /\ m_running /\ CallersSound
    <2>1. InCall(c) /\ client[c] # "start"
        BY Zenon, <1>4 DEF InCall
    <2> QED BY Zenon, <2>1 DEF RuntimeInv, CallersSound
<1>9. \A d \in Client : /\ (Starting(d) <=> Starting(d)') /\ (InCall(d)' => InCall(d))
                        /\ Starting(d)' \/ InCall(d)' => client'[d] = client[d] /\ d # c
    BY Zenon, <1>4 DEF Starting, InCall
<1>10. CallersSound'
    BY Zenon, <1>1, <1>8, <1>9 DEF CallersSound, runtimeVars, stopVars
<1>11. StarterSound' /\ SettledSound'
    <2>1. \A s \in Sched : (Up(s)' <=> Up(s)) /\ (Down(s)' <=> Down(s))
        BY Zenon, <1>5 DEF Up, Down
    <2> QED BY Zenon, <1>1, <1>5, <1>8, <1>9, <2>1, StartKept, SettledKept DEF runtimeVars, stopVars
<1>12. StopperSound'
    <2>1. c # StopSignal
        BY Zenon, RuntimeAssumption
    <2> QED BY Zenon, <1>1, <1>6, <1>8, <2>1, NotStopping DEF stopVars
<1>13. TasksSound'
    <2>1. TasksSound /\ c \notin done /\ ~Held(c)
        BY Zenon, <1>4 DEF RuntimeInv, TasksSound
    <2>2. \A s \in Sched, d \in Client :
             /\ d # c => (d \in m_queue'[s] <=> d \in m_queue[s])
             /\ c \in m_queue'[s] <=> s = a
        BY Zenon, <1>3, <1>6, <2>1 DEF Held
    <2>3. \A d \in Client : d # c => (Held(d)' <=> Held(d)) /\ client'[d] = client[d]
        BY Zenon, <1>4, <1>5, <2>2 DEF Held
    <2>4. Held(c)' /\ c \notin done' /\ \A s \in Sched : holding'[s] # c
        BY Zenon, <1>3, <1>5, <2>1, <2>2 DEF Held
    <2>5. \A d \in Client : /\ d \in done' \/ Held(d)' => client'[d] \in {"waiting", "returned"}
                            /\ client'[d] = "waiting" => d \in done' \/ Held(d)'
                            /\ d \in done' => ~Held(d)'
        BY Zenon, <1>4, <1>5, <2>1, <2>3, <2>4 DEF TasksSound
    <2>6. ASSUME NEW d \in Client, NEW s \in Sched, NEW r \in Sched
          PROVE  /\ d \in m_queue'[s] /\ d \in m_queue'[r] => s = r
                 /\ holding'[s] = d /\ holding'[r] = d => s = r
                 /\ ~(d \in m_queue'[s] /\ holding'[r] = d)
        <3>1. CASE d = c
            BY Zenon, <2>2, <2>4, <3>1
        <3>2. CASE d # c
            <4>1. /\ d \in m_queue[s] /\ d \in m_queue[r] => s = r
                  /\ holding[s] = d /\ holding[r] = d => s = r
                  /\ ~(d \in m_queue[s] /\ holding[r] = d)
                BY Zenon, <2>1 DEF TasksSound
            <4>2. /\ d \in m_queue'[s] <=> d \in m_queue[s]
                  /\ d \in m_queue'[r] <=> d \in m_queue[r]
                BY Zenon, <2>2, <3>2
            <4> QED BY Zenon, <1>5, <4>1, <4>2
        <3> QED BY Zenon, <3>1, <3>2
    <2> QED BY Zenon, <2>5, <2>6 DEF TasksSound
<1> QED BY Zenon, <1>7, <1>10, <1>11, <1>12, <1>13 DEF RuntimeInv

(* A task a worker holds or has queued is with no other. *)
LEMMA OnePlace ==
    ASSUME TasksSound, NEW s \in Sched, NEW t \in Client, t \in m_queue[s] \/ holding[s] = t,
           NEW r \in Sched, r # s
    PROVE  t \notin m_queue[r] /\ holding[r] # t
<1>1. /\ t \in m_queue[s] /\ t \in m_queue[r] => s = r
      /\ holding[s] = t /\ holding[r] = t => s = r
      /\ ~(t \in m_queue[s] /\ holding[r] = t) /\ ~(t \in m_queue[r] /\ holding[s] = t)
    BY Zenon DEF TasksSound
<1> QED BY Zenon, <1>1

(* Every task but t of scheduler s stays where it is. *)
OthersStay(t, s) ==
    /\ \A d \in Client, r \in Sched : d # t \/ r # s =>
         (d \in m_queue'[r] <=> d \in m_queue[r]) /\ (holding'[r] = d <=> holding[r] = d)
    /\ \A d \in Client : d # t => (d \in done' <=> d \in done)

(* Task t is in one place of scheduler s, or has ended. *)
EndsUp(t, s) ==
    \/ t \in m_queue'[s] /\ holding'[s] # t /\ t \notin done'
    \/ t \notin m_queue'[s] /\ holding'[s] = t /\ t \notin done'
    \/ t \notin m_queue'[s] /\ holding'[s] # t /\ t \in done'

(* A worker that takes a task, puts it back or ends it. *)
LEMMA OneTaskMoves ==
    ASSUME RuntimeInv, UNCHANGED client, NEW s \in Sched, NEW t \in Client,
           t \in m_queue[s] \/ holding[s] = t, OthersStay(t, s), EndsUp(t, s)
    PROVE  TasksSound'
<1>1. TasksSound
    BY Zenon DEF RuntimeInv
<1>2. Held(t) /\ client'[t] \in {"waiting", "returned"}
    BY Zenon, <1>1 DEF TasksSound, Held
<1>3. \A r \in Sched : r # s => t \notin m_queue'[r] /\ holding'[r] # t
    <2>1. \A r \in Sched : r # s => t \notin m_queue[r] /\ holding[r] # t
        BY Zenon, <1>1, OnePlace
    <2> QED BY Zenon, <2>1 DEF OthersStay
<1>4. (t \in done' \/ Held(t)') /\ (t \in done' => ~Held(t)')
    BY Zenon, <1>3 DEF Held, EndsUp
<1>5. \A d \in Client : d # t => (Held(d)' <=> Held(d))
    BY Zenon DEF Held, OthersStay
<1>6. ASSUME NEW d \in Client
      PROVE  /\ d \in done' \/ Held(d)' => client'[d] \in {"waiting", "returned"}
             /\ client'[d] = "waiting" => d \in done' \/ Held(d)'
             /\ d \in done' => ~Held(d)'
    <2>1. CASE d = t
        BY Zenon, <1>2, <1>4, <2>1
    <2>2. CASE d # t
        BY Zenon, <1>1, <1>5, <2>2 DEF TasksSound, OthersStay
    <2> QED BY Zenon, <2>1, <2>2
<1>7. ASSUME NEW d \in Client, NEW q \in Sched, NEW r \in Sched
      PROVE  /\ d \in m_queue'[q] /\ d \in m_queue'[r] => q = r
             /\ holding'[q] = d /\ holding'[r] = d => q = r
             /\ ~(d \in m_queue'[q] /\ holding'[r] = d)
    <2>1. CASE d = t
        BY Zenon, <1>3, <2>1 DEF EndsUp
    <2>2. CASE d # t
        <3>1. /\ d \in m_queue[q] /\ d \in m_queue[r] => q = r
              /\ holding[q] = d /\ holding[r] = d => q = r
              /\ ~(d \in m_queue[q] /\ holding[r] = d)
            BY Zenon, <1>1 DEF TasksSound
        <3>2. /\ d \in m_queue'[q] <=> d \in m_queue[q]
              /\ d \in m_queue'[r] <=> d \in m_queue[r]
              /\ (holding'[q] = d <=> holding[q] = d) /\ (holding'[r] = d <=> holding[r] = d)
            BY Zenon, <2>2 DEF OthersStay
        <3> QED BY Zenon, <3>1, <3>2
    <2> QED BY Zenon, <2>1, <2>2
<1> QED BY Zenon, <1>6, <1>7 DEF TasksSound

(* A worker goes on in its loop, or drains once it has the stop signal. *)
LEMMA WorkerMoves ==
    ASSUME RuntimeInv, UNCHANGED runtimeVars, UNCHANGED clientVars, UNCHANGED stopVars,
           UNCHANGED running, SchedulersTyped', TasksSound', NEW s \in Sched,
           worker[s] # "none", Up(s) => Up(s)',
           \A r \in Sched : r # s => worker'[r] = worker[r] /\ m_queue'[r] = m_queue[r],
           StopSignal \in m_queue'[s]
               => StopSignal \in m_queue[s] /\ worker'[s] \in {"loop", "run"},
           s = stopAt /\ stopper = "signal" => worker'[s] \in {"loop", "run"},
           s = stopAt /\ stopper = "join" =>
               \/ worker'[s] \in {"loop", "run"} /\ StopSignal \in m_queue'[s]
               \/ worker'[s] \in {"drain", "drainRun"}
               \/ worker'[s] = "exited" /\ m_queue'[s] = {}
    PROVE  RuntimeInv'
<1>1. TypeOK'
    <2>1. CallersTyped
        BY Zenon, RuntimeTypes DEF RuntimeInv
    <2>2. CallersTyped'
        BY Zenon, <2>1 DEF CallersTyped, runtimeVars, clientVars, stopVars
    <2> QED BY Zenon, <2>2, RuntimeTypes
<1>2. ASSUME NEW r \in Sched
      PROVE  /\ (Up(r) => Up(r)') /\ (Down(r) => Down(r)')
             /\ worker[r] = "none" => worker'[r] = "none"
             /\ Down(r) => m_queue'[r] = m_queue[r]
             /\ running[r] => running'[r]
    <2>1. CASE r = s
        BY Zenon, <2>1 DEF Down
    <2>2. CASE r # s
        BY Zenon, <2>2 DEF Up, Down
    <2> QED BY Zenon, <2>1, <2>2
<1>3. CallersSound'
    BY Zenon DEF RuntimeInv, CallersSound, InCall, Starting, runtimeVars, clientVars, stopVars
<1>4. StarterSound' /\ SettledSound'
    <2>1. \A c \in Client : /\ Starting(c)' <=> Starting(c)
                            /\ client'[c] = client[c] /\ at'[c] = at[c]
        BY Zenon DEF Starting, clientVars
    <2> QED BY Zenon, <1>2, <2>1, StartKept, SettledKept DEF runtimeVars, stopVars
<1>5. StopperSound'
    <2>1. StopperSound /\ stopper' = stopper /\ stopAt' = stopAt /\ m_running' = m_running
        BY Zenon DEF RuntimeInv, runtimeVars, stopVars
    <2>2. ASSUME stopper # "idle"
          PROVE  /\ ~m_running'
                 /\ \A r \in Sched : /\ r < stopAt => Up(r)'
                                     /\ r > stopAt => Down(r)' /\ m_queue'[r] = {}
        BY Zenon, <1>2, <2>1, <2>2 DEF StopperSound
    <2>3. stopper = "stopping" => \A r \in Sched : r = stopAt => Up(r)'
        BY Zenon, <1>2, <2>1 DEF StopperSound
    <2>4. stopper \in {"signal", "join"} => stopAt \in Sched /\ ~running'[stopAt]
        BY Zenon, <2>1 DEF StopperSound
    <2>5. stopper = "signal" => worker'[stopAt] \in {"loop", "run"}
        BY Zenon, <2>1, <2>4 DEF StopperSound
    <2>6. stopper = "join" =>
             \/ worker'[stopAt] \in {"loop", "run"} /\ StopSignal \in m_queue'[stopAt]
             \/ worker'[stopAt] \in {"drain", "drainRun"}
             \/ worker'[stopAt] = "exited" /\ m_queue'[stopAt] = {}
        BY Zenon, <2>1, <2>4 DEF StopperSound
    <2>7. ASSUME NEW r \in Sched, StopSignal \in m_queue'[r]
          PROVE  stopper = "join" /\ r = stopAt /\ worker'[r] \in {"loop", "run"}
        BY Zenon, <2>1, <2>7 DEF StopperSound
    <2> QED BY Zenon, <2>1, <2>2, <2>3, <2>4, <2>5, <2>6, <2>7 DEF StopperSound
<1> QED BY Zenon, <1>1, <1>3, <1>4, <1>5 DEF RuntimeInv

(* A worker takes a task to resume, in its loop or while it drains. *)
LEMMA WorkerTakesTask ==
    ASSUME RuntimeInv, UNCHANGED runtimeVars, UNCHANGED clientVars, UNCHANGED stopVars,
           NEW s \in Sched, NEW t \in Client, t \in m_queue[s],
           C!Take(s, t) \/ C!DrainTake(s, t)
    PROVE  RuntimeInv'
<1>1. SchedulersTyped /\ t # StopSignal /\ t # Nothing
    BY Zenon, RuntimeTypes, RuntimeAssumption DEF RuntimeInv
<1>2. PICK w \in {"run", "drainRun"} :
          /\ worker[s] = IF w = "run" THEN "loop" ELSE "drain"
          /\ worker' = [worker EXCEPT ![s] = w] /\ holding' = [holding EXCEPT ![s] = t]
          /\ m_queue' = [m_queue EXCEPT ![s] = @ \ {t}]
          /\ UNCHANGED running /\ UNCHANGED left /\ UNCHANGED done
    <2>1. CASE C!Take(s, t)
        <3>1. /\ worker[s] = "loop"
              /\ worker' = [worker EXCEPT ![s] = "run"] /\ holding' = [holding EXCEPT ![s] = t]
              /\ m_queue' = [m_queue EXCEPT ![s] = @ \ {t}]
              /\ UNCHANGED running /\ UNCHANGED left /\ UNCHANGED done
            BY Zenon, <1>1, <2>1 DEF C!Take, C!Dequeue, C!WorkerGoto, C!Hold
        <3> QED BY Zenon, <3>1
    <2>2. CASE C!DrainTake(s, t)
        <3>1. /\ worker[s] = "drain"
              /\ worker' = [worker EXCEPT ![s] = "drainRun"] /\ holding' = [holding EXCEPT ![s] = t]
              /\ m_queue' = [m_queue EXCEPT ![s] = @ \ {t}]
              /\ UNCHANGED running /\ UNCHANGED left /\ UNCHANGED done
            BY Zenon, <1>1, <2>2 DEF C!DrainTake, C!Dequeue, C!WorkerGoto, C!Hold
        <3> QED BY Zenon, <3>1
    <2> QED BY Zenon, <2>1, <2>2
<1>3. /\ worker' \in [Sched -> Workers] /\ worker'[s] = w
      /\ \A r \in Sched : r # s => worker'[r] = worker[r]
    BY Zenon, <1>1, <1>2 DEF SchedulersTyped, Workers
<1>4. /\ holding' \in [Sched -> Client \union {Nothing}] /\ holding'[s] = t
      /\ \A r \in Sched : r # s => holding'[r] = holding[r]
    BY Zenon, <1>1, <1>2 DEF SchedulersTyped
<1>5. /\ m_queue' \in [Sched -> SUBSET (Client \union {StopSignal})]
      /\ m_queue'[s] = m_queue[s] \ {t}
      /\ \A r \in Sched : r # s => m_queue'[r] = m_queue[r]
    <2>1. m_queue \in [Sched -> SUBSET (Client \union {StopSignal})]
        BY Zenon, <1>1 DEF SchedulersTyped
    <2> QED BY Zenon, <1>2, <2>1
<1>6. worker[s] \in {"loop", "drain"} /\ holding[s] = Nothing
    <2>1. worker[s] \in {"loop", "drain"} /\ worker[s] \notin {"run", "drainRun"}
        BY Zenon, <1>2
    <2> QED BY Zenon, <1>1, <2>1 DEF SchedulersTyped
<1>7. SchedulersTyped'
    <2>1. \A r \in Sched : holding'[r] # Nothing <=> worker'[r] \in {"run", "drainRun"}
        <3>1. \A r \in Sched : holding[r] # Nothing <=> worker[r] \in {"run", "drainRun"}
            BY Zenon, <1>1 DEF SchedulersTyped
        <3> QED BY Zenon, <1>1, <1>3, <1>4, <3>1
    <2> QED BY Zenon, <1>1, <1>2, <1>3, <1>4, <1>5, <2>1 DEF SchedulersTyped
<1>8. TasksSound'
    <2>1. t \notin done'
        <3>1. Held(t)
            BY Zenon DEF Held
        <3> QED BY Zenon, <1>2, <3>1 DEF RuntimeInv, TasksSound
    <2>2. \A d \in Client, r \in Sched : d # t \/ r # s =>
              (d \in m_queue'[r] <=> d \in m_queue[r]) /\ (holding'[r] = d <=> holding[r] = d)
        <3>1. \A d \in Client : d # Nothing
            BY Zenon, RuntimeAssumption
        <3> QED BY Zenon, <1>4, <1>5, <1>6, <3>1
    <2>3. t \notin m_queue'[s] /\ holding'[s] = t
        BY Zenon, <1>4, <1>5
    <2>4. UNCHANGED client /\ OthersStay(t, s) /\ EndsUp(t, s)
        BY Zenon, <1>2, <2>1, <2>2, <2>3 DEF clientVars, OthersStay, EndsUp
    <2> QED BY Zenon, <2>4, OneTaskMoves
<1>9. StopSignal \in m_queue'[s] <=> StopSignal \in m_queue[s]
    BY Zenon, <1>1, <1>5
<1>10. StopperSound
    BY Zenon DEF RuntimeInv
<1>11. worker[s] # "none" /\ (Up(s) => running'[s] /\ worker'[s] \in {"loop", "run"})
    BY Zenon, <1>2, <1>3 DEF Up
<1>12. Up(s) => Up(s)'
    BY Zenon, <1>11 DEF Up
<1>13. StopSignal \in m_queue'[s] => StopSignal \in m_queue[s] /\ worker'[s] \in {"loop", "run"}
    BY Zenon, <1>2, <1>3, <1>9, <1>10 DEF StopperSound
<1>14. s = stopAt /\ stopper = "signal" => worker'[s] \in {"loop", "run"}
    BY Zenon, <1>2, <1>3, <1>10 DEF StopperSound
<1>15. s = stopAt /\ stopper = "join" =>
           \/ worker'[s] \in {"loop", "run"} /\ StopSignal \in m_queue'[s]
           \/ worker'[s] \in {"drain", "drainRun"}
           \/ worker'[s] = "exited" /\ m_queue'[s] = {}
    BY Zenon, <1>2, <1>3, <1>9, <1>10 DEF StopperSound
<1> QED BY Zenon, <1>2, <1>3, <1>5, <1>7, <1>8, <1>11, <1>12, <1>13, <1>14, <1>15, WorkerMoves

(* The worker takes the stop signal, which only the one being joined gets, and drains. *)
LEMMA WorkerTakesStop ==
    ASSUME RuntimeInv, UNCHANGED runtimeVars, UNCHANGED clientVars, UNCHANGED stopVars,
           NEW s \in Sched, StopSignal \in m_queue[s],
           C!Take(s, StopSignal) \/ C!DrainTake(s, StopSignal)
    PROVE  RuntimeInv'
<1>1. SchedulersTyped /\ StopperSound /\ StopSignal \notin Client
    BY Zenon, RuntimeTypes, RuntimeAssumption DEF RuntimeInv
<1>2. /\ stopper = "join" /\ s = stopAt /\ worker[s] \in {"loop", "run"}
      /\ ~running[s] /\ worker[s] # "drain"
    <2>1. stopper = "join" /\ s = stopAt /\ worker[s] \in {"loop", "run"}
        BY Zenon, <1>1 DEF StopperSound
    <2> QED BY Zenon, <1>1, <2>1 DEF StopperSound
<1>3. /\ worker[s] = "loop" /\ worker' = [worker EXCEPT ![s] = "drain"]
      /\ holding' = [holding EXCEPT ![s] = Nothing]
      /\ m_queue' = [m_queue EXCEPT ![s] = @ \ {StopSignal}]
      /\ UNCHANGED running /\ UNCHANGED left /\ UNCHANGED done
    BY Zenon, <1>2 DEF C!Take, C!DrainTake, C!Dequeue, C!WorkerGoto, C!Hold
<1>4. /\ worker' \in [Sched -> Workers] /\ worker'[s] = "drain"
      /\ \A r \in Sched : r # s => worker'[r] = worker[r]
    BY Zenon, <1>1, <1>3 DEF SchedulersTyped, Workers
<1>5. holding[s] = Nothing
    <2>1. worker[s] \notin {"run", "drainRun"}
        BY Zenon, <1>3
    <2> QED BY Zenon, <1>1, <2>1 DEF SchedulersTyped
<1>6. holding' = holding
    BY Zenon, <1>1, <1>3, <1>5 DEF SchedulersTyped
<1>7. /\ m_queue' \in [Sched -> SUBSET (Client \union {StopSignal})]
      /\ m_queue'[s] = m_queue[s] \ {StopSignal}
      /\ \A r \in Sched : r # s => m_queue'[r] = m_queue[r]
    <2>1. m_queue \in [Sched -> SUBSET (Client \union {StopSignal})]
        BY Zenon, <1>1 DEF SchedulersTyped
    <2> QED BY Zenon, <1>3, <2>1
<1>8. SchedulersTyped'
    <2>1. \A r \in Sched : holding'[r] # Nothing <=> worker'[r] \in {"run", "drainRun"}
        <3>1. \A r \in Sched : holding[r] # Nothing <=> worker[r] \in {"run", "drainRun"}
            BY Zenon, <1>1 DEF SchedulersTyped
        <3> QED BY Zenon, <1>4, <1>5, <1>6, <3>1
    <2> QED BY Zenon, <1>1, <1>3, <1>4, <1>6, <1>7, <2>1 DEF SchedulersTyped
<1>9. TasksSound'
    <2>1. \A c \in Client, r \in Sched : c \in m_queue'[r] <=> c \in m_queue[r]
        BY Zenon, <1>1, <1>7
    <2>2. \A c \in Client : Held(c)' <=> Held(c)
        BY Zenon, <1>6, <2>1 DEF Held
    <2>3. TasksSound /\ client' = client
        BY Zenon DEF RuntimeInv, clientVars
    <2> QED BY Zenon, <1>3, <1>6, <2>1, <2>2, <2>3 DEF TasksSound
<1>10. worker[s] # "none" /\ ~Up(s) /\ StopSignal \notin m_queue'[s] /\ stopper # "signal"
    BY Zenon, <1>2, <1>3, <1>7 DEF Up
<1>11. /\ Up(s) => Up(s)'
       /\ StopSignal \in m_queue'[s] => StopSignal \in m_queue[s] /\ worker'[s] \in {"loop", "run"}
       /\ s = stopAt /\ stopper = "signal" => worker'[s] \in {"loop", "run"}
       /\ s = stopAt /\ stopper = "join" =>
           \/ worker'[s] \in {"loop", "run"} /\ StopSignal \in m_queue'[s]
           \/ worker'[s] \in {"drain", "drainRun"}
           \/ worker'[s] = "exited" /\ m_queue'[s] = {}
    BY Zenon, <1>4, <1>10
<1> QED BY Zenon, <1>3, <1>4, <1>7, <1>8, <1>9, <1>10, <1>11, WorkerMoves

(* try_dequeue finds nothing more to drain. *)
LEMMA DrainEndsSound ==
    ASSUME RuntimeInv, UNCHANGED runtimeVars, UNCHANGED clientVars, UNCHANGED stopVars,
           NEW s \in Sched, C!DrainEnds(s)
    PROVE  RuntimeInv'
<1>1. SchedulersTyped /\ StopperSound
    BY Zenon, RuntimeTypes DEF RuntimeInv
<1>2. /\ worker[s] = "drain" /\ m_queue[s] = {} /\ worker' = [worker EXCEPT ![s] = "exited"]
      /\ UNCHANGED holding /\ UNCHANGED m_queue /\ UNCHANGED running /\ UNCHANGED left
      /\ UNCHANGED done
    BY Zenon DEF C!DrainEnds, C!WorkerGoto
<1>3. /\ worker' \in [Sched -> Workers] /\ worker'[s] = "exited"
      /\ \A r \in Sched : r # s => worker'[r] = worker[r]
    BY Zenon, <1>1, <1>2 DEF SchedulersTyped, Workers
<1>4. SchedulersTyped'
    <2>1. \A r \in Sched : holding'[r] # Nothing <=> worker'[r] \in {"run", "drainRun"}
        <3>1. \A r \in Sched : holding[r] # Nothing <=> worker[r] \in {"run", "drainRun"}
            BY Zenon, <1>1 DEF SchedulersTyped
        <3> QED BY Zenon, <1>2, <1>3, <3>1
    <2> QED BY Zenon, <1>1, <1>2, <1>3, <2>1 DEF SchedulersTyped
<1>5. TasksSound'
    BY Zenon, <1>2, TasksKept DEF clientVars
<1>6. /\ worker[s] # "none" /\ ~Up(s) /\ ~(s = stopAt /\ stopper = "signal")
      /\ StopSignal \notin m_queue'[s]
    BY Zenon, <1>1, <1>2 DEF Up, StopperSound
<1>7. /\ Up(s) => Up(s)'
      /\ StopSignal \in m_queue'[s] => StopSignal \in m_queue[s] /\ worker'[s] \in {"loop", "run"}
      /\ s = stopAt /\ stopper = "signal" => worker'[s] \in {"loop", "run"}
      /\ s = stopAt /\ stopper = "join" =>
          \/ worker'[s] \in {"loop", "run"} /\ StopSignal \in m_queue'[s]
          \/ worker'[s] \in {"drain", "drainRun"}
          \/ worker'[s] = "exited" /\ m_queue'[s] = {}
    BY Zenon, <1>2, <1>3, <1>6
<1> QED BY Zenon, <1>2, <1>3, <1>4, <1>5, <1>6, <1>7, WorkerMoves

(* A resumed task yields, which schedules it again, or ends. *)
LEMMA RunSound ==
    ASSUME RuntimeInv, UNCHANGED runtimeVars, UNCHANGED clientVars, UNCHANGED stopVars,
           NEW s \in Sched, C!Run(s)
    PROVE  RuntimeInv'
<1> DEFINE t == holding[s]
           w == IF worker[s] = "run" THEN "loop" ELSE "drain"
<1>1. SchedulersTyped /\ StopperSound /\ \A c \in Client : c # StopSignal /\ c # Nothing
    BY Zenon, RuntimeTypes, RuntimeAssumption DEF RuntimeInv
<1>2. /\ worker[s] \in {"run", "drainRun"} /\ worker' = [worker EXCEPT ![s] = w]
      /\ holding' = [holding EXCEPT ![s] = Nothing] /\ UNCHANGED running
      /\ C!Yield(s, t) \/ C!End(s, t)
    BY Zenon DEF C!Run, C!WorkerGoto, C!Hold
<1>3. t \in Client
    BY Zenon, <1>1, <1>2 DEF SchedulersTyped
<1>4. w \in Workers /\ w \in {"loop", "drain"} /\ (w = "loop" <=> worker[s] = "run")
    BY Zenon DEF Workers
<1> HIDE DEF w
<1>5. /\ worker' \in [Sched -> Workers] /\ worker'[s] = w
      /\ \A r \in Sched : r # s => worker'[r] = worker[r]
    BY Zenon, <1>1, <1>2, <1>4 DEF SchedulersTyped
<1>6. /\ holding' \in [Sched -> Client \union {Nothing}] /\ holding'[s] = Nothing
      /\ \A r \in Sched : r # s => holding'[r] = holding[r]
    BY Zenon, <1>1, <1>2 DEF SchedulersTyped
<1>7. t \notin m_queue[s] /\ t \notin done
    <2>1. Held(t)
        BY Zenon DEF Held
    <2>2. TasksSound
        BY Zenon DEF RuntimeInv
    <2> QED BY Zenon, <1>3, <2>1, <2>2 DEF TasksSound
<1>8. /\ m_queue' \in [Sched -> SUBSET (Client \union {StopSignal})]
      /\ left' \in [Client -> 0..Yields] /\ done' \subseteq Client
      /\ \A r \in Sched : r # s => m_queue'[r] = m_queue[r]
      /\ \/ m_queue'[s] = m_queue[s] \union {t} /\ done' = done
         \/ m_queue'[s] = m_queue[s] /\ done' = done \union {t}
    <2>1. /\ m_queue \in [Sched -> SUBSET (Client \union {StopSignal})]
          /\ left \in [Client -> 0..Yields] /\ done \subseteq Client /\ Yields \in Nat
        BY Zenon, <1>1, RuntimeAssumption DEF SchedulersTyped
    <2> HIDE DEF t
    <2>2. CASE C!Yield(s, t)
        <3>1. /\ left[t] > 0 /\ left' = [left EXCEPT ![t] = left[t] - 1]
              /\ m_queue' = [m_queue EXCEPT ![s] = m_queue[s] \union {t}] /\ done' = done
            BY Zenon, <1>3, <2>1, <2>2 DEF C!Yield, C!Enqueue
        <3>2. left[t] - 1 \in 0..Yields
            BY <1>3, <2>1, <3>1
        <3>3. left' \in [Client -> 0..Yields]
            BY Zenon, <1>3, <2>1, <3>1, <3>2
        <3> QED BY Zenon, <1>3, <2>1, <3>1, <3>3
    <2>3. CASE C!End(s, t)
        BY Zenon, <1>3, <2>1, <2>3 DEF C!End
    <2> QED BY Zenon, <1>2, <2>2, <2>3
<1>9. SchedulersTyped'
    <2>1. \A r \in Sched : holding'[r] # Nothing <=> worker'[r] \in {"run", "drainRun"}
        <3>1. \A r \in Sched : holding[r] # Nothing <=> worker[r] \in {"run", "drainRun"}
            BY Zenon, <1>1 DEF SchedulersTyped
        <3> QED BY Zenon, <1>4, <1>5, <1>6, <3>1
    <2>2. running' \in [Sched -> BOOLEAN]
        BY Zenon, <1>1, <1>2 DEF SchedulersTyped
    <2> QED BY Zenon, <1>5, <1>6, <1>8, <2>1, <2>2 DEF SchedulersTyped
<1>10. TasksSound'
    <2>1. PICK c \in Client : c = t
        BY Zenon, <1>3
    <2>2. OthersStay(c, s)
        <3>1. \A d \in Client, r \in Sched : d # c \/ r # s =>
                (d \in m_queue'[r] <=> d \in m_queue[r]) /\ (holding'[r] = d <=> holding[r] = d)
            BY Zenon, <1>1, <1>6, <1>8, <2>1
        <3>2. \A d \in Client : d # c => (d \in done' <=> d \in done)
            BY Zenon, <1>8, <2>1
        <3> QED BY Zenon, <3>1, <3>2 DEF OthersStay
    <2>3. EndsUp(c, s)
        BY Zenon, <1>1, <1>6, <1>7, <1>8, <2>1 DEF EndsUp
    <2>4. holding[s] = c /\ UNCHANGED client
        BY Zenon, <2>1 DEF clientVars
    <2> QED BY Zenon, <2>2, <2>3, <2>4, OneTaskMoves
<1>11. StopSignal \in m_queue'[s] <=> StopSignal \in m_queue[s]
    BY Zenon, <1>1, <1>3, <1>8
<1>12. /\ worker[s] # "none"
       /\ Up(s) => running'[s] /\ worker'[s] \in {"loop", "run"}
       /\ StopSignal \in m_queue'[s] => StopSignal \in m_queue[s] /\ worker'[s] \in {"loop", "run"}
       /\ s = stopAt /\ stopper = "signal" => worker'[s] \in {"loop", "run"}
    BY Zenon, <1>1, <1>2, <1>4, <1>5, <1>11 DEF Up, StopperSound
<1>13. Up(s) => Up(s)'
    BY Zenon, <1>12 DEF Up
<1>14. s = stopAt /\ stopper = "join" =>
           \/ worker'[s] \in {"loop", "run"} /\ StopSignal \in m_queue'[s]
           \/ worker'[s] \in {"drain", "drainRun"}
           \/ worker'[s] = "exited" /\ m_queue'[s] = {}
    BY Zenon, <1>1, <1>2, <1>4, <1>5, <1>11 DEF StopperSound
<1> QED BY Zenon, <1>2, <1>5, <1>8, <1>9, <1>10, <1>12, <1>13, <1>14, WorkerMoves

(* Every step of a worker. *)
LEMMA WorkerSound ==
    ASSUME RuntimeInv, NEW s \in Sched, Worker(s)
    PROVE  RuntimeInv'
<1>1. UNCHANGED runtimeVars /\ UNCHANGED clientVars /\ UNCHANGED stopVars
    BY Zenon DEF Worker
<1>2. ASSUME NEW item \in m_queue[s], C!Take(s, item) \/ C!DrainTake(s, item)
      PROVE  RuntimeInv'
    <2>1. item \in Client \/ item = StopSignal
        <3>1. SchedulersTyped
            BY Zenon, RuntimeTypes DEF RuntimeInv
        <3> QED BY Zenon, <3>1 DEF SchedulersTyped
    <2> QED BY Zenon, <1>1, <1>2, <2>1, WorkerTakesTask, WorkerTakesStop
<1> QED BY Zenon, <1>1, <1>2, DrainEndsSound, RunSound DEF Worker, C!WorkerStep

(* A step of stop(), which no call overlaps. *)
LEMMA StopperMoves ==
    ASSUME RuntimeInv, \A c \in Client : ~InCall(c), UNCHANGED clientVars, ~m_running',
           m_compute_schedulers' = Count, CallersTyped', SchedulersTyped', TasksSound',
           StopperSound', stopper' = "idle" => \A s \in Sched : Down(s)' /\ m_queue'[s] = {}
    PROVE  RuntimeInv'
<1>1. TypeOK'
    BY Zenon, RuntimeTypes
<1>2. \A c \in Client : /\ ~InCall(c)' /\ ~Starting(c)'
                        /\ client'[c] \notin {"create", "push", "launch", "thread"}
    <2>1. \A c \in Client : /\ ~InCall(c) /\ ~Starting(c)
                            /\ client[c] \notin {"create", "push", "launch", "thread"}
        BY Zenon DEF InCall, Starting
    <2> QED BY Zenon, <2>1 DEF InCall, Starting, clientVars
<1>3. CallersSound'
    BY Zenon, <1>2 DEF CallersSound
<1>4. StarterSound'
    BY Zenon, <1>2 DEF StarterSound
<1>5. SettledSound'
    BY Zenon DEF SettledSound
<1> QED BY Zenon, <1>1, <1>3, <1>4, <1>5 DEF RuntimeInv

(* What holds all through stop(). *)
LEMMA WhileStopping ==
    ASSUME RuntimeInv, stopper # "idle"
    PROVE  /\ \A c \in Client : ~InCall(c)
           /\ ~m_running /\ m_compute_schedulers = Count
           /\ CallersTyped /\ SchedulersTyped /\ StopperSound
           /\ \A s \in Sched : /\ s < stopAt => Up(s)
                               /\ s > stopAt => Down(s) /\ m_queue[s] = {}
           /\ Count \in Nat \ {0} /\ stopAt \in 0..Count
<1>1. CallersTyped /\ SchedulersTyped /\ StopperSound /\ CallersSound /\ SettledSound
    BY Zenon, RuntimeTypes DEF RuntimeInv
<1>2. \A c \in Client : ~InCall(c)
    BY Zenon, <1>1 DEF CallersSound
<1>3. \A c \in Client : ~Starting(c)
    BY Zenon, <1>2 DEF InCall, Starting
<1>4. m_compute_schedulers = Count
    BY Zenon, <1>1, <1>3 DEF SettledSound
<1>5. ~m_running /\ \A s \in Sched : /\ s < stopAt => Up(s)
                                     /\ s > stopAt => Down(s) /\ m_queue[s] = {}
    BY Zenon, <1>1 DEF StopperSound
<1>6. Count \in Nat \ {0} /\ stopAt \in 0..Count
    BY Zenon, <1>1, RuntimeAssumption DEF CallersTyped
<1> QED BY Zenon, <1>1, <1>2, <1>4, <1>5, <1>6

(* The exchange of stop(). *)
LEMMA StopSound ==
    ASSUME ~StopDuringCalls, RuntimeInv, Stop
    PROVE  RuntimeInv'
<1>1. /\ stopper = "idle" /\ m_running /\ \A c \in Client : ~InCall(c)
      /\ m_running' = FALSE /\ stopper' = "stopping" /\ stopAt' = m_compute_schedulers
      /\ UNCHANGED m_compute_schedulers /\ UNCHANGED m_compute_index
      /\ UNCHANGED clientVars /\ UNCHANGED schedulerVars
    BY Zenon DEF Stop
<1>2. CallersTyped /\ SchedulersTyped /\ SettledSound /\ StopperSound
    BY Zenon, RuntimeTypes DEF RuntimeInv
<1>3. \A c \in Client : ~Starting(c)
    BY Zenon, <1>1 DEF InCall, Starting
<1>4. m_compute_schedulers = Count /\ \A s \in Sched : Up(s)
    BY Zenon, <1>1, <1>2, <1>3 DEF SettledSound
<1>5. CallersTyped' /\ SchedulersTyped' /\ TasksSound'
    <2>1. CallersTyped'
        BY ZenonT(60), <1>1, <1>2 DEF CallersTyped, clientVars
    <2>2. SchedulersTyped'
        BY Zenon, <1>1, <1>2 DEF SchedulersTyped, schedulerVars
    <2>3. TasksSound'
        BY Zenon, <1>1, TasksKept DEF clientVars, schedulerVars
    <2> QED BY Zenon, <2>1, <2>2, <2>3
<1>6. \A s \in Sched : /\ Up(s)' /\ ~(s > stopAt') /\ StopSignal \notin m_queue'[s]
    <2>1. \A s \in Sched : StopSignal \notin m_queue[s]
        BY Zenon, <1>1, <1>2 DEF StopperSound
    <2>2. \A s \in Sched : ~(s > stopAt')
        BY <1>1, <1>4, RuntimeAssumption DEF Sched
    <2> QED BY Zenon, <1>1, <1>4, <2>1, <2>2 DEF Up, schedulerVars
<1>7. StopperSound'
    <2>1. stopper' # "signal" /\ stopper' # "join" /\ ~m_running'
        BY Zenon, <1>1
    <2> QED BY Zenon, <1>1, <1>6, <2>1 DEF StopperSound
<1>8. stopper' # "idle" /\ ~m_running'
    BY Zenon, <1>1
<1> QED BY Zenon, <1>1, <1>4, <1>5, <1>7, <1>8, StopperMoves

(* The exchange of a scheduler's stop(), which finds it running. *)
LEMMA StopSchedulerSound ==
    ASSUME RuntimeInv, StopScheduler
    PROVE  RuntimeInv'
<1>1. stopper = "stopping" /\ stopAt > 0 /\ UNCHANGED runtimeVars /\ UNCHANGED clientVars
    BY Zenon DEF StopScheduler
<1>2. /\ \A c \in Client : ~InCall(c)
      /\ ~m_running /\ m_compute_schedulers = Count
      /\ CallersTyped /\ SchedulersTyped /\ StopperSound
      /\ \A s \in Sched : /\ s < stopAt => Up(s)
                          /\ s > stopAt => Down(s) /\ m_queue[s] = {}
      /\ Count \in Nat \ {0} /\ stopAt \in 0..Count
    <2>1. stopper # "idle"
        BY Zenon, <1>1
    <2> QED BY Zenon, <2>1, WhileStopping
<1>3. stopAt \in Sched /\ Up(stopAt) /\ running[stopAt]
    <2>1. stopAt \in Sched
        BY <1>1, <1>2 DEF Sched
    <2> QED BY Zenon, <1>1, <1>2, <2>1 DEF StopperSound, Up
<1>4. /\ running' = [running EXCEPT ![stopAt] = FALSE] /\ stopper' = "signal" /\ UNCHANGED stopAt
      /\ UNCHANGED m_queue /\ UNCHANGED worker /\ UNCHANGED holding /\ UNCHANGED left
      /\ UNCHANGED done
    BY Zenon, <1>3 DEF StopScheduler, C!Stop
<1>5. /\ running' \in [Sched -> BOOLEAN] /\ ~running'[stopAt]
      /\ \A s \in Sched : s # stopAt => running'[s] = running[s]
    BY Zenon, <1>2, <1>3, <1>4 DEF SchedulersTyped
<1>6. CallersTyped' /\ SchedulersTyped' /\ TasksSound'
    <2>1. CallersTyped'
        BY Zenon, <1>1, <1>2, <1>4 DEF CallersTyped, clientVars, runtimeVars
    <2>2. SchedulersTyped'
        BY Zenon, <1>2, <1>4, <1>5 DEF SchedulersTyped
    <2>3. TasksSound'
        BY Zenon, <1>1, <1>4, TasksKept DEF clientVars
    <2> QED BY Zenon, <2>1, <2>2, <2>3
<1>7. \A s \in Sched : /\ s < stopAt => Up(s)'
                       /\ s > stopAt => Down(s)' /\ m_queue'[s] = {}
                       /\ StopSignal \notin m_queue'[s]
    <2>1. \A s \in Sched : s < stopAt \/ s > stopAt => s # stopAt
        BY <1>2 DEF Sched
    <2>2. \A s \in Sched : StopSignal \notin m_queue[s]
        BY Zenon, <1>1, <1>2 DEF StopperSound
    <2> QED BY Zenon, <1>2, <1>4, <1>5, <2>1, <2>2 DEF Up, Down
<1>8. StopperSound'
    <2>1. /\ stopper' # "stopping" /\ stopper' # "join" /\ ~m_running' /\ stopAt' = stopAt
          /\ worker'[stopAt] \in {"loop", "run"}
        BY Zenon, <1>1, <1>2, <1>3, <1>4 DEF runtimeVars, Up
    <2> QED BY Zenon, <1>3, <1>4, <1>5, <1>7, <2>1 DEF StopperSound
<1>9. stopper' # "idle" /\ ~m_running' /\ m_compute_schedulers' = Count
    BY Zenon, <1>1, <1>2, <1>4 DEF runtimeVars
<1> QED BY Zenon, <1>1, <1>2, <1>6, <1>8, <1>9, StopperMoves

(* The stop signal goes into the queue of the scheduler being stopped. *)
LEMMA SignalSound ==
    ASSUME RuntimeInv, SignalScheduler
    PROVE  RuntimeInv'
<1>1. /\ stopper = "signal" /\ stopper' = "join" /\ UNCHANGED stopAt
      /\ UNCHANGED runtimeVars /\ UNCHANGED clientVars
      /\ m_queue' = [m_queue EXCEPT ![stopAt] = @ \union {StopSignal}]
      /\ UNCHANGED running /\ UNCHANGED worker /\ UNCHANGED holding /\ UNCHANGED left
      /\ UNCHANGED done
    BY Zenon DEF SignalScheduler, C!SendStop, C!Enqueue
<1>2. /\ \A c \in Client : ~InCall(c)
      /\ ~m_running /\ m_compute_schedulers = Count
      /\ CallersTyped /\ SchedulersTyped /\ StopperSound
      /\ \A s \in Sched : /\ s < stopAt => Up(s)
                          /\ s > stopAt => Down(s) /\ m_queue[s] = {}
      /\ Count \in Nat \ {0} /\ stopAt \in 0..Count
    <2>1. stopper # "idle"
        BY Zenon, <1>1
    <2> QED BY Zenon, <2>1, WhileStopping
<1>3. stopAt \in Sched /\ ~running[stopAt] /\ worker[stopAt] \in {"loop", "run"}
    BY Zenon, <1>1, <1>2 DEF StopperSound
<1>4. /\ m_queue' \in [Sched -> SUBSET (Client \union {StopSignal})]
      /\ m_queue'[stopAt] = m_queue[stopAt] \union {StopSignal}
      /\ \A s \in Sched : s # stopAt => m_queue'[s] = m_queue[s]
    <2>1. m_queue \in [Sched -> SUBSET (Client \union {StopSignal})]
        BY Zenon, <1>2 DEF SchedulersTyped
    <2> QED BY Zenon, <1>1, <1>3, <2>1
<1>5. CallersTyped' /\ SchedulersTyped' /\ TasksSound'
    <2>1. CallersTyped'
        BY Zenon, <1>1, <1>2 DEF CallersTyped, clientVars, runtimeVars
    <2>2. SchedulersTyped'
        BY Zenon, <1>1, <1>2, <1>4 DEF SchedulersTyped
    <2>3. \A c \in Client, s \in Sched : c \in m_queue'[s] <=> c \in m_queue[s]
        BY Zenon, <1>4, RuntimeAssumption
    <2>4. \A c \in Client : Held(c)' <=> Held(c)
        BY Zenon, <1>1, <2>3 DEF Held
    <2>5. TasksSound /\ client' = client
        BY Zenon, <1>1 DEF RuntimeInv, clientVars
    <2>6. TasksSound'
        BY Zenon, <1>1, <2>3, <2>4, <2>5 DEF TasksSound
    <2> QED BY Zenon, <2>1, <2>2, <2>6
<1>6. \A s \in Sched : /\ s < stopAt => Up(s)'
                       /\ s > stopAt => Down(s)' /\ m_queue'[s] = {}
                       /\ StopSignal \in m_queue'[s] => s = stopAt
    <2>1. \A s \in Sched : s > stopAt => s # stopAt
        BY <1>2 DEF Sched
    <2>2. \A s \in Sched : StopSignal \notin m_queue[s]
        BY Zenon, <1>1, <1>2 DEF StopperSound
    <2> QED BY Zenon, <1>1, <1>2, <1>4, <2>1, <2>2 DEF Up, Down
<1>7. StopperSound'
    <2>1. /\ stopper' # "stopping" /\ stopper' # "signal" /\ ~m_running' /\ stopAt' = stopAt
          /\ worker'[stopAt] \in {"loop", "run"} /\ ~running'[stopAt]
          /\ StopSignal \in m_queue'[stopAt]
        BY Zenon, <1>1, <1>2, <1>3, <1>4 DEF runtimeVars
    <2>2. \A s \in Sched : StopSignal \in m_queue'[s] =>
              stopper' = "join" /\ s = stopAt' /\ worker'[s] \in {"loop", "run"}
        BY Zenon, <1>1, <1>6, <2>1
    <2> QED BY Zenon, <1>3, <1>6, <2>1, <2>2 DEF StopperSound
<1>8. stopper' # "idle" /\ ~m_running' /\ m_compute_schedulers' = Count
    BY Zenon, <1>1, <1>2 DEF runtimeVars
<1> QED BY Zenon, <1>1, <1>2, <1>5, <1>7, <1>8, StopperMoves

(* A worker that has exited left an empty queue, and stop() goes on to the scheduler before. *)
LEMMA JoinSchedulerSound ==
    ASSUME RuntimeInv, JoinScheduler
    PROVE  RuntimeInv'
<1>1. /\ stopper = "join" /\ stopper' = "stopping" /\ stopAt' = stopAt - 1
      /\ UNCHANGED runtimeVars /\ UNCHANGED clientVars /\ worker[stopAt] = "exited"
      /\ worker' = [worker EXCEPT ![stopAt] = "none"]
      /\ UNCHANGED running /\ UNCHANGED m_queue /\ UNCHANGED holding /\ UNCHANGED left
      /\ UNCHANGED done
    BY Zenon DEF JoinScheduler, C!Join, C!WorkerGoto
<1>2. /\ \A c \in Client : ~InCall(c)
      /\ ~m_running /\ m_compute_schedulers = Count
      /\ CallersTyped /\ SchedulersTyped /\ StopperSound
      /\ \A s \in Sched : /\ s < stopAt => Up(s)
                          /\ s > stopAt => Down(s) /\ m_queue[s] = {}
      /\ Count \in Nat \ {0} /\ stopAt \in 0..Count
    <2>1. stopper # "idle"
        BY Zenon, <1>1
    <2> QED BY Zenon, <2>1, WhileStopping
<1>3. stopAt \in Sched /\ ~running[stopAt] /\ m_queue[stopAt] = {}
    <2>1. stopAt \in Sched /\ ~running[stopAt]
        BY Zenon, <1>1, <1>2 DEF StopperSound
    <2> QED BY Zenon, <1>1, <1>2, <2>1 DEF StopperSound
<1>4. /\ worker' \in [Sched -> Workers] /\ worker'[stopAt] = "none"
      /\ \A s \in Sched : s # stopAt => worker'[s] = worker[s]
    BY Zenon, <1>1, <1>2, <1>3 DEF SchedulersTyped, Workers
<1>5. CallersTyped' /\ SchedulersTyped' /\ TasksSound'
    <2>1. CallersTyped'
        <3>1. stopAt' \in 0..Count
            BY <1>1, <1>2, <1>3 DEF Sched
        <3> QED BY Zenon, <1>1, <1>2, <3>1 DEF CallersTyped, clientVars, runtimeVars
    <2>2. \A s \in Sched : holding'[s] # Nothing <=> worker'[s] \in {"run", "drainRun"}
        <3>1. \A s \in Sched : holding[s] # Nothing <=> worker[s] \in {"run", "drainRun"}
            BY Zenon, <1>2 DEF SchedulersTyped
        <3> QED BY Zenon, <1>1, <1>4, <3>1
    <2>3. SchedulersTyped'
        BY Zenon, <1>1, <1>2, <1>4, <2>2 DEF SchedulersTyped
    <2>4. TasksSound'
        BY Zenon, <1>1, TasksKept DEF clientVars
    <2> QED BY Zenon, <2>1, <2>3, <2>4
<1>6. \A s \in Sched : /\ s < stopAt' \/ s = stopAt' => Up(s)'
                       /\ s > stopAt' => Down(s)' /\ m_queue'[s] = {}
    <2>1. \A s \in Sched : /\ s < stopAt' \/ s = stopAt' => s < stopAt /\ s # stopAt
                           /\ s > stopAt' => s = stopAt \/ s > stopAt
        BY <1>1, <1>2 DEF Sched
    <2>2. \A s \in Sched : s = stopAt => Down(s)' /\ m_queue'[s] = {}
        BY Zenon, <1>1, <1>3, <1>4 DEF Down
    <2>3. \A s \in Sched : s # stopAt => (Up(s)' <=> Up(s)) /\ (Down(s)' <=> Down(s))
        BY Zenon, <1>1, <1>4 DEF Up, Down
    <2>4. \A s \in Sched : m_queue'[s] = m_queue[s]
        BY Zenon, <1>1
    <2>5. ASSUME NEW s \in Sched, s < stopAt' \/ s = stopAt'
          PROVE  Up(s)'
        BY Zenon, <1>2, <2>1, <2>3, <2>5
    <2>6. ASSUME NEW s \in Sched, s > stopAt'
          PROVE  Down(s)' /\ m_queue'[s] = {}
        <3>1. CASE s = stopAt
            BY Zenon, <2>2, <3>1
        <3>2. CASE s # stopAt
            BY Zenon, <1>2, <2>1, <2>3, <2>4, <2>6, <3>2
        <3> QED BY Zenon, <3>1, <3>2
    <2> QED BY Zenon, <2>5, <2>6
<1>7. StopperSound'
    <2>1. /\ stopper' # "signal" /\ stopper' # "join" /\ ~m_running'
          /\ \A s \in Sched : StopSignal \notin m_queue'[s]
        BY Zenon, <1>1, <1>2, <1>3 DEF runtimeVars, StopperSound
    <2> QED BY Zenon, <1>1, <1>6, <2>1 DEF StopperSound
<1>8. stopper' # "idle" /\ ~m_running' /\ m_compute_schedulers' = Count
    BY Zenon, <1>1, <1>2 DEF runtimeVars
<1> QED BY Zenon, <1>1, <1>2, <1>5, <1>7, <1>8, StopperMoves

(* stop() returns with every scheduler ended and every queue empty. *)
LEMMA StopReturnsSound ==
    ASSUME RuntimeInv, StopReturns
    PROVE  RuntimeInv'
<1>1. /\ stopper = "stopping" /\ stopper' = "idle" /\ stopAt = 0 /\ UNCHANGED stopAt
      /\ UNCHANGED runtimeVars /\ UNCHANGED clientVars /\ UNCHANGED schedulerVars
    BY Zenon DEF StopReturns
<1>2. /\ \A c \in Client : ~InCall(c)
      /\ ~m_running /\ m_compute_schedulers = Count
      /\ CallersTyped /\ SchedulersTyped /\ StopperSound
      /\ \A s \in Sched : /\ s < stopAt => Up(s)
                          /\ s > stopAt => Down(s) /\ m_queue[s] = {}
      /\ Count \in Nat \ {0} /\ stopAt \in 0..Count
    <2>1. stopper # "idle"
        BY Zenon, <1>1
    <2> QED BY Zenon, <2>1, WhileStopping
<1>3. CallersTyped' /\ SchedulersTyped' /\ TasksSound'
    <2>1. CallersTyped'
        BY Zenon, <1>1, <1>2 DEF CallersTyped, clientVars, runtimeVars
    <2>2. SchedulersTyped'
        BY Zenon, <1>1, <1>2 DEF SchedulersTyped, schedulerVars
    <2>3. TasksSound'
        BY Zenon, <1>1, TasksKept DEF clientVars, schedulerVars
    <2> QED BY Zenon, <2>1, <2>2, <2>3
<1>4. \A s \in Sched : Down(s)' /\ m_queue'[s] = {} /\ StopSignal \notin m_queue'[s]
    <2>1. \A s \in Sched : s > stopAt
        BY <1>1 DEF Sched
    <2>2. \A s \in Sched : Down(s) /\ m_queue[s] = {}
        BY Zenon, <1>2, <2>1
    <2> QED BY Zenon, <1>1, <2>2 DEF Down, schedulerVars
<1>5. StopperSound'
    <2>1. stopper' # "stopping" /\ stopper' # "signal" /\ stopper' # "join"
        BY Zenon, <1>1
    <2> QED BY Zenon, <1>1, <1>4, <2>1 DEF StopperSound
<1> QED BY Zenon, <1>1, <1>2, <1>3, <1>4, <1>5, StopperMoves DEF runtimeVars

(* Nothing runs before the first call. *)
LEMMA RuntimeInit == Init => RuntimeInv
<1> SUFFICES ASSUME Init PROVE RuntimeInv
    OBVIOUS
<1>1. /\ m_running = FALSE /\ m_compute_schedulers \in {0, Count} /\ m_compute_index = 0
      /\ client = [c \in Client |-> "idle"] /\ at = [c \in Client |-> 1]
      /\ stopper = "idle" /\ stopAt = 0
      /\ running = [s \in Sched |-> FALSE] /\ m_queue = [s \in Sched |-> {}]
      /\ worker = [s \in Sched |-> "none"] /\ holding = [s \in Sched |-> Nothing]
      /\ left = [c \in Client |-> Yields] /\ done = {}
    BY Zenon DEF Init, C!Init
<1>2. /\ \A c \in Client : client[c] = "idle" /\ ~InCall(c) /\ ~Starting(c)
      /\ \A s \in Sched : /\ Down(s) /\ m_queue[s] = {} /\ StopSignal \notin m_queue[s]
                          /\ \A c \in Client : holding[s] # c
    BY Zenon, <1>1, RuntimeAssumption DEF InCall, Starting, Down
<1>3. TypeOK
    <2>1. CallersTyped
        <3>1. 1 \in Sched /\ 0 \in 0..(IndexRange - 1) /\ 0 \in 0..Count /\ Count \in 0..Count
            BY RuntimeAssumption DEF Sched
        <3>2. client \in [Client -> Stages] /\ at \in [Client -> Sched]
            BY Zenon, <1>1, <3>1 DEF Stages
        <3> QED BY Zenon, <1>1, <3>1, <3>2 DEF CallersTyped
    <2>2. \A s \in Sched : holding[s] # Nothing <=> worker[s] \in {"run", "drainRun"}
        BY Zenon, <1>1
    <2>3. left \in [Client -> 0..Yields]
        BY <1>1, RuntimeAssumption
    <2>4. SchedulersTyped
        BY Zenon, <1>1, <2>2, <2>3 DEF SchedulersTyped, Workers
    <2> QED BY Zenon, <2>1, <2>4, RuntimeTypes
<1>4. CallersSound
    BY Zenon, <1>2 DEF CallersSound
<1>5. StarterSound
    BY Zenon, <1>2 DEF StarterSound, Starting
<1>6. SettledSound
    BY Zenon, <1>1, <1>2 DEF SettledSound
<1>7. StopperSound
    <2>1. stopper # "stopping" /\ stopper # "signal" /\ stopper # "join"
        BY Zenon, <1>1
    <2> QED BY Zenon, <1>1, <1>2, <2>1 DEF StopperSound
<1>8. TasksSound
    <2>1. \A c \in Client : ~Held(c) /\ c \notin done /\ client[c] # "waiting"
        BY Zenon, <1>1, <1>2 DEF Held
    <2> QED BY Zenon, <1>2, <2>1 DEF TasksSound, Held
<1> QED BY Zenon, <1>3, <1>4, <1>5, <1>6, <1>7, <1>8 DEF RuntimeInv

(* Every step of the runtime keeps the invariant, when no call overlaps stop(). *)
LEMMA RuntimeNext ==
    ASSUME ~StopDuringCalls, RuntimeInv, [Next]_vars
    PROVE  RuntimeInv'
<1>1. ASSUME NEW c \in Client, ClientStep(c)
      PROVE  RuntimeInv'
    BY Zenon, <1>1, EnsureStartedSound, StartExchangeSound, TestEmptySound, PushSound,
       LaunchSound, LaunchThreadSound, AcquireSound, SubmitSound, JoinedSound DEF ClientStep
<1>2. CASE StopStep
    BY Zenon, <1>2, StopSchedulerSound, SignalSound, JoinSchedulerSound, StopReturnsSound
       DEF StopStep
<1>3. CASE UNCHANGED vars
    <2>1. /\ UNCHANGED runtimeVars /\ UNCHANGED clientVars /\ UNCHANGED stopVars
          /\ UNCHANGED schedulerVars
        BY Zenon, <1>3 DEF vars
    <2>2. SchedulersTyped' /\ CallersTyped /\ StopperSound' /\ TasksSound'
        BY Zenon, <2>1, CallKeeps DEF runtimeVars, clientVars
    <2>3. TypeOK'
        <3>1. CallersTyped'
            BY Zenon, <2>1, <2>2 DEF CallersTyped, runtimeVars, clientVars, stopVars
        <3> QED BY Zenon, <2>2, <3>1, RuntimeTypes
    <2>4. CallersSound'
        BY Zenon, <2>1 DEF RuntimeInv, CallersSound, InCall, Starting, runtimeVars, clientVars,
           stopVars
    <2>5. \A s \in Sched : /\ (Up(s)' <=> Up(s)) /\ (Down(s)' <=> Down(s))
                           /\ m_queue'[s] = m_queue[s] /\ running'[s] = running[s]
                           /\ worker'[s] = worker[s]
        BY Zenon, <2>1, CallKeeps
    <2>6. StarterSound' /\ SettledSound'
        BY Zenon, <2>1, <2>5, StartKept, SettledKept
           DEF runtimeVars, clientVars, stopVars, Starting
    <2> QED BY Zenon, <2>2, <2>3, <2>4, <2>6 DEF RuntimeInv
<1> QED BY Zenon, <1>1, <1>2, <1>3, WorkerSound, StopSound DEF Next, Terminated

(* Between calls of start() and stop(), m_running says whether the schedulers run, on
   however many clients and schedulers. *)
THEOREM RuntimeCorrect == ~StopDuringCalls => (Spec => []RunningHasSchedulers)
<1> SUFFICES ASSUME ~StopDuringCalls PROVE Spec => []RunningHasSchedulers
    OBVIOUS
<1>1. RuntimeInv /\ [Next]_vars => RuntimeInv'
    BY Zenon, RuntimeNext
<1>2. RuntimeInv => RunningHasSchedulers
    <2> SUFFICES ASSUME RuntimeInv PROVE RunningHasSchedulers
        OBVIOUS
    <2>1. TypeOK
        BY Zenon DEF RuntimeInv
    <2>2. ASSUME stopper = "idle",
                 \A c \in Client :
                     client[c] \notin {"start", "create", "push", "launch", "thread"},
                 NEW s \in Sched
          PROVE  /\ running[s] <=> m_running
                 /\ worker[s] # "none" <=> m_running
        <3>1. \A c \in Client : ~Starting(c)
            BY Zenon, <2>2 DEF Starting
        <3>2. (m_running => Up(s)) /\ (~m_running => Down(s))
            BY Zenon, <2>2, <3>1 DEF RuntimeInv, SettledSound
        <3> QED BY Zenon, <3>2 DEF Up, Down
    <2> QED BY Zenon, <2>1, <2>2 DEF RunningHasSchedulers
<1> QED BY <1>1, <1>2, RuntimeInit, PTL DEF Spec

(* When stop() has returned, every task submitted before has run to its end. *)
THEOREM StopCorrect == ~StopDuringCalls => (Spec => []StopDrains)
<1> SUFFICES ASSUME ~StopDuringCalls PROVE Spec => []StopDrains
    OBVIOUS
<1>1. RuntimeInv /\ [Next]_vars => RuntimeInv'
    BY Zenon, RuntimeNext
<1>2. RuntimeInv => StopDrains
    <2> SUFFICES ASSUME RuntimeInv, stopper = "idle", ~m_running,
                        NEW c \in Client, client[c] = "waiting"
                 PROVE  c \in done
        BY Zenon DEF StopDrains
    <2>1. \A s \in Sched : Down(s) /\ m_queue[s] = {}
        BY Zenon DEF RuntimeInv, SettledSound
    <2>2. SchedulersTyped /\ c # Nothing
        BY Zenon, RuntimeTypes, RuntimeAssumption DEF RuntimeInv
    <2>3. \A s \in Sched : holding[s] # c
        BY Zenon, <2>1, <2>2 DEF SchedulersTyped, Down
    <2>4. ~Held(c)
        BY Zenon, <2>1, <2>3 DEF Held
    <2> QED BY Zenon, <2>4 DEF RuntimeInv, TasksSound
<1> QED BY <1>1, <1>2, RuntimeInit, PTL DEF Spec

(* Only acquireDefaultScheduler makes a call fail. *)
LEMMA OnlyAcquireFails ==
    ASSUME RuntimeInv, [Next]_vars, NEW c \in Client,
           client[c] # "noScheduler", client'[c] = "noScheduler"
    PROVE  Acquire(c)
<1>1. CallersTyped
    BY Zenon, RuntimeTypes DEF RuntimeInv
<1>2. ASSUME NEW d \in Client, NEW from
      PROVE  /\ \A to \in Stages : Goto(d, from, to) => d = c /\ to = "noScheduler"
             /\ ~Goto(d, from, "start") /\ ~Goto(d, from, "create") /\ ~Goto(d, from, "push")
             /\ ~Goto(d, from, "launch") /\ ~Goto(d, from, "thread") /\ ~Goto(d, from, "acquire")
             /\ ~Goto(d, from, "waiting") /\ ~Goto(d, from, "returned")
    BY Zenon, <1>1 DEF Goto, CallersTyped, Stages
<1>3. client' # client
    BY Zenon
<1>4. PICK d \in Client : ClientStep(d)
    BY Zenon, <1>3 DEF Next, Worker, Stop, StopStep, StopScheduler, SignalScheduler, JoinScheduler,
       StopReturns, Terminated, clientVars, vars
<1>5. ~Submit(d) /\ ~Joined(d)
    BY Zenon, <1>2 DEF Submit, Joined
<1>6. ~EnsureStarted(d) /\ ~StartExchange(d)
    BY Zenon, <1>2 DEF EnsureStarted, StartExchange
<1>7. ~TestEmpty(d) /\ ~Push(d)
    BY Zenon, <1>2 DEF TestEmpty, Push
<1>8. ~Launch(d) /\ ~LaunchThread(d)
    BY Zenon, <1>2 DEF Launch, LaunchThread, NextLaunch
<1>9. Acquire(d)
    BY Zenon, <1>4, <1>5, <1>6, <1>7, <1>8 DEF ClientStep
<1>10. d = c
    <2>1. "noScheduler" \in Stages /\ "submit" \in Stages
        BY Zenon DEF Stages
    <2> QED BY Zenon, <1>2, <1>9, <2>1 DEF Acquire
<1> QED BY Zenon, <1>9, <1>10

(* A call fails for want of a scheduler only while another start() is creating them. *)
THEOREM CallFailsOnlyDuringStart ==
    ~StopDuringCalls => (Spec => FailsOnlyDuringStart)
<1> SUFFICES ASSUME ~StopDuringCalls PROVE Spec => FailsOnlyDuringStart
    OBVIOUS
<1>1. RuntimeInv /\ [Next]_vars => RuntimeInv'
    BY Zenon, RuntimeNext
<1>2. RuntimeInv /\ [Next]_vars =>
        [\A c \in Client : client[c] # "noScheduler" /\ client'[c] = "noScheduler" =>
            \E d \in Client : client[d] \in {"create", "push"}]_vars
    BY Zenon, OnlyAcquireFails, AcquireSound
<1> QED BY <1>1, <1>2, RuntimeInit, PTL DEF Spec, FailsOnlyDuringStart
-----------------------------------------------------------------------------
INSTANCE FiniteSetTheorems

(* The size of a set that has one element at most. *)
LEMMA OneOrNone ==
    ASSUME NEW S, \A x, y \in S : x = y
    PROVE  Cardinality(S) = IF S = {} THEN 0 ELSE 1
<1>1. CASE S = {}
    BY Zenon, <1>1, FS_EmptySet
<1>2. CASE S # {}
    <2>1. PICK x \in S : S = {x}
        BY Zenon, <1>2
    <2> QED BY <1>2, <2>1, FS_Singleton
<1> QED BY Zenon, <1>1, <1>2

(* The task of a client that waits in join() is in exactly one place until it has ended. *)
THEOREM TaskInOnePlace ==
    ~StopDuringCalls => (Spec => []NoTaskLost)
<1> SUFFICES ASSUME ~StopDuringCalls PROVE Spec => []NoTaskLost
    OBVIOUS
<1>1. RuntimeInv /\ [Next]_vars => RuntimeInv'
    BY Zenon, RuntimeNext
<1>2. RuntimeInv => NoTaskLost
    <2> SUFFICES ASSUME RuntimeInv, NEW c \in Client, client[c] = "waiting"
                 PROVE  Cardinality({s \in Sched : c \in m_queue[s]})
                        + Cardinality({s \in Sched : holding[s] = c})
                        + (IF c \in done THEN 1 ELSE 0) = 1
        BY Zenon DEF NoTaskLost
    <2> DEFINE Q == {s \in Sched : c \in m_queue[s]}
               H == {s \in Sched : holding[s] = c}
    <2>1. TasksSound
        BY Zenon DEF RuntimeInv
    <2>2. /\ \A q, r \in Q : q = r
          /\ \A q, r \in H : q = r
          /\ Q = {} \/ H = {}
        BY Zenon, <2>1 DEF TasksSound
    <2>3. Held(c) <=> Q # {} \/ H # {}
        BY Zenon DEF Held
    <2>4. (c \in done \/ Held(c)) /\ ~(c \in done /\ Held(c))
        BY Zenon, <2>1 DEF TasksSound
    <2> HIDE DEF Q, H
    <2>5. /\ Cardinality(Q) = IF Q = {} THEN 0 ELSE 1
          /\ Cardinality(H) = IF H = {} THEN 0 ELSE 1
        BY Zenon, <2>2, OneOrNone
    <2>6. Cardinality(Q) + Cardinality(H) + (IF c \in done THEN 1 ELSE 0) = 1
        BY <2>2, <2>3, <2>4, <2>5
    <2> QED BY Zenon, <2>6 DEF Q, H
<1> QED BY <1>1, <1>2, RuntimeInit, PTL DEF Spec
=============================================================================
