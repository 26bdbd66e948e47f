---------------------------- MODULE SlotOwnership ----------------------------
(***************************************************************************)
(* What the readiness back ends promise about the slots of an IOController *)
(* (io_controller.hpp): coroutines store single-operation awaitables in    *)
(* them, claim them for sequences, take both out again, and close() clears *)
(* everything under whoever is waiting.                                    *)
(*                                                                         *)
(* waits[c] is what c is suspended in.  The two masks and the registered   *)
(* events are the reactor's business: View leaves them out.  ReadinessIO   *)
(* is checked to take only these steps; RuntimeProofs proves that they     *)
(* keep the slots sound, for any set of coroutines.                        *)
(***************************************************************************)
EXTENDS IOController

VARIABLES ctl, waits

Domains == {"Read", "Write", "ReadWrite"}

NotWaiting == [kind |-> "none"]
InPlain(a) == [kind |-> "plain", a |-> a]
InSequence(domain) == [kind |-> "sequence", domain |-> domain]

Events == ReadEvents \cup WriteEvents \cup {"SEQUENCE"}
Controller ==
    [m_handle : BOOLEAN, m_type : SUBSET Events,
     m_awaitable : [Slots -> Coroutine \cup {Nobody}],
     m_sequence_owner : [Slots -> Coroutine \cup {Nobody}],
     m_sequence_interest_mask : SUBSET Slots, m_sequence_armed_mask : SUBSET Slots,
     m_registered_events : SUBSET {"ET", "IN", "OUT"}]

View(k) == <<k.m_handle, k.m_type, k.m_awaitable, k.m_sequence_owner>>
slotVars == <<ctl, waits>>

Become(k) == ctl' \in Controller /\ View(ctl') = View(k)

SlotInit == ctl = NewController /\ waits = [c \in Coroutine |-> NotWaiting]

(* suspendRegisteredAwaitable.  That no other single operation waits in the slot
   is the caller's part: one coroutine per direction. *)
Fill(c, a) ==
    /\ ctl.m_handle /\ waits[c] = NotWaiting
    /\ ~SlotOwned(ctl, a) /\ ctl.m_awaitable[a.slot] = Nobody
    /\ Become(fillAwaitable(ctl, a, c))
    /\ waits' = [waits EXCEPT ![c] = InPlain(a)]

(* resumeIOAwaitable. *)
Remove(c) ==
    /\ waits[c].kind = "plain"
    /\ Become(removeAwaitable(ctl, waits[c].a))
    /\ waits' = [waits EXCEPT ![c] = NotWaiting]

(* suspendSequenceAwaitable. *)
Claim(c, domain) ==
    /\ ctl.m_handle /\ waits[c] = NotWaiting
    /\ CanClaim(ctl, c, domain)
    /\ Become(claimRequestedDomain(ctl, c, domain))
    /\ waits' = [waits EXCEPT ![c] = InSequence(domain)]

(* onCompleted: a sequence whose slots close() has taken releases nothing. *)
Owns(c) == \E s \in Slots : ctl.m_sequence_owner[s] = c
Release(c) ==
    /\ waits[c].kind = "sequence"
    /\ Become(IF Owns(c)
              THEN releaseRegisteredDomain(ctl, c, [d \in Coroutine |-> "INVALID"]) ELSE ctl)
    /\ waits' = [waits EXCEPT ![c] = NotWaiting]

(* addClose. *)
Close ==
    /\ ctl.m_handle
    /\ Become(ClosedController(ctl))
    /\ UNCHANGED waits

(* The reactor moves its masks. *)
Reactor == Become(ctl) /\ UNCHANGED waits

SlotNext == \/ Reactor \/ Close
        \/ \E c \in Coroutine : \/ Remove(c) \/ Release(c)
                                \/ \E domain \in Domains : Claim(c, domain)
                                \/ \E a \in Awaitables : Fill(c, a)

SlotSpec == SlotInit /\ [][SlotNext]_slotVars

-----------------------------------------------------------------------------
Exclusive == \A s \in Slots : ctl.m_awaitable[s] = Nobody \/ ctl.m_sequence_owner[s] = Nobody

StoredIsWaiting ==
    \A s \in Slots : ctl.m_awaitable[s] # Nobody =>
        \E a \in Awaitables : /\ waits[ctl.m_awaitable[s]] = InPlain(a)
                              /\ a.slot = s /\ a.event \in ctl.m_type

OwnerIsWaiting ==
    \A s \in Slots : ctl.m_sequence_owner[s] # Nobody =>
        \E d \in Domains : /\ waits[ctl.m_sequence_owner[s]] = InSequence(d)
                           /\ sequenceOwnerDomainUsesSlot(d, s)

TypeBits ==
    /\ ("SEQUENCE" \in ctl.m_type) <=> (\E s \in Slots : ctl.m_sequence_owner[s] # Nobody)
    /\ \A e \in ctl.m_type : e # "SEQUENCE" =>
          \E s \in Slots : /\ ctl.m_awaitable[s] # Nobody
                           /\ waits[ctl.m_awaitable[s]].a.event = e

Reachable ==
    IF ctl.m_handle
    THEN \A c \in Coroutine :
            /\ waits[c].kind = "plain" => ctl.m_awaitable[waits[c].a.slot] = c
            /\ waits[c].kind = "sequence" =>
                  \A s \in Slots : sequenceOwnerDomainUsesSlot(waits[c].domain, s)
                                      => ctl.m_sequence_owner[s] = c
    ELSE \A s \in Slots : ctl.m_awaitable[s] = Nobody /\ ctl.m_sequence_owner[s] = Nobody

(* The slots are sound.  A slot never serves both a single operation and a
   sequence; an awaitable is reachable from the controller exactly as long as its
   coroutine waits in it, and none after close(); and m_type, by which the reactors
   dispatch events, has the bit of each operation waited for and no other. *)
SlotsSound == Exclusive /\ StoredIsWaiting /\ OwnerIsWaiting /\ TypeBits /\ Reachable
==============================================================================
