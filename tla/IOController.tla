----------------------------- MODULE IOController -----------------------------
(***************************************************************************)
(* kernel/io_controller.hpp and the parts of awaitable.h that change it:   *)
(* the per-descriptor record the coroutines and the reactor share.         *)
(*                                                                         *)
(* ctl.m_awaitable[slot] is the coroutine whose single-operation awaitable *)
(* is stored in the slot, ctl.m_sequence_owner[slot] the coroutine whose   *)
(* sequence awaitable owns it; m_type, m_sequence_interest_mask and        *)
(* m_sequence_armed_mask are sets; m_registered_events is the epoll mask   *)
(* last applied.  Every method is an operator from record to record.       *)
(***************************************************************************)
EXTENDS IOOperations

CONSTANTS Coroutine, Nobody

ASSUME NobodyAssumption == Nobody \notin Coroutine

NewController ==
    [m_handle |-> TRUE, m_type |-> {},
     m_awaitable |-> [s \in Slots |-> Nobody],
     m_sequence_owner |-> [s \in Slots |-> Nobody],
     m_sequence_interest_mask |-> {}, m_sequence_armed_mask |-> {},
     m_registered_events |-> {}]

fillAwaitable(ctl, a, c) ==
    [ctl EXCEPT !.m_type = @ \cup {a.event}, !.m_awaitable[a.slot] = c]

removeAwaitable(ctl, a) ==
    [ctl EXCEPT !.m_type = @ \ {a.event}, !.m_awaitable[a.slot] = Nobody]

(* The check of suspendRegisteredAwaitable: a sequence owns the slot. *)
SlotOwned(ctl, a) == ctl.m_sequence_owner[a.slot] # Nobody

CanClaim(ctl, c, domain) ==
    \A s \in Slots : sequenceOwnerDomainUsesSlot(domain, s) =>
        /\ ctl.m_awaitable[s] = Nobody
        /\ ctl.m_sequence_owner[s] \in {Nobody, c}

claimRequestedDomain(ctl, c, domain) ==
    [ctl EXCEPT
        !.m_sequence_owner = [s \in Slots |->
            IF sequenceOwnerDomainUsesSlot(domain, s) THEN c ELSE @[s]],
        !.m_type = @ \cup {"SEQUENCE"}]

sequenceInterestMask(type) == {s \in Slots : sequenceEventUsesSlot(type, s)}

(* active[c] is activeEventType() of the sequence awaitable c waits in. *)
collectSequenceInterestMask(ctl, active) ==
    UNION {sequenceInterestMask(active[ctl.m_sequence_owner[s]]) :
           s \in {t \in Slots : ctl.m_sequence_owner[t] # Nobody}}

syncSequenceInterestMask(ctl, active) ==
    [ctl EXCEPT !.m_sequence_interest_mask = collectSequenceInterestMask(ctl, active)]

clearSequenceInterestMask(ctl) ==
    [ctl EXCEPT !.m_sequence_interest_mask = {}, !.m_sequence_armed_mask = {}]

releaseRegisteredDomain(ctl, c, active) ==
    LET freed == [ctl EXCEPT !.m_sequence_owner =
                     [s \in Slots |-> IF @[s] = c THEN Nobody ELSE @[s]]]
    IN  IF \A s \in Slots : freed.m_sequence_owner[s] = Nobody
        THEN clearSequenceInterestMask([freed EXCEPT !.m_type = @ \ {"SEQUENCE"}])
        ELSE syncSequenceInterestMask(freed, active)

(* addClose: what the readiness reactors reset. *)
ClosedController(ctl) ==
    [clearSequenceInterestMask(ctl) EXCEPT
        !.m_type = {}, !.m_awaitable = [s \in Slots |-> Nobody],
        !.m_sequence_owner = [s \in Slots |-> Nobody],
        !.m_registered_events = {}, !.m_handle = FALSE]
==============================================================================
