---------------------------- MODULE ReadinessCore ----------------------------
(***************************************************************************)
(* What the epoll and kqueue reactors share: coroutines suspended in       *)
(* awaitables of one IOController, and the helpers that complete and wake  *)
(* them (kernel/awaitable.inl, io_scheduler.hpp).                          *)
(*                                                                         *)
(* w is the world one reactor call sees and changes:                       *)
(*   ctl, sock    the controller and the descriptor behind it;             *)
(*   co           the coroutines, [pc, aw, timer];                         *)
(*   reg, edge    the kernel's registration and what it has to report;     *)
(*   pend         epoll only: this controller's m_pending_changes entry;   *)
(*   fault        the kernel refuses registrations (ENOMEM) in this call;  *)
(*   full         epoll only: other controllers fill m_pending_changes.    *)
(***************************************************************************)
EXTENDS IOController, SequenceAwaitable

NoAwaitable == [kind |-> "none"]

Plain(event) == [kind |-> "plain", event |-> event, m_result |-> NotReady, data |-> <<>>]

isSequence(aw) == aw.kind \in {"machine", "queue"}

activeOf(w) ==
    [c \in Coroutine |-> LET aw == w.co[c].aw
                         IN  CASE aw.kind = "machine" -> activeEventType(aw)
                               [] aw.kind = "queue" -> frontEventType(aw)
                               [] OTHER -> "INVALID"]
waitsOn(w, c, slot) == sequenceEventUsesSlot(activeOf(w)[c], slot)

(* Waker::wakeUp: the first wake-up queues the coroutine, the rest do nothing. *)
wakeUp(w, c) == [w EXCEPT !.co[c].pc = IF @ = "suspended" THEN "queued" ELSE @]

(* handleComplete of the coroutine's single-operation awaitable. *)
Handled(w, c, s, r) ==
    IF r = NotReady THEN [w |-> [w EXCEPT !.sock = s.sock], done |-> FALSE]
    ELSE [w |-> [w EXCEPT !.sock = s.sock, !.co[c].aw.m_result = r, !.co[c].aw.data = s.data],
          done |-> TRUE]
tryComplete(w, c) ==
    LET event == w.co[c].aw.event
        s == Call(w.sock, event)
    IN  Handled(w, c, s, handler(event, s))

completeAwaitableAndWake_NoWake(w, slot) ==
    LET c == w.ctl.m_awaitable[slot]
    IN  IF c = Nobody THEN w ELSE tryComplete(w, c).w
completeAwaitableAndWake(w, slot) ==
    LET c == w.ctl.m_awaitable[slot]
        WakeIfDone(t) == IF t.done THEN wakeUp(t.w, c) ELSE t.w
    IN  IF c = Nobody THEN w ELSE WakeIfDone(tryComplete(w, c))

(* A sequence awaitable's prepareForSubmit and onActiveEvent. *)
Advanced(w, c, p) == [w |-> [w EXCEPT !.sock = p.sock, !.co[c].aw = p.m],
                      completed |-> p.progress = "kCompleted"]
prepareOwner(w, c) ==
    LET aw == w.co[c].aw
    IN  Advanced(w, c, IF aw.kind = "machine" THEN prepareForSubmit(aw, w.sock, 0)
                       ELSE prepareSequence(aw, w.sock))
activeEvent(w, c) ==
    LET aw == w.co[c].aw
    IN  Advanced(w, c, IF aw.kind = "machine" THEN onActiveEvent(aw, w.sock)
                       ELSE onSequenceEvent(aw, w.sock))

syncMask(w) == [w EXCEPT !.ctl = syncSequenceInterestMask(@, activeOf(w))]

(* An add call answers 1 (done), 0 (registered) or -1. *)
Answered(w, ret) == [w |-> w, ret |-> ret]

(* A sequence that cannot wait again is woken. *)
WakeUnlessAdded(a, c) == IF a.ret # 0 THEN wakeUp(a.w, c) ELSE a.w
==============================================================================
