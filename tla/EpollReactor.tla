----------------------------- MODULE EpollReactor -----------------------------
(***************************************************************************)
(* kernel/epoll_reactor.cc.  An epoll mask is a set: {} is 0 (nothing      *)
(* registered), {"ET"} asks for nothing, "IN" and "OUT" as usual.  The     *)
(* batched change of the controller waits in w.pend until it is flushed.   *)
(***************************************************************************)
EXTENDS ReadinessCore

NoChange == {"no change"}

ioTypeToEpollEvents(type) ==
    {"ET"} \cup (IF type \cap ReadEvents # {} THEN {"IN"} ELSE {})
           \cup (IF type \cap WriteEvents # {} THEN {"OUT"} ELSE {})

sequenceInterestToEpollEvents(mask) ==
    {"ET"} \cup (IF "READ" \in mask THEN {"IN"} ELSE {})
           \cup (IF "WRITE" \in mask THEN {"OUT"} ELSE {})

buildEvents(ctl) ==
    ioTypeToEpollEvents(ctl.m_type) \cup
    (IF "SEQUENCE" \in ctl.m_type
     THEN sequenceInterestToEpollEvents(ctl.m_sequence_interest_mask) ELSE {})

discardPendingChange(w) == [w EXCEPT !.pend = NoChange]

(* The kernel reports the descriptor when it is polled ready for the mask. *)
ReadyFlags(sock, mask) ==
    (IF "IN" \in mask /\ Readable(sock) THEN {"IN"} ELSE {}) \cup
    (IF "OUT" \in mask /\ Writable(sock) THEN {"OUT"} ELSE {}) \cup
    (IF mask # {} /\ sock.err THEN {"ERR"} ELSE {})

(* EPOLL_CTL_DEL, ADD and MOD; the last two look at the descriptor again. *)
epoll_ctl(w, events) ==
    [w EXCEPT !.reg = events, !.edge = IF ReadyFlags(w.sock, events) = {} THEN {} ELSE {"event"},
              !.ctl.m_registered_events = events, !.pend = NoChange]

(* A failed epoll_ctl leaves the change where it is. *)
flushPendingChanges(w) ==
    IF w.pend = NoChange THEN Answered(w, 0)
    ELSE IF ~w.ctl.m_handle \/ w.pend = w.ctl.m_registered_events
    THEN Answered(discardPendingChange(w), 0)
    ELSE IF w.pend = {"ET"} /\ w.ctl.m_registered_events = {}
    THEN Answered(discardPendingChange(w), 0)
    ELSE IF w.fault THEN Answered(w, -1)
    ELSE Answered(epoll_ctl(w, IF w.pend = {"ET"} THEN {} ELSE w.pend), 0)

(* full: this change is the BATCH_THRESHOLD-th of the reactor, which flushes. *)
applyEvents_KeepsPending(w, events) ==
    IF ~w.ctl.m_handle THEN Answered(w, -1)
    ELSE IF events = w.ctl.m_registered_events THEN Answered(w, 0)
    ELSE Answered([w EXCEPT !.pend = events], 0)
applyEvents(w, events) ==
    LET queued == [w EXCEPT !.pend = events]
    IN  IF ~w.ctl.m_handle THEN Answered(w, -1)
        ELSE IF events = w.ctl.m_registered_events THEN Answered(discardPendingChange(w), 0)
        ELSE IF events = w.pend \/ ~w.full THEN Answered(queued, 0)
        ELSE flushPendingChanges(queued)

-----------------------------------------------------------------------------
(* Registration: try the operation, then ask for its events. *)
TryThenApply(w, c) ==
    LET ApplyUnlessDone(t) == IF t.done THEN Answered(t.w, 1)
                              ELSE applyEvents(t.w, buildEvents(t.w.ctl))
    IN  ApplyUnlessDone(tryComplete(w, c))

addAccept(w, c) == TryThenApply(w, c)
addConnect(w, c) == TryThenApply(w, c)
addRecv(w, c) == TryThenApply(w, c)
addSend(w, c) == TryThenApply(w, c)
addReadv(w, c) == TryThenApply(w, c)
addWritev(w, c) == TryThenApply(w, c)
addSendFile(w, c) == TryThenApply(w, c)
addRecvFrom(w, c) == TryThenApply(w, c)
addSendTo(w, c) == TryThenApply(w, c)
addFileWatch(w, c) == applyEvents(w, buildEvents(w.ctl))
addSequence(w, c) == LET s == syncMask(w) IN applyEvents(s, buildEvents(s.ctl))

addClose(w) ==
    IF ~w.ctl.m_handle THEN w
    ELSE [discardPendingChange(w) EXCEPT !.ctl = ClosedController(@), !.sock.open = FALSE,
                                         !.reg = {}, !.edge = {}]

remove(w) == IF ~w.ctl.m_handle THEN w ELSE applyEvents(w, {"ET"}).w

(* A change of the descriptor wakes the wait if the mask asks for it. *)
Edge(edge, mask, event) ==
    IF \/ "READ" \in event /\ "IN" \in mask
       \/ "WRITE" \in event /\ "OUT" \in mask
       \/ event = Slots /\ mask # {}
    THEN {"event"} ELSE edge

-----------------------------------------------------------------------------
(* poll: wait for the event, then process it. *)
epoll_wait(w) == ReadyFlags(w.sock, w.reg)

syncEvents(w) ==
    LET s == IF "SEQUENCE" \in w.ctl.m_type THEN syncMask(w) ELSE w
    IN  applyEvents(s, buildEvents(s.ctl)).w

(* An inotify read that finds nothing still wakes the watcher. *)
completeFileWatch(w) ==
    LET c == w.ctl.m_awaitable["READ"]
        s == Call(w.sock, "FILEWATCH")
        r == handleFileWatchCqe(s)
    IN  IF c = Nobody THEN w
        ELSE wakeUp([w EXCEPT !.sock = s.sock, !.co[c].aw.data = Reported("FILEWATCH", s.data),
                        !.co[c].aw.m_result = IF r = NotReady THEN Ok(0) ELSE r], c)

dispatch_owner_WakesAnyway(w, c) ==
    LET p == activeEvent(w, c)
    IN  wakeUp(IF p.completed THEN syncMask(p.w) ELSE addSequence(p.w, c).w, c)
dispatch_owner(w, c) ==
    LET Again(p) == IF p.completed THEN wakeUp(syncMask(p.w), c)
                    ELSE WakeUnlessAdded(addSequence(p.w, c), c)
    IN  Again(activeEvent(w, c))

(* d is [w, dispatched]: the owner of both slots is dispatched once. *)
dispatchSlot(d, flags, flag, slot) ==
    LET c == d.w.ctl.m_sequence_owner[slot]
    IN  IF flag \in flags /\ c # Nobody /\ c \notin d.dispatched /\ waitsOn(d.w, c, slot)
        THEN [w |-> dispatch_owner(d.w, c), dispatched |-> {c}]
        ELSE d

(* The EPOLLIN and EPOLLOUT branches; type is m_type when the event came. *)
completeIn(w, flags, type) ==
    IF "IN" \notin flags THEN w
    ELSE IF type \cap (ReadEvents \ {"FILEWATCH"}) # {} THEN completeAwaitableAndWake(w, "READ")
    ELSE IF "FILEWATCH" \in type THEN completeFileWatch(w) ELSE w
completeOut(w, flags, type) ==
    IF "OUT" \in flags /\ type \cap WriteEvents # {}
    THEN completeAwaitableAndWake(w, "WRITE") ELSE w
completeSequences(w, flags, type) ==
    IF "SEQUENCE" \notin type THEN w
    ELSE dispatchSlot(dispatchSlot([w |-> w, dispatched |-> {}], flags, "IN", "READ"),
                      flags, "OUT", "WRITE").w

processEvent(w, events) ==
    LET flags == IF "ERR" \in events THEN events \cup {"IN", "OUT"} ELSE events
        t == w.ctl.m_type
    IN  IF t = {} THEN w
        ELSE syncEvents(completeSequences(completeOut(completeIn(w, flags, t), flags, t),
                                          flags, t))
==============================================================================
