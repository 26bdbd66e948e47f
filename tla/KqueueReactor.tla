---------------------------- MODULE KqueueReactor ----------------------------
(***************************************************************************)
(* kernel/kqueue_reactor.cc.  w.reg is the set of filters ("READ",         *)
(* "WRITE") added with EV_CLEAR, w.edge those with an event to report.     *)
(* One descriptor, so the registration token is the controller; it is      *)
(* retired when the descriptor is closed.                                  *)
(***************************************************************************)
EXTENDS ReadinessCore

ReadyFilters(sock, filters) ==
    {f \in filters : \/ f = "READ" /\ Readable(sock)
                     \/ f = "WRITE" /\ Writable(sock)}

(* kevent with EV_ADD: registers the filters and looks at the descriptor. *)
EvAdd(w, filters) == [w EXCEPT !.reg = @ \cup filters,
                               !.edge = @ \cup ReadyFilters(w.sock, filters)]
EvDelete(w, filters) == [w EXCEPT !.reg = @ \ filters, !.edge = @ \ filters]

(* kevent: the filters that fired, the level filters if they still hold. *)
kevent(w) == ReadyFilters(w.sock, w.edge) \cup (w.edge \cap {"VNODE"})

(* Without a live handle there is no token; the kernel may refuse the change. *)
TryThenAdd(w, c, filter) ==
    LET AddUnlessDone(t) == IF t.done THEN Answered(t.w, 1)
                            ELSE IF ~w.ctl.m_handle \/ w.fault THEN Answered(t.w, -1)
                            ELSE Answered(EvAdd(t.w, {filter}), 0)
    IN  AddUnlessDone(tryComplete(w, c))

addAccept(w, c) == TryThenAdd(w, c, "READ")
addConnect(w, c) == TryThenAdd(w, c, "WRITE")
addRecv(w, c) == TryThenAdd(w, c, "READ")
addSend(w, c) == TryThenAdd(w, c, "WRITE")
addReadv(w, c) == TryThenAdd(w, c, "READ")
addWritev(w, c) == TryThenAdd(w, c, "WRITE")
addFileRead(w, c) == TryThenAdd(w, c, "READ")
addFileWrite(w, c) == TryThenAdd(w, c, "WRITE")
addRecvFrom(w, c) == TryThenAdd(w, c, "READ")
addSendTo(w, c) == TryThenAdd(w, c, "WRITE")
addSendFile(w, c) == TryThenAdd(w, c, "WRITE")

(* A vnode filter reports changes to the file from now on. *)
addFileWatch(w, c) ==
    IF ~w.ctl.m_handle \/ w.fault THEN Answered(w, -1)
    ELSE Answered(EvAdd(w, {"VNODE"}), 0)

applySequenceInterest(w, desired) ==
    LET armed == w.ctl.m_sequence_armed_mask
    IN  IF armed = desired THEN Answered(w, 0)
        ELSE IF w.fault THEN Answered(w, -1)
        ELSE Answered([EvAdd(EvDelete(w, armed \ desired), desired \ armed) EXCEPT
                          !.ctl.m_sequence_armed_mask = desired], 0)

syncSequenceRegistration(w) ==
    LET s == syncMask(w)
    IN  IF ~w.ctl.m_handle THEN Answered(w, -1)
        ELSE applySequenceInterest(s, s.ctl.m_sequence_interest_mask)

addSequence(w, c) == syncSequenceRegistration(w)

addClose(w) ==
    IF ~w.ctl.m_handle THEN w
    ELSE [EvDelete(w, Slots) EXCEPT !.ctl = ClosedController(@), !.sock.open = FALSE]

(* Without a READ filter the first EV_DELETE fails and ends the call. *)
remove(w) ==
    IF ~w.ctl.m_handle THEN w
    ELSE [EvDelete(w, IF "READ" \in w.reg THEN Slots ELSE {}) EXCEPT
             !.ctl.m_sequence_armed_mask = {}]

completeFileWatch(w) ==
    LET c == w.ctl.m_awaitable["READ"]
    IN  IF c = Nobody THEN w ELSE wakeUp([w EXCEPT !.co[c].aw.m_result = Ok(1)], c)

dispatch_owner(w, c) ==
    LET Again(p) == IF p.completed THEN wakeUp(syncMask(p.w), c)
                    ELSE WakeUnlessAdded(addSequence(p.w, c), c)
    IN  Again(activeEvent(w, c))

(* One filter per event; type is m_type when it came. *)
completeFilter(w, filter, type) ==
    CASE \/ filter = "READ" /\ type \cap (ReadEvents \ {"FILEWATCH"}) # {}
         \/ filter = "WRITE" /\ type \cap WriteEvents # {} -> completeAwaitableAndWake(w, filter)
      [] filter = "VNODE" /\ "FILEWATCH" \in type -> completeFileWatch(w)
      [] OTHER -> w
completeSequence(w, filter, type) ==
    IF /\ "SEQUENCE" \in type /\ filter \in Slots
       /\ w.ctl.m_sequence_owner[filter] # Nobody
       /\ waitsOn(w, w.ctl.m_sequence_owner[filter], filter)
    THEN dispatch_owner(w, w.ctl.m_sequence_owner[filter]) ELSE w

processEvent(w, filter) ==
    LET t == w.ctl.m_type
    IN  IF t = {} \/ ~w.ctl.m_handle THEN w
        ELSE completeSequence(completeFilter(w, filter, t), filter, t)
==============================================================================
