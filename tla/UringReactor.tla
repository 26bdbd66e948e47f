----------------------------- MODULE UringReactor -----------------------------
(***************************************************************************)
(* kernel/uring_reactor.cc: submissions, completions, and the multishot    *)
(* receive and accept.                                                     *)
(*                                                                         *)
(* w is that of ReadinessCore (reg, edge, pend and full are not used) with *)
(*   u, bufs   UringController's part;                                     *)
(*   sq        the requests in the kernel, [slot, id, op, by, orphan];     *)
(*   cq        completions not yet processed: the request's fields and     *)
(*             [ret, errno, data, more, notif];                            *)
(*   zc        the ring supports zero-copy sends and the payloads are big; *)
(*   fault     io_uring_get_sqe returns nullptr in this call;              *)
(*   stop, gone   see Gather and tryConsumeAcceptedHandle.                 *)
(* by and orphan are for the properties alone: the coroutine that asked    *)
(* and whether its await has since ended.                                  *)
(***************************************************************************)
EXTENDS UringController

Request(slot, id, op, by) ==
    [slot |-> slot, id |-> id, op |-> op, by |-> by, orphan |-> FALSE]

(* The kernel takes the request (external): a connect starts now. *)
Issued(w, request) ==
    LET starts == request.op = "CONNECT" /\ w.sock.conn = "idle"
        op == IF ~w.ctl.m_handle THEN "BADF" ELSE IF starts THEN "CONNECTING" ELSE request.op
    IN  [w EXCEPT !.sq = Append(@, [request EXCEPT !.op = op]),
                  !.sock.conn = IF op = "CONNECTING" THEN "connecting" ELSE @]

(* makeSqeRequest and io_uring_get_sqe of every add call: a token taken for a
   submission that fails is recycled. *)
submit(w, slot, op, by) ==
    LET t == makeSqeRequest(w, slot)
    IN  IF w.fault THEN Answered(recycle(t.w, slot, t.id), -1)
        ELSE Answered(Issued(t.w, Request(slot, t.id, op, by)), 0)

(* The token the last submission used. *)
LastId(w) == w.sq[Len(w.sq)].id

prepareSendSqe(a) ==
    IF a.ret < 0 THEN a
    ELSE [a EXCEPT !.w.u.tok["WRITE"][LastId(a.w)].notify_expected = a.w.zc]

submitPersistent(w, op) ==
    LET Persistent(a) ==
            IF a.ret < 0 THEN a
            ELSE [a EXCEPT !.w.u.tok["READ"][LastId(a.w)].persistent = TRUE]
    IN  IF ~w.ctl.m_handle THEN Answered(w, -1)
        ELSE Persistent(submit(advanceSqeGeneration(w, "READ"), "READ", op, Nobody))

submitMultishotAccept(w) ==
    LET Armed(a) == IF a.ret < 0 THEN a ELSE [a EXCEPT !.w.u.m_accept_multishot_armed = TRUE]
    IN  Armed(submitPersistent(w, "ACCEPT*"))

submitMultishotRecv(w) ==
    LET Armed(a) == IF a.ret < 0 THEN a ELSE [a EXCEPT !.w.u.m_recv_multishot_armed = TRUE]
    IN  Armed(submitPersistent(w, "RECV*"))

addAccept(w, c) ==
    LET t == tryConsumeAcceptedHandle(w, c)
    IN  IF t.done THEN Answered(t.w, 1)
        ELSE IF w.u.m_accept_multishot_armed THEN Answered(w, 0)
        ELSE submitMultishotAccept(w)

addRecv(w, c) ==
    LET t == tryConsumeReadyRecv(w, c)
    IN  IF t.done THEN Answered(t.w, 1)
        ELSE IF w.u.m_recv_multishot_armed THEN Answered(w, 0)
        ELSE submitMultishotRecv(w)

addConnect(w, c) == submit(w, "WRITE", "CONNECT", c)
addSend(w, c) == prepareSendSqe(submit(w, "WRITE", "SEND", c))
addReadv(w, c) == submit(w, "READ", "READV", c)
addWritev(w, c) == submit(w, "WRITE", "WRITEV", c)
addSendFile(w, c) == submit(w, "WRITE", "POLLOUT", c)
addFileRead(w, c) == submit(w, "READ", "FILEREAD", c)
addFileWrite(w, c) == submit(w, "WRITE", "FILEWRITE", c)
addRecvFrom(w, c) == submit(w, "READ", "RECVFROM", c)
addSendTo(w, c) == submit(w, "WRITE", "SENDTO", c)
addFileWatch(w, c) == submit(w, "READ", "FILEWATCH", c)

-----------------------------------------------------------------------------
(* Cancelling a descriptor's requests (external): each completes with -ECANCELED, but
   for a zero-copy send that only awaits its notification. *)
Completion(request, s, more, notif) ==
    [slot |-> request.slot, id |-> request.id, by |-> request.by, orphan |-> request.orphan,
     ret |-> s.ret, errno |-> s.errno, data |-> s.data, more |-> more, notif |-> notif]
cancel_fd(w) ==
    LET cancelled == SelectSeq(w.sq, LAMBDA q : q.op # "NOTIF")
    IN  [w EXCEPT !.sq = SelectSeq(@, LAMBDA q : q.op = "NOTIF"),
                  !.cq = @ \o [i \in DOMAIN cancelled |->
                       Completion(cancelled[i], Refuse("ECANCELED", w.sock), FALSE, FALSE)]]

addClose(w) ==
    LET cancelled == IF w.fault THEN w ELSE cancel_fd(w)
        invalid == invalidateSqeRequests(cancelled)
    IN  [invalid EXCEPT !.sock.open = FALSE, !.ctl.m_type = {},
                        !.ctl.m_awaitable = [s \in Slots |-> Nobody], !.ctl.m_handle = FALSE]

remove(w) == IF w.fault THEN w ELSE cancel_fd(w)

-----------------------------------------------------------------------------
(* Sequences: the front operation of each owner is submitted. *)
AdvancedUring(w, c, p) ==
    [w |-> [w EXCEPT !.co[c].aw = p.m], completed |-> p.progress = "kCompleted"]
prepareOwnerUring(w, c) ==
    LET aw == w.co[c].aw
    IN  AdvancedUring(w, c, IF aw.kind = "machine" THEN prepareForSubmitUring(aw)
                            ELSE prepareSequenceUring(aw))
activeEventUring(w, c, s) ==
    LET aw == w.co[c].aw
    IN  AdvancedUring(w, c, IF aw.kind = "machine" THEN onActiveEventUring(aw, s)
                            ELSE onSequenceEventUring(aw, s))

resolveSequenceSlot(event) == AwaitableOf(event).slot

tryImmediateReadv(w) ==
    LET s == Call(w.sock, "READV")
    IN  [w |-> [w EXCEPT !.sock = s.sock], s |-> s, done |-> s.errno \notin Transient]

(* A readv waits by polling and reads when told to; a send may be zero-copy. *)
SequenceOp(event) == IF event = "READV" THEN "POLLIN"
                     ELSE IF event = "SENDFILE" THEN "POLLOUT" ELSE event

RECURSIVE addSequence(_), submitSequenceSqe(_, _, _), submit_owner(_, _)
submitSequenceSqe(w, event, c) ==
    LET t == tryImmediateReadv(w)
        slot == resolveSequenceSlot(event)
        a == submit(w, slot, SequenceOp(event), c)
        ReadAlready(p) == IF p.completed THEN Answered(p.w, 1) ELSE addSequence(p.w)
        Stored(b) == IF b.ret < 0 THEN b
                     ELSE Answered([b.w EXCEPT !.ctl.m_awaitable[slot] = c], 0)
    IN  IF event = "READV" /\ t.done THEN ReadAlready(activeEventUring(t.w, c, t.s))
        ELSE Stored(IF event = "SEND" THEN prepareSendSqe(a) ELSE a)
submit_owner(w, c) ==
    LET event == activeOf(w)[c]
        held == w.ctl.m_awaitable[resolveSequenceSlot(event)]
        WakeIfDone(a) == IF a.ret = 1 THEN Answered(wakeUp(a.w, c), 0) ELSE a
    IN  IF c = Nobody THEN Answered(w, 0)
        ELSE IF event = "INVALID" \/ held = c THEN Answered(w, 0)
        ELSE IF held # Nobody THEN Answered(w, -1)
        ELSE WakeIfDone(submitSequenceSqe(w, event, c))
addSequence(w) ==
    LET reader == w.ctl.m_sequence_owner["READ"]
        ThenWriter(r) ==
            IF r.ret # 0 \/ r.w.ctl.m_sequence_owner["WRITE"] = reader THEN r
            ELSE submit_owner(r.w, r.w.ctl.m_sequence_owner["WRITE"])
    IN  ThenWriter(submit_owner(w, reader))

(* releaseRegisteredDomain also takes the owner's request out of the slots. *)
releaseRegisteredDomainUring(w, c) ==
    LET released == [w EXCEPT !.ctl = releaseRegisteredDomain(@, c, activeOf(w))]
        drop(v, s) == IF v.ctl.m_awaitable[s] # c THEN v
                      ELSE advanceSqeGeneration([v EXCEPT !.ctl.m_awaitable[s] = Nobody], s)
    IN  drop(drop(released, "READ"), "WRITE")

-----------------------------------------------------------------------------
(* awaitable.cc: the scheduler's add call for the event (a sequence's is
   addSequence). *)
registerUring(w, event, c) ==
    CASE event = "ACCEPT" -> addAccept(w, c)
      [] event = "CONNECT" -> addConnect(w, c)
      [] event = "RECV" -> addRecv(w, c)
      [] event = "SEND" -> addSend(w, c)
      [] event = "READV" -> addReadv(w, c)
      [] event = "WRITEV" -> addWritev(w, c)
      [] event = "SENDFILE" -> addSendFile(w, c)
      [] event = "FILEREAD" -> addFileRead(w, c)
      [] event = "FILEWRITE" -> addFileWrite(w, c)
      [] event = "RECVFROM" -> addRecvFrom(w, c)
      [] event = "SENDTO" -> addSendTo(w, c)
      [] event = "FILEWATCH" -> addFileWatch(w, c)

(* Completions.  c is the awaitable in the slot, or Nobody. *)
processAcceptCompletion(w, c, cqe) ==
    LET r == handleAcceptCqe(cqe)
        assign(v) == wakeUp([v EXCEPT !.u.m_accept_result_assigned = TRUE], c)
        waiting(v) == c # Nobody /\ ~v.u.m_accept_result_assigned
        queued == enqueueAcceptedHandle(w, Head(cqe.data))
        taken == IF r.ok
                 THEN IF waiting(w) THEN assign(tryConsumeAcceptedHandle(queued, c).w) ELSE queued
                 ELSE IF r # NotReady /\ waiting(w)
                 THEN assign([w EXCEPT !.co[c].aw.m_result = r]) ELSE w
        off == [taken EXCEPT !.u.m_accept_multishot_armed = FALSE]
        Rearmed(a) == IF a.ret < 0 /\ waiting(a.w)
                      THEN assign([a.w EXCEPT !.co[c].aw.m_result = Err("kAcceptFailed")])
                      ELSE a.w
    IN  IF cqe.more THEN taken
        ELSE IF ~w.ctl.m_handle THEN off
        ELSE Rearmed(submitMultishotAccept(off))

ChunkOf(cqe) == IF cqe.ret > 0 THEN Chunk("Buffer", cqe.data, NoResult)
                ELSE IF cqe.ret = 0 THEN Chunk("Eof", <<>>, Ok(0))
                ELSE Chunk("Error", <<>>, Err("kRecvFailed"))

(* A request that has ended is not submitted again here: the next recv does. *)
processRecvCompletion_StaysArmed(w, c, cqe) ==
    LET queued == IF cqe.errno \in Transient \cup {"ENOBUFS"} THEN w
                  ELSE enqueueReadyRecv(w, ChunkOf(cqe))
        t == tryConsumeReadyRecv(queued, c)
        should_deliver == /\ c # Nobody /\ ~w.u.m_recv_result_assigned
                          /\ cqe.errno \notin Transient
                          /\ t.done
    IN  IF should_deliver THEN wakeUp([t.w EXCEPT !.u.m_recv_result_assigned = TRUE], c) ELSE queued
processRecvCompletion(w, c, cqe) ==
    LET queued == IF cqe.errno \in Transient \cup {"ENOBUFS"} THEN w
                  ELSE enqueueReadyRecv(w, ChunkOf(cqe))
        t == tryConsumeReadyRecv(queued, c)
        should_deliver == /\ c # Nobody /\ ~w.u.m_recv_result_assigned
                          /\ cqe.errno \notin Transient
                          /\ t.done
        taken == IF should_deliver THEN wakeUp([t.w EXCEPT !.u.m_recv_result_assigned = TRUE], c)
                 ELSE queued
    IN  [taken EXCEPT !.u.m_recv_multishot_armed = @ /\ cqe.more]

(* The single operations: complete and wake, or submit again. *)
completeOneShot(w, c, cqe) ==
    LET event == w.co[c].aw.event
        sends == event = "SENDFILE" /\ cqe.ret >= 0
        Again(a) == IF a.ret < 0
                    THEN wakeUp(Hand(a.w, c, Err(AwaitableOf(event).code), <<>>), c) ELSE a.w
        Handle(s, r) == IF r = NotReady THEN Again(registerUring(w, event, c))
                        ELSE wakeUp(Hand(IF sends THEN [w EXCEPT !.sock = s.sock] ELSE w,
                                         c, r, Reported(event, cqe.data)), c)
        s == IF sends THEN Call(w.sock, event) ELSE cqe
    IN  Handle(s, cqeHandler(event, s))

completeSequence_WakesAnyway(w, slot, c, cqe) ==
    LET freed == advanceSqeGeneration([w EXCEPT !.ctl.m_awaitable[slot] = Nobody], slot)
        p == activeEventUring(freed, c, cqe)
    IN  wakeUp(p.w, c)
completeSequence(w, slot, c, cqe) ==
    LET freed == advanceSqeGeneration([w EXCEPT !.ctl.m_awaitable[slot] = Nobody], slot)
        reads == activeOf(w)[c] = "READV" /\ cqe.ret >= 0
        t == tryImmediateReadv(freed)
        Again(p) == IF p.completed THEN wakeUp(p.w, c)
                    ELSE WakeUnlessAdded(addSequence(p.w), c)
    IN  Again(IF reads /\ ~t.done THEN [w |-> freed, completed |-> FALSE]
              ELSE activeEventUring(IF reads THEN t.w ELSE freed, c, IF reads THEN t.s ELSE cqe))

(* Which awaitable a live completion is for: without one, the multishot's. *)
dispatch(w, cqe) ==
    LET c == w.ctl.m_awaitable[cqe.slot]
        aw == w.co[c].aw
        persistent == IF w.u.m_recv_multishot_armed THEN "RECV"
                      ELSE IF w.u.m_accept_multishot_armed THEN "ACCEPT" ELSE None
        event == IF c # Nobody THEN IF aw.kind = "plain" THEN aw.event ELSE aw.kind
                 ELSE IF cqe.slot = "READ" THEN persistent ELSE None
    IN  CASE event = "RECV" -> processRecvCompletion(w, c, cqe)
          [] event = "ACCEPT" -> processAcceptCompletion(w, c, cqe)
          [] event \in {"machine", "queue"} -> completeSequence(w, cqe.slot, c, cqe)
          [] event = None -> w
          [] OTHER -> completeOneShot(w, c, cqe)

(* The token survives while its request may complete again: a multishot with
   more to come, a zero-copy send whose result or notification is missing. *)
keepsToken_IgnoresNotify(t, cqe) == ~cqe.notif /\ t.persistent /\ cqe.more
keepsToken(t, cqe) ==
    IF cqe.notif THEN ~t.result_completed
    ELSE IF t.persistent THEN cqe.more
    ELSE t.notify_expected /\ ~t.notify_received
markToken(t, cqe) ==
    IF cqe.notif THEN [t EXCEPT !.notify_received = TRUE]
    ELSE IF t.persistent THEN [t EXCEPT !.persistent = cqe.more]
    ELSE [t EXCEPT !.result_completed = t.notify_expected]

processCompletion(w, cqe) ==
    LET t == w.u.tok[cqe.slot][cqe.id]
        marked == [w EXCEPT !.u.tok[cqe.slot][cqe.id] = markToken(t, cqe)]
        Settle(v) == IF keepsToken(t, cqe) THEN v ELSE recycle(v, cqe.slot, cqe.id)
    IN  Settle(IF t.live /\ w.u.bound[cqe.slot] /\ ~cqe.notif THEN dispatch(marked, cqe)
               ELSE marked)
==============================================================================
