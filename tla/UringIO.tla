------------------------------- MODULE UringIO -------------------------------
(***************************************************************************)
(* Coroutines awaiting I/O on one socket over io_uring: ReadinessIO's      *)
(* counterpart for the completion back end.                                *)
(*                                                                         *)
(* The kernel completes requests at any time and in any order; the loop    *)
(* polls when nobody is queued and then processes completions until the    *)
(* queue is empty (polling).                                               *)
(***************************************************************************)
EXTENDS UringReactor, Functions

CONSTANTS Programs,      \* a set of [prog: [Coroutine -> [aws, timed]], zc: BOOLEAN]
          MaxBytes, MaxRoom,
          Pool,          \* provided buffers of the ring
          BufferSize,    \* bytes a provided buffer holds
          MaxFaults      \* submissions refused and requests interrupted

VARIABLES prog, zc, ctl, sock, co, u, bufs, sq, cq, polling, sent, got, faults,
          ended          \* the kernel has ended a multishot receive without a byte

vars == <<prog, zc, ctl, sock, co, u, bufs, sq, cq, polling, sent, got, faults, ended>>
kernelFree == <<prog, zc, ctl, co, u, polling, got>>

(* The operations a program uses: the environment plays only what concerns them. *)
EventsOf(aw) ==
    CASE aw.kind = "plain" -> {aw.event}
      [] aw.kind = "machine" -> {EventOfKind[KindOfNode[aw.nodes[i].kind]] :
                                 i \in {j \in DOMAIN aw.nodes : aw.nodes[j].kind \in IONodes}}
      [] aw.kind = "queue" -> {aw.m_tasks[i].event : i \in DOMAIN aw.m_tasks}
      [] OTHER -> {}
Uses == UNION {EventsOf(aw) : aw \in UNION {prog[c].aws : c \in Coroutine}}

(* A listening, datagram or watch descriptor has no end of stream. *)
Reads == Uses \cap ReadEvents # {}
HasEnd == Reads /\ Uses \cap {"ACCEPT", "RECVFROM", "FILEWATCH"} = {}

Idle == [pc |-> "idle", aw |-> NoAwaitable, timer |-> "off"]

Init ==
    /\ \E p \in Programs : prog = p.prog /\ zc = p.zc
    /\ ctl = NewController /\ u = NewSqeState /\ bufs = Pool
    /\ sock = [open |-> TRUE, inq |-> <<>>, fin |-> FALSE, err |-> FALSE, room |-> MaxRoom,
               conn |-> IF "CONNECT" \in Uses THEN "idle" ELSE "connected"]
    /\ co = [c \in Coroutine |-> Idle]
    /\ sq = <<>> /\ cq = <<>> /\ polling = FALSE
    /\ sent = 0 /\ got = <<>> /\ faults = 0 /\ ended = FALSE

W(fault) == [ctl |-> ctl, sock |-> sock, co |-> co, u |-> u, bufs |-> bufs, sq |-> sq,
             cq |-> cq, zc |-> zc, fault |-> fault, stop |-> FALSE, gone |-> FALSE]

Become(w) == /\ ctl' = w.ctl /\ sock' = w.sock /\ co' = w.co /\ u' = w.u
             /\ bufs' = w.bufs /\ sq' = w.sq /\ cq' = w.cq

MayFail(fault) == /\ fault => faults < MaxFaults
                  /\ faults' = IF fault THEN faults + 1 ELSE faults

(* Bounds: an arena is never asked for more tokens than it has (the code grows it). *)
Spare == \A s \in Slots : Cardinality(u.free[s]) >= Tokens - 1

-----------------------------------------------------------------------------
(* await_suspend. *)
suspendRegisteredAwaitable(w, c) ==
    LET a == AwaitableOf(w.co[c].aw.event)
        Added(r) ==
            [w |-> IF r.ret < 0 THEN [r.w EXCEPT !.co[c].aw.m_result = Err(a.code)] ELSE r.w,
             suspend |-> r.ret = 0]
    IN  IF SlotOwned(w.ctl, a) THEN [w |-> w, suspend |-> FALSE]
        ELSE Added(registerUring(fillAwaitableUring(w, a, c), a.event, c))

suspendSequenceAwaitable(w, c) ==
    LET domain == w.co[c].aw.domain
        claimed == [w EXCEPT !.ctl = claimRequestedDomain(@, c, domain)]
        Failed(v) == [w |-> [v EXCEPT !.co[c].aw.m_error = "kNotReady"], suspend |-> FALSE]
        Added(r) == IF r.ret < 0 THEN Failed(releaseRegisteredDomainUring(r.w, c))
                    ELSE [w |-> r.w, suspend |-> TRUE]
        Prepared(p) == IF p.completed THEN [w |-> p.w, suspend |-> FALSE]
                       ELSE Added(addSequence(syncMask(p.w)))
    IN  IF CanClaim(w.ctl, c, domain) THEN Prepared(prepareOwnerUring(claimed, c)) ELSE Failed(w)

(* await_resume: only an awaitable still in its slot is taken out; accept and
   recv then allow the next result to be assigned. *)
resumeIOAwaitable(w, c) ==
    LET a == AwaitableOf(w.co[c].aw.event)
        left == IF w.ctl.m_awaitable[a.slot] = c THEN removeAwaitableUring(w, a) ELSE w
    IN  [left EXCEPT !.u.m_accept_result_assigned = @ /\ a.event # "ACCEPT",
                     !.u.m_recv_result_assigned = @ /\ a.event # "RECV"]
onCompleted(w, c) ==
    IF \E s \in Slots : w.ctl.m_sequence_owner[s] = c THEN releaseRegisteredDomainUring(w, c) ELSE w

Delivered(aw) == IF isSequence(aw) \/ aw.m_result.code # "kTimeout" THEN aw.data ELSE <<>>

Orphaned(requests, c) ==
    [i \in DOMAIN requests |-> [requests[i] EXCEPT !.orphan = @ \/ requests[i].by = c]]
Finish(w, c) ==
    LET aw == w.co[c].aw
        left == IF isSequence(aw) THEN onCompleted(w, c) ELSE resumeIOAwaitable(w, c)
    IN  /\ Become([left EXCEPT !.co[c] = Idle, !.sq = Orphaned(@, c), !.cq = Orphaned(@, c)])
        /\ got' = got \o Delivered(aw)

(* Coroutines. *)
Await(c) == \E aw \in prog[c].aws, fault, stop, gone \in BOOLEAN :
    LET w == [W(fault) EXCEPT !.stop = stop, !.gone = gone,
                              !.co[c] = [pc |-> "suspended", aw |-> aw,
                                         timer |-> IF prog[c].timed THEN "armed" ELSE "off"]]
        Suspended(s) == IF s.suspend THEN Become(s.w) /\ UNCHANGED got ELSE Finish(s.w, c)
    IN  /\ ~polling /\ Spare
        /\ co[c].pc = "idle"
        /\ MayFail(fault)
        /\ Suspended(IF isSequence(aw) THEN suspendSequenceAwaitable(w, c)
                     ELSE suspendRegisteredAwaitable(w, c))
        /\ UNCHANGED <<prog, zc, polling, sent, ended>>

Timeouted(aw) == IF aw.kind = "machine" THEN markTimeout(aw)
                 ELSE [aw EXCEPT !.m_result = Err("kTimeout")]
Resume(c) ==
    /\ ~polling
    /\ co[c].pc = "queued"
    /\ Finish(IF co[c].timer = "fired" THEN [W(FALSE) EXCEPT !.co[c].aw = Timeouted(@)]
              ELSE W(FALSE), c)
    /\ UNCHANGED <<prog, zc, polling, sent, faults, ended>>

TimerFires(c) ==
    /\ ~polling
    /\ co[c].timer = "armed"
    /\ Become(wakeUp([W(FALSE) EXCEPT !.co[c].timer = "fired"], c))
    /\ UNCHANGED <<prog, zc, polling, sent, got, faults, ended>>

Close == \E fault \in BOOLEAN :
    /\ ~polling /\ sock.open
    /\ MayFail(fault)
    /\ Become(addClose(W(fault)))
    /\ UNCHANGED <<prog, zc, polling, sent, got, ended>>

(* The socket object is moved while nobody waits on it. *)
Move ==
    /\ ~polling
    /\ \A c \in Coroutine : co[c].pc = "idle"
    /\ Become(moveController(W(FALSE)))
    /\ UNCHANGED <<prog, zc, polling, sent, got, faults, ended>>

-----------------------------------------------------------------------------
(* The loop. *)
Poll == /\ ~polling /\ cq # <<>>
        /\ \A c \in Coroutine : co[c].pc # "queued"
        /\ polling' = TRUE
        /\ UNCHANGED <<prog, zc, ctl, sock, co, u, bufs, sq, cq, sent, got, faults, ended>>

Process == \E fault, stop, gone \in BOOLEAN :
    LET Processed(w) == Become(w) /\ polling' = (w.cq # <<>>)
    IN  /\ polling
        /\ MayFail(fault)
        /\ Processed(processCompletion([W(fault) EXCEPT !.cq = Tail(@), !.stop = stop,
                                                        !.gone = gone], Head(cq)))
        /\ UNCHANGED <<prog, zc, sent, got, ended>>

(* IOScheduler::remove, of a socket nobody waits on. *)
Remove == \E fault \in BOOLEAN :
    /\ ~polling /\ sock.open
    /\ \A c \in Coroutine : co[c].pc = "idle"
    /\ MayFail(fault)
    /\ Become(remove(W(fault)))
    /\ UNCHANGED <<prog, zc, polling, sent, got, ended>>

-----------------------------------------------------------------------------
(* The kernel (external).  Outcome is what the i-th request would complete
   with now; EAGAIN means that it stays in flight. *)
Outcome(op) ==
    CASE op = "BADF" -> Refuse("EBADF", sock)
      [] op \in {"RECV*", "ACCEPT*"} ->
            IF op = "RECV*" /\ sock.inq # <<>> /\ ~sock.err /\ bufs = 0
            THEN Refuse("ENOBUFS", sock)
            ELSE ReadCall(sock, IF op = "RECV*" THEN BufferSize ELSE 1)
      [] op = "POLLIN" -> IF Readable(sock) THEN Return(1, <<>>, sock) ELSE Refuse("EAGAIN", sock)
      [] op = "POLLOUT" -> IF Writable(sock) THEN Return(1, <<>>, sock) ELSE Refuse("EAGAIN", sock)
      [] op = "CONNECTING" ->
            IF sock.conn = "connected" THEN Return(0, <<>>, sock)
            ELSE IF sock.conn = "refused"
            THEN Refuse("ECONNREFUSED", [sock EXCEPT !.conn = "idle"]) ELSE Refuse("EAGAIN", sock)
      [] op = "CONNECT" -> Refuse("EALREADY", sock)
      [] op = "NOTIF" -> Return(0, <<>>, sock)
      [] OTHER -> Call(sock, op)

Without(s, i) == SubSeq(s, 1, i - 1) \o SubSeq(s, i + 1, Len(s))

(* A multishot request may stay for more; a zero-copy send that took the bytes
   stays until its notification, one that failed may or may not. *)
CanComplete(i) == sq[i].op \in {"BADF", "NOTIF"} \/ (sock.open /\ Outcome(sq[i].op).errno # "EAGAIN")
Complete(i) == \E more \in BOOLEAN :
    LET q == sq[i]
        s == Outcome(q.op)
        taken == s.ret > 0
        zero_copy == q.op = "SEND" /\ u.tok["WRITE"][q.id].notify_expected
    IN  /\ CanComplete(i)
        /\ CASE q.op \in {"RECV*", "ACCEPT*"} -> more => taken
             [] zero_copy -> taken => more
             [] OTHER -> ~more
        /\ cq' = Append(cq, Completion(q, s, more, q.op = "NOTIF"))
        /\ sq' = IF more /\ zero_copy THEN [sq EXCEPT ![i].op = "NOTIF"]
                 ELSE IF more THEN sq ELSE Without(sq, i)
        /\ bufs' = IF q.op = "RECV*" /\ taken THEN bufs - 1 ELSE bufs
        /\ sock' = s.sock
        /\ ended' = (ended \/ s.errno = "ENOBUFS")
        /\ UNCHANGED <<kernelFree, sent, faults>>

(* A request is interrupted.  (A multishot receive: EndRecv.) *)
Interrupt == \E i \in DOMAIN sq :
    /\ sq[i].op \notin {"BADF", "NOTIF", "RECV*"}
    /\ faults < MaxFaults /\ faults' = faults + 1
    /\ cq' = Append(cq, Completion(sq[i], Refuse("EINTR", sock), FALSE, FALSE))
    /\ sq' = Without(sq, i)
    /\ UNCHANGED <<kernelFree, sock, bufs, sent, ended>>

(* A multishot receive ends without a byte: bytes arrive while other sockets hold every
   provided buffer, or it is interrupted.  At most once. *)
EndRecv == \E i \in DOMAIN sq, errno \in {"ENOBUFS", "EINTR"} :
    /\ sq[i].op = "RECV*" /\ (errno = "ENOBUFS" => sock.inq # <<>>)
    /\ ~ended /\ ended' = TRUE
    /\ cq' = Append(cq, Completion(sq[i], Refuse(errno, sock), FALSE, FALSE))
    /\ sq' = Without(sq, i)
    /\ UNCHANGED <<kernelFree, sock, bufs, sent, faults>>

(* The peer. *)
Peer(s) == sock' = s /\ UNCHANGED <<kernelFree, bufs, sq, cq, faults, ended>>
Linked == sock.open /\ ~sock.err /\ sock.conn = "connected"
Arrive == /\ Linked /\ Reads /\ ~sock.fin /\ sent < MaxBytes
          /\ sent' = sent + 1
          /\ Peer([sock EXCEPT !.inq = Append(@, sent + 1)])
PeerCloses == Linked /\ HasEnd /\ ~sock.fin /\ Peer([sock EXCEPT !.fin = TRUE]) /\ UNCHANGED sent
PeerResets == Linked /\ "FILEWATCH" \notin Uses /\ Peer([sock EXCEPT !.err = TRUE]) /\ UNCHANGED sent
Drain == Linked /\ sock.room < MaxRoom /\ Peer([sock EXCEPT !.room = MaxRoom]) /\ UNCHANGED sent
Connected == \E answer \in {"connected", "refused"} :
    /\ sock.open /\ sock.conn = "connecting"
    /\ Peer([sock EXCEPT !.conn = answer])
    /\ UNCHANGED sent

Next == \/ \E c \in Coroutine : Await(c) \/ Resume(c) \/ TimerFires(c)
        \/ Close \/ Move \/ Remove \/ Poll \/ Process
        \/ \E i \in DOMAIN sq : Complete(i)
        \/ Interrupt \/ EndRecv
        \/ Arrive \/ PeerCloses \/ PeerResets \/ Drain \/ Connected

(***************************************************************************)
(* As in ReadinessIO; and the kernel completes the requests it can, in     *)
(* either direction.                                                       *)
(***************************************************************************)
Processes == polling /\ cq' = Tail(cq)
Resumes == \E c \in Coroutine : /\ ~polling /\ co[c].pc = "queued"
                                /\ co' = [co EXCEPT ![c] = Idle]
Polls == /\ ~polling /\ cq # <<>> /\ \A c \in Coroutine : co[c].pc # "queued"
         /\ polling' = TRUE
Completes(s) == \E i \in DOMAIN sq, more \in BOOLEAN :
    /\ sq[i].slot = s /\ CanComplete(i)
    /\ cq' = Append(cq, Completion(sq[i], Outcome(sq[i].op), more, sq[i].op = "NOTIF"))
Fairness == /\ WF_cq(Processes) /\ WF_co(Resumes) /\ SF_polling(Polls)
            /\ \A s \in Slots : WF_cq(Completes(s))

Spec == Init /\ [][Next]_vars /\ Fairness

-----------------------------------------------------------------------------
Waiting(c) == co[c].pc \in {"suspended", "queued"}

(* The requests of a slot that still have a completion or a notification coming. *)
Outstanding(s) == {q.id : q \in {sq[i] : i \in {j \in DOMAIN sq : sq[j].slot = s}}
                              \cup {cq[i] : i \in {j \in DOMAIN cq : cq[j].slot = s}}}

(* Well-typed, and the token of an outstanding request is never on the free
   list, so no late completion can name a request it does not belong to; and a
   slot refers only to coroutines still waiting. *)
TokensSound ==
    /\ bufs \in 0..Pool /\ polling \in BOOLEAN
    /\ \A s \in Slots :
        /\ u.free[s] \cap Outstanding(s) = {}
        /\ ctl.m_awaitable[s] # Nobody => Waiting(ctl.m_awaitable[s])
        /\ ctl.m_sequence_owner[s] # Nobody => Waiting(ctl.m_sequence_owner[s])

(* A completion that arrives after its coroutine has stopped waiting (timed out,
   resumed, closed) changes no awaitable: the generation filters it. *)
LateCompletionIgnored ==
    [][Process /\ Head(cq).orphan => UNCHANGED <<co, got>>]_vars

(* While the socket is open every provided buffer is in the ring, in a
   completion not yet processed, or in the controller's ready queue, those of chunks
   a read took in part included. *)
BuffersAccounted ==
    sock.open => Pool = bufs + Buffers(u.m_ready_recvs)
                      + Cardinality({i \in DOMAIN cq : cq[i].by = Nobody /\ cq[i].ret > 0
                                                       /\ u.m_recv_multishot_armed})

(* The operation c is suspended in could make progress now. *)
EventOf(c) == IF isSequence(co[c].aw) THEN activeOf(W(FALSE))[c] ELSE co[c].aw.event
Ready(c) ==
    /\ co[c].pc = "suspended" /\ sock.open
    /\ IF EventOf(c) \in ReadEvents THEN Readable(sock) ELSE Writable(sock)

(* No coroutine sleeps on an operation that is ready: its request is in flight
   or is submitted again, whatever became of the ones before, unless the kernel
   ended a multishot receive without a byte (EndedRecvIsRearmed).  For sockets that
   do not mix recv() with other reads, as for BuffersAccounted and IsByteStream (with
   the mix none of the three holds: README, "Where the code departs from its
   documentation"). *)
ReadyIsServed ==
    \A c \in Coroutine : []<>(~Ready(c) \/ ended)

(* "After a terminal completion multishot recv is mounted again" (docs/12): a
   receiver whose request ended with ENOBUFS or EINTR is served all the same.
   (Does not hold: README, "Where the code departs from its documentation".) *)
EndedRecvIsRearmed == \A c \in Coroutine : []<>~Ready(c)

(* A coroutine is woken only with an outcome, a timeout, or because its
   sequence could not be submitted again. *)
WokenWithOutcome ==
    \A c \in Coroutine : co[c].pc = "queued" =>
        \/ co[c].timer = "fired"
        \/ IF isSequence(co[c].aw) THEN Ended(co[c].aw) \/ faults > 0
           ELSE co[c].aw.m_result # NotReady

(* Bytes in the kernel, in completions, in the ready queues and in buffers. *)
Held(s) == FoldFunctionOnSet(LAMBDA x, n : Len(x.data) + n, 0, s, DOMAIN s)
InHand == Len(sock.inq) + Held(cq) + Held(u.m_ready_recvs) + Len(u.m_ready_accepts)
          + Held([c \in {d \in Coroutine : Waiting(d)} |-> co[c].aw])
Stream == INSTANCE ByteStream WITH
    lost <- sent - Len(got) - InHand,
    excused <- \/ ~sock.open
               \/ \E c \in Coroutine : co[c].timer = "fired"
               \/ \E i \in DOMAIN cq : cq[i].orphan
               \/ \E c \in Coroutine : Waiting(c) /\ EventOf(c) = "FILEWATCH"

(* What the user receives is the peer's byte stream (ByteStream): only a timeout, whose
   request may still take bytes, or close() excuses missing ones, and of the changes one
   inotify read returns a watcher gets the first. *)
IsByteStream == [][Stream!StreamNext]_(Stream!streamVars)
==============================================================================
