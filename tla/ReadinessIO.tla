----------------------------- MODULE ReadinessIO -----------------------------
(***************************************************************************)
(* Coroutines awaiting I/O on one socket over a readiness back end: the    *)
(* await_suspend and await_resume of awaitable.h and timeout.hpp, the      *)
(* reactor's loop, and the peer and the kernel at the other end.           *)
(*                                                                         *)
(* Each coroutine runs its program, prog[c], again and again: co_await of  *)
(* one of its awaitables, prog[c].aws, under WithTimeout if timed.         *)
(* The scheduler thread runs everything but the peer, so an await or a     *)
(* resumption is one step; between epoll_wait and the handling of what it  *)
(* returned (batch) the peer and the kernel move on.                       *)
(***************************************************************************)
EXTENDS ReadinessCore

CONSTANTS Programs,      \* for each back end, a set of [Coroutine -> [aws, timed]]
          MaxBytes,      \* bytes the peer sends
          MaxRoom,       \* size of the send buffer
          MaxFaults      \* failing epoll_ctl / kevent calls

VARIABLES backend, prog, ctl, sock, co, reg, edge, pend,
          batch,         \* events returned by the wait and not yet processed
          sent, got,     \* bytes sent by the peer, bytes handed to the reader
          faults

world == <<ctl, sock, co, reg, edge, pend>>
vars == <<backend, prog, ctl, sock, co, reg, edge, pend, batch, sent, got, faults>>

E == INSTANCE EpollReactor
K == INSTANCE KqueueReactor

IsConnect(aw) ==
    \/ aw.kind = "plain" /\ aw.event = "CONNECT"
    \/ aw.kind = "machine" /\ \E i \in DOMAIN aw.nodes : aw.nodes[i].kind = "connect"

(* A listening, datagram or watch descriptor has no end of stream. *)
Endless(aw) == aw.kind = "plain" /\ aw.event \in {"ACCEPT", "RECVFROM", "FILEWATCH"}
Awaited == UNION {prog[c].aws : c \in Coroutine}
HasEnd == \A aw \in Awaited : ~Endless(aw)
HasPeer == Plain("FILEWATCH") \notin Awaited

Idle == [pc |-> "idle", aw |-> NoAwaitable, timer |-> "off"]

Init ==
    /\ backend \in DOMAIN Programs
    /\ prog \in Programs[backend]
    /\ ctl = NewController
    /\ sock = [open |-> TRUE, inq |-> <<>>, fin |-> FALSE, err |-> FALSE, room |-> MaxRoom,
               conn |-> IF \E aw \in Awaited : IsConnect(aw) THEN "idle" ELSE "connected"]
    /\ co = [c \in Coroutine |-> Idle]
    /\ reg = {} /\ edge = {} /\ pend = E!NoChange /\ batch = {}
    /\ sent = 0 /\ got = <<>> /\ faults = 0

W(fault, full) == [ctl |-> ctl, sock |-> sock, co |-> co, reg |-> reg, edge |-> edge,
                   pend |-> pend, fault |-> fault, full |-> full]

Become(w) == /\ ctl' = w.ctl /\ sock' = w.sock /\ co' = w.co
             /\ reg' = w.reg /\ edge' = w.edge /\ pend' = w.pend

(* A call into the reactor: the kernel may refuse it a few times. *)
MayFail(fault) == /\ fault => faults < MaxFaults
                  /\ faults' = IF fault THEN faults + 1 ELSE faults

-----------------------------------------------------------------------------
(* awaitable.cc: the scheduler's add call for the event. *)
registerEpoll(w, event, c) ==
    CASE event = "ACCEPT" -> E!addAccept(w, c)
      [] event = "CONNECT" -> E!addConnect(w, c)
      [] event = "RECV" -> E!addRecv(w, c)
      [] event = "SEND" -> E!addSend(w, c)
      [] event = "READV" -> E!addReadv(w, c)
      [] event = "WRITEV" -> E!addWritev(w, c)
      [] event = "SENDFILE" -> E!addSendFile(w, c)
      [] event = "RECVFROM" -> E!addRecvFrom(w, c)
      [] event = "SENDTO" -> E!addSendTo(w, c)
      [] event = "FILEWATCH" -> E!addFileWatch(w, c)
      [] event = "SEQUENCE" -> E!addSequence(w, c)
registerKqueue(w, event, c) ==
    CASE event = "ACCEPT" -> K!addAccept(w, c)
      [] event = "CONNECT" -> K!addConnect(w, c)
      [] event = "RECV" -> K!addRecv(w, c)
      [] event = "SEND" -> K!addSend(w, c)
      [] event = "READV" -> K!addReadv(w, c)
      [] event = "WRITEV" -> K!addWritev(w, c)
      [] event = "SENDFILE" -> K!addSendFile(w, c)
      [] event = "FILEREAD" -> K!addFileRead(w, c)
      [] event = "FILEWRITE" -> K!addFileWrite(w, c)
      [] event = "RECVFROM" -> K!addRecvFrom(w, c)
      [] event = "SENDTO" -> K!addSendTo(w, c)
      [] event = "FILEWATCH" -> K!addFileWatch(w, c)
      [] event = "SEQUENCE" -> K!addSequence(w, c)
registerIOSchedulerEvent(w, event, c) ==
    IF backend = "epoll" THEN registerEpoll(w, event, c) ELSE registerKqueue(w, event, c)

(* Both await_suspends answer [w, suspend]. *)
finalizeAwaitableAddResult(a, code, c) ==
    [w |-> IF a.ret = -1 THEN [a.w EXCEPT !.co[c].aw.m_result = Err(code)] ELSE a.w,
     suspend |-> a.ret = 0]

suspendRegisteredAwaitable_Unchecked(w, c) ==
    LET a == AwaitableOf(w.co[c].aw.event)
        filled == [w EXCEPT !.ctl = fillAwaitable(@, a, c)]
    IN  finalizeAwaitableAddResult(registerIOSchedulerEvent(filled, a.event, c), a.code, c)
suspendRegisteredAwaitable(w, c) ==
    LET a == AwaitableOf(w.co[c].aw.event)
        filled == [w EXCEPT !.ctl = fillAwaitable(@, a, c)]
    IN  IF SlotOwned(w.ctl, a) THEN [w |-> w, suspend |-> FALSE]
        ELSE finalizeAwaitableAddResult(registerIOSchedulerEvent(filled, a.event, c),
                                        a.code, c)

Released(w, c) ==
    [w EXCEPT !.ctl = releaseRegisteredDomain(@, c, activeOf(w))]

SequenceAdded(a, c) ==
    IF a.ret < 0
    THEN [w |-> [Released(a.w, c) EXCEPT !.co[c].aw.m_error = "kNotReady"], suspend |-> FALSE]
    ELSE [w |-> a.w, suspend |-> a.ret = 0]
SequencePrepared(p, c) ==
    IF p.completed THEN [w |-> p.w, suspend |-> FALSE]
    ELSE SequenceAdded(registerIOSchedulerEvent(syncMask(p.w), "SEQUENCE", c), c)
suspendSequenceAwaitable(w, c) ==
    LET domain == w.co[c].aw.domain
        claimed == [w EXCEPT !.ctl = claimRequestedDomain(@, c, domain)]
    IN  IF CanClaim(w.ctl, c, domain) THEN SequencePrepared(prepareOwner(claimed, c), c)
        ELSE [w |-> [w EXCEPT !.co[c].aw.m_error = "kNotReady"], suspend |-> FALSE]

(* await_resume: resumeIOAwaitable, or onCompleted of a sequence. *)
resumeIOAwaitable(w, c) ==
    [w EXCEPT !.ctl = removeAwaitable(@, AwaitableOf(w.co[c].aw.event))]
onCompleted(w, c) ==
    IF \E s \in Slots : w.ctl.m_sequence_owner[s] = c THEN Released(w, c) ELSE w

(* The bytes the user now holds: what a sequence's flow object has seen. *)
Delivered(aw) ==
    IF isSequence(aw) \/ (aw.kind = "plain" /\ aw.m_result.ok) THEN aw.data ELSE <<>>

Finish(w, c) ==
    LET aw == w.co[c].aw
        left == IF isSequence(aw) THEN onCompleted(w, c) ELSE resumeIOAwaitable(w, c)
    IN  /\ Become([left EXCEPT !.co[c] = Idle])
        /\ got' = got \o Delivered(aw)

-----------------------------------------------------------------------------
(* Coroutines. *)
Suspended(s, c) ==
    IF s.suspend
    THEN /\ Become([s.w EXCEPT !.co[c].pc = "suspended",
                               !.co[c].timer = IF prog[c].timed THEN "armed" ELSE "off"])
         /\ UNCHANGED got
    ELSE Finish(s.w, c)
Await(c) == \E aw \in prog[c].aws, fault, full \in BOOLEAN :
    LET w == [W(fault, full) EXCEPT !.co[c].aw = aw]
    IN  /\ batch = {}
        /\ co[c].pc = "idle"
        /\ MayFail(fault)
        /\ Suspended(IF isSequence(aw) THEN suspendSequenceAwaitable(w, c)
                     ELSE suspendRegisteredAwaitable(w, c), c)
        /\ UNCHANGED <<backend, prog, batch, sent>>

(* WithTimeout::await_resume. *)
Timeouted(aw) == IF aw.kind = "machine" THEN markTimeout(aw)
                 ELSE [aw EXCEPT !.m_result = Err("kTimeout")]
Resume(c) ==
    LET w == W(FALSE, FALSE)
    IN  /\ batch = {}
        /\ co[c].pc = "queued"
        /\ Finish(IF co[c].timer = "fired" THEN [w EXCEPT !.co[c].aw = Timeouted(@)] ELSE w, c)
        /\ UNCHANGED <<backend, prog, batch, sent, faults>>

(* TimeoutTimer::handleTimeout, from the loop's timer tick. *)
TimerFires(c) ==
    /\ batch = {}
    /\ co[c].timer = "armed"
    /\ Become(wakeUp([W(FALSE, FALSE) EXCEPT !.co[c].timer = "fired"], c))
    /\ UNCHANGED <<backend, prog, batch, sent, got, faults>>

(* CloseAwaitable: synchronous, and nobody is woken. *)
Close ==
    LET w == W(FALSE, FALSE)
    IN  /\ batch = {}
        /\ sock.open
        /\ Become(IF backend = "epoll" THEN E!addClose(w) ELSE K!addClose(w))
        /\ UNCHANGED <<backend, prog, batch, sent, got, faults>>

(* IOScheduler::remove, of a socket nobody waits on. *)
Remove == \E full \in BOOLEAN :
    LET w == W(FALSE, full)
    IN  /\ batch = {}
        /\ \A c \in Coroutine : co[c].pc = "idle"
        /\ Become(IF backend = "epoll" THEN E!remove(w) ELSE K!remove(w))
        /\ UNCHANGED <<backend, prog, batch, sent, got, faults>>

-----------------------------------------------------------------------------
(* The loop: changes are flushed on every turn; it polls only when nobody is queued. *)
Flush == \E fault \in BOOLEAN :
    /\ batch = {} /\ backend = "epoll" /\ pend # E!NoChange
    /\ MayFail(fault)
    /\ Become(E!flushPendingChanges(W(fault, FALSE)).w)
    /\ UNCHANGED <<backend, prog, batch, sent, got>>

PollEpoll == \E fault \in BOOLEAN :
    LET f == E!flushPendingChanges(W(fault, FALSE))
        flags == E!epoll_wait(f.w)
    IN  /\ batch = {} /\ backend = "epoll"
        /\ \A c \in Coroutine : co[c].pc # "queued"
        /\ pend # E!NoChange \/ edge # {}
        /\ MayFail(fault)
        /\ IF f.ret < 0 THEN Become(f.w) /\ UNCHANGED batch
           ELSE /\ Become([f.w EXCEPT !.edge = {}])
                /\ batch' = IF f.w.edge # {} /\ flags # {} THEN {flags} ELSE {}
        /\ UNCHANGED <<backend, prog, sent, got>>

PollKqueue ==
    /\ batch = {} /\ backend = "kqueue"
    /\ \A c \in Coroutine : co[c].pc # "queued"
    /\ edge # {}
    /\ batch' = K!kevent(W(FALSE, FALSE))
    /\ edge' = {}
    /\ UNCHANGED <<backend, prog, ctl, sock, co, reg, pend, sent, got, faults>>

Process == \E event \in batch, fault, full \in BOOLEAN :
    /\ MayFail(fault)
    /\ Become(IF backend = "epoll" THEN E!processEvent(W(fault, full), event)
              ELSE K!processEvent(W(fault, full), event))
    /\ batch' = batch \ {event}
    /\ UNCHANGED <<backend, prog, sent, got>>

-----------------------------------------------------------------------------
(* The peer and the kernel.  A change of the descriptor's state is an edge. *)
Report(s, event) ==
    /\ sock' = s
    /\ edge' = IF backend = "epoll" THEN E!Edge(edge, reg, event)
               ELSE edge \cup (reg \cap event)
    /\ UNCHANGED <<backend, prog, ctl, co, reg, pend, batch, got, faults>>

Arrive == /\ sock.open /\ ~sock.fin /\ ~sock.err /\ sock.conn = "connected"
          /\ sent < MaxBytes
          /\ sent' = sent + 1
          /\ Report([sock EXCEPT !.inq = Append(@, sent + 1)], {"READ", "VNODE"})

PeerCloses == /\ HasEnd /\ sock.open /\ ~sock.fin /\ ~sock.err /\ sock.conn = "connected"
              /\ Report([sock EXCEPT !.fin = TRUE], {"READ"})
              /\ UNCHANGED sent

PeerResets == /\ HasPeer /\ sock.open /\ ~sock.err /\ sock.conn = "connected"
              /\ Report([sock EXCEPT !.err = TRUE], Slots)
              /\ UNCHANGED sent

Drain == /\ sock.open /\ ~sock.err /\ sock.room < MaxRoom
         /\ Report([sock EXCEPT !.room = MaxRoom], {"WRITE"})
         /\ UNCHANGED sent

Connected == \E answer \in {"connected", "refused"} :
    /\ sock.open /\ sock.conn = "connecting"
    /\ Report([sock EXCEPT !.conn = answer], {"WRITE"})
    /\ UNCHANGED sent

Next == \/ \E c \in Coroutine : Await(c) \/ Resume(c) \/ TimerFires(c)
        \/ Close \/ Remove \/ Flush \/ PollEpoll \/ PollKqueue \/ Process
        \/ Arrive \/ PeerCloses \/ PeerResets \/ Drain \/ Connected

(***************************************************************************)
(* The scheduler thread keeps running its loop: what was returned is       *)
(* processed and who is queued resumes (weak fairness), and whenever the   *)
(* queue drains the loop flushes and polls, before a timer armed since can *)
(* be due (strong fairness).  Each step is named by what it does to one    *)
(* variable.                                                               *)
(***************************************************************************)
Turn == batch = {} /\ \A c \in Coroutine : co[c].pc # "queued"
Processes == \E event \in batch : batch' = batch \ {event}
Resumes == \E c \in Coroutine : /\ batch = {} /\ co[c].pc = "queued"
                                /\ co' = [co EXCEPT ![c] = Idle]
Flushes == Turn /\ backend = "epoll" /\ pend # E!NoChange /\ pend' = E!NoChange
Polls == Turn /\ edge # {} /\ edge' = {}
Fairness == WF_batch(Processes) /\ WF_co(Resumes) /\ SF_pend(Flushes) /\ SF_edge(Polls)

Spec == Init /\ [][Next]_vars /\ Fairness

-----------------------------------------------------------------------------
Waiting(c) == co[c].pc \in {"suspended", "queued"}

(* What the coroutines are suspended in, for SlotOwnership. *)
Own == INSTANCE SlotOwnership WITH
    waits <- [c \in Coroutine |->
                IF ~Waiting(c) THEN [kind |-> "none"]
                ELSE IF isSequence(co[c].aw)
                THEN [kind |-> "sequence", domain |-> co[c].aw.domain]
                ELSE [kind |-> "plain", a |-> AwaitableOf(co[c].aw.event)]]

(* Every step uses the controller's slots the way SlotOwnership
   allows: nobody stores an awaitable in a slot a sequence owns, claims a slot that
   is used, or leaves without taking out what it stored.  (RuntimeProofs:
   then the slots are sound.) *)
KeepsSlotProtocol == [][Own!SlotNext]_(Own!slotVars)

(* The operation c is suspended in could make progress now. *)
EventOf(c) == IF isSequence(co[c].aw) THEN activeOf(W(FALSE, FALSE))[c] ELSE co[c].aw.event
Ready(c) ==
    /\ co[c].pc = "suspended" /\ sock.open /\ EventOf(c) # "FILEWATCH"
    /\ IF EventOf(c) \in ReadEvents THEN Readable(sock) ELSE Writable(sock)

(* c waits in watch(), and the kernel has a change yet to report. *)
Watching(c) == co[c].pc = "suspended" /\ sock.open /\ EventOf(c) = "FILEWATCH"
Reportable == edge # {} /\ (backend = "epoll" => Readable(sock))

(* No coroutine sleeps on an operation that is ready: the reactor serves it,
   through lost races with the edge-triggered wait and refused registrations.
   A watcher, which reads nothing before it waits, is woken by every change the
   kernel reports while it waits. *)
ReadyIsServed == \A c \in Coroutine :
    /\ []<>~Ready(c)
    /\ Watching(c) /\ Reportable ~> ~Watching(c)

(* file_watcher.h:129: watch() waits for the next event, one that came between two
   watch() calls included: nobody waits in it beside an unread inotify event.
   (Does not hold: README, "Where the code departs from its documentation".) *)
UnreadIsReported == \A c \in Coroutine :
    Watching(c) /\ backend = "epoll" /\ Readable(sock) ~> ~Watching(c)

(* kqueue_reactor.h:49: a recv that addRecv answered 0 is registered (it is served
   when data arrives), whatever sequences the socket ran before or runs beside it.
   (Does not hold: README, "Where the code departs from its documentation".) *)
RegisteredIsServed ==
    \A c \in Coroutine : Ready(c) /\ co[c].aw.kind = "plain" ~> ~Ready(c)

(* Well-typed, and a coroutine is woken only with an outcome, a timeout, or
   because its sequence could not be registered again: a parser that wants more
   bytes leaves it suspended. *)
WokenWithOutcome == \A c \in Coroutine :
    /\ co[c].pc \in {"idle", "suspended", "queued"}
    /\ co[c].pc = "queued" =>
        \/ co[c].timer = "fired"
        \/ IF isSequence(co[c].aw) THEN Ended(co[c].aw) \/ faults > 0
           ELSE co[c].aw.m_result # NotReady

(* Bytes in the kernel and in the buffers of waiting coroutines. *)
InHand == Len(sock.inq) + (IF \E c \in Coroutine : Waiting(c) /\ co[c].aw.data # <<>>
                           THEN Len(co[CHOOSE c \in Coroutine : Waiting(c) /\ co[c].aw.data # <<>>].aw.data)
                           ELSE 0)
Stream == INSTANCE ByteStream WITH
    lost <- sent - Len(got) - InHand,
    excused <- \/ \E c \in Coroutine : co[c].timer = "fired"
               \/ \E c \in Coroutine : Waiting(c) /\ EventOf(c) = "FILEWATCH"

(* What the user receives is the peer's byte stream (ByteStream): only a timer that
   fires after the bytes were read excuses missing ones, and of the changes one inotify
   read returns a watcher gets the first. *)
IsByteStream == [][Stream!StreamNext]_(Stream!streamVars)
==============================================================================
