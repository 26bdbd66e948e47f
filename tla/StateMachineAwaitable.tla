------------------------ MODULE StateMachineAwaitable ------------------------
(***************************************************************************)
(* StateMachineAwaitable over the LinearMachine that AwaitableBuilder      *)
(* builds (kernel/awaitable.h): several I/O operations, a parser and local *)
(* steps run by the reactor as one co_await.                               *)
(*                                                                         *)
(* The awaitable and its machine are one record m: the machine's nodes,    *)
(* m_cursor, m_pending_io and m_result ("machine"), the awaitable's active *)
(* operation, m_result and m_error, and the user's flow object, reduced to *)
(* the bytes received (data), how many of them are unparsed (have) and the *)
(* frames parsed.  The flow is the one the guides show: its I/O handlers   *)
(* only look for end of stream, its parser wants FrameSize bytes per frame *)
(* and Frames frames, its finish handler completes with the frame count.   *)
(***************************************************************************)
EXTENDS KernelSocket

CONSTANTS kInlineTransitionCap,   \* 64 in the code
          FrameSize, Frames

None == "none"

EventOfKind == [kRead |-> "RECV", kReadv |-> "READV", kWrite |-> "SEND",
                kWritev |-> "WRITEV", kConnect |-> "CONNECT"]
KindOfNode == [recv |-> "kRead", readv |-> "kReadv", send |-> "kWrite",
               writev |-> "kWritev", connect |-> "kConnect"]
IONodes == DOMAIN KindOfNode

(***************************************************************************)
(* AwaitableBuilder: calls is the chain of builder calls.  parse() re-arms *)
(* the last recv or readv before it (0 is kInvalidIndex); the domain is    *)
(* what the nodes use.  "recv0" is a recv with an empty buffer, "queue" a  *)
(* local handler that queues a step, which a builder flow may not do.      *)
(***************************************************************************)
node(kind, length, rearm) == [kind |-> kind, length |-> length, rearm |-> rearm]

m_last_recv_index(calls, i) ==
    LET before == {j \in 1..(i - 1) : calls[j] \in {"recv", "recv0", "readv"}}
    IN  IF before = {} THEN 0 ELSE CHOOSE j \in before : \A k \in before : k <= j

buildNodes(calls) ==
    [i \in 1..Len(calls) |->
        CASE calls[i] = "recv0" -> node("recv", 0, 0)
          [] calls[i] = "parse" -> node("parse", 0, m_last_recv_index(calls, i))
          [] OTHER -> node(calls[i], 1, 0)]

buildImpl(calls) ==
    LET nodes == buildNodes(calls)
        has_read == \E i \in DOMAIN nodes : nodes[i].kind \in {"recv", "readv"}
        has_write == \E i \in DOMAIN nodes : nodes[i].kind \in {"send", "writev", "connect"}
    IN  [kind |-> "machine", nodes |-> nodes,
         domain |-> IF has_read /\ ~has_write THEN "Read"
                    ELSE IF has_write /\ ~has_read THEN "Write" ELSE "ReadWrite",
         m_cursor |-> 1, m_pending_io |-> "kNone", machine |-> NoResult,
         m_active_kind |-> "kNone", m_result |-> NoResult, m_error |-> None,
         data |-> <<>>, have |-> 0, frames |-> 0]

-----------------------------------------------------------------------------
(* LinearMachine.  ops is what a handler did through SequenceOps. *)
NoOps == [complete |-> NoResult, fail |-> None, queued |-> FALSE]

setIOError(m, code) == [m EXCEPT !.machine = Err(code)]

Absorbs(ops) == ops # NoOps
absorbOpsOutcome(m, ops) ==
    IF ops.complete # NoResult THEN [m EXCEPT !.machine = ops.complete]
    ELSE IF ops.fail # None THEN setIOError(m, ops.fail)
    ELSE setIOError(m, "kParamInvalid")

(* The flow's handlers (the user's code). *)
ioHandler(m, n, r) ==
    IF r.ok /\ r.n = 0 /\ n.length > 0 /\ n.kind \in {"recv", "readv"}
    THEN [NoOps EXCEPT !.fail = "kDisconnectError"] ELSE NoOps
localHandler(m, n) ==
    CASE n.kind = "finish" -> [NoOps EXCEPT !.complete = Ok(m.frames)]
      [] n.kind = "queue" -> [NoOps EXCEPT !.queued = TRUE]
      [] n.kind = "local" -> NoOps
parseStatus(m) ==
    IF m.have < FrameSize THEN "kNeedMore"
    ELSE IF m.frames + 1 < Frames THEN "kContinue" ELSE "kCompleted"
Parsed(m) == IF m.have < FrameSize THEN m
             ELSE [m EXCEPT !.have = @ - FrameSize, !.frames = @ + 1]

(* invokeIONode, clearPendingIO and the tail of onRead, onWrite, onConnect. *)
DeliverTo(m, kinds, r) ==
    IF m.m_pending_io \notin kinds THEN setIOError(m, "kParamInvalid")
    ELSE LET n == m.nodes[m.m_cursor]
             ops == ioHandler(m, n, r)
             done == [m EXCEPT !.m_pending_io = "kNone"]
         IN  IF Absorbs(ops) THEN absorbOpsOutcome(done, ops)
             ELSE IF ~r.ok THEN setIOError(done, r.code)
             ELSE [done EXCEPT !.m_cursor = @ + 1]

onRead(m, r) == DeliverTo(m, {"kRead", "kReadv"}, r)
onWrite(m, r) == DeliverTo(m, {"kWrite", "kWritev"}, r)
onConnect(m, r) == DeliverTo(m, {"kConnect"}, r)

emitActionFromOutcome(m) ==
    [m |-> m, signal |-> IF m.machine # NoResult THEN "kComplete" ELSE "kContinue"]

runLocal(m, n) ==
    LET ops == localHandler(m, n)
    IN  IF Absorbs(ops) THEN emitActionFromOutcome(absorbOpsOutcome(m, ops))
        ELSE [m |-> [m EXCEPT !.m_cursor = @ + 1], signal |-> "kContinue"]

runParse(m, n) ==
    LET status == parseStatus(m)
        next == CASE status = "kNeedMore" -> n.rearm
                  [] status = "kContinue" -> m.m_cursor
                  [] status = "kCompleted" -> m.m_cursor + 1
    IN  IF next = 0 THEN emitActionFromOutcome(setIOError(m, "kParamInvalid"))
        ELSE [m |-> [Parsed(m) EXCEPT !.m_cursor = next], signal |-> "kContinue"]

(* An I/O node asks for its wait; the signal is the wait's kind. *)
waitIO(m, n) == [m |-> [m EXCEPT !.m_pending_io = KindOfNode[n.kind]],
                 signal |-> KindOfNode[n.kind]]

advance(m) ==
    IF m.machine # NoResult THEN [m |-> m, signal |-> "kComplete"]
    ELSE IF m.m_cursor > Len(m.nodes)
    THEN emitActionFromOutcome(setIOError(m, "kNotReady"))
    ELSE LET n == m.nodes[m.m_cursor]
         IN  CASE n.kind \in IONodes -> waitIO(m, n)
               [] n.kind = "parse" -> runParse(m, n)
               [] OTHER -> runLocal(m, n)

-----------------------------------------------------------------------------
(* StateMachineAwaitable. *)
clearActiveTask(m) == [m EXCEPT !.m_active_kind = "kNone"]
failWith(m, code) == [clearActiveTask(m) EXCEPT !.m_error = code]

deliverConnect(m, r) == onConnect(m, r)

deliver(m, kind, r) ==
    CASE kind \in {"kRead", "kReadv"} -> onRead(m, r)
      [] kind \in {"kWrite", "kWritev"} -> onWrite(m, r)
      [] kind = "kConnect" -> deliverConnect(m, r)
      [] OTHER -> m

Ended(m) == m.m_result # NoResult \/ m.m_error # None

RECURSIVE pump(_, _), dispatchAction(_, _)
dispatchAction(a, i) ==
    CASE a.signal = "kContinue" -> pump(a.m, i + 1)
      [] a.signal = "kComplete" ->
            [m |-> [clearActiveTask(a.m) EXCEPT !.m_result = a.m.machine],
             progress |-> "kCompleted"]
      [] OTHER ->
            IF a.signal # "kConnect" /\ a.m.nodes[a.m.m_cursor].length = 0
            THEN pump(deliver(a.m, a.signal, Ok(0)), i + 1)
            ELSE [m |-> [a.m EXCEPT !.m_active_kind = a.signal], progress |-> "kNeedWait"]
pump(m, i) ==
    IF i = kInlineTransitionCap
    THEN [m |-> failWith(m, "kParamInvalid"), progress |-> "kCompleted"]
    ELSE IF Ended(m) THEN [m |-> m, progress |-> "kCompleted"]
    ELSE IF m.m_active_kind # "kNone" THEN [m |-> m, progress |-> "kNeedWait"]
    ELSE dispatchAction(advance(m), i)

(* The readiness back ends try the operation before they wait for it. *)
Received(m, s) == [m EXCEPT !.data = @ \o s.data, !.have = @ + Len(s.data)]

RECURSIVE prepareForSubmit(_, _, _), Attempted(_, _, _), Pumped(_, _, _)
Attempted(m, s, i) ==
    LET r == handler(EventOfKind[m.m_active_kind], s)
    IN  IF r = NotReady THEN [m |-> m, sock |-> s.sock, progress |-> "kNeedWait"]
        ELSE prepareForSubmit(deliver(Received(clearActiveTask(m), s), m.m_active_kind, r),
                              s.sock, i)
Pumped(p, sock, i) ==
    IF p.progress = "kCompleted" THEN [m |-> p.m, sock |-> sock, progress |-> "kCompleted"]
    ELSE Attempted(p.m, Call(sock, EventOfKind[p.m.m_active_kind]), i + 1)
prepareForSubmit(m, sock, i) ==
    IF i = kInlineTransitionCap
    THEN [m |-> failWith(m, "kParamInvalid"), sock |-> sock, progress |-> "kCompleted"]
    ELSE Pumped(pump(m, 0), sock, i)

onActiveEvent(m, sock) ==
    IF m.m_active_kind = "kNone" THEN prepareForSubmit(m, sock, 0)
    ELSE Attempted(m, Call(sock, EventOfKind[m.m_active_kind]), 0)

(* io_uring: s is the completion of the active operation. *)
prepareForSubmitUring(m) == pump(m, 0)
onActiveEventUring(m, s) ==
    LET kind == m.m_active_kind
        r == cqeHandler(EventOfKind[kind], s)
    IN  IF kind # "kNone" /\ r = NotReady THEN [m |-> m, progress |-> "kNeedWait"]
        ELSE pump(IF kind = "kNone" THEN m
                  ELSE deliver(Received(clearActiveTask(m), s), kind, r), 0)

(* WithTimeout::await_resume when the timer has fired. *)
TimedOut(m) == IF Ended(m) THEN m ELSE [m EXCEPT !.m_error = "kTimeout"]
markTimeout(m) ==
    TimedOut(pump(deliver(clearActiveTask(m), m.m_active_kind, Err("kTimeout")), 0).m)

activeEventType(m) ==
    IF m.m_active_kind = "kNone" THEN "INVALID" ELSE EventOfKind[m.m_active_kind]
==============================================================================
