-------------------------- MODULE SequenceAwaitable --------------------------
(***************************************************************************)
(* SequenceAwaitable (kernel/awaitable.h): a ring of at most InlineN steps *)
(* that the reactor runs one after the other for a suspended coroutine.    *)
(*                                                                         *)
(* q.m_tasks is the ring from m_head on.  A step is [id, event, rearm]:    *)
(* an I/O step has its event; a local one the event "INVALID".  The flow   *)
(* behind the steps is that of StateMachineAwaitable: the step "parse"     *)
(* wants FrameSize bytes per frame, the step "finish" completes.           *)
(***************************************************************************)
EXTENDS StateMachineAwaitable

CONSTANT InlineN

Step(id, event) == [id |-> id, event |-> event]
isLocal(step) == step.event = "INVALID"

clear(q) == [q EXCEPT !.m_tasks = <<>>]
complete(q, r) == clear([q EXCEPT !.m_result = r])
fail(q, code) == clear([q EXCEPT !.m_error = code])

(* std::abort when the ring is full. *)
emplaceTask(q, step) ==
    IF Len(q.m_tasks) >= InlineN THEN [q EXCEPT !.aborted = TRUE]
    ELSE [q EXCEPT !.m_tasks = Append(@, step)]

RECURSIVE queueMany(_, _)
queueMany(q, steps) ==
    IF steps = <<>> THEN q ELSE queueMany(emplaceTask(q, Head(steps)), Tail(steps))

popFront(q) == [q EXCEPT !.m_tasks = IF @ = <<>> THEN @ ELSE Tail(@)]
consumeFrontIfSame(q, step) ==
    IF q.m_tasks # <<>> /\ Head(q.m_tasks) = step THEN popFront(q) ELSE q

(* rearm is the step a parser puts back before itself. *)
NewSequence(domain, steps, rearm) ==
    queueMany([kind |-> "queue", domain |-> domain, m_tasks |-> <<>>, rearm |-> rearm,
               m_result |-> NoResult, m_error |-> None, aborted |-> FALSE,
               data |-> <<>>, have |-> 0, frames |-> 0], steps)

(* SequenceStep: the handler runs once the operation is complete. *)
ioStep(q, step, r) ==
    IF ~r.ok THEN fail(q, r.code)
    ELSE IF r.n = 0 /\ sequenceEventUsesSlot(step.event, "READ")
    THEN fail(q, "kDisconnectError") ELSE q

(* ParserSequenceStep::run. *)
runParser(q, step) ==
    LET status == parseStatus(q)
    IN  CASE status = "kNeedMore" -> IF isLocal(q.rearm) THEN fail(q, "kParamInvalid")
                                     ELSE emplaceTask(emplaceTask(q, q.rearm), step)
          [] status = "kContinue" -> emplaceTask(Parsed(q), step)
          [] status = "kCompleted" -> Parsed(q)

(* LocalSequenceStep. *)
localStep(q, step) ==
    CASE step.id = "parse" -> runParser(q, step)
      [] step.id = "finish" -> complete(q, Ok(q.frames))
      [] OTHER -> q

(* onReady / onEvent of a step: done says whether it is finished. *)
RunStep(q, sock, step) ==
    IF isLocal(step) THEN [q |-> localStep(q, step), sock |-> sock, done |-> TRUE]
    ELSE LET s == Call(sock, step.event)
             r == handler(step.event, s)
         IN  IF r = NotReady THEN [q |-> q, sock |-> s.sock, done |-> FALSE]
             ELSE [q |-> ioStep(Received(q, s), step, r), sock |-> s.sock, done |-> TRUE]

RECURSIVE prepareSequence(_, _), Proceed(_, _), StepRan(_, _)
Proceed(q, sock) ==
    IF q.m_result # NoResult THEN [m |-> q, sock |-> sock, progress |-> "kCompleted"]
    ELSE prepareSequence(q, sock)
StepRan(run, step) ==
    IF run.done THEN Proceed(consumeFrontIfSame(run.q, step), run.sock)
    ELSE [m |-> run.q, sock |-> run.sock, progress |-> "kNeedWait"]
prepareSequence(q, sock) ==
    IF q.m_tasks = <<>> \/ q.aborted
    THEN [m |-> q, sock |-> sock, progress |-> "kCompleted"]
    ELSE StepRan(RunStep(q, sock, Head(q.m_tasks)), Head(q.m_tasks))

EventRan(run, step) ==
    Proceed(IF run.done THEN consumeFrontIfSame(run.q, step) ELSE run.q, run.sock)
onSequenceEvent(q, sock) ==
    IF q.m_tasks = <<>> THEN [m |-> q, sock |-> sock, progress |-> "kCompleted"]
    ELSE EventRan(RunStep(q, sock, Head(q.m_tasks)), Head(q.m_tasks))

(* io_uring: only the local steps run before the submission; s completes the front. *)
RECURSIVE prepareSequenceUring(_), ProceedUring(_)
ProceedUring(q) ==
    IF q.m_result # NoResult THEN [m |-> q, progress |-> "kCompleted"]
    ELSE prepareSequenceUring(q)
prepareSequenceUring(q) ==
    LET step == Head(q.m_tasks)
    IN  IF q.m_tasks = <<>> \/ q.aborted THEN [m |-> q, progress |-> "kCompleted"]
        ELSE IF ~isLocal(step) THEN [m |-> q, progress |-> "kNeedWait"]
        ELSE ProceedUring(consumeFrontIfSame(localStep(q, step), step))

onSequenceEventUring(q, s) ==
    LET step == Head(q.m_tasks)
        r == cqeHandler(step.event, s)
    IN  IF q.m_tasks = <<>> THEN [m |-> q, progress |-> "kCompleted"]
        ELSE ProceedUring(IF r = NotReady THEN q
                          ELSE consumeFrontIfSame(ioStep(Received(q, s), step, r), step))

frontEventType(q) == IF q.m_tasks = <<>> THEN "INVALID" ELSE Head(q.m_tasks).event
==============================================================================
