--------------------------- MODULE UnsafeChannel ---------------------------
(***************************************************************************)
(* UnsafeChannel (concurrency/unsafe_channel.h): a channel between         *)
(* coroutines of one scheduler thread.  The consumer mixes recv,           *)
(* recvBatch, recvBatched and the try forms.  Nothing runs in parallel, so  *)
(* a call of the channel is one step.  Running stands for a consumer that   *)
(* runs or is suspended in some other await.                                *)
(*                                                                         *)
(* In the default Inline mode send resumes the consumer's handle on the    *)
(* spot; in Deferred mode it goes through Waker and the ready queue.       *)
(* Name_Variant beside Name is the same code with one fault in it.         *)
(***************************************************************************)
EXTENDS Naturals, Sequences, FiniteSetsExt

CONSTANTS
    Messages,   \* bound: messages 1..Messages are sent
    MaxBatch    \* bound on sendBatch, on maxCount and on limit

ASSUME ChannelAssumption == Messages \in Nat /\ MaxBatch \in Nat \ {0}

VARIABLES
    m_wakeMode,       \* "Inline" or "Deferred", an argument of the constructor
    m_queue,          \* m_size is its length throughout
    m_hasWaiter, m_wakeThreshold,
    sent,             \* messages 1..sent have been sent
    received,         \* everything the consumer was given
    await,            \* kind and limit of the suspended await, or Running
    timer,            \* its TimeoutTimer: "none", "armed" or "fired"
    m_queued,         \* a resume of the consumer is in the ready queue
    wrong             \* what an await returned against its documentation

channelVars == <<m_wakeMode, m_queue, m_hasWaiter, m_wakeThreshold, sent, received, await,
                 timer, m_queued, wrong>>

Running == [kind |-> "run", limit |-> 1]

Await == [kind : {"recv"}, limit : {1}] \union
         [kind : {"recvBatch", "recvBatched"}, limit : 1..MaxBatch]

ChannelInit ==
    /\ m_wakeMode \in {"Inline", "Deferred"}
    /\ m_queue = <<>>
    /\ m_hasWaiter = FALSE
    /\ m_wakeThreshold = 1
    /\ sent = 0
    /\ received = <<>>
    /\ await = Running
    /\ timer = "none"
    /\ m_queued = FALSE
    /\ wrong = {}

-----------------------------------------------------------------------------
(* The three awaitables *)

\* await_ready, and the same test again in await_suspend.
Enough(a) ==
    IF a.kind = "recvBatched" THEN Len(m_queue) >= a.limit ELSE m_queue # <<>>

\* WithTimeout writes kTimeout into m_result; only recvBatched looks at it.
ReturnsTimeout(a) == a.kind = "recvBatched" /\ timer = "fired"

\* await_resume takes one message, up to maxCount, or everything.
Taken(a, queue) ==
    CASE ReturnsTimeout(a) -> 0
      [] ~ReturnsTimeout(a) /\ a.kind = "recvBatched" -> Len(queue)
      [] OTHER -> Min({a.limit, Len(queue)})

Deliver_KeepsFront(queue, n) ==
    /\ received' = received \o SubSeq(queue, 1, n)
    /\ m_queue' = IF n = 1 THEN queue ELSE SubSeq(queue, n + 1, Len(queue))

Deliver(queue, n) ==
    /\ received' = received \o SubSeq(queue, 1, n)
    /\ m_queue' = SubSeq(queue, n + 1, Len(queue))

\* wakeUpWaiter and recvBatched's await_resume put the threshold back to 1.
ResetThreshold_ByWakeOnly(a, byWake) ==
    m_wakeThreshold' = IF byWake THEN 1 ELSE m_wakeThreshold

ResetThreshold(a, byWake) ==
    m_wakeThreshold' =
        IF byWake \/ a.kind = "recvBatched" THEN 1 ELSE m_wakeThreshold

\* await_resume of the suspended await; the consumer runs on.
Resumed(queue, byWake) ==
    /\ Deliver(queue, Taken(await, queue))
    /\ ResetThreshold(await, byWake)
    /\ wrong' = wrong
         \union {w \in {"timeoutUntimed"} : queue = <<>> /\ timer # "fired"}
         \union {w \in {"dataWithheld"} : ReturnsTimeout(await) /\ queue # <<>>}
    /\ m_hasWaiter' = FALSE
    /\ await' = Running
    /\ timer' = "none"

-----------------------------------------------------------------------------
(* The consumer *)

\* tryRecv and tryRecvBatch(n).
TryRecv ==
    /\ await = Running
    /\ m_queue # <<>>
    /\ \E n \in 1..MaxBatch : Deliver(m_queue, Min({n, Len(m_queue)}))
    /\ UNCHANGED <<m_hasWaiter, m_wakeThreshold, sent, await, timer, m_queued,
                   wrong>>

\* An await that need not suspend.
AwaitAtOnce ==
    /\ await = Running
    /\ \E a \in Await :
          /\ Enough(a)
          /\ Deliver(m_queue, Taken(a, m_queue))
          /\ ResetThreshold(a, FALSE)
    /\ m_hasWaiter' = FALSE
    /\ UNCHANGED <<sent, await, timer, m_queued, wrong>>

\* An await that suspends, with or without a timer.
AwaitSuspends ==
    /\ await = Running
    /\ \E a \in Await :
          /\ ~Enough(a)
          /\ await' = a
          /\ m_wakeThreshold' =
               IF a.kind = "recvBatched" THEN a.limit ELSE m_wakeThreshold
    /\ m_hasWaiter' = TRUE
    /\ timer' \in {"none", "armed"}
    /\ UNCHANGED <<m_queue, sent, received, m_queued, wrong>>

\* The ready queue runs the consumer wherever it is suspended.
RunReady ==
    /\ await # Running
    /\ m_queued
    /\ m_queued' = FALSE
    /\ Resumed(m_queue, FALSE)
    /\ UNCHANGED sent

\* ... be it in another await.
RunReadyElsewhere ==
    /\ await = Running
    /\ m_queued
    /\ m_queued' = FALSE
    /\ UNCHANGED <<m_queue, m_hasWaiter, m_wakeThreshold, sent, received, await,
                   timer, wrong>>

\* TimeoutTimer::handleTimeout.
TimerFires ==
    /\ await # Running
    /\ timer = "armed"
    /\ timer' = "fired"
    /\ m_queued' = TRUE
    /\ UNCHANGED <<m_queue, m_hasWaiter, m_wakeThreshold, sent, received, await,
                   wrong>>

-----------------------------------------------------------------------------
(* The senders *)

\* wakeUpWaiter with the new queue contents.
wakeUpWaiter(queue) ==
    \/ /\ m_wakeMode = "Inline"
       /\ Resumed(queue, TRUE)
       /\ UNCHANGED m_queued
    \/ /\ m_wakeMode = "Deferred"
       /\ m_queue' = queue
       /\ m_hasWaiter' = FALSE
       /\ m_wakeThreshold' = 1
       /\ m_queued' = TRUE
       /\ UNCHANGED <<received, await, timer, wrong>>

WakeDue(queue, immediately) ==
    m_hasWaiter /\ (immediately \/ Len(queue) >= m_wakeThreshold)

\* send and sendBatch of n messages.
Send ==
    /\ \E n \in 1..MaxBatch, immediately \in BOOLEAN :
          LET queue == m_queue \o [i \in 1..n |-> sent + i]
          IN /\ sent + n <= Messages
             /\ sent' = sent + n
             /\ \/ WakeDue(queue, immediately) /\ wakeUpWaiter(queue)
                \/ /\ ~WakeDue(queue, immediately)
                   /\ m_queue' = queue
                   /\ UNCHANGED <<m_hasWaiter, m_wakeThreshold, received, await,
                                  timer, m_queued, wrong>>

-----------------------------------------------------------------------------
ChannelNext ==
    /\ \/ TryRecv \/ AwaitAtOnce \/ AwaitSuspends \/ RunReady
       \/ RunReadyElsewhere \/ TimerFires \/ Send
    /\ UNCHANGED m_wakeMode

ChannelSpec == ChannelInit /\ [][ChannelNext]_channelVars

-----------------------------------------------------------------------------
(* Properties *)

\* Type correctness: the wake threshold is positive and at most a batch.
ChannelTypeOK ==
    /\ m_wakeMode \in {"Inline", "Deferred"}
    /\ m_queue \in Seq(1..Messages)
    /\ m_hasWaiter \in BOOLEAN
    /\ m_wakeThreshold \in 1..MaxBatch
    /\ sent \in 0..Messages
    /\ received \in Seq(1..Messages)
    /\ await \in Await \union {Running}
    /\ timer \in {"none", "armed", "fired"}
    /\ m_queued \in BOOLEAN
    /\ wrong \subseteq {"timeoutUntimed", "dataWithheld"}

\* Types, and every message reaches the consumer once and in the order sent, whichever
\* receive forms are mixed and however they end.
InOrderExactlyOnce == ChannelTypeOK /\ received \o m_queue = [i \in 1..sent |-> i]

\* A consumer suspended and not queued is registered, and the queue does not
\* hold what it waits for: no threshold of an earlier await outlives it.
NoSleepBesideEnough ==
    await # Running /\ ~m_queued => m_hasWaiter /\ ~Enough(await)

\* unsafe_channel.h:75: kTimeout is returned on a timeout.
\* (Does not hold: README, "Where the code departs from its documentation".)
TimeoutOnlyOnTimeout == "timeoutUntimed" \notin wrong

\* unsafe_channel.h:117: on a timeout a partial batch is returned, no error.
\* (Does not hold: README, "Where the code departs from its documentation".)
PartialBatchOnTimeout == "dataWithheld" \notin wrong
=============================================================================
