---------------------------- MODULE MpscChannel ----------------------------
(***************************************************************************)
(* MpscChannel (concurrency/mpsc_channel.h) on top of the one-slot         *)
(* WaitRegistration (kernel/wait_registration.h): several sender threads,  *)
(* one consumer coroutine that mixes recv, recvBatch and their try forms,  *)
(* with and without a timeout.                                             *)
(*                                                                         *)
(* m_queue (moodycamel::ConcurrentQueue) is one FIFO per producer; a       *)
(* dequeue may serve any of them.  As it promises no order between         *)
(* producers, the messages the consumer has dequeued are kept per producer *)
(* too.  Every operation on a shared atomic is one step.  The consumer is  *)
(* the only one to dequeue, so a dequeue and the prefetch that follows it  *)
(* are merged, and so are the decrements of m_size of one batch.           *)
(* Name_Variant beside Name is the same code with one fault in it.         *)
(***************************************************************************)
EXTENDS Integers, Sequences, FiniteSets

CONSTANTS
    Producer,
    PerProducer,     \* bound: messages 1..PerProducer are sent by each
    MaxBatch,        \* largest sendBatch, and the maxCount of recvBatch
    PrefetchLimit,   \* m_singleRecvPrefetchLimit
    WithTimeouts,    \* whether recv().timeout(...) is used
    QueueMayRefuse   \* whether enqueue may report failure (no memory)

ASSUME ChannelAssumption ==
    /\ IsFiniteSet(Producer)
    /\ PerProducer \in Nat
    /\ MaxBatch \in Nat \ {0}
    /\ PrefetchLimit \in Nat
    /\ WithTimeouts \in BOOLEAN
    /\ QueueMayRefuse \in BOOLEAN

VARIABLES
    m_size,      \* atomic count senders and the consumer both adjust
    m_waiter,    \* the registration slot holds the consumer
    m_queue,     \* one FIFO of message numbers per producer
    prefetched,  \* m_singleRecvPrefetch between index and count, per producer
    sender,      \* per producer: label, batch size, prevSize = 0, next message
    stage,       \* which part of the receive operation the consumer is in
    step,        \* how far the receive attempt of that stage is
    kind,        \* "single" or "batch"
    taken,       \* messages taken and not yet subtracted from m_size, per producer
    hasReady,    \* m_readyValue / m_readyValues is set
    m_queued,    \* a resume of the consumer is in its scheduler's queue
    timer,       \* TimeoutTimer of the current await
    received,    \* messages handed to the consumer, per producer
    spurious     \* an await returned kTimeout although its timer had not fired

consumerVars == <<prefetched, stage, step, kind, taken, hasReady, timer,
                  received, spurious>>
vars == <<m_size, m_waiter, m_queue, sender, m_queued, consumerVars>>

Empty == [p \in Producer |-> <<>>]

Init ==
    /\ m_size = 0
    /\ m_waiter = FALSE
    /\ m_queue = Empty
    /\ prefetched = Empty
    /\ sender = [p \in Producer |->
                   [pc |-> "idle", count |-> 0, first |-> FALSE, next |-> 1]]
    /\ stage = "idle"
    /\ step = "none"
    /\ kind = "single"
    /\ taken = Empty
    /\ hasReady = FALSE
    /\ m_queued = FALSE
    /\ timer = "none"
    /\ received = Empty
    /\ spurious = FALSE

-----------------------------------------------------------------------------
(* send and sendBatch *)

SenderGoto(p, l) ==
    sender' = [sender EXCEPT ![p] = [@ EXCEPT !.pc = l, !.count = 0, !.first = FALSE]]

\* prevSize = m_size.fetch_add(count).
AddSize(p) ==
    /\ sender[p].pc = "idle"
    /\ \E n \in 1..MaxBatch :
          /\ sender[p].next + n - 1 <= PerProducer
          /\ sender' = [sender EXCEPT ![p] =
                [@ EXCEPT !.pc = "enqueue", !.count = n, !.first = (m_size = 0)]]
          /\ m_size' = m_size + n
    /\ UNCHANGED <<m_waiter, m_queue, m_queued, consumerVars>>

\* m_queue.enqueue or enqueue_bulk of the whole batch.
Enqueue(p) ==
    /\ sender[p].pc = "enqueue"
    /\ m_queue' = [m_queue EXCEPT ![p] =
          @ \o [i \in 1..sender[p].count |-> sender[p].next + i - 1]]
    /\ sender' = [sender EXCEPT ![p] =
          [@ EXCEPT !.pc = "test", !.count = 0, !.next = sender[p].next + sender[p].count]]
    /\ UNCHANGED <<m_size, m_waiter, m_queued, consumerVars>>

\* The queue refused: m_size.fetch_sub(count), return false.
EnqueueRefused(p) ==
    /\ QueueMayRefuse
    /\ sender[p].pc = "enqueue"
    /\ m_size' = m_size - sender[p].count
    /\ SenderGoto(p, "idle")
    /\ UNCHANGED <<m_waiter, m_queue, m_queued, consumerVars>>

\* prevSize == 0 || hasWaiter().
TestWaiter_OnlyFirst(p) ==
    /\ sender[p].pc = "test"
    /\ SenderGoto(p, IF sender[p].first THEN "consume" ELSE "idle")
    /\ UNCHANGED <<m_size, m_waiter, m_queue, m_queued, consumerVars>>

TestWaiter(p) ==
    /\ sender[p].pc = "test"
    /\ SenderGoto(p, IF sender[p].first \/ m_waiter
                     THEN "consume" ELSE "idle")
    /\ UNCHANGED <<m_size, m_waiter, m_queue, m_queued, consumerVars>>

\* wakePublishedWaiter: consumeWake() empties the slot ...
ConsumeWake(p) ==
    /\ sender[p].pc = "consume"
    /\ m_waiter' = FALSE
    /\ SenderGoto(p, IF m_waiter THEN "wake" ELSE "idle")
    /\ UNCHANGED <<m_size, m_queue, m_queued, consumerVars>>

\* ... and Waker::wakeUp queues the consumer once.
WakeUp(p) ==
    /\ sender[p].pc = "wake"
    /\ m_queued' = TRUE
    /\ SenderGoto(p, "idle")
    /\ UNCHANGED <<m_size, m_waiter, m_queue, consumerVars>>

-----------------------------------------------------------------------------
(* tryRecv and tryRecvBatch, called by every stage of a receive *)

Available == {p \in Producer : m_queue[p] # <<>>}

\* The sum of the numbers f[p], as the size of a set with f[p] elements for each p.
Total(f) == Cardinality(UNION {{p} \X (1..f[p]) : p \in Producer})

\* How many messages of each producer, n in all at most, may be taken from queues.
Grabs(queues, n) ==
    {g \in [Producer -> 0..n] :
        /\ \A p \in Producer : g[p] <= Len(queues[p])
        /\ Total(g) <= n}

\* The first g[p] messages of every producer p, and the others.
Front(queues, g) == [p \in Producer |-> SubSeq(queues[p], 1, g[p])]
Rest(queues, g) ==
    [p \in Producer |-> SubSeq(queues[p], g[p] + 1, Len(queues[p]))]

One(p) == [q \in Producer |-> IF q = p THEN 1 ELSE 0]
Lengths(queues) == [p \in Producer |-> Len(queues[p])]

\* try_dequeue_bulk(n) hands out something whenever there is something.
BulkGrabs(n) ==
    {g \in Grabs(m_queue, n) : Total(g) = 0 => n = 0 \/ Available = {}}

\* What the caller of an attempt that found nothing does next.
AfterFailure ==
    /\ stage' = CASE stage = "ready" -> "suspend"
                  [] stage = "suspend" -> "publish"
                  [] stage = "recheck" -> "suspended"
                  [] OTHER -> "idle"
    /\ step' = IF stage = "ready" THEN "check" ELSE "none"
    /\ spurious' = (spurious \/ (stage = "resume" /\ timer # "fired"))

\* tryPopPrefetchedValue, or the test of m_size.
Check ==
    /\ step = "check"
    /\ \/ /\ kind = "single"
          /\ \E p \in Producer :
                /\ prefetched[p] # <<>>
                /\ taken' = Front(prefetched, One(p))
                /\ prefetched' = Rest(prefetched, One(p))
          /\ step' = "settle"
          /\ UNCHANGED <<stage, spurious>>
       \/ /\ kind = "batch" \/ prefetched = Empty
          /\ m_size # 0
          /\ step' = "take"
          /\ UNCHANGED <<stage, taken, prefetched, spurious>>
       \/ /\ kind = "batch" \/ prefetched = Empty
          /\ m_size = 0
          /\ AfterFailure
          /\ UNCHANGED <<taken, prefetched>>
    /\ UNCHANGED <<m_size, m_waiter, m_queue, sender, m_queued, kind, hasReady,
                   timer, received>>

\* try_dequeue and tryPrefetchSingleRecvValues.
TakeSingle ==
    /\ kind = "single"
    /\ \E p \in Available :
          \E g \in Grabs(m_queue, PrefetchLimit + 1) :
             /\ g[p] >= 1
             /\ taken' = Front(m_queue, One(p))
             /\ prefetched' = Rest(Front(m_queue, g), One(p))
             /\ m_queue' = Rest(m_queue, g)

\* Cached messages first, then try_dequeue_bulk for the rest.
TakeBatch_QueueFirst ==
    /\ kind = "batch"
    /\ \E g \in BulkGrabs(MaxBatch) :
          /\ taken' = Front(m_queue, g)
          /\ m_queue' = Rest(m_queue, g)
          /\ UNCHANGED prefetched

TakeBatch ==
    /\ kind = "batch"
    /\ \E cached \in Grabs(prefetched, MaxBatch) :
          /\ Total(cached) = MaxBatch \/ cached = Lengths(prefetched)
          /\ \E g \in BulkGrabs(MaxBatch - Total(cached)) :
                /\ taken' = [p \in Producer |->
                      Front(prefetched, cached)[p] \o Front(m_queue, g)[p]]
                /\ prefetched' = Rest(prefetched, cached)
                /\ m_queue' = Rest(m_queue, g)

Take ==
    /\ step = "take"
    /\ \/ /\ TakeSingle \/ (TakeBatch /\ taken' # Empty)
          /\ step' = "settle"
          /\ UNCHANGED <<stage, spurious>>
       \/ /\ Available = {}
          /\ kind = "batch" => prefetched = Empty
          /\ AfterFailure
          /\ UNCHANGED <<taken, prefetched, m_queue>>
    /\ UNCHANGED <<m_size, m_waiter, sender, m_queued, kind, hasReady, timer,
                   received>>

\* m_size.fetch_sub of what was taken.
SubtractSize(n) == m_size' = m_size - n

\* The size is lowered and the messages are the consumer's.
Settle ==
    /\ step = "settle"
    /\ SubtractSize(Total(Lengths(taken)))
    /\ received' = [p \in Producer |-> received[p] \o taken[p]]
    /\ taken' = Empty
    /\ \/ /\ stage = "recheck"
          /\ hasReady' = TRUE
          /\ step' = "clear"
          /\ UNCHANGED stage
       \/ /\ stage # "recheck"
          /\ stage' = "idle"
          /\ step' = "none"
          /\ UNCHANGED hasReady
    /\ UNCHANGED <<m_waiter, m_queue, prefetched, sender, kind, m_queued, timer,
                   spurious>>

-----------------------------------------------------------------------------
(* The consumer coroutine: tryRecv ("poll"), or co_await recv *)

\* The next receive of either kind; the timer of an await belongs to it alone.
Begin ==
    /\ stage = "idle"
    /\ stage' \in {"ready", "poll"}
    /\ kind' \in {"single", "batch"}
    /\ step' = "check"
    /\ hasReady' = FALSE
    /\ timer' = "none"
    /\ UNCHANGED <<m_size, m_waiter, m_queue, prefetched, sender, taken, m_queued,
                   received, spurious>>

\* publishWaiter: arm() stores the consumer in the slot.
PublishWaiter_TooLate ==
    /\ stage = "publish"
    /\ m_waiter' = TRUE
    /\ stage' = "suspended"
    /\ UNCHANGED <<m_size, m_queue, prefetched, sender, step, kind, taken,
                   hasReady, m_queued, timer, received, spurious>>

PublishWaiter ==
    /\ stage = "publish"
    /\ m_waiter' = TRUE
    /\ stage' = "recheck"
    /\ step' = "check"
    /\ UNCHANGED <<m_size, m_queue, prefetched, sender, kind, taken, hasReady,
                   m_queued, timer, received, spurious>>

\* The recheck got a message: withdraw the registration and go on, or, if a
\* sender has consumed it, suspend and let that sender's wake-up come.
ClearAfterRecheck ==
    /\ step = "clear"
    /\ stage = "recheck"
    /\ m_waiter' = FALSE
    /\ stage' = IF m_waiter THEN "idle" ELSE "suspended"
    /\ step' = "none"
    /\ UNCHANGED <<m_size, m_queue, prefetched, sender, kind, taken, hasReady,
                   m_queued, timer, received, spurious>>

\* WithTimeout::await_suspend, after the inner one suspended.
ArmTimer ==
    /\ WithTimeouts
    /\ stage = "suspended"
    /\ timer = "none"
    /\ timer' = "armed"
    /\ UNCHANGED <<m_size, m_waiter, m_queue, sender, m_queued, prefetched, stage,
                   step, kind, taken, hasReady, received, spurious>>

\* handleTimeout, on the consumer's own thread.
TimerFires ==
    /\ stage = "suspended"
    /\ timer = "armed"
    /\ timer' = "fired"
    /\ m_queued' = TRUE
    /\ UNCHANGED <<m_size, m_waiter, m_queue, sender, prefetched, stage, step,
                   kind, taken, hasReady, received, spurious>>

\* Scheduler::resume, then await_resume: clear the registration, return the
\* value the recheck got, or try once more.
Resume ==
    /\ stage = "suspended"
    /\ m_queued
    /\ m_queued' = FALSE
    /\ m_waiter' = FALSE
    /\ stage' = IF hasReady THEN "idle" ELSE "resume"
    /\ step' = IF hasReady THEN "none" ELSE "check"
    /\ UNCHANGED <<m_size, m_queue, prefetched, sender, kind, taken, hasReady,
                   timer, received, spurious>>

-----------------------------------------------------------------------------
SenderStep(p) ==
    \/ Enqueue(p) \/ EnqueueRefused(p) \/ TestWaiter(p) \/ ConsumeWake(p)
    \/ WakeUp(p)

ConsumerStep ==
    \/ Begin \/ Check \/ Take \/ Settle \/ PublishWaiter \/ ClearAfterRecheck
    \/ Resume

Next ==
    \/ \E p \in Producer : AddSize(p) \/ SenderStep(p)
    \/ ConsumerStep \/ ArmTimer \/ TimerFires

\* A send that has begun goes on, and so does the consumer's thread; a consumer
\* that only polls is excluded by asking for awaits again and again.
Fairness ==
    /\ \A p \in Producer : WF_vars(SenderStep(p))
    /\ WF_vars(ConsumerStep)
    /\ SF_vars(Begin /\ stage' = "ready")

Spec == Init /\ [][Next]_vars

FairSpec == Spec /\ Fairness

-----------------------------------------------------------------------------
(* Properties *)

Label == {"idle", "enqueue", "test", "consume", "wake"}
Sender == [pc : Label, count : 0..MaxBatch, first : BOOLEAN, next : 1..(PerProducer + 1)]
Queues == [Producer -> Seq(1..PerProducer)]

Types ==
    /\ m_waiter \in BOOLEAN
    /\ m_queue \in Queues
    /\ prefetched \in Queues
    /\ sender \in [Producer -> Sender]
    /\ stage \in {"idle", "ready", "poll", "suspend", "publish", "recheck",
                  "suspended", "resume"}
    /\ step \in {"none", "check", "take", "settle", "clear"}
    /\ kind \in {"single", "batch"}
    /\ taken \in Queues
    /\ hasReady \in BOOLEAN
    /\ m_queued \in BOOLEAN
    /\ timer \in {"none", "armed", "fired"}
    /\ received \in Queues
    /\ spurious \in BOOLEAN

\* Type correctness: m_size, a uint32_t, is never lowered below zero.
TypeOK == m_size \in Nat /\ Types

InFlight(p) == IF sender[p].pc = "enqueue" THEN sender[p].count ELSE 0

\* The messages of p on their way in, in the queue, cached, or on their way out.
Accounted(p) ==
    InFlight(p) + Len(m_queue[p]) + Len(prefetched[p]) + Len(taken[p])

\* Types, and m_size, which senders raise before and the consumer lowers after the queue
\* operation, counts exactly the messages in the queue, in the prefetch buffer
\* and on their way in or out; it never wraps below zero.
SizeAccounts ==
    /\ TypeOK
    /\ m_size = Total([p \in Producer |-> Accounted(p)])

\* Every producer's messages reach the consumer once and in the order sent,
\* however single, batched and prefetched receives are mixed, and m_size is exact.
InOrderExactlyOnce ==
    /\ SizeAccounts
    /\ \A p \in Producer : received[p] = [i \in 1..Len(received[p]) |-> i]

\* No lost wake-up: beside a consumer that sleeps unqueued there is no message
\* that nobody will wake it for, and its registration is in the slot or in the
\* hands of a sender about to wake it.
NoLostWakeUp ==
    stage = "suspended" /\ ~m_queued =>
        /\ m_waiter \/ \E p \in Producer : sender[p].pc = "wake"
        /\ Available # {} =>
             \E p \in Producer : sender[p].pc \in {"test", "consume", "wake"}
        /\ prefetched = Empty \/ hasReady

\* Every message accepted by send is received by a consumer that keeps awaiting.
SentIsReceived ==
    \A p \in Producer : \A n \in 1..PerProducer :
        sender[p].next > n ~> Len(received[p]) >= n

\* mpsc_channel.h:71: kTimeout is returned on a timeout.
\* (Does not hold: README, "Where the code departs from its documentation".)
TimeoutOnlyOnTimeout == ~spurious
=============================================================================
