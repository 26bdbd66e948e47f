------------------------- MODULE MpscChannelProofs -------------------------
(***************************************************************************)
(* The channel for any number of producers and messages, any batch size    *)
(* and prefetch limit, with and without timeouts: messages arrive once and *)
(* in order, m_size is exact, and no wake-up of the consumer is lost.      *)
(***************************************************************************)
EXTENDS MpscChannel, TLAPS

(* s holds the messages k + 1, k + 2 and so on. *)
Run(s, k) == \A i \in 1..Len(s) : s[i] = k + i

(* The messages of p follow each other from the consumer back to the queue, and the next one
   to send comes after them. *)
InOrder(p) ==
    /\ Run(received[p], 0)
    /\ Run(taken[p], Len(received[p]))
    /\ Run(prefetched[p], Len(received[p]) + Len(taken[p]))
    /\ Run(m_queue[p], Len(received[p]) + Len(taken[p]) + Len(prefetched[p]))
    /\ sender[p].next = Len(received[p]) + Len(taken[p]) + Len(prefetched[p])
                        + Len(m_queue[p]) + 1

(* What sender and consumer know at each of their labels. *)
Staged ==
    /\ \A p \in Producer : sender[p].pc = "enqueue" =>
          sender[p].next + sender[p].count - 1 <= PerProducer
    /\ step # "settle" => taken = Empty
    /\ step = "take" /\ kind = "single" => prefetched = Empty
    /\ step = "clear" => stage = "recheck" /\ hasReady
    /\ stage \in {"idle", "publish", "suspended"} <=> step = "none"

(* A consumer that has published its registration is woken or can be; one that sleeps with
   nothing in hand has emptied what it had cached, and somebody attends to the queue. *)
Wakes ==
    /\ stage \in {"recheck", "suspended"} =>
          m_waiter \/ m_queued \/ \E p \in Producer : sender[p].pc = "wake"
    /\ stage = "suspended" /\ ~m_queued /\ Available # {} =>
          \E p \in Producer : sender[p].pc \in {"test", "consume", "wake"}
    /\ stage = "suspended" => prefetched = Empty \/ hasReady

Sized == m_size = Total([p \in Producer |-> Accounted(p)])

Ordered == Types /\ Staged /\ \A p \in Producer : InOrder(p)

IInv == Ordered /\ Sized /\ Wakes

(* Two facts about sums, shown below: they are numbers, and with m_size everything is zero. *)
SumsAreNumbers == \A f \in [Producer -> Nat] : Total(f) \in Nat
NothingLeft == m_size = 0 => Available = {} /\ prefetched = Empty

-----------------------------------------------------------------------------
(* Sequences of consecutive messages *)

(* One run after another. *)
LEMMA RunConcat ==
    ASSUME NEW S, NEW s \in Seq(S), NEW t \in Seq(S), NEW k \in Nat,
           Run(s, k), Run(t, k + Len(s))
    PROVE  s \o t \in Seq(S) /\ Len(s \o t) = Len(s) + Len(t) /\ Run(s \o t, k)
<1>1. s \o t \in Seq(S) /\ Len(s \o t) = Len(s) + Len(t)
    OBVIOUS
<1>2. ASSUME NEW i \in 1..Len(s \o t) PROVE (s \o t)[i] = k + i
    <2>1. CASE i <= Len(s)
        BY <1>1, <2>1 DEF Run
    <2>2. CASE i > Len(s)
        <3>1. i - Len(s) \in 1..Len(t) /\ (s \o t)[i] = t[i - Len(s)]
            BY <1>1, <2>2
        <3>2. t[i - Len(s)] = (k + Len(s)) + (i - Len(s))
            BY Zenon, <3>1 DEF Run
        <3> QED BY <3>1, <3>2
    <2> QED BY <2>1, <2>2
<1> QED BY Zenon, <1>1, <1>2 DEF Run

(* The parts of a run. *)
LEMMA RunParts ==
    ASSUME NEW S, NEW s \in Seq(S), NEW n \in Nat, n <= Len(s)
    PROVE  /\ SubSeq(s, 1, n) \in Seq(S) /\ Len(SubSeq(s, 1, n)) = n
           /\ SubSeq(s, n + 1, Len(s)) \in Seq(S)
           /\ Len(SubSeq(s, n + 1, Len(s))) = Len(s) - n
           /\ \A k \in Nat : Run(s, k) => /\ Run(SubSeq(s, 1, n), k)
                                          /\ Run(SubSeq(s, n + 1, Len(s)), k + n)
<1>1. n \in 0..Len(s) /\ n + 1 \in 1..(Len(s) + 1)
    OBVIOUS
<1>2. /\ SubSeq(s, 1, n) \in Seq(S) /\ Len(SubSeq(s, 1, n)) = n
      /\ \A i \in 1..n : SubSeq(s, 1, n)[i] = s[i]
    BY <1>1
<1>3. /\ SubSeq(s, n + 1, Len(s)) \in Seq(S)
      /\ Len(SubSeq(s, n + 1, Len(s))) = Len(s) - n
      /\ \A i \in 1..(Len(s) - n) : SubSeq(s, n + 1, Len(s))[i] = s[n + i]
    BY <1>1
<1>4. ASSUME NEW k \in Nat, Run(s, k) PROVE Run(SubSeq(s, 1, n), k)
    BY <1>2, <1>4 DEF Run
<1>5. ASSUME NEW k \in Nat, Run(s, k) PROVE Run(SubSeq(s, n + 1, Len(s)), k + n)
    <2>1. \A i \in 1..(Len(s) - n) : n + i \in 1..Len(s) /\ k + (n + i) = (k + n) + i
        BY <1>1
    <2>2. \A i \in 1..(Len(s) - n) : s[n + i] = k + (n + i)
        BY Zenon, <1>5, <2>1 DEF Run
    <2> QED BY Zenon, <1>3, <2>1, <2>2 DEF Run
<1> QED BY Zenon, <1>2, <1>3, <1>4, <1>5

(* Front and Rest part the queues of all producers. *)
LEMMA FrontRest ==
    ASSUME NEW q \in Queues, NEW g \in [Producer -> Nat],
           \A p \in Producer : g[p] <= Len(q[p])
    PROVE  /\ Front(q, g) \in Queues /\ Rest(q, g) \in Queues
           /\ \A p \in Producer :
                 /\ Len(Front(q, g)[p]) = g[p] /\ Len(Rest(q, g)[p]) = Len(q[p]) - g[p]
                 /\ \A k \in Nat : Run(q[p], k) => /\ Run(Front(q, g)[p], k)
                                                   /\ Run(Rest(q, g)[p], k + g[p])
<1>1. ASSUME NEW p \in Producer
      PROVE  /\ q[p] \in Seq(1..PerProducer) /\ g[p] \in Nat /\ g[p] <= Len(q[p])
             /\ Front(q, g)[p] = SubSeq(q[p], 1, g[p])
             /\ Rest(q, g)[p] = SubSeq(q[p], g[p] + 1, Len(q[p]))
    BY Zenon DEF Front, Rest, Queues
<1>2. ASSUME NEW p \in Producer
      PROVE  /\ Front(q, g)[p] \in Seq(1..PerProducer) /\ Rest(q, g)[p] \in Seq(1..PerProducer)
             /\ Len(Front(q, g)[p]) = g[p] /\ Len(Rest(q, g)[p]) = Len(q[p]) - g[p]
             /\ \A k \in Nat : Run(q[p], k) => /\ Run(Front(q, g)[p], k)
                                               /\ Run(Rest(q, g)[p], k + g[p])
    <2> DEFINE s == q[p]
               n == g[p]
    <2>1. s \in Seq(1..PerProducer) /\ n \in Nat /\ n <= Len(s)
        BY Zenon, <1>1
    <2> HIDE DEF s, n
    <2>2. /\ SubSeq(s, 1, n) \in Seq(1..PerProducer) /\ Len(SubSeq(s, 1, n)) = n
          /\ SubSeq(s, n + 1, Len(s)) \in Seq(1..PerProducer)
          /\ Len(SubSeq(s, n + 1, Len(s))) = Len(s) - n
          /\ \A k \in Nat : Run(s, k) => /\ Run(SubSeq(s, 1, n), k)
                                         /\ Run(SubSeq(s, n + 1, Len(s)), k + n)
        BY Zenon, <2>1, RunParts
    <2> QED BY Zenon, <1>1, <2>2 DEF s, n
<1>3. Front(q, g) \in Queues /\ Rest(q, g) \in Queues
    BY Zenon, <1>2 DEF Front, Rest, Queues
<1> QED BY Zenon, <1>2, <1>3

(* An empty queue is a run. *)
LEMMA EmptyRun ==
    /\ Empty \in Queues
    /\ \A p \in Producer : Empty[p] = <<>> /\ Len(Empty[p]) = 0 /\ \A k \in Nat : Run(Empty[p], k)
BY DEF Empty, Queues, Run

(* One(p) counts one message of p. *)
LEMMA OneType ==
    ASSUME NEW p \in Producer
    PROVE  One(p) \in [Producer -> Nat] /\ One(p)[p] = 1
           /\ \A q \in Producer : q # p => One(p)[q] = 0
BY Zenon DEF One

-----------------------------------------------------------------------------
(* Order: the senders *)

(* AddSize keeps the messages where they are. *)
LEMMA AddSizeOrdered ==
    ASSUME Ordered, NEW p \in Producer, AddSize(p)
    PROVE  /\ Ordered' /\ sender'[p].pc = "enqueue" /\ m_size' = m_size + sender'[p].count
           /\ sender'[p].count \in Nat
           /\ \A q \in Producer : q # p => sender'[q] = sender[q]
<1>0. sender \in [Producer -> Sender] /\ sender[p].next \in 1..(PerProducer + 1)
    BY Zenon DEF Ordered, Types, Sender
<1>1. PICK n \in 1..MaxBatch :
          /\ sender[p].next + n - 1 <= PerProducer
          /\ sender' = [sender EXCEPT ![p] =
                [@ EXCEPT !.pc = "enqueue", !.count = n, !.first = (m_size = 0)]]
          /\ m_size' = m_size + n
    BY Zenon DEF AddSize
<1>2. UNCHANGED <<m_waiter, m_queue, m_queued, consumerVars>>
    BY Zenon DEF AddSize
<1>3. /\ sender'[p].pc = "enqueue" /\ sender'[p].count = n /\ sender'[p].next = sender[p].next
      /\ \A q \in Producer : q # p => sender'[q] = sender[q]
      /\ sender' \in [Producer -> Sender]
    <2>1. "enqueue" \in Label /\ n \in 0..MaxBatch
        BY ChannelAssumption DEF Label
    <2>2. PICK f \in BOOLEAN : f = (m_size = 0)
        BY Zenon
    <2> DEFINE r == [sender[p] EXCEPT !.pc = "enqueue", !.count = n, !.first = f]
    <2>3. sender' = [sender EXCEPT ![p] = r]
        BY Zenon, <1>1, <2>2
    <2>4. r \in Sender /\ r.pc = "enqueue" /\ r.count = n /\ r.next = sender[p].next
        BY Zenon, <1>0, <2>1 DEF Sender
    <2> HIDE DEF r
    <2> QED BY Zenon, <1>0, <2>3, <2>4
<1>4. Types'
    BY <1>2, <1>3 DEF Ordered, Types, consumerVars
<1>5. \A q \in Producer : sender'[q].next = sender[q].next
    BY Zenon, <1>3
<1>6. \A q \in Producer : InOrder(q)'
    BY Zenon, <1>2, <1>5 DEF Ordered, InOrder, consumerVars
<1>7. Staged'
    BY Zenon, <1>1, <1>2, <1>3 DEF Ordered, Staged, consumerVars
<1> QED BY <1>1, <1>3, <1>4, <1>6, <1>7, ChannelAssumption DEF Ordered

(* A sender that only moves on keeps the messages where they are. *)
LEMMA SenderGotoOrdered ==
    ASSUME Ordered, NEW p \in Producer, NEW l \in Label \ {"enqueue"}, SenderGoto(p, l),
           m_waiter' \in BOOLEAN, m_queued' \in BOOLEAN, UNCHANGED <<m_queue, consumerVars>>
    PROVE  Ordered'
<1>0. sender \in [Producer -> Sender] /\ sender[p].next \in 1..(PerProducer + 1)
    BY Zenon DEF Ordered, Types, Sender
<1>1. /\ sender'[p].pc = l /\ sender'[p].count = 0 /\ sender'[p].next = sender[p].next
      /\ \A q \in Producer : q # p => sender'[q] = sender[q]
      /\ sender' \in [Producer -> Sender]
    <2>1. 0 \in 0..MaxBatch
        BY ChannelAssumption
    <2>2. PICK f \in BOOLEAN : f = FALSE
        BY Zenon
    <2> DEFINE r == [sender[p] EXCEPT !.pc = l, !.count = 0, !.first = f]
    <2>3. sender' = [sender EXCEPT ![p] = r]
        BY Zenon, <2>2 DEF SenderGoto
    <2>4. r \in Sender /\ r.pc = l /\ r.count = 0 /\ r.next = sender[p].next
        BY Zenon, <1>0, <2>1 DEF Sender
    <2> HIDE DEF r
    <2> QED BY Zenon, <1>0, <2>3, <2>4
<1>2. Types'
    BY Zenon, <1>1 DEF Ordered, Types, consumerVars
<1>3. \A q \in Producer : sender'[q].next = sender[q].next
    BY Zenon, <1>1
<1>4. \A q \in Producer : InOrder(q)'
    BY Zenon, <1>3 DEF Ordered, InOrder, consumerVars
<1>5. Staged'
    BY Zenon, <1>1 DEF Ordered, Staged, consumerVars
<1> QED BY Zenon, <1>2, <1>4, <1>5 DEF Ordered

(* Enqueue appends the next messages. *)
LEMMA EnqueueOrdered ==
    ASSUME Ordered, NEW p \in Producer, Enqueue(p)
    PROVE  /\ Ordered'
           /\ Len(m_queue'[p]) = Len(m_queue[p]) + sender[p].count
           /\ sender'[p].pc = "test"
           /\ \A q \in Producer : q # p => m_queue'[q] = m_queue[q] /\ sender'[q] = sender[q]
<1> DEFINE n == sender[p].count
           m == sender[p].next
           new == [i \in 1..n |-> m + i - 1]
           k == Len(received[p]) + Len(taken[p]) + Len(prefetched[p])
<1>1. /\ n \in 0..MaxBatch /\ m \in 1..(PerProducer + 1) /\ m + n - 1 <= PerProducer
      /\ k \in Nat /\ m = k + Len(m_queue[p]) + 1 /\ Run(m_queue[p], k)
      /\ m_queue[p] \in Seq(1..PerProducer) /\ sender[p].pc = "enqueue"
    BY DEF Ordered, Types, Staged, InOrder, Enqueue, Queues, Sender
<1>0. sender \in [Producer -> Sender] /\ sender[p].first \in BOOLEAN
    BY Zenon DEF Ordered, Types, Sender
<1> HIDE DEF n, m, k
<1>2. /\ sender'[p].pc = "test" /\ sender'[p].next = m + n
      /\ \A q \in Producer : q # p => sender'[q] = sender[q]
      /\ sender' \in [Producer -> Sender]
    <2> DEFINE r == [sender[p] EXCEPT !.pc = "test", !.count = 0, !.next = m + n]
    <2>1. m + n \in 1..(PerProducer + 1) /\ 0 \in 0..MaxBatch /\ "test" \in Label
        BY <1>1, ChannelAssumption DEF Label
    <2>2. sender' = [sender EXCEPT ![p] = r]
        BY Zenon DEF Enqueue, m, n
    <2>3. r \in Sender
        BY ZenonT(60), <1>0, <2>1 DEF Sender
    <2>4. r.pc = "test" /\ r.next = m + n
        BY Zenon, <1>0 DEF Sender
    <2> HIDE DEF r
    <2> QED BY Zenon, <1>0, <2>2, <2>3, <2>4
<1>3. /\ m_queue' = [m_queue EXCEPT ![p] = m_queue[p] \o new]
      /\ UNCHANGED <<m_waiter, m_queued, consumerVars>>
    BY Zenon DEF Enqueue, m, n
<1>4. new \in Seq(1..PerProducer) /\ Len(new) = n
    <2>1. n \in Nat /\ \A i \in 1..n : m + i - 1 \in 1..PerProducer
        BY SMTT(30), <1>1, ChannelAssumption
    <2> QED BY <2>1
<1>5. Run(new, k + Len(m_queue[p]))
    BY <1>1, <1>4 DEF Run
<1> HIDE DEF new
<1>6. /\ m_queue[p] \o new \in Seq(1..PerProducer) /\ Run(m_queue[p] \o new, k)
      /\ Len(m_queue[p] \o new) = Len(m_queue[p]) + n
    BY ZenonT(60), <1>1, <1>4, <1>5, RunConcat
<1>7. Types'
    <2>2. m_queue' \in Queues
        BY Zenon, <1>3, <1>6 DEF Ordered, Types, Queues
    <2> QED BY <1>2, <1>3, <2>2 DEF Ordered, Types, consumerVars
<1>8. Staged'
    BY Zenon, <1>2, <1>3 DEF Ordered, Types, Staged, consumerVars
<1>9. InOrder(p)'
    <2>1. /\ m_queue'[p] = m_queue[p] \o new /\ sender'[p].next = m + n
          /\ UNCHANGED <<received, taken, prefetched>>
        BY Zenon, <1>2, <1>3 DEF Ordered, Types, Queues, consumerVars
    <2>2. m + n = k + Len(m_queue'[p]) + 1 /\ Run(m_queue'[p], k)
        <3>1. n \in Nat /\ k \in Nat /\ Len(m_queue[p]) \in Nat
            BY <1>1, ChannelAssumption
        <3>2. PICK K, N, L \in Nat : K = k /\ N = n /\ L = Len(m_queue[p])
            BY Zenon, <3>1
        <3>3. (K + L + 1) + N = K + (L + N) + 1
            OBVIOUS
        <3> QED BY Zenon, <1>1, <1>6, <2>1, <3>2, <3>3
    <2> QED BY ZenonT(60), <2>1, <2>2 DEF Ordered, InOrder, k
<1>10. \A q \in Producer : q # p =>
          m_queue'[q] = m_queue[q] /\ sender'[q] = sender[q] /\ InOrder(q)'
    BY SMTT(30), <1>2, <1>3 DEF Ordered, Types, Queues, InOrder, consumerVars
<1> QED BY Zenon, <1>2, <1>3, <1>6, <1>7, <1>8, <1>9, <1>10 DEF Ordered, Types, Queues, n

-----------------------------------------------------------------------------
(* Order: the consumer *)

(* Messages that move towards the consumer, in order. *)
LEMMA MovedOrdered ==
    ASSUME Ordered, UNCHANGED <<sender, received>>,
           taken' \in Queues, prefetched' \in Queues, m_queue' \in Queues,
           \A p \in Producer :
              /\ Run(taken'[p], Len(received[p]))
              /\ Run(prefetched'[p], Len(received[p]) + Len(taken'[p]))
              /\ Run(m_queue'[p], Len(received[p]) + Len(taken'[p]) + Len(prefetched'[p]))
              /\ Len(taken'[p]) + Len(prefetched'[p]) + Len(m_queue'[p])
                 = Len(taken[p]) + Len(prefetched[p]) + Len(m_queue[p])
    PROVE  \A p \in Producer : InOrder(p)' /\ Accounted(p)' = Accounted(p)
<1> TAKE p \in Producer
<1> DEFINE r == Len(received[p])
           t == Len(taken[p])     c == Len(prefetched[p])     q == Len(m_queue[p])
           tt == Len(taken'[p])   cc == Len(prefetched'[p])   qq == Len(m_queue'[p])
           i == InFlight(p)
<1>1. /\ r \in Nat /\ t \in Nat /\ c \in Nat /\ q \in Nat /\ tt \in Nat /\ cc \in Nat /\ qq \in Nat
      /\ tt + cc + qq = t + c + q /\ sender[p].next = r + t + c + q + 1
    BY SMTT(30) DEF Ordered, Types, Queues, InOrder
<1>2. i \in Nat /\ InFlight(p)' = i
    BY ChannelAssumption DEF Ordered, Types, Sender, InFlight
<1>3. Accounted(p)' = i + qq + cc + tt /\ Accounted(p) = i + q + c + t
    BY Zenon, <1>2 DEF Accounted
<1>4. /\ Run(received[p], 0) /\ Run(taken'[p], r) /\ Run(prefetched'[p], r + tt)
      /\ Run(m_queue'[p], r + tt + cc)
    BY ZenonT(60) DEF Ordered, InOrder
<1>5. r + t + c + q + 1 = r + tt + cc + qq + 1 /\ i + qq + cc + tt = i + q + c + t
    <2> HIDE DEF r, t, c, q, tt, cc, qq, i
    <2>1. PICK R, I, T, P, Q, TT, CC, QQ \in Nat :
              R = r /\ I = i /\ T = t /\ P = c /\ Q = q /\ TT = tt /\ CC = cc /\ QQ = qq
        BY Zenon, <1>1, <1>2
    <2>2. TT + CC + QQ = T + P + Q
        BY Zenon, <1>1, <2>1
    <2>3. R + T + P + Q + 1 = R + TT + CC + QQ + 1 /\ I + QQ + CC + TT = I + Q + P + T
        BY <2>2
    <2> QED BY Zenon, <2>1, <2>3
<1> QED BY Zenon, <1>1, <1>3, <1>4, <1>5 DEF InOrder

(* What an attempt that found nothing leads to. *)
LEMMA FailureStages ==
    ASSUME Types, AfterFailure
    PROVE  /\ stage' \in {"suspend", "publish", "suspended", "idle"} /\ step' \in {"check", "none"}
           /\ spurious' \in BOOLEAN
           /\ stage' = "suspended" => stage = "recheck"
           /\ step' = "none" <=> stage' \in {"idle", "publish", "suspended"}
BY Zenon DEF Types, AfterFailure

(* The attempt: a cached message, or the test of m_size. *)
LEMMA CheckOrdered ==
    ASSUME Ordered, Check
    PROVE  Ordered' /\ \A p \in Producer : Accounted(p)' = Accounted(p)
<1>0. /\ Types /\ Staged /\ taken = Empty /\ step = "check"
      /\ UNCHANGED <<m_size, m_waiter, m_queue, sender, m_queued, kind, hasReady, timer, received>>
    BY Zenon DEF Ordered, Staged, Check
<1>1. CASE kind = "single" /\ \E p \in Producer :
               /\ prefetched[p] # <<>> /\ taken' = Front(prefetched, One(p))
               /\ prefetched' = Rest(prefetched, One(p))
               /\ step' = "settle" /\ UNCHANGED <<stage, spurious>>
    <2>1. PICK p \in Producer :
               /\ prefetched[p] # <<>> /\ taken' = Front(prefetched, One(p))
               /\ prefetched' = Rest(prefetched, One(p))
               /\ step' = "settle" /\ UNCHANGED <<stage, spurious>>
        BY Zenon, <1>1
    <2>2. \A q \in Producer : One(p)[q] <= Len(prefetched[q])
        <3>1. \A q \in Producer : Len(prefetched[q]) \in Nat
            BY <1>0 DEF Types, Queues
        <3>2. Len(prefetched[p]) # 0
            BY <1>0, <2>1 DEF Types, Queues
        <3> QED BY <3>1, <3>2, OneType
    <2>3. /\ taken' \in Queues /\ prefetched' \in Queues /\ prefetched \in Queues
          /\ \A q \in Producer :
                /\ Len(taken'[q]) = One(p)[q]
                /\ Len(prefetched'[q]) = Len(prefetched[q]) - One(p)[q]
                /\ \A k \in Nat : Run(prefetched[q], k) =>
                      Run(taken'[q], k) /\ Run(prefetched'[q], k + One(p)[q])
        BY ZenonT(60), <1>0, <2>1, <2>2, FrontRest, OneType DEF Types
    <2>4. ASSUME NEW q \in Producer
          PROVE  /\ Run(taken'[q], Len(received[q]))
                 /\ Run(prefetched'[q], Len(received[q]) + Len(taken'[q]))
                 /\ Run(m_queue'[q], Len(received[q]) + Len(taken'[q]) + Len(prefetched'[q]))
                 /\ Len(taken'[q]) + Len(prefetched'[q]) + Len(m_queue'[q])
                    = Len(taken[q]) + Len(prefetched[q]) + Len(m_queue[q])
        <3> DEFINE r == Len(received[q])  c == Len(prefetched[q])
                   n == One(p)[q]         m == Len(m_queue[q])
        <3>1. /\ r \in Nat /\ c \in Nat /\ n \in Nat /\ m \in Nat
              /\ Len(taken'[q]) = n /\ Len(prefetched'[q]) = c - n /\ Len(taken[q]) = 0
            <4>1. r \in Nat /\ c \in Nat /\ m \in Nat
                BY <1>0 DEF Types, Queues
            <4>2. n \in Nat
                BY Zenon, OneType
            <4> QED BY Zenon, <1>0, <2>3, <4>1, <4>2, EmptyRun
        <3>2. Run(prefetched[q], r + 0) /\ Run(m_queue[q], r + 0 + c)
            BY Zenon, <1>0, EmptyRun DEF Ordered, InOrder
        <3>3. r + 0 = r /\ r + 0 + c = r + n + (c - n) /\ n + (c - n) + m = 0 + c + m
            <4> HIDE DEF r, c, n, m
            <4> QED BY <3>1
        <3>4. Run(taken'[q], r) /\ Run(prefetched'[q], r + n)
            BY Zenon, <2>3, <3>1, <3>2, <3>3
        <3> QED BY Zenon, <1>0, <3>1, <3>2, <3>3, <3>4
    <2>5. \A q \in Producer : InOrder(q)' /\ Accounted(q)' = Accounted(q)
        BY Zenon, <1>0, <2>3, <2>4, MovedOrdered DEF Types
    <2>6. Types' /\ Staged'
        BY Zenon, <1>0, <2>1, <2>3 DEF Types, Staged
    <2> QED BY Zenon, <2>5, <2>6 DEF Ordered
<1>2. CASE /\ kind = "batch" \/ prefetched = Empty
           /\ step' = "take" /\ UNCHANGED <<stage, taken, prefetched, spurious>>
    <2>1. Types' /\ Staged'
        BY <1>0, <1>2 DEF Types, Staged
    <2> QED BY Zenon, <1>0, <1>2, <2>1 DEF Ordered, InOrder, Accounted, InFlight
<1>3. CASE AfterFailure /\ UNCHANGED <<taken, prefetched>>
    <2>1. Types' /\ Staged'
        BY Zenon, <1>0, <1>3, FailureStages DEF Types, Staged
    <2> QED BY ZenonT(60), <1>0, <1>3, <2>1 DEF Ordered, InOrder, Accounted, InFlight
<1> QED BY Zenon, <1>1, <1>2, <1>3 DEF Check

(* try_dequeue with its prefetch: the first message of one producer, and more into the cache. *)
LEMMA TakeSingleOrdered ==
    ASSUME Ordered, step = "take", TakeSingle, UNCHANGED <<sender, received>>
    PROVE  /\ taken' \in Queues /\ prefetched' \in Queues /\ m_queue' \in Queues
           /\ \A p \in Producer : InOrder(p)' /\ Accounted(p)' = Accounted(p)
<1>0. taken = Empty /\ prefetched = Empty /\ m_queue \in Queues /\ received \in Queues
    BY Zenon DEF Ordered, Types, Staged, TakeSingle
<1>1. PICK p \in Available : \E g \in Grabs(m_queue, PrefetchLimit + 1) :
             /\ g[p] >= 1
             /\ taken' = Front(m_queue, One(p))
             /\ prefetched' = Rest(Front(m_queue, g), One(p))
             /\ m_queue' = Rest(m_queue, g)
    BY Zenon DEF TakeSingle
<1>2. PICK g \in Grabs(m_queue, PrefetchLimit + 1) :
             /\ g[p] >= 1
             /\ taken' = Front(m_queue, One(p))
             /\ prefetched' = Rest(Front(m_queue, g), One(p))
             /\ m_queue' = Rest(m_queue, g)
    BY Zenon, <1>1
<1>3. g \in [Producer -> Nat] /\ p \in Producer /\ \A q \in Producer : g[q] <= Len(m_queue[q])
    BY ChannelAssumption DEF Grabs, Available
<1>4. \A q \in Producer : One(p)[q] \in Nat /\ One(p)[q] <= g[q]
    BY <1>2, <1>3, OneType
<1>5. \A q \in Producer : One(p)[q] <= Len(m_queue[q])
    BY <1>0, <1>3, <1>4 DEF Queues
<1> DEFINE f == Front(m_queue, g)
<1>6. /\ f \in Queues /\ m_queue' \in Queues
      /\ \A q \in Producer :
            /\ Len(f[q]) = g[q] /\ Len(m_queue'[q]) = Len(m_queue[q]) - g[q]
            /\ \A k \in Nat : Run(m_queue[q], k) => Run(f[q], k) /\ Run(m_queue'[q], k + g[q])
    BY SMTT(30), <1>0, <1>2, <1>3, FrontRest
<1>a. prefetched' = Rest(f, One(p))
    BY Zenon, <1>2
<1> HIDE DEF f
<1>7. /\ taken' \in Queues
      /\ \A q \in Producer : /\ Len(taken'[q]) = One(p)[q]
                             /\ \A k \in Nat : Run(m_queue[q], k) => Run(taken'[q], k)
    BY Zenon, <1>0, <1>2, <1>3, <1>5, OneType, FrontRest
<1>8. /\ prefetched' \in Queues
      /\ \A q \in Producer : /\ Len(prefetched'[q]) = g[q] - One(p)[q]
                             /\ \A k \in Nat : Run(f[q], k) => Run(prefetched'[q], k + One(p)[q])
    <2>1. One(p) \in [Producer -> Nat] /\ \A q \in Producer : One(p)[q] <= Len(f[q])
        BY Zenon, <1>3, <1>4, <1>6, OneType
    <2>2. /\ Rest(f, One(p)) \in Queues
          /\ \A q \in Producer :
                /\ Len(Rest(f, One(p))[q]) = Len(f[q]) - One(p)[q]
                /\ \A k \in Nat : Run(f[q], k) => Run(Rest(f, One(p))[q], k + One(p)[q])
        BY Zenon, <1>6, <2>1, FrontRest
    <2> QED BY Zenon, <1>a, <1>6, <2>2
<1>9. ASSUME NEW q \in Producer
      PROVE  /\ Run(taken'[q], Len(received[q]))
             /\ Run(prefetched'[q], Len(received[q]) + Len(taken'[q]))
             /\ Run(m_queue'[q], Len(received[q]) + Len(taken'[q]) + Len(prefetched'[q]))
             /\ Len(taken'[q]) + Len(prefetched'[q]) + Len(m_queue'[q])
                = Len(taken[q]) + Len(prefetched[q]) + Len(m_queue[q])
    <2> DEFINE r == Len(received[q])  n == One(p)[q]  m == Len(m_queue[q])  h == g[q]
    <2>1. /\ r \in Nat /\ n \in Nat /\ m \in Nat /\ h \in Nat
          /\ Len(taken'[q]) = n /\ Len(prefetched'[q]) = h - n /\ Len(m_queue'[q]) = m - h
          /\ Len(taken[q]) = 0 /\ Len(prefetched[q]) = 0
        <3>1. r \in Nat /\ m \in Nat
            BY <1>0 DEF Queues
        <3>2. n \in Nat /\ h \in Nat
            BY Zenon, <1>3, <1>4
        <3> QED BY Zenon, <1>0, <1>6, <1>7, <1>8, <3>1, <3>2, EmptyRun
    <2>2. Run(m_queue[q], r + 0 + 0)
        BY ZenonT(60), <1>0, EmptyRun DEF Ordered, InOrder
    <2>3. r + 0 + 0 = r /\ r + n + (h - n) = r + h /\ n + (h - n) + (m - h) = 0 + 0 + m
        <3> HIDE DEF r, n, m, h
        <3> QED BY <2>1
    <2>4. Run(taken'[q], r) /\ Run(m_queue'[q], r + h) /\ Run(f[q], r)
        BY ZenonT(60), <1>6, <1>7, <2>1, <2>2, <2>3
    <2>5. Run(prefetched'[q], r + n)
        BY Zenon, <1>8, <2>1, <2>4
    <2> QED BY Zenon, <2>1, <2>3, <2>4, <2>5
<1> QED BY ZenonT(60), <1>6, <1>7, <1>8, <1>9, MovedOrdered

(* tryRecvBatch: what is cached first, then from the queue what is still missing. *)
LEMMA TakeBatchOrdered ==
    ASSUME Ordered, SumsAreNumbers, step = "take", TakeBatch, UNCHANGED <<sender, received>>
    PROVE  /\ taken' \in Queues /\ prefetched' \in Queues /\ m_queue' \in Queues
           /\ \A p \in Producer : InOrder(p)' /\ Accounted(p)' = Accounted(p)
<1>0. taken = Empty /\ prefetched \in Queues /\ m_queue \in Queues /\ received \in Queues
    BY Zenon DEF Ordered, Types, Staged
<1>1. PICK c \in Grabs(prefetched, MaxBatch) :
          /\ Total(c) = MaxBatch \/ c = Lengths(prefetched)
          /\ \E g \in BulkGrabs(MaxBatch - Total(c)) :
                /\ taken' = [p \in Producer |-> Front(prefetched, c)[p] \o Front(m_queue, g)[p]]
                /\ prefetched' = Rest(prefetched, c)
                /\ m_queue' = Rest(m_queue, g)
    BY ZenonT(60) DEF TakeBatch
<1>2. PICK g \in BulkGrabs(MaxBatch - Total(c)) :
                /\ taken' = [p \in Producer |-> Front(prefetched, c)[p] \o Front(m_queue, g)[p]]
                /\ prefetched' = Rest(prefetched, c)
                /\ m_queue' = Rest(m_queue, g)
    BY ZenonT(60), <1>1
<1>3. c \in [Producer -> Nat] /\ \A p \in Producer : c[p] <= Len(prefetched[p])
    BY ChannelAssumption DEF Grabs
<1>4. Total(c) \in Nat /\ Total(c) <= MaxBatch
    BY Zenon, <1>3 DEF Grabs, SumsAreNumbers
<1>5. /\ g \in [Producer -> 0..(MaxBatch - Total(c))]
      /\ \A p \in Producer : g[p] <= Len(m_queue[p])
    BY Zenon DEF BulkGrabs, Grabs
<1>6. g \in [Producer -> Nat]
    BY <1>4, <1>5, ChannelAssumption
<1>7. ASSUME NEW p \in Producer PROVE c[p] = Len(prefetched[p]) \/ g[p] = 0
    <2>1. CASE Total(c) = MaxBatch
        BY SMTT(30), <1>5, <2>1, ChannelAssumption
    <2>2. CASE c = Lengths(prefetched)
        BY Zenon, <2>2 DEF Lengths
    <2> QED BY Zenon, <1>1, <2>1, <2>2
<1> DEFINE a == Front(prefetched, c)
           b == Front(m_queue, g)
<1>8. /\ a \in Queues /\ prefetched' \in Queues
      /\ \A p \in Producer :
            /\ Len(a[p]) = c[p] /\ Len(prefetched'[p]) = Len(prefetched[p]) - c[p]
            /\ \A k \in Nat : Run(prefetched[p], k) => Run(a[p], k) /\ Run(prefetched'[p], k + c[p])
    BY Zenon, <1>0, <1>2, <1>3, FrontRest
<1>9. /\ b \in Queues /\ m_queue' \in Queues
      /\ \A p \in Producer :
            /\ Len(b[p]) = g[p] /\ Len(m_queue'[p]) = Len(m_queue[p]) - g[p]
            /\ \A k \in Nat : Run(m_queue[p], k) => Run(b[p], k) /\ Run(m_queue'[p], k + g[p])
    BY Zenon, <1>0, <1>2, <1>5, <1>6, FrontRest
<1>10. \A p \in Producer : taken'[p] = a[p] \o b[p]
    BY Zenon, <1>2
<1>a. taken' = [p \in Producer |-> a[p] \o b[p]]
    BY Zenon, <1>2
<1> HIDE DEF a, b
<1>11. ASSUME NEW p \in Producer
      PROVE  /\ taken'[p] \in Seq(1..PerProducer)
             /\ Run(taken'[p], Len(received[p]))
             /\ Run(prefetched'[p], Len(received[p]) + Len(taken'[p]))
             /\ Run(m_queue'[p], Len(received[p]) + Len(taken'[p]) + Len(prefetched'[p]))
             /\ Len(taken'[p]) + Len(prefetched'[p]) + Len(m_queue'[p])
                = Len(taken[p]) + Len(prefetched[p]) + Len(m_queue[p])
    <2> DEFINE r == Len(received[p])  x == Len(prefetched[p])  m == Len(m_queue[p])
               y == c[p]  z == g[p]
    <2>1. /\ r \in Nat /\ x \in Nat /\ m \in Nat /\ y \in Nat /\ z \in Nat
          /\ Len(a[p]) = y /\ Len(prefetched'[p]) = x - y /\ Len(b[p]) = z
          /\ Len(m_queue'[p]) = m - z /\ Len(taken[p]) = 0
          /\ a[p] \in Seq(1..PerProducer) /\ b[p] \in Seq(1..PerProducer) /\ (y = x \/ z = 0)
        <3>1. r \in Nat /\ x \in Nat /\ m \in Nat
            BY <1>0 DEF Queues
        <3>2. y \in Nat /\ z \in Nat
            BY Zenon, <1>3, <1>6
        <3>3. a[p] \in Seq(1..PerProducer) /\ b[p] \in Seq(1..PerProducer) /\ Len(taken[p]) = 0
            BY ZenonT(60), <1>0, <1>8, <1>9, EmptyRun DEF Queues
        <3> QED BY Zenon, <1>7, <1>8, <1>9, <3>1, <3>2, <3>3
    <2>2. Run(prefetched[p], r + 0) /\ Run(m_queue[p], r + 0 + x)
        BY ZenonT(60), <1>0, EmptyRun DEF Ordered, InOrder
    <2>3. /\ r + 0 = r /\ r + 0 + x = r + x /\ r + x + z = r + (y + z) + (x - y)
          /\ r + x \in Nat /\ (y + z) + (x - y) + (m - z) = 0 + x + m
        <3> HIDE DEF r, x, m, y, z
        <3>1. PICK R, X, Y, Z, M \in Nat : R = r /\ X = x /\ Y = y /\ Z = z /\ M = m
            BY Zenon, <2>1
        <3>2. /\ R + 0 = R /\ R + 0 + X = R + X /\ R + X + Z = R + (Y + Z) + (X - Y)
              /\ R + X \in Nat /\ (Y + Z) + (X - Y) + (M - Z) = 0 + X + M
            OBVIOUS
        <3> QED BY Zenon, <3>1, <3>2
    <2>4. /\ Run(a[p], r) /\ Run(prefetched'[p], r + y)
          /\ Run(b[p], r + x) /\ Run(m_queue'[p], r + x + z)
        BY ZenonT(60), <1>8, <1>9, <2>1, <2>2, <2>3
    <2>5. Run(b[p], r + Len(a[p]))
        <3>1. CASE y = x
            BY ZenonT(60), <2>1, <2>4, <3>1
        <3>2. CASE z = 0
            BY <2>1, <3>2 DEF Run
        <3> QED BY Zenon, <2>1, <3>1, <3>2
    <2>6. taken'[p] \in Seq(1..PerProducer) /\ Len(taken'[p]) = y + z /\ Run(taken'[p], r)
        <3>1. /\ a[p] \o b[p] \in Seq(1..PerProducer) /\ Run(a[p] \o b[p], r)
              /\ Len(a[p] \o b[p]) = Len(a[p]) + Len(b[p])
            BY Zenon, <2>1, <2>4, <2>5, RunConcat
        <3> QED BY Zenon, <1>10, <2>1, <3>1
    <2>7. Run(prefetched'[p], r + (y + z))
        <3>1. CASE y = x
            BY <2>1, <3>1 DEF Run
        <3>2. CASE z = 0
            <4>1. r + (y + z) = r + y
                BY <2>1, <3>2
            <4> QED BY Zenon, <2>4, <4>1
        <3> QED BY Zenon, <2>1, <3>1, <3>2
    <2> QED BY ZenonT(60), <2>1, <2>3, <2>4, <2>6, <2>7
<1>12. taken' \in Queues
    BY ZenonT(60), <1>a, <1>11 DEF Queues
<1> QED BY ZenonT(60), <1>8, <1>9, <1>11, <1>12, MovedOrdered

(* The attempt: the dequeue. *)
LEMMA TakeOrdered ==
    ASSUME Ordered, SumsAreNumbers, Take
    PROVE  Ordered' /\ \A p \in Producer : Accounted(p)' = Accounted(p)
<1>0. /\ Types /\ Staged /\ taken = Empty /\ step = "take"
      /\ UNCHANGED <<m_size, m_waiter, sender, m_queued, kind, hasReady, timer, received>>
    BY Zenon DEF Ordered, Staged, Take
<1>1. CASE (TakeSingle \/ TakeBatch) /\ step' = "settle" /\ UNCHANGED <<stage, spurious>>
    <2>1. /\ taken' \in Queues /\ prefetched' \in Queues /\ m_queue' \in Queues
          /\ \A p \in Producer : InOrder(p)' /\ Accounted(p)' = Accounted(p)
        BY Zenon, <1>0, <1>1, TakeSingleOrdered, TakeBatchOrdered
    <2>2. Types' /\ Staged'
        BY Zenon, <1>0, <1>1, <2>1 DEF Types, Staged
    <2> QED BY Zenon, <2>1, <2>2 DEF Ordered
<1>2. CASE AfterFailure /\ UNCHANGED <<taken, prefetched, m_queue>>
    <2>1. Types' /\ Staged'
        BY <1>0, <1>2, FailureStages DEF Types, Staged
    <2> QED BY ZenonT(60), <1>0, <1>2, <2>1 DEF Ordered, InOrder, Accounted, InFlight
<1> QED BY Zenon, <1>1, <1>2 DEF Take

(* The messages of an attempt are handed over. *)
LEMMA SettleOrdered ==
    ASSUME Ordered, Settle
    PROVE  /\ Ordered'
           /\ \A p \in Producer : /\ Accounted(p) = Accounted(p)' + Len(taken[p])
                                  /\ Accounted(p)' \in Nat /\ Len(taken[p]) \in Nat
<1>0. /\ Types /\ Staged /\ step = "settle" /\ taken' = Empty
      /\ received' = [p \in Producer |-> received[p] \o taken[p]]
      /\ UNCHANGED <<m_waiter, m_queue, prefetched, sender, kind, m_queued, timer, spurious>>
    BY Zenon DEF Ordered, Settle
<1>1. ASSUME NEW p \in Producer
      PROVE  /\ received'[p] \in Seq(1..PerProducer) /\ InOrder(p)'
             /\ Accounted(p) = Accounted(p)' + Len(taken[p])
             /\ Accounted(p)' \in Nat /\ Len(taken[p]) \in Nat
    <2> DEFINE r == Len(received[p])  t == Len(taken[p])  c == Len(prefetched[p])
               q == Len(m_queue[p])  i == InFlight(p)
    <2>1. /\ r \in Nat /\ t \in Nat /\ c \in Nat /\ q \in Nat
          /\ received[p] \in Seq(1..PerProducer) /\ taken[p] \in Seq(1..PerProducer)
        BY <1>0 DEF Types, Queues
    <2>2. i \in Nat /\ InFlight(p)' = i
        BY <1>0, ChannelAssumption DEF Types, Sender, InFlight
    <2>3. /\ Run(received[p], 0) /\ Run(taken[p], r) /\ Run(prefetched[p], r + t)
          /\ Run(m_queue[p], r + t + c) /\ sender[p].next = r + t + c + q + 1
        BY ZenonT(60) DEF Ordered, InOrder
    <2>4. received'[p] = received[p] \o taken[p] /\ taken'[p] = <<>> /\ Len(taken'[p]) = 0
        BY ZenonT(60), <1>0, EmptyRun
    <2>5. 0 + r = r /\ r + t + 0 = r + t /\ r + t + 0 + c = r + t + c
          /\ r + t + 0 + c + q + 1 = r + t + c + q + 1
          /\ i + q + c + 0 \in Nat /\ i + q + c + t = (i + q + c + 0) + t
        <3> HIDE DEF r, t, c, q, i
        <3> QED BY <2>1, <2>2
    <2>6. /\ received'[p] \in Seq(1..PerProducer) /\ Run(received'[p], 0)
          /\ Len(received'[p]) = r + t
        <3>1. Run(taken[p], 0 + Len(received[p])) /\ 0 \in Nat
            BY Zenon, <2>3, <2>5
        <3>2. /\ received[p] \o taken[p] \in Seq(1..PerProducer)
              /\ Run(received[p] \o taken[p], 0)
              /\ Len(received[p] \o taken[p]) = Len(received[p]) + Len(taken[p])
            BY Zenon, <2>1, <2>3, <3>1, RunConcat
        <3> QED BY Zenon, <2>4, <3>2
    <2>7. Run(taken'[p], r + t)
        BY <2>4 DEF Run
    <2>8. InOrder(p)'
        BY Zenon, <1>0, <2>3, <2>4, <2>5, <2>6, <2>7 DEF InOrder
    <2>9. Accounted(p)' = i + q + c + 0 /\ Accounted(p) = i + q + c + t
        BY Zenon, <1>0, <2>2, <2>4 DEF Accounted
    <2> QED BY Zenon, <2>1, <2>5, <2>6, <2>8, <2>9
<1>2. received' \in Queues /\ taken' \in Queues
    BY Zenon, <1>0, <1>1, EmptyRun DEF Queues
<1>3. \/ stage = "recheck" /\ hasReady' = TRUE /\ step' = "clear" /\ stage' = stage
      \/ stage # "recheck" /\ stage' = "idle" /\ step' = "none" /\ hasReady' = hasReady
    BY Zenon DEF Settle
<1>4. Types' /\ Staged'
    BY ZenonT(60), <1>0, <1>2, <1>3 DEF Types, Staged
<1> QED BY Zenon, <1>1, <1>4 DEF Ordered

(* The other steps of the consumer move no message. *)
LEMMA ConsumerOrdered ==
    ASSUME Ordered, Begin \/ PublishWaiter \/ ClearAfterRecheck \/ ArmTimer \/ TimerFires \/ Resume
    PROVE  Ordered' /\ UNCHANGED <<m_size, m_queue, prefetched, taken, sender>>
<1>1. UNCHANGED <<m_size, m_queue, prefetched, taken, sender, received>>
    BY Zenon DEF Begin, PublishWaiter, ClearAfterRecheck, ArmTimer, TimerFires, Resume
<1>2. Types' /\ Staged'
    <2>0. Types /\ Staged
        BY Zenon DEF Ordered
    <2>1. CASE Begin
        BY ZenonT(60), <2>0, <2>1 DEF Begin, Types, Staged
    <2>2. CASE PublishWaiter
        BY Zenon, <2>0, <2>2 DEF PublishWaiter, Types, Staged
    <2>3. CASE ClearAfterRecheck
        BY ZenonT(60), <2>0, <2>3 DEF ClearAfterRecheck, Types, Staged
    <2>4. CASE ArmTimer \/ TimerFires
        BY ZenonT(60), <2>0, <2>4 DEF ArmTimer, TimerFires, Types, Staged
    <2>5. CASE Resume
        BY ZenonT(60), <2>0, <2>5 DEF Resume, Types, Staged
    <2> QED BY Zenon, <2>1, <2>2, <2>3, <2>4, <2>5
<1> QED BY Zenon, <1>1, <1>2 DEF Ordered, InOrder

-----------------------------------------------------------------------------
(* The wake-up *)

(* A sender that has woken nobody yet hands on what it knows. *)
LEMMA SenderWakes ==
    ASSUME IInv, NEW p \in Producer, SenderStep(p) \/ AddSize(p)
    PROVE  Wakes'
<1>0. Types /\ Wakes /\ DOMAIN sender = Producer
    BY Zenon DEF IInv, Ordered, Types
<1>a. UNCHANGED <<stage, prefetched, hasReady>>
    BY ZenonT(60) DEF SenderStep, AddSize, Enqueue, EnqueueRefused, TestWaiter, ConsumeWake,
            WakeUp, consumerVars
<1>b. \A q \in Producer : q # p => sender'[q] = sender[q]
    BY ZenonT(60), <1>0 DEF SenderStep, AddSize, Enqueue, EnqueueRefused, TestWaiter, ConsumeWake,
            WakeUp,
                SenderGoto
<1>c. sender[p] \in Sender /\ m_waiter \in BOOLEAN /\ m_queued \in BOOLEAN
    BY Zenon, <1>0 DEF Types
<1>1. CASE AddSize(p) \/ EnqueueRefused(p)
    <2>1. /\ sender[p].pc \in {"idle", "enqueue"} /\ UNCHANGED <<m_waiter, m_queue, m_queued>>
        BY ZenonT(60), <1>1 DEF AddSize, EnqueueRefused
    <2>2. \A q \in Producer : sender[q].pc \in {"test", "consume", "wake"} => sender'[q] = sender[q]
        BY Zenon, <1>b, <2>1
    <2> QED BY Zenon, <1>0, <1>a, <2>1, <2>2 DEF Wakes, Available
<1>2. CASE Enqueue(p)
    <2>1. /\ sender'[p].pc = "test" /\ sender[p].pc = "enqueue" /\ UNCHANGED <<m_waiter, m_queued>>
        BY ZenonT(60), <1>2, EnqueueOrdered DEF Enqueue, IInv
    <2> QED BY Zenon, <1>0, <1>a, <1>b, <2>1 DEF Wakes
<1>3. CASE TestWaiter(p)
    <2>1. /\ sender[p].pc = "test" /\ UNCHANGED <<m_waiter, m_queue, m_queued>>
        BY Zenon, <1>3 DEF TestWaiter
    <2>2. sender'[p].pc = "consume" \/ ~m_waiter
        BY Zenon, <1>0, <1>3, <1>c DEF TestWaiter, SenderGoto, Sender
    <2> QED BY Zenon, <1>0, <1>a, <1>b, <2>1, <2>2 DEF Wakes, Available
<1>4. CASE ConsumeWake(p)
    <2>1. /\ sender[p].pc = "consume" /\ UNCHANGED <<m_queue, m_queued>>
        BY Zenon, <1>4 DEF ConsumeWake
    <2>2. sender'[p].pc = "wake" \/ (~m_waiter /\ ~m_waiter')
        BY Zenon, <1>0, <1>4, <1>c DEF ConsumeWake, SenderGoto, Sender
    <2> QED BY Zenon, <1>0, <1>a, <1>b, <2>1, <2>2 DEF Wakes, Available
<1>5. CASE WakeUp(p)
    BY Zenon, <1>0, <1>5, <1>a DEF WakeUp, Wakes
<1> QED BY Zenon, <1>1, <1>2, <1>3, <1>4, <1>5 DEF SenderStep

(* The consumer goes to sleep only with its registration published and nothing left to take. *)
LEMMA ConsumerWakes ==
    ASSUME IInv, NothingLeft, ConsumerStep \/ ArmTimer \/ TimerFires
    PROVE  Wakes'
<1>0. Types /\ Staged /\ Wakes /\ Ordered /\ Sized
    BY Zenon DEF IInv, Ordered
<1>1. CASE Begin
    BY Zenon, <1>1 DEF Begin, Wakes
<1>2. CASE Check
    <2>1. /\ stage \in {"ready", "poll", "suspend", "recheck", "resume"}
          /\ UNCHANGED <<m_waiter, m_queued, sender, m_queue>>
        BY SMTT(30), <1>0, <1>2 DEF Check, Types, Staged
    <2>2. CASE stage' = stage
        BY Zenon, <1>0, <2>1, <2>2 DEF Wakes
    <2>3. CASE stage' # stage
        <3>1. m_size = 0 /\ AfterFailure /\ prefetched' = prefetched
            BY Zenon, <1>2, <2>3 DEF Check
        <3>2. Available = {} /\ prefetched = Empty
            BY Zenon, <3>1 DEF NothingLeft
        <3>3. Available' = {}
            BY Zenon, <2>1, <3>2 DEF Available
        <3>4. stage' # "recheck" /\ (stage' = "suspended" => stage = "recheck")
            BY SMTT(30), <1>0, <3>1, FailureStages
        <3> QED BY Zenon, <1>0, <2>1, <3>1, <3>2, <3>3, <3>4 DEF Wakes
    <2> QED BY SMTT(30), <2>2, <2>3
<1>3. CASE Take
    <2>1. /\ stage \in {"ready", "poll", "suspend", "recheck", "resume"}
          /\ UNCHANGED <<m_waiter, m_queued, sender>>
        BY SMTT(30), <1>0, <1>3 DEF Take, Types, Staged
    <2>2. CASE stage' = stage
        BY Zenon, <1>0, <2>1, <2>2 DEF Wakes
    <2>3. CASE stage' # stage
        <3>1. Available = {} /\ AfterFailure /\ UNCHANGED <<prefetched, m_queue>>
            BY Zenon, <1>3, <2>3 DEF Take
        <3>2. prefetched = Empty
            BY Zenon, <1>0, <1>3, <2>3 DEF Take, Staged, Types
        <3>3. Available' = {}
            BY Zenon, <3>1 DEF Available
        <3>4. stage' # "recheck" /\ (stage' = "suspended" => stage = "recheck")
            BY SMTT(30), <1>0, <3>1, FailureStages
        <3> QED BY Zenon, <1>0, <2>1, <3>1, <3>2, <3>3, <3>4 DEF Wakes
    <2> QED BY Zenon, <2>2, <2>3
<1>4. CASE Settle
    BY Zenon, <1>0, <1>4 DEF Settle, Wakes, Staged
<1>5. CASE PublishWaiter
    BY Zenon, <1>5 DEF PublishWaiter, Wakes
<1>6. CASE ClearAfterRecheck
    <2>1. /\ stage = "recheck" /\ hasReady
          /\ UNCHANGED <<sender, m_queued, m_queue, prefetched, hasReady>>
        BY Zenon, <1>0, <1>6 DEF ClearAfterRecheck, Staged
    <2>2. stage' = "idle" \/ (stage' = "suspended" /\ ~m_waiter)
        BY SMTT(30), <1>0, <1>6 DEF ClearAfterRecheck, Types
    <2> QED BY SMTT(30), <1>0, <2>1, <2>2 DEF Wakes
<1>7. CASE ArmTimer \/ TimerFires
    BY Zenon, <1>0, <1>7 DEF ArmTimer, TimerFires, Wakes, Available, Types
<1>8. CASE Resume
    BY Zenon, <1>8 DEF Resume, Wakes
<1> QED BY Zenon, <1>1, <1>2, <1>3, <1>4, <1>5, <1>6, <1>7, <1>8 DEF ConsumerStep

-----------------------------------------------------------------------------
(* Sums, as far as the channel needs them: they are numbers, zero only when all summands are,
   add up summand by summand, and a sum with one summand is that summand. *)
Sums ==
    /\ \A f \in [Producer -> Nat] :
          /\ Total(f) \in Nat
          /\ Total(f) = 0 <=> \A p \in Producer : f[p] = 0
          /\ \A p \in Producer : (\A q \in Producer \ {p} : f[q] = 0) => Total(f) = f[p]
    /\ \A f, g, h \in [Producer -> Nat] :
          (\A p \in Producer : h[p] = f[p] + g[p]) => Total(h) = Total(f) + Total(g)

(* The facts of Sums one by one. *)
LEMMA TotalType ==
    ASSUME Sums, NEW f \in [Producer -> Nat]
    PROVE  Total(f) \in Nat
BY Zenon DEF Sums

(* A sum is zero when all summands are. *)
LEMMA TotalZero ==
    ASSUME Sums, NEW f \in [Producer -> Nat]
    PROVE  Total(f) = 0 <=> \A p \in Producer : f[p] = 0
BY Zenon DEF Sums

(* The sum of two lists of numbers is the sum of their sums. *)
LEMMA TotalAdd ==
    ASSUME Sums, NEW f \in [Producer -> Nat], NEW g \in [Producer -> Nat],
           NEW h \in [Producer -> Nat], \A p \in Producer : h[p] = f[p] + g[p]
    PROVE  Total(h) = Total(f) + Total(g)
BY Zenon DEF Sums

(* A sum with one summand. *)
LEMMA TotalSingle ==
    ASSUME Sums, NEW f \in [Producer -> Nat], NEW p \in Producer,
           \A q \in Producer \ {p} : f[q] = 0
    PROVE  Total(f) = f[p]
BY Zenon DEF Sums

-----------------------------------------------------------------------------
(* The size *)

(* Every producer's share is a number, and m_size is zero only when all are. *)
LEMMA Shares ==
    ASSUME Sums, Ordered
    PROVE  /\ [p \in Producer |-> Accounted(p)] \in [Producer -> Nat]
           /\ Sized /\ m_size = 0 => Available = {} /\ prefetched = Empty
<1>1. ASSUME NEW p \in Producer
      PROVE  /\ Accounted(p) \in Nat
             /\ Accounted(p) = 0 => m_queue[p] = <<>> /\ prefetched[p] = <<>>
    <2>1. /\ InFlight(p) \in Nat /\ Len(m_queue[p]) \in Nat /\ Len(prefetched[p]) \in Nat
          /\ Len(taken[p]) \in Nat
        BY ChannelAssumption DEF Ordered, Types, Queues, Sender, InFlight
    <2>2. Len(m_queue[p]) = 0 => m_queue[p] = <<>>
        BY DEF Ordered, Types, Queues
    <2>3. Len(prefetched[p]) = 0 => prefetched[p] = <<>>
        BY DEF Ordered, Types, Queues
    <2> DEFINE i == InFlight(p)  m == Len(m_queue[p])  c == Len(prefetched[p])  t == Len(taken[p])
    <2>4. Accounted(p) = i + m + c + t
        BY Zenon DEF Accounted
    <2>5. i + m + c + t \in Nat /\ (i + m + c + t = 0 => m = 0 /\ c = 0)
        <3> HIDE DEF i, m, c, t
        <3>1. PICK I, M, P, T \in Nat : I = i /\ M = m /\ P = c /\ T = t
            BY Zenon, <2>1 DEF i, m, c, t
        <3>2. I + M + P + T \in Nat /\ (I + M + P + T = 0 => M = 0 /\ P = 0)
            OBVIOUS
        <3> QED BY Zenon, <3>1, <3>2
    <2> QED BY Zenon, <2>2, <2>3, <2>4, <2>5
<1>2. [p \in Producer |-> Accounted(p)] \in [Producer -> Nat]
    BY SMTT(30), <1>1
<1>3. ASSUME Sized, m_size = 0 PROVE Available = {} /\ prefetched = Empty
    <2>1. \A p \in Producer : Accounted(p) = 0
        BY ZenonT(60), <1>2, <1>3, TotalZero DEF Sized
    <2> QED BY Zenon, <1>1, <2>1 DEF Available, Empty, Ordered, Types, Queues
<1> QED BY Zenon, <1>2, <1>3

(* A step that changes the share of one producer by n, or of none. *)
LEMMA SizeChanged ==
    ASSUME Sums, Ordered, Ordered', Sized, NEW p \in Producer, NEW n \in Nat,
           \A q \in Producer : q # p => Accounted(q)' = Accounted(q),
           \/ Accounted(p)' = Accounted(p) + n /\ m_size' = m_size + n
           \/ Accounted(p) = Accounted(p)' + n /\ m_size' = m_size - n
    PROVE  Sized'
<1> DEFINE f == [q \in Producer |-> Accounted(q)]
           g == [q \in Producer |-> Accounted(q)']
           d == [q \in Producer |-> IF q = p THEN n ELSE 0]
<1>0. ASSUME NEW q \in Producer PROVE Accounted(q)' \in Nat
    <2> DEFINE i == InFlight(q)'          m == Len(m_queue'[q])
               c == Len(prefetched'[q])  t == Len(taken'[q])
    <2>1. sender'[q] \in Sender /\ m \in Nat /\ c \in Nat /\ t \in Nat
        <3>1. Types'
            BY Zenon DEF Ordered
        <3> QED BY SMTT(30), <3>1 DEF Types, Queues
    <2>2. i \in Nat
        BY SMTT(30), <2>1, ChannelAssumption DEF Sender, InFlight
    <2>3. Accounted(q)' = i + m + c + t
        BY Zenon DEF Accounted
    <2> HIDE DEF i, m, c, t
    <2> QED BY SMTT(30), <2>1, <2>2, <2>3
<1>1. f \in [Producer -> Nat] /\ g \in [Producer -> Nat] /\ d \in [Producer -> Nat]
    BY Zenon, <1>0, Shares
<1>2. Total(d) = n
    BY SMTT(30), <1>1, TotalSingle
<1>3. Total(f) \in Nat /\ Total(g) \in Nat
    BY Zenon, <1>1, TotalType
<1>4. m_size = Total(f)
    BY SMTT(30) DEF Sized
<1>5. \A q \in Producer : /\ f[q] = Accounted(q) /\ g[q] = Accounted(q)'
                          /\ f[q] \in Nat /\ g[q] \in Nat
    BY SMTT(30), <1>1
<1>6. CASE Accounted(p)' = Accounted(p) + n /\ m_size' = m_size + n
    <2>1. \A q \in Producer : g[q] = f[q] + d[q]
        BY SMTT(30), <1>5, <1>6
    <2>2. Total(g) = Total(f) + Total(d)
        BY Zenon, <1>1, <2>1, TotalAdd
    <2> QED BY Zenon, <1>2, <1>4, <1>6, <2>2 DEF Sized
<1>7. CASE Accounted(p) = Accounted(p)' + n /\ m_size' = m_size - n
    <2>1. \A q \in Producer : f[q] = g[q] + d[q]
        BY SMTT(30), <1>5, <1>7
    <2>2. Total(f) = Total(g) + Total(d)
        BY SMTT(30), <1>1, <2>1, TotalAdd
    <2>3. m_size' = Total(g)
        <3> HIDE DEF f, g, d
        <3> QED BY <1>2, <1>3, <1>4, <1>7, <2>2
    <2> QED BY SMTT(30), <2>3 DEF Sized
<1> QED BY SMTT(30), <1>6, <1>7

(* Every step keeps order and size. *)
LEMMA NextOrdered ==
    ASSUME Sums, Ordered, Sized, [Next]_vars
    PROVE  Ordered' /\ Sized'
<1>1. ASSUME NEW p \in Producer, AddSize(p) PROVE Ordered' /\ Sized'
    <2> DEFINE n == sender'[p].count
    <2>1. /\ Ordered' /\ sender'[p].pc = "enqueue" /\ m_size' = m_size + n /\ n \in Nat
          /\ \A q \in Producer : q # p => sender'[q] = sender[q]
        BY Zenon, <1>1, AddSizeOrdered
    <2>3. sender[p].pc = "idle"
        BY SMTT(30), <1>1 DEF AddSize
    <2>4. UNCHANGED <<m_queue, prefetched, taken>>
        BY SMTT(30), <1>1 DEF AddSize, consumerVars
    <2>5. \A q \in Producer : q # p => Accounted(q)' = Accounted(q)
        BY Zenon, <2>1, <2>4 DEF Accounted, InFlight
    <2>6. Accounted(p)' = Accounted(p) + n
        BY SMTT(30), <2>1, <2>3, <2>4, ChannelAssumption DEF Accounted, InFlight, Ordered, Types,
            Queues
    <2> HIDE DEF n
    <2> QED BY SMTT(30), <2>1, <2>5, <2>6, SizeChanged
<1>2. ASSUME NEW p \in Producer, Enqueue(p) PROVE Ordered' /\ Sized'
    <2>1. /\ Ordered' /\ Len(m_queue'[p]) = Len(m_queue[p]) + sender[p].count
          /\ sender'[p].pc = "test" /\ sender[p].pc = "enqueue"
          /\ \A q \in Producer : q # p => m_queue'[q] = m_queue[q] /\ sender'[q] = sender[q]
        BY ZenonT(60), <1>2, EnqueueOrdered DEF Enqueue
    <2>2. UNCHANGED <<m_size, prefetched, taken>>
        BY SMTT(30), <1>2 DEF Enqueue, consumerVars
    <2>3. \A q \in Producer : q # p => Accounted(q)' = Accounted(q)
        BY Zenon, <2>1, <2>2 DEF Accounted, InFlight
    <2>4. Accounted(p)' = Accounted(p) + 0 /\ m_size' = m_size + 0
        <3> DEFINE n == sender[p].count      q == Len(m_queue[p])
                   c == Len(prefetched[p])  t == Len(taken[p])
        <3>1. n \in Nat /\ q \in Nat /\ c \in Nat /\ t \in Nat /\ m_size \in Nat
            <4>1. n \in Nat /\ q \in Nat /\ c \in Nat /\ t \in Nat
                BY ChannelAssumption DEF Ordered, Types, Queues, Sender
            <4>2. m_size \in Nat
                BY SMTT(30), Shares, TotalType DEF Sized
            <4> QED BY SMTT(30), <4>1, <4>2
        <3>2. Accounted(p) = n + q + c + t /\ Accounted(p)' = 0 + (q + n) + c + t
            BY Zenon, <2>1, <2>2 DEF Accounted, InFlight
        <3> HIDE DEF n, q, c, t
        <3> QED BY <2>2, <3>1, <3>2
    <2> QED BY SMTT(30), <2>1, <2>3, <2>4, SizeChanged
<1>3. ASSUME NEW p \in Producer, EnqueueRefused(p) PROVE Ordered' /\ Sized'
    <2>1. Ordered'
        BY SMTT(30), <1>3, SenderGotoOrdered DEF EnqueueRefused, Ordered, Types, Label
    <2>2. /\ sender'[p].pc = "idle" /\ sender[p].pc = "enqueue"
          /\ \A q \in Producer : q # p => sender'[q] = sender[q]
        BY Zenon, <1>3 DEF EnqueueRefused, SenderGoto, Ordered, Types, Sender
    <2>3. UNCHANGED <<m_queue, prefetched, taken>> /\ m_size' = m_size - sender[p].count
        BY Zenon, <1>3 DEF EnqueueRefused, consumerVars
    <2>4. \A q \in Producer : q # p => Accounted(q)' = Accounted(q)
        BY Zenon, <2>2, <2>3 DEF Accounted, InFlight
    <2>5. Accounted(p) = Accounted(p)' + sender[p].count /\ sender[p].count \in Nat
        <3> DEFINE n == sender[p].count      m == Len(m_queue[p])
                   c == Len(prefetched[p])  t == Len(taken[p])
        <3>1. n \in Nat /\ m \in Nat /\ c \in Nat /\ t \in Nat
            BY ChannelAssumption DEF Ordered, Types, Queues, Sender
        <3>2. Accounted(p) = n + m + c + t /\ Accounted(p)' = 0 + m + c + t
            BY Zenon, <2>2, <2>3 DEF Accounted, InFlight
        <3> HIDE DEF n, m, c, t
        <3>3. Accounted(p) = Accounted(p)' + n
            BY <3>1, <3>2
        <3> QED BY SMTT(30), <3>1, <3>3 DEF n
    <2> QED BY Zenon, <2>1, <2>3, <2>4, <2>5, SizeChanged
<1>4. ASSUME NEW p \in Producer, TestWaiter(p) \/ ConsumeWake(p) \/ WakeUp(p)
      PROVE  Ordered' /\ Sized'
    <2>1. PICK l \in Label \ {"enqueue"} : SenderGoto(p, l)
        BY SMTT(30), <1>4 DEF TestWaiter, ConsumeWake, WakeUp, Label
    <2>2. /\ UNCHANGED <<m_size, m_queue, consumerVars>> /\ sender[p].pc # "enqueue"
          /\ m_waiter' \in BOOLEAN /\ m_queued' \in BOOLEAN
        BY ZenonT(60), <1>4 DEF TestWaiter, ConsumeWake, WakeUp, Ordered, Types
    <2>3. Ordered'
        BY SMTT(30), <2>1, <2>2, SenderGotoOrdered
    <2>4. sender'[p].pc # "enqueue" /\ \A q \in Producer : q # p => sender'[q] = sender[q]
        BY SMTT(30), <2>1 DEF SenderGoto, Ordered, Types, Sender
    <2>5. \A q \in Producer : Accounted(q)' = Accounted(q)
        BY Zenon, <2>2, <2>4 DEF Accounted, InFlight, consumerVars
    <2> QED BY Zenon, <2>2, <2>3, <2>5 DEF Sized
<1>5. CASE Check \/ Take
    <2>1. SumsAreNumbers
        BY Zenon, TotalType DEF SumsAreNumbers
    <2> QED BY SMTT(30), <1>5, <2>1, CheckOrdered, TakeOrdered DEF Sized, Check, Take
<1>6. CASE Settle
    <2> DEFINE f == [q \in Producer |-> Accounted(q)]
               g == [q \in Producer |-> Accounted(q)']
               d == Lengths(taken)
    <2>1. /\ Ordered' /\ \A p \in Producer : /\ Accounted(p) = Accounted(p)' + Len(taken[p])
                                             /\ Accounted(p)' \in Nat /\ Len(taken[p]) \in Nat
        BY SMTT(30), <1>6, SettleOrdered
    <2>2. f \in [Producer -> Nat] /\ g \in [Producer -> Nat] /\ d \in [Producer -> Nat]
        BY Zenon, <2>1, Shares DEF Lengths
    <2>3. \A q \in Producer : f[q] = g[q] + d[q]
        BY SMTT(30), <2>1 DEF Lengths
    <2>4. Total(f) = Total(g) + Total(d) /\ Total(g) \in Nat /\ Total(d) \in Nat
        BY Zenon, <2>2, <2>3, TotalAdd, TotalType
    <2>5. m_size = Total(f) /\ m_size' = m_size - Total(d)
        BY Zenon, <1>6 DEF Sized, Settle, SubtractSize
    <2>6. m_size' = Total(g)
        <3> HIDE DEF f, g, d
        <3> QED BY SMTT(30), <2>4, <2>5
    <2> QED BY Zenon, <2>1, <2>6 DEF Sized
<1>7. CASE Begin \/ PublishWaiter \/ ClearAfterRecheck \/ ArmTimer \/ TimerFires \/ Resume
    <2>1. Ordered' /\ UNCHANGED <<m_size, m_queue, prefetched, taken, sender>>
        BY Zenon, <1>7, ConsumerOrdered
    <2> QED BY SMTT(30), <2>1 DEF Sized, Accounted, InFlight
<1>8. CASE UNCHANGED vars
    <2>1. Ordered'
        <3>1. Types' /\ Staged'
            BY <1>8 DEF vars, consumerVars, Ordered, Types, Staged
        <3>2. \A p \in Producer : InOrder(p)'
            BY ZenonT(60), <1>8 DEF vars, consumerVars, Ordered, InOrder
        <3> QED BY Zenon, <3>1, <3>2 DEF Ordered
    <2> QED BY SMTT(30), <1>8, <2>1 DEF vars, consumerVars, Sized, Accounted, InFlight
<1> QED BY SMTT(30), <1>1, <1>2, <1>3, <1>4, <1>5, <1>6, <1>7, <1>8 DEF Next, SenderStep,
    ConsumerStep

-----------------------------------------------------------------------------
(* The channel starts empty. *)
LEMMA InitSound ==
    ASSUME Sums, Init
    PROVE  IInv
<1>1. Types
    <2>1. [pc |-> "idle", count |-> 0, first |-> FALSE, next |-> 1] \in Sender
        BY ChannelAssumption DEF Sender, Label
    <2>2. sender \in [Producer -> Sender]
        BY Zenon, <2>1 DEF Init
    <2> QED BY ZenonT(60), <2>2, EmptyRun DEF Init, Types
<1>2. Staged /\ Wakes
    BY SMTT(30) DEF Init, Staged, Wakes
<1>3. \A p \in Producer : InOrder(p)
    BY EmptyRun DEF Init, InOrder
<1>4. Ordered
    BY SMTT(30), <1>1, <1>2, <1>3 DEF Ordered
<1>5. \A p \in Producer : Accounted(p) = 0
    BY EmptyRun DEF Init, Accounted, InFlight
<1>6. Sized
    <2>1. [p \in Producer |-> Accounted(p)] \in [Producer -> Nat]
        BY <1>5
    <2> QED BY SMTT(30), <1>5, <2>1, TotalZero DEF Sized, Init
<1> QED BY Zenon, <1>2, <1>4, <1>6 DEF IInv

(* Every step keeps the invariant. *)
LEMMA NextSound ==
    ASSUME Sums, IInv, [Next]_vars
    PROVE  IInv'
<1>1. Ordered' /\ Sized'
    BY SMTT(30), NextOrdered DEF IInv
<1>2. Wakes'
    <2>1. CASE \E p \in Producer : AddSize(p) \/ SenderStep(p)
        BY SMTT(30), <2>1, SenderWakes
    <2>2. CASE ConsumerStep \/ ArmTimer \/ TimerFires
        BY SMTT(30), <2>2, ConsumerWakes, Shares DEF IInv, NothingLeft
    <2>3. CASE UNCHANGED vars
        BY SMTT(30), <2>3 DEF vars, consumerVars, IInv, Wakes, Available
    <2> QED BY Zenon, <2>1, <2>2, <2>3 DEF Next
<1> QED BY Zenon, <1>1, <1>2 DEF IInv

(* What the invariant says of order and size. *)
LEMMA InvariantInOrder ==
    ASSUME Sums, IInv
    PROVE  InOrderExactlyOnce
<1>1. Types /\ Sized /\ \A p \in Producer : InOrder(p)
    BY SMTT(30) DEF IInv, Ordered
<1>2. m_size \in Nat
    BY Zenon, Shares, TotalType DEF IInv, Sized
<1>3. ASSUME NEW p \in Producer PROVE received[p] = [i \in 1..Len(received[p]) |-> i]
    <2>1. received[p] \in Seq(1..PerProducer) /\ Run(received[p], 0)
        BY SMTT(30), <1>1 DEF Types, Queues, InOrder
    <2>2. \A i \in 1..Len(received[p]) : received[p][i] = i
        BY <2>1 DEF Run
    <2> QED BY <2>1, <2>2
<1> QED BY Zenon, <1>1, <1>2, <1>3 DEF InOrderExactlyOnce, SizeAccounts, TypeOK, Sized

(* What it says of the wake-up. *)
LEMMA InvariantWakeUp == IInv => NoLostWakeUp
BY Zenon DEF IInv, Wakes, NoLostWakeUp

-----------------------------------------------------------------------------
INSTANCE FiniteSetTheorems

(* Why sums add up: Total is the size of a set of units. *)

Units(f) == UNION {{p} \X (1..f[p]) : p \in Producer}

(* The elements of the set whose size Total is. *)
LEMMA UnitsElements ==
    ASSUME NEW f \in [Producer -> Nat]
    PROVE  \A u : u \in Units(f) <=> \E p \in Producer : \E i \in 1..f[p] : u = <<p, i>>
BY DEF Units

(* A sum of finitely many numbers is a number. *)
LEMMA UnitsType ==
    ASSUME NEW f \in [Producer -> Nat]
    PROVE  IsFiniteSet(Units(f)) /\ Total(f) = Cardinality(Units(f)) /\ Total(f) \in Nat
<1> DEFINE B(p) == {p} \X (1..f[p])
           S == {B(p) : p \in Producer}
           F == [p \in Producer |-> B(p)]
<1>1. F \in Surjection(Producer, S)
    BY ZenonT(60) DEF Surjection
<1>2. IsFiniteSet(S)
    BY Zenon, <1>1, FS_Surjection, ChannelAssumption
<1>3. \A T \in S : IsFiniteSet(T)
    <2> SUFFICES ASSUME NEW p \in Producer PROVE IsFiniteSet(B(p))
        OBVIOUS
    <2>1. IsFiniteSet({p})
        BY Zenon, FS_Singleton
    <2>2. IsFiniteSet(1..f[p])
        BY SMTT(30), FS_Interval
    <2> QED BY Zenon, <2>1, <2>2, FS_Product
<1>4. IsFiniteSet(UNION S)
    BY ZenonT(60), <1>2, <1>3, FS_UNION
<1> QED BY SMTT(30), <1>4, FS_CardinalityType DEF Units, Total

(* A sum is zero when all summands are. *)
LEMMA UnitsZero ==
    ASSUME NEW f \in [Producer -> Nat]
    PROVE  Total(f) = 0 <=> \A p \in Producer : f[p] = 0
<1>1. Total(f) = 0 <=> Units(f) = {}
    BY SMTT(30), UnitsType, FS_EmptySet
<1>2. ASSUME Units(f) = {}, NEW p \in Producer PROVE f[p] = 0
    <2>1. f[p] \in Nat /\ <<p, 1>> \notin Units(f)
        BY SMTT(30), <1>2
    <2> QED BY <2>1, UnitsElements
<1>3. ASSUME \A p \in Producer : f[p] = 0 PROVE Units(f) = {}
    BY SMTT(30), <1>3, UnitsElements
<1> QED BY Zenon, <1>1, <1>2, <1>3

(* The sum of two lists of numbers is the sum of their sums. *)
LEMMA UnitsAdd ==
    ASSUME NEW f \in [Producer -> Nat], NEW g \in [Producer -> Nat],
           NEW h \in [Producer -> Nat], \A p \in Producer : h[p] = f[p] + g[p]
    PROVE  Total(h) = Total(f) + Total(g)
<1> DEFINE U == Units(h) \ Units(f)
           shift == [u \in Units(g) |-> <<u[1], f[u[1]] + u[2]>>]
<1>1. Units(f) \subseteq Units(h)
    <2> SUFFICES ASSUME NEW p \in Producer, NEW i \in 1..f[p]
                 PROVE  \E q \in Producer : \E j \in 1..h[q] : <<p, i>> = <<q, j>>
        BY SMTT(30), UnitsElements
    <2>1. f[p] \in Nat /\ g[p] \in Nat /\ h[p] = f[p] + g[p]
        OBVIOUS
    <2>2. i \in 1..h[p]
        BY <2>1
    <2> QED BY Zenon, <2>2
<1>2. \A u : u \in U <=> \E p \in Producer : \E i \in 1..g[p] : u = <<p, f[p] + i>>
    <2>1. ASSUME NEW u \in U PROVE \E p \in Producer : \E i \in 1..g[p] : u = <<p, f[p] + i>>
        <3>0. PICK p \in Producer : \E j \in 1..h[p] : u = <<p, j>>
            BY <2>1, UnitsElements
        <3>1. PICK j \in 1..h[p] : u = <<p, j>>
            BY SMTT(30), <3>0
        <3>2. f[p] \in Nat /\ g[p] \in Nat /\ h[p] = f[p] + g[p] /\ j \notin 1..f[p]
            BY Zenon, <2>1, <3>1, UnitsElements
        <3>3. j - f[p] \in 1..g[p] /\ j = f[p] + (j - f[p])
            BY <3>2
        <3> QED BY Zenon, <3>1, <3>3
    <2>2. ASSUME NEW p \in Producer, NEW i \in 1..g[p] PROVE <<p, f[p] + i>> \in U
        <3>1. f[p] \in Nat /\ g[p] \in Nat /\ h[p] = f[p] + g[p]
            OBVIOUS
        <3>2. f[p] + i \in 1..h[p] /\ f[p] + i \notin 1..f[p]
            BY <3>1
        <3>3. <<p, f[p] + i>> \in Units(h)
            BY SMTT(30), <3>2, UnitsElements
        <3>4. ASSUME NEW q \in Producer, NEW j \in 1..f[q], <<p, f[p] + i>> = <<q, j>> PROVE FALSE
            BY Zenon, <3>2, <3>4
        <3>5. <<p, f[p] + i>> \notin Units(f)
            BY Zenon, <3>4, UnitsElements
        <3> QED BY SMTT(30), <3>3, <3>5
    <2> QED BY SMTT(30), <2>1, <2>2
<1>3. \A u \in Units(g) : /\ u[1] \in Producer /\ u[2] \in 1..g[u[1]] /\ u = <<u[1], u[2]>>
                          /\ f[u[1]] \in Nat /\ u[2] \in Nat
    BY SMTT(30), UnitsElements
<1>4. shift \in [Units(g) -> U]
    BY SMTT(30), <1>2, <1>3
<1>5. ASSUME NEW u \in Units(g), NEW v \in Units(g), shift[u] = shift[v] PROVE u = v
    <2> DEFINE a == f[u[1]]  b == u[2]  c == v[2]
    <2>1. u[1] = v[1] /\ a + b = a + c
        BY SMTT(30), <1>5
    <2>2. a \in Nat /\ b \in Nat /\ c \in Nat
        BY Zenon, <1>3
    <2>3. b = c
        <3> HIDE DEF a, b, c
        <3> QED BY <2>1, <2>2
    <2> QED BY Zenon, <1>3, <2>1, <2>3
<1>6. \A w \in U : \E u \in Units(g) : shift[u] = w
    <2> TAKE w \in U
    <2>0. PICK p \in Producer : \E i \in 1..g[p] : w = <<p, f[p] + i>>
        BY SMTT(30), <1>2
    <2>1. PICK i \in 1..g[p] : w = <<p, f[p] + i>>
        BY SMTT(30), <2>0
    <2>2. <<p, i>> \in Units(g)
        BY SMTT(30), UnitsElements
    <2> QED BY SMTT(30), <2>1, <2>2
<1>7. shift \in Bijection(Units(g), U)
    BY ZenonT(60), <1>4, <1>5, <1>6 DEF Bijection, Injection, Surjection, IsInjective
<1> HIDE DEF U, shift
<1>8. IsFiniteSet(U) /\ Cardinality(U) = Cardinality(Units(g))
    BY SMTT(30), <1>7, UnitsType, FS_Bijection DEF ExistsBijection
<1>9. Units(h) = Units(f) \union U /\ Units(f) \intersect U = {}
    BY Zenon, <1>1 DEF U
<1>10. Cardinality(Units(h)) = Cardinality(Units(f)) + Cardinality(U) - Cardinality({})
    BY <1>8, <1>9, UnitsType, FS_Union
<1> QED BY <1>8, <1>10, UnitsType, FS_EmptySet

(* A sum with one summand. *)
LEMMA UnitsSingle ==
    ASSUME NEW f \in [Producer -> Nat], NEW p \in Producer,
           \A q \in Producer \ {p} : f[q] = 0
    PROVE  Total(f) = f[p]
<1>1. Units(f) = {p} \X (1..f[p])
    BY UnitsElements
<1>2. IsFiniteSet({p}) /\ Cardinality({p}) = 1
    BY ZenonT(60), FS_Singleton
<1>3. IsFiniteSet(1..f[p]) /\ Cardinality(1..f[p]) = f[p]
    BY SMTT(30), FS_Interval
<1>4. Cardinality({p} \X (1..f[p])) = Cardinality({p}) * Cardinality(1..f[p])
    BY Zenon, <1>2, <1>3, FS_Product
<1>5. f[p] \in Nat
    OBVIOUS
<1>6. Total(f) = 1 * f[p]
    BY Zenon, <1>1, <1>2, <1>3, <1>4, UnitsType
<1> QED BY SMTT(30), <1>5, <1>6

(* All facts the channel needs about sums. *)
LEMMA SumsHold == Sums
BY Zenon, UnitsType, UnitsZero, UnitsAdd, UnitsSingle DEF Sums

-----------------------------------------------------------------------------
(* IInv is an invariant of the channel. *)
LEMMA Invariant == Spec => []IInv
<1>1. Init => IInv
    BY Zenon, SumsHold, InitSound
<1>2. IInv /\ [Next]_vars => IInv'
    BY Zenon, SumsHold, NextSound
<1> QED BY <1>1, <1>2, PTL DEF Spec

(* MpscChannel delivers every producer's messages once and in the order sent, and m_size
   counts exactly what is on the way, however many producers there are and however single and
   batch sends, refused enqueues, prefetching and batch receives and timeouts are mixed. *)
THEOREM DeliveredOnceInOrder == Spec => []InOrderExactlyOnce
<1>1. IInv => InOrderExactlyOnce
    BY Zenon, SumsHold, InvariantInOrder
<1> QED BY <1>1, Invariant, PTL

(* A consumer of MpscChannel never sleeps over a message that nobody will wake it for. *)
THEOREM SleeperIsWoken == Spec => []NoLostWakeUp
BY Invariant, InvariantWakeUp, PTL
============================================================================
