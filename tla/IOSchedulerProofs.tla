-------------------------- MODULE IOSchedulerProofs --------------------------
(***************************************************************************)
(* The IO scheduler for any set of tasks, any number of injecting threads  *)
(* and any limits: its loop never sleeps over a task, injected_outstanding *)
(* is exact, and a scheduled task is in exactly one place.  What each step *)
(* does to the types, to injected_outstanding and to the wake protocol     *)
(* comes first, then where the tasks are.                                  *)
(***************************************************************************)
EXTENDS IOScheduler, TLAPS

LoopPc == {"head", "pass", "collect", "settle", "announce", "pop", "run", "end", "tick",
           "recheck", "steal", "poll", "polled", "cancel", "awake", "exited"}
InjectorPc == {"idle", "enqueue", "test", "exchange", "notify"}

(* The local variables of the threads. *)
LoopShape ==
    /\ loop = [pc |-> loop.pc, next |-> loop.next, burst |-> loop.burst,
               credit |-> loop.credit, ran |-> loop.ran, remote |-> loop.remote,
               passes |-> loop.passes, count |-> loop.count, last |-> loop.last]
    /\ loop.pc \in LoopPc /\ loop.count \in Nat
    /\ loop.pc # "settle" => loop.count = 0
    /\ loop.pc = "run" => loop.next \in Task

InjectorShape ==
    /\ injector = [i \in Injector |-> injector[i]]
    /\ \A i \in Injector :
          /\ injector[i] = [pc |-> injector[i].pc, task |-> injector[i].task,
                            wasEmpty |-> injector[i].wasEmpty]
          /\ injector[i].pc \in InjectorPc
          /\ injector[i].pc = "enqueue" => injector[i].task \in Task

Types == TypeOK /\ LoopShape /\ InjectorShape

(* injected_outstanding counts the queue, the batch being moved and the threads between
   their increment and their enqueue. *)
Enqueuing == {i \in Injector : injector[i].pc = "enqueue"}
Outstanding ==
    /\ IsFiniteSet(Enqueuing)
    /\ injected_outstanding = Len(inject_queue) + loop.count + Cardinality(Enqueuing)

(* m_sleeping is set before the loop asks for work the last time, and until it is past
   poll. *)
MarkedSleeping ==
    loop.pc \in {"recheck", "steal", "poll", "awake", "polled", "cancel"} => m_sleeping

(* A thread that may yet write the descriptor, and one that is about to. *)
Waking == \E i \in Injector : injector[i].pc \in {"test", "exchange", "notify"}
Notifying == \E i \in Injector : injector[i].pc = "notify"

(* Whoever finds a wake pending may rely on it: the descriptor is readable or about to
   be, or the loop is awake and about to withdraw it. *)
PendingIsCarried ==
    m_wakeup_pending => eventfd \/ Notifying \/ loop.pc = "cancel"

(* From the last question for work on, no task is in the way of sleep. *)
Attended ==
    loop.pc \in {"steal", "poll"} =>
        ~HasLocalWork /\ (inject_queue # <<>> => eventfd \/ Waking)

Awake == Types /\ MarkedSleeping /\ PendingIsCarried /\ Attended

(* What the loop relies on: nothing in the queue or in the batch is uncounted. *)
Covered == Len(inject_queue) + loop.count <= injected_outstanding

-----------------------------------------------------------------------------
(* The smaller of two numbers. *)
LEMMA MinOfTwo ==
    ASSUME NEW a \in Nat, NEW b \in Nat
    PROVE  Min({a, b}) = IF a <= b THEN a ELSE b
BY DEF Min

(* A step of the queues' limits is a natural number, and a drain takes no more than
   there is and no more than the ring has room for. *)
LEMMA DrainBounds ==
    ASSUME TypeOK
    PROVE  /\ RemainingCapacity \in Nat /\ kCapacity \in Nat /\ Len(local_ring) \in Nat
           /\ DrainCount \in Nat /\ DrainCount <= Len(inject_queue)
           /\ DrainCount <= RemainingCapacity
<1>1. kCapacity \in Nat /\ InjectBatch \in Nat
    BY Zenon, SchedulerAssumption
<1>2. Len(local_ring) \in Nat /\ Len(inject_queue) \in Nat /\ Len(local_ring) <= kCapacity
    BY DEF TypeOK
<1>3. RemainingCapacity \in Nat
    BY <1>1, <1>2 DEF RemainingCapacity
<1>4. DrainLimit \in Nat /\ DrainLimit <= RemainingCapacity
    BY <1>1, <1>3, MinOfTwo DEF DrainLimit
<1> QED BY <1>1, <1>2, <1>3, <1>4, MinOfTwo DEF DrainCount

(* The queues keep their types, and the ring its limit; whatever enters the inject queue
   is counted. *)
QueuesOK ==
    /\ local_ring \in Seq(Task) /\ Len(local_ring) <= kCapacity
    /\ inject_queue \in Seq(Task) /\ injected_outstanding \in Nat

Counted ==
    \/ UNCHANGED <<inject_queue, injected_outstanding>>
    \/ /\ injected_outstanding' = injected_outstanding + 1
       /\ Len(inject_queue') = Len(inject_queue) + 1

(* enqueueDeferred neither overflows the ring nor enqueues uncounted. *)
LEMMA DeferredSound ==
    ASSUME TypeOK, NEW t \in Task, enqueueDeferred(t)
    PROVE  /\ QueuesOK'
           /\ Counted
<1> USE DrainBounds
<1>1. CASE RemainingCapacity # 0
    <2>1. /\ local_ring' = Append(local_ring, t)
          /\ UNCHANGED <<inject_queue, injected_outstanding>>
        BY Zenon, <1>1 DEF enqueueDeferred, injectVars
    <2>2. local_ring' \in Seq(Task) /\ Len(local_ring') = Len(local_ring) + 1
        BY <2>1 DEF TypeOK
    <2> QED BY <1>1, <2>1, <2>2 DEF TypeOK, QueuesOK, RemainingCapacity, Counted
<1>2. CASE RemainingCapacity = 0
    <2>1. /\ UNCHANGED local_ring /\ injected_outstanding' = injected_outstanding + 1
          /\ inject_queue' = Append(inject_queue, t)
        BY Zenon, <1>2 DEF enqueueDeferred
    <2>2. inject_queue' \in Seq(Task) /\ Len(inject_queue') = Len(inject_queue) + 1
        BY <2>1 DEF TypeOK
    <2> QED BY <2>1, <2>2 DEF TypeOK, QueuesOK, Counted
<1> QED BY Zenon, <1>1, <1>2

(* What a drain leaves in the two queues. *)
LEMMA DrainSound ==
    ASSUME TypeOK, drainInjected
    PROVE  /\ local_ring' \in Seq(Task) /\ Len(local_ring') <= kCapacity
           /\ inject_queue' \in Seq(Task) /\ Len(inject_queue') = Len(inject_queue) - DrainCount
           /\ polls_since_inject' \in 0..inject_check_interval
<1> USE DrainBounds
<1> DEFINE moved == [k \in 1..DrainCount |-> inject_queue[DrainCount + 1 - k]]
           filled == local_ring \o moved
           n == Min({Len(filled), kCapacity})
<1>1. inject_queue \in Seq(Task) /\ local_ring \in Seq(Task) /\ Len(inject_queue) \in Nat
    BY DEF TypeOK
<1>2. \A k \in 1..DrainCount : inject_queue[DrainCount + 1 - k] \in Task
    BY <1>1
<1>3. moved \in Seq(Task)
    BY <1>2
<1>4. filled \in Seq(Task) /\ Len(filled) \in Nat
    BY <1>1, <1>3
<1>5. n \in Nat /\ n <= Len(filled) /\ n <= kCapacity
    BY <1>4, MinOfTwo
<1>6. SubSeq(filled, 1, n) \in Seq(Task) /\ Len(SubSeq(filled, 1, n)) = n
    <2> HIDE DEF filled, n
    <2> QED BY <1>4, <1>5
<1>7. local_ring' \in Seq(Task) /\ Len(local_ring') <= kCapacity
    <2>1. local_ring' = SubSeq(filled, 1, n)
        BY Zenon DEF drainInjected
    <2> HIDE DEF filled, n
    <2> QED BY Zenon, <1>5, <1>6, <2>1
<1>8. inject_queue' \in Seq(Task) /\ Len(inject_queue') = Len(inject_queue) - DrainCount
    <2>1. inject_queue' = SubSeq(inject_queue, DrainCount + 1, Len(inject_queue))
        BY Zenon DEF drainInjected
    <2> QED BY <1>1, <2>1
<1>9. polls_since_inject' \in 0..inject_check_interval
    BY SchedulerAssumption DEF drainInjected, TypeOK
<1> QED BY Zenon, <1>7, <1>8, <1>9

(* scheduleLocal, from any point of the loop. *)
LEMMA ScheduleLocalSound ==
    ASSUME TypeOK, NEW t \in Task, scheduleLocal(t)
    PROVE  /\ QueuesOK'
           /\ Counted
           /\ lifo_slot' \in Task \union {Null}
           /\ task' \in [Task -> {"idle", "queued", "running", "done"}]
           /\ UNCHANGED <<lifo_enabled, consecutive_lifo_polls, polls_since_inject>>
<1>1. /\ task' \in [Task -> {"idle", "queued", "running", "done"}]
      /\ UNCHANGED <<lifo_enabled, consecutive_lifo_polls, polls_since_inject>>
    BY Zenon DEF scheduleLocal, TypeOK
<1>2. CASE lifo_slot' = t /\ lifo_slot # Null /\ enqueueDeferred(lifo_slot)
    <2>1. lifo_slot \in Task
        BY Zenon, <1>2 DEF TypeOK
    <2> QED BY Zenon, <1>1, <1>2, <2>1, DeferredSound
<1>3. CASE lifo_slot' = t /\ UNCHANGED <<local_ring, injectVars>>
    BY Zenon, <1>1, <1>3 DEF injectVars, TypeOK, QueuesOK, Counted
<1>4. CASE enqueueDeferred(t) /\ UNCHANGED lifo_slot
    BY Zenon, <1>1, <1>4, DeferredSound DEF TypeOK
<1> QED BY Zenon, <1>2, <1>3, <1>4 DEF scheduleLocal

-----------------------------------------------------------------------------
(* The threads' local variables. *)

(* A move of an injecting thread past its enqueue. *)
LEMMA InjectorMoves ==
    ASSUME InjectorShape, NEW i \in Injector, NEW l \in InjectorPc \ {"enqueue"},
           InjectorGoto(i, l)
    PROVE  InjectorShape' /\ injector'[i].pc = l
<1>1. injector' = [injector EXCEPT ![i] = [@ EXCEPT !.pc = l, !.wasEmpty = FALSE]]
    BY Zenon DEF InjectorGoto
<1>2. injector'[i] = [injector[i] EXCEPT !.pc = l, !.wasEmpty = FALSE]
    BY Zenon, <1>1 DEF InjectorShape
<1>3. injector'[i] = [pc |-> l, task |-> injector[i].task, wasEmpty |-> FALSE]
    BY Zenon, <1>2 DEF InjectorShape
<1>4. injector' = [j \in Injector |-> injector'[j]]
    BY Zenon, <1>1 DEF InjectorShape
<1>5. \A j \in Injector \ {i} : injector'[j] = injector[j]
    BY Zenon, <1>1 DEF InjectorShape
<1> QED BY <1>3, <1>4, <1>5 DEF InjectorShape, InjectorPc

(* What InjectEnqueue leaves to its thread. *)
LEMMA EnqueueLeaves ==
    ASSUME InjectorShape, NEW i \in Injector, InjectEnqueue(i)
    PROVE  injector'[i] = [pc |-> "test", task |-> Null, wasEmpty |-> injector[i].wasEmpty]
<1>1. injector' = [injector EXCEPT ![i] = [@ EXCEPT !.pc = "test", !.task = Null]]
    BY Zenon DEF InjectEnqueue
<1>2. i \in DOMAIN injector
    BY Zenon DEF InjectorShape
<1>3. injector'[i] = [injector[i] EXCEPT !.pc = "test", !.task = Null]
    BY Zenon, <1>1, <1>2
<1> QED BY Zenon, <1>3 DEF InjectorShape

(* The types of the steps of other threads. *)
LEMMA OthersTyped ==
    ASSUME Types,
           \/ \E i \in Injector : InjectorStep(i) \/ \E t \in Task : InjectBegin(i, t)
           \/ Stop \/ ForceWake \/ Stolen
    PROVE  Types'
<1> USE DEF Types
<1>1. ASSUME NEW i \in Injector, NEW t \in Task, InjectBegin(i, t) PROVE Types'
    <2>1. InjectorShape'
        BY Zenon, <1>1 DEF InjectBegin, InjectorShape, InjectorPc
    <2>2. LoopShape'
        BY Zenon, <1>1 DEF InjectBegin, LoopShape
    <2>3. TypeOK'
        BY <1>1, <2>1 DEF InjectBegin, TypeOK, InjectorShape, workerVars, wakeVars, stopVars
    <2> QED BY Zenon, <2>1, <2>2, <2>3
<1>2. ASSUME NEW i \in Injector, InjectEnqueue(i) PROVE Types'
    <2>1. injector[i].task \in Task
        BY Zenon, <1>2 DEF InjectEnqueue, InjectorShape
    <2>2. inject_queue' \in Seq(Task)
        BY <1>2, <2>1 DEF InjectEnqueue, TypeOK
    <2>3. InjectorShape'
        <3>1. injector'[i] = [pc |-> "test", task |-> Null, wasEmpty |-> injector[i].wasEmpty]
            BY Zenon, <1>2, EnqueueLeaves
        <3>2. /\ \A j \in Injector \ {i} : injector'[j] = injector[j]
              /\ injector' = [j \in Injector |-> injector'[j]]
            BY Zenon, <1>2 DEF InjectEnqueue, InjectorShape
        <3> QED BY <3>1, <3>2 DEF InjectorShape, InjectorPc
    <2>4. LoopShape'
        BY Zenon, <1>2 DEF InjectEnqueue, LoopShape
    <2>5. \A j \in Injector : injector'[j].task \in Task \union {Null}
        BY <1>2 DEF InjectEnqueue, TypeOK, InjectorShape
    <2>6. TypeOK'
        BY Zenon, <1>2, <2>2, <2>5 DEF InjectEnqueue, TypeOK, workerVars, wakeVars, stopVars
    <2> QED BY Zenon, <2>3, <2>4, <2>6
<1>3. ASSUME NEW i \in Injector, WakeTest(i) \/ WakeExchange(i) \/ Notify(i) PROVE Types'
    <2>1. PICK l \in InjectorPc \ {"enqueue"} : InjectorGoto(i, l)
        BY Zenon, <1>3 DEF WakeTest, WakeExchange, Notify, InjectorPc
    <2>2. InjectorShape'
        BY Zenon, <2>1, InjectorMoves
    <2>3. UNCHANGED <<workerVars, injectVars, stopVars, m_sleeping, loop, task>>
        BY Zenon, <1>3 DEF WakeTest, WakeExchange, Notify, wakeVars
    <2>4. LoopShape'
        BY Zenon, <2>3 DEF LoopShape
    <2>5. \A j \in Injector : injector'[j].task \in Task \union {Null}
        BY <2>1 DEF InjectorGoto, TypeOK, InjectorShape
    <2>6. m_wakeup_pending' \in BOOLEAN /\ eventfd' \in BOOLEAN
        BY Zenon, <1>3 DEF WakeTest, WakeExchange, Notify, wakeVars, TypeOK
    <2>7. TypeOK'
        BY Zenon, <2>3, <2>5, <2>6 DEF TypeOK, workerVars, injectVars, stopVars
    <2> QED BY Zenon, <2>2, <2>4, <2>7
<1>4. CASE Stop \/ ForceWake
    <2>1. /\ UNCHANGED <<workerVars, injectVars, m_sleeping, m_wakeup_pending, loop,
                         injector, task>>
          /\ m_running' \in BOOLEAN /\ stopper' \in {"idle", "wake", "done"}
          /\ eventfd' \in BOOLEAN
        BY Zenon, <1>4 DEF Stop, ForceWake, TypeOK, wakeVars
    <2> QED BY Zenon, <2>1 DEF TypeOK, LoopShape, InjectorShape, workerVars, injectVars
<1>5. CASE Stolen
    <2>1. /\ local_ring' = Tail(local_ring) /\ local_ring # <<>>
          /\ local_ring[1] \in Task
        BY <1>5 DEF Stolen, TypeOK
    <2>2. local_ring' \in Seq(Task) /\ Len(local_ring') = Len(local_ring) - 1
        BY <2>1 DEF TypeOK
    <2>3. Len(local_ring') <= kCapacity
        BY <2>2, DrainBounds DEF TypeOK
    <2>4. task' \in [Task -> {"idle", "queued", "running", "done"}]
        BY Zenon, <1>5, <2>1 DEF Stolen, TypeOK
    <2>5. TypeOK'
        BY Zenon, <1>5, <2>2, <2>3, <2>4 DEF Stolen, TypeOK, injectVars, wakeVars, stopVars
    <2> QED BY Zenon, <1>5, <2>5 DEF Stolen, LoopShape, InjectorShape
<1> QED BY Zenon, <1>1, <1>2, <1>3, <1>4, <1>5 DEF InjectorStep

(* The types of a drain. *)
LEMMA DrainTyped == ASSUME Types, NEW last \in BOOLEAN, Drain(last) PROVE Types'
<1> USE DEF Types
<1>1. TypeOK'
    <2>1. loop'.next = loop.next
        BY Zenon DEF Drain, LoopShape
    <2> QED BY Zenon, <2>1, DrainSound DEF Drain, TypeOK, wakeVars, stopVars
<1>2. LoopShape'
    <2>1. DrainCount \in Nat
        BY Zenon, DrainBounds
    <2>2. /\ loop'.pc = IF DrainCount > 0 THEN "settle" ELSE IF last THEN "end" ELSE "pop"
          /\ loop'.count = DrainCount
          /\ loop' = [pc |-> loop'.pc, next |-> loop'.next, burst |-> loop'.burst,
                       credit |-> loop'.credit, ran |-> loop'.ran, remote |-> loop'.remote,
                       passes |-> loop'.passes, count |-> loop'.count, last |-> loop'.last]
        BY Zenon DEF Drain, LoopShape
    <2>3. CASE DrainCount > 0
        BY Zenon, <2>1, <2>2, <2>3 DEF LoopShape, LoopPc
    <2>4. CASE DrainCount = 0 /\ last
        BY Zenon, <2>1, <2>2, <2>4 DEF LoopShape, LoopPc
    <2>5. CASE DrainCount = 0 /\ ~last
        BY Zenon, <2>1, <2>2, <2>5 DEF LoopShape, LoopPc
    <2> QED BY <2>1, <2>3, <2>4, <2>5
<1> QED BY Zenon, <1>1, <1>2 DEF Drain, InjectorShape

(* The types of the steps of the loop that leave the queues alone. *)
LEMMA MovesTyped ==
    ASSUME Types,
           \/ LoopHead \/ PassBegin \/ Announce \/ PassEnd \/ MarkSleeping \/ Recheck
           \/ PollWoken \/ PollReturns \/ PollReadsEvent \/ PollCancels \/ MarkAwake
    PROVE  Types'
<1> USE DEF Types
<1>1. LoopShape' /\ loop'.next = loop.next
    <2>1. CASE LoopHead BY Zenon, <2>1 DEF LoopHead, LoopShape, LoopPc
    <2>2. CASE PassBegin BY Zenon, <2>2 DEF PassBegin, LoopShape, LoopPc
    <2>3. CASE Announce BY Zenon, <2>3 DEF Announce, Goto, LoopShape, LoopPc
    <2>4. CASE PassEnd BY Zenon, <2>4 DEF PassEnd, LoopShape, LoopPc
    <2>5. CASE MarkSleeping BY Zenon, <2>5 DEF MarkSleeping, Goto, LoopShape, LoopPc
    <2>6. CASE Recheck BY Zenon, <2>6 DEF Recheck, Goto, LoopShape, LoopPc
    <2>7. CASE PollWoken BY Zenon, <2>7 DEF PollWoken, LoopShape, LoopPc
    <2>8. CASE PollReturns BY Zenon, <2>8 DEF PollReturns, Goto, LoopShape, LoopPc
    <2>9. CASE PollReadsEvent BY Zenon, <2>9 DEF PollReadsEvent, LoopShape, LoopPc
    <2>10. CASE PollCancels BY Zenon, <2>10 DEF PollCancels, Goto, LoopShape, LoopPc
    <2>11. CASE MarkAwake BY Zenon, <2>11 DEF MarkAwake, Goto, LoopShape, LoopPc
    <2> QED BY Zenon, <2>1, <2>2, <2>3, <2>4, <2>5, <2>6, <2>7, <2>8, <2>9, <2>10, <2>11
<1>2. UNCHANGED <<workerVars, injectVars, stopVars, injector, task>>
    BY Zenon DEF LoopHead, PassBegin, Announce, PassEnd, MarkSleeping, Recheck, PollWoken,
           PollReturns, PollReadsEvent, PollCancels, MarkAwake
<1>3. m_sleeping' \in BOOLEAN /\ m_wakeup_pending' \in BOOLEAN /\ eventfd' \in BOOLEAN
    BY Zenon DEF LoopHead, PassBegin, Announce, PassEnd, MarkSleeping, Recheck, PollWoken,
           PollReturns, PollReadsEvent, PollCancels, MarkAwake, wakeVars, TypeOK
<1>4. TypeOK'
    BY Zenon, <1>1, <1>2, <1>3 DEF TypeOK, workerVars, injectVars, stopVars
<1> QED BY Zenon, <1>1, <1>2, <1>4 DEF InjectorShape

(* The types of the other steps of the loop, which change a queue or a task. *)
LEMMA QueueStepsTyped ==
    ASSUME Types,
           \/ Collect \/ Settle \/ Demote \/ PopLifo \/ PopRing \/ PopNothing
           \/ RunEnds \/ RunYields \/ TrySteal
           \/ \E t \in Task : RunSchedules(t) \/ LoopWakes(t),
           loop.pc = "settle" => loop.count <= injected_outstanding
    PROVE  Types'
<1> USE DEF Types
<1>0. /\ lifo_poll_limit \in Nat /\ inject_check_interval \in Nat
      /\ kCapacity \in Nat /\ Null \notin Task
    BY Zenon, SchedulerAssumption
<1>1. CASE Collect
    <2>1. CASE Drain(FALSE)
        BY Zenon, <2>1, DrainTyped
    <2>2. CASE Goto("pop") /\ UNCHANGED <<workerVars, injectVars, wakeVars, stopVars,
                                          injector, task>>
        <3>1. LoopShape' /\ loop'.next = loop.next
            BY Zenon, <1>1, <2>2 DEF Collect, Goto, LoopShape, LoopPc
        <3> QED BY Zenon, <2>2, <3>1 DEF TypeOK, InjectorShape, workerVars, injectVars, wakeVars,
                                  stopVars
    <2> QED BY Zenon, <1>1, <2>1, <2>2 DEF Collect
<1>2. CASE Settle
    <2>1. LoopShape' /\ loop'.next = loop.next
        BY Zenon, <1>2 DEF Settle, LoopShape, LoopPc
    <2>2. injected_outstanding' \in Nat
        BY <1>2 DEF Settle, TypeOK, LoopShape
    <2>3. TypeOK'
        BY Zenon, <1>2, <2>1, <2>2 DEF Settle, TypeOK, workerVars, wakeVars, stopVars
    <2> QED BY Zenon, <1>2, <2>1, <2>3 DEF Settle, InjectorShape
<1>3. CASE Demote
    <2>1. QueuesOK'
        BY Zenon, <1>3, DeferredSound DEF Demote, MustDemote, TypeOK
    <2>2. lifo_slot' \in Task \union {Null} /\ lifo_enabled' \in BOOLEAN
        BY Zenon, <1>3 DEF Demote
    <2>3. consecutive_lifo_polls' \in 0..lifo_poll_limit
        BY <1>0, <1>3 DEF Demote
    <2>4. TypeOK'
        BY Zenon, <1>3, <2>1, <2>2, <2>3 DEF Demote, TypeOK, QueuesOK, wakeVars, stopVars
    <2> QED BY Zenon, <1>3, <2>4 DEF Demote, LoopShape, InjectorShape
<1>4. ASSUME NEW t \in Task, Runs(t), loop.pc = "pop"
      PROVE  /\ LoopShape' /\ loop'.next \in Task
             /\ polls_since_inject' \in 0..inject_check_interval
             /\ task' \in [Task -> {"idle", "queued", "running", "done"}]
    <2>1. polls_since_inject + 1 \in Nat
        BY <1>0 DEF TypeOK
    <2>2. polls_since_inject' \in 0..inject_check_interval
        BY <1>0, <1>4, <2>1, MinOfTwo DEF Runs, Capped
    <2>3. LoopShape' /\ loop'.next \in Task
        BY Zenon, <1>4 DEF Runs, LoopShape, LoopPc
    <2>4. task' \in [Task -> {"idle", "queued", "running", "done"}]
        BY Zenon, <1>4 DEF Runs, TypeOK
    <2> QED BY Zenon, <2>2, <2>3, <2>4
<1>5. CASE PopLifo
    <2>1. lifo_slot \in Task /\ Runs(lifo_slot) /\ loop.pc = "pop"
        BY Zenon, <1>5 DEF PopLifo, TypeOK
    <2>2. consecutive_lifo_polls + 1 \in Nat
        BY <1>0 DEF TypeOK
    <2>3. consecutive_lifo_polls' \in 0..lifo_poll_limit
        BY <1>0, <1>5, <2>2, MinOfTwo DEF PopLifo, Capped
    <2>4. lifo_slot' \in Task \union {Null}
        BY Zenon, <1>5 DEF PopLifo
    <2>5. TypeOK'
        BY Zenon, <1>4, <1>5, <2>1, <2>3, <2>4 DEF PopLifo, TypeOK, injectVars, wakeVars, stopVars
    <2> QED BY Zenon, <1>4, <1>5, <2>1, <2>5 DEF PopLifo, InjectorShape
<1>6. CASE PopRing
    <2>1. /\ local_ring[Len(local_ring)] \in Task /\ Runs(local_ring[Len(local_ring)])
          /\ loop.pc = "pop"
          /\ local_ring' = SubSeq(local_ring, 1, Len(local_ring) - 1)
          /\ Len(local_ring) \in Nat \ {0} /\ Len(local_ring) <= kCapacity
        BY <1>6 DEF PopRing, TypeOK
    <2>2. local_ring' \in Seq(Task) /\ Len(local_ring') = Len(local_ring) - 1
        <3> DEFINE n == Len(local_ring) - 1
        <3>1. n \in Nat /\ n <= Len(local_ring) /\ local_ring \in Seq(Task)
            BY <2>1 DEF TypeOK
        <3>2. SubSeq(local_ring, 1, n) \in Seq(Task) /\ Len(SubSeq(local_ring, 1, n)) = n
            <4> HIDE DEF n
            <4>1. Len(SubSeq(local_ring, 1, n)) = n
                BY <3>1
            <4> QED BY <3>1, <4>1
        <3> QED BY Zenon, <2>1, <3>2
    <2>3. Len(local_ring') <= kCapacity
        BY <1>0, <2>1, <2>2
    <2>4. lifo_enabled' \in BOOLEAN /\ consecutive_lifo_polls' \in 0..lifo_poll_limit
        BY <1>0, <1>6 DEF PopRing
    <2>5. TypeOK'
        BY Zenon, <1>4, <1>6, <2>1, <2>2, <2>3, <2>4 DEF PopRing, TypeOK, injectVars, wakeVars, stopVars
    <2> QED BY Zenon, <1>4, <1>6, <2>1, <2>5 DEF PopRing, InjectorShape
<1>7. CASE PopNothing
    <2>1. CASE Drain(TRUE)
        BY Zenon, <2>1, DrainTyped
    <2>2. ASSUME NEW l \in {"end", "collect"}, Goto(l),
                 UNCHANGED <<workerVars, injectVars, wakeVars, stopVars, injector, task>>
          PROVE  Types'
        <3>1. LoopShape' /\ loop'.next = loop.next
            BY Zenon, <1>7, <2>2 DEF PopNothing, Goto, LoopShape, LoopPc
        <3> QED BY Zenon, <2>2, <3>1 DEF TypeOK, InjectorShape, workerVars, injectVars, wakeVars,
                                  stopVars
    <2> QED BY Zenon, <1>7, <2>1, <2>2 DEF PopNothing
<1>8. ASSUME AfterRun, loop.pc = "run" PROVE LoopShape' /\ loop'.next = Null
    BY Zenon, <1>8 DEF AfterRun, LoopShape, LoopPc
<1>9. CASE RunEnds
    <2>1. task' \in [Task -> {"idle", "queued", "running", "done"}]
        BY Zenon, <1>9 DEF RunEnds, TypeOK
    <2>2. TypeOK'
        BY Zenon, <1>8, <1>9, <2>1 DEF RunEnds, TypeOK, workerVars, injectVars, wakeVars, stopVars
    <2> QED BY Zenon, <1>8, <1>9, <2>2 DEF RunEnds, InjectorShape
<1>10. CASE RunYields
    <2>1. loop.next \in Task
        BY Zenon, <1>10 DEF RunYields, LoopShape
    <2>2. inject_queue' \in Seq(Task) /\ injected_outstanding' \in Nat
        BY <1>10, <2>1 DEF RunYields, TypeOK
    <2>3. task' \in [Task -> {"idle", "queued", "running", "done"}]
        BY Zenon, <1>10 DEF RunYields, TypeOK
    <2>4. TypeOK'
        BY Zenon, <1>8, <1>10, <2>2, <2>3 DEF RunYields, TypeOK, workerVars, wakeVars, stopVars
    <2> QED BY Zenon, <1>8, <1>10, <2>4 DEF RunYields, InjectorShape
<1>11. CASE TrySteal
    <2>1. LoopShape' /\ loop'.next = loop.next
        BY Zenon, <1>11 DEF TrySteal, Goto, LoopShape, LoopPc
    <2>2. CASE UNCHANGED <<workerVars, task>>
        BY Zenon, <1>11, <2>1, <2>2 DEF TrySteal, TypeOK, InjectorShape, workerVars, injectVars,
                                 wakeVars, stopVars
    <2>3. ASSUME NEW n \in 1..kCapacity, NEW s \in [1..n -> Task], local_ring' = s,
                 task' = [t \in Task |-> IF t \in Range(s) THEN "queued" ELSE task[t]],
                 lifo_enabled' = TRUE, consecutive_lifo_polls' = 0, polls_since_inject' = 0,
                 UNCHANGED lifo_slot
          PROVE  Types'
        <3>1. s \in Seq(Task) /\ Len(s) = n /\ n <= kCapacity
            BY <1>0, <2>3
        <3>2. task' \in [Task -> {"idle", "queued", "running", "done"}]
            BY Zenon, <2>3 DEF TypeOK
        <3>3. /\ lifo_enabled' \in BOOLEAN /\ consecutive_lifo_polls' \in 0..lifo_poll_limit
              /\ polls_since_inject' \in 0..inject_check_interval
            BY <1>0, <2>3
        <3>4. TypeOK'
            BY Zenon, <1>11, <2>1, <2>3, <3>1, <3>2, <3>3 DEF TrySteal, TypeOK, injectVars, wakeVars,
                                                       stopVars
        <3> QED BY Zenon, <1>11, <2>1, <3>4 DEF TrySteal, InjectorShape
    <2>4. CASE ~UNCHANGED <<workerVars, task>>
        <3>1. PICK s \in UNION {[1..n -> Task] : n \in 1..kCapacity} :
                  /\ local_ring' = s
                  /\ task' = [t \in Task |-> IF t \in Range(s) THEN "queued" ELSE task[t]]
            BY Zenon, <1>11, <2>4 DEF TrySteal
        <3>2. PICK n \in 1..kCapacity : s \in [1..n -> Task]
            BY Zenon, <3>1
        <3>3. /\ lifo_enabled' = TRUE /\ consecutive_lifo_polls' = 0
              /\ polls_since_inject' = 0 /\ UNCHANGED lifo_slot
            BY Zenon, <1>11, <2>4 DEF TrySteal
        <3> QED BY Zenon, <2>3, <3>1, <3>2, <3>3
    <2> QED BY Zenon, <2>2, <2>4
<1>12. ASSUME NEW t \in Task, RunSchedules(t) \/ LoopWakes(t) PROVE Types'
    <2>1. scheduleLocal(t) /\ UNCHANGED <<wakeVars, stopVars, loop, injector>>
        BY Zenon, <1>12 DEF RunSchedules, LoopWakes
    <2>2. TypeOK'
        BY Zenon, <2>1, ScheduleLocalSound DEF TypeOK, QueuesOK, wakeVars, stopVars
    <2> QED BY Zenon, <2>1, <2>2 DEF LoopShape, InjectorShape
<1> QED BY Zenon, <1>1, <1>2, <1>3, <1>5, <1>6, <1>7, <1>9, <1>10, <1>11, <1>12

-----------------------------------------------------------------------------
(* What a step does to the wake protocol. *)

(* The steps of the loop that leave the queues and the counter alone. *)
LoopMove ==
    \/ LoopHead \/ PassBegin \/ Announce \/ PassEnd \/ MarkSleeping \/ Recheck
    \/ PollWoken \/ PollReturns \/ PollReadsEvent \/ PollCancels \/ MarkAwake

(* The steps of the loop that move tasks between queues or run them. *)
QueueStep ==
    \/ Collect \/ Settle \/ Demote \/ PopLifo \/ PopRing \/ PopNothing
    \/ RunEnds \/ RunYields \/ TrySteal
    \/ \E t \in Task : RunSchedules(t) \/ LoopWakes(t)

(* The counter, the queue and the batch change by the same amount. *)
Balanced ==
    \/ Counted /\ loop'.count = loop.count
    \/ /\ injected_outstanding' = injected_outstanding - loop.count
       /\ Len(inject_queue') = Len(inject_queue) /\ loop'.count = 0
    \/ /\ injected_outstanding' = injected_outstanding /\ loop.count = 0
       /\ Len(inject_queue') = Len(inject_queue) - loop'.count

(* No step of the loop disturbs the count. *)
LEMMA LoopBalanced ==
    ASSUME Types, Types', QueueStep \/ LoopMove \/ Stolen
    PROVE  Balanced /\ UNCHANGED injector
<1> USE DEF Types
<1>0. /\ Len(inject_queue) \in Nat /\ Len(inject_queue') \in Nat
      /\ injected_outstanding \in Nat /\ injected_outstanding' \in Nat
      /\ loop.count \in Nat /\ loop'.count \in Nat
    BY DEF TypeOK, LoopShape
<1>1. ASSUME UNCHANGED <<injectVars, injector>>, loop'.count = loop.count
      PROVE  Balanced /\ UNCHANGED injector
    BY Zenon, <1>0, <1>1 DEF Balanced, Counted, injectVars
<1>2. ASSUME NEW last \in BOOLEAN, Drain(last), loop.pc \in {"collect", "pop"}
      PROVE  Balanced /\ UNCHANGED injector
    <2>1. loop.count = 0 /\ loop'.count = DrainCount
        BY Zenon, <1>2 DEF Drain, LoopShape
    <2>2. Len(inject_queue') = Len(inject_queue) - DrainCount /\ DrainCount \in Nat
        BY Zenon, <1>2, DrainSound, DrainBounds DEF Drain
    <2> QED BY Zenon, <1>0, <1>2, <2>1, <2>2 DEF Balanced, Drain
<1>3. CASE LoopMove
    <2>1. loop'.count = loop.count
        BY Zenon, <1>3 DEF LoopMove, LoopHead, PassBegin, Announce, PassEnd, MarkSleeping, Recheck,
                    PollWoken, PollReturns, PollReadsEvent, PollCancels, MarkAwake, Goto, LoopShape
    <2>2. UNCHANGED <<injectVars, injector>>
        BY Zenon, <1>3 DEF LoopMove, LoopHead, PassBegin, Announce, PassEnd, MarkSleeping, Recheck,
                    PollWoken, PollReturns, PollReadsEvent, PollCancels, MarkAwake
    <2> QED BY Zenon, <1>1, <2>1, <2>2
<1>4. CASE Stolen
    BY Zenon, <1>1, <1>4 DEF Stolen
<1>5. CASE Collect
    <2>1. CASE Drain(FALSE)
        BY Zenon, <1>2, <1>5, <2>1 DEF Collect
    <2>2. CASE ~Drain(FALSE)
        BY Zenon, <1>1, <1>5, <2>2 DEF Collect, Goto, LoopShape
    <2> QED BY Zenon, <2>1, <2>2
<1>6. CASE Settle
    <2>1. loop'.count = 0
        BY Zenon, <1>6 DEF Settle, LoopShape
    <2> QED BY Zenon, <1>0, <1>6, <2>1 DEF Settle, Balanced
<1>7. CASE Demote
    <2>1. lifo_slot \in Task /\ enqueueDeferred(lifo_slot)
        BY Zenon, <1>7 DEF Demote, MustDemote, TypeOK
    <2>2. Counted
        BY Zenon, <2>1, DeferredSound
    <2> QED BY Zenon, <1>0, <1>7, <2>2 DEF Demote, Balanced
<1>8. CASE PopLifo \/ PopRing
    <2>1. loop'.count = loop.count
        BY Zenon, <1>8 DEF PopLifo, PopRing, Runs, LoopShape
    <2> QED BY Zenon, <1>1, <1>8, <2>1 DEF PopLifo, PopRing
<1>9. CASE PopNothing
    <2>1. CASE Drain(TRUE)
        BY Zenon, <1>2, <1>9, <2>1 DEF PopNothing
    <2>2. CASE ~Drain(TRUE)
        BY Zenon, <1>1, <1>9, <2>2 DEF PopNothing, Goto, LoopShape
    <2> QED BY Zenon, <2>1, <2>2
<1>10. CASE RunEnds \/ RunYields
    <2>1. loop'.count = loop.count
        BY Zenon, <1>10 DEF RunEnds, RunYields, AfterRun, LoopShape
    <2>2. CASE RunEnds
        BY Zenon, <1>1, <2>1, <2>2 DEF RunEnds
    <2>3. CASE RunYields
        <3>1. loop.next \in Task
            BY Zenon, <2>3 DEF RunYields, LoopShape
        <3>2. Len(inject_queue') = Len(inject_queue) + 1
            BY <2>3, <3>1 DEF RunYields, TypeOK
        <3> QED BY Zenon, <1>0, <2>1, <2>3, <3>2 DEF RunYields, Balanced, Counted
    <2> QED BY Zenon, <1>10, <2>2, <2>3
<1>11. CASE TrySteal
    <2>1. loop'.count = loop.count
        BY Zenon, <1>11 DEF TrySteal, Goto, LoopShape
    <2> QED BY Zenon, <1>1, <1>11, <2>1 DEF TrySteal
<1>12. ASSUME NEW t \in Task, RunSchedules(t) \/ LoopWakes(t)
       PROVE  Balanced /\ UNCHANGED injector
    <2>1. scheduleLocal(t) /\ UNCHANGED <<loop, injector>>
        BY Zenon, <1>12 DEF RunSchedules, LoopWakes
    <2>2. Counted
        BY Zenon, <2>1, ScheduleLocalSound
    <2> QED BY Zenon, <1>0, <2>1, <2>2 DEF Balanced
<1> QED BY Zenon, <1>3, <1>4, <1>5, <1>6, <1>7, <1>8, <1>9, <1>10, <1>11, <1>12 DEF QueueStep

(* Every step keeps the types. *)
LEMMA NextTyped == ASSUME Types, Covered, [Next]_vars PROVE Types'
<1>1. CASE \/ \E i \in Injector : InjectorStep(i) \/ \E t \in Task : InjectBegin(i, t)
           \/ Stop \/ ForceWake \/ Stolen
    BY Zenon, <1>1, OthersTyped
<1>2. CASE LoopMove
    BY Zenon, <1>2, MovesTyped DEF LoopMove
<1>3. CASE QueueStep
    <2>1. loop.count <= injected_outstanding
        BY DEF Types, TypeOK, LoopShape, Covered
    <2> QED BY Zenon, <1>3, <2>1, QueueStepsTyped DEF QueueStep
<1>4. CASE UNCHANGED vars
    BY <1>4 DEF vars, Types, TypeOK, LoopShape, InjectorShape, workerVars, injectVars,
                wakeVars, stopVars
<1> QED BY Zenon, <1>1, <1>2, <1>3, <1>4 DEF Next, LoopStep, LoopMove, QueueStep, Terminated

(* Where the steps on the queues lead: they stay on the waking side of the loop, or
   leave its place alone, or steal. *)
LEMMA QueueStepControl ==
    ASSUME Types, QueueStep
    PROVE  /\ UNCHANGED <<wakeVars, injector>>
           /\ \/ /\ loop.pc \in {"collect", "settle", "pop", "run"}
                 /\ loop'.pc \in {"collect", "settle", "announce", "pop", "run", "end"}
              \/ loop.pc \in {"tick", "polled"} /\ loop'.pc = loop.pc
              \/ loop.pc = "steal" /\ loop'.pc = "awake"
              \/ loop.pc = "steal" /\ loop'.pc = "poll" /\ UNCHANGED <<workerVars, injectVars>>
<1> USE DEF Types
<1>1. ASSUME NEW last \in BOOLEAN, Drain(last)
      PROVE  UNCHANGED <<wakeVars, injector>> /\ loop'.pc \in {"settle", "pop", "end"}
    BY Zenon, <1>1 DEF Drain, LoopShape
<1>2. CASE Collect
    BY Zenon, <1>1, <1>2 DEF Collect, Goto, LoopShape
<1>3. CASE Settle
    BY Zenon, <1>3 DEF Settle, LoopShape
<1>4. CASE Demote
    BY Zenon, <1>4 DEF Demote
<1>5. CASE PopLifo \/ PopRing
    BY Zenon, <1>5 DEF PopLifo, PopRing, Runs, LoopShape
<1>6. CASE PopNothing
    BY Zenon, <1>1, <1>6 DEF PopNothing, Goto, LoopShape
<1>7. CASE RunEnds \/ RunYields
    BY Zenon, <1>7 DEF RunEnds, RunYields, AfterRun, LoopShape
<1>8. CASE TrySteal
    BY Zenon, <1>8 DEF TrySteal, Goto, LoopShape
<1>9. ASSUME NEW t \in Task, RunSchedules(t) \/ LoopWakes(t)
      PROVE  /\ UNCHANGED <<wakeVars, injector>> /\ loop'.pc = loop.pc
             /\ loop.pc \in {"run", "tick", "polled"}
    BY Zenon, <1>9 DEF RunSchedules, LoopWakes
<1> QED BY Zenon, <1>2, <1>3, <1>4, <1>5, <1>6, <1>7, <1>8, <1>9 DEF QueueStep

(* The wake protocol goes through every step of an injecting thread. *)
LEMMA InjectorWakes ==
    ASSUME Awake, NEW i \in Injector, InjectorStep(i) \/ \E t \in Task : InjectBegin(i, t)
    PROVE  MarkedSleeping' /\ PendingIsCarried' /\ Attended'
<1> USE DEF Awake, Types
<1>0. UNCHANGED <<workerVars, m_sleeping, loop>> /\ (HasLocalWork' <=> HasLocalWork)
    BY Zenon DEF InjectorStep, InjectBegin, InjectEnqueue, WakeTest, WakeExchange, Notify, wakeVars,
           HasLocalWork, workerVars
<1>1. MarkedSleeping'
    BY Zenon, <1>0 DEF MarkedSleeping
<1>2. \A j \in Injector \ {i} : injector'[j] = injector[j]
    BY Zenon DEF InjectorStep, InjectBegin, InjectEnqueue, WakeTest, WakeExchange, Notify,
           InjectorGoto, InjectorShape
<1>3. ASSUME injector[i].pc # "notify" PROVE Notifying => Notifying'
    <2>1. ASSUME NEW j \in Injector, injector[j].pc = "notify" PROVE Notifying'
        BY Zenon, <1>2, <1>3, <2>1 DEF Notifying
    <2> QED BY Zenon, <2>1 DEF Notifying
<1>4. ASSUME injector[i].pc \notin {"test", "exchange", "notify"} PROVE Waking => Waking'
    <2>1. ASSUME NEW j \in Injector, injector[j].pc \in {"test", "exchange", "notify"}
          PROVE  Waking'
        BY Zenon, <1>2, <1>4, <2>1 DEF Waking
    <2> QED BY Zenon, <2>1 DEF Waking
<1>5. ASSUME NEW t \in Task, InjectBegin(i, t) PROVE PendingIsCarried' /\ Attended'
    <2>1. UNCHANGED <<inject_queue, wakeVars>> /\ injector[i].pc = "idle"
        BY Zenon, <1>5 DEF InjectBegin
    <2>2. (Waking => Waking') /\ (Notifying => Notifying')
        BY Zenon, <1>3, <1>4, <2>1
    <2> QED BY Zenon, <1>0, <1>1, <2>1, <2>2 DEF wakeVars, PendingIsCarried, Attended
<1>6. CASE InjectEnqueue(i)
    <2>1. UNCHANGED wakeVars /\ injector[i].pc = "enqueue" /\ injector'[i].pc = "test"
        BY <1>6 DEF InjectEnqueue, InjectorShape
    <2>2. Waking' /\ (Notifying => Notifying')
        BY Zenon, <1>3, <2>1 DEF Waking
    <2> QED BY Zenon, <1>0, <1>1, <2>1, <2>2 DEF wakeVars, PendingIsCarried, Attended
<1>7. CASE WakeTest(i)
    <2>1. /\ UNCHANGED <<inject_queue, wakeVars>> /\ injector[i].pc = "test"
          /\ m_sleeping => injector'[i].pc = "exchange"
        BY <1>7 DEF WakeTest, InjectorGoto, InjectorShape, injectVars
    <2>2. Notifying => Notifying'
        BY Zenon, <1>3, <2>1
    <2>3. m_sleeping => Waking'
        BY Zenon, <2>1 DEF Waking
    <2> QED BY Zenon, <1>0, <1>1, <2>1, <2>2, <2>3
            DEF wakeVars, PendingIsCarried, Attended, MarkedSleeping
<1>8. CASE WakeExchange(i)
    <2>1. /\ UNCHANGED <<inject_queue, eventfd>> /\ injector[i].pc = "exchange"
          /\ injector'[i].pc = IF m_wakeup_pending THEN "idle" ELSE "notify"
        BY Zenon, <1>8, InjectorMoves DEF WakeExchange, InjectorPc, injectVars
    <2>2. Notifying => Notifying'
        BY Zenon, <1>3, <2>1
    <2>3. m_wakeup_pending \/ Notifying'
        BY Zenon, <2>1 DEF Notifying
    <2>4. eventfd' \/ Notifying' \/ loop'.pc = "cancel"
        BY Zenon, <1>0, <2>1, <2>2, <2>3 DEF PendingIsCarried
    <2>5. Notifying' => Waking'
        BY Zenon DEF Notifying, Waking
    <2> QED BY ZenonT(60), <1>0, <1>1, <2>1, <2>4, <2>5 DEF PendingIsCarried, Attended
<1>9. CASE Notify(i)
    <2>1. eventfd' /\ UNCHANGED inject_queue
        BY Zenon, <1>9 DEF Notify, injectVars
    <2> QED BY Zenon, <1>0, <1>1, <2>1 DEF PendingIsCarried, Attended
<1> QED BY Zenon, <1>1, <1>5, <1>6, <1>7, <1>8, <1>9 DEF InjectorStep

(* And through every step of the loop, of a thief and of stop(). *)
LEMMA LoopKeepsWake ==
    ASSUME Awake, Covered, LoopMove \/ QueueStep \/ Stolen \/ Stop \/ ForceWake \/ UNCHANGED vars
    PROVE  MarkedSleeping' /\ PendingIsCarried' /\ Attended'
<1> USE DEF Awake, Types
<1>1. ASSUME UNCHANGED injector PROVE (Waking' <=> Waking) /\ (Notifying' <=> Notifying)
    BY Zenon, <1>1 DEF Waking, Notifying
<1>2. ASSUME UNCHANGED workerVars PROVE HasLocalWork' <=> HasLocalWork
    BY Zenon, <1>2 DEF workerVars, HasLocalWork
<1>3. ASSUME UNCHANGED <<injector, wakeVars>>, loop.pc # "cancel",
             loop'.pc \notin {"recheck", "steal", "poll", "awake", "polled", "cancel"}
      PROVE  MarkedSleeping' /\ PendingIsCarried' /\ Attended'
    BY Zenon, <1>1, <1>3 DEF wakeVars, MarkedSleeping, PendingIsCarried, Attended
<1>4. ASSUME UNCHANGED <<injector, wakeVars>>,
             loop.pc \in {"recheck", "steal", "poll", "awake", "polled"},
             loop'.pc \in {"awake", "polled"}
      PROVE  MarkedSleeping' /\ PendingIsCarried' /\ Attended'
    BY Zenon, <1>1, <1>4 DEF wakeVars, MarkedSleeping, PendingIsCarried, Attended
<1>5. CASE QueueStep
    <2>1. UNCHANGED <<wakeVars, injector>>
        BY Zenon, <1>5, QueueStepControl
    <2>2. CASE loop.pc = "steal" /\ loop'.pc = "poll" /\ UNCHANGED <<workerVars, injectVars>>
        BY Zenon, <1>1, <1>2, <2>1, <2>2
           DEF wakeVars, injectVars, MarkedSleeping, PendingIsCarried, Attended
    <2>3. CASE loop.pc = "steal" /\ loop'.pc = "awake"
        BY Zenon, <1>4, <2>1, <2>3
    <2>4. CASE loop.pc = "polled" /\ loop'.pc = loop.pc
        BY Zenon, <1>4, <2>1, <2>4
    <2>5. CASE loop.pc = "tick" /\ loop'.pc = loop.pc
        BY Zenon, <1>3, <2>1, <2>5
    <2>6. CASE /\ loop.pc \in {"collect", "settle", "pop", "run"}
               /\ loop'.pc \in {"collect", "settle", "announce", "pop", "run", "end"}
        BY Zenon, <1>3, <2>1, <2>6
    <2> QED BY Zenon, <1>5, <2>2, <2>3, <2>4, <2>5, <2>6, QueueStepControl
<1>6. CASE LoopHead \/ PassBegin \/ PassEnd
    <2>1. /\ UNCHANGED <<injector, wakeVars>> /\ loop.pc # "cancel"
          /\ loop'.pc \in {"pass", "exited", "collect", "tick"}
        BY Zenon, <1>6 DEF LoopHead, PassBegin, PassEnd, LoopShape
    <2> QED BY Zenon, <1>3, <2>1
<1>7. CASE Announce
    <2>1. loop'.pc = "pop" /\ m_wakeup_pending' = FALSE
        BY Zenon, <1>7 DEF Announce, Goto, LoopShape
    <2> QED BY Zenon, <2>1 DEF MarkedSleeping, PendingIsCarried, Attended
<1>8. CASE MarkSleeping
    <2>1. /\ loop.pc = "tick" /\ loop'.pc = "recheck" /\ m_sleeping' = TRUE
          /\ UNCHANGED <<injector, m_wakeup_pending, eventfd>>
        BY Zenon, <1>8 DEF MarkSleeping, Goto, LoopShape
    <2> QED BY Zenon, <1>1, <2>1 DEF MarkedSleeping, PendingIsCarried, Attended
<1>9. CASE Recheck
    <2>1. UNCHANGED <<injector, wakeVars, workerVars, injectVars>> /\ loop.pc = "recheck"
        BY Zenon, <1>9 DEF Recheck
    <2>2. CASE HasLocalWork \/ HasPendingInjected
        <3>1. loop'.pc = "awake"
            BY Zenon, <1>9, <2>2 DEF Recheck, Goto, LoopShape
        <3> QED BY Zenon, <1>4, <2>1, <3>1
    <2>3. CASE ~HasLocalWork /\ ~HasPendingInjected
        <3>1. loop'.pc = "steal"
            BY Zenon, <1>9, <2>3 DEF Recheck, Goto, LoopShape
        <3>2. Len(inject_queue) = 0
            BY <2>3 DEF HasPendingInjected, TypeOK, LoopShape, Covered
        <3>3. inject_queue = <<>>
            BY <3>2 DEF TypeOK
        <3> QED BY Zenon, <1>1, <1>2, <2>1, <2>3, <3>1, <3>3
                DEF wakeVars, injectVars, MarkedSleeping, PendingIsCarried, Attended
    <2> QED BY Zenon, <2>2, <2>3
<1>10. CASE PollWoken \/ PollReturns
    <2>1. UNCHANGED <<injector, wakeVars>> /\ loop.pc = "poll" /\ loop'.pc = "polled"
        BY Zenon, <1>10 DEF PollWoken, PollReturns, Goto, LoopShape
    <2> QED BY Zenon, <1>4, <2>1
<1>11. CASE PollReadsEvent
    <2>1. loop.pc = "polled" /\ loop'.pc = "cancel" /\ UNCHANGED m_sleeping
        BY Zenon, <1>11 DEF PollReadsEvent, LoopShape
    <2> QED BY Zenon, <2>1 DEF MarkedSleeping, PendingIsCarried, Attended
<1>12. CASE PollCancels
    <2>1. /\ loop.pc = "cancel" /\ loop'.pc = "polled" /\ UNCHANGED m_sleeping
          /\ m_wakeup_pending' = FALSE
        BY Zenon, <1>12 DEF PollCancels, Goto, LoopShape
    <2> QED BY Zenon, <2>1 DEF MarkedSleeping, PendingIsCarried, Attended
<1>13. CASE MarkAwake
    <2>1. /\ loop.pc # "cancel" /\ loop'.pc = "head"
          /\ UNCHANGED <<injector, m_wakeup_pending, eventfd>>
        BY Zenon, <1>13 DEF MarkAwake, Goto, LoopShape
    <2> QED BY Zenon, <1>1, <2>1 DEF MarkedSleeping, PendingIsCarried, Attended
<1>14. CASE Stolen
    <2>1. UNCHANGED <<injector, wakeVars, loop, inject_queue, lifo_slot>> /\ local_ring # <<>>
        BY Zenon, <1>14 DEF Stolen, injectVars
    <2>2. HasLocalWork
        BY Zenon, <2>1 DEF HasLocalWork
    <2> QED BY Zenon, <1>1, <2>1, <2>2 DEF wakeVars, MarkedSleeping, PendingIsCarried, Attended
<1>15. CASE Stop \/ ForceWake
    <2>1. /\ UNCHANGED <<injector, workerVars, injectVars, loop, m_sleeping, m_wakeup_pending>>
          /\ eventfd' = eventfd \/ eventfd' = TRUE
        BY Zenon, <1>15 DEF Stop, ForceWake, wakeVars
    <2> QED BY Zenon, <1>1, <1>2, <2>1 DEF injectVars, MarkedSleeping, PendingIsCarried, Attended
<1>16. CASE UNCHANGED vars
    BY Zenon, <1>1, <1>2, <1>16 DEF vars, injectVars, wakeVars, MarkedSleeping, PendingIsCarried, Attended
<1> QED BY Zenon, <1>5, <1>6, <1>7, <1>8, <1>9, <1>10, <1>11, <1>12, <1>13, <1>14, <1>15, <1>16
        DEF LoopMove
-----------------------------------------------------------------------------

(* Each task is in one place. *)

(* What a queue holds, and that it holds nothing twice. *)
Holds(s, t) == \E k \in 1..Len(s) : s[k] = t
Distinct(s) == \A j, k \in 1..Len(s) : s[j] = s[k] => j = k

(* A push. *)
LEMMA AppendHolds ==
    ASSUME NEW s \in Seq(Task), NEW t \in Task
    PROVE  /\ Append(s, t) \in Seq(Task)
           /\ \A u : Holds(Append(s, t), u) <=> Holds(s, u) \/ u = t
           /\ Distinct(s) /\ ~Holds(s, t) => Distinct(Append(s, t))
<1> DEFINE a == Append(s, t)
           n == Len(s)
<1>1. a \in Seq(Task) /\ Len(a) = n + 1 /\ n \in Nat
      /\ a[n + 1] = t /\ \A k \in 1..n : a[k] = s[k]
    OBVIOUS
<1>2. 1..Len(a) = (1..n) \union {n + 1} /\ n + 1 \notin 1..n
    BY <1>1
<1> HIDE DEF a, n
<1>3. ASSUME NEW u PROVE Holds(a, u) <=> Holds(s, u) \/ u = t
    BY Zenon, <1>1, <1>2 DEF Holds, n
<1>4. ASSUME Distinct(s), ~Holds(s, t) PROVE Distinct(a)
    BY Zenon, <1>1, <1>2, <1>4 DEF Holds, Distinct, n
<1> QED BY Zenon, <1>1, <1>3, <1>4 DEF a

(* A prefix. *)
LEMMA PrefixParts ==
    ASSUME NEW s \in Seq(Task), NEW m \in 0..Len(s)
    PROVE  /\ SubSeq(s, 1, m) \in Seq(Task) /\ Len(SubSeq(s, 1, m)) = m
           /\ \A k \in 1..m : SubSeq(s, 1, m)[k] = s[k]
<1>1. m \in Nat /\ Len(s) \in Nat /\ \A k \in 1..m : s[k] \in Task
    OBVIOUS
<1>2. SubSeq(s, 1, m) \in Seq(Task) /\ Len(SubSeq(s, 1, m)) = m
    BY <1>1
<1>3. \A k \in 1..m : SubSeq(s, 1, m)[k] = s[k]
    BY <1>1
<1> QED BY Zenon, <1>2, <1>3

(* And a suffix. *)
LEMMA SuffixParts ==
    ASSUME NEW s \in Seq(Task), NEW m \in 0..Len(s)
    PROVE  LET q == SubSeq(s, m + 1, Len(s))
           IN /\ q \in Seq(Task) /\ Len(q) = Len(s) - m
              /\ \A k \in 1..(Len(s) - m) : q[k] = s[m + k]
<1> DEFINE q == SubSeq(s, m + 1, Len(s))
<1>1. m \in Nat /\ Len(s) \in Nat /\ \A k \in (m + 1)..Len(s) : s[k] \in Task
    OBVIOUS
<1>2. q \in Seq(Task) /\ Len(q) = Len(s) - m
    BY <1>1
<1>3. \A k \in 1..(Len(s) - m) : q[k] = s[m + k]
    BY <1>1
<1> QED BY Zenon, <1>2, <1>3

(* A pop at the young end, and a steal at the old end. *)
LEMMA PopHolds ==
    ASSUME NEW s \in Seq(Task), s # <<>>, Distinct(s)
    PROVE  LET n == Len(s)
               p == SubSeq(s, 1, n - 1)
           IN /\ s[n] \in Task /\ Holds(s, s[n]) /\ Distinct(p)
              /\ \A u : Holds(p, u) <=> Holds(s, u) /\ u # s[n]
<1> DEFINE n == Len(s)
           p == SubSeq(s, 1, n - 1)
<1>1. n \in Nat /\ n >= 1
    OBVIOUS
<1>2. p \in Seq(Task) /\ Len(p) = n - 1 /\ \A k \in 1..(n - 1) : p[k] = s[k]
    <2>1. n - 1 \in 0..Len(s)
        BY <1>1
    <2> QED BY Zenon, <2>1, PrefixParts
<1>3. 1..n = (1..(n - 1)) \union {n} /\ n \notin 1..(n - 1) /\ s[n] \in Task
    BY <1>1
<1> HIDE DEF p
<1>4. Holds(s, s[n]) /\ Distinct(p)
    BY Zenon, <1>2, <1>3 DEF Holds, Distinct
<1>5. ASSUME NEW u PROVE Holds(p, u) <=> Holds(s, u) /\ u # s[n]
    BY Zenon, <1>2, <1>3 DEF Holds, Distinct
<1> QED BY Zenon, <1>3, <1>4, <1>5 DEF p

(* What a thief leaves in the ring. *)
LEMMA StealHolds ==
    ASSUME NEW s \in Seq(Task), s # <<>>, Distinct(s)
    PROVE  /\ s[1] \in Task /\ Holds(s, s[1]) /\ Distinct(Tail(s))
           /\ \A u : Holds(Tail(s), u) <=> Holds(s, u) /\ u # s[1]
<1> DEFINE n == Len(s)
           r == Tail(s)
<1>1. n \in Nat /\ n >= 1 /\ s[1] \in Task
    OBVIOUS
<1>2. r \in Seq(Task) /\ Len(r) = n - 1 /\ \A k \in 1..(n - 1) : r[k] = s[k + 1]
    BY <1>1
<1> HIDE DEF r
<1>3. Holds(s, s[1])
    BY <1>1 DEF Holds
<1>4. Distinct(r)
    <2> SUFFICES ASSUME NEW j \in 1..(n - 1), NEW k \in 1..(n - 1), r[j] = r[k] PROVE j = k
        BY Zenon, <1>2 DEF Distinct
    <2>1. j + 1 \in 1..n /\ k + 1 \in 1..n /\ s[j + 1] = s[k + 1]
        BY <1>1, <1>2
    <2>2. j + 1 = k + 1
        BY Zenon, <2>1 DEF Distinct
    <2> QED BY <2>2
<1>5. ASSUME NEW u PROVE Holds(r, u) <=> Holds(s, u) /\ u # s[1]
    <2>1. ASSUME NEW k \in 1..(n - 1), r[k] = u PROVE Holds(s, u) /\ u # s[1]
        <3>1. k + 1 \in 1..n /\ 1 \in 1..n /\ k + 1 # 1 /\ s[k + 1] = u
            BY <1>1, <1>2, <2>1
        <3> QED BY Zenon, <3>1 DEF Holds, Distinct
    <2>2. ASSUME NEW k \in 1..n, s[k] = u, u # s[1] PROVE Holds(r, u)
        <3>1. k - 1 \in 1..(n - 1) /\ (k - 1) + 1 = k
            BY <1>1, <2>2
        <3>2. r[k - 1] = u
            BY Zenon, <1>2, <2>2, <3>1
        <3> QED BY Zenon, <1>2, <3>1, <3>2 DEF Holds
    <2>3. Holds(r, u) => Holds(s, u) /\ u # s[1]
        BY Zenon, <1>2, <2>1 DEF Holds
    <2>4. Holds(s, u) /\ u # s[1] => Holds(r, u)
        BY Zenon, <2>2 DEF Holds
    <2> QED BY Zenon, <2>3, <2>4
<1> QED BY Zenon, <1>1, <1>3, <1>4, <1>5 DEF r

(* One queue behind another. *)
LEMMA ConcatHolds ==
    ASSUME NEW r \in Seq(Task), NEW m \in Seq(Task)
    PROVE  /\ r \o m \in Seq(Task) /\ Len(r \o m) = Len(r) + Len(m)
           /\ \A u : Holds(r \o m, u) <=> Holds(r, u) \/ Holds(m, u)
           /\ Distinct(r) /\ Distinct(m) /\ (\A u : ~(Holds(r, u) /\ Holds(m, u)))
                => Distinct(r \o m)
<1> DEFINE c == r \o m
           a == Len(r)
           b == Len(m)
<1>1. a \in Nat /\ b \in Nat /\ c \in Seq(Task) /\ Len(c) = a + b
    OBVIOUS
<1>2. /\ \A k \in 1..a : k \in 1..(a + b) /\ c[k] = r[k]
      /\ \A k \in 1..b : a + k \in 1..(a + b) /\ c[a + k] = m[k]
    BY <1>1
<1>3. \A k \in 1..(a + b) : k \in 1..a \/ (k - a \in 1..b /\ a + (k - a) = k)
    BY <1>1
<1> HIDE DEF c, a, b
<1>4. ASSUME NEW u PROVE Holds(c, u) <=> Holds(r, u) \/ Holds(m, u)
    <2>1. ASSUME NEW k \in 1..(a + b), c[k] = u PROVE Holds(r, u) \/ Holds(m, u)
        <3>1. CASE k \in 1..a
            BY Zenon, <1>2, <2>1, <3>1 DEF Holds, a
        <3>2. CASE k - a \in 1..b /\ a + (k - a) = k
            <4>1. c[a + (k - a)] = m[k - a]
                BY Zenon, <1>2, <3>2
            <4>2. m[k - a] = u
                BY Zenon, <2>1, <3>2, <4>1
            <4> QED BY Zenon, <3>2, <4>2 DEF Holds, b
        <3> QED BY Zenon, <1>3, <3>1, <3>2
    <2>2. Holds(r, u) => Holds(c, u)
        BY Zenon, <1>1, <1>2 DEF Holds, a
    <2>3. Holds(m, u) => Holds(c, u)
        <3>1. ASSUME NEW k \in 1..b, m[k] = u PROVE Holds(c, u)
            <4>1. a + k \in 1..(a + b) /\ c[a + k] = u
                BY Zenon, <1>2, <3>1
            <4> QED BY Zenon, <1>1, <4>1 DEF Holds
        <3> QED BY Zenon, <3>1 DEF Holds, b
    <2>4. Holds(c, u) => Holds(r, u) \/ Holds(m, u)
        BY Zenon, <1>1, <2>1 DEF Holds
    <2> QED BY Zenon, <2>2, <2>3, <2>4
<1>5. ASSUME Distinct(r), Distinct(m), \A u : ~(Holds(r, u) /\ Holds(m, u))
      PROVE  Distinct(c)
    <2> SUFFICES ASSUME NEW j \in 1..(a + b), NEW k \in 1..(a + b), c[j] = c[k] PROVE j = k
        BY Zenon, <1>1 DEF Distinct
    <2>1. \A i \in 1..(a + b) : \/ i \in 1..a /\ c[i] = r[i] /\ Holds(r, c[i])
                                \/ i - a \in 1..b /\ c[i] = m[i - a] /\ Holds(m, c[i])
        <3> TAKE i \in 1..(a + b)
        <3>1. CASE i \in 1..a
            BY Zenon, <1>2, <3>1 DEF Holds, a
        <3>2. CASE i - a \in 1..b /\ a + (i - a) = i
            <4>1. c[a + (i - a)] = m[i - a]
                BY Zenon, <1>2, <3>2
            <4>2. c[i] = m[i - a]
                BY Zenon, <3>2, <4>1
            <4> QED BY Zenon, <3>2, <4>2 DEF Holds, b
        <3> QED BY Zenon, <1>3, <3>1, <3>2
    <2>2. CASE j \in 1..a /\ c[j] = r[j] /\ k \in 1..a /\ c[k] = r[k]
        BY Zenon, <1>5, <2>2 DEF Distinct, a
    <2>3. CASE j - a \in 1..b /\ c[j] = m[j - a] /\ k - a \in 1..b /\ c[k] = m[k - a]
        <3>1. j - a = k - a
            BY Zenon, <1>5, <2>3 DEF Distinct, b
        <3> QED BY <1>1, <3>1
    <2> QED BY Zenon, <1>5, <2>1, <2>2, <2>3
<1> QED BY Zenon, <1>1, <1>4, <1>5 DEF c, a, b

(* A batch moved from one queue to another, in reverse: nothing is lost or doubled. *)
LEMMA BatchHolds ==
    ASSUME NEW r \in Seq(Task), NEW q \in Seq(Task), NEW n \in 0..Len(q),
           Distinct(r), Distinct(q), \A u : ~(Holds(r, u) /\ Holds(q, u))
    PROVE  LET f == r \o [k \in 1..n |-> q[n + 1 - k]]
               s == SubSeq(q, n + 1, Len(q))
           IN /\ f \in Seq(Task) /\ Len(f) = Len(r) + n
              /\ Distinct(f) /\ Distinct(s)
              /\ \A u : /\ ~(Holds(f, u) /\ Holds(s, u))
                        /\ Holds(f, u) \/ Holds(s, u) <=> Holds(r, u) \/ Holds(q, u)
<1> DEFINE m == [k \in 1..n |-> q[n + 1 - k]]
           s == SubSeq(q, n + 1, Len(q))
           l == Len(q) - n
<1>1. n \in Nat /\ Len(q) \in Nat /\ l \in Nat
    OBVIOUS
<1>2. \A k \in 1..n : n + 1 - k \in 1..n /\ n + 1 - k \in 1..Len(q) /\ n + 1 - (n + 1 - k) = k
    BY <1>1
<1>3. m \in Seq(Task) /\ Len(m) = n /\ \A k \in 1..n : m[k] = q[n + 1 - k]
    BY <1>1, <1>2
<1>4. s \in Seq(Task) /\ Len(s) = l /\ \A k \in 1..l : s[k] = q[n + k]
    BY Zenon, SuffixParts
<1>5. \A k \in 1..l : n + k \in 1..Len(q) /\ n + k \notin 1..n
    BY <1>1
<1>6. \A k \in 1..Len(q) : k \in 1..n \/ (k - n \in 1..l /\ n + (k - n) = k)
    BY <1>1
<1> HIDE DEF m, s, l
<1>7. Distinct(m)
    <2> SUFFICES ASSUME NEW j \in 1..n, NEW k \in 1..n, m[j] = m[k] PROVE j = k
        BY Zenon, <1>3 DEF Distinct
    <2>1. n + 1 - j \in 1..Len(q) /\ n + 1 - k \in 1..Len(q)
        BY Zenon, <1>2
    <2>2. q[n + 1 - j] = q[n + 1 - k]
        BY Zenon, <1>3
    <2>3. n + 1 - j = n + 1 - k
        BY ZenonT(60), <2>1, <2>2 DEF Distinct
    <2> QED BY <1>1, <2>3
<1>8. Distinct(s)
    <2> SUFFICES ASSUME NEW j \in 1..l, NEW k \in 1..l, s[j] = s[k] PROVE j = k
        BY Zenon, <1>4 DEF Distinct
    <2>1. n + j = n + k
        BY Zenon, <1>4, <1>5 DEF Distinct
    <2> QED BY <1>1, <2>1
<1>9. ASSUME NEW u PROVE Holds(m, u) <=> \E k \in 1..n : q[k] = u
    <2>1. ASSUME NEW k \in 1..n, m[k] = u PROVE \E i \in 1..n : q[i] = u
        BY Zenon, <1>2, <1>3, <2>1
    <2>2. ASSUME NEW k \in 1..n, q[k] = u PROVE Holds(m, u)
        <3>1. n + 1 - k \in 1..n /\ m[n + 1 - k] = q[n + 1 - (n + 1 - k)]
            BY Zenon, <1>2, <1>3
        <3>2. m[n + 1 - k] = u
            BY Zenon, <1>2, <2>2, <3>1
        <3> QED BY Zenon, <1>3, <3>1, <3>2 DEF Holds
    <2>3. Holds(m, u) => \E k \in 1..n : q[k] = u
        BY Zenon, <1>3, <2>1 DEF Holds
    <2> QED BY Zenon, <2>2, <2>3
<1>10. ASSUME NEW u PROVE Holds(s, u) <=> \E k \in 1..Len(q) : k \notin 1..n /\ q[k] = u
    <2>1. ASSUME NEW k \in 1..l, s[k] = u
          PROVE  \E i \in 1..Len(q) : i \notin 1..n /\ q[i] = u
        BY Zenon, <1>4, <1>5, <2>1
    <2>2. ASSUME NEW k \in 1..Len(q), k \notin 1..n, q[k] = u PROVE Holds(s, u)
        <3>1. k - n \in 1..l /\ n + (k - n) = k
            BY Zenon, <1>6, <2>2
        <3>2. s[k - n] = q[n + (k - n)]
            BY Zenon, <1>4, <3>1
        <3>3. s[k - n] = u
            BY Zenon, <2>2, <3>1, <3>2
        <3> QED BY Zenon, <1>4, <3>1, <3>3 DEF Holds
    <2>3. Holds(s, u) => \E k \in 1..Len(q) : k \notin 1..n /\ q[k] = u
        BY Zenon, <1>4, <2>1 DEF Holds
    <2> QED BY Zenon, <2>2, <2>3
<1>11. ASSUME NEW u
       PROVE  /\ ~(Holds(m, u) /\ Holds(s, u))
              /\ Holds(m, u) \/ Holds(s, u) <=> Holds(q, u)
    <2>1. 1..n \subseteq 1..Len(q)
        BY <1>1
    <2>2. ~(Holds(m, u) /\ Holds(s, u))
        BY Zenon, <1>9, <1>10, <2>1 DEF Distinct
    <2>3. Holds(m, u) \/ Holds(s, u) <=> Holds(q, u)
        BY Zenon, <1>9, <1>10, <2>1 DEF Holds
    <2> QED BY Zenon, <2>2, <2>3
<1>12. \A u : ~(Holds(r, u) /\ Holds(m, u))
    BY Zenon, <1>11
<1>13. /\ r \o m \in Seq(Task) /\ Len(r \o m) = Len(r) + n /\ Distinct(r \o m)
       /\ \A u : Holds(r \o m, u) <=> Holds(r, u) \/ Holds(m, u)
    BY ZenonT(60), <1>3, <1>7, <1>12, ConcatHolds
<1>14. \A u : /\ ~(Holds(r \o m, u) /\ Holds(s, u))
              /\ Holds(r \o m, u) \/ Holds(s, u) <=> Holds(r, u) \/ Holds(q, u)
    BY Zenon, <1>11, <1>13
<1> QED BY Zenon, <1>8, <1>13, <1>14 DEF m, s

(* The two queues hold each task at most once. *)
InQueues(t) == Holds(local_ring, t) \/ Holds(inject_queue, t)
QueuesDistinct ==
    /\ Distinct(local_ring) /\ Distinct(inject_queue)
    /\ \A t : ~(Holds(local_ring, t) /\ Holds(inject_queue, t))

(* t is with a thread that is about to enqueue it. *)
Carried(t) == \E i \in Injector : injector[i].task = t
CarriedOnce ==
    /\ \A i \in Injector : injector[i].pc # "enqueue" => injector[i].task = Null
    /\ \A i, j \in Injector :
          injector[i].task = injector[j].task => i = j \/ injector[i].task = Null

(* A task is queued exactly when it is in the queues, in the slot or carried, and it is
   in one of the three only; the task that runs is not queued. *)
OnePlace ==
    /\ QueuesDistinct /\ CarriedOnce
    /\ \A t \in Task :
          /\ task[t] = "queued" <=> InQueues(t) \/ lifo_slot = t \/ Carried(t)
          /\ ~(InQueues(t) /\ lifo_slot = t) /\ ~(InQueues(t) /\ Carried(t))
          /\ ~(lifo_slot = t /\ Carried(t))
    /\ loop.pc = "run" => task[loop.next] = "running"

(* enqueueDeferred brings one task into the queues. *)
LEMMA DeferredPlaces ==
    ASSUME TypeOK, QueuesDistinct, NEW t \in Task, ~InQueues(t), enqueueDeferred(t)
    PROVE  /\ QueuesDistinct'
           /\ \A u : InQueues(u)' <=> InQueues(u) \/ u = t
<1>1. local_ring \in Seq(Task) /\ inject_queue \in Seq(Task)
    BY Zenon DEF TypeOK
<1>2. CASE local_ring' = Append(local_ring, t) /\ inject_queue' = inject_queue
    <2>1. /\ Distinct(local_ring')
          /\ \A u : Holds(local_ring', u) <=> Holds(local_ring, u) \/ u = t
        BY Zenon, <1>1, <1>2, AppendHolds DEF QueuesDistinct, InQueues
    <2> QED BY Zenon, <1>2, <2>1 DEF QueuesDistinct, InQueues
<1>3. CASE local_ring' = local_ring /\ inject_queue' = Append(inject_queue, t)
    <2>1. /\ Distinct(inject_queue')
          /\ \A u : Holds(inject_queue', u) <=> Holds(inject_queue, u) \/ u = t
        BY Zenon, <1>1, <1>3, AppendHolds DEF QueuesDistinct, InQueues
    <2> QED BY Zenon, <1>3, <2>1 DEF QueuesDistinct, InQueues
<1> QED BY Zenon, <1>2, <1>3 DEF enqueueDeferred, injectVars

(* A drain moves tasks from one queue to the other. *)
LEMMA DrainPlaces ==
    ASSUME TypeOK, QueuesDistinct, drainInjected
    PROVE  QueuesDistinct' /\ \A u : InQueues(u)' <=> InQueues(u)
<1> DEFINE filled == local_ring \o [k \in 1..DrainCount |-> inject_queue[DrainCount + 1 - k]]
           rest == SubSeq(inject_queue, DrainCount + 1, Len(inject_queue))
<1>1. /\ local_ring \in Seq(Task) /\ inject_queue \in Seq(Task)
      /\ DrainCount \in 0..Len(inject_queue) /\ DrainCount \in Nat /\ Len(local_ring) \in Nat
      /\ Len(local_ring) + DrainCount <= kCapacity /\ kCapacity \in Nat
    <2>1. local_ring \in Seq(Task) /\ inject_queue \in Seq(Task)
        BY Zenon DEF TypeOK
    <2> QED BY <2>1, DrainBounds DEF RemainingCapacity
<1>2. /\ filled \in Seq(Task) /\ Len(filled) = Len(local_ring) + DrainCount
      /\ Distinct(filled) /\ Distinct(rest)
      /\ \A u : /\ ~(Holds(filled, u) /\ Holds(rest, u))
                /\ Holds(filled, u) \/ Holds(rest, u) <=> InQueues(u)
    BY ZenonT(60), <1>1, BatchHolds DEF QueuesDistinct, InQueues
<1> HIDE DEF filled, rest
<1>3. Min({Len(filled), kCapacity}) = Len(filled)
    BY <1>1, <1>2, MinOfTwo
<1>4. local_ring' = filled /\ inject_queue' = rest
    <2>1. local_ring' = SubSeq(filled, 1, Len(filled)) /\ inject_queue' = rest
        BY ZenonT(60), <1>3 DEF drainInjected, filled, rest
    <2>2. SubSeq(filled, 1, Len(filled)) = filled
        BY <1>2
    <2> QED BY Zenon, <2>1, <2>2
<1> QED BY Zenon, <1>2, <1>4 DEF QueuesDistinct, InQueues

(* scheduleLocal of a task that is nowhere. *)
LEMMA LocalPlaces ==
    ASSUME Types, OnePlace, NEW t \in Task, task[t] = "idle", scheduleLocal(t),
           UNCHANGED <<loop, injector>>
    PROVE  OnePlace'
<1>0. Null \notin Task
    BY Zenon, SchedulerAssumption
<1>1. /\ ~InQueues(t) /\ lifo_slot # t /\ ~Carried(t)
      /\ \A u \in Task : task'[u] = IF u = t THEN "queued" ELSE task[u]
    BY Zenon DEF OnePlace, scheduleLocal, Types, TypeOK
<1>2. CarriedOnce' /\ \A u : Carried(u)' <=> Carried(u)
    BY Zenon DEF OnePlace, CarriedOnce, Carried
<1>3. loop'.pc = "run" => task'[loop'.next] = "running"
    BY Zenon, <1>1 DEF OnePlace, Types, LoopShape
<1>4. CASE lifo_slot # Null /\ lifo_slot' = t /\ enqueueDeferred(lifo_slot)
    <2>1. lifo_slot \in Task /\ ~InQueues(lifo_slot)
        BY Zenon, <1>4 DEF Types, TypeOK, OnePlace
    <2>2. QueuesDistinct' /\ \A u : InQueues(u)' <=> InQueues(u) \/ u = lifo_slot
        BY Zenon, <1>4, <2>1, DeferredPlaces DEF Types, OnePlace
    <2> QED BY Zenon, <1>1, <1>2, <1>3, <1>4, <2>1, <2>2 DEF OnePlace
<1>5. CASE lifo_slot = Null /\ lifo_slot' = t /\ UNCHANGED <<local_ring, injectVars>>
    <2>1. QueuesDistinct' /\ \A u : InQueues(u)' <=> InQueues(u)
        BY Zenon, <1>5 DEF OnePlace, QueuesDistinct, InQueues, injectVars
    <2> QED BY Zenon, <1>0, <1>1, <1>2, <1>3, <1>5, <2>1 DEF OnePlace
<1>6. CASE enqueueDeferred(t) /\ UNCHANGED lifo_slot
    <2>1. QueuesDistinct' /\ \A u : InQueues(u)' <=> InQueues(u) \/ u = t
        BY Zenon, <1>1, <1>6, DeferredPlaces DEF Types, OnePlace
    <2> QED BY Zenon, <1>1, <1>2, <1>3, <1>6, <2>1 DEF OnePlace
<1> QED BY Zenon, <1>4, <1>5, <1>6 DEF scheduleLocal

(* Steps that move no task. *)
LEMMA StillPlaces ==
    ASSUME OnePlace, UNCHANGED <<lifo_slot, local_ring, inject_queue, task, injector>>,
           loop'.pc = "run" => loop.pc = "run" /\ loop'.next = loop.next
    PROVE  OnePlace'
<1>1. QueuesDistinct' /\ CarriedOnce'
    BY Zenon DEF OnePlace, QueuesDistinct, CarriedOnce
<1>2. \A u : (InQueues(u)' <=> InQueues(u)) /\ (Carried(u)' <=> Carried(u))
    BY Zenon DEF InQueues, Carried
<1> QED BY Zenon, <1>1, <1>2 DEF OnePlace

(* The threads that inject. *)
LEMMA InjectorPlaces ==
    ASSUME Types, OnePlace, NEW i \in Injector,
           InjectorStep(i) \/ \E t \in Task : InjectBegin(i, t)
    PROVE  OnePlace'
<1> USE DEF Types
<1>0. Null \notin Task
    BY Zenon, SchedulerAssumption
<1>1. ASSUME NEW t \in Task, InjectBegin(i, t) PROVE OnePlace'
    <2>1. /\ task[t] = "idle" /\ injector[i].pc = "idle" /\ injector[i].task = Null
          /\ injector'[i].pc = "enqueue" /\ injector'[i].task = t
          /\ \A j \in Injector \ {i} : injector'[j] = injector[j]
          /\ \A u \in Task : task'[u] = IF u = t THEN "queued" ELSE task[u]
        BY Zenon, <1>1 DEF InjectBegin, InjectorShape, TypeOK, OnePlace, CarriedOnce
    <2>2. UNCHANGED <<lifo_slot, local_ring, inject_queue, loop>>
        BY Zenon, <1>1 DEF InjectBegin, workerVars
    <2>3. ~InQueues(t) /\ lifo_slot # t /\ ~Carried(t)
        BY Zenon, <2>1 DEF OnePlace
    <2>4. \A u \in Task : Carried(u)' <=> Carried(u) \/ u = t
        BY Zenon, <1>0, <2>1 DEF Carried
    <2>5. CarriedOnce'
        BY <2>1, <2>3 DEF OnePlace, CarriedOnce, Carried
    <2>6. QueuesDistinct' /\ \A u : InQueues(u)' <=> InQueues(u)
        BY Zenon, <2>2 DEF OnePlace, QueuesDistinct, InQueues
    <2>7. loop'.pc = "run" => task'[loop'.next] = "running"
        BY Zenon, <2>1, <2>2 DEF OnePlace, LoopShape
    <2>8. ASSUME NEW u \in Task
          PROVE  /\ task'[u] = "queued" <=> InQueues(u)' \/ lifo_slot' = u \/ Carried(u)'
                 /\ ~(InQueues(u)' /\ lifo_slot' = u) /\ ~(InQueues(u)' /\ Carried(u)')
                 /\ ~(lifo_slot' = u /\ Carried(u)')
        <3>1. /\ InQueues(u)' <=> InQueues(u)
              /\ Carried(u)' <=> Carried(u) \/ u = t
              /\ lifo_slot' = lifo_slot
              /\ task'[u] = IF u = t THEN "queued" ELSE task[u]
            BY Zenon, <2>1, <2>2, <2>4, <2>6
        <3>2. /\ task[u] = "queued" <=> InQueues(u) \/ lifo_slot = u \/ Carried(u)
              /\ ~(InQueues(u) /\ lifo_slot = u) /\ ~(InQueues(u) /\ Carried(u))
              /\ ~(lifo_slot = u /\ Carried(u))
            BY Zenon DEF OnePlace
        <3>3. CASE u = t
            BY Zenon, <2>3, <3>1, <3>3
        <3> QED BY Zenon, <3>1, <3>2, <3>3
    <2> QED BY Zenon, <2>5, <2>6, <2>7, <2>8 DEF OnePlace
<1>2. CASE InjectEnqueue(i)
    <2> DEFINE t == injector[i].task
    <2>1. /\ injector[i].pc = "enqueue" /\ t \in Task /\ inject_queue' = Append(inject_queue, t)
          /\ \A j \in Injector \ {i} : injector'[j] = injector[j]
        BY Zenon, <1>2 DEF InjectEnqueue, InjectorShape
    <2>a. injector'[i].task = Null
        <3>1. injector'[i] = [pc |-> "test", task |-> Null, wasEmpty |-> injector[i].wasEmpty]
            BY Zenon, <1>2, EnqueueLeaves
        <3> QED BY <3>1
    <2>2. UNCHANGED <<lifo_slot, local_ring, task, loop>>
        BY Zenon, <1>2 DEF InjectEnqueue, workerVars
    <2>3. Carried(t) /\ ~InQueues(t) /\ lifo_slot # t
        BY Zenon, <2>1 DEF OnePlace, Carried
    <2>4. /\ Distinct(inject_queue')
          /\ \A u : Holds(inject_queue', u) <=> Holds(inject_queue, u) \/ u = t
        BY Zenon, <2>1, <2>3, AppendHolds DEF OnePlace, QueuesDistinct, InQueues, TypeOK
    <2> HIDE DEF t
    <2>5. QueuesDistinct' /\ \A u : InQueues(u)' <=> InQueues(u) \/ u = t
        BY Zenon, <2>2, <2>3, <2>4 DEF OnePlace, QueuesDistinct, InQueues
    <2>6. \A j \in Injector \ {i} : injector[j].task # t
        BY Zenon, <1>0, <2>1 DEF OnePlace, CarriedOnce, t
    <2>7. \A u \in Task : Carried(u)' <=> Carried(u) /\ u # t
        BY Zenon, <1>0, <2>1, <2>a, <2>6 DEF Carried, t
    <2>8. CarriedOnce'
        BY <1>0, <2>1, <2>a DEF OnePlace, CarriedOnce
    <2>9. loop'.pc = "run" => task'[loop'.next] = "running"
        BY Zenon, <2>2 DEF OnePlace
    <2> QED BY Zenon, <2>1, <2>2, <2>3, <2>5, <2>7, <2>8, <2>9 DEF OnePlace
<1>3. CASE WakeTest(i) \/ WakeExchange(i) \/ Notify(i)
    <2>1. /\ injector[i].pc # "enqueue" /\ injector'[i].task = injector[i].task
          /\ \A j \in Injector \ {i} : injector'[j] = injector[j]
        BY <1>3 DEF WakeTest, WakeExchange, Notify, InjectorGoto, InjectorShape
    <2>2. UNCHANGED <<lifo_slot, local_ring, inject_queue, task, loop>>
        BY Zenon, <1>3 DEF WakeTest, WakeExchange, Notify, workerVars, injectVars
    <2>3. CarriedOnce' /\ \A u : Carried(u)' <=> Carried(u)
        BY <2>1 DEF OnePlace, CarriedOnce, Carried
    <2>4. QueuesDistinct' /\ \A u : InQueues(u)' <=> InQueues(u)
        BY Zenon, <2>2 DEF OnePlace, QueuesDistinct, InQueues
    <2> QED BY Zenon, <2>2, <2>3, <2>4 DEF OnePlace
<1> QED BY Zenon, <1>1, <1>2, <1>3 DEF InjectorStep

(* The loop, a thief and stop(). *)
LEMMA LoopPlaces ==
    ASSUME Types, Attended, OnePlace,
           LoopMove \/ QueueStep \/ Stolen \/ Stop \/ ForceWake \/ UNCHANGED vars
    PROVE  OnePlace'
<1> USE DEF Types
<1>0. /\ Null \notin Task /\ local_ring \in Seq(Task) /\ inject_queue \in Seq(Task)
      /\ lifo_slot \in Task \union {Null} /\ QueuesDistinct
    BY Zenon, SchedulerAssumption DEF TypeOK, OnePlace
<1>a. ASSUME UNCHANGED injector
      PROVE  CarriedOnce' /\ \A u : Carried(u)' <=> Carried(u)
    BY Zenon, <1>a DEF OnePlace, CarriedOnce, Carried
<1>b. ASSUME UNCHANGED <<local_ring, inject_queue>>
      PROVE  QueuesDistinct' /\ \A u : InQueues(u)' <=> InQueues(u)
    BY Zenon, <1>b DEF OnePlace, QueuesDistinct, InQueues
<1>1. CASE LoopMove
    <2>1. UNCHANGED <<lifo_slot, local_ring, inject_queue, task, injector>>
        BY ZenonT(60), <1>1
           DEF LoopMove, LoopHead, PassBegin, Announce, PassEnd, MarkSleeping, Recheck,
               PollWoken, PollReturns, PollReadsEvent, PollCancels, MarkAwake, workerVars,
               injectVars
    <2>2. loop'.pc # "run"
        <3>1. CASE LoopHead \/ PassBegin \/ PassEnd
            BY Zenon, <3>1 DEF LoopHead, PassBegin, PassEnd, LoopShape
        <3>2. CASE Announce \/ MarkSleeping \/ PollReturns \/ PollCancels \/ MarkAwake
            BY Zenon, <3>2 DEF Announce, MarkSleeping, PollReturns, PollCancels, MarkAwake, Goto, LoopShape
        <3>3. CASE PollWoken
            BY Zenon, <3>3 DEF PollWoken, LoopShape
        <3>4. CASE PollReadsEvent
            BY Zenon, <3>4 DEF PollReadsEvent, LoopShape
        <3>5. CASE Recheck
            BY Zenon, <3>5 DEF Recheck, Goto, LoopShape
        <3> QED BY Zenon, <1>1, <3>1, <3>2, <3>3, <3>4, <3>5 DEF LoopMove
    <2> QED BY Zenon, <2>1, <2>2, StillPlaces
<1>2. CASE Stop \/ ForceWake \/ UNCHANGED vars
    BY Zenon, <1>2, StillPlaces DEF Stop, ForceWake, vars, workerVars, injectVars
<1>3. ASSUME NEW last \in BOOLEAN, Drain(last) PROVE OnePlace'
    <2>1. UNCHANGED <<lifo_slot, task, injector>> /\ drainInjected /\ loop'.pc # "run"
        BY Zenon, <1>3 DEF Drain, LoopShape
    <2>2. QueuesDistinct' /\ \A u : InQueues(u)' <=> InQueues(u)
        BY Zenon, <1>0, <2>1, DrainPlaces
    <2> QED BY Zenon, <1>a, <2>1, <2>2 DEF OnePlace
<1>4. CASE Collect
    <2>1. CASE Drain(FALSE)
        BY ZenonT(60), <1>3, <2>1
    <2>2. CASE ~Drain(FALSE)
        <3>1. UNCHANGED <<workerVars, injectVars, injector, task>> /\ Goto("pop")
            BY Zenon, <1>4, <2>2 DEF Collect
        <3>2. loop'.pc # "run"
            BY Zenon, <3>1 DEF Goto, LoopShape
        <3> QED BY Zenon, <3>1, <3>2, StillPlaces DEF workerVars, injectVars
    <2> QED BY Zenon, <2>1, <2>2
<1>5. CASE Settle
    <2>1. loop'.pc # "run"
        BY Zenon, <1>5 DEF Settle, LoopShape
    <2> QED BY Zenon, <1>5, <2>1, StillPlaces DEF Settle, workerVars
<1>6. CASE Demote
    <2>1. /\ lifo_slot \in Task /\ enqueueDeferred(lifo_slot) /\ lifo_slot' = Null
          /\ UNCHANGED <<loop, injector, task>>
        BY Zenon, <1>0, <1>6 DEF Demote, MustDemote
    <2>2. ~InQueues(lifo_slot) /\ ~Carried(lifo_slot)
        BY Zenon, <2>1 DEF OnePlace
    <2>3. QueuesDistinct' /\ \A u : InQueues(u)' <=> InQueues(u) \/ u = lifo_slot
        BY Zenon, <1>0, <2>1, <2>2, DeferredPlaces
    <2> QED BY Zenon, <1>0, <1>a, <2>1, <2>2, <2>3 DEF OnePlace
<1>7. CASE PopLifo
    <2>1. /\ lifo_slot \in Task /\ Runs(lifo_slot) /\ lifo_slot' = Null
          /\ UNCHANGED <<local_ring, inject_queue, injector>>
        BY Zenon, <1>0, <1>7 DEF PopLifo, injectVars
    <2>2. /\ loop'.next = lifo_slot
          /\ \A u \in Task : task'[u] = IF u = lifo_slot THEN "running" ELSE task[u]
        BY Zenon, <2>1 DEF Runs, LoopShape, TypeOK
    <2> QED BY Zenon, <1>0, <1>a, <1>b, <2>1, <2>2 DEF OnePlace
<1>8. CASE PopRing
    <2> DEFINE t == local_ring[Len(local_ring)]
               rest == SubSeq(local_ring, 1, Len(local_ring) - 1)
    <2>1. /\ local_ring # <<>> /\ Runs(t) /\ local_ring' = rest
          /\ UNCHANGED <<lifo_slot, inject_queue, injector>>
        BY Zenon, <1>8 DEF PopRing, injectVars
    <2>2. /\ t \in Task /\ Holds(local_ring, t) /\ Distinct(rest)
          /\ \A u : Holds(rest, u) <=> Holds(local_ring, u) /\ u # t
        BY Zenon, <1>0, <2>1, PopHolds DEF QueuesDistinct
    <2> HIDE DEF t, rest
    <2>3. QueuesDistinct' /\ InQueues(t) /\ \A u : InQueues(u)' <=> InQueues(u) /\ u # t
        BY Zenon, <1>0, <2>1, <2>2 DEF QueuesDistinct, InQueues
    <2>4. /\ loop'.next = t
          /\ \A u \in Task : task'[u] = IF u = t THEN "running" ELSE task[u]
        BY Zenon, <2>1, <2>2 DEF Runs, LoopShape, TypeOK
    <2> QED BY Zenon, <1>0, <1>a, <2>1, <2>2, <2>3, <2>4 DEF OnePlace
<1>9. CASE PopNothing
    <2>1. CASE Drain(TRUE)
        BY ZenonT(60), <1>3, <2>1
    <2>2. CASE ~Drain(TRUE)
        <3>1. /\ UNCHANGED <<workerVars, injectVars, injector, task>>
              /\ Goto("end") \/ Goto("collect")
            BY Zenon, <1>9, <2>2 DEF PopNothing
        <3>2. loop'.pc # "run"
            BY Zenon, <3>1 DEF Goto, LoopShape
        <3> QED BY Zenon, <3>1, <3>2, StillPlaces DEF workerVars, injectVars
    <2> QED BY ZenonT(60), <2>1, <2>2
<1>10. CASE RunEnds
    <2>1. /\ loop.next \in Task /\ task[loop.next] = "running"
          /\ UNCHANGED <<lifo_slot, local_ring, inject_queue, injector>>
        BY Zenon, <1>10 DEF RunEnds, LoopShape, OnePlace, workerVars, injectVars
    <2>2. PICK s \in {"done", "idle"} : task' = [task EXCEPT ![loop.next] = s]
        BY ZenonT(60), <1>10 DEF RunEnds
    <2>3. \A u \in Task : task'[u] = IF u = loop.next THEN s ELSE task[u]
        BY Zenon, <2>2 DEF TypeOK
    <2>4. loop'.pc # "run"
        BY Zenon, <1>10 DEF RunEnds, AfterRun, LoopShape
    <2> QED BY Zenon, <1>a, <1>b, <2>1, <2>3, <2>4 DEF OnePlace
<1>11. CASE RunYields
    <2> DEFINE t == loop.next
    <2>1. /\ t \in Task /\ task[t] = "running" /\ inject_queue' = Append(inject_queue, t)
          /\ UNCHANGED <<lifo_slot, local_ring, injector>>
        BY Zenon, <1>11 DEF RunYields, LoopShape, OnePlace, workerVars
    <2>2. \A u \in Task : task'[u] = IF u = t THEN "queued" ELSE task[u]
        BY Zenon, <1>11, <2>1 DEF RunYields, TypeOK
    <2>3. loop'.pc # "run"
        BY Zenon, <1>11 DEF RunYields, AfterRun, LoopShape
    <2> HIDE DEF t
    <2>4. ~InQueues(t) /\ lifo_slot # t /\ ~Carried(t)
        BY Zenon, <2>1 DEF OnePlace
    <2>5. /\ Distinct(inject_queue')
          /\ \A u : Holds(inject_queue', u) <=> Holds(inject_queue, u) \/ u = t
        BY Zenon, <1>0, <2>1, <2>4, AppendHolds DEF QueuesDistinct, InQueues
    <2>6. QueuesDistinct' /\ \A u : InQueues(u)' <=> InQueues(u) \/ u = t
        BY Zenon, <1>0, <2>1, <2>4, <2>5 DEF QueuesDistinct, InQueues
    <2> QED BY Zenon, <1>a, <2>1, <2>2, <2>3, <2>4, <2>6 DEF OnePlace
<1>12. CASE TrySteal
    <2>1. /\ loop.pc = "steal" /\ loop'.pc # "run" /\ local_ring = <<>>
          /\ UNCHANGED <<lifo_slot, inject_queue, injector>>
        BY Zenon, <1>12 DEF TrySteal, Goto, LoopShape, Attended, HasLocalWork, workerVars, injectVars
    <2>2. CASE UNCHANGED <<workerVars, task>>
        BY Zenon, <2>1, <2>2, StillPlaces DEF workerVars
    <2>3. CASE ~UNCHANGED <<workerVars, task>>
        <3>1. PICK s \in UNION {[1..n -> Task] : n \in 1..kCapacity} :
                  /\ IsInjective(s) /\ \A k \in DOMAIN s : task[s[k]] = "idle"
                  /\ local_ring' = s
                  /\ task' = [t \in Task |-> IF t \in Range(s) THEN "queued" ELSE task[t]]
            BY Zenon, <1>12, <2>3 DEF TrySteal
        <3>2. PICK n \in 1..kCapacity : s \in [1..n -> Task]
            BY Zenon, <3>1
        <3>3. s \in Seq(Task) /\ Len(s) = n /\ DOMAIN s = 1..n
            BY <3>2, SchedulerAssumption
        <3>4. Distinct(s) /\ \A u : Holds(s, u) <=> u \in Range(s)
            BY Zenon, <3>1, <3>3 DEF IsInjective, Distinct, Holds, Range
        <3>5. \A u \in Task : Holds(s, u) => task[u] = "idle"
            BY Zenon, <3>1, <3>3 DEF Holds
        <3>6. \A u : Holds(s, u) => u \in Task
            BY Zenon, <3>2, <3>3 DEF Holds
        <3>7. \A u : ~Holds(local_ring, u)
            BY <2>1 DEF Holds
        <3>8. \A u : InQueues(u)' <=> InQueues(u) \/ Holds(s, u)
            BY Zenon, <2>1, <3>1, <3>7 DEF InQueues
        <3>9. QueuesDistinct'
            BY Zenon, <1>0, <2>1, <3>1, <3>4, <3>5, <3>6 DEF QueuesDistinct, InQueues, OnePlace
        <3>10. \A u \in Task : task'[u] = IF Holds(s, u) THEN "queued" ELSE task[u]
            BY Zenon, <3>1, <3>4
        <3> QED BY Zenon, <1>a, <2>1, <3>5, <3>8, <3>9, <3>10 DEF OnePlace
    <2> QED BY Zenon, <2>2, <2>3
<1>13. ASSUME NEW t \in Task, RunSchedules(t) \/ LoopWakes(t) PROVE OnePlace'
    BY Zenon, <1>13, LocalPlaces DEF RunSchedules, LoopWakes
<1>14. CASE Stolen
    <2> DEFINE t == local_ring[1]
    <2>1. /\ local_ring # <<>> /\ local_ring' = Tail(local_ring)
          /\ UNCHANGED <<lifo_slot, inject_queue, injector, loop>>
        BY Zenon, <1>14 DEF Stolen, injectVars
    <2>2. /\ t \in Task /\ Holds(local_ring, t) /\ Distinct(local_ring')
          /\ \A u : Holds(local_ring', u) <=> Holds(local_ring, u) /\ u # t
        BY Zenon, <1>0, <2>1, StealHolds DEF QueuesDistinct
    <2>3. PICK s \in {"idle", "done"} : task' = [task EXCEPT ![t] = s]
        BY Zenon, <1>14 DEF Stolen
    <2> HIDE DEF t
    <2>4. \A u \in Task : task'[u] = IF u = t THEN s ELSE task[u]
        BY Zenon, <2>3 DEF TypeOK
    <2>5. QueuesDistinct' /\ InQueues(t) /\ \A u : InQueues(u)' <=> InQueues(u) /\ u # t
        BY Zenon, <1>0, <2>1, <2>2 DEF QueuesDistinct, InQueues
    <2>6. loop'.pc = "run" => task'[loop'.next] = "running"
        BY Zenon, <2>1, <2>4, <2>5 DEF OnePlace, LoopShape
    <2> QED BY Zenon, <1>a, <2>1, <2>2, <2>4, <2>5, <2>6 DEF OnePlace
<1> QED BY Zenon, <1>1, <1>2, <1>4, <1>5, <1>6, <1>7, <1>8, <1>9, <1>10, <1>11, <1>12, <1>13, <1>14
        DEF QueueStep

-----------------------------------------------------------------------------
(* What is needed of the sizes of sets; it follows from a library whose many facts would
   burden every proof that follows them, and is proved last. *)
SetSizes ==
    /\ IsFiniteSet({}) /\ Cardinality({}) = 0 /\ \A x : Cardinality({x}) = 1
    /\ \A S : IsFiniteSet(S) =>
           /\ Cardinality(S) \in Nat
           /\ \A x : x \notin S => /\ IsFiniteSet(S \union {x})
                                  /\ Cardinality(S \union {x}) = Cardinality(S) + 1
           /\ \A x \in S : /\ IsFiniteSet(S \ {x})
                           /\ Cardinality(S \ {x}) = Cardinality(S) - 1

IInv == Awake /\ Outstanding /\ OnePlace

(* The exact count covers the queue and the batch. *)
LEMMA CountCovers == ASSUME SetSizes, Types, Outstanding PROVE Covered
<1>1. Cardinality(Enqueuing) \in Nat
    BY Zenon DEF SetSizes, Outstanding
<1>2. Len(inject_queue) \in Nat /\ loop.count \in Nat
    BY DEF Types, TypeOK, LoopShape
<1> QED BY <1>1, <1>2 DEF Outstanding, Covered

(* Every step keeps the count exact. *)
LEMMA NextCounts ==
    ASSUME SetSizes, Types, Types', Outstanding, [Next]_vars
    PROVE  Outstanding'
<1>0. /\ Len(inject_queue) \in Nat /\ Len(inject_queue') \in Nat
      /\ injected_outstanding \in Nat /\ injected_outstanding' \in Nat
      /\ loop.count \in Nat /\ loop'.count \in Nat /\ Cardinality(Enqueuing) \in Nat
    <2>1. Cardinality(Enqueuing) \in Nat
        BY Zenon DEF SetSizes, Outstanding
    <2> QED BY <2>1 DEF Types, TypeOK, LoopShape
<1>1. ASSUME Balanced, Enqueuing' = Enqueuing PROVE Outstanding'
    <2>1. IsFiniteSet(Enqueuing') /\ Cardinality(Enqueuing') = Cardinality(Enqueuing)
        BY Zenon, <1>1 DEF Outstanding
    <2>2. injected_outstanding' = Len(inject_queue') + loop'.count + Cardinality(Enqueuing)
        <3> DEFINE n == Cardinality(Enqueuing)
        <3>1. injected_outstanding = Len(inject_queue) + loop.count + n /\ n \in Nat
            BY Zenon, <1>0 DEF Outstanding
        <3> HIDE DEF n
        <3>2. CASE Counted /\ loop'.count = loop.count
            BY <1>0, <3>1, <3>2 DEF Counted, n
        <3>3. CASE /\ injected_outstanding' = injected_outstanding - loop.count
                   /\ Len(inject_queue') = Len(inject_queue) /\ loop'.count = 0
            BY <1>0, <3>1, <3>3 DEF n
        <3>4. CASE /\ injected_outstanding' = injected_outstanding /\ loop.count = 0
                   /\ Len(inject_queue') = Len(inject_queue) - loop'.count
            BY <1>0, <3>1, <3>4 DEF n
        <3> QED BY Zenon, <1>1, <3>2, <3>3, <3>4 DEF Balanced
    <2> QED BY Zenon, <2>1, <2>2 DEF Outstanding
<1>2. ASSUME NEW i \in Injector, NEW t \in Task, InjectBegin(i, t) PROVE Outstanding'
    <2>1. Enqueuing' = Enqueuing \union {i} /\ i \notin Enqueuing
        BY <1>2 DEF InjectBegin, Enqueuing, Types, InjectorShape
    <2>2. IsFiniteSet(Enqueuing') /\ Cardinality(Enqueuing') = Cardinality(Enqueuing) + 1
        BY Zenon, <2>1 DEF SetSizes, Outstanding
    <2>3. injected_outstanding' = injected_outstanding + 1 /\ UNCHANGED <<inject_queue, loop>>
        BY Zenon, <1>2 DEF InjectBegin
    <2> QED BY <1>0, <2>2, <2>3 DEF Outstanding
<1>3. ASSUME NEW i \in Injector, InjectEnqueue(i) PROVE Outstanding'
    <2>1. Enqueuing' = Enqueuing \ {i} /\ i \in Enqueuing
        BY <1>3 DEF InjectEnqueue, Enqueuing, Types, InjectorShape
    <2>2. IsFiniteSet(Enqueuing') /\ Cardinality(Enqueuing') = Cardinality(Enqueuing) - 1
        BY Zenon, <2>1 DEF SetSizes, Outstanding
    <2>3. Len(inject_queue') = Len(inject_queue) + 1
        BY <1>3 DEF InjectEnqueue, Types, TypeOK, InjectorShape
    <2>4. injected_outstanding' = injected_outstanding /\ loop' = loop
        BY Zenon, <1>3 DEF InjectEnqueue
    <2> QED BY <1>0, <2>2, <2>3, <2>4 DEF Outstanding
<1>4. ASSUME NEW i \in Injector, WakeTest(i) \/ WakeExchange(i) \/ Notify(i) PROVE Outstanding'
    <2>1. Enqueuing' = Enqueuing
        BY <1>4 DEF WakeTest, WakeExchange, Notify, InjectorGoto, Enqueuing, Types, InjectorShape
    <2>2. Balanced
        BY Zenon, <1>0, <1>4 DEF WakeTest, WakeExchange, Notify, Balanced, Counted, injectVars
    <2> QED BY Zenon, <1>1, <2>1, <2>2
<1>5. CASE Stop \/ ForceWake \/ UNCHANGED vars
    <2>1. UNCHANGED <<injectVars, loop, injector>>
        BY Zenon, <1>5 DEF Stop, ForceWake, vars
    <2> QED BY Zenon, <1>0, <1>1, <2>1 DEF Balanced, Counted, injectVars, Enqueuing
<1>6. CASE QueueStep \/ LoopMove \/ Stolen
    <2>1. Balanced /\ UNCHANGED injector
        BY Zenon, <1>6, LoopBalanced
    <2> QED BY Zenon, <1>1, <2>1 DEF Enqueuing
<1> QED BY Zenon, <1>2, <1>3, <1>4, <1>5, <1>6
        DEF Next, InjectorStep, LoopStep, LoopMove, QueueStep, Terminated

(* Each task queued once: the places that hold it are one or none. *)
LEMMA PlacesCounted ==
    ASSUME SetSizes, Types, OnePlace, NEW t \in Task
    PROVE  Cardinality(Places(t)) = IF task[t] = "queued" THEN 1 ELSE 0
<1> DEFINE A == {k \in DOMAIN local_ring : local_ring[k] = t}
           B == {k \in DOMAIN inject_queue : inject_queue[k] = t}
           C == {s \in {lifo_slot} : s = t}
           I == {i \in Injector : injector[i].task = t}
<1>0. /\ DOMAIN local_ring = 1..Len(local_ring) /\ DOMAIN inject_queue = 1..Len(inject_queue)
      /\ Null \notin Task
    BY SchedulerAssumption DEF Types, TypeOK
<1>1. Places(t) = ({"ring"} \X A) \union ({"inject"} \X B) \union ({"lifo"} \X C)
                  \union ({"injector"} \X I)
    BY Zenon DEF Places
<1>2. \A j, k \in A : j = k
    BY <1>0 DEF OnePlace, QueuesDistinct, Distinct
<1>3. \A j, k \in B : j = k
    BY <1>0 DEF OnePlace, QueuesDistinct, Distinct
<1>4. \A j, k \in I : j = k
    BY <1>0 DEF OnePlace, CarriedOnce
<1>5. /\ A # {} <=> Holds(local_ring, t)
      /\ B # {} <=> Holds(inject_queue, t)
      /\ C # {} <=> lifo_slot = t
      /\ I # {} <=> Carried(t)
    BY Zenon, <1>0 DEF Holds, Carried
<1>6. \A j, k \in C : j = k
    OBVIOUS
<1> HIDE DEF A, B, C, I
<1>7. ASSUME NEW S, \A j, k \in S : j = k, S # {} PROVE \E k : S = {k}
    BY <1>7
<1>8. CASE task[t] = "queued"
    <2>1. \E p : Places(t) = {p}
        <3>1. CASE Holds(local_ring, t)
            <4>1. B = {} /\ C = {} /\ I = {}
                BY Zenon, <1>5, <3>1 DEF OnePlace, QueuesDistinct, InQueues
            <4>2. PICK k : A = {k}
                BY Zenon, <1>2, <1>5, <1>7, <3>1
            <4>3. Places(t) = {<<"ring", k>>}
                BY <1>1, <4>1, <4>2
            <4> QED BY ZenonT(60), <4>3
        <3>2. CASE Holds(inject_queue, t)
            <4>1. A = {} /\ C = {} /\ I = {}
                BY Zenon, <1>5, <3>2 DEF OnePlace, QueuesDistinct, InQueues
            <4>2. PICK k : B = {k}
                BY Zenon, <1>3, <1>5, <1>7, <3>2
            <4>3. Places(t) = {<<"inject", k>>}
                BY <1>1, <4>1, <4>2
            <4> QED BY ZenonT(60), <4>3
        <3>3. CASE lifo_slot = t
            <4>1. A = {} /\ B = {} /\ I = {}
                BY Zenon, <1>5, <3>3 DEF OnePlace, InQueues
            <4>2. PICK k : C = {k}
                BY Zenon, <1>5, <1>6, <1>7, <3>3
            <4>3. Places(t) = {<<"lifo", k>>}
                BY <1>1, <4>1, <4>2
            <4> QED BY ZenonT(60), <4>3
        <3>4. CASE Carried(t)
            <4>1. A = {} /\ B = {} /\ C = {}
                BY Zenon, <1>5, <3>4 DEF OnePlace, InQueues
            <4>2. PICK k : I = {k}
                BY Zenon, <1>4, <1>5, <1>7, <3>4
            <4>3. Places(t) = {<<"injector", k>>}
                BY <1>1, <4>1, <4>2
            <4> QED BY ZenonT(60), <4>3
        <3> QED BY ZenonT(60), <1>8, <3>1, <3>2, <3>3, <3>4 DEF OnePlace, InQueues
    <2>2. PICK p : Places(t) = {p}
        BY Zenon, <2>1
    <2>3. Cardinality(Places(t)) = 1
        BY Zenon, <2>2 DEF SetSizes
    <2> QED BY Zenon, <1>8, <2>3
<1>9. CASE task[t] # "queued"
    <2>1. A = {} /\ B = {} /\ C = {} /\ I = {}
        BY Zenon, <1>5, <1>9 DEF OnePlace, InQueues
    <2>2. Places(t) = {}
        BY Zenon, <1>1, <2>1
    <2>3. Cardinality(Places(t)) = 0
        BY Zenon, <2>2 DEF SetSizes
    <2> QED BY Zenon, <1>9, <2>3
<1> QED BY Zenon, <1>8, <1>9

(* The scheduler starts awake, with empty queues and nothing counted. *)
LEMMA InitSound == ASSUME SetSizes, Init PROVE IInv
<1>1. LoopShape /\ InjectorShape
    BY Zenon DEF Init, LoopShape, InjectorShape, LoopPc, InjectorPc
<1>2. TypeOK
    <2>1. /\ consecutive_lifo_polls \in 0..lifo_poll_limit
          /\ polls_since_inject \in 0..inject_check_interval
        BY SchedulerAssumption DEF Init
    <2>2. /\ local_ring \in Seq(Task) /\ inject_queue \in Seq(Task)
          /\ Len(local_ring) <= kCapacity
        BY SchedulerAssumption DEF Init
    <2>3. loop.next = Null /\ \A i \in Injector : injector[i].task = Null
        BY Zenon DEF Init
    <2> QED BY Zenon, <2>1, <2>2, <2>3 DEF Init, TypeOK
<1>3. Outstanding
    <2>1. Enqueuing = {}
        BY Zenon DEF Init, Enqueuing
    <2>2. IsFiniteSet(Enqueuing) /\ Cardinality(Enqueuing) = 0
        BY Zenon, <2>1 DEF SetSizes
    <2> QED BY <2>2 DEF Init, Outstanding
<1>4. MarkedSleeping /\ PendingIsCarried /\ Attended
    BY Zenon DEF Init, MarkedSleeping, PendingIsCarried, Attended
<1>5. OnePlace
    <2>1. /\ lifo_slot = Null /\ local_ring = <<>> /\ inject_queue = <<>> /\ Null \notin Task
          /\ \A t \in Task : task[t] = "idle"
          /\ \A i \in Injector : injector[i].task = Null
          /\ loop.pc = "head"
        BY Zenon, SchedulerAssumption DEF Init
    <2>2. QueuesDistinct /\ \A t \in Task : ~InQueues(t)
        BY <2>1 DEF QueuesDistinct, InQueues, Holds, Distinct
    <2>3. CarriedOnce /\ \A t \in Task : ~Carried(t)
        BY Zenon, <2>1 DEF CarriedOnce, Carried
    <2> QED BY Zenon, <2>1, <2>2, <2>3 DEF OnePlace
<1> QED BY Zenon, <1>1, <1>2, <1>3, <1>4, <1>5 DEF IInv, Awake, Types

(* Each step of the loop, of an injecting thread, of a thief and of stop() keeps the
   inductive invariant. *)
LEMMA NextSound == ASSUME SetSizes, IInv, [Next]_vars PROVE IInv'
<1>0. Covered
    BY Zenon, CountCovers DEF IInv, Awake
<1>1. Types'
    BY Zenon, <1>0, NextTyped DEF IInv, Awake
<1>2. Outstanding'
    BY Zenon, <1>1, NextCounts DEF IInv, Awake
<1>3. MarkedSleeping' /\ PendingIsCarried' /\ Attended'
    <2>1. CASE \E i \in Injector : InjectorStep(i) \/ \E t \in Task : InjectBegin(i, t)
        BY Zenon, <2>1, InjectorWakes DEF IInv
    <2>2. CASE LoopMove \/ QueueStep \/ Stolen \/ Stop \/ ForceWake \/ UNCHANGED vars
        BY Zenon, <1>0, <2>2, LoopKeepsWake DEF IInv
    <2> QED BY Zenon, <2>1, <2>2 DEF Next, LoopStep, LoopMove, QueueStep, Terminated
<1>4. OnePlace'
    <2>1. CASE \E i \in Injector : InjectorStep(i) \/ \E t \in Task : InjectBegin(i, t)
        BY Zenon, <2>1, InjectorPlaces DEF IInv, Awake
    <2>2. CASE LoopMove \/ QueueStep \/ Stolen \/ Stop \/ ForceWake \/ UNCHANGED vars
        BY Zenon, <2>2, LoopPlaces DEF IInv, Awake
    <2> QED BY Zenon, <2>1, <2>2 DEF Next, LoopStep, LoopMove, QueueStep, Terminated
<1> QED BY Zenon, <1>1, <1>2, <1>3, <1>4 DEF IInv, Awake

(* What the inductive invariant says of the properties. *)
LEMMA InvariantCorrect == ASSUME SetSizes, IInv PROVE NoLostWake /\ EachTaskQueuedOnce
<1>1. NoLostWake
    BY Zenon DEF IInv, Awake, Attended, Waking, NoLostWake
<1>2. OutstandingExact
    BY Zenon DEF IInv, Awake, Types, Outstanding, Enqueuing, OutstandingExact, Quantify
<1>3. \A t \in Task : Cardinality(Places(t)) = IF task[t] = "queued" THEN 1 ELSE 0
    BY Zenon, PlacesCounted DEF IInv, Awake
<1> QED BY Zenon, <1>1, <1>2, <1>3 DEF EachTaskQueuedOnce

-----------------------------------------------------------------------------
INSTANCE FiniteSetTheorems

(* The sizes of sets are as assumed. *)
LEMMA SizesHold == SetSizes
<1>1. IsFiniteSet({}) /\ Cardinality({}) = 0
    BY Zenon, FS_EmptySet
<1>2. \A x : Cardinality({x}) = 1
    BY Zenon, FS_Singleton
<1>3. \A S : IsFiniteSet(S) => Cardinality(S) \in Nat
    BY Zenon, FS_CardinalityType
<1>4. ASSUME NEW S, IsFiniteSet(S), NEW x, x \notin S
      PROVE  IsFiniteSet(S \union {x}) /\ Cardinality(S \union {x}) = Cardinality(S) + 1
    BY Zenon, <1>4, FS_AddElement
<1>5. ASSUME NEW S, IsFiniteSet(S), NEW x \in S
      PROVE  IsFiniteSet(S \ {x}) /\ Cardinality(S \ {x}) = Cardinality(S) - 1
    BY Zenon, <1>5, FS_RemoveElement
<1> QED BY Zenon, <1>1, <1>2, <1>3, <1>4, <1>5 DEF SetSizes

(* The scheduler never sleeps over a task, its count of injected tasks is exact at every
   moment and its ring never overflows, for any number of tasks and injecting threads,
   any capacity, batch size and limits: the order "mark sleeping, then ask for work once
   more" of sched_loop.hpp and "enqueue, then ask whether the loop may sleep" of
   requestWake close the window in which a task could arrive unnoticed. *)
THEOREM SchedulerCorrect == Spec => [](NoLostWake /\ OutstandingExact)
<1>1. Init => IInv
    BY Zenon, SizesHold, InitSound
<1>2. IInv /\ [Next]_vars => IInv'
    BY Zenon, SizesHold, NextSound
<1>3. IInv => NoLostWake /\ OutstandingExact
    BY Zenon, SizesHold, InvariantCorrect DEF EachTaskQueuedOnce
<1> QED BY <1>1, <1>2, <1>3, PTL DEF Spec

(* A scheduled task is in exactly one place, in a queue, in the LIFO slot or with the
   thread that is injecting it, and a task that is not scheduled is in none, for any
   number of tasks and threads and any limits: the overflow of the ring into the inject
   queue, the displacement and the demotion of the LIFO slot, the drains and the steals
   neither lose a task nor double it, so none is resumed twice for one wake-up. *)
THEOREM TasksQueuedOnce == Spec => []EachTaskQueuedOnce
<1>1. Init => IInv
    BY Zenon, SizesHold, InitSound
<1>2. IInv /\ [Next]_vars => IInv'
    BY Zenon, SizesHold, NextSound
<1>3. IInv => EachTaskQueuedOnce
    BY Zenon, SizesHold, InvariantCorrect
<1> QED BY <1>1, <1>2, <1>3, PTL DEF Spec
=============================================================================
