----------------------------- MODULE TaskProofs ------------------------------
(***************************************************************************)
(* A task's outcome is handed out once, for any number of joining threads; *)
(* and the pool that runs blocking tasks, for any number of callers and    *)
(* any limits: its counters are exact, no wake-up is lost, and its         *)
(* destructor leaves nothing behind.                                       *)
(***************************************************************************)
EXTENDS BlockingExecutor, TaskCompletion, TLAPS

(* A task and those who wait for it *)

Steps == {"new", "queued", "running", "done", "waiter", "notify", "then", "next", "finished"}
Running == [pc : Steps, inline : BOOLEAN]
BeforeEnd == {"new", "queued", "running"}
AfterDone == {"waiter", "notify", "then", "next", "finished"}
Outcomes == {"nothing", "value", "error", "consumed"}
Awaiting == [pc : {"none", "ready", "inline", "check", "publish", "suspended", "queued",
                   "resume", "finished"}, got : Outcomes]
Joining == [pc : {"none", "load", "ensure", "lock", "test", "asleep", "take", "finished"},
            join : BOOLEAN, got : Outcomes]

(* The result is there from the end of the coroutine on, m_done tells so, and a value is
   taken or an error kept. *)
ResultSound ==
    /\ m_done <=> task.pc \in AfterDone
    /\ IF task.pc \in BeforeEnd THEN m_result = "empty" /\ m_result_error = FALSE
                                ELSE (m_result_error <=> m_result = "empty")
    /\ (m_result_consumed <=> m_result = "taken")

(* The continuation is scheduled in one step of the task only. *)
ThenOnce == task.pc \in {"next", "finished"} \/ thenRuns = 0

(* Where the parent is while the task runs inside its await_suspend, and while it is
   published; nobody but the parent takes the outcome of an awaited task. *)
ParentSound ==
    /\ parent.pc = "ready" <=> task.pc = "new"
    /\ task.inline => parent.pc = "inline"
    /\ m_next => parent.pc = "suspended"
    /\ parent.pc \in {"resume", "finished"} => m_done
    /\ parent.pc \notin {"none", "finished"} => ~m_result_consumed
    /\ parent.pc = "finished" => parent.got = IF m_result_error THEN "error" ELSE "value"

(* A thread that takes the outcome found the task done; the one with the value consumed it. *)
JoinersSound ==
    \A j \in Joiner :
        /\ parent.pc # "none" => joiner[j].pc = "none"
        /\ joiner[j].pc \in {"take", "finished"} => m_done
        /\ joiner[j].got = "value" => m_result_consumed
        /\ joiner[j].pc = "finished" /\ m_result_error /\ joiner[j].join => joiner[j].got = "error"

OneValue == \A j, k \in Joiner : joiner[j].got = "value" /\ joiner[k].got = "value" => j = k

TaskInv == TaskTypeOK /\ ResultSound /\ ThenOnce /\ ParentSound /\ JoinersSound /\ OneValue

(* A step of one joining thread that only moves it on. *)
LEMMA JoinerMoves ==
    ASSUME TaskTypeOK, NEW j \in Joiner,
           NEW l \in {"lock", "ensure", "test", "asleep", "take", "finished"},
           JoinerGoto(j, l)
    PROVE  /\ joiner' \in [Joiner -> Joining]
           /\ joiner'[j].pc = l /\ joiner'[j].join = joiner[j].join
           /\ joiner'[j].got = joiner[j].got
           /\ \A k \in Joiner : k # j => joiner'[k] = joiner[k]
<1> DEFINE r == [joiner[j] EXCEPT !.pc = l]
<1>1. joiner \in [Joiner -> Joining]
    BY Zenon DEF TaskTypeOK, Joining, Outcomes
<1>2. joiner' = [joiner EXCEPT ![j] = r]
    BY Zenon DEF JoinerGoto
<1>3. r \in Joining /\ r.pc = l /\ r.join = joiner[j].join /\ r.got = joiner[j].got
    BY Zenon, <1>1 DEF Joining
<1> HIDE DEF r
<1> QED BY Zenon, <1>1, <1>2, <1>3

(* What taking the outcome of a completed task gives. *)
LEMMA TakeSound ==
    ASSUME TaskTypeOK, ResultSound, m_done, Take
    PROVE  /\ Taken \in {"value", "error", "consumed"}
           /\ Taken = "value" <=> ~m_result_error /\ ~m_result_consumed
           /\ Taken = "error" <=> m_result_error
           /\ Taken = "value" => m_result_consumed'
           /\ m_result_consumed => m_result_consumed'
           /\ m_result' \in {"empty", "value", "taken"} /\ m_result_consumed' \in BOOLEAN
           /\ (m_result_consumed' <=> m_result' = "taken")
           /\ m_result_error' = m_result_error /\ (m_result_error <=> m_result' = "empty")
           /\ task.pc \in AfterDone /\ task.pc \notin BeforeEnd
<1>1. /\ task.pc \in AfterDone /\ task.pc \notin BeforeEnd
      /\ m_result \in {"empty", "value", "taken"}
      /\ m_result_error \in BOOLEAN /\ m_result_consumed \in BOOLEAN
      /\ (m_result_error <=> m_result = "empty") /\ (m_result_consumed <=> m_result = "taken")
    BY Zenon DEF ResultSound, TaskTypeOK, AfterDone, BeforeEnd
<1>2. CASE m_result_error
    BY Zenon, <1>1, <1>2 DEF Take, Taken
<1>3. CASE ~m_result_error /\ m_result_consumed
    BY Zenon, <1>1, <1>3 DEF Take, Taken
<1>4. CASE ~m_result_error /\ ~m_result_consumed
    BY Zenon, <1>1, <1>4 DEF Take, Taken
<1> QED BY Zenon, <1>1, <1>2, <1>3, <1>4

(* The types, with the sets of records named. *)
LEMMA TaskTypes ==
    TaskTypeOK <=>
        /\ m_done \in BOOLEAN /\ m_next \in BOOLEAN /\ m_then \in BOOLEAN /\ m_waiter \in BOOLEAN
        /\ m_mutex \in Joiner \union {Nobody} /\ m_result \in {"empty", "value", "taken"}
        /\ m_result_error \in BOOLEAN /\ m_result_consumed \in BOOLEAN
        /\ task \in Running /\ parent \in Awaiting /\ joiner \in [Joiner -> Joining]
        /\ thenRuns \in 0..1
BY Zenon DEF TaskTypeOK, Running, Steps, Awaiting, Joining, Outcomes

(* A step of the task that only moves it on. *)
LEMMA TaskMoves ==
    ASSUME TaskTypeOK, NEW l \in Steps, TaskGoto(l)
    PROVE  task' \in Running /\ task'.pc = l /\ task'.inline = task.inline
BY Zenon, TaskTypes DEF TaskGoto, Running

(* The parent goes to another label and keeps the rest of its state. *)
LEMMA ParentMoves ==
    ASSUME TaskTypeOK, NEW l \in {"inline", "check", "resume", "publish", "suspended", "queued"},
           parent' = [parent EXCEPT !.pc = l]
    PROVE  parent' \in Awaiting /\ parent'.pc = l /\ parent'.got = parent.got
BY Zenon, TaskTypes DEF Awaiting

(* The steps of the task before it is done. *)
LEMMA TaskRunsSound ==
    ASSUME TaskInv, TaskResumes \/ TaskSuspends \/ TaskReturns
    PROVE  TaskInv'
<1>0. /\ TaskTypeOK /\ task \in Running /\ parent \in Awaiting /\ m_done = FALSE
      /\ m_result = "empty" /\ m_result_error = FALSE /\ m_result_consumed = FALSE
      /\ task.pc \in {"queued", "running"} /\ parent.pc # "ready"
      /\ UNCHANGED <<m_done, m_next, m_then, m_waiter, m_mutex, m_result_consumed, joiner,
                     thenRuns>>
    BY Zenon, TaskTypes DEF TaskInv, ResultSound, ParentSound, TaskResumes, TaskSuspends,
       TaskReturns, waitVars, resultVars, BeforeEnd, AfterDone
<1>1. /\ task' \in Running /\ task'.pc \in {"queued", "running", "done"}
      /\ task'.inline => task.inline
      /\ IF task'.pc = "done" THEN (m_result_error' <=> m_result' = "empty")
                              ELSE m_result' = "empty" /\ m_result_error' = FALSE
      /\ m_result' \in {"empty", "value"} /\ m_result_error' \in BOOLEAN
    <2>1. CASE TaskResumes
        BY Zenon, <1>0, <2>1, TaskMoves DEF TaskResumes, resultVars, Steps
    <2>2. CASE TaskSuspends
        BY Zenon, <1>0, <2>2 DEF TaskSuspends, resultVars, Running, Steps
    <2>3. CASE TaskReturns
        BY Zenon, <1>0, <2>3, TaskMoves DEF TaskReturns, Steps
    <2> QED BY Zenon, <2>1, <2>2, <2>3
<1>2. /\ parent' \in Awaiting
      /\ \/ parent' = parent /\ (task'.inline => parent.pc = "inline")
         \/ parent.pc = "inline" /\ parent'.pc = "check" /\ ~task'.inline
    <2>1. CASE TaskSuspends
        <3>1. CASE task.inline
            BY Zenon, <1>0, <2>1, <3>1, ParentMoves DEF TaskSuspends, ReturnInline, TaskInv, ParentSound
        <3>2. CASE ~task.inline
            BY Zenon, <1>0, <2>1, <3>2 DEF TaskSuspends, ReturnInline
        <3> QED BY Zenon, <3>1, <3>2
    <2>2. CASE TaskResumes \/ TaskReturns
        BY Zenon, <1>0, <1>1, <2>2 DEF TaskResumes, TaskReturns, TaskInv, ParentSound
    <2> QED BY Zenon, <2>1, <2>2
<1>3. TaskTypeOK'
    BY Zenon, <1>0, <1>1, <1>2 DEF TaskTypeOK, Running, Steps, Awaiting, Outcomes
<1>4. ResultSound'
    <2>1. task'.pc \notin AfterDone /\ (task'.pc \in BeforeEnd <=> task'.pc # "done")
        BY Zenon, <1>1 DEF AfterDone, BeforeEnd
    <2>2. m_result' # "taken"
        BY Zenon, <1>1
    <2>3. (m_done' <=> task'.pc \in AfterDone) /\ (m_result_consumed' <=> m_result' = "taken")
        <3>1. m_done' = FALSE /\ m_result_consumed' = FALSE
            BY Zenon, <1>0
        <3> QED BY Zenon, <2>1, <2>2, <3>1
    <2>4. IF task'.pc \in BeforeEnd THEN m_result' = "empty" /\ m_result_error' = FALSE
                                    ELSE (m_result_error' <=> m_result' = "empty")
        BY Zenon, <1>1, <2>1
    <2> QED BY Zenon, <2>3, <2>4 DEF ResultSound
<1>5. ThenOnce' /\ OneValue'
    BY Zenon, <1>0 DEF TaskInv, ThenOnce, OneValue
<1>6. ParentSound'
    BY Zenon, <1>0, <1>1, <1>2 DEF TaskInv, ParentSound
<1>7. JoinersSound'
    BY Zenon, <1>0, <1>2 DEF TaskInv, JoinersSound
<1> QED BY Zenon, <1>3, <1>4, <1>5, <1>6, <1>7 DEF TaskInv

(* The steps of completeTaskState that leave the parent alone. *)
LEMMA CompletionSound ==
    ASSUME TaskInv, SetDone \/ LoadWaiter \/ NotifyWaiters \/ RunThen
    PROVE  TaskInv'
<1>0. /\ TaskTypeOK /\ task.pc \notin BeforeEnd /\ task.pc \notin {"next", "finished"}
      /\ thenRuns = 0 /\ m_done \in BOOLEAN
      /\ UNCHANGED <<m_next, m_waiter, m_mutex, m_result, m_result_error, m_result_consumed,
                     parent>>
    BY Zenon, TaskTypes DEF TaskInv, ThenOnce, SetDone, LoadWaiter, NotifyWaiters, RunThen,
       waitVars, resultVars, BeforeEnd
<1>1. /\ task' \in Running /\ task'.inline = task.inline
      /\ task'.pc \in AfterDone \ {"finished"} /\ m_done' = TRUE
    <2>1. CASE SetDone
        BY Zenon, <1>0, <2>1, TaskMoves DEF SetDone, Steps, AfterDone
    <2>2. CASE LoadWaiter
        BY Zenon, <1>0, <2>2, TaskMoves DEF LoadWaiter, Steps, AfterDone, TaskInv, ResultSound
    <2>3. CASE NotifyWaiters \/ RunThen
        BY Zenon, <1>0, <2>3, TaskMoves DEF NotifyWaiters, RunThen, Steps, AfterDone, TaskInv, ResultSound
    <2> QED BY ZenonT(60), <2>1, <2>2, <2>3
<1>2. thenRuns' \in 0..1 /\ (task'.pc = "next" \/ thenRuns' = 0) /\ m_then' \in BOOLEAN
    <2>1. CASE RunThen
        <3>1. task'.pc = "next" /\ m_then' = FALSE
            BY Zenon, <1>0, <2>1, TaskMoves DEF RunThen, Steps
        <3>2. thenRuns' = thenRuns + 1 \/ thenRuns' = thenRuns
            BY Zenon, <2>1 DEF RunThen
        <3>3. thenRuns = 0
            BY Zenon, <1>0
        <3>4. thenRuns' \in 0..1
            BY <3>2, <3>3
        <3> QED BY Zenon, <3>1, <3>4
    <2>2. CASE SetDone \/ LoadWaiter \/ NotifyWaiters
        BY Zenon, <1>0, <2>2 DEF SetDone, LoadWaiter, NotifyWaiters, TaskTypeOK
    <2> QED BY Zenon, <2>1, <2>2
<1>3. /\ joiner' \in [Joiner -> Joining]
      /\ \A j \in Joiner : /\ joiner'[j].join = joiner[j].join /\ joiner'[j].got = joiner[j].got
                           /\ \/ joiner'[j].pc = joiner[j].pc
                              \/ joiner[j].pc = "asleep" /\ joiner'[j].pc = "lock"
    <2>0. joiner \in [Joiner -> Joining]
        BY Zenon, <1>0, TaskTypes
    <2>1. CASE NotifyWaiters
        <3>1. ASSUME NEW j \in Joiner
              PROVE  /\ joiner'[j] \in Joining
                     /\ joiner'[j].join = joiner[j].join /\ joiner'[j].got = joiner[j].got
                     /\ \/ joiner'[j].pc = joiner[j].pc
                        \/ joiner[j].pc = "asleep" /\ joiner'[j].pc = "lock"
            <4>1. joiner[j] \in Joining
                BY Zenon, <2>0
            <4>2. joiner'[j] = IF joiner[j].pc = "asleep" THEN [joiner[j] EXCEPT !.pc = "lock"]
                                                          ELSE joiner[j]
                BY Zenon, <2>1 DEF NotifyWaiters
            <4> QED BY Zenon, <4>1, <4>2 DEF Joining
        <3> QED BY Zenon, <2>1, <3>1 DEF NotifyWaiters
    <2>2. CASE SetDone \/ LoadWaiter \/ RunThen
        BY Zenon, <2>0, <2>2 DEF SetDone, LoadWaiter, RunThen, waitVars
    <2> QED BY Zenon, <2>1, <2>2
<1>4. TaskTypeOK'
    <2>1. /\ m_done' \in BOOLEAN /\ m_next' \in BOOLEAN /\ m_waiter' \in BOOLEAN
          /\ m_mutex' \in Joiner \union {Nobody} /\ m_result' \in {"empty", "value", "taken"}
          /\ m_result_error' \in BOOLEAN /\ m_result_consumed' \in BOOLEAN
          /\ parent' \in Awaiting
        BY Zenon, <1>0, <1>1, TaskTypes
    <2> QED BY Zenon, <1>1, <1>2, <1>3, <2>1
            DEF TaskTypeOK, Running, Steps, Awaiting, Joining, Outcomes
<1>5. ResultSound'
    BY Zenon, <1>0, <1>1 DEF TaskInv, ResultSound, AfterDone, BeforeEnd
<1>6. ThenOnce' /\ OneValue'
    BY <1>2, <1>3 DEF TaskInv, ThenOnce, OneValue
<1>7. ParentSound'
    BY Zenon, <1>0, <1>1 DEF TaskInv, ParentSound, AfterDone, BeforeEnd
<1>8. JoinersSound'
    BY Zenon, <1>0, <1>1, <1>3 DEF TaskInv, JoinersSound
<1> QED BY Zenon, <1>4, <1>5, <1>6, <1>7, <1>8 DEF TaskInv

(* The end of the task: a published parent is scheduled. *)
LEMMA RunNextSound ==
    ASSUME TaskInv, RunNext
    PROVE  TaskInv'
<1>0. /\ TaskTypeOK /\ task.pc = "next" /\ m_done /\ m_next' = FALSE
      /\ task' = [pc |-> "finished", inline |-> FALSE]
      /\ UNCHANGED <<m_done, m_then, m_waiter, m_mutex, m_result, m_result_error,
                     m_result_consumed, joiner, thenRuns>>
    BY Zenon DEF TaskInv, ResultSound, AfterDone, RunNext, waitVars, resultVars
<1>1. task' \in Running /\ task'.pc = "finished" /\ task'.inline = FALSE
    BY Zenon, <1>0 DEF Running, Steps
<1>2. /\ parent' \in Awaiting
      /\ \/ parent' = parent
         \/ parent.pc \in {"inline", "suspended"} /\ parent'.pc \in {"check", "queued"}
    <2>1. CASE m_next
        BY Zenon, <2>1, <1>0, ParentMoves DEF RunNext, TaskInv, ParentSound
    <2>2. CASE ~m_next /\ task.inline
        BY Zenon, <2>2, <1>0, ParentMoves DEF RunNext, ReturnInline, TaskInv, ParentSound
    <2>3. CASE ~m_next /\ ~task.inline
        BY Zenon, <2>3, <1>0, TaskTypes DEF RunNext, ReturnInline
    <2> QED BY Zenon, <2>1, <2>2, <2>3
<1>3. TaskTypeOK'
    BY Zenon, <1>0, <1>1, <1>2 DEF TaskTypeOK, Running, Steps, Awaiting, Outcomes
<1>4. ResultSound'
    BY Zenon, <1>0, <1>1 DEF TaskInv, ResultSound, AfterDone, BeforeEnd
<1>5. ThenOnce' /\ OneValue'
    BY Zenon, <1>0, <1>1 DEF TaskInv, ThenOnce, OneValue
<1>6. ParentSound'
    BY Zenon, <1>0, <1>1, <1>2 DEF TaskInv, ParentSound
<1>7. JoinersSound'
    BY Zenon, <1>0, <1>2 DEF TaskInv, JoinersSound
<1> QED BY Zenon, <1>3, <1>4, <1>5, <1>6, <1>7 DEF TaskInv

(* await_suspend: the task runs from within it, or fails for want of a scheduler. *)
LEMMA AwaitSuspendSound ==
    ASSUME TaskInv, AwaitSuspend
    PROVE  TaskInv'
<1>0. /\ TaskTypeOK /\ parent.pc = "ready" /\ task.pc = "new" /\ ~m_done /\ ~m_result_consumed
      /\ m_result = "empty" /\ thenRuns = 0 /\ ~m_next
      /\ UNCHANGED <<m_done, m_next, m_then, m_waiter, m_mutex, m_result, m_result_consumed,
                     joiner, thenRuns>>
    BY Zenon DEF TaskInv, ParentSound, ResultSound, ThenOnce, BeforeEnd, AfterDone, AwaitSuspend,
       waitVars
<1>1. parent' \in Awaiting /\ parent'.pc = "inline"
    BY Zenon, <1>0, ParentMoves DEF AwaitSuspend, ParentGoto
<1>2. \/ /\ task' = [pc |-> "running", inline |-> TRUE] /\ m_result_error' = FALSE
      \/ /\ task' = [pc |-> "done", inline |-> TRUE] /\ m_result_error' = TRUE
    <2>1. CASE bound
        BY Zenon, <2>1 DEF AwaitSuspend
    <2>2. CASE ~bound
        BY Zenon, <2>2 DEF AwaitSuspend
    <2> QED BY ZenonT(60), <2>1, <2>2
<1>3. /\ task' \in Running /\ task'.inline
      /\ \/ task'.pc = "running" /\ m_result_error' = FALSE
         \/ task'.pc = "done" /\ m_result_error' = TRUE
    <2>1. CASE task' = [pc |-> "running", inline |-> TRUE] /\ m_result_error' = FALSE
        BY Zenon, <2>1 DEF Running, Steps
    <2>2. CASE task' = [pc |-> "done", inline |-> TRUE] /\ m_result_error' = TRUE
        BY Zenon, <2>2 DEF Running, Steps
    <2> QED BY Zenon, <1>2, <2>1, <2>2
<1>4. TaskTypeOK'
    BY Zenon, <1>0, <1>1, <1>2, <1>3 DEF TaskTypeOK, Running, Steps, Awaiting, Outcomes
<1>5. ResultSound'
    <2>1. CASE task'.pc = "running" /\ m_result_error' = FALSE
        BY Zenon, <1>0, <2>1 DEF ResultSound, AfterDone, BeforeEnd
    <2>2. CASE task'.pc = "done" /\ m_result_error' = TRUE
        BY Zenon, <1>0, <2>2 DEF ResultSound, AfterDone, BeforeEnd
    <2> QED BY Zenon, <1>3, <2>1, <2>2
<1>6. ThenOnce' /\ OneValue'
    BY Zenon, <1>0 DEF TaskInv, ThenOnce, OneValue
<1>7. ParentSound'
    BY Zenon, <1>0, <1>1, <1>3 DEF ParentSound
<1>8. JoinersSound'
    BY Zenon, <1>0, <1>1 DEF TaskInv, JoinersSound
<1> QED BY Zenon, <1>4, <1>5, <1>6, <1>7, <1>8 DEF TaskInv

(* The other steps of the parent up to its resumption. *)
LEMMA ParentWaitsSound ==
    ASSUME TaskInv, AwaitCheck \/ AwaitPublish \/ ParentResumes
    PROVE  TaskInv'
<1>0. /\ TaskTypeOK /\ parent.pc \in {"check", "publish", "queued"} /\ task.pc # "new"
      /\ ~m_next /\ ~task.inline /\ ~m_result_consumed
      /\ UNCHANGED <<m_done, m_then, m_waiter, m_mutex, m_result, m_result_error,
                     m_result_consumed, task, joiner, thenRuns>>
    BY Zenon DEF TaskInv, ParentSound, AwaitCheck, AwaitPublish, ParentResumes, waitVars,
       resultVars
<1>1. /\ parent' \in Awaiting /\ m_next' \in BOOLEAN
      /\ parent'.pc \in {"resume", "publish", "suspended"}
      /\ parent'.pc = "resume" => m_done
      /\ m_next' => parent'.pc = "suspended"
    <2>1. CASE AwaitCheck
        <3>1. CASE m_done
            <4>1. parent' = [parent EXCEPT !.pc = "resume"] /\ m_next' = m_next
                BY Zenon, <2>1, <3>1 DEF AwaitCheck, ParentGoto
            <4>2. parent' \in Awaiting /\ parent'.pc = "resume"
                BY Zenon, <1>0, <4>1, ParentMoves
            <4> QED BY Zenon, <1>0, <3>1, <4>1, <4>2 DEF TaskTypeOK
        <3>2. CASE ~m_done
            <4>1. parent' = [parent EXCEPT !.pc = "publish"] /\ m_next' = m_next
                BY Zenon, <2>1, <3>2 DEF AwaitCheck, ParentGoto
            <4>2. parent' \in Awaiting /\ parent'.pc = "publish"
                BY Zenon, <1>0, <4>1, ParentMoves
            <4> QED BY Zenon, <1>0, <4>1, <4>2 DEF TaskTypeOK
        <3> QED BY Zenon, <3>1, <3>2
    <2>2. CASE AwaitPublish
        <3>1. parent' = [parent EXCEPT !.pc = "suspended"] /\ m_next' = TRUE
            BY Zenon, <2>2 DEF AwaitPublish, ParentGoto
        <3>2. parent' \in Awaiting /\ parent'.pc = "suspended"
            BY Zenon, <1>0, <3>1, ParentMoves
        <3> QED BY Zenon, <3>1, <3>2
    <2>3. CASE ParentResumes
        <3>1. m_done
            BY Zenon, <2>3 DEF ParentResumes, TaskInv, ResultSound, AfterDone
        <3>2. parent' = [parent EXCEPT !.pc = "resume"] /\ m_next' = m_next
            BY Zenon, <2>3 DEF ParentResumes, ParentGoto
        <3>3. parent' \in Awaiting /\ parent'.pc = "resume"
            BY Zenon, <1>0, <3>2, ParentMoves
        <3> QED BY Zenon, <1>0, <3>1, <3>2, <3>3 DEF TaskTypeOK
    <2> QED BY Zenon, <2>1, <2>2, <2>3
<1>2. TaskTypeOK'
    BY Zenon, <1>0, <1>1 DEF TaskTypeOK, Awaiting, Outcomes
<1>3. ResultSound' /\ ThenOnce' /\ OneValue'
    BY Zenon, <1>0 DEF TaskInv, ResultSound, ThenOnce, OneValue
<1>4. ParentSound'
    BY Zenon, <1>0, <1>1 DEF TaskInv, ParentSound
<1>5. JoinersSound'
    BY Zenon, <1>0, <1>1 DEF TaskInv, JoinersSound
<1> QED BY Zenon, <1>2, <1>3, <1>4, <1>5 DEF TaskInv

(* The parent gets the outcome. *)
LEMMA AwaitResumeSound ==
    ASSUME TaskInv, AwaitResume
    PROVE  TaskInv'
<1>0. /\ TaskTypeOK /\ ResultSound /\ parent.pc = "resume" /\ m_done /\ Take
      /\ ~m_result_consumed /\ ~m_next /\ ~task.inline /\ task.pc # "new"
      /\ parent' = [pc |-> "finished", got |-> Taken]
      /\ UNCHANGED <<m_done, m_next, m_then, m_waiter, m_mutex, task, joiner, thenRuns>>
    BY Zenon DEF TaskInv, ParentSound, AwaitResume, waitVars
<1>1. /\ Taken \in {"value", "error"} /\ Taken = IF m_result_error THEN "error" ELSE "value"
      /\ m_result' \in {"empty", "value", "taken"} /\ m_result_consumed' \in BOOLEAN
      /\ (m_result_consumed' <=> m_result' = "taken")
      /\ m_result_error' = m_result_error /\ (m_result_error <=> m_result' = "empty")
      /\ task.pc \in AfterDone /\ task.pc \notin BeforeEnd
    BY Zenon, <1>0, TakeSound
<1>2. parent' \in Awaiting /\ parent'.pc = "finished" /\ parent'.got = Taken
    BY Zenon, <1>0, <1>1 DEF Awaiting, Outcomes
<1>3. TaskTypeOK'
    BY Zenon, <1>0, <1>1, <1>2 DEF TaskTypeOK, Awaiting, Outcomes
<1>4. ResultSound' /\ ThenOnce' /\ OneValue'
    BY Zenon, <1>0, <1>1 DEF TaskInv, ResultSound, ThenOnce, OneValue
<1>5. ParentSound'
    BY Zenon, <1>0, <1>1, <1>2 DEF ParentSound
<1>6. JoinersSound'
    BY Zenon, <1>0, <1>1, <1>2 DEF TaskInv, JoinersSound
<1> QED BY Zenon, <1>3, <1>4, <1>5, <1>6 DEF TaskInv

(* The steps of a joining thread up to its turn to take the outcome. *)
LEMMA JoinWaitsSound ==
    ASSUME TaskInv, NEW j \in Joiner,
           JoinLoad(j) \/ EnsureWaiter(j) \/ JoinLock(j) \/ JoinTest(j) \/ JoinWakes(j)
    PROVE  TaskInv'
<1>0. /\ TaskTypeOK /\ joiner[j].pc \in {"load", "ensure", "lock", "test", "asleep"}
      /\ UNCHANGED <<m_done, m_next, m_then, m_result, m_result_error, m_result_consumed, task,
                     parent, thenRuns>>
      /\ m_waiter' \in BOOLEAN /\ m_mutex' \in Joiner \union {Nobody}
    BY ZenonT(60) DEF TaskInv, TaskTypeOK, JoinLoad, EnsureWaiter, JoinLock, JoinTest,
       JoinWakes, resultVars
<1>1. PICK l \in {"lock", "ensure", "test", "asleep", "take"} :
          JoinerGoto(j, l) /\ (l = "take" => m_done)
    <2>1. CASE JoinLoad(j) \/ JoinTest(j)
        BY Zenon, <2>1 DEF JoinLoad, JoinTest
    <2>2. CASE EnsureWaiter(j) \/ JoinLock(j) \/ JoinWakes(j)
        BY Zenon, <2>2 DEF EnsureWaiter, JoinLock, JoinWakes
    <2> QED BY Zenon, <2>1, <2>2
<1>2. /\ joiner' \in [Joiner -> Joining]
      /\ joiner'[j].pc = l /\ joiner'[j].join = joiner[j].join /\ joiner'[j].got = joiner[j].got
      /\ \A k \in Joiner : k # j => joiner'[k] = joiner[k]
    BY Zenon, <1>0, <1>1, JoinerMoves
<1>3. TaskTypeOK'
    <2>1. /\ m_done' \in BOOLEAN /\ m_next' \in BOOLEAN /\ m_then' \in BOOLEAN
          /\ m_waiter' \in BOOLEAN /\ m_mutex' \in Joiner \union {Nobody}
          /\ m_result' \in {"empty", "value", "taken"} /\ m_result_error' \in BOOLEAN
          /\ m_result_consumed' \in BOOLEAN /\ task' \in Running /\ parent' \in Awaiting
          /\ joiner' \in [Joiner -> Joining] /\ thenRuns' \in 0..1
        BY Zenon, <1>0, <1>2, TaskTypes
    <2> QED BY Zenon, <2>1 DEF TaskTypeOK, Running, Steps, Awaiting, Joining, Outcomes
<1>4. ResultSound' /\ ThenOnce' /\ ParentSound'
    BY Zenon, <1>0 DEF TaskInv, ResultSound, ThenOnce, ParentSound
<1>5. \A k \in Joiner : joiner'[k].got = joiner[k].got
    BY Zenon, <1>2
<1>6. OneValue'
    BY Zenon, <1>5 DEF TaskInv, OneValue
<1>7. JoinersSound'
    <2> SUFFICES ASSUME NEW k \in Joiner
                 PROVE  /\ parent'.pc # "none" => joiner'[k].pc = "none"
                        /\ joiner'[k].pc \in {"take", "finished"} => m_done'
                        /\ joiner'[k].got = "value" => m_result_consumed'
                        /\ joiner'[k].pc = "finished" /\ m_result_error' /\ joiner'[k].join
                              => joiner'[k].got = "error"
        BY Zenon DEF JoinersSound
    <2>1. CASE k = j
        BY Zenon, <1>0, <1>1, <1>2, <2>1 DEF TaskInv, JoinersSound
    <2>2. CASE k # j
        BY Zenon, <1>0, <1>2, <2>2 DEF TaskInv, JoinersSound
    <2> QED BY Zenon, <2>1, <2>2
<1> QED BY Zenon, <1>3, <1>4, <1>6, <1>7 DEF TaskInv

(* wait() returns, and join() takes the outcome: the value if nobody has. *)
LEMMA JoinTakeSound ==
    ASSUME TaskInv, NEW j \in Joiner, JoinTake(j)
    PROVE  TaskInv'
<1>0. /\ TaskTypeOK /\ ResultSound /\ joiner[j].pc = "take" /\ m_done /\ parent.pc = "none"
      /\ joiner \in [Joiner -> Joining] /\ joiner[j] \in Joining
      /\ UNCHANGED <<m_done, m_next, m_then, m_waiter, m_mutex, task, parent, thenRuns>>
    BY Zenon, TaskTypes DEF TaskInv, JoinersSound, JoinTake
<1>1. CASE ~joiner[j].join /\ JoinerGoto(j, "finished") /\ UNCHANGED resultVars
    <2>1. /\ joiner' \in [Joiner -> Joining] /\ joiner'[j].pc = "finished"
          /\ joiner'[j].join = joiner[j].join /\ joiner'[j].got = joiner[j].got
          /\ \A k \in Joiner : k # j => joiner'[k] = joiner[k]
        BY Zenon, <1>0, <1>1, JoinerMoves
    <2>2. UNCHANGED <<m_result, m_result_error, m_result_consumed>>
        BY Zenon, <1>1 DEF resultVars
    <2>3. TaskTypeOK'
        <3>1. /\ m_done' \in BOOLEAN /\ m_next' \in BOOLEAN /\ m_then' \in BOOLEAN
              /\ m_waiter' \in BOOLEAN /\ m_mutex' \in Joiner \union {Nobody}
              /\ m_result' \in {"empty", "value", "taken"} /\ m_result_error' \in BOOLEAN
              /\ m_result_consumed' \in BOOLEAN /\ task' \in Running /\ parent' \in Awaiting
              /\ joiner' \in [Joiner -> Joining] /\ thenRuns' \in 0..1
            BY Zenon, <1>0, <2>1, <2>2, TaskTypes
        <3> QED BY Zenon, <3>1 DEF TaskTypeOK, Running, Steps, Awaiting, Joining, Outcomes
    <2>4. ResultSound' /\ ThenOnce' /\ ParentSound'
        BY Zenon, <1>0, <2>2 DEF TaskInv, ResultSound, ThenOnce, ParentSound
    <2>5. \A k \in Joiner : joiner'[k].got = joiner[k].got /\ joiner'[k].join = joiner[k].join
        BY Zenon, <2>1
    <2>6. OneValue'
        BY Zenon, <2>5 DEF TaskInv, OneValue
    <2>7. JoinersSound'
        BY Zenon, <1>0, <1>1, <2>1, <2>2, <2>5 DEF TaskInv, JoinersSound
    <2> QED BY Zenon, <2>3, <2>4, <2>6, <2>7 DEF TaskInv
<1>2. CASE /\ joiner[j].join /\ Take
           /\ joiner' = [joiner EXCEPT ![j].pc = "finished", ![j].got = Taken]
    <2>1. /\ Taken \in {"value", "error", "consumed"}
          /\ Taken = "value" <=> ~m_result_error /\ ~m_result_consumed
          /\ Taken = "error" <=> m_result_error
          /\ Taken = "value" => m_result_consumed'
          /\ m_result_consumed => m_result_consumed'
          /\ m_result' \in {"empty", "value", "taken"} /\ m_result_consumed' \in BOOLEAN
          /\ (m_result_consumed' <=> m_result' = "taken")
          /\ m_result_error' = m_result_error /\ (m_result_error <=> m_result' = "empty")
          /\ task.pc \in AfterDone /\ task.pc \notin BeforeEnd
        BY Zenon, <1>0, <1>2, TakeSound
    <2> DEFINE r == [joiner[j] EXCEPT !.pc = "finished", !.got = Taken]
    <2>2. joiner' = [joiner EXCEPT ![j] = r]
        BY Zenon, <1>0, <1>2
    <2>3. r \in Joining /\ r.pc = "finished" /\ r.join = joiner[j].join /\ r.got = Taken
        BY ZenonT(60), <1>0, <2>1 DEF Joining, Outcomes
    <2> HIDE DEF r
    <2>4. /\ joiner' \in [Joiner -> Joining] /\ joiner'[j].pc = "finished"
          /\ joiner'[j].join = joiner[j].join /\ joiner'[j].got = Taken
          /\ \A k \in Joiner : k # j => joiner'[k] = joiner[k]
        BY Zenon, <1>0, <2>2, <2>3
    <2>5. TaskTypeOK'
        <3>1. /\ m_done' \in BOOLEAN /\ m_next' \in BOOLEAN /\ m_then' \in BOOLEAN
              /\ m_waiter' \in BOOLEAN /\ m_mutex' \in Joiner \union {Nobody}
              /\ m_result' \in {"empty", "value", "taken"} /\ m_result_error' \in BOOLEAN
              /\ m_result_consumed' \in BOOLEAN /\ task' \in Running /\ parent' \in Awaiting
              /\ joiner' \in [Joiner -> Joining] /\ thenRuns' \in 0..1
            BY Zenon, <1>0, <2>1, <2>4, TaskTypes
        <3> QED BY Zenon, <3>1 DEF TaskTypeOK, Running, Steps, Awaiting, Joining, Outcomes
    <2>6. ResultSound' /\ ThenOnce' /\ ParentSound'
        BY Zenon, <1>0, <2>1 DEF TaskInv, ResultSound, ThenOnce, ParentSound
    <2>7. Taken = "value" => \A k \in Joiner : joiner[k].got # "value"
        BY Zenon, <2>1 DEF TaskInv, JoinersSound
    <2>8. OneValue'
        BY Zenon, <2>4, <2>7 DEF TaskInv, OneValue
    <2>9. JoinersSound'
        BY Zenon, <1>0, <2>1, <2>4 DEF TaskInv, JoinersSound
    <2> QED BY Zenon, <2>5, <2>6, <2>8, <2>9 DEF TaskInv
<1> QED BY Zenon, <1>1, <1>2 DEF JoinTake

(* A task that nobody has resumed yet. *)
LEMMA TaskInitSound == TaskInit => TaskInv
<1> SUFFICES ASSUME TaskInit PROVE TaskInv
    OBVIOUS
<1>1. /\ parent \in Awaiting /\ parent.pc \in {"none", "ready"}
      /\ task \in Running /\ task.inline = FALSE
      /\ (task.pc = "new" <=> parent.pc = "ready") /\ task.pc \in {"new", "queued"}
    <2>1. parent \in Awaiting /\ parent.pc \in {"none", "ready"}
        BY Zenon DEF TaskInit, Awaiting, Outcomes
    <2>2. task = [pc |-> IF parent.pc # "none" THEN "new" ELSE "queued", inline |-> FALSE]
        BY Zenon DEF TaskInit, Awaited
    <2> QED BY Zenon, <2>1, <2>2 DEF Running, Steps
<1>2. /\ joiner \in [Joiner -> Joining]
      /\ \A j \in Joiner : /\ joiner[j].got = "nothing" /\ joiner[j].pc \in {"none", "load"}
                           /\ parent.pc # "none" => joiner[j].pc = "none"
    <2> DEFINE R == {[pc |-> IF Awaited THEN "none" ELSE "load", join |-> j,
                      got |-> "nothing"] : j \in {b \in BOOLEAN : Awaited => ~b}}
    <2>1. joiner \in [Joiner -> R]
        BY Zenon DEF TaskInit
    <2>2. ASSUME NEW r \in R
          PROVE  /\ r \in Joining /\ r.got = "nothing" /\ r.pc \in {"none", "load"}
                 /\ parent.pc # "none" => r.pc = "none"
        <3>1. PICK b \in BOOLEAN : r = [pc |-> IF Awaited THEN "none" ELSE "load", join |-> b,
                                        got |-> "nothing"]
            BY Zenon
        <3> QED BY Zenon, <3>1 DEF Joining, Outcomes, Awaited
    <2> HIDE DEF R
    <2>3. \A j \in Joiner : joiner[j] \in R
        BY Zenon, <2>1
    <2>4. joiner \in [Joiner -> Joining]
        BY Zenon, <2>1, <2>2
    <2> QED BY Zenon, <2>2, <2>3, <2>4
<1>3. /\ m_done = FALSE /\ m_next = FALSE /\ m_then \in BOOLEAN /\ m_waiter = FALSE
      /\ m_mutex = Nobody /\ m_result = "empty" /\ m_result_error = FALSE
      /\ m_result_consumed = FALSE /\ thenRuns = 0
    BY Zenon DEF TaskInit
<1>4. TaskTypeOK
    <2>1. thenRuns \in 0..1
        BY <1>3
    <2> QED BY Zenon, <1>1, <1>2, <1>3, <2>1, TaskTypes
<1>5. ResultSound /\ ThenOnce
    BY Zenon, <1>1, <1>3 DEF ResultSound, ThenOnce, BeforeEnd, AfterDone
<1>6. ParentSound
    BY Zenon, <1>1, <1>3 DEF ParentSound
<1>7. JoinersSound /\ OneValue
    BY Zenon, <1>2, <1>3 DEF JoinersSound, OneValue
<1> QED BY Zenon, <1>4, <1>5, <1>6, <1>7 DEF TaskInv

(* Every step of the task, its parent and the joining threads keeps the invariant. *)
LEMMA TaskNextSound == TaskInv /\ [TaskNext]_taskVars => TaskInv'
<1> SUFFICES ASSUME TaskInv, [TaskNext]_taskVars PROVE TaskInv'
    OBVIOUS
<1>1. CASE TaskStep \/ TaskSuspends
    BY Zenon, <1>1, TaskRunsSound, CompletionSound, RunNextSound DEF TaskStep
<1>2. CASE ParentStep
    BY Zenon, <1>2, AwaitSuspendSound, ParentWaitsSound, AwaitResumeSound DEF ParentStep
<1>3. CASE \E j \in Joiner : JoinStep(j) \/ JoinWakes(j)
    BY Zenon, <1>3, JoinWaitsSound, JoinTakeSound DEF JoinStep
<1>4. CASE UNCHANGED taskVars
    <2>1. TaskTypeOK'
        <3>1. TaskTypeOK
            BY Zenon DEF TaskInv
        <3> QED BY <1>4, <3>1 DEF taskVars, TaskTypeOK
    <2> QED BY Zenon, <1>4, <2>1 DEF taskVars, TaskInv, ResultSound, ThenOnce, ParentSound,
               JoinersSound, OneValue
<1> QED BY Zenon, <1>1, <1>2, <1>3, <1>4 DEF TaskNext, TaskTerminated

(* Of all joins of a task at most one gets its value, and with an error each gets the
   error; none returns before the task is done, and a co_await gets the task's outcome
   without blocking, stolen or not. *)
THEOREM TaskCorrect == TaskSpec => []OutcomeTakenOnce
<1>1. TaskInv => OutcomeTakenOnce
    <2> SUFFICES ASSUME TaskInv PROVE OutcomeTakenOnce
        OBVIOUS
    <2>1. \A j \in Joiner : joiner[j].pc = "finished" =>
            /\ m_done
            /\ m_result_error /\ joiner[j].join => joiner[j].got = "error"
        BY Zenon DEF TaskInv, JoinersSound
    <2>2. /\ parent.pc = "resume" => m_done
          /\ parent.pc = "finished" => parent.got = IF m_result_error THEN "error" ELSE "value"
        BY Zenon DEF TaskInv, ParentSound
    <2> QED BY Zenon, <2>1, <2>2 DEF TaskInv, OneValue, OutcomeTakenOnce
<1> QED BY <1>1, TaskInitSound, TaskNextSound, PTL DEF TaskSpec

-----------------------------------------------------------------------------
(* The pool for blocking tasks *)

INSTANCE FiniteSetTheorems

(* The counters are exact, and count finite sets. *)
Counted ==
    /\ IsFiniteSet(Live) /\ IsFiniteSet(Starting) /\ IsFiniteSet(Idle)
    /\ CountersExact

(* A thread is started for a task once, after submit has counted it. *)
NotStarted == \A t \in Task : caller[t] \in {"new", "spawn"} => worker[t] = "none"

(* A queued task has somebody who will look at the queue. *)
Attended ==
    m_tasks # <<>> => \/ Starting # {}
                      \/ \E w \in Live : worker[w] # "waiting"
                      \/ \E t \in Task : caller[t] = "notify" /\ Idle # {}

(* The destructor is through only when it has seen no worker left. *)
Destroyed == /\ destructor # "alive" => m_stopping
             /\ destructor = "done" => m_workerCount = 0

IInv == Counted /\ NotStarted /\ Attended /\ Destroyed

-----------------------------------------------------------------------------
(* A count is 0 exactly when nobody is counted. *)
LEMMA Sizes ==
    ASSUME IInv
    PROVE  /\ Cardinality(Live) \in Nat /\ Cardinality(Starting) \in Nat
           /\ Cardinality(Idle) \in Nat
           /\ Cardinality(Live) = 0 <=> Live = {}
           /\ Cardinality(Starting) = 0 <=> Starting = {}
           /\ Cardinality(Idle) = 0 <=> Idle = {}
BY Zenon, FS_CardinalityType, FS_EmptySet DEF IInv, Counted

(* What a step that moves no one between the counted sets keeps. *)
LEMMA SameCounts ==
    ASSUME IInv, TypeOK', Live' = Live, Starting' = Starting, Idle' = Idle,
           UNCHANGED <<m_workerCount, m_idleWorkers>>
    PROVE  Counted'
BY Zenon DEF IInv, Counted, CountersExact

(* One element more, one element less. *)
LEMMA AddOne ==
    ASSUME NEW S, NEW x, IsFiniteSet(S), x \notin S
    PROVE  IsFiniteSet(S \union {x}) /\ Cardinality(S \union {x}) = Cardinality(S) + 1
BY Zenon, FS_AddElement

(* The counterpart of AddOne. *)
LEMMA RemoveOne ==
    ASSUME NEW S, NEW x, IsFiniteSet(S), x \in S
    PROVE  /\ IsFiniteSet(S \ {x}) /\ Cardinality(S \ {x}) = Cardinality(S) - 1
           /\ Cardinality(S) \in Nat \ {0}
<1>1. Cardinality(S) \in Nat /\ Cardinality(S) # 0
    BY Zenon, FS_CardinalityType, FS_EmptySet
<1> QED BY Zenon, <1>1, FS_RemoveElement

-----------------------------------------------------------------------------
(* submit: the critical section. *)
LEMMA SubmitSound == ASSUME IInv, NEW t \in Task, Submit(t) PROVE IInv'
<1> USE DEF IInv
<1>1. TypeOK /\ worker[t] = "none" /\ caller[t] = "new"
    BY Zenon DEF Counted, CountersExact, NotStarted, Submit
<1>2. Live' = Live /\ Idle' = Idle
    BY Zenon DEF Submit, Live, Idle
<1>3. Destroyed'
    BY Zenon DEF Submit, QueueForIdle, CountWorker, QueueAtLimit, Destroyed
<1>4. CASE m_stopping
    <2>1. /\ caller' = [caller EXCEPT ![t] = "rejected"]
          /\ UNCHANGED <<m_tasks, m_workerCount, m_idleWorkers, worker>>
        BY Zenon, <1>4 DEF Submit
    <2>2. Starting' = Starting
        BY Zenon, <1>1, <2>1 DEF Starting, TypeOK
    <2>3. TypeOK'
        BY Zenon, <1>1, <2>1 DEF Submit, TypeOK, CallerPc
    <2>4. NotStarted'
        BY Zenon, <1>1, <2>1 DEF NotStarted, TypeOK
    <2>5. Attended'
        BY Zenon, <1>1, <1>2, <2>1, <2>2 DEF Attended, TypeOK
    <2> QED BY Zenon, <1>2, <1>3, <2>1, <2>2, <2>3, <2>4, <2>5, SameCounts
<1>5. CASE QueueForIdle(t) /\ ~m_stopping
    <2>2. Starting' = Starting
        BY Zenon, <1>1, <1>5 DEF Starting, TypeOK, QueueForIdle
    <2>3. TypeOK'
        BY <1>1, <1>5 DEF Submit, TypeOK, CallerPc, QueueForIdle
    <2>4. NotStarted'
        BY Zenon, <1>1, <1>5 DEF NotStarted, TypeOK, QueueForIdle, Submit
    <2>5. Idle # {}
        BY <1>5, Sizes DEF QueueForIdle, Counted, CountersExact
    <2>6. Attended'
        BY Zenon, <1>1, <1>2, <1>5, <2>5 DEF Attended, TypeOK, QueueForIdle
    <2> QED BY Zenon, <1>2, <1>3, <1>5, <2>2, <2>3, <2>4, <2>6, SameCounts DEF Submit, QueueForIdle
<1>6. CASE CountWorker(t) /\ ~m_stopping
    <2>1. Starting' = Starting \union {t} /\ t \notin Starting
        BY Zenon, <1>1, <1>6 DEF Starting, TypeOK, CountWorker
    <2>2. TypeOK'
        BY <1>1, <1>6 DEF Submit, TypeOK, CallerPc, CountWorker
    <2>3. NotStarted'
        BY Zenon, <1>1, <1>6 DEF NotStarted, TypeOK, CountWorker, Submit
    <2>4. Attended'
        BY Zenon, <2>1 DEF Attended
    <2>5. IsFiniteSet(Starting') /\ Cardinality(Starting') = Cardinality(Starting) + 1
        BY Zenon, <2>1, AddOne DEF Counted
    <2>6. m_workerCount' = m_workerCount + 1 /\ m_workerCount < MaxWorkers
          /\ UNCHANGED m_idleWorkers
        BY Zenon, <1>6 DEF CountWorker, Submit
    <2>7. /\ m_workerCount' = Cardinality(Live) + Cardinality(Starting')
          /\ m_workerCount' <= MaxWorkers
        BY SMTT(60), <1>1, <2>5, <2>6, Sizes, PoolAssumption DEF Counted, CountersExact, TypeOK
    <2>8. Counted'
        BY Zenon, <1>2, <2>2, <2>5, <2>6, <2>7 DEF Counted, CountersExact
    <2> QED BY Zenon, <1>3, <2>3, <2>4, <2>8
<1>7. CASE QueueAtLimit(t) /\ ~m_stopping
    <2>2. Starting' = Starting
        BY Zenon, <1>1, <1>7 DEF Starting, TypeOK, QueueAtLimit
    <2>3. TypeOK'
        BY <1>1, <1>7 DEF Submit, TypeOK, CallerPc, QueueAtLimit
    <2>4. NotStarted'
        BY Zenon, <1>1, <1>7 DEF NotStarted, TypeOK, QueueAtLimit, Submit
    <2>5. Idle = {} /\ (Live # {} \/ Starting # {})
        BY <1>7, Sizes, PoolAssumption DEF QueueAtLimit, Counted, CountersExact
    <2>6. Attended'
        <3>1. \A w \in Live : worker[w] # "waiting"
            BY Zenon, <2>5 DEF Live, Idle, Blocked
        <3> QED BY Zenon, <1>2, <2>2, <2>5, <3>1 DEF Attended, Submit
    <2> QED BY Zenon, <1>2, <1>3, <1>7, <2>2, <2>3, <2>4, <2>6, SameCounts DEF Submit, QueueAtLimit
<1> QED BY Zenon, <1>4, <1>5, <1>6, <1>7 DEF Submit

(* submit: notify_one. *)
LEMMA NotifyOneSound == ASSUME IInv, NEW t \in Task, NotifyOne(t) PROVE IInv'
<1> USE DEF IInv
<1>1. TypeOK
    BY Zenon DEF Counted, CountersExact
<1>2. \/ /\ UNCHANGED worker
         /\ \A w \in Task : worker[w] # "waiting"
      \/ \E w \in Task : worker[w] = "waiting" /\ worker' = [worker EXCEPT ![w] = "notified"]
    BY Zenon DEF NotifyOne
<1>3. TypeOK'
    BY Zenon, <1>1, <1>2 DEF NotifyOne, TypeOK, CallerPc, WorkerPc, Blocked
<1>4. Live' = Live /\ Idle' = Idle
    BY Zenon, <1>1, <1>2 DEF Live, Idle, Blocked, TypeOK
<1>5. Starting' = Starting
    BY Zenon, <1>1 DEF NotifyOne, Starting, TypeOK
<1>6. NotStarted'
    BY Zenon, <1>1, <1>2 DEF NotifyOne, NotStarted, TypeOK
<1>7. Attended'
    <2>1. CASE UNCHANGED worker /\ \A w \in Task : worker[w] # "waiting"
        <3>1. Idle # {} => \E w \in Live : worker[w] # "waiting"
            BY Zenon, <2>1 DEF Idle, Live, Blocked
        <3> QED BY Zenon, <1>4, <1>5, <2>1, <3>1 DEF Attended, NotifyOne
    <2>2. ASSUME NEW w \in Task, worker[w] = "waiting",
                 worker' = [worker EXCEPT ![w] = "notified"]
          PROVE  Attended'
        BY Zenon, <1>1, <1>4, <2>2 DEF Attended, TypeOK, Live
    <2> QED BY Zenon, <1>2, <2>1, <2>2
<1>8. Destroyed'
    BY Zenon DEF NotifyOne, Destroyed
<1> QED BY Zenon, <1>3, <1>4, <1>5, <1>6, <1>7, <1>8, SameCounts DEF NotifyOne

(* submit: the thread starts that was counted before. *)
LEMMA StartWorkerSound == ASSUME IInv, NEW t \in Task, StartWorker(t) PROVE IInv'
<1> USE DEF IInv
<1>1. TypeOK /\ worker[t] = "none" /\ caller[t] = "spawn"
    BY Zenon DEF Counted, CountersExact, NotStarted, StartWorker
<1>2. TypeOK'
    BY Zenon, <1>1 DEF StartWorker, TypeOK, CallerPc, WorkerPc
<1>3. Live' = Live \union {t} /\ t \notin Live
    BY Zenon, <1>1 DEF StartWorker, Live, TypeOK
<1>4. Starting' = Starting \ {t} /\ t \in Starting
    BY Zenon, <1>1 DEF StartWorker, Starting, TypeOK
<1>5. Idle' = Idle
    BY Zenon, <1>1 DEF StartWorker, Idle, Blocked, TypeOK
<1>6. IsFiniteSet(Live') /\ Cardinality(Live') = Cardinality(Live) + 1
    BY Zenon, <1>3, AddOne DEF Counted
<1>7. /\ IsFiniteSet(Starting') /\ Cardinality(Starting') = Cardinality(Starting) - 1
    BY Zenon, <1>4, RemoveOne DEF Counted
<1>8. m_workerCount = Cardinality(Live') + Cardinality(Starting')
    BY <1>6, <1>7, Sizes DEF Counted, CountersExact
<1>9. Counted'
    BY Zenon, <1>2, <1>5, <1>6, <1>7, <1>8 DEF Counted, CountersExact, StartWorker
<1>10. NotStarted'
    BY Zenon, <1>1 DEF StartWorker, NotStarted, TypeOK
<1>11. Attended'
    BY Zenon, <1>1, <1>3 DEF StartWorker, Attended, TypeOK
<1>12. Destroyed'
    BY Zenon DEF StartWorker, Destroyed
<1> QED BY Zenon, <1>9, <1>10, <1>11, <1>12

(* workerLoop: a worker that leaves the pool, idle or not. *)
LEMMA RetireSound ==
    ASSUME IInv, NEW w \in Task, worker[w] \in {"relock", "notified", "timedOut"},
           m_tasks = <<>>, retireWorkerLocked(w),
           m_idleWorkers' = IF w \in Idle THEN m_idleWorkers - 1 ELSE m_idleWorkers,
           UNCHANGED <<m_tasks, m_stopping, caller, holding, canTimeOut, finished>>
    PROVE  IInv'
<1> USE DEF IInv
<1>1. TypeOK /\ worker' = [worker EXCEPT ![w] = "exited"]
    BY Zenon DEF Counted, CountersExact, retireWorkerLocked
<1>2. Live' = Live \ {w} /\ w \in Live
    BY Zenon, <1>1 DEF Live, TypeOK
<1>3. Idle' = Idle \ {w}
    BY Zenon, <1>1 DEF Idle, Blocked, TypeOK
<1>4. Starting' = Starting
    BY Zenon DEF Starting
<1>5. /\ IsFiniteSet(Live') /\ Cardinality(Live') = Cardinality(Live) - 1
      /\ Cardinality(Live) \in Nat \ {0}
    BY Zenon, <1>2, RemoveOne DEF Counted
<1>6. IsFiniteSet(Idle') /\ m_idleWorkers' = Cardinality(Idle') /\ m_idleWorkers' \in Nat
    <2>1. CASE w \in Idle
        <3>1. /\ IsFiniteSet(Idle') /\ Cardinality(Idle') = Cardinality(Idle) - 1
              /\ Cardinality(Idle) \in Nat \ {0}
            BY Zenon, <1>3, <2>1, RemoveOne DEF Counted
        <3> QED BY <2>1, <3>1 DEF Counted, CountersExact
    <2>2. CASE w \notin Idle
        <3>1. Idle' = Idle
            BY Zenon, <1>3, <2>2
        <3> QED BY Zenon, <2>2, <3>1, Sizes DEF Counted, CountersExact
    <2> QED BY Zenon, <2>1, <2>2
<1>7. /\ m_workerCount' = Cardinality(Live') + Cardinality(Starting)
      /\ m_workerCount' \in Nat /\ m_workerCount' <= MaxWorkers /\ m_workerCount # 0
    BY SMTT(60), <1>5, Sizes, PoolAssumption DEF Counted, CountersExact, retireWorkerLocked
<1>8. TypeOK'
    BY Zenon, <1>1, <1>6, <1>7 DEF TypeOK, WorkerPc, retireWorkerLocked
<1>9. Counted'
    BY Zenon, <1>4, <1>5, <1>6, <1>7, <1>8 DEF Counted, CountersExact
<1>10. NotStarted'
    BY Zenon, <1>1 DEF NotStarted, TypeOK
<1>11. Attended'
    BY SMTT(60) DEF Attended
<1>12. Destroyed'
    BY Zenon, <1>7 DEF Destroyed, retireWorkerLocked
<1> QED BY Zenon, <1>9, <1>10, <1>11, <1>12

(* workerLoop: from the head of the loop to the next release of the mutex. *)
LEMMA LoopHeadSound ==
    ASSUME IInv, NEW w \in Task, worker[w] \in {"relock", "notified", "timedOut"},
           LoopHead(w, IF w \in Idle THEN m_idleWorkers - 1 ELSE m_idleWorkers),
           UNCHANGED <<m_stopping, caller, finished>>
    PROVE  IInv'
<1> USE DEF IInv
<1> DEFINE idle == IF w \in Idle THEN m_idleWorkers - 1 ELSE m_idleWorkers
<1>1. TypeOK /\ w \in Live /\ Starting' = Starting
    BY Zenon DEF Counted, CountersExact, Live, Starting
<1>2. /\ IsFiniteSet(Idle \ {w}) /\ idle = Cardinality(Idle \ {w}) /\ idle \in Nat
    <2>1. CASE w \in Idle
        <3>1. /\ IsFiniteSet(Idle \ {w}) /\ Cardinality(Idle \ {w}) = Cardinality(Idle) - 1
              /\ Cardinality(Idle) \in Nat \ {0}
            BY Zenon, <2>1, RemoveOne DEF Counted
        <3> QED BY <2>1, <3>1 DEF Counted, CountersExact
    <2>2. CASE w \notin Idle
        <3>1. Idle \ {w} = Idle
            BY Zenon, <2>2
        <3> QED BY Zenon, <2>2, <3>1, Sizes DEF Counted, CountersExact
    <2> QED BY Zenon, <2>1, <2>2
<1>3. ASSUME m_idleWorkers' = Cardinality(Idle'), IsFiniteSet(Idle'), TypeOK', Live' = Live,
             UNCHANGED m_workerCount
      PROVE  Counted'
    BY Zenon, <1>1, <1>3 DEF Counted, CountersExact
<1>4. CASE EnterWait(w, idle)
    <2>1. worker' = [worker EXCEPT ![w] = "waiting"] /\ m_idleWorkers' = idle + 1 /\ m_tasks = <<>>
        BY Zenon, <1>4 DEF EnterWait, Ready
    <2>2. Live' = Live /\ Idle' = (Idle \ {w}) \union {w}
        BY Zenon, <1>1, <2>1 DEF Live, Idle, Blocked, TypeOK
    <2>3. IsFiniteSet(Idle') /\ Cardinality(Idle') = Cardinality(Idle \ {w}) + 1
        BY Zenon, <1>2, <2>2, AddOne
    <2>4. m_idleWorkers' \in Nat /\ m_idleWorkers' = Cardinality(Idle')
        BY <1>2, <2>1, <2>3
    <2>5. canTimeOut' \in [Task -> BOOLEAN]
        <3>1. (m_workerCount > MinWorkers) \in BOOLEAN
            OBVIOUS
        <3> QED BY Zenon, <1>1, <1>4, <3>1 DEF EnterWait, TypeOK
    <2>6. TypeOK'
        BY Zenon, <1>1, <1>4, <2>1, <2>4, <2>5 DEF EnterWait, TypeOK, WorkerPc, Blocked
    <2>7. Counted'
        BY Zenon, <1>3, <1>4, <2>2, <2>3, <2>4, <2>6 DEF EnterWait
    <2>8. NotStarted' /\ Attended' /\ Destroyed'
        BY Zenon, <1>1, <1>4, <2>1 DEF NotStarted, Attended, Destroyed, EnterWait, TypeOK
    <2> QED BY Zenon, <2>7, <2>8
<1>5. CASE RetireStopped(w, idle)
    BY Zenon, <1>5, RetireSound DEF RetireStopped
<1>6. CASE TakeTask(w, idle)
    <2>1. worker' = [worker EXCEPT ![w] = "run"] /\ m_idleWorkers' = idle
        BY Zenon, <1>6 DEF TakeTask
    <2>2. Live' = Live /\ Idle' = Idle \ {w}
        BY Zenon, <1>1, <2>1 DEF Live, Idle, Blocked, TypeOK
    <2>3. m_tasks' \in Seq(Task) /\ Head(m_tasks) \in Task
        BY <1>1, <1>6 DEF TakeTask, TypeOK
    <2>4. holding' \in [Task -> SUBSET Task]
        BY Zenon, <1>1, <1>6, <2>3 DEF TakeTask, TypeOK
    <2>5. TypeOK'
        BY <1>1, <1>2, <1>6, <2>1, <2>3, <2>4 DEF TakeTask, TypeOK, WorkerPc
    <2>6. Counted'
        BY Zenon, <1>2, <1>3, <1>6, <2>1, <2>2, <2>5 DEF TakeTask
    <2>7. NotStarted' /\ Attended' /\ Destroyed'
        BY Zenon, <1>1, <1>6, <2>1, <2>2 DEF NotStarted, Attended, Destroyed, TakeTask, TypeOK
    <2> QED BY Zenon, <2>6, <2>7
<1> QED BY Zenon, <1>4, <1>5, <1>6 DEF LoopHead

(* workerLoop: a worker goes on, leaves the condition variable or waits again. *)
LEMMA WorkerMoves ==
    ASSUME IInv, NEW w \in Task, NEW l \in {"relock", "notified", "timedOut", "waiting"},
           worker' = [worker EXCEPT ![w] = l],
           worker[w] \in (IF l = "relock" THEN {"run"} ELSE Blocked),
           l = "waiting" => m_tasks = <<>>, TypeOK',
           UNCHANGED <<m_tasks, m_workerCount, m_idleWorkers, m_stopping, caller, destructor>>
    PROVE  IInv'
<1> USE DEF IInv
<1>1. TypeOK
    BY Zenon DEF Counted, CountersExact
<1>2. Live' = Live /\ Idle' = Idle /\ Starting' = Starting /\ w \in Live
    BY Zenon, <1>1 DEF Live, Idle, Starting, Blocked, TypeOK
<1>3. NotStarted'
    BY Zenon, <1>1, <1>2 DEF NotStarted, TypeOK, Live
<1>4. Attended'
    <2>1. CASE l = "waiting"
        BY Zenon, <2>1 DEF Attended
    <2>2. CASE l # "waiting"
        BY Zenon, <1>1, <1>2, <2>2 DEF Attended, TypeOK
    <2> QED BY Zenon, <2>1, <2>2
<1>5. Destroyed'
    BY Zenon DEF Destroyed
<1> QED BY Zenon, <1>2, <1>3, <1>4, <1>5, SameCounts

(* workerLoop, and the condition variable it waits on. *)
LEMMA WorkerSound ==
    ASSUME IInv, NEW w \in Task, WorkerStep(w) \/ KeepAliveTimer(w) \/ SpuriousWake(w)
    PROVE  IInv'
<1>0. TypeOK
    BY Zenon DEF IInv, Counted, CountersExact
<1>1. CASE RunTask(w)
    <2>1. TypeOK'
        BY Zenon, <1>0, <1>1 DEF RunTask, TypeOK, WorkerPc
    <2> QED BY Zenon, <1>1, <2>1, WorkerMoves DEF RunTask
<1>2. CASE Relock(w)
    <2>1. w \notin Idle
        BY Zenon, <1>2 DEF Relock, Idle, Blocked
    <2> QED BY Zenon, <1>2, <2>1, LoopHeadSound DEF Relock
<1>3. CASE WakeUp(w)
    <2>1. w \in Idle
        BY Zenon, <1>3 DEF WakeUp, Idle, Blocked
    <2>2. CASE ~Ready /\ worker' = [worker EXCEPT ![w] = "waiting"]
        <3>1. TypeOK'
            BY Zenon, <1>0, <1>3, <2>2 DEF WakeUp, TypeOK, WorkerPc, Blocked
        <3> QED BY ZenonT(60), <1>3, <2>2, <3>1, WorkerMoves DEF WakeUp, Ready, Blocked
    <2>3. CASE Ready
        BY Zenon, <1>3, <2>1, <2>3, LoopHeadSound DEF WakeUp
    <2> QED BY Zenon, <1>3, <2>2, <2>3 DEF WakeUp
<1>4. CASE KeepAliveExpired(w)
    <2>1. w \in Idle
        BY Zenon, <1>4 DEF KeepAliveExpired, Idle, Blocked
    <2>2. CASE LoopHead(w, m_idleWorkers - 1)
        BY Zenon, <1>4, <2>1, <2>2, LoopHeadSound DEF KeepAliveExpired
    <2>3. CASE ~LoopHead(w, m_idleWorkers - 1)
        BY Zenon, <1>4, <2>1, <2>3, RetireSound DEF KeepAliveExpired, Ready
    <2> QED BY Zenon, <2>2, <2>3
<1>5. ASSUME NEW l \in {"notified", "timedOut"}, LeaveCv(w, l) PROVE IInv'
    <2>1. TypeOK'
        BY Zenon, <1>0, <1>5 DEF LeaveCv, TypeOK, WorkerPc, Blocked
    <2> QED BY Zenon, <1>5, <2>1, WorkerMoves DEF LeaveCv, Blocked
<1> QED BY Zenon, <1>1, <1>2, <1>3, <1>4, <1>5 DEF WorkerStep, KeepAliveTimer, SpuriousWake

(* ~BlockingExecutor. *)
LEMMA DestroySound ==
    ASSUME IInv, Destroy \/ DestructorSpuriousWake \/ DestructorWakes PROVE IInv'
<1> USE DEF IInv
<1>1. TypeOK
    BY Zenon DEF Counted, CountersExact
<1>2. CASE Destroy
    <2>1. TypeOK'
        BY Zenon, <1>1, <1>2 DEF Destroy, TypeOK, WorkerPc, Blocked
    <2>2. \A w \in Task : worker'[w] = IF worker[w] = "waiting" THEN "notified" ELSE worker[w]
        BY Zenon, <1>2 DEF Destroy
    <2>3. Live' = Live /\ Idle' = Idle /\ Starting' = Starting
        BY Zenon, <1>2, <2>2 DEF Destroy, Live, Idle, Starting, Blocked
    <2>4. NotStarted'
        BY Zenon, <1>2, <2>2 DEF Destroy, NotStarted
    <2>5. Attended'
        <3>1. \A w \in Live' : worker'[w] # "waiting"
            BY Zenon, <2>2 DEF Live
        <3>2. Idle \subseteq Live
            BY Zenon DEF Idle, Live, Blocked
        <3> QED BY Zenon, <1>2, <2>3, <3>1, <3>2 DEF Destroy, Attended
    <2>6. Destroyed'
        BY Zenon, <1>2 DEF Destroy, Destroyed
    <2> QED BY Zenon, <1>2, <2>1, <2>3, <2>4, <2>5, <2>6, SameCounts DEF Destroy
<1>3. CASE DestructorSpuriousWake \/ DestructorWakes
    <2>1. UNCHANGED <<m_tasks, m_workerCount, m_idleWorkers, m_stopping, caller, worker,
                      holding, canTimeOut, finished>>
        BY Zenon, <1>3 DEF DestructorSpuriousWake, DestructorWakes
    <2>2. TypeOK'
        BY Zenon, <1>1, <1>3, <2>1 DEF DestructorSpuriousWake, DestructorWakes, TypeOK
    <2>3. Live' = Live /\ Idle' = Idle /\ Starting' = Starting
        BY Zenon, <2>1 DEF Live, Idle, Starting
    <2>4. NotStarted' /\ Attended'
        BY Zenon, <2>1, <2>3 DEF NotStarted, Attended
    <2>5. Destroyed'
        BY Zenon, <1>3 DEF DestructorSpuriousWake, DestructorWakes, Destroyed
    <2> QED BY Zenon, <2>1, <2>2, <2>3, <2>4, <2>5, SameCounts
<1> QED BY Zenon, <1>2, <1>3

-----------------------------------------------------------------------------
(* The new pool satisfies the invariant. *)
LEMMA InitSound == Init => IInv
<1> SUFFICES ASSUME Init PROVE IInv
    OBVIOUS
<1>1. Live = {} /\ Starting = {} /\ Idle = {}
    BY Zenon DEF Init, Live, Starting, Idle, Blocked
<1>2. TypeOK
    <2>1. holding \in [Task -> SUBSET Task] /\ canTimeOut \in [Task -> BOOLEAN]
        BY Zenon DEF Init
    <2>2. caller \in [Task -> CallerPc] /\ worker \in [Task -> WorkerPc]
        BY Zenon DEF Init, CallerPc, WorkerPc
    <2>3. m_tasks \in Seq(Task) /\ m_workerCount \in Nat /\ m_idleWorkers \in Nat
        BY DEF Init
    <2>4. m_stopping \in BOOLEAN /\ finished \in SUBSET Task
        BY Zenon DEF Init
    <2>5. destructor \in {"alive", "blocked", "woken", "done"}
        BY Zenon DEF Init
    <2> QED BY Zenon, <2>1, <2>2, <2>3, <2>4, <2>5 DEF TypeOK
<1>3. IsFiniteSet({}) /\ Cardinality({}) = 0
    BY Zenon, FS_EmptySet
<1>4. Counted
    BY <1>1, <1>2, <1>3, PoolAssumption DEF Init, Counted, CountersExact
<1> QED BY Zenon, <1>4 DEF Init, IInv, NotStarted, Attended, Destroyed

(* Every step preserves it. *)
LEMMA NextSound == IInv /\ [Next]_vars => IInv'
<1> SUFFICES ASSUME IInv, [Next]_vars PROVE IInv'
    OBVIOUS
<1>1. CASE UNCHANGED vars
    BY SMTT(60), <1>1 DEF vars, IInv, Counted, CountersExact, TypeOK, Live, Starting, Idle,
       NotStarted, Attended, Destroyed
<1> QED BY SMTT(60), <1>1, SubmitSound, NotifyOneSound, StartWorkerSound, WorkerSound, DestroySound
        DEF Next, CallerStep, Terminated

(* submit() decides on exact counters, a queued task always has a worker that is or will
   be awake, and the destructor returns with no thread and no task left: for any number
   of callers and any minimum and maximum of workers. *)
THEOREM PoolCorrect == Spec => [](NoLostWakeUp /\ DestroyedMeansQuiet)
<1>1. IInv => NoLostWakeUp
    BY Zenon DEF IInv, Counted, Attended, NoLostWakeUp
<1>2. IInv => DestroyedMeansQuiet
    <2> SUFFICES ASSUME IInv, destructor = "done"
                 PROVE  Live = {} /\ Starting = {} /\ m_tasks = <<>>
        BY Zenon DEF DestroyedMeansQuiet
    <2>1. Live = {} /\ Starting = {}
        BY Sizes DEF IInv, Destroyed, Counted, CountersExact
    <2>2. Idle = {}
        BY Zenon, <2>1 DEF Idle, Live, Blocked
    <2> QED BY Zenon, <2>1, <2>2 DEF IInv, Attended
<1> QED BY <1>1, <1>2, InitSound, NextSound, PTL DEF Spec
-----------------------------------------------------------------------------
(* Where a task of the pool is *)

(* x is in queue q; q holds nothing twice. *)
Listed(x, q) == \E i \in 1..Len(q) : q[i] = x
ListedOnce(q) == \A i, j \in 1..Len(q) : q[i] = q[j] => i = j

(* A worker has t in its hands. *)
Held(t) == \E w \in Task : t \in holding[w]

(* t is with its caller: not submitted, refused, or about to start a thread of its own. *)
WithCaller(t) == caller[t] \in {"new", "spawn", "rejected"}

(* Every task is in one of four places, once; only a worker that runs a task holds one. *)
Placed ==
    /\ ListedOnce(m_tasks)
    /\ \A v, w \in Task : \A t \in holding[v] \cap holding[w] : v = w
    /\ \A w \in Task : worker[w] # "run" => holding[w] = {}
    /\ \A t \in Task :
          /\ Listed(t, m_tasks) \/ Held(t) \/ t \in finished \/ WithCaller(t)
          /\ Listed(t, m_tasks) => ~Held(t) /\ t \notin finished /\ ~WithCaller(t)
          /\ Held(t) => t \notin finished /\ ~WithCaller(t)
          /\ t \in finished => ~WithCaller(t)

(* A queue with one task more. *)
LEMMA AppendListed ==
    ASSUME NEW q \in Seq(Task), NEW t \in Task, ListedOnce(q), ~Listed(t, q)
    PROVE  /\ ListedOnce(Append(q, t))
           /\ \A x \in Task : Listed(x, Append(q, t)) <=> Listed(x, q) \/ x = t
<1>1. /\ Len(q) \in Nat /\ Len(Append(q, t)) = Len(q) + 1 /\ Append(q, t)[Len(q) + 1] = t
      /\ \A i \in 1..Len(q) : Append(q, t)[i] = q[i]
    OBVIOUS
<1>2. ListedOnce(Append(q, t))
    BY <1>1 DEF ListedOnce, Listed
<1>3. \A x \in Task : Listed(x, Append(q, t)) <=> Listed(x, q) \/ x = t
    BY <1>1 DEF Listed
<1> QED BY Zenon, <1>2, <1>3

(* A queue whose first task is taken. *)
LEMMA TailListed ==
    ASSUME NEW q \in Seq(Task), q # <<>>, ListedOnce(q)
    PROVE  /\ Head(q) \in Task /\ Listed(Head(q), q) /\ ListedOnce(Tail(q))
           /\ \A x \in Task : Listed(x, Tail(q)) <=> Listed(x, q) /\ x # Head(q)
<1>1. /\ Len(q) \in Nat \ {0} /\ Len(Tail(q)) = Len(q) - 1 /\ Head(q) = q[1] /\ q[1] \in Task
      /\ \A i \in 1..(Len(q) - 1) : Tail(q)[i] = q[i + 1]
    OBVIOUS
<1>2. Listed(Head(q), q)
    BY <1>1 DEF Listed
<1>3. ListedOnce(Tail(q))
    BY <1>1 DEF ListedOnce
<1>4. ASSUME NEW x \in Task PROVE Listed(x, Tail(q)) <=> Listed(x, q) /\ x # Head(q)
    <2>1. ASSUME NEW i \in 1..Len(Tail(q)), Tail(q)[i] = x
          PROVE  Listed(x, q) /\ x # Head(q)
        BY <1>1, <2>1 DEF Listed, ListedOnce
    <2>2. ASSUME NEW i \in 1..Len(q), q[i] = x, x # Head(q) PROVE Listed(x, Tail(q))
        <3>1. i - 1 \in 1..Len(Tail(q)) /\ Tail(q)[i - 1] = x
            BY <1>1, <2>2
        <3> QED BY Zenon, <3>1 DEF Listed
    <2> QED BY Zenon, <2>1, <2>2 DEF Listed
<1> QED BY Zenon, <1>1, <1>2, <1>3, <1>4

(* A step that moves no task. *)
LEMMA PlacesKept ==
    ASSUME Placed, UNCHANGED <<m_tasks, holding, finished>>,
           \A t \in Task : WithCaller(t)' <=> WithCaller(t),
           \A w \in Task : worker'[w] # "run" => worker[w] # "run"
    PROVE  Placed'
<1>1. \A t \in Task : (Held(t)' <=> Held(t)) /\ (Listed(t, m_tasks)' <=> Listed(t, m_tasks))
    BY Zenon DEF Held, Listed
<1>2. ListedOnce(m_tasks)'
    BY Zenon DEF Placed, ListedOnce
<1> QED BY Zenon, <1>1, <1>2 DEF Placed

(* submit, and what its caller does after it. *)
LEMMA CallerPlaces ==
    ASSUME TypeOK, NotStarted, Placed, NEW t \in Task, Submit(t) \/ CallerStep(t)
    PROVE  Placed'
<1>1. CASE Submit(t)
    <2>1. WithCaller(t) /\ UNCHANGED <<holding, finished, worker>>
        BY Zenon, <1>1 DEF Submit, WithCaller
    <2>2. CASE m_tasks' = Append(m_tasks, t) /\ \E l \in {"notify", "done"} :
                    caller' = [caller EXCEPT ![t] = l]
        <3>1. m_tasks \in Seq(Task) /\ ListedOnce(m_tasks) /\ ~Listed(t, m_tasks)
            BY Zenon, <2>1 DEF Placed, TypeOK
        <3>2. /\ ListedOnce(m_tasks')
              /\ \A x \in Task : Listed(x, m_tasks') <=> Listed(x, m_tasks) \/ x = t
            BY Zenon, <2>2, <3>1, AppendListed
        <3>3. \A x \in Task : WithCaller(x)' <=> WithCaller(x) /\ x # t
            BY Zenon, <2>2 DEF WithCaller, TypeOK
        <3>4. \A x \in Task : Held(x)' <=> Held(x)
            BY Zenon, <2>1 DEF Held
        <3> QED BY Zenon, <2>1, <3>2, <3>3, <3>4 DEF Placed
    <2>3. CASE UNCHANGED m_tasks /\ \E l \in {"rejected", "spawn"} :
                    caller' = [caller EXCEPT ![t] = l]
        <3>1. \A x \in Task : WithCaller(x)' <=> WithCaller(x)
            BY Zenon, <2>1, <2>3 DEF WithCaller, TypeOK
        <3> QED BY Zenon, <2>1, <2>3, <3>1, PlacesKept
    <2> QED BY Zenon, <1>1, <2>2, <2>3 DEF Submit, QueueForIdle, CountWorker, QueueAtLimit
<1>2. CASE NotifyOne(t)
    <2>1. \A x \in Task : WithCaller(x)' <=> WithCaller(x)
        BY Zenon, <1>2 DEF NotifyOne, WithCaller, TypeOK
    <2>2. \A w \in Task : worker'[w] # "run" => worker[w] # "run"
        BY Zenon, <1>2 DEF NotifyOne, TypeOK
    <2> QED BY Zenon, <1>2, <2>1, <2>2, PlacesKept DEF NotifyOne
<1>3. CASE StartWorker(t)
    <2>1. /\ WithCaller(t) /\ holding[t] = {} /\ UNCHANGED <<m_tasks, finished>>
          /\ worker' = [worker EXCEPT ![t] = "run"] /\ holding' = [holding EXCEPT ![t] = {t}]
        BY Zenon, <1>3 DEF StartWorker, WithCaller, NotStarted, Placed
    <2>2. \A x \in Task : WithCaller(x)' <=> WithCaller(x) /\ x # t
        BY Zenon, <1>3 DEF StartWorker, WithCaller, TypeOK
    <2>3. \A w \in Task : holding'[w] = IF w = t THEN {t} ELSE holding[w]
        BY Zenon, <2>1 DEF TypeOK
    <2>4. \A x \in Task : Held(x)' <=> Held(x) \/ x = t
        BY <2>1, <2>3 DEF Held
    <2>5. \A v, w \in Task : \A x \in holding'[v] \cap holding'[w] : v = w
        BY <2>1, <2>3 DEF Placed, Held
    <2>6. \A w \in Task : worker'[w] # "run" => holding'[w] = {}
        BY Zenon, <2>1, <2>3 DEF Placed, TypeOK
    <2>7. ListedOnce(m_tasks)' /\ \A x \in Task : Listed(x, m_tasks)' <=> Listed(x, m_tasks)
        BY <2>1 DEF Placed, ListedOnce, Listed
    <2> QED BY Zenon, <2>1, <2>2, <2>4, <2>5, <2>6, <2>7 DEF Placed
<1> QED BY Zenon, <1>1, <1>2, <1>3 DEF CallerStep

(* workerLoop: the task that was run, and the next one. *)
LEMMA RunPlaces == ASSUME TypeOK, Placed, NEW w \in Task, RunTask(w) PROVE Placed'
<1>1. /\ finished' = finished \cup holding[w] /\ UNCHANGED <<m_tasks, caller>>
      /\ \A v \in Task : holding'[v] = IF v = w THEN {} ELSE holding[v]
      /\ \A v \in Task : v # w => worker'[v] = worker[v]
    BY Zenon DEF RunTask, TypeOK
<1>2. \A t \in Task : Held(t)' <=> Held(t) /\ t \notin holding[w]
    BY Zenon, <1>1 DEF Held, Placed
<1>3. /\ \A v, u \in Task : \A x \in holding'[v] \cap holding'[u] : v = u
      /\ \A v \in Task : worker'[v] # "run" => holding'[v] = {}
    BY Zenon, <1>1 DEF Placed
<1>4. /\ ListedOnce(m_tasks)' /\ \A x \in Task : Listed(x, m_tasks)' <=> Listed(x, m_tasks)
      /\ \A x \in Task : WithCaller(x)' <=> WithCaller(x)
    BY <1>1 DEF Placed, ListedOnce, Listed, WithCaller
<1>5. \A t \in Task : t \in holding[w] => Held(t)
    BY Zenon DEF Held
<1> QED BY Zenon, <1>1, <1>2, <1>3, <1>4, <1>5 DEF Placed

(* workerLoop: the next task. *)
LEMMA TakePlaces ==
    ASSUME TypeOK, Placed, NEW w \in Task, worker[w] # "run", NEW idle, TakeTask(w, idle),
           UNCHANGED <<caller, finished>>
    PROVE  Placed'
<1>1. m_tasks \in Seq(Task) /\ m_tasks # <<>> /\ ListedOnce(m_tasks) /\ m_tasks' = Tail(m_tasks)
    BY Zenon DEF TypeOK, TakeTask, Placed
<1> DEFINE t == Head(m_tasks)
<1>2. /\ t \in Task /\ Listed(t, m_tasks) /\ ListedOnce(m_tasks')
      /\ \A x \in Task : Listed(x, m_tasks') <=> Listed(x, m_tasks) /\ x # t
    BY Zenon, <1>1, TailListed
<1>3. /\ holding[w] = {} /\ \A v \in Task : holding'[v] = IF v = w THEN {t} ELSE holding[v]
      /\ worker' = [worker EXCEPT ![w] = "run"]
    BY Zenon DEF TypeOK, TakeTask, Placed
<1> HIDE DEF t
<1>4. \A x \in Task : Held(x)' <=> Held(x) \/ x = t
    BY Zenon, <1>3 DEF Held
<1>5. /\ \A v, u \in Task : \A x \in holding'[v] \cap holding'[u] : v = u
      /\ \A v \in Task : worker'[v] # "run" => holding'[v] = {}
    <2>1. \A v \in Task : t \notin holding[v]
        BY Zenon, <1>2 DEF Placed, Held
    <2> QED BY <1>3, <2>1 DEF Placed, TypeOK
<1>6. \A x \in Task : WithCaller(x)' <=> WithCaller(x)
    BY Zenon DEF WithCaller
<1> QED BY Zenon, <1>2, <1>4, <1>5, <1>6 DEF Placed

(* workerLoop and the condition variable: steps that move no task. *)
LEMMA WorkerPlaces ==
    ASSUME TypeOK, Placed, NEW w \in Task,
           WorkerStep(w) \/ KeepAliveTimer(w) \/ SpuriousWake(w)
    PROVE  Placed'
<1>1. ASSUME NEW l, worker[w] # "run", worker' = [worker EXCEPT ![w] = l],
             UNCHANGED <<m_tasks, holding, finished, caller>>
      PROVE  Placed'
    <2>1. \A v \in Task : worker'[v] # "run" => worker[v] # "run"
        BY Zenon, <1>1 DEF TypeOK
    <2>2. \A t \in Task : WithCaller(t)' <=> WithCaller(t)
        BY Zenon, <1>1 DEF WithCaller
    <2> QED BY Zenon, <1>1, <2>1, <2>2, PlacesKept
<1>2. ASSUME NEW idle, LoopHead(w, idle), worker[w] # "run", UNCHANGED <<caller, finished>>
      PROVE  Placed'
    BY Zenon, <1>1, <1>2, TakePlaces DEF LoopHead, EnterWait, RetireStopped, retireWorkerLocked
<1>3. CASE RunTask(w)
    BY Zenon, <1>3, RunPlaces
<1>4. CASE Relock(w)
    BY Zenon, <1>2, <1>4 DEF Relock
<1>5. CASE WakeUp(w)
    BY Zenon, <1>1, <1>2, <1>5 DEF WakeUp
<1>6. CASE KeepAliveExpired(w)
    BY Zenon, <1>1, <1>2, <1>6 DEF KeepAliveExpired, retireWorkerLocked
<1>7. CASE KeepAliveTimer(w) \/ SpuriousWake(w)
    BY Zenon, <1>1, <1>7 DEF KeepAliveTimer, SpuriousWake, LeaveCv
<1> QED BY Zenon, <1>3, <1>4, <1>5, <1>6, <1>7 DEF WorkerStep

(* Every step keeps each task in one place. *)
LEMMA PlacesNext == IInv /\ Placed /\ [Next]_vars => Placed'
<1> SUFFICES ASSUME IInv, Placed, [Next]_vars PROVE Placed'
    OBVIOUS
<1>1. TypeOK /\ NotStarted
    BY Zenon DEF IInv, Counted, CountersExact
<1>2. CASE UNCHANGED <<m_tasks, holding, finished, caller>>
           /\ \A w \in Task : worker'[w] # "run" => worker[w] # "run"
    <2>1. \A t \in Task : WithCaller(t)' <=> WithCaller(t)
        BY Zenon, <1>2 DEF WithCaller
    <2> QED BY Zenon, <1>2, <2>1, PlacesKept
<1>3. CASE Destroy
    <2>1. \A w \in Task : worker'[w] # "run" => worker[w] # "run"
        BY Zenon, <1>1, <1>3 DEF Destroy, TypeOK
    <2> QED BY Zenon, <1>2, <1>3, <2>1 DEF Destroy
<1>4. CASE DestructorSpuriousWake \/ DestructorWakes \/ UNCHANGED vars
    BY Zenon, <1>2, <1>4 DEF DestructorSpuriousWake, DestructorWakes, vars
<1> QED BY Zenon, <1>1, <1>3, <1>4, CallerPlaces, WorkerPlaces DEF Next, Terminated

(* The size of a set that has one element at most. *)
LEMMA OneOrNone ==
    ASSUME NEW S, \A x, y \in S : x = y
    PROVE  Cardinality(S) = IF S = {} THEN 0 ELSE 1
<1>1. CASE S = {}
    BY Zenon, <1>1, FS_EmptySet
<1>2. CASE S # {}
    <2>1. PICK x \in S : S = {x}
        BY Zenon, <1>2
    <2> QED BY Zenon, <1>2, <2>1, FS_Singleton
<1> QED BY Zenon, <1>1, <1>2

(* No task that submit() accepts is lost or run twice, for any number of callers and any
   limits, whatever retires, is refused or destroyed meanwhile: the safety half of
   AcceptedRunsOnce. *)
THEOREM NothingLostOrRepeated == Spec => []NeitherLostNorRunTwice
<1>1. Init => Placed
    BY DEF Init, Placed, ListedOnce, Listed, Held, WithCaller
<1>2. IInv /\ Placed => NeitherLostNorRunTwice
    <2> SUFFICES ASSUME Placed, NEW t \in Task PROVE TaskPlaces(t) = 1
        BY Zenon DEF NeitherLostNorRunTwice
    <2> DEFINE queued == {i \in 1..Len(m_tasks) : m_tasks[i] = t}
               held == {w \in Task : t \in holding[w]}
    <2>1. /\ Cardinality(queued) = IF queued = {} THEN 0 ELSE 1
          /\ queued # {} <=> Listed(t, m_tasks)
        <3>1. \A i, j \in queued : i = j
            BY Zenon DEF Placed, ListedOnce
        <3>2. queued # {} <=> Listed(t, m_tasks)
            BY Zenon DEF Listed
        <3> QED BY Zenon, <3>1, <3>2, OneOrNone
    <2>2. /\ Cardinality(held) = IF held = {} THEN 0 ELSE 1
          /\ held # {} <=> Held(t)
        <3>1. \A v, w \in held : v = w
            BY Zenon DEF Placed
        <3>2. held # {} <=> Held(t)
            BY Zenon DEF Held
        <3> QED BY Zenon, <3>1, <3>2, OneOrNone
    <2>3. TaskPlaces(t) = Cardinality(queued) + Cardinality(held)
                          + (IF t \in finished THEN 1 ELSE 0) + (IF WithCaller(t) THEN 1 ELSE 0)
        BY Zenon DEF TaskPlaces, WithCaller
    <2> HIDE DEF queued, held
    <2> QED BY <2>1, <2>2, <2>3 DEF Placed
<1> QED BY <1>1, <1>2, InitSound, NextSound, PlacesNext, PTL DEF Spec
=============================================================================
