------------------------------ MODULE WorkerPool ------------------------------
(***************************************************************************)
(* What BlockingExecutor promises its callers (kernel/blocking_executor.h),*)
(* without its threads, queue, counters and condition variables: a task    *)
(* submitted before the destructor begins is accepted, one after it is     *)
(* refused; an accepted task runs once, beside at most Limit - 1 others,   *)
(* and the destructor returns only when every accepted task has run.       *)
(***************************************************************************)
EXTENDS Integers, FiniteSets

CONSTANTS Job,       \* the tasks submitted
          Limit      \* how many may run at once

VARIABLES stage,     \* where each task is
          closing,   \* the destructor has begun
          closed     \* the destructor has returned

poolVars == <<stage, closing, closed>>

RunningNow == {j \in Job : stage[j] = "running"}

PoolInit ==
    /\ stage = [j \in Job |-> "new"]
    /\ closing = FALSE
    /\ closed = FALSE

Move(j, from, to) ==
    /\ stage[j] = from
    /\ stage' = [stage EXCEPT ![j] = to]
    /\ UNCHANGED <<closing, closed>>

Accept(j) == ~closing /\ Move(j, "new", "accepted")

Refuse(j) == closing /\ ~closed /\ Move(j, "new", "refused")

Start(j) == Cardinality(RunningNow) < Limit /\ Move(j, "accepted", "running")

Finish(j) == Move(j, "running", "done")

Served == \A j \in Job : stage[j] \in {"new", "refused", "done"}

\* The destructor begins; of an idle pool it returns at once.
Close ==
    /\ ~closing
    /\ closing' = TRUE
    /\ closed' \in BOOLEAN
    /\ closed' => Served
    /\ UNCHANGED stage

Return ==
    /\ closing /\ ~closed
    /\ Served
    /\ closed' = TRUE
    /\ UNCHANGED <<stage, closing>>

PoolNext ==
    \/ \E j \in Job : Accept(j) \/ Refuse(j) \/ Start(j) \/ Finish(j)
    \/ Close
    \/ Return

PoolSpec == PoolInit /\ [][PoolNext]_poolVars
==============================================================================
