---------------------------- MODULE MCCoroutines -----------------------------
(***************************************************************************)
(* Three independent components in one run of TLC: the initial state says  *)
(* which of them, part, moves; the others stay as they are constructed.    *)
(***************************************************************************)
EXTENDS Runtime, TaskCompletion, AsyncWaiter, Sequences

ASSUME ConstantsAssumption ==
    /\ WithTimeouts \in BOOLEAN /\ MayBeStolen \in BOOLEAN
    /\ Nobody \notin Joiner \union {"task"}

VARIABLE part

allVars == <<part, vars, waiterVars, taskVars>>

MCInit ==
    /\ part \in {"AsyncWaiter", "TaskCompletion", "Runtime"}
    /\ Init /\ WaiterInit /\ TaskInit
    /\ part # "AsyncWaiter" => ~hasValue
    /\ part # "TaskCompletion" => /\ ~Awaited /\ ~m_then
                                  /\ \A j \in Joiner : ~joiner[j].join
    /\ part # "Runtime" => m_compute_schedulers = 0

\* Only the runtime must always be able to go on or have ended.
AtRest == part # "Runtime" /\ UNCHANGED allVars

MCNext ==
    \/ part = "AsyncWaiter" /\ WaiterNext /\ UNCHANGED <<part, vars, taskVars>>
    \/ part = "TaskCompletion" /\ TaskNext /\ UNCHANGED <<part, vars, waiterVars>>
    \/ part = "Runtime" /\ Next /\ UNCHANGED <<part, waiterVars, taskVars>>
    \/ AtRest

MCFairness ==
    \/ part = "AsyncWaiter" /\ WaiterFairness
    \/ part = "TaskCompletion" /\ TaskFairness
    \/ part = "Runtime" /\ Fairness

MCSpec == MCInit /\ [][MCNext]_allVars /\ MCFairness
==============================================================================
