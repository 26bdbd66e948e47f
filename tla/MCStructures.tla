---------------------------- MODULE MCStructures -----------------------------
(***************************************************************************)
(* The task ring of a worker, the channel between coroutines of one thread *)
(* and the timer wheel of a scheduler in one run of TLC: the initial state *)
(* says which of them, part, is used.  A tiny ring with interchangeable    *)
(* thieves; three small levels.                                            *)
(***************************************************************************)
EXTENDS ChaseLevTaskRing, UnsafeChannel, TimingWheel, TLC

VARIABLE part

allVars == <<part, vars, channelVars, managerVars>>

Sizes == <<4, 2, 2>>

MCInit ==
    /\ part \in {"ring", "channel", "wheel"}
    /\ Init /\ ChannelInit /\ ManagerInit
    /\ part # "channel" => m_wakeMode = "Inline"

\* The ring and the wheel must always be able to go on.
AtRest == part = "channel" /\ UNCHANGED allVars

MCNext ==
    \/ part = "ring" /\ Next /\ UNCHANGED <<part, channelVars, managerVars>>
    \/ part = "channel" /\ ChannelNext /\ UNCHANGED <<part, vars, managerVars>>
    \/ part = "wheel" /\ ManagerNext /\ UNCHANGED <<part, vars, channelVars>>
    \/ AtRest

MCSpec == MCInit /\ [][MCNext]_allVars

Symmetry == Permutations(Thief) \union Permutations(Timer)
==============================================================================
