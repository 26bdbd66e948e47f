------------------------------ MODULE ByteStream ------------------------------
(***************************************************************************)
(* What the receiving side of a socket promises its user, whatever the     *)
(* back end: the bytes the peer sent arrive in order, each at most once,   *)
(* and none is skipped unless the user knows why: an operation timed out,  *)
(* or the user closed the socket.                                          *)
(*                                                                         *)
(* Bytes are numbered from 1 in the order the peer sends them.             *)
(***************************************************************************)
EXTENDS Integers, Sequences

VARIABLES sent,      \* number of bytes the peer has sent
          got,       \* the bytes handed to the user, in order
          lost,      \* the bytes no longer anywhere
          excused    \* the user has a reason to miss bytes

streamVars == <<sent, got, lost, excused>>

Last == IF got = <<>> THEN 0 ELSE got[Len(got)]

StreamInit == sent = 0 /\ got = <<>> /\ lost = 0

Send == sent' \in Nat /\ sent < sent' /\ UNCHANGED <<got, lost>>

(* Consecutive bytes after the last; what is skipped over has been lost. *)
Deliver == \E gap \in 0..lost, n \in 1..sent :
    /\ Last + gap + n <= sent
    /\ Last + gap - Len(got) <= lost
    /\ got' = got \o [i \in 1..n |-> Last + gap + i]
    /\ UNCHANGED <<sent, lost>>

Lose == /\ excused \/ excused'
        /\ lost' \in Nat /\ lost < lost'
        /\ UNCHANGED <<sent, got>>

Tell == UNCHANGED <<sent, got, lost>>

StreamNext == Tell \/ Send \/ Deliver \/ Lose

StreamSpec == StreamInit /\ [][StreamNext]_streamVars

-----------------------------------------------------------------------------
(* What a user may rely on: each byte is one the peer sent and comes at most
   once and in order, and no more bytes were skipped than were lost. *)
InOrder ==
    /\ \A i \in 1..Len(got) : got[i] \in 1..sent
    /\ \A i, j \in 1..Len(got) : i < j => got[i] < got[j]
    /\ Last - Len(got) <= lost
==============================================================================
