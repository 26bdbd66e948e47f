------------------------------ MODULE MCUringIO ------------------------------
(* Two coroutines on one socket: r reads, w writes or does both. *)
EXTENDS UringIO, TLC

MCCoroutine == {"r", "w"}

(* Timed as said; a SequenceAwaitable has no timeout. *)
Both(r, w, timed, zero) ==
    [prog |-> ("r" :> [aws |-> r, timed |-> timed]) @@ ("w" :> [aws |-> w, timed |-> timed]),
     zc |-> zero]

Reader == buildImpl(<<"recv", "parse", "finish">>)
VectorReader == buildImpl(<<"readv", "parse", "finish">>)
Writer == buildImpl(<<"send", "finish">>)
Dialogue == buildImpl(<<"connect", "writev", "readv", "local", "finish">>)
ReadSteps == NewSequence("Read", <<Step("recv", "RECV"), Step("parse", "INVALID"),
                                   Step("finish", "INVALID")>>, Step("recv", "RECV"))
WriteSteps == NewSequence("Write", <<Step("sendto", "SENDTO"), Step("finish", "INVALID")>>,
                          Step("none", "INVALID"))

MCPrograms ==
    {Both({VectorReader}, {Writer}, FALSE, FALSE), Both({ReadSteps}, {WriteSteps}, FALSE, FALSE)}
    \cup {Both({aw}, {}, TRUE, FALSE) :
             aw \in {Plain(e) : e \in {"RECV", "ACCEPT", "RECVFROM"}}}
    \cup {Both({aw}, {}, FALSE, FALSE) :
             aw \in {Reader} \cup {Plain(e) : e \in {"READV", "FILEREAD", "FILEWATCH"}}}
    \cup {Both({}, {aw}, TRUE, FALSE) :
             aw \in {Plain(e) : e \in {"CONNECT", "SENDFILE"}}}
    \cup {Both({}, {aw}, FALSE, FALSE) :
             aw \in {Dialogue} \cup {Plain(e) : e \in {"SEND", "WRITEV", "SENDTO", "FILEWRITE"}}}
    \cup {Both({}, {Writer}, TRUE, TRUE)}

MCReceive == {Both({Plain("RECV")}, {}, FALSE, FALSE)}

(* A protocol that reads with recv(), and with readv() or a builder, by turns. *)
MCMixed == {Both({Plain("RECV"), aw}, {}, FALSE, FALSE) : aw \in {Plain("READV"), Reader}}
==============================================================================
