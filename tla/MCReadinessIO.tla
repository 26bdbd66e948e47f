---------------------------- MODULE MCReadinessIO ----------------------------
(* Two coroutines on one socket: r reads, w writes or does both. *)
EXTENDS ReadinessIO, TLC

MCCoroutine == {"r", "w"}

(* r under a timeout if it can be; w only when it is alone. *)
Program(aws, timed) == [aws |-> aws, timed |-> timed /\ \A aw \in aws : aw.kind # "queue"]
Both(r, w) == ("r" :> Program(r, TRUE)) @@ ("w" :> Program(w, r = {}))

Reader == buildImpl(<<"recv", "parse", "finish">>)
Writer == buildImpl(<<"send", "local", "writev", "finish">>)
Dialogue == buildImpl(<<"connect", "send", "readv", "parse", "finish">>)
ReadSteps == NewSequence("Read", <<Step("recv", "RECV"), Step("parse", "INVALID"),
                                   Step("finish", "INVALID")>>, Step("recv", "RECV"))
WriteSteps == NewSequence("Write", <<Step("send", "SEND"), Step("sendto", "SENDTO"),
                                     Step("finish", "INVALID")>>, Step("none", "INVALID"))

Common ==
    {Both({Plain("RECV")}, {Plain("SEND")}), Both({Reader}, {Writer}),
     Both({ReadSteps}, {WriteSteps}), Both({Reader}, {Plain("SEND")}),
     Both({Plain("RECV")}, {Dialogue}), Both({Reader}, {Dialogue})}
    \cup {Both({Plain(e)}, {}) : e \in {"ACCEPT", "READV", "RECVFROM", "FILEWATCH"}}
    \cup {Both({}, {Plain(e)}) : e \in {"CONNECT", "WRITEV", "SENDTO", "SENDFILE"}}

(* A protocol that reads its first frame with a builder and the rest with recv, beside
   a writer. *)
Mixed == [r |-> Program({Reader, Plain("RECV")}, FALSE), w |-> Program({Writer}, FALSE)]

(* The epoll back end reads and writes files through libaio (AioFile). *)
MCPrograms == [epoll |-> Common \cup {Mixed},
               kqueue |-> Common \cup {Both({Plain("FILEREAD")}, {Plain("FILEWRITE")})}]
MCMixed == [kqueue |-> {Mixed}]
MCWatch == [epoll |-> {Both({Plain("FILEWATCH")}, {})}]
==============================================================================
