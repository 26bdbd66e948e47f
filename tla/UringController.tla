--------------------------- MODULE UringController ---------------------------
(***************************************************************************)
(* The io_uring part of IOController (kernel/io_controller.hpp): request   *)
(* tokens, the generations that make late completions stale, and the       *)
(* results completed before anybody waits for them.                        *)
(*                                                                         *)
(* w.u holds, per slot, the SqeState's owner (bound: it is this controller *)
(* and not null), the arena's tokens and its free list; then the members   *)
(* of the multishot operations.  A generation is only ever compared with   *)
(* the current one, so a token keeps whether it is live: its generation is *)
(* the slot's current one.  w.bufs counts the provided buffers in the ring.*)
(* A ready chunk is [kind, data, result].                                  *)
(***************************************************************************)
EXTENDS ReadinessCore

CONSTANT Tokens      \* tokens of an arena, 1..Tokens (the code grows it on demand)

FreeToken == [live |-> FALSE, persistent |-> FALSE, notify_expected |-> FALSE,
              notify_received |-> FALSE, result_completed |-> FALSE]

NewSqeState ==
    [bound |-> [s \in Slots |-> TRUE],
     tok |-> [s \in Slots |-> [i \in 1..Tokens |-> FreeToken]],
     free |-> [s \in Slots |-> 1..Tokens],
     m_ready_accepts |-> <<>>, m_ready_recvs |-> <<>>,
     m_accept_multishot_armed |-> FALSE, m_recv_multishot_armed |-> FALSE,
     m_accept_result_assigned |-> FALSE, m_recv_result_assigned |-> FALSE]

(* Free tokens are alike: the lowest stands for the head of the free list. *)
acquire(w, slot) ==
    LET id == CHOOSE i \in w.u.free[slot] : \A j \in w.u.free[slot] : i <= j
    IN  [w |-> [w EXCEPT !.u.free[slot] = @ \ {id}, !.u.tok[slot][id].live = TRUE], id |-> id]
makeSqeRequest(w, slot) == acquire(w, slot)

recycle(w, slot, id) ==
    [w EXCEPT !.u.free[slot] = @ \cup {id}, !.u.tok[slot][id] = FreeToken]

(* The slot's generation moves on: every token handed out is stale. *)
Outdated(tokens) == [i \in 1..Tokens |-> [tokens[i] EXCEPT !.live = FALSE]]

advanceSqeGeneration_SameEpoch(w, slot) == [w EXCEPT !.u.bound[slot] = TRUE]
advanceSqeGeneration(w, slot) ==
    [w EXCEPT !.u.tok[slot] = Outdated(@), !.u.bound[slot] = TRUE]

-----------------------------------------------------------------------------
(* Results that arrived before anybody asked for them. *)
enqueueAcceptedHandle(w, item) == [w EXCEPT !.u.m_ready_accepts = Append(@, item)]
enqueueReadyRecv(w, chunk) == [w EXCEPT !.u.m_ready_recvs = Append(@, chunk)]

Chunk(kind, data, result) == [kind |-> kind, data |-> data, result |-> result]

Hand(w, c, result, data) ==
    [w EXCEPT !.co[c].aw.m_result = result, !.co[c].aw.data = data]

(* The connection may be gone by the time its address is asked for: then it is
   closed, and the failure is the answer for it. *)
tryConsumeAcceptedHandle(w, c) ==
    LET q == w.u.m_ready_accepts
        popped == [w EXCEPT !.u.m_ready_accepts = Tail(@)]
    IN  IF q = <<>> THEN [w |-> w, done |-> FALSE]
        ELSE [w |-> Hand(popped, c, IF w.gone THEN Err("kAcceptFailed") ELSE Ok(1), <<Head(q)>>),
              done |-> TRUE]

(* The chunks that fit into the user's buffer.  After the last byte of a chunk
   its length is read from the popped element: it is 0 or, once the deque has
   reused the memory, anything, and then the loop ends early (stop). *)
RECURSIVE Gather(_, _, _)
Gather(chunks, capacity, stop) ==
    IF chunks = <<>> \/ Head(chunks).kind # "Buffer"
    THEN [data |-> <<>>, chunks |-> chunks, released |-> 0]
    ELSE LET d == Head(chunks).data
             more == Gather(Tail(chunks), capacity - Len(d), stop)
         IN  IF Len(d) > capacity
             THEN [data |-> SubSeq(d, 1, capacity), released |-> 0,
                   chunks |-> <<Chunk("Buffer", SubSeq(d, capacity + 1, Len(d)), NoResult)>>
                              \o Tail(chunks)]
             ELSE IF Len(d) = capacity \/ stop
             THEN [data |-> d, chunks |-> Tail(chunks), released |-> 1]
             ELSE [data |-> d \o more.data, chunks |-> more.chunks,
                   released |-> more.released + 1]

tryConsumeReadyRecv_KeepsBuffer(w, c) ==
    LET q == w.u.m_ready_recvs
        g == Gather(q, ReadSize, w.stop)
    IN  IF q = <<>> THEN [w |-> w, done |-> FALSE]
        ELSE IF Head(q).kind # "Buffer"
        THEN [w |-> Hand([w EXCEPT !.u.m_ready_recvs = Tail(@)], c, Head(q).result, <<>>),
              done |-> TRUE]
        ELSE [w |-> Hand([w EXCEPT !.u.m_ready_recvs = g.chunks], c, Ok(Len(g.data)), g.data),
              done |-> TRUE]
tryConsumeReadyRecv(w, c) ==
    LET q == w.u.m_ready_recvs
        g == Gather(q, ReadSize, w.stop)
    IN  IF q = <<>> THEN [w |-> w, done |-> FALSE]
        ELSE IF Head(q).kind # "Buffer"
        THEN [w |-> Hand([w EXCEPT !.u.m_ready_recvs = Tail(@)], c, Head(q).result, <<>>),
              done |-> TRUE]
        ELSE [w |-> Hand([w EXCEPT !.u.m_ready_recvs = g.chunks, !.bufs = @ + g.released],
                         c, Ok(Len(g.data)), g.data),
              done |-> TRUE]

Buffers(chunks) == Cardinality({i \in DOMAIN chunks : chunks[i].kind = "Buffer"})

clearAcceptedHandles(w) == [w EXCEPT !.u.m_ready_accepts = <<>>]
clearReadyRecvs(w) == [w EXCEPT !.bufs = @ + Buffers(w.u.m_ready_recvs), !.u.m_ready_recvs = <<>>]

clearSqeState(w) ==
    LET cleared == clearReadyRecvs(clearAcceptedHandles(w))
    IN  [cleared EXCEPT
            !.u.m_accept_multishot_armed = FALSE, !.u.m_recv_multishot_armed = FALSE,
            !.u.m_accept_result_assigned = FALSE, !.u.m_recv_result_assigned = FALSE,
            !.u.bound = [s \in Slots |-> FALSE],
            !.u.tok = [s \in Slots |-> Outdated(@[s])]]
invalidateSqeRequests(w) == clearSqeState(w)

(* Moving the controller: the arenas, queues and flags go along and the states
   are bound to the new object; the old one no longer reaches them. *)
moveController_ClearsMoved(w) ==
    [w EXCEPT !.u.bound = [s \in Slots |-> FALSE],
              !.u.tok = [s \in Slots |-> Outdated(@[s])]]
moveController(w) == [w EXCEPT !.u.bound = [s \in Slots |-> TRUE]]

-----------------------------------------------------------------------------
(* fillAwaitable and removeAwaitable: a new awaitable outdates what the slot
   had in flight, except the persistent requests of recv and accept. *)
Multishot == {"RECV", "ACCEPT"}

fillAwaitableUring(w, a, c) ==
    LET filled == [w EXCEPT !.ctl = fillAwaitable(@, a, c)]
    IN  IF a.event \in Multishot THEN filled ELSE advanceSqeGeneration(filled, a.slot)

removeAwaitableUring(w, a) ==
    LET removed == [w EXCEPT !.ctl = removeAwaitable(@, a)]
    IN  IF a.event \in Multishot THEN removed ELSE advanceSqeGeneration(removed, a.slot)
==============================================================================
