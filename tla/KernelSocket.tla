----------------------------- MODULE KernelSocket -----------------------------
(***************************************************************************)
(* The operating system's side of one descriptor, as the system calls of   *)
(* kernel/io_handlers.hpp see it (external to the repository).             *)
(*                                                                         *)
(* sock is [open, inq, fin, err, room, conn]: the bytes received and not   *)
(* yet read, whether the peer has closed its direction or reset the        *)
(* connection, the free space of the send buffer, and the phase of a       *)
(* non-blocking connect.  Call(sock, event) is the system call of that     *)
(* operation: [ret, errno, data, sock], data being the bytes read.         *)
(***************************************************************************)
EXTENDS IOOperations

CONSTANTS ReadSize,    \* bytes the reader's buffer holds
          WriteSize    \* bytes one write asks for

LOCAL Smaller(a, b) == IF a < b THEN a ELSE b

Return(n, data, sock) == [ret |-> n, errno |-> "none", data |-> data, sock |-> sock]
Refuse(errno, sock) == [ret |-> -1, errno |-> errno, data |-> <<>>, sock |-> sock]

ReadCall(sock, most) ==
    LET n == Smaller(most, Len(sock.inq))
    IN  CASE ~sock.open -> Refuse("EBADF", sock)
          [] sock.open /\ sock.err -> Refuse("ECONNRESET", sock)
          [] sock.open /\ ~sock.err /\ n > 0 ->
                Return(n, SubSeq(sock.inq, 1, n),
                       [sock EXCEPT !.inq = SubSeq(@, n + 1, Len(@))])
          [] OTHER -> IF sock.fin THEN Return(0, <<>>, sock) ELSE Refuse("EAGAIN", sock)

WriteCall(sock) ==
    LET n == Smaller(WriteSize, sock.room)
    IN  CASE ~sock.open -> Refuse("EBADF", sock)
          [] sock.open /\ sock.err -> Refuse("EPIPE", sock)
          [] OTHER -> IF n > 0 THEN Return(n, <<>>, [sock EXCEPT !.room = @ - n])
                               ELSE Refuse("EAGAIN", sock)

ConnectCall(sock) ==
    CASE ~sock.open -> Refuse("EBADF", sock)
      [] sock.open /\ sock.conn = "idle" ->
            Refuse("EINPROGRESS", [sock EXCEPT !.conn = "connecting"])
      [] sock.open /\ sock.conn = "connecting" -> Refuse("EALREADY", sock)
      [] sock.open /\ sock.conn = "connected" -> Refuse("EISCONN", sock)
      [] sock.open /\ sock.conn = "refused" ->
            Refuse("ECONNREFUSED", [sock EXCEPT !.conn = "idle"])

(* accept and recvfrom take one item; the rest fill the buffer. *)
Call(sock, event) ==
    CASE event \in {"ACCEPT", "RECVFROM"} -> ReadCall(sock, 1)
      [] event \in {"RECV", "READV", "FILEREAD", "FILEWATCH"} -> ReadCall(sock, ReadSize)
      [] event = "CONNECT" -> ConnectCall(sock)
      [] OTHER -> WriteCall(sock)

(* What the descriptor polls as. *)
Readable(sock) == sock.open /\ (sock.inq # <<>> \/ sock.fin \/ sock.err)
Writable(sock) == /\ sock.open
                  /\ sock.room > 0 \/ sock.err
                  /\ sock.conn \in {"connected", "refused"}
==============================================================================
