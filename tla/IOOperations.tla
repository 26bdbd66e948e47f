----------------------------- MODULE IOOperations -----------------------------
(***************************************************************************)
(* The vocabulary of kernel/awaitable.h and kernel/io_handlers.hpp: the    *)
(* I/O operations a coroutine can await, the slot of the IOController each *)
(* uses, and how the outcome of its system call (or of its completion      *)
(* queue entry) becomes the awaitable's result.                            *)
(*                                                                         *)
(* A system call's outcome is [ret, errno]; ret counts bytes, or is -1.    *)
(* A result is [ok, n, code]: std::expected with the IOError code reduced  *)
(* to its name.  An IOEventType mask is a set of operation names.          *)
(***************************************************************************)
EXTENDS Integers, Sequences, FiniteSets

Slots == {"READ", "WRITE"}

ReadEvents == {"ACCEPT", "RECV", "READV", "RECVFROM", "FILEREAD", "FILEWATCH"}
WriteEvents == {"CONNECT", "SEND", "WRITEV", "SENDTO", "FILEWRITE", "SENDFILE"}

sequenceEventUsesSlot(type, slot) ==
    type \in (IF slot = "READ" THEN ReadEvents ELSE WriteEvents)

(* SequenceOwnerDomain: the slots an owner claims. *)
sequenceOwnerDomainUsesSlot(domain, slot) ==
    slot \in (CASE domain = "Read" -> {"READ"}
                [] domain = "Write" -> {"WRITE"}
                [] domain = "ReadWrite" -> Slots)

(***************************************************************************)
(* The awaitable of each operation: its IOEventType, its slot, and the     *)
(* code it reports when registration fails.                                *)
(***************************************************************************)
Awaitable(event, code) ==
    [event |-> event,
     slot |-> IF sequenceEventUsesSlot(event, "READ") THEN "READ" ELSE "WRITE",
     code |-> code]

AcceptAwaitable == Awaitable("ACCEPT", "kAcceptFailed")
RecvAwaitable == Awaitable("RECV", "kRecvFailed")
SendAwaitable == Awaitable("SEND", "kSendFailed")
ReadvAwaitable == Awaitable("READV", "kRecvFailed")
WritevAwaitable == Awaitable("WRITEV", "kSendFailed")
ConnectAwaitable == Awaitable("CONNECT", "kConnectFailed")
RecvFromAwaitable == Awaitable("RECVFROM", "kRecvFailed")
SendToAwaitable == Awaitable("SENDTO", "kSendFailed")
FileReadAwaitable == Awaitable("FILEREAD", "kReadFailed")
FileWriteAwaitable == Awaitable("FILEWRITE", "kWriteFailed")
FileWatchAwaitable == Awaitable("FILEWATCH", "kReadFailed")
SendFileAwaitable == Awaitable("SENDFILE", "kSendFailed")

Awaitables == {AcceptAwaitable, RecvAwaitable, SendAwaitable, ReadvAwaitable,
               WritevAwaitable, ConnectAwaitable, RecvFromAwaitable,
               SendToAwaitable, FileReadAwaitable, FileWriteAwaitable,
               FileWatchAwaitable, SendFileAwaitable}
AwaitableOf(event) == CHOOSE a \in Awaitables : a.event = event

-----------------------------------------------------------------------------
(* Results. *)
Ok(n) == [ok |-> TRUE, n |-> n, code |-> "none"]
Err(code) == [ok |-> FALSE, n |-> 0, code |-> code]
NotReady == Err("kNotReady")
NoResult == Err("none")

Transient == {"EAGAIN", "EINTR"}

Answer(s, code) ==
    IF s.ret >= 0 THEN Ok(s.ret)
    ELSE IF s.errno \in Transient THEN NotReady ELSE Err(code)

(* End of stream is an answer of its own for the vectored read. *)
AnswerNonEmpty(s, code) ==
    IF s.ret = 0 THEN Err("kDisconnectError") ELSE Answer(s, code)

(* The readiness back ends (epoll, kqueue): the system call is made now. *)
handleAccept(s) == Answer(s, "kAcceptFailed")
handleRecv(s) == Answer(s, "kRecvFailed")
handleSend(s) == Answer(s, "kSendFailed")
handleReadv(s) == AnswerNonEmpty(s, "kRecvFailed")
handleWritev(s) == Answer(s, "kSendFailed")
handleConnect(s) ==
    IF s.ret = 0 \/ s.errno = "EISCONN" THEN Ok(0)
    ELSE IF s.errno = "EINPROGRESS" THEN NotReady ELSE Err("kConnectFailed")
handleRecvFrom(s) == Answer(s, "kRecvFailed")
handleSendTo(s) == Answer(s, "kSendFailed")
handleFileRead(s) == Answer(s, "kReadFailed")
handleFileWrite(s) == Answer(s, "kWriteFailed")
handleSendFile(s) == Answer(s, "kSendFailed")

handler(event, s) ==
    CASE event = "ACCEPT" -> handleAccept(s)
      [] event = "RECV" -> handleRecv(s)
      [] event = "SEND" -> handleSend(s)
      [] event = "READV" -> handleReadv(s)
      [] event = "WRITEV" -> handleWritev(s)
      [] event = "CONNECT" -> handleConnect(s)
      [] event = "RECVFROM" -> handleRecvFrom(s)
      [] event = "SENDTO" -> handleSendTo(s)
      [] event = "FILEREAD" -> handleFileRead(s)
      [] event = "FILEWRITE" -> handleFileWrite(s)
      [] event = "SENDFILE" -> handleSendFile(s)

(* io_uring: the outcome is the completion's res. *)
handleAcceptCqe(s) == Answer(s, "kAcceptFailed")
handleRecvCqe(s) == Answer(s, "kRecvFailed")
handleSendCqe(s) == Answer(s, "kSendFailed")
handleReadvCqe(s) == AnswerNonEmpty(s, "kRecvFailed")
handleWritevCqe(s) == Answer(s, "kSendFailed")
handleConnectCqe(s) == Answer(s, "kConnectFailed")
handleRecvFromCqe(s) == Answer(s, "kRecvFailed")
handleSendToCqe(s) == Answer(s, "kSendFailed")
handleFileReadCqe(s) == Answer(s, "kReadFailed")
handleFileWriteCqe(s) == Answer(s, "kWriteFailed")
handleFileWatchCqe(s) ==
    IF s.ret = 0 THEN Err("kReadFailed") ELSE Answer(s, "kReadFailed")
handleSendFileCqe(s) == Answer(s, "kSendFailed")

(* What the user gets of the data read: only the first of several inotify events. *)
Reported(event, data) == IF event = "FILEWATCH" /\ data # <<>> THEN <<Head(data)>> ELSE data

cqeHandler(event, s) ==
    CASE event = "ACCEPT" -> handleAcceptCqe(s)
      [] event = "RECV" -> handleRecvCqe(s)
      [] event = "SEND" -> handleSendCqe(s)
      [] event = "READV" -> handleReadvCqe(s)
      [] event = "WRITEV" -> handleWritevCqe(s)
      [] event = "CONNECT" -> handleConnectCqe(s)
      [] event = "RECVFROM" -> handleRecvFromCqe(s)
      [] event = "SENDTO" -> handleSendToCqe(s)
      [] event = "FILEREAD" -> handleFileReadCqe(s)
      [] event = "FILEWRITE" -> handleFileWriteCqe(s)
      [] event = "FILEWATCH" -> handleFileWatchCqe(s)
      [] event = "SENDFILE" -> handleSendFileCqe(s)
==============================================================================
