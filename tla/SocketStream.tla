---------------------------- MODULE SocketStream ----------------------------
(***************************************************************************)
(* One direction of a TCP connection of src/socket.c: a sender that calls  *)
(* socket_send_all and the three socket_sendfile, a receiver that calls    *)
(* socket_recv_all, and the kernel's buffer between them.  The kernel may  *)
(* take and give any part of what it is asked for; the connection may be   *)
(* shut down, closed by the receiver, or reset at any time, with the loss  *)
(* of any end of the bytes under way.  A call that is interrupted (EINTR,  *)
(* and EAGAIN in sendfile) before it moves a byte is made again: a step    *)
(* that changes nothing, and one that the fairness below lets happen for   *)
(* as long as the call is not made.                                        *)
(*                                                                         *)
(* Bytes are named: <<c, i>> is byte i of the buffer of the sender's call  *)
(* number c, <<0, i>> byte i of the file.  The socket_sendfile of Linux and *)
(* of macOS, where the kernel reads the file, are one: "kernel"; a call    *)
(* that fails on macOS after a part is that part and a failure.            *)
(***************************************************************************)
EXTENDS Integers, Sequences, FiniteSetsExt, SequencesExt

CONSTANTS
    Lengths,       \* lengths of the calls
    Offsets,       \* where in the file a call may start
    FileSize,
    ChunkMax,      \* 0x7fffffff: most bytes one system call is asked for
    BufferSize,    \* of the generic socket_sendfile: 65536
    Capacity,      \* of the kernel's buffer
    MaxCalls,      \* bound: calls of the sender, and of the receiver
    Idle           \* not in a call

StreamAssumption ==
    /\ Lengths \subseteq Nat /\ Offsets \subseteq Nat /\ {FileSize, MaxCalls} \subseteq Nat
    /\ {ChunkMax, BufferSize, Capacity} \subseteq Nat \ {0}

VARIABLES
    out,           \* the sender's call, or Idle
    in,            \* the receiver's call, or Idle
    wire,          \* bytes the kernel has taken and not given
    link,          \* "open", "shutdown" by the sender, "closed"
    file,          \* present length of the file
    handed,        \* history: all bytes the kernel took
    told,          \* history: the sender's calls that returned
    frames         \* history: the receiver's calls that returned

vars == <<out, in, wire, link, file, handed, told, frames>>

Bytes(c, from, n) == [i \in 1 .. n |-> <<c, from + i>>]
Chunk(n) == Min({n, ChunkMax})
Room == Capacity - Len(wire)

-----------------------------------------------------------------------------
(* The sender *)

\* A call that has `data' in a buffer to send, and in the file from `off' on
\* what is missing of `size'.
Call(how, offset, size, data) ==
    [how |-> how, offset |-> offset, size |-> size, data |-> data,
     off |-> offset, sent |-> 0, from |-> Len(handed)]

MayCall == out = Idle /\ link # "shutdown" /\ Len(told) < MaxCalls

\* socket_send_all
SendAll(n) ==
    /\ MayCall /\ out' = Call("send_all", 0, n, Bytes(Len(told) + 1, 0, n))
    /\ UNCHANGED <<in, wire, link, file, handed, told, frames>>

\* socket_sendfile
SendFile(how, offset, size) ==
    /\ MayCall /\ out' = Call(how, offset, size, <<>>)
    /\ UNCHANGED <<in, wire, link, file, handed, told, frames>>

\* The kernel takes these bytes.
Take(bytes) == wire' = wire \o bytes /\ handed' = handed \o bytes

Returns(result) ==
    /\ told' = Append(told, [call |-> out, result |-> result]) /\ out' = Idle

\* Keeps the pointer of a partial send where it was.
Faulty_Sent(n) == [out EXCEPT !.data = SubSeq(@, 1, Len(@) - n), !.sent = @ + n]

\* Lines 86 and 87, 419 to 421.
Sent(n) == [out EXCEPT !.data = SubSeq(@, n + 1, Len(@)), !.sent = @ + n]

\* Lines 75 and 76, 408 and 409: send, with part of it or all.
SendSome ==
    /\ out # Idle /\ link = "open" /\ out.data # <<>>
    /\ \E n \in 1 .. Min({Chunk(Len(out.data)), Room}) :
          Take(SubSeq(out.data, 1, n)) /\ out' = Sent(n)
    /\ UNCHANGED <<in, link, file, told, frames>>

Missing == out.size - out.sent
ReadsFile == out # Idle /\ out.how # "send_all" /\ out.data = <<>> /\ Missing > 0

\* Lines 399 and 400: the generic socket_sendfile fills its buffer.
ReadFile ==
    /\ ReadsFile /\ out.how = "generic" /\ out.off < file
    /\ LET n == Min({Missing, BufferSize, file - out.off})
       IN  out' = [out EXCEPT !.data = Bytes(0, out.off, n), !.off = @ + n]
    /\ UNCHANGED <<in, wire, link, file, handed, told, frames>>

\* Lines 367 to 373, 381 to 390: also a call that reports EINTR or EAGAIN may
\* have sent bytes on macOS.
KernelReadsFile ==
    /\ ReadsFile /\ out.how # "generic" /\ link = "open"
    /\ \E n \in 1 .. Min({Missing, file - out.off, Room}) :
          /\ Take(Bytes(0, out.off, n))
          /\ out' = [out EXCEPT !.off = @ + n, !.sent = @ + n]
    /\ UNCHANGED <<in, link, file, told, frames>>

\* The loop has ended: all is sent, or the file is at its end (n = 0, length = 0).
SenderReturns ==
    /\ out # Idle /\ out.data = <<>>
    /\ \/ out.how = "send_all" /\ Returns(TRUE)
       \/ /\ out.how # "send_all" /\ (Missing = 0 \/ out.off >= file)
          /\ Returns(out.sent)
    /\ UNCHANGED <<in, wire, link, file, handed, frames>>

\* send or sendfile reports an error.
SendError ==
    /\ out # Idle
    /\ \/ out.data # <<>> /\ Returns(IF out.how = "send_all" THEN FALSE ELSE -1)
       \/ ReadsFile /\ out.how # "generic" /\ Returns(-1)
    /\ UNCHANGED <<in, wire, link, file, handed, frames>>

\* EPIPE, ECONNRESET: socket_init has made SIGPIPE harmless.
SenderFails == link = "closed" /\ SendError

\* The connection is open, and send fails all the same under a timeout that
\* socket_setopt_timeout has set, or send or sendfile for want of memory in the kernel.
SenderGivesUp == link = "open" /\ SendError

\* ferror
ReadFails ==
    /\ ReadsFile /\ out.how = "generic" /\ Returns(-1)
    /\ UNCHANGED <<in, wire, link, file, handed, frames>>

\* socket_shutdown
Shutdown ==
    /\ out = Idle /\ link = "open" /\ link' = "shutdown"
    /\ UNCHANGED <<out, in, wire, file, handed, told, frames>>

-----------------------------------------------------------------------------
(* The receiver *)

\* socket_recv_all
RecvAll(n) ==
    /\ in = Idle /\ Len(frames) < MaxCalls /\ in' = [want |-> n, got |-> <<>>]
    /\ UNCHANGED <<out, wire, link, file, handed, told, frames>>

\* Asks again for all of the buffer.
Faulty_Asked == Chunk(in.want)

\* Line 96.
Asked == Chunk(in.want - Len(in.got))

\* Lines 97, 107, 108: recv, with any part of what is there.
RecvSome ==
    /\ in # Idle /\ Len(in.got) < in.want
    /\ \E n \in 1 .. Min({Asked, Len(wire)}) :
          /\ in' = [in EXCEPT !.got = @ \o SubSeq(wire, 1, n)]
          /\ wire' = SubSeq(wire, n + 1, Len(wire))
    /\ UNCHANGED <<out, link, file, handed, told, frames>>

\* Waits on at the end of the stream.
Faulty_AtEnd == wire = <<>> /\ link = "closed"

\* recv returns 0, or an error because the connection is reset.
AtEnd == wire = <<>> /\ link # "open"

Received(full) ==
    /\ in # Idle /\ (full <=> Len(in.got) >= in.want)
    /\ frames' = Append(frames, [want |-> in.want, got |-> in.got, ok |-> full])
    /\ in' = Idle /\ UNCHANGED <<out, wire, link, file, handed, told>>

ReceiverReturns == Received(TRUE) \/ (AtEnd /\ Received(FALSE))

\* Lines 98 to 105: recv fails on an open connection, too, under a timeout that
\* socket_setopt_timeout or socket_recv_all_deadline has left on the socket.
ReceiverGivesUp == link = "open" /\ Received(FALSE)

-----------------------------------------------------------------------------
(* The connection and the file *)

\* socket_close of the receiver, which is not reading; a reset at any time.
Lose(k) ==
    /\ link # "closed" /\ link' = "closed" /\ wire' = SubSeq(wire, 1, k)
    /\ UNCHANGED <<out, in, file, handed, told, frames>>

Close == in = Idle /\ Lose(0)
Reset == \E k \in 0 .. Len(wire) : Lose(k)

\* Another process makes the file shorter.
Truncate ==
    /\ file > 0 /\ \E n \in 0 .. file - 1 : file' = n
    /\ UNCHANGED <<out, in, wire, link, handed, told, frames>>

-----------------------------------------------------------------------------
Init ==
    /\ out = Idle /\ in = Idle /\ wire = <<>> /\ link = "open" /\ file = FileSize
    /\ handed = <<>> /\ told = <<>> /\ frames = <<>>

SendFiles == {"kernel", "generic"}

SenderStep ==
    \/ SendSome \/ ReadFile \/ KernelReadsFile \/ SenderReturns \/ SenderFails \/ ReadFails
ReceiverStep == RecvSome \/ ReceiverReturns

Next ==
    \/ \E n \in Lengths : SendAll(n) \/ RecvAll(n)
    \/ \E how \in SendFiles, offset \in Offsets, n \in Lengths : SendFile(how, offset, n)
    \/ SenderStep \/ SenderGivesUp \/ Shutdown \/ ReceiverStep \/ ReceiverGivesUp
    \/ Close \/ Reset \/ Truncate

\* Both programs go on: the sender shuts the connection down in the end, the
\* receiver closes it.  No timeout is counted on to end a wait.
Spec ==
    /\ Init /\ [][Next]_vars
    /\ WF_vars(SenderStep) /\ WF_vars(ReceiverStep) /\ WF_vars(Shutdown) /\ WF_vars(Close)

-----------------------------------------------------------------------------
(* Properties *)

\* The bytes call k handed to the kernel: up to where the next call began.
HandedBy(k) ==
    SubSeq(handed, told[k].call.from + 1,
           IF k < Len(told) THEN told[k + 1].call.from
           ELSE IF out # Idle THEN out.from ELSE Len(handed))

Wanted(k) ==
    LET c == told[k].call
    IN  Bytes(IF c.how = "send_all" THEN k ELSE 0, c.offset, c.size)

\* What the sender is told is what has happened: a socket_send_all that returns
\* True has handed over its whole buffer, once and in order; a socket_sendfile
\* that returns a number has handed over so many bytes of the file from its
\* offset, all it was asked for unless the file ends before; and a call that
\* fails has handed over a beginning of its data.
SenderIsToldTheTruth ==
    \A k \in 1 .. Len(told) :
        LET c == told[k].call
            r == told[k].result
        IN  /\ IsPrefix(HandedBy(k), Wanted(k))
            /\ c.how = "send_all" /\ r => Len(HandedBy(k)) = c.size
            /\ c.how # "send_all" /\ r # -1 =>
                  /\ Len(HandedBy(k)) = r
                  /\ r = c.size \/ file < c.offset + c.size

\* The calls of the receiver cut the stream of the sender's bytes into pieces of
\* the lengths asked for: none skipped, repeated or read ahead, whatever the
\* pieces the kernel gives, also where a call fails after some of its bytes and
\* the program goes on reading; only a call that fails is short.
FramesCutTheStream ==
    /\ IsPrefix(FlattenSeq([k \in 1 .. Len(frames) |-> frames[k].got])
                    \o (IF in = Idle THEN <<>> ELSE in.got) \o wire, handed)
    /\ \A k \in 1 .. Len(frames) :
          IF frames[k].ok THEN Len(frames[k].got) = frames[k].want
          ELSE Len(frames[k].got) < frames[k].want

\* No call hangs: a socket_recv_all returns once the bytes are there or the
\* sender has shut the connection down, a sender once the other side has read or
\* closed.
CallsReturn ==
    /\ out # Idle ~> out = Idle
    /\ in # Idle ~> in = Idle
=============================================================================
