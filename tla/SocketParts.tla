---------------------------- MODULE SocketParts ----------------------------
(***************************************************************************)
(* The socket functions that loop or take several steps, side by side: a   *)
(* stream between two programs, a receive with a deadline, a connect with  *)
(* a timeout.  They share nothing: a behaviour is one of one part, and the *)
(* variables of the others are Off.                                        *)
(***************************************************************************)
EXTENDS Integers, Sequences

CONSTANTS
    Lengths, Offsets, FileSize, ChunkMax, BufferSize, Capacity, MaxCalls,  \* SocketStream
    R, S, MaxSeconds, Delays, MaxTime, Forever,                            \* SocketDeadline
    Systems, Seconds, Invalid, None,                                       \* SocketConnect
    Idle, Off

VARIABLES
    part,
    out, in, wire, link, file, handed, told, frames,
    now, unread, open, call, last,
    system, blocking, flags, progress, pc, second, status, disturbed, instant, elapsed, room

streamVars == <<out, in, wire, link, file, handed, told, frames>>
deadlineVars == <<now, unread, open, call, last>>
connectVars ==
    <<system, blocking, flags, progress, pc, second, status, disturbed, instant, elapsed, room>>
vars == <<part, streamVars, deadlineVars, connectVars>>

Stream == INSTANCE SocketStream
Deadline == INSTANCE SocketDeadline WITH wire <- unread
Connect == INSTANCE SocketConnect WITH link <- progress

ASSUME SocketAssumption ==
    Stream!StreamAssumption /\ Deadline!DeadlineAssumption /\ Connect!ConnectAssumption

-----------------------------------------------------------------------------
StreamOff ==
    /\ out = Off /\ in = Off /\ wire = Off /\ link = Off /\ file = Off /\ handed = Off
    /\ told = Off /\ frames = Off
DeadlineOff == now = Off /\ unread = Off /\ open = Off /\ call = Off /\ last = Off
ConnectOff ==
    /\ system = Off /\ blocking = Off /\ flags = Off /\ progress = Off /\ pc = Off
    /\ second = Off /\ status = Off /\ disturbed = Off /\ instant = Off /\ elapsed = Off
    /\ room = Off

Init ==
    \/ part = "stream" /\ Stream!Init /\ DeadlineOff /\ ConnectOff
    \/ part = "deadline" /\ Deadline!Init /\ StreamOff /\ ConnectOff
    \/ part = "connect" /\ Connect!Init /\ StreamOff /\ DeadlineOff

OfStream(step) == part = "stream" /\ step /\ UNCHANGED <<part, deadlineVars, connectVars>>

StreamStep == OfStream(Stream!Next)
DeadlineStep ==
    part = "deadline" /\ Deadline!Next /\ UNCHANGED <<part, streamVars, connectVars>>
ConnectStep ==
    part = "connect" /\ Connect!Next /\ UNCHANGED <<part, streamVars, deadlineVars>>

Next == StreamStep \/ DeadlineStep \/ ConnectStep

\* Both programs at the ends of a stream go on: the sender shuts it down at last, the
\* receiver closes it.
Spec ==
    /\ Init /\ [][Next]_vars
    /\ WF_vars(OfStream(Stream!SenderStep)) /\ WF_vars(OfStream(Stream!ReceiverStep))
    /\ WF_vars(OfStream(Stream!Shutdown)) /\ WF_vars(OfStream(Stream!Close))

-----------------------------------------------------------------------------
(* Properties *)

\* A socket_send_all that returns True has handed over its whole buffer, once and in
\* order; a socket_sendfile as many bytes of the file as it says, all it was asked for
\* unless the file ends before; one that fails a beginning of its data.
SenderIsToldTheTruth == part = "stream" => Stream!SenderIsToldTheTruth

\* The calls of socket_recv_all cut the stream into the pieces they ask for, none
\* skipped, repeated or read ahead.
FramesCutTheStream == part = "stream" => Stream!FramesCutTheStream

\* No call of a stream hangs, though the sender waits for room, the receiver for bytes
\* and the connection may be shut down, closed or reset at any time.
CallsReturn ==
    /\ (part = "stream" /\ out # Idle) ~> (part = "stream" /\ out = Idle)
    /\ (part = "stream" /\ in # Idle) ~> (part = "stream" /\ in = Idle)

\* socket_recv_all_deadline neither waits on past its deadline nor gives up before it,
\* by more than the rounding to milliseconds, however it is interrupted (calls one of
\* whose timeouts rounded to none are left aside).
DeadlineIsKept == part = "deadline" => Deadline!NoLongWait /\ Deadline!GivesUpLate

\* socket_connect_timeout and socket_send_nowait leave the socket in its mode on every
\* path, and a connection that was under way is reported as made only if it is.
ConnectTellsTheTruth == part = "connect" => Connect!ModeIsPutBack /\ Connect!ReportedIsConnected
=============================================================================
