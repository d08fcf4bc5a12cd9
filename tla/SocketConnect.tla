---------------------------- MODULE SocketConnect ----------------------------
(***************************************************************************)
(* socket_connect_timeout and socket_send_nowait of src/socket.c: a socket *)
(* that is made non-blocking for a while, and what one thread learns of a  *)
(* connection that the kernel makes in the meantime.  Any call into the    *)
(* system may fail.  The kernel is modelled by what POSIX and Windows say: *)
(* a socket whose connect() failed at once is not connected and has no     *)
(* pending error; select finds it writable on Unix (a send would not       *)
(* block, it would fail) and not on Windows; a part of a second that is a  *)
(* second is refused by the select of macOS and not by that of Linux.      *)
(***************************************************************************)
EXTENDS Integers

CONSTANTS
    Systems,       \* among "linux", "mac", "windows"
    R, S,          \* ticks in a millisecond, milliseconds in a second
    Seconds,       \* timeouts asked for, in ticks
    Invalid,       \* SOCKET_INVALID
    None

ConnectAssumption ==
    /\ Systems \subseteq {"linux", "mac", "windows"}
    /\ R \in Nat \ {0} /\ R % 2 = 0 /\ S \in Nat \ {0} /\ Seconds \subseteq Nat

VARIABLES
    system,
    blocking,      \* the mode of the socket
    flags,         \* the mode to put back: the one read before, on Windows blocking
    link,          \* "none", "pending", "connected", "failed" with a pending error
    pc,
    second,        \* of this call, in ticks
    status,        \* of this call
    disturbed,     \* history: the system refused to put the mode back
    instant,       \* history: connect() failed at once
    elapsed,       \* the time of the call is over
    room           \* the kernel's buffer can take bytes

vars == <<system, blocking, flags, link, pc, second, status, disturbed, instant, elapsed, room>>

Unix == system # "windows"

Init ==
    /\ system \in Systems /\ blocking \in BOOLEAN /\ flags = None /\ link = "none" /\ pc = "idle"
    /\ second = 0 /\ status = None /\ disturbed = FALSE /\ instant = FALSE /\ elapsed = FALSE
    /\ room = TRUE

-----------------------------------------------------------------------------
(* socket_connect_timeout *)

\* Lines 296 to 302.  The second disjunct: the mode cannot be read or changed, and stays.
Begin(t) ==
    /\ pc = "idle" /\ link = "none" /\ second' = t /\ elapsed' = FALSE
    /\ \/ /\ flags' = (Unix => blocking) /\ blocking' = FALSE
          /\ pc' = "connect" /\ UNCHANGED status
       \/ flags' = blocking /\ pc' = "returned" /\ status' = Invalid /\ UNCHANGED blocking
    /\ UNCHANGED <<system, link, disturbed, instant, room>>

\* Lines 305 to 308: made, under way, or failed at once.
Connect ==
    /\ pc = "connect"
    /\ \/ link' = "connected" /\ pc' = "restore" /\ status' = 0 /\ UNCHANGED instant
       \/ link' = "pending" /\ pc' = "select" /\ UNCHANGED <<status, instant>>
       \/ instant' = TRUE /\ pc' = "select" /\ UNCHANGED <<link, status>>
    /\ UNCHANGED <<system, blocking, flags, second, disturbed, elapsed, room>>

\* Line 314: the milliseconds, rounded without carry.
Milliseconds == ((second % (R * S)) + R \div 2) \div R

Refused == system = "mac" /\ Milliseconds >= S

Writable ==
    \/ link = "connected"
    \/ Unix /\ link \in {"none", "failed"}

\* Lines 310 to 319: writable.
SelectReady ==
    /\ pc = "select" /\ ~Refused /\ Writable /\ pc' = "verify"
    /\ UNCHANGED <<system, blocking, flags, link, second, status, disturbed, instant, elapsed, room>>

\* Does not restore the mode.
Faulty_GiveUp == pc' = "returned" /\ status' = Invalid

\* Lines 328 to 331.
GiveUp == pc' = "restore" /\ status' = Invalid

\* The time is over.
SelectTimesOut ==
    /\ pc = "select" /\ ~Refused /\ ~Writable /\ elapsed /\ GiveUp
    /\ UNCHANGED <<system, blocking, flags, link, second, disturbed, instant, elapsed, room>>

\* select fails: it is interrupted, or refuses its timeout.
SelectFails ==
    /\ pc = "select" /\ GiveUp
    /\ UNCHANGED <<system, blocking, flags, link, second, disturbed, instant, elapsed, room>>

\* SO_ERROR
SoError == IF link = "failed" THEN 1 ELSE 0

\* Lines 320 to 327: getsockopt tells the error, or fails.
Verify ==
    /\ pc = "verify" /\ pc' = "restore"
    /\ status' = (IF SoError # 0 THEN Invalid ELSE 0) \/ status' = Invalid
    /\ UNCHANGED <<system, blocking, flags, link, second, disturbed, instant, elapsed, room>>

\* Lines 334 to 342: on Windows always to blocking.
Restore ==
    /\ pc = "restore" /\ pc' = "returned"
    /\ \/ blocking' = flags /\ UNCHANGED <<status, disturbed>>
       \/ status' = Invalid /\ disturbed' = TRUE /\ UNCHANGED blocking
    /\ UNCHANGED <<system, flags, link, second, instant, elapsed, room>>

\* The program looks at the result: it goes on, or tries again with a new socket.
Continue ==
    /\ pc = "returned" /\ status = 0 /\ pc' = "idle"
    /\ UNCHANGED <<system, blocking, flags, link, second, status, disturbed, instant, elapsed, room>>

-----------------------------------------------------------------------------
(* socket_send_nowait, on a connected socket in blocking mode *)

\* Line 348: one call.  Lines 350 and 351: three; without the mode, send all the same.
Nowait ==
    /\ pc = "idle" /\ link = "connected" /\ blocking
    /\ \/ Unix /\ UNCHANGED vars
       \/ ~Unix /\ blocking' = FALSE /\ pc' = "send"
       \/ ~Unix /\ pc' = "last" /\ UNCHANGED blocking
    /\ UNCHANGED <<system, flags, link, second, status, disturbed, instant, elapsed, room>>

\* Lines 351 and 352: returns at once if the mode or the room allows it.
Send ==
    /\ pc \in {"send", "last"} /\ (blocking => room)
    /\ pc' = (IF pc = "send" THEN "unset" ELSE "idle")
    /\ UNCHANGED <<system, blocking, flags, link, second, status, disturbed, instant, elapsed, room>>

\* Lines 353 to 355.
Unset ==
    /\ pc = "unset" /\ pc' = "idle"
    /\ \/ blocking' = TRUE /\ UNCHANGED disturbed
       \/ disturbed' = TRUE /\ UNCHANGED blocking
    /\ UNCHANGED <<system, flags, link, second, status, instant, elapsed, room>>

-----------------------------------------------------------------------------
(* The kernel *)

Progress ==
    /\ link = "pending" /\ link' \in {"connected", "failed"}
    /\ UNCHANGED <<system, blocking, flags, pc, second, status, disturbed, instant, elapsed, room>>

TimePasses ==
    /\ pc = "select" /\ ~elapsed /\ elapsed' = TRUE
    /\ UNCHANGED <<system, blocking, flags, link, pc, second, status, disturbed, instant, room>>

RoomChanges ==
    /\ link = "connected" /\ room' = ~room
    /\ UNCHANGED <<system, blocking, flags, link, pc, second, status, disturbed, instant, elapsed>>

Next ==
    \/ \E t \in Seconds : Begin(t)
    \/ Connect \/ SelectReady \/ SelectTimesOut \/ SelectFails \/ Verify \/ Restore \/ Continue
    \/ Nowait \/ Send \/ Unset \/ Progress \/ TimePasses \/ RoomChanges

Spec == Init /\ [][Next]_vars

-----------------------------------------------------------------------------
(* Properties *)

\* The socket is in its mode again when socket_connect_timeout returns and after each
\* socket_send_nowait (on Windows in blocking mode): when the connection is made, fails
\* or times out, when select is interrupted or refuses its timeout, when getsockopt or
\* the first change of the mode fails.  Only a system that refuses to put the mode back
\* is set aside, and what comes after that.
ModeIsPutBack ==
    pc \in {"returned", "idle"} /\ flags # None /\ ~disturbed => blocking = flags

\* A connection that was under way and then failed is not reported as made, and
\* one that is under way still is not either.
ReportedIsConnected ==
    pc = "returned" /\ status = 0 /\ ~instant => link = "connected"

\* socket.h: "SOCKET_INVALID for failure", which is what connect() reported.
InstantFailureIsReported == pc = "returned" /\ instant => status = Invalid
=============================================================================
