--------------------------- MODULE SocketDeadline ---------------------------
(***************************************************************************)
(* socket_recv_all_deadline of src/socket.c and socket_setopt_timeout, by  *)
(* which it bounds each wait: seconds are rounded to milliseconds, and a   *)
(* timeout of nothing is, for the kernel, no timeout.                      *)
(*                                                                         *)
(* Time is counted in ticks, R of them in a millisecond: what of a double  *)
(* the rounding tells apart.  A second has S milliseconds.  The kernel is  *)
(* prompt: a wait ends in the tick in which it can.                        *)
(***************************************************************************)
EXTENDS Integers

CONSTANTS
    R,             \* even: half a millisecond is a number of ticks
    S,             \* milliseconds of a second: 1000
    MaxSeconds,    \* INT_MAX / 1000
    Lengths,       \* lengths of the calls
    Delays,        \* from a call's start to its deadline, in ticks; may be negative
    MaxTime,       \* bound: ticks
    Idle, Forever

DeadlineAssumption ==
    /\ R \in Nat \ {0} /\ R % 2 = 0 /\ S \in Nat \ {0} /\ MaxSeconds \in Nat \ {0}
    /\ Lengths \subseteq Nat /\ Delays \subseteq Int /\ MaxTime \in Nat

VARIABLES
    now,           \* os_time()
    wire,          \* number of bytes to be read
    open,          \* the other side has not closed
    call,          \* the call, or Idle
    last           \* the call that has returned, with its result

vars == <<now, wire, open, call, last>>

\* Half a millisecond.
Half == R \div 2

-----------------------------------------------------------------------------
(* socket_setopt_timeout *)

\* Lines 271 to 276: rounded to the nearest millisecond, with carry.
Rounded(ticks) ==
    LET s == ticks \div (R * S)
        ms == (ticks - s * R * S + R \div 2) \div R
    IN  IF ms >= S THEN [s |-> s + 1, ms |-> ms - S] ELSE [s |-> s, ms |-> ms]

\* Line 270; setsockopt refuses a part of a second that is not one.
SetsTimeout(ticks) ==
    0 <= ticks /\ ticks <= MaxSeconds * S * R /\ Rounded(ticks).ms < S

\* When a wait that begins now is given up.
GivenUp(ticks) ==
    LET total == R * (Rounded(ticks).s * S + Rounded(ticks).ms)
    IN  IF total = 0 THEN Forever ELSE now + total

-----------------------------------------------------------------------------
(* socket_recv_all_deadline *)

\* A call; `wait' is when its recv gives up, or Idle while it is not in one;
\* `forever' and `late' tell whether a wait had no timeout, and whether a byte came
\* later than the rounding to milliseconds explains.
\* A call sets the timeout anew before each recv, so that it does not depend on earlier
\* calls: a behaviour makes one.  (The last timeout stays on the socket, where the other
\* receiving functions meet it: ReceiverGivesUp in SocketStream.)
Start(n, delay) ==
    /\ call = Idle /\ last = Idle /\ now = 0
    /\ call' = [left |-> n, deadline |-> now + delay, started |-> now, wait |-> Idle,
                forever |-> FALSE, late |-> FALSE]
    /\ UNCHANGED <<now, wire, open, last>>

Returns(ok) ==
    /\ last' = [ok |-> ok, closed |-> ~open, at |-> now, started |-> call.started,
                deadline |-> call.deadline, late |-> call.late]
    /\ call' = Idle

AtHead == call # Idle /\ call.wait = Idle

\* Waits as long as it would have from the start.
Faulty_Remaining == call.deadline - call.started

\* Line 117.
Remaining == call.deadline - now

InTime == Remaining > 0 /\ SetsTimeout(Remaining)

\* Line 118: too late, or no such timeout.
TooLate ==
    /\ AtHead /\ call.left > 0 /\ ~InTime /\ Returns(FALSE)
    /\ UNCHANGED <<now, wire, open>>

\* Lines 118 to 120: the timeout is set and recv waits.
Waits ==
    /\ AtHead /\ call.left > 0 /\ InTime
    /\ call' = [call EXCEPT !.wait = GivenUp(Remaining),
                            !.forever = @ \/ GivenUp(Remaining) = Forever]
    /\ UNCHANGED <<now, wire, open, last>>

Waiting == call # Idle /\ call.wait # Idle

\* Lines 120 and 130 to 131: some of the bytes are there.
Receives ==
    /\ Waiting /\ \E n \in 1 .. call.left :
          /\ n <= wire /\ wire' = wire - n
          /\ call' = [call EXCEPT !.left = @ - n, !.wait = Idle, !.late = @ \/ now > call.deadline + Half]
    /\ UNCHANGED <<now, open, last>>

\* Lines 122 to 126: EINTR, and the loop begins anew.
Interrupted ==
    /\ Waiting /\ wire = 0 /\ open /\ call' = [call EXCEPT !.wait = Idle]
    /\ UNCHANGED <<now, wire, open, last>>

Expired == call.wait # Forever /\ now >= call.wait

\* Lines 127 to 129: the timeout is over or the stream at its end.
Fails ==
    /\ Waiting /\ wire = 0 /\ (Expired \/ ~open) /\ Returns(FALSE)
    /\ UNCHANGED <<now, wire, open>>

\* Line 133.
Succeeds ==
    /\ AtHead /\ call.left = 0 /\ Returns(TRUE)
    /\ UNCHANGED <<now, wire, open>>

-----------------------------------------------------------------------------
(* Time and the other side *)

\* Promptness: nobody computes for a tick, and no wait that can end goes on.
Tick ==
    /\ now < MaxTime /\ now' = now + 1 /\ ~AtHead
    /\ Waiting => wire = 0 /\ open /\ ~Expired
    /\ UNCHANGED <<wire, open, call, last>>

Arrives ==
    /\ open /\ wire < 2 /\ wire' = wire + 1
    /\ UNCHANGED <<now, open, call, last>>

Closes ==
    /\ open /\ open' = FALSE
    /\ UNCHANGED <<now, wire, call, last>>

-----------------------------------------------------------------------------
Init == now = 0 /\ wire = 0 /\ open = TRUE /\ call = Idle /\ last = Idle

Next ==
    \/ \E n \in Lengths, delay \in Delays : Start(n, delay)
    \/ TooLate \/ Waits \/ Receives \/ Interrupted \/ Fails \/ Succeeds
    \/ Tick \/ Arrives \/ Closes

Spec == Init /\ [][Next]_vars

-----------------------------------------------------------------------------
(* Properties *)

\* However often a wait is interrupted or ends with a part of the bytes, a call
\* whose timeouts were timeouts does not go on for more than half a millisecond
\* past its deadline: the next timeout is what is left, not what there was.
NoLongWait ==
    call # Idle /\ ~call.forever =>
        now <= call.deadline + Half \/ now = call.started

\* A call gives up only when it is within half a millisecond of its deadline or
\* the other side has closed: no timeout is refused because its milliseconds
\* round up to a second.  (Deadlines beyond INT_MAX / 1000 seconds are refused.)
GivesUpLate ==
    last # Idle /\ ~last.ok /\ last.deadline - last.started <= MaxSeconds * S * R =>
        last.closed \/ last.at + Half >= last.deadline

\* socket.h:199, "`True` if every byte was received before the deadline, otherwise
\* `False`": no byte came later than the rounding explains.
TrueMeansBeforeTheDeadline == last # Idle /\ last.ok => ~last.late
=============================================================================
