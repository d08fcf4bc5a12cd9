------------------------- MODULE SocketParts_proofs -------------------------
(***************************************************************************)
(* What the run of SocketParts checks of the socket functions, for every   *)
(* value of the constants: socket_connect_timeout and socket_send_nowait   *)
(* on any of the three systems, socket_recv_all_deadline, and a stream     *)
(* between socket_send_all, socket_sendfile and socket_recv_all.           *)
(***************************************************************************)
EXTENDS SocketParts, Recursion, SequenceTheorems

\* Whether the mode is back depends on where in the two functions the thread is: on Windows
\* it is always "blocking" that is put back, unless nothing was changed, and only there does
\* socket_send_nowait take steps.
ModeInd ==
    /\ pc \in {"returned", "idle", "last"} /\ flags # None /\ ~disturbed => blocking = flags
    /\ ~Connect!Unix => flags \in {None, TRUE} \/ (pc = "returned" /\ status = Invalid)
    /\ ~Connect!Unix /\ pc \in {"connect", "select", "verify", "restore"} => flags = TRUE
    /\ pc \in {"send", "unset", "last"} => ~Connect!Unix

\* A connection under way is pending, made or failed while the thread waits for it, made or
\* failed when it verifies, and made if the status says so.
StatusInd ==
    ~instant =>
        /\ pc = "select" => progress \in {"pending", "connected", "failed"}
        /\ pc = "verify" => progress \in {"connected", "failed"}
        /\ pc \in {"restore", "returned"} /\ status = 0 => progress = "connected"

ConnectInd == part = "connect" => ModeInd /\ StatusInd

\* A socket has a status for failure of its own.
FailureIsNotSuccess == Invalid # 0

-----------------------------------------------------------------------------
\* On every path the mode is put back, or the system has refused to.
LEMMA ModeStep ==
    ASSUME FailureIsNotSuccess, ModeInd, Connect!Next
    PROVE  ModeInd'
<1> USE DEF ModeInd, Connect!Unix, FailureIsNotSuccess
<1>1. ASSUME NEW t \in Seconds, Connect!Begin(t) PROVE ModeInd'
  BY <1>1 DEF Connect!Begin
<1>2. CASE Connect!Connect
  BY <1>2 DEF Connect!Connect
<1>3. CASE Connect!SelectReady
  BY <1>3 DEF Connect!SelectReady
<1>4. CASE Connect!SelectTimesOut
  BY <1>4 DEF Connect!SelectTimesOut, Connect!GiveUp
<1>5. CASE Connect!SelectFails
  BY <1>5 DEF Connect!SelectFails, Connect!GiveUp
<1>6. CASE Connect!Verify
  BY <1>6 DEF Connect!Verify
<1>7. CASE Connect!Restore
  BY <1>7 DEF Connect!Restore
<1>8. CASE Connect!Continue
  BY <1>8 DEF Connect!Continue
<1>9. CASE Connect!Nowait
  <2>1. CASE UNCHANGED Connect!vars
    BY <2>1 DEF Connect!vars
  <2>2. CASE ~Connect!Unix /\ blocking' = FALSE /\ pc' = "send"
    BY <1>9, <2>2 DEF Connect!Nowait
  <2>3. CASE ~Connect!Unix /\ pc' = "last" /\ UNCHANGED blocking
    BY <1>9, <2>3 DEF Connect!Nowait
  <2> QED BY <1>9, <2>1, <2>2, <2>3 DEF Connect!Nowait
<1>10. CASE Connect!Send
  BY <1>10 DEF Connect!Send
<1>11. CASE Connect!Unset
  BY <1>11 DEF Connect!Unset
<1>12. CASE Connect!Progress
  BY <1>12 DEF Connect!Progress
<1>13. CASE Connect!TimePasses
  BY <1>13 DEF Connect!TimePasses
<1>14. CASE Connect!RoomChanges
  BY <1>14 DEF Connect!RoomChanges
<1> QED BY <1>1, <1>2, <1>3, <1>4, <1>5, <1>6, <1>7, <1>8, <1>9, <1>10, <1>11, <1>12, <1>13,
           <1>14 DEF Connect!Next

\* The status 0 is given to connections that are made.
LEMMA StatusStep ==
    ASSUME FailureIsNotSuccess, StatusInd, Connect!Next
    PROVE  StatusInd'
<1> USE DEF StatusInd, FailureIsNotSuccess
<1>1. ASSUME NEW t \in Seconds, Connect!Begin(t) PROVE StatusInd'
  BY <1>1 DEF Connect!Begin
<1>2. CASE Connect!Connect
  BY <1>2 DEF Connect!Connect
<1>3. CASE Connect!SelectReady
  BY <1>3 DEF Connect!SelectReady, Connect!Writable
<1>4. CASE Connect!SelectTimesOut
  BY <1>4 DEF Connect!SelectTimesOut, Connect!GiveUp
<1>5. CASE Connect!SelectFails
  BY <1>5 DEF Connect!SelectFails, Connect!GiveUp
<1>6. CASE Connect!Verify
  BY <1>6 DEF Connect!Verify, Connect!SoError
<1>7. CASE Connect!Restore
  BY <1>7 DEF Connect!Restore
<1>8. CASE Connect!Continue
  BY <1>8 DEF Connect!Continue
<1>9. CASE Connect!Nowait
  BY <1>9 DEF Connect!Nowait, Connect!vars
<1>10. CASE Connect!Send
  BY <1>10 DEF Connect!Send
<1>11. CASE Connect!Unset
  BY <1>11 DEF Connect!Unset
<1>12. CASE Connect!Progress
  BY <1>12 DEF Connect!Progress
<1>13. CASE Connect!TimePasses
  BY <1>13 DEF Connect!TimePasses
<1>14. CASE Connect!RoomChanges
  BY <1>14 DEF Connect!RoomChanges
<1> QED BY <1>1, <1>2, <1>3, <1>4, <1>5, <1>6, <1>7, <1>8, <1>9, <1>10, <1>11, <1>12, <1>13,
           <1>14 DEF Connect!Next

\* socket_connect_timeout and socket_send_nowait put the socket back into its mode on every
\* path, an interrupted select and a failing getsockopt included, as long as the system has
\* not refused to put it back, and a connection that was under way is reported as made only
\* if it is: for every timeout, on Linux, macOS and Windows.
THEOREM ConnectIsTruthful ==
    ASSUME FailureIsNotSuccess
    PROVE  Spec => []ConnectTellsTheTruth
<1>1. Init => ConnectInd
  BY DEF Init, Connect!Init, ConnectInd, ModeInd, StatusInd, Connect!Unix
<1>2. ConnectInd /\ [Next]_vars => ConnectInd'
  <2> SUFFICES ASSUME ConnectInd, [Next]_vars PROVE ConnectInd'
    OBVIOUS
  <2>1. CASE StreamStep
    BY <2>1 DEF StreamStep, OfStream, ConnectInd
  <2>2. CASE DeadlineStep
    BY <2>2 DEF DeadlineStep, ConnectInd
  <2>3. CASE ConnectStep
    BY <2>3, ModeStep, StatusStep DEF ConnectStep, ConnectInd
  <2>4. CASE UNCHANGED vars
    BY <2>4 DEF vars, connectVars, ConnectInd, ModeInd, StatusInd, Connect!Unix
  <2> QED BY <2>1, <2>2, <2>3, <2>4 DEF Next
<1>3. ConnectInd => ConnectTellsTheTruth
  BY DEF ConnectInd, ModeInd, StatusInd, ConnectTellsTheTruth, Connect!ModeIsPutBack,
     Connect!ReportedIsConnected
<1> QED BY <1>1, <1>2, <1>3, PTL DEF Spec

-----------------------------------------------------------------------------
(* socket_recv_all_deadline *)

\* Calls of socket_recv_all_deadline, and those that have returned.
Calls ==
    [left : Nat, deadline : Int, started : Nat, wait : Int \cup {Idle, Forever},
     forever : BOOLEAN, late : BOOLEAN]
Results ==
    [ok : BOOLEAN, closed : BOOLEAN, at : Nat, started : Nat, deadline : Int, late : BOOLEAN]

\* The two markers are no times, and Idle is no call.
MarkersAreNoTimes ==
    Idle \notin Int /\ Forever \notin Int /\ Idle # Forever /\ Idle \notin Calls \cup Results

\* A wait ends within half a millisecond of the deadline, or has no end.
WaitFits(c) ==
    c.wait # Idle =>
        \/ c.wait = Forever /\ c.forever
        \/ /\ c.wait \in Int
           /\ c.wait <= c.deadline + Deadline!Half
           /\ c.wait + Deadline!Half >= c.deadline

\* No call began in the future.
CallInd == call # Idle => call \in Calls /\ call.started <= now /\ WaitFits(call)

LastInd == last # Idle => last \in Results

DeadlineInd ==
    /\ now \in Nat /\ CallInd /\ LastInd
    /\ Deadline!NoLongWait /\ Deadline!GivesUpLate

\* Division with remainder.
LEMMA Quotient ==
    ASSUME NEW x \in Nat, NEW n \in Nat \ {0}
    PROVE  /\ x \div n \in Nat
           /\ n * (x \div n) <= x /\ x < n * (x \div n) + n
OBVIOUS

\* socket_setopt_timeout rounds to the nearest millisecond, carrying into the seconds.
LEMMA RoundedIsNear ==
    ASSUME SocketAssumption, NEW t \in Nat
    PROVE  /\ Deadline!Rounded(t).s \in Nat /\ Deadline!Rounded(t).ms \in 0 .. S - 1
           /\ R * (Deadline!Rounded(t).s * S + Deadline!Rounded(t).ms) <= t + Deadline!Half
           /\ R * (Deadline!Rounded(t).s * S + Deadline!Rounded(t).ms) + Deadline!Half >= t
<1> DEFINE H == Deadline!Half
           s == t \div (R * S)
           rest == t - s * R * S
           ms == (rest + H) \div R
<1>1. R \in Nat \ {0} /\ S \in Nat \ {0} /\ R % 2 = 0
  BY DEF SocketAssumption, Deadline!DeadlineAssumption
<1>2. H \in Nat /\ R = 2 * H
  BY <1>1 DEF Deadline!Half
<1>3. R * S \in Nat \ {0}
  BY <1>1
<1>4. s \in Nat /\ (R * S) * s <= t /\ t < (R * S) * s + R * S
  BY <1>3, Quotient
<1> HIDE DEF s
<1>5. (R * S) * s = s * R * S /\ s * R * S \in Nat
  BY <1>1, <1>4
<1>6. rest \in Nat /\ rest < R * S
  BY <1>3, <1>4, <1>5
<1> HIDE DEF rest, H
<1>7. ms \in Nat /\ R * ms <= rest + H /\ rest + H < R * ms + R
  <2>1. rest + H \in Nat
    BY <1>2, <1>6
  <2> QED BY <1>1, <2>1, Quotient
<1> HIDE DEF ms
<1>8. ms <= S
  <2> SUFFICES ASSUME ms >= S + 1 PROVE FALSE
    BY <1>1, <1>7
  <2>1. R * ms >= R * (S + 1)
    BY <1>1, <1>7
  <2>2. R * (S + 1) = R * S + R
    BY <1>1
  <2> QED BY <1>1, <1>2, <1>3, <1>6, <1>7, <2>1, <2>2
<1>9. Deadline!Rounded(t) = IF ms >= S THEN [s |-> s + 1, ms |-> ms - S] ELSE [s |-> s, ms |-> ms]
  BY DEF Deadline!Rounded, ms, rest, s, H, Deadline!Half
<1> DEFINE r == Deadline!Rounded(t)
<1>10. r.s \in Nat /\ r.ms \in 0 .. S - 1 /\ r.s * S + r.ms = s * S + ms
  <2>1. CASE ms >= S
    <3>1. r.s = s + 1 /\ r.ms = ms - S
      BY <1>9, <2>1
    <3>2. (s + 1) * S = s * S + S
      BY <1>1, <1>4
    <3> QED BY <3>1, <3>2, <2>1, <1>1, <1>4, <1>7, <1>8
  <2>2. CASE ~(ms >= S)
    <3>1. r.s = s /\ r.ms = ms
      BY <1>9, <2>2
    <3> QED BY <3>1, <2>2, <1>1, <1>4, <1>7
  <2> QED BY <2>1, <2>2
<1>11. R * (s * S + ms) = s * R * S + R * ms
  BY <1>1, <1>4, <1>7
<1>12. t = s * R * S + rest
  BY <1>5 DEF rest
<1>13. R * (s * S + ms) <= t + H /\ R * (s * S + ms) + H >= t
  BY <1>1, <1>2, <1>5, <1>6, <1>7, <1>11, <1>12
<1> QED BY <1>10, <1>13 DEF H

\* A timeout that has milliseconds at all is of some time, and none is refused for them.
LEMMA TimeoutsAreSet ==
    ASSUME SocketAssumption, NEW t \in Nat, t <= MaxSeconds * S * R
    PROVE  Deadline!SetsTimeout(t)
<1>1. Deadline!Rounded(t).ms \in 0 .. S - 1 /\ S \in Nat
  BY RoundedIsNear DEF SocketAssumption, Deadline!DeadlineAssumption
<1> QED BY <1>1 DEF Deadline!SetsTimeout

\* Half a unit, in the clock's resolution.
LEMMA HalfIsHalf ==
    ASSUME SocketAssumption
    PROVE  Deadline!Half \in Nat
BY DEF SocketAssumption, Deadline!DeadlineAssumption, Deadline!Half

\* What a wait is given up at fits its deadline.
LEMMA GivenUpFits ==
    ASSUME SocketAssumption, now \in Nat, NEW d \in Int, NEW t \in Nat, t = d - now
    PROVE  \/ Deadline!GivenUp(t) = Forever
           \/ /\ Deadline!GivenUp(t) \in Int
              /\ Deadline!GivenUp(t) <= d + Deadline!Half
              /\ Deadline!GivenUp(t) + Deadline!Half >= d
<1> DEFINE total == R * (Deadline!Rounded(t).s * S + Deadline!Rounded(t).ms)
<1>1. total <= t + Deadline!Half /\ total + Deadline!Half >= t
  BY RoundedIsNear
<1>2. total \in Int
  BY RoundedIsNear DEF SocketAssumption, Deadline!DeadlineAssumption
<1>3. Deadline!GivenUp(t) = IF total = 0 THEN Forever ELSE now + total
  BY DEF Deadline!GivenUp
<1> HIDE DEF total
<1> QED BY <1>1, <1>2, <1>3, HalfIsHalf

\* A call begins,
LEMMA DeadlineStart ==
    ASSUME SocketAssumption, MarkersAreNoTimes, DeadlineInd,
           NEW n \in Lengths, NEW delay \in Delays, Deadline!Start(n, delay)
    PROVE  DeadlineInd'
<1>1. /\ now = 0 /\ last = Idle /\ UNCHANGED <<now, last>>
      /\ call' = [left |-> n, deadline |-> now + delay, started |-> now, wait |-> Idle,
                  forever |-> FALSE, late |-> FALSE]
  BY DEF Deadline!Start
<1>2. n \in Nat /\ delay \in Int
  BY DEF SocketAssumption, Deadline!DeadlineAssumption
<1>3. CallInd' /\ call'.started = now
  BY <1>1, <1>2 DEF CallInd, Calls, WaitFits
<1> QED BY <1>1, <1>3 DEF DeadlineInd, LastInd, Deadline!NoLongWait, Deadline!GivesUpLate

\* A call that fails has a deadline gone by, or one that was refused.
LEMMA DeadlineTooLate ==
    ASSUME SocketAssumption, MarkersAreNoTimes, DeadlineInd, Deadline!TooLate
    PROVE  DeadlineInd'
<1>1. /\ call # Idle /\ ~Deadline!InTime /\ UNCHANGED <<now, open>> /\ call' = Idle
      /\ last' = [ok |-> FALSE, closed |-> ~open, at |-> now, started |-> call.started,
                  deadline |-> call.deadline, late |-> call.late]
  BY DEF Deadline!TooLate, Deadline!AtHead, Deadline!Returns
<1>2. call \in Calls /\ call.started <= now /\ now \in Nat /\ now' = now
  BY <1>1 DEF DeadlineInd, CallInd
<1>3. /\ last' \in Results /\ last'.at = now /\ last'.deadline = call.deadline
      /\ last'.started = call.started
  BY <1>1, <1>2 DEF Results, Calls
<1>4. call.deadline \in Int /\ call.started \in Nat
  BY <1>2 DEF Calls
<1>5. ASSUME call.deadline - call.started <= MaxSeconds * S * R
      PROVE  now + Deadline!Half >= call.deadline
  <2>1. SUFFICES ASSUME call.deadline > now PROVE FALSE
    BY <1>2, <1>4, HalfIsHalf
  <2>2. call.deadline - now \in Nat /\ call.deadline - now <= MaxSeconds * S * R
    <3>1. MaxSeconds * S * R \in Nat
      BY DEF SocketAssumption, Deadline!DeadlineAssumption
    <3> QED BY <3>1, <1>2, <1>4, <1>5, <2>1
  <2>3. Deadline!SetsTimeout(call.deadline - now)
    BY <2>2, TimeoutsAreSet
  <2> QED BY <1>1, <1>2, <1>4, <2>1, <2>3 DEF Deadline!InTime, Deadline!Remaining
<1>6. Deadline!GivesUpLate'
  BY <1>3, <1>5 DEF Deadline!GivesUpLate, Deadline!Half
<1> QED BY <1>1, <1>2, <1>3, <1>6 DEF DeadlineInd, CallInd, LastInd, Deadline!NoLongWait

\* it waits,
LEMMA DeadlineWaits ==
    ASSUME SocketAssumption, MarkersAreNoTimes, DeadlineInd, Deadline!Waits
    PROVE  DeadlineInd'
<1> DEFINE w == Deadline!GivenUp(call.deadline - now)
<1>1. /\ call # Idle /\ call.deadline - now > 0 /\ UNCHANGED <<now, last>>
      /\ call' = [call EXCEPT !.wait = w, !.forever = @ \/ w = Forever]
  BY DEF Deadline!Waits, Deadline!AtHead, Deadline!InTime, Deadline!Remaining
<1>2. call \in Calls /\ call.started <= now /\ now \in Nat
  BY <1>1 DEF DeadlineInd, CallInd
<1>3. call.deadline \in Int /\ call.deadline - now \in Nat
  BY <1>1, <1>2 DEF Calls
<1>4. w = Forever \/ (/\ w \in Int /\ w <= call.deadline + Deadline!Half
                      /\ w + Deadline!Half >= call.deadline)
  BY <1>2, <1>3, GivenUpFits
<1> HIDE DEF w
<1>5. /\ call' \in Calls /\ call'.wait = w /\ call'.deadline = call.deadline
      /\ call'.started = call.started
      /\ call'.forever = (call.forever \/ w = Forever)
  BY <1>1, <1>2, <1>4 DEF Calls
<1>6. WaitFits(call')
  BY <1>4, <1>5 DEF WaitFits
<1>7. CallInd'
  BY <1>1, <1>2, <1>5, <1>6 DEF CallInd, WaitFits, Deadline!Half
<1>8. Deadline!NoLongWait'
  BY <1>1, <1>5 DEF DeadlineInd, Deadline!NoLongWait, Deadline!Half
<1> QED BY <1>1, <1>7, <1>8 DEF DeadlineInd, LastInd, Deadline!GivesUpLate

\* The wait is over: some bytes, or an interruption.
LEMMA DeadlineGoesOn ==
    ASSUME SocketAssumption, MarkersAreNoTimes, DeadlineInd,
           Deadline!Receives \/ Deadline!Interrupted
    PROVE  DeadlineInd'
<1>1. /\ call # Idle /\ UNCHANGED <<now, last>>
      /\ \/ \E n \in 1 .. call.left :
               call' = [call EXCEPT !.left = @ - n, !.wait = Idle,
                                    !.late = @ \/ now > call.deadline + Deadline!Half]
         \/ call' = [call EXCEPT !.wait = Idle]
  BY DEF Deadline!Receives, Deadline!Interrupted, Deadline!Waiting
<1>2. call \in Calls /\ call.started <= now /\ now \in Nat
  BY <1>1 DEF DeadlineInd, CallInd
<1>3. /\ call' \in Calls /\ call'.wait = Idle /\ call'.deadline = call.deadline
      /\ call'.started = call.started /\ call'.forever = call.forever
  <2>1. CASE call' = [call EXCEPT !.wait = Idle]
    BY <1>2, <2>1 DEF Calls
  <2>2. ASSUME NEW n \in 1 .. call.left,
               call' = [call EXCEPT !.left = @ - n, !.wait = Idle,
                                    !.late = @ \/ now > call.deadline + Deadline!Half]
        PROVE  <1>3
    <3> DEFINE late == call.late \/ now > call.deadline + Deadline!Half
    <3>1. call.left - n \in Nat /\ late \in BOOLEAN
      BY <1>2 DEF Calls
    <3>2. call' = [call EXCEPT !.left = call.left - n, !.wait = Idle, !.late = late]
      BY <1>2, <2>2 DEF Calls
    <3> HIDE DEF late
    <3> QED BY <1>2, <3>1, <3>2 DEF Calls
  <2> QED BY <1>1, <2>1, <2>2
<1>4. CallInd'
  BY <1>1, <1>2, <1>3 DEF CallInd, WaitFits
<1>5. Deadline!NoLongWait'
  BY <1>1, <1>3 DEF DeadlineInd, Deadline!NoLongWait, Deadline!Half
<1> QED BY <1>1, <1>4, <1>5 DEF DeadlineInd, LastInd, Deadline!GivesUpLate

\* It returns.
LEMMA DeadlineReturns ==
    ASSUME SocketAssumption, MarkersAreNoTimes, DeadlineInd,
           Deadline!Fails \/ Deadline!Succeeds
    PROVE  DeadlineInd'
<1>1. PICK ok \in BOOLEAN :
        /\ call # Idle /\ UNCHANGED <<now, open>> /\ call' = Idle
        /\ last' = [ok |-> ok, closed |-> ~open, at |-> now, started |-> call.started,
                    deadline |-> call.deadline, late |-> call.late]
        /\ ~ok => call.wait # Idle /\ (Deadline!Expired \/ ~open)
  BY DEF Deadline!Fails, Deadline!Succeeds, Deadline!Waiting, Deadline!AtHead,
         Deadline!Returns
<1>2. call \in Calls /\ WaitFits(call) /\ now \in Nat
  BY <1>1 DEF DeadlineInd, CallInd
<1>3. /\ last' \in Results /\ last'.at = now /\ last'.deadline = call.deadline
      /\ last'.ok = ok /\ last'.closed = ~open
  BY <1>1, <1>2 DEF Results, Calls
<1>4. ~ok => ~open \/ now + Deadline!Half >= call.deadline
  BY <1>1, <1>2, HalfIsHalf DEF Deadline!Expired, WaitFits, Calls
<1>5. Deadline!GivesUpLate'
  BY <1>3, <1>4 DEF Deadline!GivesUpLate, Deadline!Half
<1> QED BY <1>1, <1>3, <1>5 DEF DeadlineInd, CallInd, LastInd, Deadline!NoLongWait

\* A tick goes by only while a wait is not to be given up.
LEMMA DeadlineTick ==
    ASSUME SocketAssumption, MarkersAreNoTimes, DeadlineInd, Deadline!Tick
    PROVE  DeadlineInd'
<1>1. /\ now' = now + 1 /\ UNCHANGED <<call, last>>
      /\ call # Idle => call.wait # Idle /\ ~Deadline!Expired
  BY DEF Deadline!Tick, Deadline!AtHead, Deadline!Waiting
<1>2. now \in Nat /\ CallInd
  BY DEF DeadlineInd
<1>3. CallInd'
  BY <1>1, <1>2 DEF CallInd, WaitFits, Deadline!Half, Calls
<1>4. Deadline!NoLongWait'
  <2> SUFFICES ASSUME call # Idle, ~call.forever PROVE now + 1 <= call.deadline + Deadline!Half
    BY <1>1 DEF Deadline!NoLongWait, Deadline!Half
  <2>1. call.wait \in Int /\ call.wait <= call.deadline + Deadline!Half
    BY <1>1, <1>2 DEF CallInd, WaitFits
  <2>2. now < call.wait
    BY <1>1, <1>2, <2>1 DEF MarkersAreNoTimes, Deadline!Expired
  <2>3. call.deadline \in Int
    BY <1>2 DEF CallInd, Calls
  <2> QED BY <1>2, <2>1, <2>2, <2>3, HalfIsHalf
<1> QED BY <1>1, <1>2, <1>3, <1>4 DEF DeadlineInd, LastInd, Deadline!GivesUpLate

\* What it does not touch.
LEMMA DeadlineSame ==
    ASSUME DeadlineInd, UNCHANGED <<now, call, last>>
    PROVE  DeadlineInd'
BY DEF DeadlineInd, CallInd, LastInd, WaitFits, Deadline!NoLongWait, Deadline!GivesUpLate,
       Deadline!Half

\* Each step of a receive with a deadline keeps the invariant.
LEMMA DeadlineNext ==
    ASSUME SocketAssumption, MarkersAreNoTimes, DeadlineInd, Deadline!Next
    PROVE  DeadlineInd'
<1>1. CASE Deadline!Arrives \/ Deadline!Closes
  BY <1>1, DeadlineSame DEF Deadline!Arrives, Deadline!Closes
<1> QED BY <1>1, DeadlineStart, DeadlineTooLate, DeadlineWaits, DeadlineGoesOn, DeadlineReturns,
           DeadlineTick DEF Deadline!Next

\* socket_recv_all_deadline neither waits on past its deadline nor gives up before it, by
\* more than half a millisecond: for every length, every deadline, every resolution of the
\* clock, and however often its waits are interrupted or end with a part of the bytes.
THEOREM DeadlinesAreKept ==
    ASSUME MarkersAreNoTimes
    PROVE  Spec => []DeadlineIsKept
<1> DEFINE Ind == part = "deadline" => DeadlineInd
<1>1. Init => Ind
  BY DEF Init, Deadline!Init, DeadlineInd, CallInd, LastInd, Deadline!NoLongWait,
         Deadline!GivesUpLate
<1>2. Ind /\ [Next]_vars => Ind'
  <2> SUFFICES ASSUME Ind, [Next]_vars PROVE Ind'
    OBVIOUS
  <2>1. CASE StreamStep
    BY <2>1 DEF StreamStep, OfStream
  <2>2. CASE DeadlineStep
    BY <2>2, SocketAssumption, DeadlineNext DEF DeadlineStep
  <2>3. CASE ConnectStep
    BY <2>3 DEF ConnectStep
  <2>4. CASE UNCHANGED vars
    BY <2>4, DeadlineSame DEF vars, deadlineVars
  <2> QED BY <2>1, <2>2, <2>3, <2>4 DEF Next
<1>3. Ind => DeadlineIsKept
  BY DEF DeadlineInd, DeadlineIsKept
<1> HIDE DEF Ind
<1> QED BY <1>1, <1>2, <1>3, PTL DEF Spec

-----------------------------------------------------------------------------
(* Sequences *)

\* The pieces of a sequence of pieces, put together one by one.
JoinedBy(f, pieces, B) ==
    /\ f \in [0 .. Len(pieces) -> Seq(B)]
    /\ f[0] = <<>>
    /\ \A i \in 1 .. Len(pieces) : f[i] = f[i - 1] \o pieces[i]

\* FlattenSeq does that.
LEMMA FlattenJoins ==
    ASSUME NEW B, NEW pieces \in Seq(Seq(B))
    PROVE  \E f : JoinedBy(f, pieces, B) /\ Stream!FlattenSeq(pieces) = f[Len(pieces)]
<1> DEFINE N == Len(pieces)
           X == Seq(B)
           step == [i \in 1 .. N |-> [s \in X |-> s \o pieces[i]]]
           Table(f) == f = [i \in 1 .. N |-> IF i = 1 THEN pieces[i] ELSE f[i - 1] \o pieces[i]]
           flatten == CHOOSE f : Table(f)
<1>1. N \in Nat /\ pieces \in [1 .. N -> X]
  BY LenProperties
<1>2. IsStep(step, N, X)
  <2>1. \A i \in 1 .. N, s \in X : s \o pieces[i] \in X
    BY <1>1, ConcatProperties
  <2> HIDE DEF X, N
  <2> QED BY <2>1 DEF IsStep
<1>3. <<>> \in X
  OBVIOUS
<1>4. PICK g : Computes(g, N, X, <<>>, step)
  <2> HIDE DEF X, N, step
  <2> QED BY <1>1, <1>2, <1>3, RecursiveFunctionExists
<1>5. /\ g \in [0 .. N -> X] /\ g[0] = <<>>
      /\ \A i \in 1 .. N : g[i] = g[i - 1] \o pieces[i]
  <2>1. g \in [0 .. N -> X] /\ g[0] = <<>> /\ \A i \in 1 .. N : g[i] = step[i][g[i - 1]]
    BY <1>4 DEF Computes
  <2> HIDE DEF X, N
  <2>2. \A i \in 1 .. N : g[i - 1] \in X
    <3>1. \A i \in 1 .. N : i - 1 \in 0 .. N
      BY <1>1
    <3> QED BY <2>1, <3>1
  <2> QED BY <2>1, <2>2
<1>6. JoinedBy(g, pieces, B)
  BY <1>5 DEF JoinedBy
<1>7. CASE N = 0
  <2>1. pieces = <<>> /\ Stream!FlattenSeq(pieces) = pieces
    BY <1>7 DEF Stream!FlattenSeq
  <2> QED BY <1>5, <1>6, <1>7, <2>1
<1>8. CASE N # 0
  <2> DEFINE h == [i \in 1 .. N |-> g[i]]
  <2>1. g[1] = pieces[1]
    <3>1. 1 \in 1 .. N /\ pieces[1] \in Seq(B)
      BY <1>1, <1>8
    <3>2. g[1] = g[1 - 1] \o pieces[1]
      BY <1>5, <3>1
    <3>3. 1 - 1 = 0
      OBVIOUS
    <3> QED BY <1>5, <3>1, <3>2, <3>3, ConcatEmptySeq
  <2>2. Table(h)
    <3> HIDE DEF X, N
    <3>1. \A i \in 1 .. N : h[i] = IF i = 1 THEN pieces[i] ELSE h[i - 1] \o pieces[i]
      <4> SUFFICES ASSUME NEW i \in 1 .. N, i # 1 PROVE h[i] = h[i - 1] \o pieces[i]
        BY <2>1
      <4>1. i - 1 \in 1 .. N
        BY <1>1
      <4>2. h[i] = g[i] /\ h[i - 1] = g[i - 1]
        BY <4>1
      <4> QED BY <1>5, <4>2
    <3> QED BY <3>1
  <2>3. Table(flatten)
    <3> HIDE DEF Table, h
    <3> QED BY <2>2
  <2>4. Stream!FlattenSeq(pieces) = flatten[N]
    BY <1>8 DEF Stream!FlattenSeq
  <2> HIDE DEF flatten
  <2> DEFINE T == {i \in 0 .. N : i # 0 => flatten[i] = g[i]}
  <2>5. 0 \in T
    BY <1>1
  <2>6. \A i \in 0 .. N - 1 : i \in T => i + 1 \in T
    <3> SUFFICES ASSUME NEW i \in 0 .. N - 1, i \in T PROVE flatten[i + 1] = g[i + 1]
      BY <1>1
    <3> HIDE DEF N, X
    <3>1. i + 1 \in 1 .. N /\ (i + 1) - 1 = i
      BY <1>1
    <3>2. CASE i = 0
      BY <2>1, <2>3, <3>1, <3>2
    <3>3. CASE i # 0
      <4>1. i \in 1 .. N /\ i + 1 # 1 /\ flatten[i] = g[i]
        BY <1>1, <3>3
      <4>2. flatten[i + 1] = flatten[i] \o pieces[i + 1]
        BY <2>3, <3>1, <4>1
      <4>3. g[i + 1] = g[i] \o pieces[i + 1]
        BY <1>5, <3>1
      <4> QED BY <4>1, <4>2, <4>3
    <3> QED BY <3>2, <3>3
  <2>7. 0 .. N \subseteq T
    <3> HIDE DEF T, N
    <3> QED BY <1>1, <2>5, <2>6, InductionUpTo
  <2>8. flatten[N] = g[N]
    <3>1. N \in 0 .. N
      BY <1>1
    <3> HIDE DEF N
    <3> QED BY <1>8, <2>7, <3>1
  <2> QED BY <1>6, <2>4, <2>8
<1> QED BY <1>7, <1>8

\* It puts sequences together into a sequence, and one more piece at its end.
LEMMA FlattenAppend ==
    ASSUME NEW B, NEW pieces \in Seq(Seq(B)), NEW s \in Seq(B)
    PROVE  /\ Stream!FlattenSeq(pieces) \in Seq(B)
           /\ Stream!FlattenSeq(Append(pieces, s)) = Stream!FlattenSeq(pieces) \o s
<1> DEFINE more == Append(pieces, s)
           N == Len(pieces)
<1>1. /\ more \in Seq(Seq(B)) /\ Len(more) = N + 1 /\ N \in Nat
      /\ (\A i \in 1 .. N : more[i] = pieces[i]) /\ more[N + 1] = s
  BY AppendProperties
<1> HIDE DEF more
<1>2. PICK f : JoinedBy(f, pieces, B) /\ Stream!FlattenSeq(pieces) = f[N]
  BY FlattenJoins
<1>3. PICK g : JoinedBy(g, more, B) /\ Stream!FlattenSeq(more) = g[N + 1]
  BY <1>1, FlattenJoins
<1> HIDE DEF N
<1> DEFINE T == {i \in 0 .. N : g[i] = f[i]}
<1>4. /\ \A i \in 1 .. N : f[i] = f[i - 1] \o pieces[i]
      /\ \A i \in 1 .. N + 1 : g[i] = g[i - 1] \o more[i]
      /\ f[0] = <<>> /\ g[0] = <<>> /\ f \in [0 .. N -> Seq(B)]
  BY <1>1, <1>2, <1>3 DEF JoinedBy, N
<1>5. 0 \in T
  BY <1>1, <1>4
<1>6. \A i \in 0 .. N - 1 : i \in T => i + 1 \in T
  <2> SUFFICES ASSUME NEW i \in 0 .. N - 1, g[i] = f[i] PROVE g[i + 1] = f[i + 1]
    BY <1>1
  <2>1. i + 1 \in 1 .. N /\ i + 1 \in 1 .. N + 1 /\ (i + 1) - 1 = i
    BY <1>1
  <2>2. f[i + 1] = f[i] \o pieces[i + 1] /\ g[i + 1] = g[i] \o more[i + 1]
    BY <1>4, <2>1
  <2> QED BY <1>1, <2>1, <2>2
<1>7. 0 .. N \subseteq T
  <2> HIDE DEF T
  <2> QED BY <1>1, <1>5, <1>6, InductionUpTo
<1>8. g[N] = f[N] /\ f[N] \in Seq(B)
  BY <1>1, <1>4, <1>7
<1>9. g[N + 1] = g[N] \o s
  <2>1. N + 1 \in 1 .. N + 1 /\ (N + 1) - 1 = N
    BY <1>1
  <2>2. g[N + 1] = g[N] \o more[N + 1]
    BY <1>4, <2>1
  <2> QED BY <1>1, <2>2
<1> QED BY <1>2, <1>3, <1>8, <1>9 DEF more

\* A sequence that another continues is its prefix.
LEMMA PrefixByTail ==
    ASSUME NEW B, NEW s \in Seq(B), NEW u \in Seq(B), NEW t, t = s \o u
    PROVE  Stream!IsPrefix(s, t)
<1>1. /\ t \in Seq(B) /\ Len(t) = Len(s) + Len(u) /\ Len(s) \in Nat /\ Len(u) \in Nat
      /\ \A i \in 1 .. Len(s) : t[i] = s[i]
  BY ConcatProperties, LenProperties
<1>2. \A i \in 1 .. Len(s) : t[i] \in B /\ s[i] \in B
  BY <1>1, ElementOfSeq
<1>3. /\ SubSeq(t, 1, Len(s)) \in Seq(B) /\ Len(SubSeq(t, 1, Len(s))) = Len(s)
      /\ \A i \in 1 .. Len(s) : SubSeq(t, 1, Len(s))[i] = s[i]
  BY <1>1, <1>2, SubSeqProperties
<1>4. SubSeq(t, 1, Len(s)) = s
  BY <1>3, SeqEqual
<1>5. SubSeq(s, 1, Len(s)) = s
  BY SubSeqFull
<1> QED BY <1>1, <1>4, <1>5 DEF Stream!IsPrefix

\* A sequence is what is before a place in it and what is after it.
LEMMA SplitAt ==
    ASSUME NEW B, NEW s \in Seq(B), NEW n \in 0 .. Len(s)
    PROVE  /\ SubSeq(s, 1, n) \in Seq(B) /\ SubSeq(s, n + 1, Len(s)) \in Seq(B)
           /\ Len(SubSeq(s, 1, n)) = n /\ Len(SubSeq(s, n + 1, Len(s))) = Len(s) - n
           /\ \A i \in 1 .. n : SubSeq(s, 1, n)[i] = s[i]
           /\ \A i \in 1 .. Len(s) - n : SubSeq(s, n + 1, Len(s))[i] = s[n + i]
           /\ SubSeq(s, 1, n) \o SubSeq(s, n + 1, Len(s)) = s
<1>1. Len(s) \in Nat /\ \A i \in 1 .. Len(s) : s[i] \in B
  BY LenProperties, ElementOfSeq
<1>2. /\ SubSeq(s, 1, n) \in Seq(B) /\ Len(SubSeq(s, 1, n)) = n
      /\ \A i \in 1 .. n : SubSeq(s, 1, n)[i] = s[i]
  BY <1>1, SubSeqProperties
<1>3. /\ SubSeq(s, n + 1, Len(s)) \in Seq(B) /\ Len(SubSeq(s, n + 1, Len(s))) = Len(s) - n
      /\ \A i \in 1 .. Len(s) - n : SubSeq(s, n + 1, Len(s))[i] = s[n + i]
  BY <1>1, SubSeqProperties
<1>4. SubSeq(s, 1, n) \o SubSeq(s, n + 1, Len(s)) = SubSeq(s, 1, Len(s))
  <2>1. 1 \in 1 .. Len(s) + 1 /\ n \in 1 - 1 .. Len(s) /\ Len(s) \in n .. Len(s)
    BY <1>1
  <2> QED BY <2>1, ConcatAdjacentSubSeq
<1> QED BY <1>2, <1>3, <1>4, SubSeqFull

\* The least of two numbers.
LEMMA LeastOfTwo ==
    ASSUME NEW a \in Int, NEW b \in Int
    PROVE  /\ Stream!Min({a, b}) \in {a, b} /\ Stream!Min({a, b}) \in Int
           /\ Stream!Min({a, b}) <= a /\ Stream!Min({a, b}) <= b
<1>1. \E x \in {a, b} : \A y \in {a, b} : x <= y
  OBVIOUS
<1> QED BY <1>1 DEF Stream!Min

\* The same of three.
LEMMA LeastOfThree ==
    ASSUME NEW a \in Int, NEW b \in Int, NEW c \in Int
    PROVE  /\ Stream!Min({a, b, c}) \in {a, b, c} /\ Stream!Min({a, b, c}) \in Int
           /\ Stream!Min({a, b, c}) <= a /\ Stream!Min({a, b, c}) <= b /\ Stream!Min({a, b, c}) <= c
<1>1. \E x \in {a, b, c} : \A y \in {a, b, c} : x <= y
  OBVIOUS
<1> QED BY <1>1 DEF Stream!Min

-----------------------------------------------------------------------------
(* The receiver of a stream *)

Byte == Nat \X Nat

\* Putting bytes together is associative.
LEMMA BytesAssociate == \A s, t, u \in Seq(Byte) : (s \o t) \o u = s \o (t \o u)
BY ConcatAssociative

Requests == [want : Nat, got : Seq(Byte)]
Frames == [want : Nat, got : Seq(Byte), ok : BOOLEAN]

\* The bytes the kernel gave: to the calls that have returned, and to the present one.
Pieces == [k \in 1 .. Len(frames) |-> frames[k].got]
Got == IF in = Idle THEN <<>> ELSE in.got

\* Bytes are lost at the end of what was handed over only, once the connection is closed.
FrameInd ==
    /\ handed \in Seq(Byte) /\ wire \in Seq(Byte) /\ frames \in Seq(Frames)
    /\ in # Idle => in \in Requests /\ Len(in.got) <= in.want
    /\ \E lost \in Seq(Byte) :
          /\ Stream!FlattenSeq(Pieces) \o Got \o wire \o lost = handed
          /\ link # "closed" => lost = <<>>
    /\ \A k \in 1 .. Len(frames) :
          IF frames[k].ok THEN Len(frames[k].got) = frames[k].want
          ELSE Len(frames[k].got) < frames[k].want

\* The marker is no call of the receiver.
IdleIsNoCall == Idle \notin Requests

\* What was given is bytes.
LEMMA PiecesArePieces ==
    ASSUME frames \in Seq(Frames)
    PROVE  Pieces \in Seq(Seq(Byte)) /\ Len(Pieces) = Len(frames)
<1>1. Len(frames) \in Nat /\ \A k \in 1 .. Len(frames) : frames[k].got \in Seq(Byte)
  <2>1. Len(frames) \in Nat /\ \A k \in 1 .. Len(frames) : frames[k] \in Frames
    BY LenProperties, ElementOfSeq
  <2> QED BY <2>1 DEF Frames
<1> QED BY <1>1 DEF Pieces

\* So is all of it together.
LEMMA TypesOfGiven ==
    ASSUME FrameInd
    PROVE  Stream!FlattenSeq(Pieces) \in Seq(Byte) /\ Got \in Seq(Byte)
<1>1. Stream!FlattenSeq(Pieces) \in Seq(Byte)
  <2>1. Pieces \in Seq(Seq(Byte)) /\ <<>> \in Seq(Byte)
    BY PiecesArePieces DEF FrameInd
  <2> QED BY <2>1, FlattenAppend
<1> QED BY <1>1 DEF FrameInd, Got, Requests

\* What was given is the beginning of what was handed over.
LEMMA FramesFollow ==
    ASSUME FrameInd
    PROVE  Stream!FramesCutTheStream
<1> DEFINE F == Stream!FlattenSeq(Pieces)
<1>1. F \in Seq(Byte) /\ Got \in Seq(Byte) /\ wire \in Seq(Byte)
  BY TypesOfGiven DEF FrameInd
<1>2. PICK lost \in Seq(Byte) : F \o Got \o wire \o lost = handed
  BY DEF FrameInd
<1>3. F \o Got \o wire \in Seq(Byte)
  BY <1>1, ConcatProperties
<1>4. Stream!IsPrefix(F \o Got \o wire, handed)
  <2> HIDE DEF F
  <2> QED BY <1>2, <1>3, PrefixByTail
<1> QED BY <1>4 DEF FrameInd, Stream!FramesCutTheStream, Pieces, Got

\* The kernel takes bytes.
LEMMA FrameTake ==
    ASSUME FrameInd, link = "open", NEW bytes \in Seq(Byte), Stream!Take(bytes),
           UNCHANGED <<in, link, frames>>
    PROVE  FrameInd'
<1> DEFINE F == Stream!FlattenSeq(Pieces)
<1>1. F \in Seq(Byte) /\ Got \in Seq(Byte) /\ wire \in Seq(Byte) /\ handed \in Seq(Byte)
  BY TypesOfGiven DEF FrameInd
<1>2. PICK lost \in Seq(Byte) : F \o Got \o wire \o lost = handed /\ lost = <<>>
  BY DEF FrameInd
<1>3. wire' = wire \o bytes /\ handed' = handed \o bytes
  BY DEF Stream!Take
<1>4. wire' \in Seq(Byte) /\ handed' \in Seq(Byte) /\ F \o Got \in Seq(Byte)
  BY <1>1, <1>3, ConcatProperties
<1>5. F \o Got \o wire = handed
  <2>1. F \o Got \o wire \in Seq(Byte)
    BY <1>1, <1>4, ConcatProperties
  <2> HIDE DEF F
  <2> QED BY <1>2, <2>1, ConcatEmptySeq
<1>6. F \o Got \o (wire \o bytes) = handed \o bytes
  <2> DEFINE G == F \o Got
  <2>0. G \in Seq(Byte)
    BY <1>4
  <2> HIDE DEF G
  <2>1. (G \o wire) \o bytes = G \o (wire \o bytes)
    <3>1. G \in Seq(Byte) /\ wire \in Seq(Byte) /\ bytes \in Seq(Byte)
      BY <1>1, <2>0
    <3> QED BY <3>1, BytesAssociate
  <2> QED BY <1>5, <2>1 DEF G
<1>7. F \o Got \o wire' \o <<>> = handed'
  <2>1. handed' \o <<>> = handed'
    BY <1>4, ConcatEmptySeq
  <2> HIDE DEF F
  <2> QED BY <1>3, <1>6, <2>1
<1>8. Pieces' = Pieces /\ Got' = Got
  BY DEF Pieces, Got
<1>9. <<>> \in Seq(Byte)
  OBVIOUS
<1> HIDE DEF F
<1>10. F' = F
  BY <1>8 DEF F
<1> QED BY <1>4, <1>7, <1>8, <1>9 DEF FrameInd, F

\* The receiver asks for bytes.
LEMMA FrameCall ==
    ASSUME IdleIsNoCall, FrameInd, NEW n \in Nat, Stream!RecvAll(n)
    PROVE  FrameInd'
<1>1. /\ in = Idle /\ in' = [want |-> n, got |-> <<>>]
      /\ UNCHANGED <<wire, link, handed, frames>>
  BY DEF Stream!RecvAll
<1>2. in' \in Requests /\ in'.got = <<>> /\ in'.want = n /\ Len(in'.got) <= in'.want
  BY <1>1 DEF Requests
<1>3. Got' = Got /\ Pieces' = Pieces
  BY <1>1, <1>2 DEF Got, Pieces
<1>4. (Stream!FlattenSeq(Pieces))' = Stream!FlattenSeq(Pieces)
  BY <1>3
<1> QED BY <1>1, <1>2, <1>3, <1>4 DEF FrameInd

\* It is given some of those that wait.
LEMMA FrameRecv ==
    ASSUME IdleIsNoCall, SocketAssumption, FrameInd, Stream!RecvSome
    PROVE  FrameInd'
<1> DEFINE F == Stream!FlattenSeq(Pieces)
<1>1. /\ F \in Seq(Byte) /\ Got \in Seq(Byte) /\ wire \in Seq(Byte) /\ Len(wire) \in Nat
      /\ in # Idle /\ in \in Requests /\ Len(in.got) \in Nat /\ in.want \in Nat
  BY TypesOfGiven, LenProperties DEF FrameInd, Stream!RecvSome, Requests
<1>2. PICK n \in 1 .. Stream!Min({Stream!Asked, Len(wire)}) :
        /\ in' = [in EXCEPT !.got = @ \o SubSeq(wire, 1, n)]
        /\ wire' = SubSeq(wire, n + 1, Len(wire))
  BY DEF Stream!RecvSome
<1>3. n \in Nat /\ n <= Len(wire) /\ n <= in.want - Len(in.got)
  <2> DEFINE rest == in.want - Len(in.got)
  <2>1. rest \in Int /\ ChunkMax \in Int
    BY <1>1 DEF SocketAssumption, Stream!StreamAssumption
  <2>2. Stream!Asked = Stream!Min({rest, ChunkMax})
    BY DEF Stream!Asked, Stream!Chunk
  <2> HIDE DEF rest
  <2>3. Stream!Asked \in Int /\ Stream!Asked <= rest
    BY <2>1, <2>2, LeastOfTwo, Zenon
  <2>4. /\ Stream!Min({Stream!Asked, Len(wire)}) \in Int
        /\ Stream!Min({Stream!Asked, Len(wire)}) <= Stream!Asked
        /\ Stream!Min({Stream!Asked, Len(wire)}) <= Len(wire)
    <3>1. Len(wire) \in Int
      BY <1>1
    <3> QED BY <2>3, <3>1, LeastOfTwo, Zenon
  <2>5. Len(wire) \in Int
    BY <1>1
  <2> HIDE DEF rest
  <2> QED BY <2>1, <2>3, <2>4, <2>5 DEF rest
<1> DEFINE first == SubSeq(wire, 1, n)
           after == SubSeq(wire, n + 1, Len(wire))
<1>4. first \in Seq(Byte) /\ after \in Seq(Byte) /\ Len(first) = n /\ first \o after = wire
  BY <1>1, <1>3, SplitAt
<1> HIDE DEF first, after
<1>5. in' = [in EXCEPT !.got = in.got \o first] /\ wire' = after
  BY <1>2 DEF first, after
<1>6. in.got \in Seq(Byte) /\ in.got \o first \in Seq(Byte)
      /\ Len(in.got \o first) = Len(in.got) + n
  BY <1>1, <1>4, ConcatProperties DEF Requests
<1>7. in' \in Requests /\ in'.got = in.got \o first /\ in'.want = in.want
  BY <1>1, <1>5, <1>6 DEF Requests
<1>8. Got = in.got /\ Got' = in.got \o first /\ in' # Idle
  BY <1>1, <1>7 DEF Got, IdleIsNoCall
<1>9. UNCHANGED <<link, handed, frames>> /\ Pieces' = Pieces
  BY DEF Stream!RecvSome, Pieces
<1>10. F' = F
  BY <1>9
<1>11. F \o Got' \o wire' = F \o Got \o wire
  <2> HIDE DEF F
  <2> DEFINE got == in.got
  <2>0. F \in Seq(Byte) /\ got \in Seq(Byte) /\ first \in Seq(Byte)
    BY <1>1, <1>4, <1>6
  <2> HIDE DEF got
  <2>1. (F \o got) \o first = F \o (got \o first)
    BY <2>0, BytesAssociate
  <2>2. F \o got \in Seq(Byte)
    BY <1>1, <2>0, ConcatProperties
  <2>3. ((F \o got) \o first) \o after = (F \o got) \o (first \o after)
    BY <1>4, <2>2, BytesAssociate
  <2> QED BY <1>4, <1>5, <1>8, <2>1, <2>3 DEF got
<1>12. wire' \in Seq(Byte) /\ Len(in'.got) <= in'.want
  BY <1>1, <1>3, <1>4, <1>5, <1>6, <1>7
<1> HIDE DEF F
<1> QED BY <1>7, <1>9, <1>10, <1>11, <1>12 DEF FrameInd, F

\* Its call returns, with all it asked for or at the end of the stream, or fails.
LEMMA FrameReturns ==
    ASSUME FrameInd, NEW full \in BOOLEAN, Stream!Received(full)
    PROVE  FrameInd'
<1> DEFINE F == Stream!FlattenSeq(Pieces)
<1>1. /\ full <=> Len(in.got) >= in.want
      /\ frames' = Append(frames, [want |-> in.want, got |-> in.got, ok |-> full])
  BY DEF Stream!Received
<1> DEFINE new == [want |-> in.want, got |-> in.got, ok |-> full]
           N == Len(frames)
<1>2. /\ in # Idle /\ in \in Requests /\ Len(in.got) <= in.want /\ in' = Idle
      /\ UNCHANGED <<wire, link, handed>>
  BY DEF FrameInd, Stream!Received
<1>3. new \in Frames /\ in.got \in Seq(Byte) /\ Len(in.got) \in Nat /\ in.want \in Nat
  BY <1>2, LenProperties DEF Requests, Frames
<1>4. /\ frames \in Seq(Frames) /\ frames' \in Seq(Frames) /\ Len(frames') = N + 1 /\ N \in Nat
      /\ frames'[N + 1] = new /\ \A k \in 1 .. N : frames'[k] = frames[k]
  <2> HIDE DEF new
  <2>1. frames \in Seq(Frames)
    BY DEF FrameInd
  <2> QED BY <2>1, <1>1, <1>3, AppendProperties, LenProperties DEF new
<1>5. Pieces' = Append(Pieces, in.got)
  <2>1. /\ Pieces \in Seq(Seq(Byte)) /\ Len(Pieces) = N
        /\ \A k \in 1 .. N : Pieces[k] = frames[k].got
    BY <1>4, PiecesArePieces DEF Pieces
  <2>2. /\ Pieces' \in Seq(Seq(Byte)) /\ Len(Pieces') = N + 1
        /\ \A k \in 1 .. N + 1 : Pieces'[k] = frames'[k].got
    <3>1. Len(frames') \in Nat /\ \A k \in 1 .. Len(frames') : frames'[k].got \in Seq(Byte)
      <4>1. \A k \in 1 .. Len(frames') : frames'[k] \in Frames
        BY <1>4, ElementOfSeq
      <4> QED BY <1>4, <4>1 DEF Frames
    <3> QED BY <1>4, <3>1 DEF Pieces
  <2>3. /\ Append(Pieces, in.got) \in Seq(Seq(Byte)) /\ Len(Append(Pieces, in.got)) = N + 1
        /\ \A k \in 1 .. N : Append(Pieces, in.got)[k] = Pieces[k]
        /\ Append(Pieces, in.got)[N + 1] = in.got
    BY <1>3, <2>1, AppendProperties
  <2>4. \A k \in 1 .. N + 1 : Pieces'[k] = Append(Pieces, in.got)[k]
    <3> SUFFICES ASSUME NEW k \in 1 .. N + 1 PROVE Pieces'[k] = Append(Pieces, in.got)[k]
      OBVIOUS
    <3>1. CASE k = N + 1
      <4>1. frames'[N + 1].got = in.got
        BY <1>4
      <4> HIDE DEF N, new
      <4> QED BY <2>2, <2>3, <3>1, <4>1
    <3>2. CASE k # N + 1
      <4>1. k \in 1 .. N
        BY <1>4, <3>2
      <4>2. frames'[k].got = frames[k].got
        BY <1>4, <4>1
      <4> HIDE DEF N, new
      <4> QED BY <2>1, <2>2, <2>3, <4>1, <4>2
    <3> QED BY <3>1, <3>2
  <2> QED BY <2>2, <2>3, <2>4, SeqEqual
<1>6. F \in Seq(Byte) /\ Got = in.got /\ Got' = <<>> /\ wire \in Seq(Byte)
  BY <1>2, TypesOfGiven DEF Got, FrameInd
<1>7. F' = F \o in.got
  <2>1. Pieces \in Seq(Seq(Byte))
    BY <1>4, PiecesArePieces
  <2> QED BY <1>3, <1>5, <2>1, FlattenAppend
<1> HIDE DEF F
<1>8. F' \o Got' \o wire' = F \o Got \o wire
  <2>1. (F \o in.got) \o <<>> = F \o in.got
    BY <1>3, <1>6, ConcatProperties, ConcatEmptySeq
  <2> QED BY <1>2, <1>6, <1>7, <2>1
<1>9. \A k \in 1 .. N + 1 :
         IF frames'[k].ok THEN Len(frames'[k].got) = frames'[k].want
         ELSE Len(frames'[k].got) < frames'[k].want
  <2>1. IF new.ok THEN Len(new.got) = new.want ELSE Len(new.got) < new.want
    BY <1>1, <1>2, <1>3
  <2> HIDE DEF new
  <2>2. \A k \in 1 .. N :
           IF frames[k].ok THEN Len(frames[k].got) = frames[k].want
           ELSE Len(frames[k].got) < frames[k].want
    BY DEF FrameInd
  <2>3. \A k \in 1 .. N + 1 : k \in 1 .. N \/ k = N + 1
    BY <1>4
  <2> QED BY <1>4, <2>1, <2>2, <2>3
<1> HIDE DEF N
<1> QED BY <1>2, <1>4, <1>6, <1>8, <1>9 DEF FrameInd, F

\* The connection is closed or reset: an end of the bytes under way is lost.
LEMMA FrameLose ==
    ASSUME FrameInd, NEW k \in 0 .. Len(wire), Stream!Lose(k)
    PROVE  FrameInd'
<1> DEFINE G == Stream!FlattenSeq(Pieces) \o Got
           first == SubSeq(wire, 1, k)
           after == SubSeq(wire, k + 1, Len(wire))
<1>1. G \in Seq(Byte) /\ wire \in Seq(Byte) /\ Len(wire) \in Nat
  BY TypesOfGiven, ConcatProperties, LenProperties DEF FrameInd
<1>2. link # "closed" /\ link' = "closed" /\ wire' = first /\ UNCHANGED <<in, handed, frames>>
  BY DEF Stream!Lose
<1>3. PICK lost \in Seq(Byte) : G \o wire \o lost = handed /\ lost = <<>>
  BY <1>2 DEF FrameInd
<1>4. first \in Seq(Byte) /\ after \in Seq(Byte) /\ first \o after = wire
  BY <1>1, SplitAt
<1> HIDE DEF G, first, after
<1>5. G \o first \o after = handed
  <2>1. G \o wire \in Seq(Byte)
    BY <1>1, ConcatProperties
  <2>2. G \o wire = handed
    BY <1>3, <2>1, ConcatEmptySeq
  <2>3. (G \o first) \o after = G \o (first \o after)
    <3>1. G \in Seq(Byte) /\ first \in Seq(Byte) /\ after \in Seq(Byte)
      BY <1>1, <1>4
    <3> QED BY <3>1, BytesAssociate
  <2> QED BY <1>4, <2>2, <2>3
<1>6. G' = G
  BY <1>2 DEF G, Pieces, Got
<1>7. G' \o wire' \o after = handed'
  BY <1>2, <1>5, <1>6
<1> QED BY <1>2, <1>4, <1>7 DEF FrameInd, G

\* The other steps of the two programs and of the system.
LEMMA FrameSame ==
    ASSUME FrameInd, UNCHANGED <<handed, wire, frames, in>>,
           link' = link \/ (link = "open" /\ link' = "shutdown")
    PROVE  FrameInd'
<1>1. Pieces' = Pieces /\ Got' = Got
  BY DEF Pieces, Got
<1>2. (Stream!FlattenSeq(Pieces))' = Stream!FlattenSeq(Pieces)
  BY <1>1
<1> QED BY <1>1, <1>2 DEF FrameInd

-----------------------------------------------------------------------------
(* The sender of a stream *)

SendCalls ==
    [how : {"send_all", "kernel", "generic"}, offset : Nat, size : Nat, data : Seq(Byte),
     off : Nat, sent : Nat, from : Nat]
ToldCalls == [call : SendCalls, result : BOOLEAN \cup Int]

\* Whose bytes the k-th call sends, and that the first n the kernel took are those.
Owner(c, k) == IF c.how = "send_all" THEN k ELSE 0
Wrote(c, k, n) == \A i \in 1 .. n : handed[c.from + i] = <<Owner(c, k), c.offset + i>>

\* What a call has sent, what is in its buffer and where it is in its file follow on each
\* other.
OutInd ==
    out # Idle =>
        /\ out \in SendCalls
        /\ out.from + out.sent = Len(handed)
        /\ Wrote(out, Len(told) + 1, out.sent)
        /\ \A i \in 1 .. Len(out.data) :
              out.data[i] = <<Owner(out, Len(told) + 1), out.offset + out.sent + i>>
        /\ out.sent + Len(out.data) <= out.size
        /\ out.how = "send_all" => out.sent + Len(out.data) = out.size
        /\ out.how # "send_all" => out.off = out.offset + out.sent + Len(out.data)
        /\ out.how = "kernel" => out.data = <<>>

\* Where the bytes of the k-th call that has returned end.
End(k) ==
    IF k < Len(told) THEN told[k + 1].call.from
    ELSE IF out # Idle THEN out.from ELSE Len(handed)

\* What it says of them is true.
Truth(c, k, r, n) ==
    /\ n \in 0 .. c.size /\ c.from + n <= Len(handed) /\ Wrote(c, k, n)
    /\ c.how = "send_all" => (r = TRUE /\ n = c.size) \/ r = FALSE
    /\ c.how # "send_all" => r = -1 \/ (r = n /\ (n = c.size \/ file < c.offset + c.size))

ToldInd ==
    /\ told \in Seq(ToldCalls)
    /\ \A k \in 1 .. Len(told) :
          Truth(told[k].call, k, told[k].result, End(k) - told[k].call.from)

SenderInd == file \in Nat /\ handed \in Seq(Byte) /\ OutInd /\ ToldInd

\* The marker is no call of the sender.
IdleIsNoSend == Idle \notin SendCalls

\* The bytes of a buffer.
LEMMA BytesAreBytes ==
    \A c, from, n \in Nat :
        /\ Stream!Bytes(c, from, n) \in Seq(Byte) /\ Len(Stream!Bytes(c, from, n)) = n
        /\ \A i \in 1 .. n : Stream!Bytes(c, from, n)[i] = <<c, from + i>>
<1> SUFFICES ASSUME NEW c \in Nat, NEW from \in Nat, NEW n \in Nat
             PROVE  /\ Stream!Bytes(c, from, n) \in Seq(Byte)
                    /\ Len(Stream!Bytes(c, from, n)) = n
                    /\ \A i \in 1 .. n : Stream!Bytes(c, from, n)[i] = <<c, from + i>>
  OBVIOUS
<1>1. \A i \in 1 .. n : <<c, from + i>> \in Byte
  BY DEF Byte
<1> QED BY <1>1 DEF Stream!Bytes

\* What is true of a call stays true as more is handed over and the file gets shorter.
LEMMA TruthStays ==
    ASSUME handed \in Seq(Byte), file \in Nat, file' \in Nat, file' <= file,
           handed' \in Seq(Byte), Len(handed) <= Len(handed'),
           \A i \in 1 .. Len(handed) : handed'[i] = handed[i],
           NEW c \in SendCalls, NEW k, NEW r, NEW n, Truth(c, k, r, n)
    PROVE  Truth(c, k, r, n)'
<1>1. Len(handed) \in Nat /\ Len(handed') \in Nat /\ c.from \in Nat /\ c.size \in Nat
      /\ c.offset \in Nat /\ n \in 0 .. c.size /\ c.from + n <= Len(handed)
  BY LenProperties DEF SendCalls, Truth
<1>2. Wrote(c, k, n)'
  <2> SUFFICES ASSUME NEW i \in 1 .. n
               PROVE  handed'[c.from + i] = <<Owner(c, k), c.offset + i>>
    BY DEF Wrote, Owner
  <2>1. c.from + i \in 1 .. Len(handed)
    BY <1>1
  <2> QED BY <2>1 DEF Truth, Wrote
<1>3. c.from + n <= Len(handed')
  BY <1>1
<1>4. file < c.offset + c.size => file' < c.offset + c.size
  BY <1>1
<1> QED BY <1>1, <1>2, <1>3, <1>4 DEF Truth

\* So is what is true of all calls, if none returns.
LEMMA ToldStays ==
    ASSUME ToldInd, handed \in Seq(Byte), file \in Nat, file' \in Nat, file' <= file,
           handed' \in Seq(Byte), Len(handed) <= Len(handed'),
           \A i \in 1 .. Len(handed) : handed'[i] = handed[i],
           told' = told, \A k \in 1 .. Len(told) : End(k)' = End(k)
    PROVE  ToldInd'
<1> SUFFICES ASSUME NEW k \in 1 .. Len(told)
             PROVE  Truth(told[k].call, k, told[k].result, End(k) - told[k].call.from)'
  BY DEF ToldInd
<1>1. PICK c, r, n : c = told[k].call /\ r = told[k].result /\ n = End(k) - told[k].call.from
  OBVIOUS
<1>2. c \in SendCalls
  <2>1. told[k] \in ToldCalls
    BY ElementOfSeq DEF ToldInd
  <2> QED BY <1>1, <2>1 DEF ToldCalls
<1>3. Truth(c, k, r, n)
  BY <1>1 DEF ToldInd
<1>4. Truth(c, k, r, n)'
  BY <1>2, <1>3, TruthStays
<1>5. /\ c = (told[k].call)' /\ r = (told[k].result)'
      /\ n = (End(k) - told[k].call.from)'
  BY <1>1
<1> QED BY <1>4, <1>5 DEF Truth, Wrote, Owner

\* The sender makes a call.
LEMMA SenderCall ==
    ASSUME SocketAssumption, IdleIsNoSend, SenderInd, out = Idle,
           NEW how \in {"send_all", "kernel", "generic"}, NEW offset \in Nat, NEW n \in Nat,
           NEW data \in Seq(Byte),
           \A i \in 1 .. Len(data) :
              data[i] = <<IF how = "send_all" THEN Len(told) + 1 ELSE 0, offset + i>>,
           Len(data) = IF how = "send_all" THEN n ELSE 0,
           out' = Stream!Call(how, offset, n, data),
           UNCHANGED <<handed, told, file>>
    PROVE  SenderInd'
<1>1. handed \in Seq(Byte) /\ Len(handed) \in Nat /\ told \in Seq(ToldCalls) /\ Len(told) \in Nat
  BY LenProperties DEF SenderInd, ToldInd
<1>2. /\ out' = [how |-> how, offset |-> offset, size |-> n, data |-> data, off |-> offset,
                 sent |-> 0, from |-> Len(handed)]
      /\ out' \in SendCalls
  BY <1>1 DEF Stream!Call, SendCalls
<1>3. /\ out'.how = how /\ out'.offset = offset /\ out'.size = n /\ out'.data = data
      /\ out'.off = offset /\ out'.sent = 0 /\ out'.from = Len(handed) /\ out' # Idle
  BY <1>2 DEF IdleIsNoSend
<1>4. OutInd'
  <2>1. how # "send_all" => data = <<>> /\ Len(data) = 0
    BY EmptySeq
  <2>2. Wrote(out, Len(told) + 1, out.sent)'
    BY <1>3 DEF Wrote
  <2>3. \A i \in 1 .. Len(data) : data[i] = <<Owner(out, Len(told) + 1)', offset + 0 + i>>
    BY <1>3 DEF Owner
  <2> QED BY <1>1, <1>2, <1>3, <2>1, <2>2, <2>3 DEF OutInd
<1>5. ToldInd'
  <2>1. \A k \in 1 .. Len(told) : End(k)' = End(k)
    BY <1>3 DEF End
  <2>2. ToldInd /\ file \in Nat /\ file <= file /\ Len(handed) <= Len(handed)
    BY <1>1 DEF SenderInd
  <2> QED BY <1>1, <2>1, <2>2, ToldStays
<1> QED BY <1>1, <1>4, <1>5 DEF SenderInd

\* From a on, s has the n bytes of w from o on.
RunOf(s, a, n, w, o) == \A i \in 1 .. n : s[a + i] = <<w, o + i>>

\* Of a call b bytes are at the end of what was handed over, n more of them follow.
LEMMA RunGrows ==
    ASSUME NEW s \in Seq(Byte), NEW bytes \in Seq(Byte), NEW w, NEW a \in Nat, NEW b \in Nat,
           NEW o \in Nat, Len(s) = a + b, RunOf(s, a, b, w, o),
           RunOf(bytes, 0, Len(bytes), w, o + b)
    PROVE  RunOf(s \o bytes, a, b + Len(bytes), w, o)
<1> DEFINE n == Len(bytes)
           t == s \o bytes
<1>0. n \in Nat
  BY LenProperties
<1>1. \A i \in 1 .. (a + b) + n : t[i] = IF i <= a + b THEN s[i] ELSE bytes[i - (a + b)]
  <2>1. \A i \in 1 .. Len(s) + Len(bytes) :
           (s \o bytes)[i] = IF i <= Len(s) THEN s[i] ELSE bytes[i - Len(s)]
    BY ConcatProperties
  <2> QED BY <2>1
<1>2. \A i \in 1 .. b : s[a + i] = <<w, o + i>>
  BY DEF RunOf
<1>3. \A i \in 1 .. n : bytes[i] = <<w, (o + b) + i>>
  BY <1>0 DEF RunOf
<1> HIDE DEF n, t
<1> SUFFICES ASSUME NEW i \in 1 .. b + n PROVE t[a + i] = <<w, o + i>>
  BY DEF RunOf, n, t
<1>4. a + i \in 1 .. (a + b) + n
  BY <1>0
<1>5. CASE i <= b
  <2>1. i \in 1 .. b /\ a + i <= a + b
    BY <1>0, <1>5
  <2> QED BY <1>1, <1>2, <1>4, <2>1
<1>6. CASE i > b
  <2>1. i - b \in 1 .. n /\ ~(a + i <= a + b) /\ (a + i) - (a + b) = i - b
        /\ (o + b) + (i - b) = o + i
    BY <1>0, <1>6
  <2>2. t[a + i] = bytes[i - b]
    BY <1>1, <1>4, <2>1
  <2>3. bytes[i - b] = <<w, (o + b) + (i - b)>>
    BY <1>3, <2>1
  <2> QED BY <2>1, <2>2, <2>3
<1> QED BY <1>0, <1>5, <1>6

\* The kernel takes n more bytes of the call, from its buffer or from the file.
LEMMA SenderTake ==
    ASSUME SocketAssumption, IdleIsNoSend, SenderInd, out # Idle, out' # Idle,
           NEW n \in Nat, NEW bytes \in Seq(Byte), Len(bytes) = n,
           \A i \in 1 .. n :
              bytes[i] = <<Owner(out, Len(told) + 1), out.offset + out.sent + i>>,
           out' \in SendCalls, out'.how = out.how, out'.offset = out.offset,
           out'.size = out.size, out'.from = out.from, out'.sent = out.sent + n,
           Stream!Take(bytes), UNCHANGED <<told, file>>,
           \A i \in 1 .. Len(out'.data) :
              out'.data[i] = <<Owner(out, Len(told) + 1), out.offset + (out.sent + n) + i>>,
           out'.sent + Len(out'.data) <= out.size,
           out.how = "send_all" => out'.sent + Len(out'.data) = out.size,
           out.how # "send_all" => out'.off = out.offset + out'.sent + Len(out'.data),
           out.how = "kernel" => out'.data = <<>>
    PROVE  SenderInd'
<1>1. /\ handed \in Seq(Byte) /\ Len(handed) \in Nat /\ told \in Seq(ToldCalls)
      /\ Len(told) \in Nat /\ out \in SendCalls /\ out.from + out.sent = Len(handed)
      /\ Wrote(out, Len(told) + 1, out.sent)
  BY LenProperties DEF SenderInd, ToldInd, OutInd
<1>2. out.from \in Nat /\ out.sent \in Nat /\ out.offset \in Nat
  BY <1>1 DEF SendCalls
<1>3. /\ handed' \in Seq(Byte) /\ Len(handed') = Len(handed) + n
      /\ \A i \in 1 .. Len(handed) + n :
            handed'[i] = IF i <= Len(handed) THEN handed[i] ELSE bytes[i - Len(handed)]
  BY <1>1, ConcatProperties DEF Stream!Take
<1>4. \A i \in 1 .. Len(handed) : handed'[i] = handed[i]
  BY <1>1, <1>3
<1>5. Wrote(out, Len(told) + 1, out.sent)'
  <2>1. PICK w : w = Owner(out, Len(told) + 1)
    OBVIOUS
  <2>2. RunOf(handed, out.from, out.sent, w, out.offset)
    BY <1>1, <2>1 DEF Wrote, RunOf
  <2>3. RunOf(bytes, 0, Len(bytes), w, out.offset + out.sent)
    BY <2>1 DEF RunOf
  <2>4. RunOf(handed \o bytes, out.from, out.sent + Len(bytes), w, out.offset)
    BY <1>1, <1>2, <2>2, <2>3, RunGrows
  <2> QED BY <2>1, <2>4 DEF Wrote, Owner, RunOf, Stream!Take
<1>6. OutInd'
  <2>1. Owner(out, Len(told) + 1)' = Owner(out, Len(told) + 1) /\ Len(told') = Len(told)
    BY DEF Owner
  <2>2. out'.from + out'.sent = Len(handed')
    BY <1>1, <1>2, <1>3
  <2>3. \A i \in 1 .. Len(out'.data) :
           out'.data[i] = <<Owner(out, Len(told) + 1)', out'.offset + out'.sent + i>>
    BY <2>1
  <2> QED BY <1>5, <2>1, <2>2, <2>3 DEF OutInd
<1>7. ToldInd'
  <2>1. \A k \in 1 .. Len(told) : End(k)' = End(k)
    BY DEF End
  <2>2. ToldInd /\ file \in Nat /\ file <= file /\ Len(handed) <= Len(handed')
    BY <1>1, <1>3 DEF SenderInd
  <2> QED BY <1>1, <1>3, <1>4, <2>1, <2>2, ToldStays
<1> QED BY <1>3, <1>6, <1>7 DEF SenderInd

\* A call returns, with the truth.
LEMMA SenderReturn ==
    ASSUME SenderInd, out # Idle, NEW r \in BOOLEAN \cup Int, Stream!Returns(r),
           UNCHANGED <<handed, file>>,
           out.how = "send_all" => (r = TRUE /\ out.sent = out.size) \/ r = FALSE,
           out.how # "send_all" => r = -1 \/ (r = out.sent /\ (out.sent = out.size
                                                 \/ file < out.offset + out.size))
    PROVE  SenderInd'
<1> DEFINE N == Len(told)
           new == [call |-> out, result |-> r]
<1>1. /\ handed \in Seq(Byte) /\ Len(handed) \in Nat /\ told \in Seq(ToldCalls)
      /\ N \in Nat /\ out \in SendCalls /\ out.from + out.sent = Len(handed)
      /\ Wrote(out, N + 1, out.sent) /\ out.sent + Len(out.data) <= out.size
      /\ file \in Nat
  BY LenProperties DEF SenderInd, ToldInd, OutInd
<1>2. /\ out.from \in Nat /\ out.sent \in Nat /\ out.size \in Nat /\ Len(out.data) \in Nat
  <2>1. out.data \in Seq(Byte)
    BY <1>1 DEF SendCalls
  <2> QED BY <1>1, <2>1, LenProperties DEF SendCalls
<1>3. told' = Append(told, new) /\ out' = Idle
  BY DEF Stream!Returns
<1>4. new \in ToldCalls /\ new.call = out /\ new.result = r
  BY <1>1 DEF ToldCalls
<1> HIDE DEF new
<1>5. /\ told' \in Seq(ToldCalls) /\ Len(told') = N + 1 /\ told'[N + 1] = new
      /\ \A k \in 1 .. N : told'[k] = told[k]
  BY <1>1, <1>3, <1>4, AppendProperties
<1>0. PICK m : m = N + 1
  OBVIOUS
<1>6. End(m)' = Len(handed)
  <2>1. ~(m < Len(told'))
    BY <1>0, <1>1, <1>5
  <2> QED BY <1>3, <2>1 DEF End
<1>7. \A k \in 1 .. N : End(k)' = End(k)
  <2> SUFFICES ASSUME NEW k \in 1 .. N PROVE End(k)' = End(k)
    OBVIOUS
  <2>1. CASE k = N
    <3>1. End(k)' = told'[k + 1].call.from /\ End(k) = out.from /\ told'[k + 1] = new
      BY <1>1, <1>5, <2>1 DEF End
    <3> QED BY <1>4, <1>5, <3>1
  <2>2. CASE k # N
    <3>1. k < N /\ k < N + 1 /\ k + 1 \in 1 .. N
      BY <1>1, <2>2
    <3>2. told'[k + 1] = told[k + 1]
      BY <1>5, <3>1
    <3> QED BY <1>5, <3>1, <3>2 DEF End
  <2> QED BY <2>1, <2>2
<1>8. ASSUME NEW k \in 1 .. N
      PROVE  Truth(told'[k].call, k, told'[k].result, End(k)' - told'[k].call.from)
  <2>1. Truth(told[k].call, k, told[k].result, End(k) - told[k].call.from)
    BY DEF SenderInd, ToldInd
  <2> QED BY <1>5, <1>7, <2>1
<1>9. Truth(new.call, m, new.result, End(m)' - new.call.from)
  <2>1. End(m)' - out.from = out.sent
    BY <1>1, <1>2, <1>6
  <2>2. Truth(out, m, r, out.sent)
    <3>1. out.sent \in 0 .. out.size
      BY <1>1, <1>2
    <3>2. out.how = "send_all" => (r = TRUE /\ out.sent = out.size) \/ r = FALSE
      OBVIOUS
    <3>3. out.how # "send_all" => r = -1 \/ (r = out.sent /\ (out.sent = out.size
                                                 \/ file < out.offset + out.size))
      OBVIOUS
    <3>4. out.from + out.sent <= Len(handed)
      BY <1>1
    <3>5. Wrote(out, m, out.sent)
      BY <1>0, <1>1
    <3> HIDE DEF N
    <3> QED BY <3>5, <3>1, <3>2, <3>3, <3>4, Zenon DEF Truth
  <2> QED BY <1>4, <2>1, <2>2
<1>10. \A k \in 1 .. N + 1 :
          Truth(told'[k].call, k, told'[k].result, End(k)' - told'[k].call.from)
  <2> SUFFICES ASSUME NEW k \in 1 .. N + 1
               PROVE  Truth(told'[k].call, k, told'[k].result, End(k)' - told'[k].call.from)
    OBVIOUS
  <2>1. CASE k = N + 1
    <3>1. told'[m].call = new.call /\ told'[m].result = new.result
      BY <1>0, <1>5
    <3>2. Truth(told'[m].call, m, told'[m].result, End(m)' - told'[m].call.from)
      BY <1>9, <3>1
    <3>3. k = m
      BY <1>0, <2>1
    <3> QED BY <3>2, <3>3
  <2>2. CASE k # N + 1
    <3>1. k \in 1 .. N
      BY <1>1, <2>2
    <3> QED BY <1>8, <3>1
  <2> QED BY <2>1, <2>2
<1>11. ToldInd'
  <2> SUFFICES ASSUME NEW k \in 1 .. N + 1
               PROVE  Truth(told[k].call, k, told[k].result, End(k) - told[k].call.from)'
    BY <1>5 DEF ToldInd
  <2>1. Truth(told'[k].call, k, told'[k].result, End(k)' - told'[k].call.from)
    BY <1>10
  <2> QED BY <2>1 DEF Truth, Wrote, Owner
<1>12. OutInd'
  BY <1>3 DEF OutInd
<1> QED BY <1>1, <1>11, <1>12 DEF SenderInd

-----------------------------------------------------------------------------
(* A stream *)

StreamInd == FrameInd /\ SenderInd

\* The stream's constants, and what follows for the assumption's parts.
LEMMA StreamConstants ==
    ASSUME SocketAssumption
    PROVE  /\ Lengths \subseteq Nat /\ Offsets \subseteq Nat /\ FileSize \in Nat
           /\ ChunkMax \in Nat \ {0} /\ BufferSize \in Nat \ {0} /\ Capacity \in Nat \ {0}
BY DEF SocketAssumption, Stream!StreamAssumption

\* The sender's steps keep the invariant: it calls,
LEMMA SendAllKeeps ==
    ASSUME SocketAssumption, IdleIsNoSend, StreamInd, NEW n \in Lengths, Stream!SendAll(n)
    PROVE  StreamInd'
<1> DEFINE data == Stream!Bytes(Len(told) + 1, 0, n)
<1>1. n \in Nat /\ Len(told) + 1 \in Nat /\ told \in Seq(ToldCalls)
  BY StreamConstants, LenProperties DEF StreamInd, SenderInd, ToldInd
<1>2. /\ data \in Seq(Byte) /\ Len(data) = n
      /\ \A i \in 1 .. n : data[i] = <<Len(told) + 1, 0 + i>>
  BY <1>1, BytesAreBytes
<1> HIDE DEF data
<1>3. out = Idle /\ out' = Stream!Call("send_all", 0, n, data)
      /\ UNCHANGED <<in, wire, link, file, handed, told, frames>>
  BY DEF Stream!SendAll, Stream!MayCall, data
<1>4. SenderInd'
  BY <1>1, <1>2, <1>3, SenderCall DEF StreamInd
<1>5. FrameInd'
  BY <1>3, FrameSame DEF StreamInd
<1> QED BY <1>4, <1>5 DEF StreamInd

LEMMA SendFileKeeps ==
    ASSUME SocketAssumption, IdleIsNoSend, StreamInd, NEW how \in Stream!SendFiles,
           NEW offset \in Offsets, NEW n \in Lengths, Stream!SendFile(how, offset, n)
    PROVE  StreamInd'
<1>1. n \in Nat /\ offset \in Nat /\ how \in {"kernel", "generic"}
  BY StreamConstants DEF Stream!SendFiles
<1>2. out = Idle /\ out' = Stream!Call(how, offset, n, <<>>)
      /\ UNCHANGED <<in, wire, link, file, handed, told, frames>>
  BY DEF Stream!SendFile, Stream!MayCall
<1>3. <<>> \in Seq(Byte) /\ Len(<<>>) = 0
  BY EmptySeq
<1>4. SenderInd'
  <2>1. \A i \in 1 .. Len(<<>>) :
           <<>>[i] = <<IF how = "send_all" THEN Len(told) + 1 ELSE 0, offset + i>>
    BY <1>3
  <2>2. how # "send_all" /\ how \in {"send_all", "kernel", "generic"}
    BY <1>1
  <2>3. Len(<<>>) = IF how = "send_all" THEN n ELSE 0
    BY <1>3, <2>2
  <2>4. SenderInd /\ UNCHANGED <<handed, told, file>>
    BY <1>2 DEF StreamInd
  <2> QED BY <1>1, <1>2, <1>3, <2>1, <2>2, <2>3, <2>4, SenderCall, Zenon
<1>5. FrameInd'
  BY <1>2, FrameSame DEF StreamInd
<1> QED BY <1>4, <1>5 DEF StreamInd

\* the kernel takes part of its buffer,
LEMMA SendSomeKeeps ==
    ASSUME SocketAssumption, IdleIsNoSend, StreamInd, Stream!SendSome
    PROVE  StreamInd'
<1>1. /\ out # Idle /\ link = "open" /\ out \in SendCalls /\ out.data \in Seq(Byte)
      /\ Len(out.data) \in Nat /\ UNCHANGED <<in, link, file, told, frames>>
      /\ wire \in Seq(Byte) /\ Len(wire) \in Nat
  BY LenProperties DEF StreamInd, FrameInd, SenderInd, OutInd, SendCalls, Stream!SendSome
<1>2. PICK n \in 1 .. Stream!Min({Stream!Chunk(Len(out.data)), Stream!Room}) :
        Stream!Take(SubSeq(out.data, 1, n)) /\ out' = Stream!Sent(n)
  BY DEF Stream!SendSome
<1>3. n \in 0 .. Len(out.data)
  <2>1. ChunkMax \in Int /\ Len(out.data) \in Int
    BY <1>1, StreamConstants
  <2>2. Stream!Chunk(Len(out.data)) \in Int /\ Stream!Chunk(Len(out.data)) <= Len(out.data)
    BY <2>1, LeastOfTwo, Zenon DEF Stream!Chunk
  <2>3. Stream!Room \in Int
    BY <1>1, StreamConstants DEF Stream!Room
  <2>4. /\ Stream!Min({Stream!Chunk(Len(out.data)), Stream!Room}) \in Int
        /\ Stream!Min({Stream!Chunk(Len(out.data)), Stream!Room}) <= Stream!Chunk(Len(out.data))
    BY <2>2, <2>3, LeastOfTwo, Zenon
  <2> QED BY <1>1, <2>2, <2>4
<1> DEFINE first == SubSeq(out.data, 1, n)
           after == SubSeq(out.data, n + 1, Len(out.data))
<1>4. /\ first \in Seq(Byte) /\ after \in Seq(Byte) /\ Len(first) = n
      /\ Len(after) = Len(out.data) - n /\ \A i \in 1 .. n : first[i] = out.data[i]
      /\ \A i \in 1 .. Len(out.data) - n : after[i] = out.data[n + i]
  BY <1>1, <1>3, SplitAt
<1>5. Stream!Take(first) /\ out' = [out EXCEPT !.data = after, !.sent = out.sent + n]
  BY <1>2 DEF Stream!Sent
<1> HIDE DEF first, after
<1>6. /\ out' \in SendCalls /\ out'.how = out.how /\ out'.offset = out.offset
      /\ out'.size = out.size /\ out'.from = out.from /\ out'.sent = out.sent + n
      /\ out'.data = after /\ out'.off = out.off
  <2>1. out.sent \in Nat /\ n \in Nat /\ out.sent + n \in Nat
    BY <1>1, <1>3 DEF SendCalls
  <2> DEFINE m == out.sent + n
  <2>2. m \in Nat /\ out' = [out EXCEPT !.data = after, !.sent = m]
    BY <1>5, <2>1
  <2> HIDE DEF m
  <2>3. /\ out' \in SendCalls /\ out'.how = out.how /\ out'.offset = out.offset
        /\ out'.size = out.size /\ out'.from = out.from /\ out'.sent = m
        /\ out'.data = after /\ out'.off = out.off
    BY <1>1, <1>4, <2>2 DEF SendCalls
  <2> QED BY <2>3 DEF m
<1>7. out' # Idle
  BY <1>6 DEF IdleIsNoSend
<1>8. /\ out.sent \in Nat /\ out.offset \in Nat /\ out.off \in Nat /\ out.size \in Nat
      /\ n \in Nat /\ n <= Len(out.data)
  BY <1>1, <1>3 DEF SendCalls
<1>9. /\ \A i \in 1 .. Len(out.data) :
            out.data[i] = <<Owner(out, Len(told) + 1), out.offset + out.sent + i>>
      /\ out.sent + Len(out.data) <= out.size
      /\ out.how = "send_all" => out.sent + Len(out.data) = out.size
      /\ out.how # "send_all" => out.off = out.offset + out.sent + Len(out.data)
      /\ out.how = "kernel" => out.data = <<>>
  BY <1>1 DEF StreamInd, SenderInd, OutInd
<1>10. \A i \in 1 .. n : first[i] = <<Owner(out, Len(told) + 1), out.offset + out.sent + i>>
  <2>1. \A i \in 1 .. n : i \in 1 .. Len(out.data)
    BY <1>1, <1>8
  <2> QED BY <1>4, <1>9, <2>1, Zenon
<1>11. \A i \in 1 .. Len(out'.data) :
          out'.data[i] = <<Owner(out, Len(told) + 1), out.offset + (out.sent + n) + i>>
  <2> SUFFICES ASSUME NEW i \in 1 .. Len(out.data) - n
               PROVE  after[i] = <<Owner(out, Len(told) + 1), out.offset + (out.sent + n) + i>>
    BY <1>4, <1>6
  <2>1. n + i \in 1 .. Len(out.data)
    BY <1>1, <1>8
  <2>2. after[i] = <<Owner(out, Len(told) + 1), out.offset + out.sent + (n + i)>>
    BY <1>4, <1>9, <2>1
  <2>3. out.offset + out.sent + (n + i) = out.offset + (out.sent + n) + i
    BY <1>1, <1>8
  <2> QED BY <2>2, <2>3
<1>12. /\ out'.sent + Len(out'.data) <= out.size
       /\ out.how = "send_all" => out'.sent + Len(out'.data) = out.size
       /\ out.how # "send_all" => out'.off = out.offset + out'.sent + Len(out'.data)
  <2>1. Len(out'.data) = Len(out.data) - n /\ out'.sent = out.sent + n
    BY <1>4, <1>6
  <2>2. out'.sent + Len(out'.data) = out.sent + Len(out.data)
    BY <1>1, <1>8, <2>1
  <2>3. out.offset + out'.sent + Len(out'.data) = out.offset + out.sent + Len(out.data)
    BY <1>1, <1>8, <2>1
  <2> QED BY <1>6, <1>9, <2>2, <2>3
<1>13. out.how = "kernel" => out'.data = <<>>
  <2>1. out.how = "kernel" => out.data = <<>>
    BY <1>9
  <2>2. out.data # <<>>
    BY DEF Stream!SendSome
  <2> QED BY <2>1, <2>2
<1>14. SenderInd'
  BY <1>1, <1>4, <1>5, <1>6, <1>7, <1>8, <1>10, <1>11, <1>12, <1>13, SenderTake DEF StreamInd
<1>15. FrameInd'
  BY <1>1, <1>4, <1>5, FrameTake DEF StreamInd
<1> QED BY <1>14, <1>15 DEF StreamInd

\* the generic socket_sendfile fills its buffer,
LEMMA ReadFileKeeps ==
    ASSUME SocketAssumption, IdleIsNoSend, StreamInd, Stream!ReadFile
    PROVE  StreamInd'
<1> DEFINE n == Stream!Min({Stream!Missing, BufferSize, file - out.off})
           data == Stream!Bytes(0, out.off, n)
<1>1. /\ out # Idle /\ out.how = "generic" /\ out.data = <<>> /\ out.size - out.sent > 0
      /\ out.off < file /\ out \in SendCalls /\ file \in Nat /\ handed \in Seq(Byte)
      /\ Len(handed) \in Nat
      /\ UNCHANGED <<in, wire, link, file, handed, told, frames>>
  BY LenProperties DEF StreamInd, SenderInd, OutInd, Stream!ReadFile, Stream!ReadsFile,
     Stream!Missing
<1>2. out.sent \in Nat /\ out.offset \in Nat /\ out.off \in Nat /\ out.size \in Nat
  BY <1>1 DEF SendCalls
<1>3. n \in Nat /\ n <= out.size - out.sent
  <2>1. /\ Stream!Missing \in Int /\ BufferSize \in Int /\ file - out.off \in Int
        /\ Stream!Missing > 0 /\ BufferSize > 0 /\ file - out.off > 0
        /\ Stream!Missing = out.size - out.sent
    <3>1. BufferSize \in Nat \ {0}
      BY StreamConstants
    <3>2. Stream!Missing = out.size - out.sent
      BY DEF Stream!Missing
    <3>3. Stream!Missing \in Int /\ Stream!Missing > 0
      BY <1>1, <1>2, <3>2
    <3>4. file - out.off \in Int /\ file - out.off > 0
      BY <1>1, <1>2
    <3> QED BY <3>1, <3>2, <3>3, <3>4
  <2>2. /\ n \in {Stream!Missing, BufferSize, file - out.off} /\ n \in Int
        /\ n <= Stream!Missing
    BY <2>1, LeastOfThree, Zenon
  <2> HIDE DEF n
  <2> QED BY <2>1, <2>2
<1>4. out' = [out EXCEPT !.data = data, !.off = out.off + n]
  BY DEF Stream!ReadFile
<1>5. data \in Seq(Byte) /\ Len(data) = n /\ \A i \in 1 .. n : data[i] = <<0, out.off + i>>
  <2> HIDE DEF n
  <2>1. 0 \in Nat /\ out.off \in Nat /\ n \in Nat
    BY <1>2, <1>3
  <2> QED BY <2>1, BytesAreBytes
<1> HIDE DEF n, data
<1>6. /\ out' \in SendCalls /\ out'.how = out.how /\ out'.offset = out.offset
      /\ out'.size = out.size /\ out'.from = out.from /\ out'.sent = out.sent
      /\ out'.data = data /\ out'.off = out.off + n
  <2> DEFINE m == out.off + n
  <2>1. m \in Nat /\ out' = [out EXCEPT !.data = data, !.off = m]
    BY <1>2, <1>3, <1>4
  <2> HIDE DEF m
  <2>2. /\ out' \in SendCalls /\ out'.how = out.how /\ out'.offset = out.offset
        /\ out'.size = out.size /\ out'.from = out.from /\ out'.sent = out.sent
        /\ out'.data = data /\ out'.off = m
    BY <1>1, <1>5, <2>1 DEF SendCalls
  <2> QED BY <2>2 DEF m
<1>7. out' # Idle
  BY <1>6 DEF IdleIsNoSend
<1>8. Len(out.data) = 0 /\ out.off = out.offset + out.sent
  <2>1. Len(out.data) = 0
    BY <1>1, EmptySeq
  <2>2. out.off = out.offset + out.sent + Len(out.data)
    BY <1>1 DEF StreamInd, SenderInd, OutInd
  <2> QED BY <1>2, <2>1, <2>2
<1>9. OutInd'
  <2>1. Owner(out, Len(told) + 1)' = 0 /\ Owner(out, Len(told) + 1) = 0
    BY <1>1, <1>6 DEF Owner
  <2>2. Wrote(out, Len(told) + 1, out.sent)'
    <3>1. Wrote(out, Len(told) + 1, out.sent)
      BY <1>1 DEF StreamInd, SenderInd, OutInd
    <3> QED BY <1>1, <1>6, <2>1, <3>1 DEF Wrote
  <2>3. \A i \in 1 .. Len(out'.data) :
           out'.data[i] = <<Owner(out, Len(told) + 1)', out'.offset + out'.sent + i>>
    BY <1>2, <1>5, <1>6, <1>8, <2>1
  <2>4. out'.from + out'.sent = Len(handed')
    BY <1>1, <1>6 DEF StreamInd, SenderInd, OutInd
  <2>5. out'.sent + Len(out'.data) <= out'.size
    BY <1>2, <1>3, <1>5, <1>6
  <2>6. out'.off = out'.offset + out'.sent + Len(out'.data)
    BY <1>2, <1>3, <1>5, <1>6, <1>8
  <2>7. out'.how # "send_all" /\ out'.how # "kernel"
    BY <1>1, <1>6
  <2> QED BY <1>6, <2>2, <2>3, <2>4, <2>5, <2>6, <2>7 DEF OutInd
<1>10. ToldInd'
  <2>1. \A k \in 1 .. Len(told) : End(k)' = End(k)
    BY <1>1, <1>6, <1>7 DEF End
  <2>2. ToldInd /\ file' \in Nat /\ file' <= file /\ Len(handed) <= Len(handed')
        /\ handed' \in Seq(Byte) /\ told' = told
        /\ \A i \in 1 .. Len(handed) : handed'[i] = handed[i]
    BY <1>1 DEF StreamInd, SenderInd
  <2> QED BY <1>1, <2>1, <2>2, ToldStays
<1>11. FrameInd'
  BY <1>1, FrameSame DEF StreamInd
<1> QED BY <1>1, <1>9, <1>10, <1>11 DEF StreamInd, SenderInd

\* the kernel reads the file itself,
LEMMA KernelReadsFileKeeps ==
    ASSUME SocketAssumption, IdleIsNoSend, StreamInd, Stream!KernelReadsFile
    PROVE  StreamInd'
<1>1. /\ out # Idle /\ out.how # "send_all" /\ out.data = <<>> /\ out \in SendCalls
      /\ out.how # "generic" /\ link = "open" /\ wire \in Seq(Byte) /\ Len(wire) \in Nat
      /\ file \in Nat /\ UNCHANGED <<in, link, file, told, frames>>
  BY LenProperties DEF StreamInd, FrameInd, SenderInd, OutInd, Stream!KernelReadsFile,
     Stream!ReadsFile
<1>2. out.sent \in Nat /\ out.offset \in Nat /\ out.off \in Nat /\ out.size \in Nat
      /\ out.how = "kernel"
  BY <1>1 DEF SendCalls
<1>3. PICK n \in 1 .. Stream!Min({Stream!Missing, file - out.off, Stream!Room}) :
        /\ Stream!Take(Stream!Bytes(0, out.off, n))
        /\ out' = [out EXCEPT !.off = out.off + n, !.sent = out.sent + n]
  BY DEF Stream!KernelReadsFile
<1>4. n \in Nat /\ n <= out.size - out.sent
  <2>1. Stream!Missing \in Int /\ file - out.off \in Int /\ Stream!Room \in Int
        /\ Stream!Missing = out.size - out.sent
    <3>1. Stream!Missing = out.size - out.sent /\ Stream!Missing \in Int
      BY <1>2 DEF Stream!Missing
    <3>2. Capacity \in Int
      BY StreamConstants
    <3>3. Stream!Room \in Int
      BY <1>1, <3>2 DEF Stream!Room
    <3>4. file - out.off \in Int
      BY <1>1, <1>2
    <3> QED BY <3>1, <3>3, <3>4
  <2>2. /\ Stream!Min({Stream!Missing, file - out.off, Stream!Room}) \in Int
        /\ Stream!Min({Stream!Missing, file - out.off, Stream!Room}) <= Stream!Missing
    BY <2>1, LeastOfThree, Zenon
  <2> QED BY <2>1, <2>2
<1> DEFINE bytes == Stream!Bytes(0, out.off, n)
<1>5. bytes \in Seq(Byte) /\ Len(bytes) = n /\ \A i \in 1 .. n : bytes[i] = <<0, out.off + i>>
  <2>1. 0 \in Nat /\ out.off \in Nat /\ n \in Nat
    BY <1>2, <1>4
  <2> QED BY <2>1, BytesAreBytes
<1>6. Stream!Take(bytes)
  BY <1>3
<1> HIDE DEF bytes
<1>7. /\ out' \in SendCalls /\ out'.how = out.how /\ out'.offset = out.offset
      /\ out'.size = out.size /\ out'.from = out.from /\ out'.sent = out.sent + n
      /\ out'.data = out.data /\ out'.off = out.off + n
  <2> DEFINE m == out.off + n
             l == out.sent + n
  <2>1. m \in Nat /\ l \in Nat /\ out' = [out EXCEPT !.off = m, !.sent = l]
    BY <1>2, <1>3, <1>4
  <2> HIDE DEF m, l
  <2>2. /\ out' \in SendCalls /\ out'.how = out.how /\ out'.offset = out.offset
        /\ out'.size = out.size /\ out'.from = out.from /\ out'.sent = l
        /\ out'.data = out.data /\ out'.off = m
    BY <1>1, <2>1 DEF SendCalls
  <2> QED BY <2>2 DEF m, l
<1>8. out' # Idle
  BY <1>7 DEF IdleIsNoSend
<1>9. Len(out.data) = 0 /\ out.off = out.offset + out.sent /\ Len(out'.data) = 0
  <2>1. Len(out.data) = 0
    BY <1>1, EmptySeq
  <2>2. out.off = out.offset + out.sent + Len(out.data)
    BY <1>1 DEF StreamInd, SenderInd, OutInd
  <2> QED BY <1>2, <1>7, <2>1, <2>2
<1>10. /\ \A i \in 1 .. n : bytes[i] = <<Owner(out, Len(told) + 1), out.offset + out.sent + i>>
       /\ \A i \in 1 .. Len(out'.data) :
             out'.data[i] = <<Owner(out, Len(told) + 1), out.offset + (out.sent + n) + i>>
       /\ out'.sent + Len(out'.data) <= out.size
       /\ out'.off = out.offset + out'.sent + Len(out'.data)
       /\ out'.data = <<>>
  <2>1. Owner(out, Len(told) + 1) = 0
    BY <1>2 DEF Owner
  <2>2. \A i \in 1 .. n : bytes[i] = <<Owner(out, Len(told) + 1), out.offset + out.sent + i>>
    BY <1>5, <1>9, <2>1
  <2>3. out'.sent + Len(out'.data) <= out.size
    BY <1>2, <1>4, <1>7, <1>9
  <2>4. out'.off = out.offset + out'.sent + Len(out'.data)
    BY <1>2, <1>4, <1>7, <1>9
  <2>5. \A i \in 1 .. Len(out'.data) : FALSE
    BY <1>9
  <2> QED BY <1>1, <1>7, <2>2, <2>3, <2>4, <2>5
<1>11. SenderInd'
  <2>1. SenderInd /\ UNCHANGED <<told, file>>
    BY <1>1 DEF StreamInd
  <2>2. out.how = "send_all" => out'.sent + Len(out'.data) = out.size
    BY <1>1
  <2> QED BY <1>1, <1>4, <1>5, <1>6, <1>7, <1>8, <1>10, <2>1, <2>2, SenderTake, Zenon
<1>12. FrameInd'
  BY <1>1, <1>5, <1>6, FrameTake DEF StreamInd
<1> QED BY <1>11, <1>12 DEF StreamInd

\* and the call returns, in the end or on an error.
LEMMA SenderReturnsKeeps ==
    ASSUME StreamInd, Stream!SenderReturns \/ Stream!SendError \/ Stream!ReadFails
    PROVE  StreamInd'
<1>1. /\ out # Idle /\ out \in SendCalls /\ file \in Nat
      /\ UNCHANGED <<in, wire, link, file, handed, frames>>
  BY DEF StreamInd, SenderInd, OutInd, Stream!SenderReturns, Stream!SendError,
     Stream!ReadFails, Stream!ReadsFile
<1>2. FrameInd'
  BY <1>1, FrameSame DEF StreamInd
<1>3. out.sent \in Nat /\ out.offset \in Nat /\ out.off \in Nat /\ out.size \in Nat
  BY <1>1 DEF SendCalls
<1>4. /\ out.sent + Len(out.data) <= out.size
      /\ out.how = "send_all" => out.sent + Len(out.data) = out.size
      /\ out.how # "send_all" => out.off = out.offset + out.sent + Len(out.data)
  BY <1>1 DEF StreamInd, SenderInd, OutInd
<1>5. ASSUME NEW r \in BOOLEAN \cup Int, Stream!Returns(r),
             out.how = "send_all" => (r = TRUE /\ out.sent = out.size) \/ r = FALSE,
             out.how # "send_all" => r = -1 \/ (r = out.sent /\ (out.sent = out.size
                                                   \/ file < out.offset + out.size))
      PROVE  SenderInd'
  <2>1. SenderInd /\ UNCHANGED <<handed, file>>
    BY <1>1 DEF StreamInd
  <2> QED BY <1>1, <1>5, <2>1, SenderReturn
<1>6. ASSUME Stream!SenderReturns PROVE SenderInd'
  <2>1. out.data = <<>> /\ Len(out.data) = 0
    BY <1>6, EmptySeq DEF Stream!SenderReturns
  <2>2. CASE out.how = "send_all"
    <3>1. Stream!Returns(TRUE)
      BY <1>6, <2>2 DEF Stream!SenderReturns
    <3>2. out.sent = out.size
      BY <1>3, <1>4, <2>1, <2>2
    <3>3. TRUE \in BOOLEAN \cup Int
      OBVIOUS
    <3> QED BY <1>5, <2>2, <3>1, <3>2, <3>3
  <2>3. CASE out.how # "send_all"
    <3>1. Stream!Returns(out.sent) /\ (Stream!Missing = 0 \/ out.off >= file)
      BY <1>6, <2>3 DEF Stream!SenderReturns
    <3>2. out.sent = out.size \/ file < out.offset + out.size
      <4>1. out.off = out.offset + out.sent /\ out.sent <= out.size
        BY <1>3, <1>4, <2>1, <2>3
      <4> QED BY <1>1, <1>3, <3>1, <4>1 DEF Stream!Missing
    <3>3. out.sent \in BOOLEAN \cup Int
      BY <1>3
    <3> QED BY <1>5, <2>3, <3>1, <3>2, <3>3
  <2> QED BY <2>2, <2>3
<1>7. ASSUME Stream!SendError \/ Stream!ReadFails PROVE SenderInd'
  <2>1. CASE out.how = "send_all"
    <3>1. Stream!Returns(FALSE)
      BY <1>7, <2>1 DEF Stream!SendError, Stream!ReadFails, Stream!ReadsFile
    <3> QED BY <1>5, <2>1, <3>1
  <2>2. CASE out.how # "send_all"
    <3>1. Stream!Returns(-1)
      BY <1>7, <2>2 DEF Stream!SendError, Stream!ReadFails, Stream!ReadsFile
    <3>2. -1 \in BOOLEAN \cup Int
      OBVIOUS
    <3> QED BY <1>5, <2>2, <3>1, <3>2
  <2> QED BY <2>1, <2>2
<1>8. SenderInd'
  BY <1>6, <1>7
<1> QED BY <1>2, <1>8 DEF StreamInd

\* What others do does not disturb what the sender is told, a shorter file included.
LEMMA SenderSame ==
    ASSUME SenderInd, UNCHANGED <<out, handed, told>>, file' \in Nat, file' <= file
    PROVE  SenderInd'
<1>1. handed \in Seq(Byte) /\ Len(handed) \in Nat /\ file \in Nat /\ ToldInd /\ OutInd
  BY LenProperties DEF SenderInd
<1>2. OutInd'
  BY <1>1 DEF OutInd, Wrote, Owner
<1>3. ToldInd'
  <2>1. \A k \in 1 .. Len(told) : End(k)' = End(k)
    BY DEF End
  <2>2. handed' \in Seq(Byte) /\ Len(handed) <= Len(handed')
        /\ \A i \in 1 .. Len(handed) : handed'[i] = handed[i]
    BY <1>1
  <2> QED BY <1>1, <2>1, <2>2, ToldStays
<1> QED BY <1>1, <1>2, <1>3 DEF SenderInd

\* Each step of a stream keeps the invariant.
LEMMA StreamNext ==
    ASSUME SocketAssumption, IdleIsNoCall, IdleIsNoSend, StreamInd, Stream!Next
    PROVE  StreamInd'
<1>0. FrameInd /\ SenderInd /\ file \in Nat
  BY DEF StreamInd, SenderInd
<1>1. ASSUME NEW n \in Lengths, Stream!SendAll(n) PROVE StreamInd'
  BY <1>1, SendAllKeeps
<1>2. ASSUME NEW how \in Stream!SendFiles, NEW offset \in Offsets, NEW n \in Lengths,
             Stream!SendFile(how, offset, n)
      PROVE  StreamInd'
  BY <1>2, SendFileKeeps
<1>3. ASSUME NEW n \in Lengths, Stream!RecvAll(n) PROVE StreamInd'
  <2>1. n \in Nat /\ UNCHANGED <<out, handed, told, file>>
    BY <1>3, StreamConstants DEF Stream!RecvAll
  <2>2. FrameInd'
    BY <1>0, <1>3, <2>1, FrameCall
  <2>3. SenderInd'
    BY <1>0, <2>1, SenderSame
  <2> QED BY <2>2, <2>3 DEF StreamInd
<1>4. CASE Stream!SenderStep \/ Stream!SenderGivesUp
  BY <1>4, SendSomeKeeps, ReadFileKeeps, KernelReadsFileKeeps, SenderReturnsKeeps
     DEF Stream!SenderStep, Stream!SenderFails, Stream!SenderGivesUp
<1>5. CASE Stream!Shutdown
  <2>1. /\ UNCHANGED <<out, in, wire, file, handed, told, frames>>
        /\ link = "open" /\ link' = "shutdown"
    BY <1>5 DEF Stream!Shutdown
  <2> QED BY <1>0, <2>1, FrameSame, SenderSame DEF StreamInd
<1>6. CASE Stream!ReceiverStep \/ Stream!ReceiverGivesUp
  <2>0. Stream!RecvSome \/ Stream!Received(TRUE) \/ Stream!Received(FALSE)
    BY <1>6 DEF Stream!ReceiverStep, Stream!ReceiverReturns, Stream!ReceiverGivesUp
  <2>1. UNCHANGED <<out, file, handed, told>>
    BY <2>0 DEF Stream!RecvSome, Stream!Received
  <2>2. FrameInd'
    BY <1>0, <2>0, FrameRecv, FrameReturns
  <2> QED BY <1>0, <2>1, <2>2, SenderSame DEF StreamInd
<1>7. ASSUME NEW k \in 0 .. Len(wire), Stream!Lose(k) PROVE StreamInd'
  <2>1. UNCHANGED <<out, file, handed, told>>
    BY <1>7 DEF Stream!Lose
  <2>2. FrameInd'
    BY <1>0, <1>7, FrameLose
  <2> QED BY <1>0, <2>1, <2>2, SenderSame DEF StreamInd
<1>8. CASE Stream!Close \/ Stream!Reset
  <2>1. 0 \in 0 .. Len(wire)
    BY <1>0, LenProperties DEF FrameInd
  <2> QED BY <1>7, <1>8, <2>1 DEF Stream!Close, Stream!Reset
<1>9. CASE Stream!Truncate
  <2>1. /\ UNCHANGED <<out, in, wire, link, handed, told, frames>>
        /\ file' \in Nat /\ file' <= file
    BY <1>0, <1>9 DEF Stream!Truncate
  <2> QED BY <1>0, <2>1, FrameSame, SenderSame DEF StreamInd
<1> QED BY <1>1, <1>2, <1>3, <1>4, <1>5, <1>6, <1>8, <1>9 DEF Stream!Next

\* What is true of a call's bytes, said of the sequences the property compares.
LEMMA TruthIsTold ==
    ASSUME SenderInd, NEW k \in 1 .. Len(told)
    PROVE  /\ Stream!IsPrefix(Stream!HandedBy(k), Stream!Wanted(k))
           /\ told[k].call.how = "send_all" /\ told[k].result =>
                 Len(Stream!HandedBy(k)) = told[k].call.size
           /\ told[k].call.how # "send_all" /\ told[k].result # -1 =>
                 /\ Len(Stream!HandedBy(k)) = told[k].result
                 /\ \/ told[k].result = told[k].call.size
                    \/ file < told[k].call.offset + told[k].call.size
<1>1. PICK c, r, n, e : c = told[k].call /\ r = told[k].result /\ e = End(k) /\ n = e - c.from
  OBVIOUS
<1>2. Truth(c, k, r, n)
  BY <1>1 DEF SenderInd, ToldInd
<1>3. c \in SendCalls
  <2>1. told[k] \in ToldCalls
    BY ElementOfSeq DEF SenderInd, ToldInd
  <2> QED BY <1>1, <2>1 DEF ToldCalls
<1>4. /\ c.from \in Nat /\ c.size \in Nat /\ c.offset \in Nat /\ n \in Nat /\ n <= c.size
      /\ c.from + n <= Len(handed) /\ handed \in Seq(Byte) /\ Len(handed) \in Nat
  BY <1>2, <1>3, LenProperties DEF SendCalls, Truth, SenderInd
<1>5. e \in Int /\ e = c.from + n
  <2>1. told \in Seq(ToldCalls) /\ Len(told) \in Nat
    BY LenProperties DEF SenderInd, ToldInd
  <2>2. End(k) \in Int
    <3>1. CASE k < Len(told)
      <4>1. k + 1 \in 1 .. Len(told)
        BY <2>1, <3>1
      <4>2. told[k + 1] \in ToldCalls
        BY <2>1, <4>1, ElementOfSeq
      <4> QED BY <3>1, <4>2 DEF End, ToldCalls, SendCalls
    <3>2. CASE ~(k < Len(told))
      BY <1>4, <3>2 DEF End, SenderInd, OutInd, SendCalls
    <3> QED BY <3>1, <3>2
  <2> QED BY <1>1, <1>4, <2>2
<1> DEFINE h == SubSeq(handed, c.from + 1, e)
           w == Stream!Wanted(k)
           own == IF c.how = "send_all" THEN k ELSE 0
<1>6. Stream!HandedBy(k) = h
  BY <1>1 DEF Stream!HandedBy, End
<1>7. \A i \in 1 .. n : handed[c.from + i] = <<own, c.offset + i>>
  BY <1>2 DEF Truth, Wrote, Owner
<1>8. h \in Seq(Byte) /\ Len(h) = n /\ \A i \in 1 .. n : h[i] = <<own, c.offset + i>>
  <2>1. c.from + 1 \in Int /\ \A i \in c.from + 1 .. e : handed[i] \in Byte
    <3>1. \A i \in c.from + 1 .. e : i \in 1 .. Len(handed)
      BY <1>4, <1>5
    <3> QED BY <1>4, <3>1, ElementOfSeq
  <2>2. /\ h \in Seq(Byte)
        /\ Len(h) = IF c.from + 1 <= e THEN e - (c.from + 1) + 1 ELSE 0
        /\ \A i \in 1 .. e - (c.from + 1) + 1 : h[i] = handed[(c.from + 1) + i - 1]
    BY <1>5, <2>1, SubSeqProperties
  <2> HIDE DEF h, own
  <2>3. e - (c.from + 1) + 1 = n /\ (c.from + 1 <= e <=> n >= 1)
    BY <1>4, <1>5
  <2>4. \A i \in 1 .. n : (c.from + 1) + i - 1 = c.from + i
    BY <1>4
  <2>5. Len(h) = n
    BY <1>4, <2>2, <2>3
  <2> QED BY <1>7, <2>2, <2>3, <2>4, <2>5
<1>9. w \in Seq(Byte) /\ Len(w) = c.size /\ \A i \in 1 .. c.size : w[i] = <<own, c.offset + i>>
  <2>1. own \in Nat
    BY DEF SenderInd, ToldInd
  <2>2. w = Stream!Bytes(own, c.offset, c.size)
    BY <1>1 DEF Stream!Wanted
  <2> HIDE DEF own, w
  <2>3. /\ Stream!Bytes(own, c.offset, c.size) \in Seq(Byte)
        /\ Len(Stream!Bytes(own, c.offset, c.size)) = c.size
        /\ \A i \in 1 .. c.size :
              Stream!Bytes(own, c.offset, c.size)[i] = <<own, c.offset + i>>
    <3>1. c.offset \in Nat /\ c.size \in Nat
      BY <1>4
    <3> QED BY <2>1, <3>1, BytesAreBytes
  <2> QED BY <2>2, <2>3
<1>10. Stream!IsPrefix(h, w)
  <2> HIDE DEF h, w, own
  <2>1. n \in 0 .. Len(w)
    BY <1>4, <1>9
  <2>2. /\ SubSeq(w, 1, n) \in Seq(Byte) /\ Len(SubSeq(w, 1, n)) = n
        /\ \A i \in 1 .. n : SubSeq(w, 1, n)[i] = w[i]
    BY <1>9, <2>1, SplitAt
  <2>3. \A i \in 1 .. n : h[i] = SubSeq(w, 1, n)[i]
    <3>1. \A i \in 1 .. n : i \in 1 .. c.size
      BY <1>4
    <3> QED BY <1>8, <1>9, <2>2, <3>1
  <2>4. h = SubSeq(w, 1, n)
    BY <1>8, <2>2, <2>3, SeqEqual
  <2>5. SubSeq(h, 1, n) = h
    BY <1>8, SubSeqFull
  <2> QED BY <1>4, <1>8, <1>9, <2>4, <2>5 DEF Stream!IsPrefix
<1>11. /\ c.how = "send_all" /\ r => n = c.size
       /\ c.how # "send_all" /\ r # -1 =>
             n = r /\ (r = c.size \/ file < c.offset + c.size)
  BY <1>2, <1>4 DEF Truth
<1> HIDE DEF h, w, own
<1> QED BY <1>1, <1>6, <1>8, <1>10, <1>11 DEF w

\* What holds at the start.
LEMMA StreamInit ==
    ASSUME SocketAssumption, Stream!Init
    PROVE  StreamInd
<1>1. /\ out = Idle /\ in = Idle /\ wire = <<>> /\ link = "open" /\ file \in Nat
      /\ handed = <<>> /\ told = <<>> /\ frames = <<>>
  BY StreamConstants DEF Stream!Init
<1>2. /\ handed \in Seq(Byte) /\ told \in Seq(ToldCalls) /\ frames \in Seq(Frames)
      /\ wire \in Seq(Byte) /\ Len(told) = 0 /\ Len(frames) = 0
  BY <1>1, EmptySeq
<1>3. Stream!FlattenSeq(Pieces) = <<>> /\ Got = <<>>
  <2>1. Pieces \in Seq(Seq(Byte)) /\ Len(Pieces) = 0
    BY <1>2, PiecesArePieces
  <2>2. Pieces = <<>>
    BY <2>1, EmptySeq
  <2>3. Stream!FlattenSeq(<<>>) = <<>>
    BY EmptySeq DEF Stream!FlattenSeq
  <2> QED BY <1>1, <2>2, <2>3 DEF Got
<1>4. Stream!FlattenSeq(Pieces) \o Got \o wire \o <<>> = handed /\ <<>> \in Seq(Byte)
  BY <1>1, <1>3
<1>5. FrameInd
  <2>1. \E lost \in Seq(Byte) :
           /\ Stream!FlattenSeq(Pieces) \o Got \o wire \o lost = handed
           /\ link # "closed" => lost = <<>>
    BY <1>4
  <2>2. \A k \in 1 .. Len(frames) : FALSE
    BY <1>2
  <2> QED BY <1>1, <1>2, <2>1, <2>2 DEF FrameInd
<1>6. SenderInd
  BY <1>1, <1>2 DEF SenderInd, OutInd, ToldInd
<1> QED BY <1>5, <1>6 DEF StreamInd

\* In a stream the invariant always holds.
LEMMA StreamAlways ==
    ASSUME IdleIsNoCall, IdleIsNoSend
    PROVE  Spec => [](part = "stream" => StreamInd)
<1> DEFINE Ind == part = "stream" => StreamInd
<1>1. Init => Ind
  BY SocketAssumption, StreamInit DEF Init
<1>2. Ind /\ [Next]_vars => Ind'
  <2> SUFFICES ASSUME Ind, [Next]_vars PROVE Ind'
    OBVIOUS
  <2>1. CASE StreamStep
    BY <2>1, SocketAssumption, StreamNext DEF StreamStep, OfStream
  <2>2. CASE DeadlineStep
    BY <2>2 DEF DeadlineStep
  <2>3. CASE ConnectStep
    BY <2>3 DEF ConnectStep
  <2>4. CASE UNCHANGED vars
    <3>1. UNCHANGED streamVars /\ part' = part
      BY <2>4 DEF vars
    <3>2. UNCHANGED <<out, in, wire, link, file, handed, told, frames>>
      BY <3>1 DEF streamVars
    <3>3. StreamInd => StreamInd'
      <4>1. StreamInd => file' \in Nat /\ file' <= file /\ FrameInd /\ SenderInd
        BY <3>2 DEF StreamInd, SenderInd
      <4> QED BY <3>2, <4>1, FrameSame, SenderSame DEF StreamInd
    <3> QED BY <3>1, <3>3
  <2> QED BY <2>1, <2>2, <2>3, <2>4 DEF Next
<1> HIDE DEF Ind
<1> QED BY <1>1, <1>2, PTL DEF Spec, Ind

\* The calls of socket_recv_all cut the stream into the pieces they ask for, none skipped,
\* repeated or read ahead: for every length and number of calls, every size of the kernel's
\* pieces and of its buffer, whoever closes the connection when.
THEOREM TheStreamIsCut ==
    ASSUME IdleIsNoCall, IdleIsNoSend
    PROVE  Spec => []FramesCutTheStream
<1>1. (part = "stream" => StreamInd) => FramesCutTheStream
  BY FramesFollow DEF StreamInd, FramesCutTheStream
<1> QED BY <1>1, StreamAlways, PTL

\* What socket_send_all and socket_sendfile return is the truth about the bytes they handed
\* to the kernel: for every buffer, file, offset and number of calls, on each of the systems,
\* also when a signal or a full buffer cuts a send short or the file gets shorter meanwhile.
THEOREM TheSenderIsToldTheTruth ==
    ASSUME IdleIsNoCall, IdleIsNoSend
    PROVE  Spec => []SenderIsToldTheTruth
<1>1. (part = "stream" => StreamInd) => SenderIsToldTheTruth
  BY TruthIsTold DEF StreamInd, SenderIsToldTheTruth, Stream!SenderIsToldTheTruth
<1> QED BY <1>1, StreamAlways, PTL
=============================================================================
