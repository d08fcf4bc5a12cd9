---------------------------- MODULE WinCondition ----------------------------
(***************************************************************************)
(* The condition variable of src/thread.c on Windows, made of an           *)
(* auto-reset event for condition_signal and a manual-reset event for      *)
(* condition_broadcast, and the mutex of WinMutex.                         *)
(*                                                                         *)
(* Its users are the usual ones: consumers that wait under the mutex while *)
(* there is no item, in a loop, and producers that add an item under the   *)
(* mutex and notify.                                                       *)
(***************************************************************************)
EXTENDS Integers, FiniteSets

CONSTANTS
    Consumers, Producers, NoOne,
    MaxItems           \* bound: items of each producer

ConditionAssumption ==
    /\ IsFiniteSet(Consumers) /\ IsFiniteSet(Producers)
    /\ Consumers \cap Producers = {} /\ MaxItems \in Nat

Threads == Consumers \cup Producers
MaxDepth == 1

VARIABLES
    recursive, owner, depth, status, asleep, held,   \* the mutex
    signalled,         \* events[0], auto-reset
    broadcast,         \* events[1], manual-reset
    waiter_count,
    present,           \* the threads of this program
    broadcasts,        \* do its producers broadcast, rather than signal?
    pc,
    items, made,       \* items there are, and each producer has made
    due                \* history: waiters that are still to be woken

mutexVars == <<recursive, owner, depth, status, asleep, held>>
users == <<present, broadcasts>>
eventVars == <<signalled, broadcast, users>>
vars == <<mutexVars, eventVars, waiter_count, pc, items, made, due>>

Mutex == INSTANCE WinMutex

Init ==
    /\ Mutex!Init /\ ~recursive
    /\ signalled = FALSE /\ broadcast = FALSE /\ waiter_count = 0
    /\ present \in {C \cup Producers : C \in SUBSET Consumers \ {{}}} /\ broadcasts \in BOOLEAN
    /\ pc = [t \in Threads |-> "out"]
    /\ items = 0 /\ made = [p \in Producers |-> 0] /\ due = 0

Goto(t, from, to) == pc[t] = from /\ pc' = [pc EXCEPT ![t] = to]

\* The threads inside WaitForMultipleObjects, or about to call it.
Waiting == {t \in Consumers : pc[t] \in {"unlock", "wait"}}

-----------------------------------------------------------------------------
(* __condition_timedwait_win32__ *)

\* Lines 239 to 241.
Counted(t) ==
    /\ Goto(t, "in", "unlock") /\ items = 0
    /\ waiter_count' = waiter_count + 1
    /\ UNCHANGED <<mutexVars, eventVars, items, made, due>>

\* Line 243.
UnlockMutex(t) ==
    /\ Goto(t, "unlock", "wait") /\ Mutex!Unlock(t)
    /\ UNCHANGED <<eventVars, waiter_count, items, made, due>>

Woken == due' = IF due = 0 THEN 0 ELSE due - 1

\* Line 250: the auto-reset event is looked at first, and reset.
WokenBySignal(t) ==
    /\ Goto(t, "wait", "signalled") /\ signalled /\ signalled' = FALSE /\ Woken
    /\ UNCHANGED <<mutexVars, broadcast, users, waiter_count, items, made>>

WokenByBroadcast(t) ==
    /\ Goto(t, "wait", "broadcast") /\ ~signalled /\ broadcast /\ Woken
    /\ UNCHANGED <<mutexVars, eventVars, waiter_count, items, made>>

\* Lines 251 to 254: only a waiter that the broadcast woke, and that is the last
\* to be counted, resets the manual event.
Uncounted(t) ==
    /\ waiter_count' = waiter_count - 1
    /\ \/ Goto(t, "signalled", "relock")
       \/ Goto(t, "broadcast", IF waiter_count' = 0 THEN "reset" ELSE "relock")
    /\ UNCHANGED <<mutexVars, eventVars, items, made, due>>

\* Line 257, outside any lock.
Reset(t) ==
    /\ Goto(t, "reset", "relock") /\ broadcast' = FALSE
    /\ UNCHANGED <<mutexVars, signalled, users, waiter_count, items, made, due>>

\* Returns without the mutex.
Faulty_Relock(t) ==
    /\ Goto(t, "relock", "in")
    /\ UNCHANGED <<mutexVars, eventVars, waiter_count, items, made, due>>

\* Line 258.
Relock(t) ==
    /\ Goto(t, "relock", "in") /\ Mutex!Lock(t)
    /\ UNCHANGED <<eventVars, waiter_count, items, made, due>>

-----------------------------------------------------------------------------
(* condition_signal and condition_broadcast *)

\* Leaves out a single waiter.
Faulty_Look(p) ==
    /\ Goto(p, "notify", IF waiter_count > 1 THEN "set" ELSE "out")
    /\ UNCHANGED <<mutexVars, eventVars, waiter_count, items, made, due>>

\* Lines 215 to 217, and 228 to 230: without waiters there is nothing to do.
Look(p) ==
    /\ Goto(p, "notify", IF waiter_count > 0 THEN "set" ELSE "out")
    /\ UNCHANGED <<mutexVars, eventVars, waiter_count, items, made, due>>

Fewest(m, n) == IF m < n THEN m ELSE n

\* Line 218: one more of those waiting is to be woken.  Line 231: all of them.
SetEvent(p) ==
    /\ Goto(p, "set", "out")
    /\ IF broadcasts
       THEN broadcast' = TRUE /\ UNCHANGED signalled /\ due' = Cardinality(Waiting)
       ELSE signalled' = TRUE /\ UNCHANGED broadcast
            /\ due' = Fewest(due + 1, Cardinality(Waiting))
    /\ UNCHANGED <<mutexVars, users, waiter_count, items, made>>

-----------------------------------------------------------------------------
(* The users *)

LockMutex(t) ==
    /\ Goto(t, "out", "in") /\ Mutex!Lock(t)
    /\ t \in Producers => made[t] < MaxItems
    /\ UNCHANGED <<eventVars, waiter_count, items, made, due>>

Consume(t) ==
    /\ t \in Consumers /\ Goto(t, "in", "out") /\ items > 0 /\ Mutex!Unlock(t)
    /\ items' = items - 1
    /\ UNCHANGED <<eventVars, waiter_count, made, due>>

Produce(p) ==
    /\ p \in Producers /\ Goto(p, "in", "notify") /\ Mutex!Unlock(p)
    /\ items' = items + 1 /\ made' = [made EXCEPT ![p] = @ + 1]
    /\ UNCHANGED <<eventVars, waiter_count, due>>

Wait(t) == Counted(t) \/ UnlockMutex(t) \/ WokenBySignal(t) \/ WokenByBroadcast(t)
           \/ Uncounted(t) \/ Reset(t) \/ Relock(t)

Step(t) ==
    \/ LockMutex(t)
    \/ t \in Consumers /\ (Consume(t) \/ Wait(t))
    \/ t \in Producers /\ (Produce(t) \/ Look(t) \/ SetEvent(t))

Next == \E t \in present : Step(t)

Spec == Init /\ [][Next]_vars

-----------------------------------------------------------------------------
(* Properties *)

Inside == {t \in Threads : pc[t] \in {"in", "unlock"}}

\* condition_wait returns with the mutex, whichever event ended it: the users'
\* critical sections exclude each other, and the count of waiters is exact.
WaitReturnsLocked ==
    /\ \A t \in Threads : held[t] = (IF t \in Inside THEN 1 ELSE 0)
    /\ Cardinality(Inside) <= 1
    /\ waiter_count = Cardinality({t \in Threads :
                          pc[t] \in {"unlock", "wait", "signalled", "broadcast"}})

\* How many of the waiters the events can still wake.
CanWake == IF broadcast THEN Cardinality(Waiting) ELSE IF signalled THEN 1 ELSE 0

\* thread.h:164, "Signal the condition variable to wake up one waiting thread":
\* as many waiters can be woken as signals are due.
EachSignalWakesOne == ~broadcasts => due <= CanWake
=============================================================================
