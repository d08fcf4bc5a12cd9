------------------------------ MODULE WinMutex ------------------------------
(***************************************************************************)
(* The mutex of src/thread.c on Windows.  A critical section can always be *)
(* entered again by its owner; a flag makes a mutex that is not recursive  *)
(* refuse that: mutex_lock then sleeps for ever ("simulate deadlock"), and *)
(* mutex_trylock leaves again and fails.                                   *)
(***************************************************************************)
EXTENDS Integers, FiniteSets

CONSTANTS
    Threads, NoOne,
    MaxDepth           \* bound: how often a thread may hold the mutex at once

VARIABLES
    recursive,         \* type & 8 of mutex_create
    owner, depth,      \* the critical section
    status,
    asleep,            \* threads in the loop of mutex_lock that never ends
    held               \* history: locks of each thread minus its unlocks

mutexVars == <<recursive, owner, depth, status, asleep, held>>

\* mutex_create
Init ==
    /\ recursive \in BOOLEAN
    /\ owner = NoOne /\ depth = 0 /\ status = FALSE
    /\ asleep = {} /\ held = [t \in Threads |-> 0]

Running(t) == t \notin asleep
MayEnter(t) == owner \in {NoOne, t}

\* EnterCriticalSection
Enter(t) == MayEnter(t) /\ owner' = t /\ depth' = depth + 1

\* LeaveCriticalSection
Leave == depth' = depth - 1 /\ owner' = (IF depth = 1 THEN NoOne ELSE owner)

Refused == ~recursive /\ status

\* The critical section was entered: the mutex is locked by t.
Taken(t) ==
    /\ status' = (status \/ ~recursive)
    /\ held' = [held EXCEPT ![t] = @ + 1]
    /\ UNCHANGED asleep

\* mutex_lock
Lock(t) ==
    /\ Running(t) /\ held[t] < MaxDepth /\ Enter(t)
    /\ IF Refused THEN asleep' = asleep \cup {t} /\ UNCHANGED <<status, held>> ELSE Taken(t)
    /\ UNCHANGED recursive

\* mutex_trylock: it fails if another thread owns the critical section, or if
\* the mutex is not recursive and locked.
TryLock(t) ==
    /\ Running(t) /\ held[t] < MaxDepth
    /\ IF ~MayEnter(t) \/ Refused THEN UNCHANGED <<owner, depth, status, asleep, held>>
       ELSE Enter(t) /\ Taken(t)
    /\ UNCHANGED recursive

\* mutex_unlock, by a thread that has locked the mutex.
Unlock(t) ==
    /\ Running(t) /\ held[t] > 0
    /\ status' = FALSE /\ Leave /\ held' = [held EXCEPT ![t] = @ - 1]
    /\ UNCHANGED <<recursive, asleep>>

Next == \E t \in Threads : Lock(t) \/ TryLock(t) \/ Unlock(t)

Spec == Init /\ [][Next]_mutexVars

-----------------------------------------------------------------------------
(* Properties *)

Holders == {t \in Threads : held[t] > 0}

\* One thread holds the mutex; without type 8 it holds it once, whether it
\* tries mutex_lock or mutex_trylock again.
HeldByOneThread ==
    /\ Cardinality(Holders) <= 1
    /\ ~recursive => \A t \in Threads : held[t] <= 1

\* The mutex can be taken exactly when nobody has it: a failed mutex_trylock, or
\* the flag of an earlier owner, does not keep it, and the emulated deadlock of
\* a thread that locks twice does not let another one in.
FreeWhenUnheld ==
    /\ owner = NoOne <=> Holders = {}
    /\ Holders = {} => ~status /\ depth = 0
    /\ asleep # {} => owner \in asleep /\ owner \in Holders
=============================================================================
