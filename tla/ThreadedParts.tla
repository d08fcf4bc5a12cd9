--------------------------- MODULE ThreadedParts ---------------------------
(***************************************************************************)
(* What waits for others, besides the thread pool, side by side: the       *)
(* asynchronous logger, the mutex of Windows by itself, and the condition  *)
(* variable of Windows on such a mutex.  They share nothing: a behaviour   *)
(* is one of one part, and the variables of the others are Off.            *)
(***************************************************************************)
EXTENDS Integers, Sequences, FiniteSets

CONSTANTS
    Loggers, Chatty, NRecords, Capacity, Parallelism, MaxMessages, MaxLives, NoRecord, \* AsyncLog
    Lockers, MaxLocks,                                                     \* WinMutex
    Consumers, Producers, MaxItems,                                        \* WinCondition
    NoOne, Off

VARIABLES
    part,
    pending, running, finished, dropped, cleaned, total, closed, gone,
    pool, linklist, lock, pc, task, said, args, nested, step, text, out, refused, lives,
    recursive, owner, depth, status, asleep, held,
    signalled, broadcast, waiter_count, present, broadcasts, at, items, made, due

poolVars == <<pending, running, finished, dropped, cleaned, total, closed, gone>>
asyncVars ==
    <<poolVars, pool, linklist, lock, pc, task, said, args, nested, step, text, out, refused, lives>>
mutexVars == <<recursive, owner, depth, status, asleep, held>>
condVars == <<signalled, broadcast, waiter_count, present, broadcasts, at, items, made, due>>
vars == <<part, asyncVars, mutexVars, condVars>>

Async == INSTANCE AsyncLog
Mutex == INSTANCE WinMutex WITH Threads <- Lockers, MaxDepth <- MaxLocks
Cond == INSTANCE WinCondition WITH pc <- at

ASSUME ThreadedAssumption ==
    Async!LogAssumption /\ Cond!ConditionAssumption

-----------------------------------------------------------------------------
PoolOff ==
    /\ pending = Off /\ running = Off /\ finished = Off /\ dropped = Off /\ cleaned = Off
    /\ total = Off /\ closed = Off /\ gone = Off
AsyncOff ==
    /\ PoolOff /\ pool = Off /\ linklist = Off /\ lock = Off /\ pc = Off /\ task = Off
    /\ said = Off /\ args = Off /\ nested = Off /\ step = Off /\ text = Off /\ out = Off
    /\ refused = Off /\ lives = Off
MutexOff ==
    recursive = Off /\ owner = Off /\ depth = Off /\ status = Off /\ asleep = Off /\ held = Off
CondOff ==
    /\ signalled = Off /\ broadcast = Off /\ waiter_count = Off /\ present = Off
    /\ broadcasts = Off /\ at = Off /\ items = Off /\ made = Off /\ due = Off

Init ==
    \/ part = "async" /\ Async!Init /\ MutexOff /\ CondOff
    \/ part = "mutex" /\ Mutex!Init /\ AsyncOff /\ CondOff
    \/ part = "cond" /\ Cond!Init /\ AsyncOff

OfAsync(s) == part = "async" /\ s /\ UNCHANGED <<part, mutexVars, condVars>>
OfMutex(s) == part = "mutex" /\ s /\ UNCHANGED <<part, asyncVars, condVars>>
OfCond(s) == part = "cond" /\ s /\ UNCHANGED <<part, asyncVars>>

AsyncStep == OfAsync(Async!Next)
MutexStep == OfMutex(Mutex!Next)
CondStep == OfCond(Cond!Next)

Next == AsyncStep \/ MutexStep \/ CondStep

\* Somebody who can run inside the asynchronous logger does run, and so does every
\* user of the condition variable.  Their behaviours are finite, so nothing stronger is
\* needed: a thread that waits for a lock or for room gets it when the others are done,
\* if not before.
Spec ==
    /\ Init /\ [][Next]_vars
    /\ WF_vars(OfAsync(Async!Progress))
    /\ \A t \in Consumers \cup Producers : WF_vars(OfCond(t \in present /\ Cond!Step(t)))

-----------------------------------------------------------------------------
(* Properties *)

\* A message record of the asynchronous logger has one owner at any time, whichever way
\* its message ended: the free list, a logger, a callback that logs, or a task.
EachRecordHasOneOwner == part = "async" => Async!EachRecordHasOneOwner

\* A message that was logged asynchronously is written unaltered once, or still carried
\* by its record, or was refused at the call or dropped by an exit that drops.
MessagesAccountedFor == part = "async" => Async!MessagesAccountedFor

\* __async_log_print__ returns, also while the queue is full and the worker's callbacks
\* log; and an async_log_exit that has begun returns with the pool gone.
CallsReturn ==
    /\ \A l \in Loggers :
          (part = "async" /\ pc[l] # "out") ~> (part = "async" /\ pc[l] = "out")
    /\ (part = "async" /\ pool /\ closed) ~> (part = "async" /\ ~pool)

\* A mutex on Windows has one holder, once if it is not recursive, and can be taken
\* exactly when it has none, after any failed mutex_trylock; and condition_wait returns
\* with it, whichever event ended the wait: the users' critical sections exclude each
\* other and the count of waiters is exact.
MutexHasOneHolder ==
    /\ part = "mutex" => Mutex!HeldByOneThread /\ Mutex!FreeWhenUnheld
    /\ part = "cond" =>
          /\ Cond!WaitReturnsLocked /\ Cond!Mutex!HeldByOneThread /\ Cond!Mutex!FreeWhenUnheld

\* With one consumer no notification is lost: what the producers make it gets, though
\* each of them may signal or broadcast before, while, or after it goes to sleep.
ItemsAreConsumed ==
    (part = "cond" /\ Cardinality(present \cap Consumers) = 1 /\ items > 0)
        ~> (part = "cond" /\ items = 0)
=============================================================================
