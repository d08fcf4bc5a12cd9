------------------------------ MODULE AsyncLog ------------------------------
(***************************************************************************)
(* The asynchronous logger of src/async_log.c on top of the task pool that *)
(* TaskPool specifies: a message is put into a record taken from a free    *)
(* list, the record travels through the pool as the argument of a task,    *)
(* and the worker that runs the task writes the message and gives the      *)
(* record back.  Without a pool messages are written by their caller.      *)
(*                                                                         *)
(* The user's lock is configured, and recursive if a callback logs (the    *)
(* Chatty loggers' messages make it do so, once).  async_log_init and      *)
(* async_log_exit are called while no logger is inside a call, which       *)
(* threadpool.h:124 asks for.                                              *)
(***************************************************************************)
EXTENDS Integers, Sequences, FiniteSets

CONSTANTS
    Loggers,       \* threads that log
    Chatty,        \* those whose messages make a callback log another one
    NRecords,      \* ASYNC_LOG_MAX_THREAD_POOL_SIZE
    Capacity, Parallelism,   \* the pool: queue length and number of workers
    MaxMessages,   \* bound: calls of each logger
    MaxLives,      \* bound: calls of async_log_init
    NoRecord, NoOne

LogAssumption ==
    /\ IsFiniteSet(Loggers) /\ Chatty \subseteq Loggers
    /\ {NRecords, Capacity, Parallelism, MaxMessages, MaxLives} \subseteq Nat \ {0}

VARIABLES
    pending, running, finished, dropped, cleaned, total, closed, gone,
    pool,          \* is _LogLock.pool not NULL?
    linklist,      \* the free records, first to last
    lock,          \* the holder of the user's lock: a logger, a task or NoOne
    pc,            \* of each logger
    task,          \* the record each logger has allocated
    said,          \* messages each logger has logged
    args,          \* the record each task of this pool was given
    nested,        \* the record a running task's callback has allocated
    step,          \* where in __async_log_worker__ a running task is
    text,          \* the message in each record
    out,           \* the messages written, in order
    refused,       \* those thrown away: no record, no room, or an earlier exit
    lives

Pool == INSTANCE TaskPool

poolVars == <<pending, running, finished, dropped, cleaned, total, closed, gone>>
logVars == <<linklist, lock, pc, task, said, args, nested, step, text, out, refused>>
vars == <<poolVars, logVars, pool, lives>>

Records == 1 .. NRecords
Message(l, n) == [by |-> l, n |-> n, echo |-> FALSE]
Echo(m) == [m EXCEPT !.echo = TRUE]
Echoes(m) == m.by \in Chatty /\ ~m.echo

Init ==
    /\ Pool!Init /\ pool = FALSE /\ lives = 0
    /\ linklist = <<>> /\ lock = NoOne
    /\ pc = [l \in Loggers |-> "out"] /\ task = [l \in Loggers |-> NoRecord]
    /\ said = [l \in Loggers |-> 0] /\ args = <<>> /\ nested = <<>> /\ step = <<>>
    /\ text = [r \in Records |-> NoRecord] /\ out = <<>> /\ refused = {}

Tasks == 1 .. total
Queued == {pending[i] : i \in DOMAIN pending}
Discarded == {dropped[i] : i \in DOMAIN dropped} \cup cleaned

NobodyLogs == \A l \in Loggers : pc[l] = "out"

-----------------------------------------------------------------------------
(* Setting up and shutting down *)

\* Every record is in the list again, whoever held it.
Relinked == [r \in Records |-> r]

\* async_log_init; threadpool_create may fail.
InitLog ==
    /\ NobodyLogs /\ ~pool /\ lives < MaxLives
    /\ lives' = lives + 1 /\ pool' \in BOOLEAN
    /\ linklist' = Relinked
    /\ pending' = <<>> /\ running' = {} /\ finished' = {} /\ dropped' = <<>>
    /\ cleaned' = {} /\ total' = 0 /\ closed' = ~pool' /\ gone' = ~pool'
    /\ args' = <<>> /\ nested' = <<>> /\ step' = <<>>
    /\ refused' = refused \cup {text[args[t]] : t \in Discarded}
    /\ UNCHANGED <<lock, pc, task, said, text, out>>

\* async_log_exit: the pool is destroyed, draining the queue or dropping it.
ExitLog ==
    /\ NobodyLogs /\ pool /\ \E drop \in BOOLEAN : Pool!Close(drop)
    /\ UNCHANGED <<logVars, pool, lives>>

\* threadpool_destroy cleans up dropped tasks: the logger gave it no cleanup.
CleanDropped == Pool!Clean /\ UNCHANGED <<logVars, pool, lives>>

\* threadpool_destroy returns and the pool is forgotten.
Exited == Pool!Vanish /\ pool' = FALSE /\ UNCHANGED <<logVars, lives>>

-----------------------------------------------------------------------------
(* __async_log_print__ *)

\* Leaves the record it takes in the list.
Faulty_Allocate(l) ==
    /\ pc[l] = "out" /\ said[l] < MaxMessages /\ pool /\ ~closed /\ lock = NoOne
    /\ linklist # <<>>
    /\ said' = [said EXCEPT ![l] = @ + 1]
    /\ task' = [task EXCEPT ![l] = Head(linklist)]
    /\ pc' = [pc EXCEPT ![l] = "fill"]
    /\ UNCHANGED <<poolVars, pool, lives, linklist, lock, args, nested, step, text, out, refused>>

\* Line 63, and for an asynchronous message the lines 64 to 71 as one critical
\* section: the first free record is the logger's, or the message is lost.
Allocate(l) ==
    /\ pc[l] = "out" /\ said[l] < MaxMessages /\ pool /\ ~closed /\ lock = NoOne
    /\ said' = [said EXCEPT ![l] = @ + 1]
    /\ IF linklist = <<>>
       THEN /\ refused' = refused \cup {Message(l, said'[l])}
            /\ UNCHANGED <<linklist, task, pc>>
       ELSE /\ task' = [task EXCEPT ![l] = Head(linklist)]
            /\ linklist' = Tail(linklist)
            /\ pc' = [pc EXCEPT ![l] = "fill"]
            /\ UNCHANGED refused
    /\ UNCHANGED <<poolVars, pool, lives, lock, args, nested, step, text, out>>

\* Lines 73 to 88, outside the lock.
Fill(l) ==
    /\ pc[l] = "fill" /\ pc' = [pc EXCEPT ![l] = "add"]
    /\ text' = [text EXCEPT ![task[l]] = Message(l, said[l])]
    /\ UNCHANGED <<poolVars, pool, lives, linklist, lock, task, said, args, nested,
                   step, out, refused>>

\* threadpool_add of a record: a task of the pool carries it.
Send(r) ==
    /\ Pool!Accept(1)
    /\ args' = Append(args, r) /\ nested' = Append(nested, NoRecord)
    /\ step' = Append(step, "lock")

\* Line 90: a thread that is no worker waits until the queue has room.
Add(l) ==
    /\ pc[l] = "add" /\ pool /\ Send(task[l])
    /\ task' = [task EXCEPT ![l] = NoRecord] /\ pc' = [pc EXCEPT ![l] = "out"]
    /\ UNCHANGED <<pool, lives, linklist, lock, said, text, out, refused>>

\* Gives nothing back.
Faulty_Deallocated(r) == linklist

\* __async_log_threadpool_deallocate__
Deallocated(r) == <<r>> \o linklist

\* Lines 90 to 94: threadpool_add fails, here because the pool's count of the callers
\* inside it is at its limit; the record goes back and the message is lost.
AddFails(l) ==
    /\ pc[l] = "add" /\ pool /\ lock = NoOne
    /\ linklist' = Deallocated(task[l]) /\ refused' = refused \cup {text[task[l]]}
    /\ task' = [task EXCEPT ![l] = NoRecord] /\ pc' = [pc EXCEPT ![l] = "out"]
    /\ UNCHANGED <<poolVars, pool, lives, lock, said, args, nested, step, text, out>>

\* Lines 98 to 120 without a pool: written by the caller, under the lock.
PrintDirectly(l) ==
    /\ pc[l] = "out" /\ said[l] < MaxMessages /\ ~pool /\ lock = NoOne
    /\ said' = [said EXCEPT ![l] = @ + 1]
    /\ LET m == Message(l, said'[l])
       IN  out' = out \o (IF Echoes(m) THEN <<m, Echo(m)>> ELSE <<m>>)
    /\ UNCHANGED <<poolVars, pool, lives, linklist, lock, pc, task, args, nested, step,
                   text, refused>>

-----------------------------------------------------------------------------
(* __async_log_worker__ *)

StartTask == Pool!Start /\ UNCHANGED <<logVars, pool, lives>>

At(t, s) == t \in running /\ step[t] = s

\* Lines 135 to 144: the lock, the line on stderr, the callbacks.
Write(t) ==
    /\ At(t, "lock") /\ lock = NoOne /\ lock' = t
    /\ out' = Append(out, text[args[t]])
    /\ step' = [step EXCEPT ![t] = IF Echoes(text[args[t]]) THEN "echo" ELSE "free"]
    /\ UNCHANGED <<poolVars, pool, lives, linklist, pc, task, said, args, nested, text, refused>>

\* A callback of t logs: lines 63 to 88 under the lock t holds already.
EchoAllocate(t) ==
    /\ At(t, "echo")
    /\ IF linklist = <<>>
       THEN /\ refused' = refused \cup {Echo(text[args[t]])}
            /\ step' = [step EXCEPT ![t] = "free"]
            /\ UNCHANGED <<linklist, nested, text>>
       ELSE /\ nested' = [nested EXCEPT ![t] = Head(linklist)]
            /\ linklist' = Tail(linklist)
            /\ text' = [text EXCEPT ![Head(linklist)] = Echo(text[args[t]])]
            /\ step' = [step EXCEPT ![t] = "add"]
            /\ UNCHANGED refused
    /\ UNCHANGED <<poolVars, pool, lives, lock, pc, task, said, args, out>>

\* Line 90 in a worker, which never waits for room.
EchoAdd(t) ==
    /\ At(t, "add") /\ Pool!Accept(1)
    /\ args' = Append(args, nested[t])
    /\ nested' = Append([nested EXCEPT ![t] = NoRecord], NoRecord)
    /\ step' = Append([step EXCEPT ![t] = "free"], "lock")
    /\ UNCHANGED <<pool, lives, linklist, lock, pc, task, said, text, out, refused>>

\* Refuses only when it is closed.
Faulty_PoolRefuses == closed

PoolRefuses == closed \/ Len(pending) = Capacity

\* Lines 90 to 94 in a worker: threadpool_add fails,
EchoFails(t) ==
    /\ At(t, "add")
    /\ linklist' = Deallocated(nested[t])
    /\ nested' = [nested EXCEPT ![t] = NoRecord]
    /\ refused' = refused \cup {text[nested[t]]}
    /\ step' = [step EXCEPT ![t] = "free"]
    /\ UNCHANGED <<poolVars, pool, lives, lock, pc, task, said, args, text, out>>

\* which it does at once if the pool is full or closed.
EchoRefused(t) == PoolRefuses /\ EchoFails(t)

\* Lines 145 and 146.
Free(t) ==
    /\ At(t, "free") /\ lock' = NoOne
    /\ linklist' = Deallocated(args[t])
    /\ step' = [step EXCEPT ![t] = "done"]
    /\ UNCHANGED <<poolVars, pool, lives, pc, task, said, args, nested, text, out, refused>>

\* The task function has returned to the pool's worker.
Return(t) == At(t, "done") /\ Pool!Finish(t) /\ UNCHANGED <<logVars, pool, lives>>

-----------------------------------------------------------------------------
LogPrint(l) == Allocate(l) \/ Fill(l) \/ Add(l) \/ AddFails(l) \/ PrintDirectly(l)

Work(t) == Write(t) \/ EchoAllocate(t) \/ EchoAdd(t) \/ EchoRefused(t) \/ Free(t) \/ Return(t)

Next ==
    \/ InitLog \/ ExitLog \/ CleanDropped \/ Exited \/ StartTask
    \/ \E l \in Loggers : LogPrint(l)
    \/ \E t \in Tasks : Work(t) \/ EchoFails(t)

Spec == Init /\ [][Next]_vars

\* What the threads do that are inside the logger.
Progress ==
    \/ CleanDropped \/ Exited \/ StartTask
    \/ \E l \in Loggers : Fill(l) \/ Add(l)
    \/ \E t \in Tasks : Work(t)

-----------------------------------------------------------------------------
(* Properties *)

Held(t) == t \in running /\ step[t] # "done"

\* A record is in the free list once, or one logger fills it, or one callback,
\* or one task has it that is queued, writing, or was discarded: no message is
\* overwritten, none is written twice, and no record goes missing while logging
\* goes on, whichever way each message ended.
EachRecordHasOneOwner ==
    lives > 0 => \A r \in Records :
        Cardinality({i \in DOMAIN linklist : linklist[i] = r})
        + Cardinality({l \in Loggers : task[l] = r})
        + Cardinality({t \in Tasks : nested[t] = r})
        + Cardinality({t \in Tasks : args[t] = r /\ (t \in Queued \cup Discarded \/ Held(t))})
        = 1

\* Messages whose task is still to write them.
InFlight ==
    {text[args[t]] : t \in {u \in Tasks : u \in Queued \/ At(u, "lock")}}
        \cup {text[task[l]] : l \in {k \in Loggers : pc[k] = "add"}}
        \cup {text[nested[t]] : t \in {u \in Tasks : nested[u] # NoRecord}}

\* A message that was logged is written, or still carried unaltered by its
\* record, or was refused at the call, or lost its task in an exit that drops;
\* and nothing is written twice or altered.
MessagesAccountedFor ==
    /\ \A i, j \in DOMAIN out : out[i] = out[j] => i = j
    /\ \A i \in DOMAIN out : out[i] \notin InFlight \cup refused
    /\ \A l \in Loggers, n \in 1 .. MaxMessages :
        n <= said[l] - (IF pc[l] = "fill" THEN 1 ELSE 0) =>
            LET m == Message(l, n)
            IN  \/ \E i \in DOMAIN out : out[i] = m
                \/ m \in InFlight \cup refused
                \/ \E t \in Discarded : text[args[t]] = m
=============================================================================
