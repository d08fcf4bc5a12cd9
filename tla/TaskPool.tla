------------------------------ MODULE TaskPool ------------------------------
(***************************************************************************)
(* What src/threadpool.h promises the program about its tasks, with none   *)
(* of the machinery: tasks are accepted in batches up to a capacity,       *)
(* started in order of acceptance, at most Parallelism at a time, and each *)
(* of them finishes; once the pool is closed none is accepted, and the     *)
(* queued ones are either drained or dropped and cleaned up; the pool goes *)
(* away only when every accepted task is settled.                          *)
(***************************************************************************)
EXTENDS Integers, Sequences, FiniteSets

CONSTANTS
    Capacity,      \* tasks that may be queued, at least one
    Parallelism    \* tasks that may run at once, at least one

VARIABLES
    pending,       \* accepted and not started, oldest first
    running,       \* started and not finished
    finished,      \* finished, cleanup included
    dropped,       \* discarded and not yet cleaned up, oldest first
    cleaned,       \* discarded and cleaned up
    total,         \* number of tasks accepted; they are 1 .. total
    closed, gone

poolVars == <<pending, running, finished, dropped, cleaned, total, closed, gone>>

Init ==
    /\ pending = <<>> /\ running = {} /\ finished = {}
    /\ dropped = <<>> /\ cleaned = {} /\ total = 0
    /\ closed = FALSE /\ gone = FALSE

Accept(n) ==
    /\ ~closed /\ Len(pending) + n <= Capacity
    /\ pending' = pending \o [i \in 1 .. n |-> total + i]
    /\ total' = total + n
    /\ UNCHANGED <<running, finished, dropped, cleaned, closed, gone>>

Start ==
    /\ pending # <<>> /\ Cardinality(running) < Parallelism
    /\ pending' = Tail(pending)
    /\ running' = running \cup {Head(pending)}
    /\ UNCHANGED <<finished, dropped, cleaned, total, closed, gone>>

Finish(t) ==
    /\ t \in running
    /\ running' = running \ {t}
    /\ finished' = finished \cup {t}
    /\ UNCHANGED <<pending, dropped, cleaned, total, closed, gone>>

\* Close and let the queue drain, or close and drop what is queued.
Close(drop) ==
    /\ ~closed /\ closed' = TRUE
    /\ IF drop THEN pending' = <<>> /\ dropped' = pending
       ELSE UNCHANGED <<pending, dropped>>
    /\ UNCHANGED <<running, finished, cleaned, total, gone>>

Clean ==
    /\ dropped # <<>>
    /\ dropped' = Tail(dropped)
    /\ cleaned' = cleaned \cup {Head(dropped)}
    /\ UNCHANGED <<pending, running, finished, total, closed, gone>>

Settled == pending = <<>> /\ running = {} /\ dropped = <<>>

Vanish ==
    /\ closed /\ Settled /\ ~gone
    /\ gone' = TRUE
    /\ UNCHANGED <<pending, running, finished, dropped, cleaned, total, closed>>

Next ==
    \/ \E n \in 1 .. Capacity : Accept(n)
    \/ Start
    \/ \E t \in 1 .. total : Finish(t)
    \/ \E drop \in BOOLEAN : Close(drop)
    \/ Clean
    \/ Vanish

Spec == Init /\ [][Next]_poolVars

\* Queued tasks get started whenever there is room to run them, running tasks
\* finish, dropped ones get cleaned up, and a closed pool goes away.
Fairness ==
    /\ WF_poolVars(Start)
    /\ WF_poolVars(\E t \in 1 .. total : Finish(t))
    /\ WF_poolVars(Clean)
    /\ WF_poolVars(Vanish)

FairSpec == Spec /\ Fairness
=============================================================================
