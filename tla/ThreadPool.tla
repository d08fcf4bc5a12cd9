----------------------------- MODULE ThreadPool -----------------------------
(***************************************************************************)
(* The thread pool of src/threadpool.c: a ring of task descriptors shared  *)
(* by a fixed set of worker threads and the client threads that submit,    *)
(* wait, retain, release and destroy.                                      *)
(*                                                                         *)
(* Every function body between a lock and an unlock (or a wait) on         *)
(* pool->lock is one atomic step.  The one critical section that spans     *)
(* two steps is the worker's: it keeps the mutex from the end of a task    *)
(* to its next dequeue, park or exit, so `lock' records that holder.       *)
(* A condition variable is the set of threads parked on it; a thread that  *)
(* has been signalled is out of the set but still counted in the waiting_* *)
(* fields until it has the mutex again.                                    *)
(*                                                                         *)
(* Calls that return an error change nothing the model has, and are steps  *)
(* the model does not take: add on a closed or saturated pool (1) or on a  *)
(* full queue without blocking (2), wait, destroy on a closed pool or from *)
(* a worker (1), release of the last reference of a live pool (1).         *)
(***************************************************************************)
EXTENDS Integers, FiniteSets

CONSTANTS
    Workers,       \* the n_workers threads of pool->threads
    Clients,       \* the program's other threads
    Owner,         \* the client that calls threadpool_create
    NoThread,      \* pool->lock is free
    Capacity,      \* queue_capacity
    UIntMax,       \* UINT_MAX, scaled down
    CounterMax,    \* UINT64_MAX, scaled down: the statistics saturate here
    TaskLimit      \* bound: task descriptors the program ever tries to submit

ASSUME ThreadAssumption ==
    /\ IsFiniteSet(Workers) /\ Workers # {}
    /\ IsFiniteSet(Clients) /\ Owner \in Clients
    /\ NoThread \notin Workers
ASSUME BoundAssumption ==
    /\ Capacity \in Nat \ {0}
    /\ UIntMax \in Nat \ {0}
    /\ CounterMax \in Nat
    /\ TaskLimit \in Nat

VARIABLES
    \* the ring of tasks; a task is the number of its acceptance, 0 is a blank
    queue, queue_head, queue_tail, queue_length,
    \* what threadpool_stats reports besides the live counts
    queue_peak, accepted, completed, discarded,
    \* the counts the code keeps beside its threads' states
    n_working, waiting_workers, waiting_submitters, waiting_batches,
    waiting_clients, pending_submissions, api_users, references,
    shutdown, destroyed,
    freed,         \* __threadpool_free_initialized__ has run
    \* the mutex and the four condition variables
    lock, notify, not_full, all_idle, api_idle,
    \* threads: program counter and locals
    wpc,           \* worker -> none | start | idle | run | loop | exited
    task,          \* worker -> the local `task'
    cpc,           \* client -> the call it is in
    count,         \* client -> the parameter of a blocked add_batch
    discard_head, discard_count,   \* the destroyer's locals
    \* the program around the pool, and history
    holders,       \* clients that own a reference
    issued,        \* task descriptors handed to add_batch so far
    submitted,     \* tasks accepted so far
    done, cleaned  \* tasks a worker finished; discarded tasks cleaned up

ring     == <<queue, queue_head, queue_tail, queue_length>>
stats    == <<queue_peak, accepted, completed, discarded>>
waiting  == <<waiting_workers, waiting_submitters, waiting_batches,
              waiting_clients>>
users    == <<pending_submissions, api_users>>
life     == <<references, shutdown, destroyed, freed, holders>>
conds    == <<notify, not_full, all_idle, api_idle>>
worker   == <<wpc, task, n_working, lock>>
client   == <<cpc, count>>
discard  == <<discard_head, discard_count>>
history  == <<issued, submitted, done, cleaned>>
vars     == <<ring, stats, waiting, users, life, conds, worker, client,
              discard, history>>

-----------------------------------------------------------------------------
(* Helpers *)

Slots == 0 .. Capacity - 1
Tasks == 1 .. TaskLimit

\* Operators named Faulty_X are X with a plausible mistake.  Nothing uses them:
\* they are there to be put in X's place, and a property must then fail.

\* Compares with > where the ring ends; goes back to the first slot.
Faulty_Wrap(i) == IF i > Capacity THEN i - Capacity ELSE i
Faulty_WrapToFirst(i) == IF i >= Capacity THEN 0 ELSE i

\* An index one lap or less past the end of the ring, brought back into it.
Wrap(i) == IF i >= Capacity THEN i - Capacity ELSE i

\* How far slot i lies behind position `from', going forward.
Offset(i, from) == IF i >= from THEN i - from ELSE i - from + Capacity

\* Lets the counter wrap around.
Faulty_Count(counter, n) == (counter + n) % (CounterMax + 1)

\* __threadpool_count__: add n and stick at UINT64_MAX.
Count(counter, n) == IF n > CounterMax - counter THEN CounterMax ELSE counter + n

Space == Capacity - queue_length

\* Signalling a condition k times releases any k of the threads parked on it.
Signalled(parked, k) ==
    {rest \in SUBSET parked :
        Cardinality(rest) = IF k >= Cardinality(parked) THEN 0
                            ELSE Cardinality(parked) - k}

\* threadpool_create has returned the handle to its caller.
Published == cpc[Owner] \notin {"create", "unwind"}

\* A client may use a handle it owns a reference to, or one whose pool nobody
\* has begun to destroy.
CanCall(c) == cpc[c] = "out" /\ Published /\ (c \in holders \/ ~shutdown)

-----------------------------------------------------------------------------
(* Wake-ups *)

\* One signal for a whole batch.
Faulty_NotifyWorkers(n) ==
    IF waiting_workers = 0 THEN notify' = notify ELSE notify' \in Signalled(notify, 1)

\* New tasks: one signal each, or a broadcast when a batch has work for all.
NotifyWorkers(n) ==
    IF waiting_workers = 0 THEN notify' = notify
    ELSE IF n >= waiting_workers /\ n > 1 THEN notify' = {}
    ELSE notify' \in Signalled(notify, n)

\* One signal, even to a batch that needs more space than there is.
Faulty_NotifySubmitters ==
    IF waiting_submitters = 0 THEN not_full' = not_full
    ELSE not_full' \in Signalled(not_full, 1)

\* A freed slot: everybody re-checks if a batch is waiting, else one may go.
NotifySubmitters ==
    IF waiting_submitters = 0 THEN not_full' = not_full
    ELSE IF waiting_batches > 0 THEN not_full' = {}
    ELSE not_full' \in Signalled(not_full, 1)

Quiescent(length, working, pending) == length = 0 /\ working = 0 /\ pending = 0

\* Forgets a lone waiter.
Faulty_SignalIdle(length, working, pending) ==
    all_idle' = IF waiting_clients > 1 /\ Quiescent(length, working, pending)
                THEN {} ELSE all_idle

\* __threadpool_signal_idle__, with the values the fields then have.
SignalIdle(length, working, pending) ==
    all_idle' = IF waiting_clients > 0 /\ Quiescent(length, working, pending)
                THEN {} ELSE all_idle

\* Looks at api_users before counting the caller out.
Faulty_Leave ==
    /\ api_users' = api_users - 1
    /\ IF shutdown /\ api_users = 0 THEN api_idle' \in Signalled(api_idle, 1)
       ELSE api_idle' = api_idle

\* __threadpool_leave__: the last API user of a closing pool tells the destroyer.
Leave ==
    /\ api_users' = api_users - 1
    /\ IF shutdown /\ api_users = 1 THEN api_idle' \in Signalled(api_idle, 1)
       ELSE api_idle' = api_idle

\* __threadpool_submit_leave__
SubmitLeave(length) ==
    /\ pending_submissions' = pending_submissions - 1
    /\ SignalIdle(length, n_working, pending_submissions - 1)
    /\ Leave

-----------------------------------------------------------------------------
(* threadpool_create *)

Init ==
    /\ queue = [i \in Slots |-> 0]
    /\ queue_head = 0 /\ queue_tail = 0 /\ queue_length = 0
    /\ queue_peak = 0 /\ accepted = 0 /\ completed = 0 /\ discarded = 0
    /\ n_working = 0 /\ waiting_workers = 0 /\ waiting_submitters = 0
    /\ waiting_batches = 0 /\ waiting_clients = 0
    /\ pending_submissions = 0 /\ api_users = 0
    /\ references = 1 /\ holders = {Owner}
    /\ shutdown = FALSE /\ destroyed = FALSE /\ freed = FALSE
    /\ lock = NoThread
    /\ notify = {} /\ not_full = {} /\ all_idle = {} /\ api_idle = {}
    /\ wpc = [w \in Workers |-> "none"] /\ task = [w \in Workers |-> 0]
    /\ cpc = [c \in Clients |-> IF c = Owner THEN "create" ELSE "out"]
    /\ count = [c \in Clients |-> 0]
    /\ discard_head = 0 /\ discard_count = 0
    /\ issued = 0 /\ submitted = 0 /\ done = {} /\ cleaned = {}

CreateThread(w) ==
    /\ cpc[Owner] = "create" /\ wpc[w] = "none"
    /\ wpc' = [wpc EXCEPT ![w] = "start"]
    /\ UNCHANGED <<ring, stats, waiting, users, life, conds, task, n_working,
                   lock, client, discard, history>>

CreateReturns ==
    /\ cpc[Owner] = "create" /\ \A w \in Workers : wpc[w] # "none"
    /\ cpc' = [cpc EXCEPT ![Owner] = "out"]
    /\ UNCHANGED <<ring, stats, waiting, users, life, conds, worker, count,
                   discard, history>>

\* A thread could not be created: the ones that were are told to stop ...
CreateFails ==
    /\ cpc[Owner] = "create" /\ \E w \in Workers : wpc[w] = "none"
    /\ lock = NoThread
    /\ shutdown' = TRUE /\ notify' = {}
    /\ cpc' = [cpc EXCEPT ![Owner] = "unwind"]
    /\ UNCHANGED <<ring, stats, waiting, users, references, destroyed, freed,
                   holders, not_full, all_idle, api_idle, worker, count,
                   discard, history>>

\* ... joined, and the pool is freed.
CreateUnwinds ==
    /\ cpc[Owner] = "unwind" /\ \A w \in Workers : wpc[w] \in {"none", "exited"}
    /\ freed' = TRUE /\ holders' = {}
    /\ cpc' = [cpc EXCEPT ![Owner] = "out"]
    /\ UNCHANGED <<ring, stats, waiting, users, references, shutdown,
                   destroyed, conds, worker, count, discard, history>>

-----------------------------------------------------------------------------
(* threadpool_add, threadpool_add_batch *)

Enqueue(n) ==
    /\ queue' = [i \in Slots |-> IF Offset(i, queue_tail) < n
                                 THEN submitted + 1 + Offset(i, queue_tail)
                                 ELSE queue[i]]
    /\ queue_tail' = Wrap(queue_tail + n)
    /\ queue_length' = queue_length + n
    /\ queue_peak' = IF queue_length + n > queue_peak THEN queue_length + n
                     ELSE queue_peak
    /\ accepted' = Count(accepted, n)
    /\ submitted' = submitted + n
    /\ UNCHANGED <<queue_head, completed, discarded>>

\* Does not look at shutdown.
Faulty_Admissible(n) ==
    lock = NoThread /\ api_users < UIntMax /\ n <= Capacity /\ issued + n <= TaskLimit

\* The checks a batch of n passes before it is counted as a submission.
Admissible(n) ==
    /\ lock = NoThread /\ ~shutdown /\ api_users < UIntMax /\ n <= Capacity
    /\ issued + n <= TaskLimit

\* The batch fits at once: pending_submissions and api_users go up and down
\* inside one critical section.  The caller is a client or a running task.
SubmitAccepted(n) ==
    /\ Admissible(n) /\ n <= Space
    /\ Enqueue(n) /\ NotifyWorkers(n)
    /\ SignalIdle(queue_length + n, n_working, pending_submissions)
    /\ issued' = issued + n
    /\ UNCHANGED <<waiting, users, life, not_full, api_idle, worker, client,
                   discard, done, cleaned>>

\* Clients only: a worker never blocks on its own pool.
SubmitBlocks(c, n) ==
    /\ CanCall(c) /\ Admissible(n) /\ n > Space
    /\ api_users' = api_users + 1
    /\ pending_submissions' = pending_submissions + 1
    /\ waiting_submitters' = waiting_submitters + 1
    /\ waiting_batches' = waiting_batches + (IF n > 1 THEN 1 ELSE 0)
    /\ not_full' = not_full \cup {c}
    /\ cpc' = [cpc EXCEPT ![c] = "submit"] /\ count' = [count EXCEPT ![c] = n]
    /\ issued' = issued + n
    /\ UNCHANGED <<ring, stats, waiting_workers, waiting_clients, life, notify,
                   all_idle, api_idle, worker, discard, submitted, done, cleaned>>

\* A blocked submitter that is no longer parked and has the mutex again.
SubmitterAwake(c) == cpc[c] = "submit" /\ c \notin not_full /\ lock = NoThread

\* Forgets that the caller was a batch.
Faulty_SubmitterStopsWaiting(c) ==
    /\ waiting_submitters' = waiting_submitters - 1
    /\ UNCHANGED <<waiting_workers, waiting_batches, waiting_clients>>

SubmitterStopsWaiting(c) ==
    /\ waiting_submitters' = waiting_submitters - 1
    /\ waiting_batches' = waiting_batches - (IF count[c] > 1 THEN 1 ELSE 0)
    /\ UNCHANGED <<waiting_workers, waiting_clients>>

SubmitParksAgain(c) ==
    /\ SubmitterAwake(c) /\ count[c] > Space /\ ~shutdown
    /\ not_full' = not_full \cup {c}
    /\ UNCHANGED <<ring, stats, waiting, users, life, notify, all_idle,
                   api_idle, worker, client, discard, history>>

SubmitFindsShutdown(c) ==
    /\ SubmitterAwake(c) /\ shutdown
    /\ SubmitterStopsWaiting(c) /\ SubmitLeave(queue_length)
    /\ cpc' = [cpc EXCEPT ![c] = "out"] /\ count' = [count EXCEPT ![c] = 0]
    /\ UNCHANGED <<ring, stats, life, notify, not_full, worker, discard, history>>

SubmitFindsSpace(c) ==
    /\ SubmitterAwake(c) /\ count[c] <= Space /\ ~shutdown
    /\ SubmitterStopsWaiting(c)
    /\ Enqueue(count[c]) /\ NotifyWorkers(count[c])
    /\ SubmitLeave(queue_length + count[c])
    /\ cpc' = [cpc EXCEPT ![c] = "out"] /\ count' = [count EXCEPT ![c] = 0]
    /\ UNCHANGED <<life, not_full, worker, discard, issued, done, cleaned>>

-----------------------------------------------------------------------------
(* threadpool_wait *)

\* Not quiescent: park.  (On a quiescent pool the call returns 0 at once.)
WaitBlocks(c) ==
    /\ CanCall(c) /\ lock = NoThread
    /\ ~shutdown /\ api_users < UIntMax
    /\ ~Quiescent(queue_length, n_working, pending_submissions)
    /\ api_users' = api_users + 1
    /\ waiting_clients' = waiting_clients + 1
    /\ all_idle' = all_idle \cup {c}
    /\ cpc' = [cpc EXCEPT ![c] = "wait"]
    /\ UNCHANGED <<ring, stats, waiting_workers, waiting_submitters,
                   waiting_batches, pending_submissions, life, notify,
                   not_full, api_idle, worker, count, discard, history>>

WaiterAwake(c) == cpc[c] = "wait" /\ c \notin all_idle /\ lock = NoThread

\* Does not look at the running tasks.
Faulty_KeepsWaiting == ~shutdown /\ (queue_length > 0 \/ pending_submissions > 0)

\* The loop condition of threadpool_wait.
KeepsWaiting ==
    ~shutdown /\ ~Quiescent(queue_length, n_working, pending_submissions)

WaitParksAgain(c) ==
    /\ WaiterAwake(c) /\ KeepsWaiting
    /\ all_idle' = all_idle \cup {c}
    /\ UNCHANGED <<ring, stats, waiting, users, life, notify, not_full,
                   api_idle, worker, client, discard, history>>

WaitReturns(c) ==
    /\ WaiterAwake(c) /\ ~KeepsWaiting
    /\ waiting_clients' = waiting_clients - 1
    /\ Leave
    /\ cpc' = [cpc EXCEPT ![c] = "out"]
    /\ UNCHANGED <<ring, stats, waiting_workers, waiting_submitters,
                   waiting_batches, pending_submissions, life, notify,
                   not_full, all_idle, worker, count, discard, history>>

-----------------------------------------------------------------------------
(* __threadpool_worker__ *)

\* w has the mutex at the head of its loop: it kept it after a task, or took
\* it when it started or after a wake-up.
AtLoopHead(w) ==
    \/ lock = w /\ wpc[w] = "loop"
    \/ lock = NoThread /\ wpc[w] = "start"
    \/ lock = NoThread /\ wpc[w] = "idle" /\ w \notin notify

\* waiting_workers once w has stopped waiting, if it was.
WaitingWithout(w) == waiting_workers - (IF wpc[w] = "idle" THEN 1 ELSE 0)

WorkerParks(w) ==
    /\ AtLoopHead(w) /\ queue_length = 0 /\ ~shutdown
    /\ waiting_workers' = WaitingWithout(w) + 1
    /\ notify' = notify \cup {w}
    /\ wpc' = [wpc EXCEPT ![w] = "idle"] /\ lock' = NoThread
    /\ UNCHANGED <<ring, stats, waiting_submitters, waiting_batches,
                   waiting_clients, users, life, not_full, all_idle, api_idle,
                   task, n_working, client, discard, history>>

\* Leaves the loop on shutdown with tasks still queued.
Faulty_MayExit == shutdown

MayExit == shutdown /\ queue_length = 0

WorkerExits(w) ==
    /\ AtLoopHead(w) /\ MayExit
    /\ waiting_workers' = WaitingWithout(w)
    /\ wpc' = [wpc EXCEPT ![w] = "exited"] /\ lock' = NoThread
    /\ UNCHANGED <<ring, stats, waiting_submitters, waiting_batches,
                   waiting_clients, users, life, conds, task, n_working,
                   client, discard, history>>

WorkerDequeues(w) ==
    /\ AtLoopHead(w) /\ queue_length > 0
    /\ waiting_workers' = WaitingWithout(w)
    /\ task' = [task EXCEPT ![w] = queue[queue_head]]
    /\ queue_head' = Wrap(queue_head + 1)
    /\ queue_length' = queue_length - 1
    /\ NotifySubmitters
    /\ n_working' = n_working + 1
    /\ wpc' = [wpc EXCEPT ![w] = "run"] /\ lock' = NoThread
    /\ UNCHANGED <<queue, queue_tail, stats, waiting_submitters,
                   waiting_batches, waiting_clients, users, life, notify,
                   all_idle, api_idle, client, discard, history>>

\* A running task calls threadpool_add_batch on its own pool.
TaskSubmits(w, n) == wpc[w] = "run" /\ SubmitAccepted(n)

\* func and cleanup have returned; the mutex is taken and kept.
WorkerFinishes(w) ==
    /\ wpc[w] = "run" /\ lock = NoThread
    /\ n_working' = n_working - 1
    /\ completed' = Count(completed, 1)
    /\ SignalIdle(queue_length, n_working - 1, pending_submissions)
    /\ done' = done \cup {task[w]}
    /\ wpc' = [wpc EXCEPT ![w] = "loop"] /\ task' = [task EXCEPT ![w] = 0]
    /\ lock' = w
    /\ UNCHANGED <<ring, queue_peak, accepted, discarded, waiting, users, life,
                   notify, not_full, api_idle, client, discard, issued,
                   submitted, cleaned>>

-----------------------------------------------------------------------------
(* threadpool_destroy, __threadpool_retain__, __threadpool_release__ *)

\* Leaves the discarded tasks in the queue as well.
Faulty_TakeQueue ==
    /\ discard_head' = queue_head
    /\ discard_count' = queue_length
    /\ discarded' = Count(discarded, queue_length)
    /\ UNCHANGED queue_length

TakeQueue ==
    /\ discard_head' = queue_head
    /\ discard_count' = queue_length
    /\ queue_length' = 0
    /\ discarded' = Count(discarded, queue_length)

\* With safe_exit the queue is drained by the workers; without it the
\* destroyer takes the queued tasks for itself.
Shutdown(c, safe_exit) ==
    /\ CanCall(c) /\ c \in holders /\ lock = NoThread /\ ~shutdown
    /\ shutdown' = TRUE
    /\ IF safe_exit
       THEN UNCHANGED <<discard_head, discard_count, queue_length, discarded>>
       ELSE TakeQueue
    /\ notify' = {} /\ not_full' = {} /\ all_idle' = {}
    /\ cpc' = [cpc EXCEPT ![c] = "discard"]
    /\ UNCHANGED <<queue, queue_head, queue_tail, queue_peak, accepted,
                   completed, waiting, users, references, destroyed, freed,
                   holders, api_idle, worker, count, history>>

\* The cleanup of a discarded task, called without the mutex.
DiscardOne(c) ==
    /\ cpc[c] = "discard" /\ discard_count > 0
    /\ cleaned' = cleaned \cup {queue[discard_head]}
    /\ discard_head' = Wrap(discard_head + 1)
    /\ discard_count' = discard_count - 1
    /\ UNCHANGED <<ring, stats, waiting, users, life, conds, worker, client,
                   issued, submitted, done>>

\* The destroyer waits for calls still inside the pool.
DestroyerAtDrain(c) ==
    /\ lock = NoThread
    /\ \/ cpc[c] = "discard" /\ discard_count = 0
       \/ cpc[c] = "drain" /\ c \notin api_idle

\* Goes on to free the pool under the calls still inside it.
Faulty_NobodyInside == TRUE

NobodyInside == api_users = 0

DestroyParks(c) ==
    /\ DestroyerAtDrain(c) /\ ~NobodyInside
    /\ api_idle' = api_idle \cup {c}
    /\ cpc' = [cpc EXCEPT ![c] = "drain"]
    /\ UNCHANGED <<ring, stats, waiting, users, life, notify, not_full,
                   all_idle, worker, count, discard, history>>

DestroyDrained(c) ==
    /\ DestroyerAtDrain(c) /\ NobodyInside
    /\ cpc' = [cpc EXCEPT ![c] = "join"]
    /\ UNCHANGED <<ring, stats, waiting, users, life, conds, worker, count,
                   discard, history>>

\* All workers joined: the ring and the thread array are freed.
DestroyJoins(c) ==
    /\ cpc[c] = "join" /\ lock = NoThread
    /\ \A w \in Workers : wpc[w] = "exited"
    /\ destroyed' = TRUE
    /\ cpc' = [cpc EXCEPT ![c] = "release"]
    /\ UNCHANGED <<ring, stats, waiting, users, references, shutdown, freed,
                   holders, conds, worker, count, discard, history>>

\* __threadpool_release__ by the owner of a reference.
DropReference(c) ==
    /\ lock = NoThread /\ ~(references = 1 /\ ~destroyed)
    /\ references' = references - 1
    /\ holders' = holders \ {c}
    /\ freed' = (references = 1)
    /\ cpc' = [cpc EXCEPT ![c] = "out"]
    /\ UNCHANGED <<ring, stats, waiting, users, shutdown, destroyed, conds,
                   worker, count, discard, history>>

DestroyReleases(c) == cpc[c] = "release" /\ DropReference(c)

Release(c) == CanCall(c) /\ c \in holders /\ DropReference(c)

\* Bound: a client owns at most one reference.
Retain(c) ==
    /\ CanCall(c) /\ c \notin holders /\ lock = NoThread
    /\ ~shutdown /\ references < UIntMax
    /\ references' = references + 1
    /\ holders' = holders \cup {c}
    /\ UNCHANGED <<ring, stats, waiting, users, shutdown, destroyed, freed,
                   conds, worker, client, discard, history>>

-----------------------------------------------------------------------------
(* The system *)

\* POSIX and Windows let a wait return without a signal.
SpuriousWakeup ==
    /\ \/ \E t \in notify   : notify' = notify \ {t} /\ UNCHANGED <<not_full, all_idle, api_idle>>
       \/ \E t \in not_full : not_full' = not_full \ {t} /\ UNCHANGED <<notify, all_idle, api_idle>>
       \/ \E t \in all_idle : all_idle' = all_idle \ {t} /\ UNCHANGED <<notify, not_full, api_idle>>
       \/ \E t \in api_idle : api_idle' = api_idle \ {t} /\ UNCHANGED <<notify, not_full, all_idle>>
    /\ UNCHANGED <<ring, stats, waiting, users, life, worker, client, discard, history>>

Create == (\E w \in Workers : CreateThread(w)) \/ CreateReturns \/ CreateFails \/ CreateUnwinds

WorkerStep(w) == WorkerParks(w) \/ WorkerExits(w) \/ WorkerDequeues(w) \/ WorkerFinishes(w)

\* What a client inside a call does once nothing holds it back.
ClientStep(c) ==
    \/ SubmitParksAgain(c) \/ SubmitFindsShutdown(c) \/ SubmitFindsSpace(c)
    \/ WaitParksAgain(c) \/ WaitReturns(c)
    \/ DiscardOne(c) \/ DestroyParks(c) \/ DestroyDrained(c)
    \/ DestroyJoins(c) \/ DestroyReleases(c)

\* What the program may ask of the pool.
ClientCall(c) ==
    \/ \E n \in 1 .. Capacity : CanCall(c) /\ SubmitAccepted(n)
    \/ \E n \in 1 .. Capacity : SubmitBlocks(c, n)
    \/ WaitBlocks(c)
    \/ \E safe_exit \in BOOLEAN : Shutdown(c, safe_exit)
    \/ Retain(c) \/ Release(c)

\* Nothing is left to do once the pool is freed.
Finished == freed /\ UNCHANGED vars

Next ==
    \/ Create
    \/ \E w \in Workers : WorkerStep(w)
    \/ \E w \in Workers, n \in 1 .. Capacity : TaskSubmits(w, n)
    \/ \E c \in Clients : ClientStep(c) \/ ClientCall(c)
    \/ SpuriousWakeup
    \/ Finished

Spec == Init /\ [][Next]_vars

\* Threads that can run do run, tasks return, and create completes.  Nothing
\* obliges the program to call, a wait to wake spuriously, or create to fail.
Fairness ==
    /\ WF_vars(Create)
    /\ \A w \in Workers : WF_vars(WorkerStep(w))
    /\ \A c \in Clients : WF_vars(ClientStep(c))

FairSpec == Spec /\ Fairness

-----------------------------------------------------------------------------
(* Safety *)

WorkerStates == {"none", "start", "idle", "run", "loop", "exited"}
ClientStates == {"create", "unwind", "out", "submit", "wait",
                 "discard", "drain", "join", "release"}

\* Every field of the pool and every thread's locals keep their types; the
\* ring's indices stay inside the ring and its length within its capacity.
TypeOK ==
    /\ queue \in [Slots -> Nat]
    /\ queue_head \in Slots /\ queue_tail \in Slots
    /\ queue_length \in 0 .. Capacity /\ queue_peak \in queue_length .. Capacity
    /\ accepted \in 0 .. CounterMax /\ completed \in 0 .. CounterMax
    /\ discarded \in 0 .. CounterMax
    /\ n_working \in Nat /\ waiting_workers \in Nat
    /\ waiting_submitters \in Nat /\ waiting_batches \in Nat
    /\ waiting_clients \in Nat /\ pending_submissions \in Nat
    /\ api_users \in 0 .. UIntMax /\ references \in 0 .. UIntMax
    /\ shutdown \in BOOLEAN /\ destroyed \in BOOLEAN /\ freed \in BOOLEAN
    /\ lock \in Workers \cup {NoThread}
    /\ notify \subseteq Workers /\ not_full \subseteq Clients
    /\ all_idle \subseteq Clients /\ api_idle \subseteq Clients
    /\ wpc \in [Workers -> WorkerStates] /\ task \in [Workers -> Nat]
    /\ cpc \in [Clients -> ClientStates] /\ count \in [Clients -> 0 .. Capacity]
    /\ discard_head \in Slots /\ discard_count \in 0 .. Capacity
    /\ holders \subseteq Clients
    /\ issued \in 0 .. TaskLimit /\ submitted \in Nat
    /\ done \subseteq Nat /\ cleaned \subseteq Nat

WorkersAt(state) == {w \in Workers : wpc[w] = state}
ClientsAt(state) == {c \in Clients : cpc[c] = state}
Inside  == {c \in Clients : cpc[c] \in {"submit", "wait"}}
Batches == {c \in Clients : cpc[c] = "submit" /\ count[c] > 1}

\* The counts the code keeps by hand agree with where its threads are, so that
\* no path through add, wait, destroy or the worker forgets or repeats one.
CountersMatchThreads ==
    /\ n_working = Cardinality(WorkersAt("run"))
    /\ waiting_workers = Cardinality(WorkersAt("idle"))
    /\ waiting_submitters = Cardinality(ClientsAt("submit"))
    /\ pending_submissions = Cardinality(ClientsAt("submit"))
    /\ waiting_batches = Cardinality(Batches)
    /\ waiting_clients = Cardinality(ClientsAt("wait"))
    /\ api_users = Cardinality(Inside)
    /\ ~freed => references = Cardinality(holders)

\* Positions of the queue, and of the part of the ring a destroyer has taken.
Queued     == {queue[Wrap(queue_head + k)] : k \in 0 .. queue_length - 1}
Discarding == {queue[Wrap(discard_head + k)] : k \in 0 .. discard_count - 1}
Running    == {task[w] : w \in WorkersAt("run")}

\* Every accepted task is in exactly one place: queued, run by one worker,
\* finished, waiting to be discarded, or discarded and cleaned up.  None is
\* lost, run twice, or both run and discarded.
TasksAccountedFor ==
    /\ Queued \cup Discarding \cup Running \cup done \cup cleaned = 1 .. submitted
    /\ queue_length + discard_count + n_working
         + Cardinality(done) + Cardinality(cleaned) = submitted

\* The ring holds the most recently accepted tasks, oldest at the head,
\* whatever wrap-arounds and batches put them there.
QueueInOrder ==
    \A k \in 0 .. queue_length - 1 :
        queue[Wrap(queue_head + k)] = submitted - queue_length + 1 + k

\* Workers on their way to the loop head, who will look at the queue.
Ready == WorkersAt("start") \cup WorkersAt("loop") \cup (WorkersAt("idle") \ notify)

\* While a worker sleeps on notify, as many others are awake as there are
\* tasks: no interleaving of signals, wake-ups and new tasks leaves a task
\* to wait for a busy worker beside an idle one.
NoWorkerOversleeps == notify # {} => Cardinality(Ready) >= queue_length

AwakeSingles == {c \in ClientsAt("submit") \ not_full : count[c] = 1}

\* A submitter parked on not_full could not go on: a batch does not fit, and
\* for a single task every free slot has an awake submitter to fill it.
NoSubmitterOversleeps ==
    \A c \in not_full :
        Space < (IF count[c] > 1 THEN count[c] ELSE Cardinality(AwakeSingles) + 1)

\* A client parked in threadpool_wait has something to wait for.
NoWaiterOversleeps == all_idle # {} => KeepsWaiting

\* A destroyer parked on api_idle has a call inside the pool to wait for.
DestroyerNotForgotten == api_idle # {} => api_users > 0

\* When destroy frees the ring and the threads, no thread is left that could
\* touch them and every accepted task has run or been cleaned up; when the
\* pool itself is freed, no thread is in it and nobody owns a reference.
ReclaimedOnlyWhenUnused ==
    /\ destroyed =>
         /\ \A w \in Workers : wpc[w] = "exited"
         /\ \A c \in Clients : cpc[c] \in {"out", "release"}
         /\ done \cup cleaned = 1 .. submitted
    /\ freed =>
         /\ \A w \in Workers : wpc[w] \in {"none", "exited"}
         /\ \A c \in Clients : cpc[c] = "out"
         /\ holders = {} /\ lock = NoThread

AtMost(n) == IF n > CounterMax THEN CounterMax ELSE n

\* The snapshot threadpool_stats copies is the pool's true history, cut off
\* at the largest value a counter can hold.
StatsMatchHistory ==
    /\ accepted = AtMost(submitted)
    /\ completed = AtMost(Cardinality(done))
    /\ discarded = AtMost(Cardinality(cleaned) + discard_count)

\* threadpool_wait returns 0 only when every task accepted until then has
\* finished, cleanup included, and no submission is in progress.
WaitSeesQuiescence ==
    [][\A c \in Clients :
         cpc[c] = "wait" /\ cpc'[c] = "out" /\ ~shutdown =>
             done = 1 .. submitted /\ ClientsAt("submit") = {}]_vars

-----------------------------------------------------------------------------
(* The inductive invariant: what the properties above rest on. *)

Destroying == {"discard", "drain", "join", "release"}

\* Who may hold the pool: at most one client destroys it, and owns a reference
\* while it does; before threadpool_create returns nobody else has the handle.
Handles ==
    /\ freed => holders = {} /\ shutdown
    /\ destroyed => shutdown
    /\ ~Published => \A c \in Clients \ {Owner} : cpc[c] = "out"
    /\ cpc[Owner] = "unwind" => shutdown
    /\ \A c \in Clients :
         /\ cpc[c] \in {"create", "unwind"} => c = Owner
         /\ cpc[c] \in Destroying => c \in holders /\ shutdown
         /\ cpc[c] = "submit" => count[c] \in 1 .. Capacity
    /\ \A c, d \in Clients :
         cpc[c] \in Destroying /\ cpc[d] \in Destroying => c = d

\* Who is parked where, and who keeps the mutex between two steps.
Parked ==
    /\ notify \subseteq WorkersAt("idle")
    /\ not_full \subseteq ClientsAt("submit")
    /\ all_idle \subseteq ClientsAt("wait")
    /\ api_idle \subseteq ClientsAt("drain")
    /\ shutdown => notify = {} /\ not_full = {} /\ all_idle = {}
    /\ \A w \in Workers : wpc[w] = "loop" <=> lock = w

\* Until shutdown the tail is queue_length slots after the head.
RingClosed == ~shutdown => queue_tail = Wrap(queue_head + queue_length)

\* The pool's counts, wait sets and ring agree with each other and with the
\* threads: the invariant that TLAPS proves inductive.
IndInv ==
    /\ TypeOK /\ CountersMatchThreads /\ Handles /\ Parked
    /\ RingClosed /\ QueueInOrder
    /\ NoWaiterOversleeps /\ DestroyerNotForgotten

\* The tasks the destroyer has taken are the newest ones, oldest first.
DiscardInOrder ==
    \A k \in 0 .. discard_count - 1 :
        queue[Wrap(discard_head + k)] = submitted - discard_count + 1 + k

\* Tasks that are no longer in the ring: the oldest ones, each of them run by
\* one worker, finished, or cleaned up.
TakenTasks ==
    /\ Running \cup done \cup cleaned = 1 .. submitted - queue_length - discard_count
    /\ n_working + Cardinality(done) + Cardinality(cleaned)
         = submitted - queue_length - discard_count
    /\ Running \cap done = {}
    /\ \A v, w \in WorkersAt("run") : task[v] = task[w] => v = w

\* What is over for good once the pool is in a later phase of its life.
Phases ==
    /\ ~Published => submitted = 0
    /\ ~shutdown => discard_count = 0 /\ cleaned = {}
    /\ discard_count > 0 => queue_length = 0
    /\ \A c \in Clients :
         /\ cpc[c] \in {"drain", "join", "release"} => discard_count = 0
         /\ cpc[c] \in {"join", "release"} => api_users = 0
    /\ \A w \in Workers : wpc[w] = "exited" => shutdown /\ queue_length = 0
    /\ destroyed =>
         /\ discard_count = 0
         /\ \A w \in Workers : wpc[w] = "exited"
         /\ \A c \in Clients : cpc[c] \in {"out", "release"}
    /\ freed =>
         /\ \A w \in Workers : wpc[w] \in {"none", "exited"}
         /\ \A c \in Clients : cpc[c] = "out"

\* What the fate of the tasks and the end of the pool rest on besides: the
\* second invariant that TLAPS proves inductive.
TaskIndInv ==
    IndInv /\ DiscardInOrder /\ TakenTasks /\ Phases /\ StatsMatchHistory

-----------------------------------------------------------------------------
(* Liveness, under FairSpec *)

\* Every accepted task is eventually finished, or discarded and cleaned up.
AcceptedTasksEnd ==
    \A t \in Tasks : submitted >= t ~> t \in done \cup cleaned

\* Every call returns: create, a blocked add, wait, and destroy.
CallsReturn == \A c \in Clients : cpc[c] # "out" ~> cpc[c] = "out"
=============================================================================
