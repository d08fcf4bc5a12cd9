# A verification of stdc

stdc is a small C library: threads and mutexes, a thread pool, two loggers, a
memory pool, a hash map, a set, sockets, two hash functions and helpers around
operating system calls.  This directory holds TLA+ models of its parts, the TLC
runs that check them and TLAPS proofs about them.  All line numbers are those of
the files in `src/`.

## 1. Inventory

| part | state it keeps | operations | used by |
|---|---|---|---|
| thread pool (`threadpool.c`) | ring of tasks, ten counters, shutdown and destroyed flags, one mutex, four condition variables, worker threads, reference count | create, add, add_batch, wait, stats, destroy, retain, release, the worker loop | asynchronous logger, programs |
| threads (`thread.c`) | on Windows: owner flag of a mutex, waiter count and two events per condition variable | create, join, detach, lock, trylock, unlock, wait, signal, broadcast | thread pool, memory pool |
| asynchronous logger (`async_log.c`) | one global record: pool pointer, free list of 1024 messages, callbacks, user lock | init, exit, log, the task that writes a message, add callback | programs, from any thread |
| memory pool (`memorypool.c`) | eight size classes, each a mutex, a free list, a chunk list | create, alloc, free, destroy | programs, from any thread |
| hash map (`hashmap.c`) | buckets of chained nodes, count, seed | add, get, remove, clear, resize, iterate | programs |
| set (`set.c`) | open-addressed slots, capacity, count, used | add, remove, contains, destroy | programs |
| sockets (`socket.c`) | none of its own: blocking mode and timeouts of a descriptor | send/receive everything, with a deadline, connect with a timeout, send a file | programs |
| hashes (`md5.c`, `sha256.c`) | state words, a partial block, a length | init, update, final, HMAC | programs |
| synchronous logger (`log.c`) | callbacks, user lock | log, add callback | programs |
| system helpers (`os.c`) | none | files, locks, paths, time, memory maps | loggers, sockets |

The parts call each other little.  The thread pool builds on mutexes and
condition variables; the asynchronous logger runs its writing as tasks of a
pool and adds a lock of its own; the socket loops read `os_time`.  The only
other processes in sight are the peer of a socket and whoever else uses the file
system.  Nothing is persisted, so there is no recovery after a crash to speak of.

What is hard, and what makes each part correct:

* **Thread pool.**  Several condition variables over one mutex, with signals
  saved whenever a counter says nobody needs one (lines 164-167, 394-402, 408,
  445-448).  Correct when every accepted task runs or is cleaned up exactly once
  and in order, nobody sleeps while what they wait for is the case, calls
  return, and memory goes only when no thread can reach it.
* **Threads.**  A condition variable made of an auto-reset event and a
  manual-reset event.  Correct when a signal wakes a waiter if there is one and
  a broadcast all of them.
* **Asynchronous logger.**  The pool pointer is read without a lock (63, 90)
  while `async_log_exit` clears it (31-32); message records go from the free
  list through the pool and back.  Correct when each record has one owner and
  none is lost.
* **Memory pool.**  Correct when no block has two owners, blocks return to
  their size class, and a failed chunk leaves the lists as they were.
* **Hash map, set.**  Sequential; correct when lookups find exactly what was
  added and not removed, through every resize, failed or not, and return.
* **Sockets.**  Retries after partial transfers and interrupts, against a
  deadline; correct when the caller is told what was sent and received, the
  deadline is kept, and the blocking mode is restored.
* **Hashes.**  Correct when the padding is that of the standard at every
  length; the compression functions are a matter for test vectors.
* **Synchronous logger.**  Correct when, under the program's lock, messages stand
  in one piece, and each reaches every callback.
* **System helpers.**  Functions of several system calls, any of which may fail
  and between which others act on the same files.  Correct when a failure leaves
  nothing behind, nothing outside a removed tree is removed, and a path has one
  canonical form.

`PROJECT.json` lists the hazards line by line with the properties that cover them.

## 2. Modules

| module | source | abstract specification, or the reference it is compared with | section |
|---|---|---|---|
| `ThreadPool`, `ThreadPoolRefinement`; proofs in `ThreadPool_proofs` | `threadpool.c` | `TaskPool`, a bounded queue of tasks | 3 |
| `SetTable`; proofs in `SetTable_proofs` | `set.c` | the `members` it carries | 4 |
| `AsyncLog`; proofs in `AsyncLog_proofs` | `async_log.c` | runs on `TaskPool`; each record has one owner | 5 |
| `LogCallbacks`; proofs in `SystemParts_proofs` | `log.c` | the lines of each message | 5 |
| `WinMutex`, `WinCondition`, `ThreadHandles`; proofs in `ThreadedParts_proofs` and `SystemParts_proofs` | `thread.c` | a mutex; as many wake-ups as signals | 6 |
| `MemoryPool`; proofs in `DataParts_proofs` | `memorypool.c` | each block in one place | 7 |
| `HashMap`, `Variants`; proofs in `DataParts_proofs` | `hashmap.c` | `dict`, a function; equality of C values | 8 |
| `HashStream`; proofs in `DataParts_proofs` | `md5.c`, `sha256.c` | the padded message of the standards | 9 |
| `SocketStream`, `SocketDeadline`, `SocketConnect`; proofs in `SocketParts_proofs` | `socket.c` | the stream of bytes; the clock; the state of the connection | 10 |
| `Resources`, `Directories`, `CanonicalPath`; proofs in `SystemParts_proofs` | `os.c`, and the creating functions of other files | what is held; the tree; the place a path names | 11 |
| `DataParts`, `SocketParts`, `ThreadedParts`, `SystemParts`; proofs in the four `..._proofs` of these names | | the above side by side, for TLC | 12 |
| `Recursion` | | induction and recursive functions, for the proofs about loops | 13 |

How they build on each other: `ThreadPoolRefinement` shows that `ThreadPool`
implements `TaskPool`; `AsyncLog` instantiates `TaskPool`, so that what the logger
relies on is what the pool does.  `WinCondition` instantiates `WinMutex`.
`HashMap` takes equal keys to have equal hashes, which `Variants` shows.

Modules called `MC...` give constants values for TLC.  Operators called `Faulty_X`
are `X` with a plausible mistake, and nothing uses them.  Each is put in `X`'s
place, in a copy, to see that a property notices.

## 3. The thread pool

`ThreadPool.tla` models `threadpool.c`.

**Steps.**  Every stretch of code between taking and giving up `pool->lock` is
one action, because nothing the pool reads or writes inside is touched outside
the mutex.  The exceptions have actions of their own: a task runs between
`WorkerDequeues` and `WorkerFinishes`; the discarded tasks are cleaned up
without the mutex, one `DiscardOne` each (254-258); joining waits without it.  A
worker keeps the mutex from the end of a task to its next dequeue (456-460):
this is the variable `lock`, and all other actions wait for it to be free.

**State.**  The fields keep their names.  A condition variable is the set of
threads parked on it; a signal takes one thread out of the set, any one, and
that thread then needs the mutex, so other threads may come first; it is counted
in `waiting_workers` and its like until it has it, as in the code.  Waits may
return without a signal (`SpuriousWakeup`).  `wpc`, `cpc`, `task`, `count`,
`discard_head` and `discard_count` are program counters and locals.  A task is
the number of its acceptance.  `issued`, `submitted`, `done`, `cleaned` and
`holders` are history or the program's own state.

| code | actions |
|---|---|
| `threadpool_create` 60-100 | `Init`, `CreateThread`, `CreateReturns`; on failure `CreateFails`, `CreateUnwinds` |
| `threadpool_add_batch` 118-171 | `SubmitAccepted` when it fits at once (from clients, or from a task: `TaskSubmits`), else `SubmitBlocks`, `SubmitParksAgain`, `SubmitFindsShutdown`, `SubmitFindsSpace` |
| `threadpool_wait` 174-198 | `WaitBlocks`, `WaitParksAgain`, `WaitReturns` |
| `__threadpool_worker__` 427-465 | `WorkerParks`, `WorkerExits`, `WorkerDequeues`, `WorkerFinishes` |
| `__threadpool_destroy__` 228-275 | `Shutdown`, `DiscardOne`, `DestroyParks`, `DestroyDrained`, `DestroyJoins`, `DestroyReleases` |
| retain, release 278-302 | `Retain`, `Release` |

**The program around it** keeps the rules of `threadpool.h`: a client calls only
with a handle it may use, because it owns a reference or because nobody has
begun to destroy the pool (line 124 of the header); tasks return (line 73); the
pool is destroyed by an owner of a reference.

**Left out.**  Calls refused with 1 or 2 change nothing that lasts and are no
steps.  Failures before any thread exists (68-86, 102-106) are in `Resources`
(section 11).  A mutex or condition variable that fails aborts the
process.  `threadpool_stats` copies fields under the mutex; `StatsMatchHistory`
says what the copied numbers mean.

### What the runs show

`threadpool_safety` (2 workers, 3 clients, a ring of 2, 5 tasks; 205,863 states):
all invariants but the two of the next run, and `WaitSeesQuiescence`.  `TaskIndInv`
is the invariant the proofs rest on.  Two slots are the smallest ring where a batch is more
than one task, can be stuck behind one free slot, and where head and tail wrap at
different times.  Three clients are a destroyer, a blocked batch and a blocked
single task, or a waiter, at once.  `UIntMax` is 3, so that references are
refused at the maximum (`api_users` comes near it: three clients are
three users); `CounterMax` is 3 and below `TaskLimit`, so that the statistics
saturate.

`threadpool_batches` (3 workers, 3 clients, a ring of 3, 6 tasks): whether one
signal per task is enough when there are more sleepers than tasks, and one
signal per freed slot when the waiting submitters are of different sizes.  Here
`UIntMax` is 2, and a third caller is refused by `api_users`.

`threadpool_refinement` (2 workers, 2 clients, a ring of 2, 3 tasks, with
fairness and so without symmetry): the pool implements `TaskPool`, whose liveness
included; accepted tasks end; calls return.

Bounds: `TaskLimit` bounds the tasks the program hands over (a
batch counts when it is accepted or blocks), and a client owns at most one
reference (`Retain`).  Everything else is bounded by the code.  Every hazard
listed for the pool needs at most a ring that wraps twice; five or six tasks
around a ring of two or three do that.

Symmetry: workers are interchangeable, and clients except the creator.

**Fairness.**  `FairSpec` has weak fairness of `Create`, of each worker's steps
and of each client's steps inside a call.  That is what an operating system
gives a thread that stays able to run; that tasks return is the header's rule.
Nothing is assumed of mutexes beyond that: a thread that is overtaken for ever by
others is not helped by weak fairness, but the number of tasks is finite, so
that the others run out of reasons to take the mutex.  No fairness for the
program's calls, for spurious wake-ups or for failing creation.  The program
need never call destroy: `CallsReturn` speaks of calls that were made.

### What is proved

For every number of workers and clients, every capacity and every bound.
Assumptions: `ThreadAssumption` (finite non-empty sets, the creator is a client)
and `BoundAssumption` (numbers are natural, the capacity positive).

| module | theorem | says |
|---|---|---|
| `ThreadPool_proofs` | `Invariance` | `IndInv` is an invariant |
| | `TypeCorrect` | `TypeOK` |
| | `CountersCorrect` | each counter is the number of the threads it stands for |
| | `FirstInFirstOut` | the ring holds the newest accepted tasks in order |
| | `WaitersWoken` | nobody sleeps in `threadpool_wait` on a quiescent or closed pool |
| | `DestroyerWoken` | the destroyer does not sleep when nobody is inside |
| | `TaskInvariance` | `TaskIndInv` is an invariant |
| | `TasksKept` | each accepted task is in exactly one place |
| | `StatisticsExact` | the statistics are the history, cut off at the largest number |
| | `ReclaimedSafely` | memory goes when no thread can reach it and every task has ended |
| | `WaitReturnsWhenDone` | `threadpool_wait` on an open pool returns when everything is done |
| | `Refinement` | `Spec => Abstract!Spec`: every behaviour is one of `TaskPool` |
| | `WorkersNeverOversleep` | while a worker sleeps, those awake are enough for the queue |
| | `SubmittersNeverOversleep` | no submitter sleeps beside space it could use |

**The first invariant.**  None of the first six is inductive alone.  That a
counter does not go below zero is not a type but a consequence of
`CountersMatchThreads`: the thread that decrements is one of those counted.  The
order of the ring needs `RingClosed` (the tail is where head and length say; it
stops being so when the destroyer takes the queue, and then nothing is added).
That a waiter is woken rests on the counters once more:
`__threadpool_signal_idle__` looks at `waiting_clients`, which has to be positive
when somebody is parked, and `Parked` says who is.  That one signal of `api_idle`
is enough needs `Handles`: there is one destroyer.  `IndInv` is the conjunction,
with one lemma for each group of conjuncts and one case for each action.  The
lemmas on cardinalities come first: a thread that goes from one state to another
changes two counts by one.

**The tasks.**  `TasksAccountedFor` says that five sets are disjoint and cover the
accepted tasks; it does not say which tasks are where, and so is not inductive.
Order does: `QueueInOrder` puts the newest tasks into the ring, `DiscardInOrder`
into the part the destroyer has taken, and `TakenTasks` says that the rest, the
oldest ones, are each run by one worker, finished or cleaned up.  A dequeue then
takes the one number that is due.  `Phases` says what is over: nothing is
discarded before shutdown, nothing is queued once a worker has left, nobody is
inside when the destroyer joins.  The proof first classifies the steps, once by
what they do to tasks (`TaskMove`) and once by what they do to threads
(`ThreadMove`), so that each conjunct has six or seven cases instead of
twenty-five.

**The refinement.**  The same classification gives it: a task move is the action
of `TaskPool` of the same kind or a stutter, and `queue` maps to the sequence of
the newest `queue_length` tasks, `dropped` to that of the newest
`discard_count`, because that is what the invariant says the ring holds.

**The wake-ups.**  Signals are counted.  Every step leaves nobody asleep, makes
nobody less awake, takes a task (and one worker out of those awake), or adds n
tasks and n signals; and the like for submitters and slots.  A signal that leaves
somebody asleep has woken a thread, and a thread that is not asleep counts as
awake.  For submitters this holds when no batch waits, and if one does,
`CountersMatchThreads` makes the code's `waiting_batches` positive and the dequeue
a broadcast.

Only model-checked: liveness, that is `AcceptedTasksEnd`, `CallsReturn`, and the
fairness part of `ImplementsTaskPool`.

## 4. The set

`SetTable.tla` models `set.c`.  `set_add` is `Put`, `set_remove` of an element
`Del`, `set_destroy` `Destroy`, and a search that goes round the table for ever `LookupLoops`; a search
that ends without finding anything changes nothing.  Growing (162-169) and shrinking
(216, 185-206) are part of the operation that causes them, with and without memory
for the new table: without it `set_add` exits the program, and `set_remove` goes
on with the old one.  `members`, the set a mathematician would have, is history.
An element is a value with its type; the hash of an element is arbitrary.  One failure is
left out: the copy of a string that `strdup` makes (180) is not checked, so that without
memory for it a slot counts an element whose text is NULL, and comparing that is
undefined; in the model there is memory for the copies.

`set_table` runs it from the real initial capacity of 16 with six values and four
hash functions: all values in one slot at the end of the table, so that every
chain wraps; spread; equal in small tables only; neighbours across the end.
Memory for 32 slots (`MaxCapacity`, the bound) is one doubling of the initial
table and every one of the smaller tables.  Six values bring a table of eight to
its limit and, with tombstones that failed shrinking leaves, larger ones.

It shows that elements are stored once, that searches which end are right, that
the load counters are exact and the capacity a power of two, and that tables of four slots and more always have an
empty one, so that searches in them end.  Smaller tables need not:

**Finding** (`set_table_tiny`).  `set.h:36` says `set_contains` returns 1 or 0.
The test for a smallest capacity is commented out (`set.c:186`), so that adding
and removing one element four times halves the table to one slot.  `set_add`
then tests `used >= capacity * 0.75` before it inserts, the table of one slot
becomes full, and `set_contains` of any other value finds no empty slot and never
returns.  The same can happen with two slots.

*Proved* (`SetTable_proofs`), for any values, any hash function, any largest table and
any order of operations, from `SetAssumption`: `TableIsInForm`, that `TableInv` is
an invariant, and from it the four properties that `set_table` checks, as
`EachElementInOneSlot`, `CountsAreRight`, `SearchesAreRight` and `SearchesEnd`.  The
heart of `TableInv` is `WellFormed`: the table holds each member once and nothing
else, and no empty slot lies between a member's first slot and its own (`Chained`).
This last part is what makes a search that stops at an empty slot right, what
tombstones are for, and what re-hashing must re-establish for a different capacity.
The lemmas go from arithmetic to the operations: probing visits each slot
once (`ProbeIsSlot`, and that it is one-to-one), a search finds the element or the
first slot free for it, an insertion into such a slot keeps the table well formed, so does turning an
element into a tombstone, and so re-hashing, by induction over the old slots,
gives a well formed table of the same members.  That a search ends needs the
counters: they are those of the slots, and a load below the capacity leaves a slot empty.

## 5. The loggers

**`AsyncLog`** models `async_log.c` on top of `TaskPool`, the specification of the
thread pool, instead of the pool itself: `Accept`, `Start`, `Finish`, `Close`,
`Clean` and `Vanish` are the pool's promises, shown to be kept in section 3.

| code | actions |
|---|---|
| `async_log_init` 20-26 | `InitLog`, which relinks all records |
| `async_log_exit` 29-33 | `ExitLog`, `CleanDropped`, `Exited` |
| `__async_log_print__` 62-121 | `Allocate`, `Fill`, `Add` or `AddFails` with a pool, `PrintDirectly` without |
| `__async_log_worker__` 124-147 | `Write`, `Free`, `Return`; a callback that logs: `EchoAllocate`, `EchoAdd`, `EchoFails` |

The pool may refuse any caller, at its limit of callers (`threadpool.c:123`): `AddFails` and
`EchoFails`.  A worker is refused, instead of waiting, when the queue is full
(`EchoRefused`); only that is counted on for progress.

A record is a number, a message its author and its number.  The user's lock is
configured and, because callbacks log, recursive; with another lock, a callback
that logs waits for itself.  Init and exit run while no logger is inside a call:
that is the header's rule for pools (`threadpool.h:124`), and without it
the pointer read at 63 and 90 races with 31-32.  Record ownership is exact, in
spite of `async_log_exit(0)`, whose dropped messages keep their records: the next
init relinks the list.  Until then no call takes a record, because there
is no pool.

*Proved* (`AsyncLog_proofs`), for any number of loggers, records, workers, slots and
lives, under `LogAssumption` and the hypothesis that `NoRecord` is not a record:
`RecordsHaveOneOwner`.  The property counts owners of four kinds: places in the free
list, calls between allocation and `Add` (`ByLogger`), callbacks that log
(`ByCallback`), and tasks that are not over (`ByTask`).  The sum is one for every
record.  This is inductive with three facts about where records may be:
`QueueNewest`, the queue holds the newest tasks, so that what a worker takes and
what an exit drops is known; `RecordsInUse`, a call or a callback has a record
exactly where it needs one, and a task still queued has not begun; and `NotBegun`,
before the first init there is no pool to ask for records.  Each action then adds
an owner of one kind as it takes away one of another, which the lemmas on counts say.

`MessagesAreAccountedFor`: a message is written once, as it was said, or still on its
way, or was refused, or lost its task in an exit that drops.  The invariant
(`MessageInd`) says more: in which record a message is while it is on its way,
that the record's text is its text until it is written (nobody else has the record,
by the first theorem), and that a message is in one of these places only.  It takes that a
task has not written before it begins to run (`WorkBegun`).  Only model-checked here:
liveness.

**`LogCallbacks`** models `log.c`: `Setting`, `ConfigLock` and `AddCallback` between
messages, and a message as five actions, because without a lock other threads
come in between: the lock, the terminal, for each slot the reading of context and
function, the unlock.

*Proved* (`SystemParts_proofs`), for any number of threads, slots, callbacks and messages:
`MessagesReachAll`, that each callback a thread knew of gets its message once, in the order of
their addition and with its own context, and that under the program's lock the lines of a
message stand together.  The invariant (`LogInd`) reads off the step a thread is at which
callbacks have its message (`Progress`): all before the slot it is at, and none later.  That
slots are filled from the first (`SlotsFilled`) makes the first empty one the end, and nobody
configures while a thread is inside (`BusyAlone`).  With a lock, the thread that has it alone
adds lines, and so its lines are the last ones (`AtTheEnd`); later lines do not separate them.

## 6. Threads

On POSIX a mutex or a condition variable is one call each; `ThreadPool` has their
meaning.  What `thread.c` builds itself is on Windows:

* **`WinMutex`**: a critical section, which its owner can enter again, and a flag
  that says whether a mutex that is not recursive is locked.  `asleep` are
  the threads in the loop that stands for a deadlock (131).
* **`WinCondition`**: `__condition_timedwait_win32__` (238-260) in the steps between
  which other threads may run, with the two events, the waiter count and the
  mutex, and producers and consumers around it.  A timeout only ends a wait
  earlier; waits here have none.
* **`ThreadHandles`**: `thread_create`, `thread_join` and `thread_detach` on both
  systems: the memory a thread starts from and the system's handles.

*Proved*, for any finite sets of threads of which `NoOne` is not a member:
`HoldersExclude` (`ThreadedParts_proofs`), that a mutex has one holder, once if it is
not recursive, and that `condition_wait` returns with it.  The invariant of the mutex
(`MutexInd`) adds to the property that only the owner holds
(`OwnerHolds`) and that the flag of a mutex that is not recursive says whether it is
owned (`FlagTellsOwned`): the flag is what a second lock by the owner is
refused by.  Locking and unlocking are proved to keep it for any set of threads, so
that the lemmas serve the mutex by itself and the one under the condition variable.
`ConditionUsesMutex`: every behaviour of the condition variable is, for the mutex, one of
`WinMutex`.  The rest is two facts more, that
who is past the lock has the mutex (`HeldInside`), and that `waiter_count` is the
number of threads between the two updates of it (`WaitersCounted`).  That
consumers are woken, and what signals are lost, stays with TLC.

What the properties say of `ThreadHandles` is inductive with the types (`HandleInd`), and is
proved as a part of `ResourcesAreGivenBack` (section 11).

**Finding** (`win_condition_signal`).  `thread.h:164` says a signal wakes one waiting
thread.  The signal sets an auto-reset event (218), and setting it twice before a
waiter runs is setting it once: two signals, two waiters, one woken.
`ItemsAreConsumed`, that work handed over with signals gets done, is therefore
checked with one consumer.  The thread pool is not affected: on Windows it takes its mutex
from `thread.c`, but waits on the system's own `CONDITION_VARIABLE` (`threadpool.c:315-362`).

A second loss was noticed that no property states: the waiter that counts itself
last resets the broadcast event after giving up the count's lock (257).  A thread
that begins to wait in between, and a broadcast for it, are possible; the reset then
wipes that broadcast out.  `WinCondition` has these steps (`Uncounted`,
`Counted`, `SetEvent`, `Reset`); with two consumers they leave one asleep.

## 7. The memory pool

`MemoryPool` models `memorypool.c` with several threads.  A block's first cell is
the free list's link while it is free and the header with its class while it is
in use; header accesses are outside the mutex (84-86, 93-100), and so are
actions of their own: `Pop` and `WriteHeader` for an allocation, `ReadHeader` and
`Push` for a release.  `AllocLarge` is for blocks beyond all classes.  Each call of `malloc`
may fail.  Chunks keep their order; addresses within a chunk are numbers.

**Proved** (`DataParts_proofs`): `BlocksHaveOnePlace`, for any threads, classes, sizes and
number of blocks in a chunk.  That a block is once in its list is a statement about
following links, and no step says anything about that: `Push` writes one link.  So the
inductive invariant (`PoolInd`) gives each block a number (`ListInd`), the distance
from the end of the list or 0.  Each link leads to the next smaller number, no number comes
up twice in a class, and the list starts with the largest; a pop, a push and a fresh
chunk each keep that.  `PlaceInd` adds that a block with a number is in nobody's hands, and any
other one is in one pair of hands.  Following the links (`LinksFollowed`) then meets the
numbers in descending order (`OnceInItsList`), and each block once.

## 8. The hash map

`HashMap` models `hashmap.c`: `Insert` and `Update` for an addition, `Delete`, `Clear`,
`Destroy`; `Get` and `Iterated` are what lookups and iterators see.  Chains are
sequences and a resize moves all nodes, one by one.  Each allocation may fail: the larger table, the smaller
table, the copies of key and value, the node.  `heap` counts the copies of each
string.  Equal keys are one key there, with one hash.  **`Variants`** shows
that this is so: it converts two values of any C types as the macros do (`Var`),
compares and hashes the variants as `hashmap.c` does, and finds equal ones
with different hashes nowhere: -0.0 and 0.0, NaNs, a `long` of 32 or 64 bits, strings
at two addresses, NULL.

**Proved** (`DataParts_proofs`): `LookupsAnswer`, `StringsAreOwned` and `ResizesStand`, for
any finite set of keys, any values, any hash functions and tables of up to 2^20 buckets
(the bound on `MaxBuckets`).  The inductive invariant (`MapInd`) compares the table with a
set: the nodes that the pairs of `dict` ask for (`Pairs`).  `TableOf` says that each node of
that set is in the bucket of its hash, once, and that the table has no other; `heap` is how
often the nodes of the set use each string (`Tally`).  Adding, unlinking and
replacing a node are then lemmas about one set more or less (`Prepended`, `Unchained`,
`Replaced`).  A resize is two: the concatenation of the chains lists the set
(`NodesList`), and moving the nodes of a listing one by one makes a table of it for any number
of buckets (`RehashHolds`).  An iteration is such a listing, and so is as long as `count`
and owns the strings that `heap` counts.

`ResizesStand` is about the next operation after a resize.  A removal decides with one
element less than the table has (250).  So the table that has grown for an element must
not be sparse with its count less one.  An insertion may grow the table (180) and then
find no memory for its node (186-199); the next removal then decides with two elements less
than the growth was made for, which from eight buckets on is still not sparse.  Eight is where
the program's maps start (`HASHMAP_INIT_BUCKETS`); from the two buckets that
`data_parts` starts with, such a growth is undone, and the property says so by its second
disjunct.

`KeysHashAlike` (same module) is the theorem about `Variants`, for integers of any two
widths, any texts and any addresses.  Its one lemma about numbers is that a value of w
bits is not changed by cutting it to w bits, so that a variant holds the very value of
the key (`VariantKeepsValue`); the rest is a comparison of `__hashmap_variant_equals__`
with `__hashmap_hash__` type by type.  The powers of two are the recursive function `Half`,
of which the proof uses that its values are positive.

## 9. The hashes

`HashStream` models buffering, padding and length of `md5.c` and `sha256.c` and HMAC
on top, in bytes that have names.  Compression functions are left uninterpreted:
a state is the sequence of the blocks absorbed, and two states are equal when
these are.  The properties compare with the padded message written down from the
standards.  Blocks are eight bytes long, so that all positions in a block, and
padding with one block and with two, come up; words have 64 values, so that the
low word of the length wraps after eight bytes and the carry matters.

The loop over the blocks of a piece in `__md5_update__` (32-34) compares `i + 64 <= length` in
32 bits.  For a piece of 2^32-64 bytes or more the sum wraps, and the loop reads past the
piece and does not end.  `LoopEnds` is the condition on which it does, and an update takes
such pieces only; the property states beside what is hashed that the
loop ends on every piece of less than a word's values minus a block.  The run has pieces on both
sides of that limit: 55, 56 and 63 bytes, with words of 64 values.  `md5_file` reads 1024 bytes
at a time; `md5_string` takes a whole text, whose `strlen` it also cuts to 32 bits (157).

**Proved** (`DataParts_proofs`): `HashesAbsorbTheMessage`, for any lengths of blocks,
digests, message and key, of pieces on which the loop ends, and words of any number of values
that is the length in bits of some number of blocks (2^32 and blocks of 64 bytes are such).
The invariant (`StreamInd`)
says of each context that it has absorbed a sequence: `Absorbs` relates a context to the
quotient and the remainder of the sequence's length, its blocks to the whole blocks of the
sequence, and the start of its buffer to the bytes after them.

* An update turns a context that has absorbed m into one that has absorbed m followed by
  the piece, with the two cases of `AbsorbsPart` and `AbsorbsBlocks`.  `__md5_update__` is one of
  them at once, and `sha256_update` is byte by byte, by induction over the piece
  (`ShaUpdateIs`).  MD5 finds its place in the buffer from the low word of the length,
  which is right as a word wraps at a number of whole blocks (`LowWordIsPlace`); the two
  words count bits with the carry (`WordsCount`).
* `__md5_finalize__` is two updates more (`Md5FinalAbsorbs`).  `sha256_final` writes into
  the block itself, and amounts to an update by the padding: in the block if
  there is room for the length, and in one more if not (`ShaFinalAbsorbs`).
* HMAC is these applied twice; the zeros after a key of less than a block are those
  the standard adds (`PadIs`).

## 10. Sockets

* **`SocketStream`**: a sender with `socket_send_all` and the `socket_sendfile`s, a
  receiver with `socket_recv_all`, and between them a kernel that takes and
  gives any part.  The connection may be shut down, closed or reset, and
  another process may make the file shorter.  An interrupted call that moved nothing is a stutter.
  `send` and `recv` may also fail on a connection that is open (`SenderGivesUp`,
  `ReceiverGivesUp`), as under a timeout that `socket_setopt_timeout` or an earlier
  `socket_recv_all_deadline` has left on the socket.
* **`SocketDeadline`**: `socket_recv_all_deadline` with `socket_setopt_timeout`, in
  ticks of a quarter of a millisecond: the rounding, the carry into seconds, the
  timeout of zero that is none, the largest timeout.
* **`SocketConnect`**: `socket_connect_timeout` and `socket_send_nowait`: the blocking
  mode saved, changed and restored, with every system call liable to fail.

**Finding** (`socket_rounding`).  Less than half a millisecond before the deadline
the timeout rounds to 0 (272), which `setsockopt` takes for none.  The call
then waits as long as it takes, and returns `True` for bytes that came late;
`socket.h:199` says otherwise.  `DeadlineIsKept` sets such calls aside.

**Finding** (`socket_connect_instant`).  A `connect` that fails at once goes on to
`select` (308), which on Unix finds the socket writable; `SO_ERROR` was reported
already and is 0; the function returns 0, where `socket.h:322` says
`SOCKET_INVALID`.  `ReportedIsConnected` is about connections that were under way.

*Proved* (`SocketParts_proofs`), for every set of timeouts and every system, provided that
`SOCKET_INVALID` is not 0: `ConnectIsTruthful`, that connecting puts the blocking mode back on
every path, those of an interrupted `select` and a failing `getsockopt` included, unless the
system refuses the very call that puts it back (`disturbed`), and reports as made only
connections that are (with `ReportedIsConnected`'s exception).  The invariant follows what is
known at each step: `ModeInd` of the mode saved and in force, `StatusInd` of the
connection while the function waits, asks and restores.

`DeadlinesAreKept`, for every length, deadline and clock: the invariant says of the wait
in progress that the timeout it was given is the time that was left, rounded, so that
`RoundedIsNear`, which bounds what the rounding and the carry do, bounds the wait.

`TheStreamIsCut` and `TheSenderIsToldTheTruth`, for every size of buffers, messages, files and
of what the kernel takes and gives.  The first invariant (`FrameInd`) is an equation between
sequences: the pieces the receiver was given, those of the call in progress, the bytes on the
wire and what a closed connection has lost are together what was handed over.
The second (`SenderInd`) says for each byte handed over which call it belongs to and which
byte of that call's buffer or file it is (`OutInd`, `ToldInd`).  Both use that the
marker for "no call" is not itself a call (`IdleIsNoCall`, `IdleIsNoSend`).

Noticed without a run of its own: the timeout of `select` is rounded without carry
(314), so that its microseconds may be a whole second, which macOS refuses: the
call gives up at once (`Refused`).

## 11. Helpers around the operating system

* **`Resources`**: each function that acquires several things is written as the list of
  its steps, each with what its error path gives back, and any step may fail:
  `os_readfile`, `os_fopen_private_write`, `os_mmap`, `os_path_rwlock`,
  `os_random_bytes`, `thread_create`, `mutex_create`, `condition_init`,
  `hashmap_create`, `threadpool_create` and others.
* **`Directories`**: `os_remove` and `os_listdir` on Unix, system call by system call,
  while another process renames.  The system may refuse each of them: `lstat`, `open` and
  `openat`, `fstat`, `fdopendir`, `unlinkat` and `remove`, `readdir` at any entry and
  `closedir` (`Outcomes`).  A directory has an identity, which the code
  compares before it descends (839-847, 878-886).
* **`CanonicalPath`**: `os_canonical_path` on both systems.  A path is its components, a
  place the names from the root (`IsTree`: each place below a directory).  `Walk` is
  what the system does with a path: one component at a time, through links, of which it
  follows at most `MaxLinks`; `Lexical` is what Windows makes of the text alone.  Between
  the look at the path and the one at its parent another process may create or
  remove files, and the system may refuse either look (`Refused`).

Noticed without a run: on Unix a missing file in the root is answered as `//x`
(354), and `/f/..` below a regular file is taken for a missing one whose
parent is the file.  On Windows the parent of a missing file comes from the text
(358), without a look at junctions; a path without a drive and without another
separator (`\x`) has the working directory for its parent (344); a missing path that ends
in a dot keeps it.  A link to nothing is answered as the link, not as what it leads to.
`NamesTheFile` sets aside what the first look has found nothing under (`look`) and that is one
of these: a path that ends in a link (`EndsInLink`), and on Windows one whose text alone is not
enough (`LexicalFails`).  A path under which the first look finds a file is never set aside,
through whatever links: the aliases that line 291 is about are checked.

*Proved* (`SystemParts_proofs`), for any trees, names, links and numbers of renames and
changes, and whichever system calls are refused:

* `NothingElseIsRemoved`.  `inside` is what the call may go into: what was below the directory
  it opened, and what was moved in since.  The invariant (`DirectoryInd`) says that it is
  closed under the tree as it is (`WorldInd`), whoever renamed what, and that each open
  directory is in it (`StackInd`); so what is found in an open directory is in it too.  The
  start of this is that what `Below` computes is closed (`BelowIsClosed`).  `Below` adds the
  children as often as there are directories; one round adds nothing new before the
  directories run out, which the proof shows by counting them.
* `ZeroIsTrue`.  An entry of the first tree that is neither gone nor moved is still where it
  was.  So the call has it still to come, or is at it, or has noted a failure, for every entry
  of the first directory (`NothingLeft`); at the end only the failure remains.  It is for this that a
  `readdir` that fails is no end: what it has not returned is still to come.  For a listing
  with no renames the tree is the first one, and what was seen was given (`ListInd`).
* `NamesAreRight` (`NamesTheFile`).  The first look answers with what `Walk` found.  The
  second puts the last component behind what it finds for the parent, and this is right if the
  parent's walk is the one that the path itself takes.  Three things are needed.  A walk along
  a path is the walk along all but its last component and one step more (`LastStep`,
  `OneMore`).  To count the steps, each is charged to a component or to a link that may still
  be followed (`Remaining`), so that a walk ends within `MaxSteps` (`WalkEnds`).  Files that
  come and go leave the directories and links as they were (`ChangeAlike`), and in such trees
  a walk to a directory is the same (`AlikeWalks`).  So what was no directory at the first look
  is none at the second, which is the part of `PathInd` that is not in the property: a
  directory's name is never composed from its parent.  On Windows
  the text of the parent has to be a walk that meets no link (`WalkAsWritten`); this is
  what `LexicalFails` leaves over.  `ParentCases` goes through what lines 331 to 349 make of `x`, `/x`
  and the rest.
* `ResourcesAreGivenBack`.  The invariant (`ResourceInd`) names for each of the 17 lists of steps what is held
  before each step (`SoundBy`); that the steps lead from each of these
  sets to the next, and that each error path gives back all of its set, is then a finite check,
  made for each list.

## 12. Compositions and runs

The parts of one composition share nothing.  They are side by side because a
behaviour chooses one of them, and one run checks them all; the variables of the
others are `Off`.  Properties name the part they are about.  The parts end or come
to rest, and so these runs do not look for deadlocks: the liveness properties say
which calls have to return.

| run | states | parts and bounds |
|---|---|---|
| `data_parts` | 246,000 | map: five keys, two values, three hash functions, two to eight buckets; variants: integers of two and three bits; pool: two threads, chunks of two, three pieces of memory; hashes: pieces to 63 bytes, messages to 66 |
| `socket_parts` | 392,000 | stream: buffers of two bytes, messages of none or three, two calls of each side; deadlines about nothing, a millisecond, a second and the largest timeout; connecting on three systems |
| `threaded_parts` | 390,000 | logger: two loggers of two messages, one with callbacks that log, four records, a queue of one, two lives; mutex: four threads; condition variable: up to two consumers and two producers with two items each |
| `system_parts` | 1,136,000 | directories: three renames; paths: to three components, four trees; functions that acquire; two threads; logger: two threads, two slots and three callbacks |
| `set_table` | 74,856 | section 4 |
| `threadpool_safety`, `threadpool_batches`, `threadpool_refinement` | | section 3 |

Why they are enough:

* Five keys fill four buckets beyond three quarters, so that the map grows twice
  and shrinks back; the hash functions put all keys in one chain, apart, and apart
  only in the larger table.
* Three pieces of memory make two chunks of one class and one of another, or a large
  block.  Chunks of two blocks have a first, a last, and a link.  A free list of
  three blocks from two chunks comes up.
* Two bytes of buffer against messages of three make every call partial; a message of
  three that fails after a part leaves the next one out of step.
* Paths of three components have one before, at and behind a link; `MaxLinks` = 3 is
  as many as a path follows in these trees unless it runs in a circle.
* Three renames are enough to put another directory into the place of one just
  examined and to move a tree out and in again.
* Four records are what two loggers, a callback and a queued message hold at once;
  a fifth has nobody to hold it.  That records run out is checked too: a logger that
  comes while all are held is refused.
* `MaxItems`, `MaxCalls`, `MaxMessages`, `MaxLives`, `MaxMoves`, `MaxChanges`, `MaxPieces`,
  `MaxDepth`, `MaxTime`, `MaxAdded` and `MaxLength` bound what the program or the
  environment does; nothing in the code does.

**Fairness.**  In `SocketParts` both programs go on with what they have begun, the
sender shuts the connection down at last, and the receiver closes it.  In
`ThreadedParts` somebody inside the logger who can run does, and so does each user
of the condition variable.  No kernel is assumed to be generous, no peer to be
quick.

`ThreadedParts_proofs`, `DataParts_proofs`, `SocketParts_proofs` and `SystemParts_proofs` state
the theorems of sections 5 to 11 of these compositions, as the properties that the runs check:
`EachRecordHasOneOwner`, `MessagesAccountedFor`, `MutexHasOneHolder`,
`EachBlockInOnePlace`, `LookupsAreRight`, `StringsOwnedByNodes`, `NoResizeIsUndone`,
`EqualKeysHashAlike`, `HashesFollowTheStandards`,
`ConnectTellsTheTruth`, `DeadlineIsKept`, `FramesCutTheStream`, `SenderIsToldTheTruth`,
`OnlyTheTreeIsRemoved`, `ZeroMeansGone`, `NamesTheFile`, `NothingIsLeaked` and
`EachMessageReachesAll`.  A step of the composition is a step of the part a theorem is
about or leaves that part alone.  Besides the parts' own assumptions the theorems use
that markers are not what they stand for the absence of: `NoOne` is not a thread and
`NoRecord` not a record (`NamesDistinct`), `SOCKET_INVALID` is not 0
(`FailureIsNotSuccess`), NULL neither a text nor an address (`VariantAssumption`), and
those of section 10.  `SystemParts_proofs` needs no more than
`SystemAssumption`: there are finitely many directories, the marker for no entry is not a
node and not an operation, a tree of paths has each place below a directory (`IsTree`), no name is
`/`, `.` or `..`, and some number, `MaxLength`, is above the length of every path with its
working directory and of what a link leads to.

Four runs expect a violation: `set_table_tiny` (section 4), `win_condition_signal`
(6), `socket_rounding` and `socket_connect_instant` (10).

## 13. What the proofs do not reach

Liveness under fairness is not within the prover's reach, and stays with TLC.

Loops over data are: `Recursion` proves induction as a statement about a set of
numbers, from the well-foundedness of <, and that a recursive function over
0 .. N whose steps are functions exists and computes what its equations say.  The
re-hashing of the set (`Rehash`) and the concatenations of `SocketStream` are proved about
with it, and so are the re-hashing and the iteration of the hash map (`Nodes`, `Rehash`), the
free lists of `MemoryPool` (`Linked`), what lies below a directory (`Below`) and the
updates of SHA-256 (`ShaUpdate`).  `CanonicalPath` writes a walk as a function of the number
of its steps, and the text of a path as one of the number of its components, and both are
reasoned about in the same way.

Every invariant and action property that the passing runs check has its theorem; what TLC
alone checks is `ImplementsTaskPool` as far as it is about fairness, `AcceptedTasksEnd`,
`CallsReturn` and `ItemsAreConsumed`.

## 14. Not modelled

* `os_remove` and `os_listdir` on Windows, which go through handles and reparse
  points (noticed there: when `FindNextFile` ends with an error, `os_listdir` does not close
  its find handle, 783); `os_time`, `os_sleep`, the pseudo-random generator, wrappers of one system
  call; what a file lock does once it is held.
* The timeout of `condition_timedwait`, thread identifiers, destroying mutexes and
  condition variables.
* A `strdup` without memory in the set (section 4); `strlen` beyond 32 bits (section 9).
* The compression functions of the hashes; alignment in the memory pool; formatting
  and truncation of log messages; `set_view` and the printing of maps.
* Socket functions of one system call: they keep no state.
* Use against the headers' rules: a map or set shared without a lock, a pool used
  by a caller without a reference after destruction began, `async_log_exit` while
  others log.
* `type.h` and `Makefile` have no behaviour.

## 15. Files

`*.tla` without a prefix are specifications, `MC*.tla` and `*.cfg` TLC instances,
`*_proofs.tla` proofs.  To check one run, and one module of proofs:

    tlc -workers 2 -config ThreadPool_safety.cfg MCThreadPool
    tlapm ThreadPool_proofs.tla

`PROJECT.json` names the module and configuration of each run, maps each
definition to the lines it models, and lists findings, hazards and theorems.
