\* Asynchronous logger: two loggers, one with chatty callbacks; one worker, a queue of one
\* and four records (one is queued and a logger waits to add its own while the callback
\* of another message adds a fourth), over two lives of the pool.
\* Mutex: four threads, up to three locks of each.
\* Condition variable: one or two consumers, two producers, signals or broadcasts.
SPECIFICATION Spec
CONSTANTS
    Loggers = {quiet, chatty}
    Chatty = {chatty}
    NRecords = 4
    Capacity = 1
    Parallelism = 1
    MaxMessages = 2
    MaxLives = 2
    NoRecord = NoRecord
    Lockers = {t1, t2, t3, t4}
    MaxLocks = 3
    Consumers = {c1, c2}
    Producers = {p1, p2}
    MaxItems = 2
    NoOne = NoOne
    Off = Off
CHECK_DEADLOCK FALSE
INVARIANTS
    EachRecordHasOneOwner
    MessagesAccountedFor
    MutexHasOneHolder
PROPERTIES
    CallsReturn
    ItemsAreConsumed
