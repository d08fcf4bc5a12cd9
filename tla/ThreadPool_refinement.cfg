\* Two workers and two clients; liveness, so no symmetry.
SPECIFICATION FairSpec
CONSTANTS
    Workers = {w1, w2}
    Clients = {c1, c2}
    Owner = c1
    NoThread = NoThread
    Capacity = 2
    UIntMax = 2
    CounterMax = 3
    TaskLimit = 3
PROPERTIES
    ImplementsTaskPool
    AcceptedTasksEnd
    CallsReturn
