\* Two workers and three clients around a ring of two slots.
SPECIFICATION Spec
CONSTANTS
    Workers = {w1, w2}
    Clients = {c1, c2, c3}
    Owner = c1
    NoThread = NoThread
    Capacity = 2
    UIntMax = 3
    CounterMax = 3
    TaskLimit = 5
SYMMETRY Symmetry
INVARIANTS
    TaskIndInv
    TypeOK
    CountersMatchThreads
    TasksAccountedFor
    QueueInOrder
    NoWaiterOversleeps
    DestroyerNotForgotten
    ReclaimedOnlyWhenUnused
    StatsMatchHistory
PROPERTIES
    WaitSeesQuiescence
