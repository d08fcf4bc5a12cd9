\* A deadline a quarter of a millisecond away.
SPECIFICATION Spec
CONSTANTS
    R = 4
    S = 3
    MaxSeconds = 2
    Lengths = {0, 1, 2}
    Delays = {1}
    MaxTime = 8
    Idle = Idle
    Forever = Forever
CHECK_DEADLOCK FALSE
INVARIANTS
    TrueMeansBeforeTheDeadline
