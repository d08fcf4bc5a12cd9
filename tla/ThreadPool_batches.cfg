\* Three workers and batches of up to three: more sleepers than new tasks,
\* and several blocked batches of different sizes.
SPECIFICATION Spec
CONSTANTS
    Workers = {w1, w2, w3}
    Clients = {c1, c2, c3}
    Owner = c1
    NoThread = NoThread
    Capacity = 3
    UIntMax = 2
    CounterMax = 6
    TaskLimit = 6
SYMMETRY Symmetry
INVARIANTS
    NoWorkerOversleeps
    NoSubmitterOversleeps
