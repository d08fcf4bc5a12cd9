\* Two consumers and two producers.
SPECIFICATION Spec
CONSTANTS
    Consumers = {c1, c2}
    Producers = {p1, p2}
    NoOne = NoOne
    MaxItems = 2
CHECK_DEADLOCK FALSE
INVARIANTS
    EachSignalWakesOne
