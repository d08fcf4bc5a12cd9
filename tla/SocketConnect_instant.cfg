\* Linux: select and SO_ERROR know nothing of a connect() that failed at once.
SPECIFICATION Spec
CONSTANTS
    Systems = {"linux"}
    R = 2
    S = 3
    Seconds = {3}
    Invalid = Invalid
    None = None
CHECK_DEADLOCK FALSE
INVARIANTS
    InstantFailureIsReported
