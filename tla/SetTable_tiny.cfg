\* The table shrinks from 16 slots to one and a value fills it.
SPECIFICATION Spec
CONSTANTS
    Values <- MCValues
    Hashes <- MCHashes
    Empty = Empty
    Removed = Removed
    MaxCapacity = 32
INVARIANTS
    ContainsReturns
