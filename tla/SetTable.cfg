\* Six values under four hashes; memory for up to 32 slots.
SPECIFICATION Spec
CONSTANTS
    Values <- MCValues
    Hashes <- MCHashes
    Empty = Empty
    Removed = Removed
    MaxCapacity = 32
INVARIANTS
    ElementsInOneSlot
    CountsMatchSlots
    SearchFindsMembers
    SearchesEndFromFour
