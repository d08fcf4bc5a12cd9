\* Hash map: five keys, two values, two buckets to begin with and memory for eight.
\* Variants: integers of two and three bits, two texts at two addresses.
\* Memory pool: two threads, chunks of two blocks, three pieces of memory in all.
\* Hashes: blocks of eight bytes, words of 64 values: the low word wraps every eight bytes.
SPECIFICATION Spec
CONSTANTS
    Keys <- MCKeys
    Vals <- MCVals
    Strings <- MCStrings
    Hashes <- MCHashes
    InitBuckets = 2
    MaxBuckets = 8
    Nothing = Nothing
    Narrow = 2
    Wide = 3
    Texts = {"t1", "t2"}
    Addresses = {"a1", "a2"}
    Threads = {t1, t2}
    Sizes <- MCSizes
    Limit <- MCLimit
    BlocksPerChunk = 2
    MaxPieces = 3
    B = 8
    M = 64
    D = 3
    KeyLengths = {0, 3, 8, 9, 14}
    Pieces <- MCPieces
    MaxLength = 66
    Off = Off
CHECK_DEADLOCK FALSE
INVARIANTS
    LookupsAreRight
    StringsOwnedByNodes
    EqualKeysHashAlike
    EachBlockInOnePlace
    HashesFollowTheStandards
PROPERTIES
    NoResizeIsUndone
