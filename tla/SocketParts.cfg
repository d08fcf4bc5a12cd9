\* Stream: a kernel buffer and chunks of two bytes; messages of none or three (one that
\* fails in the middle leaves the next out of step), files of up to three.
\* Deadline: four ticks to the millisecond, three milliseconds to the second: timeouts
\* round up to a second, down to nothing, and pass the largest.
\* Connect: every system, with timeouts of none, of milliseconds, and of a second.
SPECIFICATION Spec
CONSTANTS
    Lengths = {0, 3}
    Offsets = {1}
    FileSize = 3
    ChunkMax = 2
    BufferSize = 2
    Capacity = 2
    MaxCalls = 2
    R = 4
    S = 3
    MaxSeconds = 2
    Delays <- MCDelays
    MaxTime = 29
    Forever = Forever
    Systems = {"linux", "mac", "windows"}
    Seconds = {0, 6, 12}
    Invalid = Invalid
    None = None
    Idle = Idle
    Off = Off
CHECK_DEADLOCK FALSE
INVARIANTS
    SenderIsToldTheTruth
    FramesCutTheStream
    DeadlineIsKept
    ConnectTellsTheTruth
PROPERTIES
    CallsReturn
