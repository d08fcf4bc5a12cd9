\* Directories: three renames at any times: enough to put another directory or a link in
\* the place of one that was just examined.
\* Paths: both systems, all of up to three components, from every working directory of four trees.
\* Resources: every function, with every step failing or not.
\* Threads: two, with three results, on both systems.
\* Logger: two threads with two messages each, two slots for three callbacks, with a lock
\* or not.
SPECIFICATION Spec
CONSTANTS
    root = root
    dir = dir
    sub = sub
    other = other
    file = file
    alien = alien
    link = link
    a = a
    b = b
    Names = {a, b}
    Dirs = {root, dir, sub, other}
    Files = {file, alien}
    Links = {link}
    Start <- MCStart
    Target <- MCTarget
    Parent = root
    Name = a
    MaxMoves = 3
    Systems = {"unix", "windows"}
    PathNames <- MCNames
    Trees <- MCTrees
    Paths <- MCPaths
    Capacity = 4
    MaxChanges = 2
    MaxLinks = 3
    MaxLength = 6
    Threads = {t1, t2}
    Results = {1, 7}
    Failed = Failed
    MaxCallbacks = 2
    MaxAdded = 3
    MaxMessages = 2
    NoLock = NoLock
    Free = Free
    None = None
    Off = Off
CHECK_DEADLOCK FALSE
INVARIANTS
    OnlyTheTreeIsRemoved
    ZeroMeansGone
    NamesTheFile
    NothingIsLeaked
    EachMessageReachesAll
