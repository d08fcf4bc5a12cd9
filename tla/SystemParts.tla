---------------------------- MODULE SystemParts ----------------------------
(***************************************************************************)
(* What the library does with the operating system, side by side: paths,   *)
(* directories, the resources its functions acquire, threads and their     *)
(* handles, and the synchronous logger.  They share nothing: a behaviour   *)
(* is one of one part, and the variables of the others are Off.            *)
(***************************************************************************)
EXTENDS Integers, Sequences, FiniteSets

CONSTANTS
    Names, Dirs, Files, Links, Target, Start, Parent, Name, MaxMoves,      \* Directories
    Systems, PathNames, Trees, Paths, Capacity, MaxChanges, MaxLinks, MaxLength, \* CanonicalPath
    Threads, Results, Failed,                                              \* ThreadHandles
    MaxCallbacks, MaxAdded, MaxMessages, NoLock, Free,                     \* LogCallbacks
    None, Off

VARIABLES
    part,
    tree, op, pc, expected, stack, result, given, moves, moved, inside, named, gone,
    system, cwd, path, places, path_pc, answer, output, changes, look,
    call, held, effects, twice, outcome,
    windows, info, child, returned, handle, kernel, joined,
    slot, mode, lock, at, sent, added, known, lines

directoryVars ==
    <<tree, op, pc, expected, stack, result, given, moves, moved, inside, named, gone>>
pathVars == <<system, cwd, path, places, path_pc, answer, output, changes, look>>
resourceVars == <<call, held, effects, twice, outcome>>
handleVars == <<windows, info, child, returned, handle, kernel, joined>>
logVars == <<slot, mode, lock, at, sent, added, known, lines>>
vars == <<part, directoryVars, pathVars, resourceVars, handleVars, logVars>>

Directory == INSTANCE Directories
Path == INSTANCE CanonicalPath
    WITH Names <- PathNames, tree <- places, pc <- path_pc, result <- answer
Resource == INSTANCE Resources WITH result <- outcome
Handle == INSTANCE ThreadHandles WITH result <- joined
Log == INSTANCE LogCallbacks

ASSUME SystemAssumption ==
    /\ Directory!DirectoriesAssumption /\ Path!PathAssumption /\ Resource!NoneAssumption
    /\ Log!LogAssumption

-----------------------------------------------------------------------------
DirectoryOff ==
    /\ tree = Off /\ op = Off /\ pc = Off /\ expected = Off /\ stack = Off /\ result = Off
    /\ given = Off /\ moves = Off /\ moved = Off /\ inside = Off /\ named = Off /\ gone = Off
PathOff ==
    /\ system = Off /\ cwd = Off /\ path = Off /\ places = Off /\ path_pc = Off
    /\ answer = Off /\ output = Off /\ changes = Off /\ look = Off
ResourceOff == call = Off /\ held = Off /\ effects = Off /\ twice = Off /\ outcome = Off
HandleOff ==
    /\ windows = Off /\ info = Off /\ child = Off /\ returned = Off /\ handle = Off
    /\ kernel = Off /\ joined = Off
LogOff ==
    /\ slot = Off /\ mode = Off /\ lock = Off /\ at = Off /\ sent = Off /\ added = Off
    /\ known = Off /\ lines = Off

Init ==
    \/ part = "directory" /\ Directory!Init /\ PathOff /\ ResourceOff /\ HandleOff /\ LogOff
    \/ part = "path" /\ Path!Init /\ DirectoryOff /\ ResourceOff /\ HandleOff /\ LogOff
    \/ part = "resource" /\ Resource!Init /\ DirectoryOff /\ PathOff /\ HandleOff /\ LogOff
    \/ part = "handle" /\ Handle!Init /\ DirectoryOff /\ PathOff /\ ResourceOff /\ LogOff
    \/ part = "log" /\ Log!Init /\ DirectoryOff /\ PathOff /\ ResourceOff /\ HandleOff

DirectoryStep ==
    /\ part = "directory" /\ Directory!Next
    /\ UNCHANGED <<part, pathVars, resourceVars, handleVars, logVars>>
PathStep ==
    /\ part = "path" /\ Path!Next
    /\ UNCHANGED <<part, directoryVars, resourceVars, handleVars, logVars>>
ResourceStep ==
    /\ part = "resource" /\ Resource!Next
    /\ UNCHANGED <<part, directoryVars, pathVars, handleVars, logVars>>
HandleStep ==
    /\ part = "handle" /\ Handle!Next
    /\ UNCHANGED <<part, directoryVars, pathVars, resourceVars, logVars>>
LogStep ==
    /\ part = "log" /\ Log!Next
    /\ UNCHANGED <<part, directoryVars, pathVars, resourceVars, handleVars>>

Next == DirectoryStep \/ PathStep \/ ResourceStep \/ HandleStep \/ LogStep

Spec == Init /\ [][Next]_vars

-----------------------------------------------------------------------------
(* Properties *)

\* os_remove removes nothing but what its path has named and what has been below the
\* directory it opened, whatever another process renames under way.
OnlyTheTreeIsRemoved == part = "directory" => Directory!OnlyTheTreeIsRemoved

\* A result of 0 of os_remove means that everything that nobody renamed is gone, and one
\* of os_listdir that everything has been listed, and no link.
ZeroMeansGone == part = "directory" => Directory!ZeroMeansGone /\ Directory!ListingIsComplete

\* os_canonical_path names the file that is there, through whatever links, or would be
\* created, so that the name of a file stays the same when it comes and goes; and no path
\* is refused that could be answered.  Set aside are a path that leads to nothing by a
\* link at its end, and one to nothing that Windows' text alone gets wrong.
NamesTheFile == part = "path" => Path!NamesTheFile /\ Path!RefusesOnlyTheImpossible

\* Whichever of several steps is refused, a call gives back what it holds, once, and a
\* file is emptied only once it is private; the handle of a thread is closed once and
\* the memory it starts from freed, by the thread or by its creator.
NothingIsLeaked ==
    /\ part = "resource" => /\ Resource!NothingIsLeaked /\ Resource!NothingIsReleasedTwice
                            /\ Resource!EmptiedWhenPrivate
    /\ part = "handle" => /\ Handle!HandlesAreClosedOnce /\ Handle!StartMemoryIsFreed
                          /\ Handle!JoinGivesTheResult

\* A message of the synchronous logger reaches the callbacks that were there before it,
\* each once, in order and with its own context; and its lines stand together if it was
\* logged under the program's lock.
EachMessageReachesAll == part = "log" => Log!EachMessageReachesAll /\ Log!MessagesStandTogether
=============================================================================
