----------------------------- MODULE Resources -----------------------------
(***************************************************************************)
(* The functions of the library that acquire several things from the       *)
(* system, any of which may be refused, and that have to give back what    *)
(* they have in every one of those cases: memory, descriptors, handles,    *)
(* mappings, locks.  Each is given as the list of its steps.  A step       *)
(* either succeeds, or fails, gives back what its error path names, and    *)
(* ends the call.                                                          *)
(***************************************************************************)
EXTENDS Integers, Sequences

CONSTANT None
NoneAssumption == None \notin BOOLEAN

VARIABLES
    call,          \* the function called and its next step, or None
    held,          \* what the call, or after it the caller, has to give back
    effects,       \* what the call has done to the file
    twice,         \* history: something was given back that was not held
    result         \* of the call that returned: success or not

vars == <<call, held, effects, twice, result>>

-----------------------------------------------------------------------------
(* Steps: what success gets and loses, what it does to the file, what       *)
(* failure gives back; a step in a loop may be done again.                  *)

Get(gets, undo) == [gets |-> gets, loses |-> {}, does |-> {}, undo |-> undo, loop |-> FALSE]
Test(undo) == Get({}, undo)
Does(effect, undo) == [Test(undo) EXCEPT !.does = {effect}]
Turn(old, new, undo) == [Get({new}, undo) EXCEPT !.loses = {old}]
Loop(undo) == [Test(undo) EXCEPT !.loop = TRUE]
Give(gone) == [Test(gone) EXCEPT !.loses = gone]

\* A function returns what it keeps on success.
Function(steps, keeps) == [steps |-> steps, keeps |-> keeps]

\* os_readfile: a stream is gone also if fclose fails.
ReadFile ==
    Function(<< Get({"stream"}, {}),                      \* fopen
                Test({"stream"}),                         \* os_stream_size
                Test({"stream"}),                         \* the range, os_fseek, the length
                Get({"buffer"}, {"stream"}),              \* malloc
                Test({"buffer", "stream"}),               \* fread
                [Give({"stream"}) EXCEPT !.undo = {"buffer", "stream"}] >>, {"buffer"})

\* os_fopen_private_write on Unix: fdopen's stream owns the descriptor.
PrivateUnix ==
    Function(<< Get({"descriptor"}, {}),                  \* open
                Does("regular", {"descriptor"}),          \* fstat, S_ISREG
                Does("private", {"descriptor"}),          \* fchmod
                Does("emptied", {"descriptor"}),          \* ftruncate
                Turn("descriptor", "stream", {"descriptor"}) >>, {"stream"})

\* Closes the handle that belongs to the descriptor by now.
Faulty_PrivateWindows ==
    LET memory == {"acl", "user", "token"}
    IN  Function(<< Get({"token"}, {}), Get({"user"}, {"token"}), Test({"user", "token"}),
                    Get({"acl"}, {"user", "token"}), Test(memory),
                    Get({"handle"}, memory), Does("regular", memory \cup {"handle"}),
                    Does("private", memory \cup {"handle"}), Does("emptied", memory \cup {"handle"}),
                    Turn("handle", "descriptor", memory \cup {"handle"}),
                    Turn("descriptor", "stream", memory \cup {"descriptor", "handle"}),
                    Give(memory) >>, {"stream"})

\* os_fopen_private_write on Windows: what the label cleanup gives back is what the
\* variables name, the handle only until a descriptor owns it.
PrivateWindows ==
    LET memory == {"acl", "user", "token"}
    IN  Function(<< Get({"token"}, {}),                             \* OpenProcessToken
                    Get({"user"}, {"token"}),                       \* its size, malloc
                    Test({"user", "token"}),                        \* GetTokenInformation
                    Get({"acl"}, {"user", "token"}),                \* malloc
                    Test(memory),                                   \* InitializeAcl to SetSecurityDescriptorDacl
                    Get({"handle"}, memory),                        \* CreateFileA
                    Does("regular", memory \cup {"handle"}),        \* no reparse point
                    Does("private", memory \cup {"handle"}),        \* SetSecurityInfo
                    Does("emptied", memory \cup {"handle"}),        \* SetEndOfFile
                    Turn("handle", "descriptor", memory \cup {"handle"}),
                    Turn("descriptor", "stream", memory \cup {"descriptor"}),
                    [Give(memory) EXCEPT !.undo = {}] >>, {"stream"})

\* os_mmap
MapUnix ==
    Function(<< Get({"record"}, {}),                      \* malloc
                Get({"descriptor"}, {"record"}),          \* open
                Get({"mapping"}, {"record", "descriptor"}) >>, \* mmap
             {"record", "descriptor", "mapping"})

MapWindows ==
    Function(<< Get({"record"}, {}),                      \* malloc
                Get({"file"}, {"record"}),                \* CreateFile
                Get({"object"}, {"record", "file"}),      \* CreateFileMapping
                Get({"mapping"}, {"record", "file", "object"}) >>, \* MapViewOfFile
             {"record", "file", "object", "mapping"})

\* os_path_rwlock, Unix and Windows: the lock goes with the stream, or with the handle.
PathLock ==
    Function(<< Get({"stream"}, {}), Get({"lock"}, {"stream"}) >>, {"stream", "lock"})

\* os_random_bytes on Unix
RandomBytes ==
    Function(<< Get({"descriptor"}, {}), Loop({"descriptor"}), [Give({"descriptor"}) EXCEPT !.undo = {}] >>, {})

\* os_canonical_path on Unix: realpath of the path, or of its parent.
CanonicalExisting == Function(<< Get({"existing"}, {}), Give({"existing"}) >>, {})
CanonicalParent == Function(<< Get({"resolved"}, {}), Give({"resolved"}) >>, {})

\* os_listdir: the directory's stream; its entries are refused or not.
ListDirectory == Function(<< Get({"directory"}, {}), Give({"directory"}) >>, {})

\* os_remove on Unix: __os_remove_directory_fd__ owns the descriptor from the start.
RemoveDirectory ==
    Function(<< Get({"descriptor"}, {}),                  \* open
                Test({"descriptor"}),                     \* fstat, still the same directory
                Turn("descriptor", "directory", {"descriptor"}), \* fdopendir
                Give({"directory"}) >>, {})

\* os_stream_matches_path on Windows
MatchesPath == Function(<< Get({"handle"}, {}), Give({"handle"}) >>, {})

\* thread_create: a started thread owns the memory it starts from.
ThreadCreate == Function(<< Get({"information"}, {}), Turn("information", "thread", {"information"}) >>, {"thread"})

\* mutex_create on Unix
MutexCreate ==
    Function(<< Get({"attributes"}, {}), Test({"attributes"}),
                Get({"mutex"}, {"attributes"}), [Give({"attributes"}) EXCEPT !.undo = {}] >>, {"mutex"})

\* condition_init on Windows: a critical section, which is always there, and two events.
ConditionInit ==
    Function(<< Get({"section", "signal"}, {}), Get({"broadcast"}, {"section", "signal"}) >>,
             {"section", "signal", "broadcast"})

\* hashmap_create, set_create
TableCreate == Function(<< Get({"record"}, {}), Get({"table"}, {"record"}) >>, {"record", "table"})

\* threadpool_create up to its threads: the labels fall through.
PoolCreate ==
    LET memory == {"pool", "queue", "threads"}
    IN  Function(<< Get({"pool"}, {}), Get({"queue"}, {"pool"}), Get({"threads"}, {"pool", "queue"}),
                    Get({"lock"}, memory),
                    Get({"notify"}, memory \cup {"lock"}),
                    Get({"not_full"}, memory \cup {"lock", "notify"}),
                    Get({"all_idle"}, memory \cup {"lock", "notify", "not_full"}),
                    Get({"api_idle"}, memory \cup {"lock", "notify", "not_full", "all_idle"}) >>,
                 memory \cup {"lock", "notify", "not_full", "all_idle", "api_idle"})

Functions ==
    [os_readfile |-> ReadFile, os_fopen_private_write |-> PrivateUnix,
     os_fopen_private_write_windows |-> PrivateWindows, os_mmap |-> MapUnix,
     os_mmap_windows |-> MapWindows, os_path_rwlock |-> PathLock,
     os_random_bytes |-> RandomBytes, os_canonical_path |-> CanonicalExisting,
     os_canonical_path_missing |-> CanonicalParent, os_listdir |-> ListDirectory, os_remove |-> RemoveDirectory,
     os_stream_matches_path |-> MatchesPath, thread_create |-> ThreadCreate,
     mutex_create |-> MutexCreate, condition_init |-> ConditionInit,
     hashmap_create |-> TableCreate, set_create |-> TableCreate, os_path_rwlock_windows |-> PathLock,
     threadpool_create |-> PoolCreate]

\* Steps that cannot fail: giving back memory or a descriptor of /dev/urandom.
MayFail(step) == step.loses = {} \/ step.gets # {} \/ step.undo # {}

-----------------------------------------------------------------------------
Init == call = None /\ held = {} /\ effects = {} /\ twice = FALSE /\ result = None

Call(name) ==
    /\ call = None /\ held = {} /\ call' = [name |-> name, step |-> 1]
    /\ effects' = {} /\ result' = None
    /\ UNCHANGED <<held, twice>>

Current == Functions[call.name]
Step == Current.steps[call.step]
Finished == call # None /\ call.step > Len(Current.steps)
Running == call # None /\ ~Finished

Succeed ==
    /\ Running /\ held' = (held \ Step.loses) \cup Step.gets /\ effects' = effects \cup Step.does
    /\ twice' = (twice \/ ~(Step.loses \subseteq held))
    /\ \/ call' = [call EXCEPT !.step = @ + 1]
       \/ Step.loop /\ call' = call
    /\ UNCHANGED result

Fail ==
    /\ Running /\ MayFail(Step) /\ held' = held \ Step.undo
    /\ twice' = (twice \/ ~(Step.undo \subseteq held))
    /\ call' = None /\ result' = FALSE
    /\ UNCHANGED effects

Return ==
    /\ Finished /\ call' = None /\ result' = TRUE
    /\ UNCHANGED <<held, effects, twice>>

\* os_munmap, os_path_rwunlock, fclose, free: what there is to give back after success.
Release ==
    /\ call = None /\ result = TRUE /\ held # {} /\ held' = {}
    /\ UNCHANGED <<call, effects, twice, result>>

Next == (\E name \in DOMAIN Functions : Call(name)) \/ Succeed \/ Fail \/ Return \/ Release

Spec == Init /\ [][Next]_vars

-----------------------------------------------------------------------------
(* Properties *)

\* Whichever step is refused, a failed call leaves nothing behind; one that
\* succeeds leaves what it returns and nothing else.
NothingIsLeaked ==
    /\ call = None /\ result = FALSE => held = {}
    /\ Finished => held = Current.keeps

\* Nothing is given back twice or after something else owns it: not the handle
\* that a descriptor has taken over, nor the descriptor of a stream.
NothingIsReleasedTwice == ~twice

\* os_fopen_private_write empties a file only once it is known to be a regular
\* one and nobody else may read it: no step of several that fails leaves an
\* emptied file with its old permissions.
EmptiedWhenPrivate == "emptied" \in effects => {"regular", "private"} \subseteq effects
=============================================================================
