--------------------------- MODULE ThreadHandles ---------------------------
(***************************************************************************)
(* Threads of src/thread.c: thread_create hands a small piece of memory    *)
(* with the function and its argument to the new thread, which frees it;   *)
(* thread_join and thread_detach give the handle up.  One owner creates,   *)
(* joins and detaches; the threads run on their own.  On Unix a thread is  *)
(* joined or detached once, as pthread asks; on Windows *thread tells that *)
(* it was, and further calls fail.                                         *)
(***************************************************************************)
EXTENDS Integers, FiniteSets

CONSTANTS
    Threads,
    Results,       \* what thread functions return
    Failed         \* nothing was stored by thread_join

VARIABLES
    windows,       \* which of the two implementations
    info,          \* of each thread: "none", "allocated" or "freed"
    child,         \* of each thread: "none", "new", "running" or "ended"
    returned,      \* what its function returned
    handle,        \* *thread: "null", "open", or "stale" once pthread has it back
    kernel,        \* handles of it that the system keeps open
    result         \* what thread_join stored

vars == <<windows, info, child, returned, handle, kernel, result>>

Init ==
    /\ windows \in BOOLEAN
    /\ info = [t \in Threads |-> "none"] /\ child = [t \in Threads |-> "none"]
    /\ returned = [t \in Threads |-> 0] /\ result = [t \in Threads |-> Failed]
    /\ handle = [t \in Threads |-> "null"] /\ kernel = [t \in Threads |-> 0]

\* thread_create; without memory nothing changes.
Create(t) ==
    /\ child[t] = "none" /\ info[t] = "none"
    /\ info' = [info EXCEPT ![t] = "allocated"]
    /\ child' = [child EXCEPT ![t] = "new"]
    /\ handle' = [handle EXCEPT ![t] = "open"] /\ kernel' = [kernel EXCEPT ![t] = 1]
    /\ UNCHANGED <<windows, returned, result>>

\* The system refuses the thread: the memory is freed by the creator.
CreateFails(t) ==
    /\ child[t] = "none" /\ info[t] = "none"
    /\ info' = [info EXCEPT ![t] = "freed"]
    /\ UNCHANGED <<windows, child, returned, handle, kernel, result>>

\* __thread_wrapper__ takes what it needs and frees the memory.
Wrapper(t) ==
    /\ child[t] = "new" /\ info[t] = "allocated"
    /\ child' = [child EXCEPT ![t] = "running"] /\ info' = [info EXCEPT ![t] = "freed"]
    /\ UNCHANGED <<windows, returned, handle, kernel, result>>

\* The function returns, or calls thread_exit and the result is 0.
End(t) ==
    /\ child[t] = "running" /\ child' = [child EXCEPT ![t] = "ended"]
    /\ \E r \in Results \cup {0} : returned' = [returned EXCEPT ![t] = r]
    /\ UNCHANGED <<windows, info, handle, kernel, result>>

\* pthread_join and WaitForSingleObject return.
MayJoin(t) == handle[t] = "open" /\ child[t] = "ended"

\* The handle is given back, and on Windows cleared.
Closed(t) ==
    /\ handle' = [handle EXCEPT ![t] = IF windows THEN "null" ELSE "stale"]
    /\ kernel' = [kernel EXCEPT ![t] = @ - 1]

\* thread_join; on Windows the result may not be had, and the handle not closed.
Join(t) ==
    /\ MayJoin(t)
    /\ \/ Closed(t) /\ result' = [result EXCEPT ![t] = returned[t]]
       \/ windows /\ Closed(t) /\ UNCHANGED result
       \/ windows /\ UNCHANGED <<handle, kernel>> /\ result' = [result EXCEPT ![t] = returned[t]]
    /\ UNCHANGED <<windows, info, child, returned>>

\* thread_detach.
Detach(t) ==
    /\ handle[t] = "open" /\ Closed(t)
    /\ UNCHANGED <<windows, info, child, returned, result>>

Next ==
    \E t \in Threads :
        Create(t) \/ CreateFails(t) \/ Wrapper(t) \/ End(t) \/ Join(t) \/ Detach(t)

Spec == Init /\ [][Next]_vars

-----------------------------------------------------------------------------
(* Properties *)

\* The result that thread_join stores is the one of the thread's function.
JoinGivesTheResult ==
    \A t \in Threads : result[t] # Failed => child[t] = "ended" /\ result[t] = returned[t]

\* The system's handle is closed once, and stays open exactly as long as *thread
\* can be joined or detached: also after a join that failed.
HandlesAreClosedOnce ==
    \A t \in Threads : kernel[t] = (IF handle[t] = "open" THEN 1 ELSE 0)

\* The memory of thread_create is there until the thread starts, even after it was
\* detached, and is freed by the thread then, or by the creator if there is no thread.
StartMemoryIsFreed == \A t \in Threads : info[t] = "allocated" <=> child[t] = "new"
=============================================================================
