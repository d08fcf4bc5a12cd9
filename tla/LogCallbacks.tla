---------------------------- MODULE LogCallbacks ----------------------------
(***************************************************************************)
(* The synchronous logger, src/log.c: a table of callbacks, a lock that    *)
(* the program may configure, and threads that log.  async_log.c keeps the *)
(* same table and lock.                                                    *)
(*                                                                         *)
(* The functions that configure take no lock, and nothing in log.h says    *)
(* that they may run while another thread logs: here the program calls     *)
(* them when no thread is inside the logger.  Callback k is the k-th that  *)
(* is added, function k with context k; 0 is NULL.                         *)
(***************************************************************************)
EXTENDS Integers, Sequences, FiniteSets

CONSTANTS
    Threads,
    MaxCallbacks,      \* MAX_CALLBACKS
    MaxAdded,          \* bound: callbacks that the program adds
    MaxMessages,       \* bound: messages of a thread
    NoLock, Free       \* values of lock: not configured, and not held

LogAssumption ==
    /\ MaxCallbacks \in Nat \ {0} /\ MaxAdded \in Nat /\ MaxMessages \in Nat
    /\ {NoLock, Free} \cap Threads = {} /\ NoLock # Free

Slots == 1 .. MaxCallbacks

VARIABLES
    slot,          \* _LogLock.callback
    mode,          \* _LogLock.mode: nothing on the terminal
    lock,          \* NoLock, Free, or the holder of the program's lock
    at,            \* what each thread does
    sent,          \* messages a thread has begun
    added,         \* history: how many callbacks the program added
    known,         \* history: how many of them when a thread began its last message
    lines          \* history: what was printed and what callbacks got

vars == <<slot, mode, lock, at, sent, added, known, lines>>

Idle == [pc |-> "idle"]
Go(t, s) == at' = [at EXCEPT ![t] = s]

Init ==
    /\ slot = [n \in Slots |-> [func |-> 0, ctx |-> 0]]
    /\ mode \in {0, 1} /\ lock = NoLock /\ at = [t \in Threads |-> Idle]
    /\ sent = [t \in Threads |-> 0] /\ added = 0
    /\ known = [t \in Threads |-> 0] /\ lines = <<>>

-----------------------------------------------------------------------------
(* Configuration *)

NobodyLogs == \A t \in Threads : at[t] = Idle

\* log_setting
Setting ==
    /\ NobodyLogs /\ mode' = 1 - mode
    /\ UNCHANGED <<slot, lock, at, sent, added, known, lines>>

\* log_config_thread_lock
ConfigLock ==
    /\ NobodyLogs /\ lock = NoLock /\ lock' = Free
    /\ UNCHANGED <<slot, mode, at, sent, added, known, lines>>

\* Line 29: the first slot without a function.
FreeSlot(n) == slot[n].func = 0 /\ \A m \in Slots : m < n => slot[m].func # 0

\* log_add_callback: nothing happens when there is no free slot.
AddCallback ==
    /\ NobodyLogs /\ added < MaxAdded /\ added' = added + 1
    /\ slot' = [n \in Slots |-> IF FreeSlot(n) THEN [func |-> added', ctx |-> added'] ELSE slot[n]]
    /\ UNCHANGED <<mode, lock, at, sent, known, lines>>

-----------------------------------------------------------------------------
(* __log_print__ *)

\* Lines 81 to 83.
Taken(t) == IF lock = NoLock THEN NoLock ELSE t

\* Line 51.
Enter(t) ==
    /\ at[t] = Idle /\ sent[t] < MaxMessages /\ lock \in {NoLock, Free}
    /\ lock' = Taken(t)
    /\ sent' = [sent EXCEPT ![t] = @ + 1] /\ known' = [known EXCEPT ![t] = added]
    /\ Go(t, [pc |-> "print"])
    /\ UNCHANGED <<slot, mode, added, lines>>

Line(t, func, ctx) == 
    Append(lines, [by |-> t, message |-> sent[t], func |-> func, ctx |-> ctx, locked |-> lock # NoLock])

\* Lines 53 to 58.
PrintToTerminal(t) ==
    /\ at[t].pc = "print"
    /\ lines' = (IF mode = 0 THEN Line(t, 0, 0) ELSE lines)
    /\ Go(t, [pc |-> "test", n |-> 1])
    /\ UNCHANGED <<slot, mode, lock, sent, added, known>>

\* Leaves the last slot out.
Faulty_HasCallback(n) == n < MaxCallbacks /\ slot[n].func # 0

\* Line 60.
HasCallback(n) == n \in Slots /\ slot[n].func # 0

\* Lines 60 to 62: the context is read.
ReadContext(t) ==
    /\ at[t].pc = "test" /\ HasCallback(at[t].n)
    /\ Go(t, [pc |-> "call", n |-> at[t].n, ctx |-> slot[at[t].n].ctx])
    /\ UNCHANGED <<slot, mode, lock, sent, added, known, lines>>

\* Line 64: the function is read, and called.
CallBack(t) ==
    /\ at[t].pc = "call" /\ lines' = Line(t, slot[at[t].n].func, at[t].ctx)
    /\ Go(t, [pc |-> "test", n |-> at[t].n + 1])
    /\ UNCHANGED <<slot, mode, lock, sent, added, known>>

\* Line 68.
Leave(t) ==
    /\ at[t].pc = "test" /\ ~HasCallback(at[t].n)
    /\ lock' = (IF lock = NoLock THEN NoLock ELSE Free) /\ Go(t, Idle)
    /\ UNCHANGED <<slot, mode, sent, added, known, lines>>

-----------------------------------------------------------------------------
Next ==
    \/ Setting \/ ConfigLock \/ AddCallback
    \/ \E t \in Threads : Enter(t) \/ PrintToTerminal(t) \/ ReadContext(t) \/ CallBack(t) \/ Leave(t)

Spec == Init /\ [][Next]_vars

-----------------------------------------------------------------------------
(* Properties *)

Same(x, y) == x.by = y.by /\ x.message = y.message

\* The lines of a message logged under the program's lock stand together, whichever
\* threads log at the same time.
MessagesStandTogether ==
    \A i, j, k \in 1 .. Len(lines) :
        i < j /\ j < k /\ lines[i].locked /\ Same(lines[i], lines[k]) => Same(lines[i], lines[j])

\* The lines by which callbacks got the last message of a thread are those of the first m
\* callbacks: each once, in the order of their addition and with its own context.
Delivered(t, m) ==
    LET mine == {i \in 1 .. Len(lines) :
                    lines[i].by = t /\ lines[i].message = sent[t] /\ lines[i].func # 0}
    IN  /\ \A i \in mine : lines[i].func \in 1 .. m /\ lines[i].ctx = lines[i].func
        /\ \A k \in 1 .. m : \E i \in mine : lines[i].func = k
        /\ \A i, j \in mine : i < j => lines[i].func < lines[j].func

\* Each message reaches the callbacks the program had added before it, as many as
\* there are slots for, once it is out.
EachMessageReachesAll ==
    \A t \in Threads :
        at[t] = Idle =>
            Delivered(t, IF known[t] < MaxCallbacks THEN known[t] ELSE MaxCallbacks)
=============================================================================
