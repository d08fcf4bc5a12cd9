------------------------- MODULE SystemParts_proofs -------------------------
(***************************************************************************)
(* Proofs about the parts of SystemParts, for every value of the constants *)
(*                                                                         *)
(* Handles: the properties are inductive.                                  *)
(*                                                                         *)
(* Logger: how far a thread is with its message says which callbacks have  *)
(* got it; nothing is configured meanwhile, and under a lock only the      *)
(* thread that has it adds lines.                                          *)
(*                                                                         *)
(* Resources: for each function there are sets, what it holds before each  *)
(* of its steps, that the steps lead from one to the next and that the     *)
(* error path of each step gives back entirely.                            *)
(*                                                                         *)
(* Directories: the set of nodes that were inside is closed under the tree *)
(* as it is, so what lies in an open directory is in it.  An entry of the  *)
(* start that is neither gone nor moved is still there, so the call has it *)
(* still to come, or to remove, or has failed.                             *)
(*                                                                         *)
(* Paths: a walk ends within its steps, since each takes a component or    *)
(* follows one of the links that are left; so a path resolves to one step  *)
(* from what is above it.  Files that come and go change no walk to a      *)
(* directory, so the parent that the second look finds is the one that the *)
(* first would have found.                                                 *)
(***************************************************************************)
EXTENDS SystemParts, Recursion, FiniteSetTheorems, SequenceTheorems

-----------------------------------------------------------------------------
(* Threads and their handles *)

HandleInd ==
    /\ info \in [Threads -> {"none", "allocated", "freed"}]
    /\ child \in [Threads -> {"none", "new", "running", "ended"}]
    /\ handle \in [Threads -> {"null", "open", "stale"}]
    /\ kernel \in [Threads -> Int]
    /\ DOMAIN returned = Threads /\ DOMAIN joined = Threads
    /\ Handle!HandlesAreClosedOnce /\ Handle!StartMemoryIsFreed /\ Handle!JoinGivesTheResult

\* Nothing is known of a thread before it is created, so the three properties and the
\* types are inductive.
LEMMA HandleInitHolds == ASSUME Handle!Init PROVE HandleInd
BY DEF Handle!Init, HandleInd, Handle!HandlesAreClosedOnce, Handle!StartMemoryIsFreed,
       Handle!JoinGivesTheResult

\* thread_create
LEMMA HandleCreateKeeps ==
    ASSUME HandleInd, NEW t \in Threads, Handle!Create(t) \/ Handle!CreateFails(t)
    PROVE  HandleInd'
BY DEF HandleInd, Handle!Create, Handle!CreateFails, Handle!HandlesAreClosedOnce,
       Handle!StartMemoryIsFreed, Handle!JoinGivesTheResult

\* the thread
LEMMA HandleThreadKeeps ==
    ASSUME HandleInd, NEW t \in Threads, Handle!Wrapper(t) \/ Handle!End(t)
    PROVE  HandleInd'
BY DEF HandleInd, Handle!Wrapper, Handle!End, Handle!HandlesAreClosedOnce,
       Handle!StartMemoryIsFreed, Handle!JoinGivesTheResult

\* thread_join and thread_detach
LEMMA HandleCloseKeeps ==
    ASSUME HandleInd, NEW t \in Threads, Handle!Join(t) \/ Handle!Detach(t)
    PROVE  HandleInd'
BY DEF HandleInd, Handle!Join, Handle!MayJoin, Handle!Detach, Handle!Closed,
       Handle!HandlesAreClosedOnce, Handle!StartMemoryIsFreed, Handle!JoinGivesTheResult

\* Together.
LEMMA HandleNextKeeps == ASSUME HandleInd, Handle!Next PROVE HandleInd'
BY HandleCreateKeeps, HandleThreadKeeps, HandleCloseKeeps DEF Handle!Next

-----------------------------------------------------------------------------
(* The synchronous logger *)

\* Line i is one by which a callback got message x of thread t.
IsMine(s, i, t, x) == s[i].by = t /\ s[i].message = x /\ s[i].func # 0

\* The first m callbacks have got it, each once and in order.
Complete(s, t, x, m) ==
    /\ \A i \in 1 .. Len(s) : IsMine(s, i, t, x) => s[i].func \in 1 .. m /\ s[i].ctx = s[i].func
    /\ \A k \in 1 .. m : \E i \in 1 .. Len(s) : IsMine(s, i, t, x) /\ s[i].func = k
    /\ \A i, j \in 1 .. Len(s) :
          IsMine(s, i, t, x) /\ IsMine(s, j, t, x) /\ i < j => s[i].func < s[j].func

\* A line more.
Grown(s, r, l) ==
    /\ Len(s) \in Nat /\ Len(r) = Len(s) + 1 /\ r[Len(r)] = l
    /\ \A i \in 1 .. Len(s) : r[i] = s[i]

Together(s) ==
    \A i, j, k \in 1 .. Len(s) :
        i < j /\ j < k /\ s[i].locked /\ Log!Same(s[i], s[k]) => Log!Same(s[i], s[j])

\* From its first line on, all lines are of message x of thread t.
AtTheEnd(s, t, x) ==
    \A i, j \in 1 .. Len(s) :
        i < j /\ s[i].by = t /\ s[i].message = x => s[j].by = t /\ s[j].message = x

Lines == [by : Threads, message : Nat, func : Nat, ctx : Nat, locked : BOOLEAN]

LogTypes ==
    /\ DOMAIN slot = Log!Slots /\ mode \in {0, 1} /\ lock \in {NoLock, Free} \cup Threads
    /\ sent \in [Threads -> Nat] /\ known \in [Threads -> Nat] /\ added \in Nat
    /\ DOMAIN at = Threads /\ lines \in Seq(Lines)

\* Callback k is in slot k.
SlotsFilled ==
    \A n \in Log!Slots :
        slot[n] = IF n <= added THEN [func |-> n, ctx |-> n] ELSE [func |-> 0, ctx |-> 0]

\* While a thread is inside nothing is configured, and it has the lock if there is one.
BusyAlone ==
    \A t \in Threads : at[t] # Log!Idle => known[t] = added /\ lock \in {NoLock, t}

\* Lines were printed for messages that were begun, and locked ones once there was a lock.
LinesAreOld ==
    \A i \in 1 .. Len(lines) :
        lines[i].message <= sent[lines[i].by] /\ (lines[i].locked => lock # NoLock)

\* How far a thread is with its message.
Progress(s, t, x) ==
    \/ at[t] = Log!Idle
       /\ Complete(s, t, x, IF known[t] < MaxCallbacks THEN known[t] ELSE MaxCallbacks)
    \/ at[t] = [pc |-> "print"] /\ Complete(s, t, x, 0)
    \/ \E n \in Nat \ {0} :
          /\ at[t] = [pc |-> "test", n |-> n] /\ n <= MaxCallbacks + 1 /\ n <= added + 1
          /\ Complete(s, t, x, n - 1)
    \/ \E n \in Log!Slots :
          at[t] = [pc |-> "call", n |-> n, ctx |-> n] /\ n <= added /\ Complete(s, t, x, n - 1)

LogInd ==
    /\ LogTypes /\ SlotsFilled /\ BusyAlone /\ LinesAreOld
    /\ \A t \in Threads : Progress(lines, t, sent[t])
    /\ \A t \in Threads : at[t] # Log!Idle /\ lock = t => AtTheEnd(lines, t, sent[t])
    /\ Together(lines)

\* Append adds a line.
LEMMA GrownByAppend ==
    ASSUME NEW S, NEW s \in Seq(S), NEW l \in S
    PROVE  Append(s, l) \in Seq(S) /\ Grown(s, Append(s, l), l)
BY DEF Grown

\* A line of another message changes nothing, nor does one that no callback got;
LEMMA CompleteStays ==
    ASSUME NEW s, NEW r, NEW l, Grown(s, r, l), NEW t, NEW x, NEW m, Complete(s, t, x, m),
           l.by # t \/ l.message # x \/ l.func = 0
    PROVE  Complete(r, t, x, m)
<1>1. \A i \in 1 .. Len(r) : (i \in 1 .. Len(s) /\ r[i] = s[i]) \/ (i = Len(r) /\ r[i] = l)
  BY DEF Grown
<1>2. \A i \in 1 .. Len(r) : 
        IsMine(r, i, t, x) => i \in 1 .. Len(s) /\ r[i] = s[i] /\ IsMine(s, i, t, x)
  BY <1>1 DEF IsMine
<1>3. \A i \in 1 .. Len(s) :
        i \in 1 .. Len(r) /\ r[i] = s[i] /\ (IsMine(s, i, t, x) => IsMine(r, i, t, x))
  BY DEF Grown, IsMine
<1> QED BY <1>2, <1>3 DEF Complete

\* and the line of the next callback makes one more.
LEMMA CompleteNext ==
    ASSUME NEW s, NEW r, NEW l, Grown(s, r, l), NEW t, NEW x, NEW m \in Nat,
           Complete(s, t, x, m), l.by = t, l.message = x, l.func = m + 1, l.ctx = m + 1
    PROVE  Complete(r, t, x, m + 1)
<1>1. \A i \in 1 .. Len(r) : (i \in 1 .. Len(s) /\ r[i] = s[i]) \/ (i = Len(r) /\ r[i] = l)
  BY DEF Grown
<1>2. \A i \in 1 .. Len(s) :
        /\ i \in 1 .. Len(r) /\ r[i] = s[i] /\ i < Len(r)
        /\ IsMine(r, i, t, x) <=> IsMine(s, i, t, x)
  BY DEF Grown, IsMine
<1>3. Len(r) \in 1 .. Len(r) /\ r[Len(r)] = l /\ IsMine(r, Len(r), t, x)
  BY DEF Grown, IsMine
<1>4. ASSUME NEW i \in 1 .. Len(r), IsMine(r, i, t, x)
      PROVE  r[i].func \in 1 .. m + 1 /\ r[i].ctx = r[i].func
  BY <1>1, <1>2, <1>4 DEF Complete
<1>5. ASSUME NEW k \in 1 .. m + 1 PROVE \E i \in 1 .. Len(r) : IsMine(r, i, t, x) /\ r[i].func = k
  <2>1. CASE k = m + 1
    BY <1>3, <2>1
  <2>2. CASE k \in 1 .. m
    BY <1>2, <2>2 DEF Complete
  <2> QED BY <2>1, <2>2
<1>6. ASSUME NEW i \in 1 .. Len(r), NEW j \in 1 .. Len(r),
             IsMine(r, i, t, x), IsMine(r, j, t, x), i < j
      PROVE  r[i].func < r[j].func
  <2>1. i \in 1 .. Len(s)
    BY <1>1, <1>6 DEF Grown
  <2>2. CASE j \in 1 .. Len(s)
    BY <1>2, <1>6, <2>1, <2>2 DEF Complete
  <2>3. CASE r[j] = l
    <3>1. s[i].func \in 1 .. m
      BY <1>2, <1>6, <2>1 DEF Complete
    <3> QED BY <1>2, <2>1, <2>3, <3>1
  <2> QED BY <1>1, <2>2, <2>3
<1> QED BY <1>4, <1>5, <1>6 DEF Complete

\* A line of the thread whose lines are the last keeps them together.
LEMMA TogetherStays ==
    ASSUME NEW s, NEW r, NEW l, Grown(s, r, l), Together(s),
           \A i \in 1 .. Len(s) : s[i].locked /\ Log!Same(s[i], l) => AtTheEnd(s, l.by, l.message)
    PROVE  Together(r)
<1> SUFFICES ASSUME NEW i \in 1 .. Len(r), NEW j \in 1 .. Len(r), NEW k \in 1 .. Len(r),
                    i < j, j < k, r[i].locked, Log!Same(r[i], r[k])
             PROVE  Log!Same(r[i], r[j])
  BY DEF Together
<1>1. i \in 1 .. Len(s) /\ j \in 1 .. Len(s) /\ r[i] = s[i] /\ r[j] = s[j]
  BY DEF Grown
<1>2. CASE k \in 1 .. Len(s)
  BY <1>1, <1>2 DEF Together, Grown
<1>3. CASE r[k] = l
  BY <1>1, <1>3 DEF AtTheEnd, Log!Same
<1> QED BY <1>2, <1>3 DEF Grown

\* A line more of the message that is last keeps it last.
LEMMA AtTheEndStays ==
    ASSUME NEW s, NEW r, NEW l, Grown(s, r, l), AtTheEnd(s, l.by, l.message)
    PROVE  AtTheEnd(r, l.by, l.message)
BY DEF AtTheEnd, Grown

\* The places of a thread are different ones.
LEMMA Places ==
    ASSUME NEW n, NEW m
    PROVE  /\ Log!Idle # [pc |-> "print"] /\ Log!Idle # [pc |-> "test", n |-> n]
           /\ Log!Idle # [pc |-> "call", n |-> n, ctx |-> m]
<1>1. /\ Log!Idle.pc = "idle" /\ [pc |-> "print"].pc = "print"
      /\ [pc |-> "test", n |-> n].pc = "test" /\ [pc |-> "call", n |-> n, ctx |-> m].pc = "call"
  BY DEF Log!Idle
<1> QED BY <1>1

\* The start.
LEMMA LogInitHolds == ASSUME Log!LogAssumption, Log!Init PROVE LogInd
<1>1. lines = <<>> /\ Len(lines) = 0 /\ lines \in Seq(Lines)
  BY DEF Log!Init
<1>2. \A t \in Threads : Progress(lines, t, sent[t])
  BY <1>1 DEF Log!Init, Log!LogAssumption, Progress, Complete
<1>3. LogTypes /\ BusyAlone /\ LinesAreOld
  BY <1>1 DEF Log!Init, LogTypes, BusyAlone, LinesAreOld
<1>4. SlotsFilled
  BY DEF Log!Init, SlotsFilled, Log!Slots, Log!LogAssumption
<1>5. AtTheEnd(lines, 0, 0) /\ Together(lines)
  BY <1>1 DEF AtTheEnd, Together
<1>6. \A t \in Threads : at[t] = Log!Idle
  BY DEF Log!Init
<1> QED BY <1>2, <1>3, <1>4, <1>5, <1>6 DEF LogInd

\* log_setting, log_config_thread_lock
LEMMA LogConfigKeeps ==
    ASSUME Log!LogAssumption, LogInd, Log!Setting \/ Log!ConfigLock
    PROVE  LogInd'
<1>1. /\ UNCHANGED <<slot, at, sent, added, known, lines>> /\ mode' \in {0, 1}
      /\ \A t \in Threads : at[t] = Log!Idle
      /\ lock' \in {lock, Free}
  BY DEF Log!Setting, Log!ConfigLock, Log!NobodyLogs, LogInd, LogTypes
<1>2. LogTypes' /\ SlotsFilled' /\ BusyAlone' /\ LinesAreOld'
  BY <1>1 DEF LogInd, LogTypes, SlotsFilled, BusyAlone, LinesAreOld, Log!LogAssumption
<1>3. \A t \in Threads : Progress(lines, t, sent[t])'
  BY <1>1 DEF LogInd, Progress
<1> QED BY <1>1, <1>2, <1>3 DEF LogInd

\* log_add_callback: the first slot without a function is the one after the last with one.
LEMMA LogAddKeeps ==
    ASSUME Log!LogAssumption, LogInd, Log!AddCallback
    PROVE  LogInd'
<1>1. /\ UNCHANGED <<mode, lock, at, sent, known, lines>> /\ added' = added + 1 /\ added \in Nat
      /\ \A t \in Threads : at[t] = Log!Idle
      /\ SlotsFilled
  BY DEF Log!AddCallback, Log!NobodyLogs, LogInd, LogTypes
<1>2. ASSUME NEW n \in Log!Slots PROVE Log!FreeSlot(n) <=> n = added + 1
  <2>1. n \in Nat /\ n >= 1 /\ \A m \in Log!Slots : slot[m].func = 0 <=> m > added
    <3>1. ASSUME NEW m \in Log!Slots PROVE slot[m].func = 0 <=> m > added
      <4>1. m \in Nat /\ m >= 1
        BY DEF Log!Slots
      <4>2. slot[m] = IF m <= added THEN [func |-> m, ctx |-> m] ELSE [func |-> 0, ctx |-> 0]
        BY <1>1 DEF SlotsFilled
      <4> QED BY <1>1, <4>1, <4>2
    <3> QED BY <3>1 DEF Log!Slots
  <2>2. CASE n > added + 1
    <3>1. added + 1 \in Log!Slots
      BY <1>1, <2>2 DEF Log!Slots, Log!LogAssumption
    <3> QED BY <1>1, <2>1, <2>2, <3>1 DEF Log!FreeSlot
  <2>3. CASE n <= added + 1
    BY <1>1, <2>1, <2>3 DEF Log!FreeSlot, Log!Slots
  <2> QED BY <1>1, <2>1, <2>2, <2>3
<1>3. SlotsFilled'
  <2>1. slot' = [n \in Log!Slots |-> IF Log!FreeSlot(n) THEN [func |-> added + 1, ctx |-> added + 1]
                                    ELSE slot[n]]
    BY <1>1 DEF Log!AddCallback
  <2>2. ASSUME NEW n \in Log!Slots
        PROVE  slot'[n] = IF n <= added + 1 THEN [func |-> n, ctx |-> n]
                           ELSE [func |-> 0, ctx |-> 0]
    <3>1. /\ n \in Nat
          /\ slot[n] = IF n <= added THEN [func |-> n, ctx |-> n] ELSE [func |-> 0, ctx |-> 0]
      BY <1>1 DEF SlotsFilled, Log!Slots
    <3> QED BY <1>1, <1>2, <2>1, <3>1
  <2> QED BY <1>1, <2>2 DEF SlotsFilled
<1>4. LogTypes' /\ BusyAlone' /\ LinesAreOld'
  BY <1>1 DEF LogInd, LogTypes, BusyAlone, LinesAreOld, Log!AddCallback
<1>5. \A t \in Threads : Progress(lines, t, sent[t])'
  <2>1. ASSUME NEW t \in Threads
        PROVE  Complete(lines, t, sent[t],
                        IF known[t] < MaxCallbacks THEN known[t] ELSE MaxCallbacks)
    <3>1. Progress(lines, t, sent[t]) /\ at[t] = Log!Idle
      BY <1>1 DEF LogInd
    <3> QED BY <3>1, Places DEF Progress
  <2> QED BY <1>1, <2>1 DEF Progress
<1> QED BY <1>1, <1>3, <1>4, <1>5 DEF LogInd

\* What changes for no other thread.
LEMMA OthersProgress ==
    ASSUME NEW t \in Threads, NEW u \in Threads, u # t, at'[u] = at[u], known'[u] = known[u],
           added' = added, NEW s, NEW r, NEW x, Progress(s, u, x),
           r = s \/ \E l : Grown(s, r, l) /\ l.by = t
    PROVE  Progress(r, u, x)'
<1>1. \A m : Complete(s, u, x, m) => Complete(r, u, x, m)
  BY CompleteStays
<1> QED BY <1>1 DEF Progress

\* The beginning of a message
LEMMA LogEnterKeeps ==
    ASSUME Log!LogAssumption, LogInd, NEW t \in Threads, Log!Enter(t)
    PROVE  LogInd'
<1>1. /\ at[t] = Log!Idle /\ lock \in {NoLock, Free}
      /\ lock' = IF lock = NoLock THEN NoLock ELSE t
      /\ sent' = [sent EXCEPT ![t] = @ + 1] /\ known' = [known EXCEPT ![t] = added]
      /\ at' = [at EXCEPT ![t] = [pc |-> "print"]]
      /\ UNCHANGED <<slot, mode, added, lines>>
  BY DEF Log!Enter, Log!Taken, Log!Go
<1>2. LogTypes /\ SlotsFilled /\ BusyAlone /\ LinesAreOld /\ Together(lines)
  BY DEF LogInd
<1>3. lines \in Seq(Lines) /\ \A i \in 1 .. Len(lines) : lines[i] \in Lines
  BY <1>2 DEF LogTypes
<1>4. \A i \in 1 .. Len(lines) : lines[i].by \in Threads /\ lines[i].message \in Nat
  BY <1>3 DEF Lines
<1>5. \A i \in 1 .. Len(lines) : lines[i].by = t => lines[i].message # sent[t] + 1
  BY <1>2, <1>4 DEF LinesAreOld, LogTypes
<1>6. LogTypes' /\ SlotsFilled' /\ LinesAreOld'
  BY <1>1, <1>2, <1>4 DEF LogTypes, SlotsFilled, LinesAreOld, Log!LogAssumption
<1>7. BusyAlone'
  BY <1>1, <1>2 DEF LogTypes, BusyAlone, Log!LogAssumption, Log!Idle
<1>8. ASSUME NEW u \in Threads PROVE Progress(lines, u, sent[u])'
  <2>1. CASE u = t
    <3>1. Complete(lines, t, sent[t] + 1, 0)
      BY <1>5 DEF Complete, IsMine
    <3>2. at'[u] = [pc |-> "print"] /\ sent'[u] = sent[t] + 1
      BY <1>1, <1>2, <2>1 DEF LogTypes
    <3> QED BY <1>1, <2>1, <3>1, <3>2 DEF Progress
  <2>2. CASE u # t
    <3>1. /\ at'[u] = at[u] /\ known'[u] = known[u] /\ sent'[u] = sent[u]
          /\ Progress(lines, u, sent[u])
      BY <1>1, <1>2, <2>2 DEF LogTypes, LogInd
    <3> QED BY <1>1, <2>2, <3>1, OthersProgress
  <2> QED BY <2>1, <2>2
<1>9. ASSUME NEW u \in Threads, at'[u] # Log!Idle, lock' = u
      PROVE  AtTheEnd(lines', u, sent'[u])
  <2>1. u = t /\ sent'[u] = sent[t] + 1
    BY <1>1, <1>2, <1>9 DEF LogTypes, Log!LogAssumption
  <2> QED BY <1>1, <1>5, <2>1 DEF AtTheEnd
<1>10. Together(lines)'
  BY <1>1, <1>2 DEF Together
<1> QED BY <1>6, <1>7, <1>8, <1>9, <1>10 DEF LogInd

\* A thread goes on inside, perhaps with a line of its message.
LEMMA InsideKeeps ==
    ASSUME Log!LogAssumption, LogInd, NEW t \in Threads, at[t] # Log!Idle,
           UNCHANGED <<slot, mode, lock, sent, added, known>>,
           NEW p, p # Log!Idle, Log!Go(t, p),
           \/ lines' = lines
           \/ \E f, c \in Nat : lines' = Log!Line(t, f, c),
           Progress(lines, t, sent[t])'
    PROVE  LogInd'
<1>1. LogTypes /\ SlotsFilled /\ BusyAlone /\ LinesAreOld /\ Together(lines)
  BY DEF LogInd
<1>2. /\ lines \in Seq(Lines) /\ at' = [at EXCEPT ![t] = p] /\ DOMAIN at = Threads
      /\ lock \in {NoLock, t} /\ sent[t] \in Nat /\ at'[t] = p
      /\ \A u \in Threads : u # t => at'[u] = at[u]
  BY <1>1 DEF LogTypes, Log!Go, BusyAlone
<1>3. PICK r \in Seq(Lines) :
         /\ lines' = r
         /\ \/ r = lines
            \/ \E l \in Lines : /\ Grown(lines, r, l) /\ l.by = t /\ l.message = sent[t]
                                /\ (l.locked => lock # NoLock)
  <2>1. CASE lines' = lines
    BY <1>2, <2>1
  <2>2. CASE \E f, c \in Nat : lines' = Log!Line(t, f, c)
    <3>1. PICK f \in Nat, c \in Nat : lines' = Log!Line(t, f, c)
      BY <2>2
    <3> DEFINE l == [by |-> t, message |-> sent[t], func |-> f, ctx |-> c, locked |-> lock # NoLock]
    <3>2. l \in Lines /\ l.by = t /\ l.message = sent[t] /\ (l.locked => lock # NoLock)
      BY <1>2 DEF Lines
    <3>3. lines' = Append(lines, l)
      BY <3>1 DEF Log!Line
    <3> HIDE DEF l
    <3> QED BY <1>2, <3>2, <3>3, GrownByAppend
  <2> QED BY <2>1, <2>2
<1>4. LogTypes' /\ SlotsFilled'
  BY <1>1, <1>2, <1>3 DEF LogTypes, SlotsFilled
<1>5. BusyAlone'
  BY <1>1, <1>2 DEF BusyAlone
<1>6. LinesAreOld'
  <2>1. CASE r = lines
    BY <1>1, <1>3, <2>1 DEF LinesAreOld
  <2>2. CASE \E l \in Lines : /\ Grown(lines, r, l) /\ l.by = t /\ l.message = sent[t]
                              /\ (l.locked => lock # NoLock)
    <3>1. PICK l \in Lines : /\ Grown(lines, r, l) /\ l.by = t /\ l.message = sent[t]
                             /\ (l.locked => lock # NoLock)
      BY <2>2
    <3>2. \A i \in 1 .. Len(r) : (i \in 1 .. Len(lines) /\ r[i] = lines[i]) \/ r[i] = l
      BY <3>1 DEF Grown
    <3> QED BY <1>1, <1>2, <1>3, <3>1, <3>2 DEF LinesAreOld
  <2> QED BY <1>3, <2>1, <2>2
<1>7. ASSUME NEW u \in Threads PROVE Progress(lines, u, sent[u])'
  <2>1. CASE u # t
    <3>1. Progress(lines, u, sent[u]) /\ at'[u] = at[u]
      BY <1>2, <2>1 DEF LogInd
    <3>2. Progress(r, u, sent[u])'
      BY <1>3, <2>1, <3>1, OthersProgress
    <3> QED BY <1>3, <3>2
  <2> QED BY <2>1
<1>8. ASSUME NEW u \in Threads, at'[u] # Log!Idle, lock' = u
      PROVE  AtTheEnd(lines', u, sent'[u])
  <2>1. u = t
    BY <1>1, <1>2, <1>8 DEF BusyAlone, Log!LogAssumption
  <2>2. AtTheEnd(lines, t, sent[t])
    BY <1>8, <2>1 DEF LogInd
  <2> QED BY <1>3, <2>1, <2>2, AtTheEndStays
<1>9. Together(lines)'
  <2>1. ASSUME NEW i \in 1 .. Len(lines), NEW l, l.by = t, l.message = sent[t],
               lines[i].locked, Log!Same(lines[i], l)
        PROVE  AtTheEnd(lines, l.by, l.message)
    <3>1. lock = t
      BY <1>1, <1>2, <2>1 DEF LinesAreOld
    <3> QED BY <2>1, <3>1 DEF LogInd
  <2> QED BY <1>1, <1>3, <2>1, TogetherStays
<1> QED BY <1>4, <1>5, <1>6, <1>7, <1>8, <1>9 DEF LogInd

\* What its place says of a thread,
LEMMA ProgressAt ==
    ASSUME LogInd, NEW t \in Threads
    PROVE  /\ at[t].pc = "print" => at[t] = [pc |-> "print"] /\ Complete(lines, t, sent[t], 0)
           /\ at[t].pc = "test" =>
                 \E n \in Nat \ {0} :
                    /\ at[t] = [pc |-> "test", n |-> n] /\ n <= MaxCallbacks + 1 /\ n <= added + 1
                    /\ Complete(lines, t, sent[t], n - 1)
           /\ at[t].pc = "call" =>
                 \E n \in Log!Slots :
                    /\ at[t] = [pc |-> "call", n |-> n, ctx |-> n] /\ n <= added
                    /\ Complete(lines, t, sent[t], n - 1)
<1>1. CASE at[t] = Log!Idle
  BY <1>1 DEF Log!Idle
<1>2. CASE at[t] = [pc |-> "print"] /\ Complete(lines, t, sent[t], 0)
  BY <1>2
<1>3. CASE \E n \in Nat \ {0} :
              /\ at[t] = [pc |-> "test", n |-> n] /\ n <= MaxCallbacks + 1 /\ n <= added + 1
              /\ Complete(lines, t, sent[t], n - 1)
  <2>1. at[t].pc = "test"
    BY <1>3
  <2> QED BY <1>3, <2>1
<1>4. CASE \E n \in Log!Slots :
              /\ at[t] = [pc |-> "call", n |-> n, ctx |-> n] /\ n <= added
              /\ Complete(lines, t, sent[t], n - 1)
  <2>1. at[t].pc = "call"
    BY <1>4
  <2> QED BY <1>4, <2>1
<1>5. Progress(lines, t, sent[t])
  BY DEF LogInd
<1> QED BY <1>1, <1>2, <1>3, <1>4, <1>5 DEF Progress

\* and what a slot has.
LEMMA SlotHas ==
    ASSUME LogInd, NEW n \in Log!Slots
    PROVE  /\ n \in Nat \ {0} /\ (n <= added <=> slot[n].func # 0)
           /\ n <= added => slot[n].func = n /\ slot[n].ctx = n
<1>1. n \in Nat \ {0} /\ added \in Nat
  BY DEF Log!Slots, LogInd, LogTypes
<1>2. slot[n] = IF n <= added THEN [func |-> n, ctx |-> n] ELSE [func |-> 0, ctx |-> 0]
  BY DEF LogInd, SlotsFilled
<1> QED BY <1>1, <1>2

\* The line on the terminal,
LEMMA LogPrintKeeps ==
    ASSUME Log!LogAssumption, LogInd, NEW t \in Threads, Log!PrintToTerminal(t)
    PROVE  LogInd'
<1>1. /\ at[t].pc = "print" /\ Log!Go(t, [pc |-> "test", n |-> 1])
      /\ UNCHANGED <<slot, mode, lock, sent, added, known>>
      /\ lines' = lines \/ lines' = Log!Line(t, 0, 0)
  BY DEF Log!PrintToTerminal
<1>2. at[t] = [pc |-> "print"] /\ Complete(lines, t, sent[t], 0)
  BY <1>1, ProgressAt
<1>3. Complete(lines', t, sent[t], 0)
  <2>1. CASE lines' = Log!Line(t, 0, 0)
    <3> DEFINE l == [by |-> t, message |-> sent[t], func |-> 0, ctx |-> 0, locked |-> lock # NoLock]
    <3>1. lines' = Append(lines, l) /\ l.func = 0 /\ l \in Lines /\ lines \in Seq(Lines)
      BY <2>1 DEF Log!Line, Lines, LogInd, LogTypes
    <3> HIDE DEF l
    <3>2. Grown(lines, lines', l)
      BY <3>1, GrownByAppend
    <3> QED BY <1>2, <3>1, <3>2, CompleteStays
  <2> QED BY <1>1, <1>2, <2>1
<1>4. at'[t] = [pc |-> "test", n |-> 1] /\ added \in Nat
  BY <1>1 DEF Log!Go, LogInd, LogTypes
<1>5. Progress(lines, t, sent[t])'
  <2>1. /\ 1 \in Nat \ {0} /\ 1 <= MaxCallbacks + 1 /\ 1 <= added + 1 /\ 1 - 1 = 0
    BY <1>4 DEF Log!LogAssumption
  <2> QED BY <1>1, <1>3, <1>4, <2>1 DEF Progress
<1>6. at[t] # Log!Idle /\ [pc |-> "test", n |-> 1] # Log!Idle
  BY <1>2, Places
<1> QED BY <1>1, <1>5, <1>6, InsideKeeps

\* the next callback's context,
LEMMA LogReadKeeps ==
    ASSUME Log!LogAssumption, LogInd, NEW t \in Threads, Log!ReadContext(t)
    PROVE  LogInd'
<1>1. /\ at[t].pc = "test" /\ at[t].n \in Log!Slots /\ slot[at[t].n].func # 0
      /\ Log!Go(t, [pc |-> "call", n |-> at[t].n, ctx |-> slot[at[t].n].ctx])
      /\ UNCHANGED <<slot, mode, lock, sent, added, known, lines>>
  BY DEF Log!ReadContext, Log!HasCallback
<1>2. PICK n \in Nat \ {0} : at[t] = [pc |-> "test", n |-> n] /\ Complete(lines, t, sent[t], n - 1)
  BY <1>1, ProgressAt
<1>3. n \in Log!Slots /\ n <= added /\ slot[n].ctx = n
  BY <1>1, <1>2, SlotHas
<1>4. at'[t] = [pc |-> "call", n |-> n, ctx |-> n]
  BY <1>1, <1>2, <1>3 DEF Log!Go, LogInd, LogTypes
<1>5. Progress(lines, t, sent[t])'
  BY <1>1, <1>2, <1>3, <1>4 DEF Progress
<1>6. at[t] # Log!Idle /\ [pc |-> "call", n |-> n, ctx |-> n] # Log!Idle
  BY <1>2, Places
<1> QED BY <1>1, <1>2, <1>3, <1>5, <1>6, InsideKeeps

\* and its call.
LEMMA LogCallKeeps ==
    ASSUME Log!LogAssumption, LogInd, NEW t \in Threads, Log!CallBack(t)
    PROVE  LogInd'
<1>1. /\ at[t].pc = "call" /\ lines' = Log!Line(t, slot[at[t].n].func, at[t].ctx)
      /\ Log!Go(t, [pc |-> "test", n |-> at[t].n + 1])
      /\ UNCHANGED <<slot, mode, lock, sent, added, known>>
  BY DEF Log!CallBack
<1>2. PICK n \in Log!Slots : /\ at[t] = [pc |-> "call", n |-> n, ctx |-> n] /\ n <= added
                             /\ Complete(lines, t, sent[t], n - 1)
  BY <1>1, ProgressAt
<1>3. slot[n].func = n /\ n \in Nat \ {0} /\ n - 1 \in Nat /\ (n - 1) + 1 = n
  BY <1>2, SlotHas
<1>4. lines' = Log!Line(t, n, n)
  BY <1>1, <1>2, <1>3
<1>5. Complete(lines', t, sent[t], n)
  <2> DEFINE l == [by |-> t, message |-> sent[t], func |-> n, ctx |-> n, locked |-> lock # NoLock]
  <2>1. /\ lines' = Append(lines, l) /\ l \in Lines /\ lines \in Seq(Lines)
        /\ l.by = t /\ l.message = sent[t] /\ l.func = (n - 1) + 1 /\ l.ctx = (n - 1) + 1
    BY <1>3, <1>4 DEF Log!Line, Lines, LogInd, LogTypes
  <2> HIDE DEF l
  <2>2. Grown(lines, lines', l)
    BY <2>1, GrownByAppend
  <2>3. Complete(lines', t, sent[t], (n - 1) + 1)
    BY <1>2, <1>3, <2>1, <2>2, CompleteNext
  <2> QED BY <1>3, <2>3
<1>6. at'[t] = [pc |-> "test", n |-> n + 1]
  BY <1>1, <1>2 DEF Log!Go, LogInd, LogTypes
<1>7. Progress(lines, t, sent[t])'
  <2>1. n + 1 \in Nat \ {0} /\ n + 1 <= MaxCallbacks + 1 /\ n + 1 <= added + 1 /\ (n + 1) - 1 = n
    BY <1>2, <1>3 DEF Log!Slots, Log!LogAssumption, LogInd, LogTypes
  <2> QED BY <1>1, <1>5, <1>6, <2>1 DEF Progress
<1>8. at[t] # Log!Idle /\ [pc |-> "test", n |-> n + 1] # Log!Idle
  BY <1>2, Places
<1> QED BY <1>1, <1>2, <1>3, <1>4, <1>7, <1>8, InsideKeeps

\* The end of a message: the thread has come to the first slot without a function.
LEMMA LogLeaveKeeps ==
    ASSUME Log!LogAssumption, LogInd, NEW t \in Threads, Log!Leave(t)
    PROVE  LogInd'
<1>1. /\ at[t].pc = "test" /\ ~(at[t].n \in Log!Slots /\ slot[at[t].n].func # 0)
      /\ lock' = (IF lock = NoLock THEN NoLock ELSE Free) /\ at' = [at EXCEPT ![t] = Log!Idle]
      /\ UNCHANGED <<slot, mode, sent, added, known, lines>>
  BY DEF Log!Leave, Log!HasCallback, Log!Go
<1>2. LogTypes /\ SlotsFilled /\ BusyAlone /\ LinesAreOld /\ Together(lines)
  BY DEF LogInd
<1>3. PICK n \in Nat \ {0} : /\ at[t] = [pc |-> "test", n |-> n] /\ n <= MaxCallbacks + 1
                             /\ n <= added + 1 /\ Complete(lines, t, sent[t], n - 1)
  BY <1>1, ProgressAt
<1>4. known[t] = added /\ lock \in {NoLock, t} /\ added \in Nat
  BY <1>2, <1>3, Places DEF BusyAlone, LogTypes
<1>5. n - 1 = IF added < MaxCallbacks THEN added ELSE MaxCallbacks
  <2>1. CASE n \in Log!Slots
    <3>1. slot[n].func = 0
      BY <1>1, <1>3, <2>1
    <3>2. n > added
      BY <1>3, <1>4, <2>1, <3>1, SlotHas
    <3> QED BY <1>3, <1>4, <2>1, <3>2 DEF Log!Slots, Log!LogAssumption
  <2>2. CASE n = MaxCallbacks + 1
    BY <1>3, <1>4, <2>2 DEF Log!LogAssumption
  <2> QED BY <1>3, <2>1, <2>2 DEF Log!Slots, Log!LogAssumption
<1>6. at'[t] = Log!Idle /\ \A u \in Threads : u # t => at'[u] = at[u]
  BY <1>1, <1>2 DEF LogTypes
<1>7. LogTypes' /\ SlotsFilled' /\ LinesAreOld'
  BY <1>1, <1>2 DEF LogTypes, SlotsFilled, LinesAreOld, Log!LogAssumption
<1>8. BusyAlone'
  BY <1>1, <1>2, <1>4, <1>6 DEF BusyAlone, Log!LogAssumption
<1>9. ASSUME NEW u \in Threads PROVE Progress(lines, u, sent[u])'
  <2>1. CASE u = t
    BY <1>1, <1>3, <1>4, <1>5, <1>6, <2>1 DEF Progress
  <2>2. CASE u # t
    <3>1. Progress(lines, u, sent[u])
      BY DEF LogInd
    <3> QED BY <1>1, <1>6, <2>2, <3>1, OthersProgress
  <2> QED BY <2>1, <2>2
<1>10. ASSUME NEW u \in Threads PROVE lock' # u
  BY <1>1, <1>2 DEF LogTypes, Log!LogAssumption
<1>11. Together(lines)'
  BY <1>1, <1>2 DEF Together
<1> QED BY <1>7, <1>8, <1>9, <1>10, <1>11 DEF LogInd

\* Together.
LEMMA LogNextKeeps == ASSUME Log!LogAssumption, LogInd, Log!Next PROVE LogInd'
BY LogConfigKeeps, LogAddKeeps, LogEnterKeeps, LogPrintKeeps, LogReadKeeps, LogCallKeeps,
   LogLeaveKeeps
   DEF Log!Next

\* The invariant says what the properties do.
LEMMA LogIndHolds ==
    ASSUME LogInd
    PROVE  Log!EachMessageReachesAll /\ Log!MessagesStandTogether
<1>1. Log!MessagesStandTogether
  BY DEF LogInd, Together, Log!MessagesStandTogether
<1>2. ASSUME NEW t \in Threads, at[t] = Log!Idle
      PROVE  Log!Delivered(t, IF known[t] < MaxCallbacks THEN known[t] ELSE MaxCallbacks)
  <2>1. PICK m : /\ m = IF known[t] < MaxCallbacks THEN known[t] ELSE MaxCallbacks
                 /\ Complete(lines, t, sent[t], m)
    BY <1>2, Places DEF LogInd, Progress
  <2>2. Log!Delivered(t, m)
    BY <2>1 DEF Complete, IsMine, Log!Delivered
  <2> QED BY <2>1, <2>2
<1> QED BY <1>1, <1>2 DEF Log!EachMessageReachesAll

-----------------------------------------------------------------------------
(* Resources *)

\* A file is emptied only once it is private.
Private(b) == "emptied" \in b => {"regular", "private"} \subseteq b

\* A step that is sound from these things held and these effects on to those.
SoundStep(s, from, to, before, after) ==
    /\ s.loses \subseteq from /\ to = (from \ s.loses) \cup s.gets /\ after = before \cup s.does
    /\ Resource!MayFail(s) => s.undo = from
    /\ s.loop => to = from /\ after = before
    /\ Private(before) /\ Private(after)

\* What a call of function f holds, and has done, before each step.
SoundBy(f, h, e) ==
    /\ Len(f.steps) \in Nat /\ h[1] = {} /\ e[1] = {} /\ h[Len(f.steps) + 1] = f.keeps
    /\ \A k \in 1 .. Len(f.steps) : SoundStep(f.steps[k], h[k], h[k + 1], e[k], e[k + 1])

Sound(f) == \E h, e : SoundBy(f, h, e)

\* The kinds of steps.
LEMMA GetSound ==
    ASSUME NEW from, NEW gets, NEW to, to = from \cup gets, NEW b, Private(b)
    PROVE  SoundStep(Resource!Get(gets, from), from, to, b, b)
BY DEF SoundStep, Resource!Get, Resource!MayFail

LEMMA TestSound ==
    ASSUME NEW from, NEW b, Private(b)
    PROVE  SoundStep(Resource!Test(from), from, from, b, b)
BY DEF SoundStep, Resource!Get, Resource!Test, Resource!MayFail

LEMMA LoopSound ==
    ASSUME NEW from, NEW b, Private(b)
    PROVE  SoundStep(Resource!Loop(from), from, from, b, b)
BY DEF SoundStep, Resource!Get, Resource!Test, Resource!Loop, Resource!MayFail

LEMMA DoesSound ==
    ASSUME NEW from, NEW x, NEW b, NEW c, Private(b), Private(c), c = b \cup {x}
    PROVE  SoundStep(Resource!Does(x, from), from, from, b, c)
BY DEF SoundStep, Resource!Get, Resource!Test, Resource!Does, Resource!MayFail

LEMMA TurnSound ==
    ASSUME NEW from, NEW old \in from, NEW new, NEW to, to = (from \ {old}) \cup {new},
           NEW b, Private(b)
    PROVE  SoundStep(Resource!Turn(old, new, from), from, to, b, b)
BY DEF SoundStep, Resource!Get, Resource!Turn, Resource!MayFail

LEMMA GiveSound ==
    ASSUME NEW from, NEW gone_now, gone_now \subseteq from, NEW to, to = from \ gone_now,
           NEW b, Private(b)
    PROVE  /\ SoundStep([Resource!Give(gone_now) EXCEPT !.undo = from], from, to, b, b)
           /\ gone_now # {} =>
                 SoundStep([Resource!Give(gone_now) EXCEPT !.undo = {}], from, to, b, b)
           /\ gone_now = from => SoundStep(Resource!Give(gone_now), from, to, b, b)
BY DEF SoundStep, Resource!Get, Resource!Test, Resource!Give, Resource!MayFail

\* A function of two steps, or of three.
LEMMA TwoStepsSound ==
    ASSUME NEW s, NEW t, NEW keeps, NEW from, Private({}),
           SoundStep(s, {}, from, {}, {}), SoundStep(t, from, keeps, {}, {})
    PROVE  Sound(Resource!Function(<<s, t>>, keeps))
<1> DEFINE f == Resource!Function(<<s, t>>, keeps)
<1> DEFINE h == <<{}, from, keeps>>
<1> DEFINE e == <<{}, {}, {}>>
<1>1. SoundStep(f.steps[1], h[1], h[2], e[1], e[2]) /\ SoundStep(f.steps[2], h[2], h[3], e[2], e[3])
  BY DEF Resource!Function
<1>2. Len(f.steps) = 2 /\ h[1] = {} /\ e[1] = {} /\ h[3] = f.keeps
  BY DEF Resource!Function
<1> HIDE DEF f, h, e
<1>3. SoundBy(f, h, e)
  BY <1>1, <1>2 DEF SoundBy
<1> QED BY <1>3 DEF Sound, f

\* The functions of two steps,
LEMMA TwoStepFunctions ==
    /\ Sound(Resource!PathLock)
    /\ Sound(Resource!CanonicalExisting)
    /\ Sound(Resource!CanonicalParent)
    /\ Sound(Resource!ListDirectory)
    /\ Sound(Resource!MatchesPath)
    /\ Sound(Resource!ThreadCreate)
    /\ Sound(Resource!ConditionInit)
    /\ Sound(Resource!TableCreate)
<1>0. Private({})
  BY DEF Private
<1>1. Sound(Resource!PathLock)
  <2>1. /\ SoundStep(Resource!Get({"stream"}, {}), {}, {"stream"}, {}, {})
        /\ SoundStep(Resource!Get({"lock"}, {"stream"}), {"stream"}, {"stream", "lock"}, {}, {})
    BY <1>0, GetSound
  <2> QED BY <1>0, <2>1, TwoStepsSound DEF Resource!PathLock
<1>2. Sound(Resource!CanonicalExisting)
  <2>1. /\ SoundStep(Resource!Get({"existing"}, {}), {}, {"existing"}, {}, {})
        /\ SoundStep(Resource!Give({"existing"}), {"existing"}, {}, {}, {})
    BY <1>0, GetSound, GiveSound
  <2> QED BY <1>0, <2>1, TwoStepsSound DEF Resource!CanonicalExisting
<1>3. Sound(Resource!CanonicalParent)
  <2>1. /\ SoundStep(Resource!Get({"resolved"}, {}), {}, {"resolved"}, {}, {})
        /\ SoundStep(Resource!Give({"resolved"}), {"resolved"}, {}, {}, {})
    BY <1>0, GetSound, GiveSound
  <2> QED BY <1>0, <2>1, TwoStepsSound DEF Resource!CanonicalParent
<1>4. Sound(Resource!ListDirectory)
  <2>1. /\ SoundStep(Resource!Get({"directory"}, {}), {}, {"directory"}, {}, {})
        /\ SoundStep(Resource!Give({"directory"}), {"directory"}, {}, {}, {})
    BY <1>0, GetSound, GiveSound
  <2> QED BY <1>0, <2>1, TwoStepsSound DEF Resource!ListDirectory
<1>5. Sound(Resource!MatchesPath)
  <2>1. /\ SoundStep(Resource!Get({"handle"}, {}), {}, {"handle"}, {}, {})
        /\ SoundStep(Resource!Give({"handle"}), {"handle"}, {}, {}, {})
    BY <1>0, GetSound, GiveSound
  <2> QED BY <1>0, <2>1, TwoStepsSound DEF Resource!MatchesPath
<1>6. Sound(Resource!ThreadCreate)
  <2>1. /\ SoundStep(Resource!Get({"information"}, {}), {}, {"information"}, {}, {})
        /\ SoundStep(Resource!Turn("information", "thread", {"information"}),
                     {"information"}, {"thread"}, {}, {})
    BY <1>0, GetSound, TurnSound
  <2> QED BY <1>0, <2>1, TwoStepsSound DEF Resource!ThreadCreate
<1>7. Sound(Resource!ConditionInit)
  <2>1. /\ SoundStep(Resource!Get({"section", "signal"}, {}), {}, {"section", "signal"}, {}, {})
        /\ SoundStep(Resource!Get({"broadcast"}, {"section", "signal"}),
                     {"section", "signal"}, {"section", "signal", "broadcast"}, {}, {})
    BY <1>0, GetSound
  <2> QED BY <1>0, <2>1, TwoStepsSound DEF Resource!ConditionInit
<1>8. Sound(Resource!TableCreate)
  <2>1. /\ SoundStep(Resource!Get({"record"}, {}), {}, {"record"}, {}, {})
        /\ SoundStep(Resource!Get({"table"}, {"record"}),
                     {"record"}, {"record", "table"}, {}, {})
    BY <1>0, GetSound
  <2> QED BY <1>0, <2>1, TwoStepsSound DEF Resource!TableCreate
<1> QED BY <1>1, <1>2, <1>3, <1>4, <1>5, <1>6, <1>7, <1>8

\* and the longer ones.
LEMMA ReadFileSound == Sound(Resource!ReadFile)
<1> DEFINE f == Resource!ReadFile
<1> DEFINE h == <<{}, {"stream"}, {"stream"}, {"stream"}, {"stream", "buffer"},
                  {"buffer", "stream"}, {"buffer"}>>
<1> DEFINE e == <<{}, {}, {}, {}, {}, {}, {}>>
<1>1. /\ SoundStep(f.steps[1], h[1], h[2], e[1], e[2])
      /\ SoundStep(f.steps[2], h[2], h[3], e[2], e[3])
      /\ SoundStep(f.steps[3], h[3], h[4], e[3], e[4])
      /\ SoundStep(f.steps[4], h[4], h[5], e[4], e[5])
      /\ SoundStep(f.steps[5], h[5], h[6], e[5], e[6])
      /\ SoundStep(f.steps[6], h[6], h[7], e[6], e[7])
  BY GetSound, TestSound, GiveSound DEF Private, Resource!ReadFile, Resource!Function
<1>2. Len(f.steps) = 6 /\ h[1] = {} /\ e[1] = {} /\ h[7] = f.keeps
  BY DEF Resource!ReadFile, Resource!Function
<1> HIDE DEF f, h, e
<1>3. SoundBy(f, h, e)
  BY <1>1, <1>2 DEF SoundBy
<1> QED BY <1>3 DEF Sound, f

\* PrivateUnix
LEMMA PrivateUnixSound == Sound(Resource!PrivateUnix)
<1> DEFINE f == Resource!PrivateUnix
<1> DEFINE h == <<{}, {"descriptor"}, {"descriptor"}, {"descriptor"}, {"descriptor"}, {"stream"}>>
<1> DEFINE e == <<{}, {}, {"regular"}, {"regular", "private"}, {"regular", "private", "emptied"},
                  {"regular", "private", "emptied"}>>
<1>1. /\ SoundStep(f.steps[1], h[1], h[2], e[1], e[2])
      /\ SoundStep(f.steps[2], h[2], h[3], e[2], e[3])
      /\ SoundStep(f.steps[3], h[3], h[4], e[3], e[4])
      /\ SoundStep(f.steps[4], h[4], h[5], e[4], e[5])
      /\ SoundStep(f.steps[5], h[5], h[6], e[5], e[6])
  BY GetSound, DoesSound, TurnSound DEF Private, Resource!PrivateUnix, Resource!Function
<1>2. Len(f.steps) = 5 /\ h[1] = {} /\ e[1] = {} /\ h[6] = f.keeps
  BY DEF Resource!PrivateUnix, Resource!Function
<1> HIDE DEF f, h, e
<1>3. SoundBy(f, h, e)
  BY <1>1, <1>2 DEF SoundBy
<1> QED BY <1>3 DEF Sound, f

\* PrivateWindows
LEMMA PrivateWindowsSound == Sound(Resource!PrivateWindows)
<1> DEFINE f == Resource!PrivateWindows
<1> DEFINE h == <<{}, {"token"}, {"user", "token"}, {"user", "token"}, {"acl", "user", "token"},
                  {"acl", "user", "token"}, {"acl", "user", "token", "handle"},
                  {"acl", "user", "token", "handle"}, {"acl", "user", "token", "handle"},
                  {"acl", "user", "token", "handle"}, {"acl", "user", "token", "descriptor"},
                  {"acl", "user", "token", "stream"}, {"stream"}>>
<1> DEFINE e == <<{}, {}, {}, {}, {}, {}, {}, {"regular"}, {"regular", "private"},
                  {"regular", "private", "emptied"}, {"regular", "private", "emptied"},
                  {"regular", "private", "emptied"}, {"regular", "private", "emptied"}>>
<1>1. /\ SoundStep(f.steps[1], h[1], h[2], e[1], e[2])
      /\ SoundStep(f.steps[2], h[2], h[3], e[2], e[3])
      /\ SoundStep(f.steps[3], h[3], h[4], e[3], e[4])
      /\ SoundStep(f.steps[4], h[4], h[5], e[4], e[5])
      /\ SoundStep(f.steps[5], h[5], h[6], e[5], e[6])
      /\ SoundStep(f.steps[6], h[6], h[7], e[6], e[7])
      /\ SoundStep(f.steps[7], h[7], h[8], e[7], e[8])
      /\ SoundStep(f.steps[8], h[8], h[9], e[8], e[9])
      /\ SoundStep(f.steps[9], h[9], h[10], e[9], e[10])
      /\ SoundStep(f.steps[10], h[10], h[11], e[10], e[11])
      /\ SoundStep(f.steps[11], h[11], h[12], e[11], e[12])
      /\ SoundStep(f.steps[12], h[12], h[13], e[12], e[13])
  <2>1. /\ SoundStep(f.steps[1], h[1], h[2], e[1], e[2])
        /\ SoundStep(f.steps[2], h[2], h[3], e[2], e[3])
        /\ SoundStep(f.steps[3], h[3], h[4], e[3], e[4])
    BY GetSound, TestSound, DoesSound, TurnSound, GiveSound
       DEF Private, Resource!PrivateWindows, Resource!Function
  <2>2. /\ SoundStep(f.steps[4], h[4], h[5], e[4], e[5])
        /\ SoundStep(f.steps[5], h[5], h[6], e[5], e[6])
        /\ SoundStep(f.steps[6], h[6], h[7], e[6], e[7])
    BY GetSound, TestSound, DoesSound, TurnSound, GiveSound
       DEF Private, Resource!PrivateWindows, Resource!Function
  <2>3. /\ SoundStep(f.steps[7], h[7], h[8], e[7], e[8])
        /\ SoundStep(f.steps[8], h[8], h[9], e[8], e[9])
        /\ SoundStep(f.steps[9], h[9], h[10], e[9], e[10])
    BY GetSound, TestSound, DoesSound, TurnSound, GiveSound
       DEF Private, Resource!PrivateWindows, Resource!Function
  <2>4. SoundStep(f.steps[10], h[10], h[11], e[10], e[11])
    BY TurnSound DEF Private, Resource!PrivateWindows, Resource!Function
  <2>5. SoundStep(f.steps[11], h[11], h[12], e[11], e[12])
    BY TurnSound DEF Private, Resource!PrivateWindows, Resource!Function
  <2>6. SoundStep(f.steps[12], h[12], h[13], e[12], e[13])
    <3> DEFINE memory == {"acl", "user", "token"}
    <3>1. /\ memory \subseteq h[12] /\ memory # {} /\ h[13] = h[12] \ memory
          /\ Private(e[12]) /\ e[13] = e[12]
      BY DEF Private
    <3>2. f.steps[12] = [Resource!Give(memory) EXCEPT !.undo = {}]
      BY DEF Resource!PrivateWindows, Resource!Function
    <3>3. /\ f.steps[12].loses = memory /\ f.steps[12].gets = {} /\ f.steps[12].undo = {}
          /\ f.steps[12].does = {} /\ f.steps[12].loop = FALSE
      BY <3>2 DEF Resource!Give, Resource!Test, Resource!Get
    <3> HIDE DEF memory, f, h, e
    <3> QED BY <3>1, <3>3 DEF SoundStep, Resource!MayFail
  <2> QED BY <2>1, <2>2, <2>3, <2>4, <2>5, <2>6
<1>2. Len(f.steps) = 12 /\ h[1] = {} /\ e[1] = {} /\ h[13] = f.keeps
  BY DEF Resource!PrivateWindows, Resource!Function
<1> HIDE DEF f, h, e
<1>3. SoundBy(f, h, e)
  BY <1>1, <1>2 DEF SoundBy
<1> QED BY <1>3 DEF Sound, f

\* MapUnix
LEMMA MapUnixSound == Sound(Resource!MapUnix)
<1> DEFINE f == Resource!MapUnix
<1> DEFINE h == <<{}, {"record"}, {"record", "descriptor"}, {"record", "descriptor", "mapping"}>>
<1> DEFINE e == <<{}, {}, {}, {}>>
<1>1. /\ SoundStep(f.steps[1], h[1], h[2], e[1], e[2])
      /\ SoundStep(f.steps[2], h[2], h[3], e[2], e[3])
      /\ SoundStep(f.steps[3], h[3], h[4], e[3], e[4])
  BY GetSound DEF Private, Resource!MapUnix, Resource!Function
<1>2. Len(f.steps) = 3 /\ h[1] = {} /\ e[1] = {} /\ h[4] = f.keeps
  BY DEF Resource!MapUnix, Resource!Function
<1> HIDE DEF f, h, e
<1>3. SoundBy(f, h, e)
  BY <1>1, <1>2 DEF SoundBy
<1> QED BY <1>3 DEF Sound, f

\* MapWindows
LEMMA MapWindowsSound == Sound(Resource!MapWindows)
<1> DEFINE f == Resource!MapWindows
<1> DEFINE h == <<{}, {"record"}, {"record", "file"}, {"record", "file", "object"},
                  {"record", "file", "object", "mapping"}>>
<1> DEFINE e == <<{}, {}, {}, {}, {}>>
<1>1. /\ SoundStep(f.steps[1], h[1], h[2], e[1], e[2])
      /\ SoundStep(f.steps[2], h[2], h[3], e[2], e[3])
      /\ SoundStep(f.steps[3], h[3], h[4], e[3], e[4])
      /\ SoundStep(f.steps[4], h[4], h[5], e[4], e[5])
  BY GetSound DEF Private, Resource!MapWindows, Resource!Function
<1>2. Len(f.steps) = 4 /\ h[1] = {} /\ e[1] = {} /\ h[5] = f.keeps
  BY DEF Resource!MapWindows, Resource!Function
<1> HIDE DEF f, h, e
<1>3. SoundBy(f, h, e)
  BY <1>1, <1>2 DEF SoundBy
<1> QED BY <1>3 DEF Sound, f

\* RandomBytes
LEMMA RandomBytesSound == Sound(Resource!RandomBytes)
<1> DEFINE f == Resource!RandomBytes
<1> DEFINE h == <<{}, {"descriptor"}, {"descriptor"}, {}>>
<1> DEFINE e == <<{}, {}, {}, {}>>
<1>1. /\ SoundStep(f.steps[1], h[1], h[2], e[1], e[2])
      /\ SoundStep(f.steps[2], h[2], h[3], e[2], e[3])
      /\ SoundStep(f.steps[3], h[3], h[4], e[3], e[4])
  BY GetSound, LoopSound, GiveSound DEF Private, Resource!RandomBytes, Resource!Function
<1>2. Len(f.steps) = 3 /\ h[1] = {} /\ e[1] = {} /\ h[4] = f.keeps
  BY DEF Resource!RandomBytes, Resource!Function
<1> HIDE DEF f, h, e
<1>3. SoundBy(f, h, e)
  BY <1>1, <1>2 DEF SoundBy
<1> QED BY <1>3 DEF Sound, f

\* RemoveDirectory
LEMMA RemoveDirectorySound == Sound(Resource!RemoveDirectory)
<1> DEFINE f == Resource!RemoveDirectory
<1> DEFINE h == <<{}, {"descriptor"}, {"descriptor"}, {"directory"}, {}>>
<1> DEFINE e == <<{}, {}, {}, {}, {}>>
<1>1. /\ SoundStep(f.steps[1], h[1], h[2], e[1], e[2])
      /\ SoundStep(f.steps[2], h[2], h[3], e[2], e[3])
      /\ SoundStep(f.steps[3], h[3], h[4], e[3], e[4])
      /\ SoundStep(f.steps[4], h[4], h[5], e[4], e[5])
  BY GetSound, TestSound, TurnSound, GiveSound
     DEF Private, Resource!RemoveDirectory, Resource!Function
<1>2. Len(f.steps) = 4 /\ h[1] = {} /\ e[1] = {} /\ h[5] = f.keeps
  BY DEF Resource!RemoveDirectory, Resource!Function
<1> HIDE DEF f, h, e
<1>3. SoundBy(f, h, e)
  BY <1>1, <1>2 DEF SoundBy
<1> QED BY <1>3 DEF Sound, f

\* MutexCreate
LEMMA MutexCreateSound == Sound(Resource!MutexCreate)
<1> DEFINE f == Resource!MutexCreate
<1> DEFINE h == <<{}, {"attributes"}, {"attributes"}, {"attributes", "mutex"}, {"mutex"}>>
<1> DEFINE e == <<{}, {}, {}, {}, {}>>
<1>1. /\ SoundStep(f.steps[1], h[1], h[2], e[1], e[2])
      /\ SoundStep(f.steps[2], h[2], h[3], e[2], e[3])
      /\ SoundStep(f.steps[3], h[3], h[4], e[3], e[4])
      /\ SoundStep(f.steps[4], h[4], h[5], e[4], e[5])
  BY GetSound, TestSound, GiveSound DEF Private, Resource!MutexCreate, Resource!Function
<1>2. Len(f.steps) = 4 /\ h[1] = {} /\ e[1] = {} /\ h[5] = f.keeps
  BY DEF Resource!MutexCreate, Resource!Function
<1> HIDE DEF f, h, e
<1>3. SoundBy(f, h, e)
  BY <1>1, <1>2 DEF SoundBy
<1> QED BY <1>3 DEF Sound, f

\* PoolCreate
LEMMA PoolCreateSound == Sound(Resource!PoolCreate)
<1> DEFINE f == Resource!PoolCreate
<1> DEFINE h == <<{}, {"pool"}, {"pool", "queue"}, {"pool", "queue", "threads"},
                  {"pool", "queue", "threads", "lock"},
                  {"pool", "queue", "threads", "lock", "notify"},
                  {"pool", "queue", "threads", "lock", "notify", "not_full"},
                  {"pool", "queue", "threads", "lock", "notify", "not_full", "all_idle"},
                  {"pool", "queue", "threads", "lock", "notify", "not_full", "all_idle",
                   "api_idle"}>>
<1> DEFINE e == <<{}, {}, {}, {}, {}, {}, {}, {}, {}>>
<1>1. /\ SoundStep(f.steps[1], h[1], h[2], e[1], e[2])
      /\ SoundStep(f.steps[2], h[2], h[3], e[2], e[3])
      /\ SoundStep(f.steps[3], h[3], h[4], e[3], e[4])
      /\ SoundStep(f.steps[4], h[4], h[5], e[4], e[5])
      /\ SoundStep(f.steps[5], h[5], h[6], e[5], e[6])
      /\ SoundStep(f.steps[6], h[6], h[7], e[6], e[7])
      /\ SoundStep(f.steps[7], h[7], h[8], e[7], e[8])
      /\ SoundStep(f.steps[8], h[8], h[9], e[8], e[9])
  BY GetSound DEF Private, Resource!PoolCreate, Resource!Function
<1>2. Len(f.steps) = 8 /\ h[1] = {} /\ e[1] = {} /\ h[9] = f.keeps
  BY DEF Resource!PoolCreate, Resource!Function
<1> HIDE DEF f, h, e
<1>3. SoundBy(f, h, e)
  BY <1>1, <1>2 DEF SoundBy
<1> QED BY <1>3 DEF Sound, f

\* All of them.
LEMMA FunctionsSound == \A f \in DOMAIN Resource!Functions : Sound(Resource!Functions[f])
<1>1. /\ Sound(Resource!PathLock) /\ Sound(Resource!CanonicalExisting)
      /\ Sound(Resource!CanonicalParent) /\ Sound(Resource!ListDirectory)
      /\ Sound(Resource!MatchesPath) /\ Sound(Resource!ThreadCreate)
      /\ Sound(Resource!ConditionInit) /\ Sound(Resource!TableCreate)
  BY TwoStepFunctions
<1>2. /\ Sound(Resource!ReadFile) /\ Sound(Resource!PrivateUnix) /\ Sound(Resource!PrivateWindows)
      /\ Sound(Resource!MapUnix) /\ Sound(Resource!MapWindows) /\ Sound(Resource!RandomBytes)
      /\ Sound(Resource!RemoveDirectory) /\ Sound(Resource!MutexCreate)
      /\ Sound(Resource!PoolCreate)
  BY ReadFileSound, PrivateUnixSound, PrivateWindowsSound, MapUnixSound, MapWindowsSound,
     RandomBytesSound, RemoveDirectorySound, MutexCreateSound, PoolCreateSound
<1> QED BY <1>1, <1>2 DEF Resource!Functions

\* A call of f is before one of its steps.
IsAt(f, h, e) ==
    /\ SoundBy(Resource!Functions[f], h, e) /\ call.name = f
    /\ call.step \in 1 .. Len(Resource!Functions[f].steps) + 1
    /\ held = h[call.step] /\ effects = e[call.step]
    /\ call = [name |-> f, step |-> call.step]

\* A call holds what its function does before the step it has come to.
ResourceInd ==
    /\ twice = FALSE /\ Private(effects) /\ (outcome = FALSE => held = {})
    /\ call # None =>
          /\ outcome = None
          /\ \E f \in DOMAIN Resource!Functions : \E h, e : IsAt(f, h, e)

\* Before any call; the beginning of one;
LEMMA ResourceInitHolds == ASSUME Resource!NoneAssumption, Resource!Init PROVE ResourceInd
BY DEF Resource!NoneAssumption, Resource!Init, ResourceInd, Private

LEMMA ResourceCallKeeps ==
    ASSUME Resource!NoneAssumption, ResourceInd, NEW f \in DOMAIN Resource!Functions,
           Resource!Call(f)
    PROVE  ResourceInd'
<1>1. PICK h, e : SoundBy(Resource!Functions[f], h, e)
  BY FunctionsSound DEF Sound
<1>2. /\ held = {} /\ call' = [name |-> f, step |-> 1] /\ effects' = {} /\ outcome' = None
      /\ held' = held /\ twice' = twice
  BY DEF Resource!Call
<1>3. h[1] = {} /\ e[1] = {} /\ 1 \in 1 .. Len(Resource!Functions[f].steps) + 1
  BY <1>1 DEF SoundBy
<1>4. twice' = FALSE /\ Private(effects') /\ (outcome' = FALSE => held' = {})
  BY <1>2 DEF ResourceInd, Private, Resource!NoneAssumption
<1>5. /\ call'.name = f /\ call'.step = 1 /\ call' = [name |-> f, step |-> call'.step]
      /\ held' = h[call'.step] /\ effects' = e[call'.step]
  BY <1>2, <1>3
<1>6. IsAt(f, h, e)'
  BY <1>1, <1>3, <1>5 DEF IsAt
<1> QED BY <1>2, <1>4, <1>6 DEF ResourceInd

\* a step that succeeds or fails;
LEMMA ResourceSucceedKeeps ==
    ASSUME Resource!NoneAssumption, ResourceInd, Resource!Succeed \/ Resource!Fail
    PROVE  ResourceInd'
<1>1. call # None /\ ~(call.step > Len(Resource!Current.steps)) /\ outcome = None
  BY DEF Resource!Succeed, Resource!Fail, Resource!Running, Resource!Finished, ResourceInd
<1>0. PICK f \in DOMAIN Resource!Functions : \E h, e : IsAt(f, h, e)
  BY <1>1 DEF ResourceInd
<1>a. PICK h, e : IsAt(f, h, e)
  BY <1>0
<1>2. /\ SoundBy(Resource!Functions[f], h, e) /\ call.name = f
      /\ call.step \in 1 .. Len(Resource!Functions[f].steps) + 1
      /\ held = h[call.step] /\ effects = e[call.step]
      /\ call = [name |-> f, step |-> call.step]
  BY <1>a DEF IsAt
<1> DEFINE F == Resource!Functions[f]
<1> DEFINE k == call.step
<1> DEFINE s == F.steps[k]
<1>3. Resource!Current = F /\ Resource!Step = s
  BY <1>2 DEF Resource!Current, Resource!Step
<1>4. k \in 1 .. Len(F.steps) /\ Len(F.steps) \in Nat
  BY <1>1, <1>2, <1>3 DEF SoundBy
<1>5. SoundStep(s, h[k], h[k + 1], e[k], e[k + 1])
  BY <1>2, <1>4 DEF SoundBy
<1>6. twice = FALSE
  BY DEF ResourceInd
<1>7. CASE Resource!Fail
  <2>1. s.undo = held
    BY <1>2, <1>3, <1>5, <1>7 DEF Resource!Fail, SoundStep
  <2>2. held' = {} /\ twice' = FALSE /\ call' = None /\ effects' = effects
    BY <1>3, <1>6, <1>7, <2>1 DEF Resource!Fail
  <2> QED BY <2>2 DEF ResourceInd
<1>8. CASE Resource!Succeed
  <2>1. held' = (held \ s.loses) \cup s.gets /\ effects' = effects \cup s.does /\ outcome' = outcome
    BY <1>3, <1>8 DEF Resource!Succeed
  <2>2. held' = h[k + 1] /\ effects' = e[k + 1] /\ Private(effects')
    BY <1>2, <1>5, <2>1 DEF SoundStep
  <2>3. twice' = FALSE
    BY <1>2, <1>3, <1>5, <1>6, <1>8 DEF Resource!Succeed, SoundStep
  <2>4. \/ call' = [name |-> f, step |-> k + 1]
        \/ call' = call /\ held' = h[k] /\ effects' = e[k]
    BY <1>2, <1>3, <1>5, <1>8, <2>2 DEF Resource!Succeed, SoundStep
  <2>5. outcome' = None /\ outcome' # FALSE
    BY <1>1, <2>1 DEF Resource!NoneAssumption
  <2>6. CASE call' = call /\ held' = h[k] /\ effects' = e[k]
    <3>1. IsAt(f, h, e)'
      BY <1>2, <2>6 DEF IsAt
    <3> QED BY <2>2, <2>3, <2>5, <3>1 DEF ResourceInd
  <2>7. CASE call' = [name |-> f, step |-> k + 1]
    <3>1. /\ call'.name = f /\ call'.step = k + 1 /\ call' = [name |-> f, step |-> call'.step]
          /\ k + 1 \in 1 .. Len(F.steps) + 1
      BY <1>4, <2>7
    <3>2. held' = h[call'.step] /\ effects' = e[call'.step]
      BY <2>2, <3>1
    <3>3. IsAt(f, h, e)'
      BY <1>2, <3>1, <3>2 DEF IsAt
    <3> QED BY <2>2, <2>3, <2>5, <3>3 DEF ResourceInd
  <2> QED BY <2>4, <2>6, <2>7
<1> QED BY <1>7, <1>8

\* together.
LEMMA ResourceNextKeeps ==
    ASSUME Resource!NoneAssumption, ResourceInd, Resource!Next
    PROVE  ResourceInd'
<1>1. CASE Resource!Return
  BY <1>1 DEF Resource!Return, ResourceInd
<1>2. CASE Resource!Release
  BY <1>2 DEF Resource!Release, ResourceInd
<1> QED BY <1>1, <1>2, ResourceCallKeeps, ResourceSucceedKeeps DEF Resource!Next

\* The invariant says what the properties do.
LEMMA ResourceIndHolds ==
    ASSUME ResourceInd
    PROVE  /\ Resource!NothingIsLeaked /\ Resource!NothingIsReleasedTwice
           /\ Resource!EmptiedWhenPrivate
<1>1. ASSUME Resource!Finished PROVE held = Resource!Current.keeps
  <2>0. PICK f \in DOMAIN Resource!Functions : \E h, e : IsAt(f, h, e)
    BY <1>1 DEF Resource!Finished, ResourceInd
  <2>1. PICK h, e :
          /\ SoundBy(Resource!Functions[f], h, e) /\ call.name = f
          /\ call.step \in 1 .. Len(Resource!Functions[f].steps) + 1
          /\ held = h[call.step]
    BY <2>0 DEF IsAt
  <2>2. Resource!Current = Resource!Functions[f]
    BY <2>1 DEF Resource!Current
  <2>3. call.step = Len(Resource!Functions[f].steps) + 1
    BY <1>1, <2>1, <2>2 DEF Resource!Finished, SoundBy
  <2> QED BY <2>1, <2>2, <2>3 DEF SoundBy
<1> QED BY <1>1 DEF ResourceInd, Private, Resource!NothingIsLeaked, Resource!NothingIsReleasedTwice,
                    Resource!EmptiedWhenPrivate

-----------------------------------------------------------------------------
(* Directories *)

Entries == [Names -> Directory!Nodes \cup {None}]

\* What lies in a directory of the set is in it too.
Closed(t, s) == \A d \in s \cap Dirs, n \in Names : t[d][n] # None => t[d][n] \in s

ChildrenOf(t, s) == UNION {Directory!Children(t, d) : d \in s \cap Dirs}

\* What Below computes is closed: a pass that adds no directory leads to a closed set, and
\* there cannot be more passes that add one than there are directories.
LEMMA BelowIsClosed ==
    ASSUME Directory!DirectoriesAssumption, NEW t \in [Dirs -> Entries], NEW s
    PROVE  s \subseteq Directory!Below(t, s) /\ Closed(t, Directory!Below(t, s))
<1>1. PICK n : n = Cardinality(Dirs)
  OBVIOUS
<1>2. n \in Nat /\ IsFiniteSet(Dirs) /\ Directory!Cardinality(Dirs) = n
  <2>1. IsFiniteSet(Dirs)
    BY Zenon DEF Directory!DirectoriesAssumption, Directory!IsFiniteSet, IsFiniteSet
  <2>2. Directory!Cardinality(Dirs) = Cardinality(Dirs)
    BY Zenon DEF Directory!Cardinality, Cardinality, Directory!IsFiniteSet, IsFiniteSet
  <2> QED BY <1>1, <2>1, <2>2, FS_CardinalityType
<1> DEFINE W == s \cup Directory!Nodes
           step == [i \in 1 .. n |-> [x \in SUBSET W |-> x \cup ChildrenOf(t, x)]]
           All(f) ==
               f = [k \in 0 .. n |-> IF k = 0 THEN s ELSE f[k - 1] \cup ChildrenOf(t, f[k - 1])]
           upTo == CHOOSE f : All(f)
<1>3. ASSUME NEW x \in SUBSET W PROVE x \cup ChildrenOf(t, x) \in SUBSET W
  BY DEF ChildrenOf, Directory!Children, Entries
<1>4. IsStep(step, n, SUBSET W) /\ s \in SUBSET W
  BY <1>3 DEF IsStep
<1>5. PICK g : Computes(g, n, SUBSET W, s, step)
  <2> HIDE DEF step, W
  <2> QED BY <1>2, <1>4, RecursiveFunctionExists
<1>6. /\ g \in [0 .. n -> SUBSET W] /\ g[0] = s
      /\ \A i \in 1 .. n : g[i] = g[i - 1] \cup ChildrenOf(t, g[i - 1])
  <2>1. g \in [0 .. n -> SUBSET W] /\ g[0] = s /\ \A i \in 1 .. n : g[i] = step[i][g[i - 1]]
    <3> HIDE DEF step, W
    <3> QED BY <1>5 DEF Computes
  <2>2. \A i \in 1 .. n : g[i - 1] \in SUBSET W
    <3> HIDE DEF W
    <3> QED BY <1>2, <2>1
  <2> QED BY <2>1, <2>2
<1> HIDE DEF step, W
<1>7. All(g)
  BY <1>2, <1>6
<1>8. All(upTo)
  BY <1>7
<1>9. Directory!Below(t, s) = upTo[n]
  BY <1>2 DEF Directory!Below, ChildrenOf
<1> DEFINE f == upTo
<1>10. f[0] = s /\ \A k \in 0 .. n - 1 : f[k + 1] = f[k] \cup ChildrenOf(t, f[k])
  <2> HIDE DEF upTo
  <2>1. f = [k \in 0 .. n |-> IF k = 0 THEN s ELSE f[k - 1] \cup ChildrenOf(t, f[k - 1])]
    BY <1>8
  <2>2. ASSUME NEW k \in 0 .. n - 1 PROVE f[k + 1] = f[k] \cup ChildrenOf(t, f[k])
    <3>1. k + 1 \in 0 .. n /\ k + 1 # 0 /\ (k + 1) - 1 = k
      BY <1>2
    <3> QED BY <2>1, <3>1
  <2>3. f[0] = s
    <3>1. 0 \in 0 .. n
      BY <1>2
    <3> QED BY <2>1, <3>1
  <2> QED BY <2>2, <2>3
<1> HIDE DEF f
<1>11. s \subseteq f[n]
  <2> DEFINE T == {k \in Nat : k <= n => s \subseteq f[k]}
  <2>1. 0 \in T
    BY <1>10
  <2>2. \A k \in Nat : k \in T => k + 1 \in T
    BY <1>2, <1>10
  <2>3. Nat \subseteq T
    BY ONLY <2>1, <2>2, Induction
  <2> QED BY <1>2, <2>3
<1>12. \A x : Closed(t, x) <=> ChildrenOf(t, x) \subseteq x
  BY DEF Closed, ChildrenOf, Directory!Children
<1>13. ASSUME ~Closed(t, f[n]) PROVE FALSE
  <2>1. \A k \in 0 .. n : ~Closed(t, f[k])
    <3> DEFINE T == {k \in 0 .. n : ~Closed(t, f[n - k])}
    <3>1. 0 \in T
      BY <1>2, <1>13
    <3>2. ASSUME NEW k \in 0 .. n - 1, k \in T PROVE k + 1 \in T
      <4>1. PICK j \in 0 .. n - 1 : j = n - (k + 1) /\ j + 1 = n - k
        BY <1>2
      <4>2. ~Closed(t, f[j + 1])
        BY <3>2, <4>1
      <4>3. ~Closed(t, f[j])
        <5>1. ASSUME Closed(t, f[j]) PROVE f[j + 1] = f[j]
          BY <1>10, <1>12, <5>1
        <5> QED BY <4>2, <5>1
      <4> QED BY <1>2, <4>1, <4>3
    <3> HIDE DEF T
    <3>3. 0 .. n \subseteq T
      BY ONLY <1>2, <3>1, <3>2, InductionUpTo
    <3>4. ASSUME NEW k \in 0 .. n PROVE ~Closed(t, f[k])
      <4>1. n - k \in 0 .. n /\ n - (n - k) = k
        BY <1>2
      <4> QED BY <3>3, <4>1 DEF T
    <3> QED BY <3>4
  <2> DEFINE T == {k \in 0 .. n : Cardinality(f[k] \cap Dirs) > k}
  <2> DEFINE Bounded(x) == IsFiniteSet(x) /\ Cardinality(x) \in Nat /\ Cardinality(x) <= n
  <2>2. \A x : Bounded(x \cap Dirs)
    <3>1. ASSUME NEW x
          PROVE  Bounded(x \cap Dirs)
      <4>1. x \cap Dirs \in SUBSET Dirs
        OBVIOUS
      <4> QED BY <1>1, <1>2, <4>1, FS_Subset, FS_CardinalityType
    <3> QED BY <3>1
  <2>3. 0 \in T
    <3>1. f[0] \cap Dirs # {}
      <4>1. ~Closed(t, f[0])
        BY <1>2, <2>1
      <4> QED BY <4>1 DEF Closed
    <3>2. Cardinality(f[0] \cap Dirs) # 0
      BY <2>2, <3>1, FS_EmptySet
    <3> QED BY <1>2, <2>2, <3>2
  <2>4. ASSUME NEW k \in 0 .. n - 1, k \in T PROVE k + 1 \in T
    <3>1. PICK a, b : a = f[k] \cap Dirs /\ b = f[k + 1] \cap Dirs
      OBVIOUS
    <3>2. a \subseteq b
      BY <1>10, <3>1
    <3>3. a # b
      <4>1. ASSUME a = b PROVE Closed(t, f[k + 1])
        <5>1. ChildrenOf(t, f[k + 1]) = ChildrenOf(t, f[k])
          BY <3>1, <4>1 DEF ChildrenOf
        <5> QED BY <1>10, <1>12, <5>1
      <4>2. k + 1 \in 0 .. n
        BY <1>2
      <4> QED BY <2>1, <4>1, <4>2
    <3>4. Cardinality(a) <= Cardinality(b) /\ Cardinality(a) # Cardinality(b)
      <4>1. IsFiniteSet(b) /\ a \in SUBSET b
        BY <2>2, <3>1, <3>2
      <4> QED BY <3>3, <4>1, FS_Subset
    <3>5. Cardinality(a) \in Nat /\ Cardinality(b) \in Nat /\ Cardinality(a) > k
      BY <2>2, <2>4, <3>1
    <3>6. Cardinality(b) = Cardinality(f[k + 1] \cap Dirs) /\ Cardinality(b) > k + 1
      BY <3>1, <3>4, <3>5
    <3> QED BY <1>2, <3>6
  <2>5. n \in T
    <3> HIDE DEF T
    <3>1. 0 .. n \subseteq T
      BY ONLY <1>2, <2>3, <2>4, InductionUpTo
    <3> QED BY <1>2, <3>1
  <2> QED BY <1>2, <2>2, <2>5
<1> QED BY <1>9, <1>11, <1>13 DEF f

Frames == [dir : Dirs, name : Names, listed : SUBSET Names, seen : SUBSET Names, result : {0, 1}]

Removal == op \in {"remove", "empty"}

\* What a call is and where it may be.
CallInd ==
    /\ tree \in [Dirs -> Entries] /\ stack \in Seq(Frames) /\ result \in {0, 1} /\ moves \in Nat
    /\ op \in {None, "remove", "empty", "list"} /\ (op = None <=> pc = "idle")
    /\ op = "list" => pc \in {"opendir", "loop", "fail", "done"}
    /\ pc \in {"open", "unlink", "rmdir"} => Removal
    /\ op = "list" /\ pc = "loop" => Len(stack) = 1

\* The file system: the set inside is closed, what was removed was in it or named by the
\* path, and an entry of the start is still there if nobody removed or renamed it.
WorldInd ==
    /\ Closed(tree, inside) /\ gone \subseteq inside \cup named
    /\ op = None => gone = {}
    /\ op # None => tree[Parent][Name] \in named \cup {None}
    /\ \A d \in Dirs, n \in Names :
          tree[d][n] = Start[d][n] \/ Start[d][n] \in gone \cup moved \cup {None}

\* os_remove does not leave what it was in,
StackInd == Removal => \A i \in 1 .. Len(stack) : stack[i].dir \in inside

\* and has left nothing out of directory f.dir of the start, but for the entry it is at.
NothingLeft(f, pending) ==
    \A m \in Names :
        \/ Start[f.dir][m] \in gone \cup moved \cup {None} \/ f.result = 1
        \/ m \in f.listed \ f.seen
        \/ pending /\ m = f.name

Pending == Len(stack) > 1 \/ pc \in {"unlink", "open", "rmdir"}

BaseInd == Removal /\ stack # <<>> => NothingLeft(stack[1], Pending)

AfterInd ==
    /\ Removal /\ pc \in {"lstat", "remove", "done"} /\ result = 0 /\ expected \in Dirs =>
          \A n \in Names : Start[expected][n] \in gone \cup moved \cup {None}
    /\ pc = "done" /\ op = "remove" /\ result = 0 => gone \cap named # {}

\* As long as nobody renamed anything, a listing has what it has seen.
ListInd ==
    /\ moves = 0 /\ op \in {None, "list"} => tree = Start
    /\ moves = 0 /\ op = "list" /\ pc = "opendir" => given = {}
    /\ moves = 0 /\ op = "list" /\ pc = "loop" =>
          /\ stack[1].dir = Directory!Resolved(Start, Parent, Name)
          /\ stack[1].listed = {n \in Names : Start[stack[1].dir][n] # None}
          /\ \A n \in given : n \in stack[1].listed /\ Start[stack[1].dir][n] \notin Links
          /\ stack[1].result = 0 => stack[1].seen \subseteq given
    /\ Directory!ListingIsComplete

DirectoryInd == CallInd /\ WorldInd /\ StackInd /\ BaseInd /\ AfterInd /\ ListInd

-----------------------------------------------------------------------------
(* os_remove and os_listdir: their state *)

\* A stack of one frame.
LEMMA OneFrame ==
    ASSUME NEW f \in Frames
    PROVE  <<f>> \in Seq(Frames) /\ Len(<<f>>) = 1 /\ <<f>>[1] = f
OBVIOUS

\* A stack with a frame is not empty.
LEMMA NotEmpty == ASSUME NEW s, Len(s) = 1 PROVE s # <<>>
OBVIOUS

\* The stack without its top,
LEMMA FrontFacts ==
    ASSUME NEW s \in Seq(Frames), s # <<>>
    PROVE  /\ Directory!Front(s) \in Seq(Frames) /\ Len(Directory!Front(s)) = Len(s) - 1
           /\ \A i \in 1 .. Len(s) - 1 : Directory!Front(s)[i] = s[i]
<1>1. Len(s) \in Nat \ {0} /\ Len(s) - 1 \in Nat /\ Len(s) - 1 <= Len(s)
  OBVIOUS
<1>2. PICK n \in Nat : n = Len(s) - 1
  BY <1>1
<1>3. Directory!Front(s) = SubSeq(s, 1, n)
  BY <1>2 DEF Directory!Front
<1>4. \A i \in 1 .. n : s[i] \in Frames
  BY <1>1, <1>2
<1>5. /\ SubSeq(s, 1, n) \in Seq(Frames) /\ Len(SubSeq(s, 1, n)) = IF 1 <= n THEN n - 1 + 1 ELSE 0
      /\ \A i \in 1 .. n - 1 + 1 : SubSeq(s, 1, n)[i] = s[1 + i - 1]
  BY <1>4, SubSeqProperties
<1>6. n - 1 + 1 = n /\ \A i \in 1 .. n : 1 + i - 1 = i
  OBVIOUS
<1> QED BY <1>2, <1>3, <1>5, <1>6

\* with another frame on top,
IsTopped(s, f, r) == r = Directory!Front(s) \o <<f>>

\* which is a stack of the same size,
LEMMA SetTopFacts ==
    ASSUME NEW s \in Seq(Frames), s # <<>>, NEW f \in Frames, NEW r, IsTopped(s, f, r)
    PROVE  /\ r \in Seq(Frames) /\ Len(r) = Len(s) /\ Len(s) \in Nat \ {0} /\ r[Len(s)] = f
           /\ \A i \in 1 .. Len(s) : i # Len(s) => r[i] = s[i]
<1>1. Len(s) \in Nat \ {0} /\ Len(s) - 1 \in Nat /\ Len(s) - 1 <= Len(s)
  OBVIOUS
<1>2. /\ Directory!Front(s) \in Seq(Frames) /\ Len(Directory!Front(s)) = Len(s) - 1
      /\ \A i \in 1 .. Len(s) - 1 : Directory!Front(s)[i] = s[i]
  BY FrontFacts
<1> QED BY <1>1, <1>2 DEF IsTopped

\* and its top.
LEMMA TopFacts ==
    ASSUME CallInd, stack # <<>>
    PROVE  /\ Len(stack) \in Nat \ {0} /\ stack[Len(stack)] = Directory!Top
           /\ stack[1] \in Frames
           /\ Directory!Top \in Frames /\ Directory!Top.dir \in Dirs /\ Directory!Top.name \in Names
<1>1. /\ Len(stack) \in Nat \ {0} /\ stack \in Seq(Frames)
      /\ \A i \in 1 .. Len(stack) : stack[i] \in Frames
  BY DEF CallInd
<1>2. stack[Len(stack)] = Directory!Top /\ Len(stack) \in 1 .. Len(stack) /\ 1 \in 1 .. Len(stack)
  BY <1>1 DEF Directory!Top, Directory!Last
<1> QED BY <1>1, <1>2 DEF Frames

\* History, after a step that makes t the tree.
LEMMA ObserveFacts ==
    ASSUME Directory!DirectoriesAssumption, NEW t \in [Dirs -> Entries], Directory!Observe(t)
    PROVE  /\ tree' = t /\ Closed(t, inside') /\ inside \subseteq inside' /\ named \subseteq named'
           /\ op # None => t[Parent][Name] \in named' \cup {None}
<1>1. tree' = t /\ inside' = Directory!Below(t, inside)
  BY DEF Directory!Observe
<1>2. named \subseteq named' /\ (op # None => t[Parent][Name] \in named' \cup {None})
  BY DEF Directory!Observe
<1> QED BY <1>1, <1>2, BelowIsClosed

\* An entry is removed.
LEMMA DetachKeeps ==
    ASSUME Directory!DirectoriesAssumption, CallInd, WorldInd, NEW d \in Dirs, NEW n \in Names,
           tree[d][n] \in inside \cup named, Directory!Detach(d, n), op # None,
           UNCHANGED <<op, moved>>
    PROVE  /\ WorldInd' /\ tree' \in [Dirs -> Entries] /\ inside \subseteq inside'
           /\ gone' = gone \cup {tree[d][n]} /\ named \subseteq named'
<1>1. PICK t : t = [tree EXCEPT ![d][n] = None]
  OBVIOUS
<1>2. /\ t \in [Dirs -> Entries]
      /\ \A b \in Dirs, m \in Names : t[b][m] = tree[b][m] \/ (b = d /\ m = n)
  BY <1>1 DEF CallInd, Entries
<1>3. Directory!Observe(t) /\ gone' = gone \cup {tree[d][n]}
  BY <1>1 DEF Directory!Detach
<1>4. /\ tree' = t /\ Closed(t, inside') /\ inside \subseteq inside' /\ named \subseteq named'
      /\ op # None => t[Parent][Name] \in named' \cup {None}
  BY <1>2, <1>3, ObserveFacts
<1>5. ASSUME NEW b \in Dirs, NEW m \in Names
      PROVE  t[b][m] = Start[b][m] \/ Start[b][m] \in gone' \cup moved' \cup {None}
  BY <1>2, <1>3 DEF WorldInd
<1> QED BY <1>2, <1>3, <1>4, <1>5 DEF WorldInd

\* An entry is renamed.
LEMMA RenameWorld ==
    ASSUME Directory!DirectoriesAssumption, CallInd, WorldInd, NEW d \in Dirs, NEW n \in Names,
           NEW e \in Dirs, NEW m \in Names, Directory!Rename(d, n, e, m)
    PROVE  /\ WorldInd' /\ tree' \in [Dirs -> Entries] /\ inside \subseteq inside'
           /\ moved \subseteq moved' /\ gone' = gone /\ named \subseteq named'
           /\ moves' # 0 /\ moves' \in Nat
<1>1. PICK t : t = [tree EXCEPT ![e][m] = tree[d][n], ![d][n] = None]
  OBVIOUS
<1>2. /\ tree \in [Dirs -> [Names -> Directory!Nodes \cup {None}]]
      /\ tree[d][n] # None /\ tree[e][m] = None /\ gone' = gone /\ moved' = moved \cup {tree[d][n]}
      /\ UNCHANGED op /\ moves' = moves + 1
  BY DEF Directory!Rename, Directory!Call, CallInd, Entries
<1>3. /\ t \in [Dirs -> Entries]
      /\ \A b \in Dirs, k \in Names : t[b][k] = tree[b][k] \/ (b = d /\ k = n) \/ (b = e /\ k = m)
  BY <1>1, <1>2 DEF Entries
<1>4. Directory!Observe(t)
  BY <1>1 DEF Directory!Rename
<1>5. /\ tree' = t /\ Closed(t, inside') /\ inside \subseteq inside' /\ named \subseteq named'
      /\ op # None => t[Parent][Name] \in named' \cup {None}
  BY <1>3, <1>4, ObserveFacts
<1>6. ASSUME NEW b \in Dirs, NEW k \in Names
      PROVE  t[b][k] = Start[b][k] \/ Start[b][k] \in gone' \cup moved' \cup {None}
  BY <1>2, <1>3 DEF WorldInd
<1>7. moves' # 0 /\ moves' \in Nat
  BY <1>2 DEF CallInd
<1> QED BY <1>2, <1>3, <1>5, <1>6, <1>7 DEF WorldInd

\* Nothing changes in the file system.
LEMMA KeepWorld ==
    ASSUME CallInd, WorldInd, Directory!Keep, UNCHANGED <<op, moved>>
    PROVE  /\ WorldInd' /\ tree' \in [Dirs -> Entries]
           /\ inside' = inside /\ gone' = gone /\ named' = named
BY DEF CallInd, WorldInd, Directory!Keep, Closed

\* What is gone stays gone.
LEMMA NothingLeftStays ==
    ASSUME NEW f, NEW p, NothingLeft(f, p), gone \cup moved \subseteq gone' \cup moved'
    PROVE  NothingLeft(f, p)'
BY DEF NothingLeft

\* The start, and the other process.
LEMMA DirectoryInitHolds ==
    ASSUME Directory!DirectoriesAssumption, Directory!Init
    PROVE  DirectoryInd
<1>1. CallInd
  BY DEF Directory!Init, Directory!DirectoriesAssumption, CallInd, Entries
<1>2. WorldInd
  BY DEF Directory!Init, WorldInd, Closed
<1> QED BY <1>1, <1>2 DEF Directory!Init, Directory!DirectoriesAssumption, DirectoryInd, StackInd,
       BaseInd, AfterInd, ListInd, Removal, Directory!ListingIsComplete

LEMMA DirectoryRenameKeeps ==
    ASSUME Directory!DirectoriesAssumption, DirectoryInd, NEW d \in Dirs, NEW n \in Names,
           NEW e \in Dirs, NEW m \in Names, Directory!Rename(d, n, e, m)
    PROVE  DirectoryInd'
<1>1. /\ WorldInd' /\ tree' \in [Dirs -> Entries] /\ inside \subseteq inside'
      /\ moved \subseteq moved' /\ gone' = gone /\ named \subseteq named'
      /\ moves' # 0 /\ moves' \in Nat
  BY RenameWorld DEF DirectoryInd
<1>2. UNCHANGED <<op, pc, expected, stack, result, given>>
  BY DEF Directory!Rename, Directory!Call
<1>3. CallInd' /\ StackInd'
  BY <1>1, <1>2 DEF DirectoryInd, CallInd, StackInd, Removal
<1>4. BaseInd'
  BY <1>1, <1>2, NothingLeftStays DEF DirectoryInd, BaseInd, Pending, Removal
<1>5. AfterInd'
  BY <1>1, <1>2 DEF DirectoryInd, AfterInd, Removal
<1>6. ListInd'
  BY <1>1 DEF ListInd, Directory!ListingIsComplete
<1> QED BY <1>1, <1>3, <1>4, <1>5, <1>6 DEF DirectoryInd

-----------------------------------------------------------------------------
(* os_remove below the directory of the path *)

\* What the steps inside have in common.
LEMMA InsideTree ==
    ASSUME Directory!DirectoriesAssumption, DirectoryInd, Directory!Removing,
           UNCHANGED <<op, moves, result>>,
           pc' \in {"loop", "open", "unlink", "rmdir"}, tree' \in [Dirs -> Entries],
           stack' \in Seq(Frames), WorldInd', StackInd', BaseInd'
    PROVE  DirectoryInd'
<1>1. op \in {"remove", "empty"} /\ op # None /\ op # "list"
  BY DEF Directory!Removing, Directory!DirectoriesAssumption
<1>2. CallInd'
  BY <1>1 DEF DirectoryInd, CallInd, Removal
<1>3. AfterInd'
  BY DEF AfterInd
<1>4. ListInd'
  BY <1>1 DEF ListInd, Directory!ListingIsComplete
<1> QED BY <1>2, <1>3, <1>4 DEF DirectoryInd

\* The frame on top is another one of the same directory.
LEMMA TopReplaced ==
    ASSUME Directory!DirectoriesAssumption, DirectoryInd, Directory!Removing, NEW f \in Frames,
           f.dir = Directory!Top.dir, stack' = Directory!SetTop(f),
           UNCHANGED <<op, moves, moved, result>>, Directory!Keep,
           pc' \in {"loop", "open", "unlink"},
           Len(stack) = 1 => NothingLeft(f, pc' \in {"unlink", "open"})
    PROVE  DirectoryInd'
<1>1. /\ WorldInd' /\ tree' \in [Dirs -> Entries] /\ inside' = inside /\ gone' = gone
      /\ WorldInd /\ CallInd /\ StackInd /\ BaseInd
  BY KeepWorld DEF DirectoryInd
<1>2. /\ stack # <<>> /\ stack \in Seq(Frames) /\ stack[Len(stack)] = Directory!Top
      /\ Removal /\ Removal'
  BY <1>1, TopFacts DEF Directory!Removing, CallInd, Removal
<1>3. /\ stack' \in Seq(Frames) /\ Len(stack') = Len(stack) /\ Len(stack) \in Nat \ {0}
      /\ stack'[Len(stack)] = f /\ \A i \in 1 .. Len(stack) : i # Len(stack) => stack'[i] = stack[i]
  <2>1. PICK s, r : s = stack /\ r = stack'
    OBVIOUS
  <2>2. s \in Seq(Frames) /\ s # <<>> /\ IsTopped(s, f, r)
    BY <1>2, <2>1 DEF Directory!SetTop, IsTopped
  <2>3. /\ r \in Seq(Frames) /\ Len(r) = Len(s) /\ Len(s) \in Nat \ {0} /\ r[Len(s)] = f
        /\ \A i \in 1 .. Len(s) : i # Len(s) => r[i] = s[i]
    BY ONLY <2>2, f \in Frames, SetTopFacts
  <2> QED BY <2>1, <2>3
<1>4. StackInd'
  BY <1>1, <1>2, <1>3 DEF StackInd
<1>5. BaseInd'
  <2>1. CASE Len(stack) = 1
    <3>1. stack'[1] = f /\ (Pending' <=> pc' \in {"unlink", "open"})
      BY <1>3, <2>1 DEF Pending
    <3>2. PICK p \in BOOLEAN : p <=> pc' \in {"unlink", "open"}
      OBVIOUS
    <3>3. NothingLeft(f, p)
      BY <2>1, <3>2 DEF NothingLeft
    <3>4. NothingLeft(f, p)'
      BY <1>1, <3>3, NothingLeftStays
    <3> QED BY <3>1, <3>2, <3>4 DEF BaseInd, NothingLeft
  <2>2. CASE Len(stack) # 1
    <3>1. stack'[1] = stack[1] /\ Pending /\ Pending'
      BY <1>3, <2>2 DEF Pending
    <3>2. NothingLeft(stack[1], TRUE)
      BY <1>1, <1>2, <3>1 DEF BaseInd, NothingLeft
    <3> QED BY <1>1, <3>1, <3>2 DEF BaseInd, NothingLeft
  <2> QED BY <2>1, <2>2
<1> QED BY <1>1, <1>3, <1>4, <1>5, InsideTree

\* Examining an entry
LEMMA ExamineKeeps ==
    ASSUME Directory!DirectoriesAssumption, DirectoryInd, NEW n \in Names, Directory!Examine(n)
    PROVE  DirectoryInd'
<1> DEFINE frame == [Directory!Top EXCEPT !.seen = @ \cup {n}, !.name = n]
           f == IF pc' = "loop" THEN [frame EXCEPT !.result = 1] ELSE frame
<1>1. /\ Directory!Removing /\ pc = "loop" /\ Directory!Keep
      /\ UNCHANGED <<op, result, moves, moved>>
      /\ stack' = Directory!SetTop(f)
      /\ pc' \in {"loop", "open", "unlink"}
  BY DEF Directory!Examine
<1>2. /\ Directory!Top \in Frames /\ Len(stack) \in Nat \ {0} /\ stack[Len(stack)] = Directory!Top
  BY <1>1, TopFacts DEF DirectoryInd, Directory!Removing
<1>3. /\ f \in Frames /\ f.dir = Directory!Top.dir /\ f.listed = Directory!Top.listed
      /\ f.seen = Directory!Top.seen \cup {n} /\ f.name = n
      /\ f.result = IF pc' = "loop" THEN 1 ELSE Directory!Top.result
  BY <1>2 DEF Frames
<1>4. ASSUME Len(stack) = 1 PROVE NothingLeft(f, pc' \in {"unlink", "open"})
  <2>1. NothingLeft(Directory!Top, FALSE)
    <3>1. ~Pending /\ Removal /\ stack # <<>>
      BY <1>1, <1>4 DEF Pending, Directory!Removing, Removal
    <3> QED BY <1>2, <1>4, <3>1 DEF DirectoryInd, BaseInd, NothingLeft
  <2>2. CASE pc' = "loop"
    BY <1>3, <2>2 DEF NothingLeft
  <2>3. CASE pc' # "loop"
    <3>1. pc' \in {"unlink", "open"}
      BY <1>1, <2>3
    <3> HIDE DEF f
    <3> QED BY <1>3, <2>1, <2>3, <3>1 DEF NothingLeft
  <2> QED BY <2>2, <2>3
<1> HIDE DEF f
<1> QED BY <1>1, <1>3, <1>4, TopReplaced

\* and failing with it;
LEMMA FaultKeeps ==
    ASSUME Directory!DirectoriesAssumption, DirectoryInd, Directory!Removing, pc' = "loop",
           stack' = Directory!Fault, Directory!Keep, UNCHANGED <<op, result, moves, moved>>
    PROVE  DirectoryInd'
<1> DEFINE f == [Directory!Top EXCEPT !.result = 1]
<1>1. Directory!Top \in Frames
  BY TopFacts DEF DirectoryInd, Directory!Removing
<1>2. f \in Frames /\ f.dir = Directory!Top.dir /\ f.result = 1 /\ stack' = Directory!SetTop(f)
  BY <1>1 DEF Frames, Directory!Fault
<1>3. NothingLeft(f, pc' \in {"unlink", "open"})
  BY <1>2 DEF NothingLeft
<1> HIDE DEF f
<1> QED BY <1>2, <1>3, TopReplaced

\* removing it,
LEMMA RemovedKeeps ==
    ASSUME Directory!DirectoriesAssumption, DirectoryInd, Directory!Removing, pc' = "loop",
           tree[Directory!Top.dir][Directory!Top.name] # None,
           Directory!Detach(Directory!Top.dir, Directory!Top.name),
           UNCHANGED <<stack, op, result, moves, moved>>
    PROVE  DirectoryInd'
<1>1. /\ Len(stack) \in Nat \ {0} /\ stack[Len(stack)] = Directory!Top
      /\ Directory!Top.dir \in Dirs /\ Directory!Top.name \in Names
      /\ CallInd /\ WorldInd /\ StackInd /\ BaseInd /\ stack \in Seq(Frames)
      /\ stack[1].dir \in Dirs
  BY TopFacts DEF DirectoryInd, Directory!Removing, CallInd, Frames
<1>2. op # None /\ Removal /\ stack # <<>>
  BY DEF Directory!Removing, Removal, Directory!DirectoriesAssumption
<1>3. PICK d \in Dirs, n \in Names : d = Directory!Top.dir /\ n = Directory!Top.name
  BY <1>1
<1>4. tree[d][n] \in inside
  <2>1. d \in inside /\ tree[d][n] # None
    BY <1>1, <1>2, <1>3 DEF StackInd
  <2> QED BY <1>1, <2>1 DEF WorldInd, Closed
<1>5. /\ WorldInd' /\ tree' \in [Dirs -> Entries] /\ inside \subseteq inside'
      /\ gone' = gone \cup {tree[d][n]}
  BY <1>1, <1>2, <1>3, <1>4, DetachKeeps
<1>6. StackInd'
  BY <1>1, <1>2, <1>5 DEF StackInd, Removal
<1>7. BaseInd'
  <2>1. CASE Len(stack) = 1
    <3>1. NothingLeft(stack[1], TRUE)
      BY <1>1, <1>2 DEF BaseInd, NothingLeft
    <3>2. stack[1].dir = d /\ stack[1].name = n
      BY <1>1, <1>3, <2>1
    <3>3. Start[d][n] \in gone' \cup moved' \cup {None}
      BY <1>1, <1>5 DEF WorldInd
    <3>4. NothingLeft(stack[1], FALSE)'
      BY <1>5, <3>1, <3>2, <3>3 DEF NothingLeft
    <3> QED BY <3>4 DEF BaseInd, NothingLeft
  <2>2. CASE Len(stack) # 1
    <3>1. Pending /\ Pending'
      <4>1. PICK k \in Nat \ {0} : k = Len(stack)
        BY <1>1
      <4>2. k > 1
        BY <2>2, <4>1
      <4> QED BY <4>1, <4>2 DEF Pending
    <3>2. NothingLeft(stack[1], Pending)
      BY <1>1, <1>2 DEF BaseInd
    <3> QED BY <1>5, <3>1, <3>2 DEF BaseInd, NothingLeft
  <2> QED BY <2>1, <2>2
<1> QED BY <1>1, <1>5, <1>6, <1>7, InsideTree

\* that is, unlinkat of an entry that is no directory, or of an emptied one,
LEMMA UnlinkKeeps ==
    ASSUME Directory!DirectoriesAssumption, DirectoryInd, Directory!Unlink \/ Directory!RemoveChild
    PROVE  DirectoryInd'
<1>1. /\ Directory!Removing /\ pc' = "loop" /\ UNCHANGED <<op, result, moves, moved>>
      /\ \/ /\ tree[Directory!Top.dir][Directory!Top.name] # None /\ stack' = stack
            /\ Directory!Detach(Directory!Top.dir, Directory!Top.name)
         \/ stack' = Directory!Fault /\ Directory!Keep
  BY DEF Directory!Unlink, Directory!RemoveChild, Directory!Removable
<1> QED BY <1>1, RemovedKeeps, FaultKeeps

\* opening a directory found in it,
LEMMA OpenChildKeeps ==
    ASSUME Directory!DirectoriesAssumption, DirectoryInd, Directory!OpenChild
    PROVE  DirectoryInd'
<1> DEFINE top == Directory!Top
           d == Directory!Opened(top.dir, top.name)
           frame == Directory!Frame(d, Name)
<1>1. /\ Directory!Removing /\ pc = "open" /\ pc' = "loop" /\ Directory!Keep
      /\ UNCHANGED <<op, result, moves, moved>>
      /\ stack' = Directory!Fault \/ (d # None /\ stack' = Append(stack, frame))
  BY DEF Directory!OpenChild
<1>2. CASE stack' = Directory!Fault
  BY <1>1, <1>2, FaultKeeps
<1>3. CASE d # None /\ stack' = Append(stack, frame)
  <2>1. /\ WorldInd' /\ tree' \in [Dirs -> Entries] /\ inside' = inside /\ gone' = gone
        /\ WorldInd /\ CallInd /\ StackInd /\ BaseInd
    BY <1>1, KeepWorld DEF DirectoryInd
  <2>2. /\ stack # <<>> /\ stack \in Seq(Frames) /\ Len(stack) \in Nat \ {0}
        /\ stack[Len(stack)] = top /\ top.dir \in Dirs /\ top.name \in Names /\ Removal
    BY <1>1, <2>1, TopFacts DEF Directory!Removing, CallInd, Removal
  <2>3. d = tree[top.dir][top.name] /\ d \in Dirs
    BY <1>3 DEF Directory!Opened
  <2>4. d \in inside
    <3>1. top.dir \in inside
      BY <2>1, <2>2 DEF StackInd
    <3> QED BY <1>3, <2>1, <2>2, <2>3, <3>1 DEF WorldInd, Closed
  <2>5. frame \in Frames /\ frame.dir = d
    BY <2>3 DEF Directory!Frame, Frames, Directory!DirectoriesAssumption
  <2> HIDE DEF frame, d, top
  <2>6. /\ stack' \in Seq(Frames) /\ Len(stack') = Len(stack) + 1
        /\ stack'[Len(stack) + 1] = frame /\ \A i \in 1 .. Len(stack) : stack'[i] = stack[i]
    BY <1>1, <1>3, <2>2, <2>5
  <2>7. StackInd'
    BY <1>1, <2>1, <2>2, <2>4, <2>5, <2>6 DEF StackInd, Removal
  <2>8. BaseInd'
    <3>1. stack'[1] = stack[1] /\ Pending /\ Pending'
      BY <1>1, <2>2, <2>6 DEF Pending
    <3>2. NothingLeft(stack[1], Pending)
      BY <2>1, <2>2 DEF BaseInd
    <3> QED BY <1>1, <2>1, <3>1, <3>2 DEF BaseInd, NothingLeft
  <2> QED BY <1>1, <2>1, <2>6, <2>7, <2>8, InsideTree
<1> QED BY <1>1, <1>2, <1>3

\* and leaving it again.
LEMMA LeaveChildKeeps ==
    ASSUME Directory!DirectoriesAssumption, DirectoryInd, Directory!LeaveChild
    PROVE  DirectoryInd'
<1>1. /\ Directory!Removing /\ pc' \in {"rmdir", "loop"} /\ Len(stack) > 1 /\ Directory!Keep
      /\ UNCHANGED <<op, result, moves, moved>>
      /\ \/ pc' = "rmdir" /\ stack' = Directory!Front(stack)
         \/ stack' = Append(Directory!Front(Directory!Front(stack)),
                            [stack[Len(stack) - 1] EXCEPT !.result = 1])
  BY DEF Directory!LeaveChild
<1>2. /\ WorldInd' /\ tree' \in [Dirs -> Entries] /\ inside' = inside /\ gone' = gone
      /\ WorldInd /\ CallInd /\ StackInd /\ BaseInd
  BY <1>1, KeepWorld DEF DirectoryInd
<1>3. /\ stack # <<>> /\ stack \in Seq(Frames) /\ Len(stack) \in Nat \ {0} /\ Removal
      /\ \A i \in 1 .. Len(stack) : stack[i] \in Frames
  BY <1>1, <1>2, TopFacts DEF Directory!Removing, CallInd, Removal
<1>4. PICK n \in Nat \ {0} : n = Len(stack) - 1
  BY <1>1, <1>3
<1>5. NothingLeft(stack[1], TRUE)
  BY <1>1, <1>2, <1>3 DEF BaseInd, Pending, NothingLeft
<1>6. /\ Directory!Front(stack) \in Seq(Frames) /\ Len(Directory!Front(stack)) = n
      /\ \A i \in 1 .. n : Directory!Front(stack)[i] = stack[i]
  BY <1>3, <1>4, FrontFacts
<1>7. /\ stack' \in Seq(Frames) /\ Len(stack') = n
      /\ \A i \in 1 .. n : stack'[i].dir = stack[i].dir
      /\ stack'[1] = stack[1] \/ (n = 1 /\ stack'[1].result = 1)
      /\ n = 1 => pc' = "rmdir" \/ stack'[1].result = 1
  <2>1. CASE pc' = "rmdir" /\ stack' = Directory!Front(stack)
    BY <1>4, <1>6, <2>1
  <2>2. CASE stack' = Append(Directory!Front(Directory!Front(stack)),
                             [stack[Len(stack) - 1] EXCEPT !.result = 1])
    <3>1. PICK f, g : /\ f = [stack[n] EXCEPT !.result = 1]
                      /\ g = Directory!Front(Directory!Front(stack))
                      /\ stack' = Append(g, f)
      BY <1>4, <2>2
    <3>2. n \in 1 .. Len(stack) /\ stack[n] \in Frames
      BY <1>3, <1>4
    <3>3. f \in Frames /\ f.dir = stack[n].dir /\ f.result = 1
      BY <3>1, <3>2 DEF Frames
    <3>4. Directory!Front(stack) # <<>>
      BY <1>6
    <3>5. /\ g \in Seq(Frames) /\ Len(g) = n - 1
          /\ \A i \in 1 .. n - 1 : g[i] = stack[i]
      <4>1. PICK s : s = Directory!Front(stack)
        OBVIOUS
      <4>2. s \in Seq(Frames) /\ s # <<>> /\ Len(s) = n /\ g = Directory!Front(s)
        BY <1>6, <3>1, <3>4, <4>1
      <4>3. Len(g) = n - 1 /\ g \in Seq(Frames) /\ \A i \in 1 .. n - 1 : g[i] = s[i]
        BY <4>2, FrontFacts
      <4> QED BY <1>6, <4>1, <4>3
    <3>6. /\ stack' \in Seq(Frames) /\ Len(stack') = n /\ stack'[n] = f
          /\ \A i \in 1 .. n - 1 : stack'[i] = stack[i]
      BY <3>1, <3>3, <3>5
    <3> QED BY <3>3, <3>6
  <2> QED BY <1>1, <2>1, <2>2
<1>8. StackInd'
  BY <1>1, <1>2, <1>3, <1>4, <1>7 DEF StackInd
<1>9. BaseInd'
  <2>1. CASE stack'[1].result = 1
    BY <2>1 DEF BaseInd, NothingLeft
  <2>2. CASE stack'[1] = stack[1] /\ Pending'
    BY <1>1, <1>2, <1>5, <2>2 DEF BaseInd, NothingLeft
  <2>3. n # 1 => Pending'
    BY <1>7 DEF Pending
  <2>4. pc' = "rmdir" => Pending'
    BY DEF Pending
  <2> QED BY <1>7, <2>1, <2>2, <2>3, <2>4
<1> QED BY <1>1, <1>2, <1>7, <1>8, <1>9, InsideTree

-----------------------------------------------------------------------------
(* os_remove at the directory of the path *)

\* The beginning,
LEMMA BeginKeeps ==
    ASSUME Directory!DirectoriesAssumption, DirectoryInd, NEW what \in {"remove", "empty", "list"},
           Directory!Begin(what)
    PROVE  DirectoryInd'
<1>1. /\ op = None /\ op' = what /\ expected' = tree[Parent][Name]
      /\ named' = {tree[Parent][Name]} \ {None} /\ inside' = {} /\ gone' = {} /\ given' = {}
      /\ stack' = <<>> /\ result' = 0 /\ UNCHANGED <<tree, moves, moved>>
      /\ pc' \in {"opendir", "fail", "open", "remove"} /\ (pc' = "opendir" <=> what = "list")
      /\ pc' = "remove" => expected' \notin Dirs
  BY DEF Directory!Begin
<1>2. CallInd /\ WorldInd /\ ListInd /\ gone = {} /\ what # None
  BY <1>1 DEF DirectoryInd, WorldInd, Directory!DirectoriesAssumption
<1>3. CallInd'
  <2>1. /\ tree' \in [Dirs -> Entries] /\ stack' \in Seq(Frames) /\ result' \in {0, 1}
        /\ moves' \in Nat /\ op' \in {None, "remove", "empty", "list"} /\ op' # None
    BY <1>1, <1>2 DEF CallInd
  <2>2. pc' \in {"opendir", "fail", "open", "remove"} /\ (pc' = "opendir" <=> op' = "list")
    BY <1>1
  <2>3. pc' = "open" => op' \in {"remove", "empty"}
    BY <1>1
  <2> QED BY <2>1, <2>2, <2>3 DEF CallInd, Removal
<1>4. WorldInd'
  BY <1>1, <1>2 DEF WorldInd, Closed
<1>5. StackInd' /\ BaseInd'
  BY <1>1 DEF StackInd, BaseInd
<1>6. AfterInd'
  BY <1>1 DEF AfterInd
<1>7. ListInd'
  BY <1>1, <1>2 DEF ListInd, Directory!ListingIsComplete
<1> QED BY <1>3, <1>4, <1>5, <1>6, <1>7 DEF DirectoryInd

\* the directory of the path,
LEMMA OpenBaseKeeps ==
    ASSUME Directory!DirectoriesAssumption, DirectoryInd, Directory!OpenBase
    PROVE  DirectoryInd'
<1> DEFINE d == Directory!Opened(Parent, Name)
           frame == Directory!Frame(d, Name)
<1>1. /\ pc = "open" /\ stack = <<>> /\ UNCHANGED <<tree, op, moves, moved, named, gone>>
      /\ \/ /\ stack' = stack /\ inside' = inside
            /\ \/ pc' = "fail" /\ result' = result
               \/ pc' \in {"lstat", "done"} /\ result' = 1
         \/ /\ d # None /\ pc' = "loop" /\ stack' = <<frame>> /\ result' = result
            /\ inside' = Directory!Below(tree, inside \cup {d})
  BY DEF Directory!OpenBase, Directory!AfterBase
<1>2. /\ CallInd /\ WorldInd /\ Parent \in Dirs
      /\ op \in {"remove", "empty"} /\ op # None /\ op # "list"
  BY <1>1 DEF DirectoryInd, CallInd, Removal, Directory!DirectoriesAssumption
<1>3. AfterInd'
  BY <1>1 DEF AfterInd
<1>4. ListInd'
  BY <1>1, <1>2 DEF ListInd, Directory!ListingIsComplete
<1>5. CASE stack' = stack /\ inside' = inside /\ pc' \in {"fail", "lstat", "done"}
           /\ result' \in {result, 1}
  <2>1. CallInd' /\ WorldInd' /\ StackInd' /\ BaseInd'
    BY <1>1, <1>2, <1>5 DEF CallInd, WorldInd, Closed, StackInd, BaseInd, Removal
  <2> QED BY <1>3, <1>4, <2>1 DEF DirectoryInd
<1>6. CASE /\ d # None /\ pc' = "loop" /\ stack' = <<frame>> /\ result' = result
           /\ inside' = Directory!Below(tree, inside \cup {d})
  <2>1. d \in Dirs
    BY <1>6 DEF Directory!Opened
  <2>2. /\ frame \in Frames /\ frame.dir = d /\ frame.seen = {}
        /\ frame.listed = {m \in Names : tree[d][m] # None}
    BY <2>1 DEF Directory!Frame, Frames, Directory!DirectoriesAssumption
  <2> HIDE DEF frame, d
  <2>3. inside \cup {d} \subseteq inside' /\ Closed(tree, inside')
    <3>1. tree \in [Dirs -> Entries]
      BY <1>2 DEF CallInd
    <3> QED BY <1>6, <3>1, BelowIsClosed
  <2>4. CallInd'
    <3>1. stack' \in Seq(Frames) /\ pc' = "loop"
      BY <1>1, <1>6, <2>2, OneFrame
    <3> QED BY <1>1, <1>2, <3>1 DEF CallInd, Removal
  <2>5. WorldInd'
    BY <1>1, <1>2, <2>3 DEF WorldInd
  <2>6. StackInd'
    <3>1. Len(stack') = 1 /\ stack'[1].dir \in inside'
      BY <1>6, <2>2, <2>3, OneFrame
    <3> QED BY <3>1 DEF StackInd
  <2>7. NothingLeft(frame, FALSE)
    <3>1. \A m \in Names : Start[d][m] \in gone \cup moved \cup {None} \/ m \in frame.listed
      BY <1>2, <2>1, <2>2 DEF WorldInd
    <3> QED BY <2>2, <3>1 DEF NothingLeft
  <2>8. BaseInd'
    <3>1. stack'[1] = frame /\ ~Pending'
      BY <1>1, <1>6 DEF Pending
    <3>2. gone' = gone /\ moved' = moved
      BY <1>1
    <3> QED BY <2>7, <3>1, <3>2 DEF BaseInd, NothingLeft
  <2> QED BY <1>3, <1>4, <2>4, <2>5, <2>6, <2>8 DEF DirectoryInd
<1> QED BY <1>1, <1>5, <1>6

\* and its end: nothing of the start is left,
LEMMA LeaveBaseKeeps ==
    ASSUME Directory!DirectoriesAssumption, DirectoryInd, Directory!LeaveBase
    PROVE  DirectoryInd'
<1>1. /\ Directory!Removing /\ pc = "loop" /\ Len(stack) = 1 /\ stack' = <<>>
      /\ result' = 1 \/ (Directory!NoMore /\ result' = Directory!Top.result)
      /\ expected' = Directory!Top.dir /\ pc' = (IF op = "remove" THEN "lstat" ELSE "done")
      /\ Directory!Keep /\ UNCHANGED <<op, moves, moved>>
  BY DEF Directory!LeaveBase, Directory!Outcomes, Directory!AfterBase
<1>2. /\ WorldInd' /\ tree' \in [Dirs -> Entries] /\ gone' = gone
      /\ WorldInd /\ CallInd /\ BaseInd
  BY <1>1, KeepWorld DEF DirectoryInd
<1>3. /\ stack # <<>> /\ stack[1] = Directory!Top /\ Directory!Top \in Frames
      /\ Directory!Top.dir \in Dirs
      /\ op \in {"remove", "empty"} /\ op # None /\ op # "list"
  BY <1>1, <1>2, TopFacts DEF Directory!Removing, Directory!DirectoriesAssumption
<1>4. CallInd'
  BY <1>1, <1>2, <1>3 DEF CallInd, Frames, Removal
<1>5. StackInd' /\ BaseInd'
  BY <1>1 DEF StackInd, BaseInd
<1>6. ListInd'
  BY <1>1, <1>3 DEF ListInd, Directory!ListingIsComplete
<1>7. AfterInd'
  <2>1. ASSUME result' = 0, NEW n \in Names
        PROVE  Start[expected'][n] \in gone' \cup moved' \cup {None}
    <3>1. NothingLeft(Directory!Top, FALSE)
      BY <1>1, <1>2, <1>3 DEF BaseInd, Pending, NothingLeft, Removal
    <3>2. CASE n \in Directory!Top.listed \ Directory!Top.seen
      <4>1. tree[Directory!Top.dir][n] = None
        BY <1>1, <2>1, <3>2 DEF Directory!NoMore
      <4> QED BY <1>1, <1>2, <1>3, <4>1 DEF WorldInd
    <3>3. Directory!Top.result # 1
      BY <1>1, <2>1
    <3> QED BY <1>1, <1>2, <3>1, <3>2, <3>3 DEF NothingLeft
  <2> QED BY <1>1, <2>1 DEF AfterInd
<1> QED BY <1>2, <1>4, <1>5, <1>6, <1>7 DEF DirectoryInd

\* the test that the path still names it,
LEMMA CheckBaseKeeps ==
    ASSUME Directory!DirectoriesAssumption, DirectoryInd, Directory!CheckBase \/ Directory!Fail
    PROVE  DirectoryInd'
<1>1. /\ Directory!Keep /\ UNCHANGED <<op, expected, stack, given, moves, moved>>
      /\ \/ pc = "lstat" /\ pc' = "remove" /\ result' = result
         \/ pc \in {"lstat", "fail"} /\ pc' = "done" /\ result' = 1
  BY DEF Directory!CheckBase, Directory!Fail
<1>2. /\ WorldInd' /\ tree' \in [Dirs -> Entries] /\ tree' = tree
      /\ inside' = inside /\ gone' = gone /\ named' = named
      /\ WorldInd /\ CallInd /\ StackInd /\ BaseInd /\ AfterInd /\ ListInd
  BY <1>1, KeepWorld DEF DirectoryInd, Directory!Keep
<1>3. CallInd'
  BY <1>1, <1>2 DEF CallInd, Removal
<1>4. StackInd'
  BY <1>1, <1>2 DEF StackInd, Removal
<1>5. BaseInd'
  BY <1>1, <1>2 DEF BaseInd, Removal, NothingLeft, Pending
<1>6. AfterInd'
  BY <1>1, <1>2 DEF AfterInd, Removal
<1>7. ListInd'
  BY <1>1, <1>2 DEF ListInd, Directory!ListingIsComplete
<1> QED BY <1>2, <1>3, <1>4, <1>5, <1>6, <1>7 DEF DirectoryInd

\* and its removal, or that of a file.
LEMMA RemoveBaseKeeps ==
    ASSUME Directory!DirectoriesAssumption, DirectoryInd, Directory!RemoveBase
    PROVE  DirectoryInd'
<1>1. /\ pc = "remove" /\ pc' = "done" /\ UNCHANGED <<op, expected, stack, given, moves, moved>>
      /\ \/ /\ tree[Parent][Name] # None /\ Directory!Detach(Parent, Name) /\ result' = result
         \/ result' = 1 /\ Directory!Keep
  BY DEF Directory!RemoveBase, Directory!Removable
<1>2. /\ WorldInd /\ CallInd /\ StackInd /\ BaseInd /\ AfterInd /\ ListInd
      /\ op # None /\ op # "list" /\ Parent \in Dirs /\ Name \in Names
  BY <1>1 DEF DirectoryInd, CallInd, Directory!DirectoriesAssumption
<1>3. /\ WorldInd' /\ tree' \in [Dirs -> Entries]
      /\ inside \subseteq inside' /\ gone \subseteq gone'
      /\ result' = 0 => result = 0 /\ gone' \cap named' # {}
  <2>1. CASE result' = 1 /\ Directory!Keep
    BY <1>1, <1>2, <2>1, KeepWorld
  <2>2. CASE tree[Parent][Name] # None /\ Directory!Detach(Parent, Name) /\ result' = result
    <3>1. PICK x : x = tree[Parent][Name] /\ x \in named
      BY <1>2, <2>2 DEF WorldInd
    <3>2. /\ WorldInd' /\ tree' \in [Dirs -> Entries] /\ inside \subseteq inside'
          /\ gone' = gone \cup {x} /\ named \subseteq named'
      BY <1>1, <1>2, <2>2, <3>1, DetachKeeps
    <3> QED BY <2>2, <3>1, <3>2
  <2> QED BY <1>1, <2>1, <2>2
<1>4. CallInd'
  BY <1>1, <1>2, <1>3 DEF CallInd, Removal
<1>5. StackInd'
  BY <1>1, <1>2, <1>3 DEF StackInd, Removal
<1>6. BaseInd'
  <2>1. Pending' <=> Pending
    BY <1>1 DEF Pending
  <2> QED BY <1>1, <1>2, <1>3, <2>1 DEF BaseInd, Removal, NothingLeft
<1>7. AfterInd'
  BY <1>1, <1>2, <1>3 DEF AfterInd, Removal
<1>8. ListInd'
  BY <1>1, <1>2 DEF ListInd, Directory!ListingIsComplete
<1> QED BY <1>3, <1>4, <1>5, <1>6, <1>7, <1>8 DEF DirectoryInd

-----------------------------------------------------------------------------
(* os_listdir *)

\* What its steps have in common.
LEMMA InListing ==
    ASSUME Directory!DirectoriesAssumption, DirectoryInd, op = "list", Directory!Keep,
           UNCHANGED <<op, moves, moved>>, pc' \in {"loop", "fail", "done"},
           stack' \in Seq(Frames), pc' = "loop" => Len(stack') = 1, result' \in {0, 1}, ListInd'
    PROVE  DirectoryInd'
<1>1. op # "remove" /\ op # "empty" /\ op # None
  BY DEF Directory!DirectoriesAssumption
<1>2. WorldInd' /\ tree' \in [Dirs -> Entries] /\ CallInd
  BY KeepWorld DEF DirectoryInd
<1>3. CallInd'
  BY <1>1, <1>2 DEF CallInd, Removal
<1>4. StackInd' /\ BaseInd' /\ AfterInd'
  BY <1>1 DEF StackInd, BaseInd, AfterInd, Removal
<1> QED BY <1>2, <1>3, <1>4 DEF DirectoryInd

\* opendir
LEMMA OpenDirectoryKeeps ==
    ASSUME Directory!DirectoriesAssumption, DirectoryInd, Directory!OpenDirectory
    PROVE  DirectoryInd'
<1> DEFINE d == Directory!Resolved(tree, Parent, Name)
           frame == Directory!Frame(d, Name)
<1>1. /\ op = "list" /\ pc = "opendir" /\ Directory!Keep
      /\ UNCHANGED <<op, result, given, moves, moved>>
      /\ \/ pc' = "fail" /\ stack' = stack
         \/ d # None /\ pc' = "loop" /\ stack' = <<frame>>
  BY DEF Directory!OpenDirectory
<1>2. CallInd /\ ListInd /\ tree' = tree
  BY <1>1 DEF DirectoryInd, Directory!Keep
<1>3. CASE pc' = "fail" /\ stack' = stack
  <2>1. ListInd'
    BY <1>1, <1>2, <1>3 DEF ListInd, Directory!ListingIsComplete
  <2> QED BY <1>1, <1>2, <1>3, <2>1, InListing DEF CallInd
<1>4. CASE d # None /\ pc' = "loop" /\ stack' = <<frame>>
  <2>1. d \in Dirs
    BY <1>4 DEF Directory!Resolved, Directory!DirectoriesAssumption
  <2>2. /\ frame \in Frames /\ frame.dir = d /\ frame.seen = {}
        /\ frame.listed = {m \in Names : tree[d][m] # None}
    BY <2>1 DEF Directory!Frame, Frames, Directory!DirectoriesAssumption
  <2>3. moves = 0 => tree = Start /\ given = {} /\ d = Directory!Resolved(Start, Parent, Name)
    BY <1>1, <1>2 DEF ListInd
  <2> HIDE DEF frame, d
  <2>4. stack' \in Seq(Frames) /\ Len(stack') = 1 /\ stack'[1] = frame /\ pc' = "loop"
    BY <1>1, <1>4, <2>2, OneFrame
  <2>5. op # None
    BY <1>1 DEF Directory!DirectoriesAssumption
  <2>6. ListInd'
    BY <1>1, <1>2, <2>2, <2>3, <2>4, <2>5 DEF ListInd, Directory!ListingIsComplete
  <2> QED BY <1>1, <1>2, <2>4, <2>6, InListing DEF CallInd
<1> QED BY <1>1, <1>3, <1>4

\* an entry
LEMMA ListKeeps ==
    ASSUME Directory!DirectoriesAssumption, DirectoryInd, NEW n \in Names, Directory!List(n)
    PROVE  DirectoryInd'
<1> DEFINE top == Directory!Top
           d == Directory!Resolved(tree, Parent, Name)
           node == IF d = None THEN None ELSE tree[d][n]
           frame == [top EXCEPT !.seen = @ \cup {n}]
           failed == [frame EXCEPT !.result = 1]
<1>0. PICK f : /\ stack' = Directory!SetTop(f)
               /\ \/ f = frame /\ Directory!Listable(node) /\ given' = given \cup {n}
                  \/ f = failed /\ given' = given
  BY DEF Directory!List
<1>1. /\ op = "list" /\ pc = "loop" /\ Directory!Keep /\ UNCHANGED <<op, pc, result, moves, moved>>
      /\ tree[top.dir][n] # None \/ n \in top.listed
      /\ stack' = Directory!SetTop(f)
  BY <1>0 DEF Directory!List
<1>2. CallInd /\ ListInd /\ tree' = tree
  BY <1>1 DEF DirectoryInd, Directory!Keep
<1>3. Len(stack) = 1 /\ stack # <<>> /\ stack \in Seq(Frames) /\ top = stack[1] /\ top \in Frames
  <2>1. Len(stack) = 1 /\ stack \in Seq(Frames)
    BY <1>1, <1>2 DEF CallInd
  <2>2. stack # <<>>
    BY <2>1, NotEmpty
  <2> QED BY <1>2, <2>1, <2>2, TopFacts
<1>4. /\ f \in Frames /\ f.dir = top.dir /\ f.listed = top.listed /\ f.seen = top.seen \cup {n}
      /\ \/ f.result = top.result /\ Directory!Listable(node) /\ given' = given \cup {n}
         \/ f.result = 1 /\ given' = given
  <2>1. PICK t \in Frames : t = top
    BY <1>3
  <2>2. /\ frame \in Frames /\ frame.dir = t.dir /\ frame.listed = t.listed
        /\ frame.seen = t.seen \cup {n} /\ frame.result = t.result
    BY <2>1 DEF Frames
  <2>3. /\ failed \in Frames /\ failed.dir = t.dir /\ failed.listed = t.listed
        /\ failed.seen = t.seen \cup {n} /\ failed.result = 1
    BY <2>1 DEF Frames
  <2> HIDE DEF frame, failed, node, top
  <2> QED BY <1>0, <2>1, <2>2, <2>3
<1>5. pc' = "loop" /\ op # None
  BY <1>1 DEF Directory!DirectoriesAssumption
<1>6. stack' \in Seq(Frames) /\ Len(stack') = 1 /\ stack'[1] = f
  <2>1. PICK s, r : s = stack /\ r = stack'
    OBVIOUS
  <2>2. s \in Seq(Frames) /\ s # <<>> /\ IsTopped(s, f, r)
    BY <1>1, <1>3, <2>1 DEF Directory!SetTop, IsTopped
  <2>3. r \in Seq(Frames) /\ Len(r) = Len(s) /\ r[Len(s)] = f
    BY <1>4, <2>2, SetTopFacts
  <2> QED BY <1>3, <2>1, <2>3
<1>7. ASSUME moves = 0
      PROVE  /\ f.dir = Directory!Resolved(Start, Parent, Name)
             /\ f.listed = {m \in Names : Start[f.dir][m] # None}
             /\ \A m \in given' : m \in f.listed /\ Start[f.dir][m] \notin Links
             /\ f.result = 0 => f.seen \subseteq given'
             /\ tree = Start
  <2>1. /\ tree = Start /\ top.dir = Directory!Resolved(Start, Parent, Name) /\ top.dir \in Dirs
        /\ top.listed = {m \in Names : Start[top.dir][m] # None}
        /\ \A m \in given : m \in top.listed /\ Start[top.dir][m] \notin Links
        /\ top.result = 0 => top.seen \subseteq given
    BY <1>1, <1>2, <1>3, <1>7 DEF ListInd, Frames
  <2>2. d = top.dir /\ d # None
    <3>1. None \notin Dirs
      BY DEF Directory!DirectoriesAssumption, Directory!Nodes
    <3> QED BY <2>1, <3>1
  <2>3. node = Start[top.dir][n]
    BY <2>1, <2>2
  <2> HIDE DEF node, d, top
  <2>4. CASE f.result = top.result /\ Directory!Listable(node) /\ given' = given \cup {n}
    BY <1>1, <1>4, <2>1, <2>3, <2>4 DEF Directory!Listable
  <2>5. CASE f.result = 1 /\ given' = given
    BY <1>1, <1>4, <2>1, <2>5
  <2> QED BY <1>4, <2>4, <2>5
<1>8. ListInd'
  BY <1>1, <1>2, <1>5, <1>6, <1>7 DEF ListInd, Directory!ListingIsComplete
<1>9. result' \in {0, 1}
  BY <1>1, <1>2 DEF CallInd
<1> QED BY <1>1, <1>5, <1>6, <1>8, <1>9, InListing

\* and the end.
LEMMA CloseDirectoryKeeps ==
    ASSUME Directory!DirectoriesAssumption, DirectoryInd, Directory!CloseDirectory
    PROVE  DirectoryInd'
<1>1. /\ op = "list" /\ pc = "loop" /\ pc' = "done" /\ Directory!Keep
      /\ result' = 1 \/ (Directory!NoMore /\ result' = Directory!Top.result)
      /\ UNCHANGED <<op, stack, given, moves, moved>>
  BY DEF Directory!CloseDirectory, Directory!Outcomes
<1>2. CallInd /\ ListInd /\ tree' = tree /\ op # None
  BY <1>1 DEF DirectoryInd, Directory!Keep, Directory!DirectoriesAssumption
<1>3. /\ Len(stack) = 1 /\ stack # <<>> /\ stack \in Seq(Frames)
      /\ Directory!Top = stack[1] /\ Directory!Top \in Frames
  <2>1. Len(stack) = 1 /\ stack \in Seq(Frames)
    BY <1>1, <1>2 DEF CallInd
  <2>2. stack # <<>>
    BY <2>1, NotEmpty
  <2> QED BY <1>2, <2>1, <2>2, TopFacts
<1>4. ASSUME moves = 0, result' = 0
      PROVE  LET d == Directory!Resolved(Start, Parent, Name)
             IN  /\ given = {n \in Names : Start[d][n] # None}
                 /\ \A n \in given : Start[d][n] \notin Links
  <2>1. PICK top : top = Directory!Top
    OBVIOUS
  <2>2. /\ tree = Start /\ top.dir = Directory!Resolved(Start, Parent, Name)
        /\ top.listed = {m \in Names : Start[top.dir][m] # None}
        /\ \A m \in given : m \in top.listed /\ Start[top.dir][m] \notin Links
        /\ top.seen \subseteq given
    BY <1>1, <1>2, <1>3, <1>4, <2>1 DEF ListInd
  <2>3. top.listed \subseteq top.seen
    BY <1>1, <1>4, <2>1, <2>2 DEF Directory!NoMore
  <2> QED BY <2>2, <2>3
<1>5. ListInd'
  BY <1>1, <1>2, <1>4 DEF ListInd, Directory!ListingIsComplete
<1>6. result' \in {0, 1}
  BY <1>1, <1>3 DEF Frames
<1> QED BY <1>1, <1>3, <1>5, <1>6, InListing

\* Together.
LEMMA DirectoryNextKeeps ==
    ASSUME Directory!DirectoriesAssumption, DirectoryInd, Directory!Next
    PROVE  DirectoryInd'
<1>1. CASE Directory!CallStep
  BY <1>1, ExamineKeeps, UnlinkKeeps, OpenChildKeeps, LeaveChildKeeps, OpenBaseKeeps,
     LeaveBaseKeeps, CheckBaseKeeps, RemoveBaseKeeps, OpenDirectoryKeeps, ListKeeps,
     CloseDirectoryKeeps
  DEF Directory!CallStep
<1> QED BY <1>1, BeginKeeps, DirectoryRenameKeeps DEF Directory!Next

\* The invariant says what the properties do.
LEMMA DirectoryIndHolds ==
    ASSUME Directory!DirectoriesAssumption, DirectoryInd
    PROVE  /\ Directory!OnlyTheTreeIsRemoved /\ Directory!ZeroMeansGone
           /\ Directory!ListingIsComplete
<1>1. Directory!OnlyTheTreeIsRemoved
  BY DEF DirectoryInd, WorldInd, Directory!OnlyTheTreeIsRemoved
<1>2. Directory!ListingIsComplete
  BY DEF DirectoryInd, ListInd
<1>3. ASSUME pc = "done", op # "list", result = 0
      PROVE  /\ expected \in Dirs => Directory!Children(Start, expected) \subseteq gone \cup moved
             /\ op = "remove" /\ named = {expected} => expected \in gone
  <2>1. Removal
    BY <1>3 DEF DirectoryInd, CallInd, Removal
  <2> QED BY <1>3, <2>1 DEF DirectoryInd, AfterInd, Directory!Children
<1> QED BY <1>1, <1>2, <1>3 DEF Directory!ZeroMeansGone

-----------------------------------------------------------------------------
(* Paths: a walk, step by step *)

\* Where a walk may be.
Errors == {"none", "ENOTDIR", "ENOENT", "ELOOP"}
Ways == [error : Errors, at : Seq(PathNames), rest : Seq(Path!Components), links : Nat]
Beginning(p, r) == [error |-> "none", at |-> p, rest |-> r, links |-> 0]
AtEnd(w) == w.error # "none" \/ w.rest = <<>>

\* f has the steps of the walk from p along r, however many are allowed.
IsWalk(f, t, p, r) ==
    /\ f \in [0 .. Path!MaxSteps -> Ways] /\ f[0] = Beginning(p, r)
    /\ \A i \in 0 .. Path!MaxSteps - 1 : f[i + 1] = Path!OneStep(t, f[i])

\* The steps that n links may take.
Budget(n) == n * (MaxLength + 1)

\* The bound on the steps.
LEMMA StepsAreCounted ==
    ASSUME Path!PathAssumption
    PROVE  /\ MaxLinks \in Nat /\ MaxLength \in Nat /\ Path!MaxSteps \in Nat
           /\ Path!MaxSteps = Budget(MaxLinks) + (MaxLength + 1)
           /\ \A n \in Nat : Budget(n) \in Nat /\ Budget(n + 1) = Budget(n) + (MaxLength + 1)
<1>1. MaxLinks \in Nat /\ MaxLength \in Nat
  BY DEF Path!PathAssumption
<1>2. PICK m \in Nat : m = MaxLength + 1
  BY <1>1
<1>3. \A n \in Nat : n * m \in Nat /\ (n + 1) * m = n * m + m
  BY <1>2
<1> QED BY <1>1, <1>2, <1>3 DEF Path!MaxSteps, Budget

\* The one that contains a place of the tree is in it.
LEMMA UpInTree ==
    ASSUME NEW t, Path!IsTree(t), NEW p, Path!IsDirectory(t, p)
    PROVE  Path!IsDirectory(t, Path!Up(p)) /\ p \in Seq(PathNames) /\ Path!Up(p) \in Seq(PathNames)
<1>1. p \in DOMAIN t /\ p \in Seq(PathNames)
  BY DEF Path!IsTree, Path!IsDirectory
<1>2. Path!IsDirectory(t, Path!Up(p))
  BY <1>1 DEF Path!IsTree, Path!Up
<1>3. Path!Up(p) \in Seq(PathNames)
  BY <1>2 DEF Path!IsTree, Path!IsDirectory
<1> QED BY <1>1, <1>2, <1>3

\* A step of a walk that goes on, by the component it takes.
Gone(w, p) == [w EXCEPT !.at = p, !.rest = Tail(@)]
Failing(w, e) == [w EXCEPT !.error = e]
Followed(t, w, q) ==
    [w EXCEPT !.at = IF Path!Absolute(t[q].to) THEN <<>> ELSE @,
              !.rest = t[q].to \o Tail(@), !.links = @ + 1]

\* A step, case by case.
LEMMA StepIs ==
    ASSUME NEW t, NEW w \in Ways
    PROVE  LET c == Head(w.rest)
               q == Append(w.at, c)
               s == Path!OneStep(t, w)
           IN  /\ AtEnd(w) => s = w
               /\ ~AtEnd(w) =>
                    /\ ~Path!IsDirectory(t, w.at) => s = Failing(w, "ENOTDIR")
                    /\ Path!IsDirectory(t, w.at) =>
                         /\ c \in {"/", "."} => s = Gone(w, w.at)
                         /\ c = ".." => s = Gone(w, Path!Up(w.at))
                         /\ c \notin {"/", ".", ".."} =>
                              /\ q \notin DOMAIN t => s = Failing(w, "ENOENT")
                              /\ q \in DOMAIN t =>
                                   /\ t[q].kind # "link" => s = Gone(w, q)
                                   /\ t[q].kind = "link" =>
                                        IF w.links = MaxLinks THEN s = Failing(w, "ELOOP")
                                        ELSE s = Followed(t, w, q)
BY DEF Path!OneStep, AtEnd, Gone, Failing, Followed

\* A step leads to a way.
LEMMA StepType ==
    ASSUME NEW t, Path!IsTree(t), NEW w \in Ways
    PROVE  Path!OneStep(t, w) \in Ways
<1> DEFINE c == Head(w.rest)
           q == Append(w.at, c)
<1>1. w.at \in Seq(PathNames) /\ w.rest \in Seq(Path!Components) /\ w.links \in Nat
  BY DEF Ways
<1>2. CASE AtEnd(w)
  BY <1>2, StepIs
<1>3. ASSUME ~AtEnd(w) PROVE Path!OneStep(t, w) \in Ways
  <2>1. c \in Path!Components /\ Tail(w.rest) \in Seq(Path!Components)
    <3>1. PICK r \in Seq(Path!Components) : r = w.rest
      BY <1>1
    <3>2. r # <<>>
      BY <1>3, <3>1 DEF AtEnd
    <3>3. Head(r) \in Path!Components /\ Tail(r) \in Seq(Path!Components)
      BY <3>2
    <3> QED BY <3>1, <3>3
  <2>2. c \notin {"/", ".", ".."} => q \in Seq(PathNames)
    <3>1. c \notin {"/", ".", ".."} => c \in PathNames
      BY <2>1 DEF Path!Components
    <3> HIDE DEF c
    <3> QED BY <1>1, <3>1
  <2> HIDE DEF c, q
  <2>3. \A p \in Seq(PathNames) : Gone(w, p) \in Ways
    BY <1>1, <2>1 DEF Gone, Ways
  <2>4. \A e \in Errors : Failing(w, e) \in Ways
    BY <1>1 DEF Failing, Ways
  <2>5. ASSUME q \in DOMAIN t, t[q].kind = "link" PROVE Followed(t, w, q) \in Ways
    <3>1. t[q].to \in Seq(Path!Components)
      BY <2>5 DEF Path!IsTree
    <3>2. t[q].to \o Tail(w.rest) \in Seq(Path!Components)
      BY <2>1, <3>1
    <3>3. \A a \in Seq(PathNames), r \in Seq(Path!Components), l \in Nat :
             [w EXCEPT !.at = a, !.rest = r, !.links = l] \in Ways
      BY DEF Ways
    <3>4. PICK a : a = IF Path!Absolute(t[q].to) THEN <<>> ELSE w.at
      OBVIOUS
    <3>5. a \in Seq(PathNames)
      <4>1. <<>> \in Seq(PathNames)
        BY EmptySeq
      <4> QED BY <1>1, <3>4, <4>1, Zenon
    <3>6. w.links + 1 \in Nat
      BY <1>1
    <3>7. Followed(t, w, q) = [w EXCEPT !.at = a, !.rest = t[q].to \o Tail(@), !.links = @ + 1]
      BY <3>4, Zenon DEF Followed
    <3> QED BY <3>2, <3>3, <3>5, <3>6, <3>7
  <2>6. Path!IsDirectory(t, w.at) => Path!Up(w.at) \in Seq(PathNames)
    BY UpInTree
  <2> QED BY <1>1, <1>3, <2>2, <2>3, <2>4, <2>5, <2>6, StepIs DEF c, q, Errors
<1> QED BY <1>2, <1>3

\* The walk has steps: the function that Walk chooses is defined.
LEMMA WalkExists ==
    ASSUME Path!PathAssumption, NEW t, Path!IsTree(t), NEW p \in Seq(PathNames), NEW r \in Seq(Path!Components)
    PROVE  \E f : IsWalk(f, t, p, r) /\ Path!Walk(t, p, r) = f[Path!MaxSteps]
<1>1. PICK n : n = Path!MaxSteps
  OBVIOUS
<1>2. n \in Nat
  BY <1>1, StepsAreCounted
<1> DEFINE step == [i \in 1 .. n |-> [w \in Ways |-> Path!OneStep(t, w)]]
           All(f) ==
               f = [i \in 0 .. n |-> IF i = 0 THEN [error |-> "none", at |-> p, rest |-> r, links |-> 0]
                                     ELSE Path!OneStep(t, f[i - 1])]
           whole == CHOOSE f : All(f)
<1>3. IsStep(step, n, Ways)
  BY StepType DEF IsStep
<1>4. Beginning(p, r) \in Ways
  BY DEF Beginning, Ways, Errors
<1>5. PICK g : Computes(g, n, Ways, Beginning(p, r), step)
  <2> HIDE DEF step
  <2> QED BY <1>2, <1>3, <1>4, RecursiveFunctionExists
<1>6. /\ g \in [0 .. n -> Ways] /\ g[0] = Beginning(p, r)
      /\ \A i \in 1 .. n : g[i] = Path!OneStep(t, g[i - 1])
  <2>1. g \in [0 .. n -> Ways] /\ g[0] = Beginning(p, r) /\ \A i \in 1 .. n : g[i] = step[i][g[i - 1]]
    <3> HIDE DEF step
    <3> QED BY <1>5 DEF Computes
  <2>2. \A i \in 1 .. n : g[i - 1] \in Ways
    BY <1>2, <2>1
  <2> QED BY <2>1, <2>2
<1> HIDE DEF step
<1>7. All(g)
  BY <1>2, <1>6 DEF Beginning
<1>8. All(whole)
  BY <1>7
<1>9. Path!Walk(t, p, r) = whole[n]
  BY <1>1 DEF Path!Walk
<1> DEFINE f == whole
<1>10. f[0] = Beginning(p, r) /\ \A k \in 0 .. n - 1 : f[k + 1] = Path!OneStep(t, f[k])
  <2> HIDE DEF whole
  <2>1. f = [i \in 0 .. n |-> IF i = 0 THEN Beginning(p, r) ELSE Path!OneStep(t, f[i - 1])]
    BY <1>8 DEF Beginning
  <2>2. ASSUME NEW k \in 0 .. n - 1 PROVE f[k + 1] = Path!OneStep(t, f[k])
    <3>1. k + 1 \in 0 .. n /\ k + 1 # 0 /\ (k + 1) - 1 = k
      BY <1>2
    <3> QED BY <2>1, <3>1
  <2>3. f[0] = Beginning(p, r)
    BY <1>2, <2>1
  <2> QED BY <2>2, <2>3
<1>11. DOMAIN f = 0 .. n
  <2> HIDE DEF whole
  <2> QED BY <1>8
<1> HIDE DEF f
<1>12. \A k \in 0 .. n : f[k] \in Ways
  <2> DEFINE T == {k \in 0 .. n : f[k] \in Ways}
  <2>1. 0 \in T
    BY <1>2, <1>4, <1>10
  <2>2. \A k \in 0 .. n - 1 : k \in T => k + 1 \in T
    BY <1>2, <1>10, StepType
  <2> HIDE DEF T
  <2>3. 0 .. n \subseteq T
    BY ONLY <1>2, <2>1, <2>2, InductionUpTo
  <2> QED BY <2>3 DEF T
<1>13. f \in [0 .. n -> Ways]
  <2>1. f = [k \in 0 .. n |-> f[k]]
    BY <1>8, <1>11 DEF f
  <2> QED BY <1>12, <2>1
<1>14. IsWalk(f, t, p, r)
  BY <1>1, <1>10, <1>13 DEF IsWalk
<1> QED BY <1>1, <1>9, <1>14 DEF f

-----------------------------------------------------------------------------
(* Paths: walks end *)

\* The steps that a walk may still take: as many as there are components left, and
\* those of the links it may still follow.
Remaining(w) == Len(w.rest) + Budget(MaxLinks - w.links)

\* The count of the steps that are left is a number.
LEMMA RemainingIs ==
    ASSUME Path!PathAssumption, NEW w \in Ways, w.links <= MaxLinks
    PROVE  \E k \in Nat : /\ k = MaxLinks - w.links /\ Budget(k) \in Nat
                          /\ Remaining(w) = Len(w.rest) + Budget(k) /\ Remaining(w) \in Nat
                          /\ Len(w.rest) \in Nat
<1>1. w.links \in Nat /\ w.rest \in Seq(Path!Components)
  BY DEF Ways
<1>2. MaxLinks \in Nat
  BY DEF Path!PathAssumption
<1>3. PICK k \in Nat : k = MaxLinks - w.links
  BY <1>1, <1>2
<1>4. Budget(k) \in Nat
  BY StepsAreCounted
<1>5. Remaining(w) = Len(w.rest) + Budget(k)
  BY <1>3 DEF Remaining
<1>6. Len(w.rest) \in Nat
  BY <1>1
<1> QED BY <1>3, <1>4, <1>5, <1>6

\* A step takes one of them.
LEMMA StepCounts ==
    ASSUME Path!PathAssumption, NEW t, Path!IsTree(t), NEW w \in Ways,
           w.links <= MaxLinks, ~AtEnd(w)
    PROVE  LET s == Path!OneStep(t, w)
           IN  s.links <= MaxLinks /\ (AtEnd(s) \/ Remaining(s) < Remaining(w)) /\ Remaining(w) >= 1
<1> DEFINE s == Path!OneStep(t, w)
           c == Head(w.rest)
           q == Append(w.at, c)
<1>1. /\ w.at \in Seq(PathNames) /\ w.rest \in Seq(Path!Components) /\ w.links \in Nat /\ MaxLinks \in Nat
      /\ MaxLength \in Nat
  BY DEF Ways, Path!PathAssumption
<1>2. PICK r \in Seq(Path!Components) : r = w.rest
  BY <1>1
<1>3. r # <<>>
  BY <1>2 DEF AtEnd
<1>4. /\ Tail(r) \in Seq(Path!Components) /\ Len(Tail(r)) = Len(r) - 1 /\ Len(Tail(r)) \in Nat
      /\ Len(r) \in Nat /\ Len(r) >= 1
  BY <1>3
<1>5. PICK k \in Nat : /\ k = MaxLinks - w.links /\ Budget(k) \in Nat
                       /\ Remaining(w) = Len(r) + Budget(k)
  BY <1>2, RemainingIs
<1>6. Remaining(w) >= 1
  BY <1>4, <1>5
<1>7. ASSUME NEW p, s = Gone(w, p) PROVE s.links <= MaxLinks /\ Remaining(s) < Remaining(w)
  <2>1. s.links = w.links /\ s.rest = Tail(r)
    BY <1>2, <1>7 DEF Gone, Ways
  <2> HIDE DEF s
  <2>2. Remaining(s) = Len(Tail(r)) + Budget(k)
    BY <1>5, <2>1 DEF Remaining
  <2>3. s.links <= MaxLinks
    BY <2>1
  <2> QED BY <1>4, <1>5, <2>2, <2>3
<1>8. ASSUME NEW e \in {"ENOTDIR", "ENOENT", "ELOOP"}, s = Failing(w, e) PROVE s.links <= MaxLinks /\ AtEnd(s)
  <2>1. s.links = w.links /\ s.error = e
    BY <1>8 DEF Failing, Ways
  <2> HIDE DEF s
  <2> QED BY <2>1 DEF AtEnd
<1>9. ASSUME s = Followed(t, w, q), w.links # MaxLinks, q \in DOMAIN t, t[q].kind = "link"
      PROVE  s.links <= MaxLinks /\ Remaining(s) < Remaining(w)
  <2>1. s.links = w.links + 1 /\ s.rest = t[q].to \o Tail(r)
    BY <1>2, <1>9 DEF Followed, Ways
  <2>2. PICK to : to = t[q].to
    OBVIOUS
  <2>3. to \in Seq(Path!Components) /\ Len(to) <= MaxLength
    BY <1>9, <2>2 DEF Path!IsTree
  <2>4. Len(to \o Tail(r)) = Len(to) + Len(r) - 1 /\ Len(to) \in Nat
    BY <1>4, <2>3
  <2> HIDE DEF s, q
  <2>5. PICK j \in Nat : j = MaxLinks - (w.links + 1) /\ k = j + 1
    <3>1. PICK l \in Nat : l = w.links
      BY <1>1
    <3>2. k - 1 \in Nat /\ k - 1 = MaxLinks - (l + 1) /\ k = (k - 1) + 1
      BY ONLY <1>1, <1>5, <1>9, <3>1
    <3> QED BY <3>1, <3>2, Zenon
  <2>6. Budget(j) \in Nat /\ Budget(k) = Budget(j) + (MaxLength + 1)
    BY <2>5, StepsAreCounted
  <2>7. Remaining(s) = Len(to) + Len(r) - 1 + Budget(j)
    <3>1. Remaining(s) = Len(to \o Tail(r)) + Budget(j)
      BY <2>1, <2>2, <2>5 DEF Remaining
    <3> QED BY <2>4, <3>1
  <2>8. s.links <= MaxLinks
    BY <1>1, <1>9, <2>1
  <2> QED BY <1>1, <1>4, <1>5, <2>3, <2>4, <2>6, <2>7, <2>8
<1>10. \/ \E p : s = Gone(w, p)
       \/ \E e \in {"ENOTDIR", "ENOENT", "ELOOP"} : s = Failing(w, e)
       \/ s = Followed(t, w, q) /\ w.links # MaxLinks /\ q \in DOMAIN t /\ t[q].kind = "link"
  BY StepIs
<1> HIDE DEF s, q, c
<1> QED BY <1>6, <1>7, <1>8, <1>9, <1>10 DEF s

\* A walk along at most MaxLength components ends within its steps, and one before the
\* last.
LEMMA WalkEnds ==
    ASSUME Path!PathAssumption, NEW t, Path!IsTree(t), NEW p, NEW r \in Seq(Path!Components),
           Len(r) <= MaxLength, NEW f, IsWalk(f, t, p, r)
    PROVE  /\ Path!MaxSteps - 1 \in 0 .. Path!MaxSteps
           /\ AtEnd(f[Path!MaxSteps - 1]) /\ f[Path!MaxSteps] = f[Path!MaxSteps - 1]
<1>1. PICK n \in Nat : n = Path!MaxSteps
  BY StepsAreCounted
<1>2. PICK m \in Nat : n = m + 1 /\ m = Budget(MaxLinks) + MaxLength
  <2>1. MaxLinks \in Nat /\ MaxLength \in Nat
    BY DEF Path!PathAssumption
  <2>2. Budget(MaxLinks) \in Nat /\ Path!MaxSteps = Budget(MaxLinks) + (MaxLength + 1)
    BY <2>1, StepsAreCounted
  <2>3. Budget(MaxLinks) + MaxLength \in Nat /\ n = (Budget(MaxLinks) + MaxLength) + 1
    BY <1>1, <2>1, <2>2
  <2> QED BY <2>3
<1>3. /\ f \in [0 .. n -> Ways] /\ f[0] = Beginning(p, r)
      /\ \A i \in 0 .. n - 1 : f[i + 1] = Path!OneStep(t, f[i])
  BY <1>1 DEF IsWalk
<1> DEFINE Good(i) == f[i].links <= MaxLinks /\ (AtEnd(f[i]) \/ Remaining(f[i]) + i <= m)
           T == {i \in 0 .. m : Good(i)}
<1>4. 0 \in T
  <2>1. f[0].links = 0 /\ f[0].rest = r /\ f[0] \in Ways
    BY <1>3 DEF Beginning
  <2>2. MaxLinks \in Nat /\ MaxLength \in Nat /\ Len(r) \in Nat
    BY DEF Path!PathAssumption
  <2>3. Budget(MaxLinks) \in Nat
    BY <2>2, StepsAreCounted
  <2>4. Remaining(f[0]) = Len(r) + Budget(MaxLinks)
    <3>1. MaxLinks - 0 = MaxLinks
      BY <2>2
    <3> QED BY <2>1, <3>1 DEF Remaining
  <2> QED BY <1>2, <2>1, <2>2, <2>3, <2>4
<1>5. ASSUME NEW i \in 0 .. m - 1, i \in T PROVE i + 1 \in T
  <2>1. f[i] \in Ways /\ f[i + 1] \in Ways /\ f[i + 1] = Path!OneStep(t, f[i]) /\ Good(i)
    <3>1. i \in 0 .. n - 1 /\ i \in 0 .. n /\ i + 1 \in 0 .. n
      BY <1>2
    <3>2. Good(i)
      BY <1>5
    <3> HIDE DEF Good
    <3> QED BY <1>3, <3>1, <3>2
  <2>2. CASE AtEnd(f[i])
    <3>1. f[i + 1] = f[i]
      BY <2>1, <2>2, StepIs
    <3> QED BY <1>2, <2>1, <2>2, <3>1
  <2>3. CASE ~AtEnd(f[i])
    <3> DEFINE s == f[i + 1]
    <3>1. s.links <= MaxLinks /\ (AtEnd(s) \/ Remaining(s) < Remaining(f[i]))
      BY <2>1, <2>3, StepCounts
    <3>2. Remaining(f[i]) \in Int /\ (s.links <= MaxLinks => Remaining(s) \in Int)
      <4>1. \A w \in Ways : w.links <= MaxLinks => Remaining(w) \in Nat
        BY RemainingIs
      <4> QED BY <2>1, <4>1
    <3> HIDE DEF s
    <3>3. AtEnd(s) \/ Remaining(s) + (i + 1) <= m
      BY <2>1, <2>3, <3>1, <3>2
    <3> QED BY <3>1, <3>3 DEF s
  <2> QED BY <2>2, <2>3
<1> HIDE DEF T
<1>6. 0 .. m \subseteq T
  BY ONLY <1>4, <1>5, InductionUpTo, m \in Nat
<1>7. AtEnd(f[m])
  <2>1. Good(m) /\ f[m] \in Ways
    BY <1>2, <1>3, <1>6 DEF T
  <2>2. ASSUME ~AtEnd(f[m]) PROVE FALSE
    <3>1. Remaining(f[m]) >= 1
      BY <2>1, <2>2, StepCounts
    <3>2. Remaining(f[m]) \in Nat
      BY <2>1, RemainingIs
    <3> QED BY <2>1, <2>2, <3>1, <3>2
  <2> QED BY <2>2
<1>8. f[n] = f[m]
  <2>1. f[m] \in Ways /\ f[m + 1] = Path!OneStep(t, f[m])
    BY <1>2, <1>3
  <2> QED BY <1>2, <1>7, <2>1, StepIs
<1>9. n - 1 = m /\ m \in 0 .. n
  BY <1>2
<1> QED BY <1>1, <1>7, <1>8, <1>9

\* A walk along nothing stays where it is.
LEMMA NoWalk ==
    ASSUME Path!PathAssumption, NEW t, Path!IsTree(t), NEW p \in Seq(PathNames)
    PROVE  Path!Walk(t, p, <<>>).error = "none" /\ Path!Walk(t, p, <<>>).at = p
<1>1. <<>> \in Seq(Path!Components)
  BY EmptySeq
<1>2. PICK f : IsWalk(f, t, p, <<>>) /\ Path!Walk(t, p, <<>>) = f[Path!MaxSteps]
  BY <1>1, WalkExists
<1>3. PICK n \in Nat : n = Path!MaxSteps
  <2>1. Path!MaxSteps \in Nat
    BY StepsAreCounted
  <2> QED BY <2>1
<1> DEFINE b == Beginning(p, <<>>)
           T == {i \in 0 .. n : f[i] = b}
<1>4. AtEnd(b) /\ b.error = "none" /\ b.at = p
  BY DEF AtEnd, Beginning
<1>5. b \in Ways
  BY <1>1 DEF Beginning, Ways, Errors
<1>6. f[0] = b /\ \A i \in 0 .. n - 1 : f[i + 1] = Path!OneStep(t, f[i])
  BY <1>2, <1>3 DEF IsWalk
<1> HIDE DEF b
<1>7. 0 \in T
  BY <1>6
<1>8. \A i \in 0 .. n - 1 : i \in T => i + 1 \in T
  BY <1>4, <1>5, <1>6, StepIs
<1> HIDE DEF T
<1>9. 0 .. n \subseteq T
  BY ONLY <1>7, <1>8, InductionUpTo, n \in Nat
<1>10. f[n] = b
  BY <1>9 DEF T
<1> QED BY <1>2, <1>3, <1>4, <1>10

-----------------------------------------------------------------------------
(* Paths: trees that differ in files *)

\* The directories and links of one are those of the other.
Firm(t, q) == q \in DOMAIN t /\ t[q].kind # "file"
Alike(t, u) == \A q : Firm(t, q) \/ Firm(u, q) => q \in DOMAIN t /\ q \in DOMAIN u /\ t[q] = u[q]

\* A walk that has failed, or will unless it is at its end.
Dead(t, w) == w.error # "none" \/ ~Path!IsDirectory(t, w.at)

\* A walk that has failed stays so.
LEMMA DeadStays ==
    ASSUME NEW t, NEW w \in Ways, Dead(t, w)
    PROVE  Dead(t, Path!OneStep(t, w))
<1>1. CASE AtEnd(w)
  BY <1>1, StepIs
<1>2. CASE ~AtEnd(w)
  <2>1. ~Path!IsDirectory(t, w.at)
    BY <1>2 DEF Dead, AtEnd
  <2>2. Path!OneStep(t, w) = Failing(w, "ENOTDIR")
    BY <1>2, <2>1, StepIs
  <2>3. Failing(w, "ENOTDIR").error = "ENOTDIR"
    BY DEF Failing, Ways
  <2> QED BY <2>2, <2>3 DEF Dead
<1> QED BY <1>1, <1>2

\* They have the same directories.
LEMMA AlikeDirectories ==
    ASSUME NEW t, NEW u, Alike(t, u), NEW p
    PROVE  Path!IsDirectory(t, p) <=> Path!IsDirectory(u, p)
BY DEF Alike, Firm, Path!IsDirectory

\* In such trees a step is the same, or leads to a file that the other does not have.
LEMMA AlikeStep ==
    ASSUME NEW t, NEW u, Alike(t, u), NEW w \in Ways
    PROVE  LET s == Path!OneStep(t, w)
               v == Path!OneStep(u, w)
           IN  s = v \/ (Dead(t, s) /\ Dead(u, v))
<1> DEFINE s == Path!OneStep(t, w)
           v == Path!OneStep(u, w)
           c == Head(w.rest)
           q == Append(w.at, c)
<1>1. CASE AtEnd(w)
  BY <1>1, StepIs
<1>2. CASE ~AtEnd(w) /\ ~Path!IsDirectory(t, w.at)
  BY <1>2, StepIs, AlikeDirectories
<1>3. ASSUME ~AtEnd(w), Path!IsDirectory(t, w.at), Path!IsDirectory(u, w.at)
      PROVE  s = v \/ (Dead(t, s) /\ Dead(u, v))
  <2>1. CASE c \in {"/", ".", ".."}
    BY <1>3, <2>1, StepIs
  <2>2. CASE c \notin {"/", ".", ".."}
    <3>1. /\ q \notin DOMAIN t => s = Failing(w, "ENOENT")
          /\ q \notin DOMAIN u => v = Failing(w, "ENOENT")
          /\ q \in DOMAIN t /\ t[q].kind = "file" => s = Gone(w, q)
          /\ q \in DOMAIN u /\ u[q].kind = "file" => v = Gone(w, q)
      BY <1>3, <2>2, StepIs
    <3>2. Firm(t, q) \/ Firm(u, q) => s = v
      <4>1. ASSUME Firm(t, q) \/ Firm(u, q) PROVE s = v
        <5>1. q \in DOMAIN t /\ q \in DOMAIN u /\ t[q] = u[q]
          BY <4>1 DEF Alike
        <5>2. Followed(t, w, q) = Followed(u, w, q)
          BY <5>1, Zenon DEF Followed
        <5>3. CASE t[q].kind = "link"
          BY <1>3, <2>2, <5>1, <5>2, <5>3, StepIs
        <5>4. CASE t[q].kind # "link"
          BY <1>3, <2>2, <5>1, <5>4, StepIs
        <5> QED BY <5>3, <5>4
      <4> QED BY <4>1
    <3>3. Dead(t, Failing(w, "ENOENT")) /\ Dead(u, Failing(w, "ENOENT"))
      BY DEF Dead, Failing, Ways
    <3>4. Gone(w, q).at = q
      BY DEF Gone, Ways
    <3>5. /\ q \in DOMAIN t /\ t[q].kind = "file" => Dead(t, Gone(w, q))
          /\ q \in DOMAIN u /\ u[q].kind = "file" => Dead(u, Gone(w, q))
      BY <3>4 DEF Dead, Path!IsDirectory
    <3> HIDE DEF s, v, q, c
    <3> QED BY <3>1, <3>2, <3>3, <3>5 DEF Firm
  <2> QED BY <2>1, <2>2
<1> QED BY <1>1, <1>2, <1>3, AlikeDirectories

\* So a walk to a directory is the same in both.
LEMMA AlikeWalks ==
    ASSUME Path!PathAssumption, NEW t, NEW u, Path!IsTree(t), Path!IsTree(u), Alike(t, u),
           NEW p \in Seq(PathNames), NEW r \in Seq(Path!Components),
           Path!Walk(t, p, r).error = "none", Path!IsDirectory(t, Path!Walk(t, p, r).at)
    PROVE  Path!Walk(u, p, r) = Path!Walk(t, p, r)
<1>1. PICK f : IsWalk(f, t, p, r) /\ Path!Walk(t, p, r) = f[Path!MaxSteps]
  BY WalkExists
<1>2. PICK g : IsWalk(g, u, p, r) /\ Path!Walk(u, p, r) = g[Path!MaxSteps]
  BY WalkExists
<1>3. PICK n \in Nat : n = Path!MaxSteps
  <2>1. Path!MaxSteps \in Nat
    BY StepsAreCounted
  <2> QED BY <2>1
<1> DEFINE Good(i) == f[i] = g[i] \/ (Dead(t, f[i]) /\ Dead(u, g[i]))
           T == {i \in 0 .. n : Good(i)}
<1>4. /\ f[0] = g[0] /\ \A i \in 0 .. n : f[i] \in Ways /\ g[i] \in Ways
      /\ \A i \in 0 .. n - 1 : f[i + 1] = Path!OneStep(t, f[i]) /\ g[i + 1] = Path!OneStep(u, g[i])
  BY <1>1, <1>2, <1>3 DEF IsWalk
<1>5. 0 \in T
  BY <1>4
<1>6. ASSUME NEW i \in 0 .. n - 1, i \in T PROVE i + 1 \in T
  <2>1. i \in 0 .. n /\ i + 1 \in 0 .. n /\ f[i] \in Ways /\ g[i] \in Ways
    BY <1>4
  <2>2. CASE f[i] = g[i]
    BY <1>4, <2>1, <2>2, AlikeStep
  <2>3. CASE Dead(t, f[i]) /\ Dead(u, g[i])
    BY <1>4, <2>1, <2>3, DeadStays
  <2> QED BY <1>6, <2>2, <2>3
<1> HIDE DEF T
<1>7. 0 .. n \subseteq T
  BY ONLY <1>5, <1>6, InductionUpTo, n \in Nat
<1>8. Good(n)
  BY <1>7 DEF T
<1>9. ~Dead(t, f[n])
  BY <1>1, <1>3 DEF Dead
<1> QED BY <1>1, <1>2, <1>3, <1>8, <1>9

-----------------------------------------------------------------------------
(* Paths: one component more *)

Longer(w, c) == [w EXCEPT !.rest = Append(@, c)]

\* A component at the end changes nothing before the walk gets there.
LEMMA LongerStep ==
    ASSUME NEW t, Path!IsTree(t), NEW w \in Ways, NEW c \in Path!Components, w.error # "none" \/ ~AtEnd(w)
    PROVE  Path!OneStep(t, Longer(w, c)) = Longer(Path!OneStep(t, w), c)
<1> DEFINE v == Longer(w, c)
<1>1. PICK r \in Seq(Path!Components) : r = w.rest
  BY DEF Ways
<1>2. /\ Append(r, c) \in Seq(Path!Components) /\ v \in Ways /\ v.rest = Append(r, c)
      /\ v.error = w.error /\ v.at = w.at /\ v.links = w.links
  <2>1. Append(r, c) \in Seq(Path!Components)
    BY AppendProperties
  <2>2. v = [w EXCEPT !.rest = Append(r, c)]
    BY <1>1 DEF Longer
  <2> HIDE DEF v
  <2> QED BY <2>1, <2>2 DEF Ways
<1>3. CASE w.error # "none"
  <2>1. AtEnd(w) /\ AtEnd(v)
    BY <1>2, <1>3 DEF AtEnd
  <2> HIDE DEF v
  <2> QED BY <1>2, <2>1, StepIs DEF v
<1>4. ASSUME ~AtEnd(w) PROVE Path!OneStep(t, v) = Longer(Path!OneStep(t, w), c)
  <2>1. r # <<>> /\ w.error = "none"
    BY <1>1, <1>4 DEF AtEnd
  <2>2. /\ Head(Append(r, c)) = Head(r) /\ Tail(Append(r, c)) = Append(Tail(r), c)
        /\ Append(r, c) # <<>> /\ Tail(r) \in Seq(Path!Components)
    BY <2>1
  <2>3. ~AtEnd(v) /\ Head(v.rest) = Head(w.rest)
    BY <1>1, <1>2, <2>1, <2>2 DEF AtEnd
  <2>4. \A p : Gone(v, p) = Longer(Gone(w, p), c)
    <3>1. \A p : Gone(v, p) = [w EXCEPT !.at = p, !.rest = Append(Tail(r), c)]
      BY <1>1, <1>2, <2>2 DEF Gone, Longer, Ways
    <3>2. \A p : Longer(Gone(w, p), c) = [w EXCEPT !.at = p, !.rest = Append(Tail(r), c)]
      BY <1>1 DEF Gone, Longer, Ways
    <3> QED BY <3>1, <3>2
  <2>5. \A e : Failing(v, e) = Longer(Failing(w, e), c)
    BY DEF Failing, Longer, Ways
  <2>6. ASSUME NEW q \in DOMAIN t, t[q].kind = "link"
        PROVE  Followed(t, v, q) = Longer(Followed(t, w, q), c)
    <3>1. PICK to \in Seq(Path!Components) : to = t[q].to
      BY <2>6 DEF Path!IsTree
    <3>2. to \o Append(Tail(r), c) = Append(to \o Tail(r), c)
      BY <2>2, <3>1
    <3>3. PICK a : a = IF Path!Absolute(t[q].to) THEN <<>> ELSE w.at
      OBVIOUS
    <3>4. Followed(t, w, q) = [w EXCEPT !.at = a, !.rest = to \o Tail(r), !.links = @ + 1]
      BY <1>1, <3>1, <3>3, Zenon DEF Followed
    <3>5. Followed(t, v, q) = [v EXCEPT !.at = a, !.rest = to \o Append(Tail(r), c), !.links = @ + 1]
      <4>1. Followed(t, v, q) = [v EXCEPT !.at = a, !.rest = to \o Tail(@), !.links = @ + 1]
        BY <1>2, <3>1, <3>3, Zenon DEF Followed
      <4>2. PICK b : b = to \o Append(Tail(r), c) /\ b = to \o Tail(v.rest)
        BY <1>2, <2>2
      <4> HIDE DEF v
      <4> QED BY <4>1, <4>2
    <3> QED BY <1>1, <3>2, <3>4, <3>5 DEF Longer, Ways
  <2> HIDE DEF v
  <2>7. CASE ~Path!IsDirectory(t, w.at)
    BY <1>2, <1>4, <2>3, <2>5, <2>7, StepIs
  <2>8. CASE Path!IsDirectory(t, w.at) /\ Head(w.rest) \in {"/", ".", ".."}
    BY <1>2, <1>4, <2>3, <2>4, <2>8, StepIs
  <2>9. CASE Path!IsDirectory(t, w.at) /\ Head(w.rest) \notin {"/", ".", ".."}
    BY <1>2, <1>4, <2>3, <2>4, <2>5, <2>6, <2>9, StepIs
  <2> QED BY <2>7, <2>8, <2>9
<1> QED BY <1>3, <1>4

\* The walk along a path follows the one along all but its last component, and takes one
\* step more.
LEMMA LastStep ==
    ASSUME Path!PathAssumption, NEW t, Path!IsTree(t), NEW p \in Seq(PathNames),
           NEW r \in Seq(Path!Components), Len(r) <= MaxLength, NEW c \in Path!Components
    PROVE  LET w == Path!Walk(t, p, r)
               v == Path!Walk(t, p, Append(r, c))
               s == Path!OneStep(t, Longer(w, c))
           IN  /\ w \in Ways
               /\ w.error # "none" => v.error # "none"
               /\ w.error = "none" => w.rest = <<>> /\ (AtEnd(s) => v = s)
<1>1. PICK f : IsWalk(f, t, p, r) /\ Path!Walk(t, p, r) = f[Path!MaxSteps]
  BY WalkExists
<1>2. PICK g : IsWalk(g, t, p, Append(r, c)) /\ Path!Walk(t, p, Append(r, c)) = g[Path!MaxSteps]
  <2>1. Append(r, c) \in Seq(Path!Components)
    BY AppendProperties
  <2> QED BY <2>1, WalkExists
<1>3. PICK n \in Nat : n = Path!MaxSteps
  <2>1. Path!MaxSteps \in Nat
    BY StepsAreCounted
  <2> QED BY <2>1
<1>4. n - 1 \in 0 .. n /\ AtEnd(f[n - 1]) /\ f[n] = f[n - 1]
  BY <1>1, <1>3, WalkEnds
<1>5. /\ f[0] = Beginning(p, r) /\ g[0] = Beginning(p, Append(r, c))
      /\ \A i \in 0 .. n : f[i] \in Ways /\ g[i] \in Ways
      /\ \A i \in 0 .. n - 1 : f[i + 1] = Path!OneStep(t, f[i]) /\ g[i + 1] = Path!OneStep(t, g[i])
  BY <1>1, <1>2, <1>3 DEF IsWalk
<1> DEFINE Last(w) == Path!OneStep(t, Longer(w, c))
           Done(w) == w.error = "none" /\ w.rest = <<>>
           Good(i) == g[i] = Longer(f[i], c) \/ (Done(f[i]) /\ (AtEnd(Last(f[i])) => g[i] = Last(f[i])))
           T == {i \in 0 .. n : Good(i)}
<1>6. \A w \in Ways : Longer(w, c) \in Ways
  <2>1. ASSUME NEW w \in Ways PROVE Longer(w, c) \in Ways
    <3>1. PICK x \in Seq(Path!Components) : x = w.rest
      BY DEF Ways
    <3>2. Append(x, c) \in Seq(Path!Components)
      BY AppendProperties
    <3> QED BY <3>1, <3>2 DEF Longer, Ways
  <2> QED BY <2>1
<1>7. 0 \in T
  <2>1. PICK x : x = Append(r, c)
    OBVIOUS
  <2>2. Beginning(p, x) = [Beginning(p, r) EXCEPT !.rest = x]
    BY DEF Beginning
  <2>3. Longer(Beginning(p, r), c) = [Beginning(p, r) EXCEPT !.rest = x]
    BY <2>1 DEF Beginning, Longer
  <2>4. g[0] = Longer(f[0], c)
    BY <1>5, <2>1, <2>2, <2>3
  <2> QED BY <2>4
<1>8. ASSUME NEW i \in 0 .. n - 1, i \in T PROVE i + 1 \in T
  <2>1. /\ i \in 0 .. n /\ i + 1 \in 0 .. n /\ f[i] \in Ways /\ g[i] \in Ways
        /\ f[i + 1] = Path!OneStep(t, f[i]) /\ g[i + 1] = Path!OneStep(t, g[i])
    BY <1>5
  <2>2. CASE g[i] = Longer(f[i], c) /\ Done(f[i])
    <3>1. f[i + 1] = f[i]
      BY <2>1, <2>2, StepIs DEF AtEnd
    <3> QED BY <2>1, <2>2, <3>1
  <2>3. CASE g[i] = Longer(f[i], c) /\ ~Done(f[i])
    <3>1. f[i].error # "none" \/ ~AtEnd(f[i])
      BY <2>3 DEF AtEnd
    <3>2. g[i + 1] = Longer(f[i + 1], c)
      BY <2>1, <2>3, <3>1, LongerStep
    <3> QED BY <2>1, <3>2
  <2>4. CASE Done(f[i]) /\ (AtEnd(Last(f[i])) => g[i] = Last(f[i]))
    <3>1. f[i + 1] = f[i]
      BY <2>1, <2>4, StepIs DEF AtEnd
    <3>2. AtEnd(g[i]) => g[i + 1] = g[i]
      BY <2>1, StepIs
    <3>3. AtEnd(Last(f[i])) => g[i + 1] = Last(f[i])
      <4> HIDE DEF Last
      <4> QED BY <2>4, <3>2
    <3> HIDE DEF Last
    <3> QED BY <2>1, <2>4, <3>1, <3>3
  <2> QED BY <1>8, <2>2, <2>3, <2>4
<1> HIDE DEF T
<1>9. 0 .. n \subseteq T
  BY ONLY <1>7, <1>8, InductionUpTo, n \in Nat
<1>10. Good(n) /\ Good(n - 1) /\ f[n] \in Ways /\ g[n] \in Ways
  BY <1>4, <1>5, <1>9 DEF T
<1>11. f[n].error # "none" => g[n].error # "none"
  <2>1. \A w \in Ways : Longer(w, c).error = w.error
    BY DEF Longer, Ways
  <2> QED BY <1>10, <2>1
<1>12. ASSUME f[n].error = "none" PROVE f[n].rest = <<>> /\ (AtEnd(Last(f[n])) => g[n] = Last(f[n]))
  <2>1. Done(f[n])
    BY <1>4, <1>12 DEF AtEnd
  <2>2. CASE g[n - 1] = Longer(f[n - 1], c)
    <3>1. g[n] = Last(f[n])
      <4>1. PICK m \in 0 .. n - 1 : m = n - 1 /\ m + 1 = n
        BY <1>4
      <4>2. g[m + 1] = Path!OneStep(t, g[m])
        BY <1>5
      <4> QED BY <1>4, <2>2, <4>1, <4>2
    <3> HIDE DEF Last
    <3> QED BY <2>1, <3>1
  <2>3. CASE ~(g[n - 1] = Longer(f[n - 1], c))
    <3>1. Done(f[n - 1]) /\ (AtEnd(Last(f[n - 1])) => g[n - 1] = Last(f[n - 1]))
      <4> HIDE DEF Last
      <4> QED BY <1>10, <2>3
    <3>2. PICK m \in 0 .. n - 1 : m = n - 1 /\ m + 1 = n
      BY <1>4
    <3>3. g[n] = Path!OneStep(t, g[n - 1]) /\ g[n - 1] \in Ways
      BY <1>5, <3>2
    <3>4. AtEnd(g[n - 1]) => g[n] = g[n - 1]
      BY <3>3, StepIs
    <3> HIDE DEF Last
    <3> QED BY <1>4, <2>1, <3>1, <3>4
  <2> QED BY <2>2, <2>3
<1> QED BY <1>1, <1>2, <1>3, <1>10, <1>11, <1>12

\* A path of one component.
LEMMA OneElement ==
    ASSUME NEW S, NEW c \in S
    PROVE  <<c>> \in Seq(S) /\ Head(<<c>>) = c /\ Tail(<<c>>) = <<>> /\ <<c>> # <<>>
OBVIOUS

\* What one component more leads to.
LEMMA OneMore ==
    ASSUME Path!PathAssumption, NEW t, Path!IsTree(t), NEW p \in Seq(PathNames),
           NEW r \in Seq(Path!Components), Len(r) <= MaxLength, NEW c \in Path!Components
    PROVE  LET w == Path!Walk(t, p, r)
               v == Path!Walk(t, p, Append(r, c))
               q == Append(w.at, c)
           IN  /\ w.at \in Seq(PathNames)
               /\ w.error # "none" => v.error # "none"
               /\ w.error = "none" =>
                    /\ ~Path!IsDirectory(t, w.at) => v.error # "none"
                    /\ Path!IsDirectory(t, w.at) =>
                         /\ c \in {"/", "."} => v.error = "none" /\ v.at = w.at
                         /\ c = ".." => v.error = "none" /\ v.at = Path!Up(w.at)
                         /\ c \notin {"/", ".", ".."} =>
                              /\ q \notin DOMAIN t => v.error = "ENOENT"
                              /\ q \in DOMAIN t /\ t[q].kind # "link" => v.error = "none" /\ v.at = q
<1> DEFINE w == Path!Walk(t, p, r)
           v == Path!Walk(t, p, Append(r, c))
           l == Longer(w, c)
           s == Path!OneStep(t, l)
<1>1. /\ w \in Ways /\ (w.error # "none" => v.error # "none")
      /\ w.error = "none" => w.rest = <<>> /\ (AtEnd(s) => v = s)
  BY LastStep
<1> HIDE DEF w, v
<1>2. w.at \in Seq(PathNames)
  BY <1>1 DEF Ways
<1>3. ASSUME w.error = "none"
      PROVE  LET q == Append(w.at, c)
             IN  /\ ~Path!IsDirectory(t, w.at) => v.error # "none"
                 /\ Path!IsDirectory(t, w.at) =>
                      /\ c \in {"/", "."} => v.error = "none" /\ v.at = w.at
                      /\ c = ".." => v.error = "none" /\ v.at = Path!Up(w.at)
                      /\ c \notin {"/", ".", ".."} =>
                           /\ q \notin DOMAIN t => v.error = "ENOENT"
                           /\ q \in DOMAIN t /\ t[q].kind # "link" => v.error = "none" /\ v.at = q
  <2>1. l = [w EXCEPT !.rest = <<c>>]
    <3>1. Append(<<>>, c) = <<c>>
      OBVIOUS
    <3> QED BY <1>1, <1>3, <3>1 DEF Longer
  <2>2. <<c>> \in Seq(Path!Components) /\ Head(<<c>>) = c /\ Tail(<<c>>) = <<>> /\ <<c>> # <<>>
    BY OneElement
  <2>3. l \in Ways /\ l.rest = <<c>> /\ l.at = w.at /\ l.error = "none"
    BY <1>1, <1>3, <2>1, <2>2 DEF Ways
  <2> HIDE DEF l
  <2>4. ~AtEnd(l) /\ Head(l.rest) = c
    BY <2>2, <2>3 DEF AtEnd
  <2>5. \A x : Gone(l, x).error = "none" /\ Gone(l, x).at = x /\ Gone(l, x).rest = <<>>
    BY <2>2, <2>3 DEF Gone, Ways
  <2>6. \A e : Failing(l, e).error = e
    BY <2>3 DEF Failing, Ways
  <2>7. \A x : AtEnd(Gone(l, x))
    BY <2>5 DEF AtEnd
  <2>8. \A e : e # "none" => AtEnd(Failing(l, e))
    BY <2>6 DEF AtEnd
  <2>9. AtEnd(s) => v = s
    BY <1>1, <1>3
  <2> HIDE DEF s
  <2>10. CASE ~Path!IsDirectory(t, w.at)
    <3>1. s = Failing(l, "ENOTDIR")
      BY <2>3, <2>4, <2>10, StepIs DEF s
    <3> QED BY <2>6, <2>8, <2>9, <2>10, <3>1
  <2>11. CASE Path!IsDirectory(t, w.at) /\ c \in {"/", ".", ".."}
    <3>1. s = Gone(l, IF c = ".." THEN Path!Up(w.at) ELSE w.at)
      BY <2>3, <2>4, <2>11, StepIs DEF s
    <3> QED BY <2>5, <2>7, <2>9, <2>11, <3>1
  <2>12. CASE Path!IsDirectory(t, w.at) /\ c \notin {"/", ".", ".."}
    <3> DEFINE q == Append(w.at, c)
    <3>1. /\ q \notin DOMAIN t => s = Failing(l, "ENOENT")
          /\ q \in DOMAIN t /\ t[q].kind # "link" => s = Gone(l, q)
      BY <2>3, <2>4, <2>12, StepIs DEF s
    <3> HIDE DEF q
    <3> QED BY <2>5, <2>6, <2>7, <2>8, <2>9, <2>12, <3>1 DEF q
  <2> QED BY <2>10, <2>11, <2>12
<1> HIDE DEF l, s
<1> QED BY <1>1, <1>2, <1>3 DEF w, v

-----------------------------------------------------------------------------
(* Paths: names that are no links *)

IsLink(t, q) == q \in DOMAIN t /\ t[q].kind = "link"

\* A walk along names where no link is leads to the place they write.
LEMMA WalkAsWritten ==
    ASSUME Path!PathAssumption, NEW t, Path!IsTree(t), NEW s \in Seq(PathNames),
           Len(s) <= MaxLength, \A n \in 1 .. Len(s) : ~IsLink(t, SubSeq(s, 1, n)),
           Path!Walk(t, <<>>, s).error = "none"
    PROVE  Path!Walk(t, <<>>, s).at = s
<1>1. s \in Seq(Path!Components) /\ <<>> \in Seq(PathNames) /\ PathNames \subseteq Path!Components
  <2>1. PathNames \subseteq Path!Components
    BY DEF Path!Components
  <2> QED BY <2>1, SeqMonotonic, EmptySeq
<1>2. PICK f : IsWalk(f, t, <<>>, s) /\ Path!Walk(t, <<>>, s) = f[Path!MaxSteps]
  BY <1>1, WalkExists
<1>3. PICK n \in Nat : n = Path!MaxSteps
  <2>1. Path!MaxSteps \in Nat
    BY StepsAreCounted
  <2> QED BY <2>1
<1>4. AtEnd(f[n])
  BY <1>1, <1>2, <1>3, WalkEnds
<1>5. /\ f[0] = Beginning(<<>>, s) /\ \A i \in 0 .. n : f[i] \in Ways
      /\ \A i \in 0 .. n - 1 : f[i + 1] = Path!OneStep(t, f[i])
  BY <1>2, <1>3 DEF IsWalk
<1> DEFINE Good(w) == w.error # "none" \/ w.at \o w.rest = s
           T == {i \in 0 .. n : Good(f[i])}
<1>6. 0 \in T
  <2>1. f[0].at = <<>> /\ f[0].rest = s
    BY <1>5 DEF Beginning
  <2>2. <<>> \o s = s
    BY ConcatEmptySeq
  <2>3. f[0].at \o f[0].rest = <<>> \o s
    BY <2>1, Zenon
  <2>4. Good(f[0])
    BY <2>2, <2>3
  <2> HIDE DEF Good
  <2> QED BY <2>4
<1>7. ASSUME NEW w \in Ways, Good(w) PROVE Good(Path!OneStep(t, w))
  <2>1. CASE AtEnd(w)
    BY <1>7, <2>1, StepIs
  <2>2. CASE ~AtEnd(w)
    <3>1. PICK a \in Seq(PathNames), r \in Seq(Path!Components) : a = w.at /\ r = w.rest
      BY DEF Ways
    <3>2. r # <<>> /\ a \o r = s /\ w.error = "none"
      BY <1>7, <2>2, <3>1 DEF AtEnd
    <3>3. PICK c \in Path!Components, u \in Seq(Path!Components) : c = Head(r) /\ u = Tail(r)
      BY <3>2, HeadTailProperties
    <3>4. a \in Seq(Path!Components)
      BY <1>1, SeqMonotonic
    <3>5. Append(a, c) \in Seq(Path!Components) /\ Append(a, c) \o u = s /\ Len(Append(a, c)) = Len(a) + 1
          /\ s[Len(a) + 1] = c /\ Len(a) + 1 \in 1 .. Len(s)
      <4>1. Append(a, c) \in Seq(Path!Components) /\ Len(Append(a, c)) = Len(a) + 1
        BY <3>4, AppendProperties
      <4>2. Append(a, c) \o u = s
        <5>1. r = <<c>> \o u /\ <<c>> \in Seq(Path!Components)
          BY <3>2, <3>3
        <5>2. Append(a, c) = a \o <<c>>
          BY <3>4, AppendIsConcat
        <5>3. (a \o <<c>>) \o u = a \o (<<c>> \o u)
          BY <3>4, <5>1, ConcatAssociative
        <5> QED BY <3>2, <5>1, <5>2, <5>3, Zenon
      <4>3. Len(a) \in Nat /\ Len(r) \in Nat /\ Len(r) >= 1 /\ Len(s) = Len(a) + Len(r)
        BY <3>2
      <4>4. s[Len(a) + 1] = r[1] /\ r[1] = c
        <5>1. (a \o r)[Len(a) + 1] = r[1]
          BY <4>3
        <5>2. Head(r) = r[1]
          BY <3>2
        <5> QED BY <3>2, <3>3, <5>1, <5>2
      <4>5. Len(a) + 1 \in 1 .. Len(s)
        BY <4>3
      <4> QED BY <4>1, <4>2, <4>4, <4>5
    <3>6. c \in PathNames
      BY <3>5, ElementOfSeq
    <3>7. SubSeq(s, 1, Len(a) + 1) = Append(a, c)
      <4>1. PICK q \in Seq(Path!Components) : q = Append(a, c)
        BY <3>5
      <4>2. Len(q) = Len(a) + 1 /\ Len(q) >= 1 /\ Len(q) \in Nat /\ q \o u = s
        BY <3>4, <3>5, <4>1
      <4>3. SubSeq(q \o u, 1, Len(q)) = SubSeq(q, 1, Len(q))
        <5>1. 1 \in 1 .. Len(q) /\ Len(q) \in 1 .. Len(q)
          BY <4>2
        <5> QED BY <5>1, SubSeqOfConcat1
      <4> QED BY <4>1, <4>2, <4>3, SubSeqFull
    <3>8. ~IsLink(t, Append(a, c))
      BY <3>5, <3>7
    <3>9. \/ \E e \in {"ENOTDIR", "ENOENT"} : Path!OneStep(t, w) = Failing(w, e)
          \/ Path!OneStep(t, w) = Gone(w, Append(a, c))
      <4>1. c \notin {"/", ".", ".."}
        BY <3>6 DEF Path!PathAssumption
      <4> QED BY <2>2, <3>1, <3>3, <3>8, <4>1, StepIs DEF IsLink
    <3>10. ASSUME NEW e \in {"ENOTDIR", "ENOENT"} PROVE Good(Failing(w, e))
      BY DEF Failing, Ways
    <3>11. Good(Gone(w, Append(a, c)))
      <4>1. Gone(w, Append(a, c)).at = Append(a, c) /\ Gone(w, Append(a, c)).rest = u
        BY <3>1, <3>3 DEF Gone, Ways
      <4> QED BY <3>5, <4>1
    <3> HIDE DEF Good
    <3> QED BY <3>9, <3>10, <3>11
  <2> QED BY <2>1, <2>2
<1>8. ASSUME NEW i \in 0 .. n - 1, i \in T PROVE i + 1 \in T
  <2>1. Good(f[i])
    BY <1>8
  <2> HIDE DEF Good
  <2>2. f[i] \in Ways /\ f[i + 1] = Path!OneStep(t, f[i]) /\ i + 1 \in 0 .. n
    BY <1>5
  <2> QED BY <1>7, <2>1, <2>2
<1> HIDE DEF T
<1>9. 0 .. n \subseteq T
  BY ONLY <1>6, <1>8, InductionUpTo, n \in Nat
<1>10. Good(f[n]) /\ f[n] \in Ways
  <2> HIDE DEF Good
  <2> QED BY <1>5, <1>9 DEF T
<1>11. f[n].at \o <<>> = s /\ f[n].at \in Seq(PathNames)
  BY <1>2, <1>3, <1>4, <1>10 DEF AtEnd, Ways
<1>12. f[n].at = s
  BY <1>11, ConcatEmptySeq
<1> QED BY <1>2, <1>3, <1>12

-----------------------------------------------------------------------------
(* Paths: their text *)

\* A component of the text.
Turned(a, c) == IF c \in {"/", "."} THEN a ELSE IF c = ".." THEN Path!Up(a) ELSE Append(a, c)

\* It leads to a place.
LEMMA TurnedType ==
    ASSUME NEW a \in Seq(PathNames), NEW c \in Path!Components
    PROVE  Turned(a, c) \in Seq(PathNames) /\ Len(Turned(a, c)) <= Len(a) + 1
<1>1. Path!Up(a) \in Seq(PathNames) /\ Len(Path!Up(a)) <= Len(a)
  <2>1. CASE a = <<>>
    BY <2>1 DEF Path!Up
  <2>2. CASE a # <<>>
    <3>1. Path!Up(a) = SubSeq(a, 1, Len(a) - 1)
      BY <2>2 DEF Path!Up, Path!Front
    <3>2. Len(a) \in Nat /\ Len(a) >= 1
      BY <2>2
    <3>3. SubSeq(a, 1, Len(a) - 1) \in Seq(PathNames) /\ Len(SubSeq(a, 1, Len(a) - 1)) = Len(a) - 1
      <4>1. PICK n \in Nat : n = Len(a) - 1 /\ n + 1 = Len(a)
        BY <3>2
      <4>2. \A i \in 1 .. n : a[i] \in PathNames
        BY <4>1
      <4>3. SubSeq(a, 1, n) \in Seq(PathNames) /\ Len(SubSeq(a, 1, n)) = IF 1 <= n THEN n - 1 + 1 ELSE 0
        BY ONLY <4>2, SubSeqProperties, n \in Nat
      <4> QED BY <4>1, <4>3
    <3> QED BY <3>1, <3>2, <3>3
  <2> QED BY <2>1, <2>2
<1>2. c \notin {"/", ".", ".."} => Append(a, c) \in Seq(PathNames) /\ Len(Append(a, c)) = Len(a) + 1
  <2>1. c \notin {"/", ".", ".."} => c \in PathNames
    BY DEF Path!Components
  <2> QED BY <2>1, AppendProperties
<1>3. Len(a) \in Nat
  OBVIOUS
<1> QED BY <1>1, <1>2, <1>3 DEF Turned

\* f reads the text of p from base b, component by component.
Reads(f, b, p) ==
    /\ f \in [0 .. Len(p) -> Seq(PathNames)] /\ f[0] = b
    /\ \A i \in 0 .. Len(p) - 1 : f[i + 1] = Turned(f[i], p[i + 1])

\* The function that Lexical chooses is defined.
LEMMA LexicalReads ==
    ASSUME NEW b \in Seq(PathNames), NEW p \in Seq(Path!Components)
    PROVE  \E f : Reads(f, b, p) /\ Path!Lexical(b, p) = f[Len(p)]
<1>1. PICK n \in Nat : n = Len(p)
  OBVIOUS
<1> DEFINE step == [i \in 1 .. n |-> [a \in Seq(PathNames) |-> Turned(a, p[i])]]
           All(f) ==
               f = [i \in 0 .. n |-> IF i = 0 THEN b
                                     ELSE Turned(f[i - 1], p[i])]
           whole == CHOOSE f : All(f)
<1>2. \A i \in 1 .. n : p[i] \in Path!Components
  BY <1>1, ElementOfSeq
<1>3. IsStep(step, n, Seq(PathNames))
  <2>1. \A i \in 1 .. n : [a \in Seq(PathNames) |-> Turned(a, p[i])] \in [Seq(PathNames) -> Seq(PathNames)]
    BY <1>2, TurnedType
  <2> QED BY <2>1 DEF IsStep
<1>4. PICK g : Computes(g, n, Seq(PathNames), b, step)
  <2> HIDE DEF step
  <2> QED BY <1>3, RecursiveFunctionExists
<1>5. /\ g \in [0 .. n -> Seq(PathNames)] /\ g[0] = b
      /\ \A i \in 1 .. n : g[i] = Turned(g[i - 1], p[i])
  <2>1. /\ g \in [0 .. n -> Seq(PathNames)] /\ g[0] = b
        /\ \A i \in 1 .. n : g[i] = step[i][g[i - 1]]
    <3> HIDE DEF step
    <3> QED BY <1>4 DEF Computes
  <2>2. \A i \in 1 .. n : g[i - 1] \in Seq(PathNames)
    BY <2>1
  <2> QED BY <2>1, <2>2
<1> HIDE DEF step
<1>6. All(g)
  BY <1>5
<1>7. All(whole)
  BY <1>6
<1>8. Path!Lexical(b, p) = whole[n]
  BY <1>1, Zenon DEF Path!Lexical, Turned
<1> DEFINE f == whole
<1>9. DOMAIN f = 0 .. n /\ f[0] = b /\ \A k \in 0 .. n - 1 : f[k + 1] = Turned(f[k], p[k + 1])
  <2> HIDE DEF whole
  <2>1. f = [i \in 0 .. n |-> IF i = 0 THEN b ELSE Turned(f[i - 1], p[i])]
    BY <1>7
  <2>2. ASSUME NEW k \in 0 .. n - 1 PROVE f[k + 1] = Turned(f[k], p[k + 1])
    <3>1. k + 1 \in 0 .. n /\ k + 1 # 0 /\ (k + 1) - 1 = k
      OBVIOUS
    <3> QED BY <2>1, <3>1
  <2>3. f[0] = b /\ DOMAIN f = 0 .. n
    BY <2>1
  <2> QED BY <2>2, <2>3
<1>10. f = [k \in 0 .. n |-> f[k]]
  BY <1>7, <1>9 DEF f
<1> HIDE DEF f
<1>11. \A k \in 0 .. n : f[k] \in Seq(PathNames)
  <2> DEFINE T == {k \in 0 .. n : f[k] \in Seq(PathNames)}
  <2>1. 0 \in T
    BY <1>9
  <2>2. ASSUME NEW k \in 0 .. n - 1, k \in T PROVE k + 1 \in T
    <3>1. k + 1 \in 1 .. n /\ k + 1 \in 0 .. n /\ f[k] \in Seq(PathNames)
      BY <2>2
    <3> QED BY <1>2, <1>9, <3>1, TurnedType
  <2> HIDE DEF T
  <2>3. 0 .. n \subseteq T
    BY ONLY <2>1, <2>2, InductionUpTo, n \in Nat
  <2> QED BY <2>3 DEF T
<1>12. f \in [0 .. n -> Seq(PathNames)]
  BY <1>10, <1>11
<1>13. Reads(f, b, p)
  BY <1>1, <1>9, <1>12 DEF Reads
<1> QED BY <1>1, <1>8, <1>13 DEF f

\* The text of a path, one component at a time, is no longer than the path.
LEMMA LexicalIs ==
    ASSUME NEW b \in Seq(PathNames), NEW p \in Seq(Path!Components)
    PROVE  /\ Path!Lexical(b, <<>>) = b
           /\ Path!Lexical(b, p) \in Seq(PathNames) /\ Len(Path!Lexical(b, p)) <= Len(b) + Len(p)
           /\ \A c \in Path!Components : Path!Lexical(b, Append(p, c)) = Turned(Path!Lexical(b, p), c)
<1>1. PICK f : Reads(f, b, p) /\ Path!Lexical(b, p) = f[Len(p)]
  BY LexicalReads
<1>2. PICK n \in Nat : n = Len(p)
  OBVIOUS
<1>3. /\ f[0] = b /\ \A i \in 0 .. n : f[i] \in Seq(PathNames)
      /\ \A i \in 0 .. n - 1 : f[i + 1] = Turned(f[i], p[i + 1])
  BY <1>1, <1>2 DEF Reads
<1>4. Path!Lexical(b, <<>>) = b
  <2>1. <<>> \in Seq(Path!Components) /\ Len(<<>>) = 0
    BY EmptySeq
  <2>2. PICK g : Reads(g, b, <<>>) /\ Path!Lexical(b, <<>>) = g[Len(<<>>)]
    BY <2>1, LexicalReads
  <2>3. g[0] = b
    BY <2>2 DEF Reads
  <2> QED BY <2>1, <2>2, <2>3
<1>5. Len(f[n]) <= Len(b) + n
  <2> DEFINE T == {i \in 0 .. n : Len(f[i]) <= Len(b) + i}
  <2>1. 0 \in T
    <3>1. Len(b) \in Nat
      OBVIOUS
    <3> QED BY <1>3, <3>1
  <2>2. ASSUME NEW i \in 0 .. n - 1, i \in T PROVE i + 1 \in T
    <3>1. i + 1 \in 0 .. n /\ i + 1 \in 1 .. Len(p) /\ f[i] \in Seq(PathNames) /\ f[i + 1] \in Seq(PathNames)
          /\ f[i + 1] = Turned(f[i], p[i + 1])
      BY <1>2, <1>3
    <3>2. Len(f[i + 1]) <= Len(f[i]) + 1
      BY <3>1, TurnedType, ElementOfSeq
    <3>3. Len(f[i + 1]) \in Nat /\ Len(f[i]) \in Nat /\ Len(b) \in Nat /\ Len(f[i]) <= Len(b) + i
      BY <2>2, <3>1
    <3> QED BY <3>1, <3>2, <3>3
  <2> HIDE DEF T
  <2>3. 0 .. n \subseteq T
    BY ONLY <2>1, <2>2, InductionUpTo, n \in Nat
  <2> QED BY <2>3 DEF T
<1>6. ASSUME NEW c \in Path!Components PROVE Path!Lexical(b, Append(p, c)) = Turned(Path!Lexical(b, p), c)
  <2>1. PICK q \in Seq(Path!Components) : /\ q = Append(p, c) /\ Len(q) = n + 1 /\ q[n + 1] = c
                                /\ \A i \in 1 .. n : q[i] = p[i]
    <3>1. Append(p, c) \in Seq(Path!Components) /\ Len(Append(p, c)) = Len(p) + 1
      BY AppendProperties
    <3>2. Append(p, c)[Len(p) + 1] = c
      BY AppendProperties
    <3>3. \A i \in 1 .. Len(p) : Append(p, c)[i] = p[i]
      BY AppendProperties
    <3> QED BY <1>2, <3>1, <3>2, <3>3
  <2>2. PICK g : Reads(g, b, q) /\ Path!Lexical(b, q) = g[n + 1]
    BY <2>1, LexicalReads
  <2>3. /\ g[0] = b /\ g[n + 1] = Turned(g[n], c)
        /\ \A i \in 0 .. n - 1 : g[i + 1] = Turned(g[i], p[i + 1])
    <3>0. Len(q) = n + 1 /\ q[n + 1] = c /\ \A i \in 1 .. n : q[i] = p[i]
      BY <2>1, Zenon
    <3>1. g[0] = b /\ \A i \in 0 .. n : g[i + 1] = Turned(g[i], q[i + 1])
      <4>1. Len(q) - 1 = n
        BY <3>0
      <4> QED BY <2>2, <4>1 DEF Reads
    <3>2. \A i \in 0 .. n - 1 : i \in 0 .. n /\ q[i + 1] = p[i + 1]
      <4>1. ASSUME NEW i \in 0 .. n - 1 PROVE i \in 0 .. n /\ q[i + 1] = p[i + 1]
        <5>1. i + 1 \in 1 .. n /\ i \in 0 .. n
          OBVIOUS
        <5> QED BY <3>0, <5>1, Zenon
      <4> QED BY <4>1
    <3>3. n \in 0 .. n /\ g[n + 1] = Turned(g[n], q[n + 1])
      BY <3>1
    <3>4. ASSUME NEW i \in 0 .. n - 1 PROVE g[i + 1] = Turned(g[i], p[i + 1])
      BY <3>1, <3>2, Zenon
    <3> QED BY <3>0, <3>1, <3>3, <3>4, Zenon
  <2> DEFINE T == {i \in 0 .. n : g[i] = f[i]}
  <2>4. 0 \in T
    BY <1>3, <2>3
  <2>5. ASSUME NEW i \in 0 .. n - 1, i \in T PROVE i + 1 \in T
    BY <1>3, <2>3, <2>5
  <2> HIDE DEF T
  <2>6. 0 .. n \subseteq T
    BY ONLY <2>4, <2>5, InductionUpTo, n \in Nat
  <2>7. g[n] = f[n]
    BY <2>6 DEF T
  <2> QED BY <1>1, <1>2, <2>1, <2>2, <2>3, <2>7
<1>7. f[n] \in Seq(PathNames)
  BY <1>3
<1> QED BY <1>1, <1>2, <1>4, <1>5, <1>6, <1>7

-----------------------------------------------------------------------------
(* Paths: the path of a call and its parent *)

\* The file system and the path of a call.
PathWorld ==
    /\ Path!IsTree(places) /\ Path!IsDirectory(places, cwd) /\ system \in {"unix", "windows"}
    /\ path \in Seq(Path!Components) \ {<<>>, <<"/">>} /\ Len(cwd) + Len(path) < MaxLength

\* The path without its last component, on Windows as text.
PathStart == IF system = "unix" THEN Path!Base(path) ELSE <<>>
PathAbove ==
    IF system = "unix" THEN Path!Front(path) ELSE Path!Lexical(Path!Base(path), Path!Front(path))
Above == Path!Walk(places, PathStart, PathAbove)

LEMMA PathIs ==
    ASSUME Path!PathAssumption, PathWorld
    PROVE  /\ path \in Seq(Path!Components) /\ path = Append(Path!Front(path), Path!Last(path))
           /\ Path!Front(path) \in Seq(Path!Components) /\ Path!Last(path) \in Path!Components
           /\ Len(Path!Front(path)) = Len(path) - 1
           /\ Path!Base(path) \in Seq(PathNames) /\ Path!IsDirectory(places, Path!Base(path))
           /\ cwd \in Seq(PathNames) /\ Len(Path!Base(path)) <= Len(cwd)
<1>1. path \in Seq(Path!Components) /\ path # <<>>
  BY DEF PathWorld
<1>2. Path!Front(path) = SubSeq(path, 1, Len(path) - 1) /\ Path!Last(path) = path[Len(path)]
  BY DEF Path!Front, Path!Last
<1>3. PICK s \in Seq(Path!Components), c \in Path!Components : path = Append(s, c)
  BY <1>1, SequenceEmptyOrAppend
<1>4. /\ Len(path) = Len(s) + 1 /\ path[Len(path)] = c /\ Len(s) \in Nat
      /\ SubSeq(path, 1, Len(path) - 1) = s
  BY <1>3
<1>5. Path!Front(path) = s /\ Path!Last(path) = c
  BY <1>2, <1>4
<1>6. cwd \in Seq(PathNames) /\ <<>> \in Seq(PathNames) /\ Path!IsDirectory(places, <<>>) /\ Len(<<>>) = 0
  BY EmptySeq DEF PathWorld, Path!IsTree, Path!IsDirectory
<1>7. Path!Base(path) \in Seq(PathNames) /\ Path!IsDirectory(places, Path!Base(path))
  BY <1>6 DEF Path!Base, PathWorld
<1>8. Len(Path!Base(path)) <= Len(cwd)
  <2>1. Len(cwd) \in Nat
    BY <1>6
  <2>2. CASE Path!Absolute(path)
    <3>1. Path!Base(path) = <<>>
      BY <2>2 DEF Path!Base
    <3> QED BY <1>6, <2>1, <3>1
  <2>3. CASE ~Path!Absolute(path)
    <3>1. Path!Base(path) = cwd
      BY <2>3 DEF Path!Base
    <3> QED BY <2>1, <3>1
  <2> QED BY <2>2, <2>3
<1>9. Len(s) = Len(path) - 1
  BY <1>4
<1> QED BY <1>1, <1>3, <1>5, <1>6, <1>7, <1>8, <1>9

\* What ParentPath returns, case by case.
LEMMA ParentCases ==
    ASSUME Path!PathAssumption, PathWorld
    PROVE  LET parent == Path!ParentPath(path)
           IN  \/ /\ Path!Front(path) = <<>> /\ Path!Base(path) = cwd
                  /\ parent = Append(<<>>, ".") /\ Path!Base(parent) = cwd /\ Path!Last(parent) = "."
               \/ /\ Path!Front(path) = <<"/">> /\ Path!Base(path) = <<>>
                  /\ parent = Append(<<"/">>, "/") /\ Path!Base(parent) = <<>> /\ Path!Last(parent) = "/"
               \/ /\ parent = Path!Front(path) /\ Path!Front(path) # <<>>
                  /\ Path!Base(parent) = Path!Base(path) /\ Path!Last(parent) \in Path!Components
<1> DEFINE s == Path!Front(path)
           c == Path!Last(path)
<1>1. /\ path \in Seq(Path!Components) /\ path = Append(s, c) /\ s \in Seq(Path!Components) /\ c \in Path!Components
      /\ Len(s) = Len(path) - 1 /\ Len(path) \in Nat /\ path # <<"/">>
  BY PathIs DEF PathWorld
<1> HIDE DEF s, c
<1>2. CASE Len(path) = 1
  <2>1. s = <<>>
    BY <1>1, <1>2
  <2>2. path = <<c>>
    BY <1>1, <2>1
  <2>3. path[1] # "/"
    BY <1>1, <2>2
  <2>4. Path!Base(path) = cwd
    BY <2>3 DEF Path!Base, Path!Absolute
  <2>5. Path!ParentPath(path) = <<".">> /\ <<".">> = Append(<<>>, ".")
    BY <1>2 DEF Path!ParentPath
  <2>6. Path!Base(<<".">>) = cwd
    BY DEF Path!Base, Path!Absolute
  <2>7. Path!Last(<<".">>) = "."
    BY DEF Path!Last
  <2> QED BY <2>1, <2>4, <2>5, <2>6, <2>7 DEF s
<1>3. CASE Len(path) # 1 /\ s = <<"/">>
  <2>1. Path!ParentPath(path) = <<"/", "/">> /\ <<"/", "/">> = Append(<<"/">>, "/")
    BY <1>3 DEF Path!ParentPath, s
  <2>2. path[1] = "/"
    <3>1. Append(<<"/">>, c)[1] = "/"
      BY <1>1
    <3> QED BY <1>1, <1>3, <3>1
  <2>3. Path!Base(path) = <<>>
    BY <2>2 DEF Path!Base, Path!Absolute
  <2>4. Path!Base(<<"/", "/">>) = <<>>
    BY DEF Path!Base, Path!Absolute
  <2>5. Path!Last(<<"/", "/">>) = "/"
    BY DEF Path!Last
  <2> QED BY <1>3, <2>1, <2>3, <2>4, <2>5 DEF s
<1>4. CASE Len(path) # 1 /\ s # <<"/">>
  <2>1. Path!ParentPath(path) = s
    BY <1>4 DEF Path!ParentPath, s
  <2>2. Len(s) \in Nat /\ Len(s) >= 1
    <3>1. Len(path) >= 1
      BY <1>1
    <3> QED BY <1>1, <1>4, <3>1
  <2>3. s # <<>> /\ s[1] = path[1] /\ s[Len(s)] \in Path!Components
    BY <1>1, <2>2
  <2>4. Path!Base(s) = Path!Base(path)
    BY <2>3 DEF Path!Base, Path!Absolute
  <2>5. Path!Last(s) \in Path!Components
    BY <2>3 DEF Path!Last
  <2> QED BY <2>1, <2>3, <2>4, <2>5 DEF s
<1> QED BY <1>2, <1>3, <1>4

\* The text of the parent is that of the path without its last component.
LEMMA ParentText ==
    ASSUME Path!PathAssumption, PathWorld
    PROVE  Path!Lexical(Path!Base(Path!ParentPath(path)), Path!ParentPath(path))
               = Path!Lexical(Path!Base(path), Path!Front(path))
<1> DEFINE parent == Path!ParentPath(path)
           s == Path!Front(path)
<1>1. cwd \in Seq(PathNames) /\ <<>> \in Seq(PathNames) /\ <<>> \in Seq(Path!Components)
  BY PathIs, EmptySeq
<1>2. "." \in Path!Components /\ "/" \in Path!Components /\ <<"/">> \in Seq(Path!Components) /\ <<"/">> = Append(<<>>, "/")
  BY OneElement DEF Path!Components
<1>3. CASE s = <<>> /\ Path!Base(path) = cwd /\ parent = Append(<<>>, ".") /\ Path!Base(parent) = cwd
  <2>1. Path!Lexical(cwd, Append(<<>>, ".")) = Turned(Path!Lexical(cwd, <<>>), ".")
    BY <1>1, <1>2, LexicalIs
  <2>2. \A a : Turned(a, ".") = a
    BY DEF Turned
  <2> QED BY <1>3, <2>1, <2>2
<1>4. CASE /\ s = <<"/">> /\ Path!Base(path) = <<>> /\ parent = Append(<<"/">>, "/")
           /\ Path!Base(parent) = <<>>
  <2>1. Path!Lexical(<<>>, Append(<<"/">>, "/")) = Turned(Path!Lexical(<<>>, <<"/">>), "/")
    BY <1>1, <1>2, LexicalIs
  <2>2. \A a : Turned(a, "/") = a
    BY DEF Turned
  <2> QED BY <1>4, <2>1, <2>2
<1> QED BY <1>3, <1>4, ParentCases

-----------------------------------------------------------------------------
(* Paths: what a path and its directory resolve to *)

\* The text above a path.
LEMMA PathAboveIs ==
    ASSUME Path!PathAssumption, PathWorld
    PROVE  /\ PathStart \in Seq(PathNames) /\ PathAbove \in Seq(Path!Components)
           /\ Len(PathAbove) <= MaxLength /\ Path!Last(path) \in Path!Components
           /\ system = "windows" =>
                 /\ PathAbove \in Seq(PathNames) /\ PathStart = <<>>
                 /\ Path!Lexical(Path!Base(path), path) = Turned(PathAbove, Path!Last(path))
<1> DEFINE b == Path!Base(path)
           s == Path!Front(path)
           c == Path!Last(path)
<1>1. /\ path \in Seq(Path!Components) /\ path = Append(s, c) /\ s \in Seq(Path!Components) /\ c \in Path!Components
      /\ Len(s) = Len(path) - 1 /\ b \in Seq(PathNames) /\ cwd \in Seq(PathNames) /\ Len(b) <= Len(cwd)
  BY PathIs
<1>2. Len(cwd) + Len(path) < MaxLength /\ MaxLength \in Nat /\ system \in {"unix", "windows"}
  BY DEF PathWorld, Path!PathAssumption
<1> HIDE DEF b, s, c
<1>3. Len(s) \in Nat /\ Len(b) \in Nat /\ Len(cwd) \in Nat /\ Len(path) \in Nat
  BY <1>1
<1>4. /\ Path!Lexical(b, s) \in Seq(PathNames) /\ Len(Path!Lexical(b, s)) <= Len(b) + Len(s)
      /\ Path!Lexical(b, Append(s, c)) = Turned(Path!Lexical(b, s), c)
  BY <1>1, LexicalIs
<1>5. CASE system = "unix"
  <2>1. PathStart = b /\ PathAbove = s
    BY <1>5 DEF PathStart, PathAbove, b, s
  <2>2. Len(s) <= MaxLength
    BY <1>1, <1>2, <1>3
  <2> QED BY <1>1, <1>5, <2>1, <2>2 DEF c
<1>6. CASE system = "windows"
  <2>1. PathStart = <<>> /\ PathAbove = Path!Lexical(b, s)
    BY <1>6 DEF PathStart, PathAbove, b, s
  <2>2. Len(Path!Lexical(b, s)) \in Nat
    BY <1>4
  <2>3. Len(PathAbove) <= MaxLength
    BY <1>1, <1>2, <1>3, <1>4, <2>1, <2>2
  <2>4. PathNames \subseteq Path!Components
    BY DEF Path!Components
  <2>5. PathAbove \in Seq(Path!Components) /\ <<>> \in Seq(PathNames)
    BY <1>4, <2>1, <2>4, SeqMonotonic, EmptySeq
  <2>6. Path!Lexical(b, path) = Turned(PathAbove, c)
    BY <1>1, <1>4, <2>1
  <2> QED BY <1>1, <1>4, <1>6, <2>1, <2>3, <2>5, <2>6 DEF b, c
<1> QED BY <1>2, <1>5, <1>6

\* The path, unless it ends in dots on Windows, is one component more than what is above it.
LEMMA ResolvedIs ==
    ASSUME Path!PathAssumption, PathWorld, system = "unix" \/ Path!Last(path) \notin {".", ".."}
    PROVE  Path!Resolved(path) = Path!Walk(places, PathStart, Append(PathAbove, Path!Last(path)))
<1> DEFINE c == Path!Last(path)
<1>1. CASE system = "unix"
  <2>1. path = Append(Path!Front(path), c)
    BY PathIs
  <2>2. PathStart = Path!Base(path) /\ PathAbove = Path!Front(path)
    BY <1>1 DEF PathStart, PathAbove
  <2>3. Path!Resolved(path) = Path!Walk(places, Path!Base(path), path)
    BY <1>1 DEF Path!Resolved
  <2> QED BY <2>1, <2>2, <2>3, Zenon
<1>2. CASE system = "windows"
  <2>1. /\ PathStart = <<>> /\ PathAbove \in Seq(Path!Components) /\ c \in Path!Components
        /\ Path!Lexical(Path!Base(path), path) = Turned(PathAbove, c)
    BY <1>2, PathAboveIs
  <2>2. Path!Resolved(path) =
           Path!Walk(places, <<>>, Turned(PathAbove, c) \o (IF c = "/" THEN <<"/">> ELSE <<>>))
    BY <1>2, <2>1 DEF Path!Resolved
  <2>3. CASE c = "/"
    <3>1. Turned(PathAbove, c) = PathAbove
      BY <2>3 DEF Turned
    <3>2. PathAbove \o <<"/">> = Append(PathAbove, "/")
      BY <2>1, <2>3, AppendIsConcat
    <3>3. Path!Resolved(path) = Path!Walk(places, <<>>, PathAbove \o <<"/">>)
      BY <2>2, <2>3, <3>1
    <3> QED BY <2>1, <2>3, <3>2, <3>3
  <2>4. CASE c # "/"
    <3>1. Turned(PathAbove, c) = Append(PathAbove, c)
      BY <1>2, <2>4 DEF Turned
    <3>2. Append(PathAbove, c) \o <<>> = Append(PathAbove, c)
      <4>1. Append(PathAbove, c) \in Seq(Path!Components)
        BY <2>1, AppendProperties
      <4> QED BY <4>1, ConcatEmptySeq
    <3>3. Path!Resolved(path) = Path!Walk(places, <<>>, Append(PathAbove, c) \o <<>>)
      BY <2>2, <2>4, <3>1
    <3> QED BY <2>1, <3>2, <3>3
  <2> QED BY <2>3, <2>4
<1> QED BY <1>1, <1>2 DEF PathWorld

\* The directory of a path is what is above it, where that is one; on Unix whatever it is.
LEMMA AboveIs ==
    ASSUME Path!PathAssumption, PathWorld
    PROVE  LET d == Path!Directory(path)
           IN  /\ Above.at \in Seq(PathNames)
               /\ d.error = "none" => Above.error = "none" /\ d.at = Above.at
               /\ Above.error = "none" /\ (system = "unix" \/ Path!IsDirectory(places, Above.at)) =>
                     d.error = "none" /\ d.at = Above.at
<1> DEFINE d == Path!Directory(path)
           parent == Path!ParentPath(path)
<1>1. /\ PathStart \in Seq(PathNames) /\ PathAbove \in Seq(Path!Components) /\ Len(PathAbove) <= MaxLength
      /\ Path!IsTree(places) /\ "/" \in Path!Components /\ "." \in Path!Components /\ MaxLength \in Nat
  BY PathAboveIs DEF PathWorld, Path!Components, Path!PathAssumption
<1>2. Above.at \in Seq(PathNames)
  BY <1>1, OneMore DEF Above
<1>3. d = Path!Resolved(parent)
  BY DEF Path!Directory
<1>4. CASE system = "unix"
  <2>1. d = Path!Walk(places, Path!Base(parent), parent) /\ Above = Path!Walk(places, Path!Base(path), Path!Front(path))
    BY <1>3, <1>4 DEF Path!Resolved, Above, PathStart, PathAbove
  <2>2. Path!IsDirectory(places, cwd) /\ Path!IsDirectory(places, <<>>) /\ cwd \in Seq(PathNames) /\ <<>> \in Seq(PathNames)
    BY <1>1, PathIs, EmptySeq DEF PathWorld, Path!IsTree
  <2>3. Len(<<>>) <= MaxLength /\ <<>> \in Seq(Path!Components)
    BY <1>1, EmptySeq
  <2>4. CASE /\ Path!Front(path) = <<>> /\ Path!Base(path) = cwd
             /\ parent = Append(<<>>, ".") /\ Path!Base(parent) = cwd
    <3>1. Path!Walk(places, cwd, <<>>).error = "none" /\ Path!Walk(places, cwd, <<>>).at = cwd
      BY <1>1, <2>2, NoWalk
    <3>2. LET v == Path!Walk(places, cwd, Append(<<>>, ".")) IN v.error = "none" /\ v.at = cwd
      BY <1>1, <2>2, <2>3, <3>1, OneMore
    <3>3. d.error = "none" /\ d.at = cwd /\ Above.error = "none" /\ Above.at = cwd
      BY <2>1, <2>4, <3>1, <3>2
    <3> HIDE DEF d
    <3> QED BY <1>2, <3>3 DEF d
  <2>5. CASE /\ Path!Front(path) = <<"/">> /\ Path!Base(path) = <<>>
             /\ parent = Append(<<"/">>, "/") /\ Path!Base(parent) = <<>>
    <3>1. Path!Walk(places, <<>>, <<>>).error = "none" /\ Path!Walk(places, <<>>, <<>>).at = <<>>
      BY <1>1, <2>2, NoWalk
    <3>2. LET v == Path!Walk(places, <<>>, Append(<<>>, "/")) IN v.error = "none" /\ v.at = <<>>
      BY <1>1, <2>2, <2>3, <3>1, OneMore
    <3>3. Append(<<>>, "/") = <<"/">> /\ <<"/">> \in Seq(Path!Components)
      BY <1>1, OneElement
    <3>4. Len(<<"/">>) <= MaxLength
      <4>1. Len(PathAbove) = 1
        BY <1>4, <2>5 DEF PathAbove
      <4>2. Len(<<"/">>) = 1
        OBVIOUS
      <4> QED BY <1>1, <4>1, <4>2
    <3>5. LET v == Path!Walk(places, <<>>, Append(<<"/">>, "/")) IN v.error = "none" /\ v.at = <<>>
      <4>1. PICK r \in Seq(Path!Components) : r = <<"/">>
        BY <3>3
      <4>2. /\ Len(r) <= MaxLength /\ Path!Walk(places, <<>>, r).error = "none"
            /\ Path!Walk(places, <<>>, r).at = <<>>
        BY <3>2, <3>3, <3>4, <4>1, Zenon
      <4>3. LET v == Path!Walk(places, <<>>, Append(r, "/")) IN v.error = "none" /\ v.at = <<>>
        BY <1>1, <2>2, <4>2, OneMore
      <4> QED BY <4>1, <4>3, Zenon
    <3>6. d.error = "none" /\ d.at = <<>> /\ Above.error = "none" /\ Above.at = <<>>
      BY <2>1, <2>5, <3>2, <3>3, <3>5
    <3> HIDE DEF d
    <3> QED BY <1>2, <3>6 DEF d
  <2>6. CASE parent = Path!Front(path) /\ Path!Base(parent) = Path!Base(path)
    <3>1. d = Above
      BY <2>1, <2>6
    <3> QED BY <1>2, <3>1
  <2> QED BY <2>4, <2>5, <2>6, ParentCases
<1>5. CASE system = "windows"
  <2>1. Path!Lexical(Path!Base(parent), parent) = PathAbove /\ PathStart = <<>>
    BY <1>5, ParentText DEF PathAbove, PathStart
  <2>2. d = Path!Walk(places, <<>>, PathAbove \o (IF Path!Last(parent) = "/" THEN <<"/">> ELSE <<>>))
    BY <1>3, <1>5, <2>1 DEF Path!Resolved
  <2>3. CASE Path!Last(parent) = "/"
    <3>1. d = Path!Walk(places, PathStart, Append(PathAbove, "/"))
      <4>1. PathAbove \o <<"/">> = Append(PathAbove, "/")
        BY <1>1, AppendIsConcat
      <4> QED BY <2>1, <2>2, <2>3, <4>1
    <3>2. /\ Above.error # "none" => d.error # "none"
          /\ Above.error = "none" /\ ~Path!IsDirectory(places, Above.at) => d.error # "none"
          /\ Above.error = "none" /\ Path!IsDirectory(places, Above.at) => d.error = "none" /\ d.at = Above.at
      BY <1>1, <3>1, OneMore DEF Above
    <3> HIDE DEF d
    <3> QED BY <1>2, <1>5, <3>2 DEF d
  <2>4. CASE Path!Last(parent) # "/"
    <3>1. PathAbove \o <<>> = PathAbove
      BY <1>1, ConcatEmptySeq
    <3>2. d = Above
      BY <2>1, <2>2, <2>4, <3>1 DEF Above
    <3> QED BY <1>2, <3>2
  <2> QED BY <2>3, <2>4
<1> QED BY <1>4, <1>5 DEF PathWorld

-----------------------------------------------------------------------------
(* Paths: what is answered *)

\* Where the second look is right, and what the answer is about.
Plain == ~Path!EndsInLink(path) /\ ~Path!LexicalFails(path)
Asked == look = "missing" => Plain
PathIsDirectory ==
    Path!Resolved(path).error = "none" /\ Path!IsDirectory(places, Path!Resolved(path).at)

\* The place of a path that is not there: its last component, in its directory.
LEMMA PlaceIs ==
    ASSUME Path!PathAssumption, PathWorld, NEW p \in Path!Place(path)
    PROVE  /\ Path!Resolved(path).error = "ENOENT" /\ Path!Last(path) \in PathNames
           /\ Path!Directory(path).error = "none" /\ Path!Directory(path).at = Above.at
           /\ p = Append(Above.at, Path!Last(path))
<1> DEFINE d == Path!Directory(path)
           c == Path!Last(path)
<1>1. /\ c \in PathNames /\ Path!IsDirectory(places, d.at) /\ d.error = "none"
      /\ Append(d.at, c) \notin DOMAIN places /\ p = Append(d.at, c)
  BY DEF Path!Place
<1>2. Above.error = "none" /\ d.at = Above.at
  BY <1>1, AboveIs
<1>3. c \notin {"/", ".", ".."}
  BY <1>1 DEF Path!PathAssumption
<1>4. Path!Resolved(path) = Path!Walk(places, PathStart, Append(PathAbove, c))
  BY <1>3, ResolvedIs DEF PathWorld
<1>5. /\ PathStart \in Seq(PathNames) /\ PathAbove \in Seq(Path!Components) /\ Len(PathAbove) <= MaxLength
      /\ Path!IsTree(places) /\ c \in Path!Components
  BY PathAboveIs DEF PathWorld
<1> HIDE DEF c, d
<1>6. Path!Resolved(path).error = "ENOENT"
  BY <1>1, <1>2, <1>3, <1>4, <1>5, OneMore DEF Above
<1> QED BY <1>1, <1>2, <1>6 DEF c, d

\* The place of one that is there and no directory.
LEMMA FileIs ==
    ASSUME Path!PathAssumption, PathWorld, Plain, ~PathIsDirectory, Path!Resolved(path).error = "none"
    PROVE  /\ Path!Last(path) \in PathNames
           /\ Path!Directory(path).error = "none" /\ Path!Directory(path).at = Above.at
           /\ Path!Resolved(path).at = Append(Above.at, Path!Last(path))
<1> DEFINE d == Path!Directory(path)
           c == Path!Last(path)
           q == Append(Above.at, c)
           r == Path!Resolved(path)
<1>1. system = "unix" \/ c \notin {".", ".."}
  BY DEF Plain, Path!LexicalFails, PathWorld
<1>2. r = Path!Walk(places, PathStart, Append(PathAbove, c))
  BY <1>1, ResolvedIs
<1>3. /\ PathStart \in Seq(PathNames) /\ PathAbove \in Seq(Path!Components) /\ Len(PathAbove) <= MaxLength
      /\ Path!IsTree(places) /\ c \in Path!Components
  BY PathAboveIs DEF PathWorld
<1>4. r.error = "none" /\ ~Path!IsDirectory(places, r.at)
  BY DEF PathIsDirectory
<1> HIDE DEF c, d, q, r
<1>5. Above.error = "none" /\ Path!IsDirectory(places, Above.at)
  BY <1>2, <1>3, <1>4, OneMore DEF Above
<1>6. Path!IsDirectory(places, Path!Up(Above.at))
  BY <1>3, <1>5, UpInTree
<1>7. c \notin {"/", ".", ".."}
  BY <1>2, <1>3, <1>4, <1>5, <1>6, OneMore DEF Above
<1>8. c \in PathNames
  BY <1>3, <1>7 DEF Path!Components
<1>9. d.error = "none" /\ d.at = Above.at
  BY <1>5, AboveIs DEF d
<1>10. /\ q \in DOMAIN places
       /\ places[q].kind # "link" => r.at = q
  BY <1>2, <1>3, <1>4, <1>5, <1>7, OneMore DEF Above, q
<1>11. places[q].kind # "link"
  BY <1>4, <1>9, <1>10 DEF Plain, Path!EndsInLink, d, q, r, c
<1> QED BY <1>8, <1>9, <1>10, <1>11 DEF c, d, q, r

\* The parent that is put before the last component is the directory of the path.
LEMMA ParentIs ==
    ASSUME Path!PathAssumption, PathWorld, Plain, Path!Last(path) \in PathNames,
           Path!Directory(path).error = "none", Path!Directory(path).at = Above.at
    PROVE  Path!ParentPlace.error = "none" /\ Path!ParentPlace.at = Above.at
<1> DEFINE c == Path!Last(path)
<1>1. CASE system = "unix"
  <2>1. Path!ParentPlace = Path!Directory(path)
    BY <1>1 DEF Path!ParentPlace, Path!Directory
  <2> QED BY <2>1
<1>2. CASE system = "windows"
  <2>1. /\ PathAbove \in Seq(PathNames) /\ PathStart = <<>> /\ Len(PathAbove) <= MaxLength
        /\ Path!Lexical(Path!Base(path), path) = Turned(PathAbove, c)
    BY <1>2, PathAboveIs
  <2>2. Path!ParentPlace = [error |-> "none", at |-> PathAbove]
    <3>1. Path!ParentPlace = [error |-> "none", at |-> Path!Lexical(Path!Base(Path!ParentPath(path)), Path!ParentPath(path))]
      BY <1>2 DEF Path!ParentPlace
    <3>2. PathAbove = Path!Lexical(Path!Base(path), Path!Front(path))
      BY <1>2 DEF PathAbove
    <3> QED BY <3>1, <3>2, ParentText
  <2>3. Turned(PathAbove, c) = Append(PathAbove, c)
    <3>1. c \notin {"/", ".", ".."}
      BY DEF Path!PathAssumption
    <3> HIDE DEF c
    <3> QED BY <3>1 DEF Turned
  <2>4. ASSUME NEW n \in 1 .. Len(PathAbove) PROVE ~IsLink(places, SubSeq(PathAbove, 1, n))
    <3>1. PICK s \in Seq(PathNames) : s = PathAbove
      BY <2>1
    <3>2. /\ Append(s, c) \in Seq(PathNames) /\ Len(Append(s, c)) = Len(s) + 1 /\ Len(s) \in Nat
          /\ Append(s, c) = s \o <<c>> /\ <<c>> \in Seq(PathNames)
      BY AppendProperties, AppendIsConcat, OneElement
    <3>3. n \in 1 .. Len(Append(s, c)) - 1 /\ n \in 1 .. Len(s) /\ 1 \in 1 .. Len(s)
      BY <3>1, <3>2
    <3>4. SubSeq(s \o <<c>>, 1, n) = SubSeq(s, 1, n)
      BY <3>2, <3>3, SubSeqOfConcat1
    <3>5. PICK z : z = Append(s, c)
      OBVIOUS
    <3>6. z = Path!Lexical(Path!Base(path), path)
      BY <2>1, <2>3, <3>1, <3>5
    <3>7. \A k \in 1 .. Len(z) - 1 : ~IsLink(places, SubSeq(z, 1, k))
      BY <1>2, <3>6 DEF Plain, Path!LexicalFails, IsLink
    <3>8. ~IsLink(places, SubSeq(z, 1, n))
      BY <3>3, <3>5, <3>7
    <3>9. SubSeq(z, 1, n) = SubSeq(PathAbove, 1, n)
      BY <3>1, <3>2, <3>4, <3>5
    <3> QED BY <3>8, <3>9
  <2>5. Above = Path!Walk(places, <<>>, PathAbove) /\ Above.error = "none" /\ Path!IsTree(places)
    BY <2>1, AboveIs DEF Above, PathWorld
  <2>6. Above.at = PathAbove
    BY <2>1, <2>4, <2>5, WalkAsWritten
  <2> QED BY <2>2, <2>6
<1> QED BY <1>1, <1>2 DEF PathWorld

\* The places that an answer may name.
Candidates ==
    Path!Place(path) \cup (IF Path!Resolved(path).error = "none" THEN {Path!Resolved(path).at} ELSE {})

\* A place as it is written, and one below it.
LEMMA WrittenFits ==
    ASSUME Path!PathAssumption, NEW p \in Seq(PathNames)
    PROVE  /\ Path!Denotes(Path!Written(p), p)
           /\ Len(Path!Written(p)) <= Capacity \/ Len(p) + 1 >= Capacity
           /\ \A c \in PathNames :
                 LET name == Append(Path!Written(p), c)
                 IN  /\ Path!Denotes(name, Append(p, c))
                     /\ Len(name) <= Capacity \/ Len(Append(p, c)) + 1 >= Capacity
<1> DEFINE S == PathNames \cup {"/"}
<1>1. p \in Seq(S) /\ <<"/">> \in Seq(S) /\ <<"/", "/">> \in Seq(S) /\ Len(p) \in Nat /\ Capacity \in Nat
  <2>1. PathNames \subseteq S /\ "/" \in S
    OBVIOUS
  <2>2. p \in Seq(S)
    BY <2>1, SeqMonotonic
  <2> HIDE DEF S
  <2>3. <<"/">> \in Seq(S) /\ <<"/", "/">> \in Seq(S)
    BY <2>1
  <2> QED BY <2>2, <2>3 DEF Path!PathAssumption
<1>2. Path!Denotes(Path!Written(p), p)
  BY DEF Path!Denotes
<1>3. PICK w \in Seq(S) : /\ w = Path!Written(p) /\ Len(w) \in Nat
                          /\ Len(w) = IF p = <<>> THEN 2 ELSE Len(p) + 1
  <2> HIDE DEF S
  <2>1. <<"/">> \o p \in Seq(S) /\ Len(<<"/">> \o p) = Len(p) + 1 /\ Len(<<"/", "/">>) = 2
    BY <1>1
  <2>2. CASE p = <<>>
    <3>1. Path!Written(p) = <<"/", "/">>
      BY <2>2 DEF Path!Written
    <3> QED BY <1>1, <2>1, <2>2, <3>1
  <2>3. CASE p # <<>>
    <3>1. Path!Written(p) = <<"/">> \o p
      BY <2>3 DEF Path!Written
    <3>2. Len(p) + 1 \in Nat
      BY <1>1
    <3> QED BY <2>1, <2>3, <3>1, <3>2
  <2> QED BY <2>2, <2>3
<1>4. (p = <<>> => Len(p) = 0) /\ (p # <<>> => Len(p) >= 1)
  OBVIOUS
<1>5. Len(Path!Written(p)) <= Capacity \/ Len(p) + 1 >= Capacity
  BY <1>1, <1>3, <1>4
<1>6. ASSUME NEW c \in PathNames
      PROVE  LET name == Append(Path!Written(p), c)
             IN  /\ Path!Denotes(name, Append(p, c))
                 /\ Len(name) <= Capacity \/ Len(Append(p, c)) + 1 >= Capacity
  <2> DEFINE name == Append(w, c)
             q == Append(p, c)
  <2>1. c \in S
    OBVIOUS
  <2> HIDE DEF S
  <2>2. Len(name) = Len(w) + 1 /\ Len(q) = Len(p) + 1 /\ q # <<>>
    <3>1. \A s \in Seq(S) : Len(Append(s, c)) = Len(s) + 1 /\ Append(s, c) # <<>>
      BY <2>1, AppendProperties
    <3> QED BY <1>1, <3>1
  <2>3. CASE p = <<>>
    <3>1. w = <<"/", "/">> /\ q = <<c>>
      BY <1>3, <2>3 DEF Path!Written
    <3>2. name = <<"/", "/">> \o q
      BY <1>1, <2>1, <3>1, AppendIsConcat
    <3> HIDE DEF name, q
    <3>3. Path!Denotes(name, q)
      BY <3>2 DEF Path!Denotes
    <3>4. Len(w) = 2 /\ Len(p) = 0
      BY <1>3, <1>4, <2>3
    <3>5. Len(name) <= Capacity \/ Len(q) + 1 >= Capacity
      BY <1>1, <2>2, <3>4
    <3> QED BY <1>3, <3>3, <3>5 DEF name, q
  <2>4. CASE p # <<>>
    <3>1. w = <<"/">> \o p
      BY <1>3, <2>4 DEF Path!Written
    <3>2. name = <<"/">> \o q
      <4>1. name = w \o <<c>> /\ q = p \o <<c>> /\ <<c>> \in Seq(S)
        BY <1>1, <1>3, <2>1, AppendIsConcat, OneElement
      <4>2. (<<"/">> \o p) \o <<c>> = <<"/">> \o (p \o <<c>>)
        BY <1>1, <4>1, ConcatAssociative
      <4> HIDE DEF name, q
      <4> QED BY <3>1, <4>1, <4>2
    <3> HIDE DEF name, q
    <3>3. Path!Denotes(name, q)
      BY <2>2, <3>2 DEF Path!Denotes, Path!Written
    <3>4. Len(w) = Len(p) + 1
      BY <1>3, <2>4
    <3>5. Len(name) <= Capacity \/ Len(q) + 1 >= Capacity
      BY <1>1, <2>2, <3>4
    <3> QED BY <1>3, <3>3, <3>5 DEF name, q
  <2> QED BY <2>3, <2>4
<1> QED BY <1>2, <1>5, <1>6

\* What path resolves to, in the tree t.
From(t) ==
    IF system = "unix" THEN Path!Walk(t, Path!Base(path), path)
    ELSE Path!Walk(t, <<>>, Path!Lexical(Path!Base(path), path) \o (IF Path!Last(path) = "/" THEN <<"/">> ELSE <<>>))

\* On either system that is a walk.
LEMMA WhereItGoes ==
    ASSUME Path!PathAssumption, PathWorld
    PROVE  \E p \in Seq(PathNames), r \in Seq(Path!Components) : \A t : From(t) = Path!Walk(t, p, r)
<1>1. CASE system = "unix"
  BY <1>1, PathIs DEF From
<1>2. CASE system = "windows"
  <2>1. PathNames \subseteq Path!Components /\ "/" \in Path!Components
    BY DEF Path!Components
  <2>2. Path!Lexical(Path!Base(path), path) \in Seq(Path!Components)
    BY <2>1, PathIs, LexicalIs, SeqMonotonic
  <2>3. <<"/">> \in Seq(Path!Components) /\ <<>> \in Seq(Path!Components) /\ <<>> \in Seq(PathNames)
    BY <2>1, OneElement, EmptySeq
  <2>4. PICK e \in Seq(Path!Components) : e = IF Path!Last(path) = "/" THEN <<"/">> ELSE <<>>
    BY <2>3
  <2>5. Path!Lexical(Path!Base(path), path) \o e \in Seq(Path!Components)
    BY <2>2, ConcatProperties
  <2>6. \A t : From(t) = Path!Walk(t, <<>>, Path!Lexical(Path!Base(path), path) \o e)
    BY <1>2, <2>4 DEF From
  <2> QED BY <2>3, <2>5, <2>6
<1> QED BY <1>1, <1>2 DEF PathWorld

\* What resolves is answered as it is written.
LEMMA ExistingIs ==
    ASSUME Path!PathAssumption, PathWorld
    PROVE  /\ Path!Resolved(path).error = "none" =>
                 Path!Place(path) = {} /\ Path!Resolved(path).at \in Seq(PathNames)
           /\ Path!Resolved(path).error \notin {"none", "ENOENT"} => Candidates = {}
<1>1. ASSUME Path!Resolved(path).error = "none" PROVE Path!Resolved(path).at \in Seq(PathNames)
  <2>2. PICK p \in Seq(PathNames), r \in Seq(Path!Components) : Path!Resolved(path) = Path!Walk(places, p, r)
    <3>1. PICK p \in Seq(PathNames), r \in Seq(Path!Components) : \A t : From(t) = Path!Walk(t, p, r)
      BY WhereItGoes
    <3> QED BY <3>1 DEF Path!Resolved, From
  <2>3. PICK f : IsWalk(f, places, p, r) /\ Path!Walk(places, p, r) = f[Path!MaxSteps]
    BY WalkExists DEF PathWorld
  <2>4. f[Path!MaxSteps] \in Ways
    <3>1. Path!MaxSteps \in 0 .. Path!MaxSteps
      BY StepsAreCounted
    <3> QED BY <2>3, <3>1 DEF IsWalk
  <2> QED BY <2>2, <2>3, <2>4 DEF Ways
<1>2. \A p \in Path!Place(path) : Path!Resolved(path).error = "ENOENT"
  BY PlaceIs
<1> QED BY <1>1, <1>2 DEF Candidates

\* What is composed names whatever the path may be said to name.
LEMMA ComposedIs ==
    ASSUME Path!PathAssumption, PathWorld, Plain, ~PathIsDirectory, NEW p \in Candidates
    PROVE  /\ Path!Last(path) # "/" /\ Path!ParentPlace.error = "none"
           /\ Path!Denotes(Path!Composed, p)
           /\ Len(Path!Composed) <= Capacity \/ Len(p) + 1 >= Capacity
<1> DEFINE c == Path!Last(path)
<1>1. /\ c \in PathNames /\ p = Append(Above.at, c)
      /\ Path!Directory(path).error = "none" /\ Path!Directory(path).at = Above.at
  <2>1. CASE p \in Path!Place(path)
    BY <2>1, PlaceIs
  <2>2. CASE p \notin Path!Place(path)
    <3>1. Path!Resolved(path).error = "none" /\ p = Path!Resolved(path).at
      BY <2>2 DEF Candidates
    <3> QED BY <3>1, FileIs
  <2> QED BY <2>1, <2>2
<1>2. Path!ParentPlace.error = "none" /\ Path!ParentPlace.at = Above.at /\ Above.at \in Seq(PathNames)
  BY <1>1, ParentIs, AboveIs
<1>3. c # "/"
  BY <1>1 DEF Path!PathAssumption
<1>4. Path!Composed = Append(Path!Written(Above.at), c)
  BY <1>2 DEF Path!Composed
<1> HIDE DEF c
<1>5. /\ Path!Denotes(Path!Composed, p)
      /\ Len(Path!Composed) <= Capacity \/ Len(p) + 1 >= Capacity
  BY <1>1, <1>2, <1>4, WrittenFits
<1> QED BY <1>2, <1>3, <1>5 DEF c

-----------------------------------------------------------------------------
(* Paths: the steps *)

PathInd ==
    /\ PathWorld
    /\ path_pc \in {"start", "parent", "done"}
    /\ path_pc = "parent" => ~PathIsDirectory /\ look = "missing"
    /\ Path!NamesTheFile
    /\ Path!RefusesOnlyTheImpossible

\* Before the first look.
LEMMA PathInitHolds == ASSUME Path!PathAssumption, Path!Init PROVE PathInd
<1>1. PathWorld
  <2>1. places \in Trees /\ path \in Paths /\ system \in Systems /\ cwd \in DOMAIN places /\ Path!IsDirectory(places, cwd)
    BY DEF Path!Init
  <2> QED BY <2>1 DEF Path!PathAssumption, PathWorld
<1>2. path_pc = "start"
  BY DEF Path!Init
<1> QED BY <1>1, <1>2 DEF PathInd, Path!NamesTheFile, Path!RefusesOnlyTheImpossible

\* Nothing of this depends on how far the call is.
LEMMA PathSame ==
    ASSUME UNCHANGED <<system, cwd, path, places>>
    PROVE  /\ PathWorld' <=> PathWorld
           /\ Path!Resolved(path)' = Path!Resolved(path)
           /\ PathIsDirectory' <=> PathIsDirectory
           /\ Path!Place(path)' = Path!Place(path)
           /\ Plain' <=> Plain
<1>1. \A p : Path!Base(p)' = Path!Base(p)
  BY DEF Path!Base
<1>2. \A p : Path!Resolved(p)' = Path!Resolved(p)
  BY <1>1 DEF Path!Resolved
<1>3. Path!Resolved(path)' = Path!Resolved(path)
  BY <1>1 DEF Path!Resolved
<1>4. Path!Directory(path)' = Path!Directory(path)
  BY <1>1 DEF Path!Directory, Path!Resolved
<1>5. PathWorld' <=> PathWorld
  BY DEF PathWorld
<1>6. PathIsDirectory' <=> PathIsDirectory
  BY <1>3 DEF PathIsDirectory
<1>7. Path!Place(path)' = Path!Place(path)
  BY <1>4 DEF Path!Place
<1>8. Path!EndsInLink(path)' <=> Path!EndsInLink(path)
  BY <1>3, <1>4 DEF Path!EndsInLink
<1>9. Path!LexicalFails(path)' <=> Path!LexicalFails(path)
  BY <1>1 DEF Path!LexicalFails
<1> QED BY <1>3, <1>5, <1>6, <1>7, <1>8, <1>9 DEF Plain

\* An answer that is right of every place that the path may be said to name.
AnswerIsRight(r, name) ==
    /\ r = 0 => \A p \in Candidates : Path!Denotes(name, p)
    /\ r = 1 => \A p \in Candidates : Len(p) + 1 >= Capacity

LEMMA RightAnswer ==
    ASSUME UNCHANGED <<system, cwd, path, places, look>>, Asked => AnswerIsRight(answer', output')
    PROVE  Path!NamesTheFile' /\ Path!RefusesOnlyTheImpossible'
<1>1. /\ Path!Resolved(path)' = Path!Resolved(path) /\ Path!Place(path)' = Path!Place(path)
      /\ Asked' <=> Asked
  BY PathSame DEF Asked
<1>2. ASSUME Asked', answer' = 0
      PROVE  /\ Path!Resolved(path)'.error = "none" => Path!Denotes(output', Path!Resolved(path)'.at)
             /\ \A p \in Path!Place(path)' : Path!Denotes(output', p)
  BY <1>1, <1>2 DEF AnswerIsRight, Candidates
<1>3. ASSUME Asked', answer' = 1
      PROVE  \A p \in Candidates : Len(p) + 1 >= Capacity
  BY <1>1, <1>3 DEF AnswerIsRight
<1>4. Path!NamesTheFile'
  BY <1>2 DEF Path!NamesTheFile, Path!SetAside, Asked, Plain
<1>5. Path!RefusesOnlyTheImpossible'
  BY <1>1, <1>3 DEF Path!RefusesOnlyTheImpossible, Path!SetAside, Asked, Plain, Candidates
<1> QED BY <1>4, <1>5

\* The answer that is written if it fits.
LEMMA AnswersKeeps ==
    ASSUME Path!PathAssumption, PathInd, NEW name, Path!Answers(name),
           Asked => \A p \in Candidates :
                       Path!Denotes(name, p) /\ (Len(name) <= Capacity \/ Len(p) + 1 >= Capacity)
    PROVE  PathInd'
<1>1. /\ UNCHANGED <<system, cwd, path, places, look>> /\ path_pc' = "done"
      /\ Len(name) <= Capacity => answer' = 0 /\ output' = name
      /\ ~(Len(name) <= Capacity) => answer' = 1
  BY DEF Path!Answers, Path!Returns
<1>2. PathWorld'
  BY <1>1, PathSame DEF PathInd
<1>3. Asked => AnswerIsRight(answer', output')
  <2>1. CASE Len(name) <= Capacity
    BY <1>1, <2>1 DEF AnswerIsRight
  <2>2. CASE ~(Len(name) <= Capacity)
    BY <1>1, <2>2 DEF AnswerIsRight
  <2> QED BY <2>1, <2>2
<1>4. Path!NamesTheFile' /\ Path!RefusesOnlyTheImpossible'
  BY <1>1, <1>3, RightAnswer
<1> QED BY <1>1, <1>2, <1>4 DEF PathInd

\* The refusal of what can be no place.
LEMMA RefusalKeeps ==
    ASSUME Path!PathAssumption, PathInd, Path!Returns(1, <<>>), Asked => Candidates = {}
    PROVE  PathInd'
<1>1. UNCHANGED <<system, cwd, path, places, look>> /\ path_pc' = "done" /\ answer' = 1
  BY DEF Path!Returns
<1>2. PathWorld'
  BY <1>1, PathSame DEF PathInd
<1>3. Asked => AnswerIsRight(answer', output')
  BY <1>1 DEF AnswerIsRight
<1>4. Path!NamesTheFile' /\ Path!RefusesOnlyTheImpossible'
  BY <1>1, <1>3, RightAnswer
<1> QED BY <1>1, <1>2, <1>4 DEF PathInd

\* The first look: what resolves is answered, what is not there has its parent looked at.
LEMMA ResolveExistingKeeps ==
    ASSUME Path!PathAssumption, PathInd, Path!ResolveExisting
    PROVE  PathInd'
<1> DEFINE r == Path!Resolved(path)
<1>1. PathWorld
  BY DEF PathInd
<1>2. \/ r.error = "none" /\ Path!Answers(Path!Written(r.at))
      \/ /\ r.error \in {"ENOENT", "ENOTDIR"} /\ path_pc' = "parent" /\ look' = "missing"
         /\ UNCHANGED <<system, cwd, path, places, answer, output, changes>>
      \/ r.error \notin {"none", "ENOENT", "ENOTDIR"} /\ Path!Returns(1, <<>>)
  BY DEF Path!ResolveExisting
<1>3. CASE r.error = "none" /\ Path!Answers(Path!Written(r.at))
  <2>1. Candidates = {r.at} /\ r.at \in Seq(PathNames)
    BY <1>1, <1>3, ExistingIs DEF Candidates
  <2> HIDE DEF r
  <2>2. Path!Denotes(Path!Written(r.at), r.at) /\ (Len(Path!Written(r.at)) <= Capacity \/ Len(r.at) + 1 >= Capacity)
    BY <2>1, WrittenFits
  <2>3. PICK name : name = Path!Written(r.at)
    OBVIOUS
  <2> QED BY <1>3, <2>1, <2>2, <2>3, AnswersKeeps
<1>4. CASE /\ r.error \in {"ENOENT", "ENOTDIR"} /\ path_pc' = "parent" /\ look' = "missing"
           /\ UNCHANGED <<system, cwd, path, places, answer, output, changes>>
  <2>1. PathWorld' /\ ~PathIsDirectory'
    <3>1. ~PathIsDirectory
      BY <1>4 DEF PathIsDirectory
    <3> QED BY <1>1, <1>4, <3>1, PathSame
  <2> QED BY <1>4, <2>1 DEF PathInd, Path!NamesTheFile, Path!RefusesOnlyTheImpossible
<1>5. CASE r.error \notin {"none", "ENOENT", "ENOTDIR"} /\ Path!Returns(1, <<>>)
  <2>1. Candidates = {}
    BY <1>1, <1>5, ExistingIs
  <2> QED BY <1>5, <2>1, RefusalKeeps
<1> QED BY <1>2, <1>3, <1>4, <1>5

\* The second look, at the parent.
LEMMA ResolveParentKeeps ==
    ASSUME Path!PathAssumption, PathInd, Path!ResolveParent
    PROVE  PathInd'
<1>1. PathWorld /\ ~PathIsDirectory /\ look = "missing"
  BY DEF PathInd, Path!ResolveParent
<1>2. CASE (Path!Last(path) = "/" \/ Path!ParentPlace.error # "none") /\ Path!Returns(1, <<>>)
  <2>1. Asked => Candidates = {}
    BY <1>1, <1>2, ComposedIs DEF Asked
  <2> QED BY <1>2, <2>1, RefusalKeeps
<1>3. CASE Path!Answers(Path!Composed)
  <2>1. Asked => \A p \in Candidates :
           Path!Denotes(Path!Composed, p) /\ (Len(Path!Composed) <= Capacity \/ Len(p) + 1 >= Capacity)
    BY <1>1, ComposedIs DEF Asked
  <2>2. PICK name : name = Path!Composed
    OBVIOUS
  <2> QED BY <1>3, <2>1, <2>2, AnswersKeeps
<1> QED BY <1>2, <1>3 DEF Path!ResolveParent

\* A look that is refused.
LEMMA RefusedKeeps ==
    ASSUME PathInd, Path!Refused
    PROVE  PathInd'
<1>1. /\ UNCHANGED <<system, cwd, path, places>> /\ path_pc' = "done" /\ answer' = 1
      /\ look' = "refused" /\ PathWorld
  BY DEF PathInd, Path!Refused
<1>2. PathWorld'
  BY <1>1, PathSame
<1> QED BY <1>1, <1>2 DEF PathInd, Path!NamesTheFile, Path!RefusesOnlyTheImpossible

-----------------------------------------------------------------------------
(* Paths: another process *)

\* A file that comes or goes leaves the tree a tree, with the directories and links it had.
LEMMA ChangeAlike ==
    ASSUME Path!IsTree(places), Path!Change
    PROVE  Path!IsTree(places') /\ Alike(places', places)
<1>1. PICK d \in DOMAIN places, n \in PathNames :
         LET p == Append(d, n)
         IN  /\ places[d].kind = "dir"
             /\ places' = IF p \notin DOMAIN places
                          THEN [q \in DOMAIN places \cup {p} |-> IF q = p THEN [kind |-> "file"] ELSE places[q]]
                          ELSE [q \in DOMAIN places \ {p} |-> places[q]]
             /\ p \in DOMAIN places => places[p].kind = "file"
  BY DEF Path!Change
<1> DEFINE p == Append(d, n)
<1>2. d \in Seq(PathNames)
  BY DEF Path!IsTree
<1>3. p \in Seq(PathNames) /\ p # <<>> /\ Path!Front(p) = d
  <2>1. p \in Seq(PathNames) /\ p # <<>> /\ Len(p) = Len(d) + 1 /\ Len(d) \in Nat
    BY <1>2, AppendProperties
  <2>2. SubSeq(p, 1, Len(d)) = d
    BY <1>2
  <2>3. Path!Front(p) = SubSeq(p, 1, Len(p) - 1)
    BY DEF Path!Front
  <2>4. Len(p) - 1 = Len(d)
    BY <2>1
  <2> QED BY <2>1, <2>2, <2>3, <2>4
<1> HIDE DEF p
<1>4. p # d
  BY <1>1, <1>2, <1>3 DEF Path!IsTree, Path!IsDirectory, p
<1>5. Alike(places', places)
  BY <1>1 DEF Alike, Firm, p
<1>6. /\ Path!IsDirectory(places', <<>>)
      /\ \A q : Path!IsDirectory(places, q) => Path!IsDirectory(places', q)
  BY <1>5, AlikeDirectories DEF Path!IsTree
<1>7. DOMAIN places' \subseteq Seq(PathNames)
  BY <1>1, <1>3 DEF Path!IsTree, p
<1>8. ASSUME NEW q \in DOMAIN places'
      PROVE  /\ q # <<>> => Path!IsDirectory(places', Path!Front(q))
             /\ places'[q].kind \in {"dir", "file", "link"}
             /\ places'[q].kind = "link" =>
                   places'[q].to \in Seq(Path!Components) \ {<<>>} /\ Len(places'[q].to) <= MaxLength
  <2>1. CASE q \in DOMAIN places /\ places'[q] = places[q]
    <3>1. q # <<>> => Path!IsDirectory(places, Path!Front(q))
      BY <2>1 DEF Path!IsTree
    <3>2. /\ places[q].kind \in {"dir", "file", "link"}
          /\ places[q].kind = "link" =>
                places[q].to \in Seq(Path!Components) \ {<<>>} /\ Len(places[q].to) <= MaxLength
      BY <2>1 DEF Path!IsTree
    <3> QED BY <1>6, <2>1, <3>1, <3>2
  <2>2. CASE q = p /\ places'[q] = [kind |-> "file"]
    <3>1. Path!IsDirectory(places, d)
      BY <1>1 DEF Path!IsDirectory
    <3> QED BY <1>3, <1>6, <2>2, <3>1
  <2>3. (q \in DOMAIN places /\ places'[q] = places[q]) \/ (q = p /\ places'[q] = [kind |-> "file"])
    BY <1>1 DEF p
  <2> QED BY <2>1, <2>2, <2>3
<1> QED BY <1>5, <1>6, <1>7, <1>8 DEF Path!IsTree

\* What changed since the first look is not what a directory is.
LEMMA ChangeKeeps ==
    ASSUME Path!PathAssumption, PathInd, Path!Change
    PROVE  PathInd'
<1>1. /\ PathWorld /\ UNCHANGED <<system, cwd, path, path_pc, look>> /\ path_pc # "done"
      /\ Path!IsTree(places) /\ Path!IsTree(places') /\ Alike(places', places)
  BY ChangeAlike DEF PathInd, PathWorld, Path!Change
<1>2. PathWorld'
  <2>1. Path!IsDirectory(places', cwd)
    BY <1>1, AlikeDirectories DEF PathWorld
  <2> QED BY <1>1, <2>1 DEF PathWorld
<1>3. PICK p \in Seq(PathNames), r \in Seq(Path!Components) :
         Path!Resolved(path) = Path!Walk(places, p, r) /\ Path!Resolved(path)' = Path!Walk(places', p, r)
  <2>1. PICK p \in Seq(PathNames), r \in Seq(Path!Components) : \A t : From(t) = Path!Walk(t, p, r)
    BY <1>1, WhereItGoes
  <2>2. Path!Resolved(path) = From(places)
    BY DEF Path!Resolved, From
  <2>3. Path!Resolved(path)' = From(places')
    BY <1>1 DEF Path!Resolved, Path!Base, From
  <2> QED BY <2>1, <2>2, <2>3
<1>4. path_pc = "parent" => ~PathIsDirectory'
  <2> SUFFICES ASSUME path_pc = "parent", PathIsDirectory' PROVE FALSE
    OBVIOUS
  <2>1. Path!Walk(places', p, r).error = "none" /\ Path!IsDirectory(places', Path!Walk(places', p, r).at)
    BY <1>3 DEF PathIsDirectory
  <2>2. Path!Walk(places, p, r) = Path!Walk(places', p, r)
    BY <1>1, <2>1, AlikeWalks
  <2>3. PathIsDirectory
    BY <1>1, <1>3, <2>1, <2>2, AlikeDirectories DEF PathIsDirectory
  <2> QED BY <2>3 DEF PathInd
<1> QED BY <1>1, <1>2, <1>4 DEF PathInd, Path!NamesTheFile, Path!RefusesOnlyTheImpossible

\* All steps.
LEMMA PathNextKeeps ==
    ASSUME Path!PathAssumption, PathInd, Path!Next
    PROVE  PathInd'
BY ResolveExistingKeeps, ResolveParentKeeps, RefusedKeeps, ChangeKeeps DEF Path!Next

-----------------------------------------------------------------------------
(* The whole *)

\* The other parts leave a part as it is.
LEMMA HandleStutter == ASSUME HandleInd, UNCHANGED handleVars PROVE HandleInd'
BY DEF handleVars, HandleInd, Handle!HandlesAreClosedOnce, Handle!StartMemoryIsFreed,
       Handle!JoinGivesTheResult

LEMMA LogStutter == ASSUME LogInd, UNCHANGED logVars PROVE LogInd'
BY DEF logVars, LogInd, LogTypes, SlotsFilled, BusyAlone, LinesAreOld, Progress

LEMMA ResourceStutter == ASSUME ResourceInd, UNCHANGED resourceVars PROVE ResourceInd'
BY DEF resourceVars, ResourceInd, IsAt

LEMMA DirectoryStutter == ASSUME DirectoryInd, UNCHANGED directoryVars PROVE DirectoryInd'
BY DEF directoryVars, DirectoryInd, CallInd, WorldInd, StackInd, BaseInd, AfterInd, ListInd,
       Removal, Pending, NothingLeft, Directory!ListingIsComplete

LEMMA PathStutter == ASSUME PathInd, UNCHANGED pathVars PROVE PathInd'
<1>1. UNCHANGED <<system, cwd, path, places>> /\ UNCHANGED <<path_pc, answer, output, look>>
  BY DEF pathVars
<1>2. /\ PathWorld' <=> PathWorld
      /\ Path!Resolved(path)' = Path!Resolved(path)
      /\ PathIsDirectory' <=> PathIsDirectory
      /\ Path!Place(path)' = Path!Place(path)
      /\ Asked' <=> Asked
  BY <1>1, PathSame DEF Asked
<1>3. Path!NamesTheFile' <=> Path!NamesTheFile
  BY <1>1, <1>2 DEF Path!NamesTheFile, Path!SetAside, Asked, Plain
<1>4. Path!RefusesOnlyTheImpossible' <=> Path!RefusesOnlyTheImpossible
  BY <1>1, <1>2 DEF Path!RefusesOnlyTheImpossible, Path!SetAside, Asked, Plain
<1> QED BY <1>1, <1>2, <1>3, <1>4 DEF PathInd

\* The invariant of os_remove and os_listdir.
LEMMA DirectoryIndIsInvariant == Spec => [](part = "directory" => DirectoryInd)
<1> DEFINE Ind == part = "directory" => DirectoryInd
<1>1. Init => Ind
  BY SystemAssumption, DirectoryInitHolds DEF Init, SystemAssumption
<1>2. Ind /\ [Next]_vars => Ind'
  <2> SUFFICES ASSUME Ind, [Next]_vars, part' = "directory" PROVE DirectoryInd'
    OBVIOUS
  <2>1. CASE DirectoryStep
    BY <2>1, SystemAssumption, DirectoryNextKeeps DEF DirectoryStep, SystemAssumption
  <2>2. CASE PathStep \/ ResourceStep \/ HandleStep \/ LogStep \/ UNCHANGED vars
    <3>1. part' = part /\ UNCHANGED directoryVars
      BY <2>2 DEF PathStep, ResourceStep, HandleStep, LogStep, vars
    <3> QED BY <3>1, DirectoryStutter
  <2> QED BY <2>1, <2>2 DEF Next
<1> QED BY <1>1, <1>2, PTL DEF Spec

\* The invariant of os_canonical_path.
LEMMA PathIndIsInvariant == Spec => [](part = "path" => PathInd)
<1> DEFINE Ind == part = "path" => PathInd
<1>1. Init => Ind
  BY SystemAssumption, PathInitHolds DEF Init, SystemAssumption
<1>2. Ind /\ [Next]_vars => Ind'
  <2> SUFFICES ASSUME Ind, [Next]_vars, part' = "path" PROVE PathInd'
    OBVIOUS
  <2>1. CASE PathStep
    BY <2>1, SystemAssumption, PathNextKeeps DEF PathStep, SystemAssumption
  <2>2. CASE DirectoryStep \/ ResourceStep \/ HandleStep \/ LogStep \/ UNCHANGED vars
    <3>1. part = "path" /\ UNCHANGED pathVars
      BY <2>2 DEF DirectoryStep, ResourceStep, HandleStep, LogStep, vars
    <3> QED BY <3>1, PathStutter
  <2> QED BY <2>1, <2>2 DEF Next
<1> QED BY <1>1, <1>2, PTL DEF Spec

\* The invariant of the functions that acquire resources.
LEMMA ResourceIndIsInvariant == Spec => [](part = "resource" => ResourceInd)
<1> DEFINE Ind == part = "resource" => ResourceInd
<1>1. Init => Ind
  BY SystemAssumption, ResourceInitHolds DEF Init, SystemAssumption
<1>2. Ind /\ [Next]_vars => Ind'
  <2> SUFFICES ASSUME Ind, [Next]_vars, part' = "resource" PROVE ResourceInd'
    OBVIOUS
  <2>1. CASE ResourceStep
    BY <2>1, SystemAssumption, ResourceNextKeeps DEF ResourceStep, SystemAssumption
  <2>2. CASE DirectoryStep \/ PathStep \/ HandleStep \/ LogStep \/ UNCHANGED vars
    <3>1. part' = part /\ UNCHANGED resourceVars
      BY <2>2 DEF DirectoryStep, PathStep, HandleStep, LogStep, vars
    <3> QED BY <3>1, ResourceStutter
  <2> QED BY <2>1, <2>2 DEF Next
<1> QED BY <1>1, <1>2, PTL DEF Spec

\* The invariant of the handles of threads.
LEMMA HandleIndIsInvariant == Spec => [](part = "handle" => HandleInd)
<1> DEFINE Ind == part = "handle" => HandleInd
<1>1. Init => Ind
  BY SystemAssumption, HandleInitHolds DEF Init, SystemAssumption
<1>2. Ind /\ [Next]_vars => Ind'
  <2> SUFFICES ASSUME Ind, [Next]_vars, part' = "handle" PROVE HandleInd'
    OBVIOUS
  <2>1. CASE HandleStep
    BY <2>1, SystemAssumption, HandleNextKeeps DEF HandleStep, SystemAssumption
  <2>2. CASE DirectoryStep \/ PathStep \/ ResourceStep \/ LogStep \/ UNCHANGED vars
    <3>1. part' = part /\ UNCHANGED handleVars
      BY <2>2 DEF DirectoryStep, PathStep, ResourceStep, LogStep, vars
    <3> QED BY <3>1, HandleStutter
  <2> QED BY <2>1, <2>2 DEF Next
<1> QED BY <1>1, <1>2, PTL DEF Spec

\* The invariant of the synchronous logger.
LEMMA LogIndIsInvariant == Spec => [](part = "log" => LogInd)
<1> DEFINE Ind == part = "log" => LogInd
<1>1. Init => Ind
  BY SystemAssumption, LogInitHolds DEF Init, SystemAssumption
<1>2. Ind /\ [Next]_vars => Ind'
  <2> SUFFICES ASSUME Ind, [Next]_vars, part' = "log" PROVE LogInd'
    OBVIOUS
  <2>1. CASE LogStep
    BY <2>1, SystemAssumption, LogNextKeeps DEF LogStep, SystemAssumption
  <2>2. CASE DirectoryStep \/ PathStep \/ ResourceStep \/ HandleStep \/ UNCHANGED vars
    <3>1. part' = part /\ UNCHANGED logVars
      BY <2>2 DEF DirectoryStep, PathStep, ResourceStep, HandleStep, vars
    <3> QED BY <3>1, LogStutter
  <2> QED BY <2>1, <2>2 DEF Next
<1> QED BY <1>1, <1>2, PTL DEF Spec

\* os_remove removes nothing but what its path has named and what has been below the
\* directory it opened, whatever another process renames under way.
THEOREM NothingElseIsRemoved == Spec => []OnlyTheTreeIsRemoved
<1>1. (part = "directory" => DirectoryInd) => OnlyTheTreeIsRemoved
  BY SystemAssumption, DirectoryIndHolds DEF OnlyTheTreeIsRemoved, SystemAssumption
<1> QED BY <1>1, DirectoryIndIsInvariant, PTL

\* A result of 0 of os_remove means that all is gone that nobody renamed, and one of
\* os_listdir that all was listed, whichever system calls were refused: also the readdir
\* that ends a directory too early, and closedir.
THEOREM ZeroIsTrue == Spec => []ZeroMeansGone
<1>1. (part = "directory" => DirectoryInd) => ZeroMeansGone
  BY SystemAssumption, DirectoryIndHolds DEF ZeroMeansGone, SystemAssumption
<1> QED BY <1>1, DirectoryIndIsInvariant, PTL

\* os_canonical_path names the file that the path names, through any links, or the one that
\* would come to be under it, on Unix and on Windows, whatever comes and goes between its
\* two looks at the tree; and if the system refuses no look, it refuses nothing that it could
\* have answered.  Set aside are only paths that the first look finds nothing under: those
\* that end in a link, and on Windows those whose text alone is not enough.
THEOREM NamesAreRight == Spec => []NamesTheFile
<1>1. (part = "path" => PathInd) => NamesTheFile
  BY DEF PathInd, NamesTheFile
<1> QED BY <1>1, PathIndIsInvariant, PTL

\* Whichever step is refused, a call gives back what it holds, once; and so do a thread
\* and its creator.
THEOREM ResourcesAreGivenBack == Spec => []NothingIsLeaked
<1>1. (part = "resource" => ResourceInd) /\ (part = "handle" => HandleInd) => NothingIsLeaked
  BY ResourceIndHolds DEF NothingIsLeaked, HandleInd
<1> QED BY <1>1, ResourceIndIsInvariant, HandleIndIsInvariant, PTL

\* A message of the synchronous logger reaches the callbacks that were there before it,
\* each once and in order, and its lines stand together under the program's lock.
THEOREM MessagesReachAll == Spec => []EachMessageReachesAll
<1>1. (part = "log" => LogInd) => EachMessageReachesAll
  BY LogIndHolds DEF EachMessageReachesAll
<1> QED BY <1>1, LogIndIsInvariant, PTL
=============================================================================
