-------------------------- MODULE AsyncLog_proofs --------------------------
(***************************************************************************)
(* The asynchronous logger, for any number of loggers, records, workers    *)
(* and lives of the pool: each record has one owner, and each message is   *)
(* written once or accounted for otherwise.                                *)
(*                                                                         *)
(* A record can be in four kinds of places.  Each action takes one record  *)
(* out of one place and puts it into another; the lemmas count the places  *)
(* before and after.  A message is where its record is, or is over.        *)
(***************************************************************************)
EXTENDS AsyncLog, FiniteSetTheorems, TLAPS

LoggerAssumption == LogAssumption /\ NoRecord \notin Records

-----------------------------------------------------------------------------
(* Where a record can be *)

Positions(s, r) == {i \in DOMAIN s : s[i] = r}
InList(r) == Positions(linklist, r)
ByLogger(r) == {l \in Loggers : task[l] = r}
ByCallback(r) == {t \in Tasks : nested[t] = r}
ByTask(r) == {t \in Tasks : args[t] = r /\ (t \in Queued \cup Discarded \/ Held(t))}

\* The first element of a list is one position, and the others stay where they are.
LEMMA HeadRemoved ==
    ASSUME NEW T, NEW s \in Seq(T), s # <<>>, NEW r
    PROVE  /\ IsFiniteSet(Positions(s, r)) /\ IsFiniteSet(Positions(Tail(s), r))
           /\ Cardinality(Positions(Tail(s), r))
                = Cardinality(Positions(s, r)) - (IF Head(s) = r THEN 1 ELSE 0)
<1> DEFINE A == Positions(s, r)
           B == Positions(Tail(s), r)
           f == [i \in B |-> i + 1]
<1>1. IsFiniteSet(1 .. Len(s)) /\ IsFiniteSet(1 .. Len(Tail(s)))
  BY FS_Interval
<1>2. A \subseteq 1 .. Len(s) /\ B \subseteq 1 .. Len(Tail(s))
  BY DEF Positions
<1>3. IsFiniteSet(A) /\ IsFiniteSet(B)
  BY <1>1, <1>2, FS_Subset
<1>4. ExistsBijection(B, A \ {1})
  <2>1. f \in [B -> A \ {1}]
    BY DEF Positions
  <2>2. \A i, j \in B : f[i] = f[j] => i = j
    BY <1>2
  <2>3. \A j \in A \ {1} : \E i \in B : f[i] = j
    <3> SUFFICES ASSUME NEW j \in A \ {1} PROVE \E i \in B : f[i] = j
      OBVIOUS
    <3>1. j - 1 \in B /\ f[j - 1] = j
      BY <1>2 DEF Positions
    <3> QED BY <3>1
  <2>4. f \in Bijection(B, A \ {1})
    BY <2>1, <2>2, <2>3 DEF Bijection, Injection, Surjection, IsInjective
  <2> QED BY <2>4 DEF ExistsBijection
<1>5. Cardinality(B) = Cardinality(A \ {1})
  BY <1>3, <1>4, FS_Bijection, FS_RemoveElement
<1>6. 1 \in A <=> Head(s) = r
  BY DEF Positions
<1>7. Cardinality(A \ {1}) = Cardinality(A) - (IF Head(s) = r THEN 1 ELSE 0)
  BY <1>3, <1>6, FS_RemoveElement, FS_CardinalityType
<1> QED BY <1>3, <1>5, <1>7

\* The same, backwards: an element put before a list.
LEMMA HeadAdded ==
    ASSUME NEW T, NEW s \in Seq(T), NEW h \in T, NEW r
    PROVE  Cardinality(Positions(<<h>> \o s, r))
             = Cardinality(Positions(s, r)) + (IF h = r THEN 1 ELSE 0)
<1> DEFINE u == <<h>> \o s
<1>1. u \in Seq(T) /\ u # <<>> /\ Head(u) = h /\ Len(Tail(u)) = Len(s)
  OBVIOUS
<1>2. Tail(u) = s
  OBVIOUS
<1>3. /\ IsFiniteSet(Positions(u, r))
      /\ Cardinality(Positions(s, r)) = Cardinality(Positions(u, r)) - (IF h = r THEN 1 ELSE 0)
  BY <1>1, <1>2, HeadRemoved
<1> QED BY <1>3, FS_CardinalityType

-----------------------------------------------------------------------------
(* The invariant *)

Steps == {"lock", "echo", "add", "free", "done"}

LogTypeOK ==
    /\ linklist \in Seq(Records)
    /\ task \in [Loggers -> Records \cup {NoRecord}]
    /\ pc \in [Loggers -> {"out", "fill", "add"}]
    /\ lives \in Nat /\ pool \in BOOLEAN

PoolTypeOK ==
    /\ total \in Nat /\ running \subseteq Tasks /\ cleaned \subseteq Tasks
    /\ pending \in Seq(Tasks) /\ dropped \in Seq(Tasks)

\* What a task carries is kept beside it for as long as the pool lives.
TaskTypeOK ==
    /\ args \in Seq(Records) /\ Len(args) = total
    /\ nested \in Seq(Records \cup {NoRecord}) /\ Len(nested) = total
    /\ step \in Seq(Steps) /\ Len(step) = total

\* The queue holds the newest tasks; once some were discarded it stays empty.
QueueNewest ==
    /\ \A i \in DOMAIN pending : pending[i] = total - Len(pending) + i
    /\ Discarded # {} => pending = <<>> /\ closed

\* Who has a record is where he needs one; tasks that wait have not begun.
RecordsInUse ==
    /\ \A l \in Loggers : pc[l] = "out" <=> task[l] = NoRecord
    /\ \A t \in Tasks : nested[t] # NoRecord <=> step[t] = "add"
    /\ \A t \in Queued \cup Discarded : t \notin running /\ step[t] = "lock"

Owners(r) ==
    Cardinality(InList(r)) + Cardinality(ByLogger(r)) + Cardinality(ByCallback(r))
    + Cardinality(ByTask(r))

OneOwner == lives > 0 => \A r \in Records : Owners(r) = 1

\* Before the first async_log_init there is no pool, and so nobody has a record.
NotBegun == lives = 0 => ~pool

LogInd ==
    LogTypeOK /\ PoolTypeOK /\ TaskTypeOK /\ QueueNewest /\ RecordsInUse /\ NotBegun /\ OneOwner

\* The records' places are finite sets.
LEMMA PlacesFinite ==
    ASSUME LoggerAssumption, LogInd, NEW r
    PROVE  /\ IsFiniteSet(InList(r)) /\ IsFiniteSet(ByLogger(r))
           /\ IsFiniteSet(ByCallback(r)) /\ IsFiniteSet(ByTask(r))
           /\ Cardinality(InList(r)) \in Nat /\ Cardinality(ByLogger(r)) \in Nat
           /\ Cardinality(ByCallback(r)) \in Nat /\ Cardinality(ByTask(r)) \in Nat
<1>1. IsFiniteSet(Loggers) /\ IsFiniteSet(Tasks) /\ IsFiniteSet(1 .. Len(linklist))
  <2>1. total \in Nat /\ Len(linklist) \in Nat
    BY DEF LogInd, PoolTypeOK, LogTypeOK
  <2>2. IsFiniteSet(Tasks) /\ IsFiniteSet(1 .. Len(linklist))
    BY <2>1, FS_Interval DEF Tasks
  <2> QED BY <2>2 DEF LoggerAssumption, LogAssumption
<1>2. /\ InList(r) \subseteq 1 .. Len(linklist) /\ ByLogger(r) \subseteq Loggers
      /\ ByCallback(r) \subseteq Tasks /\ ByTask(r) \subseteq Tasks
  BY DEF InList, Positions, ByLogger, ByCallback, ByTask, LogInd, LogTypeOK
<1>3. /\ IsFiniteSet(InList(r)) /\ IsFiniteSet(ByLogger(r))
      /\ IsFiniteSet(ByCallback(r)) /\ IsFiniteSet(ByTask(r))
  BY <1>1, <1>2, FS_Subset
<1> QED BY <1>3, FS_CardinalityType

\* What holds the newest tasks in order is the newest tasks.
LEMMA NewestTasks ==
    ASSUME NEW s \in Seq(Int), NEW n \in Nat, \A i \in DOMAIN s : s[i] = n - Len(s) + i
    PROVE  {s[i] : i \in DOMAIN s} = (n - Len(s) + 1) .. n
<1>1. ASSUME NEW t \in (n - Len(s) + 1) .. n PROVE t \in {s[i] : i \in DOMAIN s}
  <2>1. t - (n - Len(s)) \in DOMAIN s
    OBVIOUS
  <2>2. s[t - (n - Len(s))] = t
    BY <2>1
  <2> QED BY <2>1, <2>2
<1>2. ASSUME NEW i \in DOMAIN s PROVE s[i] \in (n - Len(s) + 1) .. n
  OBVIOUS
<1> QED BY <1>1, <1>2

\* The types with which tasks and places are looked at.
LEMMA Shapes ==
    ASSUME LogInd
    PROVE  /\ Queued \subseteq Tasks /\ Discarded \subseteq Tasks
           /\ Queued = (total - Len(pending) + 1) .. total
           /\ args \in [Tasks -> Records] /\ nested \in [Tasks -> Records \cup {NoRecord}]
           /\ step \in [Tasks -> Steps]
<1>1. pending \in Seq(Tasks) /\ dropped \in Seq(Tasks) /\ cleaned \subseteq Tasks /\ total \in Nat
  BY DEF LogInd, PoolTypeOK
<1>2. Queued \subseteq Tasks /\ Discarded \subseteq Tasks
  BY <1>1 DEF Queued, Discarded
<1>3. pending \in Seq(Int)
  BY <1>1 DEF Tasks
<1>4. Queued = (total - Len(pending) + 1) .. total
  BY <1>1, <1>3, NewestTasks DEF LogInd, QueueNewest, Queued
<1>5. /\ args \in [Tasks -> Records] /\ nested \in [Tasks -> Records \cup {NoRecord}]
      /\ step \in [Tasks -> Steps]
  BY DEF LogInd, TaskTypeOK, Tasks
<1> QED BY <1>2, <1>4, <1>5

-----------------------------------------------------------------------------
(* What a step does to the owners of one record *)

InTask(t) == t \in Queued \cup Discarded \/ Held(t)

\* Tasks whose message is still to be written, or was discarded.
Carrying(t) == t \in Queued \cup Discarded \/ At(t, "lock")

\* A step of the pool that leaves every task where it is with its message.
SameWork ==
    /\ Tasks' = Tasks
    /\ \A t \in Tasks :
        /\ Carrying(t)' <=> Carrying(t)
        /\ \A s \in {"echo", "add", "free"} : At(t, s)' <=> At(t, s)

\* A step that moves no record.
LEMMA OwnersKept ==
    ASSUME NEW r, UNCHANGED <<linklist, task, nested, args, total>>,
           \A t \in Tasks : InTask(t)' <=> InTask(t)
    PROVE  Owners(r)' = Owners(r)
<1>1. Tasks' = Tasks
  BY DEF Tasks
<1>2. InList(r)' = InList(r) /\ ByLogger(r)' = ByLogger(r) /\ ByCallback(r)' = ByCallback(r)
  BY <1>1 DEF InList, Positions, ByLogger, ByCallback
<1>3. ByTask(r)' = ByTask(r)
  BY <1>1 DEF ByTask, InTask
<1> QED BY <1>2, <1>3 DEF Owners

\* If no record has more or less owners, each still has one.
LEMMA OneOwnerKept ==
    ASSUME LogInd, lives' = lives, \A r \in Records : Owners(r)' = Owners(r)
    PROVE  OneOwner'
<1>1. Records' = Records
  BY DEF Records
<1> QED BY <1>1 DEF LogInd, OneOwner

\* The first free record goes to a logger.
LEMMA ListToLogger ==
    ASSUME LoggerAssumption, LogInd, NEW l \in Loggers, task[l] = NoRecord, linklist # <<>>,
           linklist' = Tail(linklist), task' = [task EXCEPT ![l] = Head(linklist)],
           UNCHANGED <<nested, args, total>>, \A t \in Tasks : InTask(t)' <=> InTask(t),
           NEW r \in Records
    PROVE  Owners(r)' = Owners(r)
<1>1. Tasks' = Tasks
  BY DEF Tasks
<1>2. ByCallback(r)' = ByCallback(r) /\ ByTask(r)' = ByTask(r)
  BY <1>1 DEF ByCallback, ByTask, InTask
<1>3. linklist \in Seq(Records) /\ task \in [Loggers -> Records \cup {NoRecord}] /\ r # NoRecord
  BY DEF LogInd, LogTypeOK, LoggerAssumption
<1>4. Cardinality(InList(r)') = Cardinality(InList(r)) - (IF Head(linklist) = r THEN 1 ELSE 0)
  BY <1>3, HeadRemoved DEF InList
<1>5. Cardinality(ByLogger(r)') = Cardinality(ByLogger(r)) + (IF Head(linklist) = r THEN 1 ELSE 0)
  <2>1. l \notin ByLogger(r)
    BY <1>3 DEF ByLogger
  <2>2. ByLogger(r)' = IF Head(linklist) = r THEN ByLogger(r) \cup {l} ELSE ByLogger(r)
    BY <1>3, <2>1 DEF ByLogger
  <2>3. Cardinality(ByLogger(r) \cup {l}) = Cardinality(ByLogger(r)) + 1
    BY <2>1, PlacesFinite, FS_AddElement
  <2>4. Cardinality(ByLogger(r)) \in Nat
    BY PlacesFinite
  <2> QED BY <2>2, <2>3, <2>4
<1> QED BY <1>2, <1>4, <1>5, PlacesFinite DEF Owners

\* The first free record goes to a callback that logs.
LEMMA ListToCallback ==
    ASSUME LoggerAssumption, LogInd, NEW u \in Tasks, nested[u] = NoRecord, linklist # <<>>,
           linklist' = Tail(linklist), nested' = [nested EXCEPT ![u] = Head(linklist)],
           UNCHANGED <<task, args, total>>, \A t \in Tasks : InTask(t)' <=> InTask(t),
           NEW r \in Records
    PROVE  Owners(r)' = Owners(r)
<1>1. Tasks' = Tasks
  BY DEF Tasks
<1>2. ByLogger(r)' = ByLogger(r) /\ ByTask(r)' = ByTask(r)
  BY <1>1 DEF ByLogger, ByTask, InTask
<1>3. linklist \in Seq(Records) /\ nested \in [Tasks -> Records \cup {NoRecord}] /\ r # NoRecord
  BY Shapes DEF LogInd, LogTypeOK, LoggerAssumption
<1>4. Cardinality(InList(r)') = Cardinality(InList(r)) - (IF Head(linklist) = r THEN 1 ELSE 0)
  BY <1>3, HeadRemoved DEF InList
<1>5. Cardinality(ByCallback(r)')
        = Cardinality(ByCallback(r)) + (IF Head(linklist) = r THEN 1 ELSE 0)
  <2>1. u \notin ByCallback(r)
    BY <1>3 DEF ByCallback
  <2>2. ByCallback(r)' = IF Head(linklist) = r THEN ByCallback(r) \cup {u} ELSE ByCallback(r)
    BY <1>1, <1>3, <2>1 DEF ByCallback
  <2>3. Cardinality(ByCallback(r) \cup {u}) = Cardinality(ByCallback(r)) + 1
    BY <2>1, PlacesFinite, FS_AddElement
  <2>4. Cardinality(ByCallback(r)) \in Nat
    BY PlacesFinite
  <2> QED BY <2>2, <2>3, <2>4
<1> QED BY <1>2, <1>4, <1>5, PlacesFinite DEF Owners

\* A callback that was refused puts its record back.
LEMMA CallbackToList ==
    ASSUME LoggerAssumption, LogInd, NEW u \in Tasks, nested[u] \in Records,
           linklist' = <<nested[u]>> \o linklist, nested' = [nested EXCEPT ![u] = NoRecord],
           UNCHANGED <<task, args, total>>, \A t \in Tasks : InTask(t)' <=> InTask(t),
           NEW r \in Records
    PROVE  Owners(r)' = Owners(r)
<1>1. Tasks' = Tasks
  BY DEF Tasks
<1>2. ByLogger(r)' = ByLogger(r) /\ ByTask(r)' = ByTask(r)
  BY <1>1 DEF ByLogger, ByTask, InTask
<1>3. linklist \in Seq(Records) /\ nested \in [Tasks -> Records \cup {NoRecord}] /\ r # NoRecord
  BY Shapes DEF LogInd, LogTypeOK, LoggerAssumption
<1>4. Cardinality(InList(r)') = Cardinality(InList(r)) + (IF nested[u] = r THEN 1 ELSE 0)
  BY <1>3, HeadAdded DEF InList
<1>5. Cardinality(ByCallback(r)')
        = Cardinality(ByCallback(r)) - (IF nested[u] = r THEN 1 ELSE 0)
  <2>1. u \in ByCallback(r) <=> nested[u] = r
    BY DEF ByCallback
  <2>2. ByCallback(r)' = ByCallback(r) \ {u}
    BY <1>1, <1>3 DEF ByCallback
  <2>3. Cardinality(ByCallback(r) \ {u})
          = Cardinality(ByCallback(r)) - (IF nested[u] = r THEN 1 ELSE 0)
    <3>1. Cardinality(ByCallback(r) \ {u})
            = IF u \in ByCallback(r) THEN Cardinality(ByCallback(r)) - 1
                                     ELSE Cardinality(ByCallback(r))
      BY PlacesFinite, FS_RemoveElement
    <3>2. Cardinality(ByCallback(r)) \in Nat
      BY PlacesFinite
    <3> QED BY <2>1, <3>1, <3>2
  <2> QED BY <2>2, <2>3
<1> QED BY <1>2, <1>4, <1>5, PlacesFinite DEF Owners

\* A logger that was refused puts its record back.
LEMMA LoggerToList ==
    ASSUME LoggerAssumption, LogInd, NEW l \in Loggers, task[l] \in Records,
           linklist' = <<task[l]>> \o linklist, task' = [task EXCEPT ![l] = NoRecord],
           UNCHANGED <<nested, args, total>>, \A t \in Tasks : InTask(t)' <=> InTask(t),
           NEW r \in Records
    PROVE  Owners(r)' = Owners(r)
<1>1. Tasks' = Tasks
  BY DEF Tasks
<1>2. ByCallback(r)' = ByCallback(r) /\ ByTask(r)' = ByTask(r)
  BY <1>1 DEF ByCallback, ByTask, InTask
<1>3. linklist \in Seq(Records) /\ task \in [Loggers -> Records \cup {NoRecord}] /\ r # NoRecord
  BY DEF LogInd, LogTypeOK, LoggerAssumption
<1>4. Cardinality(InList(r)') = Cardinality(InList(r)) + (IF task[l] = r THEN 1 ELSE 0)
  BY <1>3, HeadAdded DEF InList
<1>5. Cardinality(ByLogger(r)') = Cardinality(ByLogger(r)) - (IF task[l] = r THEN 1 ELSE 0)
  <2>1. l \in ByLogger(r) <=> task[l] = r
    BY DEF ByLogger
  <2>2. ByLogger(r)' = ByLogger(r) \ {l}
    BY <1>3 DEF ByLogger
  <2>3. Cardinality(ByLogger(r) \ {l})
          = Cardinality(ByLogger(r)) - (IF task[l] = r THEN 1 ELSE 0)
    <3>1. Cardinality(ByLogger(r) \ {l})
            = IF l \in ByLogger(r) THEN Cardinality(ByLogger(r)) - 1
                                   ELSE Cardinality(ByLogger(r))
      BY PlacesFinite, FS_RemoveElement
    <3>2. Cardinality(ByLogger(r)) \in Nat
      BY PlacesFinite
    <3> QED BY <2>1, <3>1, <3>2
  <2> QED BY <2>2, <2>3
<1> QED BY <1>2, <1>4, <1>5, PlacesFinite DEF Owners

\* A task that has written its message puts the record back.
LEMMA TaskToList ==
    ASSUME LoggerAssumption, LogInd, NEW u \in Tasks, InTask(u), ~InTask(u)',
           linklist' = <<args[u]>> \o linklist, UNCHANGED <<task, nested, args, total>>,
           \A t \in Tasks \ {u} : InTask(t)' <=> InTask(t),
           NEW r \in Records
    PROVE  Owners(r)' = Owners(r)
<1>1. Tasks' = Tasks
  BY DEF Tasks
<1>2. ByLogger(r)' = ByLogger(r) /\ ByCallback(r)' = ByCallback(r)
  BY <1>1 DEF ByLogger, ByCallback
<1>3. linklist \in Seq(Records) /\ args \in [Tasks -> Records]
  BY Shapes DEF LogInd, LogTypeOK
<1>4. Cardinality(InList(r)') = Cardinality(InList(r)) + (IF args[u] = r THEN 1 ELSE 0)
  BY <1>3, HeadAdded DEF InList
<1>5. Cardinality(ByTask(r)') = Cardinality(ByTask(r)) - (IF args[u] = r THEN 1 ELSE 0)
  <2>1. u \in ByTask(r) <=> args[u] = r
    BY DEF ByTask, InTask
  <2>2. ByTask(r)' = ByTask(r) \ {u}
    BY <1>1 DEF ByTask, InTask
  <2>3. Cardinality(ByTask(r) \ {u}) = Cardinality(ByTask(r)) - (IF args[u] = r THEN 1 ELSE 0)
    <3>1. Cardinality(ByTask(r) \ {u})
            = IF u \in ByTask(r) THEN Cardinality(ByTask(r)) - 1 ELSE Cardinality(ByTask(r))
      BY PlacesFinite, FS_RemoveElement
    <3>2. Cardinality(ByTask(r)) \in Nat
      BY PlacesFinite
    <3> QED BY <2>1, <3>1, <3>2
  <2> QED BY <2>2, <2>3
<1> QED BY <1>2, <1>4, <1>5, PlacesFinite DEF Owners

\* The pool takes one task more.
LEMMA TaskAccepted ==
    ASSUME LogInd, Pool!Accept(1)
    PROVE  /\ total' = total + 1 /\ Tasks' = Tasks \cup {total + 1} /\ total + 1 \notin Tasks
           /\ Queued' = Queued \cup {total + 1} /\ Discarded' = Discarded /\ Discarded = {}
           /\ running' = running /\ closed' = closed
           /\ PoolTypeOK' /\ QueueNewest'
<1>1. /\ total \in Nat /\ pending \in Seq(Tasks) /\ dropped \in Seq(Tasks)
      /\ running \subseteq Tasks /\ cleaned \subseteq Tasks
  BY DEF LogInd, PoolTypeOK
<1>2. /\ total' = total + 1 /\ ~closed /\ pending' = pending \o [i \in 1 .. 1 |-> total + i]
      /\ UNCHANGED <<running, dropped, cleaned, closed>>
  BY DEF Pool!Accept
<1>3. Tasks' = Tasks \cup {total + 1} /\ total + 1 \notin Tasks
  BY <1>1, <1>2 DEF Tasks
<1>4. /\ pending' \in Seq(Tasks') /\ Len(pending') = Len(pending) + 1
      /\ pending'[Len(pending) + 1] = total + 1
      /\ \A i \in 1 .. Len(pending) : pending'[i] = pending[i]
  <2>1. [i \in 1 .. 1 |-> total + i] = <<total + 1>>
    BY <1>1
  <2>2. pending' = Append(pending, total + 1)
    BY <1>1, <1>2, <2>1
  <2>3. pending \in Seq(Tasks') /\ total + 1 \in Tasks'
    BY <1>1, <1>3
  <2> QED BY <2>2, <2>3
<1>5. Discarded' = Discarded /\ Discarded = {}
  BY <1>2 DEF Discarded, LogInd, QueueNewest
<1>6. PoolTypeOK'
  <2>1. dropped \in Seq(Tasks') /\ running \subseteq Tasks' /\ cleaned \subseteq Tasks'
    BY <1>1, <1>3
  <2> QED BY <1>1, <1>2, <1>4, <2>1 DEF PoolTypeOK
<1>7. QueueNewest'
  <2>1. \A i \in 1 .. Len(pending) : pending[i] = total - Len(pending) + i
    BY <1>1 DEF LogInd, QueueNewest
  <2>2. \A i \in 1 .. Len(pending') : pending'[i] = total' - Len(pending') + i
    <3> SUFFICES ASSUME NEW i \in 1 .. Len(pending') PROVE pending'[i] = total' - Len(pending') + i
      OBVIOUS
    <3>1. CASE i = Len(pending) + 1
      BY <1>1, <1>2, <1>4, <3>1
    <3>2. CASE i \in 1 .. Len(pending)
      BY <1>1, <1>2, <1>4, <2>1, <3>2
    <3> QED BY <1>1, <1>4, <3>1, <3>2
  <2>3. DOMAIN pending' = 1 .. Len(pending')
    BY <1>4
  <2> QED BY <1>5, <2>2, <2>3 DEF QueueNewest
<1>8. Queued' = Queued \cup {total + 1}
  <2>1. pending' \in Seq(Int) /\ total' \in Nat
    BY <1>1, <1>2, <1>3, <1>4 DEF Tasks
  <2>2. Queued' = (total' - Len(pending') + 1) .. total'
    BY <1>7, <2>1, NewestTasks DEF Queued, QueueNewest
  <2>3. Queued = (total - Len(pending) + 1) .. total
    BY Shapes
  <2>4. Len(pending) \in Nat
    BY <1>1
  <2> QED BY <1>1, <1>2, <1>4, <2>2, <2>3, <2>4
<1> QED BY <1>2, <1>3, <1>5, <1>6, <1>7, <1>8

\* A task that is accepted has its record, and no other.
LEMMA TaskGetsRecord ==
    ASSUME LoggerAssumption, LogInd, Pool!Accept(1), NEW q \in Records, args' = Append(args, q),
           \A t \in Tasks : step'[t] = "done" <=> step[t] = "done",
           NEW r \in Records
    PROVE  Cardinality(ByTask(r)') = Cardinality(ByTask(r)) + (IF q = r THEN 1 ELSE 0)
<1> DEFINE n == total + 1
<1>1. /\ Tasks' = Tasks \cup {n} /\ n \notin Tasks /\ Queued' = Queued \cup {n}
      /\ Discarded' = Discarded /\ running' = running /\ running \subseteq Tasks
      /\ Queued \subseteq Tasks /\ Discarded \subseteq Tasks
  BY TaskAccepted, Shapes DEF LogInd, PoolTypeOK
<1>2. args'[n] = q /\ \A t \in Tasks : args'[t] = args[t]
  BY DEF LogInd, PoolTypeOK, TaskTypeOK, Tasks
<1>3. \A t \in Tasks : InTask(t)' <=> InTask(t)
  BY <1>1 DEF InTask, Held
<1>4. n \in Queued' \cup Discarded'
  BY <1>1
<1>5. ByTask(r)' = IF q = r THEN ByTask(r) \cup {n} ELSE ByTask(r)
  BY <1>1, <1>2, <1>3, <1>4 DEF ByTask, InTask
<1>6. n \notin ByTask(r)
  BY <1>1 DEF ByTask
<1>7. Cardinality(ByTask(r) \cup {n}) = Cardinality(ByTask(r)) + 1
  BY <1>6, PlacesFinite, FS_AddElement
<1>8. Cardinality(ByTask(r)) \in Nat
  BY PlacesFinite
<1> QED BY <1>5, <1>7, <1>8

\* A logger hands its record to a task.
LEMMA LoggerToTask ==
    ASSUME LoggerAssumption, LogInd, NEW l \in Loggers, task[l] \in Records,
           Send(task[l]), task' = [task EXCEPT ![l] = NoRecord], linklist' = linklist,
           NEW r \in Records
    PROVE  Owners(r)' = Owners(r)
<1>1. /\ Pool!Accept(1) /\ args' = Append(args, task[l]) /\ nested' = Append(nested, NoRecord)
      /\ step' = Append(step, "lock")
  BY DEF Send
<1>2. /\ task \in [Loggers -> Records \cup {NoRecord}] /\ r # NoRecord /\ total \in Nat
      /\ Tasks' = Tasks \cup {total + 1}
      /\ nested \in Seq(Records \cup {NoRecord}) /\ Len(nested) = total
      /\ step \in Seq(Steps) /\ Len(step) = total
  BY <1>1, TaskAccepted DEF LogInd, LogTypeOK, PoolTypeOK, TaskTypeOK, LoggerAssumption
<1>3. InList(r)' = InList(r)
  BY DEF InList
<1>4. ByCallback(r)' = ByCallback(r)
  <2>1. nested'[total + 1] = NoRecord /\ \A t \in Tasks : nested'[t] = nested[t]
    BY <1>1, <1>2 DEF Tasks
  <2> QED BY <1>2, <2>1 DEF ByCallback
<1>5. Cardinality(ByTask(r)') = Cardinality(ByTask(r)) + (IF task[l] = r THEN 1 ELSE 0)
  <2>1. \A t \in Tasks : step'[t] = step[t]
    BY <1>1, <1>2 DEF Tasks
  <2> QED BY <1>1, <2>1, TaskGetsRecord
<1>6. Cardinality(ByLogger(r)') = Cardinality(ByLogger(r)) - (IF task[l] = r THEN 1 ELSE 0)
  <2>1. l \in ByLogger(r) <=> task[l] = r
    BY DEF ByLogger
  <2>2. ByLogger(r)' = ByLogger(r) \ {l}
    BY <1>2 DEF ByLogger
  <2>3. Cardinality(ByLogger(r) \ {l})
          = IF l \in ByLogger(r) THEN Cardinality(ByLogger(r)) - 1 ELSE Cardinality(ByLogger(r))
    BY PlacesFinite, FS_RemoveElement
  <2>4. Cardinality(ByLogger(r)) \in Nat
    BY PlacesFinite
  <2> QED BY <2>1, <2>2, <2>3, <2>4
<1> QED BY <1>3, <1>4, <1>5, <1>6, PlacesFinite DEF Owners

\* So does a callback.
LEMMA CallbackToTask ==
    ASSUME LoggerAssumption, LogInd, NEW u \in Tasks, nested[u] \in Records,
           Pool!Accept(1), args' = Append(args, nested[u]),
           nested' = Append([nested EXCEPT ![u] = NoRecord], NoRecord),
           step' = Append([step EXCEPT ![u] = "free"], "lock"), step[u] = "add",
           UNCHANGED <<task, linklist>>, NEW r \in Records
    PROVE  Owners(r)' = Owners(r)
<1>1. /\ r # NoRecord /\ total \in Nat /\ Tasks' = Tasks \cup {total + 1}
      /\ nested \in Seq(Records \cup {NoRecord}) /\ Len(nested) = total
      /\ step \in Seq(Steps) /\ Len(step) = total
  BY TaskAccepted DEF LogInd, PoolTypeOK, TaskTypeOK, LoggerAssumption
<1>2. InList(r)' = InList(r) /\ ByLogger(r)' = ByLogger(r)
  BY DEF InList, ByLogger
<1>3. Cardinality(ByTask(r)') = Cardinality(ByTask(r)) + (IF nested[u] = r THEN 1 ELSE 0)
  <2>1. \A t \in Tasks : step'[t] = IF t = u THEN "free" ELSE step[t]
    BY <1>1 DEF Tasks, Steps
  <2>2. \A t \in Tasks : step'[t] = "done" <=> step[t] = "done"
    BY <2>1
  <2> QED BY <2>2, TaskGetsRecord
<1>4. Cardinality(ByCallback(r)')
        = Cardinality(ByCallback(r)) - (IF nested[u] = r THEN 1 ELSE 0)
  <2>1. u \in ByCallback(r) <=> nested[u] = r
    BY DEF ByCallback
  <2>2. /\ nested'[total + 1] = NoRecord
        /\ \A t \in Tasks : nested'[t] = IF t = u THEN NoRecord ELSE nested[t]
    BY <1>1 DEF Tasks
  <2>3. ByCallback(r)' = ByCallback(r) \ {u}
    BY <1>1, <2>2 DEF ByCallback
  <2>4. Cardinality(ByCallback(r) \ {u})
          = IF u \in ByCallback(r) THEN Cardinality(ByCallback(r)) - 1
            ELSE Cardinality(ByCallback(r))
    BY PlacesFinite, FS_RemoveElement
  <2>5. Cardinality(ByCallback(r)) \in Nat
    BY PlacesFinite
  <2> QED BY <2>1, <2>3, <2>4, <2>5
<1> QED BY <1>2, <1>3, <1>4, PlacesFinite DEF Owners

-----------------------------------------------------------------------------
(* The actions *)

\* A step outside the pool leaves what is said about the pool.
LEMMA PoolUntouched ==
    ASSUME LogInd, UNCHANGED poolVars
    PROVE  /\ PoolTypeOK' /\ QueueNewest' /\ Tasks' = Tasks
           /\ Queued' = Queued /\ Discarded' = Discarded /\ running' = running
BY DEF LogInd, poolVars, PoolTypeOK, QueueNewest, Tasks, Queued, Discarded

\* async_log_init: all records are free, and nobody has one.
LEMMA InitLogInd ==
    ASSUME LoggerAssumption, LogInd, InitLog
    PROVE  LogInd'
<1>1. /\ lives' = lives + 1 /\ pool' \in BOOLEAN /\ linklist' = Relinked
      /\ pending' = <<>> /\ running' = {} /\ dropped' = <<>> /\ cleaned' = {} /\ total' = 0
      /\ args' = <<>> /\ nested' = <<>> /\ step' = <<>> /\ UNCHANGED <<pc, task>>
      /\ \A l \in Loggers : pc[l] = "out"
  BY DEF InitLog, NobodyLogs
<1>2. NRecords \in Nat
  BY DEF LoggerAssumption, LogAssumption
<1>3. Tasks' = {} /\ Queued' = {} /\ Discarded' = {}
  BY <1>1 DEF Tasks, Queued, Discarded
<1>4. \A l \in Loggers : task[l] = NoRecord
  BY <1>1 DEF LogInd, RecordsInUse
<1>5. LogTypeOK'
  <2>1. Relinked \in Seq(Records)
    BY <1>2 DEF Relinked, Records
  <2> QED BY <1>1, <2>1 DEF LogInd, LogTypeOK, Records
<1>6. PoolTypeOK' /\ TaskTypeOK'
  BY <1>1, <1>3 DEF PoolTypeOK, TaskTypeOK
<1>7. QueueNewest'
  BY <1>1, <1>3 DEF QueueNewest
<1>8. RecordsInUse'
  BY <1>1, <1>3 DEF LogInd, RecordsInUse
<1>9. NotBegun'
  BY <1>1 DEF LogInd, LogTypeOK, NotBegun
<1>10. OneOwner'
  <2> SUFFICES ASSUME NEW r \in Records PROVE Owners(r)' = 1
    BY DEF OneOwner, Records
  <2>1. InList(r)' = {r}
    BY <1>1, <1>2 DEF InList, Positions, Relinked, Records
  <2>2. ByLogger(r)' = {}
    BY <1>1, <1>4 DEF ByLogger, LoggerAssumption
  <2>3. ByCallback(r)' = {} /\ ByTask(r)' = {}
    BY <1>3 DEF ByCallback, ByTask
  <2>4. /\ Cardinality(InList(r)') = 1 /\ Cardinality(ByLogger(r)') = 0
        /\ Cardinality(ByCallback(r)') = 0 /\ Cardinality(ByTask(r)') = 0
    BY <2>1, <2>2, <2>3, FS_EmptySet, FS_Singleton
  <2> QED BY <2>4 DEF Owners
<1> QED BY <1>5, <1>6, <1>7, <1>8, <1>9, <1>10 DEF LogInd

\* Steps of the pool that neither accept tasks nor give records back: what is left to show
\* is where the tasks are.
LEMMA PoolStepInd ==
    ASSUME LogInd, UNCHANGED <<logVars, total, lives>>, NotBegun', pool' \in BOOLEAN,
           PoolTypeOK', QueueNewest',
           Queued' \cup Discarded' \subseteq Queued \cup Discarded,
           \A t \in Queued' \cup Discarded' : t \notin running',
           \A t \in Tasks : InTask(t)' <=> InTask(t)
    PROVE  LogInd'
<1>1. Tasks' = Tasks
  BY DEF Tasks
<1>2. LogTypeOK' /\ TaskTypeOK'
  BY DEF LogInd, LogTypeOK, TaskTypeOK, logVars, Records, Steps
<1>3. RecordsInUse'
  BY <1>1 DEF LogInd, RecordsInUse, logVars
<1>4. OneOwner'
  BY OwnersKept, OneOwnerKept DEF logVars
<1> QED BY <1>2, <1>3, <1>4 DEF LogInd

\* async_log_exit
LEMMA ExitLogInd ==
    ASSUME LogInd, ExitLog
    PROVE  LogInd' /\ SameWork
<1>1. PICK drop \in BOOLEAN : Pool!Close(drop)
  BY DEF ExitLog
<1>2. UNCHANGED <<logVars, total, lives, pool, running, cleaned, step>> /\ closed' /\ ~closed
  BY <1>1 DEF ExitLog, Pool!Close, logVars
<1>3. Discarded = {} /\ Tasks' = Tasks
  BY <1>2 DEF LogInd, QueueNewest, Tasks
<1>4. /\ pending \in Seq(Tasks) /\ dropped \in Seq(Tasks) /\ Queued \subseteq Tasks
      /\ PoolTypeOK /\ QueueNewest
  BY Shapes DEF LogInd, PoolTypeOK
<1>5. dropped = <<>> /\ cleaned = {}
  <2>1. cleaned = {} /\ {dropped[i] : i \in DOMAIN dropped} = {}
    BY <1>3 DEF Discarded
  <2> QED BY <1>4, <2>1
<1>6. /\ PoolTypeOK' /\ QueueNewest'
      /\ Queued' \cup Discarded' = Queued
  <2>1. CASE drop
    <3>1. pending' = <<>> /\ dropped' = pending
      BY <1>1, <2>1 DEF Pool!Close
    <3>2. Queued' = {} /\ Discarded' = Queued
      BY <1>2, <1>5, <3>1 DEF Queued, Discarded
    <3>3. PoolTypeOK'
      BY <1>2, <1>3, <1>4, <3>1 DEF PoolTypeOK
    <3>4. QueueNewest'
      BY <1>2, <3>1 DEF QueueNewest
    <3> QED BY <3>2, <3>3, <3>4
  <2>2. CASE ~drop
    <3>1. UNCHANGED <<pending, dropped>>
      BY <1>1, <2>2 DEF Pool!Close
    <3>2. Queued' = Queued /\ Discarded' = Discarded
      BY <1>2, <3>1 DEF Queued, Discarded
    <3>3. PoolTypeOK' /\ QueueNewest'
      BY <1>2, <1>3, <1>4, <3>1, <3>2 DEF PoolTypeOK, QueueNewest
    <3> QED BY <1>3, <3>2, <3>3
  <2> QED BY <2>1, <2>2
<1>7. \A t \in Queued' \cup Discarded' : t \notin running'
  BY <1>2, <1>6 DEF LogInd, RecordsInUse
<1>8. \A t \in Tasks : InTask(t)' <=> InTask(t)
  BY <1>2, <1>3, <1>6 DEF InTask, Held
<1>9. NotBegun' /\ pool' \in BOOLEAN
  BY <1>2 DEF LogInd, NotBegun, LogTypeOK
<1>20. LogInd'
  BY <1>2, <1>6, <1>7, <1>8, <1>9, PoolStepInd
<1>21. SameWork
  BY <1>2, <1>3, <1>6 DEF SameWork, Carrying, At, logVars
<1> QED BY <1>20, <1>21

\* threadpool_destroy cleans up one of the tasks that were dropped.
LEMMA CleanDroppedInd ==
    ASSUME LogInd, CleanDropped
    PROVE  LogInd' /\ SameWork
<1>1. /\ dropped # <<>> /\ dropped' = Tail(dropped) /\ cleaned' = cleaned \cup {Head(dropped)}
      /\ UNCHANGED <<logVars, total, lives, pool, running, pending, closed, step>>
  BY DEF CleanDropped, Pool!Clean, logVars
<1>2. PoolTypeOK /\ QueueNewest /\ dropped \in Seq(Tasks) /\ Tasks' = Tasks
  BY <1>1 DEF LogInd, PoolTypeOK, Tasks
<1>3. Discarded' = Discarded
  <2>1. {dropped[i] : i \in DOMAIN dropped}
          = {dropped'[i] : i \in DOMAIN dropped'} \cup {Head(dropped)}
    <3>1. ASSUME NEW i \in DOMAIN dropped
          PROVE  dropped[i] \in {dropped'[j] : j \in DOMAIN dropped'} \cup {Head(dropped)}
      <4>1. CASE i = 1
        BY <1>1, <1>2, <4>1
      <4>2. CASE i # 1
        <5>1. i - 1 \in DOMAIN dropped' /\ dropped'[i - 1] = dropped[i]
          BY <1>1, <1>2, <4>2
        <5> QED BY <5>1
      <4> QED BY <4>1, <4>2
    <3>2. ASSUME NEW i \in DOMAIN dropped'
          PROVE  i + 1 \in DOMAIN dropped /\ dropped'[i] = dropped[i + 1]
      BY <1>1, <1>2
    <3>3. 1 \in DOMAIN dropped /\ Head(dropped) = dropped[1]
      BY <1>1, <1>2
    <3> QED BY <3>1, <3>2, <3>3
  <2> QED BY <1>1, <2>1 DEF Discarded
<1>4. Queued' = Queued
  BY <1>1 DEF Queued
<1>5. PoolTypeOK'
  <2>1. Head(dropped) \in Tasks /\ Tail(dropped) \in Seq(Tasks)
    BY <1>1, <1>2
  <2> QED BY <1>1, <1>2, <2>1 DEF PoolTypeOK
<1>6. QueueNewest'
  BY <1>1, <1>2, <1>3 DEF QueueNewest
<1>7. \A t \in Queued' \cup Discarded' : t \notin running'
  BY <1>1, <1>3, <1>4 DEF LogInd, RecordsInUse
<1>8. \A t \in Tasks : InTask(t)' <=> InTask(t)
  BY <1>1, <1>3, <1>4 DEF InTask, Held
<1>9. NotBegun' /\ pool' \in BOOLEAN
  BY <1>1 DEF LogInd, NotBegun, LogTypeOK
<1>20. LogInd'
  BY <1>1, <1>3, <1>4, <1>5, <1>6, <1>7, <1>8, <1>9, PoolStepInd
<1>21. SameWork
  BY <1>1, <1>2, <1>3, <1>4 DEF SameWork, Carrying, At, logVars
<1> QED BY <1>20, <1>21

\* The pool is gone.
LEMMA ExitedInd ==
    ASSUME LogInd, Exited
    PROVE  LogInd' /\ SameWork
<1>1. /\ UNCHANGED <<logVars, total, lives, running, pending, dropped, cleaned, closed, step>>
      /\ pool' = FALSE
  BY DEF Exited, Pool!Vanish, logVars
<1>2. PoolTypeOK /\ QueueNewest /\ Tasks' = Tasks /\ Queued' = Queued /\ Discarded' = Discarded
  BY <1>1 DEF LogInd, Tasks, Queued, Discarded
<1>3. PoolTypeOK' /\ QueueNewest' /\ NotBegun' /\ pool' \in BOOLEAN
  BY <1>1, <1>2 DEF PoolTypeOK, QueueNewest, NotBegun
<1>4. \A t \in Queued' \cup Discarded' : t \notin running'
  BY <1>1, <1>2 DEF LogInd, RecordsInUse
<1>5. \A t \in Tasks : InTask(t)' <=> InTask(t)
  BY <1>1, <1>2 DEF InTask, Held
<1>20. LogInd'
  BY <1>1, <1>2, <1>3, <1>4, <1>5, PoolStepInd
<1>21. SameWork
  BY <1>1, <1>2 DEF SameWork, Carrying, At, logVars
<1> QED BY <1>20, <1>21

\* A worker takes a task.
LEMMA StartTaskInd ==
    ASSUME LogInd, StartTask
    PROVE  LogInd' /\ SameWork
<1> DEFINE h == Head(pending)
<1>1. /\ pending # <<>> /\ pending' = Tail(pending) /\ running' = running \cup {h}
      /\ UNCHANGED <<logVars, total, lives, pool, dropped, cleaned, closed, step>>
  BY DEF StartTask, Pool!Start, logVars
<1>2. /\ PoolTypeOK /\ QueueNewest /\ pending \in Seq(Tasks) /\ Tasks' = Tasks /\ total \in Nat
      /\ pending \in Seq(Int)
  BY <1>1 DEF LogInd, PoolTypeOK, Tasks
<1>3. Discarded = {} /\ Discarded' = {}
  BY <1>1, <1>2 DEF QueueNewest, Discarded
<1>4. h = total - Len(pending) + 1 /\ h \in Tasks /\ Len(pending) > 0
  BY <1>1, <1>2 DEF QueueNewest
<1>5. /\ pending' \in Seq(Tasks) /\ Len(pending') = Len(pending) - 1
      /\ \A i \in DOMAIN pending' : pending'[i] = total - Len(pending') + i
  <2>1. \A i \in 1 .. Len(pending) : pending[i] = total - Len(pending) + i
    BY <1>2 DEF QueueNewest
  <2>2. pending' \in Seq(Tasks) /\ Len(pending') = Len(pending) - 1 /\ Len(pending) \in Nat
    BY <1>1, <1>2
  <2>3. \A i \in 1 .. Len(pending') : i + 1 \in 1 .. Len(pending) /\ pending'[i] = pending[i + 1]
    BY <1>1, <1>2, <2>2
  <2>4. \A i \in 1 .. Len(pending') : pending'[i] = total - Len(pending') + i
    BY <1>2, <2>1, <2>2, <2>3
  <2>5. DOMAIN pending' = 1 .. Len(pending')
    BY <2>2
  <2> QED BY <2>2, <2>4, <2>5
<1>6. Queued' = Queued \ {h} /\ h \in Queued
  <2>1. pending' \in Seq(Int)
    BY <1>1, <1>2
  <2>2. Queued' = (total - Len(pending') + 1) .. total
    BY <1>1, <1>2, <1>5, <2>1, NewestTasks DEF Queued
  <2>3. Queued = (total - Len(pending) + 1) .. total
    BY Shapes
  <2>4. Len(pending) \in Nat
    BY <1>2
  <2> QED BY <1>2, <1>4, <1>5, <2>2, <2>3, <2>4
<1>7. PoolTypeOK'
  BY <1>1, <1>2, <1>4, <1>5 DEF PoolTypeOK
<1>8. QueueNewest'
  BY <1>1, <1>3, <1>5 DEF QueueNewest
<1>9. \A t \in Queued' \cup Discarded' : t \notin running'
  BY <1>1, <1>3, <1>6 DEF LogInd, RecordsInUse
<1>10. \A t \in Tasks : InTask(t)' <=> InTask(t)
  <2>1. step[h] = "lock" /\ step' = step
    BY <1>1, <1>6 DEF LogInd, RecordsInUse
  <2> QED BY <1>1, <1>3, <1>6, <2>1 DEF InTask, Held
<1>11. NotBegun' /\ pool' \in BOOLEAN
  BY <1>1 DEF LogInd, NotBegun, LogTypeOK
<1>20. LogInd'
  BY <1>1, <1>3, <1>6, <1>7, <1>8, <1>9, <1>10, <1>11, PoolStepInd
<1>21. SameWork
  <2>1. step[h] = "lock" /\ step' = step
    BY <1>1, <1>6 DEF LogInd, RecordsInUse
  <2> QED BY <1>1, <1>2, <1>3, <1>6, <2>1 DEF SameWork, Carrying, At
<1> QED BY <1>20, <1>21

\* A worker is done with a task.
LEMMA ReturnInd ==
    ASSUME LogInd, NEW u \in Tasks, Return(u)
    PROVE  LogInd' /\ SameWork
<1>1. /\ running' = running \ {u} /\ step[u] = "done"
      /\ UNCHANGED <<logVars, total, lives, pool, pending, dropped, cleaned, closed, step>>
  BY DEF Return, At, Pool!Finish, logVars
<1>2. PoolTypeOK /\ QueueNewest /\ Tasks' = Tasks /\ Queued' = Queued /\ Discarded' = Discarded
  BY <1>1 DEF LogInd, Tasks, Queued, Discarded
<1>3. PoolTypeOK' /\ QueueNewest' /\ NotBegun' /\ pool' \in BOOLEAN
  BY <1>1, <1>2 DEF PoolTypeOK, QueueNewest, NotBegun, LogInd, LogTypeOK
<1>4. \A t \in Queued' \cup Discarded' : t \notin running'
  BY <1>1, <1>2 DEF LogInd, RecordsInUse
<1>5. \A t \in Tasks : InTask(t)' <=> InTask(t)
  BY <1>1, <1>2 DEF InTask, Held
<1>20. LogInd'
  BY <1>1, <1>2, <1>3, <1>4, <1>5, PoolStepInd
<1>21. SameWork
  BY <1>1, <1>2 DEF SameWork, Carrying, At, logVars
<1> QED BY <1>20, <1>21

\* What the steps of loggers and tasks have in common: the pool stays, or takes one task.
LEMMA LogStepInd ==
    ASSUME LogInd, UNCHANGED <<pool, lives>>, LogTypeOK', PoolTypeOK', TaskTypeOK',
           QueueNewest', RecordsInUse', \A r \in Records : Owners(r)' = Owners(r)
    PROVE  LogInd'
BY OneOwnerKept DEF LogInd, NotBegun

\* Lines 64 to 71.
LEMMA AllocateInd ==
    ASSUME LoggerAssumption, LogInd, NEW l \in Loggers, Allocate(l)
    PROVE  LogInd'
<1>1. /\ UNCHANGED poolVars /\ UNCHANGED <<pool, lives, args, nested, step>> /\ pc[l] = "out"
      /\ UNCHANGED total
  BY DEF Allocate, poolVars
<1>2. /\ PoolTypeOK' /\ QueueNewest' /\ Tasks' = Tasks
      /\ Queued' = Queued /\ Discarded' = Discarded /\ running' = running
  BY <1>1, PoolUntouched
<1>3. \A t \in Tasks : InTask(t)' <=> InTask(t)
  BY <1>1, <1>2 DEF InTask, Held
<1>4. TaskTypeOK'
  BY <1>1 DEF LogInd, TaskTypeOK, Records, Steps
<1>5. task[l] = NoRecord /\ LogTypeOK /\ RecordsInUse
  BY <1>1 DEF LogInd, RecordsInUse
<1>6. CASE linklist = <<>>
  <2>1. UNCHANGED <<linklist, task, pc>>
    BY <1>6 DEF Allocate
  <2>2. LogTypeOK' /\ RecordsInUse'
    BY <1>1, <1>2, <1>5, <2>1 DEF LogTypeOK, RecordsInUse, Records
  <2>3. \A r \in Records : Owners(r)' = Owners(r)
    BY <1>1, <1>3, <2>1, OwnersKept
  <2> QED BY <1>1, <1>2, <1>4, <2>2, <2>3, LogStepInd
<1>7. CASE linklist # <<>>
  <2>1. /\ task' = [task EXCEPT ![l] = Head(linklist)] /\ linklist' = Tail(linklist)
        /\ pc' = [pc EXCEPT ![l] = "fill"]
    BY <1>7 DEF Allocate
  <2>2. Head(linklist) \in Records /\ Tail(linklist) \in Seq(Records) /\ NoRecord \notin Records
    BY <1>5, <1>7 DEF LogTypeOK, LoggerAssumption
  <2>3. LogTypeOK'
    BY <1>1, <1>5, <2>1, <2>2 DEF LogTypeOK, Records
  <2>4. RecordsInUse'
    BY <1>1, <1>2, <1>5, <2>1, <2>2 DEF LogTypeOK, RecordsInUse
  <2>5. \A r \in Records : Owners(r)' = Owners(r)
    BY <1>1, <1>3, <1>5, <1>7, <2>1, ListToLogger
  <2> QED BY <1>1, <1>2, <1>4, <2>3, <2>4, <2>5, LogStepInd
<1> QED BY <1>6, <1>7

\* Lines 73 to 88, and the lines 98 to 120 of a message without a pool.
LEMMA FillInd ==
    ASSUME LogInd, NEW l \in Loggers, Fill(l) \/ PrintDirectly(l)
    PROVE  LogInd'
<1>1. /\ UNCHANGED poolVars /\ UNCHANGED total
      /\ UNCHANGED <<pool, lives, linklist, task, args, nested, step>>
      /\ pc' = pc \/ (pc[l] = "fill" /\ pc' = [pc EXCEPT ![l] = "add"])
  BY DEF Fill, PrintDirectly, poolVars
<1>2. /\ PoolTypeOK' /\ QueueNewest' /\ Tasks' = Tasks
      /\ Queued' = Queued /\ Discarded' = Discarded /\ running' = running
  BY <1>1, PoolUntouched
<1>3. \A t \in Tasks : InTask(t)' <=> InTask(t)
  BY <1>1, <1>2 DEF InTask, Held
<1>4. LogTypeOK' /\ TaskTypeOK'
  BY <1>1 DEF LogInd, LogTypeOK, TaskTypeOK, Records, Steps
<1>5. RecordsInUse'
  BY <1>1, <1>2 DEF LogInd, LogTypeOK, RecordsInUse
<1>6. \A r \in Records : Owners(r)' = Owners(r)
  BY <1>1, <1>3, OwnersKept
<1> QED BY <1>1, <1>2, <1>4, <1>5, <1>6, LogStepInd

\* Line 90.
LEMMA AddInd ==
    ASSUME LoggerAssumption, LogInd, NEW l \in Loggers, Add(l)
    PROVE  LogInd'
<1>1. /\ Send(task[l]) /\ task' = [task EXCEPT ![l] = NoRecord] /\ pc' = [pc EXCEPT ![l] = "out"]
      /\ pc[l] = "add" /\ UNCHANGED <<pool, lives, linklist>>
  BY DEF Add
<1>2. /\ Pool!Accept(1) /\ args' = Append(args, task[l]) /\ nested' = Append(nested, NoRecord)
      /\ step' = Append(step, "lock")
  BY <1>1 DEF Send
<1>3. /\ total' = total + 1 /\ Tasks' = Tasks \cup {total + 1} /\ total + 1 \notin Tasks
      /\ Queued' = Queued \cup {total + 1} /\ Discarded' = Discarded
      /\ running' = running /\ PoolTypeOK' /\ QueueNewest'
  BY <1>2, TaskAccepted
<1>4. LogTypeOK /\ TaskTypeOK /\ RecordsInUse /\ total \in Nat /\ NoRecord \notin Records
      /\ running \subseteq Tasks
  BY DEF LogInd, PoolTypeOK, LoggerAssumption
<1>5. task[l] \in Records
  BY <1>1, <1>4 DEF LogTypeOK, RecordsInUse
<1>6. LogTypeOK'
  BY <1>1, <1>4 DEF LogTypeOK, Records
<1>7. TaskTypeOK'
  <2>1. args' \in Seq(Records) /\ Len(args') = total + 1
    BY <1>2, <1>4, <1>5 DEF TaskTypeOK
  <2>2. nested' \in Seq(Records \cup {NoRecord}) /\ Len(nested') = total + 1
    BY <1>2, <1>4 DEF TaskTypeOK
  <2>3. step' \in Seq(Steps) /\ Len(step') = total + 1
    BY <1>2, <1>4 DEF TaskTypeOK, Steps
  <2> QED BY <1>3, <2>1, <2>2, <2>3 DEF TaskTypeOK, Records, Steps
<1>8. RecordsInUse'
  <2>1. /\ nested'[total + 1] = NoRecord /\ step'[total + 1] = "lock"
        /\ \A t \in Tasks : nested'[t] = nested[t] /\ step'[t] = step[t]
    BY <1>2, <1>4 DEF TaskTypeOK, Tasks
  <2>2. \A k \in Loggers : pc'[k] = "out" <=> task'[k] = NoRecord
    BY <1>1, <1>4 DEF LogTypeOK, RecordsInUse
  <2>3. \A t \in Tasks' : nested'[t] # NoRecord <=> step'[t] = "add"
    BY <1>3, <1>4, <2>1 DEF RecordsInUse
  <2>4. Queued \subseteq Tasks /\ Discarded \subseteq Tasks
    BY Shapes
  <2>5. \A t \in Queued' \cup Discarded' : t \notin running' /\ step'[t] = "lock"
    BY <1>3, <1>4, <2>1, <2>4 DEF RecordsInUse
  <2> QED BY <2>2, <2>3, <2>5 DEF RecordsInUse
<1>9. \A r \in Records : Owners(r)' = Owners(r)
  BY <1>1, <1>5, LoggerToTask
<1> QED BY <1>1, <1>3, <1>6, <1>7, <1>8, <1>9, LogStepInd

\* Lines 90 to 94.
LEMMA AddFailsInd ==
    ASSUME LoggerAssumption, LogInd, NEW l \in Loggers, AddFails(l)
    PROVE  LogInd'
<1>1. /\ UNCHANGED poolVars /\ UNCHANGED total /\ UNCHANGED <<pool, lives, args, nested, step>>
      /\ pc[l] = "add" /\ pc' = [pc EXCEPT ![l] = "out"]
      /\ linklist' = <<task[l]>> \o linklist /\ task' = [task EXCEPT ![l] = NoRecord]
  BY DEF AddFails, poolVars, Deallocated
<1>2. /\ PoolTypeOK' /\ QueueNewest' /\ Tasks' = Tasks
      /\ Queued' = Queued /\ Discarded' = Discarded /\ running' = running
  BY <1>1, PoolUntouched
<1>3. LogTypeOK /\ RecordsInUse /\ NoRecord \notin Records
  BY DEF LogInd, LoggerAssumption
<1>4. task[l] \in Records
  BY <1>1, <1>3 DEF LogTypeOK, RecordsInUse
<1>5. LogTypeOK'
  <2>1. linklist' \in Seq(Records)
    BY <1>1, <1>3, <1>4 DEF LogTypeOK
  <2> QED BY <1>1, <1>3, <2>1 DEF LogTypeOK, Records
<1>6. TaskTypeOK'
  BY <1>1 DEF LogInd, TaskTypeOK, Records, Steps
<1>7. RecordsInUse'
  BY <1>1, <1>2, <1>3 DEF LogTypeOK, RecordsInUse
<1>8. \A t \in Tasks : InTask(t)' <=> InTask(t)
  BY <1>1, <1>2 DEF InTask, Held
<1>9. \A r \in Records : Owners(r)' = Owners(r)
  BY <1>1, <1>4, <1>8, LoggerToList
<1> QED BY <1>1, <1>2, <1>5, <1>6, <1>7, <1>9, LogStepInd

\* Lines 135 to 144.
LEMMA WriteInd ==
    ASSUME LogInd, NEW u \in Tasks, Write(u)
    PROVE  LogInd'
<1>1. /\ UNCHANGED poolVars /\ UNCHANGED total
      /\ UNCHANGED <<pool, lives, linklist, task, pc, args, nested>>
      /\ u \in running /\ step[u] = "lock"
      /\ step' = [step EXCEPT ![u] = "echo"] \/ step' = [step EXCEPT ![u] = "free"]
  BY DEF Write, At, poolVars
<1>2. /\ PoolTypeOK' /\ QueueNewest' /\ Tasks' = Tasks
      /\ Queued' = Queued /\ Discarded' = Discarded /\ running' = running
  BY <1>1, PoolUntouched
<1>3. step \in [Tasks -> Steps] /\ step \in Seq(Steps) /\ RecordsInUse
  BY Shapes DEF LogInd, TaskTypeOK
<1>4. \A t \in Tasks : InTask(t)' <=> InTask(t)
  BY <1>1, <1>2, <1>3 DEF InTask, Held
<1>5. LogTypeOK'
  BY <1>1 DEF LogInd, LogTypeOK, Records
<1>6. TaskTypeOK'
  <2>1. step' \in Seq(Steps) /\ Len(step') = Len(step)
    BY <1>1, <1>3 DEF Steps
  <2> QED BY <1>1, <2>1 DEF LogInd, TaskTypeOK, Records, Steps
<1>7. RecordsInUse'
  <2>1. u \notin Queued \cup Discarded /\ Queued \cup Discarded \subseteq Tasks
    BY <1>1, <1>3, Shapes DEF RecordsInUse
  <2>2. \A t \in Tasks : step'[t] = "add" <=> step[t] = "add"
    BY <1>1, <1>3
  <2>3. \A t \in Queued \cup Discarded : step'[t] = step[t]
    BY <1>1, <1>3, <2>1
  <2> QED BY <1>1, <1>2, <1>3, <2>2, <2>3 DEF RecordsInUse
<1>8. \A r \in Records : Owners(r)' = Owners(r)
  BY <1>1, <1>4, OwnersKept
<1> QED BY <1>1, <1>2, <1>5, <1>6, <1>7, <1>8, LogStepInd

\* Lines 63 to 88, by a callback.
LEMMA EchoAllocateInd ==
    ASSUME LoggerAssumption, LogInd, NEW u \in Tasks, EchoAllocate(u)
    PROVE  LogInd'
<1>1. /\ UNCHANGED poolVars /\ UNCHANGED total /\ UNCHANGED <<pool, lives, task, pc, args>>
      /\ u \in running /\ step[u] = "echo"
  BY DEF EchoAllocate, At, poolVars
<1>2. /\ PoolTypeOK' /\ QueueNewest' /\ Tasks' = Tasks
      /\ Queued' = Queued /\ Discarded' = Discarded /\ running' = running
  BY <1>1, PoolUntouched
<1>3. /\ step \in [Tasks -> Steps] /\ step \in Seq(Steps) /\ RecordsInUse /\ LogTypeOK
      /\ TaskTypeOK /\ nested \in [Tasks -> Records \cup {NoRecord}] /\ NoRecord \notin Records
  BY Shapes DEF LogInd, TaskTypeOK, LoggerAssumption
<1>4. /\ nested[u] = NoRecord
      /\ u \notin Queued \cup Discarded /\ Queued \cup Discarded \subseteq Tasks
  BY <1>1, <1>3, Shapes DEF RecordsInUse
<1>5. CASE linklist = <<>>
  <2>1. UNCHANGED <<linklist, nested>> /\ step' = [step EXCEPT ![u] = "free"]
    BY <1>5 DEF EchoAllocate
  <2>2. /\ LogTypeOK' /\ step' \in Seq(Steps) /\ Len(step') = Len(step)
        /\ \A t \in Tasks : step'[t] = IF t = u THEN "free" ELSE step[t]
    BY <1>1, <1>3, <2>1 DEF LogTypeOK, Records, Steps
  <2>3. TaskTypeOK'
    BY <1>1, <1>3, <2>1, <2>2 DEF TaskTypeOK, Records, Steps
  <2>4. RecordsInUse'
    BY <1>1, <1>2, <1>3, <1>4, <2>1, <2>2 DEF RecordsInUse
  <2>5. \A t \in Tasks : InTask(t)' <=> InTask(t)
    BY <1>1, <1>2, <2>2 DEF InTask, Held
  <2>6. \A r \in Records : Owners(r)' = Owners(r)
    BY <1>1, <2>1, <2>5, OwnersKept
  <2> QED BY <1>1, <1>2, <2>2, <2>3, <2>4, <2>6, LogStepInd
<1>6. CASE linklist # <<>>
  <2>1. /\ nested' = [nested EXCEPT ![u] = Head(linklist)] /\ linklist' = Tail(linklist)
        /\ step' = [step EXCEPT ![u] = "add"]
    BY <1>6 DEF EchoAllocate
  <2>2. Head(linklist) \in Records /\ Tail(linklist) \in Seq(Records)
    BY <1>3, <1>6 DEF LogTypeOK
  <2>3. LogTypeOK'
    BY <1>1, <1>3, <2>1, <2>2 DEF LogTypeOK, Records
  <2>4. /\ step' \in Seq(Steps) /\ Len(step') = Len(step)
        /\ \A t \in Tasks : step'[t] = IF t = u THEN "add" ELSE step[t]
    BY <1>1, <1>3, <2>1 DEF Steps
  <2>5. /\ nested' \in Seq(Records \cup {NoRecord}) /\ Len(nested') = Len(nested)
        /\ \A t \in Tasks : nested'[t] = IF t = u THEN Head(linklist) ELSE nested[t]
    BY <1>3, <2>1, <2>2 DEF TaskTypeOK
  <2>6. TaskTypeOK'
    BY <1>1, <1>3, <2>4, <2>5 DEF TaskTypeOK, Records, Steps
  <2>7. RecordsInUse'
    BY <1>1, <1>2, <1>3, <1>4, <2>2, <2>4, <2>5 DEF RecordsInUse
  <2>8. \A t \in Tasks : InTask(t)' <=> InTask(t)
    BY <1>1, <1>2, <2>4 DEF InTask, Held
  <2>9. \A r \in Records : Owners(r)' = Owners(r)
    BY <1>1, <1>4, <1>6, <2>1, <2>8, ListToCallback
  <2> QED BY <1>1, <1>2, <2>3, <2>6, <2>7, <2>9, LogStepInd
<1> QED BY <1>5, <1>6

\* Line 90, by a callback.
LEMMA EchoAddInd ==
    ASSUME LoggerAssumption, LogInd, NEW u \in Tasks, EchoAdd(u)
    PROVE  LogInd'
<1>1. /\ Pool!Accept(1) /\ args' = Append(args, nested[u])
      /\ nested' = Append([nested EXCEPT ![u] = NoRecord], NoRecord)
      /\ step' = Append([step EXCEPT ![u] = "free"], "lock")
      /\ u \in running /\ step[u] = "add" /\ UNCHANGED <<pool, lives, linklist, pc, task>>
  BY DEF EchoAdd, At
<1>2. /\ total' = total + 1 /\ Tasks' = Tasks \cup {total + 1} /\ total + 1 \notin Tasks
      /\ Queued' = Queued \cup {total + 1} /\ Discarded' = Discarded
      /\ running' = running /\ PoolTypeOK' /\ QueueNewest'
  BY <1>1, TaskAccepted
<1>3. /\ LogTypeOK /\ TaskTypeOK /\ RecordsInUse /\ total \in Nat /\ NoRecord \notin Records
      /\ running \subseteq Tasks /\ nested \in [Tasks -> Records \cup {NoRecord}]
  BY Shapes DEF LogInd, PoolTypeOK, LoggerAssumption
<1>4. nested[u] \in Records
  BY <1>1, <1>3 DEF RecordsInUse
<1>5. LogTypeOK'
  BY <1>1, <1>3 DEF LogTypeOK, Records
<1>6. /\ nested' \in Seq(Records \cup {NoRecord}) /\ Len(nested') = total + 1
      /\ nested'[total + 1] = NoRecord
      /\ \A t \in Tasks : nested'[t] = IF t = u THEN NoRecord ELSE nested[t]
  <2>1. /\ [nested EXCEPT ![u] = NoRecord] \in Seq(Records \cup {NoRecord})
        /\ Len([nested EXCEPT ![u] = NoRecord]) = total
    BY <1>3 DEF TaskTypeOK
  <2>2. \A t \in Tasks : [nested EXCEPT ![u] = NoRecord][t] = IF t = u THEN NoRecord ELSE nested[t]
    BY <1>3
  <2> DEFINE given == [nested EXCEPT ![u] = NoRecord]
  <2>3. /\ given \in Seq(Records \cup {NoRecord})
        /\ Len(given) = total
        /\ nested' = Append(given, NoRecord)
    BY <1>1, <2>1
  <2>4. total \in Nat
    BY <1>3
  <2>5. \A t \in Tasks : given[t] = IF t = u THEN NoRecord ELSE nested[t]
    BY <2>2
  <2> HIDE DEF given
  <2>6. /\ nested' \in Seq(Records \cup {NoRecord}) /\ Len(nested') = total + 1
        /\ nested'[total + 1] = NoRecord /\ \A t \in Tasks : nested'[t] = given[t]
    BY <2>3, <2>4 DEF Tasks
  <2> QED BY <2>5, <2>6
<1>7. /\ step' \in Seq(Steps) /\ Len(step') = total + 1 /\ step'[total + 1] = "lock"
      /\ \A t \in Tasks : step'[t] = IF t = u THEN "free" ELSE step[t]
  <2>1. [step EXCEPT ![u] = "free"] \in Seq(Steps) /\ Len([step EXCEPT ![u] = "free"]) = total
    BY <1>3 DEF TaskTypeOK, Steps
  <2> QED BY <1>1, <1>3, <2>1 DEF TaskTypeOK, Tasks, Steps
<1>8. TaskTypeOK'
  <2>1. args' \in Seq(Records) /\ Len(args') = total + 1
    BY <1>1, <1>3, <1>4 DEF TaskTypeOK
  <2> QED BY <1>2, <1>6, <1>7, <2>1 DEF TaskTypeOK, Records, Steps
<1>9. RecordsInUse'
  <2>1. \A l \in Loggers : pc'[l] = "out" <=> task'[l] = NoRecord
    BY <1>1, <1>3 DEF RecordsInUse
  <2>2. \A t \in Tasks' : nested'[t] # NoRecord <=> step'[t] = "add"
    BY <1>2, <1>3, <1>6, <1>7 DEF RecordsInUse
  <2>3. u \notin Queued \cup Discarded /\ Queued \cup Discarded \subseteq Tasks
    BY <1>1, <1>3, Shapes DEF RecordsInUse
  <2>4. \A t \in Queued' \cup Discarded' : t \notin running' /\ step'[t] = "lock"
    BY <1>2, <1>3, <1>7, <2>3 DEF RecordsInUse
  <2> QED BY <2>1, <2>2, <2>4 DEF RecordsInUse
<1>10. \A r \in Records : Owners(r)' = Owners(r)
  BY <1>1, <1>4, CallbackToTask
<1> QED BY <1>1, <1>2, <1>5, <1>8, <1>9, <1>10, LogStepInd

\* Lines 90 to 94, by a callback.
LEMMA EchoFailsInd ==
    ASSUME LoggerAssumption, LogInd, NEW u \in Tasks, EchoFails(u)
    PROVE  LogInd'
<1>1. /\ UNCHANGED poolVars /\ UNCHANGED total /\ UNCHANGED <<pool, lives, task, pc, args>>
      /\ u \in running /\ step[u] = "add"
      /\ linklist' = <<nested[u]>> \o linklist /\ nested' = [nested EXCEPT ![u] = NoRecord]
      /\ step' = [step EXCEPT ![u] = "free"]
  BY DEF EchoFails, At, poolVars, Deallocated
<1>2. /\ PoolTypeOK' /\ QueueNewest' /\ Tasks' = Tasks
      /\ Queued' = Queued /\ Discarded' = Discarded /\ running' = running
  BY <1>1, PoolUntouched
<1>3. /\ step \in [Tasks -> Steps] /\ step \in Seq(Steps) /\ RecordsInUse /\ LogTypeOK
      /\ TaskTypeOK /\ nested \in [Tasks -> Records \cup {NoRecord}] /\ NoRecord \notin Records
  BY Shapes DEF LogInd, TaskTypeOK, LoggerAssumption
<1>4. /\ nested[u] \in Records
      /\ u \notin Queued \cup Discarded /\ Queued \cup Discarded \subseteq Tasks
  BY <1>1, <1>3, Shapes DEF RecordsInUse
<1>5. LogTypeOK'
  <2>1. linklist' \in Seq(Records)
    BY <1>1, <1>3, <1>4 DEF LogTypeOK
  <2> QED BY <1>1, <1>3, <2>1 DEF LogTypeOK, Records
<1>6. /\ step' \in Seq(Steps) /\ Len(step') = Len(step)
      /\ \A t \in Tasks : step'[t] = IF t = u THEN "free" ELSE step[t]
  BY <1>1, <1>3 DEF Steps
<1>7. /\ nested' \in Seq(Records \cup {NoRecord}) /\ Len(nested') = Len(nested)
      /\ \A t \in Tasks : nested'[t] = IF t = u THEN NoRecord ELSE nested[t]
  BY <1>1, <1>3 DEF TaskTypeOK
<1>8. TaskTypeOK'
  BY <1>1, <1>3, <1>6, <1>7 DEF TaskTypeOK, Records, Steps
<1>9. RecordsInUse'
  BY <1>1, <1>2, <1>3, <1>4, <1>6, <1>7 DEF RecordsInUse
<1>10. \A t \in Tasks : InTask(t)' <=> InTask(t)
  BY <1>1, <1>2, <1>6 DEF InTask, Held
<1>11. \A r \in Records : Owners(r)' = Owners(r)
  BY <1>1, <1>4, <1>10, CallbackToList
<1> QED BY <1>1, <1>2, <1>5, <1>8, <1>9, <1>11, LogStepInd

\* Lines 145 and 146.
LEMMA FreeInd ==
    ASSUME LoggerAssumption, LogInd, NEW u \in Tasks, Free(u)
    PROVE  LogInd'
<1>1. /\ UNCHANGED poolVars /\ UNCHANGED total
      /\ UNCHANGED <<pool, lives, task, pc, args, nested>> /\ u \in running /\ step[u] = "free"
      /\ linklist' = <<args[u]>> \o linklist /\ step' = [step EXCEPT ![u] = "done"]
  BY DEF Free, At, poolVars, Deallocated
<1>2. /\ PoolTypeOK' /\ QueueNewest' /\ Tasks' = Tasks
      /\ Queued' = Queued /\ Discarded' = Discarded /\ running' = running
  BY <1>1, PoolUntouched
<1>3. /\ step \in [Tasks -> Steps] /\ step \in Seq(Steps) /\ RecordsInUse /\ LogTypeOK
      /\ TaskTypeOK /\ args \in [Tasks -> Records]
  BY Shapes DEF LogInd, TaskTypeOK
<1>4. u \notin Queued \cup Discarded /\ Queued \cup Discarded \subseteq Tasks
  BY <1>1, <1>3, Shapes DEF RecordsInUse
<1>5. LogTypeOK'
  <2>1. linklist' \in Seq(Records)
    BY <1>1, <1>3 DEF LogTypeOK
  <2> QED BY <1>1, <1>3, <2>1 DEF LogTypeOK, Records
<1>6. /\ step' \in Seq(Steps) /\ Len(step') = Len(step)
      /\ \A t \in Tasks : step'[t] = IF t = u THEN "done" ELSE step[t]
  BY <1>1, <1>3 DEF Steps
<1>7. TaskTypeOK'
  BY <1>1, <1>3, <1>6 DEF TaskTypeOK, Records, Steps
<1>8. RecordsInUse'
  BY <1>1, <1>2, <1>3, <1>4, <1>6 DEF RecordsInUse
<1>9. /\ InTask(u) /\ ~InTask(u)'
      /\ \A t \in Tasks \ {u} : InTask(t)' <=> InTask(t)
  BY <1>1, <1>2, <1>4, <1>6 DEF InTask, Held
<1>10. \A r \in Records : Owners(r)' = Owners(r)
  BY <1>1, <1>9, TaskToList
<1> QED BY <1>1, <1>2, <1>5, <1>7, <1>8, <1>10, LogStepInd

-----------------------------------------------------------------------------
\* Before async_log_init there are no tasks and nobody has a record.
LEMMA LogInitInd ==
    ASSUME Init
    PROVE  LogInd
<1>1. /\ pending = <<>> /\ running = {} /\ dropped = <<>> /\ cleaned = {} /\ total = 0
      /\ pool = FALSE /\ lives = 0 /\ linklist = <<>> /\ args = <<>> /\ nested = <<>>
      /\ step = <<>> /\ pc = [l \in Loggers |-> "out"] /\ task = [l \in Loggers |-> NoRecord]
  BY DEF Init, Pool!Init
<1>2. Tasks = {} /\ Queued = {} /\ Discarded = {}
  BY <1>1 DEF Tasks, Queued, Discarded
<1>3. LogTypeOK /\ PoolTypeOK /\ TaskTypeOK
  <2>1. LogTypeOK
    <3>1. /\ linklist \in Seq(Records) /\ lives \in Nat
          /\ task \in [Loggers -> Records \cup {NoRecord}]
          /\ pc \in [Loggers -> {"out", "fill", "add"}]
      BY <1>1
    <3> QED BY <1>1, <3>1 DEF LogTypeOK
  <2>2. PoolTypeOK /\ TaskTypeOK
    BY <1>1, <1>2 DEF PoolTypeOK, TaskTypeOK
  <2> QED BY <2>1, <2>2
<1>4. QueueNewest /\ RecordsInUse
  BY <1>1, <1>2 DEF QueueNewest, RecordsInUse
<1>5. NotBegun /\ OneOwner
  BY <1>1 DEF NotBegun, OneOwner
<1> QED BY <1>3, <1>4, <1>5 DEF LogInd

\* Every step keeps the invariant.
LEMMA LogNextInd ==
    ASSUME LoggerAssumption, LogInd, [Next]_vars
    PROVE  LogInd'
<1>1. ASSUME NEW l \in Loggers, LogPrint(l) PROVE LogInd'
  BY <1>1, AllocateInd, FillInd, AddInd, AddFailsInd DEF LogPrint
<1>2. ASSUME NEW t \in Tasks, Work(t) \/ EchoFails(t) PROVE LogInd'
  BY <1>2, WriteInd, EchoAllocateInd, EchoAddInd, EchoFailsInd, FreeInd, ReturnInd
     DEF Work, EchoRefused
<1>3. CASE UNCHANGED vars
  <2>1. UNCHANGED <<pool, lives, poolVars, logVars, total>>
    BY <1>3 DEF vars, poolVars
  <2>2. /\ PoolTypeOK' /\ QueueNewest' /\ Tasks' = Tasks
        /\ Queued' = Queued /\ Discarded' = Discarded /\ running' = running
    BY <2>1, PoolUntouched
  <2>3. \A t \in Tasks : InTask(t)' <=> InTask(t)
    BY <2>1, <2>2 DEF InTask, Held, logVars
  <2>4. NotBegun' /\ pool' \in BOOLEAN
    BY <2>1 DEF LogInd, NotBegun, LogTypeOK
  <2>5. \A t \in Queued' \cup Discarded' : t \notin running'
    BY <2>2 DEF LogInd, RecordsInUse
  <2> QED BY <2>1, <2>2, <2>3, <2>4, <2>5, PoolStepInd
<1> QED BY <1>1, <1>2, <1>3, InitLogInd, ExitLogInd, CleanDroppedInd, ExitedInd, StartTaskInd
        DEF Next

\* What the invariant implies.
LEMMA LogIndHolds ==
    ASSUME LogInd
    PROVE  EachRecordHasOneOwner
BY DEF LogInd, OneOwner, Owners, InList, Positions, ByLogger, ByCallback, ByTask,
       EachRecordHasOneOwner

\* Each message record has one owner at any time: the free list, the logger that fills it, a
\* callback that logs, or one task that has not given it back, for any number of loggers,
\* records, workers and messages, and over any number of async_log_init and async_log_exit,
\* though an exit that drops its queue gives no records back and the next init puts
\* all of them into the list, whoever has them.
THEOREM RecordsHaveOneOwner ==
    ASSUME LoggerAssumption
    PROVE  Spec => []EachRecordHasOneOwner
<1>1. Init => LogInd
  BY LogInitInd
<1>2. LogInd /\ [Next]_vars => LogInd'
  BY LogNextInd
<1>3. LogInd => EachRecordHasOneOwner
  BY LogIndHolds
<1> QED BY <1>1, <1>2, <1>3, PTL DEF Spec

-----------------------------------------------------------------------------
(* The messages: which of them records carry, which are written *)

Messages == [by : Loggers, n : Nat, echo : BOOLEAN]

\* The records whose message is still to be written, those a callback is to log about, and
\* those that are only still to be given back.
Waiting ==
    {r \in Records :
        \/ \E l \in Loggers : pc[l] = "add" /\ task[l] = r
        \/ \E t \in Tasks : nested[t] = r
        \/ \E t \in Tasks : args[t] = r /\ Carrying(t)}
Echoing == {r \in Records : \E t \in Tasks : args[t] = r /\ At(t, "echo")}
Written == {r \in Records : \E t \in Tasks : args[t] = r /\ (At(t, "add") \/ At(t, "free"))}

Lines == {out[i] : i \in DOMAIN out}
Spoken == Lines \cup refused \cup {text[r] : r \in Waiting}
SaidBy(l) == said[l] - (IF pc[l] = "fill" THEN 1 ELSE 0)

MessageTypeOK ==
    /\ out \in Seq(Messages) /\ refused \subseteq Messages
    /\ text \in [Records -> Messages \cup {NoRecord}] /\ said \in [Loggers -> Nat]
    /\ \A l \in Loggers : SaidBy(l) \in Nat
    /\ \A r \in Waiting \cup Echoing : text[r] \in Messages

\* Only running tasks have begun, none runs without a pool, and there is nothing before the
\* first.
WorkBegun ==
    /\ \A t \in Tasks : step[t] \in {"echo", "add", "free"} => t \in running
    /\ ~pool => running = {} /\ pending = <<>>
    /\ lives = 0 => total = 0 /\ \A l \in Loggers : task[l] = NoRecord

\* What is written is neither refused nor still to be written, and no two records carry
\* the same message.
WrittenOnce ==
    /\ \A i, j \in DOMAIN out : out[i] = out[j] => i = j
    /\ Lines \cap refused = {}
    /\ \A r \in Waiting : text[r] \notin Lines \cup refused
    /\ \A r \in Echoing \cup Written : text[r] \in Lines
    /\ \A q, r \in Waiting \cup Echoing : text[q] = text[r] => q = r

\* Nobody has logged yet what a callback is to log about a message.
EchoesNew ==
    /\ \A r \in Waiting \cup Echoing : ~text[r].echo => Echo(text[r]) \notin Spoken
    /\ \A r \in Echoing : ~text[r].echo

\* What was spoken was said, and what was said was spoken.
SaidSpoken ==
    /\ \A m \in Spoken : m.n \in 1 .. SaidBy(m.by)
    /\ \A l \in Loggers : \A n \in 1 .. SaidBy(l) : Message(l, n) \in Spoken

MessageInd == MessageTypeOK /\ WrittenOnce /\ EchoesNew /\ SaidSpoken

\* The message about a message is one of the same number.
LEMMA EchoIs ==
    ASSUME NEW m \in Messages
    PROVE  Echo(m) \in Messages /\ Echo(m).by = m.by /\ Echo(m).n = m.n /\ Echo(m).echo
BY DEF Messages, Echo

\* It tells the message.
LEMMA EchoTells ==
    ASSUME NEW m \in Messages, NEW k \in Messages, ~m.echo, ~k.echo, Echo(m) = Echo(k)
    PROVE  m = k
<1>1. m.by = k.by /\ m.n = k.n
  BY EchoIs
<1>2. m.echo = FALSE /\ k.echo = FALSE
  BY DEF Messages
<1> QED BY <1>1, <1>2 DEF Messages

\* What a list of messages has, each once.
OfList(s) == {s[i] : i \in DOMAIN s}
EachOnce(s) == \A i, j \in DOMAIN s : s[i] = s[j] => i = j

\* What it is after one more.
LEMMA OneLineMore ==
    ASSUME NEW s \in Seq(Messages), EachOnce(s), NEW m \in Messages, m \notin OfList(s)
    PROVE  /\ Append(s, m) \in Seq(Messages) /\ OfList(Append(s, m)) = OfList(s) \cup {m}
           /\ EachOnce(Append(s, m))
<1> DEFINE N == Len(s)
           t == Append(s, m)
<1>1. s \in Seq(Messages) /\ N \in Nat
  OBVIOUS
<1>2. /\ t \in Seq(Messages) /\ Len(t) = N + 1 /\ t[N + 1] = m
      /\ \A i \in 1 .. N : t[i] = s[i]
  BY <1>1
<1>3. DOMAIN s = 1 .. N /\ DOMAIN t = 1 .. N + 1
  BY <1>1, <1>2
<1> HIDE DEF t
<1>4. \A i \in 1 .. N : s[i] # m
  BY <1>3 DEF OfList
<1> HIDE DEF N
<1>5. \A i \in 1 .. N + 1 : i \in 1 .. N \/ i = N + 1
  BY <1>1
<1>6. OfList(t) = OfList(s) \cup {m}
  <2>1. 1 .. N \subseteq 1 .. N + 1 /\ N + 1 \in 1 .. N + 1
    BY <1>1
  <2> QED BY <1>2, <1>3, <1>5, <2>1 DEF OfList
<1>7. \A i, j \in 1 .. N : s[i] = s[j] => i = j
  BY <1>3 DEF EachOnce
<1>8. \A i, j \in 1 .. N + 1 : t[i] = t[j] => i = j
  BY <1>2, <1>4, <1>5, <1>7
<1> QED BY <1>2, <1>3, <1>6, <1>8 DEF EachOnce, t

\* The element that is appended is the last, and the others stay where they are.
LEMMA LastOfAppended ==
    ASSUME NEW T, NEW s \in Seq(T), NEW x \in T, NEW k, k = Len(s), NEW n, n = k + 1
    PROVE  Append(s, x)[n] = x /\ \A i \in 1 .. k : Append(s, x)[i] = s[i]
OBVIOUS

-----------------------------------------------------------------------------
(* What the steps do to the messages *)

\* Spoken are messages.
LEMMA SpokenMessages ==
    ASSUME MessageInd
    PROVE  Spoken \subseteq Messages /\ \A m \in Spoken : m.by \in Loggers
<1>1. Lines \subseteq Messages
  BY DEF MessageInd, MessageTypeOK, Lines
<1>2. refused \subseteq Messages /\ \A r \in Waiting : text[r] \in Messages
  BY DEF MessageInd, MessageTypeOK
<1>3. Spoken \subseteq Messages
  BY <1>1, <1>2 DEF Spoken
<1> QED BY <1>3 DEF Messages

\* Records change hands, and are given back.
LEMMA MessagesMove ==
    ASSUME MessageInd, UNCHANGED <<out, refused>>, Waiting' = Waiting, Echoing' = Echoing,
           Written' \subseteq Written,
           \A r \in Waiting \cup Echoing \cup Written : text'[r] = text[r],
           text' \in [Records -> Messages \cup {NoRecord}], said' \in [Loggers -> Nat],
           \A l \in Loggers : SaidBy(l)' = SaidBy(l)
    PROVE  MessageInd'
<1>0. Messages' = Messages /\ Records' = Records /\ Lines' = Lines
  BY DEF Messages, Records, Lines
<1>1. Spoken' = Spoken
  BY <1>0 DEF Spoken
<1>2. MessageTypeOK'
  BY <1>0 DEF MessageInd, MessageTypeOK
<1>3. WrittenOnce'
  BY <1>0 DEF MessageInd, WrittenOnce
<1>4. EchoesNew'
  BY <1>1 DEF MessageInd, EchoesNew, Echo
<1>5. SaidSpoken'
  <2>1. \A m \in Spoken : m.by \in Loggers
    BY SpokenMessages
  <2> QED BY <1>1, <2>1 DEF MessageInd, SaidSpoken, Message
<1> QED BY <1>2, <1>3, <1>4, <1>5 DEF MessageInd

\* What waited is refused, or lost in an exit.
LEMMA MessagesRefused ==
    ASSUME MessageInd, Waiting' \subseteq Waiting, Echoing' \subseteq Echoing,
           Written' \subseteq Written, UNCHANGED <<out, text, said>>,
           \A l \in Loggers : SaidBy(l)' = SaidBy(l),
           refused' = refused \cup {text[r] : r \in Waiting \ Waiting'}
    PROVE  MessageInd'
<1>0. Messages' = Messages /\ Records' = Records /\ Lines' = Lines
  BY DEF Messages, Records, Lines
<1>1. Spoken' = Spoken
  BY <1>0 DEF Spoken
<1>2. MessageTypeOK'
  BY <1>0 DEF MessageInd, MessageTypeOK
<1>3. WrittenOnce'
  BY <1>0 DEF MessageInd, WrittenOnce
<1>4. EchoesNew'
  BY <1>1 DEF MessageInd, EchoesNew, Echo
<1>5. SaidSpoken'
  <2>1. \A m \in Spoken : m.by \in Loggers
    BY SpokenMessages
  <2> QED BY <1>1, <2>1 DEF MessageInd, SaidSpoken, Message
<1> QED BY <1>2, <1>3, <1>4, <1>5 DEF MessageInd

\* A message that waited is written; a callback may be to log about it.
LEMMA MessageWritten ==
    ASSUME MessageInd, NEW q \in Waiting, Waiting' = Waiting \ {q}, out' = Append(out, text[q]),
           \/ /\ ~text[q].echo /\ Echoing' = Echoing \cup {q} /\ Written' \subseteq Written
           \/ Echoing' = Echoing /\ Written' \subseteq Written \cup {q},
           UNCHANGED <<refused, text, said, pc>>
    PROVE  MessageInd'
<1>0. /\ Messages' = Messages /\ Records' = Records /\ \A l : SaidBy(l)' = SaidBy(l)
      /\ text[q] \in Messages /\ text[q] \notin Lines \cup refused
  BY DEF Messages, Records, SaidBy, MessageInd, MessageTypeOK, WrittenOnce
<1>1. /\ out' \in Seq(Messages) /\ Lines' = Lines \cup {text[q]}
      /\ \A i, j \in DOMAIN out' : out'[i] = out'[j] => i = j
  <2>1. out \in Seq(Messages) /\ EachOnce(out) /\ Lines = OfList(out) /\ Lines' = OfList(out')
    BY DEF MessageInd, MessageTypeOK, WrittenOnce, EachOnce, OfList, Lines
  <2> QED BY <1>0, <2>1, OneLineMore DEF EachOnce
<1>2. Spoken' = Spoken
  BY <1>1 DEF Spoken
<1>3. MessageTypeOK'
  BY <1>0, <1>1 DEF MessageInd, MessageTypeOK
<1>4. WrittenOnce'
  <2>1. Lines' \cap refused' = {}
    BY <1>0, <1>1 DEF MessageInd, WrittenOnce
  <2>2. \A r \in Waiting' : text'[r] \notin Lines' \cup refused'
    BY <1>0, <1>1 DEF MessageInd, WrittenOnce
  <2>3. \A r \in Echoing' \cup Written' : text'[r] \in Lines'
    BY <1>0, <1>1 DEF MessageInd, WrittenOnce
  <2>4. \A p, r \in Waiting' \cup Echoing' : text'[p] = text'[r] => p = r
    <3>1. Waiting' \cup Echoing' \subseteq Waiting \cup Echoing
      OBVIOUS
    <3> QED BY <3>1 DEF MessageInd, WrittenOnce
  <2> QED BY <1>1, <2>1, <2>2, <2>3, <2>4 DEF WrittenOnce
<1>5. EchoesNew'
  BY <1>2 DEF MessageInd, EchoesNew, Echo
<1>6. SaidSpoken'
  BY <1>0, <1>2 DEF MessageInd, SaidSpoken, Message
<1> QED BY <1>3, <1>4, <1>5, <1>6 DEF MessageInd

\* What a logger says next nobody has said, and no callback is to say.
LEMMA NextIsNew ==
    ASSUME MessageInd, NEW l \in Loggers, NEW m \in Messages, m.by = l, m.n = SaidBy(l) + 1
    PROVE  /\ m \notin Spoken
           /\ \A r \in Waiting \cup Echoing : text[r] # m /\ Echo(text[r]) # m
<1>1. \A k \in Spoken : k # m
  BY DEF MessageInd, MessageTypeOK, SaidSpoken
<1>2. ASSUME NEW r \in Waiting \cup Echoing PROVE text[r] # m /\ Echo(text[r]) # m
  <2>1. text[r] \in Spoken /\ text[r] \in Messages
    BY DEF MessageInd, MessageTypeOK, WrittenOnce, Spoken
  <2>2. Echo(text[r]).by = text[r].by /\ Echo(text[r]).n = text[r].n
    BY <2>1, EchoIs
  <2>3. text[r].n \in 1 .. SaidBy(text[r].by)
    BY <2>1 DEF MessageInd, SaidSpoken
  <2>4. SaidBy(l) \in Nat
    BY DEF MessageInd, MessageTypeOK
  <2> QED BY <2>2, <2>3, <2>4
<1> QED BY <1>1, <1>2

\* A logger has said one message more, and a callback may have said another about it.
LEMMA OneMoreSaid ==
    ASSUME MessageInd, NEW l \in Loggers, NEW S \in SUBSET Messages,
           \A m \in S : m.by = l /\ m.n = SaidBy(l) + 1, Message(l, SaidBy(l) + 1) \in S,
           Spoken' = Spoken \cup S, SaidBy(l)' = SaidBy(l) + 1,
           \A k \in Loggers \ {l} : SaidBy(k)' = SaidBy(k)
    PROVE  SaidSpoken'
<1>1. \A k \in Loggers : SaidBy(k) \in Nat
  BY DEF MessageInd, MessageTypeOK
<1>2. \A m \in Spoken : m.by \in Loggers /\ m.n \in 1 .. SaidBy(m.by)
  BY SpokenMessages DEF MessageInd, SaidSpoken
<1>3. \A m \in Spoken \cup S : m.n \in 1 .. SaidBy(m.by)'
  <2> SUFFICES ASSUME NEW m \in Spoken \cup S PROVE m.n \in 1 .. SaidBy(m.by)'
    OBVIOUS
  <2>1. PICK k : k = m.by
    OBVIOUS
  <2>2. m.n \in 1 .. SaidBy(k)'
    BY <1>1, <1>2, <2>1
  <2> QED BY <2>1, <2>2
<1>4. ASSUME NEW k \in Loggers, NEW n \in 1 .. SaidBy(k)' PROVE Message(k, n) \in Spoken \cup S
  <2>1. CASE n \in 1 .. SaidBy(k)
    BY <2>1 DEF MessageInd, SaidSpoken
  <2>2. CASE n \notin 1 .. SaidBy(k)
    <3>1. k = l /\ n = SaidBy(l) + 1
      BY <1>1, <2>2
    <3> QED BY <3>1
  <2> QED BY <2>1, <2>2
<1> QED BY <1>3, <1>4 DEF SaidSpoken, Message

\* It is refused,
LEMMA NextRefused ==
    ASSUME MessageInd, NEW l \in Loggers, NEW m, m = Message(l, SaidBy(l) + 1),
           refused' = refused \cup {m}, Waiting' = Waiting, Echoing' = Echoing,
           Written' = Written, UNCHANGED <<out, text>>, said' \in [Loggers -> Nat],
           SaidBy(l)' = SaidBy(l) + 1, \A k \in Loggers \ {l} : SaidBy(k)' = SaidBy(k)
    PROVE  MessageInd'
<1>0. /\ Messages' = Messages /\ Records' = Records /\ Lines' = Lines
      /\ \A k \in Loggers : SaidBy(k) \in Nat
  BY DEF Messages, Records, Lines, MessageInd, MessageTypeOK
<1>1. m \in Messages /\ m.by = l /\ m.n = SaidBy(l) + 1
  BY <1>0 DEF Message, Messages
<1>2. /\ m \notin Spoken
      /\ \A r \in Waiting \cup Echoing : text[r] # m /\ Echo(text[r]) # m
  BY <1>1, NextIsNew
<1>3. Spoken' = Spoken \cup {m}
  BY <1>0 DEF Spoken
<1>4. SaidSpoken'
  <2>1. PICK S : S = {m}
    OBVIOUS
  <2>2. S \in SUBSET Messages /\ \A k \in S : k.by = l /\ k.n = SaidBy(l) + 1
    BY <1>1, <2>1
  <2>3. Message(l, SaidBy(l) + 1) \in S /\ Spoken' = Spoken \cup S
    BY <1>3, <2>1
  <2> QED BY <2>2, <2>3, OneMoreSaid
<1>5. MessageTypeOK'
  <2>1. \A k \in Loggers : SaidBy(k)' \in Nat
    BY <1>0
  <2> QED BY <1>0, <1>1, <2>1 DEF MessageInd, MessageTypeOK
<1>6. WrittenOnce'
  <2>1. m \notin Lines
    BY <1>2 DEF Spoken
  <2>2. \A r \in Waiting : text[r] # m
    BY <1>2
  <2> QED BY <1>0, <2>1, <2>2 DEF MessageInd, WrittenOnce
<1>7. EchoesNew'
  BY <1>2, <1>3 DEF MessageInd, EchoesNew, Echo
<1> QED BY <1>4, <1>5, <1>6, <1>7 DEF MessageInd

\* or put into a record,
LEMMA NextWaits ==
    ASSUME MessageInd, NEW l \in Loggers, NEW q \in Records, NEW m, m = Message(l, SaidBy(l) + 1),
           q \notin Waiting \cup Echoing \cup Written, Waiting' = Waiting \cup {q},
           Echoing' = Echoing, Written' = Written, text' = [text EXCEPT ![q] = m],
           UNCHANGED <<out, refused, said>>,
           SaidBy(l)' = SaidBy(l) + 1, \A k \in Loggers \ {l} : SaidBy(k)' = SaidBy(k)
    PROVE  MessageInd'
<1>0. /\ Messages' = Messages /\ Records' = Records /\ Lines' = Lines
      /\ \A k \in Loggers : SaidBy(k) \in Nat
      /\ text \in [Records -> Messages \cup {NoRecord}]
      /\ Waiting \subseteq Records /\ Echoing \subseteq Records /\ Written \subseteq Records
  BY DEF Messages, Records, Lines, MessageInd, MessageTypeOK, Waiting, Echoing, Written
<1>1. m \in Messages /\ m.by = l /\ m.n = SaidBy(l) + 1
  BY <1>0 DEF Message, Messages
<1>2. /\ m \notin Spoken
      /\ \A r \in Waiting \cup Echoing : text[r] # m /\ Echo(text[r]) # m
  BY <1>1, NextIsNew
<1>3. text'[q] = m /\ \A r \in Waiting \cup Echoing \cup Written : text'[r] = text[r]
  BY <1>0
<1>4. Spoken' = Spoken \cup {m}
  <2>1. {text'[r] : r \in Waiting'} = {text[r] : r \in Waiting} \cup {m}
    BY <1>3
  <2> QED BY <1>0, <2>1 DEF Spoken
<1>5. SaidSpoken'
  <2>1. PICK S : S = {m}
    OBVIOUS
  <2>2. S \in SUBSET Messages /\ \A k \in S : k.by = l /\ k.n = SaidBy(l) + 1
    BY <1>1, <2>1
  <2>3. Message(l, SaidBy(l) + 1) \in S /\ Spoken' = Spoken \cup S
    BY <1>4, <2>1
  <2> QED BY <2>2, <2>3, OneMoreSaid
<1>6. MessageTypeOK'
  <2>1. \A k \in Loggers : SaidBy(k)' \in Nat
    BY <1>0
  <2>2. text' \in [Records -> Messages \cup {NoRecord}]
    BY <1>0, <1>1
  <2>3. \A r \in Waiting' \cup Echoing' : text'[r] \in Messages
    BY <1>1, <1>3 DEF MessageInd, MessageTypeOK
  <2> QED BY <1>0, <2>1, <2>2, <2>3 DEF MessageInd, MessageTypeOK
<1>7. WrittenOnce'
  <2>1. m \notin Lines \cup refused
    BY <1>2 DEF Spoken
  <2>2. \A r \in Waiting' : text'[r] \notin Lines' \cup refused'
    BY <1>0, <1>3, <2>1 DEF MessageInd, WrittenOnce
  <2>3. \A r \in Echoing' \cup Written' : text'[r] \in Lines'
    BY <1>0, <1>3 DEF MessageInd, WrittenOnce
  <2>4. \A p, r \in Waiting' \cup Echoing' : text'[p] = text'[r] => p = r
    BY <1>2, <1>3 DEF MessageInd, WrittenOnce
  <2> QED BY <1>0, <2>2, <2>3, <2>4 DEF MessageInd, WrittenOnce
<1>8. EchoesNew'
  <2>1. Echo(m) \notin Spoken /\ Echo(m) # m
    <3>1. Echo(m) \in Messages /\ Echo(m).by = l /\ Echo(m).n = SaidBy(l) + 1 /\ Echo(m).echo
      BY <1>1, EchoIs
    <3>2. Echo(m) \notin Spoken
      BY <3>1, NextIsNew
    <3>3. m.echo = FALSE
      BY DEF Message
    <3> QED BY <3>1, <3>2, <3>3
  <2>2. \A r \in Waiting \cup Echoing : ~text[r].echo => Echo(text[r]) \notin Spoken \cup {m}
    BY <1>2 DEF MessageInd, EchoesNew
  <2>3. \A r \in Echoing : ~text'[r].echo
    BY <1>3 DEF MessageInd, EchoesNew
  <2>4. \A r \in Waiting' \cup Echoing' : ~text'[r].echo => Echo(text'[r]) \notin Spoken'
    BY <1>3, <1>4, <2>1, <2>2
  <2> QED BY <2>3, <2>4 DEF EchoesNew, Echo
<1> QED BY <1>5, <1>6, <1>7, <1>8 DEF MessageInd

\* or, without a pool, written at once, with what a callback says about it.
LEMMA NextWritten ==
    ASSUME MessageInd, NEW l \in Loggers, NEW m, m = Message(l, SaidBy(l) + 1),
           \/ out' = Append(out, m) \/ out' = Append(Append(out, m), Echo(m)),
           Waiting' = Waiting, Echoing' = Echoing, Written' = Written,
           UNCHANGED <<refused, text>>, said' \in [Loggers -> Nat],
           SaidBy(l)' = SaidBy(l) + 1, \A k \in Loggers \ {l} : SaidBy(k)' = SaidBy(k)
    PROVE  MessageInd'
<1> DEFINE S == Lines' \ Lines
           e == Echo(m)
<1>0. /\ Messages' = Messages /\ Records' = Records
      /\ \A k \in Loggers : SaidBy(k) \in Nat
      /\ out \in Seq(Messages) /\ EachOnce(out) /\ Lines = OfList(out) /\ Lines' = OfList(out')
  BY DEF Messages, Records, Lines, MessageInd, MessageTypeOK, WrittenOnce, EachOnce, OfList
<1>1. m \in Messages /\ m.by = l /\ m.n = SaidBy(l) + 1 /\ m.echo = FALSE
  BY <1>0 DEF Message, Messages
<1>2. e \in Messages /\ e.by = l /\ e.n = SaidBy(l) + 1 /\ e.echo /\ e # m
  BY <1>1, EchoIs
<1> HIDE DEF e
<1>3. /\ m \notin Spoken /\ e \notin Spoken
      /\ \A r \in Waiting \cup Echoing :
            text[r] # m /\ Echo(text[r]) # m /\ text[r] # e /\ Echo(text[r]) # e
  BY <1>1, <1>2, NextIsNew
<1>4. m \notin Lines /\ e \notin Lines /\ m \notin refused /\ e \notin refused
  BY <1>3 DEF Spoken
<1>5. /\ Append(out, m) \in Seq(Messages) /\ EachOnce(Append(out, m))
      /\ OfList(Append(out, m)) = Lines \cup {m}
  BY <1>0, <1>1, <1>4, OneLineMore
<1>6. /\ Append(Append(out, m), e) \in Seq(Messages) /\ EachOnce(Append(Append(out, m), e))
      /\ OfList(Append(Append(out, m), e)) = Lines \cup {m, e}
  <2> DEFINE s == Append(out, m)
  <2>1. s \in Seq(Messages) /\ EachOnce(s) /\ e \notin OfList(s)
    BY <1>2, <1>4, <1>5
  <2>2. OfList(s) = Lines \cup {m}
    BY <1>5
  <2> HIDE DEF s
  <2>3. /\ Append(s, e) \in Seq(Messages) /\ EachOnce(Append(s, e))
        /\ OfList(Append(s, e)) = Lines \cup {m, e}
    BY <1>2, <2>1, <2>2, OneLineMore
  <2> QED BY <2>3 DEF s
<1>7. /\ out' \in Seq(Messages) /\ EachOnce(out') /\ Lines' = Lines \cup S
      /\ m \in S /\ S \subseteq {m, e}
  BY <1>0, <1>4, <1>5, <1>6 DEF e
<1> HIDE DEF S
<1>8. Spoken' = Spoken \cup S
  BY <1>7 DEF Spoken
<1>9. SaidSpoken'
  <2>1. S \in SUBSET Messages /\ \A k \in S : k.by = l /\ k.n = SaidBy(l) + 1
    BY <1>1, <1>2, <1>7
  <2> QED BY <1>7, <1>8, <2>1, OneMoreSaid
<1>10. MessageTypeOK'
  <2>1. \A k \in Loggers : SaidBy(k)' \in Nat
    BY <1>0
  <2> QED BY <1>0, <1>7, <2>1 DEF MessageInd, MessageTypeOK
<1>11. WrittenOnce'
  <2>1. Lines' \cap refused' = {}
    BY <1>4, <1>7 DEF MessageInd, WrittenOnce
  <2>2. \A r \in Waiting' : text'[r] \notin Lines' \cup refused'
    BY <1>3, <1>7 DEF MessageInd, WrittenOnce
  <2>3. \A r \in Echoing' \cup Written' : text'[r] \in Lines'
    BY <1>7 DEF MessageInd, WrittenOnce
  <2> QED BY <1>7, <2>1, <2>2, <2>3 DEF MessageInd, WrittenOnce, EachOnce
<1>12. EchoesNew'
  BY <1>3, <1>7, <1>8 DEF MessageInd, EchoesNew, Echo
<1> QED BY <1>9, <1>10, <1>11, <1>12 DEF MessageInd

\* A message a callback is to log is refused,
LEMMA EchoLost ==
    ASSUME MessageInd, NEW r \in Echoing, Waiting' = Waiting, Echoing' = Echoing \ {r},
           Written' = Written \cup {r}, refused' = refused \cup {Echo(text[r])},
           UNCHANGED <<out, text, said, pc>>
    PROVE  MessageInd'
<1> DEFINE e == Echo(text[r])
<1>0. /\ Messages' = Messages /\ Records' = Records /\ Lines' = Lines
      /\ \A l : SaidBy(l)' = SaidBy(l)
  BY DEF Messages, Records, Lines, SaidBy
<1>1. text[r] \in Messages /\ text[r] \in Lines /\ ~text[r].echo /\ text[r] \in Spoken
  BY DEF MessageInd, MessageTypeOK, WrittenOnce, EchoesNew, Spoken
<1>2. /\ e \in Messages /\ e.by = text[r].by /\ e.n = text[r].n /\ e.echo /\ e \notin Spoken
  BY <1>1, EchoIs DEF MessageInd, EchoesNew
<1>3. \A p \in Waiting \cup Echoing : ~text[p].echo => (Echo(text[p]) = e => p = r)
  <2> SUFFICES ASSUME NEW p \in Waiting \cup Echoing, ~text[p].echo, Echo(text[p]) = e
               PROVE  p = r
    OBVIOUS
  <2>1. text[p] \in Messages
    BY DEF MessageInd, MessageTypeOK
  <2>2. text[p] = text[r]
    BY <1>1, <2>1, EchoTells
  <2> QED BY <2>2 DEF MessageInd, WrittenOnce
<1>4. r \notin Waiting
  BY <1>1 DEF MessageInd, WrittenOnce
<1> HIDE DEF e
<1>5. Spoken' = Spoken \cup {e}
  BY <1>0 DEF Spoken, e
<1>6. MessageTypeOK'
  BY <1>0, <1>2 DEF MessageInd, MessageTypeOK, e
<1>7. WrittenOnce'
  <2>1. e \notin Lines /\ \A p \in Waiting : text[p] # e
    BY <1>2 DEF Spoken
  <2>2. Lines' \cap refused' = {} /\ \A p \in Waiting' : text'[p] \notin Lines' \cup refused'
    BY <1>0, <2>1 DEF MessageInd, WrittenOnce, e
  <2>3. \A p \in Echoing' \cup Written' : text'[p] \in Lines'
    BY <1>0, <1>1 DEF MessageInd, WrittenOnce
  <2> QED BY <2>2, <2>3 DEF MessageInd, WrittenOnce
<1>8. EchoesNew'
  <2>1. \A p \in Waiting' \cup Echoing' : ~text[p].echo => Echo(text[p]) # e
    BY <1>3, <1>4
  <2> QED BY <1>5, <2>1 DEF MessageInd, EchoesNew, Echo
<1>9. SaidSpoken'
  <2>1. e.n \in 1 .. SaidBy(e.by)
    BY <1>1, <1>2 DEF MessageInd, SaidSpoken
  <2> QED BY <1>0, <1>5, <2>1 DEF MessageInd, SaidSpoken, Message
<1> QED BY <1>6, <1>7, <1>8, <1>9 DEF MessageInd

\* or put into a record.
LEMMA EchoWaits ==
    ASSUME MessageInd, NEW r \in Echoing, NEW q \in Records,
           q \notin Waiting \cup Echoing \cup Written, Waiting' = Waiting \cup {q},
           Echoing' = Echoing \ {r}, Written' = Written \cup {r},
           text' = [text EXCEPT ![q] = Echo(text[r])], UNCHANGED <<out, refused, said, pc>>
    PROVE  MessageInd'
<1> DEFINE e == Echo(text[r])
<1>0. /\ Messages' = Messages /\ Records' = Records /\ Lines' = Lines
      /\ \A l : SaidBy(l)' = SaidBy(l)
      /\ text \in [Records -> Messages \cup {NoRecord}]
      /\ Waiting \subseteq Records /\ Echoing \subseteq Records /\ Written \subseteq Records
  BY DEF Messages, Records, Lines, SaidBy, MessageInd, MessageTypeOK, Waiting, Echoing, Written
<1>1. text[r] \in Messages /\ text[r] \in Lines /\ ~text[r].echo /\ text[r] \in Spoken
  BY DEF MessageInd, MessageTypeOK, WrittenOnce, EchoesNew, Spoken
<1>2. /\ e \in Messages /\ e.by = text[r].by /\ e.n = text[r].n /\ e.echo /\ e \notin Spoken
  BY <1>1, EchoIs DEF MessageInd, EchoesNew
<1>3. \A p \in Waiting \cup Echoing : ~text[p].echo => (Echo(text[p]) = e => p = r)
  <2> SUFFICES ASSUME NEW p \in Waiting \cup Echoing, ~text[p].echo, Echo(text[p]) = e
               PROVE  p = r
    OBVIOUS
  <2>1. text[p] \in Messages
    BY DEF MessageInd, MessageTypeOK
  <2>2. text[p] = text[r]
    BY <1>1, <2>1, EchoTells
  <2> QED BY <2>2 DEF MessageInd, WrittenOnce
<1>4. r \notin Waiting
  BY <1>1 DEF MessageInd, WrittenOnce
<1>5. /\ text' = [text EXCEPT ![q] = e]
      /\ text'[q] = e /\ \A p \in Waiting \cup Echoing \cup Written : text'[p] = text[p]
  BY <1>0
<1>6. \A p \in Waiting \cup Echoing : ~text[p].echo => Echo(text[p]) \notin Spoken
  BY DEF MessageInd, EchoesNew
<1> HIDE DEF e
<1>7. Spoken' = Spoken \cup {e}
  <2>1. {text'[p] : p \in Waiting'} = {text[p] : p \in Waiting} \cup {e}
    BY <1>5
  <2> QED BY <1>0, <2>1 DEF Spoken
<1>8. MessageTypeOK'
  <2>1. text' \in [Records -> Messages \cup {NoRecord}]
    BY <1>0, <1>2, <1>5
  <2>2. \A p \in Waiting' \cup Echoing' : text'[p] \in Messages
    BY <1>2, <1>5 DEF MessageInd, MessageTypeOK
  <2> QED BY <1>0, <2>1, <2>2 DEF MessageInd, MessageTypeOK
<1>9. WrittenOnce'
  <2>1. e \notin Lines \cup refused /\ \A p \in Waiting \cup Echoing : text[p] # e
    BY <1>2 DEF Spoken, MessageInd, WrittenOnce
  <2>2. \A p \in Waiting' : text'[p] \notin Lines' \cup refused'
    BY <1>0, <1>5, <2>1 DEF MessageInd, WrittenOnce
  <2>3. \A p \in Echoing' \cup Written' : text'[p] \in Lines'
    BY <1>0, <1>1, <1>5 DEF MessageInd, WrittenOnce
  <2>4. \A p, k \in Waiting' \cup Echoing' : text'[p] = text'[k] => p = k
    BY <1>5, <2>1 DEF MessageInd, WrittenOnce
  <2> QED BY <1>0, <2>2, <2>3, <2>4 DEF MessageInd, WrittenOnce
<1>10. EchoesNew'
  <2>1. \A p \in Waiting \cup (Echoing \ {r}) :
            ~text[p].echo => Echo(text[p]) \notin Spoken \cup {e}
    BY <1>3, <1>4, <1>6
  <2>2. \A p \in Waiting' \cup Echoing' : ~text'[p].echo => Echo(text'[p]) \notin Spoken'
    BY <1>2, <1>5, <1>7, <2>1
  <2>3. \A p \in Echoing' : ~text'[p].echo
    BY <1>5 DEF MessageInd, EchoesNew
  <2> QED BY <2>2, <2>3 DEF EchoesNew, Echo
<1>11. SaidSpoken'
  <2>1. e.n \in 1 .. SaidBy(e.by)
    BY <1>1, <1>2 DEF MessageInd, SaidSpoken
  <2> QED BY <1>0, <1>7, <2>1 DEF MessageInd, SaidSpoken, Message
<1> QED BY <1>8, <1>9, <1>10, <1>11 DEF MessageInd

-----------------------------------------------------------------------------
(* Whose a record is: one owner's, and nobody else's *)

\* Of two elements of a set of at most one, each is the other.
LEMMA OnlyOne ==
    ASSUME NEW S, IsFiniteSet(S), Cardinality(S) <= 1, NEW x \in S, NEW y \in S
    PROVE  x = y
<1>1. IsFiniteSet(S \ {x}) /\ Cardinality(S \ {x}) = Cardinality(S) - 1
  BY FS_RemoveElement
<1>2. Cardinality(S \ {x}) \in Nat /\ Cardinality(S) \in Nat
  BY <1>1, FS_CardinalityType
<1>3. Cardinality(S \ {x}) = 0
  BY <1>1, <1>2
<1>4. S \ {x} = {}
  BY <1>1, <1>3, FS_EmptySet
<1> QED BY <1>4

\* A set with an element is not counted as none.
LEMMA NotNone ==
    ASSUME NEW S, IsFiniteSet(S), NEW x \in S
    PROVE  Cardinality(S) \in Nat /\ Cardinality(S) >= 1
<1>1. Cardinality(S) \in Nat /\ Cardinality(S) # 0
  BY FS_CardinalityType, FS_EmptySet
<1> QED BY <1>1

\* A record is in one place.
LEMMA OnePlace ==
    ASSUME LoggerAssumption, LogInd, WorkBegun, NEW r \in Records
    PROVE  /\ \A l, k \in ByLogger(r) : l = k
           /\ \A t, u \in ByCallback(r) : t = u
           /\ \A t, u \in ByTask(r) : t = u
           /\ ByLogger(r) = {} \/ (ByCallback(r) = {} /\ ByTask(r) = {})
           /\ ByCallback(r) = {} \/ ByTask(r) = {}
           /\ InList(r) = {} \/ (ByLogger(r) = {} /\ ByCallback(r) = {} /\ ByTask(r) = {})
<1>1. CASE lives = 0
  <2>1. Tasks = {} /\ \A l \in Loggers : task[l] # r
    BY <1>1 DEF WorkBegun, Tasks, LoggerAssumption
  <2> QED BY <2>1 DEF ByLogger, ByCallback, ByTask
<1>2. CASE lives # 0
  <2>1. Owners(r) = 1
    BY <1>2 DEF LogInd, LogTypeOK, OneOwner
  <2>2. /\ IsFiniteSet(InList(r)) /\ IsFiniteSet(ByLogger(r))
        /\ IsFiniteSet(ByCallback(r)) /\ IsFiniteSet(ByTask(r))
        /\ Cardinality(InList(r)) \in Nat /\ Cardinality(ByLogger(r)) \in Nat
        /\ Cardinality(ByCallback(r)) \in Nat /\ Cardinality(ByTask(r)) \in Nat
    BY PlacesFinite
  <2>3. Cardinality(InList(r)) + Cardinality(ByLogger(r)) + Cardinality(ByCallback(r))
          + Cardinality(ByTask(r)) = 1
    BY <2>1 DEF Owners
  <2>4. /\ Cardinality(ByLogger(r)) <= 1 /\ Cardinality(ByCallback(r)) <= 1
        /\ Cardinality(ByTask(r)) <= 1
    BY <2>2, <2>3
  <2>5. /\ \A l, k \in ByLogger(r) : l = k
        /\ \A t, u \in ByCallback(r) : t = u
        /\ \A t, u \in ByTask(r) : t = u
    BY <2>2, <2>4, OnlyOne
  <2>6. /\ InList(r) # {} => Cardinality(InList(r)) >= 1
        /\ ByLogger(r) # {} => Cardinality(ByLogger(r)) >= 1
        /\ ByCallback(r) # {} => Cardinality(ByCallback(r)) >= 1
        /\ ByTask(r) # {} => Cardinality(ByTask(r)) >= 1
    BY <2>2, NotNone
  <2>7. ByLogger(r) = {} \/ (ByCallback(r) = {} /\ ByTask(r) = {})
    BY <2>2, <2>3, <2>6
  <2>8. ByCallback(r) = {} \/ ByTask(r) = {}
    BY <2>2, <2>3, <2>6
  <2>9. InList(r) = {} \/ (ByLogger(r) = {} /\ ByCallback(r) = {} /\ ByTask(r) = {})
    BY <2>2, <2>3, <2>6
  <2> QED BY <2>5, <2>7, <2>8, <2>9
<1> QED BY <1>1, <1>2

\* The tasks that have a record, by what they are to do with it.
LEMMA TasksAtWork ==
    ASSUME LogInd, NEW t \in Tasks
    PROVE  /\ Carrying(t) \/ At(t, "echo") \/ At(t, "add") \/ At(t, "free") => InTask(t)
           /\ Carrying(t) => step[t] = "lock"
           /\ nested[t] # NoRecord => step[t] = "add"
<1>1. t \in Queued \cup Discarded => step[t] = "lock"
  BY DEF LogInd, RecordsInUse
<1> QED BY <1>1 DEF Carrying, At, InTask, Held, LogInd, RecordsInUse

\* The record of a logger that is to fill it or has filled it carries no other message,
LEMMA LoggersRecord ==
    ASSUME LoggerAssumption, LogInd, WorkBegun, NEW l \in Loggers, NEW q \in Records, task[l] = q
    PROVE  /\ \A k \in Loggers \ {l} : task[k] # q
           /\ \A t \in Tasks : nested[t] # q
           /\ \A t \in Tasks : args[t] = q => ~InTask(t)
<1>1. l \in ByLogger(q)
  BY DEF ByLogger
<1>2. /\ \A k \in ByLogger(q) : k = l
      /\ ByCallback(q) = {} /\ ByTask(q) = {}
  BY <1>1, OnePlace
<1> QED BY <1>2 DEF ByLogger, ByCallback, ByTask, InTask

\* nor that of a callback,
LEMMA CallbacksRecord ==
    ASSUME LoggerAssumption, LogInd, WorkBegun, NEW u \in Tasks, NEW q \in Records, nested[u] = q
    PROVE  /\ \A k \in Loggers : task[k] # q
           /\ \A t \in Tasks \ {u} : nested[t] # q
           /\ \A t \in Tasks : args[t] = q => ~InTask(t)
<1>1. u \in ByCallback(q)
  BY DEF ByCallback
<1>2. /\ \A t \in ByCallback(q) : t = u
      /\ ByLogger(q) = {} /\ ByTask(q) = {}
  BY <1>1, OnePlace
<1> QED BY <1>2 DEF ByLogger, ByCallback, ByTask, InTask

\* nor that of a task,
LEMMA TasksRecord ==
    ASSUME LoggerAssumption, LogInd, WorkBegun, NEW u \in Tasks, NEW q \in Records,
           args[u] = q, InTask(u)
    PROVE  /\ \A k \in Loggers : task[k] # q
           /\ \A t \in Tasks : nested[t] # q
           /\ \A t \in Tasks \ {u} : args[t] = q => ~InTask(t)
<1>1. u \in ByTask(q)
  BY DEF ByTask, InTask
<1>2. /\ \A t \in ByTask(q) : t = u
      /\ ByLogger(q) = {} /\ ByCallback(q) = {}
  BY <1>1, OnePlace
<1> QED BY <1>2 DEF ByLogger, ByCallback, ByTask, InTask

\* and a free one carries none.
LEMMA FreeRecord ==
    ASSUME LoggerAssumption, LogInd, WorkBegun, linklist # <<>>
    PROVE  /\ Head(linklist) \in Records
           /\ \A k \in Loggers : task[k] # Head(linklist)
           /\ \A t \in Tasks : nested[t] # Head(linklist)
           /\ \A t \in Tasks : args[t] = Head(linklist) => ~InTask(t)
<1> DEFINE q == Head(linklist)
<1>1. linklist \in Seq(Records)
  BY DEF LogInd, LogTypeOK
<1>2. q \in Records /\ 1 \in InList(q)
  BY <1>1 DEF InList, Positions
<1> HIDE DEF q
<1>3. ByLogger(q) = {} /\ ByCallback(q) = {} /\ ByTask(q) = {}
  BY <1>2, OnePlace
<1> QED BY <1>2, <1>3 DEF q, ByLogger, ByCallback, ByTask, InTask

\* One task does a step.
LEMMA OneTaskSteps ==
    ASSUME LogInd, UNCHANGED poolVars, NEW u \in running, NEW s \in Steps,
           step' = [step EXCEPT ![u] = s]
    PROVE  /\ u \in Tasks /\ Tasks' = Tasks /\ running' = running /\ u \notin Queued \cup Discarded
           /\ step'[u] = s
           /\ \A t \in Tasks \ {u} :
                (Carrying(t)' <=> Carrying(t)) /\ \A a : At(t, a)' <=> At(t, a)
           /\ (Carrying(u)' <=> s = "lock") /\ \A a : At(u, a)' <=> s = a
<1>1. /\ Tasks' = Tasks /\ Queued' = Queued /\ Discarded' = Discarded /\ running' = running
  BY PoolUntouched
<1>2. u \in Tasks /\ u \notin Queued \cup Discarded /\ step \in [Tasks -> Steps]
  BY Shapes DEF LogInd, PoolTypeOK, RecordsInUse
<1>3. step'[u] = s /\ \A t \in Tasks \ {u} : step'[t] = step[t]
  BY <1>2
<1> QED BY <1>1, <1>2, <1>3 DEF Carrying, At

\* No task does one.
LEMMA NoTaskSteps ==
    ASSUME LogInd, UNCHANGED poolVars, step' = step
    PROVE  SameWork
BY PoolUntouched DEF SameWork, Carrying, At

\* A task comes, and none of the others that carry messages does a step.
LEMMA OneTaskComes ==
    ASSUME LogInd, Pool!Accept(1), NEW n, n = total + 1,
           \A t \in Tasks : step'[t] = step[t] \/ (step[t] = "add" /\ step'[t] = "free"),
           step'[n] = "lock"
    PROVE  /\ Tasks' = Tasks \cup {n} /\ n \notin Tasks /\ Carrying(n)'
           /\ \A s \in {"echo", "add", "free"} : ~At(n, s)'
           /\ \A t \in Tasks :
                /\ Carrying(t)' <=> Carrying(t)
                /\ At(t, "echo")' <=> At(t, "echo")
                /\ At(t, "add") \/ At(t, "free") <=> At(t, "add")' \/ At(t, "free")'
<1>1. /\ Tasks' = Tasks \cup {n} /\ n \notin Tasks /\ Queued' = Queued \cup {n}
      /\ Discarded' = Discarded /\ running' = running /\ running \subseteq Tasks
  BY TaskAccepted DEF LogInd, PoolTypeOK
<1> QED BY <1>1 DEF Carrying, At

-----------------------------------------------------------------------------
(* The messages in the actions *)

\* What the steps that move messages know of the records.
LEMMA Whereabouts ==
    /\ \A r : r \in Waiting <=>
            r \in Records /\ ((\E l \in Loggers : pc[l] = "add" /\ task[l] = r)
                              \/ (\E t \in Tasks : nested[t] = r)
                              \/ (\E t \in Tasks : args[t] = r /\ Carrying(t)))
    /\ \A r : r \in Echoing <=> r \in Records /\ \E t \in Tasks : args[t] = r /\ At(t, "echo")
    /\ \A r : r \in Written <=>
            r \in Records /\ \E t \in Tasks : args[t] = r /\ (At(t, "add") \/ At(t, "free"))
BY DEF Waiting, Echoing, Written

\* Steps of the pool.
LEMMA PoolStepMessages ==
    ASSUME MessageInd, SameWork, UNCHANGED logVars
    PROVE  MessageInd'
<1>1. UNCHANGED <<out, refused, text, said, pc, task, nested, args>> /\ Records' = Records
  BY DEF logVars, Records
<1>2. Waiting' = Waiting /\ Echoing' = Echoing /\ Written' = Written
  BY <1>1 DEF SameWork, Waiting, Echoing, Written
<1>3. /\ text' \in [Records -> Messages \cup {NoRecord}] /\ said' \in [Loggers -> Nat]
      /\ \A l \in Loggers : SaidBy(l)' = SaidBy(l)
  BY <1>1 DEF MessageInd, MessageTypeOK, SaidBy
<1> QED BY <1>1, <1>2, <1>3, MessagesMove

\* async_log_init: what was dropped in the exit before is lost.
LEMMA InitLogMessages ==
    ASSUME LoggerAssumption, LogInd, WorkBegun, MessageInd, InitLog
    PROVE  MessageInd'
<1>1. /\ ~pool /\ \A l \in Loggers : pc[l] = "out"
      /\ total' = 0 /\ args' = <<>> /\ nested' = <<>>
      /\ refused' = refused \cup {text[args[t]] : t \in Discarded}
      /\ UNCHANGED <<out, text, said, pc, task>>
  BY DEF InitLog, NobodyLogs
<1>2. running = {} /\ Queued = {} /\ \A t \in Tasks : nested[t] \notin Records
  <2>1. running = {} /\ pending = <<>>
    BY <1>1 DEF WorkBegun
  <2>2. \A t \in Tasks : step[t] # "add"
    BY <2>1 DEF WorkBegun
  <2> QED BY <2>1, <2>2 DEF Queued, LogInd, RecordsInUse, LoggerAssumption
<1>3. Waiting = {args[t] : t \in Discarded}
  <2>1. \A r \in Waiting : \E t \in Tasks : args[t] = r /\ Carrying(t)
    BY <1>1, <1>2 DEF Waiting
  <2>2. \A t \in Tasks : Carrying(t) <=> t \in Discarded
    BY <1>2 DEF Carrying, At
  <2>3. Discarded \subseteq Tasks /\ \A t \in Discarded : args[t] \in Records
    BY Shapes
  <2> QED BY <2>1, <2>2, <2>3 DEF Waiting
<1>4. Waiting' = {} /\ Echoing' = {} /\ Written' = {}
  <2>1. Tasks' = {}
    BY <1>1 DEF Tasks
  <2> QED BY <1>1, <2>1 DEF Waiting, Echoing, Written
<1>5. refused' = refused \cup {text[r] : r \in Waiting \ Waiting'}
  BY <1>1, <1>3, <1>4
<1>6. \A l \in Loggers : SaidBy(l)' = SaidBy(l)
  BY <1>1 DEF SaidBy
<1> QED BY <1>1, <1>4, <1>5, <1>6, MessagesRefused

\* Lines 64 to 71.
LEMMA AllocateMessages ==
    ASSUME LoggerAssumption, LogInd, MessageInd, NEW l \in Loggers, Allocate(l)
    PROVE  MessageInd'
<1>1. /\ UNCHANGED poolVars /\ UNCHANGED <<text, out, args, nested>> /\ step' = step
      /\ pc[l] = "out" /\ said' = [said EXCEPT ![l] = @ + 1]
  BY DEF Allocate
<1>2. SameWork /\ Records' = Records
  BY <1>1, NoTaskSteps DEF Records
<1>3. /\ said \in [Loggers -> Nat] /\ text \in [Records -> Messages \cup {NoRecord}]
      /\ pc \in [Loggers -> {"out", "fill", "add"}]
      /\ task \in [Loggers -> Records \cup {NoRecord}]
  BY DEF MessageInd, MessageTypeOK, LogInd, LogTypeOK
<1>4. /\ said' \in [Loggers -> Nat] /\ said'[l] = said[l] + 1
      /\ \A k \in Loggers \ {l} : said'[k] = said[k]
  BY <1>1, <1>3
<1>5. Echoing' = Echoing /\ Written' = Written
  BY <1>1, <1>2 DEF SameWork, Echoing, Written
<1>6. CASE linklist = <<>>
  <2>1. refused' = refused \cup {Message(l, said'[l])} /\ UNCHANGED <<task, pc>>
    BY <1>6 DEF Allocate
  <2>2. Waiting' = Waiting
    BY <1>1, <1>2, <2>1 DEF SameWork, Waiting
  <2>3. /\ SaidBy(l)' = SaidBy(l) + 1 /\ said'[l] = SaidBy(l) + 1
        /\ \A k \in Loggers \ {l} : SaidBy(k)' = SaidBy(k)
    BY <1>1, <1>3, <1>4, <2>1 DEF SaidBy
  <2> QED BY <1>1, <1>4, <1>5, <2>1, <2>2, <2>3, NextRefused
<1>7. CASE linklist # <<>>
  <2>1. /\ pc' = [pc EXCEPT ![l] = "fill"] /\ task' = [task EXCEPT ![l] = Head(linklist)]
        /\ refused' = refused
    BY <1>7 DEF Allocate
  <2>2. /\ pc'[l] = "fill" /\ \A k \in Loggers \ {l} : pc'[k] = pc[k] /\ task'[k] = task[k]
    BY <1>3, <2>1
  <2>3. Waiting' = Waiting
    BY <1>1, <1>2, <2>2 DEF SameWork, Waiting
  <2>4. \A k \in Loggers : SaidBy(k)' = SaidBy(k)
    BY <1>1, <1>3, <1>4, <2>2 DEF SaidBy
  <2> QED BY <1>1, <1>3, <1>4, <1>5, <2>1, <2>3, <2>4, MessagesMove
<1> QED BY <1>6, <1>7

\* Lines 73 to 88.
LEMMA FillMessages ==
    ASSUME LoggerAssumption, LogInd, WorkBegun, MessageInd, NEW l \in Loggers, Fill(l)
    PROVE  MessageInd'
<1> DEFINE q == task[l]
           m == Message(l, said[l])
<1>1. /\ UNCHANGED poolVars /\ UNCHANGED <<out, refused, said, task, args, nested>> /\ step' = step
      /\ pc[l] = "fill" /\ pc' = [pc EXCEPT ![l] = "add"] /\ text' = [text EXCEPT ![q] = m]
  BY DEF Fill
<1>2. SameWork /\ Records' = Records
  BY <1>1, NoTaskSteps DEF Records
<1>3. /\ said \in [Loggers -> Nat] /\ pc \in [Loggers -> {"out", "fill", "add"}]
      /\ task \in [Loggers -> Records \cup {NoRecord}]
  BY DEF MessageInd, MessageTypeOK, LogInd, LogTypeOK
<1>4. q \in Records
  BY <1>1, <1>3 DEF LogInd, RecordsInUse
<1>5. /\ SaidBy(l)' = SaidBy(l) + 1 /\ said[l] = SaidBy(l) + 1
      /\ \A k \in Loggers \ {l} : SaidBy(k)' = SaidBy(k)
  BY <1>1, <1>3 DEF SaidBy
<1>6. Echoing' = Echoing /\ Written' = Written
  BY <1>1, <1>2 DEF SameWork, Echoing, Written
<1>7. q \notin Waiting \cup Echoing \cup Written
  <2>1. /\ \A k \in Loggers \ {l} : task[k] # q
        /\ \A t \in Tasks : nested[t] # q
        /\ \A t \in Tasks : args[t] = q => ~InTask(t)
    BY <1>4, LoggersRecord
  <2>2. \A t \in Tasks :
            Carrying(t) \/ At(t, "echo") \/ At(t, "add") \/ At(t, "free") => InTask(t)
    BY TasksAtWork
  <2> QED BY <1>1, <2>1, <2>2 DEF Waiting, Echoing, Written
<1>8. Waiting' = Waiting \cup {q}
  <2>1. \A k \in Loggers : pc'[k] = IF k = l THEN "add" ELSE pc[k]
    BY <1>1, <1>3
  <2>2. \A r \in Records :
            (\E k \in Loggers : pc'[k] = "add" /\ task[k] = r)
                <=> (\E k \in Loggers : pc[k] = "add" /\ task[k] = r) \/ r = q
    BY <1>1, <2>1
  <2> QED BY <1>1, <1>2, <1>4, <2>2 DEF SameWork, Waiting
<1> HIDE DEF q, m
<1>9. PICK k : k = m
  OBVIOUS
<1>10. k = Message(l, SaidBy(l) + 1) /\ text' = [text EXCEPT ![q] = k]
  BY <1>1, <1>5, <1>9 DEF m
<1> QED BY <1>1, <1>4, <1>5, <1>6, <1>7, <1>8, <1>10, NextWaits

\* Line 90.
LEMMA AddMessages ==
    ASSUME LoggerAssumption, LogInd, MessageInd, NEW l \in Loggers, Add(l)
    PROVE  MessageInd'
<1> DEFINE q == task[l]
<1>1. /\ Pool!Accept(1) /\ args' = Append(args, q) /\ nested' = Append(nested, NoRecord)
      /\ step' = Append(step, "lock") /\ pc[l] = "add"
      /\ task' = [task EXCEPT ![l] = NoRecord] /\ pc' = [pc EXCEPT ![l] = "out"]
      /\ UNCHANGED <<out, refused, said, text>>
  BY DEF Add, Send
<1>2. /\ said \in [Loggers -> Nat] /\ text \in [Records -> Messages \cup {NoRecord}]
      /\ pc \in [Loggers -> {"out", "fill", "add"}] /\ total \in Nat
      /\ task \in [Loggers -> Records \cup {NoRecord}] /\ NoRecord \notin Records
      /\ args \in Seq(Records) /\ Len(args) = total
      /\ nested \in Seq(Records \cup {NoRecord}) /\ Len(nested) = total
      /\ step \in Seq(Steps) /\ Len(step) = total /\ Records' = Records
  BY DEF MessageInd, MessageTypeOK, LogInd, LogTypeOK, PoolTypeOK, TaskTypeOK,
         LoggerAssumption, Records
<1>3. q \in Records
  BY <1>1, <1>2 DEF LogInd, RecordsInUse
<1>4. PICK n : n = total + 1
  OBVIOUS
<1>5. /\ args'[n] = q /\ \A t \in Tasks : args'[t] = args[t]
  BY <1>1, <1>2, <1>3, <1>4, LastOfAppended DEF Tasks
<1>6. /\ nested'[n] = NoRecord /\ \A t \in Tasks : nested'[t] = nested[t]
  <2>1. NoRecord \in Records \cup {NoRecord}
    OBVIOUS
  <2> QED BY <1>1, <1>2, <1>4, <2>1, LastOfAppended DEF Tasks
<1>7. /\ step'[n] = "lock" /\ \A t \in Tasks : step'[t] = step[t]
  <2>1. "lock" \in Steps
    BY DEF Steps
  <2> QED BY <1>1, <1>2, <1>4, <2>1, LastOfAppended DEF Tasks
<1>8. /\ Tasks' = Tasks \cup {n} /\ n \notin Tasks /\ Carrying(n)'
      /\ \A s \in {"echo", "add", "free"} : ~At(n, s)'
      /\ \A t \in Tasks :
           /\ Carrying(t)' <=> Carrying(t)
           /\ At(t, "echo")' <=> At(t, "echo")
           /\ At(t, "add") \/ At(t, "free") <=> At(t, "add")' \/ At(t, "free")'
  BY <1>1, <1>4, <1>7, OneTaskComes
<1>9. Echoing' = Echoing /\ Written' = Written
  BY <1>2, <1>5, <1>8 DEF Echoing, Written
<1>10. Waiting' = Waiting
  <2>1. \A k \in Loggers : /\ pc'[k] = IF k = l THEN "out" ELSE pc[k]
                           /\ task'[k] = IF k = l THEN NoRecord ELSE task[k]
    BY <1>1, <1>2
  <2>2. \A r \in Records :
            (\E k \in Loggers : pc[k] = "add" /\ task[k] = r)
                <=> (\E k \in Loggers : pc'[k] = "add" /\ task'[k] = r) \/ r = q
    BY <1>1, <2>1
  <2>3. \A r \in Records :
            (\E t \in Tasks' : nested'[t] = r) <=> (\E t \in Tasks : nested[t] = r)
    BY <1>2, <1>6, <1>8
  <2>4. \A r \in Records :
            (\E t \in Tasks' : args'[t] = r /\ Carrying(t)')
                <=> (\E t \in Tasks : args[t] = r /\ Carrying(t)) \/ r = q
    BY <1>5, <1>8
  <2> QED BY <1>2, <2>2, <2>3, <2>4 DEF Waiting
<1>11. \A k \in Loggers : SaidBy(k)' = SaidBy(k)
  BY <1>1, <1>2 DEF SaidBy
<1> HIDE DEF q
<1>12. /\ UNCHANGED <<out, refused>> /\ said' \in [Loggers -> Nat]
       /\ text' \in [Records -> Messages \cup {NoRecord}]
       /\ \A r \in Waiting \cup Echoing \cup Written : text'[r] = text[r]
  BY <1>1, <1>2
<1> QED BY <1>9, <1>10, <1>11, <1>12, MessagesMove

\* Lines 90 to 94.
LEMMA AddFailsMessages ==
    ASSUME LoggerAssumption, LogInd, WorkBegun, MessageInd, NEW l \in Loggers, AddFails(l)
    PROVE  MessageInd'
<1>1. PICK q : q = task[l]
  OBVIOUS
<1>2. /\ UNCHANGED poolVars /\ UNCHANGED <<out, text, said, args, nested>> /\ step' = step
      /\ pc[l] = "add" /\ pc' = [pc EXCEPT ![l] = "out"]
      /\ task' = [task EXCEPT ![l] = NoRecord] /\ refused' = refused \cup {text[q]}
  BY <1>1 DEF AddFails
<1>3. SameWork /\ Records' = Records
  BY <1>2, NoTaskSteps DEF Records
<1>4. /\ pc \in [Loggers -> {"out", "fill", "add"}] /\ NoRecord \notin Records
      /\ task \in [Loggers -> Records \cup {NoRecord}]
  BY DEF LogInd, LogTypeOK, LoggerAssumption
<1>5. q \in Records
  BY <1>1, <1>2, <1>4 DEF LogInd, RecordsInUse
<1>6. Echoing' = Echoing /\ Written' = Written
  BY <1>2, <1>3 DEF SameWork, Echoing, Written
<1>7. /\ \A k \in Loggers \ {l} : task[k] # q
      /\ \A t \in Tasks : nested[t] # q
      /\ \A t \in Tasks : args[t] = q => ~Carrying(t)
  <2>1. /\ \A k \in Loggers \ {l} : task[k] # q
        /\ \A t \in Tasks : nested[t] # q
        /\ \A t \in Tasks : args[t] = q => ~InTask(t)
    BY <1>1, <1>5, LoggersRecord
  <2> QED BY <2>1, TasksAtWork
<1>8. q \in Waiting
  BY <1>1, <1>2, <1>5 DEF Waiting
<1>9. Waiting' = Waiting \ {q}
  <2>1. \A k \in Loggers : /\ pc'[k] = IF k = l THEN "out" ELSE pc[k]
                           /\ task'[k] = IF k = l THEN NoRecord ELSE task[k]
    BY <1>2, <1>4
  <2>2. \A r \in Records :
            (\E k \in Loggers : pc'[k] = "add" /\ task'[k] = r)
                <=> (\E k \in Loggers : pc[k] = "add" /\ task[k] = r) /\ r # q
    BY <1>1, <1>7, <2>1
  <2> QED BY <1>2, <1>3, <1>7, <2>2 DEF SameWork, Waiting
<1>10. refused' = refused \cup {text[r] : r \in Waiting \ Waiting'}
  BY <1>2, <1>8, <1>9
<1>11. \A k \in Loggers : SaidBy(k)' = SaidBy(k)
  BY <1>2, <1>4 DEF SaidBy
<1> QED BY <1>2, <1>6, <1>9, <1>10, <1>11, MessagesRefused

\* Lines 98 to 120 without a pool.
LEMMA PrintDirectlyMessages ==
    ASSUME LoggerAssumption, LogInd, MessageInd, NEW l \in Loggers, PrintDirectly(l)
    PROVE  MessageInd'
<1>1. /\ UNCHANGED poolVars /\ UNCHANGED <<refused, text, pc, task, args, nested>> /\ step' = step
      /\ pc[l] = "out" /\ said' = [said EXCEPT ![l] = @ + 1]
  BY DEF PrintDirectly
<1>2. SameWork /\ Records' = Records
  BY <1>1, NoTaskSteps DEF Records
<1>3. /\ said \in [Loggers -> Nat] /\ out \in Seq(Messages)
  BY DEF MessageInd, MessageTypeOK
<1>4. /\ said' \in [Loggers -> Nat] /\ said'[l] = said[l] + 1
      /\ \A k \in Loggers \ {l} : said'[k] = said[k]
  BY <1>1, <1>3
<1>5. Waiting' = Waiting /\ Echoing' = Echoing /\ Written' = Written
  BY <1>1, <1>2 DEF SameWork, Waiting, Echoing, Written
<1>6. /\ SaidBy(l)' = SaidBy(l) + 1 /\ said'[l] = SaidBy(l) + 1
      /\ \A k \in Loggers \ {l} : SaidBy(k)' = SaidBy(k)
  BY <1>1, <1>3, <1>4 DEF SaidBy
<1>7. PICK m : m = Message(l, said'[l])
  OBVIOUS
<1>8. m \in Messages /\ Echo(m) \in Messages
  <2>1. said'[l] \in Nat
    BY <1>4
  <2>2. m \in Messages
    BY <1>7, <2>1 DEF Message, Messages
  <2> QED BY <2>2, EchoIs
<1>9. out' = out \o <<m, Echo(m)>> \/ out' = out \o <<m>>
  BY <1>7 DEF PrintDirectly
<1>10. out \o <<m>> = Append(out, m) /\ out \o <<m, Echo(m)>> = Append(Append(out, m), Echo(m))
  BY <1>3, <1>8
<1>11. out' = Append(out, m) \/ out' = Append(Append(out, m), Echo(m))
  BY <1>9, <1>10
<1>12. m = Message(l, SaidBy(l) + 1)
  BY <1>6, <1>7
<1> QED BY <1>1, <1>4, <1>5, <1>6, <1>11, <1>12, NextWritten

\* Lines 135 to 144.
LEMMA WriteMessages ==
    ASSUME LoggerAssumption, LogInd, WorkBegun, MessageInd, NEW u \in Tasks, Write(u)
    PROVE  MessageInd'
<1>1. PICK q : q = args[u]
  OBVIOUS
<1>2. /\ UNCHANGED poolVars /\ u \in running /\ step[u] = "lock" /\ out' = Append(out, text[q])
      /\ UNCHANGED <<refused, text, said, pc, task, args, nested>>
      /\ step' = [step EXCEPT ![u] = IF Echoes(text[q]) THEN "echo" ELSE "free"]
  BY <1>1 DEF Write, At
<1>3. q \in Records /\ Records' = Records
  BY <1>1, Shapes DEF Records
<1>4. Carrying(u) /\ InTask(u) /\ ~At(u, "echo") /\ ~At(u, "add") /\ ~At(u, "free")
  BY <1>2, TasksAtWork DEF Carrying, At
<1>5. q \in Waiting
  BY <1>1, <1>3, <1>4 DEF Waiting
<1>6. /\ \A k \in Loggers : task[k] # q
      /\ \A t \in Tasks : nested[t] # q
      /\ \A t \in Tasks \ {u} : args[t] = q => ~Carrying(t)
  <2>1. /\ \A k \in Loggers : task[k] # q
        /\ \A t \in Tasks : nested[t] # q
        /\ \A t \in Tasks \ {u} : args[t] = q => ~InTask(t)
    BY <1>1, <1>3, <1>4, TasksRecord
  <2> QED BY <2>1, TasksAtWork
<1>7. PICK s \in {"echo", "free"} :
        step' = [step EXCEPT ![u] = s] /\ (s = "echo" => ~text[q].echo)
  BY <1>2 DEF Echoes
<1>8. /\ Tasks' = Tasks
      /\ \A t \in Tasks \ {u} :
           /\ Carrying(t)' <=> Carrying(t)
           /\ At(t, "echo")' <=> At(t, "echo")
           /\ At(t, "add")' <=> At(t, "add")
           /\ At(t, "free")' <=> At(t, "free")
      /\ ~Carrying(u)' /\ \A a : At(u, a)' <=> s = a
  <2>1. s \in Steps
    BY <1>7 DEF Steps
  <2> QED BY <1>2, <1>7, <2>1, OneTaskSteps
<1>9. Waiting' = Waiting \ {q}
  BY <1>1, <1>2, <1>3, <1>6, <1>8 DEF Waiting
<1>10. CASE s = "echo"
  <2>1. Echoing' = Echoing \cup {q}
    BY <1>1, <1>2, <1>3, <1>8, <1>10 DEF Echoing
  <2>2. Written' \subseteq Written
    BY <1>2, <1>3, <1>8, <1>10 DEF Written
  <2> QED BY <1>2, <1>5, <1>7, <1>9, <1>10, <2>1, <2>2, MessageWritten
<1>11. CASE s = "free"
  <2>1. Echoing' = Echoing
    BY <1>2, <1>3, <1>4, <1>8, <1>11 DEF Echoing
  <2>2. Written' \subseteq Written \cup {q}
    BY <1>1, <1>2, <1>3, <1>8, <1>11 DEF Written
  <2> QED BY <1>2, <1>5, <1>9, <2>1, <2>2, MessageWritten
<1> QED BY <1>7, <1>10, <1>11

\* Lines 63 to 88, by a callback.
LEMMA EchoAllocateMessages ==
    ASSUME LoggerAssumption, LogInd, WorkBegun, MessageInd, NEW u \in Tasks, EchoAllocate(u)
    PROVE  MessageInd'
<1>1. PICK r : r = args[u]
  OBVIOUS
<1>2. /\ UNCHANGED poolVars /\ u \in running /\ step[u] = "echo"
      /\ UNCHANGED <<out, said, pc, task, args>>
  BY DEF EchoAllocate, At
<1>3. r \in Records /\ Records' = Records
  BY <1>1, Shapes DEF Records
<1>4. /\ At(u, "echo") /\ InTask(u) /\ ~Carrying(u) /\ ~At(u, "add") /\ ~At(u, "free")
      /\ nested[u] = NoRecord
  BY <1>2, TasksAtWork DEF At
<1>5. r \in Echoing
  BY <1>1, <1>3, <1>4 DEF Echoing
<1>6. \A t \in Tasks \ {u} : args[t] = r => ~At(t, "echo")
  <2>1. \A t \in Tasks \ {u} : args[t] = r => ~InTask(t)
    BY <1>1, <1>3, <1>4, TasksRecord
  <2> QED BY <2>1, TasksAtWork
<1>7. PICK s \in {"add", "free"} :
        /\ step' = [step EXCEPT ![u] = s]
        /\ \/ /\ s = "free" /\ refused' = refused \cup {Echo(text[r])}
              /\ UNCHANGED <<nested, text>>
           \/ /\ s = "add" /\ linklist # <<>> /\ nested' = [nested EXCEPT ![u] = Head(linklist)]
              /\ text' = [text EXCEPT ![Head(linklist)] = Echo(text[r])] /\ refused' = refused
  BY <1>1 DEF EchoAllocate
<1>8. /\ Tasks' = Tasks
      /\ \A t \in Tasks \ {u} :
           /\ Carrying(t)' <=> Carrying(t)
           /\ At(t, "echo")' <=> At(t, "echo")
           /\ At(t, "add")' <=> At(t, "add")
           /\ At(t, "free")' <=> At(t, "free")
      /\ ~Carrying(u)' /\ \A a : At(u, a)' <=> s = a
  <2>1. s \in Steps
    BY <1>7 DEF Steps
  <2> QED BY <1>2, <1>7, <2>1, OneTaskSteps
<1>9. Echoing' = Echoing \ {r}
  BY <1>1, <1>2, <1>3, <1>6, <1>7, <1>8 DEF Echoing
<1>10. Written' = Written \cup {r}
  BY <1>1, <1>2, <1>3, <1>4, <1>7, <1>8 DEF Written
<1>11. CASE s = "free"
  <2>1. refused' = refused \cup {Echo(text[r])} /\ UNCHANGED <<nested, text>>
    BY <1>7, <1>11
  <2>2. \A p \in Records : (\E t \in Tasks : args[t] = p /\ Carrying(t)')
                             <=> (\E t \in Tasks : args[t] = p /\ Carrying(t))
    BY <1>4, <1>8
  <2>3. Waiting' = Waiting
    BY <1>2, <1>3, <1>8, <2>1, <2>2 DEF Waiting
  <2> QED BY <1>2, <1>5, <1>9, <1>10, <2>1, <2>3, EchoLost
<1>12. CASE s = "add"
  <2>1. PICK q : q = Head(linklist)
    OBVIOUS
  <2>2. /\ linklist # <<>> /\ nested' = [nested EXCEPT ![u] = q]
        /\ text' = [text EXCEPT ![q] = Echo(text[r])] /\ refused' = refused
    BY <1>7, <1>12, <2>1
  <2>3. /\ q \in Records /\ \A k \in Loggers : task[k] # q
        /\ \A t \in Tasks : nested[t] # q
        /\ \A t \in Tasks : args[t] = q => ~InTask(t)
    BY <2>1, <2>2, FreeRecord
  <2>4. q \notin Waiting \cup Echoing \cup Written
    BY <2>3, TasksAtWork DEF Waiting, Echoing, Written
  <2>5. nested \in [Tasks -> Records \cup {NoRecord}] /\ NoRecord \notin Records
    BY Shapes DEF LoggerAssumption
  <2>6. \A t \in Tasks : nested'[t] = IF t = u THEN q ELSE nested[t]
    BY <2>2, <2>5
  <2>7. \A p \in Records : (\E t \in Tasks : nested'[t] = p)
                             <=> (\E t \in Tasks : nested[t] = p) \/ p = q
    BY <1>4, <2>5, <2>6
  <2>8. \A p \in Records : (\E t \in Tasks : args[t] = p /\ Carrying(t)')
                             <=> (\E t \in Tasks : args[t] = p /\ Carrying(t))
    BY <1>4, <1>8
  <2>9. Waiting' = Waiting \cup {q}
    BY <1>2, <1>3, <1>8, <2>3, <2>7, <2>8 DEF Waiting
  <2> QED BY <1>2, <1>5, <1>9, <1>10, <2>2, <2>3, <2>4, <2>9, EchoWaits
<1> QED BY <1>7, <1>11, <1>12

\* Line 90, by a callback.
LEMMA EchoAddMessages ==
    ASSUME LoggerAssumption, LogInd, MessageInd, NEW u \in Tasks, EchoAdd(u)
    PROVE  MessageInd'
<1>1. PICK q : q = nested[u]
  OBVIOUS
<1>2. /\ Pool!Accept(1) /\ args' = Append(args, q) /\ u \in running /\ step[u] = "add"
      /\ nested' = Append([nested EXCEPT ![u] = NoRecord], NoRecord)
      /\ step' = Append([step EXCEPT ![u] = "free"], "lock")
      /\ UNCHANGED <<out, refused, said, text, pc, task>>
  BY <1>1 DEF EchoAdd, At
<1>3. /\ total \in Nat /\ NoRecord \notin Records
      /\ args \in Seq(Records) /\ Len(args) = total
      /\ nested \in Seq(Records \cup {NoRecord}) /\ Len(nested) = total
      /\ step \in Seq(Steps) /\ Len(step) = total /\ Records' = Records
  BY DEF LogInd, PoolTypeOK, TaskTypeOK, LoggerAssumption, Records
<1>4. q \in Records
  <2>1. nested[u] \in Records \cup {NoRecord}
    BY Shapes
  <2> QED BY <1>1, <1>2, <2>1 DEF LogInd, RecordsInUse
<1>5. PICK n : n = total + 1
  OBVIOUS
<1>6. /\ args'[n] = q /\ \A t \in Tasks : args'[t] = args[t]
  BY <1>2, <1>3, <1>4, <1>5, LastOfAppended DEF Tasks
<1>7. /\ nested'[n] = NoRecord
      /\ \A t \in Tasks : nested'[t] = IF t = u THEN NoRecord ELSE nested[t]
  <2>1. PICK given : given = [nested EXCEPT ![u] = NoRecord]
    OBVIOUS
  <2>2. given \in Seq(Records \cup {NoRecord}) /\ Len(given) = total
    BY <1>3, <2>1 DEF Tasks
  <2>3. \A t \in Tasks : given[t] = IF t = u THEN NoRecord ELSE nested[t]
    BY <1>3, <2>1 DEF Tasks
  <2>4. nested' = Append(given, NoRecord)
    BY <1>2, <2>1
  <2>5. nested'[n] = NoRecord /\ \A t \in Tasks : nested'[t] = given[t]
    <3>1. NoRecord \in Records \cup {NoRecord}
      OBVIOUS
    <3> QED BY <1>5, <2>2, <2>4, <3>1, LastOfAppended DEF Tasks
  <2> QED BY <2>3, <2>5
<1>8. /\ step'[n] = "lock"
      /\ \A t \in Tasks : step'[t] = IF t = u THEN "free" ELSE step[t]
  <2>1. PICK given : given = [step EXCEPT ![u] = "free"]
    OBVIOUS
  <2>2. given \in Seq(Steps) /\ Len(given) = total
    BY <1>3, <2>1 DEF Tasks, Steps
  <2>3. \A t \in Tasks : given[t] = IF t = u THEN "free" ELSE step[t]
    BY <1>3, <2>1 DEF Tasks
  <2>4. step' = Append(given, "lock")
    BY <1>2, <2>1
  <2>5. step'[n] = "lock" /\ \A t \in Tasks : step'[t] = given[t]
    <3>1. "lock" \in Steps
      BY DEF Steps
    <3> QED BY <1>5, <2>2, <2>4, <3>1, LastOfAppended DEF Tasks
  <2> QED BY <2>3, <2>5
<1>9. /\ Tasks' = Tasks \cup {n} /\ n \notin Tasks /\ Carrying(n)'
      /\ \A s \in {"echo", "add", "free"} : ~At(n, s)'
      /\ \A t \in Tasks :
           /\ Carrying(t)' <=> Carrying(t)
           /\ At(t, "echo")' <=> At(t, "echo")
           /\ At(t, "add") \/ At(t, "free") <=> At(t, "add")' \/ At(t, "free")'
  BY <1>2, <1>5, <1>8, OneTaskComes
<1>10. Echoing' = Echoing /\ Written' = Written
  BY <1>3, <1>6, <1>9 DEF Echoing, Written
<1>11. Waiting' = Waiting
  <2>1. \A r \in Records :
            (\E t \in Tasks : nested[t] = r) <=> (\E t \in Tasks' : nested'[t] = r) \/ r = q
    BY <1>1, <1>3, <1>7, <1>9
  <2>2. \A r \in Records :
            (\E t \in Tasks' : args'[t] = r /\ Carrying(t)')
                <=> (\E t \in Tasks : args[t] = r /\ Carrying(t)) \/ r = q
    BY <1>6, <1>9
  <2> QED BY <1>2, <1>3, <2>1, <2>2 DEF Waiting
<1>12. /\ UNCHANGED <<out, refused>> /\ said' \in [Loggers -> Nat]
       /\ text' \in [Records -> Messages \cup {NoRecord}]
       /\ \A r \in Waiting \cup Echoing \cup Written : text'[r] = text[r]
       /\ \A k \in Loggers : SaidBy(k)' = SaidBy(k)
  BY <1>2 DEF MessageInd, MessageTypeOK, SaidBy
<1> QED BY <1>10, <1>11, <1>12, MessagesMove

\* Lines 90 to 94, by a callback.
LEMMA EchoFailsMessages ==
    ASSUME LoggerAssumption, LogInd, WorkBegun, MessageInd, NEW u \in Tasks, EchoFails(u)
    PROVE  MessageInd'
<1>1. PICK q : q = nested[u]
  OBVIOUS
<1>2. /\ UNCHANGED poolVars /\ u \in running /\ step[u] = "add"
      /\ nested' = [nested EXCEPT ![u] = NoRecord] /\ refused' = refused \cup {text[q]}
      /\ step' = [step EXCEPT ![u] = "free"] /\ UNCHANGED <<out, text, said, pc, task, args>>
  BY <1>1 DEF EchoFails, At
<1>3. /\ nested \in [Tasks -> Records \cup {NoRecord}] /\ NoRecord \notin Records
      /\ Records' = Records
  BY Shapes DEF LoggerAssumption, Records
<1>4. q \in Records
  BY <1>1, <1>2, <1>3 DEF LogInd, RecordsInUse
<1>5. /\ Tasks' = Tasks
      /\ \A t \in Tasks \ {u} :
           /\ Carrying(t)' <=> Carrying(t)
           /\ At(t, "echo")' <=> At(t, "echo")
           /\ At(t, "add")' <=> At(t, "add")
           /\ At(t, "free")' <=> At(t, "free")
      /\ ~Carrying(u)' /\ \A a : At(u, a)' <=> a = "free"
  <2>1. "free" \in Steps
    BY DEF Steps
  <2> QED BY <1>2, <2>1, OneTaskSteps
<1>6. At(u, "add") /\ ~Carrying(u) /\ ~At(u, "echo")
  BY <1>2, TasksAtWork DEF At
<1>7. Echoing' = Echoing /\ Written' \subseteq Written
  BY <1>2, <1>3, <1>5, <1>6 DEF Echoing, Written
<1>8. /\ \A k \in Loggers : task[k] # q
      /\ \A t \in Tasks \ {u} : nested[t] # q
      /\ \A t \in Tasks : args[t] = q => ~Carrying(t)
  <2>1. /\ \A k \in Loggers : task[k] # q
        /\ \A t \in Tasks \ {u} : nested[t] # q
        /\ \A t \in Tasks : args[t] = q => ~InTask(t)
    BY <1>1, <1>4, CallbacksRecord
  <2> QED BY <2>1, TasksAtWork
<1>9. q \in Waiting
  BY <1>1, <1>4 DEF Waiting
<1>10. Waiting' = Waiting \ {q}
  <2>1. \A t \in Tasks : nested'[t] = IF t = u THEN NoRecord ELSE nested[t]
    BY <1>2, <1>3
  <2>2. \A r \in Records :
            (\E t \in Tasks : nested'[t] = r) <=> (\E t \in Tasks : nested[t] = r) /\ r # q
    BY <1>1, <1>3, <1>8, <2>1
  <2>3. \A r \in Records : (\E t \in Tasks : args[t] = r /\ Carrying(t)')
                             <=> (\E t \in Tasks : args[t] = r /\ Carrying(t))
    BY <1>5, <1>6
  <2> QED BY <1>2, <1>3, <1>5, <1>8, <2>2, <2>3 DEF Waiting
<1>11. refused' = refused \cup {text[r] : r \in Waiting \ Waiting'}
  BY <1>2, <1>9, <1>10
<1>12. \A l \in Loggers : SaidBy(l)' = SaidBy(l)
  BY <1>2 DEF SaidBy
<1> QED BY <1>2, <1>7, <1>10, <1>11, <1>12, MessagesRefused

\* Lines 145 and 146.
LEMMA FreeMessages ==
    ASSUME LogInd, MessageInd, NEW u \in Tasks, Free(u)
    PROVE  MessageInd'
<1>1. /\ UNCHANGED poolVars /\ u \in running /\ step[u] = "free"
      /\ step' = [step EXCEPT ![u] = "done"]
      /\ UNCHANGED <<out, refused, text, said, pc, task, args, nested>> /\ Records' = Records
  BY DEF Free, At, Records
<1>2. /\ Tasks' = Tasks
      /\ \A t \in Tasks \ {u} :
           /\ Carrying(t)' <=> Carrying(t)
           /\ At(t, "echo")' <=> At(t, "echo")
           /\ At(t, "add")' <=> At(t, "add")
           /\ At(t, "free")' <=> At(t, "free")
      /\ ~Carrying(u)' /\ \A a : At(u, a)' <=> a = "done"
  <2>1. "done" \in Steps
    BY DEF Steps
  <2> QED BY <1>1, <2>1, OneTaskSteps
<1>3. At(u, "free") /\ ~Carrying(u) /\ ~At(u, "echo")
  BY <1>1, TasksAtWork DEF At
<1>4. Waiting' = Waiting /\ Echoing' = Echoing
  <2>1. \A t \in Tasks : (Carrying(t)' <=> Carrying(t)) /\ (At(t, "echo")' <=> At(t, "echo"))
    BY <1>2, <1>3
  <2> QED BY <1>1, <1>2, <2>1 DEF Waiting, Echoing
<1>5. Written' \subseteq Written
  BY <1>1, <1>2 DEF Written
<1>6. /\ said' \in [Loggers -> Nat] /\ text' \in [Records -> Messages \cup {NoRecord}]
      /\ \A r \in Waiting \cup Echoing \cup Written : text'[r] = text[r]
      /\ \A k \in Loggers : SaidBy(k)' = SaidBy(k)
  BY <1>1 DEF MessageInd, MessageTypeOK, SaidBy
<1> QED BY <1>1, <1>4, <1>5, <1>6, MessagesMove

-----------------------------------------------------------------------------
(* The messages in all steps *)

\* A step of the pool keeps what is said of the tasks that have begun.
LEMMA PoolStepBegun ==
    ASSUME WorkBegun, SameWork, UNCHANGED <<logVars, total>>, lives' = lives,
           ~pool' => running' = {} /\ pending' = <<>>
    PROVE  WorkBegun'
<1>1. \A t \in Tasks : step'[t] = step[t]
  BY DEF logVars
<1>2. ASSUME NEW t \in Tasks', step'[t] \in {"echo", "add", "free"} PROVE t \in running'
  <2>1. t \in Tasks /\ t \in running /\ At(t, step[t])
    BY <1>1, <1>2 DEF WorkBegun, SameWork, At
  <2>2. At(t, step[t])'
    BY <1>1, <1>2, <2>1 DEF SameWork, At
  <2> QED BY <2>2 DEF At
<1> QED BY <1>2 DEF WorkBegun, logVars

\* async_log_init begins with no task at all.
LEMMA InitLogBegun ==
    ASSUME LogInd, InitLog
    PROVE  WorkBegun'
<1>1. lives' = lives + 1 /\ running' = {} /\ pending' = <<>> /\ total' = 0
  BY DEF InitLog
<1>2. Tasks' = {} /\ lives' # 0
  BY <1>1 DEF Tasks, LogInd, LogTypeOK
<1> QED BY <1>1, <1>2 DEF WorkBegun

\* The steps of the loggers keep it too,
LEMMA LogPrintBegun ==
    ASSUME LoggerAssumption, LogInd, WorkBegun, NEW l \in Loggers, LogPrint(l)
    PROVE  WorkBegun'
<1>1. /\ task \in [Loggers -> Records \cup {NoRecord}] /\ NoRecord \notin Records
      /\ lives = 0 => ~pool
  BY DEF LogInd, LogTypeOK, NotBegun, LoggerAssumption
<1>2. CASE Allocate(l)
  <2>1. /\ UNCHANGED poolVars /\ UNCHANGED <<total, pending, running>>
        /\ UNCHANGED <<pool, lives, step>> /\ pool
    BY <1>2 DEF Allocate, poolVars
  <2>2. Tasks' = Tasks
    BY <2>1 DEF Tasks
  <2> QED BY <1>1, <2>1, <2>2 DEF WorkBegun
<1>3. CASE Fill(l) \/ PrintDirectly(l)
  <2>1. UNCHANGED <<total, pending, running>> /\ UNCHANGED <<pool, lives, step, task>>
    BY <1>3 DEF Fill, PrintDirectly, poolVars
  <2>2. Tasks' = Tasks
    BY <2>1 DEF Tasks
  <2> QED BY <2>1, <2>2 DEF WorkBegun
<1>4. CASE Add(l)
  <2>1. /\ Pool!Accept(1) /\ step' = Append(step, "lock") /\ pool /\ UNCHANGED <<pool, lives>>
    BY <1>4 DEF Add, Send
  <2>2. Tasks' = Tasks \cup {total + 1} /\ running' = running
    BY <2>1, TaskAccepted
  <2>3. step \in Seq(Steps) /\ Len(step) = total /\ total \in Nat
    BY DEF LogInd, TaskTypeOK, PoolTypeOK
  <2>4. step'[total + 1] = "lock" /\ \A t \in Tasks : step'[t] = step[t]
    BY <2>1, <2>3 DEF Tasks
  <2>5. \A t \in Tasks' : step'[t] \in {"echo", "add", "free"} => t \in running'
    BY <2>2, <2>4 DEF WorkBegun
  <2> QED BY <1>1, <2>1, <2>5 DEF WorkBegun
<1>5. CASE AddFails(l)
  <2>1. /\ UNCHANGED <<total, pending, running>> /\ UNCHANGED <<pool, lives, step>>
        /\ task' = [task EXCEPT ![l] = NoRecord]
    BY <1>5 DEF AddFails, poolVars
  <2>2. Tasks' = Tasks
    BY <2>1 DEF Tasks
  <2> QED BY <1>1, <2>1, <2>2 DEF WorkBegun
<1> QED BY <1>2, <1>3, <1>4, <1>5 DEF LogPrint

\* and so do those of the tasks.
LEMMA WorkStaysBegun ==
    ASSUME LogInd, WorkBegun, NEW u \in Tasks, Work(u) \/ EchoFails(u)
    PROVE  WorkBegun'
<1>1. CASE Return(u)
  <2>1. SameWork /\ UNCHANGED <<logVars, total, pool, pending>> /\ lives' = lives
    BY <1>1, ReturnInd DEF Return, Pool!Finish
  <2>2. ~pool' => running' = {} /\ pending' = <<>>
    BY <1>1, <2>1 DEF Return, At, WorkBegun
  <2> QED BY <2>1, <2>2, PoolStepBegun
<1>2. CASE EchoAdd(u)
  <2>1. /\ Pool!Accept(1) /\ step' = Append([step EXCEPT ![u] = "free"], "lock") /\ u \in running
        /\ UNCHANGED <<pool, lives, task>>
    BY <1>2 DEF EchoAdd, At
  <2>2. Tasks' = Tasks \cup {total + 1} /\ running' = running
    BY <2>1, TaskAccepted
  <2>3. step \in Seq(Steps) /\ Len(step) = total /\ total \in Nat
    BY DEF LogInd, TaskTypeOK, PoolTypeOK
  <2>4. PICK given : given = [step EXCEPT ![u] = "free"]
    OBVIOUS
  <2>5. given \in Seq(Steps) /\ Len(given) = total
    BY <2>3, <2>4 DEF Tasks, Steps
  <2>6. \A t \in Tasks : given[t] = IF t = u THEN "free" ELSE step[t]
    BY <2>3, <2>4 DEF Tasks
  <2>7. step'[total + 1] = "lock" /\ \A t \in Tasks : step'[t] = given[t]
    BY <2>1, <2>3, <2>4, <2>5 DEF Tasks
  <2>8. \A t \in Tasks' : step'[t] \in {"echo", "add", "free"} => t \in running'
    BY <2>1, <2>2, <2>6, <2>7 DEF WorkBegun
  <2>9. pool /\ lives # 0
    BY <2>1 DEF WorkBegun, LogInd, NotBegun
  <2> QED BY <2>1, <2>8, <2>9 DEF WorkBegun
<1>3. CASE Write(u) \/ EchoAllocate(u) \/ EchoFails(u) \/ Free(u)
  <2>1. /\ UNCHANGED <<total, pending, running>> /\ UNCHANGED <<pool, lives, task>> /\ u \in running
        /\ \E s \in Steps : step' = [step EXCEPT ![u] = s]
    BY <1>3 DEF Write, EchoAllocate, EchoFails, Free, At, poolVars, Steps
  <2>2. Tasks' = Tasks /\ step \in [Tasks -> Steps]
    BY <2>1, Shapes DEF Tasks
  <2>3. \A t \in Tasks \ {u} : step'[t] = step[t]
    BY <2>1, <2>2
  <2> QED BY <2>1, <2>2, <2>3 DEF WorkBegun
<1> QED BY <1>1, <1>2, <1>3 DEF Work, EchoRefused

\* Before the first message there is none.
LEMMA MessageInitInd ==
    ASSUME Init
    PROVE  WorkBegun /\ MessageInd
<1>1. /\ total = 0 /\ running = {} /\ pending = <<>> /\ text = [r \in Records |-> NoRecord]
      /\ pc = [l \in Loggers |-> "out"] /\ task = [l \in Loggers |-> NoRecord]
      /\ said = [l \in Loggers |-> 0] /\ out = <<>> /\ refused = {}
  BY DEF Init, Pool!Init
<1>2. Tasks = {} /\ Waiting = {} /\ Echoing = {} /\ Written = {}
  <2>1. Tasks = {}
    BY <1>1 DEF Tasks
  <2> QED BY <1>1, <2>1 DEF Waiting, Echoing, Written
<1>3. Lines = {} /\ Spoken = {}
  BY <1>1, <1>2 DEF Lines, Spoken
<1>4. \A l \in Loggers : SaidBy(l) = 0
  BY <1>1 DEF SaidBy
<1>5. MessageTypeOK
  <2>1. said \in [Loggers -> Nat] /\ text \in [Records -> Messages \cup {NoRecord}]
    BY <1>1
  <2>2. out \in Seq(Messages) /\ refused \subseteq Messages
    BY <1>1
  <2>3. \A l \in Loggers : SaidBy(l) \in Nat
    BY <1>4
  <2> QED BY <1>2, <2>1, <2>2, <2>3 DEF MessageTypeOK
<1>6. WrittenOnce /\ EchoesNew
  BY <1>1, <1>2, <1>3 DEF WrittenOnce, EchoesNew
<1>7. SaidSpoken
  BY <1>3, <1>4 DEF SaidSpoken
<1>8. WorkBegun
  BY <1>1, <1>2 DEF WorkBegun
<1> QED BY <1>5, <1>6, <1>7, <1>8 DEF MessageInd

\* Every step keeps what is said of the messages.
LEMMA MessageNextInd ==
    ASSUME LoggerAssumption, LogInd, WorkBegun, MessageInd, [Next]_vars
    PROVE  WorkBegun' /\ MessageInd'
<1>1. CASE InitLog
  BY <1>1, InitLogBegun, InitLogMessages
<1>2. CASE ExitLog \/ CleanDropped \/ Exited \/ StartTask \/ UNCHANGED vars
  <2>1. SameWork
    <3>1. CASE UNCHANGED vars
      BY <3>1, NoTaskSteps DEF vars, logVars
    <3> QED BY <1>2, <3>1, ExitLogInd, CleanDroppedInd, ExitedInd, StartTaskInd
  <2>2. UNCHANGED <<logVars, total>> /\ UNCHANGED logVars /\ lives' = lives
    BY <1>2 DEF ExitLog, CleanDropped, Exited, StartTask, Pool!Close, Pool!Clean, Pool!Vanish,
                Pool!Start, vars, poolVars
  <2>3. ~pool' => running' = {} /\ pending' = <<>>
    <3>1. CASE ExitLog
      BY <3>1 DEF ExitLog, WorkBegun
    <3>2. CASE CleanDropped
      BY <3>2 DEF CleanDropped, Pool!Clean, WorkBegun
    <3>3. CASE Exited
      BY <3>3 DEF Exited, Pool!Vanish, Pool!Settled
    <3>4. CASE StartTask
      BY <3>4 DEF StartTask, Pool!Start, WorkBegun
    <3>5. CASE UNCHANGED vars
      BY <3>5 DEF vars, poolVars, WorkBegun
    <3> QED BY <1>2, <3>1, <3>2, <3>3, <3>4, <3>5
  <2> QED BY <2>1, <2>2, <2>3, PoolStepBegun, PoolStepMessages
<1>3. ASSUME NEW l \in Loggers, LogPrint(l) PROVE WorkBegun' /\ MessageInd'
  <2>1. MessageInd'
    BY <1>3, AllocateMessages, FillMessages, AddMessages, AddFailsMessages, PrintDirectlyMessages
       DEF LogPrint
  <2> QED BY <1>3, <2>1, LogPrintBegun
<1>4. ASSUME NEW u \in Tasks, Work(u) \/ EchoFails(u) PROVE WorkBegun' /\ MessageInd'
  <2>1. CASE Return(u)
    <3>1. SameWork /\ UNCHANGED logVars
      BY <2>1, ReturnInd DEF Return
    <3> QED BY <1>4, <3>1, PoolStepMessages, WorkStaysBegun
  <2>2. CASE ~Return(u)
    <3>1. MessageInd'
      BY <1>4, <2>2, WriteMessages, EchoAllocateMessages, EchoAddMessages, EchoFailsMessages,
         FreeMessages DEF Work, EchoRefused
    <3> QED BY <1>4, <3>1, WorkStaysBegun
  <2> QED BY <2>1, <2>2
<1> QED BY <1>1, <1>2, <1>3, <1>4 DEF Next

\* What the invariant implies.
LEMMA MessageIndHolds ==
    ASSUME LoggerAssumption, LogInd, MessageInd
    PROVE  MessagesAccountedFor
<1> DEFINE lost == {text[args[t]] : t \in Discarded}
           carried == {text[r] : r \in Waiting}
<1>1. InFlight \subseteq carried
  <2>1. ASSUME NEW t \in Tasks, t \in Queued \/ At(t, "lock") PROVE text[args[t]] \in carried
    BY <2>1, Shapes DEF Waiting, Carrying
  <2>2. ASSUME NEW l \in Loggers, pc[l] = "add" PROVE text[task[l]] \in carried
    <3>1. task[l] \in Records
      BY <2>2 DEF LogInd, LogTypeOK, RecordsInUse
    <3> QED BY <2>2, <3>1 DEF Waiting
  <2>3. ASSUME NEW t \in Tasks, nested[t] # NoRecord PROVE text[nested[t]] \in carried
    <3>1. nested[t] \in Records
      BY <2>3, Shapes
    <3> QED BY <3>1 DEF Waiting
  <2> HIDE DEF carried
  <2> QED BY <2>1, <2>2, <2>3 DEF InFlight
<1>2. carried \subseteq InFlight \cup lost
  <2> SUFFICES ASSUME NEW r \in Waiting PROVE text[r] \in InFlight \cup lost
    OBVIOUS
  <2>1. ASSUME NEW l \in Loggers, pc[l] = "add", task[l] = r PROVE text[r] \in InFlight
    BY <2>1 DEF InFlight
  <2>2. ASSUME NEW t \in Tasks, nested[t] = r PROVE text[r] \in InFlight
    <3>1. nested[t] # NoRecord
      BY <2>2 DEF Waiting, LoggerAssumption
    <3> QED BY <2>2, <3>1 DEF InFlight
  <2>3. ASSUME NEW t \in Tasks, args[t] = r, Carrying(t) PROVE text[r] \in InFlight \cup lost
    <3>1. CASE t \in Discarded
      BY <2>3, <3>1
    <3>2. CASE t \in Queued \/ At(t, "lock")
      BY <2>3, <3>2 DEF InFlight
    <3> QED BY <2>3, <3>1, <3>2 DEF Carrying
  <2> QED BY <2>1, <2>2, <2>3 DEF Waiting
<1>3. \A i \in DOMAIN out : out[i] \notin InFlight \cup refused
  <2>1. \A i \in DOMAIN out : out[i] \in Lines
    BY DEF Lines
  <2>2. \A k \in carried : k \notin Lines
    BY DEF MessageInd, WrittenOnce
  <2>3. \A k \in refused : k \notin Lines
    BY DEF MessageInd, WrittenOnce
  <2> HIDE DEF carried
  <2> QED BY <1>1, <2>1, <2>2, <2>3
<1>4. ASSUME NEW l \in Loggers, NEW n \in 1 .. MaxMessages, n <= SaidBy(l)
      PROVE  \/ \E i \in DOMAIN out : out[i] = Message(l, n)
             \/ Message(l, n) \in InFlight \cup refused
             \/ \E t \in Discarded : text[args[t]] = Message(l, n)
  <2>1. n \in 1 .. SaidBy(l)
    BY <1>4 DEF MessageInd, MessageTypeOK
  <2>2. Message(l, n) \in Spoken
    BY <2>1 DEF MessageInd, SaidSpoken
  <2> DEFINE m == Message(l, n)
  <2>3. m \in Lines \cup refused \cup carried
    BY <2>2 DEF Spoken
  <2> HIDE DEF m, carried
  <2>4. m \in Lines \cup refused \cup InFlight \cup lost
    BY <1>2, <2>3
  <2>5. \/ \E i \in DOMAIN out : out[i] = m
        \/ m \in InFlight \cup refused
        \/ \E t \in Discarded : text[args[t]] = m
    BY <2>4 DEF Lines
  <2> QED BY <2>5 DEF m
<1>5. \A i, j \in DOMAIN out : out[i] = out[j] => i = j
  BY DEF MessageInd, WrittenOnce
<1> QED BY <1>3, <1>4, <1>5 DEF MessagesAccountedFor, SaidBy

\* A message that was logged is written, once and as it was said, or is carried by its record,
\* or was refused at the call, or lost its task in an exit that drops; the message a callback
\* logs about another is counted with it.  This holds for any number of loggers,
\* messages, records and lives of the logger.
THEOREM MessagesAreAccountedFor ==
    ASSUME LoggerAssumption
    PROVE  Spec => []MessagesAccountedFor
<1>1. Init => LogInd /\ WorkBegun /\ MessageInd
  BY LogInitInd, MessageInitInd
<1>2. LogInd /\ WorkBegun /\ MessageInd /\ [Next]_vars => (LogInd /\ WorkBegun /\ MessageInd)'
  BY LogNextInd, MessageNextInd
<1>3. LogInd /\ WorkBegun /\ MessageInd => MessagesAccountedFor
  BY MessageIndHolds
<1> QED BY <1>1, <1>2, <1>3, PTL DEF Spec
=============================================================================
