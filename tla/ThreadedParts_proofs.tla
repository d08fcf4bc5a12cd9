------------------------ MODULE ThreadedParts_proofs ------------------------
(***************************************************************************)
(* What the run of ThreadedParts checks of the asynchronous logger, the    *)
(* mutex and the condition variable of Windows, for any number of threads. *)
(*                                                                         *)
(* The condition variable has a mutex of its own, of the same kind: what   *)
(* is proved about locking and unlocking is said of any set of threads.    *)
(***************************************************************************)
EXTENDS ThreadedParts, FiniteSetTheorems, TLAPS

AsyncPart == INSTANCE AsyncLog_proofs

-----------------------------------------------------------------------------
(* The mutex of Windows, of the threads T *)

MutexTypeOK(T) ==
    /\ recursive \in BOOLEAN /\ status \in BOOLEAN
    /\ owner \in T \cup {NoOne} /\ depth \in Nat
    /\ asleep \subseteq T /\ held \in [T -> Nat]

\* The owner of the critical section holds the mutex, as often as it has entered; once
\* more if it sleeps in mutex_lock.
OwnerHolds(T) ==
    /\ \A t \in T : t # owner => held[t] = 0 /\ t \notin asleep
    /\ owner = NoOne => depth = 0
    /\ owner # NoOne =>
          /\ held[owner] > 0
          /\ depth = held[owner] + (IF owner \in asleep THEN 1 ELSE 0)

\* The flag of a mutex that is not recursive says whether it has an owner; a recursive one
\* never sets it, and nobody sleeps on it.
FlagTellsOwned(T) ==
    /\ recursive => ~status /\ asleep = {}
    /\ ~recursive => (status <=> owner # NoOne) /\ \A t \in T : held[t] <= 1

MutexInd(T) == MutexTypeOK(T) /\ OwnerHolds(T) /\ FlagTellsOwned(T)

\* mutex_create establishes the invariant.
LEMMA MutexInitInd ==
    ASSUME NEW T, NoOne \notin T, recursive \in BOOLEAN, owner = NoOne, depth = 0,
           status = FALSE, asleep = {}, held = [t \in T |-> 0]
    PROVE  MutexInd(T)
<1>1. MutexTypeOK(T)
  <2>1. held \in [T -> Nat] /\ depth \in Nat /\ asleep \subseteq T
    OBVIOUS
  <2> QED BY <2>1 DEF MutexTypeOK
<1>2. OwnerHolds(T)
  BY DEF OwnerHolds
<1>3. FlagTellsOwned(T)
  <2>1. \A t \in T : held[t] <= 1
    OBVIOUS
  <2> QED BY <2>1, Zenon DEF FlagTellsOwned
<1> QED BY <1>1, <1>2, <1>3 DEF MutexInd

\* So does everything that a thread which enters the mutex does.
LEMMA MutexTaken ==
    ASSUME NEW T, NoOne \notin T, MutexInd(T), NEW t \in T, Mutex!Running(t), Mutex!Enter(t),
           ~Mutex!Refused, Mutex!Taken(t), UNCHANGED recursive
    PROVE  MutexInd(T)'
<1> USE DEF MutexInd, MutexTypeOK
<1>1. owner \in {NoOne, t} /\ owner' = t /\ depth' = depth + 1
  BY DEF Mutex!Enter, Mutex!MayEnter
<1>2. held' = [held EXCEPT ![t] = @ + 1] /\ asleep' = asleep /\ status' = (status \/ ~recursive)
  BY DEF Mutex!Taken
<1>3. MutexTypeOK(T)'
  BY <1>1, <1>2
<1>4. OwnerHolds(T)'
  BY <1>1, <1>2 DEF OwnerHolds, Mutex!Running
<1>5. FlagTellsOwned(T)'
  <2>1. CASE recursive
    BY <1>1, <1>2, <2>1 DEF FlagTellsOwned
  <2>2. CASE ~recursive
    <3>1. owner = NoOne
      BY <2>2 DEF FlagTellsOwned, Mutex!Refused
    <3>2. \A u \in T : held'[u] <= 1
      BY <1>2, <3>1 DEF OwnerHolds
    <3> QED BY <1>1, <1>2, <2>2, <3>2, Zenon DEF FlagTellsOwned
  <2> QED BY <2>1, <2>2
<1> QED BY <1>3, <1>4, <1>5

\* mutex_lock
LEMMA LockInd ==
    ASSUME NEW T, NoOne \notin T, MutexInd(T), NEW t \in T, Mutex!Running(t), Mutex!Enter(t),
           IF Mutex!Refused THEN asleep' = asleep \cup {t} /\ UNCHANGED <<status, held>>
           ELSE Mutex!Taken(t),
           UNCHANGED recursive
    PROVE  MutexInd(T)'
<1> USE DEF MutexInd, MutexTypeOK
<1>1. CASE Mutex!Refused
  <2>1. /\ owner = t /\ owner' = t /\ depth' = depth + 1 /\ asleep' = asleep \cup {t}
        /\ UNCHANGED <<status, held, recursive>>
    BY <1>1 DEF Mutex!Enter, Mutex!MayEnter, Mutex!Refused, FlagTellsOwned
  <2>2. OwnerHolds(T)'
    BY <1>1, <2>1 DEF OwnerHolds, Mutex!Running
  <2>3. FlagTellsOwned(T)'
    BY <1>1, <2>1 DEF FlagTellsOwned, Mutex!Refused
  <2> QED BY <2>1, <2>2, <2>3
<1>2. CASE ~Mutex!Refused
  BY <1>2, MutexTaken
<1> QED BY <1>1, <1>2

\* mutex_unlock
LEMMA UnlockInd ==
    ASSUME NEW T, NoOne \notin T, MutexInd(T), NEW t \in T, Mutex!Unlock(t)
    PROVE  MutexInd(T)'
<1> USE DEF MutexInd, MutexTypeOK
<1>1. /\ owner = t /\ t \notin asleep /\ depth = held[t] /\ held[t] > 0
      /\ status' = FALSE /\ depth' = depth - 1
      /\ owner' = (IF depth = 1 THEN NoOne ELSE owner)
      /\ held' = [held EXCEPT ![t] = @ - 1] /\ UNCHANGED <<recursive, asleep>>
  BY DEF Mutex!Unlock, Mutex!Leave, OwnerHolds, Mutex!Running
<1>2. OwnerHolds(T)'
  BY <1>1 DEF OwnerHolds
<1>3. FlagTellsOwned(T)'
  BY <1>1 DEF FlagTellsOwned
<1>4. MutexTypeOK(T)'
  <2>1. depth' \in Nat /\ held' \in [T -> Nat]
    BY <1>1
  <2> QED BY <1>1, <2>1
<1> QED BY <1>2, <1>3, <1>4

\* A step of others leaves it alone.
LEMMA MutexUntouched ==
    ASSUME NEW T, MutexInd(T), UNCHANGED mutexVars
    PROVE  MutexInd(T)'
BY DEF mutexVars, MutexInd, MutexTypeOK, OwnerHolds, FlagTellsOwned

\* Every operation of the mutex by itself preserves the invariant.
LEMMA MutexStepInd ==
    ASSUME NoOne \notin Lockers, MutexInd(Lockers), Mutex!Next \/ UNCHANGED mutexVars
    PROVE  MutexInd(Lockers)'
<1>1. ASSUME NEW t \in Lockers, Mutex!Lock(t) PROVE MutexInd(Lockers)'
  BY <1>1, LockInd DEF Mutex!Lock
<1>2. ASSUME NEW t \in Lockers, Mutex!TryLock(t) PROVE MutexInd(Lockers)'
  <2>1. CASE ~Mutex!MayEnter(t) \/ Mutex!Refused
    BY <1>2, <2>1 DEF Mutex!TryLock, MutexInd, MutexTypeOK, OwnerHolds, FlagTellsOwned
  <2>2. CASE Mutex!MayEnter(t) /\ ~Mutex!Refused
    BY <1>2, <2>2, MutexTaken DEF Mutex!TryLock
  <2> QED BY <2>1, <2>2
<1>3. ASSUME NEW t \in Lockers, Mutex!Unlock(t) PROVE MutexInd(Lockers)'
  BY <1>3, UnlockInd
<1>4. CASE UNCHANGED mutexVars
  BY <1>4, MutexUntouched
<1> QED BY <1>1, <1>2, <1>3, <1>4 DEF Mutex!Next

\* What the invariant implies: those who hold the mutex are one at most.
LEMMA OneHolder ==
    ASSUME NEW T, NoOne \notin T, MutexInd(T), NEW H, H = {t \in T : held[t] > 0}
    PROVE  /\ Cardinality(H) <= 1
           /\ ~recursive => \A t \in T : held[t] <= 1
           /\ owner = NoOne <=> H = {}
           /\ H = {} => ~status /\ depth = 0
           /\ asleep # {} => owner \in asleep /\ owner \in H
<1>1. H \subseteq {owner}
  BY DEF MutexInd, MutexTypeOK, OwnerHolds
<1>2. IsFiniteSet(H) /\ Cardinality(H) <= Cardinality({owner})
  BY <1>1, FS_Subset, FS_Singleton
<1>3. Cardinality({owner}) = 1
  BY FS_Singleton
<1>4. Cardinality(H) <= 1
  BY <1>2, <1>3
<1>5. /\ owner = NoOne <=> H = {}
      /\ H = {} => ~status /\ depth = 0
      /\ asleep # {} => owner \in asleep /\ owner \in H
  BY DEF MutexInd, MutexTypeOK, OwnerHolds, FlagTellsOwned
<1>6. ~recursive => \A t \in T : held[t] <= 1
  BY DEF MutexInd, FlagTellsOwned
<1> QED BY <1>4, <1>5, <1>6

-----------------------------------------------------------------------------
(* The condition variable of Windows *)

Places == {"out", "in", "unlock", "wait", "signalled", "broadcast", "reset", "relock",
           "notify", "set"}

CountedWaiters == {t \in Cond!Threads : at[t] \in {"unlock", "wait", "signalled", "broadcast"}}

CondTypeOK ==
    /\ recursive = FALSE /\ present \subseteq Cond!Threads
    /\ at \in [Cond!Threads -> Places] /\ waiter_count \in Nat

HeldInside == \A t \in Cond!Threads : held[t] = (IF t \in Cond!Inside THEN 1 ELSE 0)

WaitersCounted == waiter_count = Cardinality(CountedWaiters)

CondInd == MutexInd(Cond!Threads) /\ CondTypeOK /\ HeldInside /\ WaitersCounted

ThreadsFinite == Cond!ConditionAssumption /\ NoOne \notin Cond!Threads

-----------------------------------------------------------------------------
\* There are finitely many threads, and so the waiters can be counted.
LEMMA WaitersFinite ==
    ASSUME ThreadsFinite
    PROVE  IsFiniteSet(Cond!Threads) /\ IsFiniteSet(CountedWaiters)
<1>1. IsFiniteSet(Cond!Threads)
  <2>1. \A S : Cond!IsFiniteSet(S) => IsFiniteSet(S)
    BY Zenon DEF Cond!IsFiniteSet, IsFiniteSet
  <2>2. IsFiniteSet(Consumers) /\ IsFiniteSet(Producers)
    BY <2>1 DEF ThreadsFinite, Cond!ConditionAssumption
  <2> QED BY <2>2, FS_Union DEF Cond!Threads
<1> QED BY <1>1, FS_Subset DEF CountedWaiters

\* The users lock and unlock, or leave the mutex alone.
LEMMA MutexUsed ==
    ASSUME CondTypeOK, [Cond!Next]_(Cond!vars)
    PROVE  \/ UNCHANGED mutexVars
           \/ \E t \in Cond!Threads : Cond!Mutex!Lock(t) \/ Cond!Mutex!Unlock(t)
<1>1. ASSUME NEW t \in present, Cond!Step(t)
      PROVE  UNCHANGED mutexVars \/ Cond!Mutex!Lock(t) \/ Cond!Mutex!Unlock(t)
  BY <1>1 DEF Cond!Step, Cond!Wait, Cond!Counted, Cond!UnlockMutex, Cond!WokenBySignal,
     Cond!WokenByBroadcast, Cond!Uncounted, Cond!Reset, Cond!Relock, Cond!LockMutex,
     Cond!Consume, Cond!Produce, Cond!Look, Cond!SetEvent, Cond!mutexVars, mutexVars
<1>2. CASE UNCHANGED Cond!vars
  BY <1>2 DEF Cond!vars, Cond!mutexVars, mutexVars
<1> QED BY <1>1, <1>2 DEF Cond!Next, CondTypeOK

\* So the mutex keeps its own invariant.
LEMMA MutexIndKept ==
    ASSUME ThreadsFinite, CondInd, [Cond!Next]_(Cond!vars)
    PROVE  MutexInd(Cond!Threads)'
<1> DEFINE T == Cond!Threads
<1>1. NoOne \notin T /\ MutexInd(T)
  BY DEF ThreadsFinite, CondInd
<1>2. \/ UNCHANGED mutexVars
      \/ \E t \in T : Cond!Mutex!Lock(t) \/ Cond!Mutex!Unlock(t)
  BY MutexUsed DEF CondInd
<1> HIDE DEF T
<1>3. ASSUME NEW t \in T, Cond!Mutex!Lock(t) PROVE MutexInd(T)'
  <2>1. /\ Mutex!Running(t) /\ Mutex!Enter(t) /\ UNCHANGED recursive
        /\ IF Mutex!Refused THEN asleep' = asleep \cup {t} /\ UNCHANGED <<status, held>>
           ELSE Mutex!Taken(t)
    BY <1>3 DEF Cond!Mutex!Lock, Cond!Mutex!Running, Mutex!Running, Cond!Mutex!Enter,
       Mutex!Enter, Cond!Mutex!MayEnter, Mutex!MayEnter, Cond!Mutex!Refused, Mutex!Refused,
       Cond!Mutex!Taken, Mutex!Taken
  <2> QED BY <1>1, <2>1, LockInd
<1>4. ASSUME NEW t \in T, Cond!Mutex!Unlock(t) PROVE MutexInd(T)'
  <2>1. Mutex!Unlock(t)
    BY <1>4 DEF Cond!Mutex!Unlock, Mutex!Unlock, Cond!Mutex!Running, Mutex!Running,
       Cond!Mutex!Leave, Mutex!Leave
  <2> QED BY <1>1, <2>1, UnlockInd
<1>5. ASSUME UNCHANGED mutexVars PROVE MutexInd(T)'
  BY <1>1, <1>5, MutexUntouched
<1> QED BY <1>2, <1>3, <1>4, <1>5 DEF T

\* A thread that is not in a critical section never waits for a mutex of its own: the lock it
\* gets is one lock more.
LEMMA LockTakes ==
    ASSUME CondInd, NEW t \in Cond!Threads, t \notin Cond!Inside, Cond!Mutex!Lock(t)
    PROVE  held' = [held EXCEPT ![t] = @ + 1]
<1>1. held[t] = 0 /\ recursive = FALSE
  BY DEF CondInd, HeldInside, CondTypeOK
<1>2. owner # NoOne => held[owner] > 0
  BY DEF CondInd, MutexInd, OwnerHolds
<1>3. status => owner # NoOne
  BY <1>1 DEF CondInd, MutexInd, FlagTellsOwned
<1>4. owner \in {NoOne, t}
  BY DEF Cond!Mutex!Lock, Cond!Mutex!Enter, Cond!Mutex!MayEnter
<1>5. ~status
  BY <1>1, <1>2, <1>3, <1>4
<1> QED BY <1>5 DEF Cond!Mutex!Lock, Cond!Mutex!Refused, Cond!Mutex!Taken

-----------------------------------------------------------------------------
\* Where a step of one thread leaves the others.
LEMMA PlacesMoved ==
    ASSUME CondInd, NEW t \in Cond!Threads, NEW from \in Places, NEW to \in Places,
           Cond!Goto(t, from, to)
    PROVE  /\ at' \in [Cond!Threads -> Places] /\ at[t] = from /\ at'[t] = to
           /\ \A u \in Cond!Threads \ {t} : at'[u] = at[u]
BY DEF Cond!Goto, CondInd, CondTypeOK

\* A step that neither locks nor changes whether its thread is inside.
LEMMA HeldUntouched ==
    ASSUME CondInd, NEW t \in Cond!Threads, UNCHANGED mutexVars,
           \A u \in Cond!Threads \ {t} : at'[u] = at[u],
           at[t] \in {"in", "unlock"} <=> at'[t] \in {"in", "unlock"}
    PROVE  HeldInside'
BY DEF CondInd, HeldInside, Cond!Inside, mutexVars

\* A step that locks.
LEMMA HeldLocked ==
    ASSUME CondInd, NEW t \in Cond!Threads, Cond!Mutex!Lock(t),
           \A u \in Cond!Threads \ {t} : at'[u] = at[u],
           at[t] \notin {"in", "unlock"}, at'[t] \in {"in", "unlock"}
    PROVE  HeldInside'
<1>1. t \notin Cond!Inside
  BY DEF Cond!Inside
<1>2. held' = [held EXCEPT ![t] = @ + 1] /\ held \in [Cond!Threads -> Nat]
  BY <1>1, LockTakes DEF CondInd, MutexInd, MutexTypeOK
<1> QED BY <1>1, <1>2 DEF CondInd, HeldInside, Cond!Inside

\* A step that unlocks.
LEMMA HeldUnlocked ==
    ASSUME CondInd, NEW t \in Cond!Threads, Cond!Mutex!Unlock(t),
           \A u \in Cond!Threads \ {t} : at'[u] = at[u],
           at[t] \in {"in", "unlock"}, at'[t] \notin {"in", "unlock"}
    PROVE  HeldInside'
<1>1. held' = [held EXCEPT ![t] = @ - 1] /\ held \in [Cond!Threads -> Nat]
  BY DEF Cond!Mutex!Unlock, CondInd, MutexInd, MutexTypeOK
<1> QED BY <1>1 DEF CondInd, HeldInside, Cond!Inside

Waits == {"unlock", "wait", "signalled", "broadcast"}

\* A step that leaves the waiters and their count alone.
LEMMA CountUntouched ==
    ASSUME CondInd, NEW t \in Cond!Threads, waiter_count' = waiter_count,
           \A u \in Cond!Threads \ {t} : at'[u] = at[u],
           at[t] \in Waits <=> at'[t] \in Waits
    PROVE  WaitersCounted' /\ waiter_count' \in Nat
<1>1. CountedWaiters' = CountedWaiters
  BY DEF CountedWaiters, Waits
<1> QED BY <1>1 DEF CondInd, WaitersCounted, CondTypeOK

\* One waiter more.
LEMMA CountRaised ==
    ASSUME ThreadsFinite, CondInd, NEW t \in Cond!Threads, waiter_count' = waiter_count + 1,
           \A u \in Cond!Threads \ {t} : at'[u] = at[u], at[t] \notin Waits, at'[t] \in Waits
    PROVE  WaitersCounted' /\ waiter_count' \in Nat
<1>1. CountedWaiters' = CountedWaiters \cup {t} /\ t \notin CountedWaiters
  BY DEF CountedWaiters, Waits
<1>2. Cardinality(CountedWaiters') = Cardinality(CountedWaiters) + 1
  BY <1>1, WaitersFinite, FS_AddElement
<1> QED BY <1>2 DEF CondInd, WaitersCounted, CondTypeOK

\* One waiter less.
LEMMA CountLowered ==
    ASSUME ThreadsFinite, CondInd, NEW t \in Cond!Threads, waiter_count' = waiter_count - 1,
           \A u \in Cond!Threads \ {t} : at'[u] = at[u], at[t] \in Waits, at'[t] \notin Waits
    PROVE  WaitersCounted' /\ waiter_count' \in Nat
<1>1. CountedWaiters' = CountedWaiters \ {t} /\ t \in CountedWaiters
  BY DEF CountedWaiters, Waits
<1>2. /\ Cardinality(CountedWaiters') = Cardinality(CountedWaiters) - 1
      /\ Cardinality(CountedWaiters') \in Nat
  <2>1. IsFiniteSet(CountedWaiters) /\ IsFiniteSet(CountedWaiters \ {t})
    BY WaitersFinite, FS_RemoveElement
  <2> QED BY <1>1, <2>1, FS_RemoveElement, FS_CardinalityType
<1> QED BY <1>2 DEF CondInd, WaitersCounted

-----------------------------------------------------------------------------
\* The users start outside, with nobody waiting.
LEMMA CondInitInd ==
    ASSUME ThreadsFinite, Cond!Init
    PROVE  CondInd
<1>1. MutexInd(Cond!Threads)
  <2>1. /\ recursive \in BOOLEAN /\ owner = NoOne /\ depth = 0 /\ status = FALSE
        /\ asleep = {} /\ held = [t \in Cond!Threads |-> 0]
    BY DEF Cond!Init, Cond!Mutex!Init
  <2> QED BY <2>1, MutexInitInd DEF ThreadsFinite
<1>2. at = [t \in Cond!Threads |-> "out"] /\ waiter_count = 0
  BY DEF Cond!Init
<1>3. CondTypeOK
  <2>1. present \subseteq Cond!Threads
    BY DEF Cond!Init, Cond!Threads
  <2>2. recursive = FALSE
    BY DEF Cond!Init, Cond!Mutex!Init
  <2> QED BY <1>2, <2>1, <2>2 DEF CondTypeOK, Places
<1>4. HeldInside
  BY <1>2 DEF Cond!Init, Cond!Mutex!Init, HeldInside, Cond!Inside
<1>5. WaitersCounted
  <2>1. CountedWaiters = {}
    BY <1>2 DEF CountedWaiters
  <2> QED BY <1>2, <2>1, FS_EmptySet DEF WaitersCounted
<1> QED BY <1>1, <1>3, <1>4, <1>5 DEF CondInd

\* Every step keeps the invariant.
LEMMA CondStepInd ==
    ASSUME ThreadsFinite, CondInd, [Cond!Next]_(Cond!vars)
    PROVE  CondInd'
<1> DEFINE Kept == at' \in [Cond!Threads -> Places] /\ waiter_count' \in Nat /\ HeldInside'
                   /\ WaitersCounted'
<1> SUFFICES Kept
  <2>1. MutexInd(Cond!Threads)'
    BY MutexIndKept
  <2>2. UNCHANGED <<recursive, present>>
    <3>1. UNCHANGED recursive
      BY MutexUsed DEF CondInd, mutexVars, Cond!Mutex!Lock, Cond!Mutex!Unlock
    <3>2. UNCHANGED present
      BY DEF Cond!Next, Cond!vars, Cond!eventVars, Cond!users, Cond!Step, Cond!Wait,
         Cond!Counted, Cond!UnlockMutex, Cond!WokenBySignal, Cond!WokenByBroadcast,
         Cond!Uncounted, Cond!Reset, Cond!Relock, Cond!LockMutex, Cond!Consume, Cond!Produce,
         Cond!Look, Cond!SetEvent
    <3> QED BY <3>1, <3>2
  <2> QED BY <2>1, <2>2 DEF CondInd, CondTypeOK
<1>0. present \subseteq Cond!Threads
  BY DEF CondInd, CondTypeOK
<1> USE DEF Places, Waits
<1>1. ASSUME NEW t \in present, Cond!Counted(t) PROVE Kept
  BY <1>0, <1>1, PlacesMoved, HeldUntouched, CountRaised
     DEF Cond!Counted, Cond!mutexVars, mutexVars
<1>2. ASSUME NEW t \in present, Cond!UnlockMutex(t) PROVE Kept
  BY <1>0, <1>2, PlacesMoved, HeldUnlocked, CountUntouched DEF Cond!UnlockMutex
<1>3. ASSUME NEW t \in present, Cond!WokenBySignal(t) PROVE Kept
  BY <1>0, <1>3, PlacesMoved, HeldUntouched, CountUntouched
     DEF Cond!WokenBySignal, Cond!mutexVars, mutexVars
<1>4. ASSUME NEW t \in present, Cond!WokenByBroadcast(t) PROVE Kept
  BY <1>0, <1>4, PlacesMoved, HeldUntouched, CountUntouched
     DEF Cond!WokenByBroadcast, Cond!mutexVars, mutexVars
<1>5. ASSUME NEW t \in present, Cond!Uncounted(t) PROVE Kept
  BY <1>0, <1>5, PlacesMoved, HeldUntouched, CountLowered
     DEF Cond!Uncounted, Cond!mutexVars, mutexVars
<1>6. ASSUME NEW t \in present, Cond!Reset(t) PROVE Kept
  BY <1>0, <1>6, PlacesMoved, HeldUntouched, CountUntouched
     DEF Cond!Reset, Cond!mutexVars, mutexVars
<1>7. ASSUME NEW t \in present, Cond!Relock(t) PROVE Kept
  BY <1>0, <1>7, PlacesMoved, HeldLocked, CountUntouched DEF Cond!Relock
<1>8. ASSUME NEW t \in present, Cond!LockMutex(t) PROVE Kept
  BY <1>0, <1>8, PlacesMoved, HeldLocked, CountUntouched DEF Cond!LockMutex
<1>9. ASSUME NEW t \in present, Cond!Consume(t) PROVE Kept
  BY <1>0, <1>9, PlacesMoved, HeldUnlocked, CountUntouched DEF Cond!Consume
<1>10. ASSUME NEW t \in present, Cond!Produce(t) PROVE Kept
  BY <1>0, <1>10, PlacesMoved, HeldUnlocked, CountUntouched DEF Cond!Produce
<1>11. ASSUME NEW t \in present, Cond!Look(t) PROVE Kept
  BY <1>0, <1>11, PlacesMoved, HeldUntouched, CountUntouched
     DEF Cond!Look, Cond!mutexVars, mutexVars
<1>12. ASSUME NEW t \in present, Cond!SetEvent(t) PROVE Kept
  BY <1>0, <1>12, PlacesMoved, HeldUntouched, CountUntouched
     DEF Cond!SetEvent, Cond!mutexVars, mutexVars
<1>13. CASE UNCHANGED Cond!vars
  BY <1>13 DEF Cond!vars, Cond!mutexVars, CondInd, CondTypeOK, HeldInside, Cond!Inside,
     WaitersCounted, CountedWaiters
<1> QED BY <1>1, <1>2, <1>3, <1>4, <1>5, <1>6, <1>7, <1>8, <1>9, <1>10, <1>11, <1>12, <1>13
        DEF Cond!Next, Cond!Step, Cond!Wait

\* What the invariant implies.
LEMMA CondIndHolds ==
    ASSUME ThreadsFinite, CondInd
    PROVE  /\ Cond!WaitReturnsLocked
           /\ Cond!Mutex!HeldByOneThread /\ Cond!Mutex!FreeWhenUnheld
<1> DEFINE T == Cond!Threads
           H == {t \in T : held[t] > 0}
<1>1. /\ Cardinality(H) <= 1
      /\ ~recursive => \A t \in T : held[t] <= 1
      /\ owner = NoOne <=> H = {}
      /\ H = {} => ~status /\ depth = 0
      /\ asleep # {} => owner \in asleep /\ owner \in H
  <2>1. NoOne \notin T /\ MutexInd(T)
    BY DEF ThreadsFinite, CondInd
  <2> HIDE DEF T
  <2> QED BY <2>1, OneHolder
<1>2. Cond!Mutex!Holders = H
  BY DEF Cond!Mutex!Holders
<1>3. Cond!Mutex!HeldByOneThread /\ Cond!Mutex!FreeWhenUnheld
  <2> HIDE DEF H
  <2>1. Cond!Mutex!Cardinality(H) = Cardinality(H)
    BY Zenon DEF Cond!Mutex!Cardinality, Cardinality
  <2>2. Cond!Mutex!HeldByOneThread
    BY <1>1, <1>2, <2>1 DEF Cond!Mutex!HeldByOneThread
  <2>3. Cond!Mutex!FreeWhenUnheld
    BY <1>1, <1>2, Zenon DEF Cond!Mutex!FreeWhenUnheld
  <2> QED BY <2>2, <2>3
<1>4. \A t \in Cond!Threads : t # owner => held[t] = 0
  BY DEF CondInd, MutexInd, OwnerHolds
<1>5. Cond!Inside \subseteq {owner}
  BY <1>4 DEF CondInd, HeldInside, Cond!Inside
<1>6. Cardinality(Cond!Inside) <= 1
  <2>1. IsFiniteSet(Cond!Inside) /\ Cardinality(Cond!Inside) <= Cardinality({owner})
    BY <1>5, FS_Subset, FS_Singleton
  <2>2. Cardinality({owner}) = 1
    BY FS_Singleton
  <2> QED BY <2>1, <2>2
<1>7. Cond!WaitReturnsLocked
  BY <1>6, Zenon DEF CondInd, HeldInside, WaitersCounted, CountedWaiters, Cond!WaitReturnsLocked,
     Cond!Cardinality, Cardinality, Cond!Threads
<1> QED BY <1>3, <1>7

\* The condition variable uses its mutex as a mutex: each of its behaviours is one of WinMutex.
THEOREM ConditionUsesMutex ==
    ASSUME ThreadsFinite
    PROVE  Cond!Spec => Cond!Mutex!Spec
<1>1. Cond!Init => Cond!Mutex!Init
  BY DEF Cond!Init
<1>2. CondInd /\ [Cond!Next]_(Cond!vars) => [Cond!Mutex!Next]_(Cond!Mutex!mutexVars)
  BY MutexUsed DEF CondInd, Cond!Mutex!Next, Cond!Mutex!mutexVars, mutexVars
<1>3. Cond!Init => CondInd
  BY CondInitInd
<1>4. CondInd /\ [Cond!Next]_(Cond!vars) => CondInd'
  BY CondStepInd
<1> QED BY <1>1, <1>2, <1>3, <1>4, PTL DEF Cond!Spec, Cond!Mutex!Spec

-----------------------------------------------------------------------------
(* The asynchronous logger, and the parts together *)

NamesDistinct ==
    NoOne \notin Lockers \cup Consumers \cup Producers /\ NoRecord \notin 1 .. NRecords

PartsInd ==
    /\ part = "async" => AsyncPart!LogInd /\ AsyncPart!WorkBegun /\ AsyncPart!MessageInd
    /\ part = "mutex" => MutexInd(Lockers)
    /\ part = "cond" => CondInd

\* The logger is the one that the proofs are about.
LEMMA SameAsyncPart ==
    /\ Async!Init => AsyncPart!Init
    /\ Async!Next => AsyncPart!Next
    /\ Async!LogAssumption => AsyncPart!LogAssumption
<1>1. Async!Init => AsyncPart!Init
  BY DEF Async!Init, AsyncPart!Init, Async!Pool!Init, AsyncPart!Pool!Init, Async!Records,
     AsyncPart!Records
<1>2. Async!LogAssumption => AsyncPart!LogAssumption
  BY Zenon DEF Async!LogAssumption, AsyncPart!LogAssumption, Async!IsFiniteSet,
     AsyncPart!IsFiniteSet
<1>3. Async!InitLog => AsyncPart!InitLog
  BY DEF Async!InitLog, AsyncPart!InitLog, Async!NobodyLogs, AsyncPart!NobodyLogs,
     Async!Relinked, AsyncPart!Relinked, Async!Records, AsyncPart!Records, Async!Discarded,
     AsyncPart!Discarded
<1>4. Async!ExitLog => AsyncPart!ExitLog
  BY DEF Async!ExitLog, AsyncPart!ExitLog, Async!NobodyLogs, AsyncPart!NobodyLogs,
     Async!Pool!Close, AsyncPart!Pool!Close, Async!logVars, AsyncPart!logVars
<1>5. Async!CleanDropped => AsyncPart!CleanDropped
  BY DEF Async!CleanDropped, AsyncPart!CleanDropped, Async!Pool!Clean, AsyncPart!Pool!Clean,
     Async!logVars, AsyncPart!logVars
<1>6. Async!Exited => AsyncPart!Exited
  BY DEF Async!Exited, AsyncPart!Exited, Async!Pool!Vanish, AsyncPart!Pool!Vanish,
     Async!Pool!Settled, AsyncPart!Pool!Settled, Async!logVars, AsyncPart!logVars
<1>7. Async!StartTask => AsyncPart!StartTask
  <2>1. Async!Pool!Cardinality(running) = AsyncPart!Pool!Cardinality(running)
    BY Zenon DEF Async!Pool!Cardinality, AsyncPart!Pool!Cardinality
  <2> QED
    BY <2>1 DEF Async!StartTask, AsyncPart!StartTask, Async!Pool!Start, AsyncPart!Pool!Start,
       Async!logVars, AsyncPart!logVars
<1>8. ASSUME NEW l \in Loggers, Async!LogPrint(l) PROVE AsyncPart!LogPrint(l)
  <2>1. Async!Allocate(l) => AsyncPart!Allocate(l)
    BY DEF Async!Allocate, AsyncPart!Allocate, Async!Message, AsyncPart!Message,
       Async!poolVars, AsyncPart!poolVars
  <2>2. Async!Fill(l) => AsyncPart!Fill(l)
    BY DEF Async!Fill, AsyncPart!Fill, Async!Message, AsyncPart!Message, Async!poolVars,
       AsyncPart!poolVars
  <2>3. Async!Add(l) => AsyncPart!Add(l)
    BY DEF Async!Add, AsyncPart!Add, Async!Send, AsyncPart!Send, Async!Pool!Accept,
       AsyncPart!Pool!Accept
  <2>4. Async!PrintDirectly(l) => AsyncPart!PrintDirectly(l)
    BY DEF Async!PrintDirectly, AsyncPart!PrintDirectly, Async!Message, AsyncPart!Message,
       Async!Echo, AsyncPart!Echo, Async!Echoes, AsyncPart!Echoes, Async!poolVars,
       AsyncPart!poolVars
  <2>5. Async!AddFails(l) => AsyncPart!AddFails(l)
    BY DEF Async!AddFails, AsyncPart!AddFails, Async!Deallocated, AsyncPart!Deallocated,
       Async!poolVars, AsyncPart!poolVars
  <2> QED BY <1>8, <2>1, <2>2, <2>3, <2>4, <2>5 DEF Async!LogPrint, AsyncPart!LogPrint
<1>9. ASSUME NEW t \in Async!Tasks, Async!Work(t) \/ Async!EchoFails(t)
      PROVE  AsyncPart!Work(t) \/ AsyncPart!EchoFails(t)
  <2>1. Async!Write(t) => AsyncPart!Write(t)
    BY DEF Async!Write, AsyncPart!Write, Async!At, AsyncPart!At, Async!Echoes,
       AsyncPart!Echoes, Async!poolVars, AsyncPart!poolVars
  <2>2. Async!EchoAllocate(t) => AsyncPart!EchoAllocate(t)
    BY DEF Async!EchoAllocate, AsyncPart!EchoAllocate, Async!At, AsyncPart!At, Async!Echo,
       AsyncPart!Echo, Async!poolVars, AsyncPart!poolVars
  <2>3. Async!EchoAdd(t) => AsyncPart!EchoAdd(t)
    BY DEF Async!EchoAdd, AsyncPart!EchoAdd, Async!At, AsyncPart!At, Async!Pool!Accept,
       AsyncPart!Pool!Accept
  <2>4. Async!EchoFails(t) => AsyncPart!EchoFails(t)
    BY DEF Async!EchoFails, AsyncPart!EchoFails, Async!At, AsyncPart!At, Async!Deallocated,
       AsyncPart!Deallocated, Async!poolVars, AsyncPart!poolVars
  <2>5. Async!Free(t) => AsyncPart!Free(t)
    BY DEF Async!Free, AsyncPart!Free, Async!At, AsyncPart!At, Async!Deallocated,
       AsyncPart!Deallocated, Async!poolVars, AsyncPart!poolVars
  <2>6. Async!Return(t) => AsyncPart!Return(t)
    BY DEF Async!Return, AsyncPart!Return, Async!At, AsyncPart!At, Async!Pool!Finish,
       AsyncPart!Pool!Finish, Async!logVars, AsyncPart!logVars
  <2> QED BY <1>9, <2>1, <2>2, <2>3, <2>4, <2>5, <2>6
          DEF Async!Work, AsyncPart!Work, Async!EchoRefused
<1>10. Async!Next => AsyncPart!Next
  BY <1>3, <1>4, <1>5, <1>6, <1>7, <1>8, <1>9
     DEF Async!Next, AsyncPart!Next, Async!Tasks, AsyncPart!Tasks
<1> QED BY <1>1, <1>2, <1>10

\* The assumptions of the parts.
LEMMA PartAssumptions ==
    ASSUME NamesDistinct
    PROVE  /\ AsyncPart!LoggerAssumption /\ ThreadsFinite /\ NoOne \notin Lockers
<1>1. AsyncPart!LoggerAssumption
  BY ThreadedAssumption, SameAsyncPart DEF AsyncPart!LoggerAssumption, NamesDistinct,
     AsyncPart!Records
<1>2. ThreadsFinite /\ NoOne \notin Lockers
  BY ThreadedAssumption DEF ThreadsFinite, NamesDistinct, Cond!Threads
<1> QED BY <1>1, <1>2

\* Each part starts in its invariant,
LEMMA PartsInit ==
    ASSUME NamesDistinct, Init
    PROVE  PartsInd
<1>1. Async!Init => AsyncPart!LogInd /\ AsyncPart!WorkBegun /\ AsyncPart!MessageInd
  BY SameAsyncPart, AsyncPart!LogInitInd, AsyncPart!MessageInitInd
<1>2. Mutex!Init => MutexInd(Lockers)
  BY PartAssumptions, MutexInitInd DEF Mutex!Init
<1>3. Cond!Init => CondInd
  BY PartAssumptions, CondInitInd
<1> QED BY <1>1, <1>2, <1>3 DEF Init, PartsInd

\* and keeps it.
LEMMA PartsStep ==
    ASSUME NamesDistinct, PartsInd, [Next]_vars
    PROVE  PartsInd'
<1>1. AsyncPart!LoggerAssumption /\ ThreadsFinite /\ NoOne \notin Lockers
  BY PartAssumptions
<1>2. CASE AsyncStep
  <2>1. AsyncPart!LogInd' /\ AsyncPart!WorkBegun' /\ AsyncPart!MessageInd'
    BY <1>1, <1>2, SameAsyncPart, AsyncPart!LogNextInd, AsyncPart!MessageNextInd
       DEF AsyncStep, OfAsync, PartsInd
  <2> QED BY <1>2, <2>1 DEF AsyncStep, OfAsync, PartsInd
<1>3. CASE MutexStep
  <2>1. MutexInd(Lockers)'
    BY <1>1, <1>3, MutexStepInd DEF MutexStep, OfMutex, PartsInd
  <2> QED BY <1>3, <2>1 DEF MutexStep, OfMutex, PartsInd
<1>4. CASE CondStep
  <2>1. CondInd'
    BY <1>1, <1>4, CondStepInd DEF CondStep, OfCond, PartsInd
  <2> QED BY <1>4, <2>1 DEF CondStep, OfCond, PartsInd
<1>5. CASE UNCHANGED vars
  <2>1. UNCHANGED <<part, asyncVars, mutexVars, condVars>>
    BY <1>5 DEF vars
  <2>2. part = "async" =>
            AsyncPart!LogInd' /\ AsyncPart!WorkBegun' /\ AsyncPart!MessageInd'
    <3>1. UNCHANGED AsyncPart!vars
      BY <2>1 DEF asyncVars, poolVars, AsyncPart!vars, AsyncPart!poolVars, AsyncPart!logVars
    <3> QED BY <1>1, <3>1, AsyncPart!LogNextInd, AsyncPart!MessageNextInd DEF PartsInd
  <2>3. part = "mutex" => MutexInd(Lockers)'
    BY <1>1, <2>1, MutexStepInd DEF PartsInd
  <2>4. part = "cond" => CondInd'
    <3>1. UNCHANGED Cond!vars
      BY <2>1 DEF mutexVars, condVars, Cond!vars, Cond!mutexVars, Cond!eventVars, Cond!users
    <3> QED BY <1>1, <3>1, CondStepInd DEF PartsInd
  <2> QED BY <2>1, <2>2, <2>3, <2>4 DEF PartsInd
<1> QED BY <1>2, <1>3, <1>4, <1>5 DEF Next

-----------------------------------------------------------------------------
\* What the invariant says of the logger is what the run checks of it.
LEMMA PartsHaveOneOwner ==
    ASSUME PartsInd
    PROVE  EachRecordHasOneOwner
<1> SUFFICES ASSUME part = "async" PROVE Async!EachRecordHasOneOwner
  BY DEF EachRecordHasOneOwner
<1>1. AsyncPart!EachRecordHasOneOwner
  BY AsyncPart!LogIndHolds DEF PartsInd
<1>2. /\ Async!Records = AsyncPart!Records /\ Async!Tasks = AsyncPart!Tasks
      /\ Async!Queued = AsyncPart!Queued /\ Async!Discarded = AsyncPart!Discarded
  BY DEF Async!Records, AsyncPart!Records, Async!Tasks, AsyncPart!Tasks, Async!Queued,
     AsyncPart!Queued, Async!Discarded, AsyncPart!Discarded
<1> QED BY <1>1, Zenon DEF Async!EachRecordHasOneOwner, AsyncPart!EachRecordHasOneOwner,
           Async!Records, AsyncPart!Records, Async!Tasks, AsyncPart!Tasks, Async!Queued,
           AsyncPart!Queued, Async!Discarded, AsyncPart!Discarded, Async!Held, AsyncPart!Held,
           Async!Cardinality, AsyncPart!Cardinality

\* So is what it says of the messages.
LEMMA PartsAccountForMessages ==
    ASSUME NamesDistinct, PartsInd
    PROVE  MessagesAccountedFor
<1> SUFFICES ASSUME part = "async" PROVE Async!MessagesAccountedFor
  BY DEF MessagesAccountedFor
<1>1. AsyncPart!MessagesAccountedFor
  BY PartAssumptions, AsyncPart!MessageIndHolds DEF PartsInd
<1>2. /\ Async!Tasks = AsyncPart!Tasks
      /\ Async!Queued = AsyncPart!Queued /\ Async!Discarded = AsyncPart!Discarded
      /\ \A t, s : Async!At(t, s) <=> AsyncPart!At(t, s)
      /\ \A l, n : Async!Message(l, n) = AsyncPart!Message(l, n)
  BY DEF Async!Tasks, AsyncPart!Tasks, Async!Queued, AsyncPart!Queued, Async!Discarded,
     AsyncPart!Discarded, Async!At, AsyncPart!At, Async!Message, AsyncPart!Message
<1>3. Async!InFlight = AsyncPart!InFlight
  BY <1>2, Zenon DEF Async!InFlight, AsyncPart!InFlight, Async!Tasks, AsyncPart!Tasks,
     Async!Queued, AsyncPart!Queued, Async!At, AsyncPart!At
<1> QED BY <1>1, <1>2, <1>3 DEF Async!MessagesAccountedFor, AsyncPart!MessagesAccountedFor

\* What the invariant says of the two parts is what the run checks of them.
LEMMA PartsHaveOneHolder ==
    ASSUME NamesDistinct, PartsInd
    PROVE  MutexHasOneHolder
<1>0. ThreadsFinite /\ NoOne \notin Lockers
  BY PartAssumptions
<1>1. ASSUME part = "mutex" PROVE Mutex!HeldByOneThread /\ Mutex!FreeWhenUnheld
  <2> DEFINE H == {t \in Lockers : held[t] > 0}
  <2>1. MutexInd(Lockers)
    BY <1>1 DEF PartsInd
  <2>2. /\ Cardinality(H) <= 1
        /\ ~recursive => \A t \in Lockers : held[t] <= 1
        /\ owner = NoOne <=> H = {}
        /\ H = {} => ~status /\ depth = 0
        /\ asleep # {} => owner \in asleep /\ owner \in H
    BY <1>0, <2>1, OneHolder
  <2>3. Mutex!Holders = H
    BY DEF Mutex!Holders
  <2> HIDE DEF H
  <2>4. Mutex!Cardinality(H) = Cardinality(H)
    BY Zenon DEF Mutex!Cardinality, Cardinality
  <2>5. Mutex!HeldByOneThread
    BY <2>2, <2>3, <2>4 DEF Mutex!HeldByOneThread
  <2>6. Mutex!FreeWhenUnheld
    BY <2>2, <2>3, Zenon DEF Mutex!FreeWhenUnheld
  <2> QED BY <2>5, <2>6
<1>2. ASSUME part = "cond"
      PROVE  Cond!WaitReturnsLocked /\ Cond!Mutex!HeldByOneThread /\ Cond!Mutex!FreeWhenUnheld
  BY <1>0, <1>2, CondIndHolds DEF PartsInd
<1> QED BY <1>1, <1>2 DEF MutexHasOneHolder

\* On Windows a mutex has one holder and is free when it has none, and condition_wait
\* returns with it however the wait ended, with any number of threads, any number of locks
\* that one of them takes, and any number of items.
THEOREM HoldersExclude ==
    ASSUME NamesDistinct
    PROVE  Spec => []MutexHasOneHolder
<1>1. Init => PartsInd
  BY PartsInit
<1>2. PartsInd /\ [Next]_vars => PartsInd'
  BY PartsStep
<1>3. PartsInd => MutexHasOneHolder
  BY PartsHaveOneHolder
<1> QED BY <1>1, <1>2, <1>3, PTL DEF Spec

\* Each message record of the asynchronous logger has one owner at any time, for any number
\* of loggers, records, workers and messages, and over any number of lives of the pool.
THEOREM OwnersExclude ==
    ASSUME NamesDistinct
    PROVE  Spec => []EachRecordHasOneOwner
<1>1. Init => PartsInd
  BY PartsInit
<1>2. PartsInd /\ [Next]_vars => PartsInd'
  BY PartsStep
<1>3. PartsInd => EachRecordHasOneOwner
  BY PartsHaveOneOwner
<1> QED BY <1>1, <1>2, <1>3, PTL DEF Spec

\* A message that is logged asynchronously is written, once and as it was said, or still carried
\* by its record, or was refused at the call, or lost its task in an exit that drops, for any
\* number of loggers, records, workers and messages, over any number of lives of the pool.
THEOREM NoMessageIsLost ==
    ASSUME NamesDistinct
    PROVE  Spec => []MessagesAccountedFor
<1>1. Init => PartsInd
  BY PartsInit
<1>2. PartsInd /\ [Next]_vars => PartsInd'
  BY PartsStep
<1>3. PartsInd => MessagesAccountedFor
  BY PartsAccountForMessages
<1> QED BY <1>1, <1>2, <1>3, PTL DEF Spec
=============================================================================
