------------------------------ MODULE SetTable ------------------------------
(***************************************************************************)
(* The open-addressing set of src/set.c: linear probing, tombstones,       *)
(* doubling when three quarters of the slots are used and halving when a   *)
(* quarter of them hold elements.                                          *)
(*                                                                         *)
(* An element is a value with its type, so set_add and its siblings for    *)
(* int, long, float, double and char * are one operation.  Capacities are  *)
(* powers of two, where `& (capacity - 1)' is `% capacity'.  A lookup that *)
(* meets neither an empty slot nor its element goes round the table for    *)
(* ever: the program is then in the phase "looping".                       *)
(*                                                                         *)
(* Left out: the strdup of a string (180), which nobody checks.  If it     *)
(* fails, a string slot with NULL is counted, and comparing it is          *)
(* undefined.  So there is always memory for the copies of strings here.   *)
(***************************************************************************)
EXTENDS Integers, FiniteSets

CONSTANTS
    Values,        \* the elements the program uses
    Hashes,        \* the hash functions considered, each in [Values -> Nat]
    Empty, Removed,\* SET_SLOT_EMPTY, SET_SLOT_REMOVE
    MaxCapacity    \* bound: the memory runs out beyond it

ASSUME SetAssumption ==
    /\ IsFiniteSet(Values) /\ Values # {}
    /\ Hashes # {} /\ Hashes \subseteq [Values -> Nat]
    /\ MaxCapacity \in 16 .. 2 ^ 30
    /\ Empty \notin Values /\ Removed \notin Values /\ Empty # Removed

VARIABLES
    buckets, capacity, count, used,
    hash,      \* __set_get_hash__, the same all along
    phase,     \* "ready", "looping" in a lookup, "exited" out of memory, or "destroyed"
    members    \* history: the set of elements a mathematician would have

vars == <<buckets, capacity, count, used, hash, phase, members>>

-----------------------------------------------------------------------------
(* Probing *)

Blank(n) == [i \in 0 .. n - 1 |-> Empty]

\* The slot d steps after the one v hashes to.
Probe(v, d, n) == (hash[v] + d) % n

Least(S) == CHOOSE d \in S : \A e \in S : d <= e

\* The distances at which a search for v in table b of n slots stops.
Stops(b, n, v) == {d \in 0 .. n - 1 : b[Probe(v, d, n)] \in {Empty, v}}

\* The tombstones it meets before.
Tombstones(b, n, v) ==
    {d \in 0 .. Least(Stops(b, n, v)) : b[Probe(v, d, n)] = Removed}

\* Stops at the first tombstone already.
Faulty_FindSlot(b, n, v) ==
    Probe(v, Least({d \in 0 .. n - 1 : b[Probe(v, d, n)] \in {Empty, Removed, v}}), n)

\* __set_find_slot__, when it returns: v's slot, or the slot to put v in.
FindSlot(b, n, v) ==
    LET stop == Least(Stops(b, n, v))
    IN  IF b[Probe(v, stop, n)] = Empty /\ Tombstones(b, n, v) # {}
        THEN Probe(v, Least(Tombstones(b, n, v)), n)
        ELSE Probe(v, stop, n)

\* Re-insert v into a table where it is not: the first empty slot.
Place(b, n, v) ==
    LET d == Least({e \in 0 .. n - 1 : b[Probe(v, e, n)] = Empty})
    IN  [b EXCEPT ![Probe(v, d, n)] = v]

\* The elements of table b, slot by slot, moved into a fresh table of n slots.
Rehash(b, n) ==
    LET moved[i \in 0 .. capacity] ==
            IF i = 0 THEN Blank(n)
            ELSE IF b[i - 1] \in Values THEN Place(moved[i - 1], n, b[i - 1])
            ELSE moved[i - 1]
    IN  moved[capacity]

-----------------------------------------------------------------------------
(* Operations *)

Init ==
    /\ capacity = 16 /\ buckets = Blank(16)
    /\ count = 0 /\ used = 0
    /\ hash \in Hashes
    /\ phase = "ready" /\ members = {}

\* Counts a re-used tombstone as one more used slot.
Faulty_UsedAfter(b, slot, u) == u + 1

\* A tombstone that is re-used was counted in `used' already.
UsedAfter(b, slot, u) == IF b[slot] = Empty THEN u + 1 ELSE u

\* What __set_put__ does with v once there is room, also for the copy of a string (180):
\* table b of n slots, u used.
Insert(v, b, n, u) ==
    IF Stops(b, n, v) = {}
    THEN /\ phase' = "looping"
         /\ buckets' = b /\ capacity' = n /\ used' = u
         /\ UNCHANGED <<count, members>>
    ELSE LET slot == FindSlot(b, n, v)
         IN  /\ capacity' = n
             /\ IF b[slot] = v
                THEN buckets' = b /\ used' = u /\ UNCHANGED <<count, members>>
                ELSE /\ buckets' = [b EXCEPT ![slot] = v]
                     /\ used' = UsedAfter(b, slot, u)
                     /\ count' = count + 1
                     /\ members' = members \cup {v}
             /\ UNCHANGED phase

\* Grows only once every slot is used.
Faulty_Crowded == used >= capacity

Crowded == 4 * used >= 3 * capacity

\* set_add.  A crowded table is doubled first, whether v is new or not; without
\* the memory for that the program exits.
Put(v) ==
    /\ phase = "ready"
    /\ IF Crowded
       THEN \/ /\ capacity < MaxCapacity
             /\ Insert(v, Rehash(buckets, 2 * capacity), 2 * capacity, count)
            \/ phase' = "exited" /\ UNCHANGED <<buckets, capacity, count, used, members>>
       ELSE Insert(v, buckets, capacity, used)
    /\ UNCHANGED hash

\* Clears the slot instead of leaving a tombstone.
Faulty_Without(slot) == [buckets EXCEPT ![slot] = Empty]

Without(slot) == [buckets EXCEPT ![slot] = Removed]

\* set_remove that leaves c elements calls __set_shrink__, and that goes ahead.
\* There is no smallest capacity: the test for one, at line 186, is commented out.
Shrinks(c) == 4 * c <= capacity /\ 4 * c < 3 * (capacity \div 2)

\* set_remove of an element; the second disjunct has memory for the smaller table.
Del(v) ==
    /\ phase = "ready" /\ Stops(buckets, capacity, v) # {}
    /\ LET slot == FindSlot(buckets, capacity, v)
           n == capacity \div 2
       IN  /\ buckets[slot] = v
           /\ \/ buckets' = Without(slot) /\ UNCHANGED <<capacity, used>>
              \/ /\ Shrinks(count - 1)
                 /\ buckets' = Rehash(Without(slot), n)
                 /\ capacity' = n /\ used' = count - 1
    /\ count' = count - 1
    /\ members' = members \ {v}
    /\ UNCHANGED <<hash, phase>>

\* set_remove or set_contains of v when the search for v never stops.
LookupLoops(v) ==
    /\ phase = "ready" /\ Stops(buckets, capacity, v) = {}
    /\ phase' = "looping"
    /\ UNCHANGED <<buckets, capacity, count, used, hash, members>>

\* set_destroy
Destroy ==
    /\ phase = "ready" /\ phase' = "destroyed"
    /\ buckets' = Blank(1) /\ capacity' = 1 /\ count' = 0 /\ used' = 0 /\ members' = {}
    /\ UNCHANGED hash

\* A call that never returns, a program that has exited, a set that is gone.
Stuck == phase # "ready" /\ UNCHANGED vars

Next == (\E v \in Values : Put(v) \/ Del(v) \/ LookupLoops(v)) \/ Destroy \/ Stuck

Spec == Init /\ [][Next]_vars

-----------------------------------------------------------------------------
(* Properties *)

TypeOK ==
    /\ buckets \in [0 .. capacity - 1 -> Values \cup {Empty, Removed}]
    /\ hash \in Hashes
    /\ phase \in {"ready", "looping", "exited", "destroyed"}
    /\ members \subseteq Values

SlotsHolding(S) == {i \in DOMAIN buckets : buckets[i] \in S}

\* However adds, removes, re-used tombstones and re-hashes alternate, each
\* element is in exactly one slot, and the table holds nothing else.
ElementsInOneSlot ==
    \A v \in Values : Cardinality(SlotsHolding({v})) = (IF v \in members THEN 1 ELSE 0)

\* `count' is the size of the set and `used' the number of slots that are not
\* empty: the load that decides on growing and shrinking is the real one.  And halving
\* never goes below one slot: the capacity stays a power of two, which is what makes
\* `& (capacity - 1)' a slot number.
CountsMatchSlots ==
    /\ TypeOK /\ \E k \in 0 .. 30 : capacity = 2 ^ k
    /\ count = Cardinality(members)
    /\ used = Cardinality(SlotsHolding(Values \cup {Removed}))

\* A search that ends tells members from other values, wherever removals and
\* re-hashes have broken or moved the chain of slots it follows.
SearchFindsMembers ==
    \A v \in Values :
        (phase = "ready" /\ Stops(buckets, capacity, v) # {}) =>
            (buckets[FindSlot(buckets, capacity, v)] = v <=> v \in members)

\* A table of four slots or more always has an empty one, so that every search
\* in it ends; in a smaller one the search of set_add ends, because a table
\* without an empty slot is doubled first.
SearchesEndFromFour ==
    capacity > 2 \/ ~Crowded => SlotsHolding({Empty}) # {}

\* set.h:36, "@return `1` for existence, `0` for nonexistence": set_contains
\* returns (a table of one or two slots can be full).
ContainsReturns == phase # "looping"
=============================================================================
