--------------------------- MODULE SetTable_proofs ---------------------------
(***************************************************************************)
(* Proofs about SetTable.  A table is well formed for a set of elements    *)
(* when it holds each of them once and nothing else, and no element is     *)
(* cut off from the slot it hashes to by an empty slot.  Insertion,        *)
(* removal and re-hashing keep it so.                                      *)
(***************************************************************************)
EXTENDS SetTable, Recursion, FiniteSetTheorems

Hashing == hash \in [Values -> Nat]

IsTable(b, n) == n \in Nat \ {0} /\ b \in [0 .. n - 1 -> Values \cup {Empty, Removed}]

\* No element is twice in the table.
HeldOnce(b, n) == \A i, j \in 0 .. n - 1 : b[i] \in Values /\ b[i] = b[j] => i = j

\* The table holds the elements of M.
Holds(b, n, M) ==
    M \subseteq Values /\ \A v \in Values : v \in M <=> \E i \in 0 .. n - 1 : b[i] = v

\* No empty slot is between an element's first slot and the one it is in.
Chained(b, n) ==
    \A v \in Values, d \in 0 .. n - 1 :
        b[Probe(v, d, n)] = v => \A e \in 0 .. d - 1 : b[Probe(v, e, n)] # Empty

WellFormed(b, n, M) == IsTable(b, n) /\ HeldOnce(b, n) /\ Holds(b, n, M) /\ Chained(b, n)

\* Distance d from v's first slot can be reached, and is free.
FreeAt(b, n, v, d) ==
    /\ d \in 0 .. n - 1 /\ b[Probe(v, d, n)] \in {Empty, Removed}
    /\ \A e \in 0 .. d - 1 : b[Probe(v, e, n)] # Empty

-----------------------------------------------------------------------------
(* Probing visits every slot once *)

\* Division with remainder,
LEMMA Remainder ==
    ASSUME NEW h \in Nat, NEW n \in Nat \ {0}
    PROVE  (h % n) \in 0 .. n - 1 /\ (h \div n) \in Nat /\ h = n * (h \div n) + (h % n)
OBVIOUS

\* which is unique.
LEMMA RemainderOf ==
    ASSUME NEW q \in Nat, NEW n \in Nat \ {0}, NEW r \in 0 .. n - 1
    PROVE  (n * q + r) % n = r
OBVIOUS

\* The slot at a distance, without a remainder.
LEMMA ProbeValue ==
    ASSUME Hashing, NEW v \in Values, NEW n \in Nat \ {0}, NEW d \in 0 .. n - 1
    PROVE  LET r == hash[v] % n
           IN  /\ r \in 0 .. n - 1
               /\ Probe(v, d, n) = IF r + d < n THEN r + d ELSE r + d - n
<1> DEFINE r == hash[v] % n  q == hash[v] \div n
<1>1. hash[v] \in Nat
  BY DEF Hashing
<1>2. r \in 0 .. n - 1 /\ q \in Nat /\ hash[v] = n * q + r
  BY <1>1, Remainder
<1> HIDE DEF r, q
<1>3. CASE r + d < n
  <2>1. r + d \in 0 .. n - 1 /\ hash[v] + d = n * q + (r + d)
    BY <1>2, <1>3
  <2>2. (hash[v] + d) % n = r + d
    BY <1>2, <2>1, RemainderOf
  <2> QED BY <1>2, <1>3, <2>2 DEF Probe, r
<1>4. CASE ~(r + d < n)
  <2>1. r + d - n \in 0 .. n - 1 /\ q + 1 \in Nat
    BY <1>2, <1>4
  <2>2. hash[v] + d = n * (q + 1) + (r + d - n)
    BY <1>2
  <2>3. (hash[v] + d) % n = r + d - n
    BY <2>1, <2>2, RemainderOf
  <2> QED BY <1>2, <1>4, <2>3 DEF Probe, r
<1> QED BY <1>3, <1>4

\* Every distance leads to a slot of the table,
LEMMA ProbeIsSlot ==
    ASSUME Hashing, NEW v \in Values, NEW n \in Nat \ {0}, NEW d \in 0 .. n - 1
    PROVE  Probe(v, d, n) \in 0 .. n - 1
BY ProbeValue

\* different ones to different slots,
LEMMA ProbeInjective ==
    ASSUME Hashing, NEW v \in Values, NEW n \in Nat \ {0},
           NEW d \in 0 .. n - 1, NEW e \in 0 .. n - 1, Probe(v, d, n) = Probe(v, e, n)
    PROVE  d = e
<1> DEFINE r == hash[v] % n
           At(k) == IF r + k < n THEN r + k ELSE r + k - n
<1>1. r \in 0 .. n - 1 /\ Probe(v, d, n) = At(d)
  BY ProbeValue
<1>2. Probe(v, e, n) = At(e)
  BY ProbeValue
<1>3. At(d) = At(e)
  BY <1>1, <1>2
<1> HIDE DEF r
<1> QED BY <1>1, <1>3

\* and every slot is at some distance.
LEMMA ProbeSurjective ==
    ASSUME Hashing, NEW v \in Values, NEW n \in Nat \ {0}, NEW i \in 0 .. n - 1
    PROVE  \E d \in 0 .. n - 1 : Probe(v, d, n) = i
<1> DEFINE r == hash[v] % n
           d == IF i >= r THEN i - r ELSE i - r + n
<1>1. r \in 0 .. n - 1
  BY ProbeValue, 0 \in 0 .. n - 1
<1> HIDE DEF r
<1>2. d \in 0 .. n - 1 /\ i = IF r + d < n THEN r + d ELSE r + d - n
  BY <1>1
<1>3. Probe(v, d, n) = IF r + d < n THEN r + d ELSE r + d - n
  BY <1>2, ProbeValue DEF r
<1> QED BY <1>2, <1>3

\* Least is what its name says, of a set of numbers that is not empty.
LEMMA LeastIsLeast ==
    ASSUME NEW S \in SUBSET Nat, S # {}
    PROVE  Least(S) \in S /\ \A e \in S : Least(S) <= e
<1>1. \E x \in S : \A y \in S : x <= y
  BY LeastElement
<1> QED BY <1>1 DEF Least

-----------------------------------------------------------------------------
(* Searches *)

\* A search that stops finds its element if the table holds it, and otherwise a free
\* slot that a later search for it will reach.
LEMMA SearchStops ==
    ASSUME SetAssumption, Hashing, NEW b, NEW n, NEW M, WellFormed(b, n, M),
           NEW v \in Values, Stops(b, n, v) # {}
    PROVE  /\ FindSlot(b, n, v) \in 0 .. n - 1
           /\ b[FindSlot(b, n, v)] = v <=> v \in M
           /\ v \notin M => \E d \in 0 .. n - 1 :
                               FreeAt(b, n, v, d) /\ FindSlot(b, n, v) = Probe(v, d, n)
<1> DEFINE S == Stops(b, n, v)
           stop == Least(S)
           T == Tombstones(b, n, v)
           s == FindSlot(b, n, v)
<1>1. n \in Nat \ {0} /\ b \in [0 .. n - 1 -> Values \cup {Empty, Removed}]
  BY DEF WellFormed, IsTable
<1>2. stop \in S /\ (\A e \in S : stop <= e) /\ S \subseteq 0 .. n - 1
  <2>1. S \subseteq 0 .. n - 1
    BY DEF Stops
  <2>2. S \in SUBSET Nat /\ S # {}
    BY <2>1, <1>1
  <2> HIDE DEF S
  <2> QED BY ONLY <2>1, <2>2, LeastIsLeast
<1>3. stop \in 0 .. n - 1 /\ b[Probe(v, stop, n)] \in {Empty, v}
  BY <1>2 DEF Stops
<1>4. \A e \in 0 .. stop - 1 : b[Probe(v, e, n)] \notin {Empty, v}
  <2> SUFFICES ASSUME NEW e \in 0 .. stop - 1, b[Probe(v, e, n)] \in {Empty, v} PROVE FALSE
    OBVIOUS
  <2>1. e \in 0 .. n - 1 /\ e < stop
    BY <1>1, <1>3
  <2>2. e \in S
    BY <2>1 DEF Stops
  <2> QED BY <1>2, <2>1, <2>2, <1>3
<1>5. Empty # v /\ Removed # v
  BY DEF SetAssumption
<1>6. CASE v \in M
  <2>1. PICK i \in 0 .. n - 1 : b[i] = v
    BY <1>6 DEF WellFormed, Holds
  <2>2. PICK d \in 0 .. n - 1 : Probe(v, d, n) = i
    BY <1>1, ProbeSurjective
  <2>3. \A e \in 0 .. d - 1 : b[Probe(v, e, n)] # Empty
    BY <2>1, <2>2 DEF WellFormed, Chained
  <2>4. d \in S
    BY <2>1, <2>2 DEF Stops
  <2>5. stop <= d
    BY <1>2, <2>4
  <2>6. b[Probe(v, stop, n)] = v
    <3>1. CASE stop = d
      BY <3>1, <2>1, <2>2
    <3>2. CASE stop # d
      <4>1. stop \in 0 .. d - 1
        BY <3>2, <2>5, <1>3, <1>1
      <4> QED BY <4>1, <2>3, <1>3
    <3> QED BY <3>1, <3>2
  <2>7. s = Probe(v, stop, n)
    BY <2>6, <1>5 DEF FindSlot
  <2>8. s \in 0 .. n - 1
    BY <2>7, <1>1, <1>3, ProbeIsSlot
  <2> QED BY <1>6, <2>6, <2>7, <2>8
<1>7. CASE v \notin M
  <2>1. \A d \in 0 .. n - 1 : b[Probe(v, d, n)] # v
    BY <1>1, <1>7, ProbeIsSlot DEF WellFormed, Holds
  <2>2. b[Probe(v, stop, n)] = Empty
    BY <1>3, <2>1
  <2>3. CASE T = {}
    <3>1. s = Probe(v, stop, n)
      BY <2>3 DEF FindSlot
    <3>2. FreeAt(b, n, v, stop)
      BY <1>3, <1>4, <2>2 DEF FreeAt
    <3>3. s \in 0 .. n - 1
      BY <3>1, <1>1, <1>3, ProbeIsSlot
    <3>4. b[s] # v
      BY <1>5, <2>2, <3>1
    <3> HIDE DEF stop
    <3> QED BY <1>3, <1>7, <3>1, <3>2, <3>3, <3>4
  <2>4. CASE T # {}
    <3> DEFINE d == Least(T)
    <3>1. s = Probe(v, d, n)
      BY <2>2, <2>4 DEF FindSlot
    <3>2. T \subseteq 0 .. stop /\ \A t \in T : b[Probe(v, t, n)] = Removed
      BY DEF Tombstones
    <3>3. d \in T
      <4>1. T \in SUBSET Nat
        BY <3>2, <1>1, <1>3
      <4> QED BY ONLY <4>1, <2>4, LeastIsLeast
    <3>4. d \in 0 .. n - 1 /\ d <= stop /\ b[Probe(v, d, n)] = Removed
      BY <3>2, <3>3, <1>1, <1>3
    <3>5. \A e \in 0 .. d - 1 : b[Probe(v, e, n)] # Empty
      BY <3>4, <1>4, <1>3, <1>1
    <3>6. FreeAt(b, n, v, d)
      BY <3>4, <3>5 DEF FreeAt
    <3>7. s \in 0 .. n - 1
      BY <3>1, <3>4, <1>1, ProbeIsSlot
    <3> QED BY <1>5, <1>7, <3>1, <3>4, <3>6, <3>7
  <2> QED BY <2>3, <2>4
<1> QED BY <1>6, <1>7

-----------------------------------------------------------------------------
(* Changing one slot *)

\* An element put where a search for it stopped: an empty slot or a tombstone.
LEMMA InsertionKeepsForm ==
    ASSUME SetAssumption, Hashing, NEW b, NEW n, NEW M, WellFormed(b, n, M),
           NEW v \in Values \ M, NEW d, FreeAt(b, n, v, d)
    PROVE  WellFormed([b EXCEPT ![Probe(v, d, n)] = v], n, M \cup {v})
<1> DEFINE s == Probe(v, d, n)
           c == [b EXCEPT ![s] = v]
<1>1. n \in Nat \ {0} /\ b \in [0 .. n - 1 -> Values \cup {Empty, Removed}]
  BY DEF WellFormed, IsTable
<1>2. d \in 0 .. n - 1 /\ s \in 0 .. n - 1 /\ b[s] \notin Values
  BY <1>1, ProbeIsSlot DEF FreeAt, SetAssumption
<1>3. \A i \in 0 .. n - 1 : c[i] = IF i = s THEN v ELSE b[i]
  BY <1>1
<1>4. \A i \in 0 .. n - 1 : b[i] # v
  BY <1>1 DEF WellFormed, Holds
<1> HIDE DEF s
<1>5. IsTable(c, n)
  BY <1>1, <1>2 DEF IsTable
<1> HIDE DEF c
<1>6. HeldOnce(c, n)
  BY <1>2, <1>3, <1>4 DEF WellFormed, HeldOnce
<1>7. Holds(c, n, M \cup {v})
  BY <1>2, <1>3, <1>4 DEF WellFormed, Holds
<1>8. Chained(c, n)
  <2> SUFFICES ASSUME NEW u \in Values, NEW k \in 0 .. n - 1, c[Probe(u, k, n)] = u,
                      NEW e \in 0 .. k - 1
               PROVE  c[Probe(u, e, n)] # Empty
    BY DEF Chained
  <2>0. n \in Nat \ {0} /\ e \in 0 .. n - 1
    BY <1>1
  <2>1. Probe(u, e, n) \in 0 .. n - 1 /\ Probe(u, k, n) \in 0 .. n - 1
    BY <2>0, ProbeIsSlot
  <2>2. Empty # v
    BY DEF SetAssumption
  <2>3. CASE u = v
    <3>1. Probe(v, k, n) = s
      BY <2>3, <2>1, <1>3, <1>4
    <3>2. k = d
      BY <3>1, <1>1, <1>2, ProbeInjective DEF s
    <3>3. b[Probe(u, e, n)] # Empty
      BY <3>2, <2>3 DEF FreeAt
    <3> QED BY <3>3, <2>1, <2>2, <1>3
  <2>4. CASE u # v
    <3>1. b[Probe(u, k, n)] = u
      BY <2>4, <2>1, <1>3
    <3>2. b[Probe(u, e, n)] # Empty
      BY <3>1 DEF WellFormed, Chained
    <3> QED BY <3>2, <2>1, <2>2, <1>3
  <2> QED BY <2>3, <2>4
<1> QED BY <1>5, <1>6, <1>7, <1>8 DEF WellFormed, c, s

\* A tombstone in place of an element.
LEMMA RemovalKeepsForm ==
    ASSUME SetAssumption, Hashing, NEW b, NEW n, NEW M, WellFormed(b, n, M),
           NEW v \in Values, NEW s \in 0 .. n - 1, b[s] = v
    PROVE  WellFormed([b EXCEPT ![s] = Removed], n, M \ {v})
<1> DEFINE c == [b EXCEPT ![s] = Removed]
<1>1. n \in Nat \ {0} /\ b \in [0 .. n - 1 -> Values \cup {Empty, Removed}]
  BY DEF WellFormed, IsTable
<1>2. \A i \in 0 .. n - 1 : c[i] = IF i = s THEN Removed ELSE b[i]
  BY <1>1
<1>3. Removed \notin Values /\ Removed # Empty
  BY DEF SetAssumption
<1>4. IsTable(c, n)
  BY <1>1 DEF IsTable
<1> HIDE DEF c
<1>5. HeldOnce(c, n)
  BY <1>2, <1>3 DEF WellFormed, HeldOnce
<1>6. \A i \in 0 .. n - 1 : b[i] = v => i = s
  BY DEF WellFormed, HeldOnce
<1>7. Holds(c, n, M \ {v})
  BY <1>2, <1>3, <1>6 DEF WellFormed, Holds
<1>8. Chained(c, n)
  <2> SUFFICES ASSUME NEW u \in Values, NEW k \in 0 .. n - 1, c[Probe(u, k, n)] = u,
                      NEW e \in 0 .. k - 1
               PROVE  c[Probe(u, e, n)] # Empty
    BY DEF Chained
  <2>0. n \in Nat \ {0} /\ e \in 0 .. n - 1
    BY <1>1
  <2>1. Probe(u, e, n) \in 0 .. n - 1 /\ Probe(u, k, n) \in 0 .. n - 1
    BY <2>0, ProbeIsSlot
  <2>2. b[Probe(u, k, n)] = u
    BY <2>1, <1>2, <1>3
  <2>3. b[Probe(u, e, n)] # Empty
    BY <2>2 DEF WellFormed, Chained
  <2> QED BY <2>1, <2>3, <1>2, <1>3
<1> QED BY <1>4, <1>5, <1>7, <1>8 DEF WellFormed, c

-----------------------------------------------------------------------------
(* Counting slots *)

\* The slots of a table that hold an element, and those that are not empty.
ElementSlots(b, n) == {i \in 0 .. n - 1 : b[i] \in Values}
UsedSlots(b, n) == {i \in 0 .. n - 1 : b[i] \in Values \cup {Removed}}

NoTombstone(b, n) == \A i \in 0 .. n - 1 : b[i] # Removed

\* A table holds its elements in as many slots as there are elements.
LEMMA OneSlotEach ==
    ASSUME SetAssumption, NEW b, NEW n, NEW M, WellFormed(b, n, M)
    PROVE  /\ IsFiniteSet(M) /\ IsFiniteSet(UsedSlots(b, n))
           /\ Cardinality(M) \in Nat /\ Cardinality(UsedSlots(b, n)) \in Nat
           /\ Cardinality(ElementSlots(b, n)) = Cardinality(M)
           /\ Cardinality(M) <= Cardinality(UsedSlots(b, n))
           /\ Cardinality(UsedSlots(b, n)) <= n
<1> DEFINE E == ElementSlots(b, n)
           U == UsedSlots(b, n)
           f == [i \in E |-> b[i]]
<1>1. n \in Nat \ {0} /\ b \in [0 .. n - 1 -> Values \cup {Empty, Removed}]
  BY DEF WellFormed, IsTable
<1>2. IsFiniteSet(0 .. n - 1) /\ Cardinality(0 .. n - 1) = n
  BY <1>1, FS_Interval
<1>3. E \subseteq U /\ U \subseteq 0 .. n - 1
  BY DEF ElementSlots, UsedSlots
<1>4. f \in Bijection(E, M)
  <2>1. \A i \in E : b[i] \in M
    BY <1>1 DEF WellFormed, Holds, ElementSlots
  <2>2. \A i, j \in E : f[i] = f[j] => i = j
    BY DEF WellFormed, HeldOnce, ElementSlots
  <2>3. \A v \in M : \E i \in E : f[i] = v
    BY DEF WellFormed, Holds, ElementSlots
  <2> HIDE DEF E
  <2>4. f \in [E -> M]
    BY <2>1
  <2> HIDE DEF f
  <2>5. f \in Injection(E, M)
    BY <2>2, <2>4 DEF Injection, IsInjective
  <2>6. f \in Surjection(E, M)
    BY <2>3, <2>4 DEF Surjection
  <2> QED BY <2>5, <2>6 DEF Bijection
<1> HIDE DEF E, U
<1>5. IsFiniteSet(U) /\ Cardinality(U) <= n
  BY <1>2, <1>3, FS_Subset
<1>6. IsFiniteSet(E) /\ Cardinality(E) <= Cardinality(U)
  BY <1>3, <1>5, FS_Subset
<1>7. IsFiniteSet(M) /\ Cardinality(M) = Cardinality(E)
  BY <1>4, <1>6, FS_Bijection DEF ExistsBijection
<1>8. Cardinality(M) \in Nat /\ Cardinality(U) \in Nat
  BY <1>5, <1>7, FS_CardinalityType
<1> QED BY <1>5, <1>6, <1>7, <1>8 DEF E, U

\* Without tombstones the slots used are those of the elements.
LEMMA NoneWasted ==
    ASSUME SetAssumption, NEW b, NEW n, NEW M, WellFormed(b, n, M), NoTombstone(b, n)
    PROVE  Cardinality(UsedSlots(b, n)) = Cardinality(M)
<1>1. UsedSlots(b, n) = ElementSlots(b, n)
  BY DEF UsedSlots, ElementSlots, NoTombstone
<1> QED BY <1>1, OneSlotEach

\* A table with fewer used slots than slots has an empty one.
LEMMA RoomLeft ==
    ASSUME NEW b, NEW n, IsTable(b, n), Cardinality(UsedSlots(b, n)) < n
    PROVE  \E i \in 0 .. n - 1 : b[i] = Empty
<1> SUFFICES ASSUME \A i \in 0 .. n - 1 : b[i] # Empty PROVE FALSE
  OBVIOUS
<1>1. n \in Nat \ {0}
  BY DEF IsTable
<1>2. UsedSlots(b, n) = 0 .. n - 1
  BY DEF IsTable, UsedSlots
<1>3. Cardinality(0 .. n - 1) = n
  BY <1>1, FS_Interval
<1> QED BY <1>1, <1>2, <1>3

\* A search stops at the latest at an empty slot.
LEMMA EmptyStops ==
    ASSUME Hashing, NEW b, NEW n, IsTable(b, n), NEW i \in 0 .. n - 1, b[i] = Empty,
           NEW v \in Values
    PROVE  Stops(b, n, v) # {}
<1>1. n \in Nat \ {0}
  BY DEF IsTable
<1>2. PICK d \in 0 .. n - 1 : Probe(v, d, n) = i
  BY <1>1, ProbeSurjective
<1> QED BY <1>2 DEF Stops

-----------------------------------------------------------------------------
(* Re-hashing *)

\* Putting an element at its first empty slot keeps a table without tombstones in form.
LEMMA PlaceKeepsForm ==
    ASSUME SetAssumption, Hashing, NEW b, NEW n, NEW M, WellFormed(b, n, M),
           NoTombstone(b, n), NEW v \in Values \ M, Cardinality(M) < n
    PROVE  WellFormed(Place(b, n, v), n, M \cup {v}) /\ NoTombstone(Place(b, n, v), n)
<1> DEFINE S == {e \in 0 .. n - 1 : b[Probe(v, e, n)] = Empty}
           d == Least(S)
<1>1. n \in Nat \ {0} /\ b \in [0 .. n - 1 -> Values \cup {Empty, Removed}] /\ IsTable(b, n)
  BY DEF WellFormed, IsTable
<1>2. PICK i \in 0 .. n - 1 : b[i] = Empty
  BY <1>1, NoneWasted, RoomLeft
<1>3. PICK e \in 0 .. n - 1 : Probe(v, e, n) = i
  BY <1>1, ProbeSurjective
<1>4. S \in SUBSET Nat /\ S # {}
  <2>1. e \in S
    BY <1>2, <1>3
  <2>2. S \subseteq 0 .. n - 1
    OBVIOUS
  <2> HIDE DEF S
  <2> QED BY <1>1, <2>1, <2>2
<1>5. d \in S /\ \A k \in S : d <= k
  <2> HIDE DEF S
  <2> QED BY <1>4, LeastIsLeast
<1> HIDE DEF d
<1>6. FreeAt(b, n, v, d)
  <2>1. \A k \in 0 .. d - 1 : k \in 0 .. n - 1 /\ ~(d <= k)
    BY <1>1, <1>5
  <2> QED BY <1>5, <2>1 DEF FreeAt
<1>7. Place(b, n, v) = [b EXCEPT ![Probe(v, d, n)] = v]
  BY DEF Place, d
<1>8. WellFormed(Place(b, n, v), n, M \cup {v})
  <2>1. WellFormed([b EXCEPT ![Probe(v, d, n)] = v], n, M \cup {v})
    BY <1>6, InsertionKeepsForm
  <2> QED BY <1>7, <2>1
<1>9. NoTombstone(Place(b, n, v), n)
  BY <1>1, <1>7 DEF NoTombstone, SetAssumption
<1> QED BY <1>8, <1>9

\* A fresh table holds no element.
LEMMA BlankIsEmpty ==
    ASSUME SetAssumption, NEW n \in Nat \ {0}, Hashing
    PROVE  WellFormed(Blank(n), n, {}) /\ NoTombstone(Blank(n), n)
<1>1. Blank(n) \in [0 .. n - 1 -> {Empty}]
  BY DEF Blank
<1>2. \A v \in Values, d \in 0 .. n - 1 : Blank(n)[Probe(v, d, n)] = Empty
  BY <1>1, ProbeIsSlot
<1>3. IsTable(Blank(n), n) /\ HeldOnce(Blank(n), n) /\ Holds(Blank(n), n, {})
  BY <1>1 DEF IsTable, HeldOnce, Holds, SetAssumption
<1>4. Chained(Blank(n), n)
  BY <1>2 DEF Chained, SetAssumption
<1>5. NoTombstone(Blank(n), n)
  BY <1>1 DEF NoTombstone, SetAssumption
<1> QED BY <1>3, <1>4, <1>5 DEF WellFormed

\* The table after i slots of the old one have been moved.
MovedBy(b, n, f) ==
    /\ f \in [0 .. capacity -> [0 .. n - 1 -> Values \cup {Empty, Removed}]]
    /\ f[0] = Blank(n)
    /\ \A i \in 1 .. capacity :
          f[i] = IF b[i - 1] \in Values THEN Place(f[i - 1], n, b[i - 1]) ELSE f[i - 1]

\* The loop over the old slots computes such tables.
LEMMA RehashMoves ==
    ASSUME SetAssumption, NEW b, NEW n \in Nat \ {0}, capacity \in Nat
    PROVE  \E f : MovedBy(b, n, f) /\ Rehash(b, n) = f[capacity]
<1> DEFINE X == [0 .. n - 1 -> Values \cup {Empty, Removed}]
           After(i, t) == IF b[i - 1] \in Values THEN Place(t, n, b[i - 1]) ELSE t
           step == [i \in 1 .. capacity |-> [t \in X |-> After(i, t)]]
           Table(f) == f = [i \in 0 .. capacity |->
                              IF i = 0 THEN Blank(n)
                              ELSE IF b[i - 1] \in Values THEN Place(f[i - 1], n, b[i - 1])
                              ELSE f[i - 1]]
           moved == CHOOSE f : Table(f)
<1>1. Blank(n) \in X
  BY DEF Blank
<1>2. \A i \in 1 .. capacity, t \in X : After(i, t) \in X
  BY DEF Place
<1>3. IsStep(step, capacity, X)
  <2> HIDE DEF X, After
  <2> QED BY <1>2 DEF IsStep
<1>4. \A i \in 1 .. capacity, t \in X : step[i][t] = After(i, t)
  <2> HIDE DEF X, After
  <2> QED OBVIOUS
<1>5. PICK g : Computes(g, capacity, X, Blank(n), step)
  <2> HIDE DEF X, step
  <2> QED BY <1>1, <1>3, RecursiveFunctionExists
<1>6. \A i \in 1 .. capacity : g[i] = After(i, g[i - 1])
  <2>1. \A i \in 1 .. capacity : g[i - 1] \in X
    <3> HIDE DEF X
    <3> QED BY <1>5 DEF Computes
  <2> HIDE DEF X, step, After
  <2> QED BY <1>4, <1>5, <2>1 DEF Computes
<1>7. Table(g)
  <2> HIDE DEF X, step
  <2> QED BY <1>5, <1>6 DEF Computes
<1>8. Table(moved)
  <2> HIDE DEF Table
  <2> QED BY <1>7
<1>9. Rehash(b, n) = moved[capacity]
  BY DEF Rehash
<1> HIDE DEF moved
<1>10. moved = g
  <2>1. moved[0] = g[0] /\ \A i \in 1 .. capacity : moved[i] = After(i, moved[i - 1])
    BY <1>5, <1>8 DEF Computes
  <2> DEFINE T == {i \in 0 .. capacity : moved[i] = g[i]}
  <2>2. 0 \in T
    BY <2>1
  <2>3. \A i \in 0 .. capacity - 1 : i \in T => i + 1 \in T
    <3> SUFFICES ASSUME NEW i \in 0 .. capacity - 1, moved[i] = g[i]
                 PROVE  moved[i + 1] = g[i + 1]
      OBVIOUS
    <3>1. i + 1 \in 1 .. capacity /\ (i + 1) - 1 = i
      OBVIOUS
    <3> HIDE DEF After
    <3> QED BY <3>1, <2>1, <1>6
  <2>4. 0 .. capacity \subseteq T
    <3> HIDE DEF T
    <3> QED BY <2>2, <2>3, InductionUpTo
  <2>5. DOMAIN moved = 0 .. capacity /\ moved = [i \in 0 .. capacity |-> moved[i]]
    BY <1>8
  <2>6. g = [i \in 0 .. capacity |-> g[i]]
    BY <1>5 DEF Computes
  <2> QED BY <2>4, <2>5, <2>6
<1>11. MovedBy(b, n, g)
  BY <1>5, <1>6 DEF MovedBy, Computes
<1> QED BY <1>9, <1>10, <1>11

\* A table re-hashed into n slots that suffice holds the same elements, without tombstones.
LEMMA RehashKeepsForm ==
    ASSUME SetAssumption, Hashing, NEW b, NEW M, WellFormed(b, capacity, M),
           NEW n \in Nat \ {0}, Cardinality(M) <= n
    PROVE  WellFormed(Rehash(b, n), n, M) /\ NoTombstone(Rehash(b, n), n)
<1>1. capacity \in Nat \ {0} /\ b \in [0 .. capacity - 1 -> Values \cup {Empty, Removed}]
  BY DEF WellFormed, IsTable
<1>2. PICK f : MovedBy(b, n, f) /\ Rehash(b, n) = f[capacity]
  BY <1>1, RehashMoves
<1> DEFINE Upto(i) == {v \in Values : \E j \in 0 .. i - 1 : b[j] = v}
           T == {i \in 0 .. capacity : WellFormed(f[i], n, Upto(i)) /\ NoTombstone(f[i], n)}
<1>3. Upto(capacity) = M
  BY DEF WellFormed, Holds
<1>4. 0 \in T
  <2>1. Upto(0) = {}
    OBVIOUS
  <2> HIDE DEF Upto
  <2>2. f[0] = Blank(n) /\ 0 \in 0 .. capacity
    BY <1>1, <1>2 DEF MovedBy
  <2> QED BY <2>1, <2>2, BlankIsEmpty
<1>5. \A i \in 0 .. capacity - 1 : i \in T => i + 1 \in T
  <2> SUFFICES ASSUME NEW i \in 0 .. capacity - 1,
                      WellFormed(f[i], n, Upto(i)), NoTombstone(f[i], n)
               PROVE  WellFormed(f[i + 1], n, Upto(i + 1)) /\ NoTombstone(f[i + 1], n)
    <3>1. \A i \in 0 .. capacity - 1 : i + 1 \in 0 .. capacity
      BY <1>1
    <3> HIDE DEF Upto
    <3> QED BY <3>1
  <2>1. i + 1 \in 1 .. capacity /\ (i + 1) - 1 = i /\ i \in 0 .. capacity - 1
    BY <1>1
  <2>2. f[i + 1] = IF b[i] \in Values THEN Place(f[i], n, b[i]) ELSE f[i]
    BY <2>1, <1>2 DEF MovedBy
  <2>3. \A j : j \in 0 .. (i + 1) - 1 <=> j \in 0 .. i - 1 \/ j = i
    BY <2>1
  <2>4. CASE b[i] \notin Values
    <3>1. Upto(i + 1) = Upto(i)
      BY <2>3, <2>4
    <3> QED BY <2>2, <2>4, <3>1
  <2>5. CASE b[i] \in Values
    <3>1. Upto(i + 1) = Upto(i) \cup {b[i]}
      BY <2>3, <2>5
    <3>2. b[i] \notin Upto(i)
      BY <2>5, <1>1 DEF WellFormed, HeldOnce
    <3>3. Upto(i + 1) \subseteq M
      BY <2>1, <1>1 DEF WellFormed, Holds
    <3>4. IsFiniteSet(M) /\ Cardinality(M) \in Nat
      BY OneSlotEach
    <3>5. IsFiniteSet(Upto(i)) /\ Cardinality(Upto(i)) \in Nat
      BY OneSlotEach
    <3>6. Cardinality(Upto(i + 1)) = Cardinality(Upto(i)) + 1
      <4> HIDE DEF Upto
      <4> QED BY <3>1, <3>2, <3>5, FS_AddElement
    <3>7. Cardinality(Upto(i + 1)) <= Cardinality(M)
      BY <3>3, <3>4, FS_Subset
    <3> HIDE DEF Upto
    <3>8. Cardinality(Upto(i)) < n
      BY <3>4, <3>5, <3>6, <3>7
    <3>9. f[i + 1] = Place(f[i], n, b[i])
      BY <2>2, <2>5
    <3>10. b[i] \in Values \ Upto(i)
      BY <3>2, <2>5
    <3> QED BY <3>1, <3>8, <3>9, <3>10, PlaceKeepsForm
  <2> QED BY <2>4, <2>5
<1>6. capacity \in T
  <2>1. 0 .. capacity \subseteq T
    <3> HIDE DEF T
    <3> QED BY <1>1, <1>4, <1>5, InductionUpTo
  <2>2. capacity \in 0 .. capacity
    BY <1>1
  <2> HIDE DEF T
  <2> QED BY <2>1, <2>2
<1> QED BY <1>2, <1>3, <1>6

-----------------------------------------------------------------------------
(* The inductive invariant *)

\* The capacities there are: 2^0 to 2^30.
Powers ==
    {1, 2, 4, 8, 16, 32, 64, 128, 256, 512, 1024, 2048, 4096, 8192, 16384, 32768, 65536,
     131072, 262144, 524288, 1048576, 2097152, 4194304, 8388608, 16777216, 33554432,
     67108864, 134217728, 268435456, 536870912, 1073741824}

\* One slot more than three quarters of them is used at the most: set_add doubles a
\* table when three quarters are, and then uses one.
NotFull == 4 * used < 3 * capacity + 4

TableInv ==
    /\ TypeOK
    /\ capacity \in Powers
    /\ WellFormed(buckets, capacity, members)
    /\ count = Cardinality(members)
    /\ used = Cardinality(UsedSlots(buckets, capacity))
    /\ NotFull

\* The powers of two up to 2^30, and what doubling and halving make of them.
LEMMA PowersOfTwo ==
    /\ \A c \in Powers : \E k \in 0 .. 30 : c = 2 ^ k
    /\ Powers \subseteq Nat \ {0}
    /\ \A c \in Powers : c < 1073741824 => 2 * c \in Powers
    /\ \A c \in Powers : c >= 2 => c \div 2 \in Powers
    /\ \A c \in Powers : c > 2 => c >= 4
<1>1. Powers \subseteq Nat \ {0}
  BY DEF Powers
<1>2. \A c \in Powers : c < 1073741824 => 2 * c \in Powers
  BY DEF Powers
<1>3. \A c \in Powers : c >= 2 => c \div 2 \in Powers
  BY DEF Powers
<1>4. \A c \in Powers : c > 2 => c >= 4
  BY DEF Powers
<1>5. \A c \in Powers : \E k \in 0 .. 30 : c = 2 ^ k
  <2>1. /\ 2 ^ 0 = 1 /\ 2 ^ 1 = 2 /\ 2 ^ 2 = 4 /\ 2 ^ 3 = 8 /\ 2 ^ 4 = 16 /\ 2 ^ 5 = 32
        /\ 2 ^ 6 = 64 /\ 2 ^ 7 = 128 /\ 2 ^ 8 = 256 /\ 2 ^ 9 = 512 /\ 2 ^ 10 = 1024
        /\ 2 ^ 11 = 2048 /\ 2 ^ 12 = 4096 /\ 2 ^ 13 = 8192 /\ 2 ^ 14 = 16384
        /\ 2 ^ 15 = 32768 /\ 2 ^ 16 = 65536 /\ 2 ^ 17 = 131072 /\ 2 ^ 18 = 262144
        /\ 2 ^ 19 = 524288 /\ 2 ^ 20 = 1048576 /\ 2 ^ 21 = 2097152
        /\ 2 ^ 22 = 4194304 /\ 2 ^ 23 = 8388608 /\ 2 ^ 24 = 16777216
        /\ 2 ^ 25 = 33554432 /\ 2 ^ 26 = 67108864 /\ 2 ^ 27 = 134217728
        /\ 2 ^ 28 = 268435456 /\ 2 ^ 29 = 536870912 /\ 2 ^ 30 = 1073741824
    OBVIOUS
  <2> SUFFICES ASSUME NEW c \in Powers PROVE \E k \in 0 .. 30 : c = 2 ^ k
    OBVIOUS
  <2>2. \/ c \in {2 ^ 0, 2 ^ 1, 2 ^ 2, 2 ^ 3, 2 ^ 4, 2 ^ 5, 2 ^ 6, 2 ^ 7, 2 ^ 8, 2 ^ 9}
        \/ c \in {2 ^ 10, 2 ^ 11, 2 ^ 12, 2 ^ 13, 2 ^ 14, 2 ^ 15, 2 ^ 16, 2 ^ 17, 2 ^ 18}
        \/ c \in {2 ^ 19, 2 ^ 20, 2 ^ 21, 2 ^ 22, 2 ^ 23, 2 ^ 24, 2 ^ 25, 2 ^ 26, 2 ^ 27}
        \/ c \in {2 ^ 28, 2 ^ 29, 2 ^ 30}
    BY <2>1 DEF Powers
  <2> QED BY <2>2
<1> QED BY <1>1, <1>2, <1>3, <1>4, <1>5

\* The hash function stays, so that a table in form is so in the next state too.
LEMMA SameHash ==
    ASSUME hash' = hash, WellFormed(buckets', capacity', members')
    PROVE  WellFormed(buckets, capacity, members)'
BY DEF WellFormed, IsTable, HeldOnce, Holds, Chained, Probe

\* The hash function is one of the functions considered.
LEMMA TypeGivesHashing ==
    ASSUME SetAssumption, TypeOK
    PROVE  Hashing
BY DEF SetAssumption, TypeOK, Hashing

\* set_init makes a table in form.
LEMMA InitTable ==
    ASSUME SetAssumption, Init
    PROVE  TableInv
<1>1. Hashing
  BY DEF SetAssumption, Init, Hashing
<1>2. WellFormed(buckets, capacity, members) /\ NoTombstone(buckets, capacity)
  BY <1>1, BlankIsEmpty DEF Init
<1>3. Cardinality(UsedSlots(buckets, capacity)) = Cardinality(members)
  BY <1>2, NoneWasted
<1>4. Cardinality(members) = 0
  BY FS_EmptySet DEF Init
<1>5. TypeOK
  BY <1>2 DEF TypeOK, Init, WellFormed, IsTable
<1>6. capacity \in Powers /\ NotFull
  BY DEF Init, Powers, NotFull
<1> QED BY <1>2, <1>3, <1>4, <1>5, <1>6 DEF TableInv, Init

\* Inserting into a table that is not crowded: table b of n slots, u of them used.
LEMMA InsertKeepsTable ==
    ASSUME SetAssumption, TypeOK, hash' = hash, count = Cardinality(members),
           NEW v \in Values, NEW b, NEW n \in Powers, NEW u, WellFormed(b, n, members),
           u = Cardinality(UsedSlots(b, n)), 4 * u < 3 * n, Insert(v, b, n, u)
    PROVE  TableInv'
<1>1. Hashing
  BY TypeGivesHashing
<1>2. n \in Nat \ {0} /\ b \in [0 .. n - 1 -> Values \cup {Empty, Removed}]
  BY DEF WellFormed, IsTable
<1>3. /\ IsFiniteSet(members) /\ IsFiniteSet(UsedSlots(b, n))
      /\ count \in Nat /\ u \in Nat
  BY OneSlotEach
<1>4. 4 * u < 3 * n + 4
  BY <1>2, <1>3
<1>5. phase' \in {"ready", "looping", "exited", "destroyed"}
  BY DEF Insert, TypeOK
<1>6. CASE buckets' = b /\ capacity' = n /\ used' = u /\ UNCHANGED <<count, members>>
  <2>1. WellFormed(buckets, capacity, members)'
    BY <1>6, SameHash
  <2>2. TypeOK'
    BY <1>2, <1>5, <1>6 DEF TypeOK
  <2> QED BY <1>4, <1>6, <2>1, <2>2 DEF TableInv, NotFull, UsedSlots
<1>7. CASE /\ Stops(b, n, v) # {} /\ b[FindSlot(b, n, v)] # v
           /\ buckets' = [b EXCEPT ![FindSlot(b, n, v)] = v] /\ capacity' = n
           /\ used' = UsedAfter(b, FindSlot(b, n, v), u)
           /\ count' = count + 1 /\ members' = members \cup {v}
  <2> DEFINE s == FindSlot(b, n, v)
  <2>1. /\ s \in 0 .. n - 1 /\ v \notin members
        /\ \E d \in 0 .. n - 1 : FreeAt(b, n, v, d) /\ s = Probe(v, d, n)
    BY <1>1, <1>7, SearchStops
  <2>2. PICK d \in 0 .. n - 1 : FreeAt(b, n, v, d) /\ s = Probe(v, d, n)
    BY <2>1
  <2>3. WellFormed(buckets', n, members')
    BY <1>1, <1>7, <2>1, <2>2, InsertionKeepsForm
  <2>4. WellFormed(buckets, capacity, members)'
    BY <1>7, <2>3, SameHash
  <2>5. count' = Cardinality(members')
    BY <1>3, <1>7, <2>1, FS_AddElement
  <2>6. UsedSlots(buckets', n) = UsedSlots(b, n) \cup {s}
    BY <1>2, <1>7, <2>1 DEF UsedSlots
  <2>7. s \in UsedSlots(b, n) <=> b[s] # Empty
    BY <1>2, <2>1 DEF UsedSlots, SetAssumption
  <2>8. used' = Cardinality(UsedSlots(buckets', n))
    BY <1>3, <1>7, <2>6, <2>7, FS_AddElement DEF UsedAfter
  <2>9. UsedSlots(buckets, capacity)' = UsedSlots(buckets', n)
    BY <1>7 DEF UsedSlots
  <2>10. used' \in {u, u + 1}
    BY <1>7 DEF UsedAfter
  <2>11. NotFull'
    <3>1. 4 * u < 3 * n /\ u \in Nat /\ n \in Nat /\ capacity' = n
      BY <1>2, <1>3, <1>7
    <3>2. 4 * used' < 3 * capacity' + 4
      <4>1. PICK x : x = used'
        OBVIOUS
      <4>2. x \in Nat /\ x <= u + 1
        BY <2>10, <3>1, <4>1
      <4>3. 4 * x < 3 * n + 4
        BY <3>1, <4>2
      <4> QED BY <3>1, <4>1, <4>3
    <3> QED BY <3>2 DEF NotFull
  <2>12. TypeOK'
    <3>1. buckets' \in [0 .. n - 1 -> Values \cup {Empty, Removed}]
      BY <2>3 DEF WellFormed, IsTable
    <3>2. members' \subseteq Values
      BY <1>7 DEF TypeOK
    <3> QED BY <3>1, <3>2, <1>5, <1>7 DEF TypeOK
  <2> QED BY <1>7, <2>4, <2>5, <2>8, <2>9, <2>11, <2>12 DEF TableInv
<1> QED BY <1>6, <1>7 DEF Insert

\* set_add keeps it so, growing or not,
LEMMA PutKeepsTable ==
    ASSUME SetAssumption, TableInv, NEW v \in Values, Put(v)
    PROVE  TableInv'
<1>1. TypeOK /\ Hashing /\ hash' = hash
  BY TypeGivesHashing DEF TableInv, Put
<1>2. /\ capacity \in Powers /\ capacity \in Nat \ {0} /\ NotFull
      /\ WellFormed(buckets, capacity, members)
      /\ count = Cardinality(members) /\ used = Cardinality(UsedSlots(buckets, capacity))
  BY PowersOfTwo DEF TableInv
<1>3. count \in Nat /\ used \in Nat /\ count <= used /\ used <= capacity
  BY <1>2, OneSlotEach
<1>4. CASE Crowded /\ capacity < MaxCapacity
             /\ Insert(v, Rehash(buckets, 2 * capacity), 2 * capacity, count)
  <2> DEFINE n == 2 * capacity
             b == Rehash(buckets, n)
  <2>1. n \in Powers /\ n \in Nat \ {0}
    <3>1. capacity < 1073741824
      BY <1>2, <1>4 DEF SetAssumption
    <3> QED BY <3>1, <1>2, PowersOfTwo
  <2>2. count <= n
    BY <1>2, <1>3
  <2>3. WellFormed(b, n, members) /\ NoTombstone(b, n)
    BY <1>1, <1>2, <2>1, <2>2, RehashKeepsForm
  <2>4. count = Cardinality(UsedSlots(b, n))
    BY <1>2, <2>3, NoneWasted
  <2>5. 4 * count < 3 * n
    BY <1>2, <1>3 DEF NotFull
  <2> HIDE DEF n, b
  <2>6. Insert(v, b, n, count)
    BY <1>4 DEF n, b
  <2> QED BY <1>1, <1>2, <2>1, <2>3, <2>4, <2>5, <2>6, InsertKeepsTable
<1>5. CASE phase' = "exited" /\ UNCHANGED <<buckets, capacity, count, used, members>>
  <2>1. WellFormed(buckets, capacity, members)'
    BY <1>1, <1>2, <1>5, SameHash
  <2>2. TypeOK'
    BY <1>1, <1>5 DEF TypeOK
  <2> QED BY <1>2, <1>5, <2>1, <2>2 DEF TableInv, NotFull, UsedSlots
<1>6. CASE ~Crowded /\ Insert(v, buckets, capacity, used)
  <2>1. 4 * used < 3 * capacity
    BY <1>2, <1>3, <1>6 DEF Crowded
  <2> QED BY <1>1, <1>2, <1>6, <2>1, InsertKeepsTable
<1> QED BY <1>4, <1>5, <1>6 DEF Put

\* set_remove too, shrinking or not,
LEMMA DelKeepsTable ==
    ASSUME SetAssumption, TableInv, NEW v \in Values, Del(v)
    PROVE  TableInv'
<1> DEFINE s == FindSlot(buckets, capacity, v)
           n == capacity \div 2
           c == Without(s)
           M == members \ {v}
<1>1. TypeOK /\ Hashing /\ hash' = hash /\ phase' = phase
  BY TypeGivesHashing DEF TableInv, Del
<1>2. /\ capacity \in Powers /\ capacity \in Nat \ {0} /\ NotFull
      /\ WellFormed(buckets, capacity, members)
      /\ count = Cardinality(members) /\ used = Cardinality(UsedSlots(buckets, capacity))
  BY PowersOfTwo DEF TableInv
<1>3. count \in Nat /\ used \in Nat /\ IsFiniteSet(members)
  BY <1>2, OneSlotEach
<1>4. Stops(buckets, capacity, v) # {} /\ buckets[s] = v
  BY DEF Del
<1>5. s \in 0 .. capacity - 1 /\ v \in members
  BY <1>1, <1>2, <1>4, SearchStops
<1>6. WellFormed(c, capacity, M)
  <2> HIDE DEF s
  <2> QED BY <1>1, <1>2, <1>4, <1>5, RemovalKeepsForm DEF Without
<1>7. count - 1 = Cardinality(M) /\ count - 1 \in Nat
  <2>1. Cardinality(M) = count - 1
    BY <1>2, <1>3, <1>5, FS_RemoveElement
  <2>2. Cardinality(M) \in Nat
    BY <1>6, OneSlotEach
  <2> QED BY <2>1, <2>2
<1>8. count' = count - 1 /\ members' = M
  BY DEF Del
<1>9. CASE buckets' = c /\ UNCHANGED <<capacity, used>>
  <2>1. WellFormed(buckets, capacity, members)'
    BY <1>1, <1>6, <1>8, <1>9, SameHash
  <2>2. UsedSlots(c, capacity) = UsedSlots(buckets, capacity)
    <3> HIDE DEF s
    <3> QED BY <1>2, <1>4, <1>5 DEF Without, UsedSlots, WellFormed, IsTable
  <2>3. TypeOK'
    BY <1>1, <1>6, <1>8, <1>9 DEF TypeOK, WellFormed, IsTable
  <2> HIDE DEF c, M
  <2> QED BY <1>2, <1>7, <1>8, <1>9, <2>1, <2>2, <2>3 DEF TableInv, NotFull, UsedSlots
<1>10. CASE /\ Shrinks(count - 1) /\ buckets' = Rehash(c, n)
            /\ capacity' = n /\ used' = count - 1
  <2>1. 4 * (count - 1) < 3 * n
    BY <1>10 DEF Shrinks
  <2>2. capacity >= 2
    BY <1>2, <1>7, <2>1
  <2>3. n \in Powers /\ n \in Nat \ {0}
    BY <1>2, <2>2, PowersOfTwo
  <2>4. count - 1 <= n
    BY <1>7, <2>1, <2>3
  <2> HIDE DEF s, n, c, M
  <2>5. WellFormed(Rehash(c, n), n, M) /\ NoTombstone(Rehash(c, n), n)
    BY <1>1, <1>6, <1>7, <2>3, <2>4, RehashKeepsForm
  <2>6. WellFormed(buckets, capacity, members)'
    BY <1>1, <1>8, <1>10, <2>5, SameHash
  <2>7. Cardinality(UsedSlots(Rehash(c, n), n)) = count - 1
    BY <1>7, <2>5, NoneWasted
  <2>8. UsedSlots(buckets, capacity)' = UsedSlots(Rehash(c, n), n)
    BY <1>10 DEF UsedSlots
  <2>9. TypeOK'
    <3>1. M \subseteq Values
      BY <1>1 DEF TypeOK, M
    <3> QED BY <3>1, <1>1, <1>8, <1>10, <2>5 DEF TypeOK, WellFormed, IsTable
  <2>10. NotFull'
    BY <1>7, <1>10, <2>1, <2>3 DEF NotFull
  <2> QED BY <1>7, <1>8, <1>10, <2>3, <2>6, <2>7, <2>8, <2>9, <2>10 DEF TableInv
<1> QED BY <1>9, <1>10 DEF Del

\* and set_destroy.
LEMMA DestroyKeepsTable ==
    ASSUME SetAssumption, TableInv, Destroy
    PROVE  TableInv'
<1>1. TypeOK /\ Hashing /\ hash' = hash
  BY TypeGivesHashing DEF TableInv, Destroy
<1>2. WellFormed(Blank(1), 1, {}) /\ NoTombstone(Blank(1), 1)
  BY <1>1, BlankIsEmpty
<1>3. Cardinality(UsedSlots(Blank(1), 1)) = 0 /\ Cardinality({}) = 0
  BY <1>2, NoneWasted, FS_EmptySet
<1>4. /\ phase' = "destroyed" /\ buckets' = Blank(1) /\ capacity' = 1 /\ count' = 0
      /\ used' = 0 /\ members' = {}
  BY DEF Destroy
<1>5. WellFormed(buckets, capacity, members)'
  BY <1>1, <1>2, <1>4, SameHash
<1>6. TypeOK'
  BY <1>1, <1>2, <1>4 DEF TypeOK, WellFormed, IsTable
<1>7. UsedSlots(buckets, capacity)' = UsedSlots(Blank(1), 1)
  BY <1>4 DEF UsedSlots
<1>8. capacity' \in Powers /\ NotFull'
  BY <1>4 DEF Powers, NotFull
<1> QED BY <1>3, <1>4, <1>5, <1>6, <1>7, <1>8 DEF TableInv

\* A step that changes the phase at the most.
LEMMA StillTable ==
    ASSUME SetAssumption, TableInv, UNCHANGED <<buckets, capacity, count, used, hash, members>>,
           phase' \in {"ready", "looping", "exited", "destroyed"}
    PROVE  TableInv'
<1>1. WellFormed(buckets, capacity, members)'
  BY SameHash DEF TableInv
<1>2. TypeOK'
  BY DEF TableInv, TypeOK
<1> QED BY <1>1, <1>2 DEF TableInv, NotFull, UsedSlots

\* Every step keeps the invariant.
LEMMA NextTable ==
    ASSUME SetAssumption, TableInv, [Next]_vars
    PROVE  TableInv'
<1>1. ASSUME NEW v \in Values, Put(v) PROVE TableInv'
  BY <1>1, PutKeepsTable
<1>2. ASSUME NEW v \in Values, Del(v) PROVE TableInv'
  BY <1>2, DelKeepsTable
<1>3. ASSUME NEW v \in Values, LookupLoops(v) PROVE TableInv'
  BY <1>3, StillTable DEF LookupLoops
<1>4. CASE Destroy
  BY <1>4, DestroyKeepsTable
<1>5. CASE UNCHANGED vars
  <2>1. phase' \in {"ready", "looping", "exited", "destroyed"}
    BY <1>5 DEF vars, TableInv, TypeOK
  <2> QED BY <1>5, <2>1, StillTable DEF vars
<1> QED BY <1>1, <1>2, <1>3, <1>4, <1>5 DEF Next, Stuck

\* However a set is used, its table is in form.
THEOREM TableIsInForm == Spec => []TableInv
<1>1. Init => TableInv
  BY SetAssumption, InitTable
<1>2. TableInv /\ [Next]_vars => TableInv'
  BY SetAssumption, NextTable
<1> QED BY <1>1, <1>2, PTL DEF Spec

-----------------------------------------------------------------------------
(* The properties *)

\* The slots of the properties are those of the table.
LEMMA SlotsAreSlots ==
    ASSUME TableInv, NEW S
    PROVE  SlotsHolding(S) = {i \in 0 .. capacity - 1 : buckets[i] \in S}
BY DEF TableInv, TypeOK, SlotsHolding

\* Each element of the set is in exactly one slot, however adds, removes, re-used
\* tombstones and re-hashes alternate.
THEOREM EachElementInOneSlot == Spec => []ElementsInOneSlot
<1>1. TableInv => ElementsInOneSlot
  <2> SUFFICES ASSUME TableInv, NEW v \in Values
               PROVE  Cardinality(SlotsHolding({v})) = (IF v \in members THEN 1 ELSE 0)
    BY DEF ElementsInOneSlot
  <2>1. SlotsHolding({v}) = {i \in 0 .. capacity - 1 : buckets[i] = v}
    BY SlotsAreSlots
  <2>2. CASE v \in members
    <3>1. PICK i \in 0 .. capacity - 1 : buckets[i] = v
      BY <2>2 DEF TableInv, WellFormed, Holds
    <3>2. SlotsHolding({v}) = {i}
      BY <2>1, <3>1 DEF TableInv, WellFormed, HeldOnce
    <3> QED BY <2>2, <3>2, FS_Singleton
  <2>3. CASE v \notin members
    <3>1. SlotsHolding({v}) = {}
      BY <2>1, <2>3 DEF TableInv, WellFormed, Holds
    <3> QED BY <2>3, <3>1, FS_EmptySet
  <2> QED BY <2>2, <2>3
<1> QED BY <1>1, TableIsInForm, PTL

\* The load that decides on growing and shrinking is the real one, and the capacity
\* stays a power of two.
THEOREM CountsAreRight == Spec => []CountsMatchSlots
<1>1. TableInv => CountsMatchSlots
  <2> SUFFICES ASSUME TableInv PROVE CountsMatchSlots
    OBVIOUS
  <2>1. SlotsHolding(Values \cup {Removed}) = UsedSlots(buckets, capacity)
    BY SlotsAreSlots DEF UsedSlots
  <2>2. \E k \in 0 .. 30 : capacity = 2 ^ k
    BY PowersOfTwo DEF TableInv
  <2> QED BY <2>1, <2>2 DEF TableInv, CountsMatchSlots
<1> QED BY <1>1, TableIsInForm, PTL

\* A search that ends tells members from other values.
THEOREM SearchesAreRight == Spec => []SearchFindsMembers
<1>1. TableInv => SearchFindsMembers
  <2> SUFFICES ASSUME TableInv, NEW v \in Values, Stops(buckets, capacity, v) # {}
               PROVE  buckets[FindSlot(buckets, capacity, v)] = v <=> v \in members
    BY DEF SearchFindsMembers
  <2>1. Hashing /\ WellFormed(buckets, capacity, members)
    BY SetAssumption, TypeGivesHashing DEF TableInv
  <2> QED BY <2>1, SetAssumption, SearchStops
<1> QED BY <1>1, TableIsInForm, PTL

\* A table of four slots or more, or one that set_add does not double, has an empty
\* slot, at which every search ends.
THEOREM SearchesEnd == Spec => []SearchesEndFromFour
<1>1. TableInv => SearchesEndFromFour
  <2> SUFFICES ASSUME TableInv, capacity > 2 \/ ~Crowded
               PROVE  SlotsHolding({Empty}) # {}
    BY DEF SearchesEndFromFour
  <2>1. /\ WellFormed(buckets, capacity, members) /\ NotFull /\ capacity \in Powers
        /\ used = Cardinality(UsedSlots(buckets, capacity))
    BY DEF TableInv
  <2>2. capacity \in Nat \ {0} /\ (capacity > 2 => capacity >= 4)
    BY <2>1, PowersOfTwo
  <2>3. used \in Nat
    BY <2>1, SetAssumption, OneSlotEach
  <2>4. used < capacity
    BY <2>1, <2>2, <2>3 DEF NotFull, Crowded
  <2>5. \E i \in 0 .. capacity - 1 : buckets[i] = Empty
    BY <2>1, <2>4, RoomLeft DEF WellFormed
  <2> QED BY <2>5, SlotsAreSlots
<1> QED BY <1>1, TableIsInForm, PTL
=============================================================================
