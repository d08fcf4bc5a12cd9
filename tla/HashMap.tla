------------------------------ MODULE HashMap -------------------------------
(***************************************************************************)
(* The chained hash map of src/hashmap.c: buckets of linked nodes, copies  *)
(* of string keys and values, doubling at three quarters of the buckets    *)
(* and halving at one quarter, with any allocation liable to fail.         *)
(*                                                                         *)
(* A key or a value is a variant; equal variants are the same element here *)
(* and have the same hash (a NaN equals itself and -0.0 equals 0.0).  The  *)
(* text of a string is heap memory, counted in `heap'.                     *)
(***************************************************************************)
EXTENDS Integers, Sequences, FiniteSets

CONSTANTS
    Keys, Vals,    \* what the program uses; _HASHMAP_NULL is not a key
    Strings,       \* those that are strings
    Hashes,        \* hash functions considered, each in [Keys -> Nat]
    InitBuckets,   \* HASHMAP_INIT_BUCKETS, a power of two (hashmap.h:51)
    MaxBuckets,    \* bound: no memory for larger tables
    Nothing        \* what a lookup returns that finds nothing

HashMapAssumption ==
    /\ IsFiniteSet(Keys) /\ IsFiniteSet(Vals) /\ Strings \subseteq Keys \cup Vals
    /\ Hashes # {} /\ Hashes \subseteq [Keys -> Nat]
    /\ Nothing \notin Vals
    /\ \E i \in 0 .. 20 : InitBuckets = 2 ^ i
    /\ MaxBuckets \in 0 .. 2 ^ 20

VARIABLES
    table,         \* table[i]: the nodes of bucket i, first to last
    bucket, count,
    hash,          \* __hashmap_hash__ with this map's seed
    heap,          \* copies of each string that are allocated
    alive,         \* not yet destroyed
    dict           \* history: the pairs a mathematician would have

vars == <<table, bucket, count, hash, heap, alive, dict>>

-----------------------------------------------------------------------------
Blank(n) == [i \in 0 .. n - 1 |-> <<>>]

\* __next_power_base__(n, 2)
NextPower(n) == CHOOSE p \in {2 ^ i : i \in 0 .. 20} : p >= n /\ (p = 1 \/ p < 2 * n)

Node(k, v) == [hash |-> hash[k], key |-> k, value |-> v]

\* The bucket of a hash among n.
Index(h, n) == h % n

\* The nodes of t, bucket by bucket.
Nodes(t) ==
    LET upTo[i \in 0 .. Cardinality(DOMAIN t)] ==
            IF i = 0 THEN <<>> ELSE upTo[i - 1] \o t[i - 1]
    IN  upTo[Cardinality(DOMAIN t)]

\* The loop of __hashmap_resize__: each node becomes the head of its new bucket.
Rehash(t, n) ==
    LET nodes == Nodes(t)
        moved[i \in 0 .. Len(nodes)] ==
            IF i = 0 THEN Blank(n)
            ELSE [moved[i - 1] EXCEPT ![Index(nodes[i].hash, n)] = <<nodes[i]>> \o @]
    IN  moved[Len(nodes)]

Where(k, chain) == {i \in DOMAIN chain : chain[i].key = k}

\* The strings that the nodes of a sequence own.
Owned(nodes) ==
    [s \in Strings |-> Cardinality({i \in DOMAIN nodes : nodes[i].key = s})
                      + Cardinality({i \in DOMAIN nodes : nodes[i].value = s})]

Allocated(owned) == [s \in Strings |-> heap[s] + owned[s]]
Freed(owned) == [s \in Strings |-> heap[s] - owned[s]]

Init ==
    /\ bucket = NextPower(InitBuckets) /\ table = Blank(bucket)
    /\ count = 0 /\ hash \in Hashes
    /\ heap = [s \in Strings |-> 0] /\ alive = TRUE
    /\ dict = <<>>

-----------------------------------------------------------------------------
(* __hashmap_add__ *)

\* The key is in the map: its value is replaced, unless the copy fails.
Update(k, v) ==
    LET i == Index(hash[k], bucket)
        p == CHOOSE j \in Where(k, table[i]) : TRUE
        old == table[i][p].value
    IN  /\ alive /\ Where(k, table[i]) # {}
        /\ \/ /\ table' = [table EXCEPT ![i][p].value = v]
              /\ heap' = [s \in Strings |-> heap[s] + (IF s = v THEN 1 ELSE 0)
                                                    - (IF s = old THEN 1 ELSE 0)]
              /\ dict' = [dict EXCEPT ![k] = v]
           \/ v \in Strings /\ UNCHANGED <<table, heap, dict>>
        /\ UNCHANGED <<bucket, count, hash, alive>>

Crowded == 4 * count >= 3 * bucket

\* Expanding gives the table and size to insert into: the old ones if it fails.
Expanded ==
    IF Crowded
    THEN {<<table, bucket>>} \cup
         (IF 2 * bucket <= MaxBuckets THEN {<<Rehash(table, 2 * bucket), 2 * bucket>>} ELSE {})
    ELSE {<<table, bucket>>}

\* Uses the index computed before the table grew.
Faulty_Prepend(t, n, k, v) == [t EXCEPT ![Index(hash[k], bucket)] = <<Node(k, v)>> \o @]

Prepend(t, n, k, v) == [t EXCEPT ![Index(hash[k], n)] = <<Node(k, v)>> \o @]

\* Forgets the copies when there is no memory for the node.
Faulty_Leftover(k, v) == <<Node(k, v)>>

\* What is still allocated for an insertion that failed at its last steps.
Leftover(k, v) == <<>>

\* The key is new: the table may grow, then key, value and node are allocated.
Insert(k, v) ==
    /\ alive /\ Where(k, table[Index(hash[k], bucket)]) = {}
    /\ \E tn \in Expanded :
        /\ bucket' = tn[2]
        /\ \/ /\ table' = Prepend(tn[1], tn[2], k, v)
              /\ count' = count + 1
              /\ heap' = Allocated(Owned(<<Node(k, v)>>))
              /\ dict' = [q \in DOMAIN dict \cup {k} |-> IF q = k THEN v ELSE dict[q]]
           \/ /\ table' = tn[1]
              /\ heap' = Allocated(Owned(Leftover(k, v)))
              /\ UNCHANGED <<count, dict>>
    /\ UNCHANGED <<hash, alive>>

-----------------------------------------------------------------------------
(* __hashmap_remove__, hashmap_clear, hashmap_destroy *)

\* Shrinks when half of the buckets are enough.
Faulty_Sparse(c) == bucket > NextPower(InitBuckets) /\ 2 * c <= bucket

Sparse(c) == bucket > NextPower(InitBuckets) /\ 4 * c <= bucket

Unlinked(i, p) == [table EXCEPT ![i] = SubSeq(@, 1, p - 1) \o SubSeq(@, p + 1, Len(@))]

\* The second disjunct is __hashmap_resize__ to half the buckets.
Delete(k) ==
    LET i == Index(hash[k], bucket)
        p == CHOOSE j \in Where(k, table[i]) : TRUE
        n == NextPower(bucket \div 2)
    IN  /\ alive /\ Where(k, table[i]) # {}
        /\ heap' = Freed(Owned(<<table[i][p]>>))
        /\ count' = count - 1
        /\ dict' = [q \in DOMAIN dict \ {k} |-> dict[q]]
        /\ \/ table' = Unlinked(i, p) /\ UNCHANGED bucket
           \/ Sparse(count - 1) /\ table' = Rehash(Unlinked(i, p), n) /\ bucket' = n
        /\ UNCHANGED <<hash, alive>>

\* All nodes and their strings are freed.  A large table is replaced by a small one, if that can be allocated.
Clear ==
    /\ alive /\ heap' = Freed(Owned(Nodes(table))) /\ count' = 0 /\ dict' = <<>>
    /\ \/ table' = Blank(bucket) /\ UNCHANGED bucket
       \/ /\ bucket > NextPower(InitBuckets)
          /\ bucket' = NextPower(InitBuckets) /\ table' = Blank(bucket')
    /\ UNCHANGED <<hash, alive>>

Destroy ==
    /\ alive /\ alive' = FALSE /\ heap' = Freed(Owned(Nodes(table)))
    /\ table' = Blank(bucket) /\ count' = 0 /\ dict' = <<>>
    /\ UNCHANGED <<bucket, hash>>

Next ==
    \/ \E k \in Keys : Delete(k) \/ \E v \in Vals : Update(k, v) \/ Insert(k, v)
    \/ Clear \/ Destroy

Spec == Init /\ [][Next]_vars

-----------------------------------------------------------------------------
(* Queries, and the properties *)

\* __hashmap_get__
Get(k) ==
    LET chain == table[Index(hash[k], bucket)]
    IN  IF count = 0 \/ Where(k, chain) = {} THEN Nothing
        ELSE chain[CHOOSE i \in Where(k, chain) : \A j \in Where(k, chain) : i <= j].value

\* hashmap_iter: bucket by bucket, each chain from its head.
Iterated == Nodes(table)

\* The number of buckets stays a power of two, never below the initial one,
\* which is what makes `& (bucket - 1)' a bucket number.
BucketsArePowerOfTwo ==
    /\ \E i \in 0 .. 20 : bucket = 2 ^ i
    /\ bucket >= InitBuckets
    /\ DOMAIN table = 0 .. bucket - 1
    /\ count \in Nat /\ alive \in BOOLEAN
    /\ heap \in [Strings -> Int]

\* A lookup returns the value last added for a key that has not been removed
\* since and nothing for any other key: through growing, shrinking, clearing
\* and each of the allocations that fail on the way, __hashmap_get__ follows
\* the chain the key is in.
LookupsAreRight ==
    alive => \A k \in Keys : Get(k) = (IF k \in DOMAIN dict THEN dict[k] ELSE Nothing)

\* hashmap_iter visits each pair once, as many as hashmap_count says.
IterationVisitsEachPairOnce ==
    /\ Len(Iterated) = count /\ count = Cardinality(DOMAIN dict)
    /\ \A i, j \in DOMAIN Iterated : Iterated[i].key = Iterated[j].key => i = j
    /\ \A i \in DOMAIN Iterated : Iterated[i].key \in DOMAIN dict

\* The copies of strings that are allocated are exactly those the nodes own:
\* an insertion that fails half way, a replaced value, a removal, a clear and a
\* destroy leave none behind and free none twice.
StringsOwnedByNodes == heap = Owned(Iterated)

\* No thrashing.  A table that grew for an element is not so sparse with that
\* element that the next removal shrinks it back; from eight buckets on, the size
\* a map has at first, not even when there was no memory for the element in the
\* end.  A table that has just shrunk is not crowded: the next insertion does not
\* grow it back.
ResizesForLong ==
    /\ bucket' > bucket /\ (count' > count \/ bucket >= 8) => ~Sparse(count - 1)'
    /\ bucket' < bucket => ~Crowded'
=============================================================================
