----------------------------- MODULE MemoryPool -----------------------------
(***************************************************************************)
(* The block allocator of src/memorypool.c with several threads.  A block  *)
(* starts with one cell of memory that has two uses: while the block is    *)
(* free it is the link of its class's free list, guarded by the mutex of   *)
(* the class; while it is allocated it names the class (pool_idx), written *)
(* after the mutex is released and read before it is taken.                *)
(*                                                                         *)
(* Links, class numbers and NULL are tuples of three, one and no elements. *)
(***************************************************************************)
EXTENDS Integers, Sequences, FiniteSets

CONSTANTS
    Threads,
    Sizes,             \* what the program asks for
    Limit,             \* MEMORYPOOL_MANAGER: the largest size of each class
    BlocksPerChunk,    \* MEMORYPOOL_BLOCKS, one number for all classes
    MaxPieces          \* bound: pieces of memory that malloc has to give

MemoryAssumption ==
    /\ IsFiniteSet(Threads) /\ Sizes \subseteq Nat \ {0}
    /\ Limit \in Seq(Nat) /\ \A i, j \in DOMAIN Limit : i < j => Limit[i] < Limit[j]
    /\ BlocksPerChunk \in Nat \ {0} /\ MaxPieces \in Nat

VARIABLES
    cell,              \* the first cell of every block of every chunk
    free_list,         \* of each class: its first free block
    chunk_list,        \* of each class: its chunks, newest first
    heap,              \* what malloc has given out: chunks and large blocks
    owned,             \* the blocks the program has, with the size it asked for
    pc,                \* of each thread: "out", "header" in alloc, "push" in free
    block, idx, size,  \* its local variables
    alive              \* not yet destroyed

vars == <<cell, free_list, chunk_list, heap, owned, pc, block, idx, size, alive>>

Classes == DOMAIN Limit
Large == 0             \* MEMORYPOOL_FALLBACK_MALLOC_INDEX
Null == <<>>
Block(c, k, i) == <<c, k, i>>
ClassOf(b) == b[1]

Init ==
    /\ cell = [b \in {} |-> Null]
    /\ free_list = [c \in Classes |-> Null] /\ chunk_list = [c \in Classes |-> <<>>]
    /\ heap = {} /\ owned = {} /\ alive = TRUE
    /\ pc = [t \in Threads |-> "out"] /\ block = [t \in Threads |-> Null]
    /\ idx = [t \in Threads |-> Null] /\ size = [t \in Threads |-> 0]

-----------------------------------------------------------------------------
(* memorypool_alloc *)

Fitting(s) == {c \in Classes : Limit[c] >= s}

\* The first class whose blocks are large enough.
ClassFor(s) == CHOOSE c \in Fitting(s) : \A e \in Fitting(s) : c <= e

\* Lines 54 to 59; when malloc fails nothing changes.
AllocLarge(t, s) ==
    /\ alive /\ pc[t] = "out" /\ Fitting(s) = {}
    /\ Cardinality(heap) < MaxPieces
    /\ \E k \in 1 .. MaxPieces :
        LET b == Block(Large, k, 0)
        IN  /\ <<Large, k>> \notin heap /\ \A j \in 1 .. k - 1 : <<Large, j>> \in heap
            /\ heap' = heap \cup {<<Large, k>>}
            /\ cell' = [x \in DOMAIN cell \cup {b} |-> IF x = b THEN <<Large>> ELSE cell[x]]
            /\ owned' = owned \cup {[b |-> b, size |-> s]}
    /\ UNCHANGED <<free_list, chunk_list, pc, block, idx, size, alive>>

\* A fresh chunk k of class c, its blocks linked in front of an empty list.
Carved(c, k) ==
    [i \in 1 .. BlocksPerChunk |-> IF i = 1 THEN Null ELSE Block(c, k, i - 1)]

Chunks(c, k) == <<k>> \o chunk_list[c]

\* What the list starts with once its first block, with this link, is popped.
Advance(c, link) == link

\* Lines 61 to 82, the critical section: grow the class if its list is empty and
\* pop the first block.  Without memory for a chunk the call fails, changing nothing.
Pop(t, s) ==
    /\ alive /\ pc[t] = "out" /\ Fitting(s) # {}
    /\ LET c == ClassFor(s)
           k == Len(chunk_list[c]) + 1
       IN  \/ /\ free_list[c] # Null
              /\ block' = [block EXCEPT ![t] = free_list[c]]
              /\ free_list' = [free_list EXCEPT ![c] = Advance(c, cell[free_list[c]])]
              /\ idx' = [idx EXCEPT ![t] = <<c>>]
              /\ UNCHANGED <<cell, chunk_list, heap>>
           \/ /\ free_list[c] = Null /\ Cardinality(heap) < MaxPieces
              /\ heap' = heap \cup {<<c, k>>}
              /\ chunk_list' = [chunk_list EXCEPT ![c] = Chunks(c, k)]
              /\ cell' = [b \in DOMAIN cell \cup {Block(c, k, i) : i \in 1 .. BlocksPerChunk} |->
                             IF b \in DOMAIN cell THEN cell[b] ELSE Carved(c, k)[b[3]]]
              /\ block' = [block EXCEPT ![t] = Block(c, k, BlocksPerChunk)]
              /\ free_list' = [free_list EXCEPT ![c] = Carved(c, k)[BlocksPerChunk]]
              /\ idx' = [idx EXCEPT ![t] = <<c>>]
    /\ size' = [size EXCEPT ![t] = s] /\ pc' = [pc EXCEPT ![t] = "header"]
    /\ UNCHANGED <<owned, alive>>

\* Lines 84 to 86, without the mutex.
WriteHeader(t) ==
    /\ pc[t] = "header" /\ pc' = [pc EXCEPT ![t] = "out"]
    /\ cell' = [cell EXCEPT ![block[t]] = idx[t]]
    /\ owned' = owned \cup {[b |-> block[t], size |-> size[t]]}
    /\ block' = [block EXCEPT ![t] = Null] /\ idx' = [idx EXCEPT ![t] = Null]
    /\ size' = [size EXCEPT ![t] = 0]
    /\ UNCHANGED <<free_list, chunk_list, heap, alive>>

-----------------------------------------------------------------------------
(* memorypool_free *)

\* Lines 93 to 100, without the mutex: any thread may free any block.  An index
\* that is out of range (line 100) would be the link of a block that is free.
ReadHeader(t, o) ==
    /\ alive /\ pc[t] = "out" /\ o \in owned
    /\ owned' = owned \ {o}
    /\ IF cell[o.b] = <<Large>>
       THEN /\ heap' = heap \ {<<Large, o.b[2]>>}
            /\ cell' = [x \in DOMAIN cell \ {o.b} |-> cell[x]]
            /\ UNCHANGED <<pc, block, idx>>
       ELSE /\ pc' = [pc EXCEPT ![t] = "push"]
            /\ block' = [block EXCEPT ![t] = o.b] /\ idx' = [idx EXCEPT ![t] = cell[o.b]]
            /\ UNCHANGED <<heap, cell>>
    /\ UNCHANGED <<free_list, chunk_list, size, alive>>

\* Forgets the link to the rest of the list.
Faulty_LinkFor(c) == Null

LinkFor(c) == free_list[c]

\* Lines 102 to 107, the critical section.
Push(t) ==
    /\ pc[t] = "push" /\ pc' = [pc EXCEPT ![t] = "out"]
    /\ LET c == idx[t][1]
       IN  /\ cell' = [cell EXCEPT ![block[t]] = LinkFor(c)]
           /\ free_list' = [free_list EXCEPT ![c] = block[t]]
    /\ block' = [block EXCEPT ![t] = Null] /\ idx' = [idx EXCEPT ![t] = Null]
    /\ UNCHANGED <<chunk_list, heap, owned, size, alive>>

-----------------------------------------------------------------------------
\* memorypool_destroy, when every block was released (memorypool.h:54).
Destroy ==
    /\ alive /\ owned = {} /\ \A t \in Threads : pc[t] = "out"
    /\ alive' = FALSE
    /\ heap' = {x \in heap : ~\E i \in DOMAIN chunk_list[x[1]] : chunk_list[x[1]][i] = x[2]}
    /\ UNCHANGED <<cell, free_list, chunk_list, owned, pc, block, idx, size>>

Next ==
    \/ \E t \in Threads :
        \/ \E s \in Sizes : AllocLarge(t, s) \/ Pop(t, s)
        \/ \E o \in owned : ReadHeader(t, o)
        \/ WriteHeader(t) \/ Push(t)
    \/ Destroy

Spec == Init /\ [][Next]_vars

-----------------------------------------------------------------------------
(* Properties *)

Pooled == {b \in DOMAIN cell : ClassOf(b) # Large}

\* The blocks of class c along the links from the head of its list, and Null after its
\* end; as many links as there are blocks, so that a circle shows.
Linked(c) ==
    LET at[n \in 0 .. Cardinality(Pooled)] ==
            IF n = 0 THEN free_list[c]
            ELSE LET b == at[n - 1] IN IF b \in Pooled THEN cell[b] ELSE Null
    IN  at

TypeOK ==
    /\ DOMAIN free_list = Classes /\ DOMAIN chunk_list = Classes
    /\ \A c \in Classes : free_list[c] = Null \/ free_list[c] \in Pooled
    /\ pc \in [Threads -> {"out", "header", "push"}]
    /\ \A t \in Threads : pc[t] # "out" => block[t] \in Pooled /\ idx[t] \in {<<c>> : c \in Classes}
    /\ alive \in BOOLEAN

\* Every block of every chunk is once in the free list of its own class, or in
\* the hands of one thread that is allocating or freeing it, or of the program:
\* no block is given out twice, lost, or linked into another class's list,
\* though its cell is written by owners outside the mutex.
EachBlockInOnePlace ==
    \A b \in Pooled :
        Cardinality({n \in 0 .. Cardinality(Pooled) : Linked(ClassOf(b))[n] = b})
        + Cardinality({t \in Threads : block[t] = b})
        + Cardinality({o \in owned : o.b = b}) = 1

\* The header of a block the program has, and the copy of it a freeing thread
\* has read, name the class the block was carved for: it goes back there.
HeadersNameTheClass ==
    /\ \A o \in owned : cell[o.b] = <<ClassOf(o.b)>>
    /\ \A t \in Threads : pc[t] = "push" => idx[t] = <<ClassOf(block[t])>>

\* A block is at least as large as what was asked for.
BlocksAreLargeEnough ==
    \A o \in owned : ClassOf(o.b) # Large => Limit[ClassOf(o.b)] >= o.size

\* malloc's memory is that of the chunks and of the large blocks in use: a
\* destroyed pool leaves none of it, and a chunk is never freed before.
MemoryAccountedFor ==
    heap = (IF alive THEN {x \in Classes \X (1 .. MaxPieces) :
                              \E i \in 1 .. BlocksPerChunk : Block(x[1], x[2], i) \in Pooled}
            ELSE {})
        \cup {<<Large, o.b[2]>> : o \in {x \in owned : ClassOf(x.b) = Large}}
=============================================================================
