-------------------------- MODULE DataParts_proofs --------------------------
(***************************************************************************)
(* Proofs about the data structures of DataParts, for every value of the   *)
(* constants.                                                              *)
(*                                                                         *)
(* The memory pool.  A block is in a free list when the links lead to it,  *)
(* which is no statement about the block alone.  The invariant has a       *)
(* number for each block: its distance from the end of the list of its     *)
(* class, or 0.  The link of each numbered block leads to the next smaller *)
(* number, and the list starts with the largest.  Popping the first block  *)
(* makes its number 0, pushing one makes it the largest, and a fresh chunk *)
(* is numbered in its order.                                               *)
(*                                                                         *)
(* The hash map.  The invariant compares the table with the set of nodes   *)
(* that the pairs of the history ask for: each of these is in the bucket   *)
(* of its hash, once, and nothing else is in the table.  Whatever is       *)
(* counted (the pairs, what an iteration visits, the copies of a string)   *)
(* is then a cardinality of that set, whether the table grows or not.      *)
(*                                                                         *)
(* The hashes.  A context has absorbed a sequence of bytes when its blocks *)
(* are the whole blocks of it, its buffer starts with the bytes after      *)
(* them, and its length is the sequence's.  An update makes that true of   *)
(* the sequence with the piece after it; the final functions are updates   *)
(* by the padding that the standards ask for, or amount to one.            *)
(***************************************************************************)
EXTENDS DataParts, Recursion, FiniteSetTheorems, SequenceTheorems

-----------------------------------------------------------------------------
(* The memory pool *)

Null == Pool!Null
Classes == Pool!Classes

\* The blocks of the chunks.
Stock == {b \in Classes \X Nat \X (1 .. BlocksPerChunk) : b[2] \in 1 .. Len(chunk_list[b[1]])}

LargeInUse == {o \in owned : o.b[1] = Pool!Large}
LargeBlocks == {o.b : o \in LargeInUse}

\* The chunks of a class are numbered from 1.
ChunkInd ==
    /\ chunk_list \in [Classes -> Seq(Nat)]
    /\ \A e \in Classes : \A k \in 1 .. Len(chunk_list[e]) :
          \E i \in DOMAIN chunk_list[e] : chunk_list[e][i] = k
    /\ IsFiniteSet(Stock)
    /\ DOMAIN cell = Stock \cup LargeBlocks

\* A block the program has names its class and is large enough.
OwnedInd ==
    \A o \in owned :
        /\ o.b \in DOMAIN cell /\ cell[o.b] = <<o.b[1]>> /\ o.size \in Nat
        /\ o.b[1] = Pool!Large => o.b[2] \in 1 .. MaxPieces /\ o.b = <<Pool!Large, o.b[2], 0>>
        /\ o.b[1] # Pool!Large => Limit[o.b[1]] >= o.size

\* What a thread has in its hands.
ThreadInd ==
    /\ pc \in [Threads -> {"out", "header", "push"}]
    /\ block \in [Threads -> Stock \cup {Null}]
    /\ idx \in [Threads -> {<<e>> : e \in Classes} \cup {Null}] /\ size \in [Threads -> Nat]
    /\ \A t \in Threads :
          /\ pc[t] = "out" <=> block[t] = Null
          /\ pc[t] # "out" => idx[t] = <<block[t][1]>>
          /\ pc[t] = "header" => Limit[block[t][1]] >= size[t]

\* The blocks of a free list are numbered from its end, the others are 0: the link of each
\* leads to the next smaller number, and the list starts with the largest.
ListInd(pos) ==
    /\ pos \in [Stock -> Nat] /\ free_list \in [Classes -> Stock \cup {Null}]
    /\ \A e \in Classes :
          IF free_list[e] = Null THEN \A b \in Stock : b[1] = e => pos[b] = 0
          ELSE /\ free_list[e][1] = e /\ pos[free_list[e]] > 0
               /\ \A b \in Stock : b[1] = e => pos[b] <= pos[free_list[e]]
    /\ \A b \in Stock :
          /\ pos[b] = 1 => cell[b] = Null
          /\ pos[b] > 1 => cell[b] \in Stock /\ cell[b][1] = b[1] /\ pos[cell[b]] = pos[b] - 1
    /\ \A a, b \in Stock : a[1] = b[1] /\ pos[a] = pos[b] /\ pos[a] > 0 => a = b

\* Each block is in a list, in the hands of a thread or with the program, once.
PlaceInd(pos) ==
    /\ \A b \in Stock :
          \/ pos[b] > 0
          \/ \E t \in Threads : block[t] = b
          \/ \E o \in owned : o.b = b
    /\ \A b \in Stock :
          pos[b] > 0 => /\ \A t \in Threads : block[t] # b
                        /\ \A o \in owned : o.b # b
    /\ \A t \in Threads, o \in owned : block[t] # o.b
    /\ \A t, u \in Threads : block[t] # Null /\ block[t] = block[u] => t = u
    /\ \A o, p \in owned : o.b = p.b => o = p

\* What was allocated is the chunks and the large blocks in use.
PieceInd ==
    /\ serving \in BOOLEAN /\ IsFiniteSet(pieces)
    /\ \A e \in Classes : Len(chunk_list[e]) <= MaxPieces
    /\ serving => pieces = {x \in Classes \X Nat : x[2] \in 1 .. Len(chunk_list[x[1]])}
                           \cup {<<Pool!Large, o.b[2]>> : o \in LargeInUse}
    /\ ~serving => pieces = {} /\ owned = {} /\ \A t \in Threads : pc[t] = "out"

PoolInd ==
    /\ ChunkInd /\ OwnedInd /\ ThreadInd /\ PieceInd
    /\ \E pos : ListInd(pos) /\ PlaceInd(pos)

-----------------------------------------------------------------------------
\* Blocks, links and class numbers are told apart.
LEMMA BlocksAndMarks ==
    ASSUME Pool!MemoryAssumption
    PROVE  /\ \A b \in Stock : /\ b # Null /\ b = <<b[1], b[2], b[3]>> /\ b[1] \in Classes
                                /\ b[2] \in 1 .. Len(chunk_list[b[1]])
                                /\ b[3] \in 1 .. BlocksPerChunk
           /\ \A e \in Classes : e # Pool!Large /\ e \in Nat
           /\ BlocksPerChunk \in Nat \ {0} /\ MaxPieces \in Nat /\ IsFiniteSet(Threads)
           /\ Limit \in [Classes -> Nat] /\ Sizes \subseteq Nat
<1>1. Limit \in Seq(Nat) /\ Classes = 1 .. Len(Limit)
  BY DEF Pool!MemoryAssumption, Pool!Classes, Classes
<1>2. Pool!IsFiniteSet(Threads) => IsFiniteSet(Threads)
  BY Zenon DEF Pool!IsFiniteSet, IsFiniteSet
<1>3. BlocksPerChunk \in Nat \ {0} /\ MaxPieces \in Nat /\ IsFiniteSet(Threads)
  BY <1>2 DEF Pool!MemoryAssumption
<1>4. \A b \in Stock : /\ b # Null /\ b = <<b[1], b[2], b[3]>> /\ b[1] \in Classes
                        /\ b[2] \in 1 .. Len(chunk_list[b[1]]) /\ b[3] \in 1 .. BlocksPerChunk
  <2> SUFFICES ASSUME NEW b \in Stock
               PROVE  /\ b # Null /\ b = <<b[1], b[2], b[3]>> /\ b[1] \in Classes
                      /\ b[2] \in 1 .. Len(chunk_list[b[1]]) /\ b[3] \in 1 .. BlocksPerChunk
    OBVIOUS
  <2>1. b \in Classes \X Nat \X (1 .. BlocksPerChunk) /\ b[2] \in 1 .. Len(chunk_list[b[1]])
    BY DEF Stock
  <2>2. PICK x \in Classes, y \in Nat, z \in 1 .. BlocksPerChunk : b = <<x, y, z>>
    BY <2>1
  <2>3. b[1] = x /\ b[2] = y /\ b[3] = z
    BY <2>2
  <2>4. b # Null
    BY <2>2 DEF Null, Pool!Null
  <2> QED BY <2>1, <2>2, <2>3, <2>4
<1>5. Limit \in [Classes -> Nat] /\ Sizes \subseteq Nat
  BY <1>1 DEF Pool!MemoryAssumption
<1> QED BY <1>1, <1>3, <1>4, <1>5 DEF Pool!Large

\* The pooled blocks are those that were carved.
LEMMA PooledAreCarved ==
    ASSUME Pool!MemoryAssumption, ChunkInd
    PROVE  Pool!Pooled = Stock
BY BlocksAndMarks DEF ChunkInd, Pool!Pooled, Pool!ClassOf, LargeBlocks, LargeInUse

\* In the beginning there is nothing.
LEMMA PoolInitInd ==
    ASSUME Pool!MemoryAssumption, Pool!Init
    PROVE  PoolInd
<1>1. /\ DOMAIN cell = {} /\ free_list = [e \in Classes |-> Null]
      /\ chunk_list = [e \in Classes |-> <<>>] /\ pieces = {} /\ owned = {} /\ serving = TRUE
      /\ pc = [t \in Threads |-> "out"] /\ block = [t \in Threads |-> Null]
      /\ idx = [t \in Threads |-> Null] /\ size = [t \in Threads |-> 0]
  BY DEF Pool!Init, Classes, Null
<1>2. Stock = {} /\ LargeInUse = {} /\ LargeBlocks = {} /\ IsFiniteSet({})
  BY <1>1, FS_EmptySet DEF Stock, LargeInUse, LargeBlocks
<1>3. ChunkInd
  BY <1>1, <1>2 DEF ChunkInd
<1>4. OwnedInd /\ ThreadInd
  BY <1>1, <1>2 DEF OwnedInd, ThreadInd
<1>5. PieceInd
  BY <1>1, <1>2, BlocksAndMarks DEF PieceInd
<1> DEFINE pos == [b \in {} |-> 0]
<1>6. ListInd(pos) /\ PlaceInd(pos)
  BY <1>1, <1>2 DEF ListInd, PlaceInd
<1> HIDE DEF pos
<1> QED BY <1>3, <1>4, <1>5, <1>6 DEF PoolInd

-----------------------------------------------------------------------------
\* A large block comes from malloc.
LEMMA AllocLargeInd ==
    ASSUME Pool!MemoryAssumption, PoolInd, NEW t \in Threads, NEW s \in Sizes,
           Pool!AllocLarge(t, s)
    PROVE  PoolInd'
<1>1. PICK k \in 1 .. MaxPieces :
        LET b == <<Pool!Large, k, 0>>
        IN  /\ <<Pool!Large, k>> \notin pieces /\ pieces' = pieces \cup {<<Pool!Large, k>>}
            /\ cell' = [x \in DOMAIN cell \cup {b} |-> IF x = b THEN <<Pool!Large>> ELSE cell[x]]
            /\ owned' = owned \cup {[b |-> b, size |-> s]}
  BY DEF Pool!AllocLarge, Pool!Block
<1> DEFINE b == <<Pool!Large, k, 0>>  n == [b |-> b, size |-> s]
<1>2. /\ UNCHANGED <<free_list, chunk_list, pc, block, idx, size, serving>> /\ serving
  BY DEF Pool!AllocLarge
<1>3. /\ ChunkInd /\ OwnedInd /\ ThreadInd /\ PieceInd /\ \E pos : ListInd(pos) /\ PlaceInd(pos)
  BY DEF PoolInd
<1>4. b[1] = Pool!Large /\ b[2] = k /\ n.b = b /\ n.size = s /\ s \in Nat
  BY BlocksAndMarks
<1> HIDE DEF b, n
<1>5. /\ cell' = [x \in DOMAIN cell \cup {b} |-> IF x = b THEN <<Pool!Large>> ELSE cell[x]]
      /\ owned' = owned \cup {n}
  BY <1>1 DEF b, n
<1>6. b \notin Stock
  BY <1>4, BlocksAndMarks
<1>7. \A o \in owned : o.b # b
  <2> SUFFICES ASSUME NEW o \in owned, o.b = b PROVE FALSE
    OBVIOUS
  <2>1. o \in LargeInUse /\ o.b[2] = k
    BY <1>4 DEF LargeInUse
  <2> QED BY <1>1, <1>2, <1>3, <2>1 DEF PieceInd
<1>8. Stock' = Stock /\ b \notin DOMAIN cell
  BY <1>2, <1>3, <1>6, <1>7 DEF Stock, Classes, Pool!Classes, ChunkInd, LargeBlocks, LargeInUse
<1>9. LargeInUse' = LargeInUse \cup {n} /\ LargeBlocks' = LargeBlocks \cup {b}
  BY <1>4, <1>5 DEF LargeInUse, LargeBlocks
<1>10. DOMAIN cell' = DOMAIN cell \cup {b} /\ cell'[b] = <<Pool!Large>>
       /\ \A x \in DOMAIN cell : cell'[x] = cell[x]
  BY <1>5, <1>8
<1>11. ChunkInd'
  BY <1>2, <1>3, <1>8, <1>9, <1>10 DEF ChunkInd, Classes, Pool!Classes
<1>12. OwnedInd'
  <2> SUFFICES ASSUME NEW o \in owned'
               PROVE  /\ o.b \in DOMAIN cell' /\ cell'[o.b] = <<o.b[1]>> /\ o.size \in Nat
                      /\ o.b[1] = Pool!Large =>
                            o.b[2] \in 1 .. MaxPieces /\ o.b = <<Pool!Large, o.b[2], 0>>
                      /\ o.b[1] # Pool!Large => Limit[o.b[1]] >= o.size
    BY DEF OwnedInd
  <2>1. CASE o \in owned
    BY <1>3, <1>10, <2>1 DEF OwnedInd
  <2>2. CASE o = n
    BY <1>4, <1>10, <2>2 DEF b
  <2> QED BY <1>5, <2>1, <2>2
<1>13. ThreadInd'
  BY <1>2, <1>3, <1>8 DEF ThreadInd, Classes, Pool!Classes
<1>14. PieceInd'
  <2>1. IsFiniteSet(pieces')
    BY <1>1, <1>3, FS_AddElement DEF PieceInd
  <2>2. {<<Pool!Large, o.b[2]>> : o \in LargeInUse'}
          = {<<Pool!Large, o.b[2]>> : o \in LargeInUse} \cup {<<Pool!Large, k>>}
    BY <1>4, <1>9
  <2> QED BY <1>1, <1>2, <1>3, <2>1, <2>2 DEF PieceInd, Classes, Pool!Classes
<1>15. ASSUME NEW pos, ListInd(pos), PlaceInd(pos) PROVE ListInd(pos)' /\ PlaceInd(pos)'
  <2>1. ListInd(pos)'
    <3>1. \A x \in Stock : cell'[x] = cell[x]
      BY <1>3, <1>10 DEF ChunkInd
    <3> QED BY <1>2, <1>8, <1>15, <3>1 DEF ListInd, Classes, Pool!Classes
  <2>2. \A u \in Threads : block[u] # b
    <3>1. b # Null
      BY DEF b, Null, Pool!Null
    <3> QED BY <1>3, <1>6, <3>1 DEF ThreadInd
  <2>3. PlaceInd(pos)'
    BY <1>2, <1>4, <1>5, <1>6, <1>7, <1>8, <1>15, <2>2 DEF PlaceInd
  <2> QED BY <2>1, <2>3
<1> QED BY <1>3, <1>11, <1>12, <1>13, <1>14, <1>15 DEF PoolInd

\* A block goes from the head of its list to a thread.
LEMMA PopFirstInd ==
    ASSUME Pool!MemoryAssumption, PoolInd, NEW t \in Threads, NEW s \in Sizes,
           NEW e \in Classes, Limit[e] >= s, serving, pc[t] = "out", free_list[e] # Null,
           block' = [block EXCEPT ![t] = free_list[e]],
           free_list' = [free_list EXCEPT ![e] = cell[free_list[e]]],
           idx' = [idx EXCEPT ![t] = <<e>>], size' = [size EXCEPT ![t] = s],
           pc' = [pc EXCEPT ![t] = "header"],
           UNCHANGED <<cell, chunk_list, pieces, owned, serving>>
    PROVE  PoolInd'
<1>1. PICK pos : ListInd(pos) /\ PlaceInd(pos)
  BY DEF PoolInd
<1>2. ChunkInd /\ OwnedInd /\ ThreadInd /\ PieceInd
  BY DEF PoolInd
<1>h. PICK h : h = free_list[e]
  OBVIOUS
<1>3. /\ h \in Stock /\ h # Null /\ h[1] = e /\ pos[h] > 0 /\ pos \in [Stock -> Nat]
      /\ \A b \in Stock : b[1] = e => pos[b] <= pos[h]
  BY <1>1, <1>h DEF ListInd
<1>4. Stock' = Stock /\ LargeInUse' = LargeInUse /\ LargeBlocks' = LargeBlocks
  BY DEF Stock, Classes, Pool!Classes, LargeInUse, LargeBlocks
<1>5. s \in Nat
  BY BlocksAndMarks
<1>6. block[t] = Null
  BY <1>2 DEF ThreadInd
<1>7. /\ block' = [block EXCEPT ![t] = h] /\ free_list' = [free_list EXCEPT ![e] = cell[h]]
  BY <1>h
<1>8. ChunkInd' /\ OwnedInd' 
  BY <1>2, <1>4 DEF ChunkInd, OwnedInd, Classes, Pool!Classes
<1>9. ThreadInd'
  BY <1>2, <1>3, <1>4, <1>5, <1>7 DEF ThreadInd, Classes, Pool!Classes
<1>10. PieceInd'
  BY <1>2, <1>4 DEF PieceInd, Classes, Pool!Classes
<1>11. PICK new \in [Stock -> Nat] : new[h] = 0 /\ \A b \in Stock : b # h => new[b] = pos[b]
  <2>1. [pos EXCEPT ![h] = 0] \in [Stock -> Nat]
    BY <1>3
  <2> QED BY <1>3, <2>1
<1>12. /\ \A b \in Stock :
            /\ pos[b] = 1 => cell[b] = Null
            /\ pos[b] > 1 => cell[b] \in Stock /\ cell[b][1] = b[1] /\ pos[cell[b]] = pos[b] - 1
       /\ \A a, b \in Stock : a[1] = b[1] /\ pos[a] = pos[b] /\ pos[a] > 0 => a = b
       /\ free_list \in [Classes -> Stock \cup {Null}]
  BY <1>1 DEF ListInd
<1>13. \A b \in Stock : b[1] = e /\ b # h => pos[b] < pos[h]
  <2>1. \A b \in Stock : pos[b] \in Nat
    BY <1>3
  <2> QED BY <1>3, <1>12, <2>1
<1>14. ListInd(new)'
  <2>1. \A b \in Stock :
            /\ new[b] = 1 => cell[b] = Null
            /\ new[b] > 1 => cell[b] \in Stock /\ cell[b][1] = b[1] /\ new[cell[b]] = new[b] - 1
    <3> SUFFICES ASSUME NEW b \in Stock, b # h
                 PROVE  /\ pos[b] = 1 => cell[b] = Null
                        /\ pos[b] > 1 => /\ cell[b] \in Stock /\ cell[b][1] = b[1]
                                         /\ new[cell[b]] = pos[b] - 1
      BY <1>11
    <3>1. ASSUME pos[b] > 1 PROVE cell[b] # h
      <4>1. cell[b] \in Stock /\ cell[b][1] = b[1] /\ pos[cell[b]] = pos[b] - 1
        BY <1>12, <3>1
      <4>2. pos[b] \in Nat
        BY <1>3
      <4> QED BY <1>3, <1>13, <4>1, <4>2
    <3> QED BY <1>11, <1>12, <3>1
  <2>2. \A a, b \in Stock : a[1] = b[1] /\ new[a] = new[b] /\ new[a] > 0 => a = b
    BY <1>11, <1>12
  <2>3. IF cell[h] = Null THEN \A b \in Stock : b[1] = e => new[b] = 0
        ELSE /\ cell[h] \in Stock /\ cell[h][1] = e /\ new[cell[h]] > 0
             /\ \A b \in Stock : b[1] = e => new[b] <= new[cell[h]]
    <3>0. \A b \in Stock : pos[b] \in Nat /\ new[b] \in Nat
      BY <1>3, <1>11
    <3>1. CASE pos[h] = 1
      <4>1. \A b \in Stock : b[1] = e /\ b # h => pos[b] = 0
        BY <1>13, <3>0, <3>1
      <4> QED BY <1>3, <1>11, <1>12, <3>1, <4>1
    <3>2. CASE pos[h] > 1
      <4>1. cell[h] \in Stock /\ cell[h][1] = e /\ pos[cell[h]] = pos[h] - 1
        BY <1>3, <1>12, <3>2
      <4>2. cell[h] # h /\ cell[h] # Null
        BY <1>3, <3>0, <4>1, BlocksAndMarks
      <4>3. new[cell[h]] = pos[h] - 1
        BY <1>11, <4>1, <4>2
      <4> QED BY <1>3, <1>11, <1>13, <3>0, <3>2, <4>1, <4>2, <4>3
    <3> QED BY <1>3, <3>0, <3>1, <3>2
  <2>4. free_list' \in [Classes -> Stock \cup {Null}]
    BY <1>7, <1>12, <2>3
  <2>5. \A f \in Classes :
          IF free_list'[f] = Null THEN \A b \in Stock : b[1] = f => new[b] = 0
          ELSE /\ free_list'[f][1] = f /\ new[free_list'[f]] > 0
               /\ \A b \in Stock : b[1] = f => new[b] <= new[free_list'[f]]
    <3> SUFFICES ASSUME NEW f \in Classes
                 PROVE  IF free_list'[f] = Null THEN \A b \in Stock : b[1] = f => new[b] = 0
                        ELSE /\ free_list'[f][1] = f /\ new[free_list'[f]] > 0
                             /\ \A b \in Stock : b[1] = f => new[b] <= new[free_list'[f]]
      OBVIOUS
    <3>1. CASE f = e
      <4>1. free_list'[f] = cell[h]
        BY <1>7, <1>12, <3>1
      <4> QED BY <2>3, <3>1, <4>1
    <3>2. CASE f # e
      <4>1. free_list'[f] = free_list[f]
        BY <1>7, <1>12, <3>2
      <4>2. \A b \in Stock : b[1] = f => new[b] = pos[b]
        BY <1>3, <1>11, <3>2
      <4>3. free_list[f] # Null => free_list[f] \in Stock
        BY <1>12
      <4> QED BY <1>1, <4>1, <4>2, <4>3 DEF ListInd
    <3> QED BY <3>1, <3>2
  <2> QED BY <1>4, <1>11, <2>1, <2>2, <2>4, <2>5 DEF ListInd, Classes, Pool!Classes
<1>15. PlaceInd(new)'
  <2>1. \A u \in Threads : block'[u] = IF u = t THEN h ELSE block[u]
    BY <1>2, <1>7 DEF ThreadInd
  <2>2. \A u \in Threads : block[u] # h
    BY <1>1, <1>3 DEF PlaceInd
  <2>3. \A o \in owned : o.b # h
    BY <1>1, <1>3 DEF PlaceInd
  <2>4. \A b \in Stock :
          \/ new[b] > 0
          \/ \E u \in Threads : block'[u] = b
          \/ \E o \in owned : o.b = b
    <3> SUFFICES ASSUME NEW b \in Stock
                 PROVE  \/ new[b] > 0
                        \/ \E u \in Threads : block'[u] = b
                        \/ \E o \in owned : o.b = b
      OBVIOUS
    <3>1. CASE b = h
      BY <2>1, <3>1
    <3>2. CASE b # h
      <4>1. b # Null
        BY BlocksAndMarks
      <4>2. \A u \in Threads : block[u] = b => block'[u] = b
        BY <1>6, <2>1, <4>1
      <4> QED BY <1>1, <1>11, <3>2, <4>2 DEF PlaceInd
    <3> QED BY <3>1, <3>2
  <2>5. \A b \in Stock :
          new[b] > 0 => /\ \A u \in Threads : block'[u] # b
                        /\ \A o \in owned : o.b # b
    BY <1>1, <1>11, <2>1 DEF PlaceInd
  <2>6. \A u \in Threads, o \in owned : block'[u] # o.b
    BY <1>1, <2>1, <2>3 DEF PlaceInd
  <2>7. \A v, u \in Threads : block'[v] # Null /\ block'[v] = block'[u] => v = u
    BY <1>1, <2>1, <2>2 DEF PlaceInd
  <2>8. \A o, p \in owned : o.b = p.b => o = p
    BY <1>1 DEF PlaceInd
  <2> QED BY <1>4, <2>4, <2>5, <2>6, <2>7, <2>8 DEF PlaceInd
<1> QED BY <1>8, <1>9, <1>10, <1>14, <1>15 DEF PoolInd

\* Class e gets chunk k with the blocks Fresh, and thread t its last one, h.
Grows(t, s, e, k, Fresh, h) ==
    /\ Limit[e] >= s /\ serving /\ pc[t] = "out" /\ free_list[e] = Null
    /\ Cardinality(pieces) < MaxPieces /\ k = Len(chunk_list[e]) + 1
    /\ Fresh = {<<e, k, i>> : i \in 1 .. BlocksPerChunk} /\ h = <<e, k, BlocksPerChunk>>
    /\ pieces' = pieces \cup {<<e, k>>}
    /\ chunk_list' = [chunk_list EXCEPT ![e] = <<k>> \o chunk_list[e]]
    /\ DOMAIN cell' = DOMAIN cell \cup Fresh /\ \A b \in DOMAIN cell : cell'[b] = cell[b]
    /\ \A b \in Fresh \ DOMAIN cell :
          cell'[b] = IF b[3] = 1 THEN Null ELSE <<e, k, b[3] - 1>>
    /\ block' = [block EXCEPT ![t] = h]
    /\ free_list' = [free_list EXCEPT ![e] = IF BlocksPerChunk = 1 THEN Null
                                             ELSE <<e, k, BlocksPerChunk - 1>>]
    /\ idx' = [idx EXCEPT ![t] = <<e>>] /\ size' = [size EXCEPT ![t] = s]
    /\ pc' = [pc EXCEPT ![t] = "header"] /\ owned' = owned /\ serving' = serving

\* A class without free blocks gets a chunk of them, and a thread its last one.
LEMMA PopGrownInd ==
    ASSUME Pool!MemoryAssumption, PoolInd, NEW t \in Threads, NEW s \in Sizes,
           NEW e \in Classes, NEW k, NEW Fresh, NEW h, Grows(t, s, e, k, Fresh, h)
    PROVE  PoolInd'
<1>a. /\ Limit[e] >= s /\ serving /\ pc[t] = "out" /\ free_list[e] = Null
      /\ Cardinality(pieces) < MaxPieces /\ k = Len(chunk_list[e]) + 1
      /\ Fresh = {<<e, k, i>> : i \in 1 .. BlocksPerChunk} /\ h = <<e, k, BlocksPerChunk>>
  BY DEF Grows
<1>b. /\ pieces' = pieces \cup {<<e, k>>}
      /\ chunk_list' = [chunk_list EXCEPT ![e] = <<k>> \o chunk_list[e]]
      /\ block' = [block EXCEPT ![t] = h]
      /\ free_list' = [free_list EXCEPT ![e] = IF BlocksPerChunk = 1 THEN Null
                                               ELSE <<e, k, BlocksPerChunk - 1>>]
      /\ idx' = [idx EXCEPT ![t] = <<e>>] /\ size' = [size EXCEPT ![t] = s]
      /\ pc' = [pc EXCEPT ![t] = "header"] /\ owned' = owned /\ serving' = serving
  BY DEF Grows
<1>1. PICK pos : ListInd(pos) /\ PlaceInd(pos)
  BY DEF PoolInd
<1>2. ChunkInd /\ OwnedInd /\ ThreadInd /\ PieceInd
  BY DEF PoolInd
<1>3. /\ BlocksPerChunk \in Nat /\ BlocksPerChunk >= 1 /\ MaxPieces \in Nat /\ s \in Nat
      /\ e \in Nat /\ e # Pool!Large
  BY BlocksAndMarks
<1>4. /\ chunk_list \in [Classes -> Seq(Nat)] /\ chunk_list[e] \in Seq(Nat)
      /\ Len(chunk_list[e]) \in Nat /\ k \in Nat
  BY <1>2, <1>a DEF ChunkInd
<1>5. /\ chunk_list' \in [Classes -> Seq(Nat)] /\ Len(chunk_list'[e]) = k
      /\ chunk_list'[e] = <<k>> \o chunk_list[e]
      /\ \A f \in Classes : f # e => chunk_list'[f] = chunk_list[f]
  BY <1>4, <1>a, <1>b
<1>6. \A b \in Fresh : /\ b = <<e, k, b[3]>> /\ b[1] = e /\ b[2] = k
                       /\ b[3] \in 1 .. BlocksPerChunk
  BY <1>a
<1>7. \A b \in Fresh : b \notin Stock
  BY <1>4, <1>6, <1>a, BlocksAndMarks
<1>8. \A b \in Fresh : \A o \in owned : o.b # b
  <2>1. \A o \in owned : o.b \in Stock \/ o.b[1] = Pool!Large
    <3>1. \A x \in LargeBlocks : x[1] = Pool!Large
      BY DEF LargeBlocks, LargeInUse
    <3>2. \A o \in owned : o.b \in Stock \/ o.b \in LargeBlocks
      BY <1>2 DEF OwnedInd, ChunkInd
    <3> QED BY <3>1, <3>2
  <2> QED BY <1>3, <1>6, <1>7, <2>1
<1>9. Stock' = Stock \cup Fresh
  <2>1. \A b \in Stock' : b \in Stock \cup Fresh
    <3> SUFFICES ASSUME NEW b \in Stock' PROVE b \in Stock \cup Fresh
      OBVIOUS
    <3>1. /\ b \in Classes \X Nat \X (1 .. BlocksPerChunk)
          /\ b[2] \in 1 .. Len(chunk_list'[b[1]])
      BY DEF Stock, Classes, Pool!Classes
    <3>2. PICK x \in Classes, y \in Nat, z \in 1 .. BlocksPerChunk : b = <<x, y, z>>
      BY <3>1
    <3>3. y \in 1 .. Len(chunk_list'[x])
      BY <3>1, <3>2
    <3>4. CASE x = e /\ y = k
      BY <1>a, <3>2, <3>4
    <3>5. CASE ~(x = e /\ y = k)
      <4>1. y \in 1 .. Len(chunk_list[x])
        BY <1>4, <1>5, <1>a, <3>3, <3>5
      <4> QED BY <3>2, <4>1 DEF Stock
    <3> QED BY <3>4, <3>5
  <2>2. \A b \in Stock : b \in Stock'
    <3> SUFFICES ASSUME NEW b \in Stock PROVE b \in Stock'
      OBVIOUS
    <3>1. /\ b \in Classes \X Nat \X (1 .. BlocksPerChunk)
          /\ b[2] \in 1 .. Len(chunk_list[b[1]]) /\ b[1] \in Classes
      BY DEF Stock
    <3>2. b[2] \in 1 .. Len(chunk_list'[b[1]])
      <4>1. CASE b[1] = e
        <5>1. b[2] \in 1 .. Len(chunk_list[e]) /\ Len(chunk_list'[b[1]]) = k
          BY <1>5, <3>1, <4>1
        <5> QED BY <1>4, <1>a, <5>1
      <4>2. CASE b[1] # e
        BY <1>5, <3>1, <4>2
      <4> QED BY <4>1, <4>2
    <3> QED BY <3>1, <3>2 DEF Stock, Classes, Pool!Classes
  <2>3. \A b \in Fresh : b \in Stock'
    <3> SUFFICES ASSUME NEW i \in 1 .. BlocksPerChunk PROVE <<e, k, i>> \in Stock'
      BY <1>a
    <3>1. <<e, k, i>> \in Classes \X Nat \X (1 .. BlocksPerChunk) /\ k \in 1 .. Len(chunk_list'[e])
      BY <1>4, <1>5
    <3> QED BY <3>1 DEF Stock, Classes, Pool!Classes
  <2> QED BY <2>1, <2>2, <2>3
<1>10. LargeInUse' = LargeInUse /\ LargeBlocks' = LargeBlocks
  BY <1>b DEF LargeInUse, LargeBlocks
<1>11. /\ DOMAIN cell' = DOMAIN cell \cup Fresh
       /\ \A b \in DOMAIN cell : cell'[b] = cell[b]
       /\ \A b \in Fresh : cell'[b] = IF b[3] = 1 THEN Null ELSE <<e, k, b[3] - 1>>
  <2>1. \A b \in Fresh : b \notin DOMAIN cell
    BY <1>2, <1>7, <1>8 DEF ChunkInd, LargeBlocks, LargeInUse
  <2> QED BY <2>1 DEF Grows
<1>12. ChunkInd'
  <2>1. IsFiniteSet(Fresh)
    <3> DEFINE p == [i \in 1 .. BlocksPerChunk |-> <<e, k, i>>]
    <3>1. IsFiniteSet(1 .. BlocksPerChunk)
      BY <1>3, FS_Interval
    <3>2. p \in Surjection(1 .. BlocksPerChunk, Fresh)
      BY <1>a DEF Surjection
    <3> HIDE DEF p
    <3> QED BY <3>1, <3>2, FS_Surjection
  <2>2. IsFiniteSet(Stock')
    BY <1>2, <1>9, <2>1, FS_Union DEF ChunkInd
  <2>3. ASSUME NEW f \in Classes, NEW j \in 1 .. Len(chunk_list'[f])
        PROVE  \E i \in DOMAIN chunk_list'[f] : chunk_list'[f][i] = j
    <3>1. CASE f # e
      BY <1>2, <1>5, <2>3, <3>1 DEF ChunkInd
    <3>2. CASE f = e /\ j = k
      <4>1. chunk_list'[e][1] = k /\ 1 \in DOMAIN chunk_list'[e]
        BY <1>4, <1>5
      <4> QED BY <3>2, <4>1
    <3>3. CASE f = e /\ j # k
      <4>1. j \in 1 .. Len(chunk_list[e])
        BY <1>4, <1>5, <1>a, <2>3, <3>3
      <4>2. PICK i \in 1 .. Len(chunk_list[e]) : chunk_list[e][i] = j
        BY <1>2, <1>4, <4>1 DEF ChunkInd
      <4>3. i + 1 \in DOMAIN chunk_list'[e] /\ chunk_list'[e][i + 1] = j
        BY <1>4, <1>5, <4>2
      <4> QED BY <3>3, <4>3
    <3> QED BY <3>1, <3>2, <3>3
  <2>4. DOMAIN cell' = Stock' \cup LargeBlocks'
    BY <1>2, <1>9, <1>10, <1>11 DEF ChunkInd
  <2> QED BY <1>5, <2>2, <2>3, <2>4 DEF ChunkInd, Classes, Pool!Classes
<1>13. OwnedInd'
  BY <1>2, <1>11, <1>b DEF OwnedInd
<1>14. h \in Fresh /\ h[1] = e /\ h[3] = BlocksPerChunk /\ h # Null
  BY <1>3, <1>a DEF Null, Pool!Null
<1>15. ThreadInd'
  BY <1>2, <1>3, <1>9, <1>14, <1>a, <1>b DEF ThreadInd, Classes, Pool!Classes
<1>16. PieceInd'
  <2>1. IsFiniteSet(pieces')
    BY <1>2, <1>b, FS_AddElement DEF PieceInd
  <2>2. k <= MaxPieces
    <3> DEFINE Old == {<<e, j>> : j \in 1 .. k - 1}
    <3>1. Old \subseteq pieces
      <4> SUFFICES ASSUME NEW j \in 1 .. k - 1 PROVE <<e, j>> \in pieces
        OBVIOUS
      <4>1. j \in Nat /\ j \in 1 .. Len(chunk_list[e])
        BY <1>4, <1>a
      <4> QED BY <1>2, <1>a, <4>1 DEF PieceInd
    <3>2. Cardinality(Old) = k - 1
      <4> DEFINE p == [j \in 1 .. k - 1 |-> <<e, j>>]
      <4>1. p \in Surjection(1 .. k - 1, Old) /\ p \in Injection(1 .. k - 1, Old)
        BY DEF Injection, IsInjective, Surjection
      <4>2. IsFiniteSet(1 .. k - 1) /\ Cardinality(1 .. k - 1) = k - 1
        <5>1. PICK m \in Nat : m = k - 1
          BY <1>4, <1>a
        <5>2. IsFiniteSet(1 .. m) /\ Cardinality(1 .. m) = m
          BY FS_Interval
        <5> QED BY <5>1, <5>2
      <4> HIDE DEF p, Old
      <4> QED BY <4>1, <4>2, FS_Surjection
    <3> HIDE DEF Old
    <3>3. Cardinality(Old) <= Cardinality(pieces) /\ Cardinality(pieces) \in Nat
      BY <1>2, <3>1, FS_Subset, FS_CardinalityType DEF PieceInd
    <3> QED BY <1>3, <1>4, <1>a, <3>2, <3>3
  <2>3. \A f \in Classes : Len(chunk_list'[f]) <= MaxPieces
    BY <1>2, <1>5, <2>2 DEF PieceInd
  <2>4. {x \in Classes \X Nat : x[2] \in 1 .. Len(chunk_list'[x[1]])}
          = {x \in Classes \X Nat : x[2] \in 1 .. Len(chunk_list[x[1]])} \cup {<<e, k>>}
    <3>1. ASSUME NEW x \in Classes, NEW y \in Nat
          PROVE  y \in 1 .. Len(chunk_list'[x])
                   <=> y \in 1 .. Len(chunk_list[x]) \/ <<x, y>> = <<e, k>>
      <4>1. CASE x = e
        BY <1>4, <1>5, <1>a, <4>1
      <4>2. CASE x # e
        BY <1>4, <1>5, <1>a, <4>2
      <4> QED BY <4>1, <4>2
    <3> QED BY <1>4, <3>1
  <2> QED BY <1>2, <1>10, <1>a, <1>b, <2>1, <2>3, <2>4 DEF PieceInd, Classes, Pool!Classes
<1>17. PICK new \in [Stock \cup Fresh -> Nat] :
         /\ \A b \in Stock : new[b] = pos[b]
         /\ \A b \in Fresh : new[b] = IF b[3] = BlocksPerChunk THEN 0 ELSE b[3]
  <2> DEFINE new == [b \in Stock \cup Fresh |->
                        IF b \in Stock THEN pos[b]
                        ELSE IF b[3] = BlocksPerChunk THEN 0 ELSE b[3]]
  <2>1. \A b \in Stock : pos[b] \in Nat
    BY <1>1 DEF ListInd
  <2>2. new \in [Stock \cup Fresh -> Nat]
    BY <1>6, <2>1
  <2>3. /\ \A b \in Stock : new[b] = pos[b]
        /\ \A b \in Fresh : new[b] = IF b[3] = BlocksPerChunk THEN 0 ELSE b[3]
    BY <1>7
  <2> HIDE DEF new
  <2> QED BY <2>2, <2>3
<1>18. \A b \in Stock : b[1] = e => new[b] = 0
  BY <1>1, <1>17, <1>a DEF ListInd
<1>u. \A b \in Fresh : /\ b[3] \in Nat /\ b[3] >= 1 /\ b[3] <= BlocksPerChunk
                       /\ b[3] = BlocksPerChunk => new[b] = 0
                       /\ b[3] # BlocksPerChunk => new[b] = b[3]
  <2> SUFFICES ASSUME NEW b \in Fresh
               PROVE  /\ b[3] \in Nat /\ b[3] >= 1 /\ b[3] <= BlocksPerChunk
                      /\ b[3] = BlocksPerChunk => new[b] = 0
                      /\ b[3] # BlocksPerChunk => new[b] = b[3]
    OBVIOUS
  <2>1. b[3] \in 1 .. BlocksPerChunk
    BY <1>6
  <2>2. new[b] = IF b[3] = BlocksPerChunk THEN 0 ELSE b[3]
    BY <1>17
  <2> QED BY <1>3, <2>1, <2>2
<1>19. ListInd(new)'
  <2>1. free_list \in [Classes -> Stock \cup {Null}] /\ Stock \subseteq DOMAIN cell
    BY <1>1, <1>2 DEF ListInd, ChunkInd
  <2>2. /\ BlocksPerChunk # 1 => <<e, k, BlocksPerChunk - 1>> \in Fresh
        /\ free_list' \in [Classes -> Stock \cup Fresh \cup {Null}]
    BY <1>3, <1>a, <1>b, <2>1
  <2>3. ASSUME NEW f \in Classes
        PROVE  IF free_list'[f] = Null THEN \A b \in Stock \cup Fresh : b[1] = f => new[b] = 0
               ELSE /\ free_list'[f][1] = f /\ new[free_list'[f]] > 0
                    /\ \A b \in Stock \cup Fresh : b[1] = f => new[b] <= new[free_list'[f]]
    <3>1. CASE f # e
      <4>1. free_list'[f] = free_list[f] /\ \A b \in Fresh : b[1] # f
        BY <1>6, <1>b, <2>1, <3>1
      <4>2. free_list[f] # Null => free_list[f] \in Stock
        BY <2>1
      <4> QED BY <1>1, <1>17, <4>1, <4>2 DEF ListInd
    <3>2. CASE f = e /\ BlocksPerChunk = 1
      <4>1. free_list'[f] = Null
        BY <1>b, <2>1, <3>2
      <4> QED BY <1>6, <1>17, <1>18, <3>2, <4>1
    <3>3. CASE f = e /\ BlocksPerChunk # 1
      <4>1. PICK a \in Fresh : a = <<e, k, BlocksPerChunk - 1>>
        BY <2>2, <3>3
      <4>2. free_list'[f] = a /\ a[1] = e /\ a[3] = BlocksPerChunk - 1 /\ a # Null
        BY <1>b, <2>1, <3>3, <4>1 DEF Null, Pool!Null
      <4>3. new[a] = BlocksPerChunk - 1
        BY <1>3, <1>17, <4>2
      <4>4. \A b \in Fresh : new[b] <= BlocksPerChunk - 1
        <5> SUFFICES ASSUME NEW b \in Fresh PROVE new[b] <= BlocksPerChunk - 1
          OBVIOUS
        <5>1. CASE b[3] = BlocksPerChunk
          BY <1>3, <1>u, <5>1
        <5>2. CASE b[3] # BlocksPerChunk
          <6>1. PICK i \in Nat : i = b[3]
            BY <1>u
          <6>2. i <= BlocksPerChunk /\ i # BlocksPerChunk /\ new[b] = i
            BY <1>u, <5>2, <6>1
          <6> QED BY <1>3, <6>2
        <5> QED BY <5>1, <5>2
      <4>5. BlocksPerChunk - 1 > 0
        BY <1>3, <3>3
      <4>6. \A b \in Stock \cup Fresh : b[1] = f => new[b] <= new[a]
        BY <1>3, <1>18, <3>3, <4>3, <4>4, <4>5
      <4>7. a[1] = f /\ new[a] > 0
        BY <3>3, <4>2, <4>3, <4>5
      <4> QED BY <4>2, <4>6, <4>7
    <3> QED BY <3>1, <3>2, <3>3
  <2>4. ASSUME NEW b \in Stock \cup Fresh
        PROVE  /\ new[b] = 1 => cell'[b] = Null
               /\ new[b] > 1 => /\ cell'[b] \in Stock \cup Fresh /\ cell'[b][1] = b[1]
                                /\ new[cell'[b]] = new[b] - 1
    <3>1. CASE b \in Stock
      <4>1. cell'[b] = cell[b] /\ new[b] = pos[b]
        BY <1>11, <1>17, <2>1, <3>1
      <4>2. /\ pos[b] = 1 => cell[b] = Null
            /\ pos[b] > 1 => cell[b] \in Stock /\ cell[b][1] = b[1] /\ pos[cell[b]] = pos[b] - 1
        BY <1>1, <3>1 DEF ListInd
      <4> QED BY <1>17, <4>1, <4>2
    <3>2. CASE b \in Fresh
      <4>1. /\ cell'[b] = IF b[3] = 1 THEN Null ELSE <<e, k, b[3] - 1>>
            /\ new[b] = IF b[3] = BlocksPerChunk THEN 0 ELSE b[3]
            /\ b[1] = e /\ b[3] \in 1 .. BlocksPerChunk
        BY <1>6, <1>11, <1>17, <3>2
      <4>2. ASSUME new[b] > 1
            PROVE  /\ cell'[b] \in Fresh /\ cell'[b][1] = e /\ new[cell'[b]] = new[b] - 1
        <5>1. b[3] # 1 /\ b[3] # BlocksPerChunk /\ b[3] - 1 \in 1 .. BlocksPerChunk
          BY <1>3, <4>1, <4>2
        <5>2. PICK a \in Fresh : a = <<e, k, b[3] - 1>>
          BY <1>a, <5>1
        <5>3. a[1] = e /\ a[3] = b[3] - 1 /\ cell'[b] = a
          BY <4>1, <5>1, <5>2
        <5>4. new[a] = b[3] - 1
          <6>1. a[3] # BlocksPerChunk
          BY <1>3, <1>u, <3>2, <4>1, <5>3
        <6> QED BY <1>u, <5>3, <6>1
        <5> QED BY <4>1, <5>1, <5>3, <5>4
      <4>3. new[b] = 1 => cell'[b] = Null
        BY <1>3, <1>u, <3>2, <4>1
      <4> QED BY <4>1, <4>2, <4>3
    <3> QED BY <3>1, <3>2
  <2>5. ASSUME NEW a \in Stock \cup Fresh, NEW b \in Stock \cup Fresh, a[1] = b[1],
               new[a] = new[b], new[a] > 0
        PROVE  a = b
    <3>1. CASE a \in Stock /\ b \in Stock
      BY <1>1, <1>17, <2>5, <3>1 DEF ListInd
    <3>2. CASE a \in Fresh /\ b \in Fresh
      <4>1. a[3] # BlocksPerChunk /\ b[3] # BlocksPerChunk
        BY <1>u, <2>5, <3>2
      <4>2. a[3] = b[3]
        BY <1>u, <2>5, <3>2, <4>1
      <4> QED BY <1>6, <3>2, <4>2
    <3>3. CASE a \in Stock /\ b \in Fresh
      BY <1>6, <1>17, <1>18, <2>5, <3>3
    <3>4. CASE a \in Fresh /\ b \in Stock
      BY <1>6, <1>17, <1>18, <2>5, <3>4
    <3>5. CASE a \in Stock
      BY <2>5, <3>1, <3>3, <3>5
    <3>6. CASE a \in Fresh
      BY <2>5, <3>2, <3>4, <3>6
    <3> QED BY <2>5, <3>5, <3>6
  <2>6. /\ new \in [Stock' -> Nat] /\ free_list' \in [Classes -> Stock' \cup {Null}]
        /\ Classes' = Classes
    BY <1>9, <1>17, <2>2 DEF Classes, Pool!Classes
  <2>7. \A f \in Classes :
          IF free_list'[f] = Null THEN \A b \in Stock' : b[1] = f => new[b] = 0
          ELSE /\ free_list'[f][1] = f /\ new[free_list'[f]] > 0
               /\ \A b \in Stock' : b[1] = f => new[b] <= new[free_list'[f]]
    BY <1>9, <2>3
  <2>8. \A b \in Stock' :
          /\ new[b] = 1 => cell'[b] = Null
          /\ new[b] > 1 => cell'[b] \in Stock' /\ cell'[b][1] = b[1] /\ new[cell'[b]] = new[b] - 1
    BY <1>9, <2>4
  <2>9. \A a, b \in Stock' : a[1] = b[1] /\ new[a] = new[b] /\ new[a] > 0 => a = b
    BY <1>9, <2>5
  <2> QED BY <2>6, <2>7, <2>8, <2>9, Zenon DEF ListInd, Null, Pool!Null
<1>20. PlaceInd(new)'
  <2>1. \A u \in Threads : block'[u] = IF u = t THEN h ELSE block[u]
    BY <1>2, <1>b DEF ThreadInd
  <2>2. \A u \in Threads : block[u] \notin Fresh /\ block[t] = Null
    <3>1. \A u \in Threads : block[u] \in Stock \cup {Null} /\ block[t] = Null
      BY <1>2, <1>a DEF ThreadInd
    <3>2. Null \notin Fresh
      BY <1>6 DEF Null, Pool!Null
    <3> QED BY <1>7, <3>1, <3>2
  <2>3. ASSUME NEW b \in Stock \cup Fresh
        PROVE  \/ new[b] > 0
               \/ \E u \in Threads : block'[u] = b
               \/ \E o \in owned : o.b = b
    <3>1. CASE b \in Stock
      <4>1. b # Null /\ new[b] = pos[b]
        BY <1>17, <3>1, BlocksAndMarks
      <4>2. \A u \in Threads : block[u] = b => block'[u] = b
        BY <2>1, <2>2, <4>1
      <4> QED BY <1>1, <3>1, <4>1, <4>2 DEF PlaceInd
    <3>2. CASE b \in Fresh /\ b[3] = BlocksPerChunk
      <4>1. b = h
        BY <1>6, <1>a, <3>2
      <4> QED BY <2>1, <4>1
    <3>3. CASE b \in Fresh /\ b[3] # BlocksPerChunk
      BY <1>3, <1>6, <1>17, <3>3
    <3> QED BY <3>1, <3>2, <3>3
  <2>4. ASSUME NEW b \in Stock \cup Fresh, new[b] > 0
        PROVE  (\A u \in Threads : block'[u] # b) /\ (\A o \in owned : o.b # b)
    <3>1. b # h
      BY <1>14, <1>u, <2>4
    <3>2. CASE b \in Stock
      BY <1>1, <1>17, <2>1, <2>4, <3>1, <3>2 DEF PlaceInd
    <3>3. CASE b \in Fresh
      BY <1>8, <2>1, <2>2, <3>1, <3>3
    <3> QED BY <3>2, <3>3
  <2>5. \A u \in Threads, o \in owned : block'[u] # o.b
    BY <1>1, <1>8, <1>14, <2>1 DEF PlaceInd
  <2>6. \A v, u \in Threads : block'[v] # Null /\ block'[v] = block'[u] => v = u
    BY <1>1, <1>14, <2>1, <2>2 DEF PlaceInd
  <2>7. \A o, p \in owned : o.b = p.b => o = p
    BY <1>1 DEF PlaceInd
  <2> QED BY <1>9, <1>b, <2>3, <2>4, <2>5, <2>6, <2>7 DEF PlaceInd
<1> QED BY <1>12, <1>13, <1>15, <1>16, <1>19, <1>20 DEF PoolInd

\* Either way the thread that allocates gets a block of the class that fits.
LEMMA PopInd ==
    ASSUME Pool!MemoryAssumption, PoolInd, NEW t \in Threads, NEW s \in Sizes, Pool!Pop(t, s)
    PROVE  PoolInd'
<1>1. PICK e : e = Pool!ClassFor(s)
  OBVIOUS
<1>2. e \in Classes /\ Limit[e] >= s
  <2>1. Limit \in [Classes -> Nat] /\ Sizes \subseteq Nat
    BY BlocksAndMarks
  <2> DEFINE T == Pool!Fitting(s)
  <2>2. T \in SUBSET Nat /\ T # {}
    BY BlocksAndMarks DEF Pool!Fitting, Pool!Pop, Classes
  <2>3. \E f \in T : \A g \in T : f <= g
    <3> HIDE DEF T
    <3> QED BY <2>2, LeastElement
  <2>4. e \in T
    BY <1>1, <2>3 DEF Pool!ClassFor
  <2> QED BY <2>4 DEF Pool!Fitting, Classes
<1>3. PICK k : k = Len(chunk_list[e]) + 1
  OBVIOUS
<1>4. PICK Fresh : Fresh = {<<e, k, i>> : i \in 1 .. BlocksPerChunk}
  OBVIOUS
<1>5. /\ serving /\ pc[t] = "out" /\ size' = [size EXCEPT ![t] = s]
      /\ pc' = [pc EXCEPT ![t] = "header"] /\ idx' = [idx EXCEPT ![t] = <<e>>]
      /\ UNCHANGED <<owned, serving>>
  BY <1>1 DEF Pool!Pop
<1>6. CASE free_list[e] # Null
  <2>1. /\ block' = [block EXCEPT ![t] = free_list[e]]
        /\ free_list' = [free_list EXCEPT ![e] = cell[free_list[e]]]
        /\ UNCHANGED <<cell, chunk_list, pieces>>
    BY <1>1, <1>6 DEF Pool!Pop, Pool!Advance, Null
  <2> QED BY <1>2, <1>5, <1>6, <2>1, PopFirstInd
<1>7. CASE free_list[e] = Null
  <2>1. /\ Pool!Cardinality(pieces) < MaxPieces /\ pieces' = pieces \cup {<<e, k>>}
        /\ chunk_list' = [chunk_list EXCEPT ![e] = Pool!Chunks(e, k)]
        /\ cell' = [b \in DOMAIN cell \cup Fresh |->
                       IF b \in DOMAIN cell THEN cell[b] ELSE Pool!Carved(e, k)[b[3]]]
        /\ block' = [block EXCEPT ![t] = <<e, k, BlocksPerChunk>>]
        /\ free_list' = [free_list EXCEPT ![e] = Pool!Carved(e, k)[BlocksPerChunk]]
    BY <1>1, <1>3, <1>4, <1>7 DEF Pool!Pop, Pool!Block, Null
  <2>2. Pool!Cardinality(pieces) = Cardinality(pieces)
    BY Zenon DEF Pool!Cardinality, Cardinality, Pool!IsFiniteSet, IsFiniteSet
  <2>3. chunk_list' = [chunk_list EXCEPT ![e] = <<k>> \o chunk_list[e]]
    BY <2>1 DEF Pool!Chunks
  <2>4. \A i \in 1 .. BlocksPerChunk :
          Pool!Carved(e, k)[i] = IF i = 1 THEN Null ELSE <<e, k, i - 1>>
    BY DEF Pool!Carved, Pool!Block, Null
  <2>5. \A b \in Fresh : b[3] \in 1 .. BlocksPerChunk
    BY <1>4
  <2>6. /\ DOMAIN cell' = DOMAIN cell \cup Fresh /\ \A b \in DOMAIN cell : cell'[b] = cell[b]
        /\ \A b \in Fresh \ DOMAIN cell :
              cell'[b] = IF b[3] = 1 THEN Null ELSE <<e, k, b[3] - 1>>
    BY <2>1, <2>4, <2>5
  <2>7. BlocksPerChunk \in 1 .. BlocksPerChunk
    BY BlocksAndMarks
  <2>8. free_list' = [free_list EXCEPT ![e] = IF BlocksPerChunk = 1 THEN Null
                                              ELSE <<e, k, BlocksPerChunk - 1>>]
    BY <2>1, <2>4, <2>7
  <2>9. PICK h : h = <<e, k, BlocksPerChunk>>
    OBVIOUS
  <2>10. /\ block' = [block EXCEPT ![t] = h] /\ Cardinality(pieces) < MaxPieces
         /\ pieces' = pieces \cup {<<e, k>>}
    BY <2>1, <2>2, <2>9
  <2>11. Grows(t, s, e, k, Fresh, h)
    BY <1>2, <1>3, <1>4, <1>5, <1>7, <2>3, <2>6, <2>8, <2>9, <2>10, Zenon DEF Grows
  <2> QED BY <1>2, <2>11, PopGrownInd
<1> QED BY <1>6, <1>7

\* The header makes the block the program's.
LEMMA WriteHeaderInd ==
    ASSUME Pool!MemoryAssumption, PoolInd, NEW t \in Threads, Pool!WriteHeader(t)
    PROVE  PoolInd'
<1>1. PICK pos : ListInd(pos) /\ PlaceInd(pos)
  BY DEF PoolInd
<1>2. ChunkInd /\ OwnedInd /\ ThreadInd /\ PieceInd
  BY DEF PoolInd
<1>3. PICK h : h = block[t]
  OBVIOUS
<1>4. /\ pc[t] = "header" /\ h \in Stock /\ h # Null /\ idx[t] = <<h[1]>>
      /\ Limit[h[1]] >= size[t] /\ size[t] \in Nat /\ h[1] \in Classes /\ h[1] # Pool!Large
  BY <1>2, <1>3, BlocksAndMarks DEF ThreadInd, Pool!WriteHeader
<1>5. PICK n : n = [b |-> h, size |-> size[t]]
  OBVIOUS
<1>6. /\ pc' = [pc EXCEPT ![t] = "out"] /\ cell' = [cell EXCEPT ![h] = <<h[1]>>]
      /\ owned' = owned \cup {n}
      /\ block' = [block EXCEPT ![t] = Null] /\ idx' = [idx EXCEPT ![t] = Null]
      /\ size' = [size EXCEPT ![t] = 0]
      /\ UNCHANGED <<free_list, chunk_list, pieces, serving>>
  BY <1>3, <1>4, <1>5 DEF Pool!WriteHeader, Null
<1>7. n.b = h /\ n.size = size[t]
  BY <1>5
<1>8. /\ LargeInUse' = LargeInUse /\ LargeBlocks' = LargeBlocks /\ Stock' = Stock
  BY <1>4, <1>6, <1>7 DEF LargeInUse, LargeBlocks, Stock, Classes, Pool!Classes
<1>9. /\ DOMAIN cell' = DOMAIN cell /\ h \in DOMAIN cell /\ cell'[h] = <<h[1]>>
      /\ \A x \in DOMAIN cell : x # h => cell'[x] = cell[x]
  BY <1>2, <1>4, <1>6 DEF ChunkInd
<1>10. \A o \in owned : o.b # h
  BY <1>1, <1>3 DEF PlaceInd
<1>11. ChunkInd'
  BY <1>2, <1>6, <1>8, <1>9 DEF ChunkInd, Classes, Pool!Classes
<1>12. OwnedInd'
  BY <1>2, <1>4, <1>6, <1>7, <1>9, <1>10 DEF OwnedInd
<1>13. ThreadInd'
  BY <1>2, <1>6, <1>8 DEF ThreadInd, Classes, Pool!Classes
<1>14. PieceInd'
  <2>1. serving
    BY <1>2, <1>4 DEF PieceInd
  <2> QED BY <1>2, <1>6, <1>8, <2>1 DEF PieceInd, Classes, Pool!Classes
<1>15. pos[h] = 0
  BY <1>1, <1>3, <1>4 DEF PlaceInd, ListInd
<1>16. ListInd(pos)'
  <2>1. \A b \in Stock : b \in DOMAIN cell
    BY <1>2 DEF ChunkInd
  <2> QED BY <1>1, <1>6, <1>8, <1>9, <1>15, <2>1 DEF ListInd, Classes, Pool!Classes, Null
<1>17. PlaceInd(pos)'
  <2>1. \A u \in Threads : block'[u] = IF u = t THEN Null ELSE block[u]
    BY <1>2, <1>6 DEF ThreadInd
  <2>2. \A b \in Stock :
          \/ pos[b] > 0
          \/ \E u \in Threads : block'[u] = b
          \/ \E o \in owned' : o.b = b
    BY <1>1, <1>3, <1>6, <1>7, <2>1 DEF PlaceInd
  <2>3. \A b \in Stock :
          pos[b] > 0 => /\ \A u \in Threads : block'[u] # b
                        /\ \A o \in owned' : o.b # b
    BY <1>1, <1>6, <1>7, <1>15, <2>1, BlocksAndMarks DEF PlaceInd
  <2>4. \A u \in Threads, o \in owned' : block'[u] # o.b
    <3>1. \A o \in owned' : o.b # Null
      <4>1. \A x \in LargeBlocks : x # Null
        BY <1>2 DEF LargeBlocks, LargeInUse, OwnedInd, Null, Pool!Null, Pool!Large
      <4>2. \A x \in DOMAIN cell : x # Null
        BY <1>2, <4>1, BlocksAndMarks DEF ChunkInd
      <4> QED BY <1>2, <1>4, <1>6, <1>7, <4>2 DEF OwnedInd
    <3>2. \A u \in Threads : u # t => block[u] # h
      BY <1>1, <1>3, <1>4 DEF PlaceInd
    <3> QED BY <1>1, <1>6, <1>7, <2>1, <3>1, <3>2 DEF PlaceInd
  <2>5. \A v, u \in Threads : block'[v] # Null /\ block'[v] = block'[u] => v = u
    BY <1>1, <2>1 DEF PlaceInd
  <2>6. \A o, p \in owned' : o.b = p.b => o = p
    BY <1>1, <1>6, <1>7, <1>10 DEF PlaceInd
  <2> QED BY <1>8, <2>2, <2>3, <2>4, <2>5, <2>6 DEF PlaceInd, Null, Pool!Null
<1> QED BY <1>11, <1>12, <1>13, <1>14, <1>16, <1>17 DEF PoolInd

\* A thread that frees a block takes it from the program; a large one goes to free.
LEMMA ReadHeaderInd ==
    ASSUME Pool!MemoryAssumption, PoolInd, NEW t \in Threads, NEW o \in owned,
           Pool!ReadHeader(t, o)
    PROVE  PoolInd'
<1>1. PICK pos : ListInd(pos) /\ PlaceInd(pos)
  BY DEF PoolInd
<1>2. ChunkInd /\ OwnedInd /\ ThreadInd /\ PieceInd
  BY DEF PoolInd
<1>3. PICK h : h = o.b
  OBVIOUS
<1>4. /\ serving /\ pc[t] = "out" /\ owned' = owned \ {o}
      /\ UNCHANGED <<free_list, chunk_list, size, serving>>
  BY DEF Pool!ReadHeader
<1>5. /\ h \in DOMAIN cell /\ cell[h] = <<h[1]>>
      /\ block[t] = Null
      /\ \A p \in owned : p.b = h => p = o
  BY <1>1, <1>2, <1>3, <1>4 DEF OwnedInd, ThreadInd, PlaceInd
<1>6. Stock' = Stock
  BY <1>4 DEF Stock, Classes, Pool!Classes
<1>7. CASE h[1] = Pool!Large
  <2>1. /\ pieces' = pieces \ {<<Pool!Large, h[2]>>}
        /\ cell' = [x \in DOMAIN cell \ {h} |-> cell[x]]
        /\ UNCHANGED <<pc, block, idx>>
    BY <1>3, <1>5, <1>7 DEF Pool!ReadHeader
  <2>2. LargeInUse' = LargeInUse \ {o} /\ LargeBlocks' = LargeBlocks \ {h}
    <3>1. LargeInUse' = LargeInUse \ {o} /\ o \in LargeInUse
      BY <1>3, <1>4, <1>7 DEF LargeInUse
    <3>2. \A p \in LargeInUse : p.b = h => p = o
      BY <1>5 DEF LargeInUse
    <3> QED BY <1>3, <3>1, <3>2 DEF LargeBlocks
  <2>3. h \notin Stock
    BY <1>7, BlocksAndMarks
  <2>4. /\ DOMAIN cell' = DOMAIN cell \ {h}
        /\ \A x \in DOMAIN cell : x # h => cell'[x] = cell[x]
    BY <2>1
  <2>5. ChunkInd'
    BY <1>2, <1>4, <1>6, <2>2, <2>3, <2>4 DEF ChunkInd, Classes, Pool!Classes
  <2>6. OwnedInd'
    BY <1>2, <1>4, <1>5, <2>4 DEF OwnedInd
  <2>7. ThreadInd'
    BY <1>2, <1>4, <1>6, <2>1 DEF ThreadInd, Classes, Pool!Classes
  <2>8. PieceInd'
    <3>1. IsFiniteSet(pieces')
      BY <1>2, <2>1, FS_RemoveElement DEF PieceInd
    <3>2. \A p \in LargeInUse : p # o => p.b[2] # h[2]
      <4> SUFFICES ASSUME NEW p \in LargeInUse, p.b[2] = h[2] PROVE p = o
        OBVIOUS
      <4>1. p \in owned /\ p.b[1] = Pool!Large
        BY DEF LargeInUse
      <4>2. p.b = <<Pool!Large, p.b[2], 0>> /\ o.b = <<Pool!Large, o.b[2], 0>>
        BY <1>2, <1>3, <1>7, <4>1 DEF OwnedInd
      <4> QED BY <1>3, <1>5, <4>1, <4>2
    <3>3. {<<Pool!Large, p.b[2]>> : p \in LargeInUse'}
            = {<<Pool!Large, p.b[2]>> : p \in LargeInUse} \ {<<Pool!Large, h[2]>>}
      BY <1>3, <2>2, <3>2
    <3>4. \A x \in Classes : x # Pool!Large
      BY BlocksAndMarks
    <3>5. \A x \in Classes \X Nat : x # <<Pool!Large, h[2]>>
      BY <3>4
    <3> QED BY <1>2, <1>4, <2>1, <3>1, <3>3, <3>5 DEF PieceInd, Classes, Pool!Classes
  <2>9. ListInd(pos)'
    <3>1. \A b \in Stock : cell'[b] = cell[b]
      BY <1>2, <2>3, <2>4 DEF ChunkInd
    <3> QED BY <1>1, <1>4, <1>6, <3>1 DEF ListInd, Classes, Pool!Classes
  <2>10. PlaceInd(pos)'
    BY <1>1, <1>3, <1>4, <1>6, <2>1, <2>3 DEF PlaceInd
  <2> QED BY <2>5, <2>6, <2>7, <2>8, <2>9, <2>10 DEF PoolInd
<1>8. CASE h[1] # Pool!Large
  <2>1. <<h[1]>> # <<Pool!Large>>
    BY <1>8
  <2>2. /\ pc' = [pc EXCEPT ![t] = "push"] /\ block' = [block EXCEPT ![t] = h]
        /\ idx' = [idx EXCEPT ![t] = <<h[1]>>] /\ UNCHANGED <<pieces, cell>>
    BY <1>3, <1>5, <2>1 DEF Pool!ReadHeader
  <2>3. h \in Stock /\ h # Null
    <3>1. h \notin LargeBlocks
      BY <1>8 DEF LargeBlocks, LargeInUse
    <3> QED BY <1>2, <1>5, <3>1, BlocksAndMarks DEF ChunkInd
  <2>4. LargeInUse' = LargeInUse /\ LargeBlocks' = LargeBlocks
    BY <1>3, <1>4, <1>8 DEF LargeInUse, LargeBlocks
  <2>5. ChunkInd' /\ OwnedInd'
    BY <1>2, <1>4, <1>6, <2>2, <2>4 DEF ChunkInd, OwnedInd, Classes, Pool!Classes
  <2>6. ThreadInd'
    BY <1>2, <1>4, <1>6, <2>2, <2>3, BlocksAndMarks DEF ThreadInd, Classes, Pool!Classes
  <2>7. PieceInd'
    BY <1>2, <1>4, <2>2, <2>4 DEF PieceInd, Classes, Pool!Classes
  <2>8. ListInd(pos)'
    BY <1>1, <1>4, <1>6, <2>2 DEF ListInd, Classes, Pool!Classes
  <2>9. PlaceInd(pos)'
    <3>1. \A u \in Threads : block'[u] = IF u = t THEN h ELSE block[u]
      BY <1>2, <2>2 DEF ThreadInd
    <3>2. \A u \in Threads : block[u] # h
      BY <1>1, <1>3 DEF PlaceInd
    <3>3. pos[h] > 0 => FALSE
      BY <1>1, <1>3, <2>3 DEF PlaceInd
    <3>4. \A b \in Stock :
            \/ pos[b] > 0
            \/ \E u \in Threads : block'[u] = b
            \/ \E p \in owned' : p.b = b
      <4>1. ASSUME NEW b \in Stock, b # h
            PROVE  \/ pos[b] > 0
                   \/ \E u \in Threads : block'[u] = b
                   \/ \E p \in owned' : p.b = b
        <5>1. \A u \in Threads : block[u] = b => block'[u] = b
          BY <1>5, <3>1, <4>1, BlocksAndMarks
        <5>2. \A p \in owned : p.b = b => p \in owned'
          BY <1>3, <1>4, <4>1
        <5> QED BY <1>1, <5>1, <5>2 DEF PlaceInd
      <4> QED BY <3>1, <4>1
    <3>5. \A b \in Stock :
            pos[b] > 0 => /\ \A u \in Threads : block'[u] # b
                          /\ \A p \in owned' : p.b # b
      BY <1>1, <1>4, <3>1, <3>3 DEF PlaceInd
    <3>6. \A u \in Threads, p \in owned' : block'[u] # p.b
      BY <1>1, <1>4, <1>5, <3>1 DEF PlaceInd
    <3>7. \A v, u \in Threads : block'[v] # Null /\ block'[v] = block'[u] => v = u
      BY <1>1, <3>1, <3>2 DEF PlaceInd
    <3>8. \A p, q \in owned' : p.b = q.b => p = q
      BY <1>1, <1>4 DEF PlaceInd
    <3> QED BY <1>6, <3>4, <3>5, <3>6, <3>7, <3>8 DEF PlaceInd, Null, Pool!Null
  <2> QED BY <2>5, <2>6, <2>7, <2>8, <2>9 DEF PoolInd
<1> QED BY <1>7, <1>8

\* The block becomes the first of the list of its class.
LEMMA PushInd ==
    ASSUME Pool!MemoryAssumption, PoolInd, NEW t \in Threads, Pool!Push(t)
    PROVE  PoolInd'
<1>1. PICK pos : ListInd(pos) /\ PlaceInd(pos)
  BY DEF PoolInd
<1>2. ChunkInd /\ OwnedInd /\ ThreadInd /\ PieceInd
  BY DEF PoolInd
<1>3. PICK h : h = block[t]
  OBVIOUS
<1>e. PICK e : e = h[1]
  OBVIOUS
<1>l. PICK l : l = free_list[e]
  OBVIOUS
<1>4. /\ pc[t] = "push" /\ h \in Stock /\ h # Null /\ idx[t] = <<e>> /\ e \in Classes
      /\ e # Pool!Large
  BY <1>2, <1>3, <1>e, BlocksAndMarks DEF ThreadInd, Pool!Push
<1>5. /\ pc' = [pc EXCEPT ![t] = "out"] /\ cell' = [cell EXCEPT ![h] = l]
      /\ free_list' = [free_list EXCEPT ![e] = h]
      /\ block' = [block EXCEPT ![t] = Null] /\ idx' = [idx EXCEPT ![t] = Null]
      /\ UNCHANGED <<chunk_list, pieces, owned, size, serving>>
  BY <1>3, <1>4, <1>l DEF Pool!Push, Pool!LinkFor, Null
<1>6. /\ LargeInUse' = LargeInUse /\ LargeBlocks' = LargeBlocks /\ Stock' = Stock
  BY <1>5 DEF LargeInUse, LargeBlocks, Stock, Classes, Pool!Classes
<1>7. /\ DOMAIN cell' = DOMAIN cell /\ h \in DOMAIN cell /\ cell'[h] = l
      /\ \A x \in DOMAIN cell : x # h => cell'[x] = cell[x]
  BY <1>2, <1>4, <1>5 DEF ChunkInd
<1>8. /\ \A o \in owned : o.b # h
      /\ \A u \in Threads : u # t => block[u] # h
  BY <1>1, <1>3, <1>4 DEF PlaceInd
<1>9. ChunkInd'
  BY <1>2, <1>5, <1>6, <1>7 DEF ChunkInd, Classes, Pool!Classes
<1>10. OwnedInd'
  BY <1>2, <1>5, <1>7, <1>8 DEF OwnedInd
<1>11. ThreadInd'
  BY <1>2, <1>5, <1>6 DEF ThreadInd, Classes, Pool!Classes
<1>12. PieceInd'
  <2>1. serving
    BY <1>2, <1>4 DEF PieceInd
  <2> QED BY <1>2, <1>5, <1>6, <2>1 DEF PieceInd, Classes, Pool!Classes
<1>13. /\ pos \in [Stock -> Nat] /\ free_list \in [Classes -> Stock \cup {Null}]
       /\ pos[h] = 0 /\ l \in Stock \cup {Null}
       /\ l = Null => \A b \in Stock : b[1] = e => pos[b] = 0
       /\ l # Null => /\ l[1] = e /\ pos[l] > 0
                      /\ \A b \in Stock : b[1] = e => pos[b] <= pos[l]
  BY <1>1, <1>3, <1>4, <1>l DEF PlaceInd, ListInd
<1>14. PICK r \in Nat : /\ \A b \in Stock : b[1] = e => pos[b] <= r
                        /\ l = Null => r = 0
                        /\ l # Null => r = pos[l] /\ r > 0
  <2>1. CASE l = Null
    BY <1>13, <2>1
  <2>2. CASE l # Null
    BY <1>13, <2>2
  <2> QED BY <2>1, <2>2
<1>15. PICK new \in [Stock -> Nat] : new[h] = r + 1 /\ \A b \in Stock : b # h => new[b] = pos[b]
  <2> DEFINE new == [b \in Stock |-> IF b = h THEN r + 1 ELSE pos[b]]
  <2>1. new \in [Stock -> Nat] /\ new[h] = r + 1 /\ \A b \in Stock : b # h => new[b] = pos[b]
    BY <1>4, <1>13, <1>14
  <2> HIDE DEF new
  <2> QED BY <2>1
<1>16. \A b \in Stock : pos[b] \in Nat /\ new[b] \in Nat
  BY <1>13, <1>15
<1>17. ListInd(new)'
  <2>1. \A b \in Stock :
            /\ new[b] = 1 => cell'[b] = Null
            /\ new[b] > 1 => /\ cell'[b] \in Stock /\ cell'[b][1] = b[1]
                             /\ new[cell'[b]] = new[b] - 1
    <3> SUFFICES ASSUME NEW b \in Stock
                 PROVE  /\ new[b] = 1 => cell'[b] = Null
                        /\ new[b] > 1 => /\ cell'[b] \in Stock /\ cell'[b][1] = b[1]
                                         /\ new[cell'[b]] = new[b] - 1
      OBVIOUS
    <3>1. CASE b = h
      <4>1. new[b] = r + 1 /\ cell'[b] = l
        BY <1>7, <1>15, <3>1
      <4>2. CASE l = Null
        BY <1>14, <4>1, <4>2
      <4>3. CASE l # Null
        <5>1. l \in Stock /\ l[1] = b[1] /\ l # h /\ r = pos[l] /\ r > 0
          BY <1>13, <1>14, <1>16, <1>e, <3>1, <4>3
        <5>2. new[l] = r
          BY <1>15, <5>1
        <5> QED BY <4>1, <5>1, <5>2
      <4> QED BY <4>2, <4>3
    <3>2. CASE b # h
      <4>1. new[b] = pos[b] /\ cell'[b] = cell[b]
        BY <1>2, <1>7, <1>15, <3>2 DEF ChunkInd
      <4>2. /\ pos[b] = 1 => cell[b] = Null
            /\ pos[b] > 1 => cell[b] \in Stock /\ cell[b][1] = b[1] /\ pos[cell[b]] = pos[b] - 1
        BY <1>1 DEF ListInd
      <4>3. ASSUME pos[b] > 1 PROVE cell[b] # h
        BY <1>13, <1>16, <4>2, <4>3
      <4> QED BY <1>15, <4>1, <4>2, <4>3
    <3> QED BY <3>1, <3>2
  <2>2. \A a, b \in Stock : a[1] = b[1] /\ new[a] = new[b] /\ new[a] > 0 => a = b
    <3>1. \A a, b \in Stock : a[1] = b[1] /\ pos[a] = pos[b] /\ pos[a] > 0 => a = b
      BY <1>1 DEF ListInd
    <3>2. \A a \in Stock : a[1] = e /\ a # h => new[a] # new[h]
      BY <1>14, <1>15, <1>16
    <3> QED BY <1>e, <1>15, <3>1, <3>2
  <2>3. free_list' \in [Classes -> Stock \cup {Null}]
    BY <1>4, <1>5, <1>13
  <2>4. \A f \in Classes :
          IF free_list'[f] = Null THEN \A b \in Stock : b[1] = f => new[b] = 0
          ELSE /\ free_list'[f][1] = f /\ new[free_list'[f]] > 0
               /\ \A b \in Stock : b[1] = f => new[b] <= new[free_list'[f]]
    <3> SUFFICES ASSUME NEW f \in Classes
                 PROVE  IF free_list'[f] = Null THEN \A b \in Stock : b[1] = f => new[b] = 0
                        ELSE /\ free_list'[f][1] = f /\ new[free_list'[f]] > 0
                             /\ \A b \in Stock : b[1] = f => new[b] <= new[free_list'[f]]
      OBVIOUS
    <3>1. CASE f = e
      <4>1. free_list'[f] = h
        BY <1>5, <1>13, <3>1
      <4>2. \A b \in Stock : b[1] = e => new[b] <= r + 1
        BY <1>14, <1>15, <1>16
      <4> QED BY <1>4, <1>15, <1>e, <3>1, <4>1, <4>2
    <3>2. CASE f # e
      <4>1. free_list'[f] = free_list[f]
        BY <1>5, <1>13, <3>2
      <4>2. \A b \in Stock : b[1] = f => new[b] = pos[b]
        BY <1>15, <1>e, <3>2
      <4>3. free_list[f] # Null => free_list[f] \in Stock
        BY <1>13
      <4> QED BY <1>1, <4>1, <4>2, <4>3 DEF ListInd
    <3> QED BY <3>1, <3>2
  <2>5. new \in [Stock' -> Nat] /\ Classes' = Classes
    BY <1>6, <1>15 DEF Classes, Pool!Classes
  <2> QED BY <1>6, <2>1, <2>2, <2>3, <2>4, <2>5, Zenon DEF ListInd, Null, Pool!Null
<1>18. PlaceInd(new)'
  <2>1. \A u \in Threads : block'[u] = IF u = t THEN Null ELSE block[u]
    BY <1>2, <1>5 DEF ThreadInd
  <2>2. new[h] > 0
    BY <1>15
  <2>3. \A b \in Stock :
          \/ new[b] > 0
          \/ \E u \in Threads : block'[u] = b
          \/ \E o \in owned : o.b = b
    <3> SUFFICES ASSUME NEW b \in Stock, b # h
                 PROVE  \/ new[b] > 0
                        \/ \E u \in Threads : block'[u] = b
                        \/ \E o \in owned : o.b = b
      BY <2>2
    <3>1. \A u \in Threads : block[u] = b => block'[u] = b
      BY <1>3, <2>1
    <3> QED BY <1>1, <1>15, <3>1 DEF PlaceInd
  <2>4. \A b \in Stock :
          new[b] > 0 => /\ \A u \in Threads : block'[u] # b
                        /\ \A o \in owned : o.b # b
    <3> SUFFICES ASSUME NEW b \in Stock, new[b] > 0
                 PROVE  /\ \A u \in Threads : block'[u] # b
                        /\ \A o \in owned : o.b # b
      OBVIOUS
    <3>1. CASE b = h
      BY <1>4, <1>8, <2>1, <3>1
    <3>2. CASE b # h
      <4>1. pos[b] > 0 /\ b # Null
        BY <1>15, <3>2, BlocksAndMarks
      <4> QED BY <1>1, <2>1, <4>1 DEF PlaceInd
    <3> QED BY <3>1, <3>2
  <2>5. \A u \in Threads, o \in owned : block'[u] # o.b
    <3>1. \A o \in owned : o.b # Null
      <4>1. \A x \in LargeBlocks : x # Null
        BY <1>2 DEF LargeBlocks, LargeInUse, OwnedInd, Null, Pool!Null, Pool!Large
      <4>2. \A x \in DOMAIN cell : x # Null
        BY <1>2, <4>1, BlocksAndMarks DEF ChunkInd
      <4> QED BY <1>2, <4>2 DEF OwnedInd
    <3> QED BY <1>1, <2>1, <3>1 DEF PlaceInd
  <2>6. \A v, u \in Threads : block'[v] # Null /\ block'[v] = block'[u] => v = u
    BY <1>1, <2>1 DEF PlaceInd
  <2>7. \A o, p \in owned : o.b = p.b => o = p
    BY <1>1 DEF PlaceInd
  <2> QED BY <1>5, <1>6, <2>3, <2>4, <2>5, <2>6, <2>7 DEF PlaceInd, Null, Pool!Null
<1> QED BY <1>9, <1>10, <1>11, <1>12, <1>17, <1>18 DEF PoolInd

\* A destroyed pool has given all back.
LEMMA DestroyInd ==
    ASSUME Pool!MemoryAssumption, PoolInd, Pool!Destroy
    PROVE  PoolInd'
<1>1. PICK pos : ListInd(pos) /\ PlaceInd(pos)
  BY DEF PoolInd
<1>2. ChunkInd /\ OwnedInd /\ ThreadInd /\ PieceInd
  BY DEF PoolInd
<1>3. /\ serving /\ owned = {} /\ \A t \in Threads : pc[t] = "out"
      /\ serving' = FALSE
      /\ pieces' = {x \in pieces : ~\E i \in DOMAIN chunk_list[x[1]] : chunk_list[x[1]][i] = x[2]}
      /\ UNCHANGED <<cell, free_list, chunk_list, owned, pc, block, idx, size>>
  BY DEF Pool!Destroy
<1>4. LargeInUse = {}
  BY <1>3 DEF LargeInUse
<1>5. pieces' = {}
  <2>1. pieces = {x \in Classes \X Nat : x[2] \in 1 .. Len(chunk_list[x[1]])}
    BY <1>2, <1>3, <1>4 DEF PieceInd
  <2>2. \A x \in pieces : \E i \in DOMAIN chunk_list[x[1]] : chunk_list[x[1]][i] = x[2]
    BY <1>2, <2>1 DEF ChunkInd
  <2> QED BY <1>3, <2>2
<1>6. Stock' = Stock /\ LargeInUse' = LargeInUse /\ LargeBlocks' = LargeBlocks
  BY <1>3 DEF Stock, Classes, Pool!Classes, LargeInUse, LargeBlocks
<1>7. ChunkInd' /\ OwnedInd' /\ ThreadInd'
  BY <1>2, <1>3, <1>6 DEF ChunkInd, OwnedInd, ThreadInd, Classes, Pool!Classes
<1>8. PieceInd'
  BY <1>2, <1>3, <1>5, FS_EmptySet DEF PieceInd, Classes, Pool!Classes
<1>9. ListInd(pos)'
  BY <1>1, <1>3, <1>6 DEF ListInd, Classes, Pool!Classes
<1>10. PlaceInd(pos)'
  BY <1>1, <1>3, <1>6 DEF PlaceInd
<1> QED BY <1>7, <1>8, <1>9, <1>10 DEF PoolInd

\* No step of the pool leaves the invariant.
LEMMA PoolNextInd ==
    ASSUME Pool!MemoryAssumption, PoolInd, Pool!Next
    PROVE  PoolInd'
BY AllocLargeInd, PopInd, WriteHeaderInd, ReadHeaderInd, PushInd, DestroyInd DEF Pool!Next

\* Steps of other parts leave it too.
LEMMA PoolStutterInd ==
    ASSUME PoolInd, UNCHANGED poolVars
    PROVE  PoolInd'
<1>1. PICK pos : ListInd(pos) /\ PlaceInd(pos)
  BY DEF PoolInd
<1>2. /\ UNCHANGED <<cell, free_list, chunk_list, pieces, owned>>
      /\ UNCHANGED <<pc, block, idx, size, serving>>
  BY DEF poolVars
<1>3. Stock' = Stock /\ LargeInUse' = LargeInUse /\ LargeBlocks' = LargeBlocks
  BY <1>2 DEF Stock, Classes, Pool!Classes, LargeInUse, LargeBlocks
<1>4. ChunkInd' /\ OwnedInd' /\ ThreadInd' /\ PieceInd'
  BY <1>2, <1>3 DEF PoolInd, ChunkInd, OwnedInd, ThreadInd, PieceInd, Classes, Pool!Classes
<1>5. ListInd(pos)' /\ PlaceInd(pos)'
  BY <1>1, <1>2, <1>3 DEF ListInd, PlaceInd, Classes, Pool!Classes
<1> QED BY <1>4, <1>5 DEF PoolInd

-----------------------------------------------------------------------------
\* The links from the head of a class's list, as a function with equations.
LEMMA LinksFollowed ==
    ASSUME Pool!MemoryAssumption, ChunkInd, NEW e \in Classes, NEW N, N = Cardinality(Stock)
    PROVE  /\ N \in Nat
           /\ Pool!Linked(e)[0] = free_list[e]
           /\ \A n \in 1 .. N : Pool!Linked(e)[n] = IF Pool!Linked(e)[n - 1] \in Stock
                                                    THEN cell[Pool!Linked(e)[n - 1]] ELSE Null
<1>1. N \in Nat
  BY FS_CardinalityType DEF ChunkInd
<1>2. Pool!Pooled = Stock /\ Pool!Cardinality(Stock) = N /\ Null = Pool!Null
  <2>1. Pool!Cardinality(Stock) = Cardinality(Stock)
    BY Zenon DEF Pool!Cardinality, Cardinality, Pool!IsFiniteSet, IsFiniteSet
  <2> QED BY <2>1, PooledAreCarved DEF Null
<1> DEFINE X == {cell[b] : b \in Stock} \cup {Null, free_list[e]}
           step == [n \in 1 .. N |-> [x \in X |-> IF x \in Stock THEN cell[x] ELSE Null]]
           Links(f) == f = [n \in 0 .. N |->
                              IF n = 0 THEN free_list[e]
                              ELSE IF f[n - 1] \in Stock THEN cell[f[n - 1]] ELSE Null]
           at == CHOOSE f : Links(f)
<1>3. IsStep(step, N, X) /\ free_list[e] \in X
  BY DEF IsStep
<1>4. \A n \in 1 .. N, x \in X : step[n][x] = IF x \in Stock THEN cell[x] ELSE Null
  <2> HIDE DEF X
  <2> QED OBVIOUS
<1>5. PICK g : Computes(g, N, X, free_list[e], step)
  <2> HIDE DEF X, step
  <2> QED BY <1>1, <1>3, RecursiveFunctionExists
<1>6. \A n \in 1 .. N : g[n] = IF g[n - 1] \in Stock THEN cell[g[n - 1]] ELSE Null
  <2>1. \A n \in 1 .. N : g[n - 1] \in X
    <3> HIDE DEF X
    <3> QED BY <1>1, <1>5 DEF Computes
  <2> HIDE DEF X, step
  <2> QED BY <1>4, <1>5, <2>1 DEF Computes
<1>7. Links(g)
  <2> HIDE DEF X, step
  <2> QED BY <1>1, <1>5, <1>6 DEF Computes
<1>8. Links(at)
  <2> HIDE DEF Links
  <2> QED BY <1>7
<1>9. Pool!Linked(e) = at
  BY <1>2 DEF Pool!Linked
<1> HIDE DEF at
<1>10. /\ at[0] = free_list[e]
       /\ \A n \in 1 .. N : at[n] = IF at[n - 1] \in Stock THEN cell[at[n - 1]] ELSE Null
  BY <1>1, <1>8
<1> HIDE DEF Links
<1> QED BY <1>1, <1>9, <1>10

\* A block that is free is once in the list of its class, and another one not at all.
LEMMA OnceInItsList ==
    ASSUME Pool!MemoryAssumption, ChunkInd, NEW pos, ListInd(pos), NEW b \in Stock,
           NEW N, N = Cardinality(Stock), NEW At, At = {n \in 0 .. N : Pool!Linked(b[1])[n] = b}
    PROVE  /\ pos[b] = 0 => At = {}
           /\ pos[b] > 0 => \E m : At = {m}
<1>e. PICK e : e = b[1]
  OBVIOUS
<1>1. /\ e \in Classes /\ \A x \in Stock : x # Null
  BY <1>e, BlocksAndMarks
<1>2. PICK at : at = Pool!Linked(e)
  OBVIOUS
<1>3. /\ N \in Nat /\ at[0] = free_list[e]
      /\ \A n \in 1 .. N : at[n] = IF at[n - 1] \in Stock THEN cell[at[n - 1]] ELSE Null
  BY <1>1, <1>2, LinksFollowed
<1>4. /\ \A x \in Stock : pos[x] \in Nat
      /\ \A x \in Stock :
            /\ pos[x] = 1 => cell[x] = Null
            /\ pos[x] > 1 => cell[x] \in Stock /\ cell[x][1] = x[1] /\ pos[cell[x]] = pos[x] - 1
      /\ \A x, y \in Stock : x[1] = y[1] /\ pos[x] = pos[y] /\ pos[x] > 0 => x = y
  BY DEF ListInd
<1>5. PICK R \in Nat :
        /\ \A x \in Stock : x[1] = e => pos[x] <= R
        /\ R = 0 => free_list[e] = Null
        /\ R > 0 => free_list[e] \in Stock /\ free_list[e][1] = e /\ pos[free_list[e]] = R
  <2>1. CASE free_list[e] = Null
    <3>1. \A x \in Stock : x[1] = e => pos[x] = 0
      BY <1>1, <2>1 DEF ListInd
    <3> QED BY <2>1, <3>1
  <2>2. CASE free_list[e] # Null
    <3>1. /\ free_list[e] \in Stock /\ free_list[e][1] = e /\ pos[free_list[e]] > 0
          /\ \A x \in Stock : x[1] = e => pos[x] <= pos[free_list[e]]
      BY <1>1, <2>2 DEF ListInd
    <3> QED BY <1>4, <3>1
  <2> QED BY <2>1, <2>2
<1>6. \A i \in 1 .. R : \E x \in Stock : x[1] = e /\ pos[x] = i
  <2> DEFINE T == {n \in 0 .. R : n < R => \E x \in Stock : x[1] = e /\ pos[x] = R - n}
  <2>1. 0 \in T
    BY <1>5
  <2>2. \A n \in 0 .. R - 1 : n \in T => n + 1 \in T
    <3> SUFFICES ASSUME NEW n \in 0 .. R - 1, n \in T, n + 1 < R
                 PROVE  \E x \in Stock : x[1] = e /\ pos[x] = R - (n + 1)
      OBVIOUS
    <3>1. PICK x \in Stock : x[1] = e /\ pos[x] = R - n
      OBVIOUS
    <3>2. cell[x] \in Stock /\ cell[x][1] = e /\ pos[cell[x]] = R - (n + 1)
      BY <1>4, <3>1
    <3> QED BY <3>2
  <2>3. 0 .. R \subseteq T
    <3> HIDE DEF T
    <3> QED BY <2>1, <2>2, InductionUpTo
  <2> SUFFICES ASSUME NEW i \in 1 .. R PROVE \E x \in Stock : x[1] = e /\ pos[x] = i
    OBVIOUS
  <2>4. R - i \in T /\ R - i < R /\ R - (R - i) = i
    BY <2>3
  <2> QED BY <2>4
<1>7. R <= N
  <2> DEFINE p == [i \in 1 .. R |-> CHOOSE x \in Stock : x[1] = e /\ pos[x] = i]
  <2>1. \A i \in 1 .. R : p[i] \in Stock /\ pos[p[i]] = i
    BY <1>6
  <2>2. p \in Injection(1 .. R, Stock)
    <3>1. p \in [1 .. R -> Stock]
      BY <2>1
    <3>2. \A i, j \in 1 .. R : p[i] = p[j] => i = j
      <4> HIDE DEF p
      <4> QED BY <2>1
    <3> HIDE DEF p
    <3> QED BY <3>1, <3>2 DEF Injection, IsInjective
  <2>3. IsFiniteSet(1 .. R) /\ Cardinality(1 .. R) = R
    BY FS_Interval
  <2>4. IsFiniteSet(Stock)
    BY DEF ChunkInd
  <2> HIDE DEF p
  <2>5. Cardinality(1 .. R) <= Cardinality(Stock)
    BY <2>2, <2>4, FS_Injection
  <2> QED BY <2>3, <2>5
<1>8. \A n \in 0 .. N : /\ n < R => at[n] \in Stock /\ at[n][1] = e /\ pos[at[n]] = R - n
                        /\ n >= R => at[n] = Null
  <2> DEFINE T == {n \in 0 .. N :
                     /\ n < R => at[n] \in Stock /\ at[n][1] = e /\ pos[at[n]] = R - n
                     /\ n >= R => at[n] = Null}
  <2>1. 0 \in T
    BY <1>3, <1>5
  <2>2. \A n \in 0 .. N - 1 : n \in T => n + 1 \in T
    <3> SUFFICES ASSUME NEW n \in 0 .. N - 1, n \in T PROVE n + 1 \in T
      OBVIOUS
    <3>1. at[n + 1] = IF at[n] \in Stock THEN cell[at[n]] ELSE Null
      <4>1. n + 1 \in 1 .. N /\ (n + 1) - 1 = n
        BY <1>3
      <4> QED BY <1>3, <4>1
    <3>2. CASE n >= R
      <4>1. at[n + 1] = Null
        BY <1>1, <3>1, <3>2
      <4> QED BY <1>3, <3>2, <4>1
    <3>3. CASE n + 1 = R
      <4>1. at[n] \in Stock /\ pos[at[n]] = 1
        BY <3>3
      <4>2. at[n + 1] = Null
        BY <1>4, <3>1, <4>1
      <4> QED BY <1>3, <3>3, <4>2
    <3>4. CASE n + 1 < R
      <4>1. at[n] \in Stock /\ at[n][1] = e /\ pos[at[n]] = R - n /\ R - n > 1
        BY <3>4
      <4>2. /\ at[n + 1] \in Stock /\ at[n + 1][1] = e /\ pos[at[n + 1]] = R - (n + 1)
        BY <1>4, <3>1, <4>1
      <4> QED BY <1>3, <3>4, <4>2
    <3> QED BY <3>2, <3>3, <3>4
  <2>3. 0 .. N \subseteq T
    <3> HIDE DEF T
    <3> QED BY <1>3, <2>1, <2>2, InductionUpTo
  <2> QED BY <2>3
<1>9. \A n \in At : n \in 0 .. N /\ at[n] = b /\ n < R /\ pos[b] = R - n
  <2>1. \A n \in At : n \in 0 .. N /\ at[n] = b
    BY <1>2, <1>e
  <2> QED BY <1>1, <1>3, <1>8, <2>1
<1>10. ASSUME pos[b] = 0 PROVE At = {}
  BY <1>3, <1>9, <1>10
<1>11. ASSUME pos[b] > 0 PROVE \E m : At = {m}
  <2>1. PICK r \in Nat : r = pos[b]
    BY <1>4
  <2>2. r > 0 /\ r <= R
    BY <1>5, <1>11, <1>e, <2>1
  <2>3. PICK m \in Nat : m = R - r
    BY <2>2
  <2>4. m \in 0 .. N /\ m < R /\ R - m = r
    BY <1>3, <1>7, <2>2, <2>3
  <2>5. at[m] \in Stock /\ at[m][1] = e /\ pos[at[m]] = r
    BY <1>8, <2>4
  <2>6. at[m] = b
    BY <1>4, <1>e, <2>1, <2>2, <2>5
  <2>7. \A n \in At : n = m
    BY <1>3, <1>9, <2>1, <2>3
  <2>8. m \in At
    BY <1>2, <1>e, <2>4, <2>6
  <2> QED BY <2>7, <2>8
<1> QED BY <1>10, <1>11

\* A block is in the hands of one thread at most, and given to the program once.
LEMMA PoolIndPlaces ==
    ASSUME Pool!MemoryAssumption, PoolInd
    PROVE  Pool!EachBlockInOnePlace
<1>1. PICK pos : ListInd(pos) /\ PlaceInd(pos)
  BY DEF PoolInd
<1>2. ChunkInd /\ Pool!Pooled = Stock
  BY PooledAreCarved DEF PoolInd
<1>3. \A S : Pool!Cardinality(S) = Cardinality(S)
  BY Zenon DEF Pool!Cardinality, Cardinality, Pool!IsFiniteSet, IsFiniteSet
<1>4. \A x : Cardinality({x}) = 1
  BY FS_Singleton
<1>5. Cardinality({}) = 0
  BY FS_EmptySet
<1>6. SUFFICES ASSUME NEW b \in Stock
              PROVE  Cardinality({n \in 0 .. Cardinality(Stock) : Pool!Linked(b[1])[n] = b})
                     + Cardinality({t \in Threads : block[t] = b})
                     + Cardinality({o \in owned : o.b = b}) = 1
  BY <1>2, <1>3 DEF Pool!EachBlockInOnePlace, Pool!ClassOf
<1>7. PICK N, At, Hands, Given :
        /\ N = Cardinality(Stock) /\ At = {n \in 0 .. N : Pool!Linked(b[1])[n] = b}
        /\ Hands = {t \in Threads : block[t] = b} /\ Given = {o \in owned : o.b = b}
  OBVIOUS
<1>8. /\ pos[b] = 0 => At = {}
      /\ pos[b] > 0 => \E m : At = {m}
  BY <1>1, <1>2, <1>7, OnceInItsList
<1>9. pos[b] \in Nat /\ b # Null
  BY <1>1, BlocksAndMarks DEF ListInd
<1>10. /\ pos[b] > 0 => Hands = {} /\ Given = {}
       /\ \A t, u \in Hands : t = u
       /\ \A o, p \in Given : o = p
       /\ Hands = {} \/ Given = {}
       /\ pos[b] > 0 \/ Hands # {} \/ Given # {}
  BY <1>1, <1>7, <1>9 DEF PlaceInd
<1>11. CASE pos[b] > 0
  <2>1. Cardinality(At) = 1 /\ Cardinality(Hands) = 0 /\ Cardinality(Given) = 0
    BY <1>4, <1>5, <1>8, <1>10, <1>11
  <2> QED BY <1>7, <2>1
<1>12. CASE pos[b] = 0 /\ Hands # {}
  <2>1. PICK t : Hands = {t}
    BY <1>10, <1>12
  <2>2. Cardinality(At) = 0 /\ Cardinality(Hands) = 1 /\ Cardinality(Given) = 0
    BY <1>4, <1>5, <1>8, <1>10, <1>12, <2>1
  <2> QED BY <1>7, <2>2
<1>13. CASE pos[b] = 0 /\ Given # {}
  <2>1. PICK o : Given = {o}
    BY <1>10, <1>13
  <2>2. Cardinality(At) = 0 /\ Cardinality(Hands) = 0 /\ Cardinality(Given) = 1
    BY <1>4, <1>5, <1>8, <1>10, <1>13, <2>1
  <2> QED BY <1>7, <2>2
<1> QED BY <1>9, <1>10, <1>11, <1>12, <1>13

\* The invariant says what the properties do.
LEMMA PoolIndHolds ==
    ASSUME Pool!MemoryAssumption, PoolInd
    PROVE  /\ Pool!TypeOK /\ Pool!EachBlockInOnePlace /\ Pool!HeadersNameTheClass
           /\ Pool!BlocksAreLargeEnough /\ Pool!MemoryAccountedFor
<1>1. ChunkInd /\ OwnedInd /\ ThreadInd /\ PieceInd /\ Pool!Pooled = Stock
  BY PooledAreCarved DEF PoolInd
<1>2. PICK pos : ListInd(pos)
  BY DEF PoolInd
<1>3. Pool!TypeOK
  <2>1. /\ DOMAIN free_list = Classes /\ DOMAIN chunk_list = Classes
        /\ \A f \in Classes : free_list[f] = Null \/ free_list[f] \in Stock
    BY <1>1, <1>2 DEF ChunkInd, ListInd
  <2>2. \A t \in Threads : pc[t] # "out" => block[t] \in Stock /\ idx[t] \in {<<f>> : f \in Classes}
    BY <1>1, BlocksAndMarks DEF ThreadInd
  <2>3. pc \in [Threads -> {"out", "header", "push"}] /\ serving \in BOOLEAN
    BY <1>1 DEF ThreadInd, PieceInd
  <2> QED BY <1>1, <2>1, <2>2, <2>3 DEF Pool!TypeOK, Classes, Null
<1>4. Pool!HeadersNameTheClass
  BY <1>1 DEF Pool!HeadersNameTheClass, Pool!ClassOf, OwnedInd, ThreadInd
<1>5. Pool!BlocksAreLargeEnough
  BY <1>1 DEF Pool!BlocksAreLargeEnough, Pool!ClassOf, OwnedInd
<1>6. Pool!MemoryAccountedFor
  <2>1. {x \in owned : Pool!ClassOf(x.b) = Pool!Large} = LargeInUse
    BY DEF Pool!ClassOf, LargeInUse
  <2>2. CASE serving
    <3>1. ASSUME NEW x \in Classes, NEW y \in Nat
          PROVE  y \in 1 .. Len(chunk_list[x])
                   <=> /\ y \in 1 .. MaxPieces
                       /\ \E i \in 1 .. BlocksPerChunk : Pool!Block(x, y, i) \in Stock
      <4>1. Len(chunk_list[x]) \in Nat /\ Len(chunk_list[x]) <= MaxPieces
        BY <1>1 DEF ChunkInd, PieceInd
      <4>2. 1 \in 1 .. BlocksPerChunk /\ MaxPieces \in Nat
        BY BlocksAndMarks
      <4>3. ASSUME NEW i \in 1 .. BlocksPerChunk
            PROVE  <<x, y, i>> \in Stock <=> y \in 1 .. Len(chunk_list[x])
        BY DEF Stock
      <4>4. \A i \in 1 .. BlocksPerChunk :
              Pool!Block(x, y, i) \in Stock <=> y \in 1 .. Len(chunk_list[x])
        BY <4>3 DEF Pool!Block
      <4>5. y \in 1 .. Len(chunk_list[x]) => y \in 1 .. MaxPieces
        BY <4>1, <4>2
      <4> QED BY <4>2, <4>4, <4>5
    <3>2. {x \in Classes \X Nat : x[2] \in 1 .. Len(chunk_list[x[1]])}
            = {x \in Pool!Classes \X (1 .. MaxPieces) :
                 \E i \in 1 .. BlocksPerChunk : Pool!Block(x[1], x[2], i) \in Stock}
      <4>1. 1 .. MaxPieces \subseteq Nat
        BY BlocksAndMarks
      <4> QED BY <3>1, <4>1 DEF Classes
    <3> QED BY <1>1, <2>1, <2>2, <3>2 DEF Pool!MemoryAccountedFor, PieceInd
  <2>3. CASE ~serving
    <3>1. LargeInUse = {} /\ pieces = {}
      BY <1>1, <2>3 DEF LargeInUse, PieceInd
    <3> QED BY <2>1, <2>3, <3>1 DEF Pool!MemoryAccountedFor
  <2> QED BY <2>2, <2>3
<1> QED BY <1>3, <1>4, <1>5, <1>6, PoolIndPlaces

\* Each block of the memory pool is in one place, whatever threads allocate and free.
THEOREM BlocksHaveOnePlace == Spec => []EachBlockInOnePlace
<1> DEFINE Ind == part = "pool" => PoolInd
<1>1. Init => Ind
  BY DataAssumption, PoolInitInd DEF Init
<1>2. Ind /\ [Next]_vars => Ind'
  <2> SUFFICES ASSUME Ind, [Next]_vars, part' = "pool" PROVE PoolInd'
    OBVIOUS
  <2>1. CASE PoolStep
    BY <2>1, DataAssumption, PoolNextInd DEF PoolStep
  <2>2. CASE MapStep \/ KeyStep \/ StreamStep \/ UNCHANGED vars
    <3>1. part' = part /\ UNCHANGED poolVars
      BY <2>2 DEF MapStep, KeyStep, StreamStep, vars
    <3> QED BY <3>1, PoolStutterInd
  <2> QED BY <2>1, <2>2 DEF Next
<1>3. Ind => EachBlockInOnePlace
  BY DataAssumption, PoolIndHolds DEF EachBlockInOnePlace
<1> QED BY <1>1, <1>2, <1>3, PTL DEF Spec

-----------------------------------------------------------------------------
(* The hash map *)

\* The sequence s has each member of P once.
Lists(s, P) ==
    /\ s \in Seq(P)
    /\ \A x \in P : \E i \in 1 .. Len(s) : s[i] = x
    /\ \A i, j \in 1 .. Len(s) : s[i] = s[j] => i = j

\* Each node of P is in the bucket of its hash, once, and no other node is in the table.
TableOf(t, n, P) ==
    /\ n \in Nat \ {0} /\ t \in [0 .. n - 1 -> Seq(P)]
    /\ \A x \in P : x.hash \in Nat
    /\ \A x \in P : \E p \in 1 .. Len(t[Map!Index(x.hash, n)]) : t[Map!Index(x.hash, n)][p] = x
    /\ \A i \in 0 .. n - 1 : \A p \in 1 .. Len(t[i]) : i = Map!Index(t[i][p].hash, n)
    /\ \A i \in 0 .. n - 1 : \A p, q \in 1 .. Len(t[i]) : t[i][p] = t[i][q] => p = q

\* The node for a key k whose value is v, when the hashes are hh, and the nodes for a dictionary.
NodeOf(hh, k, v) == [hash |-> hh[k], key |-> k, value |-> v]
Pairs(dd, hh) == {NodeOf(hh, k, dd[k]) : k \in DOMAIN dd}

\* How often q is the key or the value of a node of P.
Tally(P, q) == Cardinality({x \in P : x.key = q}) + Cardinality({x \in P : x.value = q})

\* How often it is that of x.
Uses(x, q) == (IF x.key = q THEN 1 ELSE 0) + (IF x.value = q THEN 1 ELSE 0)

-----------------------------------------------------------------------------
\* An index is one of a bucket.
LEMMA IndexIsBucket ==
    ASSUME NEW h \in Nat, NEW n \in Nat \ {0}
    PROVE  Map!Index(h, n) \in 0 .. n - 1
BY DEF Map!Index

\* A table without nodes.
LEMMA BlankTable ==
    ASSUME NEW n \in Nat \ {0}
    PROVE  TableOf(Map!Blank(n), n, {})
<1>1. PICK t : t = Map!Blank(n)
  OBVIOUS
<1>2. t \in [0 .. n - 1 -> Seq({})] /\ \A i \in 0 .. n - 1 : Len(t[i]) = 0
  <2>1. t = [i \in 0 .. n - 1 |-> <<>>]
    BY <1>1 DEF Map!Blank
  <2> QED BY <2>1
<1> QED BY <1>1, <1>2 DEF TableOf

\* A node becomes the first of its bucket.
LEMMA Prepended ==
    ASSUME NEW t, NEW n, NEW P, TableOf(t, n, P), NEW x, x \notin P, x.hash \in Nat,
           NEW u, u = [t EXCEPT ![Map!Index(x.hash, n)] = <<x>> \o t[Map!Index(x.hash, n)]]
    PROVE  TableOf(u, n, P \cup {x})
<1>1. /\ n \in Nat \ {0} /\ t \in [0 .. n - 1 -> Seq(P)]
      /\ \A y \in P : y.hash \in Nat
      /\ \A i \in 0 .. n - 1 : \A p \in 1 .. Len(t[i]) : i = Map!Index(t[i][p].hash, n)
      /\ \A i \in 0 .. n - 1 : \A p, q \in 1 .. Len(t[i]) : t[i][p] = t[i][q] => p = q
  BY DEF TableOf
<1>2. PICK a : a = Map!Index(x.hash, n)
  OBVIOUS
<1>3. a \in 0 .. n - 1 /\ t[a] \in Seq(P) /\ Len(t[a]) \in Nat
  <2>1. a \in 0 .. n - 1
    BY <1>1, <1>2, IndexIsBucket
  <2> QED BY <1>1, <2>1
<1>4. PICK l \in Nat : l = Len(t[a])
  BY <1>3
<1>5. /\ DOMAIN u = 0 .. n - 1 /\ u[a] = <<x>> \o t[a]
      /\ \A i \in 0 .. n - 1 : i # a => u[i] = t[i]
  BY <1>1, <1>2, <1>3
<1>6. /\ u[a] \in Seq(P \cup {x}) /\ Len(u[a]) = l + 1 /\ u[a][1] = x
      /\ \A p \in 1 .. l : u[a][p + 1] = t[a][p] /\ t[a][p] \in P
  <2>1. <<x>> \in Seq(P \cup {x}) /\ t[a] \in Seq(P \cup {x})
    BY <1>3
  <2>2. u[a] \in Seq(P \cup {x})
    <3>1. \A S : \A w, z \in Seq(S) : w \o z \in Seq(S)
      BY ConcatProperties
    <3> QED BY <1>5, <2>1, <3>1, Zenon
  <2>3. Len(<<x>>) = 1 /\ Len(u[a]) = l + 1
    BY <1>3, <1>4, <1>5, <2>1
  <2>4. u[a][1] = x
    BY <1>3, <1>4, <1>5, <2>1
  <2>5. \A p \in 1 .. l : t[a][p] \in P
    BY <1>3, <1>4
  <2>6. \A p \in 1 .. l : u[a][p + 1] = t[a][p]
    BY <1>3, <1>4, <1>5, <2>1
  <2> QED BY <2>2, <2>3, <2>4, <2>5, <2>6
<1>7. \A p \in 1 .. l + 1 : p = 1 \/ (p - 1 \in 1 .. l /\ u[a][p] = t[a][p - 1])
  <2> SUFFICES ASSUME NEW p \in 1 .. l + 1, p # 1 PROVE p - 1 \in 1 .. l /\ u[a][p] = t[a][p - 1]
    OBVIOUS
  <2>1. PICK q \in 1 .. l : p = q + 1
    <3>1. p - 1 \in 1 .. l /\ p = (p - 1) + 1
      OBVIOUS
    <3> QED BY <3>1
  <2> QED BY <1>6, <2>1
<1>8. u \in [0 .. n - 1 -> Seq(P \cup {x})]
  <2>1. \A i \in 0 .. n - 1 : u[i] \in Seq(P \cup {x})
    <3> SUFFICES ASSUME NEW i \in 0 .. n - 1, i # a PROVE u[i] \in Seq(P \cup {x})
      BY <1>6
    <3>1. u[i] \in Seq(P)
      BY <1>1, <1>5
    <3> QED BY <3>1
  <2>2. u = [i \in 0 .. n - 1 |-> u[i]]
    BY <1>1
  <2> QED BY <2>1, <2>2
<1>9. ASSUME NEW y \in P \cup {x}
      PROVE  \E p \in 1 .. Len(u[Map!Index(y.hash, n)]) : u[Map!Index(y.hash, n)][p] = y
  <2>1. CASE y = x
    <3>1. 1 \in 1 .. Len(u[a]) /\ u[a][1] = y
      BY <1>4, <1>6, <2>1
    <3> QED BY <1>2, <2>1, <3>1
  <2>2. CASE y \in P
    <3>1. PICK b : b = Map!Index(y.hash, n)
      OBVIOUS
    <3>2. b \in 0 .. n - 1
      BY <1>1, <2>2, <3>1, IndexIsBucket
    <3>3. PICK p \in 1 .. Len(t[b]) : t[b][p] = y
      BY <2>2, <3>1 DEF TableOf
    <3>4. CASE b = a
      <4>1. p \in 1 .. l /\ p + 1 \in 1 .. l + 1
        BY <1>4, <3>3, <3>4
      <4>2. p + 1 \in 1 .. Len(u[a]) /\ u[a][p + 1] = y
        BY <1>6, <3>3, <3>4, <4>1
      <4> QED BY <3>1, <3>4, <4>2
    <3>5. CASE b # a
      BY <1>5, <3>1, <3>2, <3>3, <3>5
    <3> QED BY <3>4, <3>5
  <2> QED BY <1>9, <2>1, <2>2
<1>10. ASSUME NEW i \in 0 .. n - 1, NEW p \in 1 .. Len(u[i])
       PROVE  i = Map!Index(u[i][p].hash, n)
  <2>1. CASE i # a
    BY <1>1, <1>5, <1>10, <2>1
  <2>2. CASE i = a /\ p = 1
    BY <1>2, <1>6, <2>2
  <2>3. CASE i = a /\ p # 1
    <3>1. p - 1 \in 1 .. Len(t[a]) /\ u[a][p] = t[a][p - 1]
      BY <1>4, <1>6, <1>7, <1>10, <2>3
    <3> QED BY <1>1, <1>3, <2>3, <3>1
  <2> QED BY <2>1, <2>2, <2>3
<1>11. ASSUME NEW i \in 0 .. n - 1, NEW p \in 1 .. Len(u[i]), NEW q \in 1 .. Len(u[i]),
              u[i][p] = u[i][q]
       PROVE  p = q
  <2>1. CASE i # a
    BY <1>1, <1>5, <1>11, <2>1
  <2>2. CASE i = a
    <3>1. p \in 1 .. l + 1 /\ q \in 1 .. l + 1
      BY <1>6, <1>11, <2>2
    <3>2. u[a][p] # x \/ p = 1
      <4>1. p # 1 => p - 1 \in 1 .. l /\ u[a][p] = t[a][p - 1]
        BY <1>7, <3>1
      <4> QED BY <1>6, <4>1
    <3>3. u[a][q] # x \/ q = 1
      <4>1. q # 1 => q - 1 \in 1 .. l /\ u[a][q] = t[a][q - 1]
        BY <1>7, <3>1
      <4> QED BY <1>6, <4>1
    <3>4. CASE p = 1 \/ q = 1
      BY <1>6, <1>11, <2>2, <3>2, <3>3, <3>4
    <3>5. CASE p # 1 /\ q # 1
      <4>1. /\ p - 1 \in 1 .. l /\ q - 1 \in 1 .. l
            /\ t[a][p - 1] = t[a][q - 1]
        BY <1>7, <1>11, <2>2, <3>1, <3>5
      <4>2. p - 1 = q - 1
        BY <1>1, <1>3, <1>4, <4>1
      <4> QED BY <3>1, <4>2
    <3> QED BY <3>4, <3>5
  <2> QED BY <2>1, <2>2
<1> QED BY <1>1, <1>8, <1>9, <1>10, <1>11 DEF TableOf

\* A node leaves its bucket.
LEMMA Unchained ==
    ASSUME NEW t, NEW n, NEW P, TableOf(t, n, P), NEW a \in 0 .. n - 1,
           NEW p \in 1 .. Len(t[a]), NEW x, x = t[a][p],
           NEW u, u = [t EXCEPT ![a] = SubSeq(t[a], 1, p - 1) \o SubSeq(t[a], p + 1, Len(t[a]))]
    PROVE  x \in P /\ TableOf(u, n, P \ {x})
<1>1. /\ n \in Nat \ {0} /\ t \in [0 .. n - 1 -> Seq(P)]
      /\ \A y \in P : y.hash \in Nat
      /\ \A i \in 0 .. n - 1 : \A r \in 1 .. Len(t[i]) : i = Map!Index(t[i][r].hash, n)
      /\ \A i \in 0 .. n - 1 : \A r, q \in 1 .. Len(t[i]) : t[i][r] = t[i][q] => r = q
  BY DEF TableOf
<1>2. PICK l \in Nat : l = Len(t[a])
  BY <1>1
<1>3. /\ t[a] \in Seq(P) /\ p \in 1 .. l /\ x \in P /\ \A r \in 1 .. l : t[a][r] \in P
      /\ \A r \in 1 .. l : t[a][r] = x => r = p
  <2>1. t[a] \in Seq(P) /\ p \in 1 .. l
    BY <1>1, <1>2
  <2>2. \A r \in 1 .. l : t[a][r] \in P
    BY <1>2, <2>1
  <2> QED BY <1>1, <1>2, <2>1, <2>2
<1>4. PICK w : w = SubSeq(t[a], 1, p - 1) \o SubSeq(t[a], p + 1, Len(t[a]))
  OBVIOUS
<1>5. /\ DOMAIN u = 0 .. n - 1 /\ u[a] = w
      /\ \A i \in 0 .. n - 1 : i # a => u[i] = t[i]
  BY <1>1, <1>4
<1>6. /\ w \in Seq(P \ {x}) /\ Len(w) = l - 1
      /\ \A r \in 1 .. l - 1 : w[r] = IF r < p THEN t[a][r] ELSE t[a][r + 1]
  <2>1. PICK f : f = SubSeq(t[a], 1, p - 1)
    OBVIOUS
  <2>2. PICK g : g = SubSeq(t[a], p + 1, l)
    OBVIOUS
  <2>3. /\ f \in Seq(P \ {x}) /\ Len(f) = p - 1
        /\ \A r \in 1 .. p - 1 : f[r] = t[a][r]
    <3>1. \A r \in 1 .. p - 1 : t[a][r] \in P \ {x}
      BY <1>3
    <3>2. p - 1 \in Int /\ 1 \in Int
      BY <1>3
    <3>3. /\ f \in Seq(P \ {x}) /\ Len(f) = IF 1 <= p - 1 THEN (p - 1) - 1 + 1 ELSE 0
          /\ \A r \in 1 .. (p - 1) - 1 + 1 : f[r] = t[a][1 + r - 1]
      BY <2>1, <3>1, <3>2, SubSeqProperties
    <3> QED BY <1>3, <3>3
  <2>4. /\ g \in Seq(P \ {x}) /\ Len(g) = l - p
        /\ \A r \in 1 .. l - p : g[r] = t[a][p + r]
    <3>1. \A r \in p + 1 .. l : t[a][r] \in P \ {x}
      BY <1>3
    <3>2. p + 1 \in Int /\ l \in Int
      BY <1>3
    <3>3. /\ g \in Seq(P \ {x}) /\ Len(g) = IF p + 1 <= l THEN l - (p + 1) + 1 ELSE 0
          /\ \A r \in 1 .. l - (p + 1) + 1 : g[r] = t[a][(p + 1) + r - 1]
      BY <2>2, <3>1, <3>2, SubSeqProperties
    <3> QED BY <1>3, <3>3
  <2>5. w = f \o g
    BY <1>2, <1>4, <2>1, <2>2
  <2>6. /\ w \in Seq(P \ {x}) /\ Len(w) = Len(f) + Len(g)
        /\ \A r \in 1 .. Len(f) + Len(g) : w[r] = IF r <= Len(f) THEN f[r] ELSE g[r - Len(f)]
    <3>1. f \in Seq(P \ {x}) /\ g \in Seq(P \ {x})
      BY <2>3, <2>4
    <3> QED BY <2>5, <3>1, ConcatProperties
  <2>7. \A r \in 1 .. l - 1 : w[r] = IF r < p THEN t[a][r] ELSE t[a][r + 1]
    <3> SUFFICES ASSUME NEW r \in 1 .. l - 1
                 PROVE  w[r] = IF r < p THEN t[a][r] ELSE t[a][r + 1]
      OBVIOUS
    <3>1. CASE r < p
      <4>1. r \in 1 .. p - 1 /\ r <= Len(f) /\ r \in 1 .. Len(f) + Len(g)
        <5>1. Len(f) = p - 1 /\ Len(g) = l - p /\ p \in 1 .. l
          BY <1>3, <2>3, <2>4
        <5> QED BY <3>1, <5>1
      <4> QED BY <2>3, <2>6, <3>1, <4>1
    <3>2. CASE ~(r < p)
      <4>1. PICK m \in Nat : m = r - (p - 1)
        BY <1>3, <3>2
      <4>2. /\ m \in 1 .. l - p /\ ~(r <= Len(f)) /\ r \in 1 .. Len(f) + Len(g)
            /\ r - Len(f) = m /\ p + m = r + 1
        BY <1>3, <2>3, <2>4, <3>2, <4>1
      <4> QED BY <2>4, <2>6, <3>2, <4>2
    <3> QED BY <3>1, <3>2
  <2> QED BY <1>3, <2>3, <2>4, <2>6, <2>7
<1>7. u \in [0 .. n - 1 -> Seq(P \ {x})]
  <2>1. ASSUME NEW i \in 0 .. n - 1, i # a PROVE t[i] \in Seq(P \ {x})
    <3>1. t[i] \in Seq(P)
      BY <1>1
    <3>2. \A r \in 1 .. Len(t[i]) : t[i][r] # x
      <4>1. a = Map!Index(x.hash, n)
        BY <1>1, <1>2, <1>3
      <4>2. \A r \in 1 .. Len(t[i]) : i = Map!Index(t[i][r].hash, n)
        BY <1>1
      <4> QED BY <2>1, <4>1, <4>2
    <3> QED BY <3>1, <3>2
  <2>2. \A i \in 0 .. n - 1 : u[i] \in Seq(P \ {x})
    BY <1>5, <1>6, <2>1
  <2>3. u = [i \in 0 .. n - 1 |-> u[i]]
    BY <1>1
  <2> QED BY <2>2, <2>3
<1>8. ASSUME NEW y \in P \ {x}
      PROVE  \E r \in 1 .. Len(u[Map!Index(y.hash, n)]) : u[Map!Index(y.hash, n)][r] = y
  <2>1. PICK b : b = Map!Index(y.hash, n)
    OBVIOUS
  <2>2. b \in 0 .. n - 1
    BY <1>1, <2>1, IndexIsBucket
  <2>3. PICK q \in 1 .. Len(t[b]) : t[b][q] = y
    BY <2>1 DEF TableOf
  <2>4. CASE b # a
    BY <1>5, <2>1, <2>2, <2>3, <2>4
  <2>5. CASE b = a
    <3>1. q \in 1 .. l /\ q # p
      BY <1>2, <2>3, <2>5
    <3>2. CASE q < p
      <4>1. q \in 1 .. l - 1 /\ w[q] = y
        BY <1>3, <1>6, <2>3, <2>5, <3>1, <3>2
      <4> QED BY <1>5, <1>6, <2>1, <2>5, <4>1
    <3>3. CASE q > p
      <4>1. q - 1 \in 1 .. l - 1 /\ ~(q - 1 < p) /\ (q - 1) + 1 = q
        BY <1>3, <3>1, <3>3
      <4>2. w[q - 1] = y
        BY <1>6, <2>3, <2>5, <4>1
      <4> QED BY <1>5, <1>6, <2>1, <2>5, <4>1, <4>2
    <3>4. q < p \/ q > p
      BY <1>3, <3>1
    <3> QED BY <3>2, <3>3, <3>4
  <2> QED BY <2>4, <2>5
<1>9. ASSUME NEW i \in 0 .. n - 1, NEW r \in 1 .. Len(u[i])
      PROVE  i = Map!Index(u[i][r].hash, n)
  <2>1. CASE i # a
    BY <1>1, <1>5, <1>9, <2>1
  <2>2. CASE i = a
    <3>0. r \in 1 .. l - 1
      BY <1>5, <1>6, <1>9, <2>2
    <3>1. r \in 1 .. l - 1 /\ r \in 1 .. l /\ r + 1 \in 1 .. l
      BY <3>0
    <3>2. u[i][r] = t[a][r] \/ u[i][r] = t[a][r + 1]
      BY <1>5, <1>6, <2>2, <3>1
    <3> QED BY <1>1, <1>2, <2>2, <3>1, <3>2
  <2> QED BY <2>1, <2>2
<1>10. ASSUME NEW i \in 0 .. n - 1, NEW r \in 1 .. Len(u[i]), NEW q \in 1 .. Len(u[i]),
              u[i][r] = u[i][q]
       PROVE  r = q
  <2>1. CASE i # a
    BY <1>1, <1>5, <1>10, <2>1
  <2>2. CASE i = a
    <3>1. r \in 1 .. l - 1 /\ q \in 1 .. l - 1 /\ w[r] = w[q]
      BY <1>5, <1>6, <1>10, <2>2
    <3>2. PICK m \in 1 .. l : w[r] = t[a][m] /\ m = IF r < p THEN r ELSE r + 1
      <4>1. (IF r < p THEN r ELSE r + 1) \in 1 .. l
        BY <3>1
      <4> QED BY <1>6, <3>1, <4>1
    <3>3. PICK k \in 1 .. l : w[q] = t[a][k] /\ k = IF q < p THEN q ELSE q + 1
      <4>1. (IF q < p THEN q ELSE q + 1) \in 1 .. l
        BY <3>1
      <4> QED BY <1>6, <3>1, <4>1
    <3>4. m = k
      BY <1>1, <1>2, <3>1, <3>2, <3>3
    <3> QED BY <1>3, <3>1, <3>2, <3>3, <3>4
  <2> QED BY <2>1, <2>2
<1> QED BY <1>1, <1>3, <1>7, <1>8, <1>9, <1>10 DEF TableOf

\* The table u is t with y at place p of bucket a.
Swaps(u, t, a, p, y) == u = [t EXCEPT ![a] = [t[a] EXCEPT ![p] = y]]

\* A node gets another value.
LEMMA Replaced ==
    ASSUME NEW t, NEW n, NEW P, TableOf(t, n, P), NEW a \in 0 .. n - 1,
           NEW p \in 1 .. Len(t[a]), NEW x, x = t[a][p],
           NEW y, y.hash = x.hash, y \notin P \ {x},
           NEW u, Swaps(u, t, a, p, y)
    PROVE  x \in P /\ TableOf(u, n, (P \ {x}) \cup {y})
<1>1. /\ n \in Nat \ {0} /\ t \in [0 .. n - 1 -> Seq(P)]
      /\ \A z \in P : z.hash \in Nat
      /\ \A i \in 0 .. n - 1 : \A r \in 1 .. Len(t[i]) : i = Map!Index(t[i][r].hash, n)
      /\ \A i \in 0 .. n - 1 : \A r, q \in 1 .. Len(t[i]) : t[i][r] = t[i][q] => r = q
  BY DEF TableOf
<1>2. PICK l \in Nat : l = Len(t[a])
  BY <1>1
<1>3. /\ t[a] \in Seq(P) /\ p \in 1 .. l /\ x \in P /\ \A r \in 1 .. l : t[a][r] \in P
      /\ \A r \in 1 .. l : t[a][r] = x => r = p
  <2>1. t[a] \in Seq(P) /\ p \in 1 .. l
    BY <1>1, <1>2
  <2>2. \A r \in 1 .. l : t[a][r] \in P
    BY <1>2, <2>1
  <2> QED BY <1>1, <1>2, <2>1, <2>2
<1>u. /\ DOMAIN u = 0 .. n - 1 /\ u[a] = [t[a] EXCEPT ![p] = y]
      /\ \A i \in 0 .. n - 1 : i # a => u[i] = t[i]
  BY <1>1 DEF Swaps
<1>a. a = Map!Index(x.hash, n)
  BY <1>1
<1> DEFINE Q == (P \ {x}) \cup {y}
<1>4. /\ u[a] \in Seq(Q) /\ Len(u[a]) = l /\ u[a][p] = y
      /\ \A r \in 1 .. l : r # p => u[a][r] = t[a][r] /\ u[a][r] \in P \ {x}
  <2>1. DOMAIN t[a] = 1 .. l /\ t[a] \in [1 .. l -> P]
    BY <1>2, <1>3
  <2>2. u[a][p] = y /\ \A r \in 1 .. l : r # p => u[a][r] = t[a][r] /\ u[a][r] \in P \ {x}
    BY <1>3, <1>u, <2>1
  <2>3. DOMAIN u[a] = 1 .. l /\ \A r \in 1 .. l : u[a][r] \in Q
    BY <1>3, <1>u, <2>1, <2>2
  <2>4. u[a] \in Seq(Q) /\ Len(u[a]) = l
    <3>1. u[a] \in [1 .. l -> Q]
      <4> HIDE DEF Q
      <4>1. u[a] = [r \in 1 .. l |-> u[a][r]]
        BY <1>u, <2>1
      <4> QED BY <2>3, <4>1
    <3>2. \A S, f : f \in [1 .. l -> S] => f \in Seq(S) /\ Len(f) = l
      OBVIOUS
    <3> HIDE DEF Q
    <3> QED BY <3>1, <3>2, Zenon
  <2> QED BY <2>2, <2>4
<1>5. u \in [0 .. n - 1 -> Seq(Q)]
  <2>1. ASSUME NEW i \in 0 .. n - 1, i # a PROVE t[i] \in Seq(Q)
    <3>1. t[i] \in Seq(P)
      BY <1>1
    <3>2. \A r \in 1 .. Len(t[i]) : t[i][r] # x
      BY <1>1, <1>a, <2>1
    <3>3. \A r \in 1 .. Len(t[i]) : t[i][r] \in Q
      BY <3>1, <3>2
    <3>4. \A S, R, f : f \in Seq(S) /\ (\A r \in 1 .. Len(f) : f[r] \in R) => f \in Seq(R)
      OBVIOUS
    <3> HIDE DEF Q
    <3> QED BY <3>1, <3>3, <3>4, Zenon
  <2>2. \A i \in 0 .. n - 1 : u[i] \in Seq(Q)
    BY <1>4, <1>u, <2>1
  <2>3. u = [i \in 0 .. n - 1 |-> u[i]]
    BY <1>1 DEF Swaps
  <2> HIDE DEF Q
  <2> QED BY <2>2, <2>3
<1>6. a = Map!Index(y.hash, n)
  BY <1>a
<1>7. ASSUME NEW z \in Q
      PROVE  \E r \in 1 .. Len(u[Map!Index(z.hash, n)]) : u[Map!Index(z.hash, n)][r] = z
  <2>1. CASE z = y
    BY <1>3, <1>4, <1>6, <2>1
  <2>2. CASE z # y
    <3>1. PICK b : b = Map!Index(z.hash, n)
      OBVIOUS
    <3>2. b \in 0 .. n - 1 /\ z \in P \ {x}
      BY <1>1, <1>7, <2>2, <3>1, IndexIsBucket
    <3>3. PICK q \in 1 .. Len(t[b]) : t[b][q] = z
      BY <3>1, <3>2 DEF TableOf
    <3>4. CASE b = a
      <4>1. q \in 1 .. l /\ q # p
        BY <1>2, <3>2, <3>3, <3>4
      <4> QED BY <1>4, <3>1, <3>3, <3>4, <4>1
    <3>5. CASE b # a
      BY <1>u, <3>1, <3>2, <3>3, <3>5
    <3> QED BY <3>4, <3>5
  <2> QED BY <2>1, <2>2
<1>8. ASSUME NEW i \in 0 .. n - 1, NEW r \in 1 .. Len(u[i])
      PROVE  i = Map!Index(u[i][r].hash, n)
  <2>1. CASE i # a
    BY <1>1, <1>u, <1>8, <2>1
  <2>2. CASE i = a /\ r = p
    BY <1>4, <1>6, <2>2
  <2>3. CASE i = a /\ r # p
    <3>1. r \in 1 .. l
      BY <1>4, <1>8, <2>3
    <3>2. u[a][r] = t[a][r]
      BY <1>4, <2>3, <3>1
    <3> QED BY <1>1, <1>2, <2>3, <3>1, <3>2
  <2> QED BY <2>1, <2>2, <2>3
<1>9. ASSUME NEW i \in 0 .. n - 1, NEW r \in 1 .. Len(u[i]), NEW q \in 1 .. Len(u[i]),
             u[i][r] = u[i][q]
      PROVE  r = q
  <2>1. CASE i # a
    BY <1>1, <1>u, <1>9, <2>1
  <2>2. CASE i = a
    <3>1. r \in 1 .. l /\ q \in 1 .. l
      BY <1>4, <1>9, <2>2
    <3>2. CASE r = p \/ q = p
      BY <1>4, <1>9, <2>2, <3>1, <3>2
    <3>3. CASE r # p /\ q # p
      <4>1. t[a][r] = t[a][q]
        BY <1>4, <1>9, <2>2, <3>1, <3>3
      <4> QED BY <1>1, <1>2, <3>1, <4>1
    <3> QED BY <3>2, <3>3
  <2> QED BY <2>1, <2>2
<1>10. \A z \in Q : z.hash \in Nat
  BY <1>1, <1>3
<1> QED BY <1>1, <1>3, <1>5, <1>7, <1>8, <1>9, <1>10 DEF TableOf

\* A listing, as a function onto P.
LEMMA ListingIsOnto ==
    ASSUME NEW s, NEW P, Lists(s, P)
    PROVE  /\ Len(s) \in Nat /\ s \in [1 .. Len(s) -> P]
           /\ s \in Surjection(1 .. Len(s), P) /\ s \in Injection(1 .. Len(s), P)
<1>1. Len(s) \in Nat /\ s \in [1 .. Len(s) -> P]
  BY DEF Lists
<1> QED BY <1>1 DEF Lists, Surjection, Injection, IsInjective

\* It is as long as P has elements.
LEMMA ListingLength ==
    ASSUME NEW s, NEW P, Lists(s, P)
    PROVE  IsFiniteSet(P) /\ Cardinality(P) = Len(s)
<1>1. IsFiniteSet(1 .. Len(s)) /\ Cardinality(1 .. Len(s)) = Len(s)
  <2>1. PICK l \in Nat : l = Len(s)
    BY ListingIsOnto
  <2>2. IsFiniteSet(1 .. l) /\ Cardinality(1 .. l) = l
    BY FS_Interval
  <2> QED BY <2>1, <2>2
<1>2. s \in Surjection(1 .. Len(s), P) /\ s \in Injection(1 .. Len(s), P)
  BY ListingIsOnto
<1> QED BY <1>1, <1>2, FS_Surjection

\* The places where elements of Q are listed are as many as these.
LEMMA ListingCounts ==
    ASSUME NEW s, NEW P, Lists(s, P), NEW Q \in SUBSET P,
           NEW I, I = {i \in 1 .. Len(s) : s[i] \in Q}
    PROVE  Cardinality(I) = Cardinality(Q)
<1>1. IsFiniteSet(I)
  <2>1. PICK l \in Nat : l = Len(s)
    BY ListingIsOnto
  <2>2. IsFiniteSet(1 .. l) /\ I \subseteq 1 .. l
    BY <2>1, FS_Interval
  <2> QED BY <2>2, FS_Subset
<1> DEFINE f == [i \in I |-> s[i]]
<1>2. f \in Surjection(I, Q)
  <2>1. f \in [I -> Q]
    OBVIOUS
  <2>2. \A x \in Q : \E i \in I : f[i] = x
    BY DEF Lists
  <2> HIDE DEF f
  <2> QED BY <2>1, <2>2 DEF Surjection
<1>3. f \in Injection(I, Q)
  <2>1. f \in [I -> Q]
    OBVIOUS
  <2>2. \A i, j \in I : f[i] = f[j] => i = j
    BY DEF Lists
  <2> HIDE DEF f
  <2> QED BY <2>1, <2>2 DEF Injection, IsInjective
<1> HIDE DEF f
<1> QED BY <1>1, <1>2, <1>3, FS_Surjection

\* So the strings the listed nodes own are those of the set.
LEMMA ListingOwns ==
    ASSUME NEW s, NEW P, Lists(s, P)
    PROVE  Map!Owned(s) = [q \in Strings |-> Tally(P, q)]
<1>1. \A S : Map!Cardinality(S) = Cardinality(S)
  BY Zenon DEF Map!Cardinality, Cardinality, Map!IsFiniteSet, IsFiniteSet
<1>2. DOMAIN s = 1 .. Len(s) /\ \A i \in 1 .. Len(s) : s[i] \in P
  BY ListingIsOnto
<1>3. ASSUME NEW q
      PROVE  /\ Cardinality({i \in DOMAIN s : s[i].key = q}) = Cardinality({x \in P : x.key = q})
             /\ Cardinality({i \in DOMAIN s : s[i].value = q})
                  = Cardinality({x \in P : x.value = q})
  <2>1. PICK K, V : K = {x \in P : x.key = q} /\ V = {x \in P : x.value = q}
    OBVIOUS
  <2>2. PICK I, J : I = {i \in 1 .. Len(s) : s[i] \in K} /\ J = {i \in 1 .. Len(s) : s[i] \in V}
    OBVIOUS
  <2>3. Cardinality(I) = Cardinality(K) /\ Cardinality(J) = Cardinality(V)
    BY <2>1, <2>2, ListingCounts
  <2>4. I = {i \in DOMAIN s : s[i].key = q} /\ J = {i \in DOMAIN s : s[i].value = q}
    BY <1>2, <2>1, <2>2
  <2> QED BY <2>1, <2>3, <2>4
<1> QED BY <1>1, <1>3 DEF Map!Owned, Tally

\* A node more or less.
LEMMA TallyMore ==
    ASSUME NEW P, IsFiniteSet(P), NEW x, x \notin P, NEW q
    PROVE  /\ Tally(P, q) \in Nat /\ Uses(x, q) \in Nat
           /\ Tally(P \cup {x}, q) = Tally(P, q) + Uses(x, q)
<1>1. PICK K, V : K = {y \in P : y.key = q} /\ V = {y \in P : y.value = q}
  OBVIOUS
<1>2. IsFiniteSet(K) /\ IsFiniteSet(V)
  BY <1>1, FS_Subset
<1>3. Cardinality(K) \in Nat /\ Cardinality(V) \in Nat
  BY <1>2, FS_CardinalityType
<1>4. Cardinality({y \in P \cup {x} : y.key = q}) = Cardinality(K) + (IF x.key = q THEN 1 ELSE 0)
  <2>1. CASE x.key = q
    <3>1. {y \in P \cup {x} : y.key = q} = K \cup {x} /\ x \notin K
      BY <1>1, <2>1
    <3> QED BY <1>2, <2>1, <3>1, FS_AddElement
  <2>2. CASE x.key # q
    <3>1. {y \in P \cup {x} : y.key = q} = K
      BY <1>1, <2>2
    <3>2. Cardinality({y \in P \cup {x} : y.key = q}) = Cardinality(K)
      BY <3>1, Zenon
    <3> QED BY <1>3, <2>2, <3>2
  <2> QED BY <2>1, <2>2
<1>5. Cardinality({y \in P \cup {x} : y.value = q})
        = Cardinality(V) + (IF x.value = q THEN 1 ELSE 0)
  <2>1. CASE x.value = q
    <3>1. {y \in P \cup {x} : y.value = q} = V \cup {x} /\ x \notin V
      BY <1>1, <2>1
    <3> QED BY <1>2, <2>1, <3>1, FS_AddElement
  <2>2. CASE x.value # q
    <3>1. {y \in P \cup {x} : y.value = q} = V
      BY <1>1, <2>2
    <3>2. Cardinality({y \in P \cup {x} : y.value = q}) = Cardinality(V)
      BY <3>1, Zenon
    <3> QED BY <1>3, <2>2, <3>2
  <2> QED BY <2>1, <2>2
<1>6. Uses(x, q) = (IF x.key = q THEN 1 ELSE 0) + (IF x.value = q THEN 1 ELSE 0)
  BY DEF Uses
<1>7. Tally(P, q) = Cardinality(K) + Cardinality(V)
  BY <1>1 DEF Tally
<1>8. Tally(P \cup {x}, q) = Cardinality({y \in P \cup {x} : y.key = q})
                             + Cardinality({y \in P \cup {x} : y.value = q})
  BY DEF Tally
<1>9. /\ (IF x.key = q THEN 1 ELSE 0) \in Nat /\ (IF x.value = q THEN 1 ELSE 0) \in Nat
  OBVIOUS
<1> QED BY <1>3, <1>4, <1>5, <1>6, <1>7, <1>8, <1>9

\* The same, of a node that leaves.
LEMMA TallyLess ==
    ASSUME NEW P, IsFiniteSet(P), NEW x \in P, NEW q
    PROVE  /\ Tally(P \ {x}, q) \in Nat /\ Tally(P, q) \in Nat /\ Uses(x, q) \in Nat
           /\ Tally(P \ {x}, q) = Tally(P, q) - Uses(x, q)
<1>1. IsFiniteSet(P \ {x}) /\ x \notin P \ {x} /\ (P \ {x}) \cup {x} = P
  BY FS_RemoveElement
<1> QED BY <1>1, TallyMore

\* No node uses no string.
LEMMA TallyNone ==
    ASSUME NEW q
    PROVE  Tally({}, q) = 0
BY FS_EmptySet DEF Tally

\* A sequence of one node lists it, and one of none nothing.
LEMMA ShortListings ==
    ASSUME NEW x
    PROVE  /\ Map!Owned(<<x>>) = [q \in Strings |-> Uses(x, q)]
           /\ Map!Owned(<<>>) = [q \in Strings |-> 0]
<1>1. Lists(<<x>>, {x}) /\ Lists(<<>>, {})
  BY DEF Lists
<1>2. \A q : Tally({x}, q) = Uses(x, q)
  <2> SUFFICES ASSUME NEW q PROVE Tally({x}, q) = Uses(x, q)
    OBVIOUS
  <2>1. PICK e : e = {}
    OBVIOUS
  <2>2. IsFiniteSet(e) /\ e \cup {x} = {x} /\ x \notin e /\ Tally(e, q) = 0
    BY <2>1, FS_EmptySet, TallyNone
  <2>3. Tally(e \cup {x}, q) = Tally(e, q) + Uses(x, q) /\ Uses(x, q) \in Nat
    BY <2>2, TallyMore
  <2>4. Tally(e \cup {x}, q) = Tally({x}, q)
    BY <2>2, Zenon
  <2> QED BY <2>2, <2>3, <2>4
<1>3. Map!Owned(<<x>>) = [q \in Strings |-> Tally({x}, q)]
  BY <1>1, ListingOwns
<1>4. Map!Owned(<<>>) = [q \in Strings |-> Tally({}, q)]
  BY <1>1, ListingOwns
<1> QED BY <1>2, <1>3, <1>4, TallyNone

-----------------------------------------------------------------------------
\* The nodes of a table are listed bucket by bucket.
LEMMA NodesList ==
    ASSUME NEW t, NEW n, NEW P, TableOf(t, n, P)
    PROVE  Lists(Map!Nodes(t), P)
<1>1. /\ n \in Nat /\ n > 0 /\ t \in [0 .. n - 1 -> Seq(P)] /\ DOMAIN t = 0 .. n - 1
      /\ \A x \in P : x.hash \in Nat
      /\ \A x \in P : \E p \in 1 .. Len(t[Map!Index(x.hash, n)]) : t[Map!Index(x.hash, n)][p] = x
      /\ \A i \in 0 .. n - 1 : \A p \in 1 .. Len(t[i]) : i = Map!Index(t[i][p].hash, n)
      /\ \A i \in 0 .. n - 1 : \A p, q \in 1 .. Len(t[i]) : t[i][p] = t[i][q] => p = q
  BY DEF TableOf
<1>r. \A x \in P : Map!Index(x.hash, n) \in 0 .. n - 1
  <2>1. n \in Nat \ {0}
    BY <1>1
  <2> QED BY <1>1, <2>1, IndexIsBucket
<1>2. Map!Cardinality(DOMAIN t) = n
  <2>1. Map!Cardinality(0 .. n - 1) = Cardinality(0 .. n - 1)
    BY Zenon DEF Map!Cardinality, Cardinality, Map!IsFiniteSet, IsFiniteSet
  <2>2. Cardinality(0 .. n - 1) = n
    <3>1. PICK m \in Nat : m = n - 1
      BY <1>1
    <3>2. 0 \in Int /\ m \in Int /\ 0 <= m
      BY <3>1
    <3>3. Cardinality(0 .. m) = m - 0 + 1
      BY <3>2, FS_Interval
    <3> QED BY <1>1, <3>1, <3>3
  <2> QED BY <1>1, <2>1, <2>2
<1> DEFINE step == [i \in 1 .. n |-> [s \in Seq(P) |-> s \o t[i - 1]]]
           All(f) == f = [i \in 0 .. n |-> IF i = 0 THEN <<>> ELSE f[i - 1] \o t[i - 1]]
           upTo == CHOOSE f : All(f)
<1>3. \A i \in 1 .. n : i - 1 \in 0 .. n - 1 /\ t[i - 1] \in Seq(P)
  BY <1>1
<1>4. IsStep(step, n, Seq(P)) /\ <<>> \in Seq(P)
  <2>1. \A S : \A w, z \in Seq(S) : w \o z \in Seq(S)
    BY ConcatProperties
  <2> QED BY <1>3, <2>1 DEF IsStep
<1>5. PICK g : Computes(g, n, Seq(P), <<>>, step)
  <2> HIDE DEF step
  <2> QED BY <1>1, <1>4, RecursiveFunctionExists
<1>6. /\ g \in [0 .. n -> Seq(P)] /\ g[0] = <<>>
      /\ \A i \in 1 .. n : g[i] = g[i - 1] \o t[i - 1]
  <2>1. g \in [0 .. n -> Seq(P)] /\ g[0] = <<>> /\ \A i \in 1 .. n : g[i] = step[i][g[i - 1]]
    <3> HIDE DEF step
    <3> QED BY <1>5 DEF Computes
  <2>2. \A i \in 1 .. n : g[i - 1] \in Seq(P)
    BY <1>1, <2>1
  <2> QED BY <2>1, <2>2
<1>7. All(g)
  <2> HIDE DEF step
  <2>1. \A i \in 0 .. n : i = 0 \/ i \in 1 .. n
    BY <1>1
  <2>2. \A i \in 0 .. n : g[i] = IF i = 0 THEN <<>> ELSE g[i - 1] \o t[i - 1]
    BY <1>6, <2>1
  <2>3. g = [i \in 0 .. n |-> g[i]]
    BY <1>6
  <2> QED BY <2>2, <2>3
<1>8. All(upTo)
  <2> HIDE DEF All
  <2> QED BY <1>7
<1>9. Map!Nodes(t) = upTo[n]
  BY <1>2 DEF Map!Nodes
<1> HIDE DEF upTo
<1>10. upTo[0] = <<>> /\ \A i \in 1 .. n : upTo[i] = upTo[i - 1] \o t[i - 1]
  <2>1. \A i \in 0 .. n : upTo[i] = IF i = 0 THEN <<>> ELSE upTo[i - 1] \o t[i - 1]
    BY <1>8
  <2>2. 0 \in 0 .. n /\ \A i \in 1 .. n : i \in 0 .. n /\ i # 0
    BY <1>1
  <2> HIDE DEF All
  <2> QED BY <2>1, <2>2
<1> HIDE DEF All
<1> DEFINE Part(i) == {x \in P : Map!Index(x.hash, n) < i}
           T == {i \in 0 .. n : Lists(upTo[i], Part(i))}
<1>11. 0 \in T
  <2>1. \A x \in P : ~(Map!Index(x.hash, n) < 0)
    BY <1>1, <1>r
  <2>2. Part(0) = {}
    BY <2>1
  <2>3. Lists(<<>>, {})
    BY DEF Lists
  <2> HIDE DEF Part
  <2>4. Lists(upTo[0], Part(0))
    BY <1>10, <2>2, <2>3, Zenon
  <2> QED BY <1>1, <2>4
<1>12. ASSUME NEW i \in 0 .. n - 1, i \in T PROVE i + 1 \in T
  <2>1. PICK w, z, A, C : /\ w = upTo[i] /\ z = t[i] /\ A = Part(i) /\ C = Part(i + 1)
    OBVIOUS
  <2>2. upTo[i + 1] = w \o z
    <3>1. i + 1 \in 1 .. n /\ (i + 1) - 1 = i
      BY <1>1
    <3> QED BY <1>10, <2>1, <3>1
  <2>3. Lists(w, A)
    BY <1>12, <2>1
  <2>4. \A x \in P : Map!Index(x.hash, n) \in Int
    BY <1>1, <1>r
  <2>5. /\ A \subseteq C /\ C \subseteq P
        /\ \A x \in C : x \in A \/ i = Map!Index(x.hash, n)
        /\ \A x \in A : i # Map!Index(x.hash, n)
        /\ \A x \in P : i = Map!Index(x.hash, n) => x \in C
    BY <2>1, <2>4
  <2> HIDE DEF Part
  <2>6. /\ z \in Seq(P) /\ \A p \in 1 .. Len(z) : z[p] \in P /\ i = Map!Index(z[p].hash, n)
        /\ \A p, q \in 1 .. Len(z) : z[p] = z[q] => p = q
        /\ \A x \in P : i = Map!Index(x.hash, n) => \E p \in 1 .. Len(z) : z[p] = x
    <3>1. t[i] \in Seq(P) /\ \A p \in 1 .. Len(t[i]) : t[i][p] \in P
      BY <1>1
    <3> QED BY <1>1, <2>1, <3>1
  <2>7. z \in Seq(C)
    BY <2>5, <2>6
  <2>8. w \in Seq(C) /\ \A p \in 1 .. Len(w) : w[p] \in A
    BY <2>3, <2>5 DEF Lists
  <2>9. PICK m, l \in Nat : m = Len(w) /\ l = Len(z)
    BY <2>7, <2>8
  <2>10. /\ w \o z \in Seq(C) /\ Len(w \o z) = m + l
         /\ \A p \in 1 .. m : (w \o z)[p] = w[p]
         /\ \A p \in 1 .. l : (w \o z)[m + p] = z[p]
    <3>1. /\ w \o z \in Seq(C) /\ Len(w \o z) = m + l
          /\ \A p \in 1 .. m + l : (w \o z)[p] = IF p <= m THEN w[p] ELSE z[p - m]
      BY <2>7, <2>8, <2>9, ConcatProperties
    <3>2. ASSUME NEW p \in 1 .. l PROVE (w \o z)[m + p] = z[p]
      <4>1. m + p \in 1 .. m + l /\ ~(m + p <= m) /\ (m + p) - m = p
        BY <2>9
      <4> QED BY <3>1, <4>1
    <3> QED BY <2>9, <3>1, <3>2
  <2>11. PICK v : v = w \o z
    OBVIOUS
  <2>12. \A p \in 1 .. m + l :
           \/ p \in 1 .. m /\ v[p] = w[p] /\ v[p] \in A
           \/ p - m \in 1 .. l /\ v[p] = z[p - m] /\ i = Map!Index(v[p].hash, n)
    <3> SUFFICES ASSUME NEW p \in 1 .. m + l
                 PROVE  \/ p \in 1 .. m /\ v[p] = w[p] /\ v[p] \in A
                        \/ p - m \in 1 .. l /\ v[p] = z[p - m] /\ i = Map!Index(v[p].hash, n)
      OBVIOUS
    <3>1. CASE p <= m
      BY <2>8, <2>9, <2>10, <2>11, <3>1
    <3>2. CASE ~(p <= m)
      <4>1. PICK q \in 1 .. l : p = m + q
        <5>1. p - m \in 1 .. l /\ p = m + (p - m)
          BY <2>9, <3>2
        <5> QED BY <5>1
      <4>2. v[p] = z[q] /\ p - m = q
        BY <2>9, <2>10, <2>11, <4>1
      <4> QED BY <2>6, <2>9, <4>2
    <3> QED BY <3>1, <3>2
  <2>13. ASSUME NEW x \in C PROVE \E p \in 1 .. m + l : v[p] = x
    <3>1. CASE x \in A
      <4>1. PICK p \in 1 .. m : w[p] = x
        BY <2>3, <2>9, <3>1 DEF Lists
      <4>2. p \in 1 .. m + l /\ v[p] = x
        BY <2>9, <2>10, <2>11, <4>1
      <4> QED BY <4>2
    <3>2. CASE i = Map!Index(x.hash, n)
      <4>1. PICK p \in 1 .. l : z[p] = x
        BY <2>5, <2>6, <2>9, <3>2
      <4>2. m + p \in 1 .. m + l /\ v[m + p] = x
        BY <2>9, <2>10, <2>11, <4>1
      <4> QED BY <4>2
    <3> QED BY <2>5, <3>1, <3>2
  <2>14. ASSUME NEW p \in 1 .. m + l, NEW q \in 1 .. m + l, v[p] = v[q] PROVE p = q
    <3>1. CASE v[p] \in A
      <4>1. p \in 1 .. m /\ q \in 1 .. m /\ w[p] = w[q]
        BY <2>5, <2>12, <2>14, <3>1
      <4> QED BY <2>3, <2>9, <4>1 DEF Lists
    <3>2. CASE v[p] \notin A
      <4>1. p - m \in 1 .. l /\ q - m \in 1 .. l /\ z[p - m] = z[q - m]
        BY <2>12, <2>14, <3>2
      <4>2. p - m = q - m
        BY <2>6, <2>9, <4>1
      <4> QED BY <2>9, <4>2
    <3> QED BY <3>1, <3>2
  <2>15. v \in Seq(C) /\ Len(v) = m + l
    BY <2>10, <2>11
  <2>16. Lists(v, C)
    BY <2>13, <2>14, <2>15 DEF Lists
  <2>17. i + 1 \in 0 .. n
    BY <1>1
  <2> QED BY <2>1, <2>2, <2>11, <2>16, <2>17
<1>13. n \in T
  <2> HIDE DEF T
  <2>1. 0 .. n \subseteq T
    BY <1>1, <1>11, <1>12, InductionUpTo
  <2> QED BY <1>1, <2>1
<1>14. Part(n) = P
  <2>1. \A x \in P : Map!Index(x.hash, n) < n
    BY <1>1, <1>r
  <2> QED BY <2>1
<1> HIDE DEF Part
<1> QED BY <1>9, <1>13, <1>14

\* Each step of the loop of __hashmap_resize__ puts the next node into its new bucket.
LEMMA RehashHolds ==
    ASSUME NEW t, NEW P, Lists(Map!Nodes(t), P), \A x \in P : x.hash \in Nat, NEW n \in Nat \ {0}
    PROVE  TableOf(Map!Rehash(t, n), n, P)
<1>1. PICK s : s = Map!Nodes(t)
  OBVIOUS
<1>2. /\ s \in Seq(P) /\ \A x \in P : \E i \in 1 .. Len(s) : s[i] = x
      /\ \A i, j \in 1 .. Len(s) : s[i] = s[j] => i = j
  BY <1>1 DEF Lists
<1>3. PICK l \in Nat : l = Len(s)
  BY <1>2
<1>4. \A i \in 1 .. l : s[i] \in P /\ s[i].hash \in Nat
  BY <1>2, <1>3
<1> DEFINE X == [0 .. n - 1 -> Seq(P)]
           Put(i, u) == [u EXCEPT ![Map!Index(s[i].hash, n)] =
                            <<s[i]>> \o u[Map!Index(s[i].hash, n)]]
           step == [i \in 1 .. l |-> [u \in X |-> Put(i, u)]]
           All(f) == f = [i \in 0 .. l |-> IF i = 0 THEN Map!Blank(n) ELSE Put(i, f[i - 1])]
           moved == CHOOSE f : All(f)
<1>5. \A i \in 1 .. l, u \in X : Put(i, u) \in X
  <2> SUFFICES ASSUME NEW i \in 1 .. l, NEW u \in X PROVE Put(i, u) \in X
    OBVIOUS
  <2>1. PICK a \in 0 .. n - 1 : a = Map!Index(s[i].hash, n)
    BY <1>4, IndexIsBucket
  <2>2. <<s[i]>> \in Seq(P) /\ u[a] \in Seq(P)
    BY <1>4
  <2>3. PICK z : z = <<s[i]>> \o u[a]
    OBVIOUS
  <2>4. z \in Seq(P)
    <3>1. \A S : \A w, v \in Seq(S) : w \o v \in Seq(S)
      BY ConcatProperties
    <3> QED BY <2>2, <2>3, <3>1, Zenon
  <2>5. Put(i, u) = [u EXCEPT ![a] = z]
    BY <2>1, <2>3
  <2> HIDE DEF Put
  <2> QED BY <2>4, <2>5
<1>6. IsStep(step, l, X) /\ Map!Blank(n) \in X
  <2>1. Map!Blank(n) \in X
    BY DEF Map!Blank
  <2> HIDE DEF X, Put
  <2> QED BY <1>5, <2>1 DEF IsStep
<1>7. PICK g : Computes(g, l, X, Map!Blank(n), step)
  <2> HIDE DEF step, X
  <2> QED BY <1>6, RecursiveFunctionExists
<1>8. /\ g \in [0 .. l -> X] /\ g[0] = Map!Blank(n)
      /\ \A i \in 1 .. l : g[i] = Put(i, g[i - 1])
  <2>1. g \in [0 .. l -> X] /\ g[0] = Map!Blank(n) /\ \A i \in 1 .. l : g[i] = step[i][g[i - 1]]
    <3> HIDE DEF step, X
    <3> QED BY <1>7 DEF Computes
  <2>2. \A i \in 1 .. l : g[i - 1] \in X
    <3> HIDE DEF X
    <3> QED BY <2>1
  <2>3. \A i \in 1 .. l, u \in X : step[i][u] = Put(i, u)
    <3> HIDE DEF X, Put
    <3> QED OBVIOUS
  <2> HIDE DEF X, step, Put
  <2> QED BY <2>1, <2>2, <2>3
<1>9. All(g)
  <2> HIDE DEF step, X, Put
  <2>1. \A i \in 0 .. l : i = 0 \/ i \in 1 .. l
    OBVIOUS
  <2>2. \A i \in 0 .. l : g[i] = IF i = 0 THEN Map!Blank(n) ELSE Put(i, g[i - 1])
    BY <1>8, <2>1
  <2>3. g = [i \in 0 .. l |-> g[i]]
    BY <1>8
  <2> QED BY <2>2, <2>3
<1>10. All(moved)
  <2> HIDE DEF All
  <2> QED BY <1>9
<1>11. Map!Rehash(t, n) = moved[l]
  BY <1>1, <1>3 DEF Map!Rehash
<1> HIDE DEF moved
<1>12. moved[0] = Map!Blank(n) /\ \A i \in 1 .. l : moved[i] = Put(i, moved[i - 1])
  <2>1. \A i \in 0 .. l : moved[i] = IF i = 0 THEN Map!Blank(n) ELSE Put(i, moved[i - 1])
    <3> HIDE DEF Put
    <3> QED BY <1>10
  <2>2. 0 \in 0 .. l /\ \A i \in 1 .. l : i \in 0 .. l /\ i # 0
    OBVIOUS
  <2> HIDE DEF All, Put
  <2> QED BY <2>1, <2>2
<1> HIDE DEF All
<1> DEFINE First(i) == {s[j] : j \in 1 .. i}
           T == {i \in 0 .. l : TableOf(moved[i], n, First(i))}
<1>13. 0 \in T
  <2>1. First(0) = {}
    OBVIOUS
  <2>2. TableOf(moved[0], n, First(0))
    <3> HIDE DEF First
    <3> QED BY <1>12, <2>1, BlankTable
  <2> QED BY <2>2
<1>14. ASSUME NEW i \in 0 .. l - 1, i \in T PROVE i + 1 \in T
  <2>1. i + 1 \in 1 .. l /\ (i + 1) - 1 = i
    OBVIOUS
  <2>2. PICK x, u, v, A : x = s[i + 1] /\ u = moved[i] /\ v = moved[i + 1] /\ A = First(i)
    OBVIOUS
  <2>3. v = [u EXCEPT ![Map!Index(x.hash, n)] = <<x>> \o u[Map!Index(x.hash, n)]]
    BY <1>12, <2>1, <2>2
  <2>4. x \notin A /\ First(i + 1) = A \cup {x}
    <3>1. \A j \in 1 .. i : j \in 1 .. Len(s) /\ i + 1 \in 1 .. Len(s) /\ j # i + 1
      BY <1>3
    <3>2. \A j \in 1 .. i : s[j] # x
      BY <1>2, <2>2, <3>1
    <3>3. \A j \in 1 .. i + 1 : j \in 1 .. i \/ j = i + 1
      OBVIOUS
    <3> QED BY <2>1, <2>2, <3>2, <3>3
  <2>5. TableOf(u, n, A) /\ x.hash \in Nat
    BY <1>4, <1>14, <2>1, <2>2
  <2> HIDE DEF First, Put
  <2>6. TableOf(v, n, A \cup {x})
    BY <2>3, <2>4, <2>5, Prepended
  <2> QED BY <2>1, <2>2, <2>4, <2>6
<1>15. l \in T
  <2> HIDE DEF T
  <2>1. 0 .. l \subseteq T
    BY <1>13, <1>14, InductionUpTo
  <2> QED BY <2>1
<1>16. First(l) = P
  BY <1>2, <1>3, <1>4
<1> HIDE DEF First
<1> QED BY <1>11, <1>15, <1>16

-----------------------------------------------------------------------------
\* The numbers of buckets that a table may have.
TwoPowers == {1, 2, 4, 8, 16, 32, 64, 128, 256, 512, 1024, 2048, 4096, 8192, 16384, 32768,
              65536, 131072, 262144, 524288, 1048576}

\* They are the powers of two of the model.
LEMMA TwoPowersAre ==
    /\ {2 ^ i : i \in 0 .. 20} = TwoPowers
    /\ \A n : (\E i \in 0 .. 20 : n = 2 ^ i) <=> n \in TwoPowers
<1>1. /\ 2 ^ 0 = 1 /\ 2 ^ 1 = 2 /\ 2 ^ 2 = 4 /\ 2 ^ 3 = 8 /\ 2 ^ 4 = 16 /\ 2 ^ 5 = 32
      /\ 2 ^ 6 = 64 /\ 2 ^ 7 = 128 /\ 2 ^ 8 = 256 /\ 2 ^ 9 = 512 /\ 2 ^ 10 = 1024
      /\ 2 ^ 11 = 2048 /\ 2 ^ 12 = 4096 /\ 2 ^ 13 = 8192 /\ 2 ^ 14 = 16384
      /\ 2 ^ 15 = 32768 /\ 2 ^ 16 = 65536 /\ 2 ^ 17 = 131072 /\ 2 ^ 18 = 262144
      /\ 2 ^ 19 = 524288 /\ 2 ^ 20 = 1048576
  OBVIOUS
<1>2. ASSUME NEW i \in 0 .. 20 PROVE 2 ^ i \in TwoPowers
  <2>1. \/ i = 0 \/ i = 1 \/ i = 2 \/ i = 3 \/ i = 4 \/ i = 5 \/ i = 6 \/ i = 7 \/ i = 8
        \/ i = 9 \/ i = 10 \/ i = 11 \/ i = 12 \/ i = 13 \/ i = 14 \/ i = 15 \/ i = 16
        \/ i = 17 \/ i = 18 \/ i = 19 \/ i = 20
    BY <1>2
  <2>2. \/ 2 ^ i \in {2 ^ 0, 2 ^ 1, 2 ^ 2, 2 ^ 3, 2 ^ 4, 2 ^ 5, 2 ^ 6, 2 ^ 7, 2 ^ 8, 2 ^ 9}
        \/ 2 ^ i \in {2 ^ 10, 2 ^ 11, 2 ^ 12, 2 ^ 13, 2 ^ 14, 2 ^ 15, 2 ^ 16, 2 ^ 17, 2 ^ 18}
        \/ 2 ^ i \in {2 ^ 19, 2 ^ 20}
    BY <2>1, Zenon
  <2> QED BY <1>1, <2>2 DEF TwoPowers
<1>3. ASSUME NEW n \in TwoPowers PROVE \E i \in 0 .. 20 : n = 2 ^ i
  <2>1. \/ n \in {2 ^ 0, 2 ^ 1, 2 ^ 2, 2 ^ 3, 2 ^ 4, 2 ^ 5, 2 ^ 6, 2 ^ 7, 2 ^ 8, 2 ^ 9}
        \/ n \in {2 ^ 10, 2 ^ 11, 2 ^ 12, 2 ^ 13, 2 ^ 14, 2 ^ 15, 2 ^ 16, 2 ^ 17, 2 ^ 18}
        \/ n \in {2 ^ 19, 2 ^ 20}
    BY <1>1 DEF TwoPowers
  <2> QED BY <2>1
<1>4. \A n : (\E i \in 0 .. 20 : n = 2 ^ i) <=> n \in TwoPowers
  BY <1>2, <1>3
<1>5. {2 ^ i : i \in 0 .. 20} = TwoPowers
  BY <1>4
<1> QED BY <1>4, <1>5

\* The least power of two that is not below a power of two is itself.
LEMMA NextPowerOfPower ==
    ASSUME NEW n \in TwoPowers
    PROVE  Map!NextPower(n) = n
<1>1. Map!NextPower(n) = CHOOSE p \in TwoPowers : p >= n /\ (p = 1 \/ p < 2 * n)
  BY TwoPowersAre, Zenon DEF Map!NextPower
<1>2. n >= n /\ n < 2 * n
  BY DEF TwoPowers
<1>3. ASSUME NEW p \in TwoPowers, p >= n, p = 1 \/ p < 2 * n PROVE p = n
  BY <1>3 DEF TwoPowers
<1> QED BY <1>1, <1>2, <1>3

\* Halving.
LEMMA TwoPowersResize ==
    /\ TwoPowers \subseteq Nat \ {0}
    /\ \A n \in TwoPowers : n # 1 => n \div 2 \in TwoPowers /\ 2 * (n \div 2) = n
    /\ \A m, n \in TwoPowers : m < n => n # 1 /\ m <= n \div 2
<1>1. TwoPowers \subseteq Nat \ {0}
  BY DEF TwoPowers
<1>3. \A n \in TwoPowers : n # 1 => n \div 2 \in TwoPowers /\ 2 * (n \div 2) = n
  BY DEF TwoPowers
<1>4. \A m, n \in TwoPowers : m < n => n # 1 /\ m <= n \div 2
  <2> SUFFICES ASSUME NEW m \in TwoPowers, NEW n \in TwoPowers, m < n
               PROVE  n # 1 /\ m <= n \div 2
    OBVIOUS
  <2>1. 2 * m <= n
    BY DEF TwoPowers
  <2>2. m \in Nat \ {0} /\ n \in Nat \ {0}
    BY <1>1
  <2> QED BY <2>1, <2>2
<1> QED BY <1>1, <1>3, <1>4

\* Doubling, up to the bound.
LEMMA TwoPowersDouble ==
    ASSUME NEW m \in 0 .. 2 ^ 20, NEW n \in TwoPowers, 2 * n <= m
    PROVE  2 * n \in TwoPowers
<1>1. 2 ^ 20 = 1048576
  BY SMT
<1>2. 2 * n <= 1048576
  BY <1>1, SMT DEF TwoPowers
<1> QED BY <1>2, SMT DEF TwoPowers

-----------------------------------------------------------------------------
\* Different keys have different nodes, and a node leads back to its pair.
LEMMA NodesOfPairs ==
    ASSUME NEW dd, NEW hh
    PROVE  /\ \A k \in DOMAIN dd : NodeOf(hh, k, dd[k]) \in Pairs(dd, hh)
           /\ \A x \in Pairs(dd, hh) :
                x.key \in DOMAIN dd /\ x = NodeOf(hh, x.key, dd[x.key]) /\ x.hash = hh[x.key]
           /\ \A k, v : /\ NodeOf(hh, k, v).key = k /\ NodeOf(hh, k, v).value = v
                        /\ NodeOf(hh, k, v).hash = hh[k]
BY DEF Pairs, NodeOf

\* There are as many nodes as keys.
LEMMA PairsCount ==
    ASSUME NEW dd, NEW hh, IsFiniteSet(DOMAIN dd)
    PROVE  IsFiniteSet(Pairs(dd, hh)) /\ Cardinality(Pairs(dd, hh)) = Cardinality(DOMAIN dd)
<1> DEFINE f == [k \in DOMAIN dd |-> NodeOf(hh, k, dd[k])]
<1>1. f \in [DOMAIN dd -> Pairs(dd, hh)]
  BY NodesOfPairs
<1>2. f \in Surjection(DOMAIN dd, Pairs(dd, hh))
  <2>1. \A x \in Pairs(dd, hh) : \E k \in DOMAIN dd : f[k] = x
    BY NodesOfPairs
  <2> HIDE DEF f
  <2> QED BY <1>1, <2>1 DEF Surjection
<1>3. f \in Injection(DOMAIN dd, Pairs(dd, hh))
  <2>1. \A k, q \in DOMAIN dd : f[k] = f[q] => k = q
    BY DEF NodeOf
  <2> HIDE DEF f
  <2> QED BY <1>1, <2>1 DEF Injection, IsInjective
<1> HIDE DEF f
<1> QED BY <1>2, <1>3, FS_Surjection

\* The dictionary with another value for a key.
LEMMA PairUpdated ==
    ASSUME NEW dd, NEW hh, NEW k \in DOMAIN dd, NEW v, NEW ee, DOMAIN ee = DOMAIN dd,
           ee[k] = v, \A q \in DOMAIN dd : q # k => ee[q] = dd[q]
    PROVE  /\ Pairs(ee, hh) = (Pairs(dd, hh) \ {NodeOf(hh, k, dd[k])}) \cup {NodeOf(hh, k, v)}
           /\ NodeOf(hh, k, v) \notin Pairs(dd, hh) \ {NodeOf(hh, k, dd[k])}
<1>1. ASSUME NEW x \in Pairs(ee, hh)
      PROVE  x \in (Pairs(dd, hh) \ {NodeOf(hh, k, dd[k])}) \cup {NodeOf(hh, k, v)}
  <2>1. x.key \in DOMAIN dd /\ x = NodeOf(hh, x.key, ee[x.key])
    BY <1>1, NodesOfPairs
  <2>2. CASE x.key = k
    BY <2>1, <2>2
  <2>3. CASE x.key # k
    BY <2>1, <2>3, NodesOfPairs
  <2> QED BY <2>2, <2>3
<1>2. ASSUME NEW x \in Pairs(dd, hh), x # NodeOf(hh, k, dd[k])
      PROVE  x.key # k /\ x \in Pairs(ee, hh)
  <2>1. x.key \in DOMAIN dd /\ x = NodeOf(hh, x.key, dd[x.key])
    BY <1>2, NodesOfPairs
  <2>2. x.key # k
    BY <1>2, <2>1
  <2> QED BY <2>1, <2>2, NodesOfPairs
<1>3. NodeOf(hh, k, v) \in Pairs(ee, hh)
  BY NodesOfPairs
<1>4. NodeOf(hh, k, v) \notin Pairs(dd, hh) \ {NodeOf(hh, k, dd[k])}
  BY <1>2, NodesOfPairs
<1> QED BY <1>1, <1>2, <1>3, <1>4

\* The dictionary ee is dd with the value v for a key more, and with a key less.
Adds(ee, dd, k, v) ==
    DOMAIN ee = DOMAIN dd \cup {k} /\ ee[k] = v /\ \A q \in DOMAIN dd : ee[q] = dd[q]
Removes(ee, dd, k) ==
    DOMAIN ee = DOMAIN dd \ {k} /\ \A q \in DOMAIN dd \ {k} : ee[q] = dd[q]

\* The dictionary with one pair more.
LEMMA PairAdded ==
    ASSUME NEW dd, NEW hh, NEW k, k \notin DOMAIN dd, NEW v,
           NEW ee, Adds(ee, dd, k, v)
    PROVE  /\ Pairs(ee, hh) = Pairs(dd, hh) \cup {NodeOf(hh, k, v)}
           /\ NodeOf(hh, k, v) \notin Pairs(dd, hh)
<1>1. NodeOf(hh, k, v) \in Pairs(ee, hh) /\ NodeOf(hh, k, v) \notin Pairs(dd, hh)
  BY NodesOfPairs DEF Adds
<1>2. ASSUME NEW x \in Pairs(dd, hh) PROVE x \in Pairs(ee, hh)
  BY <1>2, NodesOfPairs DEF Adds
<1>3. ASSUME NEW x \in Pairs(ee, hh) PROVE x \in Pairs(dd, hh) \cup {NodeOf(hh, k, v)}
  BY <1>3, NodesOfPairs DEF Adds
<1> QED BY <1>1, <1>2, <1>3

\* The dictionary with one pair less.
LEMMA PairRemoved ==
    ASSUME NEW dd, NEW hh, NEW k \in DOMAIN dd,
           NEW ee, Removes(ee, dd, k)
    PROVE  Pairs(ee, hh) = Pairs(dd, hh) \ {NodeOf(hh, k, dd[k])}
<1>1. ASSUME NEW x \in Pairs(dd, hh), x # NodeOf(hh, k, dd[k]) PROVE x \in Pairs(ee, hh)
  BY <1>1, NodesOfPairs DEF Removes
<1>2. ASSUME NEW x \in Pairs(ee, hh) PROVE x \in Pairs(dd, hh) \ {NodeOf(hh, k, dd[k])}
  BY <1>2, NodesOfPairs DEF Removes
<1> QED BY <1>1, <1>2

-----------------------------------------------------------------------------
\* A map of n buckets, hash function hh and cn pairs dd, with the table t and the strings m.
MapHolds(t, n, cn, hh, m, dd) ==
    /\ n \in TwoPowers /\ n >= InitBuckets
    /\ DOMAIN dd \subseteq Keys /\ \A k \in DOMAIN dd : dd[k] \in Vals
    /\ hh \in [Keys -> Nat]
    /\ TableOf(t, n, Pairs(dd, hh))
    /\ cn = Cardinality(DOMAIN dd)
    /\ m \in [Strings -> Int] /\ \A q \in Strings : m[q] = Tally(Pairs(dd, hh), q)

\* The inductive invariant of the hash map: the table holds a node for each pair of the
\* history, in the bucket of its hash and once, and every count is a count of these.
MapInd == MapHolds(table, bucket, count, hash, heap, dict) /\ alive \in BOOLEAN

\* The assumptions on the constants, and the set theory of the instance, which is the usual one.
LEMMA MapConstants ==
    ASSUME Map!HashMapAssumption
    PROVE  /\ IsFiniteSet(Keys) /\ Hashes \subseteq [Keys -> Nat] /\ Nothing \notin Vals
           /\ InitBuckets \in TwoPowers /\ Map!NextPower(InitBuckets) = InitBuckets
           /\ \A n \in TwoPowers : 2 * n <= MaxBuckets => 2 * n \in TwoPowers
<1>1. InitBuckets \in TwoPowers
  BY TwoPowersAre DEF Map!HashMapAssumption
<1>2. IsFiniteSet(Keys)
  BY Zenon DEF Map!HashMapAssumption, Map!IsFiniteSet, IsFiniteSet
<1>3. \A n \in TwoPowers : 2 * n <= MaxBuckets => 2 * n \in TwoPowers
  <2>1. MaxBuckets \in 0 .. 2 ^ 20
    BY DEF Map!HashMapAssumption
  <2> QED BY <2>1, TwoPowersDouble
<1>4. Map!NextPower(InitBuckets) = InitBuckets
  BY <1>1, NextPowerOfPower
<1> QED BY <1>1, <1>2, <1>3, <1>4 DEF Map!HashMapAssumption

\* What MapHolds says of the nodes.
LEMMA MapFacts ==
    ASSUME IsFiniteSet(Keys), NEW t, NEW n, NEW cn, NEW hh, NEW m, NEW dd,
           MapHolds(t, n, cn, hh, m, dd)
    PROVE  /\ n \in Nat \ {0} /\ cn \in Nat /\ IsFiniteSet(DOMAIN dd)
           /\ IsFiniteSet(Pairs(dd, hh)) /\ Cardinality(Pairs(dd, hh)) = cn
           /\ t \in [0 .. n - 1 -> Seq(Pairs(dd, hh))]
           /\ \A x \in Pairs(dd, hh) : x.hash \in Nat
           /\ Lists(Map!Nodes(t), Pairs(dd, hh))
<1>1. IsFiniteSet(DOMAIN dd)
  BY FS_Subset DEF MapHolds
<1>2. cn \in Nat
  BY <1>1, FS_CardinalityType DEF MapHolds
<1>3. n \in Nat \ {0}
  BY TwoPowersResize DEF MapHolds
<1>4. IsFiniteSet(Pairs(dd, hh)) /\ Cardinality(Pairs(dd, hh)) = cn
  BY <1>1, PairsCount DEF MapHolds
<1>5. TableOf(t, n, Pairs(dd, hh))
  BY DEF MapHolds
<1>6. Lists(Map!Nodes(t), Pairs(dd, hh))
  BY <1>5, NodesList
<1>7. t \in [0 .. n - 1 -> Seq(Pairs(dd, hh))] /\ \A x \in Pairs(dd, hh) : x.hash \in Nat
  BY <1>5 DEF TableOf
<1> QED BY <1>1, <1>2, <1>3, <1>4, <1>6, <1>7

\* A key that is in the map is at one place of its chain, and no other key is in it.
InChain(t, n, hh, dd, k) ==
    \E a \in 0 .. n - 1 :
        /\ a = Map!Index(hh[k], n) /\ DOMAIN t = 0 .. n - 1
        /\ k \notin DOMAIN dd => Map!Where(k, t[a]) = {}
        /\ k \in DOMAIN dd =>
             \E p \in 1 .. Len(t[a]) :
                 Map!Where(k, t[a]) = {p} /\ t[a][p] = NodeOf(hh, k, dd[k])

\* So each key of a map is.
LEMMA ChainOfKey ==
    ASSUME IsFiniteSet(Keys), NEW t, NEW n, NEW cn, NEW hh, NEW m, NEW dd,
           MapHolds(t, n, cn, hh, m, dd), NEW k \in Keys
    PROVE  InChain(t, n, hh, dd, k)
<1>a. PICK a : a = Map!Index(hh[k], n)
  OBVIOUS
<1>1. /\ n \in Nat \ {0} /\ hh[k] \in Nat /\ t \in [0 .. n - 1 -> Seq(Pairs(dd, hh))]
  BY MapFacts DEF MapHolds
<1>2. a \in 0 .. n - 1 /\ DOMAIN t = 0 .. n - 1
  BY <1>1, <1>a, IndexIsBucket
<1>3. PICK s : s = t[a]
  OBVIOUS
<1>4. /\ s \in Seq(Pairs(dd, hh))
      /\ DOMAIN s = 1 .. Len(s)
      /\ \A p \in 1 .. Len(s) : s[p] \in Pairs(dd, hh)
  BY <1>1, <1>2, <1>3
<1>5. Map!Where(k, s) = {p \in 1 .. Len(s) : s[p].key = k}
  BY <1>4 DEF Map!Where
<1>6. ASSUME k \notin DOMAIN dd PROVE Map!Where(k, s) = {}
  BY <1>4, <1>5, <1>6, NodesOfPairs
<1>7. ASSUME k \in DOMAIN dd
      PROVE  \E p \in 1 .. Len(s) : Map!Where(k, s) = {p} /\ s[p] = NodeOf(hh, k, dd[k])
  <2>1. PICK x : x = NodeOf(hh, k, dd[k])
    OBVIOUS
  <2>2. x \in Pairs(dd, hh) /\ x.hash = hh[k] /\ x.key = k
    BY <1>7, <2>1, NodesOfPairs
  <2>3. PICK p \in 1 .. Len(s) : s[p] = x
    <3>1. TableOf(t, n, Pairs(dd, hh))
      BY DEF MapHolds
    <3>2. \E p \in 1 .. Len(t[Map!Index(x.hash, n)]) : t[Map!Index(x.hash, n)][p] = x
      BY <2>2, <3>1 DEF TableOf
    <3> QED BY <1>3, <1>a, <2>2, <3>2
  <2>4. ASSUME NEW q \in 1 .. Len(s), s[q].key = k PROVE q = p
    <3>1. s[q] = x
      BY <1>4, <2>1, <2>4, NodesOfPairs
    <3> QED BY <1>2, <1>3, <2>3, <2>4, <3>1 DEF MapHolds, TableOf
  <2>5. Map!Where(k, s) = {p}
    BY <1>5, <2>2, <2>3, <2>4
  <2> QED BY <2>1, <2>3, <2>5
<1> QED BY <1>2, <1>3, <1>6, <1>7, <1>a DEF InChain

\* A map without pairs.
LEMMA EmptyMap ==
    ASSUME NEW n \in TwoPowers, n >= InitBuckets, NEW hh \in [Keys -> Nat],
           NEW m \in [Strings -> Int], \A q \in Strings : m[q] = 0
    PROVE  MapHolds(Map!Blank(n), n, 0, hh, m, <<>>)
<1>1. PICK dd : dd = <<>>
  OBVIOUS
<1>2. DOMAIN dd = {} /\ Pairs(dd, hh) = {}
  <2>1. DOMAIN dd = {}
    BY <1>1
  <2> QED BY <2>1 DEF Pairs
<1>3. TableOf(Map!Blank(n), n, Pairs(dd, hh))
  BY <1>2, BlankTable, TwoPowersResize
<1>4. \A q : Tally(Pairs(dd, hh), q) = 0
  BY <1>2, TallyNone
<1>5. Cardinality(DOMAIN dd) = 0
  BY <1>2, FS_EmptySet
<1> QED BY <1>1, <1>2, <1>3, <1>4, <1>5 DEF MapHolds

\* The strings w are m with those of the node x, and without them.
Charges(w, m, x) == w \in [Strings -> Int] /\ \A q \in Strings : w[q] = m[q] + Uses(x, q)
Refunds(w, m, x) == w \in [Strings -> Int] /\ \A q \in Strings : w[q] = m[q] - Uses(x, q)

\* A pair more, its node the first of its bucket in a table for the old pairs.
LEMMA MapAdded ==
    ASSUME IsFiniteSet(Keys), NEW t, NEW n, NEW cn, NEW hh, NEW m, NEW dd,
           MapHolds(t, n, cn, hh, m, dd), NEW k \in Keys, k \notin DOMAIN dd, NEW v \in Vals,
           NEW x, x = NodeOf(hh, k, v),
           NEW s, NEW r \in TwoPowers, r >= InitBuckets, TableOf(s, r, Pairs(dd, hh)),
           NEW u, u = [s EXCEPT ![Map!Index(x.hash, r)] = <<x>> \o s[Map!Index(x.hash, r)]],
           NEW w, Charges(w, m, x), NEW ee, Adds(ee, dd, k, v)
    PROVE  MapHolds(u, r, cn + 1, hh, w, ee)
<1>1. PICK P : P = Pairs(dd, hh)
  OBVIOUS
<1>2. Pairs(ee, hh) = P \cup {x} /\ x \notin P /\ x.hash = hh[k] /\ x.hash \in Nat
  <2>1. x.hash = hh[k] /\ x.hash \in Nat
    BY DEF NodeOf, MapHolds
  <2>2. Pairs(ee, hh) = Pairs(dd, hh) \cup {x} /\ x \notin Pairs(dd, hh)
    BY PairAdded
  <2> QED BY <1>1, <2>1, <2>2
<1>3. IsFiniteSet(P) /\ IsFiniteSet(DOMAIN dd) /\ cn = Cardinality(DOMAIN dd)
  <2>1. IsFiniteSet(Pairs(dd, hh)) /\ IsFiniteSet(DOMAIN dd)
    BY MapFacts
  <2> QED BY <1>1, <2>1 DEF MapHolds
<1>4. TableOf(u, r, P \cup {x})
  BY <1>1, <1>2, Prepended
<1>5. \A q \in Strings : w[q] = Tally(P \cup {x}, q)
  <2> SUFFICES ASSUME NEW q \in Strings PROVE w[q] = Tally(P \cup {x}, q)
    OBVIOUS
  <2>1. m[q] = Tally(P, q) /\ w[q] = m[q] + Uses(x, q)
    BY <1>1 DEF MapHolds, Charges
  <2> QED BY <1>2, <1>3, <2>1, TallyMore
<1>6. Cardinality(DOMAIN ee) = cn + 1
  BY <1>3, FS_AddElement DEF Adds
<1>7. /\ DOMAIN dd \subseteq Keys /\ hh \in [Keys -> Nat]
      /\ \A q \in DOMAIN dd : dd[q] \in Vals
  BY DEF MapHolds
<1>8. DOMAIN ee \subseteq Keys /\ \A q \in DOMAIN ee : ee[q] \in Vals
  BY <1>7 DEF Adds
<1> QED BY <1>2, <1>4, <1>5, <1>6, <1>7, <1>8 DEF MapHolds, Charges

\* A pair less, in a table for the rest.
LEMMA MapRemoved ==
    ASSUME IsFiniteSet(Keys), NEW t, NEW n, NEW cn, NEW hh, NEW m, NEW dd,
           MapHolds(t, n, cn, hh, m, dd), NEW k \in DOMAIN dd,
           NEW x, x = NodeOf(hh, k, dd[k]),
           NEW u, NEW r \in TwoPowers, r >= InitBuckets, TableOf(u, r, Pairs(dd, hh) \ {x}),
           NEW w, Refunds(w, m, x), NEW ee, Removes(ee, dd, k)
    PROVE  MapHolds(u, r, cn - 1, hh, w, ee)
<1>1. PICK P : P = Pairs(dd, hh)
  OBVIOUS
<1>2. Pairs(ee, hh) = P \ {x} /\ x \in P
  BY <1>1, PairRemoved, NodesOfPairs
<1>3. IsFiniteSet(P) /\ IsFiniteSet(DOMAIN dd) /\ cn = Cardinality(DOMAIN dd)
  BY <1>1, MapFacts DEF MapHolds
<1>4. \A q \in Strings : w[q] = Tally(P \ {x}, q)
  <2> SUFFICES ASSUME NEW q \in Strings PROVE w[q] = Tally(P \ {x}, q)
    OBVIOUS
  <2>1. m[q] = Tally(P, q) /\ w[q] = m[q] - Uses(x, q)
    BY <1>1 DEF MapHolds, Refunds
  <2> QED BY <1>2, <1>3, <2>1, TallyLess
<1>5. Cardinality(DOMAIN ee) = cn - 1
  BY <1>3, FS_RemoveElement DEF Removes
<1>6. /\ DOMAIN dd \subseteq Keys /\ hh \in [Keys -> Nat]
      /\ \A q \in DOMAIN dd : dd[q] \in Vals
  BY DEF MapHolds
<1>7. DOMAIN ee \subseteq Keys /\ \A q \in DOMAIN ee : ee[q] \in Vals
  BY <1>6 DEF Removes
<1> QED BY <1>1, <1>2, <1>4, <1>5, <1>6, <1>7 DEF MapHolds, Refunds

\* The value of a pair replaced, in its node.
LEMMA MapUpdated ==
    ASSUME IsFiniteSet(Keys), NEW t, NEW n, NEW cn, NEW hh, NEW m, NEW dd,
           MapHolds(t, n, cn, hh, m, dd), NEW k \in DOMAIN dd, NEW v \in Vals,
           NEW x, x = NodeOf(hh, k, dd[k]), NEW y, y = NodeOf(hh, k, v),
           NEW u, TableOf(u, n, (Pairs(dd, hh) \ {x}) \cup {y}),
           NEW w \in [Strings -> Int],
           \A q \in Strings : w[q] = m[q] + (IF q = v THEN 1 ELSE 0) - (IF q = dd[k] THEN 1 ELSE 0),
           NEW ee, DOMAIN ee = DOMAIN dd, ee[k] = v, \A q \in DOMAIN dd : q # k => ee[q] = dd[q]
    PROVE  MapHolds(u, n, cn, hh, w, ee)
<1>1. PICK P : P = Pairs(dd, hh)
  OBVIOUS
<1>2. Pairs(ee, hh) = (P \ {x}) \cup {y} /\ x \in P /\ y \notin P \ {x}
  BY <1>1, PairUpdated, NodesOfPairs
<1>3. IsFiniteSet(P)
  BY <1>1, MapFacts
<1>4. \A q \in Strings : w[q] = Tally((P \ {x}) \cup {y}, q)
  <2> SUFFICES ASSUME NEW q \in Strings PROVE w[q] = Tally((P \ {x}) \cup {y}, q)
    OBVIOUS
  <2>1. /\ m[q] = Tally(P, q)
        /\ w[q] = m[q] + (IF q = v THEN 1 ELSE 0) - (IF q = dd[k] THEN 1 ELSE 0)
    BY <1>1 DEF MapHolds
  <2>2. IsFiniteSet(P \ {x})
    BY <1>3, FS_RemoveElement
  <2>3. /\ Tally(P \ {x}, q) = Tally(P, q) - Uses(x, q)
        /\ Tally((P \ {x}) \cup {y}, q) = Tally(P \ {x}, q) + Uses(y, q)
        /\ Tally(P, q) \in Nat
    BY <1>2, <1>3, <2>2, TallyLess, TallyMore
  <2>4. /\ Uses(x, q) = (IF k = q THEN 1 ELSE 0) + (IF dd[k] = q THEN 1 ELSE 0)
        /\ Uses(y, q) = (IF k = q THEN 1 ELSE 0) + (IF v = q THEN 1 ELSE 0)
    BY DEF Uses, NodeOf
  <2> QED BY <2>1, <2>3, <2>4
<1>5. /\ n \in TwoPowers /\ n >= InitBuckets /\ cn = Cardinality(DOMAIN dd)
      /\ DOMAIN dd \subseteq Keys /\ hh \in [Keys -> Nat]
      /\ \A q \in DOMAIN dd : dd[q] \in Vals
  BY DEF MapHolds
<1>6. DOMAIN ee \subseteq Keys /\ \A q \in DOMAIN ee : ee[q] \in Vals
  BY <1>5
<1> QED BY <1>1, <1>2, <1>4, <1>5, <1>6 DEF MapHolds

\* hashmap_init.
LEMMA MapInitInd ==
    ASSUME Map!HashMapAssumption, Map!Init
    PROVE  MapInd
<1>1. /\ bucket = InitBuckets /\ InitBuckets \in TwoPowers
      /\ table = Map!Blank(bucket) /\ count = 0 /\ hash \in [Keys -> Nat]
      /\ heap = [s \in Strings |-> 0] /\ alive = TRUE /\ dict = <<>>
  BY MapConstants DEF Map!Init
<1>2. bucket >= InitBuckets
  BY <1>1, TwoPowersResize
<1>3. heap \in [Strings -> Int] /\ \A q \in Strings : heap[q] = 0
  BY <1>1
<1>4. MapHolds(table, bucket, count, hash, heap, dict)
  BY <1>1, <1>2, <1>3, EmptyMap
<1> QED BY <1>1, <1>4 DEF MapInd

\* The tables an insertion may go to hold what the map held.
LEMMA ExpandedHolds ==
    ASSUME Map!HashMapAssumption, MapInd, NEW tn \in Map!Expanded
    PROVE  /\ tn[2] \in TwoPowers /\ tn[2] >= InitBuckets
           /\ TableOf(tn[1], tn[2], Pairs(dict, hash))
           /\ tn[2] # bucket => Map!Crowded /\ tn[2] = 2 * bucket
<1>1. MapHolds(table, bucket, count, hash, heap, dict)
  BY DEF MapInd
<1>2. /\ bucket \in TwoPowers /\ bucket \in Nat \ {0} /\ bucket >= InitBuckets
      /\ TableOf(table, bucket, Pairs(dict, hash))
  BY <1>1, TwoPowersResize DEF MapHolds
<1>3. CASE tn = <<table, bucket>>
  BY <1>2, <1>3
<1>4. CASE /\ Map!Crowded /\ 2 * bucket <= MaxBuckets
           /\ tn = <<Map!Rehash(table, 2 * bucket), 2 * bucket>>
  <2>1. /\ Lists(Map!Nodes(table), Pairs(dict, hash))
        /\ \A x \in Pairs(dict, hash) : x.hash \in Nat
    BY <1>1, MapConstants, MapFacts
  <2>2. PICK r : r = 2 * bucket
    OBVIOUS
  <2>3. r \in TwoPowers /\ r >= InitBuckets /\ r \in Nat \ {0}
    <3>1. r \in TwoPowers
      BY <1>2, <1>4, <2>2, MapConstants
    <3>2. InitBuckets \in Nat
      BY MapConstants, TwoPowersResize
    <3> QED BY <1>2, <2>2, <3>1, <3>2, TwoPowersResize
  <2>4. TableOf(Map!Rehash(table, r), r, Pairs(dict, hash))
    BY <2>1, <2>3, RehashHolds
  <2>5. tn[1] = Map!Rehash(table, r) /\ tn[2] = r
    BY <1>4, <2>2
  <2> QED BY <1>4, <2>2, <2>3, <2>4, <2>5
<1> QED BY <1>3, <1>4 DEF Map!Expanded

\* __hashmap_add__ of a new key.
LEMMA MapInsertInd ==
    ASSUME Map!HashMapAssumption, MapInd, NEW k \in Keys, NEW v \in Vals, Map!Insert(k, v)
    PROVE  MapInd' /\ (bucket' # bucket => Map!Crowded /\ bucket' = 2 * bucket /\ count' >= count)
<1>1. MapHolds(table, bucket, count, hash, heap, dict) /\ IsFiniteSet(Keys)
  BY MapConstants DEF MapInd
<1>2. PICK tn \in Map!Expanded :
        /\ bucket' = tn[2]
        /\ \/ /\ table' = Map!Prepend(tn[1], tn[2], k, v)
              /\ count' = count + 1
              /\ heap' = Map!Allocated(Map!Owned(<<Map!Node(k, v)>>))
              /\ dict' = [q \in DOMAIN dict \cup {k} |-> IF q = k THEN v ELSE dict[q]]
           \/ /\ table' = tn[1]
              /\ heap' = Map!Allocated(Map!Owned(Map!Leftover(k, v)))
              /\ UNCHANGED <<count, dict>>
  BY DEF Map!Insert
<1>3. /\ tn[2] \in TwoPowers /\ tn[2] >= InitBuckets
      /\ TableOf(tn[1], tn[2], Pairs(dict, hash))
      /\ tn[2] # bucket => Map!Crowded /\ tn[2] = 2 * bucket
  BY ExpandedHolds
<1>4. hash' = hash /\ alive' = alive
  BY DEF Map!Insert
<1>5. count \in Nat /\ heap \in [Strings -> Int]
  BY <1>1, MapFacts DEF MapHolds
<1>6. CASE /\ table' = Map!Prepend(tn[1], tn[2], k, v)
           /\ count' = count + 1
           /\ heap' = Map!Allocated(Map!Owned(<<Map!Node(k, v)>>))
           /\ dict' = [q \in DOMAIN dict \cup {k} |-> IF q = k THEN v ELSE dict[q]]
  <2>1. k \notin DOMAIN dict
    <3>1. Map!Where(k, table[Map!Index(hash[k], bucket)]) = {}
      BY DEF Map!Insert
    <3>2. InChain(table, bucket, hash, dict, k)
      BY <1>1, ChainOfKey
    <3> QED BY <3>1, <3>2 DEF InChain
  <2>2. PICK x : x = NodeOf(hash, k, v)
    OBVIOUS
  <2>3. Map!Node(k, v) = x /\ x.hash = hash[k]
    BY <2>2 DEF Map!Node, NodeOf
  <2>4. table' = [tn[1] EXCEPT ![Map!Index(x.hash, tn[2])] =
                               <<x>> \o tn[1][Map!Index(x.hash, tn[2])]]
    BY <1>6, <2>3, Zenon DEF Map!Prepend
  <2>5. Charges(heap', heap, x)
    <3>1. Map!Owned(<<Map!Node(k, v)>>) = [q \in Strings |-> Uses(x, q)]
      BY <2>3, ShortListings
    <3>2. \A q \in Strings : Uses(x, q) \in Int
      BY DEF Uses
    <3> QED BY <1>5, <1>6, <3>1, <3>2 DEF Map!Allocated, Charges
  <2>6. Adds(dict', dict, k, v)
    BY <1>6, <2>1 DEF Adds
  <2>7. MapHolds(table', tn[2], count + 1, hash, heap', dict')
    BY <1>1, <1>3, <2>1, <2>2, <2>4, <2>5, <2>6, MapAdded
  <2>8. MapHolds(table, bucket, count, hash, heap, dict)'
    BY <1>2, <1>4, <1>6, <2>7 DEF MapHolds
  <2> QED BY <1>2, <1>3, <1>4, <1>5, <1>6, <2>8 DEF MapInd
<1>7. CASE /\ table' = tn[1]
           /\ heap' = Map!Allocated(Map!Owned(Map!Leftover(k, v)))
           /\ UNCHANGED <<count, dict>>
  <2>1. Map!Owned(Map!Leftover(k, v)) = [q \in Strings |-> 0]
    BY ShortListings DEF Map!Leftover
  <2>2. heap' = heap
    <3>1. heap' = [s \in Strings |-> heap[s] + 0]
      BY <1>7, <2>1 DEF Map!Allocated
    <3> QED BY <1>5, <3>1
  <2>3. MapHolds(table', tn[2], count, hash, heap', dict)
    BY <1>1, <1>3, <1>7, <2>2 DEF MapHolds
  <2>4. MapHolds(table, bucket, count, hash, heap, dict)'
    BY <1>2, <1>4, <1>7, <2>3 DEF MapHolds
  <2> QED BY <1>2, <1>3, <1>4, <1>5, <1>7, <2>4 DEF MapInd
<1> QED BY <1>2, <1>6, <1>7

\* The place of a key that is in the map.
LEMMA PlaceOfKey ==
    ASSUME Map!HashMapAssumption, MapInd, NEW k \in Keys,
           Map!Where(k, table[Map!Index(hash[k], bucket)]) # {}
    PROVE  /\ k \in DOMAIN dict /\ Map!Index(hash[k], bucket) \in 0 .. bucket - 1
           /\ \E p \in 1 .. Len(table[Map!Index(hash[k], bucket)]) :
                /\ p = (CHOOSE j \in Map!Where(k, table[Map!Index(hash[k], bucket)]) : TRUE)
                /\ table[Map!Index(hash[k], bucket)][p] = NodeOf(hash, k, dict[k])
<1>1. InChain(table, bucket, hash, dict, k)
  BY MapConstants, ChainOfKey DEF MapInd
<1>2. PICK a \in 0 .. bucket - 1 :
        /\ a = Map!Index(hash[k], bucket)
        /\ k \notin DOMAIN dict => Map!Where(k, table[a]) = {}
        /\ k \in DOMAIN dict =>
             \E p \in 1 .. Len(table[a]) :
                 Map!Where(k, table[a]) = {p} /\ table[a][p] = NodeOf(hash, k, dict[k])
  BY <1>1 DEF InChain
<1>3. k \in DOMAIN dict
  BY <1>2
<1>4. PICK p \in 1 .. Len(table[a]) :
        Map!Where(k, table[a]) = {p} /\ table[a][p] = NodeOf(hash, k, dict[k])
  BY <1>2, <1>3
<1>5. p = CHOOSE j \in Map!Where(k, table[a]) : TRUE
  BY <1>4
<1> QED BY <1>2, <1>3, <1>4, <1>5

\* __hashmap_add__ of a key that is there.
LEMMA MapUpdateInd ==
    ASSUME Map!HashMapAssumption, MapInd, NEW k \in Keys, NEW v \in Vals, Map!Update(k, v)
    PROVE  MapInd' /\ bucket' = bucket
<1>1. MapHolds(table, bucket, count, hash, heap, dict) /\ IsFiniteSet(Keys)
  BY MapConstants DEF MapInd
<1> DEFINE a == Map!Index(hash[k], bucket)
           p == CHOOSE j \in Map!Where(k, table[a]) : TRUE
<1>4. /\ Map!Where(k, table[a]) # {}
      /\ \/ /\ table' = [table EXCEPT ![a][p].value = v]
            /\ heap' = [s \in Strings |-> heap[s] + (IF s = v THEN 1 ELSE 0)
                                                  - (IF s = table[a][p].value THEN 1 ELSE 0)]
            /\ dict' = [dict EXCEPT ![k] = v]
         \/ v \in Strings /\ UNCHANGED <<table, heap, dict>>
      /\ UNCHANGED <<bucket, count, hash, alive>>
  BY DEF Map!Update
<1>5. /\ k \in DOMAIN dict /\ a \in 0 .. bucket - 1 /\ p \in 1 .. Len(table[a])
      /\ table[a][p] = NodeOf(hash, k, dict[k])
  BY <1>4, PlaceOfKey
<1> HIDE DEF a, p
<1>6. CASE UNCHANGED <<table, heap, dict>>
  BY <1>1, <1>4, <1>6 DEF MapInd, MapHolds
<1>7. CASE /\ table' = [table EXCEPT ![a][p].value = v]
           /\ heap' = [s \in Strings |-> heap[s] + (IF s = v THEN 1 ELSE 0)
                                                 - (IF s = table[a][p].value THEN 1 ELSE 0)]
           /\ dict' = [dict EXCEPT ![k] = v]
  <2>1. PICK x, y : x = NodeOf(hash, k, dict[k]) /\ y = NodeOf(hash, k, v)
    OBVIOUS
  <2>2. /\ x = table[a][p] /\ x.value = dict[k] /\ [x EXCEPT !.value = v] = y /\ y.hash = x.hash
    BY <1>5, <2>1 DEF NodeOf
  <2>3. table' = [table EXCEPT ![a] = [table[a] EXCEPT ![p] = y]]
    <3>1. table' = [table EXCEPT ![a] = [table[a] EXCEPT ![p] = [table[a][p] EXCEPT !.value = v]]]
      BY <1>7
    <3> QED BY <2>2, <3>1
  <2>4. TableOf(table, bucket, Pairs(dict, hash))
    BY <1>1 DEF MapHolds
  <2>5. /\ DOMAIN dict' = DOMAIN dict /\ dict'[k] = v
        /\ \A q \in DOMAIN dict : q # k => dict'[q] = dict[q]
    BY <1>5, <1>7
  <2>6. y \notin Pairs(dict, hash) \ {x}
    <3>1. /\ x.key = k /\ y.key = k
          /\ \A z \in Pairs(dict, hash) : z.key = k => z = x
      BY <2>1, NodesOfPairs
    <3> QED BY <3>1
  <2>7. TableOf(table', bucket, (Pairs(dict, hash) \ {x}) \cup {y})
    <3>1. /\ a \in 0 .. bucket - 1 /\ p \in 1 .. Len(table[a]) /\ x = table[a][p]
          /\ y.hash = x.hash
      BY <1>5, <2>2
    <3>2. PICK P : P = Pairs(dict, hash)
      OBVIOUS
    <3>3. TableOf(table, bucket, P) /\ y \notin P \ {x}
      BY <2>4, <2>6, <3>2
    <3>4. PICK u : u = table'
      OBVIOUS
    <3>5. Swaps(u, table, a, p, y)
      BY <2>3, <3>4 DEF Swaps
    <3>6. TableOf(u, bucket, (P \ {x}) \cup {y})
      BY <3>1, <3>3, <3>5, Replaced
    <3> QED BY <3>2, <3>4, <3>6
  <2>8. /\ heap' \in [Strings -> Int]
        /\ \A q \in Strings :
             heap'[q] = heap[q] + (IF q = v THEN 1 ELSE 0) - (IF q = dict[k] THEN 1 ELSE 0)
    <3>1. heap \in [Strings -> Int]
      BY <1>1 DEF MapHolds
    <3>2. heap' = [s \in Strings |-> heap[s] + (IF s = v THEN 1 ELSE 0)
                                             - (IF s = dict[k] THEN 1 ELSE 0)]
      BY <1>7, <2>2
    <3> QED BY <3>1, <3>2
  <2>9. MapHolds(table', bucket, count, hash, heap', dict')
    BY <1>1, <1>5, <2>1, <2>5, <2>7, <2>8, MapUpdated
  <2>10. MapHolds(table, bucket, count, hash, heap, dict)'
    BY <1>4, <2>9 DEF MapHolds
  <2> QED BY <1>4, <2>10 DEF MapInd
<1> QED BY <1>4, <1>6, <1>7

\* __hashmap_remove__.
LEMMA MapDeleteInd ==
    ASSUME Map!HashMapAssumption, MapInd, NEW k \in Keys, Map!Delete(k)
    PROVE  /\ MapInd'
           /\ bucket' # bucket =>
                /\ bucket > InitBuckets /\ 4 * (count - 1) <= bucket /\ count' = count - 1
                /\ 2 * bucket' = bucket
<1>1. MapHolds(table, bucket, count, hash, heap, dict) /\ IsFiniteSet(Keys)
  BY MapConstants DEF MapInd
<1> DEFINE a == Map!Index(hash[k], bucket)
           p == CHOOSE j \in Map!Where(k, table[a]) : TRUE
           n == Map!NextPower(bucket \div 2)
<1>4. /\ Map!Where(k, table[a]) # {}
      /\ heap' = Map!Freed(Map!Owned(<<table[a][p]>>))
      /\ count' = count - 1
      /\ dict' = [q \in DOMAIN dict \ {k} |-> dict[q]]
      /\ \/ table' = Map!Unlinked(a, p) /\ UNCHANGED bucket
         \/ /\ Map!Sparse(count - 1)
            /\ table' = Map!Rehash(Map!Unlinked(a, p), n) /\ bucket' = n
      /\ UNCHANGED <<hash, alive>>
  BY DEF Map!Delete
<1>5. /\ k \in DOMAIN dict /\ a \in 0 .. bucket - 1 /\ p \in 1 .. Len(table[a])
      /\ table[a][p] = NodeOf(hash, k, dict[k])
  BY <1>4, PlaceOfKey
<1>n. n = Map!NextPower(bucket \div 2)
  OBVIOUS
<1> HIDE DEF a, p, n
<1>x. PICK x : x = NodeOf(hash, k, dict[k])
  OBVIOUS
<1>7. PICK u : u = Map!Unlinked(a, p)
  OBVIOUS
<1>8. /\ bucket \in TwoPowers /\ bucket >= InitBuckets /\ InitBuckets \in TwoPowers
      /\ TableOf(table, bucket, Pairs(dict, hash)) /\ heap \in [Strings -> Int]
  BY <1>1, MapConstants DEF MapHolds
<1>9. TableOf(u, bucket, Pairs(dict, hash) \ {x})
  <2>1. u = [table EXCEPT ![a] =
                 SubSeq(table[a], 1, p - 1) \o SubSeq(table[a], p + 1, Len(table[a]))]
    BY <1>7 DEF Map!Unlinked
  <2> QED BY <1>5, <1>x, <1>8, <2>1, Unchained
<1>10. Refunds(heap', heap, x)
  <2>1. heap' = [s \in Strings |-> heap[s] - Uses(x, s)]
    <3>1. Map!Owned(<<table[a][p]>>) = [q \in Strings |-> Uses(x, q)]
      BY <1>5, <1>x, ShortListings
    <3> QED BY <1>4, <3>1 DEF Map!Freed
  <2>2. \A q \in Strings : Uses(x, q) \in Int
    BY DEF Uses
  <2> QED BY <1>8, <2>1, <2>2 DEF Refunds
<1>11. Removes(dict', dict, k)
  BY <1>4 DEF Removes
<1>12. ASSUME NEW t, NEW r \in TwoPowers, r >= InitBuckets, TableOf(t, r, Pairs(dict, hash) \ {x})
       PROVE  MapHolds(t, r, count - 1, hash, heap', dict')
  BY <1>1, <1>5, <1>x, <1>10, <1>11, <1>12, MapRemoved
<1>13. CASE table' = u /\ bucket' = bucket
  <2>1. MapHolds(table', bucket, count - 1, hash, heap', dict')
    BY <1>8, <1>9, <1>12, <1>13
  <2>2. MapHolds(table, bucket, count, hash, heap, dict)'
    BY <1>4, <1>13, <2>1 DEF MapHolds
  <2> QED BY <1>4, <1>13, <2>2 DEF MapInd
<1>14. CASE /\ Map!Sparse(count - 1)
            /\ table' = Map!Rehash(u, n) /\ bucket' = n
  <2>1. bucket > InitBuckets /\ 4 * (count - 1) <= bucket
    BY <1>14, MapConstants DEF Map!Sparse
  <2>2. n \in TwoPowers /\ n \in Nat \ {0} /\ n >= InitBuckets /\ 2 * n = bucket
    <3>1. InitBuckets < bucket
      BY <1>8, <2>1, TwoPowersResize
    <3>2. bucket # 1 /\ InitBuckets <= bucket \div 2
      BY <1>8, <3>1, TwoPowersResize
    <3>3. bucket \div 2 \in TwoPowers /\ 2 * (bucket \div 2) = bucket
      BY <1>8, <3>2, TwoPowersResize
    <3>4. n = bucket \div 2
      BY <1>n, <3>3, NextPowerOfPower
    <3> QED BY <1>8, <3>2, <3>3, <3>4, TwoPowersResize
  <2>3. TableOf(table', n, Pairs(dict, hash) \ {x})
    <3>1. Lists(Map!Nodes(u), Pairs(dict, hash) \ {x})
      BY <1>9, NodesList
    <3>2. \A y \in Pairs(dict, hash) \ {x} : y.hash \in Nat
      BY <1>9 DEF TableOf
    <3>3. TableOf(Map!Rehash(u, n), n, Pairs(dict, hash) \ {x})
      BY <2>2, <3>1, <3>2, RehashHolds
    <3> QED BY <1>14, <3>3
  <2>4. MapHolds(table', n, count - 1, hash, heap', dict')
    BY <1>12, <2>2, <2>3
  <2>5. MapHolds(table, bucket, count, hash, heap, dict)'
    BY <1>4, <1>14, <2>4 DEF MapHolds
  <2> QED BY <1>4, <1>14, <2>1, <2>2, <2>5 DEF MapInd
<1> QED BY <1>4, <1>7, <1>13, <1>14

\* Freeing every node leaves no string.
LEMMA AllFreed ==
    ASSUME IsFiniteSet(Keys), NEW t, NEW n, NEW cn, NEW hh, NEW m, NEW dd,
           MapHolds(t, n, cn, hh, m, dd)
    PROVE  \A q \in Strings : m[q] \in Int /\ m[q] - Map!Owned(Map!Nodes(t))[q] = 0
<1>1. Lists(Map!Nodes(t), Pairs(dd, hh))
  BY MapFacts
<1>2. Map!Owned(Map!Nodes(t)) = [q \in Strings |-> Tally(Pairs(dd, hh), q)]
  BY <1>1, ListingOwns
<1>3. m \in [Strings -> Int] /\ \A q \in Strings : m[q] = Tally(Pairs(dd, hh), q)
  BY DEF MapHolds
<1>4. PICK o : o = Map!Owned(Map!Nodes(t))
  OBVIOUS
<1>5. \A q \in Strings : m[q] \in Int /\ o[q] = m[q]
  BY <1>2, <1>3, <1>4
<1>6. \A q \in Strings : m[q] \in Int /\ m[q] - o[q] = 0
  BY <1>5
<1> QED BY <1>4, <1>6

\* hashmap_clear and hashmap_destroy.
LEMMA MapClearInd ==
    ASSUME Map!HashMapAssumption, MapInd, Map!Clear \/ Map!Destroy
    PROVE  MapInd' /\ count' = 0 /\ (bucket' # bucket => bucket > bucket')
<1>1. MapHolds(table, bucket, count, hash, heap, dict) /\ IsFiniteSet(Keys)
  BY MapConstants DEF MapInd
<1>2. /\ bucket \in TwoPowers /\ bucket >= InitBuckets /\ InitBuckets \in TwoPowers
      /\ hash \in [Keys -> Nat] /\ InitBuckets \in Nat /\ bucket \in Nat
  BY <1>1, MapConstants, TwoPowersResize DEF MapHolds
<1>3. /\ heap' = Map!Freed(Map!Owned(Map!Nodes(table))) /\ count' = 0 /\ dict' = <<>>
      /\ hash' = hash /\ table' = Map!Blank(bucket')
      /\ bucket' = bucket \/ (bucket > InitBuckets /\ bucket' = InitBuckets)
      /\ alive' \in BOOLEAN
  BY MapConstants DEF Map!Clear, Map!Destroy, MapInd
<1>4. bucket' \in TwoPowers /\ bucket' >= InitBuckets
  BY <1>2, <1>3
<1>5. heap' \in [Strings -> Int] /\ \A q \in Strings : heap'[q] = 0
  <2>1. \A q \in Strings : heap[q] \in Int /\ heap[q] - Map!Owned(Map!Nodes(table))[q] = 0
    BY <1>1, AllFreed
  <2>2. heap' = [s \in Strings |-> heap[s] - Map!Owned(Map!Nodes(table))[s]]
    BY <1>3 DEF Map!Freed
  <2>3. heap' = [s \in Strings |-> 0]
    BY <2>1, <2>2
  <2> QED BY <2>3
<1>6. MapHolds(Map!Blank(bucket'), bucket', 0, hash, heap', <<>>)
  BY <1>2, <1>4, <1>5, EmptyMap
<1>7. MapHolds(table, bucket, count, hash, heap, dict)'
  BY <1>3, <1>6 DEF MapHolds
<1> QED BY <1>2, <1>3, <1>7 DEF MapInd

\* A step of the map keeps its invariant, and resizes far from the size at which it would
\* resize back.
LEMMA MapNextInd ==
    ASSUME Map!HashMapAssumption, MapInd, Map!Next
    PROVE  MapInd' /\ Map!ResizesForLong
<1>1. /\ bucket \in Nat \ {0} /\ count \in Nat
  BY MapConstants, MapFacts DEF MapInd
<1>2. ASSUME NEW k \in Keys, NEW v \in Vals, Map!Insert(k, v)
      PROVE  /\ MapInd'
             /\ bucket' # bucket =>
                  /\ 4 * count >= 3 * bucket /\ bucket' = 2 * bucket
                  /\ count' = count + 1 \/ count' = count
  <2>1. MapInd' /\ (bucket' # bucket => Map!Crowded /\ bucket' = 2 * bucket)
    BY <1>2, MapInsertInd
  <2>2. count' = count + 1 \/ count' = count
    BY <1>2 DEF Map!Insert
  <2> QED BY <2>1, <2>2 DEF Map!Crowded
<1>3. ASSUME NEW k \in Keys, NEW v \in Vals, Map!Update(k, v)
      PROVE  MapInd' /\ bucket' = bucket
  BY <1>3, MapUpdateInd
<1>4. ASSUME NEW k \in Keys, Map!Delete(k)
      PROVE  /\ MapInd'
             /\ bucket' # bucket =>
                  4 * (count - 1) <= bucket /\ count' = count - 1 /\ 2 * bucket' = bucket
  BY <1>4, MapDeleteInd
<1>5. ASSUME Map!Clear \/ Map!Destroy
      PROVE  MapInd' /\ count' = 0 /\ (bucket' # bucket => bucket > bucket')
  BY <1>5, MapClearInd
<1>6. /\ MapInd'
      /\ \/ bucket' = bucket
         \/ /\ 4 * count >= 3 * bucket /\ bucket' = 2 * bucket
            /\ count' = count + 1 \/ count' = count
         \/ 4 * (count - 1) <= bucket /\ count' = count - 1 /\ 2 * bucket' = bucket
         \/ count' = 0 /\ bucket > bucket'
  BY <1>2, <1>3, <1>4, <1>5 DEF Map!Next
<1>7. bucket' \in Nat \ {0} /\ count' \in Nat
  BY <1>6, MapConstants, MapFacts DEF MapInd
<1>8. /\ bucket' > bucket /\ (count' > count \/ bucket >= 8) => ~(4 * (count' - 1) <= bucket')
      /\ bucket' < bucket => ~(4 * count' >= 3 * bucket')
  <2>1. PICK b, n, r, m : b = bucket /\ n = count /\ r = bucket' /\ m = count'
    OBVIOUS
  <2>2. b \in Nat \ {0} /\ n \in Nat /\ r \in Nat \ {0} /\ m \in Nat
    BY <1>1, <1>7, <2>1
  <2>3. \/ r = b
        \/ 4 * n >= 3 * b /\ r = 2 * b /\ (m = n + 1 \/ m = n)
        \/ 4 * (n - 1) <= b /\ m = n - 1 /\ 2 * r = b
        \/ m = 0 /\ b > r
    BY <1>6, <2>1
  <2>4. /\ r > b /\ (m > n \/ b >= 8) => ~(4 * (m - 1) <= r)
        /\ r < b => ~(4 * m >= 3 * r)
    BY ONLY <2>2, <2>3
  <2> QED BY <2>1, <2>4
<1>9. Map!Sparse(count - 1)' => 4 * (count' - 1) <= bucket'
  BY DEF Map!Sparse
<1>10. Map!Crowded' => 4 * count' >= 3 * bucket'
  BY DEF Map!Crowded
<1> QED BY <1>6, <1>8, <1>9, <1>10 DEF Map!ResizesForLong

\* A step of another part leaves the map.
LEMMA MapStutterInd ==
    ASSUME MapInd, UNCHANGED mapVars
    PROVE  MapInd'
BY DEF MapInd, MapHolds, mapVars

\* What the invariant says of the map: its bounds, its answers, its iteration, its strings.
LEMMA MapIndHolds ==
    ASSUME Map!HashMapAssumption, MapInd
    PROVE  /\ Map!BucketsArePowerOfTwo /\ Map!LookupsAreRight
           /\ Map!IterationVisitsEachPairOnce /\ Map!StringsOwnedByNodes
<1>1. MapHolds(table, bucket, count, hash, heap, dict) /\ IsFiniteSet(Keys)
  BY MapConstants DEF MapInd
<1>2. PICK P : P = Pairs(dict, hash)
  OBVIOUS
<1>3. /\ bucket \in Nat \ {0} /\ count \in Nat /\ IsFiniteSet(DOMAIN dict)
      /\ IsFiniteSet(P) /\ Cardinality(P) = count
      /\ table \in [0 .. bucket - 1 -> Seq(P)]
      /\ Lists(Map!Nodes(table), P)
  BY <1>1, <1>2, MapFacts
<1>4. Map!BucketsArePowerOfTwo
  <2>1. \E i \in 0 .. 20 : bucket = 2 ^ i
    BY <1>1, TwoPowersAre DEF MapHolds
  <2>2. bucket >= InitBuckets /\ heap \in [Strings -> Int]
    BY <1>1 DEF MapHolds
  <2>3. DOMAIN table = 0 .. bucket - 1 /\ alive \in BOOLEAN
    BY <1>3 DEF MapInd
  <2> QED BY <1>3, <2>1, <2>2, <2>3 DEF Map!BucketsArePowerOfTwo
<1>5. Map!LookupsAreRight
  <2> SUFFICES ASSUME NEW k \in Keys
               PROVE  Map!Get(k) = (IF k \in DOMAIN dict THEN dict[k] ELSE Nothing)
    BY DEF Map!LookupsAreRight
  <2>1. InChain(table, bucket, hash, dict, k)
    BY <1>1, ChainOfKey
  <2>2. PICK a \in 0 .. bucket - 1 :
          /\ a = Map!Index(hash[k], bucket)
          /\ k \notin DOMAIN dict => Map!Where(k, table[a]) = {}
          /\ k \in DOMAIN dict =>
               \E p \in 1 .. Len(table[a]) :
                   Map!Where(k, table[a]) = {p} /\ table[a][p] = NodeOf(hash, k, dict[k])
    BY <2>1 DEF InChain
  <2>3. Map!Get(k) =
          IF count = 0 \/ Map!Where(k, table[a]) = {} THEN Nothing
          ELSE table[a][CHOOSE i \in Map!Where(k, table[a]) :
                          \A j \in Map!Where(k, table[a]) : i <= j].value
    BY <2>2 DEF Map!Get
  <2>4. CASE k \notin DOMAIN dict
    BY <2>2, <2>3, <2>4
  <2>5. CASE k \in DOMAIN dict
    <3>1. PICK p \in 1 .. Len(table[a]) :
            Map!Where(k, table[a]) = {p} /\ table[a][p] = NodeOf(hash, k, dict[k])
      BY <2>2, <2>5
    <3>2. count # 0
      <4>1. P # {}
        BY <1>2, <2>5, NodesOfPairs
      <4> QED BY <1>3, <4>1, FS_EmptySet
    <3>3. p <= p
      BY <1>3, <2>2, <3>1
    <3>4. p = CHOOSE i \in Map!Where(k, table[a]) : \A j \in Map!Where(k, table[a]) : i <= j
      BY <3>1, <3>3
    <3>5. table[a][p].value = dict[k]
      BY <3>1 DEF NodeOf
    <3> QED BY <2>3, <2>5, <3>1, <3>2, <3>4, <3>5
  <2> QED BY <2>4, <2>5
<1>6. Map!IterationVisitsEachPairOnce
  <2>1. PICK s : s = Map!Nodes(table)
    OBVIOUS
  <2>2. /\ DOMAIN s = 1 .. Len(s) /\ \A i \in 1 .. Len(s) : s[i] \in P
        /\ \A i, j \in 1 .. Len(s) : s[i] = s[j] => i = j
    <3>1. Lists(s, P)
      BY <1>3, <2>1
    <3> QED BY <3>1, ListingIsOnto DEF Lists
  <2>3. Len(s) = count
    BY <1>3, <2>1, ListingLength
  <2>4. count = Map!Cardinality(DOMAIN dict)
    <3>1. count = Cardinality(DOMAIN dict)
      BY <1>1 DEF MapHolds
    <3>2. Map!Cardinality(DOMAIN dict) = Cardinality(DOMAIN dict)
      BY Zenon DEF Map!Cardinality, Cardinality, Map!IsFiniteSet, IsFiniteSet
    <3> QED BY <3>1, <3>2
  <2>5. ASSUME NEW i \in DOMAIN s, NEW j \in DOMAIN s, s[i].key = s[j].key
        PROVE  i = j
    <3>1. s[i] = s[j]
      BY <1>2, <2>2, <2>5, NodesOfPairs
    <3> QED BY <2>2, <3>1
  <2>6. \A i \in DOMAIN s : s[i].key \in DOMAIN dict
    BY <1>2, <2>2, NodesOfPairs
  <2>7. Map!Iterated = s
    BY <2>1 DEF Map!Iterated
  <2> QED BY <2>3, <2>4, <2>5, <2>6, <2>7 DEF Map!IterationVisitsEachPairOnce
<1>7. Map!StringsOwnedByNodes
  <2>1. Map!Owned(Map!Nodes(table)) = [q \in Strings |-> Tally(P, q)]
    BY <1>3, ListingOwns
  <2>2. heap \in [Strings -> Int] /\ \A q \in Strings : heap[q] = Tally(P, q)
    BY <1>1, <1>2 DEF MapHolds
  <2>3. heap = [q \in Strings |-> Tally(P, q)]
    BY <2>2
  <2> QED BY <2>1, <2>3 DEF Map!StringsOwnedByNodes, Map!Iterated
<1> QED BY <1>4, <1>5, <1>6, <1>7

\* The invariant of the map, in the module that composes the parts.
LEMMA MapIndIsInvariant == Spec => [](part = "map" => MapInd)
<1> DEFINE Ind == part = "map" => MapInd
<1>1. Init => Ind
  BY DataAssumption, MapInitInd DEF Init
<1>2. Ind /\ [Next]_vars => Ind'
  <2> SUFFICES ASSUME Ind, [Next]_vars, part' = "map" PROVE MapInd'
    OBVIOUS
  <2>1. CASE MapStep
    BY <2>1, DataAssumption, MapNextInd DEF MapStep
  <2>2. CASE PoolStep \/ KeyStep \/ StreamStep \/ UNCHANGED vars
    <3>1. part' = part /\ UNCHANGED mapVars
      BY <2>2 DEF PoolStep, KeyStep, StreamStep, vars
    <3> QED BY <3>1, MapStutterInd
  <2> QED BY <2>1, <2>2 DEF Next
<1> QED BY <1>1, <1>2, PTL DEF Spec

\* A lookup returns the value last added for a key that has not been removed since, and
\* nothing for any other key; an iteration visits each pair once: whatever grew, shrank,
\* was cleared or failed for want of memory on the way.
THEOREM LookupsAnswer == Spec => []LookupsAreRight
<1>1. (part = "map" => MapInd) => LookupsAreRight
  BY DataAssumption, MapIndHolds DEF LookupsAreRight
<1> QED BY <1>1, MapIndIsInvariant, PTL

\* The copies of strings that are allocated are those that the nodes own.
THEOREM StringsAreOwned == Spec => []StringsOwnedByNodes
<1>1. (part = "map" => MapInd) => StringsOwnedByNodes
  BY DataAssumption, MapIndHolds DEF StringsOwnedByNodes
<1> QED BY <1>1, MapIndIsInvariant, PTL

\* The removal after the map has grown for an element does not shrink it back, nor, from
\* eight buckets on, the one after a growth whose element found no memory; the insertion
\* after the map has shrunk does not grow it back.
THEOREM ResizesStand == Spec => NoResizeIsUndone
<1>1. (part = "map" => MapInd) /\ [Next]_vars => [part = "map" => Map!ResizesForLong]_vars
  <2> SUFFICES ASSUME part = "map", MapInd, Next PROVE Map!ResizesForLong
    OBVIOUS
  <2>1. CASE MapStep
    BY <2>1, DataAssumption, MapNextInd DEF MapStep
  <2>2. CASE PoolStep \/ KeyStep \/ StreamStep
    BY <2>2 DEF PoolStep, KeyStep, StreamStep
  <2> QED BY <2>1, <2>2 DEF Next
<1> QED BY <1>1, MapIndIsInvariant, PTL DEF Spec, NoResizeIsUndone

-----------------------------------------------------------------------------
(* Keys *)

\* One half of the numbers of w bits is some.
LEMMA HalfIsPositive == ASSUME NEW w \in Nat \ {0} PROVE Key!Half(w) \in Nat \ {0}
<1>1. PICK n : n = w - 1
  OBVIOUS
<1>2. n \in Nat
  BY <1>1
<1> DEFINE X == Nat \ {0}
           step == [i \in 1 .. n |-> [x \in X |-> 2 * x]]
           All(f) == f = [i \in 0 .. n |-> IF i = 0 THEN 1 ELSE 2 * f[i - 1]]
           half == CHOOSE f : All(f)
<1>3. IsStep(step, n, X) /\ 1 \in X
  BY DEF IsStep
<1>4. PICK g : Computes(g, n, X, 1, step)
  <2> HIDE DEF step, X
  <2> QED BY <1>2, <1>3, RecursiveFunctionExists
<1>5. g \in [0 .. n -> X] /\ g[0] = 1 /\ \A i \in 1 .. n : g[i] = 2 * g[i - 1]
  <2>1. g \in [0 .. n -> X] /\ g[0] = 1 /\ \A i \in 1 .. n : g[i] = step[i][g[i - 1]]
    <3> HIDE DEF step, X
    <3> QED BY <1>4 DEF Computes
  <2>2. \A i \in 1 .. n : g[i - 1] \in X
    <3> HIDE DEF X
    <3> QED BY <1>2, <2>1
  <2> QED BY <2>1, <2>2
<1>6. All(g)
  BY <1>2, <1>5
<1>7. All(half)
  BY <1>6
<1>8. Key!Half(w) = half[n]
  BY <1>1 DEF Key!Half
<1> DEFINE T == {i \in 0 .. n : half[i] \in Nat \ {0}}
<1> HIDE DEF half
<1>9. 0 \in T
  BY <1>2, <1>7
<1>10. ASSUME NEW i \in 0 .. n - 1, i \in T PROVE i + 1 \in T
  <2>1. i + 1 \in 0 .. n /\ i + 1 # 0 /\ (i + 1) - 1 = i
    BY <1>2
  <2>2. half[i + 1] = 2 * half[i]
    BY <1>7, <2>1
  <2> QED BY <1>10, <2>1, <2>2
<1>11. 0 .. n \subseteq T
  <2> HIDE DEF T
  <2> QED BY <1>2, <1>9, <1>10, InductionUpTo
<1>12. half[n] \in Nat \ {0}
  BY <1>2, <1>11
<1> QED BY <1>8, <1>12

\* A number of w bits is not changed by cutting it to w bits.
LEMMA NothingIsCut ==
    ASSUME NEW w \in Nat \ {0}
    PROVE  /\ \A v \in Key!Signed(w) : Key!Wrapped(v, w) = v
           /\ \A v \in Key!Unsigned(w) : v % Key!Size(w) = v
<1>1. PICK h \in Nat \ {0} : h = Key!Half(w)
  BY HalfIsPositive
<1>2. ASSUME NEW v \in -h .. h - 1 PROVE ((v + h) % (2 * h)) - h = v
  BY <1>2
<1>3. ASSUME NEW v \in 0 .. (2 * h) - 1 PROVE v % (2 * h) = v
  BY <1>3
<1> QED BY <1>1, <1>2, <1>3 DEF Key!Signed, Key!Unsigned, Key!Wrapped, Key!Size

\* A value of the program, and its variant: its bits are the value itself.
IsKeyValue(x) == \E t \in Key!CTypes : \E v \in Key!CValues(t) : x = [ctype |-> t, val |-> v]

LEMMA VariantKeepsValue ==
    ASSUME Key!VariantAssumption, longBits \in {Narrow, Wide}, NEW x, IsKeyValue(x)
    PROVE  /\ x.ctype \in Key!CTypes /\ x.val \in Key!CValues(x.ctype)
           /\ Key!Var(x) = [type |-> Key!Type(x.ctype), as |-> x.val]
<1>1. PICK t \in Key!CTypes : \E v \in Key!CValues(t) : x = [ctype |-> t, val |-> v]
  BY DEF IsKeyValue
<1>2. PICK v \in Key!CValues(t) : x = [ctype |-> t, val |-> v]
  BY <1>1
<1>3. Narrow \in Nat \ {0} /\ Wide \in Nat \ {0} /\ Narrow # Wide
  BY DEF Key!VariantAssumption
<1>4. /\ \A n \in Key!Signed(Narrow) : Key!Wrapped(n, Narrow) = n
      /\ \A n \in Key!Unsigned(Narrow) : n % Key!Size(Narrow) = n
      /\ \A n \in Key!Signed(Wide) : Key!Wrapped(n, Wide) = n
      /\ \A n \in Key!Unsigned(Wide) : n % Key!Size(Wide) = n
  BY <1>3, NothingIsCut
<1>5. /\ Key!Type(t) = "INT32" => v \in Key!Signed(Narrow)
      /\ Key!Type(t) = "INT64" => v \in Key!Signed(Wide)
      /\ Key!Type(t) = "UINT32" => v \in Key!Unsigned(Narrow)
      /\ Key!Type(t) = "UINT64" => v \in Key!Unsigned(Wide)
  BY <1>1, <1>2, <1>3 DEF Key!CTypes, Key!CValues, Key!Type, Key!IntType, Key!UintType
<1>6. Key!Var(x) = [type |-> Key!Type(t), as |-> v]
  BY <1>2, <1>4, <1>5 DEF Key!Var
<1> QED BY <1>1, <1>2, <1>6

\* The types of variants, and what the program's types are among them.
LEMMA TypesOfVariants ==
    ASSUME longBits \in {Narrow, Wide}, NEW t \in Key!CTypes
    PROVE  /\ Key!Type(t) = "STRING" <=> t = "char *"
           /\ Key!Type(t) = "FLOAT" <=> t = "float"
           /\ Key!Type(t) = "DOUBLE" <=> t = "double"
           /\ Key!Type(t) = "POINTER" <=> t = "void *"
           /\ Key!Type(t) # "NULL"
BY DEF Key!CTypes, Key!Type, Key!IntType, Key!UintType

\* What the invariant says of the two values: they are some, and do not change.
KeyInd == longBits \in {Narrow, Wide} /\ IsKeyValue(c) /\ IsKeyValue(d)

\* A string is an address with a text, or NULL, which is the only one at its address.
LEMMA StringsAreTexts ==
    ASSUME Key!VariantAssumption, NEW s \in Key!CValues("char *")
    PROVE  /\ s = Key!NullString \/ s \in [at : Addresses, text : Texts]
           /\ s = Key!NullString <=> s.at = Key!Null
           /\ s = Key!NullString <=> s.text = Key!Null
BY DEF Key!CValues, Key!NullString, Key!VariantAssumption

\* What equality compares, type by type.
LEMMA EqualsByType ==
    ASSUME NEW x, NEW y, NEW t, x.type = t, y.type = t, t # "NULL"
    PROVE  Key!Equals(x, y) <=>
              IF t = "STRING"
              THEN IF Key!NullString \in {x.as, y.as} THEN x.as.at = y.as.at
                   ELSE x.as.text = y.as.text
              ELSE IF t \in {"FLOAT", "DOUBLE"}
                   THEN {x.as, y.as} \subseteq Key!NaNs \/ Key!SameFloat(x.as, y.as)
              ELSE x.as = y.as
<1>1. CASE t = "STRING"
  BY <1>1 DEF Key!Equals
<1>2. CASE t \in {"FLOAT", "DOUBLE"}
  BY <1>2 DEF Key!Equals
<1>3. CASE t \notin {"STRING", "FLOAT", "DOUBLE"}
  BY <1>3 DEF Key!Equals
<1> QED BY <1>1, <1>2, <1>3

\* Values of one C type are told apart by their variants.
LEMMA KeysAreToldApart ==
    ASSUME Key!VariantAssumption, KeyInd PROVE Key!KeysAreDistinguished
<1> SUFFICES ASSUME c.ctype = d.ctype PROVE Key!Equals(Key!Var(c), Key!Var(d)) <=> Key!SameValue
  BY DEF Key!KeysAreDistinguished
<1>1. PICK t : t = c.ctype
  OBVIOUS
<1>2. /\ t \in Key!CTypes /\ c.val \in Key!CValues(t) /\ d.val \in Key!CValues(t)
      /\ Key!Var(c) = [type |-> Key!Type(t), as |-> c.val]
      /\ Key!Var(d) = [type |-> Key!Type(t), as |-> d.val]
  BY <1>1, VariantKeepsValue DEF KeyInd
<1>3. /\ Key!Type(t) = "STRING" <=> t = "char *"
      /\ Key!Type(t) \in {"FLOAT", "DOUBLE"} <=> t \in {"float", "double"}
      /\ Key!Type(t) # "NULL"
  BY <1>2, TypesOfVariants DEF KeyInd
<1>4. Key!Equals(Key!Var(c), Key!Var(d)) <=>
         IF Key!Type(t) = "STRING"
         THEN IF Key!NullString \in {c.val, d.val} THEN c.val.at = d.val.at
              ELSE c.val.text = d.val.text
         ELSE IF Key!Type(t) \in {"FLOAT", "DOUBLE"}
              THEN {c.val, d.val} \subseteq Key!NaNs \/ Key!SameFloat(c.val, d.val)
         ELSE c.val = d.val
  <2>1. PICK x, y, k : x = Key!Var(c) /\ y = Key!Var(d) /\ k = Key!Type(t)
    OBVIOUS
  <2>2. x.type = k /\ x.as = c.val
    BY <1>2, <2>1
  <2>3. y.type = k /\ y.as = d.val
    BY <1>2, <2>1
  <2>4. k # "NULL"
    BY <1>3, <2>1
  <2> QED BY ONLY <2>1, <2>2, <2>3, <2>4, EqualsByType
<1>5. CASE t = "char *"
  <2>1. Key!Equals(Key!Var(c), Key!Var(d)) <=>
           IF Key!NullString \in {c.val, d.val} THEN c.val.at = d.val.at ELSE c.val.text = d.val.text
    BY <1>3, <1>4, <1>5
  <2>2. Key!SameValue <=> c.val.text = d.val.text
    BY <1>1, <1>5 DEF Key!SameValue
  <2>3. /\ c.val = Key!NullString <=> c.val.at = Key!Null
        /\ c.val = Key!NullString <=> c.val.text = Key!Null
        /\ d.val = Key!NullString <=> d.val.at = Key!Null
        /\ d.val = Key!NullString <=> d.val.text = Key!Null
    BY <1>2, <1>5, StringsAreTexts
  <2> QED BY <2>1, <2>2, <2>3
<1>6. CASE t \in {"float", "double"}
  <2>1. t # "char *" /\ Key!Type(t) # "STRING" /\ Key!Type(t) \in {"FLOAT", "DOUBLE"}
    BY <1>3, <1>6
  <2>2. Key!Equals(Key!Var(c), Key!Var(d)) <=>
           {c.val, d.val} \subseteq Key!NaNs \/ Key!SameFloat(c.val, d.val)
    BY <1>4, <2>1
  <2> QED BY <1>1, <1>6, <2>1, <2>2 DEF Key!SameValue
<1>7. CASE t \notin {"char *", "float", "double"}
  <2>1. Key!Type(t) # "STRING" /\ Key!Type(t) \notin {"FLOAT", "DOUBLE"}
    BY <1>3, <1>7
  <2>2. Key!Equals(Key!Var(c), Key!Var(d)) <=> c.val = d.val
    BY <1>4, <2>1
  <2> QED BY <1>1, <1>7, <2>2 DEF Key!SameValue
<1> QED BY <1>5, <1>6, <1>7

\* Variants that are equal as keys have one hash.
LEMMA EqualVariantsHashAlike ==
    ASSUME NEW x, NEW y, Key!IsKey(x), Key!IsKey(y), Key!Equals(x, y)
    PROVE  Key!Hash(x) = Key!Hash(y)
<1>1. x.type = y.type /\ x.type # "NULL"
  BY DEF Key!Equals
<1>2. CASE x.type = "STRING"
  <2>1. x.as.text = y.as.text
    BY <1>1, <1>2 DEF Key!Equals, Key!IsKey
  <2> QED BY <1>1, <1>2, <2>1 DEF Key!Hash
<1>3. CASE x.type \in {"FLOAT", "DOUBLE"}
  <2>1. {x.as, y.as} \subseteq Key!NaNs \/ Key!SameFloat(x.as, y.as)
    BY <1>1, <1>3 DEF Key!Equals
  <2>2. CASE {x.as, y.as} \subseteq Key!NaNs
    BY <1>1, <1>3, <2>2 DEF Key!Hash
  <2>3. CASE Key!SameFloat(x.as, y.as)
    <3>1. x.as \notin Key!NaNs /\ y.as \notin Key!NaNs /\ Key!FloatBytes(x.as) = Key!FloatBytes(y.as)
      BY <2>3 DEF Key!SameFloat, Key!FloatBytes
    <3> QED BY <1>1, <1>3, <3>1 DEF Key!Hash
  <2> QED BY <2>1, <2>2, <2>3
<1>4. CASE x.type \notin {"STRING", "FLOAT", "DOUBLE"}
  <2>1. x.as = y.as
    BY <1>1, <1>4 DEF Key!Equals
  <2> QED BY <1>1, <1>4, <2>1 DEF Key!Hash
<1> QED BY <1>2, <1>3, <1>4

\* The copy a node keeps equals the key, and is a key.
LEMMA CopiesEqualKeys ==
    ASSUME Key!VariantAssumption, KeyInd PROVE Key!CopiesAreEqual
<1>1. PICK t : t = c.ctype
  OBVIOUS
<1>2. PICK k : k = Key!Var(c)
  OBVIOUS
<1>3. /\ t \in Key!CTypes /\ c.val \in Key!CValues(t)
      /\ k = [type |-> Key!Type(t), as |-> c.val]
  BY <1>1, <1>2, VariantKeepsValue DEF KeyInd
<1>4. /\ k.type = "STRING" <=> t = "char *"
      /\ k.type \in {"FLOAT", "DOUBLE"} <=> t \in {"float", "double"}
      /\ k.type # "NULL"
  BY <1>3, TypesOfVariants DEF KeyInd
<1>5. Key!Equals(k, k)
  <2>1. CASE k.type \in {"FLOAT", "DOUBLE"}
    BY <1>4, <2>1 DEF Key!Equals, Key!SameFloat
  <2>2. CASE k.type \notin {"FLOAT", "DOUBLE"}
    BY <1>4, <2>2 DEF Key!Equals
  <2> QED BY <2>1, <2>2
<1> SUFFICES ASSUME NEW x \in Key!Copies(k)
             PROVE  IF x.type = "NULL" THEN k.type = "STRING"
                    ELSE Key!Equals(x, k) /\ (Key!IsKey(k) => Key!IsKey(x) /\ Key!Hash(x) = Key!Hash(k))
  BY <1>2 DEF Key!CopiesAreEqual
<1>6. CASE x = k
  BY <1>4, <1>5, <1>6
<1>7. CASE x # k
  <2>1. k.type = "STRING" /\ k.as # Key!NullString
    BY <1>7 DEF Key!Copies
  <2>2. CASE x = [k EXCEPT !.type = "NULL"]
    BY <1>3, <2>1, <2>2
  <2>3. ASSUME NEW a \in Addresses, x = [k EXCEPT !.as.at = a]
        PROVE  Key!Equals(x, k) /\ Key!IsKey(x) /\ x.type = "STRING"
    <3>1. k.as \in [at : Addresses, text : Texts]
      BY <1>3, <1>4, <2>1, StringsAreTexts
    <3>2. x = [type |-> "STRING", as |-> [at |-> a, text |-> k.as.text]]
      BY <1>3, <2>1, <2>3, <3>1
    <3>3. x.as # Key!NullString
      BY <3>2 DEF Key!NullString, Key!VariantAssumption
    <3> QED BY <2>1, <3>2, <3>3 DEF Key!Equals, Key!IsKey
  <2>4. x = [k EXCEPT !.type = "NULL"] \/ \E a \in Addresses : x = [k EXCEPT !.as.at = a]
    BY <2>1 DEF Key!Copies
  <2> QED BY <1>4, <2>2, <2>3, <2>4, EqualVariantsHashAlike
<1> QED BY <1>6, <1>7

\* Of keys of any C types: values of one type are told apart, equal keys have one hash
\* (-0.0 and 0.0, and every NaN), and the copy in a node equals its key.
THEOREM KeysHashAlike == Spec => []EqualKeysHashAlike
<1> DEFINE Ind == part = "key" => KeyInd
<1>1. Init => Ind
  BY DEF Init, Key!Init, KeyInd, IsKeyValue
<1>2. Ind /\ [Next]_vars => Ind'
  <2> SUFFICES ASSUME Ind, [Next]_vars, part' = "key" PROVE KeyInd'
    OBVIOUS
  <2>1. part = "key" /\ UNCHANGED <<longBits, c, d>>
    BY DEF Next, MapStep, KeyStep, PoolStep, StreamStep, Key!Next, vars, keyVars
  <2>2. longBits' = longBits /\ c' = c /\ d' = d
    BY <2>1
  <2>3. \A t : Key!CValues(t)' = Key!CValues(t)
    BY <2>2 DEF Key!CValues
  <2>4. IsKeyValue(c)' /\ IsKeyValue(d)'
    <3>1. IsKeyValue(c) /\ IsKeyValue(d)
      BY <2>1 DEF KeyInd
    <3> QED BY <2>2, <2>3, <3>1 DEF IsKeyValue, Key!CTypes
  <2>5. longBits' \in {Narrow, Wide}
    BY <2>1, <2>2 DEF KeyInd
  <2> QED BY <2>4, <2>5 DEF KeyInd
<1>3. Ind => EqualKeysHashAlike
  <2> SUFFICES ASSUME KeyInd
               PROVE  Key!KeysAreDistinguished /\ Key!EqualKeysHashAlike /\ Key!CopiesAreEqual
    BY DEF EqualKeysHashAlike
  <2>1. Key!VariantAssumption
    BY DataAssumption
  <2> QED BY <2>1, KeysAreToldApart, CopiesEqualKeys, EqualVariantsHashAlike DEF Key!EqualKeysHashAlike
<1> QED BY <1>1, <1>2, <1>3, PTL DEF Spec

-----------------------------------------------------------------------------
(* Division, for the hashes *)

\* a divided by b is q and leaves r.
IsDivision(a, b, q, r) == q \in Nat /\ r \in 0 .. b - 1 /\ a = q * b + r

\* A division is one,
LEMMA Division ==
    ASSUME NEW a \in Nat, NEW b \in Nat \ {0}
    PROVE  IsDivision(a, b, a \div b, a % b)
BY DEF IsDivision

\* and the only one.
LEMMA DivisionIs ==
    ASSUME NEW a \in Nat, NEW b \in Nat \ {0}, NEW q, NEW r, IsDivision(a, b, q, r)
    PROVE  a \div b = q /\ a % b = r
BY DEF IsDivision

\* The divisor may be added any number of times.
LEMMA DivisionMore ==
    ASSUME NEW a \in Nat, NEW b \in Nat \ {0}, NEW q, NEW r, IsDivision(a, b, q, r), NEW k \in Nat
    PROVE  IsDivision(k * b + a, b, k + q, r)
<1>1. (k + q) * b = k * b + q * b
  BY DEF IsDivision
<1> QED BY <1>1 DEF IsDivision

\* Division by a product is division by its factors.
LEMMA DivisionByProduct ==
    ASSUME NEW b \in Nat \ {0}, NEW q \in Nat \ {0}, NEW p, p = b * q,
           NEW a \in Nat, NEW s, NEW u, IsDivision(a, p, s, u), NEW v, NEW w, IsDivision(u, b, v, w)
    PROVE  p \in Nat \ {0} /\ v < q /\ IsDivision(a, b, s * q + v, w)
<1>1. p \in Nat \ {0}
  OBVIOUS
<1>2. s \in Nat /\ u \in Nat /\ u < p /\ a = s * p + u
  BY <1>1 DEF IsDivision
<1>3. v \in Nat /\ w \in 0 .. b - 1 /\ u = v * b + w
  BY DEF IsDivision
<1>4. v < q
  <2> SUFFICES ASSUME v >= q PROVE FALSE
    BY <1>3
  <2>1. v * b >= q * b
    BY <1>3
  <2> QED BY <1>2, <1>3, <2>1
<1>5. (s * q + v) * b = s * p + v * b
  <2>1. s * p = s * (b * q)
    OBVIOUS
  <2>2. s * (b * q) = (s * q) * b /\ (s * q + v) * b = (s * q) * b + v * b
    BY ONLY <1>2, <1>3, b \in Nat, q \in Nat
  <2> QED BY ONLY <2>1, <2>2
<1>6. s * q + v \in Nat
  BY <1>2, <1>3
<1>7. a = (s * q + v) * b + w
  BY <1>2, <1>3, <1>5
<1> QED BY <1>1, <1>3, <1>4, <1>6, <1>7 DEF IsDivision

IsProduct(p, b, q) == p = b * q

LEMMA DivisionTwice ==
    ASSUME NEW a \in Nat, NEW b \in Nat \ {0}, NEW q \in Nat \ {0}, NEW p, IsProduct(p, b, q)
    PROVE  (a % p) % b = a % b /\ (a % p) \div b = (a \div b) % q
<1>0. p = b * q
  BY DEF IsProduct
<1>1. p \in Nat \ {0}
  BY <1>0
<1>2. PICK s, u : s = a \div p /\ u = a % p
  OBVIOUS
<1>3. IsDivision(a, p, s, u)
  BY ONLY <1>1, <1>2, Division, a \in Nat
<1>4. s \in Nat /\ u \in Nat
  BY <1>1, <1>3 DEF IsDivision
<1>5. PICK v, w : v = u \div b /\ w = u % b
  OBVIOUS
<1>6. IsDivision(u, b, v, w)
  BY ONLY <1>4, <1>5, Division, b \in Nat \ {0}
<1>7. v < q /\ IsDivision(a, b, s * q + v, w)
  BY <1>0, <1>3, <1>6, DivisionByProduct
<1>8. a \div b = s * q + v /\ a % b = w
  BY <1>7, DivisionIs
<1>9. v \in 0 .. q - 1 /\ s * q + v \in Nat /\ IsDivision(s * q + v, q, s, v)
  <2>1. v \in Nat
    BY <1>6 DEF IsDivision
  <2> QED BY <1>4, <1>7, <2>1 DEF IsDivision
<1>10. (s * q + v) % q = v
  BY <1>9, DivisionIs
<1> QED BY <1>2, <1>5, <1>8, <1>10

\* The division of a sum, from those of its terms.
LEMMA DivisionOfSum ==
    ASSUME NEW x \in Nat, NEW y \in Nat, NEW b \in Nat \ {0},
           NEW q, NEW r, NEW s, NEW t, IsDivision(x, b, q, r), IsDivision(y, b, s, t)
    PROVE  IF r + t < b THEN IsDivision(x + y, b, q + s, r + t)
           ELSE IsDivision(x + y, b, q + s + 1, r + t - b)
<1>1. /\ q \in Nat /\ r \in 0 .. b - 1 /\ x = q * b + r
      /\ s \in Nat /\ t \in 0 .. b - 1 /\ y = s * b + t
  BY DEF IsDivision
<1>2. (q + s) * b = q * b + s * b /\ (q + s + 1) * b = q * b + s * b + b
  BY ONLY <1>1, b \in Nat
<1> QED BY <1>1, <1>2 DEF IsDivision

\* Of a sum, one term may be cut first.
LEMMA SumCut ==
    ASSUME NEW a \in Nat, NEW b \in Nat \ {0}, NEW s, NEW u, IsDivision(a, b, s, u), NEW k \in Nat
    PROVE  (u + k) % b = (a + k) % b
<1>1. s \in Nat /\ u \in Nat /\ a = s * b + u
  BY DEF IsDivision
<1>2. PICK t, v : t = (u + k) \div b /\ v = (u + k) % b
  OBVIOUS
<1>3. IsDivision(u + k, b, t, v)
  <2>1. u + k \in Nat
    BY <1>1
  <2> QED BY ONLY <1>2, <2>1, b \in Nat \ {0}, Division
<1>4. IsDivision(s * b + (u + k), b, s + t, v)
  BY <1>1, <1>3, DivisionMore
<1>5. a + k = s * b + (u + k) /\ a + k \in Nat
  BY <1>1
<1>6. (a + k) % b = v
  BY <1>4, <1>5, DivisionIs
<1> QED BY <1>2, <1>6

-----------------------------------------------------------------------------
(* The length *)

\* M is a number of bits that is one of whole blocks.
LEMMA WordsAreBlocks ==
    ASSUME Stream!StreamAssumption
    PROVE  /\ B \in Nat \ {0, 1, 2} /\ D \in 1 .. B /\ M \in Nat \ {0} /\ Stream!L = 2
           /\ \E q \in Nat \ {0} : M = 8 * (B * q)
<1>1. /\ B \in Nat \ {0} /\ M \in Nat \ {0} /\ D \in Nat \ {0} /\ 2 < B /\ D <= B
      /\ Stream!L = 2
  BY DEF Stream!StreamAssumption, Stream!L
<1>2. PICK q \in 1 .. M : M = 8 * B * q
  BY DEF Stream!StreamAssumption
<1>3. q \in Nat \ {0} /\ 8 * B * q = 8 * (B * q)
  BY <1>1, <1>2
<1> QED BY <1>1, <1>2, <1>3

\* The low word of the length says where in a block the message ends.
LEMMA LowWordIsPlace ==
    ASSUME Stream!StreamAssumption, NEW n \in Nat
    PROVE  (((8 * n) % M) \div 8) % B = n % B
<1>1. PICK q \in Nat \ {0} : M = 8 * (B * q) /\ B \in Nat \ {0}
  BY WordsAreBlocks
<1>2. PICK e : e = B * q
  OBVIOUS
<1>3. e \in Nat \ {0} /\ M = 8 * e
  BY <1>1, <1>2
<1>4. PICK x : x = 8 * n
  OBVIOUS
<1>5. x \in Nat /\ x \div 8 = n
  BY <1>4
<1>6. (x % M) \div 8 = (x \div 8) % e
  <2>1. PICK w \in Nat \ {0} : w = 8
    OBVIOUS
  <2>2. IsProduct(M, w, e)
    BY <1>3, <2>1 DEF IsProduct
  <2>3. (x % M) \div w = (x \div w) % e
    <3>1. x \in Nat /\ e \in Nat \ {0}
      BY <1>3, <1>5
    <3> QED BY ONLY <2>2, <3>1, w \in Nat \ {0}, DivisionTwice
  <2> QED BY <2>1, <2>3
<1>7. (n % e) % B = n % B
  <2>1. IsProduct(e, B, q)
    BY <1>2 DEF IsProduct
  <2> QED BY <1>1, <2>1, DivisionTwice
<1> QED BY <1>4, <1>5, <1>6, <1>7

\* The two words hold the bits of n bytes.
Count(low, high, n) == low = (8 * n) % M /\ high = ((8 * n) \div M) % M

\* How __md5_update__ adds n bytes to them.
WordsAdd(low, high, n, bits, low1, high1) ==
    /\ bits = (n * 8) % M /\ low1 = (low + bits) % M
    /\ high1 = (high + Stream!Carry(low1, bits) + n \div (M \div 8)) % M

\* It adds them, with the carry.
LEMMA WordsCount ==
    ASSUME Stream!StreamAssumption, NEW m \in Nat, NEW n \in Nat, NEW low, NEW high, NEW bits,
           NEW next, NEW high1, Count(low, high, m), WordsAdd(low, high, n, bits, next, high1)
    PROVE  Count(next, high1, m + n)
<1>0. /\ low = (8 * m) % M /\ high = ((8 * m) \div M) % M /\ bits = (n * 8) % M
      /\ next = (low + bits) % M
      /\ high1 = (high + Stream!Carry(next, bits) + n \div (M \div 8)) % M
  BY DEF Count, WordsAdd
<1>1. PICK q \in Nat \ {0} : M = 8 * (B * q) /\ B \in Nat \ {0} /\ M \in Nat \ {0}
  BY WordsAreBlocks
<1>2. PICK e : e = B * q
  OBVIOUS
<1>3. e \in Nat \ {0} /\ M = 8 * e /\ M \div 8 = e
  BY <1>1, <1>2
<1>4. PICK x, y, a, b, c1 : /\ x = 8 * m /\ y = 8 * n /\ a = x \div M /\ b = y \div M
                            /\ c1 = Stream!Carry(next, bits)
  OBVIOUS
<1>5. x \in Nat /\ y \in Nat /\ x + y = 8 * (m + n) /\ low = x % M /\ bits = y % M
  BY <1>0, <1>4
<1>6. IsDivision(x, M, a, low) /\ IsDivision(y, M, b, bits)
  BY <1>1, <1>4, <1>5, Division
<1>7. a \in Nat /\ b \in Nat /\ low \in 0 .. M - 1 /\ bits \in 0 .. M - 1
  BY <1>6 DEF IsDivision
<1>8. IF low + bits < M THEN next = low + bits ELSE next = low + bits - M
  <2>1. CASE low + bits < M
    <3>1. low + bits \in Nat /\ IsDivision(low + bits, M, 0, low + bits)
      BY <1>1, <1>7, <2>1 DEF IsDivision
    <3>2. (low + bits) % M = low + bits
      BY <1>1, <3>1, DivisionIs
    <3> QED BY <1>0, <2>1, <3>2
  <2>2. CASE ~(low + bits < M)
    <3>1. low + bits \in Nat /\ IsDivision(low + bits, M, 1, low + bits - M)
      BY <1>1, <1>7, <2>2 DEF IsDivision
    <3>2. (low + bits) % M = low + bits - M
      BY <1>1, <3>1, DivisionIs
    <3> QED BY <1>0, <2>2, <3>2
  <2> QED BY <2>1, <2>2
<1>9. c1 \in {0, 1} /\ IsDivision(x + y, M, a + b + c1, next)
  <2>1. c1 = IF low + bits < M THEN 0 ELSE 1
    BY <1>1, <1>4, <1>7, <1>8 DEF Stream!Carry
  <2>2. IF low + bits < M THEN IsDivision(x + y, M, a + b, low + bits)
        ELSE IsDivision(x + y, M, a + b + 1, low + bits - M)
    BY <1>1, <1>5, <1>6, DivisionOfSum
  <2> QED BY <1>7, <1>8, <2>1, <2>2
<1>10. (x + y) \div M = a + b + c1 /\ (x + y) % M = next
  BY <1>1, <1>5, <1>9, DivisionIs
<1>11. b = n \div e
  <2>1. PICK s, t : s = n \div e /\ t = n % e
    OBVIOUS
  <2>2. IsDivision(n, e, s, t)
    BY <1>3, <2>1, Division
  <2>3. IsDivision(y, M, s, 8 * t)
    <3>1. s \in Nat /\ t \in 0 .. e - 1 /\ n = s * e + t
      BY <2>2 DEF IsDivision
    <3>2. s * M = 8 * (s * e)
      BY ONLY <1>3, <3>1
    <3> QED BY <1>3, <1>4, <3>1, <3>2 DEF IsDivision
  <2> QED BY <1>1, <1>4, <1>5, <2>1, <2>3, DivisionIs
<1>12. ((a % M) + (b + c1)) % M = (a + (b + c1)) % M
  <2>1. b + c1 \in Nat
    BY <1>7, <1>9
  <2>2. IsDivision(a, M, a \div M, a % M)
    BY <1>1, <1>7, Division
  <2> QED BY <1>1, <1>7, <2>1, <2>2, SumCut
<1>13. high = a % M /\ a % M \in Nat
  BY <1>0, <1>1, <1>4, <1>7
<1>14. high + c1 + n \div (M \div 8) = (a % M) + (b + c1) /\ a + (b + c1) = a + b + c1
  BY <1>3, <1>7, <1>9, <1>11, <1>13
<1>15. (x + y) \div M = a + (b + c1)
  BY <1>10, <1>14
<1>16. high1 = ((x + y) \div M) % M
  BY <1>0, <1>4, <1>12, <1>14, <1>15
<1> QED BY <1>5, <1>10, <1>16 DEF Count

-----------------------------------------------------------------------------
(* Blocks *)

\* One sequence after another, element by element,
LEMMA Joined ==
    ASSUME NEW S, NEW m \in Seq(S), NEW x \in Seq(S)
    PROVE  /\ m \o x \in Seq(S) /\ Len(m \o x) = Len(m) + Len(x)
           /\ \A j \in 1 .. Len(m) : (m \o x)[j] = m[j]
           /\ \A j \in 1 .. Len(x) : (m \o x)[Len(m) + j] = x[j]
OBVIOUS

\* two with an element between them,
LEMMA JoinedAround ==
    ASSUME NEW S, NEW m \in Seq(S), NEW f \in S, NEW x \in Seq(S)
    PROVE  /\ m \o <<f>> \o x \in Seq(S) /\ Len(m \o <<f>> \o x) = Len(m) + 1 + Len(x)
           /\ \A j \in 1 .. Len(m) : (m \o <<f>> \o x)[j] = m[j]
           /\ (m \o <<f>> \o x)[Len(m) + 1] = f
           /\ \A j \in 1 .. Len(x) : (m \o <<f>> \o x)[Len(m) + 1 + j] = x[j]
<1>1. PICK y : y = m \o <<f>>
  OBVIOUS
<1>2. /\ y \in Seq(S) /\ Len(y) = Len(m) + 1 /\ Len(m) \in Nat
      /\ \A j \in 1 .. Len(m) : y[j] = m[j]
      /\ y[Len(m) + 1] = f
  BY <1>1
<1>3. PICK z : z = y \o x
  OBVIOUS
<1>4. /\ z \in Seq(S) /\ Len(z) = Len(y) + Len(x)
      /\ \A j \in 1 .. Len(y) : z[j] = y[j]
      /\ \A j \in 1 .. Len(x) : z[Len(y) + j] = x[j]
  <2>1. y \in Seq(S)
    BY <1>2
  <2> QED BY ONLY <1>3, <2>1, Joined, x \in Seq(S)
<1>5. z = m \o <<f>> \o x
  BY <1>1, <1>3
<1>6. /\ z \in Seq(S) /\ Len(z) = Len(m) + 1 + Len(x)
      /\ \A j \in 1 .. Len(m) : z[j] = m[j]
      /\ z[Len(m) + 1] = f
      /\ \A j \in 1 .. Len(x) : z[Len(m) + 1 + j] = x[j]
  <2>1. Len(z) = Len(m) + 1 + Len(x) /\ \A j \in 1 .. Len(x) : z[Len(m) + 1 + j] = x[j]
    BY ONLY <1>2, <1>4
  <2>2. 1 .. Len(m) \subseteq 1 .. Len(y) /\ Len(m) + 1 \in 1 .. Len(y)
    BY ONLY <1>2
  <2>3. \A j \in 1 .. Len(m) : z[j] = m[j]
    BY ONLY <1>2, <1>4, <2>2
  <2> QED BY ONLY <1>2, <1>4, <2>1, <2>2, <2>3
<1> QED BY ONLY <1>5, <1>6

\* and the end of one.
LEMMA EndOf ==
    ASSUME NEW S, NEW x \in Seq(S), NEW a \in 1 .. Len(x) + 1
    PROVE  /\ SubSeq(x, a, Len(x)) \in Seq(S) /\ Len(SubSeq(x, a, Len(x))) = Len(x) + 1 - a
           /\ \A j \in 1 .. Len(x) + 1 - a : SubSeq(x, a, Len(x))[j] = x[a - 1 + j]
<1>1. Len(x) \in Nat /\ Len(x) + 1 - a \in Nat
  OBVIOUS
<1>2. SubSeq(x, a, Len(x)) = [j \in 1 .. Len(x) + 1 - a |-> x[a - 1 + j]]
  <2>1. Len(x) - a + 1 = Len(x) + 1 - a /\ \A j \in 1 .. Len(x) + 1 - a : j + a - 1 = a - 1 + j
    BY <1>1
  <2>2. SubSeq(x, a, Len(x)) = [j \in 1 .. Len(x) - a + 1 |-> x[j + a - 1]]
    OBVIOUS
  <2> QED BY <2>1, <2>2
<1>3. \A j \in 1 .. Len(x) + 1 - a : x[a - 1 + j] \in S
  BY <1>1
<1> QED BY <1>1, <1>2, <1>3

BlockOf(m, k) == [i \in 1 .. B |-> m[(k - 1) * B + i]]

\* s has the whole blocks of m, which has bytes from V.
IsCut(s, m, V) ==
    /\ s \in Seq([1 .. B -> V]) /\ Len(s) = Len(m) \div B
    /\ \A k \in 1 .. Len(s) : s[k] = BlockOf(m, k)

\* Byte i of block k of q blocks is in them.
LEMMA PlaceInBlocks ==
    ASSUME NEW b \in Nat \ {0}, NEW q \in Nat, NEW k \in 1 .. q, NEW i \in 1 .. b
    PROVE  (k - 1) * b + i \in 1 .. q * b
<1>1. q - k \in Nat /\ k - 1 \in Nat
  OBVIOUS
<1>2. PICK u, v : u = q - k /\ v = k - 1
  OBVIOUS
<1>3. u \in Nat /\ v \in Nat /\ q = v + u + 1
  BY <1>1, <1>2
<1>4. v * b \in Nat /\ u * b \in Nat /\ (v + u + 1) * b = v * b + u * b + b
  BY ONLY <1>3, b \in Nat
<1>5. q * b = v * b + u * b + b
  BY <1>3, <1>4
<1> QED BY <1>2, <1>4, <1>5

\* Cutting does what it says.
LEMMA CutIsCut ==
    ASSUME B \in Nat \ {0}, NEW V, NEW m \in Seq(V)
    PROVE  IsCut(Stream!Cut(m), m, V)
<1>1. PICK q, r : q = Len(m) \div B /\ r = Len(m) % B
  OBVIOUS
<1>2. IsDivision(Len(m), B, q, r)
  <2>1. Len(m) \in Nat
    OBVIOUS
  <2> QED BY ONLY <1>1, <2>1, B \in Nat \ {0}, Division
<1>3. q \in Nat /\ r \in 0 .. B - 1 /\ Len(m) = q * B + r
  BY <1>2 DEF IsDivision
<1>4. ASSUME NEW k \in 1 .. q
      PROVE  SubSeq(m, (k - 1) * B + 1, k * B) = BlockOf(m, k) /\ BlockOf(m, k) \in [1 .. B -> V]
  <2>1. PICK p : p = (k - 1) * B
    OBVIOUS
  <2>2. p \in Nat /\ k * B = p + B
    <3>1. PICK v : v = k - 1
      OBVIOUS
    <3>2. v \in Nat /\ k = v + 1
      BY <1>3, <3>1
    <3>3. v * B \in Nat /\ (v + 1) * B = v * B + B
      BY ONLY <3>2, B \in Nat \ {0}
    <3> QED BY <2>1, <3>1, <3>2, <3>3
  <2>3. \A i \in 1 .. B : p + i \in 1 .. q * B
    BY <1>3, <2>1, PlaceInBlocks
  <2>4. \A i \in 1 .. B : p + i \in 1 .. Len(m)
    BY <1>3, <2>2, <2>3
  <2>5. SubSeq(m, p + 1, p + B) = [i \in 1 .. B |-> m[p + i]]
    <3>1. p + B - (p + 1) + 1 = B /\ \A i \in 1 .. B : i + (p + 1) - 1 = p + i
      BY <2>2
    <3>2. SubSeq(m, p + 1, p + B) = [i \in 1 .. B |-> m[i + (p + 1) - 1]]
      BY <2>2, <2>4, <3>1
    <3> QED BY <3>1, <3>2
  <2>6. [i \in 1 .. B |-> m[p + i]] \in [1 .. B -> V]
    BY <2>4
  <2> QED BY <2>1, <2>2, <2>5, <2>6 DEF BlockOf
<1>5. Stream!Cut(m) = [k \in 1 .. q |-> SubSeq(m, (k - 1) * B + 1, k * B)]
  BY <1>1 DEF Stream!Cut
<1>6. Stream!Cut(m) = [k \in 1 .. q |-> BlockOf(m, k)]
  BY <1>4, <1>5
<1>7. [k \in 1 .. q |-> BlockOf(m, k)] \in Seq([1 .. B -> V])
  BY <1>3, <1>4
<1>8. \A k \in 1 .. q : Stream!Cut(m)[k] = BlockOf(m, k)
  BY <1>6
<1>9. Len(Stream!Cut(m)) = q
  BY <1>3, <1>6, <1>7
<1> QED BY <1>1, <1>6, <1>7, <1>8, <1>9 DEF IsCut

\* Nothing else is the blocks of m.
LEMMA OneCut ==
    ASSUME B \in Nat \ {0}, NEW V, NEW m \in Seq(V), NEW s, IsCut(s, m, V)
    PROVE  s = Stream!Cut(m)
<1>1. IsCut(Stream!Cut(m), m, V)
  BY CutIsCut
<1> QED BY <1>1 DEF IsCut

\* A hash has absorbed the blocks of m, q of them, and has the r bytes after them.
Absorbs(blocks, buffer, m, V, q, r) ==
    /\ IsDivision(Len(m), B, q, r) /\ IsCut(blocks, m, V) /\ buffer \in [1 .. B -> V]
    /\ \A i \in 1 .. r : buffer[i] = m[q * B + i]

\* A few bytes more fill the buffer further,
LEMMA AbsorbsPart ==
    ASSUME B \in Nat \ {0}, NEW V, NEW m \in Seq(V), NEW x \in Seq(V), NEW blocks, NEW buffer,
           NEW q, NEW r, Absorbs(blocks, buffer, m, V, q, r), r + Len(x) < B
    PROVE  Absorbs(blocks, Stream!Put(buffer, r, x), m \o x, V, q, r + Len(x))
<1>1. q \in Nat /\ r \in 0 .. B - 1 /\ Len(m) = q * B + r /\ q * B \in Nat
  <2>1. q \in Nat /\ r \in 0 .. B - 1 /\ Len(m) = q * B + r
    BY DEF Absorbs, IsDivision
  <2> QED BY <2>1
<1>2. m \o x \in Seq(V) /\ Len(m \o x) = Len(m) + Len(x) /\ Len(x) \in Nat
  OBVIOUS
<1>3. IsDivision(Len(m \o x), B, q, r + Len(x))
  BY <1>1, <1>2 DEF IsDivision
<1>4. Len(m \o x) \div B = q /\ Len(m) \div B = q
  BY <1>2, <1>3, DivisionIs DEF Absorbs
<1>5. IsCut(blocks, m \o x, V)
  <2>1. blocks \in Seq([1 .. B -> V]) /\ Len(blocks) = q
        /\ \A k \in 1 .. q : blocks[k] = BlockOf(m, k)
    BY <1>4 DEF Absorbs, IsCut
  <2>2. ASSUME NEW k \in 1 .. q PROVE BlockOf(m \o x, k) = BlockOf(m, k)
    <3>1. \A i \in 1 .. B : (k - 1) * B + i \in 1 .. q * B
      BY <1>1, PlaceInBlocks
    <3>2. \A j \in 1 .. q * B : (m \o x)[j] = m[j]
      BY <1>1
    <3> QED BY <3>1, <3>2 DEF BlockOf
  <2> QED BY <1>4, <2>1, <2>2 DEF IsCut
<1>6. PICK buf : buf = Stream!Put(buffer, r, x)
  OBVIOUS
<1>7. buf = [i \in 1 .. B |-> IF i - r \in 1 .. Len(x) THEN x[i - r] ELSE buffer[i]]
  BY <1>6 DEF Stream!Put
<1>8. buffer \in [1 .. B -> V] /\ \A i \in 1 .. r : buffer[i] = m[q * B + i]
  BY DEF Absorbs
<1>9. buf \in [1 .. B -> V]
  BY <1>7, <1>8
<1>10. ASSUME NEW i \in 1 .. r + Len(x) PROVE buf[i] = (m \o x)[q * B + i]
  <2>1. PICK p : p = q * B
    OBVIOUS
  <2>2. p \in Nat /\ Len(m) = p + r
    BY <1>1, <2>1
  <2>3. CASE i <= r
    <3>1. (m \o x)[p + i] = m[p + i] /\ buf[i] = buffer[i]
      BY <1>1, <1>2, <1>7, <2>2, <2>3
    <3> QED BY <1>1, <1>8, <2>1, <2>3, <3>1
  <2>4. CASE i > r
    <3>1. i - r \in 1 .. Len(x) /\ i \in 1 .. B /\ (p + i) - Len(m) = i - r
      BY <1>1, <1>2, <2>2, <2>4
    <3>2. (m \o x)[p + i] = x[i - r]
      BY <1>2, <2>2, <3>1
    <3> QED BY <1>7, <2>1, <3>1, <3>2
  <2> QED BY <1>1, <1>2, <2>3, <2>4
<1> QED BY <1>3, <1>5, <1>6, <1>9, <1>10 DEF Absorbs

\* and enough to fill it are a block, the blocks after it, and what remains.
LEMMA AbsorbsBlocks ==
    ASSUME B \in Nat \ {0}, NEW V, NEW m \in Seq(V), NEW x \in Seq(V), NEW blocks, NEW buffer,
           NEW q, NEW r, Absorbs(blocks, buffer, m, V, q, r), r + Len(x) >= B,
           NEW rest, rest = SubSeq(x, B - r + 1, Len(x)),
           NEW s, NEW t, IsDivision(Len(rest), B, s, t),
           NEW buf \in [1 .. B -> V], \A i \in 1 .. t : buf[i] = rest[s * B + i]
    PROVE  Absorbs(blocks \o <<Stream!Put(buffer, r, SubSeq(x, 1, B - r))>> \o Stream!Cut(rest),
                   buf, m \o x, V, q + 1 + s, t)
<1> DEFINE first == Stream!Put(buffer, r, SubSeq(x, 1, B - r))
           all == blocks \o <<first>> \o Stream!Cut(rest)
<1>1. PICK p : p = q * B
  OBVIOUS
<1>2. q \in Nat /\ r \in 0 .. B - 1 /\ p \in Nat /\ Len(m) = p + r
  <2>1. q \in Nat /\ r \in 0 .. B - 1 /\ Len(m) = q * B + r
    BY DEF Absorbs, IsDivision
  <2> QED BY <1>1, <2>1
<1>3. PICK y : y = m \o x
  OBVIOUS
<1>4. /\ y \in Seq(V) /\ Len(x) \in Nat /\ Len(y) = p + r + Len(x)
      /\ \A j \in 1 .. p + r : y[j] = m[j]
      /\ \A j \in 1 .. Len(x) : y[p + r + j] = x[j]
  <2>1. /\ y \in Seq(V) /\ Len(y) = Len(m) + Len(x)
        /\ \A j \in 1 .. Len(m) : y[j] = m[j]
        /\ \A j \in 1 .. Len(x) : y[Len(m) + j] = x[j]
    BY ONLY <1>3, Joined, m \in Seq(V), x \in Seq(V)
  <2>2. Len(x) \in Nat
    OBVIOUS
  <2> QED BY ONLY <1>2, <2>1, <2>2
<1>5. /\ rest \in Seq(V) /\ Len(rest) = Len(x) - (B - r)
      /\ \A j \in 1 .. Len(rest) : rest[j] = y[(p + B) + j]
  <2>1. B - r + 1 \in 1 .. Len(x) + 1 /\ Len(x) - (B - r + 1) + 1 = Len(x) - (B - r)
    BY <1>2, <1>4
  <2>2. rest \in Seq(V) /\ Len(rest) = Len(x) - (B - r)
        /\ \A j \in 1 .. Len(rest) : rest[j] = x[(B - r) + j]
    <3>1. PICK a : a = B - r + 1
      OBVIOUS
    <3>2. /\ rest \in Seq(V) /\ Len(rest) = Len(x) + 1 - a
          /\ \A j \in 1 .. Len(x) + 1 - a : rest[j] = x[a - 1 + j]
      BY <2>1, <3>1, EndOf
    <3>3. Len(x) + 1 - a = Len(x) - (B - r) /\ a - 1 = B - r
      BY <1>2, <1>4, <3>1
    <3> QED BY <3>2, <3>3
  <2>3. ASSUME NEW j \in 1 .. Len(rest) PROVE rest[j] = y[(p + B) + j]
    <3>1. (B - r) + j \in 1 .. Len(x) /\ p + r + ((B - r) + j) = (p + B) + j
      BY <1>2, <1>4, <2>2
    <3> QED BY <1>4, <2>2, <3>1
  <2> QED BY <2>2, <2>3
<1>6. s \in Nat /\ t \in 0 .. B - 1 /\ Len(rest) = s * B + t
  BY DEF IsDivision
<1>7. /\ (q + 1) * B = p + B /\ (q + 1 + s) * B = (p + B) + s * B /\ s * B \in Nat
  <2>1. (q + 1) * B = q * B + B /\ (q + 1 + s) * B = (q * B + B) + s * B /\ s * B \in Nat
    BY ONLY <1>2, <1>6, B \in Nat \ {0}
  <2> QED BY <1>1, <2>1
<1>8. IsDivision(Len(y), B, q + 1 + s, t)
  <2>1. Len(y) = (q + 1 + s) * B + t
    <3>1. PICK u, w : u = s * B /\ w = (q + 1 + s) * B
      OBVIOUS
    <3>2. w = (p + B) + u /\ u \in Nat /\ Len(rest) = u + t /\ t \in Nat
      BY ONLY <1>6, <1>7, <3>1, B \in Nat \ {0}
    <3>3. /\ p \in Nat /\ r \in Nat /\ Len(x) \in Nat /\ Len(y) = p + r + Len(x)
          /\ Len(rest) = Len(x) - (B - r)
      BY ONLY <1>2, <1>4, <1>5, B \in Nat \ {0}
    <3>4. Len(y) = w + t
      BY ONLY <3>2, <3>3, B \in Nat \ {0}
    <3> QED BY ONLY <3>1, <3>4
  <2> QED BY <1>2, <1>6, <2>1 DEF IsDivision
<1>9. first \in [1 .. B -> V] /\ first = [i \in 1 .. B |-> y[p + i]]
  <2>1. SubSeq(x, 1, B - r) = [j \in 1 .. B - r |-> x[j]] /\ B - r \in Nat /\ B - r <= Len(x)
    BY <1>2, <1>4
  <2>2. /\ DOMAIN SubSeq(x, 1, B - r) = 1 .. B - r
        /\ \A j \in 1 .. B - r : SubSeq(x, 1, B - r)[j] = x[j]
    BY <2>1
  <2>3. first = [i \in 1 .. B |-> IF i - r \in 1 .. B - r THEN SubSeq(x, 1, B - r)[i - r]
                                  ELSE buffer[i]]
    BY <2>2 DEF Stream!Put
  <2>4. buffer \in [1 .. B -> V] /\ \A i \in 1 .. r : buffer[i] = m[p + i]
    BY <1>1 DEF Absorbs
  <2>5. ASSUME NEW i \in 1 .. B PROVE first[i] = y[p + i] /\ y[p + i] \in V
    <3>1. CASE i <= r
      <4>1. first[i] = m[p + i] /\ p + i \in 1 .. p + r
        BY <1>2, <2>3, <2>4, <3>1
      <4> QED BY <1>4, <2>3, <2>4, <3>1, <4>1
    <3>2. CASE i > r
      <4>1. i - r \in 1 .. B - r /\ i - r \in 1 .. Len(x) /\ p + r + (i - r) = p + i
        BY <1>2, <2>1, <3>2
      <4>2. first[i] = x[i - r] /\ y[p + i] = x[i - r]
        BY <1>4, <2>2, <2>3, <4>1
      <4> QED BY <4>1, <4>2
    <3> QED BY <1>2, <3>1, <3>2
  <2>6. DOMAIN first = 1 .. B
    BY <2>3
  <2>7. first = [i \in 1 .. B |-> first[i]]
    BY <2>3
  <2> HIDE DEF first
  <2> QED BY <2>5, <2>7
<1>10. IsCut(Stream!Cut(rest), rest, V) /\ Len(rest) \div B = s
  <2>1. Len(rest) \in Nat
    BY <1>5
  <2>2. IsCut(Stream!Cut(rest), rest, V)
    BY <1>5, CutIsCut
  <2>3. Len(rest) \div B = s
    BY ONLY <2>1, IsDivision(Len(rest), B, s, t), B \in Nat \ {0}, DivisionIs
  <2> QED BY <2>2, <2>3
<1>11. Len(y) \div B = q + 1 + s /\ Len(m) \div B = q
  <2>1. Len(y) \in Nat /\ Len(m) \in Nat
    BY <1>4
  <2> QED BY <1>8, <2>1, DivisionIs DEF Absorbs
<1>12. IsCut(all, y, V)
  <2>1. PICK c1 : c1 = Stream!Cut(rest)
    OBVIOUS
  <2>2. /\ blocks \in Seq([1 .. B -> V]) /\ Len(blocks) = q
        /\ \A k \in 1 .. q : blocks[k] = BlockOf(m, k)
    BY <1>11 DEF Absorbs, IsCut
  <2>3. /\ c1 \in Seq([1 .. B -> V]) /\ Len(c1) = s
        /\ \A k \in 1 .. s : c1[k] = BlockOf(rest, k)
    BY <1>10, <2>1 DEF IsCut
  <2>4. PICK f : f = first
    OBVIOUS
  <2>5. f \in [1 .. B -> V] /\ f = [i \in 1 .. B |-> y[p + i]]
    BY <1>9, <2>4
  <2>6. all = blocks \o <<f>> \o c1
    BY <2>1, <2>4
  <2> HIDE DEF all, first
  <2>7. /\ all \in Seq([1 .. B -> V]) /\ Len(all) = q + 1 + s
        /\ \A k \in 1 .. q : all[k] = blocks[k]
        /\ all[q + 1] = f
        /\ \A k \in 1 .. s : all[q + 1 + k] = c1[k]
    <3>1. PICK X : X = [1 .. B -> V]
      OBVIOUS
    <3>2. blocks \in Seq(X)
      BY ONLY <2>2, <3>1
    <3>3. c1 \in Seq(X)
      BY ONLY <2>3, <3>1
    <3>4. f \in X
      BY ONLY <2>5, <3>1
    <3>5. Len(blocks) = q /\ Len(c1) = s
      BY <2>2, <2>3
    <3>6. /\ all \in Seq(X) /\ Len(all) = q + 1 + s
          /\ \A k \in 1 .. q : all[k] = blocks[k]
          /\ all[q + 1] = f
          /\ \A k \in 1 .. s : all[q + 1 + k] = c1[k]
      <4>1. /\ all \in Seq(X) /\ Len(all) = Len(blocks) + 1 + Len(c1)
            /\ \A k \in 1 .. Len(blocks) : all[k] = blocks[k]
            /\ all[Len(blocks) + 1] = f
            /\ \A k \in 1 .. Len(c1) : all[Len(blocks) + 1 + k] = c1[k]
        BY ONLY <2>6, <3>2, <3>3, <3>4, JoinedAround
      <4> QED BY ONLY <3>5, <4>1
    <3> QED BY ONLY <3>1, <3>6
  <2>8. /\ \A k \in 1 .. q : all[k] = blocks[k]
        /\ all[q + 1] = f
        /\ \A k \in 1 .. s : all[q + 1 + k] = c1[k]
    BY <2>7
  <2>9. ASSUME NEW k \in 1 .. q PROVE BlockOf(m, k) = BlockOf(y, k)
    <3>1. \A i \in 1 .. B : (k - 1) * B + i \in 1 .. q * B
      BY <1>2, PlaceInBlocks
    <3>2. \A j \in 1 .. q * B : y[j] = m[j]
      BY <1>1, <1>2, <1>4
    <3> QED BY <3>1, <3>2 DEF BlockOf
  <2>10. BlockOf(y, q + 1) = f
    <3>1. (q + 1) - 1 = q
      BY <1>2
    <3> QED BY <1>1, <2>5, <3>1 DEF BlockOf
  <2>11. ASSUME NEW k \in 1 .. s PROVE BlockOf(y, q + 1 + k) = BlockOf(rest, k)
    <3>1. PICK u : u = (k - 1) * B
      OBVIOUS
    <3>2. \A i \in 1 .. B : u + i \in 1 .. s * B
      BY <1>6, <3>1, PlaceInBlocks
    <3>3. ((q + 1 + k) - 1) * B = (p + B) + u
      <4>1. PICK v : v = k - 1
        OBVIOUS
      <4>2. v \in Nat /\ (q + 1 + k) - 1 = q + 1 + v
        BY <1>2, <1>6, <4>1
      <4>3. (q + 1 + v) * B = (q * B + B) + v * B
        BY ONLY <1>2, <4>2, B \in Nat \ {0}
      <4> QED BY <1>1, <3>1, <4>1, <4>2, <4>3
    <3>4. u \in Nat
      <4>1. k - 1 \in Nat
        BY <1>6
      <4> QED BY <3>1, <4>1
    <3>5. ASSUME NEW i \in 1 .. B PROVE y[((p + B) + u) + i] = rest[u + i]
      <4>1. u + i \in 1 .. Len(rest) /\ ((p + B) + u) + i = (p + B) + (u + i)
        <5>1. u + i \in 1 .. s * B
          BY <3>2
        <5> QED BY ONLY <1>2, <1>6, <1>7, <3>4, <5>1, B \in Nat \ {0}, i \in 1 .. B
      <4> QED BY <1>5, <4>1
    <3> QED BY <3>1, <3>3, <3>5 DEF BlockOf
  <2>12. ASSUME NEW k \in 1 .. q + 1 + s PROVE all[k] = BlockOf(y, k)
    <3>1. CASE k <= q
      BY <1>2, <2>2, <2>8, <2>9, <3>1
    <3>2. CASE k = q + 1
      BY <2>8, <2>10, <3>2
    <3>3. CASE k > q + 1
      <4>1. PICK j : j = k - (q + 1)
        OBVIOUS
      <4>2. j \in 1 .. s /\ k = q + 1 + j
        BY <1>2, <1>6, <3>3, <4>1
      <4> QED BY <2>3, <2>8, <2>11, <4>2
    <3> QED BY <1>2, <1>6, <3>1, <3>2, <3>3
  <2> QED BY <1>11, <2>7, <2>12 DEF IsCut
<1>13. ASSUME NEW i \in 1 .. t PROVE buf[i] = y[(q + 1 + s) * B + i]
  <2>1. PICK u : u = s * B
    OBVIOUS
  <2>2. u + i \in 1 .. Len(rest) /\ ((p + B) + u) + i = (p + B) + (u + i)
    BY <1>2, <1>6, <1>7, <2>1
  <2> QED BY <1>5, <1>7, <2>1, <2>2
<1> QED BY <1>3, <1>8, <1>12, <1>13 DEF Absorbs

\* Nothing before a sequence.
LEMMA AfterNothing == ASSUME NEW S, NEW x \in Seq(S) PROVE <<>> \o x = x
OBVIOUS

\* Three sequences may be put together in any order.
LEMMA JoinedTwice ==
    ASSUME NEW S, NEW a \in Seq(S), NEW b \in Seq(S), NEW c1 \in Seq(S)
    PROVE  (a \o b) \o c1 = a \o (b \o c1)
OBVIOUS

\* An empty sequence has no blocks.
LEMMA CutOfNothing == ASSUME B \in Nat \ {0} PROVE Stream!Cut(<<>>) = <<>>
<1>1. IsCut(Stream!Cut(<<>>), <<>>, {})
  <2>1. PICK m : m = <<>>
    OBVIOUS
  <2>2. m \in Seq({})
    BY <2>1
  <2>3. IsCut(Stream!Cut(m), m, {})
    BY ONLY <2>2, B \in Nat \ {0}, CutIsCut
  <2> QED BY <2>1, <2>3
<1>2. Len(<<>>) \div B = 0
  <2>1. IsDivision(0, B, 0, 0) /\ Len(<<>>) = 0
    BY DEF IsDivision
  <2> QED BY <2>1, DivisionIs
<1> QED BY <1>1, <1>2 DEF IsCut

-----------------------------------------------------------------------------
(* md5.c *)

Md5Is(c1, m, V) ==
    /\ Count(c1.low, c1.high, Len(m))
    /\ \E q, r : Absorbs(c1.blocks, c1.buffer, m, V, q, r)

\* The bytes of messages and of their padding are in V.
IsBytes(V) ==
    /\ Stream!One \in V /\ Stream!Zero \in V
    /\ \A v \in Nat : Stream!Word(v) \in V /\ <<"message", v>> \in V

\* Nothing has been absorbed to begin with.
LEMMA AbsorbsNothing ==
    ASSUME B \in Nat \ {0}, NEW V, Stream!Zero \in V
    PROVE  Absorbs(<<>>, Stream!Copies(Stream!Zero, B), <<>>, V, 0, 0)
<1>1. IsDivision(Len(<<>>), B, 0, 0)
  BY DEF IsDivision
<1>2. IsCut(<<>>, <<>>, V)
  <2>1. PICK m : m = <<>>
    OBVIOUS
  <2>2. m \in Seq(V)
    BY <2>1
  <2>3. IsCut(Stream!Cut(m), m, V)
    BY ONLY <2>2, B \in Nat \ {0}, CutIsCut
  <2> QED BY <2>1, <2>3, CutOfNothing
<1>3. Stream!Copies(Stream!Zero, B) \in [1 .. B -> V]
  BY DEF Stream!Copies
<1> QED BY <1>1, <1>2, <1>3 DEF Absorbs

LEMMA Md5InitIs ==
    ASSUME Stream!StreamAssumption, NEW V, IsBytes(V) PROVE Md5Is(Stream!Md5Init, <<>>, V)
<1>1. M \in Nat \ {0} /\ B \in Nat \ {0}
  BY WordsAreBlocks
<1>2. 0 % M = 0 /\ 0 \div M = 0 /\ 8 * Len(<<>>) = 0
  <2>1. IsDivision(0, M, 0, 0)
    BY <1>1 DEF IsDivision
  <2>2. 0 \div M = 0 /\ 0 % M = 0
    BY ONLY <1>1, <2>1, 0 \in Nat, DivisionIs
  <2> QED BY <2>2
<1>3. Absorbs(<<>>, Stream!Copies(Stream!Zero, B), <<>>, V, 0, 0)
  BY <1>1, AbsorbsNothing DEF IsBytes
<1> QED BY <1>2, <1>3 DEF Count, Md5Is, Stream!Md5Init

\* __md5_update__ absorbs its input.
LEMMA Md5UpdateAbsorbs ==
    ASSUME Stream!StreamAssumption, NEW V, NEW m \in Seq(V), NEW x \in Seq(V), NEW c1,
           Md5Is(c1, m, V)
    PROVE  Md5Is(Stream!Md5Update(c1, x), m \o x, V)
<1>1. B \in Nat \ {0} /\ M \in Nat \ {0}
  BY WordsAreBlocks
<1>2. PICK q, r : Absorbs(c1.blocks, c1.buffer, m, V, q, r)
  BY DEF Md5Is
<1>3. PICK n, low, bits, high :
        /\ n = Len(x) /\ bits = (n * 8) % M /\ low = (c1.low + bits) % M
        /\ high = (c1.high + Stream!Carry(low, bits) + n \div (M \div 8)) % M
  OBVIOUS
<1>4. n \in Nat /\ Len(m) \in Nat /\ Len(m \o x) = Len(m) + n
  BY <1>3
<1>5. Count(low, high, Len(m \o x))
  <2>1. Count(c1.low, c1.high, Len(m))
    BY DEF Md5Is
  <2>2. WordsAdd(c1.low, c1.high, n, bits, low, high)
    BY <1>3 DEF WordsAdd
  <2>3. n \in Nat
    BY <1>4
  <2>4. Len(m) \in Nat
    BY <1>4
  <2>5. Count(low, high, Len(m) + n)
    BY ONLY Stream!StreamAssumption, <2>1, <2>2, <2>3, <2>4, WordsCount
  <2> QED BY <1>4, <2>5
<1>6. (c1.low \div 8) % B = r
  <2>1. (((8 * Len(m)) % M) \div 8) % B = Len(m) % B
    BY <1>4, LowWordIsPlace
  <2>2. Len(m) % B = r
    <3>1. IsDivision(Len(m), B, q, r)
      BY <1>2 DEF Absorbs
    <3> QED BY ONLY <1>1, <1>4, <3>1, DivisionIs
  <2> QED BY <2>1, <2>2 DEF Md5Is, Count
<1>7. q \in Nat /\ r \in 0 .. B - 1 /\ c1.buffer \in [1 .. B -> V]
  BY <1>2 DEF Absorbs, IsDivision
<1>8. PICK rest, first, s, t, whole :
        /\ rest = SubSeq(x, B - r + 1, n) /\ first = Stream!Put(c1.buffer, r, SubSeq(x, 1, B - r))
        /\ s = Len(rest) \div B /\ t = Len(rest) % B /\ whole = s * B
  OBVIOUS
<1>9. PICK u : u = Stream!Md5Update(c1, x)
  OBVIOUS
<1>10. /\ u.low = low /\ u.high = high
       /\ u.buffer = IF n >= B - r THEN Stream!Put(first, 0, SubSeq(rest, whole + 1, Len(rest)))
                     ELSE Stream!Put(c1.buffer, r, x)
       /\ u.blocks = IF n >= B - r THEN c1.blocks \o <<first>> \o Stream!Cut(rest) ELSE c1.blocks
  BY <1>3, <1>6, <1>8, <1>9 DEF Stream!Md5Update
<1>11. CASE n < B - r
  <2>1. r + Len(x) < B
    BY <1>1, <1>3, <1>4, <1>7, <1>11
  <2>2. Absorbs(c1.blocks, Stream!Put(c1.buffer, r, x), m \o x, V, q, r + Len(x))
    BY <1>1, <1>2, <2>1, AbsorbsPart
  <2>3. u.buffer = Stream!Put(c1.buffer, r, x) /\ u.blocks = c1.blocks
    BY <1>1, <1>4, <1>7, <1>10, <1>11
  <2> QED BY <1>5, <1>9, <1>10, <2>2, <2>3 DEF Md5Is
<1>12. CASE ~(n < B - r)
  <2>1. r + Len(x) >= B /\ n >= B - r
    BY <1>1, <1>3, <1>4, <1>7, <1>12
  <2>2. rest \in Seq(V) /\ Len(rest) \in Nat
    <3>1. B - r + 1 \in 1 .. Len(x) + 1
      BY <1>1, <1>3, <1>4, <1>7, <2>1
    <3>2. rest \in Seq(V)
      BY <1>3, <1>8, <3>1, EndOf
    <3> QED BY <3>2
  <2>3. IsDivision(Len(rest), B, s, t)
    BY ONLY <1>1, <1>8, <2>2, Division
  <2>4. s \in Nat /\ t \in 0 .. B - 1 /\ whole \in Nat /\ Len(rest) = whole + t
    <3>1. s \in Nat /\ t \in 0 .. B - 1 /\ Len(rest) = s * B + t
      BY <2>3 DEF IsDivision
    <3>2. s * B \in Nat
      BY ONLY <1>1, <3>1
    <3> QED BY ONLY <1>8, <3>1, <3>2
  <2>5. PICK z : z = SubSeq(rest, whole + 1, Len(rest))
    OBVIOUS
  <2>6. z \in Seq(V) /\ Len(z) = t /\ \A j \in 1 .. t : z[j] = rest[whole + j]
    <3>1. PICK a : a = whole + 1
      OBVIOUS
    <3>2. a \in 1 .. Len(rest) + 1 /\ Len(rest) + 1 - a = t /\ a - 1 = whole
      BY ONLY <1>1, <2>4, <3>1
    <3>3. a \in 1 .. Len(rest) + 1
      BY ONLY <3>2
    <3>4. rest \in Seq(V)
      BY <2>2
    <3>5. z = SubSeq(rest, a, Len(rest))
      BY <2>5, <3>1
    <3>6. /\ z \in Seq(V) /\ Len(z) = Len(rest) + 1 - a
          /\ \A j \in 1 .. Len(rest) + 1 - a : z[j] = rest[a - 1 + j]
      BY ONLY <3>3, <3>4, <3>5, EndOf
    <3> QED BY ONLY <3>2, <3>6
  <2>7. first \in [1 .. B -> V]
    <3>1. SubSeq(x, 1, B - r) = [j \in 1 .. B - r |-> x[j]] /\ B - r \in Nat /\ B - r <= Len(x)
      BY <1>1, <1>3, <1>7, <2>1
    <3>2. first = [i \in 1 .. B |-> IF i - r \in 1 .. B - r THEN x[i - r] ELSE c1.buffer[i]]
      BY <1>8, <3>1 DEF Stream!Put
    <3>3. \A j \in 1 .. B - r : x[j] \in V
      BY <3>1
    <3> QED BY <1>7, <3>2, <3>3
  <2>8. PICK buf : buf = Stream!Put(first, 0, z)
    OBVIOUS
  <2>9. buf \in [1 .. B -> V] /\ \A i \in 1 .. t : buf[i] = rest[s * B + i]
    <3>1. DOMAIN z = 1 .. t /\ \A j \in 1 .. t : z[j] \in V
      BY <2>4, <2>6
    <3>2. buf = [i \in 1 .. B |-> IF i - 0 \in 1 .. t THEN z[i - 0] ELSE first[i]]
      BY <2>8, <3>1 DEF Stream!Put
    <3>3. buf \in [1 .. B -> V]
      BY <2>7, <3>1, <3>2
    <3>4. \A i \in 1 .. t : i \in 1 .. B /\ i - 0 = i
      BY <1>1, <2>4
    <3>5. \A i \in 1 .. t : buf[i] = z[i]
      BY <3>2, <3>4
    <3> QED BY <1>8, <2>6, <3>3, <3>5
  <2>10. Absorbs(c1.blocks \o <<first>> \o Stream!Cut(rest), buf, m \o x, V, q + 1 + s, t)
    <3>1. r + Len(x) >= B
      BY <2>1
    <3>2. rest = SubSeq(x, B - r + 1, Len(x))
      BY <1>3, <1>8
    <3>3. buf \in [1 .. B -> V]
      BY <2>9
    <3>4. \A i \in 1 .. t : buf[i] = rest[s * B + i]
      BY <2>9
    <3>5. B \in Nat \ {0}
      BY <1>1
    <3>6. Absorbs(c1.blocks \o <<Stream!Put(c1.buffer, r, SubSeq(x, 1, B - r))>>
                    \o Stream!Cut(rest), buf, m \o x, V, q + 1 + s, t)
      BY ONLY <1>2, <2>3, <3>1, <3>2, <3>3, <3>4, <3>5, m \in Seq(V), x \in Seq(V), AbsorbsBlocks
    <3> QED BY <1>8, <3>6
  <2>11. u.buffer = buf /\ u.blocks = c1.blocks \o <<first>> \o Stream!Cut(rest)
    BY <1>10, <2>1, <2>5, <2>8
  <2> QED BY <1>5, <1>9, <1>10, <2>10, <2>11 DEF Md5Is
<1> QED BY <1>11, <1>12

\* What follows a message whose last r bytes are no block, in the standards.
Trailer(r, end) == <<Stream!One>> \o Stream!Copies(Stream!Zero, (2 * B - 3 - r) % B) \o end

\* The number of zeros.
LEMMA ZerosFill ==
    ASSUME B \in Nat \ {0, 1, 2}, NEW r \in 0 .. B - 1
    PROVE  (2 * B - 3 - r) % B = IF r <= B - 3 THEN B - 3 - r ELSE 2 * B - 3 - r
<1>1. CASE r <= B - 3
  <2>1. PICK a, z : a = 2 * B - 3 - r /\ z = B - 3 - r
    OBVIOUS
  <2>2. a \in Nat /\ IsDivision(a, B, 1, z)
    BY <1>1, <2>1 DEF IsDivision
  <2> QED BY <1>1, <2>1, <2>2, DivisionIs
<1>2. CASE ~(r <= B - 3)
  <2>1. PICK a : a = 2 * B - 3 - r
    OBVIOUS
  <2>2. a \in Nat /\ IsDivision(a, B, 0, a)
    BY <1>2, <2>1 DEF IsDivision
  <2> QED BY <1>2, <2>1, <2>2, DivisionIs
<1> QED BY <1>1, <1>2

\* m with its padding and that end is m followed by a trailer.
PaddedBy(m, end, r, V) ==
    /\ Stream!Padded(m, end) = m \o Trailer(r, end) /\ Trailer(r, end) \in Seq(V)
    /\ <<Stream!One>> \o Stream!Copies(Stream!Zero, (2 * B - 3 - r) % B) \in Seq(V)

\* So is every message.
LEMMA PaddedIs ==
    ASSUME Stream!StreamAssumption, NEW V, IsBytes(V), NEW m \in Seq(V), NEW end \in Seq(V),
           NEW q, NEW r, IsDivision(Len(m), B, q, r)
    PROVE  PaddedBy(m, end, r, V)
<1>1. B \in Nat \ {0, 1, 2} /\ Stream!L = 2
  BY WordsAreBlocks
<1>2. r \in 0 .. B - 1 /\ Len(m) % B = r
  <2>1. Len(m) \in Nat
    OBVIOUS
  <2> QED BY <1>1, <2>1, DivisionIs DEF IsDivision
<1>3. PICK z : z = (2 * B - 3 - r) % B
  OBVIOUS
<1>4. z \in Nat
  BY <1>1, <1>2, <1>3, ZerosFill
<1>5. PICK o, zs : o = <<Stream!One>> /\ zs = Stream!Copies(Stream!Zero, z)
  OBVIOUS
<1>6. o \in Seq(V) /\ zs \in Seq(V)
  BY <1>4, <1>5 DEF IsBytes, Stream!Copies
<1>7. 2 * B - Stream!L - 1 - (Len(m) % B) = 2 * B - 3 - r
  BY <1>1, <1>2
<1>8. Stream!Padded(m, end) = ((m \o o) \o zs) \o end
  BY <1>3, <1>5, <1>7 DEF Stream!Padded
<1>9. Trailer(r, end) = (o \o zs) \o end
  BY <1>3, <1>5 DEF Trailer
<1>10. m \o o \in Seq(V) /\ o \o zs \in Seq(V) /\ (o \o zs) \o end \in Seq(V)
  BY ONLY <1>6, m \in Seq(V), end \in Seq(V)
<1>11. ((m \o o) \o zs) \o end = m \o ((o \o zs) \o end)
  <2>1. (m \o o) \o zs = m \o (o \o zs)
    BY ONLY <1>6, m \in Seq(V), JoinedTwice
  <2>2. PICK y : y = o \o zs
    OBVIOUS
  <2>3. y \in Seq(V)
    BY <1>10, <2>2
  <2>4. (m \o y) \o end = m \o (y \o end)
    BY ONLY <2>3, m \in Seq(V), end \in Seq(V), JoinedTwice
  <2> QED BY <2>1, <2>2, <2>4
<1> QED BY <1>3, <1>5, <1>8, <1>9, <1>10, <1>11 DEF PaddedBy

\* 0x80 and zeros.
LEMMA MarkAndZeros ==
    ASSUME NEW k \in Nat
    PROVE  <<Stream!One>> \o Stream!Copies(Stream!Zero, k)
             = [i \in 1 .. k + 1 |-> IF i = 1 THEN Stream!One ELSE Stream!Zero]
<1>1. PICK a, o, z : a = Stream!One /\ o = Stream!Zero /\ z = Stream!Copies(o, k)
  OBVIOUS
<1>2. z = [i \in 1 .. k |-> o] /\ z \in Seq({o}) /\ Len(z) = k
  BY <1>1 DEF Stream!Copies
<1>3. <<a>> \o z = [i \in 1 .. k + 1 |-> IF i = 1 THEN a ELSE o]
  BY <1>2
<1> QED BY <1>1, <1>3

\* Where the buffer ends: md5.c line 23.
LEMMA Md5Place ==
    ASSUME Stream!StreamAssumption, NEW V, NEW m \in Seq(V), NEW c1, Md5Is(c1, m, V), NEW q, NEW r,
           IsDivision(Len(m), B, q, r)
    PROVE  (c1.low \div 8) % B = r
<1>1. B \in Nat \ {0} /\ Len(m) \in Nat
  BY WordsAreBlocks
<1>2. (((8 * Len(m)) % M) \div 8) % B = Len(m) % B
  BY <1>1, LowWordIsPlace
<1>3. Len(m) % B = r
  BY ONLY <1>1, IsDivision(Len(m), B, q, r), DivisionIs
<1> QED BY <1>2, <1>3 DEF Md5Is, Count

\* __md5_finalize__ has absorbed what RFC 1321 asks for.
LEMMA Md5FinalAbsorbs ==
    ASSUME Stream!StreamAssumption, NEW V, IsBytes(V), NEW m \in Seq(V), NEW c1, Md5Is(c1, m, V)
    PROVE  Stream!Md5Final(c1).blocks = Stream!Cut(Stream!Padded(m, Stream!LowFirst(Len(m))))
<1>1. B \in Nat \ {0, 1, 2} /\ B \in Nat \ {0} /\ Stream!L = 2
  BY WordsAreBlocks
<1>2. PICK q, r : Absorbs(c1.blocks, c1.buffer, m, V, q, r)
  BY DEF Md5Is
<1>3. IsDivision(Len(m), B, q, r)
  BY <1>2 DEF Absorbs
<1>4. (c1.low \div 8) % B = r
  BY <1>3, Md5Place
<1>5. r \in 0 .. B - 1
  BY <1>3 DEF IsDivision
<1>6. PICK z : z = (2 * B - 3 - r) % B
  OBVIOUS
<1>7. z \in 0 .. B - 1 /\ Stream!PadLength(r) = z + 1
  <2>1. z = IF r <= B - 3 THEN B - 3 - r ELSE 2 * B - 3 - r
    BY ONLY <1>1, <1>5, <1>6, ZerosFill
  <2>2. Stream!PadLength(r) = IF r < B - 2 THEN B - 2 - r ELSE 2 * B - 2 - r
    BY <1>1 DEF Stream!PadLength
  <2> QED BY ONLY <1>1, <1>5, <2>1, <2>2
<1>8. PICK pad, end : /\ pad = <<Stream!One>> \o Stream!Copies(Stream!Zero, z)
                      /\ end = Stream!LowFirst(Len(m))
  OBVIOUS
<1>9. end \in Seq(V) /\ end = <<Stream!Word(c1.low), Stream!Word(c1.high)>>
  <2>1. c1.low = (8 * Len(m)) % M /\ c1.high = ((8 * Len(m)) \div M) % M
    BY DEF Md5Is, Count
  <2>2. c1.low \in Nat /\ c1.high \in Nat
    <3>1. PICK n : n = 8 * Len(m)
      OBVIOUS
    <3>2. M \in Nat \ {0}
      BY WordsAreBlocks
    <3>3. n \in Nat
      BY <3>1
    <3>4. n % M \in Nat /\ n \div M \in Nat
      BY ONLY <3>2, <3>3
    <3>5. (n \div M) % M \in Nat
      BY ONLY <3>2, <3>4
    <3> QED BY ONLY <2>1, <3>1, <3>4, <3>5
  <2>3. end = <<Stream!Word(c1.low), Stream!Word(c1.high)>>
    BY <1>8, <2>1 DEF Stream!LowFirst
  <2>4. Stream!Word(c1.low) \in V /\ Stream!Word(c1.high) \in V
    BY <2>2 DEF IsBytes
  <2> QED BY <2>3, <2>4
<1>10. SubSeq(<<Stream!One>> \o Stream!Copies(Stream!Zero, B - 1), 1, z + 1) = pad
  <2>1. PICK a, o : a = Stream!One /\ o = Stream!Zero
    OBVIOUS
  <2>2. pad = [i \in 1 .. z + 1 |-> IF i = 1 THEN a ELSE o]
    <3>1. PICK k \in Nat : k = z
      BY <1>7
    <3> QED BY <1>8, <2>1, <3>1, MarkAndZeros
  <2>3. PICK p : p = <<Stream!One>> \o Stream!Copies(Stream!Zero, B - 1)
    OBVIOUS
  <2>4. PICK k \in Nat : k = B - 1
    BY <1>1
  <2>5. p = [i \in 1 .. k + 1 |-> IF i = 1 THEN a ELSE o]
    BY <2>1, <2>3, <2>4, MarkAndZeros
  <2>6. z \in Nat /\ z <= k
    BY <1>1, <1>7, <2>4
  <2>7. SubSeq(p, 1, z + 1) = [i \in 1 .. z + 1 |-> p[i]]
    BY ONLY <2>5, <2>6, k \in Nat
  <2>8. \A i \in 1 .. z + 1 : p[i] = IF i = 1 THEN a ELSE o
    BY ONLY <2>5, <2>6, k \in Nat
  <2> QED BY <2>2, <2>3, <2>7, <2>8
<1>11. PICK c2 : c2 = Stream!Md5Update(c1, pad)
  OBVIOUS
<1>12. Stream!Md5Final(c1) = Stream!Md5Update(c2, end)
  BY <1>4, <1>7, <1>9, <1>10, <1>11 DEF Stream!Md5Final
<1>13. /\ Stream!Padded(m, end) = m \o Trailer(r, end)
       /\ pad \in Seq(V) /\ Trailer(r, end) = pad \o end
  <2>1. end \in Seq(V)
    BY <1>9
  <2>2. PaddedBy(m, end, r, V)
    BY ONLY Stream!StreamAssumption, IsBytes(V), m \in Seq(V), <1>3, <2>1, PaddedIs
  <2> QED BY <1>6, <1>8, <2>2 DEF PaddedBy, Trailer
<1>14. Md5Is(c2, m \o pad, V)
  BY <1>11, <1>13, Md5UpdateAbsorbs
<1>15. PICK mp : mp = m \o pad
  OBVIOUS
<1>16. mp \in Seq(V)
  BY <1>13, <1>15
<1>17. Md5Is(Stream!Md5Update(c2, end), mp \o end, V)
  BY <1>9, <1>14, <1>15, <1>16, Md5UpdateAbsorbs
<1>18. mp \o end = Stream!Padded(m, end)
  <2>1. (m \o pad) \o end = m \o (pad \o end)
    BY <1>9, <1>13, JoinedTwice
  <2> QED BY <1>13, <1>15, <2>1
<1>19. IsCut(Stream!Md5Final(c1).blocks, mp \o end, V)
  BY <1>12, <1>17 DEF Md5Is, Absorbs
<1>20. mp \o end \in Seq(V)
  BY <1>9, <1>16
<1>21. Stream!Md5Final(c1).blocks = Stream!Cut(mp \o end)
  BY <1>1, <1>19, <1>20, OneCut
<1> QED BY <1>8, <1>18, <1>21

-----------------------------------------------------------------------------
(* sha256.c *)

Contexts(V) ==
    [bits : Nat, fill : 0 .. B - 1, block : [1 .. B -> V], blocks : Seq([1 .. B -> V])]

ShaIs(c1, m, V) ==
    /\ c1 \in Contexts(V)
    /\ \E q : /\ Absorbs(c1.blocks, c1.block, m, V, q, c1.fill)
              /\ c1.bits = (8 * (q * B)) % (M * M)

\* The bytes up to one and that one.
LEMMA PrefixGrows ==
    ASSUME NEW S, NEW x \in Seq(S), NEW i \in 0 .. Len(x) - 1
    PROVE  /\ SubSeq(x, 1, i) \in Seq(S) /\ x[i + 1] \in S
           /\ SubSeq(x, 1, i + 1) = SubSeq(x, 1, i) \o <<x[i + 1]>>
OBVIOUS

\* All of a sequence, and nothing of it.
LEMMA Whole ==
    ASSUME NEW S, NEW x \in Seq(S) PROVE SubSeq(x, 1, Len(x)) = x /\ SubSeq(x, 1, 0) = <<>>
OBVIOUS

\* Nothing has been absorbed to begin with.
LEMMA ShaInitIs ==
    ASSUME Stream!StreamAssumption, NEW V, Stream!Zero \in V PROVE ShaIs(Stream!ShaInit, <<>>, V)
<1>1. M \in Nat \ {0} /\ B \in Nat \ {0}
  BY WordsAreBlocks
<1>2. Absorbs(<<>>, Stream!Copies(Stream!Zero, B), <<>>, V, 0, 0)
  BY <1>1, AbsorbsNothing
<1>3. Stream!ShaInit \in Contexts(V)
  BY <1>1, <1>2 DEF Stream!ShaInit, Contexts, Absorbs
<1>4. (8 * (0 * B)) % (M * M) = 0
  <2>1. PICK p : p = M * M
    OBVIOUS
  <2>2. p \in Nat \ {0} /\ 8 * (0 * B) = 0
    BY <1>1, <2>1
  <2>3. 0 % p = 0
    <3>1. IsDivision(0, p, 0, 0)
      BY <2>2 DEF IsDivision
    <3> QED BY ONLY <2>2, <3>1, 0 \in Nat, DivisionIs
  <2> QED BY <2>1, <2>2, <2>3
<1> QED BY <1>2, <1>3, <1>4 DEF ShaIs, Stream!ShaInit

\* One byte more.
LEMMA ShaByteIs ==
    ASSUME Stream!StreamAssumption, NEW V, NEW c1 \in Contexts(V), NEW x \in V
    PROVE  /\ Stream!ShaByte(c1, x) \in Contexts(V)
           /\ \A m \in Seq(V) : ShaIs(c1, m, V) => ShaIs(Stream!ShaByte(c1, x), m \o <<x>>, V)
<1>1. M \in Nat \ {0} /\ B \in Nat \ {0}
  BY WordsAreBlocks
<1>2. PICK p : p = M * M
  OBVIOUS
<1>3. p \in Nat \ {0}
  BY <1>1, <1>2
<1>4. PICK r, one, buf : r = c1.fill /\ one = <<x>> /\ buf = Stream!Put(c1.block, r, one)
  OBVIOUS
<1>5. /\ r \in 0 .. B - 1 /\ c1.block \in [1 .. B -> V] /\ c1.bits \in Nat
      /\ c1.blocks \in Seq([1 .. B -> V])
      /\ c1 = [bits |-> c1.bits, fill |-> r, block |-> c1.block, blocks |-> c1.blocks]
  BY <1>4 DEF Contexts
<1>6. one \in Seq(V) /\ Len(one) = 1 /\ one[1] = x
  BY <1>4
<1>7. buf \in [1 .. B -> V]
  <2>1. buf = [i \in 1 .. B |-> IF i - r \in 1 .. 1 THEN one[i - r] ELSE c1.block[i]]
    <3>1. DOMAIN one = 1 .. 1
      BY <1>6
    <3> QED BY <1>4, <3>1 DEF Stream!Put
  <2>2. \A j \in 1 .. 1 : one[j] \in V
    BY <1>6
  <2> QED BY <1>5, <2>1, <2>2
<1>8. CASE r + 1 = B
  <2>1. PICK bits : bits = (c1.bits + 8 * B) % p
    OBVIOUS
  <2>2. bits \in Nat
    BY <1>1, <1>3, <1>5, <2>1
  <2>3. PICK all : all = Append(c1.blocks, buf)
    OBVIOUS
  <2>4. all \in Seq([1 .. B -> V])
    BY <1>5, <1>7, <2>3
  <2>5. Stream!ShaByte(c1, x) = [bits |-> bits, fill |-> 0, block |-> buf, blocks |-> all]
    BY <1>2, <1>4, <1>5, <1>8, <2>1, <2>3 DEF Stream!ShaByte, Stream!Absorbed
  <2>6. Stream!ShaByte(c1, x) \in Contexts(V)
    BY <1>1, <1>7, <2>2, <2>4, <2>5 DEF Contexts
  <2>7. ASSUME NEW m \in Seq(V), ShaIs(c1, m, V)
        PROVE  ShaIs(Stream!ShaByte(c1, x), m \o one, V)
    <3>1. PICK q : Absorbs(c1.blocks, c1.block, m, V, q, r) /\ c1.bits = (8 * (q * B)) % p
      BY <1>2, <1>4, <2>7 DEF ShaIs
    <3>2. PICK rest : rest = SubSeq(one, B - r + 1, Len(one))
      OBVIOUS
    <3>3. rest = <<>> /\ SubSeq(one, 1, B - r) = one
      <4>1. B - r = 1 /\ B - r + 1 = 2
        BY <1>1, <1>5, <1>8
      <4>2. one \in Seq(V)
        BY <1>6
      <4>3. SubSeq(one, 1, Len(one)) = one
        BY ONLY <4>2, Whole
      <4>4. PICK k : k = 2
        OBVIOUS
      <4>5. k \in 1 .. Len(one) + 1
        BY <1>6, <4>4
      <4>6. SubSeq(one, k, Len(one)) \in Seq(V) /\ Len(SubSeq(one, k, Len(one))) = Len(one) + 1 - k
        BY ONLY <4>2, <4>5, EndOf
      <4>7. SubSeq(one, k, Len(one)) = <<>>
        BY <1>6, <4>4, <4>6
      <4> QED BY <1>6, <3>2, <4>1, <4>3, <4>4, <4>7
    <3>4. IsDivision(Len(rest), B, 0, 0)
      BY <1>1, <3>3 DEF IsDivision
    <3>5. \A i \in 1 .. 0 : buf[i] = rest[0 * B + i]
      OBVIOUS
    <3>6. r + Len(one) >= B
      BY <1>1, <1>5, <1>6, <1>8
    <3>7. Absorbs(c1.blocks \o <<Stream!Put(c1.block, r, SubSeq(one, 1, B - r))>>
                    \o Stream!Cut(rest), buf, m \o one, V, q + 1 + 0, 0)
      BY ONLY <1>1, <1>6, <1>7, <3>1, <3>2, <3>4, <3>5, <3>6, m \in Seq(V), AbsorbsBlocks
    <3>8. c1.blocks \o <<buf>> \o Stream!Cut(rest) = all
      <4>1. Stream!Cut(rest) = <<>>
        BY <1>1, <3>3, CutOfNothing
      <4> QED BY <1>5, <1>7, <2>3, <4>1
    <3>9. q \in Nat /\ q + 1 + 0 = q + 1
      BY <3>1 DEF Absorbs, IsDivision
    <3>10. Absorbs(all, buf, m \o one, V, q + 1, 0)
      BY <1>4, <3>3, <3>7, <3>8, <3>9
    <3>11. bits = (8 * ((q + 1) * B)) % p
      <4>1. PICK a, k : a = 8 * (q * B) /\ k = 8 * B
        OBVIOUS
      <4>2. a \in Nat /\ k \in Nat
        BY ONLY <1>1, <3>9, <4>1
      <4>3. PICK s, e : s = a \div p /\ e = a % p
        OBVIOUS
      <4>4. (c1.bits + k) % p = (a + k) % p
        <5>1. a \in Nat
          BY <4>2
        <5>2. k \in Nat
          BY <4>2
        <5>3. IsDivision(a, p, s, e)
          BY ONLY <1>3, <4>3, <5>1, Division
        <5>4. (e + k) % p = (a + k) % p
          BY ONLY <1>3, <5>1, <5>2, <5>3, SumCut
        <5> QED BY <3>1, <4>1, <4>3, <5>4
      <4>5. a + k = 8 * ((q + 1) * B)
        <5>1. PICK y : y = q * B
          OBVIOUS
        <5>2. y \in Nat /\ (q + 1) * B = y + B
          BY ONLY <1>1, <3>9, <5>1
        <5> QED BY ONLY <1>1, <4>1, <5>1, <5>2
      <4> QED BY <2>1, <4>1, <4>4, <4>5
    <3> QED BY <1>2, <2>5, <2>6, <3>10, <3>11 DEF ShaIs
  <2> QED BY <1>4, <2>6, <2>7
<1>9. CASE r + 1 # B
  <2>1. Stream!ShaByte(c1, x)
          = [bits |-> c1.bits, fill |-> r + 1, block |-> buf, blocks |-> c1.blocks]
    BY <1>4, <1>5, <1>9 DEF Stream!ShaByte
  <2>2. r + 1 \in 0 .. B - 1
    BY <1>1, <1>5, <1>9
  <2>3. Stream!ShaByte(c1, x) \in Contexts(V)
    BY <1>5, <1>7, <2>1, <2>2 DEF Contexts
  <2>4. ASSUME NEW m \in Seq(V), ShaIs(c1, m, V)
        PROVE  ShaIs(Stream!ShaByte(c1, x), m \o one, V)
    <3>1. PICK q : Absorbs(c1.blocks, c1.block, m, V, q, r) /\ c1.bits = (8 * (q * B)) % (M * M)
      BY <1>4, <2>4 DEF ShaIs
    <3>2. r + Len(one) < B
      BY <1>1, <1>6, <2>2
    <3>3. Absorbs(c1.blocks, buf, m \o one, V, q, r + Len(one))
      BY <1>1, <1>4, <1>6, <3>1, <3>2, AbsorbsPart
    <3> QED BY <1>6, <2>1, <2>3, <3>1, <3>3 DEF ShaIs
  <2> QED BY <1>4, <2>3, <2>4
<1> QED BY <1>8, <1>9

\* sha256_update absorbs its input, byte by byte.
LEMMA ShaUpdateIs ==
    ASSUME Stream!StreamAssumption, NEW V, NEW m \in Seq(V), NEW x \in Seq(V), NEW c1,
           ShaIs(c1, m, V)
    PROVE  ShaIs(Stream!ShaUpdate(c1, x), m \o x, V)
<1>1. PICK n : n = Len(x)
  OBVIOUS
<1>2. n \in Nat /\ \A i \in 1 .. n : x[i] \in V
  BY <1>1
<1>3. c1 \in Contexts(V)
  BY DEF ShaIs
<1> DEFINE X == Contexts(V)
           step == [i \in 1 .. n |-> [y \in X |-> Stream!ShaByte(y, x[i])]]
           All(f) == f = [i \in 0 .. n |-> IF i = 0 THEN c1 ELSE Stream!ShaByte(f[i - 1], x[i])]
           u == CHOOSE f : All(f)
<1>4. IsStep(step, n, X)
  BY <1>2, ShaByteIs DEF IsStep
<1>5. PICK g : Computes(g, n, X, c1, step)
  <2> HIDE DEF step, X
  <2>1. c1 \in X
    BY <1>3 DEF X
  <2> QED BY <1>2, <1>4, <2>1, RecursiveFunctionExists
<1>6. g \in [0 .. n -> X] /\ g[0] = c1 /\ \A i \in 1 .. n : g[i] = Stream!ShaByte(g[i - 1], x[i])
  <2>1. g \in [0 .. n -> X] /\ g[0] = c1 /\ \A i \in 1 .. n : g[i] = step[i][g[i - 1]]
    <3> HIDE DEF step, X
    <3> QED BY <1>5 DEF Computes
  <2>2. \A i \in 1 .. n : g[i - 1] \in X
    <3> HIDE DEF X
    <3> QED BY <1>2, <2>1
  <2> QED BY <2>1, <2>2
<1>7. All(g)
  <2> HIDE DEF X
  <2> QED BY <1>2, <1>6
<1>8. All(u)
  BY <1>7
<1>9. Stream!ShaUpdate(c1, x) = u[n]
  BY <1>1 DEF Stream!ShaUpdate
<1> HIDE DEF u
<1>10. u[0] = c1 /\ \A i \in 0 .. n - 1 : u[i + 1] = Stream!ShaByte(u[i], x[i + 1])
  <2>1. u[0] = c1
    BY <1>2, <1>8
  <2>2. ASSUME NEW i \in 0 .. n - 1 PROVE u[i + 1] = Stream!ShaByte(u[i], x[i + 1])
    <3>1. i + 1 \in 0 .. n /\ i + 1 # 0 /\ (i + 1) - 1 = i
      BY <1>2
    <3> QED BY <1>8, <3>1
  <2> QED BY <2>1, <2>2
<1> DEFINE T == {i \in 0 .. n : ShaIs(u[i], m \o SubSeq(x, 1, i), V)}
<1>11. 0 \in T
  <2>1. m \o SubSeq(x, 1, 0) = m
    BY Whole
  <2>2. ShaIs(u[0], m \o SubSeq(x, 1, 0), V)
    BY <1>10, <2>1
  <2> QED BY <1>2, <2>2
<1>12. ASSUME NEW i \in 0 .. n - 1, i \in T PROVE i + 1 \in T
  <2>1. PICK y, b : y = SubSeq(x, 1, i) /\ b = x[i + 1]
    OBVIOUS
  <2>2. y \in Seq(V) /\ b \in V /\ SubSeq(x, 1, i + 1) = y \o <<b>>
    BY <1>1, <2>1, PrefixGrows
  <2>3. PICK my : my = m \o y
    OBVIOUS
  <2>4. my \in Seq(V) /\ my \o <<b>> = m \o SubSeq(x, 1, i + 1)
    <3>1. my \in Seq(V)
      BY <2>2, <2>3
    <3>2. <<b>> \in Seq(V)
      BY <2>2
    <3>3. (m \o y) \o <<b>> = m \o (y \o <<b>>)
      BY <2>2, <3>2, JoinedTwice
    <3> QED BY <2>2, <2>3, <3>1, <3>3
  <2>5. ShaIs(u[i], my, V)
    BY <1>12, <2>1, <2>3
  <2>6. ShaIs(Stream!ShaByte(u[i], b), my \o <<b>>, V)
    <3>1. u[i] \in Contexts(V)
      BY <2>5 DEF ShaIs
    <3>2. \A k \in Seq(V) : ShaIs(u[i], k, V) => ShaIs(Stream!ShaByte(u[i], b), k \o <<b>>, V)
      BY <2>2, <3>1, ShaByteIs
    <3> QED BY <2>4, <2>5, <3>2
  <2>7. ShaIs(u[i + 1], m \o SubSeq(x, 1, i + 1), V)
    BY <1>10, <2>1, <2>4, <2>6
  <2> QED BY <1>2, <2>7
<1>13. 0 .. n \subseteq T
  <2> HIDE DEF T
  <2> QED BY <1>2, <1>11, <1>12, InductionUpTo
<1>14. ShaIs(u[n], m \o SubSeq(x, 1, n), V)
  BY <1>2, <1>13
<1> QED BY <1>1, <1>9, <1>14, Whole

\* 0x80, z zeros and the two words of a length, by place.
Laid(z, h, l) == [i \in 1 .. z + 3 |-> IF i = 1 THEN Stream!One ELSE IF i <= z + 1 THEN Stream!Zero
                                       ELSE IF i = z + 2 THEN h ELSE l]

\* A trailer is these.
LEMMA TrailerIs ==
    ASSUME NEW h, NEW l, NEW z \in Nat, NEW r, z = (2 * B - 3 - r) % B
    PROVE  Trailer(r, <<h, l>>) = Laid(z, h, l)
<1>0. PICK V : V = {Stream!One, Stream!Zero, h, l}
  OBVIOUS
<1>1. PICK x : x = <<Stream!One>> \o Stream!Copies(Stream!Zero, z)
  OBVIOUS
<1>2. x = [i \in 1 .. z + 1 |-> IF i = 1 THEN Stream!One ELSE Stream!Zero]
  BY <1>1, MarkAndZeros
<1>3. x \in Seq(V) /\ Len(x) = z + 1
  BY <1>0, <1>2
<1>4. PICK y : y = x \o <<h, l>>
  OBVIOUS
<1>5. /\ y \in Seq(V) /\ Len(y) = z + 3
      /\ \A j \in 1 .. z + 1 : y[j] = x[j]
      /\ y[z + 2] = h /\ y[z + 3] = l
  <2>1. PICK e : e = <<h, l>>
    OBVIOUS
  <2>2. e \in Seq(V) /\ Len(e) = 2 /\ e[1] = h /\ e[2] = l
    BY <1>0, <2>1
  <2>3. y = x \o e
    BY <1>4, <2>1
  <2>4. /\ y \in Seq(V) /\ Len(y) = Len(x) + Len(e)
        /\ \A j \in 1 .. Len(x) : y[j] = x[j]
        /\ \A j \in 1 .. Len(e) : y[Len(x) + j] = e[j]
    <3>1. x \in Seq(V)
      BY <1>3
    <3>2. e \in Seq(V)
      BY <2>2
    <3> QED BY ONLY <2>3, <3>1, <3>2, Joined
  <2>5. y[Len(x) + 1] = e[1] /\ y[Len(x) + 2] = e[2]
    BY ONLY <2>2, <2>4
  <2>6. Len(x) + 1 = z + 2 /\ Len(x) + 2 = z + 3
    BY <1>3
  <2> QED BY ONLY <1>3, <2>2, <2>4, <2>5, <2>6, z \in Nat
<1>6. y = [i \in 1 .. z + 3 |-> y[i]]
  BY <1>5
<1>7. \A i \in 1 .. z + 3 : y[i] = IF i = 1 THEN Stream!One
                                   ELSE IF i <= z + 1 THEN Stream!Zero
                                   ELSE IF i = z + 2 THEN h ELSE l
  <2> SUFFICES ASSUME NEW i \in 1 .. z + 3
               PROVE  y[i] = IF i = 1 THEN Stream!One ELSE IF i <= z + 1 THEN Stream!Zero
                             ELSE IF i = z + 2 THEN h ELSE l
    OBVIOUS
  <2>1. CASE i <= z + 1
    <3>1. i \in 1 .. z + 1
      BY <2>1
    <3> QED BY <1>2, <1>5, <2>1, <3>1
  <2>2. CASE i = z + 2
    <3>1. i # 1 /\ ~(i <= z + 1)
      BY <2>2
    <3> QED BY <1>5, <2>2, <3>1
  <2>3. CASE i = z + 3
    <3>1. i # 1 /\ ~(i <= z + 1) /\ i # z + 2
      BY <2>3
    <3> QED BY <1>5, <2>3, <3>1
  <2> QED BY <2>1, <2>2, <2>3
<1>8. Trailer(r, <<h, l>>) = y
  BY <1>1, <1>4 DEF Trailer
<1> QED BY <1>6, <1>7, <1>8 DEF Laid

\* The words sha256_final writes are those of the length.
LEMMA ShaWords ==
    ASSUME Stream!StreamAssumption, NEW n \in Nat, NEW q, NEW r, IsDivision(n, B, q, r), NEW bits,
           bits = (((8 * (q * B)) % (M * M)) + r * 8) % (M * M)
    PROVE  /\ Stream!HighFirst(n) = <<Stream!Word(bits \div M), Stream!Word(bits % M)>>
           /\ bits \div M \in Nat /\ bits % M \in Nat
<1>1. M \in Nat \ {0} /\ B \in Nat \ {0}
  BY WordsAreBlocks
<1>2. PICK p : p = M * M
  OBVIOUS
<1>3. p \in Nat \ {0} /\ IsProduct(p, M, M)
  BY <1>1, <1>2 DEF IsProduct
<1>4. q \in Nat /\ r \in Nat /\ n = q * B + r
  BY DEF IsDivision
<1>5. PICK a, k, m : a = 8 * (q * B) /\ k = r * 8 /\ m = 8 * n
  OBVIOUS
<1>6. a \in Nat /\ k \in Nat /\ m \in Nat /\ a + k = m
  <2>1. PICK y : y = q * B
    OBVIOUS
  <2>2. y \in Nat
    BY ONLY <1>1, <1>4, <2>1
  <2>3. n = y + r
    BY <1>4, <2>1
  <2> QED BY ONLY <1>4, <1>5, <2>1, <2>2, <2>3
<1>7. PICK s, e : s = a \div p /\ e = a % p
  OBVIOUS
<1>8. (e + k) % p = m % p
  <2>1. a \in Nat
    BY <1>6
  <2>2. k \in Nat
    BY <1>6
  <2>3. IsDivision(a, p, s, e)
    BY ONLY <1>3, <1>7, <2>1, Division
  <2>4. (e + k) % p = (a + k) % p
    BY ONLY <1>3, <2>1, <2>2, <2>3, SumCut
  <2> QED BY <1>6, <2>4
<1>9. bits = m % p
  BY <1>2, <1>5, <1>7, <1>8
<1>10. bits % M = m % M /\ bits \div M = (m \div M) % M
  <2>1. m \in Nat
    BY <1>6
  <2>2. M \in Nat \ {0}
    BY <1>1
  <2>3. IsProduct(p, M, M)
    BY <1>3
  <2>4. (m % p) % M = m % M /\ (m % p) \div M = (m \div M) % M
    BY ONLY <2>1, <2>2, <2>3, DivisionTwice
  <2> QED BY <1>9, <2>4
<1>11. bits \div M \in Nat /\ bits % M \in Nat
  <2>1. bits \in Nat
    BY ONLY <1>3, <1>6, <1>9
  <2> QED BY ONLY <1>1, <2>1
<1>12. Stream!HighFirst(n) = <<Stream!Word((m \div M) % M), Stream!Word(m % M)>>
  BY <1>5 DEF Stream!HighFirst, Stream!LowFirst
<1> QED BY <1>10, <1>11, <1>12

\* sha256_final has absorbed what FIPS 180 asks for.
LEMMA ShaFinalAbsorbs ==
    ASSUME Stream!StreamAssumption, NEW V, IsBytes(V), NEW m \in Seq(V), NEW c1, ShaIs(c1, m, V)
    PROVE  Stream!ShaFinal(c1) = Stream!Hashed(m)
<1>1. B \in Nat \ {0, 1, 2} /\ B \in Nat \ {0} /\ Stream!L = 2 /\ M \in Nat \ {0}
  BY WordsAreBlocks
<1>2. PICK r : r = c1.fill
  OBVIOUS
<1>3. PICK q : Absorbs(c1.blocks, c1.block, m, V, q, r) /\ c1.bits = (8 * (q * B)) % (M * M)
  BY <1>2 DEF ShaIs
<1>4. /\ r \in 0 .. B - 1 /\ c1.block \in [1 .. B -> V] /\ c1.blocks \in Seq([1 .. B -> V])
  BY <1>2 DEF ShaIs, Contexts
<1>5. IsDivision(Len(m), B, q, r)
  BY <1>3 DEF Absorbs
<1>6. PICK bits, h, l : /\ bits = (c1.bits + r * 8) % (M * M)
                        /\ h = Stream!Word(bits \div M) /\ l = Stream!Word(bits % M)
  OBVIOUS
<1>7. Stream!HighFirst(Len(m)) = <<h, l>> /\ h \in V /\ l \in V
  <2>1. PICK n : n = Len(m)
    OBVIOUS
  <2>2. n \in Nat
    BY <2>1
  <2>3. IsDivision(n, B, q, r)
    BY <1>5, <2>1
  <2>4. bits = (((8 * (q * B)) % (M * M)) + r * 8) % (M * M)
    BY <1>3, <1>6
  <2>5. /\ Stream!HighFirst(n) = <<Stream!Word(bits \div M), Stream!Word(bits % M)>>
        /\ bits \div M \in Nat /\ bits % M \in Nat
    BY ONLY Stream!StreamAssumption, <2>2, <2>3, <2>4, ShaWords
  <2> QED BY <1>6, <2>1, <2>5 DEF IsBytes
<1>8. PICK z : z = (2 * B - 3 - r) % B
  OBVIOUS
<1>9. z = IF r <= B - 3 THEN B - 3 - r ELSE 2 * B - 3 - r
  BY ONLY <1>1, <1>4, <1>8, ZerosFill
<1>10. z \in Nat
  BY <1>1, <1>4, <1>9
<1>11. PICK x : x = Trailer(r, <<h, l>>)
  OBVIOUS
<1>12. PICK o, o0 : o = Stream!One /\ o0 = Stream!Zero
  OBVIOUS
<1>13. o \in V /\ o0 \in V
  BY <1>12 DEF IsBytes
<1>14. x = [i \in 1 .. z + 3 |-> IF i = 1 THEN o ELSE IF i <= z + 1 THEN o0
                                 ELSE IF i = z + 2 THEN h ELSE l]
  <2>1. Trailer(r, <<h, l>>) = Laid(z, h, l)
    BY ONLY <1>8, <1>10, TrailerIs
  <2> QED BY <1>11, <1>12, <2>1 DEF Laid
<1>15. x \in Seq(V) /\ Len(x) = z + 3
  BY <1>7, <1>10, <1>13, <1>14
<1>16. Stream!Hashed(m) = Stream!Cut(m \o x)
  <2>1. <<h, l>> \in Seq(V)
    BY <1>7
  <2>2. PICK e : e = <<h, l>>
    OBVIOUS
  <2>3. e \in Seq(V)
    BY <2>1, <2>2
  <2>4. PaddedBy(m, e, r, V)
    BY ONLY Stream!StreamAssumption, IsBytes(V), m \in Seq(V), <1>5, <2>3, PaddedIs
  <2> QED BY <1>7, <1>11, <2>2, <2>4 DEF PaddedBy, Stream!Hashed
<1>17. PICK marked, full, base, last :
          /\ marked = Stream!Put(c1.block, r, <<o>>)
          /\ full = Stream!Put(marked, r + 1, Stream!Copies(o0, B - (r + 1)))
          /\ base = IF Stream!NoRoom(r + 1) THEN Stream!Copies(o0, B)
                    ELSE Stream!Put(marked, r + 1, Stream!Copies(o0, B - 2 - (r + 1)))
          /\ last = Stream!Put(base, B - 2, <<h, l>>)
  OBVIOUS
<1>18. Stream!ShaFinal(c1)
         = c1.blocks \o (IF Stream!NoRoom(r + 1) THEN <<full>> ELSE <<>>) \o <<last>>
  BY <1>1, <1>2, <1>6, <1>12, <1>17 DEF Stream!ShaFinal
<1>19. marked = [i \in 1 .. B |-> IF i = r + 1 THEN o ELSE c1.block[i]]
  <2>1. DOMAIN <<o>> = 1 .. 1 /\ <<o>>[1] = o
    OBVIOUS
  <2>2. marked = [i \in 1 .. B |-> IF i - r \in 1 .. 1 THEN <<o>>[i - r] ELSE c1.block[i]]
    BY <1>17, <2>1 DEF Stream!Put
  <2> QED BY <1>1, <1>4, <2>1, <2>2
<1>20. last = [i \in 1 .. B |-> IF i = B - 1 THEN h ELSE IF i = B THEN l ELSE base[i]]
  <2>1. DOMAIN <<h, l>> = 1 .. 2 /\ <<h, l>>[1] = h /\ <<h, l>>[2] = l
    OBVIOUS
  <2>2. last = [i \in 1 .. B |-> IF i - (B - 2) \in 1 .. 2 THEN <<h, l>>[i - (B - 2)] ELSE base[i]]
    BY <1>17, <2>1 DEF Stream!Put
  <2> QED BY <1>1, <2>1, <2>2
<1>21. ASSUME NEW k \in 0 .. B - (r + 1)
       PROVE  Stream!Put(marked, r + 1, Stream!Copies(o0, k))
                = [i \in 1 .. B |-> IF i > r + 1 /\ i <= r + 1 + k THEN o0 ELSE marked[i]]
  <2>1. PICK zs : zs = Stream!Copies(o0, k)
    OBVIOUS
  <2>2. zs = [i \in 1 .. k |-> o0]
    BY <2>1 DEF Stream!Copies
  <2>3. Stream!Put(marked, r + 1, zs)
          = [i \in 1 .. B |-> IF i - (r + 1) \in 1 .. k THEN zs[i - (r + 1)] ELSE marked[i]]
    BY <2>2 DEF Stream!Put
  <2>4. k \in Nat /\ r \in Nat
    BY <1>1, <1>4
  <2> QED BY <1>1, <2>1, <2>2, <2>3, <2>4
<1>22. PICK rest, buf : rest = SubSeq(x, B - r + 1, Len(x)) /\ buf = c1.block
  OBVIOUS
<1>23. /\ rest \in Seq(V) /\ Len(rest) = Len(x) - (B - r)
       /\ \A j \in 1 .. Len(rest) : rest[j] = x[B - r + j]
  <2>1. PICK a : a = B - r + 1
    OBVIOUS
  <2>2. a \in 1 .. Len(x) + 1 /\ Len(x) + 1 - a = Len(x) - (B - r) /\ a - 1 = B - r
    BY <1>1, <1>4, <1>9, <1>15, <2>1
  <2>3. /\ SubSeq(x, a, Len(x)) \in Seq(V) /\ Len(SubSeq(x, a, Len(x))) = Len(x) + 1 - a
        /\ \A j \in 1 .. Len(x) + 1 - a : SubSeq(x, a, Len(x))[j] = x[a - 1 + j]
    BY <1>15, <2>2, EndOf
  <2> QED BY <1>22, <2>1, <2>2, <2>3
<1>24. PICK first : first = Stream!Put(c1.block, r, SubSeq(x, 1, B - r))
  OBVIOUS
<1>25. first = [i \in 1 .. B |-> IF i <= r THEN c1.block[i] ELSE x[i - r]]
  <2>1. B - r \in Nat /\ B - r <= Len(x)
    BY <1>1, <1>4, <1>9, <1>15
  <2>2. SubSeq(x, 1, B - r) = [j \in 1 .. B - r |-> x[j]]
    BY <1>15, <2>1
  <2>3. first = [i \in 1 .. B |-> IF i - r \in 1 .. B - r THEN SubSeq(x, 1, B - r)[i - r]
                                  ELSE c1.block[i]]
    BY <1>24, <2>2 DEF Stream!Put
  <2>4. \A i \in 1 .. B : i - r \in 1 .. B - r <=> ~(i <= r)
    BY <1>1, <1>4
  <2> QED BY <2>2, <2>3, <2>4
<1>26. \A s : IsDivision(Len(rest), B, s, 0) =>
          IsCut(c1.blocks \o <<first>> \o Stream!Cut(rest), m \o x, V)
  <2> SUFFICES ASSUME NEW s, IsDivision(Len(rest), B, s, 0)
               PROVE  IsCut(c1.blocks \o <<first>> \o Stream!Cut(rest), m \o x, V)
    OBVIOUS
  <2>1. r + Len(x) >= B
    BY <1>1, <1>4, <1>9, <1>15
  <2>2. \A i \in 1 .. 0 : buf[i] = rest[s * B + i]
    OBVIOUS
  <2>3. Absorbs(c1.blocks, c1.block, m, V, q, r)
    BY <1>3
  <2>4. buf \in [1 .. B -> V]
    BY <1>4, <1>22
  <2>5. rest = SubSeq(x, B - r + 1, Len(x))
    BY <1>22
  <2>6. x \in Seq(V)
    BY <1>15
  <2>7. B \in Nat \ {0}
    BY <1>1
  <2>8. Absorbs(c1.blocks \o <<Stream!Put(c1.block, r, SubSeq(x, 1, B - r))>> \o Stream!Cut(rest),
                buf, m \o x, V, q + 1 + s, 0)
    BY ONLY m \in Seq(V), IsDivision(Len(rest), B, s, 0), <2>1, <2>2, <2>3, <2>4, <2>5, <2>6, <2>7,
            AbsorbsBlocks
  <2> QED BY <1>24, <2>8 DEF Absorbs
<1>27. ASSUME NEW s, IsDivision(Len(rest), B, s, 0)
       PROVE  c1.blocks \o <<first>> \o Stream!Cut(rest) = Stream!Hashed(m)
  <2>1. m \o x \in Seq(V)
    BY <1>15
  <2>2. PICK mx, all : mx = m \o x /\ all = c1.blocks \o <<first>> \o Stream!Cut(rest)
    OBVIOUS
  <2>3. mx \in Seq(V) /\ IsCut(all, mx, V)
    BY <1>26, <1>27, <2>1, <2>2
  <2>4. all = Stream!Cut(mx)
    BY <1>1, <2>3, OneCut
  <2> QED BY <1>16, <2>2, <2>4
<1>28. CASE r <= B - 3
  <2>1. z = B - 3 - r /\ ~Stream!NoRoom(r + 1) /\ B - 2 - (r + 1) \in 0 .. B - (r + 1)
    BY <1>1, <1>4, <1>9, <1>28 DEF Stream!NoRoom
  <2>2. Len(rest) = 0 /\ rest = <<>>
    <3>1. Len(rest) = Len(x) - (B - r) /\ Len(x) = z + 3
      BY <1>15, <1>23
    <3>2. Len(rest) = 0
      BY ONLY <1>1, <1>4, <2>1, <3>1
    <3> QED BY <1>23, <3>2
  <2>3. IsDivision(Len(rest), B, 0, 0) /\ Stream!Cut(rest) = <<>>
    BY <1>1, <2>2, CutOfNothing DEF IsDivision
  <2>4. base = [i \in 1 .. B |-> IF i > r + 1 /\ i <= B - 2 THEN o0 ELSE marked[i]]
    <3>1. PICK k : k = B - 2 - (r + 1)
      OBVIOUS
    <3>2. r + 1 + k = B - 2 /\ k \in 0 .. B - (r + 1)
      BY <1>1, <1>4, <2>1, <3>1
    <3> QED BY <1>17, <1>21, <2>1, <3>1, <3>2
  <2>5. first = last
    <3>1. ASSUME NEW i \in 1 .. B PROVE first[i] = last[i]
      <4>1. CASE i <= r
        BY <1>1, <1>4, <1>19, <1>20, <1>25, <1>28, <2>4, <4>1
      <4>2. CASE i = r + 1
        <5>1. x[1] = o /\ i - r = 1
          BY <1>4, <1>10, <1>14, <4>2
        <5> QED BY <1>1, <1>4, <1>19, <1>20, <1>25, <1>28, <2>4, <4>2, <5>1
      <4>3. CASE i > r + 1 /\ i <= B - 2
        <5>1. i - r \in 1 .. z + 3 /\ i - r # 1 /\ i - r <= z + 1
          BY <1>1, <1>4, <2>1, <4>3
        <5>2. x[i - r] = o0
          BY <1>14, <5>1
        <5> QED BY <1>1, <1>4, <1>20, <1>25, <2>4, <4>3, <5>2
      <4>4. CASE i = B - 1
        <5>1. i - r = z + 2 /\ z + 2 \in 1 .. z + 3 /\ z + 2 # 1 /\ ~(z + 2 <= z + 1) /\ ~(i <= r)
          BY <1>1, <1>4, <1>10, <1>28, <2>1, <4>4
        <5>2. x[i - r] = h
          BY <1>14, <5>1
        <5> QED BY <1>20, <1>25, <4>4, <5>1, <5>2
      <4>5. CASE i = B
        <5>1. i - r = z + 3 /\ z + 3 \in 1 .. z + 3 /\ z + 3 # 1 /\ ~(z + 3 <= z + 1)
              /\ z + 3 # z + 2 /\ ~(i <= r) /\ B # B - 1
          BY <1>1, <1>4, <1>10, <1>28, <2>1, <4>5
        <5>2. x[i - r] = l
          BY <1>14, <5>1
        <5> QED BY <1>20, <1>25, <4>5, <5>1, <5>2
      <4> QED BY <1>1, <1>4, <1>28, <4>1, <4>2, <4>3, <4>4, <4>5
    <3> QED BY <1>20, <1>25, <3>1
  <2>6. Stream!ShaFinal(c1) = c1.blocks \o <<>> \o <<last>>
    BY <1>18, <2>1
  <2>7. c1.blocks \o <<first>> \o <<>> = c1.blocks \o <<>> \o <<last>>
    BY <1>4, <2>5
  <2> QED BY <1>27, <2>3, <2>6, <2>7
<1>29. CASE ~(r <= B - 3)
  <2>1. z = 2 * B - 3 - r /\ Stream!NoRoom(r + 1) /\ B - (r + 1) \in 0 .. B - (r + 1)
    BY <1>1, <1>4, <1>9, <1>29 DEF Stream!NoRoom
  <2>2. Len(rest) = B /\ B - r + B = z + 3 /\ Len(x) = z + 3
    <3>1. Len(rest) = Len(x) - (B - r) /\ Len(x) = z + 3
      BY <1>15, <1>23
    <3>2. z = 2 * B - 3 - r /\ B \in Nat /\ r \in Nat
      BY <1>1, <1>4, <2>1
    <3>3. PICK a, b : a = Len(rest) /\ b = Len(x)
      OBVIOUS
    <3>4. a = b - (B - r) /\ b = z + 3
      BY <3>1, <3>3
    <3>5. a = B /\ B - r + B = z + 3 /\ b = z + 3
      BY ONLY <3>2, <3>4
    <3> QED BY <3>3, <3>5
  <2>3. IsDivision(Len(rest), B, 1, 0)
    BY <1>1, <2>2 DEF IsDivision
  <2>4. full = first
    <3>1. full = [i \in 1 .. B |-> IF i > r + 1 /\ i <= B THEN o0 ELSE marked[i]]
      <4>1. PICK k : k = B - (r + 1)
        OBVIOUS
      <4>2. r + 1 + k = B /\ k \in 0 .. B - (r + 1)
        BY <1>1, <1>4, <4>1
      <4> QED BY <1>17, <1>21, <4>1, <4>2
    <3>2. ASSUME NEW i \in 1 .. B PROVE first[i] = full[i]
      <4>1. CASE i <= r
        BY <1>1, <1>4, <1>19, <1>25, <3>1, <4>1
      <4>2. CASE i = r + 1
        <5>1. x[1] = o /\ i - r = 1
          BY <1>4, <1>10, <1>14, <4>2
        <5> QED BY <1>1, <1>4, <1>19, <1>25, <3>1, <4>2, <5>1
      <4>3. CASE i > r + 1
        <5>1. i - r \in 1 .. z + 3 /\ i - r # 1 /\ i - r <= z + 1
          BY <1>1, <1>4, <2>1, <4>3
        <5>2. x[i - r] = o0
          BY <1>14, <5>1
        <5> QED BY <1>1, <1>4, <1>25, <3>1, <4>3, <5>2
      <4> QED BY <1>4, <4>1, <4>2, <4>3
    <3> QED BY <1>25, <3>1, <3>2
  <2>5. base = [i \in 1 .. B |-> o0]
    BY <1>17, <2>1 DEF Stream!Copies
  <2>6. Stream!Cut(rest) = <<last>>
    <3>1. IsCut(Stream!Cut(rest), rest, V)
      BY <1>1, <1>23, CutIsCut
    <3>2. Len(rest) \div B = 1
      <4>1. Len(rest) \in Nat
        BY <1>23
      <4> QED BY ONLY <1>1, <2>3, <4>1, DivisionIs
    <3>3. Stream!Cut(rest) \in Seq([1 .. B -> V]) /\ Len(Stream!Cut(rest)) = 1
          /\ Stream!Cut(rest)[1] = BlockOf(rest, 1)
      BY <3>1, <3>2 DEF IsCut
    <3>4. BlockOf(rest, 1) = [i \in 1 .. B |-> x[B - r + i]]
      <4>1. \A i \in 1 .. B : (1 - 1) * B + i = i
        BY <1>1
      <4> QED BY <1>23, <2>2, <4>1 DEF BlockOf
    <3>5. ASSUME NEW i \in 1 .. B PROVE x[B - r + i] = last[i]
      <4>1. CASE i <= B - 2
        <5>1. B - r + i \in 1 .. z + 3 /\ B - r + i # 1 /\ B - r + i <= z + 1
          BY <1>1, <1>4, <2>1, <4>1
        <5>2. x[B - r + i] = o0
          BY <1>14, <5>1
        <5>3. i # B - 1 /\ i # B
          BY <1>1, <4>1
        <5> QED BY <1>20, <2>5, <5>2, <5>3
      <4>2. CASE i = B - 1
        <5>1. B - r + i = z + 2 /\ z + 2 \in 1 .. z + 3 /\ z + 2 # 1 /\ ~(z + 2 <= z + 1)
          BY <1>1, <1>4, <1>10, <2>1, <4>2
        <5> QED BY <1>14, <1>20, <4>2, <5>1
      <4>3. CASE i = B
        <5>1. B - r + i = z + 3 /\ z + 3 \in 1 .. z + 3 /\ z + 3 # 1 /\ ~(z + 3 <= z + 1)
              /\ z + 3 # z + 2 /\ B # B - 1
          BY <1>1, <1>4, <1>10, <2>1, <4>3
        <5> QED BY <1>14, <1>20, <4>3, <5>1
      <4> QED BY <1>1, <4>1, <4>2, <4>3
    <3>6. BlockOf(rest, 1) = last
      BY <1>20, <3>4, <3>5
    <3> QED BY <3>3, <3>6
  <2>7. Stream!ShaFinal(c1) = c1.blocks \o <<full>> \o <<last>>
    BY <1>18, <2>1
  <2> QED BY <1>27, <2>3, <2>4, <2>6, <2>7
<1> QED BY <1>28, <1>29

-----------------------------------------------------------------------------
(* HMAC *)

\* Whatever bytes there are, they and those of messages and padding make a set.
LEMMA BytesExist == ASSUME NEW S PROVE \E V : IsBytes(V) /\ S \subseteq V
<1> DEFINE V == S \cup {Stream!One, Stream!Zero} \cup {Stream!Word(v) : v \in Nat}
                  \cup {<<"message", v>> : v \in Nat}
<1>1. IsBytes(V)
  BY DEF IsBytes
<1> QED BY <1>1

\* The hash of one sequence, or of one after the other.
LEMMA ShaOf ==
    ASSUME Stream!StreamAssumption, NEW V, IsBytes(V), NEW x \in Seq(V), NEW y \in Seq(V)
    PROVE  /\ ShaIs(Stream!ShaUpdate(Stream!ShaInit, x), x, V)
           /\ Stream!ShaFinal(Stream!ShaUpdate(Stream!ShaInit, x)) = Stream!Hashed(x)
           /\ Stream!ShaFinal(Stream!ShaUpdate(Stream!ShaUpdate(Stream!ShaInit, x), y))
                = Stream!Hashed(x \o y)
<1>1. PICK m, c1, c2, c3, xy :
        /\ m = <<>> /\ c1 = Stream!ShaInit /\ c2 = Stream!ShaUpdate(c1, x)
        /\ c3 = Stream!ShaUpdate(c2, y) /\ xy = x \o y
  OBVIOUS
<1>2. m \in Seq(V) /\ m \o x = x /\ xy \in Seq(V)
  BY <1>1, AfterNothing
<1>3. ShaIs(c1, m, V)
  BY <1>1, ShaInitIs DEF IsBytes
<1>4. ShaIs(c2, x, V)
  <2>1. ShaIs(Stream!ShaUpdate(c1, x), m \o x, V)
    BY <1>2, <1>3, ShaUpdateIs
  <2> QED BY <1>1, <1>2, <2>1
<1>5. ShaIs(c3, xy, V)
  BY <1>1, <1>4, ShaUpdateIs
<1>6. Stream!ShaFinal(c2) = Stream!Hashed(x) /\ Stream!ShaFinal(c3) = Stream!Hashed(xy)
  BY <1>2, <1>4, <1>5, ShaFinalAbsorbs
<1> QED BY <1>1, <1>4, <1>6

\* Of every message some blocks are hashed.
LEMMA SomethingIsHashed ==
    ASSUME Stream!StreamAssumption, NEW V, IsBytes(V), NEW m \in Seq(V)
    PROVE  Stream!Hashed(m) # <<>>
<1>1. PICK c1 : c1 = Stream!ShaUpdate(Stream!ShaInit, m)
  OBVIOUS
<1>2. ShaIs(c1, m, V) /\ Stream!ShaFinal(c1) = Stream!Hashed(m)
  BY <1>1, ShaOf
<1>3. PICK X : c1.blocks \in Seq(X)
  BY <1>2 DEF ShaIs, Contexts
<1>4. PICK f, l : Stream!ShaFinal(c1)
                    = c1.blocks \o (IF Stream!NoRoom(c1.fill + 1) THEN <<f>> ELSE <<>>) \o <<l>>
  BY DEF Stream!ShaFinal
<1>5. PICK a, w : /\ w = IF Stream!NoRoom(c1.fill + 1) THEN <<f>> ELSE <<>>
                  /\ a = c1.blocks \o w
  OBVIOUS
<1>6. PICK Y : Y = X \cup {f, l}
  OBVIOUS
<1>7. w \in Seq(Y) /\ c1.blocks \in Seq(Y)
  <2>1. CASE Stream!NoRoom(c1.fill + 1)
    BY <1>3, <1>5, <1>6, <2>1
  <2>2. CASE ~Stream!NoRoom(c1.fill + 1)
    BY <1>3, <1>5, <1>6, <2>2
  <2> QED BY <2>1, <2>2
<1>8. a \in Seq(Y) /\ l \in Y
  BY <1>5, <1>6, <1>7
<1>9. Len(a \o <<l>>) = Len(a) + 1 /\ Len(a) \in Nat
  BY <1>8
<1>10. a \o <<l>> # <<>>
  BY <1>9
<1> QED BY <1>2, <1>4, <1>5, <1>10

\* The key of the HMAC as RFC 2104 has it: hashed when it is longer than a block.
ShortKey(k) == IF Len(k) > B THEN Stream!Digest(Stream!Hashed(k)) ELSE k
Padding(k, mask) == [i \in 1 .. B |-> <<mask, (ShortKey(k) \o Stream!Copies(Stream!Zero, B))[i]>>]

\* Zeros beyond a block are not read.
LEMMA SameBlock ==
    ASSUME B \in Nat \ {0}, NEW S, NEW x \in Seq(S), Len(x) <= B, NEW o, NEW i \in 1 .. B
    PROVE  (x \o Stream!Copies(o, B - Len(x)))[i] = (x \o Stream!Copies(o, B))[i]
<1>1. PICK l : l = Len(x)
  OBVIOUS
<1>2. l \in Nat /\ B - l \in Nat
  BY <1>1
<1>3. PICK X : X = S \cup {o}
  OBVIOUS
<1>4. PICK a, b : a = Stream!Copies(o, B - l) /\ b = Stream!Copies(o, B)
  OBVIOUS
<1>5. a = [j \in 1 .. B - l |-> o] /\ b = [j \in 1 .. B |-> o]
  BY <1>4 DEF Stream!Copies
<1>6. x \in Seq(X) /\ a \in Seq(X) /\ Len(a) = B - l /\ b \in Seq(X) /\ Len(b) = B
  BY <1>2, <1>3, <1>5
<1>7. CASE i <= l
  BY <1>1, <1>2, <1>4, <1>6, <1>7
<1>8. CASE i > l
  <2>1. i - l \in 1 .. B - l /\ i - l \in 1 .. B
    BY <1>2, <1>8
  <2>2. (x \o a)[i] = a[i - l] /\ (x \o b)[i] = b[i - l]
    BY <1>1, <1>2, <1>6, <1>8, <2>1
  <2> QED BY <1>1, <1>4, <1>5, <2>1, <2>2
<1>9. i <= l \/ i > l
  BY <1>2
<1> QED BY <1>7, <1>8, <1>9

\* hmac_sha256_init prepares that key.
LEMMA PadIs ==
    ASSUME Stream!StreamAssumption, NEW S, NEW k \in Seq(S), NEW mask
    PROVE  /\ Stream!Pad(k, mask) = Padding(k, mask)
           /\ \E T : Padding(k, mask) \in Seq(T)
<1>1. B \in Nat \ {0} /\ D \in 1 .. B
  BY WordsAreBlocks
<1>2. PICK s : s = ShortKey(k)
  OBVIOUS
<1>3. Stream!Normalized(k) = s \o Stream!Copies(Stream!Zero, B - Len(s))
  <2>1. Stream!ShaFinal(Stream!ShaUpdate(Stream!ShaInit, k)) = Stream!Hashed(k)
    <3>1. PICK V : IsBytes(V) /\ S \subseteq V
      BY BytesExist
    <3>2. k \in Seq(V)
      BY <3>1
    <3> QED BY <3>1, <3>2, ShaOf
  <2> QED BY <1>2, <2>1 DEF ShortKey, Stream!Normalized
<1>4. \E X : s \in Seq(X) /\ Len(s) <= B
  <2>1. CASE Len(k) > B
    <3>1. s = [i \in 1 .. D |-> <<"digest", <<i, Stream!Hashed(k)>> >>]
      BY <1>2, <2>1 DEF ShortKey, Stream!Digest
    <3>2. s \in Seq({<<"digest", <<i, Stream!Hashed(k)>> >> : i \in 1 .. D}) /\ Len(s) = D
      BY <1>1, <3>1
    <3>3. Len(s) <= B
      BY <1>1, <3>2
    <3> QED BY <3>2, <3>3
  <2>2. CASE ~(Len(k) > B)
    <3>1. s = k /\ Len(k) <= B
      BY <1>1, <1>2, <2>2 DEF ShortKey
    <3> QED BY <3>1
  <2> QED BY <2>1, <2>2
<1>5. \A i \in 1 .. B : (s \o Stream!Copies(Stream!Zero, B - Len(s)))[i]
                          = (s \o Stream!Copies(Stream!Zero, B))[i]
  BY <1>1, <1>4, SameBlock
<1>6. Stream!Pad(k, mask) = Padding(k, mask)
  BY <1>2, <1>3, <1>5 DEF Stream!Pad, Padding
<1>7. Padding(k, mask) \in Seq({Padding(k, mask)[i] : i \in 1 .. B})
  <2>1. PICK p, y : /\ y = s \o Stream!Copies(Stream!Zero, B) /\ p = Padding(k, mask)
    OBVIOUS
  <2>2. p = [i \in 1 .. B |-> <<mask, y[i]>>]
    BY <1>2, <2>1 DEF Padding
  <2>3. p \in Seq({p[i] : i \in 1 .. B})
    BY <1>1, <2>2
  <2> QED BY <2>1, <2>3
<1> QED BY <1>6, <1>7

\* The message so far, followed by the next piece.
LEMMA MessageGrows ==
    ASSUME NEW V, IsBytes(V), NEW l \in Nat, NEW n \in Nat
    PROVE  /\ Stream!MessageBytes(l, n) \in Seq(V)
           /\ Len(Stream!MessageBytes(0, l)) = l
           /\ Stream!MessageBytes(0, l) \o Stream!MessageBytes(l, n) = Stream!MessageBytes(0, l + n)
<1>1. ASSUME NEW f \in Nat, NEW k \in Nat
      PROVE  /\ Stream!MessageBytes(f, k) = [i \in 1 .. k |-> <<"message", f + i>>]
             /\ Stream!MessageBytes(f, k) \in Seq(V) /\ Len(Stream!MessageBytes(f, k)) = k
  <2>1. PICK y : y = Stream!MessageBytes(f, k)
    OBVIOUS
  <2>2. y = [i \in 1 .. k |-> <<"message", f + i>>]
    BY <2>1 DEF Stream!MessageBytes
  <2>3. \A i \in 1 .. k : <<"message", f + i>> \in V
    BY DEF IsBytes
  <2>4. DOMAIN y = 1 .. k /\ \A i \in 1 .. k : y[i] \in V
    BY <2>2, <2>3
  <2>5. y = [i \in 1 .. k |-> y[i]]
    BY <2>2
  <2>6. y \in Seq(V) /\ Len(y) = k
    BY ONLY <2>4, <2>5, k \in Nat
  <2> QED BY <2>1, <2>2, <2>6
<1>2. PICK a, b, ab : /\ a = Stream!MessageBytes(0, l) /\ b = Stream!MessageBytes(l, n)
                      /\ ab = a \o b
  OBVIOUS
<1>3. a = [i \in 1 .. l |-> <<"message", 0 + i>>] /\ a \in Seq(V) /\ Len(a) = l
  BY <1>1, <1>2
<1>4. b = [i \in 1 .. n |-> <<"message", l + i>>] /\ b \in Seq(V) /\ Len(b) = n
  BY <1>1, <1>2
<1>5. /\ ab \in Seq(V) /\ Len(ab) = l + n
      /\ \A j \in 1 .. l : ab[j] = a[j]
      /\ \A j \in 1 .. n : ab[l + j] = b[j]
  <2>1. a \in Seq(V)
    BY <1>3
  <2>2. b \in Seq(V)
    BY <1>4
  <2>3. /\ ab \in Seq(V) /\ Len(ab) = Len(a) + Len(b)
        /\ \A j \in 1 .. Len(a) : ab[j] = a[j]
        /\ \A j \in 1 .. Len(b) : ab[Len(a) + j] = b[j]
    BY ONLY <1>2, <2>1, <2>2, Joined
  <2> QED BY <1>3, <1>4, <2>3
<1>6. ASSUME NEW i \in 1 .. l + n PROVE ab[i] = <<"message", 0 + i>>
  <2>1. CASE i <= l
    BY <1>3, <1>5, <2>1
  <2>2. CASE i > l
    <3>1. PICK j : j = i - l
      OBVIOUS
    <3>2. j \in 1 .. n /\ i = l + j /\ 0 + i = l + j
      BY <2>2, <3>1
    <3> QED BY <1>4, <1>5, <3>2
  <2> QED BY <2>1, <2>2
<1>7. ab = [i \in 1 .. l + n |-> ab[i]]
  BY <1>5
<1>8. Stream!MessageBytes(0, l + n) = [i \in 1 .. l + n |-> <<"message", 0 + i>>]
  BY DEF Stream!MessageBytes
<1> QED BY <1>2, <1>3, <1>4, <1>6, <1>7, <1>8

-----------------------------------------------------------------------------
(* The invariant of the hashes *)

\* The contexts have absorbed the message so far; the inner one, the prepared key first.
Absorbing ==
    \E V : /\ IsBytes(V) /\ Padding(key, "0x36") \in Seq(V)
           /\ Md5Is(md5, Stream!MessageBytes(0, length), V)
           /\ ShaIs(sha, Stream!MessageBytes(0, length), V)
           /\ ShaIs(inner, Padding(key, "0x36") \o Stream!MessageBytes(0, length), V)

StreamHolds ==
    /\ Stream!Md5AbsorbsThePaddedMessage /\ Stream!ShaAbsorbsThePaddedMessage
    /\ Stream!HmacIsTheNestedHash

StreamInd ==
    /\ length \in Nat /\ key \in {Stream!Bytes("key", n) : n \in Nat}
    /\ done = <<>> => Absorbing
    /\ StreamHolds

\* The loop of __md5_update__ ends for pieces of less than M - B bytes.
LEMMA LoopsEnd ==
    ASSUME Stream!StreamAssumption, NEW V, NEW m \in Seq(V), NEW c1, Md5Is(c1, m, V),
           NEW n \in Nat, n < M - B
    PROVE  Stream!LoopEnds(c1, n)
<1>1. B \in Nat \ {0} /\ M \in Nat \ {0}
  BY DEF Stream!StreamAssumption
<1>2. PICK i : i = (c1.low \div 8) % B
  OBVIOUS
<1>3. c1.low \in Nat
  BY <1>1 DEF Md5Is, Count
<1>4. i \in 0 .. B - 1
  BY <1>1, <1>2, <1>3
<1>5. PICK p : p = B - i
  OBVIOUS
<1>6. p \in Nat
  BY <1>1, <1>4, <1>5
<1>7. CASE n < p
  BY <1>2, <1>5, <1>7 DEF Stream!LoopEnds
<1>8. CASE n >= p
  <2>1. n - p \in Nat
    BY <1>6, <1>8
  <2>2. PICK q, r : q = (n - p) \div B /\ r = (n - p) % B
    OBVIOUS
  <2>3. IsDivision(n - p, B, q, r)
    BY <1>1, <2>1, <2>2, Division
  <2>4. PICK w : w = q * B
    OBVIOUS
  <2>5. w \in Nat /\ r \in Nat /\ n - p = w + r
    BY <1>1, <2>3, <2>4 DEF IsDivision
  <2>6. p + w + B < M
    BY <1>1, <1>6, <2>5
  <2> QED BY <1>2, <1>5, <2>2, <2>4, <2>6 DEF Stream!LoopEnds
<1> QED BY <1>6, <1>7, <1>8

\* The key is a sequence.
LEMMA KeyIsSequence == ASSUME NEW n \in Nat PROVE \E S : Stream!Bytes("key", n) \in Seq(S)
<1>1. Stream!Bytes("key", n) = [i \in 1 .. n |-> <<"key", i>>]
  BY DEF Stream!Bytes
<1>2. [i \in 1 .. n |-> <<"key", i>>] \in Seq({<<"key", i>> : i \in 1 .. n})
  OBVIOUS
<1> QED BY <1>1, <1>2

LEMMA StreamInitInd == ASSUME Stream!StreamAssumption, Stream!Init PROVE StreamInd
<1>1. /\ length = 0 /\ md5 = Stream!Md5Init /\ sha = Stream!ShaInit /\ done = <<>>
      /\ inner = Stream!HmacInit(key) /\ key \in {Stream!Bytes("key", n) : n \in Nat}
  BY DEF Stream!Init, Stream!StreamAssumption
<1>2. PICK S : key \in Seq(S)
  BY <1>1, KeyIsSequence
<1>3. PICK p : p = Padding(key, "0x36")
  OBVIOUS
<1>4. Stream!Pad(key, "0x36") = p /\ \E T : p \in Seq(T)
  BY <1>2, <1>3, PadIs
<1>5. PICK T : p \in Seq(T)
  BY <1>4
<1>6. PICK V : IsBytes(V) /\ T \subseteq V
  BY BytesExist
<1>7. p \in Seq(V)
  BY <1>5, <1>6
<1>8. Stream!MessageBytes(0, 0) = <<>>
  BY DEF Stream!MessageBytes
<1>9. p \o <<>> = p
  BY <1>7
<1>10. ShaIs(inner, p, V)
  BY <1>1, <1>4, <1>6, <1>7, ShaOf DEF Stream!HmacInit
<1>11. Md5Is(md5, <<>>, V) /\ ShaIs(sha, <<>>, V)
  BY <1>1, <1>6, Md5InitIs, ShaInitIs DEF IsBytes
<1>12. Absorbing
  BY <1>1, <1>3, <1>6, <1>7, <1>8, <1>9, <1>10, <1>11 DEF Absorbing
<1>13. StreamHolds
  <2>1. \A n \in Pieces : n < M - B => Stream!LoopEnds(md5, n)
    <3>1. PICK e : e = <<>>
      OBVIOUS
    <3>2. e \in Seq(V) /\ Md5Is(md5, e, V)
      BY <1>11, <3>1
    <3> QED BY <3>2, LoopsEnd DEF Stream!StreamAssumption
  <2> QED BY <1>1, <2>1 DEF StreamHolds, Stream!Md5AbsorbsThePaddedMessage,
              Stream!ShaAbsorbsThePaddedMessage, Stream!HmacIsTheNestedHash
<1> QED BY <1>1, <1>12, <1>13 DEF StreamInd

\* Each context absorbs a piece of the message.
LEMMA UpdateInd ==
    ASSUME Stream!StreamAssumption, StreamInd, NEW n \in Pieces, Stream!Update(n)
    PROVE  StreamInd'
<1>1. /\ length' = length + n /\ key' = key /\ done' = <<>> /\ done = <<>>
      /\ md5' = Stream!Md5Update(md5, Stream!MessageBytes(length, n))
      /\ sha' = Stream!ShaUpdate(sha, Stream!MessageBytes(length, n))
      /\ inner' = Stream!ShaUpdate(inner, Stream!MessageBytes(length, n))
  BY DEF Stream!Update
<1>2. n \in Nat /\ length \in Nat /\ length + n \in Nat
  BY DEF Stream!StreamAssumption, StreamInd
<1>3. PICK p, m, x, y : /\ p = Padding(key, "0x36") /\ m = Stream!MessageBytes(0, length)
                        /\ x = Stream!MessageBytes(length, n)
                        /\ y = Stream!MessageBytes(0, length + n)
  OBVIOUS
<1>4. PICK V : /\ IsBytes(V) /\ p \in Seq(V) /\ Md5Is(md5, m, V) /\ ShaIs(sha, m, V)
               /\ ShaIs(inner, p \o m, V)
  BY <1>1, <1>3 DEF StreamInd, Absorbing
<1>5. m \in Seq(V) /\ x \in Seq(V) /\ m \o x = y
  <2>1. \A f \in Nat, k \in Nat : Stream!MessageBytes(f, k) \in Seq(V)
    BY <1>4, MessageGrows
  <2>2. Stream!MessageBytes(0, length) \o Stream!MessageBytes(length, n)
          = Stream!MessageBytes(0, length + n)
    BY <1>2, <1>4, MessageGrows
  <2> QED BY <1>2, <1>3, <2>1, <2>2
<1>6. Md5Is(md5', y, V)
  BY <1>1, <1>3, <1>4, <1>5, Md5UpdateAbsorbs
<1>7. ShaIs(sha', y, V)
  BY <1>1, <1>3, <1>4, <1>5, ShaUpdateIs
<1>8. ShaIs(inner', p \o y, V)
  <2>1. PICK pm : pm = p \o m
    OBVIOUS
  <2>2. pm \in Seq(V)
    BY <1>4, <1>5, <2>1
  <2>3. ShaIs(Stream!ShaUpdate(inner, x), pm \o x, V)
    BY <1>4, <1>5, <2>1, <2>2, ShaUpdateIs
  <2>4. pm \o x = p \o y
    <3>1. p \in Seq(V)
      BY <1>4
    <3>2. m \in Seq(V)
      BY <1>5
    <3>3. x \in Seq(V)
      BY <1>5
    <3>4. (p \o m) \o x = p \o (m \o x)
      BY ONLY <3>1, <3>2, <3>3, JoinedTwice
    <3> QED BY <1>5, <2>1, <3>4
  <2> QED BY <1>1, <1>3, <2>3, <2>4
<1>9. Absorbing'
  <2>1. Padding(key, "0x36")' = p /\ Stream!MessageBytes(0, length)' = y
    BY <1>1, <1>3 DEF Padding, ShortKey
  <2> QED BY <1>4, <1>6, <1>7, <1>8, <2>1 DEF Absorbing
<1>10. StreamHolds'
  <2>1. y \in Seq(V)
    BY <1>2, <1>3, <1>4, MessageGrows
  <2>2. \A k \in Pieces : k < M - B => Stream!LoopEnds(md5', k)
    BY <1>6, <2>1, LoopsEnd DEF Stream!StreamAssumption
  <2>3. \A k \in Pieces : k < M - B => Stream!LoopEnds(md5, k)'
    BY <2>2 DEF Stream!LoopEnds
  <2> QED BY <1>1, <2>3 DEF StreamHolds, Stream!Md5AbsorbsThePaddedMessage,
              Stream!ShaAbsorbsThePaddedMessage, Stream!HmacIsTheNestedHash
<1> QED BY <1>1, <1>2, <1>9, <1>10 DEF StreamInd

\* The three final functions have absorbed what they should.
LEMMA FinalInd ==
    ASSUME Stream!StreamAssumption, StreamInd, Stream!Final
    PROVE  StreamInd'
<1>1. /\ length' = length /\ key' = key /\ done = <<>> /\ done' = Stream!HmacFinal(key, inner)
      /\ md5' = Stream!Md5Final(md5) /\ sha' = [sha EXCEPT !.blocks = Stream!ShaFinal(sha)]
  BY DEF Stream!Final
<1>2. PICK p, m : p = Padding(key, "0x36") /\ m = Stream!MessageBytes(0, length)
  OBVIOUS
<1>3. PICK V : /\ IsBytes(V) /\ p \in Seq(V) /\ Md5Is(md5, m, V) /\ ShaIs(sha, m, V)
               /\ ShaIs(inner, p \o m, V)
  BY <1>1, <1>2 DEF StreamInd, Absorbing
<1>4. length \in Nat /\ m \in Seq(V) /\ Len(m) = length
  BY <1>2, <1>3, MessageGrows DEF StreamInd
<1>5. PICK e, g : e = Padding(key, "0x5c") /\ g = Stream!Digest(Stream!Hashed(p \o m))
  OBVIOUS
<1>6. done' = Stream!Hashed(e \o g) /\ done' # <<>>
  <2>1. Stream!ShaFinal(inner) = Stream!Hashed(p \o m)
    <3>1. PICK pm : pm = p \o m
      OBVIOUS
    <3>2. pm \in Seq(V) /\ ShaIs(inner, pm, V)
      BY <1>3, <1>4, <3>1
    <3> QED BY <1>3, <3>1, <3>2, ShaFinalAbsorbs
  <2>2. PICK S : key \in Seq(S)
    BY KeyIsSequence DEF StreamInd
  <2>3. Stream!Pad(key, "0x5c") = e /\ \E T : e \in Seq(T)
    BY <1>5, <2>2, PadIs
  <2>4. PICK T : e \in Seq(T)
    BY <2>3
  <2>5. PICK G : g \in Seq(G)
    <3>1. D \in Nat
      BY WordsAreBlocks
    <3>2. PICK h : h = Stream!Hashed(p \o m)
      OBVIOUS
    <3>3. g = [i \in 1 .. D |-> <<"digest", <<i, h>> >>]
      BY <1>5, <3>2 DEF Stream!Digest
    <3>4. g \in Seq({<<"digest", <<i, h>> >> : i \in 1 .. D})
      BY <3>1, <3>3
    <3> QED BY <3>4
  <2>6. PICK W : IsBytes(W) /\ T \cup G \subseteq W
    BY BytesExist
  <2>7. e \in Seq(W) /\ g \in Seq(W)
    BY <2>4, <2>5, <2>6
  <2>8. Stream!ShaFinal(Stream!ShaUpdate(Stream!ShaUpdate(Stream!ShaInit, e), g))
          = Stream!Hashed(e \o g)
    BY <2>6, <2>7, ShaOf
  <2>9. done' = Stream!Hashed(e \o g)
    BY <1>1, <1>5, <2>1, <2>3, <2>8 DEF Stream!HmacFinal
  <2>10. Stream!Hashed(e \o g) # <<>>
    <3>1. PICK eg : eg = e \o g
      OBVIOUS
    <3>2. eg \in Seq(W)
      BY <2>7, <3>1
    <3> QED BY <2>6, <3>1, <3>2, SomethingIsHashed
  <2> QED BY <2>9, <2>10
<1>7. Stream!Md5AbsorbsThePaddedMessage'
  <2>1. Stream!Md5Final(md5).blocks = Stream!Cut(Stream!Padded(m, Stream!LowFirst(Len(m))))
    BY <1>3, <1>4, Md5FinalAbsorbs
  <2> QED BY <1>1, <1>2, <1>4, <1>6, <2>1 DEF Stream!Md5AbsorbsThePaddedMessage
<1>8. Stream!ShaAbsorbsThePaddedMessage'
  <2>1. Stream!ShaFinal(sha) = Stream!Hashed(m)
    BY <1>3, <1>4, ShaFinalAbsorbs
  <2>2. sha'.blocks = Stream!ShaFinal(sha)
    BY <1>1, <1>3 DEF ShaIs, Contexts
  <2> QED BY <1>1, <1>2, <2>1, <2>2 DEF Stream!ShaAbsorbsThePaddedMessage
<1>9. Stream!HmacIsTheNestedHash'
  <2>1. PICK k : k = ShortKey(key) \o Stream!Copies(Stream!Zero, B)
    OBVIOUS
  <2>2. e = [i \in 1 .. B |-> <<"0x5c", k[i]>>] /\ p = [i \in 1 .. B |-> <<"0x36", k[i]>>]
    BY <1>2, <1>5, <2>1 DEF Padding
  <2>3. ((IF Len(key) > B THEN Stream!Digest(Stream!Hashed(key)) ELSE key)
           \o Stream!Copies(Stream!Zero, B))' = k
    BY <1>1, <2>1 DEF ShortKey
  <2> QED BY <1>1, <1>2, <1>5, <1>6, <2>2, <2>3 DEF Stream!HmacIsTheNestedHash
<1> QED BY <1>1, <1>4, <1>6, <1>7, <1>8, <1>9 DEF StreamInd, StreamHolds

\* However a message is cut into pieces, MD5, SHA-256 and HMAC compress the blocks that
\* RFC 1321, FIPS 180 and RFC 2104 ask for, whatever the lengths of message and key, and
\* of pieces on each of which __md5_update__ comes back, as it does below M - B bytes.
THEOREM HashesAbsorbTheMessage == Spec => []HashesFollowTheStandards
<1> DEFINE Ind == part = "stream" => StreamInd
<1>1. Init => Ind
  BY DataAssumption, StreamInitInd DEF Init
<1>2. Ind /\ [Next]_vars => Ind'
  <2> SUFFICES ASSUME Ind, [Next]_vars, part' = "stream" PROVE StreamInd'
    OBVIOUS
  <2>1. CASE StreamStep
    BY <2>1, DataAssumption, UpdateInd, FinalInd DEF StreamStep, Stream!Next
  <2>2. CASE MapStep \/ PoolStep \/ KeyStep \/ UNCHANGED vars
    <3>1. part = "stream" /\ UNCHANGED <<length, key, md5, sha, inner, done>>
      BY <2>2 DEF MapStep, PoolStep, KeyStep, vars, streamVars
    <3> QED BY <3>1 DEF StreamInd, Absorbing, StreamHolds, Padding, ShortKey,
              Stream!Md5AbsorbsThePaddedMessage, Stream!ShaAbsorbsThePaddedMessage,
              Stream!HmacIsTheNestedHash, Stream!LoopEnds, Md5Is, ShaIs
  <2> QED BY <2>1, <2>2 DEF Next
<1>3. Ind => HashesFollowTheStandards
  BY DEF HashesFollowTheStandards, StreamInd, StreamHolds
<1> QED BY <1>1, <1>2, <1>3, PTL DEF Spec
=============================================================================
