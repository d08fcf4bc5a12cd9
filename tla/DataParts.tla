----------------------------- MODULE DataParts -----------------------------
(***************************************************************************)
(* The data structures of the library side by side: the hash map, the      *)
(* variants that are its keys, the memory pool, and the hashes.  They      *)
(* share nothing: a behaviour is one of one part, and the variables of the *)
(* others are Off.                                                         *)
(***************************************************************************)
EXTENDS Integers, Sequences, FiniteSets

CONSTANTS
    Keys, Vals, Strings, Hashes, InitBuckets, MaxBuckets, Nothing, \* HashMap
    Narrow, Wide, Texts, Addresses,                                \* Variants
    Threads, Sizes, Limit, BlocksPerChunk, MaxPieces,              \* MemoryPool
    B, M, D, KeyLengths, Pieces, MaxLength,                        \* HashStream
    Off

VARIABLES
    part,
    table, bucket, count, hash, heap, alive, dict,
    longBits, c, d,
    cell, free_list, chunk_list, pieces, owned, pc, block, idx, size, serving,
    length, key, md5, sha, inner, done

mapVars == <<table, bucket, count, hash, heap, alive, dict>>
keyVars == <<longBits, c, d>>
poolVars == <<cell, free_list, chunk_list, pieces, owned, pc, block, idx, size, serving>>
streamVars == <<length, key, md5, sha, inner, done>>
vars == <<part, mapVars, keyVars, poolVars, streamVars>>

Map == INSTANCE HashMap
Key == INSTANCE Variants
Pool == INSTANCE MemoryPool WITH heap <- pieces, alive <- serving
Stream == INSTANCE HashStream

ASSUME DataAssumption ==
    /\ Map!HashMapAssumption /\ Key!VariantAssumption
    /\ Pool!MemoryAssumption /\ Stream!StreamAssumption

-----------------------------------------------------------------------------
MapOff ==
    /\ table = Off /\ bucket = Off /\ count = Off /\ hash = Off /\ heap = Off /\ alive = Off
    /\ dict = Off
KeyOff == longBits = Off /\ c = Off /\ d = Off
PoolOff ==
    /\ cell = Off /\ free_list = Off /\ chunk_list = Off /\ pieces = Off /\ owned = Off
    /\ pc = Off /\ block = Off /\ idx = Off /\ size = Off /\ serving = Off
StreamOff ==
    length = Off /\ key = Off /\ md5 = Off /\ sha = Off /\ inner = Off /\ done = Off

Init ==
    \/ part = "map" /\ Map!Init /\ KeyOff /\ PoolOff /\ StreamOff
    \/ part = "key" /\ Key!Init /\ MapOff /\ PoolOff /\ StreamOff
    \/ part = "pool" /\ Pool!Init /\ MapOff /\ KeyOff /\ StreamOff
    \/ part = "stream" /\ Stream!Init /\ MapOff /\ KeyOff /\ PoolOff

MapStep == part = "map" /\ Map!Next /\ UNCHANGED <<part, keyVars, poolVars, streamVars>>
KeyStep == part = "key" /\ Key!Next /\ UNCHANGED <<part, mapVars, poolVars, streamVars>>
PoolStep == part = "pool" /\ Pool!Next /\ UNCHANGED <<part, mapVars, keyVars, streamVars>>
StreamStep == part = "stream" /\ Stream!Next /\ UNCHANGED <<part, mapVars, keyVars, poolVars>>

Next == MapStep \/ KeyStep \/ PoolStep \/ StreamStep

Spec == Init /\ [][Next]_vars

-----------------------------------------------------------------------------
(* Properties *)

\* The hash map answers like a mathematical one: __hashmap_get__ finds the value last
\* added for a key, hashmap_iter visits each pair once and as many as are counted,
\* through growing, shrinking, clearing and each allocation that fails on the way.
LookupsAreRight ==
    part = "map" =>
        Map!BucketsArePowerOfTwo /\ Map!LookupsAreRight /\ Map!IterationVisitsEachPairOnce

\* The copies of strings that are allocated are exactly those the nodes own, after an
\* insertion that failed half way as after an update, a removal, a clear, a destroy.
StringsOwnedByNodes == part = "map" => Map!StringsOwnedByNodes

\* No thrashing: the removal after the map has grown for an element does not shrink it
\* back, the insertion after it has shrunk does not grow it back.
NoResizeIsUndone == [][part = "map" => Map!ResizesForLong]_vars

\* What HashMap takes for granted of its keys: values of a C type are told apart
\* whatever the width of long, equal keys have one hash (-0.0 and 0.0, and every
\* NaN), and the copy in a node equals its key.
EqualKeysHashAlike ==
    part = "key" => Key!KeysAreDistinguished /\ Key!EqualKeysHashAlike /\ Key!CopiesAreEqual

\* Each block of the memory pool is in one place, goes back to the class it was carved
\* for, and is as large as asked for; malloc's memory is that of the chunks and of the
\* large blocks in use, to the end.
EachBlockInOnePlace ==
    part = "pool" =>
        /\ Pool!TypeOK /\ Pool!EachBlockInOnePlace /\ Pool!HeadersNameTheClass
        /\ Pool!BlocksAreLargeEnough /\ Pool!MemoryAccountedFor

\* However a message is cut into pieces, MD5, SHA-256 and HMAC compress the blocks
\* their standards ask for, if the loop of __md5_update__ ends on each piece.
HashesFollowTheStandards ==
    part = "stream" =>
        /\ Stream!Md5AbsorbsThePaddedMessage /\ Stream!ShaAbsorbsThePaddedMessage
        /\ Stream!HmacIsTheNestedHash
=============================================================================
