----------------------------- MODULE HashStream -----------------------------
(***************************************************************************)
(* How src/md5.c and src/sha256.c turn a message that arrives in pieces    *)
(* into the blocks they compress: buffering, padding, the length field,    *)
(* and HMAC on top.  The compression functions stay uninterpreted: a hash  *)
(* state is the sequence of the blocks it has absorbed, a digest stands    *)
(* for such a sequence.  The two hashes and the HMAC get the same pieces.  *)
(*                                                                         *)
(* Blocks have B bytes instead of 64, L of them for the length instead of  *)
(* 8; a word has M values instead of 2^32, and M divides the length in     *)
(* bits of some number of blocks.  L is 2: a byte for each word of it.     *)
(***************************************************************************)
EXTENDS Integers, Sequences

CONSTANTS
    B, M,
    D,             \* bytes of a digest, at most B
    KeyLengths,    \* lengths of HMAC keys considered
    Pieces,        \* lengths of the pieces, below M
    MaxLength      \* bound: bytes of a message

L == 2

StreamAssumption ==
    /\ {B, M, D} \subseteq Nat \ {0} /\ L < B /\ D <= B /\ \E q \in 1 .. M : M = 8 * B * q
    /\ KeyLengths \subseteq Nat /\ Pieces \subseteq 0 .. M - 1 /\ MaxLength \in Nat

VARIABLES
    length,        \* bytes of the message so far
    key,           \* of the HMAC
    md5, sha,      \* the contexts
    inner,         \* the inner context of the HMAC
    done           \* the outer context's blocks after hmac_sha256_final, or <<>>

vars == <<length, key, md5, sha, inner, done>>

Bytes(what, n) == [i \in 1 .. n |-> <<what, i>>]
Copies(x, n) == [i \in 1 .. n |-> x]
MessageBytes(from, n) == [i \in 1 .. n |-> <<"message", from + i>>]
One == <<"0x80", 0>>
Zero == <<"zero", 0>>
Word(v) == <<"word", v>>

-----------------------------------------------------------------------------
(* md5.c *)

\* __md5_init__
Md5Init == [low |-> 0, high |-> 0, buffer |-> Copies(Zero, B), blocks |-> <<>>]

\* Forgets the carry.
Faulty_Carry(low, bits) == 0

\* Line 27: the low word has wrapped.
Carry(low, bits) == IF low < bits THEN 1 ELSE 0

\* memcpy of x to place index (from 0) of the buffer
Put(buffer, index, x) ==
    [i \in 1 .. B |-> IF i - index \in DOMAIN x THEN x[i - index] ELSE buffer[i]]

\* Lines 32 to 34: `i + 64 <= length' in a word, with i from partlen on.  For a piece of
\* almost M bytes the sum wraps before it is more than the length, time after time: the
\* loop reads past the piece and never ends.
LoopEnds(c, n) ==
    LET partlen == B - ((c.low \div 8) % B)
    IN  n < partlen \/ partlen + ((n - partlen) \div B) * B + B < M

\* The whole blocks of x.
Cut(x) == [k \in 1 .. Len(x) \div B |-> SubSeq(x, (k - 1) * B + 1, k * B)]

\* __md5_update__, of a piece on which its loop ends.
Md5Update(c, input) ==
    LET n == Len(input)
        index == (c.low \div 8) % B
        partlen == B - index
        bits == (n * 8) % M
        low == (c.low + bits) % M
        rest == SubSeq(input, partlen + 1, n)
        whole == (Len(rest) \div B) * B
        first == Put(c.buffer, index, SubSeq(input, 1, partlen))
    IN  [low |-> low,
         high |-> (c.high + Carry(low, bits) + n \div (M \div 8)) % M,
         buffer |-> IF n >= partlen THEN Put(first, 0, SubSeq(rest, whole + 1, Len(rest)))
                    ELSE Put(c.buffer, index, input),
         blocks |-> IF n >= partlen THEN c.blocks \o <<first>> \o Cut(rest) ELSE c.blocks]

PadLength(index) == IF index < B - L THEN B - L - index ELSE 2 * B - L - index

\* __md5_finalize__: the length is the one before the padding, low word first.
Md5Final(c) ==
    LET padding == <<One>> \o Copies(Zero, B - 1)
        padded == Md5Update(c, SubSeq(padding, 1, PadLength((c.low \div 8) % B)))
    IN  Md5Update(padded, <<Word(c.low), Word(c.high)>>)

-----------------------------------------------------------------------------
(* sha256.c *)

\* sha256_init
ShaInit == [bits |-> 0, fill |-> 0, block |-> Copies(Zero, B), blocks |-> <<>>]

\* Lines 43 to 45.
Absorbed(c, block) ==
    [c EXCEPT !.blocks = Append(@, block), !.block = block, !.fill = 0,
              !.bits = (@ + 8 * B) % (M * M)]

ShaByte(c, x) ==
    LET block == Put(c.block, c.fill, <<x>>)
    IN  IF c.fill + 1 = B THEN Absorbed(c, block)
        ELSE [c EXCEPT !.block = block, !.fill = @ + 1]

\* sha256_update, byte by byte.
ShaUpdate(c, input) ==
    LET d[i \in 0 .. Len(input)] == IF i = 0 THEN c ELSE ShaByte(d[i - 1], input[i])
    IN  d[Len(input)]

\* No room for the length after `index' bytes, 0x80 included.
NoRoom(index) == index > B - L

\* sha256_final: one block or two, high word of the length first.
ShaFinal(c) ==
    LET index == c.fill + 1
        marked == Put(c.block, c.fill, <<One>>)
        full == Put(marked, index, Copies(Zero, B - index))
        bits == (c.bits + c.fill * 8) % (M * M)
        base == IF NoRoom(index) THEN Copies(Zero, B)
                ELSE Put(marked, index, Copies(Zero, B - L - index))
        last == Put(base, B - L, <<Word(bits \div M), Word(bits % M)>>)
    IN  c.blocks \o (IF NoRoom(index) THEN <<full>> ELSE <<>>) \o <<last>>

\* The digest of absorbed blocks, its D bytes.
Digest(blocks) == [i \in 1 .. D |-> <<"digest", <<i, blocks>> >>]

-----------------------------------------------------------------------------
(* HMAC *)

\* A key longer than a block is hashed; zeros fill it up.
Normalized(k) ==
    LET short == IF Len(k) > B THEN Digest(ShaFinal(ShaUpdate(ShaInit, k))) ELSE k
    IN  short \o Copies(Zero, B - Len(short))

Pad(k, mask) == [i \in 1 .. B |-> <<mask, Normalized(k)[i]>>]

\* hmac_sha256_init
HmacInit(k) == ShaUpdate(ShaInit, Pad(k, "0x36"))

\* hmac_sha256_final: what the outer hash absorbs.
HmacFinal(k, c) ==
    ShaFinal(ShaUpdate(ShaUpdate(ShaInit, Pad(k, "0x5c")), Digest(ShaFinal(c))))

-----------------------------------------------------------------------------
(* The program hashes a message piece by piece, and ends at any time. *)

Init ==
    /\ length = 0 /\ key \in {Bytes("key", n) : n \in KeyLengths}
    /\ md5 = Md5Init /\ sha = ShaInit /\ inner = HmacInit(key) /\ done = <<>>

\* The three update functions; md5_file and sha256_file call them in a loop.  A call that
\* does not come back is no step.
Update(n) ==
    /\ done = <<>> /\ length + n <= MaxLength /\ LoopEnds(md5, n)
    /\ length' = length + n
    /\ LET piece == MessageBytes(length, n)
       IN  /\ md5' = Md5Update(md5, piece) /\ sha' = ShaUpdate(sha, piece)
           /\ inner' = ShaUpdate(inner, piece)
    /\ UNCHANGED <<key, done>>

\* The three final functions, once.
Final ==
    /\ done = <<>> /\ done' = HmacFinal(key, inner)
    /\ md5' = Md5Final(md5) /\ sha' = [sha EXCEPT !.blocks = ShaFinal(sha)]
    /\ UNCHANGED <<length, key, inner>>

Next == (\E n \in Pieces : Update(n)) \/ Final

Spec == Init /\ [][Next]_vars

-----------------------------------------------------------------------------
(* Properties *)

\* The standards' padding of a message of n bytes before this end: 0x80, the
\* fewest zeros, and the length.
Padded(bytes, end) ==
    bytes \o <<One>> \o Copies(Zero, (2 * B - L - 1 - (Len(bytes) % B)) % B) \o end

LowFirst(n) == <<Word((8 * n) % M), Word(((8 * n) \div M) % M)>>
HighFirst(n) == <<LowFirst(n)[2], LowFirst(n)[1]>>
Hashed(bytes) == Cut(Padded(bytes, HighFirst(Len(bytes))))

\* Each call of __md5_update__ comes back, for pieces of less than M - B bytes (2^32 - 64
\* in the code; md5_string cuts the length of a longer text to a word).  And however the
\* message is cut into such pieces, short ones, empty ones or ones of many blocks, or
\* longer ones that come back, __md5_finalize__ has compressed the blocks RFC 1321 asks
\* for: nothing skipped at a block's end, padding of one block or two, and the length
\* with the carry between its two words.
Md5AbsorbsThePaddedMessage ==
    /\ done = <<>> => \A n \in Pieces : n < M - B => LoopEnds(md5, n)
    /\ done # <<>> => md5.blocks = Cut(Padded(MessageBytes(0, length), LowFirst(length)))

\* The same for sha256_final and FIPS 180.
ShaAbsorbsThePaddedMessage ==
    done # <<>> => sha.blocks = Hashed(MessageBytes(0, length))

\* hmac_sha256_final has computed RFC 2104's H(K^opad, H(K^ipad, message)),
\* with keys shorter than a block, as long as one, and longer.
HmacIsTheNestedHash ==
    LET k == (IF Len(key) > B THEN Digest(Hashed(key)) ELSE key) \o Copies(Zero, B)
        pad(mask) == [i \in 1 .. B |-> <<mask, k[i]>>]
    IN  done # <<>> =>
            done = Hashed(pad("0x5c") \o Digest(Hashed(pad("0x36") \o MessageBytes(0, length))))
=============================================================================
