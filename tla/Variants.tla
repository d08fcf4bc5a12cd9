------------------------------ MODULE Variants ------------------------------
(***************************************************************************)
(* The keys of src/hashmap.c: how a C value becomes a HashMapVariant, and  *)
(* the equality and the hash of variants.  HashMap takes equal variants    *)
(* for one element with one hash; this module checks that they are.        *)
(*                                                                         *)
(* Integers of 32 and 64 bits are scaled to Narrow and Wide bits.  A float *)
(* is the name of a bit pattern; a string is an address with a text.  FNV  *)
(* is taken to be injective on the bytes it reads.                         *)
(***************************************************************************)
EXTENDS Integers, FiniteSets

CONSTANTS
    Narrow, Wide,      \* bits of an int and of a long long
    Texts, Addresses

Null == "NULL"

VariantAssumption ==
    /\ {Narrow, Wide} \subseteq Nat \ {0} /\ Narrow < Wide
    /\ Null \notin Texts \cup Addresses

VARIABLES
    longBits,          \* bits of a long: Wide on Unix, Narrow on Windows
    c, d               \* two values of the program

\* The numbers of w bits: 2 ^ w of them, one half negative if they are signed.
Half(w) == LET p[i \in 0 .. w - 1] == IF i = 0 THEN 1 ELSE 2 * p[i - 1] IN p[w - 1]
Size(w) == 2 * Half(w)
Signed(w) == -Half(w) .. Half(w) - 1
Unsigned(w) == 0 .. Size(w) - 1

NullString == [at |-> Null, text |-> Null]
Floats == {"0.0", "-0.0", "1.5", "nan", "nan'"}
NaNs == {"nan", "nan'"}

\* The C types that HASHMAP_GENERIC_VAR tells apart, with their values.
CTypes == {"int", "long", "long long", "unsigned", "unsigned long", "unsigned long long",
           "float", "double", "char *", "void *"}

CValues(t) ==
    CASE t = "int" -> Signed(Narrow) [] t = "long" -> Signed(longBits)
      [] t = "long long" -> Signed(Wide) [] t = "unsigned" -> Unsigned(Narrow)
      [] t = "unsigned long" -> Unsigned(longBits) [] t = "unsigned long long" -> Unsigned(Wide)
      [] t \in {"float", "double"} -> Floats
      [] t = "char *" -> [at : Addresses, text : Texts] \cup {NullString}
      [] t = "void *" -> Addresses \cup {Null}

-----------------------------------------------------------------------------
(* The conversions *)

IntType(w) == IF w = Narrow THEN "INT32" ELSE "INT64"
UintType(w) == IF w = Narrow THEN "UINT32" ELSE "UINT64"

\* The type each __hashmap_var_...__ gives its variant.
Type(t) ==
    CASE t = "int" -> "INT32" [] t = "long" -> IntType(longBits) [] t = "long long" -> "INT64"
      [] t = "unsigned" -> "UINT32" [] t = "unsigned long" -> UintType(longBits)
      [] t = "unsigned long long" -> "UINT64" [] t = "float" -> "FLOAT"
      [] t = "double" -> "DOUBLE" [] t = "char *" -> "STRING" [] t = "void *" -> "POINTER"

\* v as a two's complement number of w bits.
Wrapped(v, w) == ((v + Half(w)) % Size(w)) - Half(w)

\* HASHMAP_GENERIC_VAR of x.
Var(x) ==
    LET t == Type(x.ctype)
    IN  [type |-> t,
         as |-> CASE t = "INT32" -> Wrapped(x.val, Narrow) [] t = "INT64" -> Wrapped(x.val, Wide)
                  [] t = "UINT32" -> x.val % Size(Narrow) [] t = "UINT64" -> x.val % Size(Wide)
                  [] OTHER -> x.val]

-----------------------------------------------------------------------------
(* Equality, hash and copy *)

\* The machine's == on floats.
SameFloat(f, g) == f \notin NaNs /\ g \notin NaNs /\ (f = g \/ {f, g} = {"0.0", "-0.0"})

\* __hashmap_variant_equals__
Equals(x, y) ==
    /\ x.type = y.type /\ x.type # "NULL"
    /\ CASE x.type = "STRING" ->
              IF NullString \in {x.as, y.as} THEN x.as.at = y.as.at ELSE x.as.text = y.as.text
         [] x.type \in {"FLOAT", "DOUBLE"} -> {x.as, y.as} \subseteq NaNs \/ SameFloat(x.as, y.as)
         [] OTHER -> x.as = y.as

\* Hashes the bit pattern of every float.
Faulty_FloatBytes(f) == f

\* The bytes that are hashed for a float that is a number.
FloatBytes(f) == IF f = "-0.0" THEN "0.0" ELSE f

\* __hashmap_hash__; the same bits of different widths are different bytes.
Hash(x) ==
    CASE x.type = "NULL" -> <<"zero">>
      [] x.type = "STRING" -> <<"fnv", "text", x.as.text>>
      [] x.type = "POINTER" -> <<"pointer", x.as>>
      [] x.type \in {"FLOAT", "DOUBLE"} ->
            IF x.as \in NaNs THEN <<"nan">> ELSE <<"fnv", x.type, FloatBytes(x.as)>>
      [] x.type \in {"INT32", "UINT32"} -> <<"fnv", "narrow", x.as % Size(Narrow)>>
      [] OTHER -> <<"fnv", "wide", x.as % Size(Wide)>>

\* What __hashmap_add__ and its siblings accept as a key.
IsKey(x) ==
    CASE x.type = "NULL" -> FALSE [] x.type = "STRING" -> x.as # NullString
      [] x.type = "POINTER" -> x.as # Null [] OTHER -> TRUE

\* __hashmap_variant_copy__: strdup gives an address of its own, or fails.
Copies(x) ==
    IF x.type = "STRING" /\ x.as # NullString
    THEN {[x EXCEPT !.as.at = a] : a \in Addresses} \cup {[x EXCEPT !.type = "NULL"]}
    ELSE {x}

-----------------------------------------------------------------------------
(* The program picks any two values. *)
Init ==
    /\ longBits \in {Narrow, Wide}
    /\ \E t \in CTypes : \E v \in CValues(t) : c = [ctype |-> t, val |-> v]
    /\ \E t \in CTypes : \E v \in CValues(t) : d = [ctype |-> t, val |-> v]

Next == UNCHANGED <<longBits, c, d>>

Spec == Init /\ [][Next]_<<longBits, c, d>>

\* Equality of the program's own values, a NaN being itself.
SameValue ==
    IF c.ctype = "char *" THEN c.val.text = d.val.text
    ELSE IF c.ctype \in {"float", "double"}
         THEN {c.val, d.val} \subseteq NaNs \/ SameFloat(c.val, d.val)
    ELSE c.val = d.val

\* A key is found again under an equal value of its C type and under no other:
\* no conversion to a variant loses bits that tell two keys apart, on a system
\* with long of either width, and -0.0 and the NaNs are keys like the others.
KeysAreDistinguished ==
    c.ctype = d.ctype => (Equals(Var(c), Var(d)) <=> SameValue)

\* Equal keys are looked for in the same bucket, with every key it accepts.
EqualKeysHashAlike ==
    (IsKey(Var(c)) /\ IsKey(Var(d)) /\ Equals(Var(c), Var(d))) => Hash(Var(c)) = Hash(Var(d))

\* The copy that a node keeps of a key equals the key and hashes like it, so
\* that the caller may free or change its own; a failed copy is told apart.
CopiesAreEqual ==
    \A x \in Copies(Var(c)) :
        IF x.type = "NULL" THEN Var(c).type = "STRING"
        ELSE Equals(x, Var(c)) /\ (IsKey(Var(c)) => IsKey(x) /\ Hash(x) = Hash(Var(c)))
=============================================================================
