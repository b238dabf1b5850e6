---------------------------- MODULE UnityAsserts ----------------------------
(***************************************************************************)
(* The assertions of unity/unity.c: for a call c of one of them, Fails(c)  *)
(* says whether it fails the test, and Report(c) what it then prints for   *)
(* the two numbers it compared.                                            *)
(*                                                                         *)
(* A number given to an assertion is a bit pattern of UNITY_INT, which the *)
(* macro casts to the type it is named for, `width' bits wide; style is    *)
(* the UNITY_DISPLAY_STYLE of that type.  A pointer is NULL or what it     *)
(* points to, and `same' says whether expected and actual are the same     *)
(* pointer.  A character is a number, a string has no NUL inside.          *)
(***************************************************************************)
EXTENDS Integers, Sequences, FiniteSetsExt

CONSTANTS
    NULL,
    ByteBits,       \* the bits of a char, a nibble has half of them
    IntBits,        \* UNITY_INT_WIDTH
    Printable,      \* the characters that are printed as they are
    NaN, Inf, NegInf,
    FloatMax,       \* the largest finite float
    Precision       \* 1 / UNITY_FLOAT_PRECISION

\* A nibble is half a char and an int no narrower than a char; infinities, NaN
\* and NULL are none of the numbers and arrays they are told from.
ASSUME AssertsAssumption ==
    /\ ByteBits \in Nat /\ ByteBits % 2 = 0 /\ ByteBits > 0
    /\ IntBits \in Nat /\ IntBits >= ByteBits
    /\ FloatMax \in Nat /\ Precision \in Nat \ {0}
    /\ {NaN, Inf, NegInf} \cap Int = {}
    /\ NaN # Inf /\ NaN # NegInf /\ Inf # NegInf
    /\ NULL \notin Seq(Int)

\* b ^ n
Power(b, n) ==
    LET power[i \in 0 .. n] == IF i = 0 THEN 1 ELSE b * power[i - 1]
    IN  power[n]

IntMod == Power(2, IntBits)
NUL == 0

-----------------------------------------------------------------------------
(* Integers *)

Unsigned(x, w) == x % Power(2, w)
Signed(x, w) ==
    LET u == Unsigned(x, w)
    IN  IF u < Power(2, w - 1) THEN u ELSE u - Power(2, w)
IsSigned(style) == style \in {"INT", "CHAR"}

\* The casts of the macros, and what an element of an array is read as: an
\* unsigned type as wide as UNITY_INT does not fit into it.
Cast(x, style, w) ==
    IF IsSigned(style) \/ w = IntBits THEN Signed(x, w) ELSE Unsigned(x, w)

Bit(x, i) == (x \div Power(2, i)) % 2 = 1
UnityAssertBits(c) ==
    \E i \in 0 .. IntBits - 1 : Bit(c.mask, i) /\ Bit(c.expected, i) # Bit(c.actual, i)

UnityAssertEqualNumber(c) ==
    Cast(c.expected, c.style, c.width) # Cast(c.actual, c.style, c.width)

\* compare is a set of the flags "EQUAL_TO", "GREATER_THAN", "SMALLER_THAN"
\* and "NOT_EQUAL"; the numbers are compared as UNITY_INT or UNITY_UINT.
UnityAssertGreaterOrLessOrEqualNumber(c) ==
    LET Val(x) == IF IsSigned(c.style) THEN Signed(x, c.width) ELSE Unsigned(x, c.width)
        actual == Val(c.actual)
        threshold == Val(c.threshold)
    IN  \/ threshold = actual /\ "EQUAL_TO" \notin c.compare
        \/ actual > threshold /\ "SMALLER_THAN" \in c.compare
        \/ actual < threshold /\ "GREATER_THAN" \in c.compare

\* A variant with a mistake: the difference is taken as a signed number.
GapSigned(e, a, style) ==
    IF a > e THEN Signed(a - e, IntBits) ELSE Signed(e - a, IntBits)

\* The difference as a UNITY_UINT, taken from the larger one.
Gap(e, a, style) ==
    LET Val(x) == IF IsSigned(style) THEN x ELSE x % IntMod
    IN  IF Val(a) > Val(e) THEN (a - e) % IntMod ELSE (e - a) % IntMod

\* The macro casts the tolerance as well, to the unsigned type of that width:
\* a larger one loses its high bits.
Tolerance(c) == Unsigned(c.delta, c.width)

UnityAssertNumbersWithin(c) ==
    Gap(Cast(c.expected, c.style, c.width), Cast(c.actual, c.style, c.width),
        c.style) > Tolerance(c)

-----------------------------------------------------------------------------
(* Arrays *)

\* UnityIsOneArrayNull, for pointers that differ.
UnityIsOneArrayNull(c) == c.expected = NULL \/ c.actual = NULL

\* The assertions about arrays: an array without elements is an error,
\* the same array is not looked into.
ArrayFails(c, Differ(_, _)) ==
    \/ c.num_elements = 0
    \/ /\ ~c.same
       /\ \/ UnityIsOneArrayNull(c)
          \/ \E i \in 1 .. c.num_elements :
                Differ(c.expected[IF c.array_to_array THEN i ELSE 1], c.actual[i])

UnityAssertEqualIntArray(c) ==
    LET Differ(e, a) == Cast(e, c.style, c.width) # Cast(a, c.style, c.width)
    IN  ArrayFails(c, Differ)

UnityAssertNumbersArrayWithin(c) ==
    LET Differ(e, a) ==
          Gap(Cast(e, c.style, c.width), Cast(a, c.style, c.width), c.style) > Tolerance(c)
    IN  ArrayFails(c, Differ)

-----------------------------------------------------------------------------
(* Strings and memory *)

CharAt(s, i) == IF i =< Len(s) THEN s[i] ELSE NUL

\* The loop over two strings, at most up to the character n.
DifferUpTo(e, a, n) == \E i \in 1 .. n : CharAt(e, i) # CharAt(a, i)
Whole(e, a) == Max({Len(e), Len(a)})

UnityAssertEqualString(c) ==
    /\ ~c.same
    /\ \/ UnityIsOneArrayNull(c)
       \/ DifferUpTo(c.expected, c.actual, Whole(c.expected, c.actual))

UnityAssertEqualStringLen(c) ==
    ~c.same /\ (UnityIsOneArrayNull(c) \/ DifferUpTo(c.expected, c.actual, c.length))

\* An element may be NULL, which equals only NULL.
UnityAssertEqualStringArray(c) ==
    LET Differ(e, a) ==
          IF e = NULL \/ a = NULL THEN e # a ELSE DifferUpTo(e, a, Whole(e, a))
    IN  ArrayFails(c, Differ)

UnityAssertNotEqualString(c) ==
    \/ c.same
    \/ /\ ~UnityIsOneArrayNull(c)
       /\ ~DifferUpTo(c.expected, c.actual, Whole(c.expected, c.actual))

UnityAssertNotEqualStringLen(c) ==
    \/ c.length = 0
    \/ c.same
    \/ ~UnityIsOneArrayNull(c) /\ ~DifferUpTo(c.expected, c.actual, c.length)

\* The bytes of an element are compared one after the other; expected starts
\* again for each element unless it is an array as well.
UnityAssertEqualMemory(c) ==
    \/ c.num_elements = 0
    \/ c.length = 0
    \/ /\ ~c.same
       /\ \/ UnityIsOneArrayNull(c)
          \/ \E i \in 1 .. c.num_elements * c.length :
                c.actual[i] # c.expected[IF c.array_to_array THEN i
                                         ELSE ((i - 1) % c.length) + 1]

UnityAssertNotEqualMemory(c) ==
    \/ c.length = 0
    \/ c.same
    \/ /\ ~UnityIsOneArrayNull(c)
       /\ \A i \in 1 .. c.length : c.expected[i] = c.actual[i]

-----------------------------------------------------------------------------
(* Floats, with exact arithmetic up to FloatMax.  A tolerance is counted in *)
(* units of 1 / Precision, so that expected * UNITY_FLOAT_PRECISION is      *)
(* expected units.                                                          *)

Infinite == {Inf, NegInf}
Finite(x) == x \notin Infinite \cup {NaN}
Size(x) == IF Finite(x) THEN Max({x, -x}) ELSE IF x = NaN THEN NaN ELSE Inf

\* x < y
Less(x, y) ==
    /\ x # NaN /\ y # NaN /\ x # y
    /\ x = NegInf \/ y = Inf \/ (Finite(x) /\ Finite(y) /\ x < y)

\* The difference is a finite number.
DiffFinite(x, y) == Finite(x) /\ Finite(y) /\ Size(x - y) =< FloatMax

UnityFloatsWithin(units, e, a) ==
    \/ e \in Infinite /\ e = a
    \/ e = NaN /\ a = NaN
    \/ DiffFinite(a, e) /\ ~Less(Size(units), Precision * Size(a - e))

UnityAssertFloatsWithin(c) ==
    ~UnityFloatsWithin(Precision * c.delta, c.expected, c.actual)

\* The tolerance of TEST_ASSERT_EQUAL_FLOAT is expected * UNITY_FLOAT_PRECISION.
WithinOwnSize(c) == UnityFloatsWithin(c.expected, c.expected, c.actual)

UnityAssertFloatsNotWithin(c) ==
    UnityFloatsWithin(Precision * c.delta, c.expected, c.actual)

\* Every element is given the tolerance of its own size on top of delta.
UnityAssertWithinFloatArray(c) ==
    LET Units(e) == IF Finite(e) THEN Precision * Size(c.delta) + Size(e) ELSE Size(e)
        Differ(e, a) == ~UnityFloatsWithin(Units(e), e, a)
    IN  \/ c.num_elements = 0
        \/ c.delta = NaN
        \/ c.delta \notin Infinite /\ ArrayFails(c, Differ)

UnityAssertGreaterOrLessFloat(c) ==
    /\ \/ "SMALLER_THAN" \in c.compare /\ ~Less(c.actual, c.threshold)
       \/ "GREATER_THAN" \in c.compare /\ ~Less(c.threshold, c.actual)
    /\ ~("EQUAL_TO" \in c.compare
         /\ UnityFloatsWithin(Size(c.threshold), c.threshold, c.actual))

UnityAssertFloatSpecial(c) ==
    c.should_be # CASE c.trait = "INF"     -> c.actual = Inf
                    [] c.trait = "NEG_INF" -> c.actual = NegInf
                    [] c.trait = "NAN"     -> c.actual = NaN
                    [] c.trait = "DET"     -> Finite(c.actual)

-----------------------------------------------------------------------------
(* What is printed.  A digit is a number.                                   *)

\* The digits of a UNITY_UINT: the loop looks for the largest power of ten
\* that is not larger, and for 10 ^ 0 if there is none.
UnityPrintNumberUnsigned(n) ==
    LET k == Min({i \in 0 .. IntBits : n \div Power(10, i) =< 9})
    IN  [i \in 1 .. k + 1 |-> (n \div Power(10, k + 1 - i)) % 10]

Text(prefix, minus, digits) == [prefix |-> prefix, minus |-> minus, digits |-> digits]

\* A variant with a mistake: the least number is printed without a sign.
UnityPrintNumberOverflow(n) ==
    Text("", n < 0 /\ n # -(IntMod \div 2), UnityPrintNumberUnsigned(Max({n, -n}) % IntMod))

\* A negative number is negated as a UNITY_UINT.
UnityPrintNumber(n) ==
    Text("", n < 0, UnityPrintNumberUnsigned((IF n < 0 THEN -n ELSE n) % IntMod))

UnityPrintNumberHex(n, nibbles) ==
    LET base == Power(2, ByteBits \div 2)
    IN  [i \in 1 .. nibbles |-> (n \div Power(base, nibbles - i)) % base]

UnityPrintByStyle(x, style, w) ==
    CASE style = "CHAR" -> IF x \in Printable THEN Text("'", FALSE, << x >>)
                           ELSE Text("x", FALSE, UnityPrintNumberHex(x % IntMod, 2))
      [] style = "INT"  -> UnityPrintNumber(x)
      [] style = "UINT" -> Text("", FALSE, UnityPrintNumberUnsigned(x % IntMod))
      [] style = "HEX"  -> Text("0x", FALSE, UnityPrintNumberHex(x % IntMod, 2 * (w \div ByteBits)))

\* The bits of a number that a mask selects, "X" for the others.
UnityPrintMask(mask, n) ==
    [i \in 1 .. IntBits |-> LET b == IntBits - i IN
        IF ~Bit(mask, b) THEN "X" ELSE IF Bit(n, b) THEN "1" ELSE "0"]

\* What a failed comparison prints for a number.
Printed(c, x) ==
    IF c.op = "BITS" THEN UnityPrintMask(c.mask, x)
    ELSE UnityPrintByStyle(Cast(x, c.style, c.width), c.style, c.width)

-----------------------------------------------------------------------------

\* Whether a call fails the test, by the function that the macro calls.
Fails(c) ==
    CASE c.op = "BITS"                 -> UnityAssertBits(c)
      [] c.op = "EQUAL"                -> UnityAssertEqualNumber(c)
      [] c.op = "COMPARE"              -> UnityAssertGreaterOrLessOrEqualNumber(c)
      [] c.op = "WITHIN"               -> UnityAssertNumbersWithin(c)
      [] c.op = "EQUAL_ARRAY"          -> UnityAssertEqualIntArray(c)
      [] c.op = "ARRAY_WITHIN"         -> UnityAssertNumbersArrayWithin(c)
      [] c.op = "EQUAL_STRING"         -> UnityAssertEqualString(c)
      [] c.op = "EQUAL_STRING_LEN"     -> UnityAssertEqualStringLen(c)
      [] c.op = "EQUAL_STRING_ARRAY"   -> UnityAssertEqualStringArray(c)
      [] c.op = "NOT_EQUAL_STRING"     -> UnityAssertNotEqualString(c)
      [] c.op = "NOT_EQUAL_STRING_LEN" -> UnityAssertNotEqualStringLen(c)
      [] c.op = "EQUAL_MEMORY"         -> UnityAssertEqualMemory(c)
      [] c.op = "NOT_EQUAL_MEMORY"     -> UnityAssertNotEqualMemory(c)
      [] c.op = "FLOAT_WITHIN"         -> UnityAssertFloatsWithin(c)
      [] c.op = "FLOAT_NOT_WITHIN"     -> UnityAssertFloatsNotWithin(c)
      [] c.op = "EQUAL_FLOAT"          -> ~WithinOwnSize(c)
      [] c.op = "NOT_EQUAL_FLOAT"      -> WithinOwnSize(c)
      [] c.op = "FLOAT_ARRAY"          -> UnityAssertWithinFloatArray(c)
      [] c.op = "FLOAT_COMPARE"        -> UnityAssertGreaterOrLessFloat(c)
      [] c.op = "FLOAT_SPECIAL"        -> UnityAssertFloatSpecial(c)

-----------------------------------------------------------------------------
(* The calls that can be made *)

Patterns == 0 .. IntMod - 1
Floats == (-FloatMax .. FloatMax) \cup {NaN, Inf, NegInf}
Strings == Seq(Int \ {NUL})

\* What a pointer to elements of S may be.
Pointers(S) == {NULL} \cup Seq(S)

Typed(c) ==
    /\ c.style \in {"INT", "UINT", "HEX", "CHAR"}
    /\ \E n \in 1 .. IntBits : c.width = n * ByteBits /\ c.width =< IntBits
    /\ c.style = "CHAR" => c.width = ByteBits

\* A call reads only what its pointers point to, and its pointers are the
\* same only if they point to the same.
Readable(c, expected, actual) ==
    /\ c.same \in BOOLEAN
    /\ c.same => c.expected = c.actual
    /\ c.expected = NULL /\ c.actual = NULL => c.same
    /\ NULL \notin {c.expected, c.actual} /\ ~c.same =>
          Len(c.expected) >= expected /\ Len(c.actual) >= actual

\* A call about two arrays with elements in S.
OfArrays(c, S) ==
    /\ c.num_elements \in Nat /\ c.array_to_array \in BOOLEAN
    /\ {c.expected, c.actual} \subseteq Pointers(S)
    /\ Readable(c, IF c.array_to_array THEN c.num_elements ELSE 1, c.num_elements)

\* The tolerance of the float expected is a finite float.
Tolerable(c, expected) ==
    Finite(c.delta) /\ Finite(expected) =>
        Precision * Size(c.delta) + Size(expected) =< Precision * FloatMax

Legal(c) ==
    \/ c.op = "BITS" /\ {c.mask, c.expected, c.actual} \subseteq Patterns
    \/ c.op = "EQUAL" /\ Typed(c) /\ {c.expected, c.actual} \subseteq Patterns
    \/ /\ c.op = "COMPARE" /\ Typed(c) /\ {c.threshold, c.actual} \subseteq Patterns
       /\ c.compare \in {{"GREATER_THAN"}, {"GREATER_THAN", "EQUAL_TO"},
                         {"SMALLER_THAN"}, {"SMALLER_THAN", "EQUAL_TO"}, {"NOT_EQUAL"}}
    \/ c.op = "WITHIN" /\ Typed(c) /\ {c.delta, c.expected, c.actual} \subseteq Patterns
    \/ c.op = "EQUAL_ARRAY" /\ Typed(c) /\ OfArrays(c, Patterns)
    \/ c.op = "ARRAY_WITHIN" /\ Typed(c) /\ c.delta \in Patterns /\ OfArrays(c, Patterns)
    \/ /\ c.op \in {"EQUAL_STRING", "NOT_EQUAL_STRING",
                    "EQUAL_STRING_LEN", "NOT_EQUAL_STRING_LEN"}
       /\ c.length \in Nat /\ {c.expected, c.actual} \subseteq {NULL} \cup Strings
       /\ Readable(c, 0, 0)
    \/ /\ c.op = "EQUAL_STRING_ARRAY" /\ OfArrays(c, {NULL} \cup Strings)
       /\ ~c.array_to_array /\ c.expected # NULL => c.expected[1] # NULL
    \/ /\ c.op = "EQUAL_MEMORY" /\ c.num_elements \in Nat /\ c.length \in Nat
       /\ c.array_to_array \in BOOLEAN /\ {c.expected, c.actual} \subseteq Pointers(Int)
       /\ Readable(c, IF c.array_to_array THEN c.num_elements * c.length ELSE c.length,
                      c.num_elements * c.length)
    \/ /\ c.op = "NOT_EQUAL_MEMORY" /\ c.length \in Nat
       /\ {c.expected, c.actual} \subseteq Pointers(Int)
       /\ Readable(c, c.length, c.length)
    \/ /\ c.op \in {"FLOAT_WITHIN", "FLOAT_NOT_WITHIN"}
       /\ c.delta \in -FloatMax .. FloatMax /\ {c.expected, c.actual} \subseteq Floats
    \/ c.op \in {"EQUAL_FLOAT", "NOT_EQUAL_FLOAT"} /\ {c.expected, c.actual} \subseteq Floats
    \/ /\ c.op = "FLOAT_ARRAY" /\ c.delta \in Floats /\ OfArrays(c, Floats)
       /\ c.expected # NULL => \A i \in DOMAIN c.expected : Tolerable(c, c.expected[i])
    \/ /\ c.op = "FLOAT_COMPARE" /\ {c.threshold, c.actual} \subseteq Floats
       /\ c.compare \in {{"GREATER_THAN"}, {"GREATER_THAN", "EQUAL_TO"},
                         {"SMALLER_THAN"}, {"SMALLER_THAN", "EQUAL_TO"}}
    \/ /\ c.op = "FLOAT_SPECIAL" /\ c.trait \in {"INF", "NEG_INF", "NAN", "DET"}
       /\ c.should_be \in BOOLEAN /\ c.actual \in Floats

-----------------------------------------------------------------------------
(* What is asked *)

\* The mathematical value of a number of the type style and w name.
Value(x, style, w) == IF IsSigned(style) THEN Signed(x, w) ELSE Unsigned(x, w)
Distance(x, y) == Max({x - y, y - x})

\* expected and actual differ by no more than delta, all of them numbers of the
\* type that is named, delta one without a sign.
Close(c, x, y) ==
    Distance(Value(x, c.style, c.width), Value(y, c.style, c.width))
        =< Value(c.delta, "UINT", c.width)

Compares(c, x, y) ==
    \/ x = y /\ "EQUAL_TO" \in c.compare
    \/ x > y /\ c.compare \cap {"GREATER_THAN", "NOT_EQUAL"} # {}
    \/ x < y /\ c.compare \cap {"SMALLER_THAN", "NOT_EQUAL"} # {}

Whether(c, Agree(_, _)) ==
    /\ c.num_elements > 0
    /\ \/ c.same
       \/ /\ c.expected # NULL /\ c.actual # NULL
          /\ \A i \in 1 .. c.num_elements :
                Agree(c.expected[IF c.array_to_array THEN i ELSE 1], c.actual[i])

SameText(s, t) ==
    IF s = NULL \/ t = NULL THEN s = t
    ELSE Len(s) = Len(t) /\ \A i \in DOMAIN s : s[i] = t[i]
UpTo(s, n) == IF s = NULL THEN NULL ELSE SubSeq(s, 1, Min({n, Len(s)}))
Element(s, k, n) == SubSeq(s, (k - 1) * n + 1, k * n)

Near(units, x, y) ==
    \/ x = y
    \/ Finite(x) /\ Finite(y) /\ Precision * Distance(x, y) =< units

\* What the name of the assertion promises about its arguments.
Holds(c) ==
    CASE c.op = "BITS" ->
            \A i \in 0 .. IntBits - 1 : Bit(c.mask, i) => (Bit(c.expected, i) <=> Bit(c.actual, i))
      [] c.op = "EQUAL" -> (c.expected - c.actual) % Power(2, c.width) = 0
      [] c.op = "COMPARE" ->
            Compares(c, Value(c.actual, c.style, c.width), Value(c.threshold, c.style, c.width))
      [] c.op = "WITHIN" -> Close(c, c.expected, c.actual)
      [] c.op = "EQUAL_ARRAY" ->
            LET Agree(x, y) == (x - y) % Power(2, c.width) = 0 IN Whether(c, Agree)
      [] c.op = "ARRAY_WITHIN" ->
            LET Agree(x, y) == Close(c, x, y) IN Whether(c, Agree)
      [] c.op = "EQUAL_STRING" -> SameText(c.expected, c.actual)
      [] c.op = "EQUAL_STRING_LEN" -> SameText(UpTo(c.expected, c.length), UpTo(c.actual, c.length))
      [] c.op = "EQUAL_STRING_ARRAY" -> Whether(c, SameText)
      [] c.op = "NOT_EQUAL_STRING" -> ~SameText(c.expected, c.actual)
      [] c.op = "NOT_EQUAL_STRING_LEN" ->
            c.length > 0 /\ ~SameText(UpTo(c.expected, c.length), UpTo(c.actual, c.length))
      [] c.op = "EQUAL_MEMORY" ->
            LET Agree(k) == Element(c.expected, IF c.array_to_array THEN k ELSE 1, c.length)
                              = Element(c.actual, k, c.length)
            IN  /\ c.num_elements > 0 /\ c.length > 0
                /\ \/ c.same
                   \/ /\ c.expected # NULL /\ c.actual # NULL
                      /\ \A k \in 1 .. c.num_elements : Agree(k)
      [] c.op = "NOT_EQUAL_MEMORY" ->
            /\ c.length > 0 /\ ~c.same
            /\ \/ NULL \in {c.expected, c.actual}
               \/ UpTo(c.expected, c.length) # UpTo(c.actual, c.length)
      [] c.op = "FLOAT_WITHIN" -> Near(Precision * Size(c.delta), c.expected, c.actual)
      [] c.op = "FLOAT_NOT_WITHIN" -> ~Near(Precision * Size(c.delta), c.expected, c.actual)
      [] c.op = "EQUAL_FLOAT" -> Near(Size(c.expected), c.expected, c.actual)
      [] c.op = "NOT_EQUAL_FLOAT" -> ~Near(Size(c.expected), c.expected, c.actual)
      [] c.op = "FLOAT_ARRAY" ->
            LET Units(x) == Precision * Size(c.delta) + (IF Finite(x) THEN Size(x) ELSE 0)
                Agree(x, y) == Near(Units(x), x, y)
            IN  /\ c.num_elements > 0 /\ c.delta # NaN
                /\ c.delta \in Infinite \/ Whether(c, Agree)
      [] c.op = "FLOAT_COMPARE" ->
            \/ "EQUAL_TO" \in c.compare /\ Near(Size(c.threshold), c.actual, c.threshold)
            \/ "GREATER_THAN" \in c.compare /\ Less(c.threshold, c.actual)
            \/ "SMALLER_THAN" \in c.compare /\ Less(c.actual, c.threshold)
      [] c.op = "FLOAT_SPECIAL" ->
            c.should_be <=> c.actual \in CASE c.trait = "INF"     -> {Inf}
                                           [] c.trait = "NEG_INF" -> {NegInf}
                                           [] c.trait = "NAN"     -> {NaN}
                                           [] c.trait = "DET"     -> -FloatMax .. FloatMax

\* The number that digits denote, read from the left.
Worth(digits, base) ==
    LET n[i \in 0 .. Len(digits)] ==
          IF i = 0 THEN 0 ELSE n[i - 1] * base + digits[i]
    IN  n[Len(digits)]

\* The number that a printed text stands for.
Denoted(t, style, w) ==
    LET n == Worth(t.digits, IF t.prefix = "" THEN 10 ELSE Power(2, ByteBits \div 2))
    IN  CASE t.prefix = "'" -> t.digits[1]
          [] t.prefix = "x" -> Signed(n, w)
          [] OTHER          -> IF t.minus THEN -n ELSE n
=============================================================================
