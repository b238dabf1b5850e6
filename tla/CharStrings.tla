----------------------------- MODULE CharStrings -----------------------------
(***************************************************************************)
(* A process that uses a string of hds.h (Hds) or one of dstr.h (Dstr),    *)
(* over the same memory, and the hash of the latter (Hash).  A dstr, which *)
(* has no header, has its own limit.                                       *)
(***************************************************************************)
EXTENDS Hds, Hash

CONSTANTS
    DstrMax,    \* the allocator's limit on the block of a dstr
    FmtMax,     \* the size of max_fmt_print, 8192 in the code
    Beyond,     \* bound on how far an n of dstr.h goes beyond its source
    Code        \* the number that a character is, negative ones among them

\* The buffer of dstr_printf has room for a NUL (dstr.h:97-104).
ASSUME FormatAssumption == FmtMax \in Nat \ {0} /\ DstrMax \in Nat /\ Beyond \in Nat

ASSUME CodeAssumption == Code \in [Elem -> Int]

VARIABLES dstr, text, intact

Dstr == INSTANCE Dstr WITH PtrMax <- DstrMax, SizeMax <- 2 * DstrMax + 1

-----------------------------------------------------------------------------
(* The properties of dstr.h, see module Dstr *)

DstrFits == Dstr!Fits
DstrSpelled == Dstr!Spelled
DstrIsCString == Dstr!IsCString

\* hash_str is the polynomial of the bytes in 31 modulo the width: whether
\* char is signed, and where the sums wrap on the way, makes no difference
\* (hash.h:7-14).
HashIsPolynomial ==
    LET s == [i \in DOMAIN text |-> Code[text[i]]]
        n == Len(text)
    IN  hash_str(s, n) = Polynomial(s, n) % HashMod
=============================================================================
