-------------------------------- MODULE Hash --------------------------------
(* hash_str of src/hash.h: the characters are signed or unsigned as the     *)
(* platform has it; a byte has ByteMod values and the hash HashMod.         *)
EXTENDS Integers

CONSTANTS ByteMod, HashMod

\* uint8_t and uint32_t have values.
ASSUME HashAssumption == ByteMod \in Nat \ {0} /\ HashMod \in Nat \ {0}

\* A variant with a mistake: a negative character is added as it is.
ByteSigned(c) == c

\* (uint8_t)s[i]
Byte(c) == c % ByteMod

\* val after i characters.
hash_str(s, n) ==
    LET val[i \in 0 .. n] ==
          IF i = 0 THEN 0 ELSE (val[i - 1] * 31 + Byte(s[i])) % HashMod
    IN  val[n]

-----------------------------------------------------------------------------
(* What is asked: the polynomial of the bytes of s in 31                    *)

Power(x, n) ==
    LET power[i \in 0 .. n] == IF i = 0 THEN 1 ELSE x * power[i - 1]
    IN  power[n]

Polynomial(s, n) ==
    LET sum[i \in 0 .. n] ==
          IF i = 0 THEN 0 ELSE sum[i - 1] + (s[i] % ByteMod) * Power(31, n - i)
    IN  sum[n]
=============================================================================
