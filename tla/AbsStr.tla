------------------------------- MODULE AbsStr -------------------------------
(***************************************************************************)
(* What an hds promises its callers: a string, with append and copy of a   *)
(* foreign string, of any piece of the string itself, and of a formatted   *)
(* text whose arguments may contain the string itself.                     *)
(***************************************************************************)
EXTENDS Naturals, Sequences

CONSTANT Strings    \* the foreign strings, and the literal part of formats

VARIABLES str, up
vars == <<str, up>>

Init == str = << >> /\ up = TRUE

\* The n characters of the string that start at k; its tail from k.
Piece(k, n) == SubSeq(str, k + 1, k + n)
Suffix(k) == SubSeq(str, k + 1, Len(str))

Extend(s) == str' = str \o s
Assign(s) == str' = s

Effect ==
    \/ \E s \in Strings : Extend(s) \/ Assign(s)
    \/ \E k \in 0 .. Len(str) :
          \E n \in 0 .. Len(str) - k : Extend(Piece(k, n)) \/ Assign(Piece(k, n))
    \/ \E s \in Strings, k \in 0 .. Len(str) :
          Extend(s \o Suffix(k)) \/ Assign(s \o Suffix(k))
    \/ Assign(<< >>)

Stop == up' = FALSE /\ str' = str

Next == up /\ (Stop \/ (Effect /\ up' = TRUE))

Spec == Init /\ [][Next]_vars
=============================================================================
