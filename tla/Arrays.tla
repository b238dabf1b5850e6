------------------------------- MODULE Arrays -------------------------------
(***************************************************************************)
(* A process that uses an array of hda.h (Hda) or one of darr.h (Darr),    *)
(* over the same memory.  The two share nothing but the end of the process.*)
(***************************************************************************)
EXTENDS Hda

CONSTANT Mins       \* what callers pass to da_reserve

\* What a caller asks for can be counted in bytes: _da_reserve_imp does not
\* check the product (darr.h:27), the allocator refuses what does not wrap.
ASSUME MinsAssumption ==
    \A min \in Mins : min \in Nat /\ min * ElSz =< SizeMax

VARIABLE arr

Darr == INSTANCE Darr

-----------------------------------------------------------------------------
(* The properties of darr.h, see module Darr *)

DarrFits == Darr!Fits
DarrRefinesAbsSeq == Darr!RefinesAbsSeq
=============================================================================
