------------------------------- MODULE MCHds -------------------------------
(* Strings of two letters in a process whose allocator grants 15 bytes:     *)
(* behind the 8-byte header of an hds there is room for 6 characters and    *)
(* their NUL.  The process uses an hds or a dstr, one at a time; a dstr,    *)
(* which has no header, gets at most DstrMax bytes.                         *)
EXTENDS CharStrings

CONSTANTS a, b, MaxStr

MCElem == {a, b, NUL}
\* MaxStr bounds the length of the foreign strings.
MCStrings == UNION {[1 .. n -> {a, b}] : n \in 0 .. MaxStr}

\* b is a byte of a multi-byte character, whose char is negative.
MCCode == [c \in MCElem |-> CASE c = a -> 3 [] c = b -> -2 [] OTHER -> 0]

MCInit == Init /\ dstr = Dstr!Zero /\ text = << >> /\ intact = TRUE
MCNext ==
    \/ Next /\ dstr = Dstr!Zero /\ UNCHANGED <<dstr, text, intact>>
    \/ Dstr!Next /\ hds = NULL /\ UNCHANGED hds
MCSpec == MCInit /\ [][MCNext]_<<vars, dstr, text, intact>>

\* The dstr alone, for the run about n.
DstrOnly == MCInit /\ [][Dstr!Next /\ UNCHANGED hds]_<<vars, dstr, text, intact>>
=============================================================================
