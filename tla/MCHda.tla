------------------------------- MODULE MCHda -------------------------------
(* A process with a 6-bit size_t: the allocator's limit is 31 bytes, an     *)
(* array of 4-byte elements behind a 4-byte header holds at most 6 of them, *)
(* one of darr.h, which has no header, at most 7.  The process uses an hda  *)
(* or a darr array, one at a time.                                          *)
EXTENDS Arrays

CONSTANTS a, b, MaxBuf, MaxMin

MCElem == {a, b}
\* MaxBuf bounds the length of the buffers inserted from outside.
MCBuffers == UNION {[1 .. n -> {a, b}] : n \in 0 .. MaxBuf}
\* MaxMin bounds what da_reserve is asked for.
MCMins == 0 .. MaxMin

MCInit == Init /\ arr = Darr!Zero
MCNext ==
    \/ Next /\ arr = Darr!Zero /\ UNCHANGED arr
    \/ Darr!Next /\ hda = NULL /\ UNCHANGED <<hda, moved, peak>>
MCSpec == MCInit /\ [][MCNext]_<<vars, arr>>
=============================================================================
