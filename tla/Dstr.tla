-------------------------------- MODULE Dstr --------------------------------
(***************************************************************************)
(* One string of src/dstr.h: the struct with its pointer, len, size and    *)
(* cap, under every call of its interface.  Characters come from foreign   *)
(* strings and from the string itself.                                     *)
(*                                                                         *)
(* cell is the storage behind c_str, empty while the pointer is null.  The *)
(* functions of the C library are external: strncat looks for the NUL from *)
(* the place it is given, strncpy fills up with NULs, vsnprintf cuts.      *)
(*                                                                         *)
(* dstrncat adds n to len whatever its source is.  If the source is        *)
(* shorter, the bytes from its NUL up to len are not written, and the next *)
(* append starts its search for a NUL at such a byte: it goes on at any    *)
(* byte that may be one, or behind the block, where the model ends.  Ghost *)
(* `intact' is FALSE from there until the string is set anew.              *)
(*                                                                         *)
(* Callers give a source inside the string only where it ends with a NUL   *)
(* that was written and nothing is reallocated or overlapped (the code     *)
(* would read freed memory).                                               *)
(***************************************************************************)
EXTENDS HdaOps

CONSTANTS
    NUL,        \* '\0', one of the values of the element type
    Strings,    \* the foreign strings
    FmtMax,     \* the size of max_fmt_print, 8192 in the code
    Beyond      \* bound on how far an n goes beyond its source

VARIABLES
    dstr,       \* the struct
    text,       \* ghost: what the calls so far spell, empty if not intact
    intact,     \* ghost: no n of dstrncat was too large for its source
    up          \* FALSE once the process has ended, by _LINC_LIB_FATAL or
                \* by a write behind the block

vars == <<dstr, text, intact, up>>

Zero == [cell |-> << >>, len |-> 0, size |-> 0, cap |-> 0]

Init == dstr = Zero /\ text = << >> /\ intact = TRUE /\ up = TRUE

-----------------------------------------------------------------------------
(* The C library *)

NULs(n) == [i \in 1 .. n |-> NUL]

\* The string a C function reads at cell k.
StrAt(cell, k) ==
    LET ends == {m \in k .. Len(cell) - 1 : cell[m + 1] = NUL}
        end  == CHOOSE m \in ends : \A o \in ends : m =< o
    IN  IF ends = {} THEN SubSeq(cell, k + 1, Len(cell))
                     ELSE SubSeq(cell, k + 1, end)

\* Whether there is one, every byte of it written.
IsString(cell, k) ==
    \E m \in k .. Len(cell) - 1 :
        cell[m + 1] = NUL /\ \A o \in k .. m : cell[o + 1] # Junk

\* Where strncat, given the place k, may take a byte for the NUL: at the first
\* one, at an unwritten byte before it, or behind the block.
Ends(cell, k) ==
    {m \in k .. Len(cell) :
        /\ m < Len(cell) => cell[m + 1] \in {NUL, Junk}
        /\ \A o \in k .. m - 1 : cell[o + 1] # NUL}

\* strncat of s, when the NUL was found at m.
StrNCat(cell, m, s, n) ==
    LET k == IF n < Len(s) THEN n ELSE Len(s)
    IN  MemCpy(cell, m, SubSeq(s, 1, k) \o << NUL >>, k + 1)

\* strncpy(cell, s, n)
StrNCpy(cell, s, n) ==
    LET m == IF n < Len(s) THEN n ELSE Len(s)
    IN  MemCpy(cell, 0, SubSeq(s, 1, m) \o NULs(n - m), n)

-----------------------------------------------------------------------------
(* The functions, on the value of the struct *)

dstr_init == [cell |-> << NUL >>, len |-> 0, size |-> 1, cap |-> 1]

ReserveRefused(d, min) == d.cap < min /\ min > PtrMax

dstr_reserve(d, min) ==
    IF min =< d.cap THEN d
    ELSE [d EXCEPT !.cap = min,
                   !.cell = [k \in 1 .. min |-> At(d.cell, k)]]

\* A variant with a mistake: c overwrites the last character.
dstr_push_over(d, c) ==
    LET r == dstr_reserve(d, d.size + 1)
    IN  [r EXCEPT !.size = @ + 1, !.len = @ + 1,
                  !.cell = MemCpy(r.cell, d.size - 2, << c, NUL >>, 2)]

dstr_push(d, c) ==
    LET r == dstr_reserve(d, d.size + 1)
    IN  [r EXCEPT !.size = @ + 1, !.len = @ + 1,
                  !.cell = MemCpy(r.cell, d.len, << c, NUL >>, 2)]

dstr_clear(d) == [d EXCEPT !.cell = MemCpy(d.cell, 0, << NUL >>, 1),
                           !.len = 0, !.size = 1]

\* The places where the appends find their NUL.
EndsFor(d, n) == Ends(dstr_reserve(d, d.size + n).cell, d.len)

dstrncat(d, s, n, m) ==
    LET r == dstr_reserve(d, d.size + n)
    IN  [r EXCEPT !.size = @ + n, !.len = @ + n,
                  !.cell = StrNCat(r.cell, m, s, n)]

dstrcat(d, s, m) == dstrncat(d, s, Len(s), m)

dstrcpy(d, s) ==
    LET r == dstr_reserve(d, d.size + Len(s))
    IN  [r EXCEPT !.size = Len(s) + 1, !.len = Len(s),
                  !.cell = StrNCpy(r.cell, s, Len(s) + 1)]

\* A variant with a mistake: no room is made for the NUL.
dstrncpy_tight(d, s, n) ==
    LET r == dstr_reserve(d, n)
    IN  [r EXCEPT !.size = n + 1, !.len = n,
                  !.cell = MemCpy(StrNCpy(r.cell, s, n), n, << NUL >>, 1)]

dstrncpy(d, s, n) ==
    LET r == dstr_reserve(d, n + 1)
    IN  [r EXCEPT !.size = n + 1, !.len = n,
                  !.cell = MemCpy(StrNCpy(r.cell, s, n), n, << NUL >>, 1)]

-----------------------------------------------------------------------------
(* The calls *)

Abort == up' = FALSE /\ UNCHANGED <<dstr, text, intact>>

\* A call that needs min bytes, makes the struct d and, if all is still or
\* again intact, the text t.  A write behind the block is undefined.
Call(min, d, t, whole) ==
    \/ ReserveRefused(dstr, min) /\ Abort
    \/ /\ ~ReserveRefused(dstr, min)
       /\ dstr' = d
       /\ text' = IF whole THEN t ELSE << >>
       /\ intact' = whole
       /\ up' = (Len(d.cell) = d.cap)

Live == dstr # Zero

New == ~Live /\ Call(1, dstr_init, << >>, TRUE)
Free == Live /\ dstr' = Zero /\ text' = << >> /\ intact' = TRUE /\ UNCHANGED up
ReserveSome == Live /\ \E min \in 0 .. PtrMax + 1 :
                       Call(min, dstr_reserve(dstr, min), text, intact)
PushChar == Live /\ \E c \in Elem :
                    Call(dstr.size + 1, dstr_push(dstr, c), Append(text, c), intact)
Clear == Live /\ Call(0, dstr_clear(dstr), << >>, TRUE)

\* dstrcat(&d, s)
Catenate(s) ==
    \E m \in EndsFor(dstr, Len(s)) :
        Call(dstr.size + Len(s), dstrcat(dstr, s, m), text \o s, intact)

Cat == Live /\ \E s \in Strings : Catenate(s)

\* No more than the source is appended, but len and size grow by n.
NCat ==
    Live /\ \E s \in Strings : \E n \in 0 .. Len(s) + Beyond :
        \E m \in EndsFor(dstr, n) :
            Call(dstr.size + n, dstrncat(dstr, s, n, m),
                 text \o SubSeq(s, 1, n), intact /\ n =< Len(s))
Cpy == Live /\ \E s \in Strings :
                  Call(dstr.size + Len(s), dstrcpy(dstr, s), s, TRUE)

\* An n beyond the source fills up with NULs, which count as characters.
Padded(s, n) == [i \in 1 .. n |-> IF i =< Len(s) THEN s[i] ELSE NUL]
NCpy == Live /\ \E s \in Strings : \E n \in 0 .. Len(s) + Beyond :
                   Call(n + 1, dstrncpy(dstr, s, n), Padded(s, n), TRUE)

\* dstr_printf(&d, "s%s", d.c_str + k): the text is made, and cut, first.
Printf ==
    Live /\ \E s \in Strings, k \in 0 .. dstr.len :
        LET all == s \o StrAt(dstr.cell, k)
            cut == SubSeq(all, 1, FmtMax - 1)
            out == IF Len(all) < FmtMax THEN all ELSE cut
        IN  IsString(dstr.cell, k) /\ Catenate(out)

\* dstrcat(&d, d.c_str + k) where the capacity suffices.
CatOwn ==
    Live /\ \E k \in 0 .. dstr.len :
        LET s == StrAt(dstr.cell, k)
        IN  /\ IsString(dstr.cell, k)
            /\ k + Len(s) =< dstr.len
            /\ dstr.size + Len(s) =< dstr.cap
            /\ Catenate(s)

\* dstrcpy(&d, d.c_str + k) where it suffices and nothing overlaps.
CpyOwn ==
    Live /\ \E k \in 0 .. dstr.len :
        LET s == StrAt(dstr.cell, k)
        IN  /\ IsString(dstr.cell, k)
            /\ dstr.size + Len(s) =< dstr.cap
            /\ Len(s) < k
            /\ Call(0, dstrcpy(dstr, s), s, TRUE)

Next ==
    /\ up
    /\ \/ New
       \/ Free
       \/ ReserveSome
       \/ PushChar
       \/ Clear
       \/ Cat
       \/ NCat
       \/ Cpy
       \/ NCpy
       \/ Printf
       \/ CatOwn
       \/ CpyOwn

Spec == Init /\ [][Next]_vars

-----------------------------------------------------------------------------
(* Properties *)

\* size counts len and the NUL and never exceeds cap, whatever n is.  While the
\* string is intact the storage is exactly cap: no call writes behind the
\* block, whichever of len and size it computes its place and its room from
\* (dstr.h:45-139).
Fits ==
    Live => /\ dstr.size = dstr.len + 1
            /\ dstr.size =< dstr.cap
            /\ intact => dstr.cap = Len(dstr.cell)

\* In an intact string the len characters are those the calls spell, in order,
\* and a NUL follows: although strncat starts at len and looks for a NUL from
\* there on, it finds one at once, even behind characters that are NULs
\* themselves; and a string that is set anew after an n that was too large is
\* intact again (dstr.h:67-68, 73, 88, 115, 125-126, 137).
Spelled ==
    Live /\ intact => /\ SubSeq(dstr.cell, 1, dstr.len) = text
                      /\ At(dstr.cell, dstr.len + 1) = NUL

\* What the tests of a string ask: it is a C string whose NUL is the byte at len,
\* "after init" and "after push" (test/test_dstr.c:31-52).  An n of dstrncat
\* that is too large breaks it.
IsCString == Live => At(dstr.cell, dstr.len + 1) = NUL
=============================================================================
