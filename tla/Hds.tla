-------------------------------- MODULE Hds --------------------------------
(***************************************************************************)
(* One dynamic string of src/hds.h: an hda of characters whose last        *)
(* element is the terminating NUL.  The sources of an append or a copy are *)
(* foreign strings, pieces of the string itself (the pointer hds + k) and  *)
(* formatted texts.                                                        *)
(***************************************************************************)
EXTENDS HdaOps

CONSTANTS
    NUL,        \* '\0', one of the values of the element type
    Dangling,   \* a handle whose block was freed
    Strings     \* foreign strings, and the literal part of formats

\* What a caller passes as a C string.
ASSUME StringsAssumption ==
    /\ NUL \in Elem
    /\ Strings \subseteq Seq(Elem \ {NUL})
\* A pointer to freed memory is neither null nor a block.
ASSUME DanglingAssumption == Dangling # NULL /\ Dangling \notin Block

VARIABLES
    hds,        \* the caller's handle
    up          \* FALSE once _LINC_LIB_FATAL has ended the process

vars == <<hds, up>>

Init == hds = NULL /\ up = TRUE

-----------------------------------------------------------------------------
(* Strings in memory *)

hds_len(h) == IF hda_size(h) = 0 THEN 0 ELSE hda_size(h) - 1

\* strlen(hds + k): the distance to the first NUL in the storage.
StrLen(cell, k) ==
    CHOOSE n \in 0 .. Len(cell) - k :
        /\ n = Len(cell) - k \/ cell[k + n + 1] = NUL
        /\ \A m \in 0 .. n - 1 : cell[k + m + 1] # NUL

\* The string a C function reads at hds + k.
CStr(h, k) ==
    IF h = NULL THEN << >>
    ELSE SubSeq(h.cell, k + 1, k + StrLen(h.cell, k))

-----------------------------------------------------------------------------
(* _hds_append_imp and _hds_copy_imp *)

\* A variant with a mistake: behind the NUL.
AppendAtEnd(h) == hda_size(h)

\* Characters go before the NUL.
AppendAt(h) == hds_len(h)

\* A variant with a mistake: the NUL of a new string is written without room.
CloseUngrown(h, ins) ==
    IF hda_size(h) = 0 /\ ins # NULL
    THEN [ins EXCEPT !.cell = MemCpy(ins.cell, ins.size, << NUL >>, 1)]
    ELSE IF hda_size(h) = 0 THEN StoreLast(Grow(ins, 1), NUL) ELSE ins

\* A string that had no NUL gets one as its last element.
Close(h, ins) ==
    IF hda_size(h) = 0 THEN StoreLast(Grow(ins, 1), NUL) ELSE ins

AppendFails(h, n) ==
    \/ InsertFails(h, n)
    \/ hda_size(h) = 0 /\ GrowFails(Insert(h, AppendAt(h), n, << >>), 1)

AppendImp(h, els, n) == Close(h, Insert(h, AppendAt(h), n, els))
AppendOwnImp(h, k, n) == Close(h, InsertOwn(h, AppendAt(h), k, n))

\* A copy is an append to the array whose elements were all deleted: its bytes
\* are still in the storage, where a source inside the string is read.
Emptied(h) == Delete(h, 0, hda_size(h))

-----------------------------------------------------------------------------
(* The calls *)

Abort == up' = FALSE /\ UNCHANGED hds

AppendTo(h, els, n) ==
    \/ AppendFails(h, n) /\ Abort
    \/ ~AppendFails(h, n) /\ hds' = AppendImp(h, els, n) /\ UNCHANGED up

AppendOwnTo(h, k, n) ==
    \/ AppendFails(h, n) /\ Abort
    \/ ~AppendFails(h, n) /\ hds' = AppendOwnImp(h, k, n) /\ UNCHANGED up

Usable == hds # Dangling
InString == Usable /\ hds # NULL

\* hds_append, hds_append_n
AppendStr(s) == AppendTo(hds, s, Len(s))

\* hds_append_n(hds, hds + k, n); hds_append(hds, hds + k) with n the strlen
AppendOwn(k, n) == AppendOwnTo(hds, k, n)

\* hds_append_fmt(hds, "s%s", hds + k): vasprintf reads before the append.
AppendFmt(s, k) ==
    LET text == s \o CStr(hds, k) IN AppendTo(hds, text, Len(text))

\* hds_copy, hds_copy_n
CopyStr(s) == AppendTo(Emptied(hds), s, Len(s))

\* hds_copy_n(hds, hds + k, n): strlen and hds + k are taken before the delete,
\* the characters after it.
CopyOwn(k, n) == AppendOwnTo(Emptied(hds), k, n)

CopyFmt(s, k) ==
    LET text == s \o CStr(hds, k) IN AppendTo(Emptied(hds), text, Len(text))

\* hds_free nulls its own parameter only: the caller's handle dangles until
\* the caller assigns nullptr.
Free == Usable /\ hds' = (IF hds = NULL THEN NULL ELSE Dangling) /\ UNCHANGED up
Renull == hds = Dangling /\ hds' = NULL /\ UNCHANGED up

AppendForeign == Usable /\ \E s \in Strings : AppendStr(s)
CopyForeign == Usable /\ \E s \in Strings : CopyStr(s)
AppendSelf ==
    InString /\ \E k \in 0 .. hds_len(hds) :
                   \E n \in 0 .. StrLen(hds.cell, k) : AppendOwn(k, n)
CopySelf ==
    InString /\ \E k \in 0 .. hds_len(hds) :
                   \E n \in 0 .. StrLen(hds.cell, k) : CopyOwn(k, n)
AppendFormatted ==
    InString /\ \E s \in Strings, k \in 0 .. hds_len(hds) : AppendFmt(s, k)
CopyFormatted ==
    InString /\ \E s \in Strings, k \in 0 .. hds_len(hds) : CopyFmt(s, k)

Next ==
    /\ up
    /\ \/ AppendForeign
       \/ CopyForeign
       \/ AppendSelf
       \/ CopySelf
       \/ AppendFormatted
       \/ CopyFormatted
       \/ Free
       \/ Renull

Spec == Init /\ [][Next]_vars

-----------------------------------------------------------------------------
(* Properties *)

\* Between two calls the handle is NULL, dangling, or an array every element
\* of which was written and which fits in its storage.
TypeOK ==
    /\ hds = Dangling \/ GoodHandle(hds)
    /\ up \in BOOLEAN

\* The last element is NUL and no other is, so that strlen, which does not
\* know the header, and hds_len, which does not look at the characters, agree
\* (hds.h:31-34, 42-45).
Terminated ==
    hds \notin {NULL, Dangling} =>
        /\ hds.size >= 1
        /\ \A k \in 1 .. hds.size : hds.cell[k] = NUL <=> k = hds.size
        /\ hds_len(hds) = StrLen(hds.cell, 0)

\* The characters a C function reads through the handle follow AbsStr: appends
\* and copies of the string's own pieces read what was there before the call,
\* though the array is emptied, moved by realloc and shifted meanwhile.
Abs == INSTANCE AbsStr
         WITH str <- IF hds = Dangling THEN << >> ELSE CStr(hds, 0)
RefinesAbsStr == Abs!Spec
=============================================================================
