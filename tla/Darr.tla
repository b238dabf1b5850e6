-------------------------------- MODULE Darr --------------------------------
(***************************************************************************)
(* One array of src/darr.h.  Its macros hand out the slot of an element    *)
(* and leave the writing to the caller, who may write it, not write it, or *)
(* let the initialiser of da_push_init fail half-way.                      *)
(*                                                                         *)
(* The widths, the allocator and the memory operations are those of HdaOps;*)
(* data is the storage, one cell for each whole element the allocator      *)
(* granted, and empty while the pointer is null.                           *)
(***************************************************************************)
EXTENDS HdaOps

CONSTANT Mins       \* what callers pass to da_reserve

VARIABLES
    arr,        \* the struct: data, size, cap
    up          \* FALSE once _LINC_LIB_FATAL has ended the process

vars == <<arr, up>>

Zero == [data |-> << >>, size |-> 0, cap |-> 0]

Init == arr = Zero /\ up = TRUE

-----------------------------------------------------------------------------
(* The macros, on the value of the struct *)

DaNewCap(d, min) == MaxOf(min, MaxOf(2, Word(d.cap * 2)))

\* A variant with a mistake: the request counts elements, not bytes.
DaRequestElements(cap) == cap

DaRequest(cap) == Word(cap * ElSz)

\* _da_reserve_imp: only the allocator checks the product.
DaReserveFails(d, min) == d.cap < min /\ DaRequest(DaNewCap(d, min)) > PtrMax

da_reserve(d, min) ==
    IF d.cap >= min THEN d
    ELSE LET cap == DaNewCap(d, min)
         IN  [d EXCEPT !.cap = cap,
                       !.data = [k \in 1 .. DaRequest(cap) \div ElSz |->
                                   At(d.data, k)]]

\* The slot that da_push returns is the last one, with what it held before.
da_push(d) == [da_reserve(d, d.size + 1) EXCEPT !.size = d.size + 1]

\* A variant with a mistake: one element too few is moved up.
da_insert_short(d, i) ==
    LET r == da_reserve(d, d.size + 1)
    IN  [r EXCEPT !.data = MemMove(r.data, i + 1, i, d.size - i - 1),
                  !.size = d.size + 1]

\* The slot that da_insert returns still holds the element it moved up.
da_insert(d, i) ==
    LET r == da_reserve(d, d.size + 1)
    IN  [r EXCEPT !.data = MemMove(r.data, i + 1, i, d.size - i),
                  !.size = d.size + 1]

da_delete(d, i) ==
    [d EXCEPT !.data = MemMove(d.data, i, i + 1, d.size - i - 1),
              !.size = d.size - 1]

\* The caller writes the slot it was given.
Write(d, i, v) == [d EXCEPT !.data = MemCpy(d.data, i, << v >>, 1)]

-----------------------------------------------------------------------------
(* The calls *)

Becomes(d) == arr' = d /\ UNCHANGED up
Abort == up' = FALSE /\ UNCHANGED arr

\* A call that needs room for min elements.
Growing(min, d) ==
    \/ DaReserveFails(arr, min) /\ Abort
    \/ ~DaReserveFails(arr, min) /\ Becomes(d)

ReserveSome == \E min \in Mins : Growing(min, da_reserve(arr, min))

\* da_push and da_push_init, whose slot may stay unwritten or be written.
\* When the initialiser returns -1 the caller gets NULL, but the element
\* stays, written or not.
PushSlot == Growing(arr.size + 1, da_push(arr))

PushWritten ==
    \E v \in Elem :
        Growing(arr.size + 1, Write(da_push(arr), arr.size, v))

InsertSlot ==
    \E i \in 0 .. arr.size : Growing(arr.size + 1, da_insert(arr, i))

InsertWritten ==
    \E i \in 0 .. arr.size, v \in Elem :
        Growing(arr.size + 1, Write(da_insert(arr, i), i, v))

DeleteOne == \E i \in 0 .. arr.size - 1 : Becomes(da_delete(arr, i))

\* da_init, da_free
Release == Becomes(Zero)

Next ==
    /\ up
    /\ \/ ReserveSome
       \/ PushSlot
       \/ PushWritten
       \/ InsertSlot
       \/ InsertWritten
       \/ DeleteOne
       \/ Release

Spec == Init /\ [][Next]_vars

-----------------------------------------------------------------------------
(* Properties *)

\* The storage holds the whole capacity and every counted element, though
\* *cap * 2 and *cap * el_sz are computed without a check: doubling reaches
\* the allocator's limit before it wraps (darr.h:19-34).
Fits ==
    /\ arr.size =< arr.cap
    /\ arr.cap = Len(arr.data)
    /\ arr.cap * ElSz =< PtrMax

\* The counted elements are a sequence under push, insert at and delete at,
\* where a slot no one wrote counts as an element: realloc, memmove and the
\* cells above size disturb no other element, and a failed initialiser
\* neither removes its element nor touches another (darr.h:61-102).
Abs == INSTANCE AbsSeq
         WITH seq <- SubSeq(arr.data, 1, arr.size),
              Elem <- Cell,
              Buffers <- {<< v >> : v \in Cell}
RefinesAbsSeq == Abs!Spec
=============================================================================
