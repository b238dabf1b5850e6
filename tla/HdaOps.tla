------------------------------- MODULE HdaOps -------------------------------
(***************************************************************************)
(* The functions of src/hda.h as operators on the value of an hda handle.  *)
(*                                                                         *)
(* A handle is NULL or a block: the two size_t words of the header (size,  *)
(* cap) and the storage behind the pointer, a sequence with one cell for   *)
(* every whole element that fits in the bytes the allocator returned.      *)
(* The C index i is the cell i + 1.  A cell no one has written is Junk.    *)
(*                                                                         *)
(* size_t has SizeMax as its largest value and wraps; the allocator        *)
(* (external) refuses a request of more than PtrMax = PTRDIFF_MAX bytes,   *)
(* which the header turns into the end of the process.                     *)
(***************************************************************************)
EXTENDS Naturals, Sequences

CONSTANTS
    NULL,           \* the null pointer
    Junk,           \* the content of memory that was never written
    ElSz,           \* sizeof(*hda)
    HeaderBytes,    \* _HDA_BYTE_N
    SizeMax,        \* SIZE_MAX
    PtrMax,         \* PTRDIFF_MAX, the allocator's limit on a request
    Elem            \* the values of the element type

\* An object of the element type, header included, can be allocated at all.
ASSUME WidthAssumption ==
    /\ ElSz \in Nat \ {0}
    /\ HeaderBytes \in Nat \ {0}
    /\ PtrMax \in Nat
    /\ SizeMax = 2 * PtrMax + 1
    /\ HeaderBytes + ElSz =< PtrMax

Word(x) == x % (SizeMax + 1)
MaxOf(a, b) == IF a > b THEN a ELSE b

\* What a cell of the storage may hold, and what a handle may point to.
Cell == Elem \cup {Junk}
Block == [size : 0 .. SizeMax, cap : 0 .. SizeMax, cell : Seq(Cell)]

\* An unwritten cell is no element.
ASSUME ElemAssumption == Junk \notin Elem

\* A null handle is no block.
ASSUME NullAssumption == NULL \notin Block

hda_size(h) == IF h = NULL THEN 0 ELSE h.size
hda_cap(h) == IF h = NULL THEN 0 ELSE h.cap

\* The elements a caller can see, in order.
Contents(h) == IF h = NULL THEN << >> ELSE SubSeq(h.cell, 1, h.size)

\* A read of a cell: outside the storage it gives Junk.
At(cell, k) == IF k \in DOMAIN cell THEN cell[k] ELSE Junk

-----------------------------------------------------------------------------
(* What an array satisfies between two calls *)

\* The storage holds exactly the capacity and was granted by the allocator;
\* the elements below size were written.
Good(h) ==
    /\ h \in Block
    /\ h.size =< h.cap
    /\ Len(h.cell) = h.cap
    /\ HeaderBytes + h.cap * ElSz =< PtrMax
    /\ \A k \in 1 .. h.size : h.cell[k] \in Elem

GoodHandle(h) == h = NULL \/ Good(h)

-----------------------------------------------------------------------------
(* _hda_reserve and _hda_grow *)

\* A variant with a mistake (see README, "Mutants"): grow to what is needed.
NewCapExact(h, min) == min

NewCap(h, min) == MaxOf(min, MaxOf(2, Word(2 * hda_cap(h))))
RequestBytes(cap) == Word(HeaderBytes + Word(cap * ElSz))

ReserveFails(h, min) ==
    hda_cap(h) < min /\ RequestBytes(NewCap(h, min)) > PtrMax

\* realloc keeps what the old block held; the size word of a first block is
\* not yet written.
Realloc(h, cap) ==
    [size |-> IF h = NULL THEN Junk ELSE h.size,
     cap  |-> cap,
     cell |-> [k \in 1 .. (RequestBytes(cap) - HeaderBytes) \div ElSz |->
                 IF h = NULL THEN Junk ELSE At(h.cell, k)]]

Reserve(h, min) ==
    IF hda_cap(h) >= min THEN h ELSE Realloc(h, NewCap(h, min))

GrowFails(h, n) == ReserveFails(h, Word(hda_size(h) + n))

Grow(h, n) ==
    [Reserve(h, Word(hda_size(h) + n)) EXCEPT !.size = Word(hda_size(h) + n)]

\* The number of elements a grow may have to copy to another block.
GrowCost(h, n) ==
    IF hda_cap(h) >= Word(hda_size(h) + n) THEN 0 ELSE hda_cap(h)

-----------------------------------------------------------------------------
(* Memory operations on cells; dst and src are C indices.  A write outside *)
(* the storage makes the cells longer than the storage, which no           *)
(* invariant of an array allows.                                           *)

MemMove(cell, dst, src, n) ==
    [k \in 1 .. MaxOf(Len(cell), dst + n) |->
       IF k > dst /\ k =< dst + n THEN At(cell, (k - dst) + src)
                                  ELSE At(cell, k)]

MemCpy(cell, dst, buf, n) ==
    [k \in 1 .. MaxOf(Len(cell), dst + n) |->
       IF k > dst /\ k =< dst + n THEN At(buf, k - dst) ELSE At(cell, k)]

-----------------------------------------------------------------------------
(* hda_push, hda_insert, hda_insert_buf, hda_delete *)

\* *hda_last(hda) = v on the grown array.
StoreLast(h, v) ==
    [h EXCEPT !.cell = MemCpy(h.cell, h.size - 1, << v >>, 1)]

PushFails(h) == GrowFails(h, 1)
Push(h, v) == StoreLast(Grow(h, 1), v)

\* A variant with a mistake: the element is read through hda_last.
PushElementOfLast(h, i) ==
    LET g == Grow(h, 1) IN StoreLast(g, At(g.cell, g.size))

\* The initialiser of hda_push is evaluated after the array has grown: here
\* it is the element hda[i], read through the new handle.
PushElement(h, i) == LET g == Grow(h, 1) IN StoreLast(g, At(g.cell, i + 1))

\* A variant with a mistake: no check of n > SIZE_MAX / el_sz.
InsertFailsUnchecked(h, n) ==
    n # 0 /\ (Word(ElSz * n) > PtrMax \/ GrowFails(h, n))

InsertFails(h, n) ==
    n # 0 /\ \/ n > SizeMax \div ElSz
             \/ Word(ElSz * n) > PtrMax
             \/ GrowFails(h, n)

\* A variant with a mistake: _hda_reserve where _hda_grow is needed.
InsertReserveOnly(h, idx, n, els) ==
    IF n = 0 THEN h
    ELSE LET g == Reserve(h, Word(hda_size(h) + n))
             shifted == MemMove(g.cell, idx + n, idx, hda_size(h) - idx)
         IN  [g EXCEPT !.cell = MemCpy(shifted, idx, els, n)]

\* els is copied to el_copy first, then the tail is moved up and the copy
\* goes in the hole.
Insert(h, idx, n, els) ==
    IF n = 0 THEN h
    ELSE LET g == Grow(h, n)
             shifted == MemMove(g.cell, idx + n, idx, hda_size(h) - idx)
         IN  [g EXCEPT !.cell = MemCpy(shifted, idx, els, n)]

\* els points to the array itself, at the C index src.
OwnElements(h, src, n) == SubSeq(h.cell, src + 1, src + n)

\* A variant with a mistake: no el_copy, els is read after realloc, which
\* leaves it pointing to freed memory, or after the tail moved.
InsertOwnUncopied(h, idx, src, n) ==
    IF n = 0 THEN h
    ELSE LET g == Grow(h, n)
             shifted == MemMove(g.cell, idx + n, idx, hda_size(h) - idx)
             els == IF GrowCost(h, n) = 0 THEN SubSeq(shifted, src + 1, src + n)
                                          ELSE << >>
         IN  [g EXCEPT !.cell = MemCpy(shifted, idx, els, n)]

InsertOwn(h, idx, src, n) == Insert(h, idx, n, OwnElements(h, src, n))

\* A variant with a mistake: the hole is filled from the end of the array.
DeleteUnordered(h, index, n) ==
    IF n = 0 THEN h
    ELSE LET m == IF h.size - (index + n) < n THEN h.size - (index + n) ELSE n
         IN  [h EXCEPT !.size = h.size - n,
                       !.cell = MemMove(h.cell, index, h.size - m, m)]

Delete(h, index, n) ==
    IF n = 0 THEN h
    ELSE [h EXCEPT !.size = h.size - n,
                   !.cell = MemMove(h.cell, index, index + n,
                                    h.size - (index + n))]
=============================================================================
