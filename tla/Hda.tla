-------------------------------- MODULE Hda --------------------------------
(***************************************************************************)
(* One heap-allocated array of src/hda.h under any sequence of the calls   *)
(* of its interface.  Two ghost variables measure the cost of growth:      *)
(* moved counts the elements realloc may have had to copy since the handle *)
(* was last NULL, peak is the largest size since then.                     *)
(***************************************************************************)
EXTENDS HdaOps

CONSTANT Buffers    \* the runs of elements callers insert

\* The buffers are runs of elements.
ASSUME BuffersAssumption == Buffers \subseteq Seq(Elem)

VARIABLES
    hda,        \* the caller's handle
    up,         \* FALSE once _LINC_LIB_FATAL has ended the process
    moved,      \* ghost: elements realloc may have copied
    peak        \* ghost: the largest size

vars == <<hda, up, moved, peak>>

Init == hda = NULL /\ up = TRUE /\ moved = 0 /\ peak = 0

-----------------------------------------------------------------------------
(* The calls *)

\* _LINC_LIB_FATAL: nothing else happens in this process.
Abort == up' = FALSE /\ UNCHANGED <<hda, moved, peak>>

Becomes(new, n) ==
    /\ hda' = new
    /\ moved' = moved + GrowCost(hda, n)
    /\ peak' = MaxOf(peak, hda_size(hda) + n)
    /\ UNCHANGED up

PushValue(v) ==
    \/ PushFails(hda) /\ Abort
    \/ ~PushFails(hda) /\ Becomes(Push(hda, v), 1)

PushOwn(i) ==
    \/ PushFails(hda) /\ Abort
    \/ ~PushFails(hda) /\ Becomes(PushElement(hda, i), 1)

InsertBuf(idx, n, els) ==
    \/ InsertFails(hda, n) /\ Abort
    \/ ~InsertFails(hda, n) /\ Becomes(Insert(hda, idx, n, els), n)

InsertSelf(idx, src, n) ==
    \/ InsertFails(hda, n) /\ Abort
    \/ ~InsertFails(hda, n) /\ Becomes(InsertOwn(hda, idx, src, n), n)

Remove(idx, n) ==
    /\ hda' = Delete(hda, idx, n)
    /\ UNCHANGED <<up, moved, peak>>

Free ==
    /\ hda' = NULL
    /\ moved' = 0 /\ peak' = 0
    /\ UNCHANGED up

-----------------------------------------------------------------------------
(* The inputs: indices satisfy the assertions of the code.  A count that   *)
(* is too large for any array (a miscount of the caller) is also tried.    *)

Oversized == {n \in 0 .. SizeMax : n * ElSz > PtrMax}

PushSomeValue == \E v \in Elem : PushValue(v)
PushSomeOwn == \E i \in 0 .. hda_size(hda) - 1 : PushOwn(i)
InsertSomeBuf ==
    \E idx \in 0 .. hda_size(hda), els \in Buffers :
        InsertBuf(idx, Len(els), els)
InsertMiscounted ==
    \E idx \in 0 .. hda_size(hda), n \in Oversized : InsertBuf(idx, n, << >>)
InsertSomeSelf ==
    /\ hda # NULL
    /\ \E idx, src \in 0 .. hda_size(hda) :
          \E n \in 0 .. hda_size(hda) - src : InsertSelf(idx, src, n)
RemoveSome ==
    \E idx \in 0 .. hda_size(hda) :
        \E n \in 0 .. hda_size(hda) - idx : Remove(idx, n)

Next ==
    /\ up
    /\ \/ PushSomeValue
       \/ PushSomeOwn
       \/ InsertSomeBuf
       \/ InsertMiscounted
       \/ InsertSomeSelf
       \/ RemoveSome
       \/ Free

Spec == Init /\ [][Next]_vars

-----------------------------------------------------------------------------
(* The inductive invariant: what an array satisfies between two calls *)

\* What growth has copied so far is paid for by the capacity it led to.
IInv ==
    /\ GoodHandle(hda)
    /\ up \in BOOLEAN /\ moved \in Nat /\ peak \in Nat
    /\ moved =< hda_cap(hda)
    /\ hda_cap(hda) =< 2 * peak
    /\ hda_size(hda) =< peak

-----------------------------------------------------------------------------
(* Properties *)

\* The handle is NULL or a block whose header words are size_t values: the
\* size word, which realloc leaves unwritten in a first block, is always
\* written before an operation ends.
TypeOK ==
    /\ hda \in Block \cup {NULL}
    /\ up \in BOOLEAN
    /\ moved \in Nat
    /\ peak \in Nat

\* Every element the header says exists lies inside the bytes that were
\* allocated, and so does the whole capacity: no product or sum in
\* _hda_reserve, _hda_grow or _hda_insert_imp wraps into a block that is too
\* small (hda.h:92-99, 113-116, 131).
InBounds ==
    hda # NULL => hda.size =< hda.cap /\ hda.cap = Len(hda.cell)

\* No element below size is memory that was never written: the gap opened
\* by an insert is filled, what memmove brings down was an element, and an
\* element pushed from the array itself is read where it is after realloc.
Initialised ==
    hda # NULL => \A k \in 1 .. hda.size : hda.cell[k] # Junk

\* Doubling pays for itself: whatever mix of pushes, inserts and deletes,
\* realloc never copies more elements in total than twice the largest size
\* the array ever had, and the capacity never exceeds that either.
Amortised ==
    /\ moved =< 2 * peak
    /\ hda_cap(hda) =< 2 * peak

\* The array is a sequence: the contents of the block below size follow
\* AbsSeq, whatever realloc, the cells above size and aliasing do.
Abs == INSTANCE AbsSeq WITH seq <- Contents(hda)
RefinesAbsSeq == Abs!Spec
=============================================================================
