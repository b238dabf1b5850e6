----------------------------- MODULE HdaProofs -----------------------------
(***************************************************************************)
(* Proofs about the arrays of src/hda.h and src/darr.h, for every element  *)
(* size, every width of size_t and every element type.                     *)
(***************************************************************************)
EXTENDS Arrays, HdaOpsProofs

-----------------------------------------------------------------------------
(* The inductive invariant *)

\* A call that grows the array by n and leaves a good block keeps the
\* invariant: the elements moved so far stay below the capacity, the capacity
\* below twice the peak.
LEMMA NewBlock ==
    ASSUME IInv, NEW new, Good(new), NEW n, Count(n), ~GrowFails(hda, n),
           new.size = hda_size(hda) + n, new.cap = Grow(hda, n).cap,
           Becomes(new, n)
    PROVE  IInv'
<1>1. /\ hda_size(hda) \in Nat /\ hda_cap(hda) \in Nat
  BY SizeFacts DEF IInv
<1>2. /\ GrowCost(hda, n) \in Nat
      /\ hda_cap(hda) + GrowCost(hda, n) =< new.cap
      /\ new.cap =< MaxOf(hda_cap(hda), 2 * new.size)
  <2>1. Grow(hda, n).size = new.size
    BY GrowResult DEF IInv
  <2> QED
    BY <2>1, GrowResult DEF IInv
<1>3. new # NULL /\ hda_size(new) = new.size /\ hda_cap(new) = new.cap
      /\ new.size \in Nat /\ new.cap \in Nat
  BY NullAssumption DEF Good, Block, hda_size, hda_cap
<1>4. /\ hda' = new /\ up' = up /\ moved' = moved + GrowCost(hda, n)
      /\ peak' = MaxOf(peak, new.size)
  BY <1>3 DEF Becomes
<1>5. moved' \in Nat /\ peak' \in Nat /\ new.size =< peak' /\ peak =< peak'
  BY <1>2, <1>3, <1>4 DEF IInv, MaxOf
<1>6. moved' =< new.cap
  BY <1>1, <1>2, <1>3, <1>4 DEF IInv
<1>7. new.cap =< 2 * peak'
  BY <1>1, <1>2, <1>3, <1>5 DEF IInv, MaxOf
<1>8. GoodHandle(hda)' /\ hda_size(hda)' = new.size /\ hda_cap(hda)' = new.cap
  BY <1>3, <1>4 DEF GoodHandle, hda_size, hda_cap
<1> QED
  BY <1>4, <1>5, <1>6, <1>7, <1>8 DEF IInv

\* A program that ended keeps what it had.
LEMMA AbortKeeps == IInv /\ Abort => IInv'
BY DEF IInv, Abort, GoodHandle

\* An oversized count never gets past the checks of _hda_insert_imp.
LEMMA OversizedFails ==
    ASSUME NEW h, NEW n \in Oversized
    PROVE  InsertFails(h, n)
<1>1. n \in Nat /\ n * ElSz > PtrMax /\ n * ElSz = ElSz * n
  BY WidthAssumption DEF Oversized
<1>2. n # 0
  BY <1>1, WidthAssumption
<1>3. CASE n > SizeMax \div ElSz
  BY <1>2, <1>3 DEF InsertFails
<1>4. CASE ~(n > SizeMax \div ElSz)
  <2>1. SizeMax \div ElSz \in Nat
    BY WidthAssumption
  <2>2. ElSz * n \in 0 .. SizeMax
    BY <1>1, <1>4, <2>1, DivBound, WidthAssumption
  <2>3. Word(ElSz * n) > PtrMax
    BY <1>1, <2>2, WordSmall
  <2> QED
    BY <1>2, <2>3 DEF InsertFails
<1> QED
  BY <1>3, <1>4

\* A push that does not fail keeps the invariant.
LEMMA PushKeeps ==
    ASSUME IInv, NEW v \in Elem, ~PushFails(hda),
           Becomes(StoreLast(Grow(hda, 1), v), 1)
    PROVE  IInv'
<1>1. GoodHandle(hda) /\ ~GrowFails(hda, 1)
  BY DEF IInv, PushFails
<1> QED
  BY <1>1, OneIsACount, PushResult, NewBlock

\* An insert that does not fail keeps the invariant.
LEMMA InsertKeeps ==
    ASSUME IInv, NEW n \in Nat, ~InsertFails(hda, n),
           NEW idx \in 0 .. hda_size(hda),
           NEW els \in Seq(Elem), Len(els) = n,
           Becomes(Insert(hda, idx, n, els), n)
    PROVE  IInv'
<1>1. GoodHandle(hda)
  BY DEF IInv
<1>2. CASE n = 0
  <2>1. GrowCost(hda, 0) = 0
    <3>1. hda_size(hda) + 0 = hda_size(hda) /\ hda_size(hda) \in 0 .. SizeMax
      BY <1>1, WidthAssumption DEF GoodHandle, Good, Block, hda_size
    <3>2. Word(hda_size(hda) + 0) = hda_size(hda)
      BY <3>1, WordSmall
    <3> QED
      BY <1>1, <3>2, SizeFacts DEF GrowCost
  <2>2. hda' = hda /\ up' = up /\ moved' = moved
        /\ peak' = MaxOf(peak, hda_size(hda))
    <3>1. hda_size(hda) + 0 = hda_size(hda) BY <1>1, SizeFacts
    <3> QED BY <1>2, <2>1, <3>1 DEF Becomes, Insert, IInv
  <2>3. peak' = peak
    BY <1>1, <2>2, SizeFacts DEF IInv, MaxOf
  <2> QED
    BY <2>2, <2>3 DEF IInv
<1>3. CASE n # 0
  <2>1. n \in Nat \ {0}
    BY <1>3
  <2> QED
    BY <1>1, <2>1, InsertCount, InsertResult, NewBlock
<1> QED
  BY <1>2, <1>3

\* A delete keeps the invariant.
LEMMA RemoveKeeps ==
    ASSUME IInv, NEW idx \in 0 .. hda_size(hda),
           NEW n \in 0 .. hda_size(hda) - idx, Remove(idx, n)
    PROVE  IInv'
<1>1. CASE n = 0
  BY <1>1 DEF Remove, Delete, IInv, GoodHandle
<1>2. CASE n # 0
  <2>1. Good(hda) /\ hda_size(hda) = hda.size /\ hda_cap(hda) = hda.cap
        /\ hda.size \in Nat
    BY <1>2 DEF IInv, GoodHandle, Good, Block, hda_size, hda_cap
  <2>2. idx \in Nat /\ n \in Nat \ {0} /\ idx + n =< hda.size
    BY <1>2, <2>1
  <2>3. /\ Good(hda') /\ hda'.size = hda.size - n /\ hda'.cap = hda.cap
    BY <2>1, <2>2, DeleteResult DEF Remove
  <2>4. hda' # NULL
    BY <2>3, NullAssumption DEF Good
  <2> QED
    BY <2>1, <2>2, <2>3, <2>4
       DEF Remove, IInv, GoodHandle, hda_size, hda_cap
<1> QED
  BY <1>1, <1>2

\* The null handle satisfies the invariant.
LEMMA IInvInit == Init => IInv
BY DEF Init, IInv, GoodHandle, hda_cap, hda_size

\* Every call keeps the invariant.
LEMMA IInvNext == IInv /\ [Next]_vars => IInv'
<1> SUFFICES ASSUME IInv, [Next]_vars PROVE IInv'
  OBVIOUS
<1>1. GoodHandle(hda)
  BY DEF IInv
<1>2. ASSUME PushSomeValue PROVE IInv'
  <2>1. PICK v \in Elem : PushValue(v)
    BY <1>2 DEF PushSomeValue
  <2> QED
    BY <2>1, AbortKeeps, PushKeeps DEF PushValue, Push
<1>3. ASSUME PushSomeOwn PROVE IInv'
  <2>1. PICK i \in 0 .. hda_size(hda) - 1 : PushOwn(i)
    BY <1>3 DEF PushSomeOwn
  <2>2. CASE PushFails(hda) /\ Abort
    BY <2>2, AbortKeeps
  <2>3. CASE ~PushFails(hda) /\ Becomes(PushElement(hda, i), 1)
    <3> DEFINE v == At(Grow(hda, 1).cell, i + 1)
    <3>1. v \in Elem
      BY <1>1, <2>3, OwnElement
    <3>2. Becomes(StoreLast(Grow(hda, 1), v), 1)
      BY <2>3 DEF PushElement
    <3> HIDE DEF v
    <3> QED
      BY <2>3, <3>1, <3>2, PushKeeps
  <2> QED
    BY <2>1, <2>2, <2>3 DEF PushOwn
<1>4. ASSUME InsertSomeBuf PROVE IInv'
  <2>1. PICK idx \in 0 .. hda_size(hda), els \in Buffers :
           InsertBuf(idx, Len(els), els)
    BY <1>4 DEF InsertSomeBuf
  <2>2. els \in Seq(Elem) /\ Len(els) \in Nat
    BY BuffersAssumption
  <2> QED
    BY <2>1, <2>2, AbortKeeps, InsertKeeps DEF InsertBuf
<1>5. ASSUME InsertMiscounted PROVE IInv'
  BY <1>5, OversizedFails, AbortKeeps DEF InsertMiscounted, InsertBuf
<1>6. ASSUME InsertSomeSelf PROVE IInv'
  <2>1. PICK idx \in 0 .. hda_size(hda), src \in 0 .. hda_size(hda) :
           \E n \in 0 .. hda_size(hda) - src : InsertSelf(idx, src, n)
    BY <1>6 DEF InsertSomeSelf
  <2>2. PICK n \in 0 .. hda_size(hda) - src : InsertSelf(idx, src, n)
    BY <2>1
  <2>3. Good(hda) /\ hda_size(hda) = hda.size
    BY <1>1, <1>6 DEF InsertSomeSelf, GoodHandle, hda_size
  <2>4. n \in Nat
    BY <2>3 DEF Good, Block
  <2>5. /\ OwnElements(hda, src, n) \in Seq(Elem)
        /\ Len(OwnElements(hda, src, n)) = n
    BY <2>3, OwnRun
  <2> QED
    BY <2>2, <2>4, <2>5, AbortKeeps, InsertKeeps DEF InsertSelf, InsertOwn
<1>7. ASSUME RemoveSome PROVE IInv'
  BY <1>7, RemoveKeeps DEF RemoveSome
<1>8. ASSUME Free PROVE IInv'
  BY <1>8 DEF Free, IInv, GoodHandle, hda_cap, hda_size
<1>9. CASE UNCHANGED vars
  BY <1>9 DEF vars, IInv, GoodHandle
<1> QED
  BY <1>2, <1>3, <1>4, <1>5, <1>6, <1>7, <1>8, <1>9 DEF Next

\* The invariant holds in every state that calls of the header reach.
THEOREM InductiveInvariant == Spec => []IInv
BY IInvInit, IInvNext, PTL DEF Spec

\* The header words of an array always hold size_t values: type correctness.
THEOREM TypeCorrect == Spec => []TypeOK
<1>1. IInv => TypeOK
  BY DEF IInv, TypeOK, GoodHandle, Good
<1> QED
  BY <1>1, InductiveInvariant, PTL

\* No arithmetic of hda.h wraps into a block smaller than its header says, for
\* every width of size_t, every element size and every count a caller passes.
THEOREM MemorySafe == Spec => []InBounds
<1>1. IInv => InBounds
  BY DEF IInv, InBounds, GoodHandle, Good
<1> QED
  BY <1>1, InductiveInvariant, PTL

\* No element below size is unwritten memory, whatever aliasing the calls use.
THEOREM NoUnwrittenElement == Spec => []Initialised
<1>1. IInv => Initialised
  BY ElemAssumption DEF IInv, Initialised, GoodHandle, Good
<1> QED
  BY <1>1, InductiveInvariant, PTL

\* Growth costs at most two element copies per element of the largest size.
THEOREM GrowthIsAmortised == Spec => []Amortised
<1>1. IInv => Amortised
  BY SizeFacts DEF IInv, Amortised
<1> QED
  BY <1>1, InductiveInvariant, PTL

-----------------------------------------------------------------------------
(* The array implements the sequence *)

\* The insertion of the abstract sequence is the one of the lemmas.
LEMMA SameInsertAt ==
    ASSUME NEW s, NEW idx, NEW els
    PROVE  Abs!InsertAt(s, idx, els) = InsertAt(s, idx, els)
BY DEF Abs!InsertAt, InsertAt

\* A call of the header takes effect as the call of the sequence it stands
\* for, and ending the process leaves the sequence as it was.
LEMMA StepSimulates == IInv /\ [Next]_vars => [Abs!Next]_(Abs!vars)
<1> SUFFICES ASSUME IInv, [Next]_vars PROVE [Abs!Next]_(Abs!vars)
  OBVIOUS
<1> DEFINE s == Contents(hda)
<1>1. GoodHandle(hda)
  BY DEF IInv
<1>2. Len(s) = hda_size(hda) /\ hda_size(hda) \in Nat
  BY <1>1, ContentsOf, SizeFacts
<1>a. ASSUME up, Abort PROVE Abs!Next
  BY <1>a DEF Abort, Abs!Next, Abs!Stop
<1>b. ASSUME up, up' = up, Abs!Effect PROVE Abs!Next
  BY <1>b DEF Abs!Next, IInv
<1>3. ASSUME up, PushSomeValue PROVE Abs!Next
  <2>1. PICK v \in Elem : PushValue(v)
    BY <1>3 DEF PushSomeValue
  <2>2. CASE ~PushFails(hda) /\ Becomes(Push(hda, v), 1)
    <3>1. s' = Append(s, v) /\ up' = up
      BY <1>1, <2>2, PushContents DEF Becomes, Push
    <3> QED
      BY <1>3, <1>b, <3>1 DEF Abs!Effect, Abs!Push
  <2> QED
    BY <1>3, <1>a, <2>1, <2>2 DEF PushValue
<1>4. ASSUME up, PushSomeOwn PROVE Abs!Next
  <2>1. PICK i \in 0 .. hda_size(hda) - 1 : PushOwn(i)
    BY <1>4 DEF PushSomeOwn
  <2>2. CASE ~PushFails(hda) /\ Becomes(PushElement(hda, i), 1)
    <3> DEFINE v == hda.cell[i + 1]
    <3>1. v \in Elem /\ At(Grow(hda, 1).cell, i + 1) = v
      BY <1>1, <2>2, OwnElement
    <3>2. i + 1 \in 1 .. hda_size(hda)
      BY <1>2
    <3>3. v = s[i + 1]
      BY <1>1, <3>2, ContentsOf
    <3> HIDE DEF v
    <3>4. hda' = StoreLast(Grow(hda, 1), v) /\ up' = up
      BY <2>2, <3>1 DEF Becomes, PushElement
    <3>5. s' = Append(s, s[i + 1])
      BY <1>1, <2>2, <3>1, <3>3, <3>4, PushContents
    <3>6. i \in 0 .. Len(s) - 1
      BY <1>2
    <3> QED
      BY <1>4, <1>b, <3>4, <3>5, <3>6 DEF Abs!Effect, Abs!PushElement
  <2> QED
    BY <1>4, <1>a, <2>1, <2>2 DEF PushOwn
<1>5. ASSUME up, InsertSomeBuf PROVE Abs!Next
  <2>1. PICK idx \in 0 .. hda_size(hda), els \in Buffers :
           InsertBuf(idx, Len(els), els)
    BY <1>5 DEF InsertSomeBuf
  <2>2. els \in Seq(Elem) /\ Len(els) \in Nat
    BY BuffersAssumption
  <2>3. CASE ~InsertFails(hda, Len(els))
             /\ Becomes(Insert(hda, idx, Len(els), els), Len(els))
    <3>1. s' = Abs!InsertAt(s, idx, els) /\ up' = up
      BY <1>1, <2>2, <2>3, InsertContents, SameInsertAt DEF Becomes
    <3>2. idx \in 0 .. Len(s)
      BY <1>2
    <3> QED
      BY <1>5, <1>b, <3>1, <3>2 DEF Abs!Effect, Abs!InsertBuf
  <2> QED
    BY <1>5, <1>a, <2>1, <2>3 DEF InsertBuf
<1>6. ASSUME up, InsertMiscounted PROVE Abs!Next
  BY <1>6, <1>a, OversizedFails DEF InsertMiscounted, InsertBuf
<1>7. ASSUME up, InsertSomeSelf PROVE Abs!Next
  <2>1. PICK idx \in 0 .. hda_size(hda), src \in 0 .. hda_size(hda) :
           \E n \in 0 .. hda_size(hda) - src : InsertSelf(idx, src, n)
    BY <1>7 DEF InsertSomeSelf
  <2>2. PICK n \in 0 .. hda_size(hda) - src : InsertSelf(idx, src, n)
    BY <2>1
  <2>3. Good(hda) /\ hda_size(hda) = hda.size /\ n \in Nat
        /\ OwnElements(hda, src, n) = SubSeq(s, src + 1, src + n)
    <3>1. Good(hda) /\ hda_size(hda) = hda.size /\ hda.size \in Nat
      BY <1>1, <1>2, <1>7 DEF InsertSomeSelf, GoodHandle, hda_size
    <3>2. /\ OwnElements(hda, src, n) \in Seq(Elem)
          /\ Len(OwnElements(hda, src, n)) = n
          /\ \A k \in 1 .. n : OwnElements(hda, src, n)[k] = hda.cell[src + k]
      <4>1. src \in 0 .. hda.size /\ n \in 0 .. hda.size - src BY <3>1
      <4> HIDE DEF s
      <4> QED BY ONLY <3>1, <4>1, OwnRun
    <3>3. n \in Nat /\ src \in Nat /\ src + n =< hda.size
      BY <3>1
    <3>4. /\ s \in Seq(Elem) /\ Len(s) = hda.size
          /\ \A k \in 1 .. hda.size : s[k] = hda.cell[k] /\ s[k] \in Elem
      BY <1>1, <3>1, ContentsOf
    <3> DEFINE run == SubSeq(s, src + 1, src + n)
    <3> HIDE DEF s
    <3>5. /\ run \in Seq(Elem) /\ Len(run) = n
          /\ \A k \in 1 .. n : run[k] = s[src + k]
      <4>1. \A k \in src + 1 .. src + n : s[k] \in Elem
        BY <3>3, <3>4
      <4> QED
        BY <3>3, <4>1, SubSeqProperties
    <3> HIDE DEF run
    <3>6. \A k \in 1 .. n : OwnElements(hda, src, n)[k] = run[k]
      <4>1. \A k \in 1 .. n : src + k \in 1 .. hda.size
        BY <3>1, <3>3
      <4> QED
        BY <3>2, <3>4, <3>5, <4>1
    <3>7. OwnElements(hda, src, n) = run
      BY <3>2, <3>5, <3>6, SameElements
    <3> QED
      BY <3>1, <3>3, <3>7 DEF run
  <2>4. CASE ~InsertFails(hda, n) /\ Becomes(InsertOwn(hda, idx, src, n), n)
    <3> DEFINE els == OwnElements(hda, src, n)
    <3>1. els \in Seq(Elem) /\ Len(els) = n
      BY <2>3, OwnRun
    <3>2. hda' = Insert(hda, idx, n, els) /\ up' = up
      BY <2>4 DEF Becomes, InsertOwn
    <3>3. s' = Abs!InsertAt(s, idx, els)
      <4> HIDE DEF els
      <4> QED
        BY <1>1, <2>3, <2>4, <3>1, <3>2, InsertContents, SameInsertAt
    <3>4. idx \in 0 .. Len(s) /\ src \in 0 .. Len(s) /\ n \in 0 .. Len(s) - src
      BY <1>2
    <3> QED
      BY <1>7, <1>b, <2>3, <3>2, <3>3, <3>4 DEF Abs!Effect, Abs!InsertOwn
  <2> QED
    BY <1>7, <1>a, <2>2, <2>4 DEF InsertSelf
<1>8. ASSUME up, RemoveSome PROVE Abs!Next
  <2>1. PICK idx \in 0 .. hda_size(hda) :
           \E n \in 0 .. hda_size(hda) - idx : Remove(idx, n)
    BY <1>8 DEF RemoveSome
  <2>2. PICK n \in 0 .. hda_size(hda) - idx : Remove(idx, n)
    BY <2>1
  <2>3. s' = SubSeq(s, 1, idx) \o SubSeq(s, idx + n + 1, Len(s)) /\ up' = up
    BY <1>1, <2>2, DeleteContents DEF Remove
  <2>4. idx \in 0 .. Len(s) /\ n \in 0 .. Len(s) - idx
    BY <1>2
  <2> QED
    BY <1>8, <1>b, <2>3, <2>4 DEF Abs!Effect, Abs!Remove
<1>9. ASSUME up, Free PROVE Abs!Next
  <2>1. s' = << >> /\ up' = up
    BY <1>9 DEF Free, Contents
  <2> QED
    BY <1>9, <1>b, <2>1 DEF Abs!Effect, Abs!Clear
<1>10. CASE UNCHANGED vars
  <2>1. s' = s /\ up' = up
    BY <1>10 DEF vars
  <2> QED
    BY <2>1 DEF Abs!vars
<1> QED
  BY <1>3, <1>4, <1>5, <1>6, <1>7, <1>8, <1>9, <1>10 DEF Next

\* The array of hda.h is the abstract sequence: every behaviour of the header,
\* with reallocation, stale cells and aliased arguments, is one of AbsSeq.
THEOREM HdaImplementsSeq == Spec => RefinesAbsSeq
<1>1. Init => Abs!Init
  BY DEF Init, Abs!Init, Contents
<1> QED
  BY <1>1, InductiveInvariant, StepSimulates, PTL
     DEF Spec, RefinesAbsSeq, Abs!Spec

-----------------------------------------------------------------------------
(* The array of darr.h *)

\* An array between two calls: the storage has exactly cap cells, which the
\* allocator granted, and every counted element is one of them.
Sound(d) ==
    /\ d \in [data : Seq(Cell), size : Nat, cap : Nat]
    /\ d.size =< d.cap
    /\ d.cap = Len(d.data)
    /\ d.cap * ElSz =< PtrMax

\* The elements a caller can see.
Items(d) == SubSeq(d.data, 1, d.size)

LEMMA ItemsOf ==
    ASSUME NEW d, Sound(d)
    PROVE  /\ Items(d) \in Seq(Cell)
           /\ Len(Items(d)) = d.size
           /\ \A k \in 1 .. d.size : Items(d)[k] = d.data[k]
<1>1. d.data \in Seq(Cell) /\ d.size \in Nat /\ d.size =< Len(d.data)
  BY DEF Sound
<1> DEFINE c == d.data
           n == d.size
<1> HIDE DEF c, n
<1>2. /\ SubSeq(c, 1, n) \in Seq(Cell) /\ Len(SubSeq(c, 1, n)) = n
      /\ \A k \in 1 .. n : SubSeq(c, 1, n)[k] = c[k]
  <2>1. c \in Seq(Cell) /\ n \in Nat /\ n =< Len(c)
    BY <1>1 DEF c, n
  <2> QED
    BY <2>1, SubSeqProperties
<1> QED
  BY <1>2 DEF Items, c, n

\* darr.h works on the same memory as hda.h.
LEMMA SameMemory ==
    /\ Darr!Cell = Cell
    /\ \A x : Darr!Word(x) = Word(x)
    /\ \A x, y : Darr!MaxOf(x, y) = MaxOf(x, y)
    /\ \A x, y : Darr!At(x, y) = At(x, y)
    /\ \A x, y, z, n : Darr!MemMove(x, y, z, n) = MemMove(x, y, z, n)
    /\ \A x, y, z, n : Darr!MemCpy(x, y, z, n) = MemCpy(x, y, z, n)
<1>1. /\ Darr!Cell = Cell
      /\ \A x : Darr!Word(x) = Word(x)
  BY DEF Darr!Cell, Cell, Darr!Word, Word
<1>2. /\ \A x, y : Darr!MaxOf(x, y) = MaxOf(x, y)
      /\ \A x, y : Darr!At(x, y) = At(x, y)
  BY DEF Darr!MaxOf, MaxOf, Darr!At, At
<1>3. \A x, y, z, n : Darr!MemMove(x, y, z, n) = MemMove(x, y, z, n)
  BY <1>2 DEF Darr!MemMove, MemMove
<1>4. \A x, y, z, n : Darr!MemCpy(x, y, z, n) = MemCpy(x, y, z, n)
  BY <1>2 DEF Darr!MemCpy, MemCpy
<1> QED
  BY <1>1, <1>2, <1>3, <1>4

\* One more element can be counted in bytes.
LEMMA OneMore ==
    ASSUME NEW d, Sound(d)
    PROVE  d.size + 1 \in Nat /\ (d.size + 1) * ElSz =< SizeMax
<1> DEFINE n == d.size
           c == d.cap
<1>1. n \in Nat /\ c \in Nat /\ n =< c /\ c * ElSz =< PtrMax
  BY DEF Sound
<1> HIDE DEF n, c
<1>2. n * ElSz =< c * ElSz
  BY <1>1, ProductMonotone, WidthAssumption
<1>3. (n + 1) * ElSz = n * ElSz + ElSz /\ n * ElSz \in Nat /\ c * ElSz \in Nat
  BY <1>1, WidthAssumption
<1>4. n + 1 \in Nat /\ (n + 1) * ElSz =< SizeMax
  BY <1>1, <1>2, <1>3, WidthAssumption
<1> QED
  BY <1>4 DEF n

\* Doubling meets the limit of the allocator before it wraps, and so does
\* what a caller may ask for.
LEMMA DaNoWrap ==
    ASSUME NEW d, Sound(d), NEW min \in Nat, min * ElSz =< SizeMax
    PROVE  LET cap == MaxOf(min, MaxOf(2, 2 * d.cap))
           IN  /\ Darr!DaNewCap(d, min) = cap
               /\ cap \in Nat /\ min =< cap
               /\ Darr!DaRequest(cap) = cap * ElSz
<1> DEFINE c == d.cap
           cap == MaxOf(min, MaxOf(2, 2 * c))
<1>1. c \in Nat /\ c * ElSz =< PtrMax
  BY DEF Sound
<1> HIDE DEF c
<1>2. (2 * c) * ElSz =< SizeMax
  <2>1. (2 * c) * ElSz = 2 * (c * ElSz) /\ c * ElSz \in Nat
    BY <1>1, WidthAssumption
  <2> QED
    BY <1>1, <2>1, WidthAssumption
<1>3. 2 * ElSz =< SizeMax
  BY WidthAssumption
<1>4. cap \in Nat /\ min =< cap /\ cap * ElSz =< SizeMax
  BY <1>1, <1>2, <1>3 DEF MaxOf
<1>5. 2 * c =< (2 * c) * ElSz /\ 2 * c \in Nat
  BY <1>1, ProductBound, WidthAssumption
<1>6. Word(c * 2) = 2 * c
  <2>1. 2 * c \in 0 .. SizeMax /\ c * 2 = 2 * c
    BY <1>1, <1>2, <1>5, WidthAssumption
  <2> QED
    BY <2>1, WordSmall
<1>7. Word(cap * ElSz) = cap * ElSz
  <2>1. cap * ElSz \in Nat
    BY <1>4, WidthAssumption
  <2> QED
    BY <1>4, <2>1, WordSmall, WidthAssumption
<1> QED
  BY <1>4, <1>6, <1>7, SameMemory DEF Darr!DaNewCap, Darr!DaRequest, c

\* da_reserve that does not fail makes the room, with the elements in place.
LEMMA DaReserveResult ==
    ASSUME NEW d, Sound(d), NEW min \in Nat, min * ElSz =< SizeMax,
           ~Darr!DaReserveFails(d, min)
    PROVE  LET r == Darr!da_reserve(d, min)
           IN  /\ Sound(r) /\ r.size = d.size /\ min =< r.cap
               /\ \A k \in 1 .. d.size : r.data[k] = d.data[k]
<1> DEFINE r == Darr!da_reserve(d, min)
           cap == MaxOf(min, MaxOf(2, 2 * d.cap))
<1>1. CASE d.cap >= min
  <2>1. r = d
    BY <1>1 DEF Darr!da_reserve
  <2> HIDE DEF r
  <2> QED
    BY <1>1, <2>1 DEF Sound, r
<1>2. CASE ~(d.cap >= min)
  <2> DEFINE data == [k \in 1 .. cap |-> At(d.data, k)]
  <2>1. /\ d \in [data : Seq(Cell), size : Nat, cap : Nat]
        /\ d.data \in Seq(Cell) /\ d.size \in Nat /\ d.cap \in Nat
        /\ d.size =< d.cap /\ d.cap = Len(d.data)
    BY DEF Sound
  <2>2. /\ Darr!DaNewCap(d, min) = cap
        /\ cap \in Nat /\ min =< cap
        /\ Darr!DaRequest(cap) = cap * ElSz
    BY DaNoWrap
  <2>3. d.cap =< cap
    BY <1>2, <2>1, <2>2
  <2>4. cap * ElSz =< PtrMax
    <3>1. ~(cap * ElSz > PtrMax)
      BY <1>2, <2>1, <2>2 DEF Darr!DaReserveFails
    <3>2. cap * ElSz \in Nat
      BY <2>2, WidthAssumption
    <3> QED
      BY <3>1, <3>2, WidthAssumption
  <2>5. (cap * ElSz) \div ElSz = cap
    BY <2>2, ProductDiv, WidthAssumption
  <2>6. r = [d EXCEPT !.cap = cap, !.data = data]
    BY <1>2, <2>2, <2>5, SameMemory DEF Darr!da_reserve
  <2>7. data \in Seq(Cell) /\ Len(data) = cap
    <3>1. \A k \in 1 .. cap : At(d.data, k) \in Cell
      BY <2>1 DEF At, Cell
    <3> QED
      BY <2>2, <3>1
  <2>8. \A k \in 1 .. d.size : data[k] = d.data[k]
    BY <2>1, <2>2, <2>3 DEF At
  <2> HIDE DEF r, data, cap
  <2>9. /\ r \in [data : Seq(Cell), size : Nat, cap : Nat]
        /\ r.size = d.size /\ r.cap = cap /\ r.data = data
    BY <2>1, <2>2, <2>6, <2>7
  <2> QED
    BY <2>1, <2>2, <2>3, <2>4, <2>7, <2>8, <2>9 DEF Sound, r
<1> QED
  BY <1>1, <1>2

\* What a write into a slot does.
LEMMA Written ==
    ASSUME NEW d, Sound(d), NEW i \in 0 .. d.size - 1, NEW v \in Cell
    PROVE  LET r == Darr!Write(d, i, v)
           IN  /\ Sound(r) /\ r.size = d.size
               /\ r.data[i + 1] = v
               /\ \A k \in 1 .. d.size : k # i + 1 => r.data[k] = d.data[k]
<1> DEFINE buf == << v >>
           c == d.data
           data == MemCpy(c, i, buf, 1)
           r == Darr!Write(d, i, v)
<1>1. c \in Seq(Cell) /\ d.size \in Nat /\ d.size =< Len(c) /\ d.size =< d.cap
  BY DEF Sound
<1>2. i \in Nat /\ i + 1 =< Len(c) /\ i + 1 =< d.size
  BY <1>1
<1>3. \A k \in 1 .. 1 : k \in DOMAIN buf /\ buf[k] \in Cell
  OBVIOUS
<1> HIDE DEF c, buf, data, r
<1>4. /\ data \in Seq(Cell) /\ Len(data) = Len(c)
      /\ \A k \in 1 .. Len(c) :
            data[k] = IF k > i /\ k =< i + 1 THEN buf[k - i] ELSE c[k]
  BY <1>1, <1>2, <1>3, MemCpyResult DEF data
<1>5. data[i + 1] = v
  <2>1. i + 1 \in 1 .. Len(c) /\ i + 1 > i /\ i + 1 =< i + 1 /\ (i + 1) - i = 1
    BY <1>1, <1>2
  <2>2. data[i + 1] = buf[1]
    BY <1>4, <2>1
  <2> QED
    BY <2>2 DEF buf
<1>6. ASSUME NEW k \in 1 .. d.size, k # i + 1 PROVE data[k] = c[k]
  <2>1. k \in 1 .. Len(c) /\ ~(k > i /\ k =< i + 1)
    BY <1>1, <1>2, <1>6
  <2> QED
    BY <1>4, <2>1
<1>7. r = [d EXCEPT !.data = data]
  BY SameMemory DEF Darr!Write, r, data, c, buf
<1>8. Sound(r) /\ r.size = d.size /\ r.data = data
  BY <1>4, <1>7 DEF Sound, c
<1> QED
  BY <1>5, <1>6, <1>8 DEF r, c

\* What da_push does: one more slot, whatever it holds.
LEMMA DaPushResult ==
    ASSUME NEW d, Sound(d), ~Darr!DaReserveFails(d, d.size + 1)
    PROVE  LET r == Darr!da_push(d)
           IN  /\ Sound(r) /\ r.size = d.size + 1
               /\ \A k \in 1 .. d.size : r.data[k] = d.data[k]
<1> DEFINE g == Darr!da_reserve(d, d.size + 1)
           r == Darr!da_push(d)
<1>1. /\ Sound(g) /\ g.size = d.size /\ d.size + 1 =< g.cap
      /\ \A k \in 1 .. d.size : g.data[k] = d.data[k]
  BY OneMore, DaReserveResult
<1>2. r = [g EXCEPT !.size = d.size + 1]
  BY DEF Darr!da_push
<1>3. d.size + 1 \in Nat
  BY OneMore
<1> HIDE DEF g, r
<1>4. Sound(r) /\ r.size = d.size + 1 /\ r.data = g.data
  BY <1>1, <1>2, <1>3 DEF Sound
<1> QED
  BY <1>1, <1>4 DEF r

\* What da_insert does: the slot at i and what is behind it move up by one.
LEMMA DaInsertResult ==
    ASSUME NEW d, Sound(d), NEW i \in 0 .. d.size,
           ~Darr!DaReserveFails(d, d.size + 1)
    PROVE  LET r == Darr!da_insert(d, i)
           IN  /\ Sound(r) /\ r.size = d.size + 1
               /\ \A k \in 1 .. i : r.data[k] = d.data[k]
               /\ \A k \in i + 1 .. d.size : r.data[k + 1] = d.data[k]
<1> DEFINE n == d.size
           g == Darr!da_reserve(d, d.size + 1)
           c == g.data
           m == d.size - i
           data == MemMove(c, i + 1, i, m)
           r == Darr!da_insert(d, i)
<1>1. /\ Sound(g) /\ g.size = n /\ n + 1 =< g.cap
      /\ \A k \in 1 .. n : c[k] = d.data[k]
  BY OneMore, DaReserveResult
<1>2. n \in Nat /\ c \in Seq(Cell) /\ n + 1 =< Len(c) /\ g.cap = Len(c)
  BY <1>1 DEF Sound
<1>3. r = [g EXCEPT !.data = data, !.size = n + 1]
  BY SameMemory DEF Darr!da_insert
<1> HIDE DEF g, r, c, n, data
<1>4. /\ i \in Nat /\ i + 1 \in Nat /\ m \in Nat /\ m = n - i
      /\ (i + 1) + m =< Len(c) /\ i + m =< Len(c)
  BY <1>2 DEF n
<1> HIDE DEF m
<1>5. /\ data \in Seq(Cell) /\ Len(data) = Len(c)
      /\ \A k \in 1 .. Len(c) :
            data[k] = IF k > i + 1 /\ k =< (i + 1) + m
                      THEN c[(k - (i + 1)) + i] ELSE c[k]
  BY <1>2, <1>4, MemMoveResult DEF data
<1>6. Sound(r) /\ r.size = n + 1 /\ r.data = data
  <2>1. n + 1 \in Nat /\ n + 1 =< g.cap /\ Len(data) = Len(g.data)
    BY <1>1, <1>2, <1>5 DEF c
  <2>2. r = [g EXCEPT !.data = data, !.size = n + 1]
    BY <1>3
  <2> QED
    BY <1>1, <1>5, <2>1, <2>2 DEF Sound
<1>7. ASSUME NEW k \in 1 .. i PROVE data[k] = d.data[k]
  <2>1. k \in 1 .. Len(c) /\ ~(k > i + 1) /\ k \in 1 .. n
    BY <1>2, <1>4
  <2>2. data[k] = c[k]
    BY <1>5, <2>1
  <2> QED
    BY <1>1, <2>1, <2>2
<1>8. ASSUME NEW k \in i + 1 .. n PROVE data[k + 1] = d.data[k]
  <2>1. /\ k + 1 \in 1 .. Len(c) /\ k + 1 > i + 1 /\ k + 1 =< (i + 1) + m
        /\ ((k + 1) - (i + 1)) + i = k /\ k \in 1 .. n
    BY <1>2, <1>4
  <2>2. data[k + 1] = c[k]
    BY <1>5, <2>1
  <2> QED
    BY <1>1, <2>1, <2>2
<1> QED
  BY <1>6, <1>7, <1>8 DEF r, n

\* What da_delete does: the elements behind i come down by one.
LEMMA DaDeleteResult ==
    ASSUME NEW d, Sound(d), NEW i \in 0 .. d.size - 1
    PROVE  LET r == Darr!da_delete(d, i)
           IN  /\ Sound(r) /\ r.size = d.size - 1
               /\ \A k \in 1 .. i : r.data[k] = d.data[k]
               /\ \A k \in i + 1 .. d.size - 1 : r.data[k] = d.data[k + 1]
<1> DEFINE n == d.size
           c == d.data
           m == d.size - i - 1
           data == MemMove(c, i, i + 1, m)
           r == Darr!da_delete(d, i)
<1>1. n \in Nat /\ c \in Seq(Cell) /\ n =< Len(c) /\ n =< d.cap
  BY DEF Sound
<1>2. r = [d EXCEPT !.data = data, !.size = n - 1]
  BY SameMemory DEF Darr!da_delete
<1> HIDE DEF r, c, n, data
<1>3. /\ i \in Nat /\ i + 1 \in Nat /\ m \in Nat /\ m = n - i - 1
      /\ i + m =< Len(c) /\ (i + 1) + m =< Len(c)
      /\ n - 1 \in Nat /\ n - 1 =< d.cap
  <2>1. i \in 0 .. n - 1 /\ m = n - i - 1
    BY DEF n
  <2>2. d.cap \in Nat
    BY DEF Sound
  <2> HIDE DEF m
  <2> QED
    BY <1>1, <2>1, <2>2
<1> HIDE DEF m
<1>4. /\ data \in Seq(Cell) /\ Len(data) = Len(c)
      /\ \A k \in 1 .. Len(c) :
            data[k] = IF k > i /\ k =< i + m
                      THEN c[(k - i) + (i + 1)] ELSE c[k]
  BY <1>1, <1>3, MemMoveResult DEF data
<1>5. Sound(r) /\ r.size = n - 1 /\ r.data = data
  BY <1>2, <1>3, <1>4 DEF Sound, c
<1>6. ASSUME NEW k \in 1 .. i PROVE data[k] = c[k]
  <2>1. k \in 1 .. Len(c) /\ ~(k > i)
    BY <1>1, <1>3
  <2> QED
    BY <1>4, <2>1
<1>7. ASSUME NEW k \in i + 1 .. n - 1 PROVE data[k] = c[k + 1]
  <2>1. /\ k \in 1 .. Len(c) /\ k > i /\ k =< i + m
        /\ (k - i) + (i + 1) = k + 1
    BY <1>1, <1>3
  <2> QED
    BY <1>4, <2>1
<1> QED
  BY <1>5, <1>6, <1>7 DEF r, n, c

\* One more slot behind the elements is a push of what it holds.
LEMMA PushedItems ==
    ASSUME NEW d, Sound(d), NEW r, Sound(r), r.size = d.size + 1,
           \A k \in 1 .. d.size : r.data[k] = d.data[k]
    PROVE  \E v \in Cell : Items(r) = Append(Items(d), v)
<1> DEFINE n == d.size
           s == Items(d)
           t == Items(r)
           v == r.data[d.size + 1]
           u == Append(s, v)
<1>1. /\ s \in Seq(Cell) /\ Len(s) = n /\ n \in Nat
      /\ \A k \in 1 .. n : s[k] = d.data[k]
  BY ItemsOf DEF Sound
<1>2. /\ t \in Seq(Cell) /\ Len(t) = n + 1
      /\ \A k \in 1 .. n + 1 : t[k] = r.data[k]
  BY ItemsOf
<1>3. \A k \in 1 .. n : r.data[k] = d.data[k]
  OBVIOUS
<1>4. t[n + 1] = v
  <2>1. n + 1 \in 1 .. n + 1
    BY <1>1
  <2> QED
    BY <1>2, <2>1
<1> HIDE DEF n, s, t, v, u
<1>5. v \in Cell
  <2>1. n + 1 \in 1 .. Len(t)
    BY <1>1, <1>2
  <2> QED
    BY <1>2, <1>4, <2>1, ElementOfSeq
<1>6. /\ u \in Seq(Cell) /\ Len(u) = n + 1
      /\ \A k \in 1 .. n : u[k] = s[k]
      /\ u[n + 1] = v
  BY <1>1, <1>5, AppendProperties DEF u
<1>7. ASSUME NEW k \in 1 .. n + 1 PROVE t[k] = u[k]
  <2>1. CASE k = n + 1
    BY <1>4, <1>6, <2>1
  <2>2. CASE k # n + 1
    <3>1. k \in 1 .. n
      BY <1>1, <2>2
    <3> QED
      BY <1>1, <1>2, <1>3, <1>6, <3>1
  <2> QED
    BY <2>1, <2>2
<1>8. t = u
  BY <1>2, <1>6, <1>7, SameElements
<1> QED
  BY <1>5, <1>8 DEF t, u, s

\* A slot opened at i is an insertion of what it holds.
LEMMA InsertedItems ==
    ASSUME NEW d, Sound(d), NEW r, Sound(r), r.size = d.size + 1,
           NEW i \in 0 .. d.size,
           \A k \in 1 .. i : r.data[k] = d.data[k],
           \A k \in i + 1 .. d.size : r.data[k + 1] = d.data[k]
    PROVE  \E v \in Cell : Items(r) = InsertAt(Items(d), i, << v >>)
<1> DEFINE n == d.size
           s == Items(d)
           t == Items(r)
           v == r.data[i + 1]
           els == << v >>
           u == InsertAt(s, i, els)
<1>1. /\ s \in Seq(Cell) /\ Len(s) = n /\ n \in Nat /\ i \in 0 .. n
      /\ \A k \in 1 .. n : s[k] = d.data[k]
  BY ItemsOf DEF Sound
<1>2. /\ t \in Seq(Cell) /\ Len(t) = n + 1
      /\ \A k \in 1 .. n + 1 : t[k] = r.data[k]
  BY ItemsOf
<1>3. /\ \A k \in 1 .. i : r.data[k] = d.data[k]
      /\ \A k \in i + 1 .. n : r.data[k + 1] = d.data[k]
  OBVIOUS
<1>4. i + 1 \in 1 .. n + 1
  BY <1>1
<1>5. t[i + 1] = v
  BY <1>2, <1>4
<1> HIDE DEF n, s, t, v, els, u
<1>6. v \in Cell
  BY <1>2, <1>4, <1>5, ElementOfSeq
<1>7. els \in Seq(Cell) /\ Len(els) = 1 /\ els[1] = v
  BY <1>6 DEF els
<1>8. /\ u \in Seq(Cell) /\ Len(u) = n + 1
      /\ \A k \in 1 .. n + 1 :
            u[k] = IF k =< i THEN s[k]
                   ELSE IF k =< i + 1 THEN els[k - i] ELSE s[k - 1]
  <2>1. i \in 0 .. Len(s)
    BY <1>1
  <2>2. /\ u \in Seq(Cell) /\ Len(u) = Len(s) + Len(els)
        /\ \A k \in 1 .. Len(u) :
              u[k] = IF k =< i THEN s[k]
                     ELSE IF k =< i + Len(els) THEN els[k - i]
                     ELSE s[k - Len(els)]
    <3>1. s \in Seq(Cell) /\ els \in Seq(Cell)
      BY <1>1, <1>7
    <3> QED
      BY ONLY <2>1, <3>1, InsertAtPlaces DEF u
  <2> QED
    BY <1>1, <1>7, <2>2
<1>9. ASSUME NEW k \in 1 .. n + 1 PROVE t[k] = u[k]
  <2>1. CASE k =< i
    <3>1. k \in 1 .. i /\ k \in 1 .. n
      BY <1>1, <2>1
    <3> QED
      BY <1>1, <1>2, <1>3, <1>8, <2>1, <3>1
  <2>2. CASE k = i + 1
    <3>1. ~(k =< i) /\ k - i = 1
      BY <1>1, <2>2
    <3> QED
      BY <1>5, <1>7, <1>8, <2>2, <3>1
  <2>3. CASE k > i + 1
    <3>1. /\ k - 1 \in i + 1 .. n /\ (k - 1) + 1 = k /\ k - 1 \in 1 .. n
          /\ ~(k =< i) /\ ~(k =< i + 1)
      BY <1>1, <2>3
    <3>2. u[k] = s[k - 1] /\ s[k - 1] = d.data[k - 1]
      BY <1>1, <1>8, <3>1
    <3>3. t[k] = r.data[k] /\ r.data[k] = d.data[k - 1]
      BY <1>2, <1>3, <3>1
    <3> QED
      BY <3>2, <3>3
  <2> QED
    BY <1>1, <2>1, <2>2, <2>3
<1>10. t = u
  BY <1>2, <1>8, <1>9, SameElements
<1> QED
  BY <1>6, <1>10 DEF t, u, els, s

\* What comes down over the slot at i is a removal of its element.
LEMMA DeletedItems ==
    ASSUME NEW d, Sound(d), NEW r, Sound(r), NEW i \in 0 .. d.size - 1,
           r.size = d.size - 1,
           \A k \in 1 .. i : r.data[k] = d.data[k],
           \A k \in i + 1 .. d.size - 1 : r.data[k] = d.data[k + 1]
    PROVE  Items(r) = SubSeq(Items(d), 1, i)
                        \o SubSeq(Items(d), i + 2, Len(Items(d)))
<1> DEFINE n == d.size
           s == Items(d)
           t == Items(r)
           front == SubSeq(s, 1, i)
           back == SubSeq(s, i + 2, Len(s))
           u == front \o back
<1>1. /\ s \in Seq(Cell) /\ Len(s) = n /\ n \in Nat /\ i \in 0 .. n - 1
      /\ \A k \in 1 .. n : s[k] = d.data[k]
  BY ItemsOf DEF Sound
<1>2. /\ t \in Seq(Cell) /\ Len(t) = n - 1
      /\ \A k \in 1 .. n - 1 : t[k] = r.data[k]
  BY ItemsOf
<1>3. /\ \A k \in 1 .. i : r.data[k] = d.data[k]
      /\ \A k \in i + 1 .. n - 1 : r.data[k] = d.data[k + 1]
  OBVIOUS
<1> HIDE DEF n, s, t, front, back, u
<1>4. /\ front \in Seq(Cell) /\ Len(front) = i
      /\ \A k \in 1 .. i : front[k] = s[k]
  BY <1>1, SubSeqProperties DEF front
<1>5. /\ back \in Seq(Cell) /\ Len(back) = n - i - 1
      /\ \A k \in 1 .. n - i - 1 : back[k] = s[(i + 1) + k]
  BY <1>1, SubSeqProperties DEF back
<1>6. /\ u \in Seq(Cell) /\ Len(u) = n - 1
      /\ \A k \in 1 .. n - 1 :
            u[k] = IF k =< i THEN front[k] ELSE back[k - i]
  <2>1. /\ u \in Seq(Cell) /\ Len(u) = Len(front) + Len(back)
        /\ \A k \in 1 .. Len(front) + Len(back) :
              u[k] = IF k =< Len(front) THEN front[k] ELSE back[k - Len(front)]
    BY <1>4, <1>5, ConcatProperties DEF u
  <2>2. Len(front) + Len(back) = n - 1
    BY <1>1, <1>4, <1>5
  <2> QED
    BY <1>4, <2>1, <2>2
<1>7. ASSUME NEW k \in 1 .. n - 1 PROVE t[k] = u[k]
  <2>1. CASE k =< i
    <3>1. k \in 1 .. i /\ k \in 1 .. n
      BY <1>1, <2>1
    <3> QED
      BY <1>1, <1>2, <1>3, <1>4, <1>6, <2>1, <3>1
  <2>2. CASE k > i
    <3>1. /\ k \in i + 1 .. n - 1 /\ k + 1 \in 1 .. n /\ ~(k =< i)
          /\ k - i \in 1 .. n - i - 1 /\ (i + 1) + (k - i) = k + 1
      BY <1>1, <2>2
    <3>2. u[k] = back[k - i] /\ back[k - i] = s[k + 1]
      BY <1>5, <1>6, <3>1
    <3>3. t[k] = r.data[k] /\ r.data[k] = d.data[k + 1]
      BY <1>2, <1>3, <3>1
    <3> QED
      BY <1>1, <3>1, <3>2, <3>3
  <2> QED
    BY <1>1, <2>1, <2>2
<1>8. t = u
  BY <1>2, <1>6, <1>7, SameElements
<1> QED
  BY <1>8 DEF t, u, front, back, s

-----------------------------------------------------------------------------
(* The calls of darr.h *)

DarrInv == Sound(arr) /\ up \in BOOLEAN

\* A call that needs room either ends the process or does what it does when
\* there is room.
LEMMA Grows ==
    ASSUME NEW min, NEW d, Darr!Growing(min, d)
    PROVE  \/ Darr!Abort
           \/ ~Darr!DaReserveFails(arr, min) /\ arr' = d /\ up' = up
BY DEF Darr!Growing, Darr!Becomes

\* The elements as the abstract sequence has them.
LEMMA AbstractItems ==
    ASSUME NEW d, arr' = d
    PROVE  SubSeq(arr.data, 1, arr.size)' = Items(d)
BY DEF Items

\* A push of any value is one of the sequence.
LEMMA PushIsPush ==
    ASSUME NEW d, arr' = d, NEW v \in Cell, Items(d) = Append(Items(arr), v)
    PROVE  Darr!Abs!Effect
BY AbstractItems, SameMemory DEF Darr!Abs!Effect, Darr!Abs!Push, Items

\* An insertion of any value is one of the sequence.
LEMMA InsertIsInsert ==
    ASSUME NEW d, Sound(arr), arr' = d, NEW v \in Cell,
           NEW i \in 0 .. arr.size,
           Items(d) = InsertAt(Items(arr), i, << v >>)
    PROVE  Darr!Abs!Effect
<1>1. Len(Items(arr)) = arr.size
  BY ItemsOf
<1>2. i \in 0 .. Len(SubSeq(arr.data, 1, arr.size))
  BY <1>1 DEF Items
<1>3. << v >> \in {<< w >> : w \in Darr!Cell}
  BY SameMemory
<1>4. Darr!Abs!InsertBuf(i, << v >>)
  BY AbstractItems
     DEF Darr!Abs!InsertBuf, Darr!Abs!InsertAt, InsertAt, Items
<1> QED
  BY <1>2, <1>3, <1>4 DEF Darr!Abs!Effect

\* A step of the array as the sequence sees it: the process ends, the elements
\* stay, or a call of the sequence makes others of them.
Simulates ==
    \/ Darr!Abort
    \/ /\ Sound(arr') /\ up' = up
       /\ Items(arr') = Items(arr) \/ Darr!Abs!Effect

\* da_reserve only moves the elements.
LEMMA ReserveSimulates ==
    ASSUME DarrInv, Darr!ReserveSome
    PROVE  Simulates
<1>1. PICK min \in Mins : Darr!Growing(min, Darr!da_reserve(arr, min))
  BY DEF Darr!ReserveSome
<1>2. min \in Nat /\ min * ElSz =< SizeMax
  BY MinsAssumption
<1>3. CASE ~Darr!DaReserveFails(arr, min)
           /\ arr' = Darr!da_reserve(arr, min) /\ up' = up
  <2>1. PICK d : d = Darr!da_reserve(arr, min)
    OBVIOUS
  <2>2. /\ Sound(d) /\ d.size = arr.size
        /\ \A k \in 1 .. arr.size : d.data[k] = arr.data[k]
    BY <1>2, <1>3, <2>1, DaReserveResult DEF DarrInv
  <2>3. Items(d) = Items(arr)
    <3>1. /\ Items(d) \in Seq(Cell) /\ Items(arr) \in Seq(Cell)
          /\ Len(Items(d)) = arr.size /\ Len(Items(arr)) = arr.size
      BY <2>2, ItemsOf DEF DarrInv
    <3>2. \A k \in 1 .. arr.size : Items(d)[k] = Items(arr)[k]
      BY <2>2, ItemsOf DEF DarrInv
    <3> QED
      BY <3>1, <3>2, SameElements
  <2> QED
    BY <1>3, <2>1, <2>2, <2>3 DEF Simulates
<1> QED
  BY <1>1, <1>3, Grows DEF Simulates

\* An array with one more slot behind its elements, or with a slot among
\* them, written or not.
LEMMA PushedSimulates ==
    ASSUME DarrInv, NEW d, Sound(d), d.size = arr.size + 1,
           \A k \in 1 .. arr.size : d.data[k] = arr.data[k],
           arr' = d, up' = up
    PROVE  Simulates
<1>1. PICK v \in Cell : Items(d) = Append(Items(arr), v)
  BY PushedItems DEF DarrInv
<1>2. Darr!Abs!Effect
  BY <1>1, PushIsPush
<1> QED
  BY <1>2 DEF Simulates

LEMMA InsertedSimulates ==
    ASSUME DarrInv, NEW d, Sound(d), d.size = arr.size + 1,
           NEW i \in 0 .. arr.size,
           \A k \in 1 .. i : d.data[k] = arr.data[k],
           \A k \in i + 1 .. arr.size : d.data[k + 1] = arr.data[k],
           arr' = d, up' = up
    PROVE  Simulates
<1>1. PICK v \in Cell : Items(d) = InsertAt(Items(arr), i, << v >>)
  BY InsertedItems DEF DarrInv
<1>2. Darr!Abs!Effect
  BY <1>1, InsertIsInsert DEF DarrInv
<1> QED
  BY <1>2 DEF Simulates

LEMMA PushSimulates ==
    ASSUME DarrInv, Darr!PushSlot \/ Darr!PushWritten
    PROVE  Simulates
<1>1. PICK d : d = Darr!da_push(arr)
  OBVIOUS
<1>2. ~Darr!DaReserveFails(arr, arr.size + 1)
        => /\ Sound(d) /\ d.size = arr.size + 1
           /\ \A k \in 1 .. arr.size : d.data[k] = arr.data[k]
  BY <1>1, DaPushResult DEF DarrInv
<1>3. CASE Darr!PushSlot
  <2>1. \/ Darr!Abort
        \/ ~Darr!DaReserveFails(arr, arr.size + 1) /\ arr' = d /\ up' = up
    BY <1>1, <1>3, Grows DEF Darr!PushSlot
  <2> QED
    BY <1>2, <2>1, PushedSimulates DEF Simulates
<1>4. CASE Darr!PushWritten
  <2>1. PICK v \in Elem : Darr!Growing(arr.size + 1, Darr!Write(d, arr.size, v))
    BY <1>1, <1>4 DEF Darr!PushWritten
  <2>2. PICK e : e = Darr!Write(d, arr.size, v)
    OBVIOUS
  <2>3. CASE ~Darr!DaReserveFails(arr, arr.size + 1) /\ arr' = e /\ up' = up
    <3>1. arr.size \in Nat /\ arr.size \in 0 .. d.size - 1 /\ v \in Cell
      BY <1>2, <2>3 DEF DarrInv, Sound, Cell
    <3>2. /\ Sound(e) /\ e.size = d.size
          /\ \A k \in 1 .. d.size : k # arr.size + 1 => e.data[k] = d.data[k]
      BY <1>2, <2>2, <2>3, <3>1, Written
    <3>3. \A k \in 1 .. arr.size : e.data[k] = arr.data[k]
      <4> TAKE k \in 1 .. arr.size
      <4>1. k \in 1 .. d.size /\ k # arr.size + 1
        BY <1>2, <2>3, <3>1
      <4> QED
        BY <1>2, <2>3, <3>2, <4>1
    <3> QED
      BY <1>2, <2>3, <3>2, <3>3, PushedSimulates
  <2> QED
    BY <2>1, <2>2, <2>3, Grows DEF Simulates
<1> QED
  BY <1>3, <1>4

LEMMA InsertSimulates ==
    ASSUME DarrInv, Darr!InsertSlot \/ Darr!InsertWritten
    PROVE  Simulates
<1>1. \A i \in 0 .. arr.size :
        LET d == Darr!da_insert(arr, i)
        IN  ~Darr!DaReserveFails(arr, arr.size + 1)
              => /\ Sound(d) /\ d.size = arr.size + 1
                 /\ \A k \in 1 .. i : d.data[k] = arr.data[k]
                 /\ \A k \in i + 1 .. arr.size : d.data[k + 1] = arr.data[k]
  BY DaInsertResult DEF DarrInv
<1>2. CASE Darr!InsertSlot
  <2>1. PICK i \in 0 .. arr.size :
           Darr!Growing(arr.size + 1, Darr!da_insert(arr, i))
    BY <1>2 DEF Darr!InsertSlot
  <2>2. PICK d : d = Darr!da_insert(arr, i)
    OBVIOUS
  <2>3. \/ Darr!Abort
        \/ ~Darr!DaReserveFails(arr, arr.size + 1) /\ arr' = d /\ up' = up
    BY <2>1, <2>2, Grows
  <2> QED
    BY <1>1, <2>2, <2>3, InsertedSimulates DEF Simulates
<1>3. CASE Darr!InsertWritten
  <2>1. PICK i \in 0 .. arr.size, v \in Elem :
           Darr!Growing(arr.size + 1, Darr!Write(Darr!da_insert(arr, i), i, v))
    BY <1>3 DEF Darr!InsertWritten
  <2>2. PICK d : d = Darr!da_insert(arr, i)
    OBVIOUS
  <2>3. PICK e : e = Darr!Write(d, i, v)
    OBVIOUS
  <2>4. CASE ~Darr!DaReserveFails(arr, arr.size + 1) /\ arr' = e /\ up' = up
    <3>1. /\ Sound(d) /\ d.size = arr.size + 1
          /\ \A k \in 1 .. i : d.data[k] = arr.data[k]
          /\ \A k \in i + 1 .. arr.size : d.data[k + 1] = arr.data[k]
      BY <1>1, <2>2, <2>4
    <3>2. arr.size \in Nat /\ i \in 0 .. d.size - 1 /\ v \in Cell
      BY <3>1 DEF DarrInv, Sound, Cell
    <3>3. /\ Sound(e) /\ e.size = d.size
          /\ \A k \in 1 .. d.size : k # i + 1 => e.data[k] = d.data[k]
      BY <2>3, <3>1, <3>2, Written
    <3>4. \A k \in 1 .. i : e.data[k] = arr.data[k]
      <4> TAKE k \in 1 .. i
      <4>1. k \in 1 .. d.size /\ k # i + 1
        BY <3>1, <3>2
      <4> QED
        BY <3>1, <3>3, <4>1
    <3>5. \A k \in i + 1 .. arr.size : e.data[k + 1] = arr.data[k]
      <4> TAKE k \in i + 1 .. arr.size
      <4>1. k + 1 \in 1 .. d.size /\ k + 1 # i + 1
        BY <3>1, <3>2
      <4> QED
        BY <3>1, <3>3, <4>1
    <3> QED
      BY <2>4, <3>1, <3>3, <3>4, <3>5, InsertedSimulates
  <2> QED
    BY <2>1, <2>2, <2>3, <2>4, Grows DEF Simulates
<1> QED
  BY <1>2, <1>3

LEMMA DeleteSimulates ==
    ASSUME DarrInv, Darr!DeleteOne
    PROVE  Simulates
<1>1. PICK i \in 0 .. arr.size - 1 : Darr!Becomes(Darr!da_delete(arr, i))
  BY DEF Darr!DeleteOne
<1>2. PICK d : d = Darr!da_delete(arr, i)
  OBVIOUS
<1>3. arr' = d /\ up' = up
  BY <1>1, <1>2 DEF Darr!Becomes
<1>4. /\ Sound(d) /\ d.size = arr.size - 1
      /\ \A k \in 1 .. i : d.data[k] = arr.data[k]
      /\ \A k \in i + 1 .. arr.size - 1 : d.data[k] = arr.data[k + 1]
  BY <1>2, DaDeleteResult DEF DarrInv
<1>5. /\ Items(d) = SubSeq(Items(arr), 1, i)
                      \o SubSeq(Items(arr), i + 2, Len(Items(arr)))
      /\ Len(Items(arr)) = arr.size /\ arr.size \in Nat
  <2>1. Sound(arr) /\ arr.size \in Nat
    BY DEF DarrInv, Sound
  <2> QED
    BY <1>4, <2>1, DeletedItems, ItemsOf
<1>6. Darr!Abs!Remove(i, 1)
  <2>1. i + 1 + 1 = i + 2
    BY <1>5
  <2> QED
    BY <1>3, <1>5, <2>1, AbstractItems DEF Darr!Abs!Remove, Items
<1>7. /\ i \in 0 .. Len(SubSeq(arr.data, 1, arr.size))
      /\ 1 \in 0 .. Len(SubSeq(arr.data, 1, arr.size)) - i
  BY <1>5 DEF Items
<1>8. Darr!Abs!Effect
  BY <1>6, <1>7 DEF Darr!Abs!Effect
<1> QED
  BY <1>3, <1>4, <1>8 DEF Simulates

\* An array without storage.
LEMMA ZeroIsSound == Sound(Darr!Zero) /\ Items(Darr!Zero) = << >>
<1>1. Sound(Darr!Zero)
  BY WidthAssumption DEF Sound, Darr!Zero
<1>2. Items(Darr!Zero) = << >>
  BY DEF Items, Darr!Zero
<1> QED
  BY <1>1, <1>2

LEMMA ReleaseSimulates ==
    ASSUME DarrInv, Darr!Release
    PROVE  Simulates
<1>1. arr' = Darr!Zero /\ up' = up
  BY DEF Darr!Release, Darr!Becomes
<1>2. Darr!Abs!Clear
  BY <1>1, ZeroIsSound DEF Darr!Abs!Clear, Items
<1> QED
  BY <1>1, <1>2, ZeroIsSound DEF Simulates, Darr!Abs!Effect

\* Every call of darr.h.
LEMMA DarrSimulates == DarrInv /\ Darr!Next => up /\ Simulates
BY ReserveSimulates, PushSimulates, InsertSimulates, DeleteSimulates,
   ReleaseSimulates
   DEF Darr!Next

LEMMA DarrInvInit == Darr!Init => DarrInv
BY ZeroIsSound DEF Darr!Init, DarrInv

LEMMA DarrInvNext == DarrInv /\ [Darr!Next]_(Darr!vars) => DarrInv'
<1>1. DarrInv /\ Darr!Next => DarrInv'
  BY DarrSimulates DEF DarrInv, Simulates, Darr!Abort
<1>2. DarrInv /\ UNCHANGED Darr!vars => DarrInv'
  BY DEF DarrInv, Darr!vars
<1> QED
  BY <1>1, <1>2

LEMMA DarrInvariant == Darr!Spec => []DarrInv
BY DarrInvInit, DarrInvNext, PTL DEF Darr!Spec

\* The storage of a darr holds its capacity and every counted element, for
\* every size of an element and of size_t and whatever callers reserve that
\* can be counted in bytes: no product of _da_reserve_imp wraps.
THEOREM ArraysFit == Darr!Spec => []DarrFits
<1>1. DarrInv => DarrFits
  BY DEF DarrInv, Sound, DarrFits, Darr!Fits
<1> QED
  BY <1>1, DarrInvariant, PTL

\* A step of the array is one of the sequence or leaves it alone.
LEMMA DarrStepSimulates ==
    DarrInv /\ [Darr!Next]_(Darr!vars) => [Darr!Abs!Next]_(Darr!Abs!vars)
<1>1. ASSUME DarrInv, Darr!Next
      PROVE  [Darr!Abs!Next]_(Darr!Abs!vars)
  <2>1. up /\ Simulates
    BY <1>1, DarrSimulates
  <2>2. CASE Darr!Abort
    BY <2>1, <2>2
       DEF Darr!Abort, Darr!Abs!Next, Darr!Abs!Stop
  <2>3. CASE Items(arr') = Items(arr) /\ up' = up
    BY <2>3 DEF Items, Darr!Abs!vars
  <2>4. CASE Darr!Abs!Effect /\ up' = up
    BY <1>1, <2>1, <2>4 DEF Darr!Abs!Next, DarrInv
  <2> QED
    BY <2>1, <2>2, <2>3, <2>4 DEF Simulates
<1>2. ASSUME UNCHANGED Darr!vars
      PROVE  [Darr!Abs!Next]_(Darr!Abs!vars)
  BY <1>2 DEF Darr!vars, Darr!Abs!vars
<1> QED
  BY <1>1, <1>2

\* The array of darr.h is the abstract sequence too, with slots that no one
\* wrote as elements: every call is one of the sequence or stutters.
THEOREM DarrImplementsSeq == Darr!Spec => DarrRefinesAbsSeq
<1>1. Darr!Init => Darr!Abs!Init
  BY ZeroIsSound DEF Darr!Init, Darr!Abs!Init, Items
<1> QED
  BY <1>1, DarrInvariant, DarrStepSimulates, PTL
     DEF Darr!Spec, DarrRefinesAbsSeq, Darr!RefinesAbsSeq, Darr!Abs!Spec
=============================================================================
