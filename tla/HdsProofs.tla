----------------------------- MODULE HdsProofs -----------------------------
(***************************************************************************)
(* Proofs about the strings of src/hds.h and src/dstr.h, for every set of  *)
(* characters and foreign strings and every width of size_t, from what     *)
(* HdaOpsProofs says of the array below the one and of the memory below    *)
(* the other; and about the hash of a string (src/hash.h).                 *)
(***************************************************************************)
EXTENDS CharStrings, HdaOpsProofs, WellFoundedInduction

\* Texts without a NUL inside.
Texts == Seq(Elem \ {NUL})

\* The array h is empty, or holds the text t and a NUL behind it.
Contains(h, t) ==
    /\ GoodHandle(h) /\ t \in Texts
    /\ \/ hda_size(h) = 0 /\ t = << >>
       \/ Contents(h) = Append(t, NUL)

\* A string between two calls: a block is never empty.
Spells(h, t) == Contains(h, t) /\ (h = NULL \/ hda_size(h) # 0)

-----------------------------------------------------------------------------
(* The operators *)

\* The text and its NUL, cell by cell.
LEMMA SpelledCells ==
    ASSUME NEW h, NEW t, Spells(h, t), h # NULL
    PROVE  /\ Good(h) /\ t \in Texts /\ h.size = Len(t) + 1
           /\ hds_len(h) = Len(t)
           /\ h.cell \in Seq(Cell) /\ h.size =< Len(h.cell)
           /\ \A k \in 1 .. Len(t) : h.cell[k] = t[k] /\ h.cell[k] # NUL
           /\ h.cell[Len(t) + 1] = NUL
<1>1. Good(h) /\ t \in Texts /\ Contents(h) = Append(t, NUL)
      /\ hda_size(h) = h.size /\ h.size # 0
  BY DEF Spells, Contains, GoodHandle, hda_size
<1>2. h.cell \in Seq(Cell) /\ h.size =< Len(h.cell)
  BY <1>1 DEF Good, Block
<1>3. Len(Append(t, NUL)) = Len(t) + 1 /\ Len(t) \in Nat
      /\ Append(t, NUL)[Len(t) + 1] = NUL
      /\ \A k \in 1 .. Len(t) : Append(t, NUL)[k] = t[k] /\ t[k] \in Elem \ {NUL}
  BY <1>1 DEF Texts
<1>4. h.size = Len(t) + 1
  BY <1>1, <1>3, BlockContents
<1>5. \A k \in 1 .. h.size : h.cell[k] = Append(t, NUL)[k]
  BY <1>1, BlockContents
<1>6. hds_len(h) = Len(t)
  BY <1>1, <1>3, <1>4 DEF hds_len
<1> QED
  BY <1>1, <1>2, <1>3, <1>4, <1>5, <1>6

\* strlen stops at the NUL, and at no character before it.
LEMMA StrLenIs ==
    ASSUME NEW h, NEW t, Spells(h, t), h # NULL, NEW k \in 0 .. Len(t)
    PROVE  StrLen(h.cell, k) = Len(t) - k
<1> DEFINE c == h.cell
           P(n) == /\ n = Len(c) - k \/ c[k + n + 1] = NUL
                   /\ \A m \in 0 .. n - 1 : c[k + m + 1] # NUL
<1>1. /\ t \in Texts /\ Len(t) \in Nat /\ Len(c) \in Nat /\ Len(t) + 1 =< Len(c)
      /\ \A i \in 1 .. Len(t) : c[i] # NUL
      /\ c[Len(t) + 1] = NUL
  BY SpelledCells DEF Texts
<1> HIDE DEF c
<1>2. Len(t) - k \in 0 .. Len(c) - k
  BY <1>1
<1>3. P(Len(t) - k)
  <2>1. c[k + (Len(t) - k) + 1] = NUL
    <3>1. k + (Len(t) - k) + 1 = Len(t) + 1 BY <1>1
    <3> QED BY <3>1, <1>1
  <2>2. ASSUME NEW m \in 0 .. (Len(t) - k) - 1 PROVE c[k + m + 1] # NUL
    <3>1. k + m + 1 \in 1 .. Len(t) BY <1>1
    <3> QED BY <3>1, <1>1
  <2> QED BY <2>1, <2>2
<1>4. ASSUME NEW n \in 0 .. Len(c) - k, P(n) PROVE n = Len(t) - k
  <2>1. CASE n < Len(t) - k
    <3>1. n # Len(c) - k /\ k + n + 1 \in 1 .. Len(t) BY <1>1, <2>1
    <3> QED BY <1>1, <1>4, <3>1
  <2>2. CASE n > Len(t) - k
    <3>1. Len(t) - k \in 0 .. n - 1 /\ k + (Len(t) - k) + 1 = Len(t) + 1
      BY <1>1, <2>2
    <3> QED BY <1>1, <1>4, <3>1
  <2> QED BY <2>1, <2>2, <1>1
<1>5. StrLen(c, k) = CHOOSE n \in 0 .. Len(c) - k : P(n)
  BY DEF StrLen
<1> HIDE DEF P
<1> QED
  BY <1>2, <1>3, <1>4, <1>5 DEF c


\* The string that a C function reads from the k-th character on.
LEMMA CStrIs ==
    ASSUME NEW h, NEW t, Spells(h, t), NEW k \in 0 .. Len(t)
    PROVE  CStr(h, k) = SubSeq(t, k + 1, Len(t)) /\ CStr(h, k) \in Texts
<1>1. CASE h = NULL
  <2>1. t = << >>
    <3>1. Contents(h) = << >> /\ t \in Texts
      BY <1>1 DEF Contents, Spells, Contains
    <3>2. Append(t, NUL) # << >>
      BY <3>1 DEF Texts
    <3> QED
      BY <3>1, <3>2 DEF Spells, Contains
  <2> QED
    BY <1>1, <2>1 DEF CStr, Texts
<1>2. CASE h # NULL
  <2>1. /\ t \in Texts /\ h.cell \in Seq(Cell) /\ Len(t) =< Len(h.cell)
        /\ \A i \in 1 .. Len(t) : h.cell[i] = t[i]
    BY <1>2, SpelledCells DEF Texts, Good, Block
  <2>2. CStr(h, k) = SubSeq(h.cell, k + 1, k + (Len(t) - k))
    BY <1>2, StrLenIs DEF CStr
  <2>3. k + (Len(t) - k) = Len(t)
    BY <2>1 DEF Texts
  <2>4. SubSeq(h.cell, k + 1, Len(t)) = SubSeq(t, k + 1, Len(t))
    <3> DEFINE c == h.cell
    <3> HIDE DEF c
    <3>1. c \in Seq(Cell) /\ t \in Seq(Elem \ {NUL}) /\ Len(t) =< Len(c)
          /\ \A i \in 1 .. Len(t) : c[i] = t[i]
      BY <2>1 DEF c, Texts
    <3>2. SubSeq(c, k + 1, Len(t)) = SubSeq(t, k + 1, Len(t))
      BY <3>1
    <3> QED
      BY <3>2 DEF c
  <2>5. SubSeq(t, k + 1, Len(t)) \in Texts
    BY <2>1 DEF Texts
  <2> QED
    BY <2>2, <2>3, <2>4, <2>5
<1> QED
  BY <1>1, <1>2

\* The header of an array after an insert does not depend on the elements.
LEMMA InsertedHeader ==
    ASSUME NEW h, GoodHandle(h), NEW n \in Nat, ~InsertFails(h, n),
           NEW idx \in 0 .. hda_size(h), NEW els \in Seq(Elem), Len(els) = n
    PROVE  GrowFails(Insert(h, idx, n, << >>), 1)
             <=> GrowFails(Insert(h, idx, n, els), 1)
<1>1. CASE n = 0
  BY <1>1 DEF Insert
<1>2. CASE n # 0
  <2> DEFINE g == Grow(h, n)
             a == Insert(h, idx, n, << >>)
             b == Insert(h, idx, n, els)
             c == MemCpy(MemMove(g.cell, idx + n, idx, hda_size(h) - idx),
                         idx, << >>, n)
  <2>1. Count(n) /\ ~GrowFails(h, n)
    BY <1>2, InsertCount
  <2>2. g \in Block /\ g.size = hda_size(h) + n /\ Len(g.cell) = g.cap
        /\ g.size =< g.cap
    BY <2>1, GrowResult
  <2>3. b # NULL /\ b.size = g.size /\ b.cap = g.cap
    <3>1. n \in Nat \ {0}
      BY <1>2
    <3>2. Good(b) /\ b.size = hda_size(h) + n /\ b.cap = g.cap
      BY <3>1, InsertResult
    <3> QED
      BY <2>2, <3>2, NullAssumption DEF Good
  <2>4. a = [g EXCEPT !.cell = c]
    BY <1>2 DEF Insert
  <2>5. c \in Seq(Cell)
    <3> DEFINE m == MemMove(g.cell, idx + n, idx, hda_size(h) - idx)
    <3>1. hda_size(h) \in Nat
      BY SizeFacts
    <3>2. m \in Seq(Cell)
      <4>1. g.cell \in Seq(Cell) /\ (idx + n) + (hda_size(h) - idx) =< Len(g.cell)
            /\ idx + (hda_size(h) - idx) =< Len(g.cell)
        BY <2>2, <3>1 DEF Block
      <4> QED
        BY <3>1, <4>1, MemMoveResult
    <3> HIDE DEF m
    <3>3. MaxOf(Len(m), idx + n) \in Nat
      BY <3>1, <3>2 DEF MaxOf
    <3>4. ASSUME NEW k \in 1 .. MaxOf(Len(m), idx + n)
          PROVE  (IF k > idx /\ k =< idx + n THEN At(<< >>, k - idx) ELSE At(m, k))
                   \in Cell
      BY <3>2 DEF At, Cell
    <3>5. MemCpy(m, idx, << >>, n) \in Seq(Cell)
      BY <3>3, <3>4 DEF MemCpy
    <3> QED
      BY <3>5 DEF m
  <2>6. a # NULL /\ a.size = g.size /\ a.cap = g.cap
    <3> HIDE DEF c
    <3>1. a \in Block /\ a.size = g.size /\ a.cap = g.cap
      BY <2>2, <2>4, <2>5 DEF Block
    <3> QED
      BY <3>1, NullAssumption
  <2> HIDE DEF a, b, g, c
  <2>7. hda_size(a) = hda_size(b) /\ hda_cap(a) = hda_cap(b)
    BY <2>3, <2>6 DEF hda_size, hda_cap
  <2>8. GrowFails(a, 1) <=> GrowFails(b, 1)
    BY <2>7 DEF GrowFails, ReserveFails, NewCap
  <2> QED
    BY <2>8 DEF a, b
<1> QED
  BY <1>1, <1>2

\* Characters inserted before the NUL, or a NUL written behind the first ones:
\* an append that does not fail leaves the text, the new text and one NUL.
LEMMA AppendResult ==
    ASSUME NEW h, NEW t, Contains(h, t), NEW els \in Texts,
           ~AppendFails(h, Len(els))
    PROVE  Spells(AppendImp(h, els, Len(els)), t \o els)
<1> DEFINE n == Len(els)
           at == AppendAt(h)
           ins == Insert(h, at, n, els)
           r == AppendImp(h, els, n)
<1>1. GoodHandle(h) /\ t \in Texts /\ n \in Nat /\ els \in Seq(Elem)
      /\ t \in Seq(Elem) /\ NUL \in Elem /\ hda_size(h) \in Nat
  BY SizeFacts, StringsAssumption DEF Contains, Texts
<1>2. ~InsertFails(h, n)
  BY DEF AppendFails
<1>3. at \in 0 .. hda_size(h)
  BY <1>1 DEF AppendAt, hds_len
<1>4. GoodHandle(ins)
  <2>1. CASE n = 0
    BY <1>1, <2>1 DEF Insert
  <2>2. CASE n # 0
    <3>1. Good(ins)
      BY <1>1, <1>2, <1>3, <2>2, InsertResult
    <3> QED
      BY <3>1 DEF GoodHandle
  <2> QED
    BY <2>1, <2>2
<1>5. Contents(ins) = InsertAt(Contents(h), at, els)
  BY <1>1, <1>2, <1>3, InsertContents
<1>6. t \o els \in Texts
  BY <1>1 DEF Texts
<1>7. CASE hda_size(h) = 0
  <2>1. t = << >> /\ Contents(h) = << >> /\ at = 0
    <3>1. Len(Contents(h)) = 0 /\ Contents(h) \in Seq(Elem)
      BY <1>1, <1>7, ContentsOf
    <3>2. Contents(h) = << >>
      BY <3>1, EmptySeq
    <3>3. Append(t, NUL) # << >>
      BY <1>1
    <3> QED
      BY <1>7, <3>2, <3>3 DEF Contains, AppendAt, hds_len
  <2>2. InsertAt(<< >>, 0, els) = els
    <3>1. << >> \in Seq(Elem) /\ Len(<< >>) = 0 /\ 0 \in 0 .. Len(<< >>)
      OBVIOUS
    <3>a. LET u == InsertAt(<< >>, 0, els)
          IN  /\ u \in Seq(Elem) /\ Len(u) = Len(<< >>) + Len(els)
              /\ \A k \in 1 .. Len(u) :
                    u[k] = IF k =< 0 THEN << >>[k]
                           ELSE IF k =< 0 + Len(els) THEN els[k - 0]
                           ELSE << >>[k - Len(els)]
      BY <1>1, <3>1, InsertAtElements
    <3>2. InsertAt(<< >>, 0, els) \in Seq(Elem)
          /\ Len(InsertAt(<< >>, 0, els)) = n
          /\ \A k \in 1 .. n : InsertAt(<< >>, 0, els)[k] = els[k]
      BY <1>1, <3>1, <3>a
    <3> QED
      BY <1>1, <3>2, SameElements
  <2>3. Contents(ins) = els
    BY <1>5, <2>1, <2>2
  <2>4. ~PushFails(ins)
    <3>1. ~GrowFails(Insert(h, at, n, << >>), 1)
      BY <1>7 DEF AppendFails
    <3> QED
      BY <1>1, <1>2, <1>3, <3>1, InsertedHeader DEF PushFails
  <2>5. r = StoreLast(Grow(ins, 1), NUL)
    BY <1>7 DEF AppendImp, Close
  <2> HIDE DEF ins, r
  <2>6. Good(r) /\ r.size = hda_size(ins) + 1 /\ hda_size(ins) \in Nat
    BY <1>1, <1>4, <2>4, <2>5, PushResult, SizeFacts
  <2>7. Contents(r) = Append(els, NUL)
    BY <1>1, <1>4, <2>3, <2>4, <2>5, PushContents
  <2>8. hda_size(r) # 0 /\ GoodHandle(r)
    BY <2>6, NullAssumption DEF hda_size, Good, GoodHandle
  <2>9. t \o els = els
    BY <1>1, <2>1
  <2>10. Spells(r, t \o els)
    BY <1>6, <2>7, <2>8, <2>9 DEF Spells, Contains
  <2> QED
    BY <2>10 DEF r
<1>8. CASE hda_size(h) # 0
  <2>1. Contents(h) = Append(t, NUL) /\ hda_size(h) = Len(t) + 1 /\ at = Len(t)
    <3>1. Contents(h) = Append(t, NUL)
      BY <1>8 DEF Contains
    <3>2. Len(Append(t, NUL)) = Len(t) + 1 /\ Len(t) \in Nat
      BY <1>1
    <3> QED
      BY <1>1, <1>8, <3>1, <3>2, ContentsOf DEF AppendAt, hds_len
  <2>2. InsertAt(Append(t, NUL), Len(t), els) = Append(t \o els, NUL)
    <3> DEFINE a == Append(t, NUL)
               u == InsertAt(a, Len(t), els)
               v == Append(t \o els, NUL)
    <3>1. /\ a \in Seq(Elem) /\ Len(a) = Len(t) + 1 /\ Len(t) \in Nat
          /\ \A k \in 1 .. Len(a) : a[k] = IF k =< Len(t) THEN t[k] ELSE NUL
      BY <1>1
    <3>2. /\ v \in Seq(Elem) /\ Len(v) = Len(t) + n + 1
          /\ \A k \in 1 .. Len(v) :
                v[k] = IF k =< Len(t) THEN t[k]
                       ELSE IF k =< Len(t) + n THEN els[k - Len(t)] ELSE NUL
      BY <1>1
    <3> HIDE DEF a, v
    <3>3. /\ u \in Seq(Elem) /\ Len(u) = Len(a) + Len(els)
          /\ \A k \in 1 .. Len(u) :
                u[k] = IF k =< Len(t) THEN a[k]
                       ELSE IF k =< Len(t) + Len(els) THEN els[k - Len(t)]
                       ELSE a[k - Len(els)]
      BY <1>1, <3>1, InsertAtElements
    <3> HIDE DEF u
    <3>4. Len(u) = Len(v)
      BY <1>1, <3>1, <3>2, <3>3
    <3>6. ASSUME NEW k \in 1 .. Len(u) PROVE u[k] = v[k]
      <4>1. CASE k =< Len(t)
        BY <3>1, <3>2, <3>3, <3>4, <4>1
      <4>2. CASE k > Len(t) /\ k =< Len(t) + n
        <5>1. k \in 1 .. Len(v) /\ ~(k =< Len(t))
          BY <3>1, <3>4, <4>2
        <5>2. u[k] = els[k - Len(t)]
          BY <3>3, <4>2, <5>1
        <5>3. v[k] = els[k - Len(t)]
          BY <3>2, <4>2, <5>1
        <5> QED
          BY <5>2, <5>3
      <4>3. CASE k > Len(t) + n
        <5>1. k = Len(t) + n + 1 /\ k - n = Len(t) + 1
          <6>1. Len(u) = Len(t) + n + 1
            BY <3>2, <3>4
          <6>2. Len(t) \in Nat /\ n \in Nat
            BY <1>1
          <6> HIDE DEF n
          <6> QED
            BY <4>3, <6>1, <6>2
        <5>2. u[k] = a[k - n]
          <6>1. ~(k =< Len(t)) /\ ~(k =< Len(t) + Len(els))
            BY <1>1, <3>1, <4>3
          <6> QED
            BY <3>3, <6>1
        <5>3. a[Len(t) + 1] = NUL /\ v[k] = NUL
          BY <1>1, <3>1, <3>2, <3>4, <4>3
        <5> QED
          BY <5>1, <5>2, <5>3
      <4> QED
        BY <1>1, <3>1, <4>1, <4>2, <4>3
    <3>5. u = v
      BY <3>2, <3>3, <3>4, <3>6, SameElements
    <3> QED
      BY <3>5 DEF a, u, v
  <2>3. Contents(ins) = Append(t \o els, NUL)
    BY <1>5, <2>1, <2>2
  <2>4. r = ins
    BY <1>8 DEF AppendImp, Close
  <2>5. hda_size(ins) # 0
    <3>1. Len(Append(t \o els, NUL)) = Len(t \o els) + 1 /\ Len(t \o els) \in Nat
      BY <1>1
    <3> QED
      BY <1>4, <2>3, <3>1, ContentsOf
  <2> HIDE DEF ins, r
  <2>6. Spells(r, t \o els)
    BY <1>4, <1>6, <2>3, <2>4, <2>5 DEF Spells, Contains
  <2> QED
    BY <2>6 DEF r
<1> QED
  BY <1>7, <1>8

\* What is used of DeleteResult.
LEMMA DeletedSize ==
    ASSUME NEW h, Good(h), NEW idx \in Nat, NEW n \in Nat \ {0},
           idx + n =< h.size
    PROVE  Good(Delete(h, idx, n)) /\ Delete(h, idx, n).size = h.size - n
BY DeleteResult

\* hds_copy empties the array first, which leaves every cell as it is.
LEMMA EmptiedResult ==
    ASSUME NEW h, NEW t, Spells(h, t)
    PROVE  /\ Contains(Emptied(h), << >>)
           /\ \A k \in 0 .. Len(t) : \A n \in 0 .. Len(t) - k :
                 h # NULL => OwnElements(Emptied(h), k, n) = SubSeq(t, k + 1, k + n)
<1>1. << >> \in Texts
  BY DEF Texts
<1>2. CASE h = NULL
  <2>1. Emptied(h) = NULL /\ hda_size(NULL) = 0
    BY <1>2 DEF Emptied, Delete, hda_size
  <2> QED
    BY <1>1, <1>2, <2>1 DEF Contains, GoodHandle
<1>3. CASE h # NULL
  <2> DEFINE e == Emptied(h)
  <2>1. /\ Good(h) /\ t \in Texts /\ h.size = Len(t) + 1 /\ Len(t) \in Nat
        /\ h.cell \in Seq(Cell) /\ h.size =< Len(h.cell)
        /\ \A k \in 1 .. Len(t) : h.cell[k] = t[k]
    BY <1>3, SpelledCells DEF Texts
  <2>2. hda_size(h) = h.size
    BY <1>3 DEF hda_size
  <2>3. Good(e) /\ e.size = 0
    <3>1. h.size \in Nat \ {0} /\ 0 + h.size =< h.size /\ h.size - h.size = 0
      BY <2>1
    <3>2. Good(Delete(h, 0, h.size)) /\ Delete(h, 0, h.size).size = h.size - h.size
      BY <2>1, <3>1, DeletedSize
    <3> QED
      BY <2>2, <3>1, <3>2 DEF Emptied
  <2>4. e.cell = MemMove(h.cell, 0, h.size, 0)
    <3>1. h \in Block /\ h.size # 0 /\ h.size - (0 + h.size) = 0 /\ 0 + h.size = h.size
      BY <2>1 DEF Good
    <3> QED
      BY <2>2, <3>1 DEF Emptied, Delete, Block
  <2>5. /\ e.cell \in Seq(Cell) /\ Len(e.cell) = Len(h.cell)
        /\ \A k \in 1 .. Len(h.cell) : e.cell[k] = h.cell[k]
    <3>1. Len(h.cell) \in Nat /\ h.size \in Nat
      BY <2>1
    <3>2. LET c == MemMove(h.cell, 0, h.size, 0)
          IN  /\ c \in Seq(Cell) /\ Len(c) = Len(h.cell)
              /\ \A k \in 1 .. Len(h.cell) :
                    c[k] = IF k > 0 /\ k =< 0 + 0 THEN h.cell[(k - 0) + h.size]
                                                  ELSE h.cell[k]
      BY <2>1, <3>1, MemMoveResult
    <3> QED
      BY <2>4, <3>1, <3>2
  <2> HIDE DEF e
  <2>6. Contains(e, << >>)
    BY <1>1, <2>3, NullAssumption DEF Contains, GoodHandle, hda_size, Good
  <2>7. ASSUME NEW k \in 0 .. Len(t), NEW n \in 0 .. Len(t) - k
        PROVE  SubSeq(e.cell, k + 1, k + n) = SubSeq(t, k + 1, k + n)
    <3> DEFINE c == e.cell
    <3>1. /\ c \in Seq(Cell) /\ t \in Seq(Elem \ {NUL}) /\ Len(t) =< Len(c)
          /\ \A i \in 1 .. Len(t) : c[i] = t[i]
      BY <2>1, <2>5 DEF Texts
    <3> HIDE DEF c
    <3>2. SubSeq(c, k + 1, k + n) = SubSeq(t, k + 1, k + n)
      BY <2>1, <3>1
    <3> QED
      BY <3>2 DEF c
  <2> QED
    BY <2>6, <2>7 DEF OwnElements, e
<1> QED
  BY <1>2, <1>3

-----------------------------------------------------------------------------
(* The inductive invariant *)

\* Between two calls there is a text that the handle spells.  TypeOK and
\* Terminated alone do not say that the text is free of NULs after the array
\* was emptied and filled again; this does.
IInv ==
    /\ up \in BOOLEAN
    /\ hds = Dangling \/ \E t \in Texts : Spells(hds, t)

\* The null handle is the empty string.
LEMMA NullSpells == Spells(NULL, << >>)
BY DEF Spells, Contains, GoodHandle, hda_size, Texts

\* A string handle is not one whose block was freed.
LEMMA SpellsUsable ==
    ASSUME NEW h, NEW t, Spells(h, t)
    PROVE  h # Dangling
BY DanglingAssumption DEF Spells, Contains, GoodHandle, Good

\* A call leaves a string that spells t.
Becomes(t) == Spells(hds', t) /\ up' = up

\* An append to an array that contains t, foreign or formatted.
LEMMA AppendTexts ==
    ASSUME NEW h, NEW t, Contains(h, t), NEW els \in Texts,
           \/ AppendFails(h, Len(els)) /\ Abort
           \/ /\ ~AppendFails(h, Len(els))
              /\ hds' = AppendImp(h, els, Len(els))
              /\ UNCHANGED up
    PROVE  Abort \/ Becomes(t \o els)
BY AppendResult DEF Becomes

\* hds_append, hds_append_n with a foreign string.
LEMMA AppendForeignSpells ==
    ASSUME NEW t \in Texts, Spells(hds, t), AppendForeign
    PROVE  Abort \/ \E s \in Strings : Becomes(t \o s)
<1>1. PICK s \in Strings : AppendTo(hds, s, Len(s))
  BY DEF AppendForeign, AppendStr
<1>2. s \in Texts
  BY StringsAssumption DEF Texts
<1>3. Abort \/ Becomes(t \o s)
  BY <1>1, <1>2, AppendTexts DEF AppendTo, Spells
<1> QED
  BY <1>3

\* hds_copy, hds_copy_n with a foreign string.
LEMMA CopyForeignSpells ==
    ASSUME NEW t \in Texts, Spells(hds, t), CopyForeign
    PROVE  Abort \/ \E s \in Strings : Becomes(s)
<1>1. PICK s \in Strings : AppendTo(Emptied(hds), s, Len(s))
  BY DEF CopyForeign, CopyStr
<1>2. s \in Texts
  BY StringsAssumption DEF Texts
<1>3. Contains(Emptied(hds), << >>)
  BY EmptiedResult
<1>4. Abort \/ Becomes(<< >> \o s)
  BY <1>1, <1>2, <1>3, AppendTexts DEF AppendTo
<1>5. << >> \o s = s
  BY <1>2 DEF Texts
<1> QED
  BY <1>4, <1>5

\* The pieces of a text, which the calls with an own source may name.
LEMMA Pieces ==
    ASSUME NEW h, NEW t, Spells(h, t), h # NULL,
           NEW k \in 0 .. hds_len(h), NEW n \in 0 .. StrLen(h.cell, k)
    PROVE  /\ k \in 0 .. Len(t) /\ n \in 0 .. Len(t) - k
           /\ SubSeq(t, k + 1, k + n) \in Texts
           /\ Len(SubSeq(t, k + 1, k + n)) = n
           /\ OwnElements(h, k, n) = SubSeq(t, k + 1, k + n)
<1>1. /\ t \in Texts /\ Len(t) \in Nat /\ hds_len(h) = Len(t)
      /\ h.cell \in Seq(Cell) /\ Len(t) =< Len(h.cell)
      /\ \A i \in 1 .. Len(t) : h.cell[i] = t[i]
  BY SpelledCells DEF Texts, Good, Block
<1>2. k \in 0 .. Len(t)
  BY <1>1
<1>3. StrLen(h.cell, k) = Len(t) - k
  BY <1>2, StrLenIs
<1>4. n \in 0 .. Len(t) - k
  BY <1>3
<1>5. SubSeq(t, k + 1, k + n) \in Texts /\ Len(SubSeq(t, k + 1, k + n)) = n
  BY <1>1, <1>2, <1>4 DEF Texts
<1>6. SubSeq(h.cell, k + 1, k + n) = SubSeq(t, k + 1, k + n)
  <2> DEFINE c == h.cell
  <2>1. /\ c \in Seq(Cell) /\ t \in Seq(Elem \ {NUL}) /\ Len(t) =< Len(c)
        /\ \A i \in 1 .. Len(t) : c[i] = t[i]
    BY <1>1 DEF Texts
  <2> HIDE DEF c
  <2>2. SubSeq(c, k + 1, k + n) = SubSeq(t, k + 1, k + n)
    BY <1>1, <1>2, <1>4, <2>1
  <2> QED
    BY <2>2 DEF c
<1> QED
  BY <1>2, <1>4, <1>5, <1>6 DEF OwnElements

\* hds_append_n(hds, hds + k, n) appends a piece of the text as it was.
LEMMA AppendSelfSpells ==
    ASSUME NEW t \in Texts, Spells(hds, t), AppendSelf
    PROVE  Abort \/ \E k \in 0 .. Len(t) : \E n \in 0 .. Len(t) - k :
                       Becomes(t \o SubSeq(t, k + 1, k + n))
<1>1. PICK k \in 0 .. hds_len(hds) :
         \E n \in 0 .. StrLen(hds.cell, k) : AppendOwnTo(hds, k, n)
  BY DEF AppendSelf, AppendOwn
<1>2. PICK n \in 0 .. StrLen(hds.cell, k) : AppendOwnTo(hds, k, n)
  BY <1>1
<1>3. hds # NULL
  BY DEF AppendSelf, InString
<1>4. /\ k \in 0 .. Len(t) /\ n \in 0 .. Len(t) - k
      /\ SubSeq(t, k + 1, k + n) \in Texts
      /\ Len(SubSeq(t, k + 1, k + n)) = n
      /\ OwnElements(hds, k, n) = SubSeq(t, k + 1, k + n)
  BY <1>2, <1>3, Pieces
<1>5. AppendOwnImp(hds, k, n) = AppendImp(hds, SubSeq(t, k + 1, k + n), n)
  BY <1>4 DEF AppendOwnImp, AppendImp, InsertOwn
<1>6. Abort \/ Becomes(t \o SubSeq(t, k + 1, k + n))
  BY <1>2, <1>4, <1>5, AppendTexts DEF AppendOwnTo, Spells
<1> QED
  BY <1>4, <1>6

\* hds_copy_n(hds, hds + k, n): emptying the array leaves the piece in place.
LEMMA CopySelfSpells ==
    ASSUME NEW t \in Texts, Spells(hds, t), CopySelf
    PROVE  Abort \/ \E k \in 0 .. Len(t) : \E n \in 0 .. Len(t) - k :
                       Becomes(SubSeq(t, k + 1, k + n))
<1>1. PICK k \in 0 .. hds_len(hds) :
         \E n \in 0 .. StrLen(hds.cell, k) : AppendOwnTo(Emptied(hds), k, n)
  BY DEF CopySelf, CopyOwn
<1>2. PICK n \in 0 .. StrLen(hds.cell, k) : AppendOwnTo(Emptied(hds), k, n)
  BY <1>1
<1>3. hds # NULL
  BY DEF CopySelf, InString
<1> DEFINE piece == SubSeq(t, k + 1, k + n)
<1>4. /\ k \in 0 .. Len(t) /\ n \in 0 .. Len(t) - k
      /\ piece \in Texts /\ Len(piece) = n
  BY <1>2, <1>3, Pieces
<1>5. Contains(Emptied(hds), << >>) /\ OwnElements(Emptied(hds), k, n) = piece
  BY <1>3, <1>4, EmptiedResult
<1>6. AppendOwnImp(Emptied(hds), k, n) = AppendImp(Emptied(hds), piece, n)
  BY <1>5 DEF AppendOwnImp, AppendImp, InsertOwn
<1>7. << >> \o piece = piece
  BY <1>4 DEF Texts
<1> HIDE DEF piece
<1>8. Abort \/ Becomes(<< >> \o piece)
  BY <1>2, <1>4, <1>5, <1>6, AppendTexts DEF AppendOwnTo
<1> QED
  BY <1>4, <1>7, <1>8 DEF piece

\* A formatted text: the literal part and the tail of the string.
LEMMA Formatted ==
    ASSUME NEW t, Spells(hds, t), hds # NULL, NEW s \in Strings,
           NEW k \in 0 .. hds_len(hds)
    PROVE  /\ k \in 0 .. Len(t)
           /\ s \o CStr(hds, k) \in Texts
           /\ CStr(hds, k) = SubSeq(t, k + 1, Len(t))
<1>1. k \in 0 .. Len(t)
  BY SpelledCells
<1>2. CStr(hds, k) = SubSeq(t, k + 1, Len(t)) /\ CStr(hds, k) \in Texts
  BY <1>1, CStrIs
<1>3. s \in Texts
  BY StringsAssumption DEF Texts
<1> QED
  BY <1>1, <1>2, <1>3 DEF Texts

\* hds_append_fmt("s%s", hds + k).
LEMMA AppendFormattedSpells ==
    ASSUME NEW t \in Texts, Spells(hds, t), AppendFormatted
    PROVE  Abort \/ \E s \in Strings, k \in 0 .. Len(t) :
                       Becomes(t \o (s \o SubSeq(t, k + 1, Len(t))))
<1>1. PICK s \in Strings, k \in 0 .. hds_len(hds) :
         AppendTo(hds, s \o CStr(hds, k), Len(s \o CStr(hds, k)))
  BY DEF AppendFormatted, AppendFmt
<1>2. hds # NULL
  BY DEF AppendFormatted, InString
<1>3. /\ k \in 0 .. Len(t) /\ s \o CStr(hds, k) \in Texts
      /\ CStr(hds, k) = SubSeq(t, k + 1, Len(t))
  BY <1>2, Formatted
<1>4. Abort \/ Becomes(t \o (s \o CStr(hds, k)))
  BY <1>1, <1>3, AppendTexts DEF AppendTo, Spells
<1> QED
  BY <1>3, <1>4

\* hds_copy_fmt("s%s", hds + k).
LEMMA CopyFormattedSpells ==
    ASSUME NEW t \in Texts, Spells(hds, t), CopyFormatted
    PROVE  Abort \/ \E s \in Strings, k \in 0 .. Len(t) :
                       Becomes(s \o SubSeq(t, k + 1, Len(t)))
<1>1. PICK s \in Strings, k \in 0 .. hds_len(hds) :
         AppendTo(Emptied(hds), s \o CStr(hds, k), Len(s \o CStr(hds, k)))
  BY DEF CopyFormatted, CopyFmt
<1>2. hds # NULL
  BY DEF CopyFormatted, InString
<1>3. /\ k \in 0 .. Len(t) /\ s \o CStr(hds, k) \in Texts
      /\ CStr(hds, k) = SubSeq(t, k + 1, Len(t))
  BY <1>2, Formatted
<1>4. Contains(Emptied(hds), << >>)
  BY EmptiedResult
<1>5. Abort \/ Becomes(<< >> \o (s \o CStr(hds, k)))
  BY <1>1, <1>3, <1>4, AppendTexts DEF AppendTo
<1>6. << >> \o (s \o CStr(hds, k)) = s \o CStr(hds, k)
  BY <1>3 DEF Texts
<1> QED
  BY <1>3, <1>5, <1>6

\* Every call that does not end the process leaves a string.
LEMMA CallSpells ==
    ASSUME NEW t \in Texts, Spells(hds, t), Next
    PROVE  \/ Abort
           \/ \E u \in Texts : Becomes(u)
           \/ hds' = Dangling /\ up' = up
<1> USE DEF Becomes
<1>1. ASSUME NEW u, Becomes(u) PROVE u \in Texts
  BY <1>1 DEF Spells, Contains
<1>2. CASE AppendForeign
  BY <1>1, <1>2, AppendForeignSpells
<1>3. CASE CopyForeign
  BY <1>1, <1>3, CopyForeignSpells
<1>4. CASE AppendSelf
  BY <1>1, <1>4, AppendSelfSpells
<1>5. CASE CopySelf
  BY <1>1, <1>5, CopySelfSpells
<1>6. CASE AppendFormatted
  BY <1>1, <1>6, AppendFormattedSpells
<1>7. CASE CopyFormatted
  BY <1>1, <1>7, CopyFormattedSpells
<1>8. CASE Free
  BY <1>8, NullSpells DEF Free, Texts
<1>9. ~Renull
  BY SpellsUsable DEF Renull
<1> QED
  BY <1>2, <1>3, <1>4, <1>5, <1>6, <1>7, <1>8, <1>9 DEF Next

\* The null handle satisfies the invariant.
LEMMA IInvInit == Init => IInv
<1>1. << >> \in Texts
  BY DEF Texts
<1> QED
  BY <1>1, NullSpells DEF Init, IInv

\* A dangling handle can only be set to null.
LEMMA DanglingStep ==
    ASSUME hds = Dangling, Next
    PROVE  Renull
BY DEF Next, AppendForeign, CopyForeign, AppendSelf, CopySelf, AppendFormatted,
       CopyFormatted, Free, InString, Usable

\* Every call keeps the invariant.
LEMMA IInvNext == IInv /\ [Next]_vars => IInv'
<1> SUFFICES ASSUME IInv, [Next]_vars PROVE IInv'
  OBVIOUS
<1>1. CASE UNCHANGED vars
  BY <1>1 DEF vars, IInv
<1>2. CASE Next /\ hds = Dangling
  <2>1. hds' = NULL /\ up' \in BOOLEAN
    <3>1. Renull
      BY <1>2, DanglingStep
    <3> QED
      BY <3>1 DEF Renull, IInv
  <2>2. << >> \in Texts
    BY DEF Texts
  <2> QED
    BY <2>1, <2>2, NullSpells DEF IInv
<1>3. CASE Next /\ hds # Dangling
  <2>1. PICK t \in Texts : Spells(hds, t)
    BY <1>3 DEF IInv
  <2>2. CASE Abort
    BY <2>2 DEF Abort, IInv
  <2>3. CASE \E u \in Texts : Becomes(u)
    BY <2>3 DEF Becomes, IInv
  <2>4. CASE hds' = Dangling /\ up' = up
    BY <2>4 DEF IInv
  <2> QED
    BY <1>3, <2>1, <2>2, <2>3, <2>4, CallSpells
<1> QED
  BY <1>1, <1>2, <1>3

\* The invariant holds for every set of characters, foreign strings and width
\* of size_t.
THEOREM InductiveInvariant == Spec => []IInv
BY IInvInit, IInvNext, PTL DEF Spec

\* Between two calls the handle is null, dangling, or an array that fits in its
\* storage and has every element written, whatever was appended and copied.
THEOREM TypeCorrect == Spec => []TypeOK
<1>1. IInv => TypeOK
  BY DEF IInv, TypeOK, Spells, Contains
<1> QED
  BY <1>1, InductiveInvariant, PTL

\* A string has one NUL, its last element, so that strlen and hds_len agree:
\* after appends and copies of foreign, own and formatted texts of any length.
THEOREM AlwaysTerminated == Spec => []Terminated
<1>1. ASSUME IInv, hds \notin {NULL, Dangling}
      PROVE  /\ hds.size >= 1
             /\ \A k \in 1 .. hds.size : hds.cell[k] = NUL <=> k = hds.size
             /\ hds_len(hds) = StrLen(hds.cell, 0)
  <2>1. PICK t \in Texts : Spells(hds, t)
    BY <1>1 DEF IInv
  <2>2. /\ Len(t) \in Nat /\ hds.size = Len(t) + 1 /\ hds_len(hds) = Len(t)
        /\ \A k \in 1 .. Len(t) : hds.cell[k] # NUL
        /\ hds.cell[Len(t) + 1] = NUL
    BY <1>1, <2>1, SpelledCells DEF Texts
  <2>3. 0 \in 0 .. Len(t) /\ StrLen(hds.cell, 0) = Len(t) - 0
    BY <1>1, <2>1, <2>2, StrLenIs
  <2> QED
    BY <2>2, <2>3
<1>2. IInv => Terminated
  BY <1>1 DEF Terminated
<1> QED
  BY <1>2, InductiveInvariant, PTL

-----------------------------------------------------------------------------
(* The refinement *)

\* What a C function reads through the handle is the text.
LEMMA StrIs ==
    ASSUME NEW h, NEW t, Spells(h, t)
    PROVE  (IF h = Dangling THEN << >> ELSE CStr(h, 0)) = t
<1>1. h # Dangling /\ t \in Texts
  BY SpellsUsable DEF Spells, Contains
<1>2. CStr(h, 0) = SubSeq(t, 0 + 1, Len(t)) /\ Len(t) \in Nat
  BY <1>1, CStrIs DEF Texts
<1>3. SubSeq(t, 1, Len(t)) = t
  BY <1>1 DEF Texts
<1> QED
  BY <1>1, <1>2, <1>3

str == IF hds = Dangling THEN << >> ELSE CStr(hds, 0)

\* Every call is a call of the abstract string, or changes nothing it shows.
LEMMA StepSimulates == IInv /\ [Next]_vars => [Abs!Next]_(Abs!vars)
<1> SUFFICES ASSUME IInv, [Next]_vars PROVE [Abs!Next]_(Abs!vars)
  OBVIOUS
<1>1. CASE UNCHANGED vars
  <2>1. str' = str /\ up' = up
    BY <1>1 DEF vars, str, CStr
  <2> QED
    BY <2>1 DEF Abs!vars, str
<1>2. CASE Next /\ hds = Dangling
  <2>1. hds' = NULL /\ up' = up
    <3>1. Renull
      BY <1>2, DanglingStep
    <3> QED
      BY <3>1 DEF Renull
  <2>2. str = << >> /\ str' = << >>
    BY <1>2, <2>1, DanglingAssumption DEF str, CStr
  <2> QED
    BY <2>1, <2>2 DEF Abs!vars, str
<1>3. CASE Next /\ hds # Dangling
  <2>1. PICK t \in Texts : Spells(hds, t)
    BY <1>3 DEF IInv
  <2>2. str = t /\ up
    BY <1>3, <2>1, StrIs DEF str, Next
  <2>a. up \in BOOLEAN
    BY DEF IInv
  <2>3. ASSUME NEW u, Becomes(u) PROVE str' = u /\ up' = TRUE
    <3>1. Spells(hds', u) /\ up' = up
      BY <2>3 DEF Becomes
    <3>2. (IF hds' = Dangling THEN << >> ELSE CStr(hds', 0)) = u
      BY <3>1, StrIs
    <3> QED
      BY <2>2, <2>a, <3>1, <3>2 DEF str
  <2>4. CASE Abort
    <3>1. up' = FALSE /\ str' = str
      BY <2>4 DEF Abort, str, CStr
    <3> QED
      BY <2>2, <3>1 DEF Abs!Next, Abs!Stop, str
  <2>5. CASE \E s \in Strings : Becomes(t \o s)
    <3>1. PICK s \in Strings : Becomes(t \o s)
      BY <2>5
    <3>2. str' = t \o s /\ up' = TRUE
      BY <2>3, <3>1
    <3> QED
      BY <2>2, <3>2 DEF Abs!Next, Abs!Effect, Abs!Extend, str
  <2>6. CASE \E s \in Strings : Becomes(s)
    <3>1. PICK s \in Strings : str' = s /\ up' = TRUE
      BY <2>3, <2>6
    <3> QED
      BY <2>2, <3>1 DEF Abs!Next, Abs!Effect, Abs!Assign, str
  <2>7. CASE \E k \in 0 .. Len(t) : \E n \in 0 .. Len(t) - k :
                Becomes(t \o SubSeq(t, k + 1, k + n))
    <3>1. PICK k \in 0 .. Len(t) : \E n \in 0 .. Len(t) - k :
             str' = t \o SubSeq(t, k + 1, k + n) /\ up' = TRUE
      BY <2>3, <2>7
    <3> QED
      BY <2>2, <3>1 DEF Abs!Next, Abs!Effect, Abs!Extend, Abs!Piece, str
  <2>8. CASE \E k \in 0 .. Len(t) : \E n \in 0 .. Len(t) - k :
                Becomes(SubSeq(t, k + 1, k + n))
    <3>1. PICK k \in 0 .. Len(t) : \E n \in 0 .. Len(t) - k :
             str' = SubSeq(t, k + 1, k + n) /\ up' = TRUE
      BY <2>3, <2>8
    <3> QED
      BY <2>2, <3>1 DEF Abs!Next, Abs!Effect, Abs!Assign, Abs!Piece, str
  <2>9. CASE \E s \in Strings, k \in 0 .. Len(t) :
                Becomes(t \o (s \o SubSeq(t, k + 1, Len(t))))
    <3>1. PICK s \in Strings, k \in 0 .. Len(t) :
             Becomes(t \o (s \o SubSeq(t, k + 1, Len(t))))
      BY <2>9
    <3>2. str' = t \o (s \o SubSeq(t, k + 1, Len(t))) /\ up' = TRUE
      BY <2>3, <3>1
    <3> QED
      BY <2>2, <3>2 DEF Abs!Next, Abs!Effect, Abs!Extend, Abs!Suffix, str
  <2>10. CASE \E s \in Strings, k \in 0 .. Len(t) :
                 Becomes(s \o SubSeq(t, k + 1, Len(t)))
    <3>1. PICK s \in Strings, k \in 0 .. Len(t) :
             Becomes(s \o SubSeq(t, k + 1, Len(t)))
      BY <2>10
    <3>2. str' = s \o SubSeq(t, k + 1, Len(t)) /\ up' = TRUE
      BY <2>3, <3>1
    <3> QED
      BY <2>2, <3>2 DEF Abs!Next, Abs!Effect, Abs!Assign, Abs!Suffix, str
  <2>11. CASE Free
    <3>1. str' = << >> /\ up' = TRUE
      BY <2>2, <2>11, <2>a, DanglingAssumption DEF Free, str, CStr
    <3> QED
      BY <2>2, <3>1 DEF Abs!Next, Abs!Effect, Abs!Assign, str
  <2>12. ~Renull
    BY <2>1, SpellsUsable DEF Renull
  <2>13. CASE AppendForeign
    BY <2>1, <2>4, <2>5, <2>13, AppendForeignSpells
  <2>14. CASE CopyForeign
    BY <2>1, <2>4, <2>6, <2>14, CopyForeignSpells
  <2>15. CASE AppendSelf
    BY <2>1, <2>4, <2>7, <2>15, AppendSelfSpells
  <2>16. CASE CopySelf
    BY <2>1, <2>4, <2>8, <2>16, CopySelfSpells
  <2>17. CASE AppendFormatted
    BY <2>1, <2>4, <2>9, <2>17, AppendFormattedSpells
  <2>18. CASE CopyFormatted
    BY <2>1, <2>4, <2>10, <2>18, CopyFormattedSpells
  <2> QED
    BY <1>3, <2>11, <2>12, <2>13, <2>14, <2>15, <2>16, <2>17, <2>18 DEF Next
<1> QED
  BY <1>1, <1>2, <1>3

\* The string of hds.h is the abstract string: what C functions read through
\* the handle is what the calls spell, sources inside the string included.
THEOREM HdsImplementsStr == Spec => RefinesAbsStr
<1>1. Init => Abs!Init
  BY DanglingAssumption DEF Init, Abs!Init, CStr
<1> QED
  BY <1>1, InductiveInvariant, StepSimulates, PTL
     DEF Spec, RefinesAbsStr, Abs!Spec

-----------------------------------------------------------------------------
(* The string of dstr.h *)


\* The struct d has a block of exactly cap bytes, with room for size of them.
Room(d) ==
    /\ d \in [cell : Seq(Cell), len : Nat, size : Nat, cap : Nat]
    /\ d.size = d.len + 1
    /\ d.size =< d.cap
    /\ d.cap = Len(d.cell)

\* It holds the text t: the characters and a NUL behind them, which need not be
\* the first.
Holds(d, t) ==
    /\ Room(d)
    /\ t \in Seq(Elem) /\ Len(t) = d.len
    /\ \A k \in 1 .. d.len : d.cell[k] = t[k]
    /\ d.cell[d.len + 1] = NUL

\* What len, size and cap keep of it when a call has written behind the block.
Sized(d) == d.len \in Nat /\ d.cap \in Nat /\ d.size = d.len + 1 /\ d.size =< d.cap

\* dstr.h works on the same memory as hda.h.
LEMMA SameMemory ==
    /\ Dstr!Cell = Cell
    /\ \A x, y : Dstr!MaxOf(x, y) = MaxOf(x, y)
    /\ \A x, y : Dstr!At(x, y) = At(x, y)
    /\ \A x, y, z, n : Dstr!MemCpy(x, y, z, n) = MemCpy(x, y, z, n)
<1>1. /\ Dstr!Cell = Cell
      /\ \A x, y : Dstr!MaxOf(x, y) = MaxOf(x, y)
      /\ \A x, y : Dstr!At(x, y) = At(x, y)
  BY DEF Dstr!Cell, Cell, Dstr!MaxOf, MaxOf, Dstr!At, At
<1>2. \A x, y, z, n : Dstr!MemCpy(x, y, z, n) = MemCpy(x, y, z, n)
  BY <1>1 DEF Dstr!MemCpy, MemCpy
<1> QED
  BY <1>1, <1>2

\* A set of numbers has a least one.
LEMMA Least ==
    ASSUME NEW S, S \subseteq Nat, S # {}
    PROVE  \E m \in S : \A n \in S : m =< n
<1> DEFINE R == {ss \in Nat \X Nat : ss[1] < ss[2]}
<1>1. OpToRel(<, Nat) = R
  BY DEF OpToRel
<1>2. IsWellFoundedOn(R, Nat)
  BY <1>1, NatLessThanWellFounded
<1> HIDE DEF R
<1>3. PICK m \in S : \A n \in S : ~(<< n, m >> \in R)
  BY <1>2, WFMin
<1>4. \A n \in S : ~(n < m)
  BY <1>3 DEF R
<1> QED
  BY <1>4

LEMMA RoomFacts ==
    ASSUME NEW d, Room(d)
    PROVE  /\ d.len \in Nat /\ d.size = d.len + 1 /\ d.size \in Nat
           /\ d.cap \in Nat /\ d.size =< d.cap /\ d.cap = Len(d.cell)
           /\ d.cell \in Seq(Cell)
BY DEF Room

\* The parts of a struct that holds a text.
LEMMA HoldsFacts ==
    ASSUME NEW d, NEW t, Holds(d, t)
    PROVE  /\ Room(d)
           /\ d.len \in Nat /\ d.size = d.len + 1 /\ d.size \in Nat
           /\ d.cap \in Nat /\ d.size =< d.cap /\ d.cap = Len(d.cell)
           /\ d.cell \in Seq(Cell) /\ t \in Seq(Elem) /\ Len(t) = d.len
           /\ SubSeq(t, 1, d.len) = t
<1>1. /\ Room(d) /\ t \in Seq(Elem) /\ Len(t) = d.len
  BY DEF Holds
<1>2. SubSeq(t, 1, Len(t)) = t
  BY <1>1
<1> QED
  BY <1>1, <1>2, RoomFacts

\* dstr_reserve makes the room and keeps the bytes.
LEMMA ReserveRoom ==
    ASSUME NEW d, Room(d), NEW min \in Nat
    PROVE  LET r == Dstr!dstr_reserve(d, min)
           IN  /\ Room(r) /\ min =< r.cap
               /\ r.len = d.len /\ r.size = d.size
               /\ \A k \in 1 .. d.len + 1 : r.cell[k] = d.cell[k]
<1> DEFINE r == Dstr!dstr_reserve(d, min)
<1>1. CASE min =< d.cap
  <2>1. r = d
    BY <1>1 DEF Dstr!dstr_reserve
  <2> QED
    BY <1>1, <2>1
<1>2. CASE ~(min =< d.cap)
  <2> DEFINE cell == [k \in 1 .. min |-> At(d.cell, k)]
  <2>1. /\ d \in [cell : Seq(Cell), len : Nat, size : Nat, cap : Nat]
        /\ d.len \in Nat /\ d.cap \in Nat /\ d.size = d.len + 1
        /\ d.size =< d.cap /\ d.cap = Len(d.cell) /\ d.cell \in Seq(Cell)
    BY DEF Room
  <2>2. r = [d EXCEPT !.cap = min, !.cell = cell]
    BY <1>2, SameMemory DEF Dstr!dstr_reserve
  <2>3. cell \in Seq(Cell) /\ Len(cell) = min
    <3>1. \A k \in 1 .. min : At(d.cell, k) \in Cell
      BY <2>1 DEF At, Cell
    <3> QED
      BY <3>1
  <2>4. \A k \in 1 .. d.len + 1 : cell[k] = d.cell[k]
    BY <1>2, <2>1 DEF At
  <2> HIDE DEF cell, r
  <2>5. /\ r \in [cell : Seq(Cell), len : Nat, size : Nat, cap : Nat]
        /\ r.cell = cell /\ r.cap = min /\ r.len = d.len /\ r.size = d.size
    BY <2>1, <2>2, <2>3
  <2>7. min \in Nat /\ d.size =< min
    BY <1>2, <2>1
  <2>8. Room(r)
    BY <2>1, <2>3, <2>5, <2>7 DEF Room
  <2> QED
    BY <2>4, <2>5, <2>7, <2>8 DEF r
<1> QED
  BY <1>1, <1>2

LEMMA ReserveHolds ==
    ASSUME NEW d, NEW t, Holds(d, t), NEW min \in Nat
    PROVE  LET r == Dstr!dstr_reserve(d, min)
           IN  /\ Holds(r, t) /\ min =< r.cap
               /\ r.len = d.len /\ r.size = d.size
<1> DEFINE r == Dstr!dstr_reserve(d, min)
<1>1. /\ Room(r) /\ min =< r.cap /\ r.len = d.len /\ r.size = d.size
      /\ \A k \in 1 .. d.len + 1 : r.cell[k] = d.cell[k]
  BY HoldsFacts, ReserveRoom
<1>2. \A k \in 1 .. d.len : r.cell[k] = d.cell[k]
  BY <1>1, HoldsFacts
<1>3. r.cell[d.len + 1] = d.cell[d.len + 1]
  BY <1>1, HoldsFacts
<1> HIDE DEF r
<1> QED
  BY <1>1, <1>2, <1>3 DEF Holds, r

\* MemCpyResult, about a result that has a name.
LEMMA CopyNamed ==
    ASSUME NEW cell \in Seq(Cell), NEW dst \in Nat, NEW n \in Nat, NEW buf,
           dst + n =< Len(cell),
           \A k \in 1 .. n : k \in DOMAIN buf /\ buf[k] \in Cell,
           NEW e, e = MemCpy(cell, dst, buf, n)
    PROVE  /\ e \in Seq(Cell)
           /\ Len(e) = Len(cell)
           /\ \A k \in 1 .. Len(cell) :
                 e[k] = IF k > dst /\ k =< dst + n THEN buf[k - dst] ELSE cell[k]
<1> DEFINE c == MemCpy(cell, dst, buf, n)
<1>1. /\ c \in Seq(Cell)
      /\ Len(c) = Len(cell)
      /\ \A k \in 1 .. Len(cell) :
            c[k] = IF k > dst /\ k =< dst + n THEN buf[k - dst] ELSE cell[k]
  BY MemCpyResult
<1>2. e = c
  OBVIOUS
<1> HIDE DEF c
<1> QED
  BY <1>1, <1>2

\* Characters and a NUL written at a place of the text replace what was behind.
LEMMA FilledHolds ==
    ASSUME NEW d, Room(d), NEW t \in Seq(Elem), NEW p \in 0 .. Len(t),
           \A k \in 1 .. p : d.cell[k] = t[k],
           NEW els \in Seq(Elem), p + Len(els) + 1 =< d.cap, NUL \in Elem,
           NEW buf, buf = els \o << NUL >>,
           NEW r,
           r = [d EXCEPT !.cell = MemCpy(d.cell, p, buf, Len(els) + 1),
                         !.len = p + Len(els), !.size = p + Len(els) + 1]
    PROVE  Holds(r, SubSeq(t, 1, p) \o els)
<1> DEFINE n == Len(els)
           c == d.cell
           cell == MemCpy(c, p, buf, n + 1)
           front == SubSeq(t, 1, p)
           u == front \o els
<1>1. /\ d \in [cell : Seq(Cell), len : Nat, size : Nat, cap : Nat]
      /\ c \in Seq(Cell) /\ d.len \in Nat /\ d.cap = Len(c)
      /\ t \in Seq(Elem) /\ Len(t) \in Nat
      /\ \A k \in 1 .. p : c[k] = t[k]
      /\ p \in Nat /\ n \in Nat
  BY DEF Room
<1>2. /\ buf \in Seq(Elem) /\ Len(buf) = n + 1
      /\ \A k \in 1 .. n : buf[k] = els[k]
      /\ buf[n + 1] = NUL
  <2>1. << NUL >> \in Seq(Elem) /\ Len(<< NUL >>) = 1
    OBVIOUS
  <2> QED
    BY <1>1, <2>1, ConcatProperties
<1>3. p + n + 1 =< Len(c) /\ p =< Len(t)
  BY <1>1
<1>4. r = [d EXCEPT !.cell = cell, !.len = p + n, !.size = p + n + 1]
  OBVIOUS
<1> HIDE DEF n, c, cell, front, u
<1>5. /\ cell \in Seq(Cell) /\ Len(cell) = Len(c)
      /\ \A k \in 1 .. Len(c) :
            cell[k] = IF k > p /\ k =< p + (n + 1) THEN buf[k - p] ELSE c[k]
  <2>1. \A k \in 1 .. n + 1 : k \in DOMAIN buf /\ buf[k] \in Cell
    <3>1. n + 1 \in Nat /\ DOMAIN buf = 1 .. n + 1
      BY <1>1, <1>2
    <3>2. \A k \in 1 .. n + 1 : buf[k] \in Elem
      BY <1>1, <1>2, <3>1, ElementOfSeq
    <3> QED
      BY <3>1, <3>2 DEF Cell
  <2> DEFINE m == n + 1
  <2>2. m \in Nat /\ p + m =< Len(c)
    BY <1>1, <1>3
  <2>3. \A k \in 1 .. m : k \in DOMAIN buf /\ buf[k] \in Cell
    BY <2>1
  <2>4. cell = MemCpy(c, p, buf, m)
    BY DEF cell
  <2>5. c \in Seq(Cell) /\ p \in Nat
    BY <1>1
  <2> HIDE DEF m
  <2>6. /\ cell \in Seq(Cell) /\ Len(cell) = Len(c)
        /\ \A k \in 1 .. Len(c) :
              cell[k] = IF k > p /\ k =< p + m THEN buf[k - p] ELSE c[k]
    BY ONLY <2>2, <2>3, <2>4, <2>5, CopyNamed, SMTT(60)
  <2> QED
    BY <2>6 DEF m
<1>6. /\ front \in Seq(Elem) /\ Len(front) = p
      /\ \A k \in 1 .. p : front[k] = t[k]
  BY <1>1, <1>3, SubSeqProperties DEF front
<1>7. /\ u \in Seq(Elem) /\ Len(u) = p + n
      /\ \A k \in 1 .. p + n :
            u[k] = IF k =< p THEN front[k] ELSE els[k - p]
  <2>1. /\ u \in Seq(Elem) /\ Len(u) = Len(front) + Len(els)
        /\ \A k \in 1 .. Len(front) + Len(els) :
              u[k] = IF k =< Len(front) THEN front[k] ELSE els[k - Len(front)]
    BY <1>6, ConcatProperties DEF u
  <2> QED
    BY <1>6, <2>1 DEF n
<1>8. ASSUME NEW k \in 1 .. p + n PROVE cell[k] = u[k]
  <2>1. k \in 1 .. Len(c)
    BY <1>1, <1>3
  <2>2. CASE k =< p
    <3>1. k \in 1 .. p /\ ~(k > p)
      BY <1>1, <2>2
    <3> QED
      BY <1>1, <1>5, <1>6, <1>7, <2>1, <2>2, <3>1
  <2>3. CASE k > p
    <3>1. k - p \in 1 .. n /\ k =< p + (n + 1) /\ ~(k =< p)
      BY <1>1, <2>3
    <3> QED
      BY <1>2, <1>5, <1>7, <2>1, <2>3, <3>1
  <2> QED
    BY <1>1, <2>2, <2>3
<1>9. cell[p + n + 1] = NUL
  <2>1. /\ p + n + 1 \in 1 .. Len(c) /\ p + n + 1 > p
        /\ p + n + 1 =< p + (n + 1) /\ (p + n + 1) - p = n + 1
    BY <1>1, <1>3
  <2> QED
    BY <1>2, <1>5, <2>1
<1> HIDE DEF n
<1>10. /\ r \in [cell : Seq(Cell), len : Nat, size : Nat, cap : Nat]
       /\ r.cell = cell /\ r.len = p + n /\ r.size = p + n + 1
       /\ r.cap = Len(c)
  <2>1. p + n \in Nat /\ p + n + 1 \in Nat /\ d.cap = Len(c)
    BY <1>1
  <2> QED
    BY <1>1, <1>4, <1>5, <2>1
<1> QED
  BY <1>1, <1>3, <1>5, <1>7, <1>8, <1>9, <1>10 DEF Holds, Room, u, front

\* strncat finds the NUL at len at once.
LEMMA EndFound ==
    ASSUME NEW d, NEW t, Holds(d, t)
    PROVE  Dstr!Ends(d.cell, d.len) = {d.len}
<1> DEFINE c == d.cell
           k == d.len
<1>1. k \in Nat /\ k + 1 =< Len(c) /\ c[k + 1] = NUL /\ Len(c) \in Nat
  BY HoldsFacts DEF Holds
<1> HIDE DEF c, k
<1>2. ASSUME NEW m \in Dstr!Ends(c, k) PROVE m = k
  <2>1. m \in k .. Len(c) /\ \A o \in k .. m - 1 : c[o + 1] # NUL
    BY DEF Dstr!Ends
  <2>2. ~(k \in k .. m - 1)
    BY <1>1, <2>1
  <2> QED
    BY <1>1, <2>1, <2>2
<1>3. k \in Dstr!Ends(c, k)
  <2>1. k \in k .. Len(c) /\ \A o \in k .. k - 1 : c[o + 1] # NUL
    BY <1>1
  <2> QED
    BY <1>1, <2>1 DEF Dstr!Ends
<1> QED
  BY <1>2, <1>3 DEF c, k

\* A C function that reads from inside the string, a NUL ahead and no unwritten
\* byte before it, reads characters.
LEMMA OwnText ==
    ASSUME NEW d, Room(d), NEW k \in 0 .. d.len, Dstr!IsString(d.cell, k)
    PROVE  Dstr!StrAt(d.cell, k) \in Seq(Elem)
<1> DEFINE c == d.cell
           ends == {m \in k .. Len(c) - 1 : c[m + 1] = NUL}
           end == CHOOSE m \in ends : \A o \in ends : m =< o
<1>1. c \in Seq(Cell) /\ k \in Nat /\ Len(c) \in Nat
  BY RoomFacts
<1>2. PICK n \in k .. Len(c) - 1 :
         c[n + 1] = NUL /\ \A o \in k .. n : c[o + 1] # Junk
  BY DEF Dstr!IsString
<1> HIDE DEF c
<1>3. n \in ends /\ ends \subseteq Nat
  BY <1>1, <1>2
<1>4. \E m \in ends : \A o \in ends : m =< o
  <2> HIDE DEF ends
  <2> QED
    BY <1>3, Least
<1>5. end \in ends /\ end =< n
  <2> HIDE DEF ends
  <2> QED
    BY <1>3, <1>4
<1>6. end \in k .. n
  BY <1>1, <1>2, <1>5
<1>7. Dstr!StrAt(c, k) = SubSeq(c, k + 1, end)
  <2>1. ends # {}
    BY <1>3
  <2> QED
    BY <2>1 DEF Dstr!StrAt
<1> HIDE DEF ends, end
<1>8. \A i \in k + 1 .. end : c[i] \in Elem
  <2> TAKE i \in k + 1 .. end
  <2>1. i - 1 \in k .. n /\ (i - 1) + 1 = i /\ i \in 1 .. Len(c)
    BY <1>1, <1>2, <1>6
  <2>2. c[i] # Junk
    BY <1>2, <2>1
  <2>3. c[i] \in Cell
    BY <1>1, <2>1, ElementOfSeq
  <2> QED
    BY <2>2, <2>3 DEF Cell
<1>9. /\ k + 1 \in 1 .. Len(c) + 1 /\ end \in k .. Len(c)
  BY <1>1, <1>2, <1>6
<1>10. SubSeq(c, k + 1, end) \in Seq(Elem)
  BY <1>1, <1>8, <1>9, SubSeqProperties
<1> QED
  BY <1>7, <1>10 DEF c

\* dstrncat appends the first n characters of a source that has as many.
LEMMA NCatHolds ==
    ASSUME NEW d, NEW t, Holds(d, t), NEW s \in Seq(Elem), NEW n \in 0 .. Len(s)
    PROVE  Holds(Dstr!dstrncat(d, s, n, d.len), t \o SubSeq(s, 1, n))
<1> DEFINE g == Dstr!dstr_reserve(d, d.size + n)
           els == SubSeq(s, 1, n)
           r == Dstr!dstrncat(d, s, n, d.len)
<1>1. els \in Seq(Elem) /\ Len(els) = n /\ n \in Nat
  BY SubSeqProperties
<1>2. Holds(g, t) /\ d.size + n =< g.cap /\ g.len = d.len /\ g.size = d.size
  <2>1. d.size + n \in Nat
    BY <1>1, HoldsFacts
  <2> QED
    BY <2>1, ReserveHolds
<1>3. SubSeq(t, 1, d.len) = t /\ d.len \in Nat /\ d.size = d.len + 1
  BY HoldsFacts
<1>5. r = [g EXCEPT !.size = g.size + n, !.len = g.len + n,
                    !.cell = Dstr!StrNCat(g.cell, d.len, s, n)]
  BY DEF Dstr!dstrncat
<1> HIDE DEF g, els, r
<1>6. Dstr!StrNCat(g.cell, d.len, s, n)
        = MemCpy(g.cell, d.len, els \o << NUL >>, Len(els) + 1)
  <2>1. (IF n < Len(s) THEN n ELSE Len(s)) = n
    BY <1>1
  <2> QED
    BY <1>1, <2>1, SameMemory DEF Dstr!StrNCat, els
<1>7. /\ g.size + n = d.len + Len(els) + 1 /\ g.len + n = d.len + Len(els)
      /\ d.len + Len(els) + 1 =< g.cap /\ d.len \in 0 .. Len(t)
      /\ t \in Seq(Elem) /\ Room(g) /\ \A k \in 1 .. d.len : g.cell[k] = t[k]
  BY <1>1, <1>2, <1>3, HoldsFacts DEF Holds
<1>8. r = [g EXCEPT !.cell = MemCpy(g.cell, d.len, els \o << NUL >>,
                                    Len(els) + 1),
                    !.len = d.len + Len(els), !.size = d.len + Len(els) + 1]
  BY <1>5, <1>6, <1>7
<1>9. Holds(r, SubSeq(t, 1, d.len) \o els)
  BY <1>1, <1>7, <1>8, FilledHolds, StringsAssumption
<1> QED
  BY <1>3, <1>9 DEF r, els

\* Wherever it finds its NUL: len and size grow by n, and the block is whole
\* unless bytes were written behind it.
LEMMA NCatSized ==
    ASSUME NEW d, Room(d), NEW s \in Seq(Elem), NEW n \in Nat,
           NEW m \in Dstr!EndsFor(d, n)
    PROVE  LET r == Dstr!dstrncat(d, s, n, m)
           IN  Sized(r) /\ (Len(r.cell) = r.cap => Room(r))
<1> DEFINE g == Dstr!dstr_reserve(d, d.size + n)
           k == IF n < Len(s) THEN n ELSE Len(s)
           buf == SubSeq(s, 1, k) \o << NUL >>
           k1 == k + 1
           r == Dstr!dstrncat(d, s, n, m)
           e == MemCpy(g.cell, m, buf, k1)
<1>1. Room(g) /\ d.size + n =< g.cap /\ g.len = d.len /\ g.size = d.size
  <2>1. d.size + n \in Nat
    BY RoomFacts
  <2> QED
    BY <2>1, ReserveRoom
<1>2. d.len \in Nat /\ d.size = d.len + 1
  BY RoomFacts
<1>3. m \in Dstr!Ends(g.cell, d.len)
  BY DEF Dstr!EndsFor
<1>4. r = [g EXCEPT !.size = g.size + n, !.len = g.len + n, !.cell = e]
  BY SameMemory DEF Dstr!dstrncat, Dstr!StrNCat
<1>5. k \in 0 .. Len(s) /\ k1 \in Nat /\ k1 = k + 1
  OBVIOUS
<1> HIDE DEF g, r, k, k1, e
<1>6. /\ g \in [cell : Seq(Cell), len : Nat, size : Nat, cap : Nat]
      /\ g.cell \in Seq(Cell) /\ Len(g.cell) = g.cap /\ g.cap \in Nat
  BY <1>1 DEF Room
<1>7. m \in Nat
  BY <1>2, <1>3, <1>6 DEF Dstr!Ends
<1>8. /\ buf \in Seq(Elem) /\ Len(buf) = k1
      /\ \A i \in 1 .. k1 : i \in DOMAIN buf /\ buf[i] \in Cell
  <2> DEFINE els == SubSeq(s, 1, k)
             nul == << NUL >>
  <2>1. els \in Seq(Elem) /\ Len(els) = k
    BY <1>5, SubSeqProperties
  <2>2. nul \in Seq(Elem) /\ Len(nul) = 1
    BY StringsAssumption
  <2> HIDE DEF els, nul
  <2>3. els \o nul \in Seq(Elem) /\ Len(els \o nul) = k1
    BY <1>5, <2>1, <2>2, ConcatProperties
  <2>4. \A i \in 1 .. k1 : (els \o nul)[i] \in Elem /\ i \in DOMAIN (els \o nul)
    BY <2>3, <1>5, ElementOfSeq
  <2> QED
    BY <2>3, <2>4 DEF els, nul, Cell
<1> HIDE DEF buf
<1>9. r.cell = e /\ r.len = d.len + n /\ r.size = d.size + n /\ r.cap = g.cap
  BY <1>1, <1>4, <1>6
<1>10. Sized(r)
  BY <1>1, <1>2, <1>6, <1>9 DEF Sized
<1>11. ASSUME Len(r.cell) = r.cap PROVE Room(r)
  <2>1. Len(e) = MaxOf(Len(g.cell), m + k1)
    <3>1. MaxOf(Len(g.cell), m + k1) \in Nat
      BY <1>5, <1>6, <1>7 DEF MaxOf
    <3> QED
      BY <3>1 DEF e, MemCpy
  <2>2. m + k1 =< Len(g.cell)
    BY <1>5, <1>6, <1>7, <1>9, <1>11, <2>1 DEF MaxOf
  <2>3. e \in Seq(Cell) /\ Len(e) = Len(g.cell)
    <3>1. e = MemCpy(g.cell, m, buf, k1)
      BY DEF e
    <3> QED
      BY <1>5, <1>6, <1>7, <1>8, <2>2, <3>1, CopyNamed
  <2>4. r \in [cell : Seq(Cell), len : Nat, size : Nat, cap : Nat]
    <3>1. g.size + n \in Nat /\ g.len + n \in Nat
      BY <1>1, <1>2
    <3> QED
      BY <1>4, <1>6, <2>3, <3>1
  <2> QED
    BY <1>6, <1>9, <1>10, <2>3, <2>4 DEF Room, Sized
<1> QED
  BY <1>10, <1>11 DEF r

\* dstr_push puts a character over the NUL and a NUL behind it.
LEMMA PushHolds ==
    ASSUME NEW d, NEW t, Holds(d, t), NEW c \in Elem
    PROVE  Holds(Dstr!dstr_push(d, c), Append(t, c))
<1> DEFINE g == Dstr!dstr_reserve(d, d.size + 1)
           els == << c >>
           r == Dstr!dstr_push(d, c)
<1>1. els \in Seq(Elem) /\ Len(els) = 1 /\ << c, NUL >> = els \o << NUL >>
  OBVIOUS
<1>2. Holds(g, t) /\ d.size + 1 =< g.cap /\ g.len = d.len /\ g.size = d.size
  <2>1. d.size + 1 \in Nat
    BY HoldsFacts
  <2> QED
    BY <2>1, ReserveHolds
<1>3. d.len \in Nat /\ d.size = d.len + 1 /\ SubSeq(t, 1, d.len) = t
      /\ t \in Seq(Elem)
  BY HoldsFacts
<1>4. r = [g EXCEPT !.size = g.size + 1, !.len = g.len + 1,
                    !.cell = MemCpy(g.cell, d.len, << c, NUL >>, 2)]
  BY SameMemory DEF Dstr!dstr_push
<1>a. t \o els = Append(t, c)
  BY <1>3
<1> HIDE DEF g, els, r
<1>5. /\ g.size + 1 = d.len + Len(els) + 1 /\ g.len + 1 = d.len + Len(els)
      /\ d.len + Len(els) + 1 =< g.cap /\ d.len \in 0 .. Len(t)
      /\ Len(els) + 1 = 2
      /\ Room(g) /\ \A k \in 1 .. d.len : g.cell[k] = t[k]
  BY <1>1, <1>2, <1>3, HoldsFacts DEF Holds
<1>6. r = [g EXCEPT !.cell = MemCpy(g.cell, d.len, els \o << NUL >>,
                                    Len(els) + 1),
                    !.len = d.len + Len(els), !.size = d.len + Len(els) + 1]
  BY <1>1, <1>4, <1>5
<1>7. Holds(r, SubSeq(t, 1, d.len) \o els)
  BY <1>1, <1>3, <1>5, <1>6, FilledHolds, StringsAssumption
<1> QED
  BY <1>3, <1>7, <1>a DEF r

\* On a string that is not intact the push stays inside the block as well.
LEMMA PushRoom ==
    ASSUME NEW d, Room(d), NEW c \in Elem
    PROVE  Room(Dstr!dstr_push(d, c))
<1> DEFINE g == Dstr!dstr_reserve(d, d.size + 1)
           buf == << c, NUL >>
           e == MemCpy(g.cell, d.len, buf, 2)
           r == Dstr!dstr_push(d, c)
<1>1. /\ Room(g) /\ d.size + 1 =< g.cap /\ g.len = d.len /\ g.size = d.size
      /\ d.len \in Nat /\ d.size = d.len + 1
  <2>1. d.size + 1 \in Nat
    BY RoomFacts
  <2> QED
    BY <2>1, RoomFacts, ReserveRoom
<1>2. r = [g EXCEPT !.size = g.size + 1, !.len = g.len + 1, !.cell = e]
  BY SameMemory DEF Dstr!dstr_push
<1>3. \A k \in 1 .. 2 : k \in DOMAIN buf /\ buf[k] \in Cell
  BY StringsAssumption DEF Cell
<1>4. g.cell \in Seq(Cell) /\ d.len + 2 =< Len(g.cell) /\ Len(g.cell) = g.cap
      /\ g \in [cell : Seq(Cell), len : Nat, size : Nat, cap : Nat]
  BY <1>1 DEF Room
<1>5. e = MemCpy(g.cell, d.len, buf, 2)
  OBVIOUS
<1> HIDE DEF g, r, e, buf
<1>6. e \in Seq(Cell) /\ Len(e) = Len(g.cell)
  BY <1>1, <1>3, <1>4, <1>5, CopyNamed
<1>7. /\ r \in [cell : Seq(Cell), len : Nat, size : Nat, cap : Nat]
      /\ r.cell = e /\ r.len = d.len + 1 /\ r.size = d.size + 1 /\ r.cap = g.cap
  <2>1. g.size + 1 \in Nat /\ g.len + 1 \in Nat
    BY <1>1
  <2> QED
    BY <1>1, <1>2, <1>4, <1>6, <2>1
<1> QED
  BY <1>1, <1>4, <1>6, <1>7 DEF Room, r

\* A text written at the start makes any block a string again.
LEMMA StartHolds ==
    ASSUME NEW d, Room(d), NEW els \in Seq(Elem), Len(els) + 1 =< d.cap,
           NEW buf, buf = els \o << NUL >>,
           NEW r, r = [d EXCEPT !.cell = MemCpy(d.cell, 0, buf, Len(els) + 1),
                                !.len = Len(els), !.size = Len(els) + 1]
    PROVE  Holds(r, els)
<1>1. /\ << >> \in Seq(Elem) /\ 0 \in 0 .. Len(<< >>)
      /\ \A k \in 1 .. 0 : d.cell[k] = << >>[k]
      /\ 0 + Len(els) = Len(els) /\ 0 + Len(els) + 1 = Len(els) + 1
  OBVIOUS
<1>2. r = [d EXCEPT !.cell = MemCpy(d.cell, 0, buf, Len(els) + 1),
                    !.len = 0 + Len(els), !.size = 0 + Len(els) + 1]
  BY <1>1
<1>3. Holds(r, SubSeq(<< >>, 1, 0) \o els)
  BY <1>1, <1>2, FilledHolds, StringsAssumption
<1>4. SubSeq(<< >>, 1, 0) \o els = els
  OBVIOUS
<1> QED
  BY <1>3, <1>4

\* dstr_clear puts the NUL first.
LEMMA ClearHolds ==
    ASSUME NEW d, Room(d)
    PROVE  Holds(Dstr!dstr_clear(d), << >>)
<1> DEFINE r == Dstr!dstr_clear(d)
<1>1. /\ << >> \in Seq(Elem) /\ Len(<< >>) = 0 /\ 0 + 1 = 1
      /\ << NUL >> = << >> \o << NUL >>
  OBVIOUS
<1>2. r = [d EXCEPT !.cell = MemCpy(d.cell, 0, << NUL >>, 1),
                    !.len = 0, !.size = 1]
  BY SameMemory DEF Dstr!dstr_clear
<1>3. Len(<< >>) + 1 =< d.cap
  BY RoomFacts
<1> HIDE DEF r
<1>4. r = [d EXCEPT !.cell = MemCpy(d.cell, 0, << NUL >>, Len(<< >>) + 1),
                    !.len = Len(<< >>), !.size = Len(<< >>) + 1]
  BY <1>1, <1>2
<1>5. Holds(r, << >>)
  BY <1>1, <1>3, <1>4, StartHolds
<1> QED
  BY <1>5 DEF r

\* strncpy writes the source up to n, and NULs from its end on.
LEMMA CopiedText ==
    ASSUME NEW s \in Seq(Elem), NEW n \in Nat, NEW cell
    PROVE  LET els == Dstr!Padded(s, n)
           IN  /\ els \in Seq(Elem) /\ Len(els) = n
               /\ Dstr!StrNCpy(cell, s, n) = MemCpy(cell, 0, els, n)
<1> DEFINE m == IF n < Len(s) THEN n ELSE Len(s)
           nuls == Dstr!NULs(n - m)
           els == Dstr!Padded(s, n)
           buf == SubSeq(s, 1, m) \o nuls
<1>1. /\ \A k \in 1 .. n : els[k] = IF k =< Len(s) THEN s[k] ELSE NUL
      /\ els \in Seq(Elem) /\ Len(els) = n
  BY StringsAssumption DEF Dstr!Padded
<1>3. Len(s) \in Nat /\ m \in 0 .. Len(s) /\ m =< n /\ n - m \in Nat
  OBVIOUS
<1>4. /\ nuls \in Seq(Elem) /\ Len(nuls) = n - m
      /\ \A k \in 1 .. n - m : nuls[k] = NUL
  BY <1>3, StringsAssumption DEF Dstr!NULs
<1>5. m = Len(s) \/ m = n
  BY <1>3
<1>6. Dstr!StrNCpy(cell, s, n) = MemCpy(cell, 0, buf, n)
  BY SameMemory DEF Dstr!StrNCpy
<1> HIDE DEF m, nuls, els
<1> DEFINE front == SubSeq(s, 1, m)
<1>7. /\ front \in Seq(Elem) /\ Len(front) = m
      /\ \A k \in 1 .. m : front[k] = s[k]
  BY <1>3, SubSeqProperties
<1> HIDE DEF front
<1>8. /\ buf \in Seq(Elem) /\ Len(buf) = n
      /\ \A k \in 1 .. n : buf[k] = IF k =< m THEN front[k] ELSE nuls[k - m]
  <2>1. /\ front \o nuls \in Seq(Elem)
        /\ Len(front \o nuls) = Len(front) + Len(nuls)
        /\ \A k \in 1 .. Len(front) + Len(nuls) :
              (front \o nuls)[k] = IF k =< Len(front) THEN front[k]
                                   ELSE nuls[k - Len(front)]
    BY <1>4, <1>7, ConcatProperties
  <2>2. Len(front) + Len(nuls) = n
    BY <1>3, <1>4, <1>7
  <2> QED
    BY <1>7, <2>1, <2>2 DEF front
<1> HIDE DEF buf
<1>9. ASSUME NEW k \in 1 .. n PROVE buf[k] = els[k]
  <2>1. CASE k =< m
    <3>1. k \in 1 .. m /\ k =< Len(s)
      BY <1>3, <2>1
    <3> QED
      BY <1>1, <1>7, <1>8, <2>1, <3>1
  <2>2. CASE k > m
    <3>1. k - m \in 1 .. n - m /\ ~(k =< m) /\ ~(k =< Len(s))
      BY <1>3, <1>5, <2>2
    <3> QED
      BY <1>1, <1>4, <1>8, <3>1
  <2> QED
    BY <1>3, <2>1, <2>2
<1>10. buf = els
  BY <1>1, <1>8, <1>9, SameElements
<1> QED
  BY <1>1, <1>6, <1>10 DEF els

\* A text and then a NUL behind it are one write.
LEMMA WrittenTwice ==
    ASSUME NEW cell \in Seq(Cell), NEW els \in Seq(Elem),
           Len(els) + 1 =< Len(cell)
    PROVE  MemCpy(MemCpy(cell, 0, els, Len(els)), Len(els), << NUL >>, 1)
             = MemCpy(cell, 0, els \o << NUL >>, Len(els) + 1)
<1> DEFINE n == Len(els)
           n1 == n + 1
           nul == << NUL >>
           buf == els \o nul
           x == MemCpy(cell, 0, els, n)
           y == MemCpy(x, n, nul, 1)
           z == MemCpy(cell, 0, buf, n1)
<1>1. /\ n \in Nat /\ n1 \in Nat /\ n1 = n + 1 /\ n1 =< Len(cell)
      /\ \A k \in 1 .. n : k \in DOMAIN els /\ els[k] \in Cell
  BY DEF Cell
<1>2. nul \in Seq(Elem) /\ Len(nul) = 1 /\ nul[1] = NUL
      /\ \A k \in 1 .. 1 : k \in DOMAIN nul /\ nul[k] \in Cell
  BY StringsAssumption DEF Cell
<1> HIDE DEF n1, nul, n
<1>3. /\ buf \in Seq(Elem) /\ Len(buf) = n1
      /\ \A k \in 1 .. n : buf[k] = els[k]
      /\ buf[n1] = NUL
  <2>1. /\ buf \in Seq(Elem) /\ Len(buf) = Len(els) + Len(nul)
        /\ \A k \in 1 .. Len(els) + Len(nul) :
              buf[k] = IF k =< Len(els) THEN els[k] ELSE nul[k - Len(els)]
    <3>1. els \in Seq(Elem) /\ nul \in Seq(Elem)
      BY <1>2
    <3> QED
      BY ONLY <3>1, ConcatProperties DEF buf
  <2>2. n = Len(els) /\ Len(els) + Len(nul) = n1
    BY <1>1, <1>2 DEF n
  <2>3. n1 \in 1 .. n1 /\ ~(n1 =< n) /\ n1 - n = 1 /\ n < n1
    BY <1>1
  <2> QED
    BY <1>1, <1>2, <2>1, <2>2, <2>3
<1>4. \A k \in 1 .. n1 : k \in DOMAIN buf /\ buf[k] \in Cell
  BY <1>1, <1>3, ElementOfSeq DEF Cell
<1> HIDE DEF buf
<1>5. /\ x \in Seq(Cell) /\ Len(x) = Len(cell)
      /\ \A k \in 1 .. Len(cell) :
            x[k] = IF k > 0 /\ k =< 0 + n THEN els[k - 0] ELSE cell[k]
  <2>1. 0 \in Nat /\ 0 + n =< Len(cell)
    BY <1>1
  <2> QED
    BY <1>1, <2>1, MemCpyResult
<1> HIDE DEF x
<1>6. /\ y \in Seq(Cell) /\ Len(y) = Len(x)
      /\ \A k \in 1 .. Len(x) :
            y[k] = IF k > n /\ k =< n + 1 THEN nul[k - n] ELSE x[k]
  <2>1. n + 1 =< Len(x)
    BY <1>1, <1>5
  <2> QED
    BY <1>1, <1>2, <1>5, <2>1, MemCpyResult
<1>7. /\ z \in Seq(Cell) /\ Len(z) = Len(cell)
      /\ \A k \in 1 .. Len(cell) :
            z[k] = IF k > 0 /\ k =< 0 + n1 THEN buf[k - 0] ELSE cell[k]
  <2>1. 0 \in Nat /\ 0 + n1 =< Len(cell)
    BY <1>1
  <2> QED
    BY <1>1, <1>4, <2>1, MemCpyResult
<1> HIDE DEF y, z
<1>8. ASSUME NEW k \in 1 .. Len(cell) PROVE y[k] = z[k]
  <2>1. k > 0 /\ k - 0 = k /\ 0 + n = n /\ 0 + n1 = n1
    BY <1>1
  <2>2. CASE k =< n
    <3>1. k \in 1 .. n /\ ~(k > n) /\ k =< n1
      BY <1>1, <2>2
    <3>2. y[k] = x[k] /\ x[k] = els[k]
      BY <1>5, <1>6, <2>1, <2>2, <3>1
    <3>3. z[k] = buf[k]
      BY <1>7, <2>1, <3>1
    <3> QED
      BY <1>3, <3>1, <3>2, <3>3
  <2>3. CASE k = n1
    <3>1. k > n /\ k =< n + 1 /\ k - n = 1 /\ k =< n1
      BY <1>1, <2>3
    <3>2. y[k] = nul[1]
      BY <1>5, <1>6, <3>1
    <3>3. z[k] = buf[k]
      BY <1>7, <2>1, <3>1
    <3> QED
      BY <1>2, <1>3, <2>3, <3>2, <3>3
  <2>4. CASE k > n1
    <3>1. ~(k =< n) /\ ~(k =< n + 1) /\ ~(k =< n1)
      BY <1>1, <2>4
    <3>2. y[k] = x[k] /\ x[k] = cell[k]
      BY <1>5, <1>6, <2>1, <3>1
    <3>3. z[k] = cell[k]
      BY <1>7, <2>1, <3>1
    <3> QED
      BY <3>2, <3>3
  <2> QED
    BY <1>1, <2>2, <2>3, <2>4
<1>9. y = z
  <2>1. /\ y \in Seq(Cell) /\ z \in Seq(Cell) /\ Len(y) = Len(z)
        /\ \A k \in 1 .. Len(y) : y[k] = z[k]
    BY <1>5, <1>6, <1>7, <1>8
  <2> QED
    BY ONLY <2>1, SameElements
<1> QED
  BY <1>9 DEF y, z, x, buf, nul, n, n1

\* dstrcpy: room is made for more than is needed, the text is replaced.
LEMMA CpyHolds ==
    ASSUME NEW d, Room(d), NEW s \in Seq(Elem)
    PROVE  Holds(Dstr!dstrcpy(d, s), s)
<1> DEFINE n == Len(s)
           g == Dstr!dstr_reserve(d, d.size + n)
           r == Dstr!dstrcpy(d, s)
           all == s \o << NUL >>
           padded == Dstr!Padded(s, n + 1)
<1>1. n \in Nat /\ n + 1 \in Nat /\ d.size \in Nat /\ d.size >= 1
      /\ d.size + n \in Nat
  BY RoomFacts
<1>2. Room(g) /\ d.size + n =< g.cap
  BY <1>1, ReserveRoom
<1>3. /\ Dstr!StrNCpy(g.cell, s, n + 1) = MemCpy(g.cell, 0, padded, n + 1)
      /\ padded \in Seq(Elem) /\ Len(padded) = n + 1
  BY <1>1, CopiedText
<1>4. padded = all
  <2>1. << NUL >> \in Seq(Elem) /\ Len(<< NUL >>) = 1
    BY StringsAssumption
  <2>2. all \in Seq(Elem) /\ Len(all) = n + 1
        /\ \A k \in 1 .. n + 1 : all[k] = IF k =< n THEN s[k] ELSE NUL
    BY <2>1, ConcatProperties
  <2>3. \A k \in 1 .. n + 1 : padded[k] = IF k =< n THEN s[k] ELSE NUL
    BY DEF Dstr!Padded
  <2> HIDE DEF all, padded
  <2> QED
    BY <1>3, <2>2, <2>3, SameElements
<1>5. r = [g EXCEPT !.size = n + 1, !.len = n,
                    !.cell = Dstr!StrNCpy(g.cell, s, n + 1)]
  BY DEF Dstr!dstrcpy
<1> HIDE DEF g, r
<1>6. Len(s) + 1 =< g.cap
  BY <1>1, <1>2, RoomFacts
<1>7. r = [g EXCEPT !.cell = MemCpy(g.cell, 0, all, Len(s) + 1),
                    !.len = Len(s), !.size = Len(s) + 1]
  BY <1>3, <1>4, <1>5
<1>8. Holds(r, s)
  BY <1>2, <1>6, <1>7, StartHolds
<1> QED
  BY <1>8 DEF r

\* dstrncpy: n characters of the source, or all and NULs that count, and a NUL
\* behind them.
LEMMA NCpyHolds ==
    ASSUME NEW d, Room(d), NEW s \in Seq(Elem), NEW n \in Nat
    PROVE  Holds(Dstr!dstrncpy(d, s, n), Dstr!Padded(s, n))
<1> DEFINE g == Dstr!dstr_reserve(d, n + 1)
           r == Dstr!dstrncpy(d, s, n)
           els == Dstr!Padded(s, n)
<1>2. Room(g) /\ n + 1 =< g.cap
  BY ReserveRoom
<1>3. /\ els \in Seq(Elem) /\ Len(els) = n
      /\ Dstr!StrNCpy(g.cell, s, n) = MemCpy(g.cell, 0, els, n)
  BY CopiedText
<1>4. r = [g EXCEPT !.size = n + 1, !.len = n,
                    !.cell = MemCpy(Dstr!StrNCpy(g.cell, s, n),
                                    n, << NUL >>, 1)]
  BY SameMemory DEF Dstr!dstrncpy
<1> HIDE DEF g, r, els
<1>5. g.cell \in Seq(Cell) /\ Len(els) + 1 =< Len(g.cell)
      /\ Len(els) + 1 =< g.cap
  BY <1>2, <1>3, RoomFacts
<1>6. MemCpy(Dstr!StrNCpy(g.cell, s, n), n, << NUL >>, 1)
        = MemCpy(g.cell, 0, els \o << NUL >>, Len(els) + 1)
  BY <1>3, <1>5, WrittenTwice
<1>8. r = [g EXCEPT !.cell = MemCpy(g.cell, 0, els \o << NUL >>,
                                    Len(els) + 1),
                    !.len = Len(els), !.size = Len(els) + 1]
  BY <1>3, <1>4, <1>6
<1>9. Holds(r, els)
  BY <1>2, <1>3, <1>5, <1>8, StartHolds
<1> QED
  BY <1>9 DEF r, els

-----------------------------------------------------------------------------
(* The calls of dstr.h *)

\* Between two calls the struct is zero or, if intact, holds the text that the
\* calls spell; if not, its block is still whole, unless the process has ended.
DstrInv ==
    /\ up \in BOOLEAN /\ intact \in BOOLEAN
    /\ \/ intact /\ dstr = Dstr!Zero /\ text = << >>
       \/ intact /\ Holds(dstr, text)
       \/ ~intact /\ text = << >> /\ Sized(dstr) /\ (up => Room(dstr))

\* A foreign string is a text.
LEMMA ForeignTexts ==
    ASSUME NEW s \in Strings
    PROVE  s \in Seq(Elem)
BY StringsAssumption

\* A call ends the process with the string as it was, or leaves what it means.
LEMMA CallLeaves ==
    ASSUME DstrInv, NEW min, NEW d, NEW t, NEW whole \in BOOLEAN,
           Dstr!Call(min, d, t, whole),
           whole => Holds(d, t),
           ~whole => Sized(d) /\ (Len(d.cell) = d.cap => Room(d))
    PROVE  DstrInv'
<1>1. CASE up' = FALSE /\ UNCHANGED <<dstr, text, intact>>
  BY <1>1 DEF DstrInv
<1>2. CASE /\ dstr' = d /\ text' = IF whole THEN t ELSE << >>
           /\ intact' = whole /\ up' = (Len(d.cell) = d.cap)
  BY <1>2 DEF DstrInv
<1> QED
  BY <1>1, <1>2 DEF Dstr!Call, Dstr!Abort

\* A process that goes on has a whole block.
LEMMA LiveRoom ==
    ASSUME DstrInv, up, Dstr!Live
    PROVE  Room(dstr) /\ (intact => Holds(dstr, text)) /\ intact \in BOOLEAN
           /\ dstr.size \in Nat
BY HoldsFacts, RoomFacts DEF DstrInv, Dstr!Live

\* dstr_init: a block of one byte.
LEMMA NewHolds == Holds(Dstr!dstr_init, << >>)
<1>1. /\ << NUL >> \in Seq(Cell) /\ Len(<< NUL >>) = 1
      /\ << >> \in Seq(Elem) /\ Len(<< >>) = 0
  BY StringsAssumption DEF Cell
<1> QED
  BY <1>1 DEF Holds, Room, Dstr!dstr_init

LEMMA DstrInvInit == Dstr!Init => DstrInv
BY DEF Dstr!Init, DstrInv

\* A string whose block is whole needs no more than that.
LEMMA RoomSized ==
    ASSUME NEW d, Room(d)
    PROVE  Sized(d)
BY RoomFacts DEF Sized

\* The appends, whatever their source: a foreign string or the string itself.
LEMMA CatenateLeaves ==
    ASSUME DstrInv, up, Dstr!Live, NEW s \in Seq(Elem), Dstr!Catenate(s)
    PROVE  DstrInv'
<1>1. PICK m \in Dstr!EndsFor(dstr, Len(s)) :
         Dstr!Call(dstr.size + Len(s), Dstr!dstrcat(dstr, s, m), text \o s,
                   intact)
  BY DEF Dstr!Catenate
<1>2. Len(s) \in Nat /\ Len(s) \in 0 .. Len(s) /\ SubSeq(s, 1, Len(s)) = s
  OBVIOUS
<1>3. /\ Sized(Dstr!dstrcat(dstr, s, m))
      /\ Len(Dstr!dstrcat(dstr, s, m).cell) = Dstr!dstrcat(dstr, s, m).cap
           => Room(Dstr!dstrcat(dstr, s, m))
  BY <1>2, LiveRoom, NCatSized DEF Dstr!dstrcat
<1>4. ASSUME intact PROVE Holds(Dstr!dstrcat(dstr, s, m), text \o s)
  <2>1. Holds(dstr, text)
    BY <1>4, LiveRoom
  <2>2. m = dstr.len
    <3>1. Holds(Dstr!dstr_reserve(dstr, dstr.size + Len(s)), text)
          /\ Dstr!dstr_reserve(dstr, dstr.size + Len(s)).len = dstr.len
      <4>1. dstr.size + Len(s) \in Nat
        BY <1>2, <2>1, HoldsFacts
      <4> QED
        BY <2>1, <4>1, ReserveHolds
    <3> QED
      BY <3>1, EndFound DEF Dstr!EndsFor
  <2>3. Holds(Dstr!dstrncat(dstr, s, Len(s), dstr.len), text \o SubSeq(s, 1, Len(s)))
    BY <1>2, <2>1, NCatHolds
  <2> QED
    BY <1>2, <2>2, <2>3 DEF Dstr!dstrcat
<1>5. intact \in BOOLEAN
  BY LiveRoom
<1> QED
  BY <1>1, <1>3, <1>4, <1>5, CallLeaves

\* dstr_printf: the formatted text, whole or cut.
LEMMA PrintedText ==
    ASSUME NEW all \in Seq(Elem)
    PROVE  LET cut == SubSeq(all, 1, FmtMax - 1)
           IN  (IF Len(all) < FmtMax THEN all ELSE cut) \in Seq(Elem)
<1>1. CASE Len(all) < FmtMax
  BY <1>1
<1>2. CASE ~(Len(all) < FmtMax)
  <2>1. FmtMax - 1 \in 0 .. Len(all)
    BY <1>2, FormatAssumption
  <2>2. SubSeq(all, 1, FmtMax - 1) \in Seq(Elem)
    BY <2>1, SubSeqProperties
  <2> QED
    BY <1>2, <2>2
<1> QED
  BY <1>1, <1>2

\* dstrncat: an n within the source appends, one beyond it leaves a string that
\* is not intact.
LEMMA NCatLeaves ==
    ASSUME DstrInv, up, Dstr!NCat
    PROVE  DstrInv'
<1>1. /\ Dstr!Live
      /\ \E s \in Strings : \E n \in 0 .. Len(s) + Beyond :
            \E m \in Dstr!EndsFor(dstr, n) :
               Dstr!Call(dstr.size + n, Dstr!dstrncat(dstr, s, n, m),
                         text \o SubSeq(s, 1, n), intact /\ n =< Len(s))
  BY DEF Dstr!NCat
<1>2. PICK s \in Strings : \E n \in 0 .. Len(s) + Beyond :
         \E m \in Dstr!EndsFor(dstr, n) :
            Dstr!Call(dstr.size + n, Dstr!dstrncat(dstr, s, n, m),
                      text \o SubSeq(s, 1, n), intact /\ n =< Len(s))
  BY <1>1
<1>3. PICK n \in 0 .. Len(s) + Beyond : \E m \in Dstr!EndsFor(dstr, n) :
         Dstr!Call(dstr.size + n, Dstr!dstrncat(dstr, s, n, m),
                   text \o SubSeq(s, 1, n), intact /\ n =< Len(s))
  BY <1>2
<1>4. PICK m \in Dstr!EndsFor(dstr, n) :
         Dstr!Call(dstr.size + n, Dstr!dstrncat(dstr, s, n, m),
                   text \o SubSeq(s, 1, n), intact /\ n =< Len(s))
  BY <1>3
<1>5. s \in Seq(Elem) /\ n \in Nat /\ Room(dstr)
  BY <1>1, ForeignTexts, LiveRoom
<1> DEFINE r == Dstr!dstrncat(dstr, s, n, m)
           whole == intact /\ n =< Len(s)
<1>6. Sized(r) /\ (Len(r.cell) = r.cap => Room(r))
  BY <1>5, NCatSized
<1>7. ASSUME whole PROVE Holds(r, text \o SubSeq(s, 1, n))
  <2>1. Holds(dstr, text) /\ n \in 0 .. Len(s)
    BY <1>1, <1>5, <1>7, LiveRoom
  <2>2. m = dstr.len
    <3>1. dstr.size + n \in Nat
      BY <2>1, HoldsFacts
    <3>2. Holds(Dstr!dstr_reserve(dstr, dstr.size + n), text)
          /\ Dstr!dstr_reserve(dstr, dstr.size + n).len = dstr.len
      BY <2>1, <3>1, ReserveHolds
    <3> QED
      BY <3>2, EndFound DEF Dstr!EndsFor
  <2> QED
    BY <1>5, <2>1, <2>2, NCatHolds
<1>8. whole \in BOOLEAN
  OBVIOUS
<1>9. Dstr!Call(dstr.size + n, r, text \o SubSeq(s, 1, n), whole)
  BY <1>4
<1> HIDE DEF r, whole
<1> QED
  BY <1>6, <1>7, <1>8, <1>9, CallLeaves

LEMMA DstrInvNext == DstrInv /\ [Dstr!Next]_(Dstr!vars) => DstrInv'
<1> SUFFICES ASSUME DstrInv, [Dstr!Next]_(Dstr!vars) PROVE DstrInv'
  OBVIOUS
<1>1. CASE UNCHANGED Dstr!vars
  BY <1>1 DEF Dstr!vars, DstrInv, Room, Holds, Sized
<1> SUFFICES ASSUME Dstr!Next PROVE DstrInv'
  BY <1>1
<1>u. up
  BY DEF Dstr!Next
<1>2. CASE Dstr!New
  BY <1>2, NewHolds, CallLeaves DEF Dstr!New
<1>3. CASE Dstr!Free
  BY <1>3 DEF Dstr!Free, DstrInv
<1>4. CASE Dstr!ReserveSome
  <2>1. Room(dstr) /\ (intact => Holds(dstr, text)) /\ intact \in BOOLEAN
    BY <1>4, <1>u, LiveRoom DEF Dstr!ReserveSome
  <2>2. PICK min \in 0 .. DstrMax + 1 :
           Dstr!Call(min, Dstr!dstr_reserve(dstr, min), text, intact)
    BY <1>4 DEF Dstr!ReserveSome
  <2>3. min \in Nat
    BY FormatAssumption
  <2>4. Room(Dstr!dstr_reserve(dstr, min))
        /\ (intact => Holds(Dstr!dstr_reserve(dstr, min), text))
    BY <2>1, <2>3, ReserveRoom, ReserveHolds
  <2> QED
    BY <2>1, <2>2, <2>4, RoomSized, CallLeaves
<1>5. CASE Dstr!PushChar
  <2>1. Room(dstr) /\ (intact => Holds(dstr, text)) /\ intact \in BOOLEAN
    BY <1>5, <1>u, LiveRoom DEF Dstr!PushChar
  <2>2. PICK c \in Elem : Dstr!Call(dstr.size + 1, Dstr!dstr_push(dstr, c),
                                    Append(text, c), intact)
    BY <1>5 DEF Dstr!PushChar
  <2>3. Room(Dstr!dstr_push(dstr, c))
        /\ (intact => Holds(Dstr!dstr_push(dstr, c), Append(text, c)))
    BY <2>1, PushRoom, PushHolds
  <2> QED
    BY <2>1, <2>2, <2>3, RoomSized, CallLeaves
<1>6. CASE Dstr!Clear
  <2>1. Room(dstr)
    BY <1>6, <1>u, LiveRoom DEF Dstr!Clear
  <2> QED
    BY <1>6, <2>1, ClearHolds, CallLeaves DEF Dstr!Clear
<1>7. CASE Dstr!Cat
  BY <1>7, <1>u, ForeignTexts, CatenateLeaves DEF Dstr!Cat
<1>8. CASE Dstr!NCat
  BY <1>8, <1>u, NCatLeaves
<1>9. CASE Dstr!Cpy
  <2>1. Room(dstr)
    BY <1>9, <1>u, LiveRoom DEF Dstr!Cpy
  <2>2. PICK s \in Strings : Dstr!Call(dstr.size + Len(s),
                                       Dstr!dstrcpy(dstr, s), s, TRUE)
    BY <1>9 DEF Dstr!Cpy
  <2>3. Holds(Dstr!dstrcpy(dstr, s), s)
    BY <2>1, ForeignTexts, CpyHolds
  <2> QED
    BY <2>2, <2>3, CallLeaves
<1>10. CASE Dstr!NCpy
  <2>1. Room(dstr)
    BY <1>10, <1>u, LiveRoom DEF Dstr!NCpy
  <2>2. PICK s \in Strings : \E n \in 0 .. Len(s) + Beyond :
           Dstr!Call(n + 1, Dstr!dstrncpy(dstr, s, n), Dstr!Padded(s, n), TRUE)
    BY <1>10 DEF Dstr!NCpy
  <2>3. PICK n \in 0 .. Len(s) + Beyond :
           Dstr!Call(n + 1, Dstr!dstrncpy(dstr, s, n), Dstr!Padded(s, n), TRUE)
    BY <2>2
  <2>4. Holds(Dstr!dstrncpy(dstr, s, n), Dstr!Padded(s, n))
    BY <2>1, ForeignTexts, NCpyHolds
  <2> QED
    BY <2>3, <2>4, CallLeaves
<1>11. CASE Dstr!Printf
  <2>1. Room(dstr) /\ Dstr!Live
    BY <1>11, <1>u, LiveRoom DEF Dstr!Printf
  <2>2. PICK s \in Strings, k \in 0 .. dstr.len :
           LET all == s \o Dstr!StrAt(dstr.cell, k)
               cut == SubSeq(all, 1, FmtMax - 1)
               out == IF Len(all) < FmtMax THEN all ELSE cut
           IN  Dstr!IsString(dstr.cell, k) /\ Dstr!Catenate(out)
    BY <1>11 DEF Dstr!Printf
  <2>3. PICK all : all = s \o Dstr!StrAt(dstr.cell, k)
    OBVIOUS
  <2>4. all \in Seq(Elem)
    BY <2>1, <2>2, <2>3, ForeignTexts, OwnText, ConcatProperties
  <2>5. PICK out :
           out = IF Len(all) < FmtMax THEN all ELSE SubSeq(all, 1, FmtMax - 1)
    OBVIOUS
  <2>6. out \in Seq(Elem)
    BY <2>4, <2>5, PrintedText
  <2>7. Dstr!Catenate(out)
    BY <2>2, <2>3, <2>5
  <2> QED
    BY <1>u, <2>1, <2>6, <2>7, CatenateLeaves
<1>12. CASE Dstr!CatOwn
  <2>1. Room(dstr) /\ Dstr!Live
    BY <1>12, <1>u, LiveRoom DEF Dstr!CatOwn
  <2>2. PICK k \in 0 .. dstr.len :
           /\ Dstr!IsString(dstr.cell, k)
           /\ Dstr!Catenate(Dstr!StrAt(dstr.cell, k))
    BY <1>12 DEF Dstr!CatOwn
  <2> QED
    BY <1>u, <2>1, <2>2, OwnText, CatenateLeaves
<1>13. CASE Dstr!CpyOwn
  <2>1. Room(dstr)
    BY <1>13, <1>u, LiveRoom DEF Dstr!CpyOwn
  <2>2. PICK k \in 0 .. dstr.len :
           LET s == Dstr!StrAt(dstr.cell, k)
           IN  /\ Dstr!IsString(dstr.cell, k)
               /\ Dstr!Call(0, Dstr!dstrcpy(dstr, s), s, TRUE)
    BY <1>13 DEF Dstr!CpyOwn
  <2>3. PICK s : s = Dstr!StrAt(dstr.cell, k)
    OBVIOUS
  <2>4. Holds(Dstr!dstrcpy(dstr, s), s)
    BY <2>1, <2>2, <2>3, OwnText, CpyHolds
  <2> QED
    BY <2>2, <2>3, <2>4, CallLeaves
<1> QED
  BY <1>2, <1>3, <1>4, <1>5, <1>6, <1>7, <1>8, <1>9, <1>10, <1>11,
     <1>12, <1>13
     DEF Dstr!Next

LEMMA DstrInvariant == Dstr!Spec => []DstrInv
BY DstrInvInit, DstrInvNext, PTL DEF Dstr!Spec

\* size never exceeds cap, and no call on an intact string writes behind the
\* block, whichever of len and size it computes its place and its room from.
THEOREM DstrsFit == Dstr!Spec => []DstrFits
<1>1. DstrInv => DstrFits
  BY HoldsFacts
     DEF DstrInv, DstrFits, Dstr!Fits, Dstr!Live, Sized
<1> QED
  BY <1>1, DstrInvariant, PTL

\* The characters of an intact dstr are those the calls spell, NULs among them,
\* and a NUL follows, for texts of any length and every n.
THEOREM DstrsSpell == Dstr!Spec => []DstrSpelled
<1>1. ASSUME NEW d, NEW t, Holds(d, t)
      PROVE  SubSeq(d.cell, 1, d.len) = t /\ Dstr!At(d.cell, d.len + 1) = NUL
  <2> DEFINE c == d.cell
             n == d.len
             u == SubSeq(c, 1, n)
  <2>1. /\ n \in Nat /\ n + 1 =< Len(c) /\ c \in Seq(Cell)
        /\ t \in Seq(Elem) /\ Len(t) = n
        /\ \A k \in 1 .. n : c[k] = t[k]
        /\ c[n + 1] = NUL
    BY <1>1, HoldsFacts DEF Holds
  <2> HIDE DEF c, n
  <2>2. u \in Seq(Cell) /\ Len(u) = n /\ \A k \in 1 .. n : u[k] = c[k]
    BY <2>1, SubSeqProperties
  <2> HIDE DEF u
  <2>3. t \in Seq(Cell)
    BY <2>1, ElementOfSeq DEF Cell
  <2>4. u = t
    <3>1. \A k \in 1 .. Len(u) : u[k] = t[k]
      BY <2>1, <2>2
    <3> QED
      BY ONLY <2>1, <2>2, <2>3, <3>1, SameElements
  <2>5. Dstr!At(c, n + 1) = NUL
    BY <2>1, SameMemory DEF At
  <2> QED
    BY <2>4, <2>5 DEF u, c, n
<1>2. DstrInv => DstrSpelled
  BY <1>1 DEF DstrInv, DstrSpelled, Dstr!Spelled, Dstr!Live
<1> QED
  BY <1>2, DstrInvariant, PTL

-----------------------------------------------------------------------------
(* hash_str *)

\* Induction over the naturals, for a set in place of a predicate.
LEMMA Induction ==
    ASSUME NEW S, 0 \in S, \A n \in Nat : n \in S => n + 1 \in S
    PROVE  \A n \in Nat : n \in S
<1> DEFINE T == {n \in Nat : n \notin S}
<1>1. SUFFICES ASSUME T # {} PROVE FALSE
  OBVIOUS
<1>2. T \subseteq Nat
  OBVIOUS
<1>3. PICK m \in T : \A n \in T : m =< n
  BY <1>1, <1>2, Least
<1>4. m \in Nat /\ m # 0 /\ m \notin S
  BY <1>3
<1>5. m - 1 \in Nat /\ (m - 1) + 1 = m
  BY <1>4
<1>6. m - 1 \in T
  BY <1>4, <1>5
<1> QED
  BY <1>3, <1>5, <1>6

\* A function on an interval that is given at 0 and step by step.
Recurses(f, S, a, g, n) ==
    f \in [0 .. n -> S] /\ f[0] = a /\ \A i \in 1 .. n : f[i] = g[i][f[i - 1]]

LEMMA RecursionExists ==
    ASSUME NEW S, NEW a \in S, NEW g \in [Nat -> [S -> S]], NEW n \in Nat
    PROVE  \E f : Recurses(f, S, a, g, n)
<1> DEFINE Is(f, m) == Recurses(f, S, a, g, m)
           T == {m \in Nat : \E f : Is(f, m)}
<1>1. 0 \in T
  <2>1. Is([i \in 0 .. 0 |-> a], 0)
    BY DEF Recurses
  <2> QED
    BY <2>1
<1>2. ASSUME NEW m \in Nat, m \in T PROVE m + 1 \in T
  <2>1. PICK f : Is(f, m)
    BY <1>2
  <2> DEFINE h == [i \in 0 .. m + 1 |-> IF i =< m THEN f[i] ELSE g[m + 1][f[m]]]
  <2>2. f[m] \in S /\ g[m + 1][f[m]] \in S
    BY <2>1 DEF Recurses
  <2>3. h \in [0 .. m + 1 -> S] /\ h[0] = a
    BY <2>1, <2>2 DEF Recurses
  <2>4. ASSUME NEW i \in 1 .. m + 1 PROVE h[i] = g[i][h[i - 1]]
    <3>1. i - 1 \in 0 .. m /\ i - 1 \in 0 .. m + 1 /\ i \in 0 .. m + 1 /\ h[i - 1] = f[i - 1]
      OBVIOUS
    <3>2. CASE i =< m
      BY <2>1, <3>1, <3>2 DEF Recurses
    <3>3. CASE i = m + 1
      <4>1. h[i] = g[m + 1][f[m]] /\ h[i - 1] = f[m]
        BY <3>1, <3>3
      <4> QED
        BY <3>3, <4>1
    <3> QED
      BY <3>2, <3>3
  <2>5. Is(h, m + 1)
    BY <2>3, <2>4 DEF Recurses
  <2> HIDE DEF Is, h
  <2> QED
    BY <2>5
<1> HIDE DEF T
<1>3. n \in T
  BY <1>1, <1>2, Induction
<1> QED
  BY <1>3 DEF T

\* Division leaves a quotient and a remainder.
LEMMA Parts ==
    ASSUME NEW M \in Nat \ {0}, NEW x \in Int
    PROVE  \E k \in Int, s \in 0 .. M - 1 : x = M * k + s /\ x % M = s /\ x \div M = k
<1> DEFINE k == x \div M
           t == x % M
<1>1. k \in Int /\ t \in 0 .. M - 1 /\ t = x - M * k
  OBVIOUS
<1>2. M * k \in Int /\ x % M = t /\ x \div M = k
  BY <1>1
<1> HIDE DEF k, t
<1>3. x = M * k + t
  BY <1>1, <1>2
<1> QED
  BY <1>1, <1>2, <1>3

\* There is only one such pair.
LEMMA OneQuotient ==
    ASSUME NEW M \in Nat \ {0}, NEW q \in Int, NEW s \in 0 .. M - 1,
           NEW x, x = M * q + s
    PROVE  x % M = s /\ x \div M = q
<1>1. x \in Int
  OBVIOUS
<1>2. PICK k \in Int, t \in 0 .. M - 1 : x = M * k + t /\ x % M = t /\ x \div M = k
  BY <1>1, Parts
<1>3. M * (k - q) = s - t
  BY <1>2
<1> DEFINE d == k - q
<1>4. d \in Int /\ M * d = s - t
  BY <1>2, <1>3
<1> HIDE DEF d
<1>5. CASE d >= 1
  <2>1. M * d >= M
    BY <1>4, <1>5
  <2> QED
    BY <1>2, <1>4, <2>1
<1>6. CASE d =< -1
  <2>1. M * d =< -M
    BY <1>4, <1>6
  <2> QED
    BY <1>2, <1>4, <2>1
<1>7. CASE d = 0
  <2>1. M * d = 0
    BY <1>7
  <2>2. s = t
    BY <1>2, <1>4, <2>1
  <2>3. k = q
    BY <1>2, <1>7 DEF d
  <2> QED
    BY <1>2, <2>2, <2>3
<1> QED
  BY <1>4, <1>5, <1>6, <1>7

\* Such a function has all its values in S when the first is there and each
\* next one follows.
LEMMA ValuesIn ==
    ASSUME NEW S, NEW n \in Nat, NEW f, f = [i \in 0 .. n |-> f[i]],
           f[0] \in S, \A i \in 1 .. n : f[i - 1] \in S => f[i] \in S
    PROVE  f \in [0 .. n -> S]
<1> DEFINE T == {i \in Nat : i =< n => f[i] \in S}
<1>1. 0 \in T
  OBVIOUS
<1>2. ASSUME NEW i \in Nat, i \in T PROVE i + 1 \in T
  <2>1. CASE i + 1 =< n
    <3>1. i + 1 \in 1 .. n /\ (i + 1) - 1 = i /\ f[i] \in S
      BY <1>2, <2>1
    <3>2. f[i + 1] \in S
      BY <3>1
    <3> QED
      BY <3>1, <3>2
  <2> QED
    BY <2>1
<1>3. \A i \in Nat : i \in T
  <2> HIDE DEF T
  <2> QED
    BY <1>1, <1>2, Induction
<1> QED
  BY <1>3

\* The function that Power computes with.
LEMMA PowerFunction ==
    ASSUME NEW n \in Nat
    PROVE  \E p \in [0 .. n -> Nat] :
              /\ p[0] = 1 /\ \A i \in 1 .. n : p[i] = 31 * p[i - 1]
              /\ Power(31, n) = p[n]
<1> DEFINE g == [i \in Nat |-> [k \in Nat |-> 31 * k]]
           one == 1
<1>1. one \in Nat /\ g \in [Nat -> [Nat -> Nat]]
  OBVIOUS
<1>2. \A i \in Nat, k \in Nat : g[i][k] = 31 * k
  OBVIOUS
<1> HIDE DEF g, one
<1>3. PICK f : Recurses(f, Nat, one, g, n)
  BY <1>1, RecursionExists
<1>4. f = [i \in 0 .. n |-> IF i = 0 THEN 1 ELSE 31 * f[i - 1]]
  <2>1. ASSUME NEW i \in 1 .. n PROVE f[i] = 31 * f[i - 1]
    <3>1. i \in Nat /\ i - 1 \in 0 .. n
      OBVIOUS
    <3> QED
      BY <1>2, <1>3, <3>1 DEF Recurses
  <2> QED
    BY <1>3, <2>1 DEF Recurses, one
<1> DEFINE p == CHOOSE p : p = [i \in 0 .. n |-> IF i = 0 THEN 1 ELSE 31 * p[i - 1]]
<1>5. p = [i \in 0 .. n |-> IF i = 0 THEN 1 ELSE 31 * p[i - 1]]
  BY <1>4
<1>6. Power(31, n) = p[n]
  BY DEF Power
<1> HIDE DEF p
<1>7. /\ p[0] = 1 /\ p = [i \in 0 .. n |-> p[i]]
      /\ \A i \in 1 .. n : p[i] = 31 * p[i - 1]
  BY <1>5
<1>8. p \in [0 .. n -> Nat]
  <2>1. p[0] \in Nat /\ \A i \in 1 .. n : p[i - 1] \in Nat => p[i] \in Nat
    BY <1>7
  <2> QED
    BY <1>7, <2>1, ValuesIn
<1> QED
  BY <1>6, <1>7, <1>8

LEMMA PowerFacts ==
    ASSUME NEW n \in Nat
    PROVE  /\ Power(31, n) \in Nat
           /\ Power(31, 0) = 1
           /\ Power(31, n + 1) = 31 * Power(31, n)
<1>1. Power(31, 0) = 1
  BY PowerFunction
<1>2. PICK f \in [0 .. n -> Nat] :
            /\ f[0] = 1 /\ \A i \in 1 .. n : f[i] = 31 * f[i - 1]
            /\ Power(31, n) = f[n]
  BY PowerFunction
<1>3. n + 1 \in Nat
  OBVIOUS
<1>4. PICK h \in [0 .. n + 1 -> Nat] :
            /\ h[0] = 1 /\ \A i \in 1 .. n + 1 : h[i] = 31 * h[i - 1]
            /\ Power(31, n + 1) = h[n + 1]
  BY <1>3, PowerFunction
<1> DEFINE T == {i \in Nat : i =< n => f[i] = h[i]}
<1>5. 0 \in T
  BY <1>2, <1>4
<1>6. ASSUME NEW i \in Nat, i \in T PROVE i + 1 \in T
  <2>1. CASE i + 1 =< n
    <3>1. i + 1 \in 1 .. n /\ i + 1 \in 1 .. n + 1 /\ (i + 1) - 1 = i /\ f[i] = h[i]
      BY <1>6, <2>1
    <3>2. f[i + 1] = 31 * f[i] /\ h[i + 1] = 31 * h[i]
      BY <1>2, <1>4, <3>1
    <3> QED
      BY <3>1, <3>2
  <2> QED
    BY <2>1
<1>7. \A i \in Nat : i \in T
  BY <1>5, <1>6, Induction
<1>8. f[n] = h[n] /\ h[n + 1] = 31 * h[n]
  BY <1>4, <1>7
<1> QED
  BY <1>1, <1>2, <1>4, <1>8

LEMMA ByteIs == ASSUME NEW c \in Int PROVE Byte(c) = c % ByteMod /\ Byte(c) \in Int
BY HashAssumption DEF Byte

\* The function that hash_str computes with.
LEMMA HashFunction ==
    ASSUME NEW n \in Nat, NEW s \in [1 .. n -> Int]
    PROVE  \E v \in [0 .. n -> Int] :
              /\ v[0] = 0
              /\ \A i \in 1 .. n : v[i] = (v[i - 1] * 31 + Byte(s[i])) % HashMod
              /\ hash_str(s, n) = v[n]
<1> DEFINE b(i) == IF i \in 1 .. n THEN Byte(s[i]) ELSE 0
           g == [i \in Nat |-> [k \in Int |-> (k * 31 + b(i)) % HashMod]]
           zero == 0
<1>a. HashMod \in Nat \ {0} /\ \A x \in Int : x % HashMod \in Int
  BY HashAssumption
<1>b. \A i \in Nat : b(i) \in Int
  BY ByteIs
<1>c. \A i \in 1 .. n : b(i) = Byte(s[i])
  OBVIOUS
<1>1. zero \in Int /\ g \in [Nat -> [Int -> Int]]
  <2> HIDE DEF b
  <2>1. \A i \in Nat, k \in Int : (k * 31 + b(i)) % HashMod \in Int
    <3>1. \A i \in Nat, k \in Int : k * 31 + b(i) \in Int
      BY <1>b
    <3> QED
      BY <1>a, <3>1
  <2> QED
    BY <2>1
<1>2. \A i \in 1 .. n, k \in Int : g[i][k] = (k * 31 + Byte(s[i])) % HashMod
  <2> HIDE DEF b
  <2> QED
    BY <1>c
<1> HIDE DEF g, zero, b
<1>3. PICK f : Recurses(f, Int, zero, g, n)
  BY <1>1, RecursionExists
<1>4. f \in [0 .. n -> Int] /\ f[0] = 0
      /\ \A i \in 1 .. n : f[i] = (f[i - 1] * 31 + Byte(s[i])) % HashMod
  <2>1. ASSUME NEW i \in 1 .. n
        PROVE  f[i] = (f[i - 1] * 31 + Byte(s[i])) % HashMod
    <3>1. i - 1 \in 0 .. n
      OBVIOUS
    <3>2. f[i - 1] \in Int /\ f[i] = g[i][f[i - 1]]
      BY <1>3, <3>1 DEF Recurses
    <3> QED
      BY <1>2, <3>2
  <2> QED
    BY <1>3, <2>1 DEF Recurses, zero
<1>5. f = [i \in 0 .. n |-> IF i = 0 THEN 0
                            ELSE (f[i - 1] * 31 + Byte(s[i])) % HashMod]
  BY <1>4
<1> DEFINE v == CHOOSE val : val = [i \in 0 .. n |->
                  IF i = 0 THEN 0 ELSE (val[i - 1] * 31 + Byte(s[i])) % HashMod]
<1>6. v = [i \in 0 .. n |-> IF i = 0 THEN 0
                            ELSE (v[i - 1] * 31 + Byte(s[i])) % HashMod]
  BY <1>5
<1>7. hash_str(s, n) = v[n]
  BY DEF hash_str
<1> HIDE DEF v
<1>8. /\ v[0] = 0 /\ v = [i \in 0 .. n |-> v[i]]
      /\ \A i \in 1 .. n : v[i] = (v[i - 1] * 31 + Byte(s[i])) % HashMod
  BY <1>6
<1>9. v \in [0 .. n -> Int]
  <2>1. ASSUME NEW i \in 1 .. n, v[i - 1] \in Int PROVE v[i] \in Int
    <3>1. Byte(s[i]) \in Int
      BY ByteIs
    <3>2. v[i - 1] * 31 + Byte(s[i]) \in Int
      BY <2>1, <3>1
    <3> QED
      BY <1>8, <1>a, <3>2
  <2>2. v[0] \in Int /\ \A i \in 1 .. n : v[i - 1] \in Int => v[i] \in Int
    <3>1. v[0] \in Int
      BY <1>8
    <3> QED
      BY ONLY <2>1, <3>1
  <2>3. v = [i \in 0 .. n |-> v[i]]
    BY <1>8
  <2> QED
    BY ONLY n \in Nat, <2>2, <2>3, ValuesIn
<1> QED
  BY <1>7, <1>8, <1>9

\* The i-th of n terms.
Term(s, n, i) == Byte(s[i]) * Power(31, n - i)

\* The function that Polynomial computes with.
LEMMA PolynomialFunction ==
    ASSUME NEW n \in Nat, NEW s \in [1 .. n -> Int]
    PROVE  \E u \in [0 .. n -> Int] :
              /\ u[0] = 0
              /\ \A i \in 1 .. n : u[i] = u[i - 1] + Term(s, n, i)
              /\ Polynomial(s, n) = u[n]
<1> DEFINE t(i) == Term(s, n, i)
           b(i) == IF i \in 1 .. n THEN t(i) ELSE 0
           g == [i \in Nat |-> [k \in Int |-> k + b(i)]]
           zero == 0
<1>a. \A i \in 1 .. n : t(i) \in Int /\ t(i) = (s[i] % ByteMod) * Power(31, n - i)
  <2> SUFFICES ASSUME NEW i \in 1 .. n
               PROVE  t(i) \in Int /\ t(i) = (s[i] % ByteMod) * Power(31, n - i)
    OBVIOUS
  <2>1. n - i \in Nat /\ s[i] \in Int
    OBVIOUS
  <2>2. Power(31, n - i) \in Nat /\ Byte(s[i]) \in Int /\ Byte(s[i]) = s[i] % ByteMod
    BY <2>1, PowerFacts, ByteIs
  <2> QED
    BY <2>2 DEF Term
<1> HIDE DEF t
<1>b. \A i \in Nat : b(i) \in Int
  BY <1>a
<1>c. \A i \in 1 .. n : b(i) = t(i)
  OBVIOUS
<1> HIDE DEF b
<1>1. zero \in Int /\ g \in [Nat -> [Int -> Int]]
  BY <1>b
<1>2. \A i \in 1 .. n, k \in Int : g[i][k] = k + t(i)
  BY <1>c
<1> HIDE DEF g, zero
<1>3. PICK f : Recurses(f, Int, zero, g, n)
  BY <1>1, RecursionExists
<1>4. f \in [0 .. n -> Int] /\ f[0] = 0 /\ \A i \in 1 .. n : f[i] = f[i - 1] + t(i)
  <2>1. ASSUME NEW i \in 1 .. n PROVE f[i] = f[i - 1] + t(i)
    <3>1. i - 1 \in 0 .. n
      OBVIOUS
    <3>2. f[i - 1] \in Int /\ f[i] = g[i][f[i - 1]]
      BY <1>3, <3>1 DEF Recurses
    <3> QED
      BY <1>2, <3>2
  <2> QED
    BY <1>3, <2>1 DEF Recurses, zero
<1> DEFINE Sums(h) == h = [i \in 0 .. n |->
                  IF i = 0 THEN 0 ELSE h[i - 1] + (s[i] % ByteMod) * Power(31, n - i)]
           u == CHOOSE sum : Sums(sum)
<1>5. Sums(f)
  <2>1. \A i \in 1 .. n : f[i] = f[i - 1] + (s[i] % ByteMod) * Power(31, n - i)
    BY <1>4, <1>a
  <2> QED
    BY <1>4, <2>1
<1>6. Sums(u)
  <2> HIDE DEF Sums
  <2> QED
    BY <1>5
<1>7. Polynomial(s, n) = u[n]
  BY DEF Polynomial
<1> HIDE DEF u
<1>8. /\ u[0] = 0 /\ u = [i \in 0 .. n |-> u[i]]
      /\ \A i \in 1 .. n : u[i] = u[i - 1] + (s[i] % ByteMod) * Power(31, n - i)
  <2>1. ASSUME NEW i \in 1 .. n
        PROVE  u[i] = u[i - 1] + (s[i] % ByteMod) * Power(31, n - i)
    <3>1. i \in 0 .. n /\ i # 0
      OBVIOUS
    <3> QED
      BY <1>6, <3>1, Zenon
  <2>2. DOMAIN u = 0 .. n /\ 0 \in 0 .. n
    BY <1>6
  <2>3. u[0] = 0
    BY <1>6, <2>2, Zenon
  <2>4. u = [i \in 0 .. n |-> u[i]]
    BY <1>6, <2>2
  <2> QED
    BY <2>1, <2>3, <2>4
<1>9. \A i \in 1 .. n : u[i] = u[i - 1] + t(i)
  BY <1>8, <1>a
<1>10. u \in [0 .. n -> Int]
  <2>1. u[0] \in Int /\ \A i \in 1 .. n : u[i - 1] \in Int => u[i] \in Int
    <3>1. u[0] \in Int
      BY <1>8
    <3>2. ASSUME NEW i \in 1 .. n, u[i - 1] \in Int PROVE u[i] \in Int
      <4>1. u[i] = u[i - 1] + t(i) /\ t(i) \in Int
        BY <1>9, <1>a
      <4> QED
        BY <3>2, <4>1
    <3> QED
      BY <3>1, <3>2
  <2>2. u = [i \in 0 .. n |-> u[i]]
    BY <1>8
  <2> QED
    BY ONLY n \in Nat, <2>1, <2>2, ValuesIn
<1>11. \A i \in 1 .. n : u[i] = u[i - 1] + Term(s, n, i)
  BY <1>9 DEF t
<1> QED
  BY <1>7, <1>8, <1>10, <1>11

\* One more byte, whether the sum wraps before it or not.
LEMMA HashStep ==
    ASSUME NEW A \in Int, NEW M \in Int, NEW k \in Int, NEW q \in Int,
           NEW w \in Int, NEW b \in Int, NEW v \in Int,
           v * 31 + b = M * q + w
    PROVE  (v * (31 * A) + M * k) + b * A = w * A + M * (q * A + k)
<1>1. (v * 31 + b) * A = v * (31 * A) + b * A
  OBVIOUS
<1>2. (M * q + w) * A = M * (q * A) + w * A
  OBVIOUS
<1>3. M * (q * A + k) = M * (q * A) + M * k
  OBVIOUS
<1> QED
  BY <1>1, <1>2, <1>3

\* hash_str is the polynomial modulo the width.
LEMMA HashIs ==
    ASSUME NEW n \in Nat, NEW s \in [1 .. n -> Int]
    PROVE  hash_str(s, n) = Polynomial(s, n) % HashMod
<1> DEFINE M == HashMod
<1>1. PICK v \in [0 .. n -> Int] :
              /\ v[0] = 0
              /\ \A i \in 1 .. n : v[i] = (v[i - 1] * 31 + Byte(s[i])) % HashMod
              /\ hash_str(s, n) = v[n]
  BY HashFunction
<1>2. PICK u \in [0 .. n -> Int] :
              /\ u[0] = 0
              /\ \A i \in 1 .. n : u[i] = u[i - 1] + Term(s, n, i)
              /\ Polynomial(s, n) = u[n]
  BY PolynomialFunction
<1>3. M \in Nat \ {0}
  BY HashAssumption
<1> DEFINE Same(i) == \E k \in Int : u[i] = v[i] * Power(31, n - i) + M * k
           T == {i \in Nat : i =< n => Same(i)}
<1>4. 0 \in T
  <2>1. Power(31, n - 0) \in Nat /\ 0 \in Int
    BY PowerFacts
  <2>2. u[0] = v[0] * Power(31, n - 0) + M * 0
    BY <1>1, <1>2, <1>3, <2>1
  <2> HIDE DEF M
  <2> QED
    BY <2>1, <2>2
<1>5. ASSUME NEW i \in Nat, i \in T PROVE i + 1 \in T
  <2>1. CASE i + 1 =< n
    <3> DEFINE j == i + 1
               A == Power(31, n - j)
               b == Byte(s[j])
    <3>1. j \in 1 .. n /\ j - 1 = i /\ n - j \in Nat /\ n - i = (n - j) + 1 /\ s[j] \in Int
      BY <2>1
    <3>2. A \in Int /\ Power(31, n - i) = 31 * A /\ b \in Int
      <4>1. A \in Nat /\ Power(31, (n - j) + 1) = 31 * A
        BY <3>1, PowerFacts
      <4>2. b \in Int
        BY <3>1, ByteIs
      <4> HIDE DEF A, b, j
      <4> QED
        BY <3>1, <4>1, <4>2
    <3>3. v[i] \in Int /\ u[i] \in Int /\ v[j] \in Int
      BY <3>1
    <3>4. PICK k \in Int : u[i] = v[i] * (31 * A) + M * k
      <4>1. Same(i)
        BY <1>5, <2>1
      <4> HIDE DEF A, M
      <4> QED
        BY <3>2, <4>1
    <3>5. v[j] = (v[i] * 31 + b) % M /\ u[j] = u[i] + b * A
      <4>1. u[j] = u[i] + Term(s, n, j)
        BY <1>2, <3>1
      <4>2. Term(s, n, j) = b * A
        BY DEF Term
      <4>3. v[j] = (v[i] * 31 + b) % M
        BY <1>1, <3>1
      <4> QED
        BY <4>1, <4>2, <4>3
    <3> HIDE DEF A, b, M, j
    <3>6. v[i] * 31 + b \in Int
      BY <3>2, <3>3
    <3>7. PICK q \in Int : v[i] * 31 + b = M * q + v[j]
      <4>1. M \in Nat \ {0}
        BY <1>3
      <4>2. PICK q \in Int, w \in 0 .. M - 1 :
               v[i] * 31 + b = M * q + w /\ (v[i] * 31 + b) % M = w
        BY ONLY <3>6, <4>1, Parts
      <4> QED
        BY <3>5, <4>2
    <3> DEFINE x == v[i]
               w == v[j]
    <3>8. (v[i] * (31 * A) + M * k) + b * A = v[j] * A + M * (q * A + k)
      <4>1. M \in Int
        BY <1>3
      <4>2. x \in Int /\ w \in Int /\ A \in Int /\ b \in Int /\ x * 31 + b = M * q + w
        BY <3>2, <3>3, <3>7
      <4> HIDE DEF x, w
      <4>3. (x * (31 * A) + M * k) + b * A = w * A + M * (q * A + k)
        BY ONLY <4>1, <4>2, k \in Int, q \in Int, HashStep
      <4> QED
        BY <4>3 DEF x, w
    <3>9. q * A + k \in Int
      BY <3>2
    <3>10. u[j] = v[j] * A + M * (q * A + k)
      BY <3>4, <3>5, <3>8
    <3>11. Same(j)
      BY <3>9, <3>10 DEF A
    <3> QED
      BY <3>11 DEF j
  <2> QED
    BY <2>1
<1>6. Same(n)
  <2> HIDE DEF Same
  <2>1. \A i \in Nat : i \in T
    <3> HIDE DEF T
    <3> QED
      BY <1>4, <1>5, Induction
  <2> QED
    BY <2>1
<1>7. PICK k \in Int : u[n] = v[n] * Power(31, n - n) + M * k
  BY <1>6
<1>8. Power(31, n - n) = 1 /\ v[n] \in Int
  <2>1. n - n = 0 /\ 0 \in Nat
    OBVIOUS
  <2> QED
    BY <2>1, PowerFacts
<1>9. u[n] = M * k + v[n]
  <2> HIDE DEF M
  <2>1. M * k \in Int
    BY <1>3
  <2> QED
    BY <1>7, <1>8, <2>1
<1>10. v[n] \in 0 .. M - 1
  <2>1. CASE n = 0
    BY <1>1, <1>3, <2>1
  <2>2. CASE n # 0
    <3>1. n \in 1 .. n /\ n - 1 \in 0 .. n /\ s[n] \in Int
      BY <2>2
    <3>2. v[n] = (v[n - 1] * 31 + Byte(s[n])) % M
      BY <1>1, <3>1
    <3>3. v[n - 1] \in Int /\ Byte(s[n]) \in Int
      BY <3>1, ByteIs
    <3>4. v[n - 1] * 31 + Byte(s[n]) \in Int
      BY <3>3
    <3> QED
      BY <1>3, <3>2, <3>4
  <2> QED
    BY <2>1, <2>2
<1>11. u[n] % M = v[n]
  <2> DEFINE w == v[n]
  <2> HIDE DEF M, w
  <2>1. w \in 0 .. M - 1 /\ u[n] = M * k + w
    BY <1>9, <1>10 DEF w
  <2>2. (u[n]) % M = w
    BY ONLY <1>3, <2>1, k \in Int, OneQuotient
  <2> QED
    BY <2>2 DEF w
<1> QED
  BY <1>1, <1>2, <1>11

\* hash_str of any string, over characters of any signedness, is the
\* polynomial of its bytes in 31 modulo the width (hash.h:7-14).
THEOREM HashesExact == Dstr!Spec => []HashIsPolynomial
<1>1. ASSUME NEW t \in Seq(Elem)
      PROVE  LET s == [i \in DOMAIN t |-> Code[t[i]]]
             IN  hash_str(s, Len(t)) = Polynomial(s, Len(t)) % HashMod
  <2>1. Len(t) \in Nat /\ DOMAIN t = 1 .. Len(t) /\ \A i \in 1 .. Len(t) : t[i] \in Elem
    OBVIOUS
  <2>2. [i \in DOMAIN t |-> Code[t[i]]] \in [1 .. Len(t) -> Int]
    BY <2>1, CodeAssumption
  <2> QED
    BY <2>1, <2>2, HashIs
<1>2. DstrInv => text \in Seq(Elem)
  <2>1. << >> \in Seq(Elem)
    OBVIOUS
  <2>2. ASSUME NEW d, Holds(d, text) PROVE text \in Seq(Elem)
    BY <2>2 DEF Holds
  <2> QED
    BY <2>1, <2>2 DEF DstrInv
<1>3. DstrInv => HashIsPolynomial
  BY <1>1, <1>2 DEF HashIsPolynomial
<1> QED
  BY <1>3, DstrInvariant, PTL
=============================================================================
