---------------------------- MODULE HdaOpsProofs ----------------------------
(***************************************************************************)
(* What the functions of src/hda.h return, for every element size, every   *)
(* width of size_t and every element type: the lemmas that the proofs of   *)
(* the modules built on HdaOps cite.                                       *)
(***************************************************************************)
EXTENDS HdaOps, TLAPS, SequenceTheorems

-----------------------------------------------------------------------------
(* Arithmetic of size_t *)

\* A size that fits in a size_t does not wrap around.
LEMMA WordSmall ==
    ASSUME NEW x \in 0 .. SizeMax
    PROVE  Word(x) = x
BY WidthAssumption DEF Word

\* More elements take more bytes.
LEMMA ProductMonotone ==
    ASSUME NEW x \in Nat, NEW y \in Nat, NEW e \in Nat, x =< y
    PROVE  x * e =< y * e
BY SMT

\* An element takes a byte at least.
LEMMA ProductBound ==
    ASSUME NEW x \in Nat, NEW e \in Nat \ {0}
    PROVE  x =< x * e
BY SMT

\* Dividing the bytes by the element size gives back the count.
LEMMA ProductDiv ==
    ASSUME NEW x \in Nat, NEW e \in Nat \ {0}
    PROVE  (x * e) \div e = x
BY SMT

\* A count below the quotient of the overflow check (hda.h:131) has a byte
\* count below the dividend.
LEMMA DivBound ==
    ASSUME NEW x \in Nat, NEW s \in Nat, NEW e \in Nat \ {0}, x =< s \div e
    PROVE  e * x =< s
BY SMT

-----------------------------------------------------------------------------
(* Facts about an array between two calls *)

\* The header words of an array between two calls: the size is at most the
\* capacity, and the block is no larger than an object may be.
LEMMA SizeFacts ==
    ASSUME NEW h, GoodHandle(h)
    PROVE  /\ hda_size(h) \in Nat
           /\ hda_cap(h) \in Nat
           /\ hda_size(h) =< hda_cap(h)
           /\ HeaderBytes + hda_cap(h) * ElSz =< PtrMax
BY WidthAssumption, NullAssumption
   DEF Good, GoodHandle, Block, hda_size, hda_cap

\* An element count that the calls pass to _hda_grow: one for a push, or the
\* count of an insert that passed the overflow check and got its copy.
Count(n) == n \in Nat \ {0} /\ n * ElSz =< PtrMax

\* hda_push grows by a count that needs no overflow check (hda.h:27-39).
LEMMA OneIsACount == Count(1)
BY WidthAssumption DEF Count

\* The overflow check of _hda_insert_imp and the allocation of the copy leave
\* only counts whose size in bytes is what the product says.
LEMMA InsertCount ==
    ASSUME NEW h, NEW n \in Nat \ {0}, ~InsertFails(h, n)
    PROVE  Count(n) /\ ~GrowFails(h, n)
<1> DEFINE fails == GrowFails(h, n)
<1>a. /\ ~(n > SizeMax \div ElSz)
      /\ ~(Word(ElSz * n) > PtrMax)
      /\ ~fails
  BY DEF InsertFails
<1>b. ElSz * n \in Nat /\ SizeMax \div ElSz \in Nat /\ Word(ElSz * n) \in Nat
  BY WidthAssumption DEF Word
<1> HIDE DEF fails
<1>1. n =< SizeMax \div ElSz /\ Word(ElSz * n) =< PtrMax /\ ~fails
  BY <1>a, <1>b, WidthAssumption
<1>2. ElSz * n =< SizeMax
  BY <1>1, DivBound, WidthAssumption
<1>3. Word(ElSz * n) = ElSz * n
  BY <1>2, WordSmall, WidthAssumption
<1> QED
  BY <1>1, <1>3, WidthAssumption DEF Count, fails

\* No sum or product on the way to the new capacity wraps.
LEMMA NoWrap ==
    ASSUME NEW h, GoodHandle(h), NEW n, Count(n)
    PROVE  LET min == hda_size(h) + n
               cap == MaxOf(min, MaxOf(2, 2 * hda_cap(h)))
           IN  /\ Word(min) = min
               /\ NewCap(h, min) = cap
               /\ cap \in 0 .. SizeMax
               /\ RequestBytes(cap) = HeaderBytes + cap * ElSz
<1> DEFINE s == hda_size(h)
           c == hda_cap(h)
           min == s + n
           cap == MaxOf(min, MaxOf(2, 2 * c))
<1>1. /\ s \in Nat /\ c \in Nat /\ s =< c /\ n \in Nat \ {0}
      /\ HeaderBytes + c * ElSz =< PtrMax
      /\ n * ElSz =< PtrMax
  BY SizeFacts DEF Count
<1>2. min * ElSz + HeaderBytes =< SizeMax
  <2>1. s * ElSz =< c * ElSz
    BY <1>1, ProductMonotone, WidthAssumption
  <2>2. min * ElSz = s * ElSz + n * ElSz
    BY <1>1, WidthAssumption
  <2> HIDE DEF s, c, min
  <2> QED
    BY <1>1, <2>1, <2>2, WidthAssumption DEF min
<1>3. (2 * c) * ElSz + HeaderBytes =< SizeMax
  <2>1. (2 * c) * ElSz = 2 * (c * ElSz) /\ c * ElSz \in Nat
    BY <1>1, WidthAssumption
  <2> QED
    BY <1>1, <2>1, WidthAssumption
<1>4. 2 * ElSz + HeaderBytes =< SizeMax
  BY WidthAssumption
<1>5. /\ cap \in Nat
      /\ cap * ElSz + HeaderBytes =< SizeMax
  BY <1>1, <1>2, <1>3, <1>4 DEF MaxOf
<1>6. /\ min =< min * ElSz
      /\ 2 * c =< (2 * c) * ElSz
      /\ cap =< cap * ElSz
      /\ min * ElSz \in Nat /\ (2 * c) * ElSz \in Nat /\ cap * ElSz \in Nat
  BY <1>1, <1>5, ProductBound, WidthAssumption
<1>7. min \in 0 .. SizeMax /\ 2 * c \in 0 .. SizeMax /\ cap \in 0 .. SizeMax
  BY <1>1, <1>2, <1>3, <1>5, <1>6, WidthAssumption
<1>8. Word(min) = min /\ Word(2 * c) = 2 * c
  BY <1>7, WordSmall
<1>9. Word(cap * ElSz) = cap * ElSz
  BY <1>5, <1>6, WordSmall, WidthAssumption
<1>10. Word(HeaderBytes + cap * ElSz) = HeaderBytes + cap * ElSz
  BY <1>5, <1>6, WordSmall, WidthAssumption
<1> QED
  BY <1>7, <1>8, <1>9, <1>10 DEF NewCap, RequestBytes

-----------------------------------------------------------------------------
(* What the functions of the header return *)

\* A grow that does not fail gives a block with room for n more elements, the
\* cells of the old one in place, and a capacity that has at least doubled
\* whenever realloc had to be called.
LEMMA GrowResult ==
    ASSUME NEW h, GoodHandle(h), NEW n, Count(n), ~GrowFails(h, n)
    PROVE  LET g == Grow(h, n)
           IN  /\ g \in Block
               /\ g.size = hda_size(h) + n
               /\ g.size =< g.cap
               /\ Len(g.cell) = g.cap
               /\ HeaderBytes + g.cap * ElSz =< PtrMax
               /\ \A k \in 1 .. hda_size(h) : g.cell[k] = h.cell[k]
               /\ GrowCost(h, n) \in Nat
               /\ hda_cap(h) + GrowCost(h, n) =< g.cap
               /\ g.cap =< MaxOf(hda_cap(h), 2 * g.size)
<1> DEFINE min == hda_size(h) + n
           cap == MaxOf(min, MaxOf(2, 2 * hda_cap(h)))
           g == Grow(h, n)
<1>1. /\ hda_size(h) \in Nat /\ hda_cap(h) \in Nat
      /\ hda_size(h) =< hda_cap(h)
      /\ HeaderBytes + hda_cap(h) * ElSz =< PtrMax
      /\ n \in Nat \ {0}
  BY SizeFacts DEF Count
<1>2. /\ Word(min) = min
      /\ NewCap(h, min) = cap
      /\ cap \in 0 .. SizeMax
      /\ RequestBytes(cap) = HeaderBytes + cap * ElSz
  BY NoWrap
<1>3. min \in 1 .. SizeMax /\ min =< cap /\ 2 * hda_cap(h) =< cap
  <2> DEFINE s == hda_size(h)
             c == hda_cap(h)
  <2>1. s \in Nat /\ c \in Nat /\ n \in Nat \ {0} /\ SizeMax \in Nat
    BY <1>1, WidthAssumption
  <2>2. cap = MaxOf(s + n, MaxOf(2, 2 * c)) /\ cap \in 0 .. SizeMax
    BY <1>2
  <2> HIDE DEF s, c
  <2>3. s + n \in 1 .. SizeMax /\ s + n =< cap /\ 2 * c =< cap
    BY <2>1, <2>2 DEF MaxOf
  <2> QED
    BY <2>3 DEF s, c
<1>4. CASE hda_cap(h) >= min
  <2>1. h # NULL /\ Good(h)
    BY <1>1, <1>4 DEF GoodHandle, hda_cap
  <2>2. g = [h EXCEPT !.size = min] /\ GrowCost(h, n) = 0
    BY <1>2, <1>4 DEF Grow, Reserve, GrowCost
  <2>3. h.cap = hda_cap(h)
    BY <2>1 DEF hda_cap
  <2> HIDE DEF g
  <2>4. g \in Block /\ g.size = min /\ g.cap = h.cap /\ g.cell = h.cell
    BY <1>3, <2>1, <2>2 DEF Good, Block
  <2>5. g.cap =< MaxOf(hda_cap(h), 2 * g.size)
    BY <1>1, <1>3, <2>3, <2>4 DEF MaxOf
  <2> QED
    BY <1>1, <1>4, <2>1, <2>2, <2>3, <2>4, <2>5 DEF Good, g
<1>5. CASE ~(hda_cap(h) >= min)
  <2>1. g = [Realloc(h, cap) EXCEPT !.size = min]
    BY <1>2, <1>5 DEF Grow, Reserve
  <2>2. RequestBytes(cap) =< PtrMax /\ RequestBytes(cap) \in Nat
    BY <1>1, <1>2, <1>5, WidthAssumption DEF GrowFails, ReserveFails
  <2>3. (RequestBytes(cap) - HeaderBytes) \div ElSz = cap
    <3>1. RequestBytes(cap) - HeaderBytes = cap * ElSz
      BY <1>2, WidthAssumption
    <3> QED
      BY <1>2, <3>1, ProductDiv, WidthAssumption
  <2> DEFINE cell == [k \in 1 .. cap |->
                        IF h = NULL THEN Junk ELSE At(h.cell, k)]
  <2>4. cell \in Seq(Cell) /\ Len(cell) = cap
    <3>1. \A k \in 1 .. cap : cell[k] \in Cell
      BY DEF GoodHandle, Good, Block, At, Cell
    <3> QED
      BY <1>2, <3>1
  <2>5. g = [size |-> min, cap |-> cap, cell |-> cell]
    BY <2>1, <2>3 DEF Realloc
  <2>6. \A k \in 1 .. hda_size(h) : cell[k] = h.cell[k]
    <3> SUFFICES ASSUME NEW k \in 1 .. hda_size(h)
                 PROVE  cell[k] = h.cell[k]
      OBVIOUS
    <3>1. h # NULL /\ hda_size(h) = h.size
      BY DEF hda_size
    <3>2. /\ h.cell \in Seq(Cell) /\ h.size \in Nat /\ h.cap \in Nat
          /\ h.size =< h.cap /\ Len(h.cell) = h.cap
      BY <3>1 DEF GoodHandle, Good, Block
    <3>3. k \in DOMAIN h.cell
      BY <3>1, <3>2
    <3>4. k \in 1 .. cap
      <4> DEFINE s == hda_size(h)
      <4>1. s \in Nat /\ n \in Nat /\ cap \in Nat /\ s + n =< cap /\ k \in 1 .. s
        BY <1>1, <1>2, <1>3
      <4> HIDE DEF s, cap
      <4> QED
        BY <4>1
    <3> QED
      BY <3>1, <3>3, <3>4 DEF At
  <2>7. GrowCost(h, n) = hda_cap(h)
    BY <1>2, <1>5 DEF GrowCost
  <2> HIDE DEF g, cell
  <2>8. g \in Block /\ g.size = min /\ g.cap = cap /\ g.cell = cell
    BY <1>2, <1>3, <2>4, <2>5 DEF Block
  <2>9. cap =< MaxOf(hda_cap(h), 2 * min)
    BY <1>1, <1>3, <1>5 DEF MaxOf
  <2> QED
    BY <1>1, <1>2, <1>3, <2>2, <2>4, <2>6, <2>7, <2>8, <2>9 DEF g
<1> QED
  BY <1>4, <1>5

\* memcpy into the storage writes n cells and leaves the others.
LEMMA MemCpyResult ==
    ASSUME NEW cell \in Seq(Cell), NEW dst \in Nat, NEW n \in Nat, NEW buf,
           dst + n =< Len(cell),
           \A k \in 1 .. n : k \in DOMAIN buf /\ buf[k] \in Cell
    PROVE  LET c == MemCpy(cell, dst, buf, n)
           IN  /\ c \in Seq(Cell)
               /\ Len(c) = Len(cell)
               /\ \A k \in 1 .. Len(cell) :
                     c[k] = IF k > dst /\ k =< dst + n THEN buf[k - dst]
                                                       ELSE cell[k]
<1> DEFINE val(k) == IF k > dst /\ k =< dst + n THEN At(buf, k - dst)
                                                ELSE At(cell, k)
           c == [k \in 1 .. Len(cell) |-> val(k)]
<1>1. MaxOf(Len(cell), dst + n) = Len(cell)
  BY DEF MaxOf
<1>2. MemCpy(cell, dst, buf, n) = c
  BY <1>1 DEF MemCpy
<1>3. ASSUME NEW k \in 1 .. Len(cell)
      PROVE  /\ val(k) \in Cell
             /\ val(k) = IF k > dst /\ k =< dst + n THEN buf[k - dst]
                                                    ELSE cell[k]
  <2>1. CASE k > dst /\ k =< dst + n
    <3>1. k - dst \in 1 .. n
      BY <2>1
    <3> QED
      BY <2>1, <3>1 DEF At
  <2>2. CASE ~(k > dst /\ k =< dst + n)
    BY <2>2 DEF At
  <2> QED
    BY <2>1, <2>2
<1> HIDE DEF val
<1>4. c \in Seq(Cell) /\ Len(c) = Len(cell)
  BY <1>3
<1> QED
  BY <1>2, <1>3, <1>4

\* memmove inside the storage moves n cells, read before any is written.
LEMMA MemMoveResult ==
    ASSUME NEW cell \in Seq(Cell), NEW dst \in Nat, NEW src \in Nat,
           NEW n \in Nat, dst + n =< Len(cell), src + n =< Len(cell)
    PROVE  LET c == MemMove(cell, dst, src, n)
           IN  /\ c \in Seq(Cell)
               /\ Len(c) = Len(cell)
               /\ \A k \in 1 .. Len(cell) :
                     c[k] = IF k > dst /\ k =< dst + n
                            THEN cell[(k - dst) + src] ELSE cell[k]
<1> DEFINE val(k) == IF k > dst /\ k =< dst + n THEN At(cell, (k - dst) + src)
                                                ELSE At(cell, k)
           c == [k \in 1 .. Len(cell) |-> val(k)]
<1>1. MaxOf(Len(cell), dst + n) = Len(cell)
  BY DEF MaxOf
<1>2. MemMove(cell, dst, src, n) = c
  BY <1>1 DEF MemMove
<1>3. ASSUME NEW k \in 1 .. Len(cell)
      PROVE  /\ val(k) \in Cell
             /\ val(k) = IF k > dst /\ k =< dst + n
                         THEN cell[(k - dst) + src] ELSE cell[k]
  <2>1. CASE k > dst /\ k =< dst + n
    <3>1. (k - dst) + src \in 1 .. Len(cell)
      BY <2>1
    <3> QED
      BY <2>1, <3>1 DEF At
  <2>2. CASE ~(k > dst /\ k =< dst + n)
    BY <2>2 DEF At
  <2> QED
    BY <2>1, <2>2
<1> HIDE DEF val
<1>4. c \in Seq(Cell) /\ Len(c) = Len(cell)
  BY <1>3
<1> QED
  BY <1>2, <1>3, <1>4

\* A push that does not fail writes v behind the elements it found.
LEMMA PushResult ==
    ASSUME NEW h, GoodHandle(h), ~PushFails(h), NEW v \in Elem
    PROVE  LET r == StoreLast(Grow(h, 1), v)
           IN  /\ Good(r)
               /\ r.size = hda_size(h) + 1
               /\ r.cap = Grow(h, 1).cap
               /\ r.cell[hda_size(h) + 1] = v
               /\ \A k \in 1 .. hda_size(h) : r.cell[k] = h.cell[k]
<1> DEFINE g == Grow(h, 1)
           s == hda_size(h)
           cell == MemCpy(g.cell, g.size - 1, << v >>, 1)
           r == StoreLast(g, v)
<1>1. /\ g \in Block /\ g.size = s + 1 /\ g.size =< g.cap
      /\ Len(g.cell) = g.cap /\ HeaderBytes + g.cap * ElSz =< PtrMax
      /\ \A k \in 1 .. s : g.cell[k] = h.cell[k]
  BY OneIsACount, GrowResult DEF PushFails
<1>2. s \in Nat /\ \A k \in 1 .. s : h.cell[k] \in Elem
  BY SizeFacts DEF GoodHandle, Good, hda_size
<1> HIDE DEF g, s
<1>3. /\ cell \in Seq(Cell) /\ Len(cell) = g.cap
      /\ \A k \in 1 .. s : cell[k] = g.cell[k]
      /\ cell[s + 1] = v
  <2>1. /\ g.cell \in Seq(Cell) /\ g.size - 1 = s /\ s + 1 =< Len(g.cell)
        /\ Len(g.cell) = g.cap
    BY <1>1, <1>2 DEF Block
  <2>2. \A k \in 1 .. 1 : k \in DOMAIN << v >> /\ << v >>[k] \in Cell
    BY DEF Cell
  <2> DEFINE buf == << v >>
             c == MemCpy(g.cell, s, buf, 1)
  <2>a. cell = c
    BY <2>1
  <2> HIDE DEF buf, c, cell
  <2>3. /\ c \in Seq(Cell) /\ Len(c) = Len(g.cell)
        /\ \A k \in 1 .. Len(g.cell) :
              c[k] = IF k > s /\ k =< s + 1 THEN buf[k - s] ELSE g.cell[k]
    <3>1. \A k \in 1 .. 1 : k \in DOMAIN buf /\ buf[k] \in Cell
      BY <2>2 DEF buf
    <3> QED
      BY <1>2, <2>1, <3>1, MemCpyResult DEF c
  <2>4. \A k \in 1 .. s : c[k] = g.cell[k]
    <3> TAKE k \in 1 .. s
    <3>1. k \in 1 .. Len(g.cell) /\ ~(k > s)
      BY <1>2, <2>1
    <3> QED
      BY <2>3, <3>1
  <2>5. c[s + 1] = v
    <3>1. /\ s + 1 \in 1 .. Len(g.cell) /\ s + 1 > s /\ s + 1 =< s + 1
          /\ (s + 1) - s = 1
      BY <1>2, <2>1
    <3>2. c[s + 1] = buf[1]
      BY <2>3, <3>1
    <3> QED
      BY <3>2 DEF buf
  <2> QED
    BY <2>1, <2>a, <2>3, <2>4, <2>5
<1>4. r = [g EXCEPT !.cell = cell]
  BY DEF StoreLast
<1> HIDE DEF cell, r
<1>5. r \in Block /\ r.size = g.size /\ r.cap = g.cap /\ r.cell = cell
  BY <1>1, <1>3, <1>4 DEF Block
<1>6. \A k \in 1 .. r.size : r.cell[k] \in Elem
  BY <1>1, <1>2, <1>3, <1>5
<1> QED
  BY <1>1, <1>3, <1>5, <1>6 DEF Good, g, s, r

\* An insert that does not fail opens a hole of n cells at idx, fills it with
\* els and moves what was behind idx up, whatever els aliases.
LEMMA InsertResult ==
    ASSUME NEW h, GoodHandle(h), NEW n \in Nat \ {0}, ~InsertFails(h, n),
           NEW idx \in 0 .. hda_size(h),
           NEW els \in Seq(Elem), Len(els) = n
    PROVE  LET r == Insert(h, idx, n, els)
           IN  /\ Good(r)
               /\ r.size = hda_size(h) + n
               /\ r.cap = Grow(h, n).cap
               /\ \A k \in 1 .. r.size :
                     r.cell[k] = IF k =< idx THEN h.cell[k]
                                 ELSE IF k =< idx + n THEN els[k - idx]
                                 ELSE h.cell[k - n]
<1> DEFINE g == Grow(h, n)
           s == hda_size(h)
           shifted == MemMove(g.cell, idx + n, idx, s - idx)
           cell == MemCpy(shifted, idx, els, n)
           r == Insert(h, idx, n, els)
<1>1. /\ g \in Block /\ g.size = s + n /\ g.size =< g.cap
      /\ Len(g.cell) = g.cap /\ HeaderBytes + g.cap * ElSz =< PtrMax
      /\ \A k \in 1 .. s : g.cell[k] = h.cell[k]
  BY InsertCount, GrowResult
<1>2. /\ s \in Nat /\ idx \in 0 .. s /\ s - idx \in Nat
      /\ \A k \in 1 .. s : h.cell[k] \in Elem
  BY SizeFacts DEF GoodHandle, Good, hda_size
<1>3. r = [g EXCEPT !.cell = cell]
  BY DEF Insert
<1> HIDE DEF g, s, r
<1>4. /\ g.cell \in Seq(Cell) /\ g.cap \in Nat /\ s + n =< Len(g.cell)
  BY <1>1 DEF Block
<1>5. /\ shifted \in Seq(Cell) /\ Len(shifted) = Len(g.cell)
      /\ \A k \in 1 .. Len(g.cell) :
            shifted[k] = IF k > idx + n /\ k =< idx + n + (s - idx)
                         THEN g.cell[(k - (idx + n)) + idx] ELSE g.cell[k]
  <2> DEFINE m == s - idx
             top == idx + n
  <2>1. /\ top \in Nat /\ idx \in Nat /\ m \in Nat
        /\ top + m =< Len(g.cell)
        /\ idx + m =< Len(g.cell)
        /\ shifted = MemMove(g.cell, top, idx, m)
    BY <1>2, <1>4
  <2> HIDE DEF m, top, shifted
  <2>2. /\ shifted \in Seq(Cell) /\ Len(shifted) = Len(g.cell)
        /\ \A k \in 1 .. Len(g.cell) :
              shifted[k] = IF k > top /\ k =< top + m
                           THEN g.cell[(k - top) + idx] ELSE g.cell[k]
    BY <1>4, <2>1, MemMoveResult
  <2> QED
    BY <2>2 DEF m, top
<1> HIDE DEF shifted
<1>6. /\ cell \in Seq(Cell) /\ Len(cell) = Len(g.cell)
      /\ \A k \in 1 .. Len(g.cell) :
            cell[k] = IF k > idx /\ k =< idx + n THEN els[k - idx]
                                                 ELSE shifted[k]
  <2>1. \A k \in 1 .. n : k \in DOMAIN els /\ els[k] \in Cell
    BY DEF Cell
  <2>2. idx + n =< Len(shifted) /\ idx \in Nat
    BY <1>2, <1>4, <1>5
  <2> QED
    BY <1>5, <2>1, <2>2, MemCpyResult
<1> HIDE DEF cell
<1>7. r \in Block /\ r.size = s + n /\ r.cap = g.cap /\ r.cell = cell
  BY <1>1, <1>3, <1>6 DEF Block
<1>8. ASSUME NEW k \in 1 .. s + n
      PROVE  /\ cell[k] = IF k =< idx THEN h.cell[k]
                          ELSE IF k =< idx + n THEN els[k - idx]
                          ELSE h.cell[k - n]
             /\ cell[k] \in Elem
  <2>0. k \in 1 .. Len(g.cell)
    BY <1>2, <1>4
  <2>1. CASE k =< idx
    <3>1. k \in 1 .. s /\ ~(k > idx) /\ ~(k > idx + n)
      BY <1>2, <2>1
    <3>2. cell[k] = shifted[k] /\ shifted[k] = g.cell[k]
      BY <1>5, <1>6, <2>0, <3>1
    <3> QED
      BY <1>1, <1>2, <2>1, <3>1, <3>2
  <2>2. CASE k > idx /\ k =< idx + n
    <3>1. k - idx \in 1 .. Len(els)
      BY <1>2, <2>2
    <3> QED
      BY <1>2, <1>6, <2>0, <2>2, <3>1
  <2>3. CASE k > idx + n
    <3>1. /\ k - n \in 1 .. s /\ (k - (idx + n)) + idx = k - n
          /\ k =< idx + n + (s - idx)
      BY <1>2, <2>3
    <3>2. cell[k] = shifted[k]
      <4>1. ~(k =< idx + n)
        BY <1>2, <2>3
      <4> QED
        BY <1>6, <2>0, <4>1
    <3>3. shifted[k] = g.cell[k - n]
      BY <1>5, <2>0, <2>3, <3>1
    <3> QED
      BY <1>1, <1>2, <2>3, <3>1, <3>2, <3>3
  <2> QED
    BY <1>2, <2>1, <2>2, <2>3
<1> HIDE DEF r
<1>9. /\ r.size =< r.cap /\ Len(r.cell) = r.cap
      /\ HeaderBytes + r.cap * ElSz =< PtrMax
  BY <1>1, <1>6, <1>7
<1> QED
  BY <1>7, <1>8, <1>9 DEF Good, g, s, r

\* A delete brings what was behind the removed elements down.
LEMMA DeleteResult ==
    ASSUME NEW h, Good(h), NEW idx \in Nat, NEW n \in Nat \ {0},
           idx + n =< h.size
    PROVE  LET r == Delete(h, idx, n)
           IN  /\ Good(r)
               /\ r.size = h.size - n
               /\ r.cap = h.cap
               /\ \A k \in 1 .. r.size :
                     r.cell[k] = IF k =< idx THEN h.cell[k]
                                 ELSE h.cell[k + n]
<1> DEFINE cell == MemMove(h.cell, idx, idx + n, h.size - (idx + n))
           r == Delete(h, idx, n)
<1>1. /\ h \in Block /\ h.size \in 0 .. SizeMax /\ h.cap \in 0 .. SizeMax
      /\ h.cell \in Seq(Cell) /\ h.size =< h.cap /\ Len(h.cell) = h.cap
      /\ \A k \in 1 .. h.size : h.cell[k] \in Elem
  BY DEF Good, Block
<1>2. r = [h EXCEPT !.size = h.size - n, !.cell = cell]
  BY DEF Delete
<1>3. /\ cell \in Seq(Cell) /\ Len(cell) = h.cap
      /\ \A k \in 1 .. Len(h.cell) :
            cell[k] = IF k > idx /\ k =< idx + (h.size - (idx + n))
                      THEN h.cell[(k - idx) + (idx + n)] ELSE h.cell[k]
  <2> DEFINE m == h.size - (idx + n)
  <2>1. /\ idx + n \in Nat /\ h.size - (idx + n) \in Nat
        /\ idx + (h.size - (idx + n)) =< Len(h.cell)
        /\ (idx + n) + (h.size - (idx + n)) =< Len(h.cell)
    BY <1>1
  <2>2. /\ m \in Nat /\ idx + m =< Len(h.cell) /\ (idx + n) + m =< Len(h.cell)
        /\ cell = MemMove(h.cell, idx, idx + n, m)
    BY <2>1
  <2> HIDE DEF m, cell
  <2>3. /\ cell \in Seq(Cell) /\ Len(cell) = Len(h.cell)
        /\ \A k \in 1 .. Len(h.cell) :
              cell[k] = IF k > idx /\ k =< idx + m
                        THEN h.cell[(k - idx) + (idx + n)] ELSE h.cell[k]
    BY <1>1, <2>1, <2>2, MemMoveResult
  <2> QED
    BY <1>1, <2>3 DEF m
<1> HIDE DEF cell, r
<1>4. h.size - n \in 0 .. SizeMax /\ h.size - n =< h.cap
  BY <1>1, WidthAssumption
<1>5. /\ r \in Block /\ r.size = h.size - n /\ r.cap = h.cap /\ r.cell = cell
  BY <1>1, <1>2, <1>3, <1>4 DEF Block
<1>6. ASSUME NEW k \in 1 .. h.size - n
      PROVE  cell[k] = IF k =< idx THEN h.cell[k] ELSE h.cell[k + n]
  <2>1. k \in 1 .. Len(h.cell)
    BY <1>1
  <2>2. k > idx => (k - idx) + (idx + n) = k + n
                   /\ k =< idx + (h.size - (idx + n))
    BY <1>1
  <2> QED
    BY <1>3, <2>1, <2>2
<1>7. \A k \in 1 .. h.size - n : cell[k] \in Elem
  BY <1>1, <1>6
<1> QED
  BY <1>3, <1>4, <1>5, <1>6, <1>7 DEF Good, r

\* What an own element is when the initialiser reads it, after the growth.
LEMMA OwnElement ==
    ASSUME NEW h, GoodHandle(h), ~PushFails(h), NEW i \in 0 .. hda_size(h) - 1
    PROVE  /\ At(Grow(h, 1).cell, i + 1) = h.cell[i + 1]
           /\ h.cell[i + 1] \in Elem
<1> DEFINE g == Grow(h, 1)
<1>1. /\ g.size = hda_size(h) + 1 /\ g.size =< g.cap /\ Len(g.cell) = g.cap
      /\ g \in Block
      /\ \A k \in 1 .. hda_size(h) : g.cell[k] = h.cell[k]
  BY OneIsACount, GrowResult DEF PushFails
<1>2. hda_size(h) \in Nat /\ \A k \in 1 .. hda_size(h) : h.cell[k] \in Elem
  BY SizeFacts DEF GoodHandle, Good, hda_size
<1> HIDE DEF g
<1>3. i + 1 \in 1 .. hda_size(h) /\ g.cap \in Nat /\ g.cell \in Seq(Cell)
  BY <1>1, <1>2 DEF Block
<1>4. i + 1 \in DOMAIN g.cell
  <2> DEFINE z == hda_size(h)
  <2>1. z \in Nat /\ z + 1 =< g.cap /\ i + 1 \in 1 .. z
    BY <1>1, <1>2, <1>3
  <2> HIDE DEF z
  <2>2. i + 1 \in 1 .. g.cap
    BY <1>3, <2>1
  <2> QED
    BY <1>1, <1>3, <2>2
<1> QED
  BY <1>1, <1>2, <1>3, <1>4 DEF At, g

\* A run of own elements, copied before anything moves.
LEMMA OwnRun ==
    ASSUME NEW h, Good(h), NEW src \in 0 .. h.size, NEW n \in 0 .. h.size - src
    PROVE  LET els == OwnElements(h, src, n)
           IN  /\ els \in Seq(Elem)
               /\ Len(els) = n
               /\ \A k \in 1 .. n : els[k] = h.cell[src + k]
<1> DEFINE els == OwnElements(h, src, n)
<1>1. /\ h.cell \in Seq(Cell) /\ h.size \in Nat /\ h.size =< Len(h.cell)
      /\ \A k \in 1 .. h.size : h.cell[k] \in Elem
  BY DEF Good, Block
<1>2. \A k \in 1 .. n : src + k \in 1 .. h.size
  BY <1>1
<1>3. \A k \in src + 1 .. src + n : h.cell[k] \in Elem
  BY <1>1
<1>4. /\ els \in Seq(Elem)
      /\ Len(els) = IF src + 1 =< src + n THEN (src + n) - (src + 1) + 1 ELSE 0
      /\ \A k \in 1 .. (src + n) - (src + 1) + 1 :
            els[k] = h.cell[(src + 1) + k - 1]
  <2>1. src + 1 \in Int /\ src + n \in Int
    BY <1>1
  <2> QED
    BY <1>3, <2>1, SubSeqProperties DEF OwnElements
<1> HIDE DEF els
<1>5. /\ (src + n) - (src + 1) + 1 = n
      /\ n = IF src + 1 =< src + n THEN (src + n) - (src + 1) + 1 ELSE 0
      /\ \A k \in 1 .. n : (src + 1) + k - 1 = src + k
  BY <1>1
<1> QED
  BY <1>4, <1>5 DEF els

-----------------------------------------------------------------------------
(* The contents of an array as a sequence *)

\* The elements of an array are a sequence of its size, all of them written.
LEMMA ContentsOf ==
    ASSUME NEW h, GoodHandle(h)
    PROVE  /\ Contents(h) \in Seq(Elem)
           /\ Len(Contents(h)) = hda_size(h)
           /\ \A k \in 1 .. hda_size(h) :
                 /\ Contents(h)[k] = h.cell[k]
                 /\ Contents(h)[k] \in Elem
<1>1. CASE h = NULL
  BY <1>1 DEF Contents, hda_size
<1>2. CASE h # NULL
  <2>1. /\ h.cell \in Seq(Cell) /\ h.size \in Nat /\ h.size =< Len(h.cell)
        /\ \A k \in 1 .. h.size : h.cell[k] \in Elem
    BY <1>2 DEF GoodHandle, Good, Block
  <2>2. Contents(h) = [k \in 1 .. h.size |-> h.cell[k]]
    <3>1. Contents(h) = [k \in 1 .. h.size - 1 + 1 |-> h.cell[k + 1 - 1]]
      BY <1>2, <2>1 DEF Contents
    <3> QED
      BY <2>1, <3>1
  <2>3. hda_size(h) = h.size
    BY <1>2 DEF hda_size
  <2> QED
    BY <2>1, <2>2, <2>3
<1> QED
  BY <1>1, <1>2

\* Two sequences with the same elements are the same.
LEMMA SameElements ==
    ASSUME NEW S, NEW s \in Seq(S), NEW t \in Seq(S),
           Len(s) = Len(t),
           \A k \in 1 .. Len(s) : s[k] = t[k]
    PROVE  s = t
BY SeqEqual

InsertAt(s, idx, els) ==
    SubSeq(s, 1, idx) \o els \o SubSeq(s, idx + 1, Len(s))

\* Where the members of a sequence are after an insertion.
LEMMA InsertAtPlaces ==
    ASSUME NEW S, NEW s \in Seq(S), NEW els \in Seq(S),
           NEW idx \in 0 .. Len(s)
    PROVE  LET t == InsertAt(s, idx, els)
           IN  /\ t \in Seq(S)
               /\ Len(t) = Len(s) + Len(els)
               /\ \A k \in 1 .. Len(t) :
                     t[k] = IF k =< idx THEN s[k]
                            ELSE IF k =< idx + Len(els) THEN els[k - idx]
                            ELSE s[k - Len(els)]
<1> DEFINE front == SubSeq(s, 1, idx)
           back == SubSeq(s, idx + 1, Len(s))
<1>1. /\ front \in Seq(S) /\ Len(front) = idx
      /\ \A k \in 1 .. idx : front[k] = s[k]
  BY SubSeqProperties
<1>2. /\ back \in Seq(S) /\ Len(back) = Len(s) - idx
      /\ \A k \in 1 .. Len(s) - idx : back[k] = s[idx + k]
  BY SubSeqProperties
<1> HIDE DEF front, back
<1>3. InsertAt(s, idx, els) = (front \o els) \o back
  BY DEF InsertAt, front, back
<1>4. /\ front \o els \in Seq(S) /\ Len(front \o els) = idx + Len(els)
      /\ \A k \in 1 .. idx + Len(els) :
            (front \o els)[k] = IF k =< idx THEN front[k] ELSE els[k - idx]
  BY <1>1
<1> DEFINE fe == front \o els
<1> HIDE DEF fe
<1>5. /\ fe \in Seq(S) /\ Len(fe) = idx + Len(els)
      /\ \A k \in 1 .. idx + Len(els) :
            fe[k] = IF k =< idx THEN front[k] ELSE els[k - idx]
  BY <1>4 DEF fe
<1>6. /\ fe \o back \in Seq(S)
      /\ Len(fe \o back) = Len(s) + Len(els)
      /\ \A k \in 1 .. Len(s) + Len(els) :
            (fe \o back)[k] = IF k =< idx + Len(els) THEN fe[k]
                              ELSE back[k - (idx + Len(els))]
  <2>1. Len(fe) + Len(back) = Len(s) + Len(els)
    BY <1>2, <1>5
  <2>2. fe \in Seq(S) /\ back \in Seq(S)
    BY <1>2, <1>5
  <2>3. /\ fe \o back \in Seq(S)
        /\ Len(fe \o back) = Len(fe) + Len(back)
        /\ \A k \in 1 .. Len(fe) + Len(back) :
              (fe \o back)[k] = IF k =< Len(fe) THEN fe[k]
                                ELSE back[k - Len(fe)]
    BY <2>2, ConcatProperties
  <2> QED
    BY <1>5, <2>1, <2>3
<1> DEFINE t == fe \o back
<1> HIDE DEF t
<1>7. ASSUME NEW k \in 1 .. Len(s) + Len(els)
      PROVE  t[k] = IF k =< idx THEN s[k]
                    ELSE IF k =< idx + Len(els) THEN els[k - idx]
                    ELSE s[k - Len(els)]
  <2>1. CASE k =< idx + Len(els)
    BY <1>1, <1>5, <1>6, <2>1 DEF t
  <2>2. CASE k > idx + Len(els)
    <3>1. /\ k - (idx + Len(els)) \in 1 .. Len(s) - idx
          /\ idx + (k - (idx + Len(els))) = k - Len(els)
          /\ ~(k =< idx) /\ ~(k =< idx + Len(els))
      BY <2>2
    <3>2. t[k] = back[k - (idx + Len(els))]
      BY <1>6, <3>1 DEF t
    <3>3. back[k - (idx + Len(els))] = s[k - Len(els)]
      BY <1>2, <3>1
    <3> QED
      BY <3>1, <3>2, <3>3
  <2> QED
    BY <2>1, <2>2
<1> QED
  BY <1>3, <1>6, <1>7 DEF t, fe

\* The same for the elements of an array.
LEMMA InsertAtElements ==
    ASSUME NEW s \in Seq(Elem), NEW els \in Seq(Elem), NEW idx \in 0 .. Len(s)
    PROVE  LET t == InsertAt(s, idx, els)
           IN  /\ t \in Seq(Elem)
               /\ Len(t) = Len(s) + Len(els)
               /\ \A k \in 1 .. Len(t) :
                     t[k] = IF k =< idx THEN s[k]
                            ELSE IF k =< idx + Len(els) THEN els[k - idx]
                            ELSE s[k - Len(els)]
BY ONLY InsertAtPlaces

\* A block in place of a handle: its contents are its cells below size.
LEMMA BlockContents ==
    ASSUME NEW h, Good(h)
    PROVE  /\ Contents(h) \in Seq(Elem)
           /\ Len(Contents(h)) = h.size
           /\ h.size \in Nat
           /\ \A k \in 1 .. h.size : Contents(h)[k] = h.cell[k]
<1>1. h # NULL /\ hda_size(h) = h.size /\ h.size \in Nat
  BY NullAssumption DEF Good, Block, hda_size
<1> QED
  BY <1>1, ContentsOf DEF GoodHandle

\* hda_push appends its value (hda.h:27-39).
LEMMA PushContents ==
    ASSUME NEW h, GoodHandle(h), ~PushFails(h), NEW v \in Elem
    PROVE  Contents(StoreLast(Grow(h, 1), v)) = Append(Contents(h), v)
<1> DEFINE r == StoreLast(Grow(h, 1), v)
           s == Contents(h)
           t == Contents(r)
           n == hda_size(h)
<1>1. /\ Good(r) /\ r.size = n + 1 /\ r.cell[n + 1] = v
      /\ \A k \in 1 .. n : r.cell[k] = h.cell[k]
  BY PushResult
<1>2. /\ s \in Seq(Elem) /\ Len(s) = n /\ n \in Nat
      /\ \A k \in 1 .. n : s[k] = h.cell[k]
  BY ContentsOf, SizeFacts
<1> HIDE DEF r, s, n
<1>3. /\ t \in Seq(Elem) /\ Len(t) = n + 1
      /\ \A k \in 1 .. n + 1 : t[k] = r.cell[k]
  BY <1>1, BlockContents
<1> HIDE DEF t
<1>4. /\ Append(s, v) \in Seq(Elem) /\ Len(Append(s, v)) = n + 1
      /\ \A k \in 1 .. n : Append(s, v)[k] = s[k]
      /\ Append(s, v)[n + 1] = v
  BY <1>2, AppendProperties
<1>5. ASSUME NEW k \in 1 .. n + 1 PROVE t[k] = Append(s, v)[k]
  <2>1. CASE k = n + 1
    BY <1>1, <1>2, <1>3, <1>4, <2>1
  <2>2. CASE k \in 1 .. n
    BY <1>1, <1>2, <1>3, <1>4, <2>2
  <2> QED
    BY <1>2, <2>1, <2>2
<1>6. t = Append(s, v)
  BY <1>2, <1>3, <1>4, <1>5, SameElements
<1> QED
  BY <1>6 DEF r, s, t

\* hda_insert puts its elements at the index and shifts the rest, also when the
\* block moves (hda.h:127-153).
LEMMA InsertContents ==
    ASSUME NEW h, GoodHandle(h), NEW n \in Nat, ~InsertFails(h, n),
           NEW idx \in 0 .. hda_size(h),
           NEW els \in Seq(Elem), Len(els) = n
    PROVE  Contents(Insert(h, idx, n, els)) = InsertAt(Contents(h), idx, els)
<1> DEFINE r == Insert(h, idx, n, els)
           s == Contents(h)
           t == Contents(r)
           u == InsertAt(s, idx, els)
           z == hda_size(h)
<1>1. /\ s \in Seq(Elem) /\ Len(s) = z /\ z \in Nat
      /\ \A k \in 1 .. z : s[k] = h.cell[k]
  BY ContentsOf, SizeFacts
<1>2. /\ u \in Seq(Elem) /\ Len(u) = z + n
      /\ \A k \in 1 .. Len(u) :
            u[k] = IF k =< idx THEN s[k]
                   ELSE IF k =< idx + n THEN els[k - idx] ELSE s[k - n]
  <2>1. idx \in 0 .. Len(s)
    BY <1>1
  <2> HIDE DEF s
  <2>2. /\ u \in Seq(Elem) /\ Len(u) = Len(s) + Len(els)
        /\ \A k \in 1 .. Len(u) :
              u[k] = IF k =< idx THEN s[k]
                     ELSE IF k =< idx + Len(els) THEN els[k - idx]
                     ELSE s[k - Len(els)]
    BY <1>1, <2>1, InsertAtElements
  <2> QED
    BY <1>1, <2>2
<1>3. CASE n = 0
  <2>1. r = h /\ t = s
    BY <1>3 DEF Insert
  <2> HIDE DEF s, u, z, r
  <2>2. Len(s) = Len(u) /\ \A k \in 1 .. Len(s) : s[k] = u[k]
    BY <1>1, <1>2, <1>3
  <2>3. s = u
    BY <1>1, <1>2, <2>2, SameElements
  <2> QED
    BY <2>1, <2>3 DEF r, s, u
<1>4. CASE n # 0
  <2>1. /\ Good(r) /\ r.size = z + n
        /\ \A k \in 1 .. r.size :
              r.cell[k] = IF k =< idx THEN h.cell[k]
                          ELSE IF k =< idx + n THEN els[k - idx]
                          ELSE h.cell[k - n]
    BY <1>4, InsertResult
  <2> HIDE DEF s, u, z, r
  <2>2. /\ t \in Seq(Elem) /\ Len(t) = z + n
        /\ \A k \in 1 .. z + n : t[k] = r.cell[k]
    BY <2>1, BlockContents
  <2> HIDE DEF t
  <2>3. ASSUME NEW k \in 1 .. z + n PROVE t[k] = u[k]
    <3>1. idx \in 0 .. z
      BY DEF z
    <3>2. CASE k =< idx
      <4>1. k \in 1 .. z
        BY <1>1, <3>1, <3>2
      <4> QED
        BY <1>1, <1>2, <2>1, <2>2, <3>2, <4>1
    <3>3. CASE k > idx /\ k =< idx + n
      <4>1. ~(k =< idx)
        BY <3>1, <3>3
      <4> QED
        BY <1>2, <2>1, <2>2, <3>3, <4>1
    <3>4. CASE k > idx + n
      <4>1. k - n \in 1 .. z /\ ~(k =< idx) /\ ~(k =< idx + n)
        BY <1>1, <3>1, <3>4
      <4> QED
        BY <1>1, <1>2, <2>1, <2>2, <4>1
    <3> QED
      BY <1>1, <3>1, <3>2, <3>3, <3>4
  <2>4. t = u
    BY <1>2, <2>2, <2>3, SameElements
  <2> QED
    BY <2>4 DEF r, s, t, u
<1> QED
  BY <1>3, <1>4

\* hda_delete closes the gap it leaves (hda.h:155-167).
LEMMA DeleteContents ==
    ASSUME NEW h, GoodHandle(h), NEW idx \in 0 .. hda_size(h),
           NEW n \in 0 .. hda_size(h) - idx
    PROVE  LET s == Contents(h)
           IN  Contents(Delete(h, idx, n)) =
                 SubSeq(s, 1, idx) \o SubSeq(s, idx + n + 1, Len(s))
<1> DEFINE r == Delete(h, idx, n)
           s == Contents(h)
           t == Contents(r)
           z == hda_size(h)
           front == SubSeq(s, 1, idx)
           back == SubSeq(s, idx + n + 1, Len(s))
           u == front \o back
<1>1. /\ s \in Seq(Elem) /\ Len(s) = z /\ z \in Nat
      /\ idx \in 0 .. z /\ n \in 0 .. z - idx
      /\ \A k \in 1 .. z : s[k] = h.cell[k]
  BY ContentsOf, SizeFacts
<1>2. /\ Good(h) \/ n = 0
      /\ Good(h) => z = h.size
  BY NullAssumption DEF GoodHandle, Good, hda_size
<1>3. n # 0 => /\ Good(r) /\ r.size = z - n
               /\ \A k \in 1 .. r.size :
                     r.cell[k] = IF k =< idx THEN h.cell[k] ELSE h.cell[k + n]
  <2> SUFFICES ASSUME n # 0
               PROVE  /\ Good(r) /\ r.size = z - n
                      /\ \A k \in 1 .. r.size :
                           r.cell[k] = IF k =< idx THEN h.cell[k]
                                       ELSE h.cell[k + n]
    OBVIOUS
  <2>1. /\ Good(h) /\ z = h.size
    BY <1>2
  <2> HIDE DEF z
  <2>2. /\ idx \in Nat /\ n \in Nat \ {0} /\ idx + n =< h.size
    BY <1>1, <2>1
  <2> QED
    BY <2>1, <2>2, DeleteResult
<1>4. n = 0 => t = s
  BY DEF Delete
<1> HIDE DEF r, s, z
<1>5. /\ front \in Seq(Elem) /\ Len(front) = idx
      /\ \A k \in 1 .. idx : front[k] = s[k]
  <2>1. \A k \in 1 .. idx : s[k] \in Elem
    BY <1>1
  <2> QED
    BY <1>1, <2>1, SubSeqProperties
<1>6. /\ back \in Seq(Elem) /\ Len(back) = z - (idx + n)
      /\ \A k \in 1 .. z - (idx + n) : back[k] = s[idx + n + k]
  <2>1. \A k \in idx + n + 1 .. z : s[k] \in Elem
    BY <1>1
  <2> QED
    BY <1>1, <2>1, SubSeqProperties
<1> HIDE DEF front, back
<1>7. /\ u \in Seq(Elem) /\ Len(u) = z - n
      /\ \A k \in 1 .. z - n :
            u[k] = IF k =< idx THEN s[k] ELSE s[k + n]
  <2>1. /\ u \in Seq(Elem) /\ Len(u) = Len(front) + Len(back)
        /\ \A k \in 1 .. Len(front) + Len(back) :
              u[k] = IF k =< Len(front) THEN front[k] ELSE back[k - Len(front)]
    BY <1>5, <1>6, ConcatProperties
  <2>2. Len(front) + Len(back) = z - n
    BY <1>1, <1>5, <1>6
  <2> HIDE DEF u
  <2>3. ASSUME NEW k \in 1 .. z - n
        PROVE  u[k] = IF k =< idx THEN s[k] ELSE s[k + n]
    <3>1. CASE k =< idx
      <4>1. k \in 1 .. idx
        BY <1>1, <3>1
      <4> QED
        BY <1>5, <2>1, <2>2, <3>1, <4>1
    <3>2. CASE ~(k =< idx)
      <4>1. k - idx \in 1 .. z - (idx + n) /\ idx + n + (k - idx) = k + n
        BY <1>1, <3>2
      <4>2. u[k] = back[k - idx]
        BY <1>5, <2>1, <2>2, <3>2
      <4> QED
        BY <1>6, <3>2, <4>1, <4>2
    <3> QED
      BY <3>1, <3>2
  <2> QED
    BY <2>1, <2>2, <2>3
<1> HIDE DEF t, u
<1>8. CASE n = 0
  <2>1. Len(s) = Len(u) /\ \A k \in 1 .. Len(s) : s[k] = u[k]
    BY <1>1, <1>7, <1>8
  <2>2. s = u
    BY <1>1, <1>7, <2>1, SameElements
  <2> QED
    BY <1>4, <1>8, <2>2 DEF r, s, t, u, front, back
<1>9. CASE n # 0
  <2>1. /\ t \in Seq(Elem) /\ Len(t) = z - n
        /\ \A k \in 1 .. z - n : t[k] = r.cell[k]
    BY <1>3, <1>9, BlockContents DEF t
  <2>2. ASSUME NEW k \in 1 .. z - n PROVE t[k] = u[k]
    <3>1. r.cell[k] = IF k =< idx THEN h.cell[k] ELSE h.cell[k + n]
      BY <1>3, <1>9
    <3>2. k \in 1 .. z /\ k + n \in 1 .. z
      BY <1>1
    <3> QED
      BY <1>1, <1>7, <2>1, <3>1, <3>2
  <2>3. t = u
    BY <1>7, <2>1, <2>2, SameElements
  <2> QED
    BY <2>3 DEF r, s, t, u, front, back
<1> QED
  BY <1>8, <1>9
=============================================================================
