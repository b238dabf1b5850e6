----------------------------- MODULE SplittyProofs -----------------------------
(***************************************************************************)
(* Proofs about the layout tree: a split and a quad divide any rectangle   *)
(* they are given, the leaves of a tree divide that of its root, no leaf   *)
(* misses a change of its rectangle or is told of one that is none, and    *)
(* sp_free frees each node under a root once.                              *)
(***************************************************************************)
EXTENDS Splitty, SequenceTheorems, WellFoundedInduction, TLAPS

-----------------------------------------------------------------------------
(* The arithmetic *)

\* A ratio of at most one takes no more than there is.
LEMMA ScaleBounds ==
    ASSUME NEW avail \in Nat, NEW ratio \in Ratios
    PROVE  Scale(avail, ratio) \in 0 .. avail
<1> DEFINE q == (avail * ratio) \div RatioUnit
<1>0. RatioUnit \in Nat \ {0} BY RatioUnitAssumption
<1>1. ratio \in Int /\ 1 =< ratio /\ ratio =< RatioUnit BY <1>0 DEF Ratios
<1>2. avail * ratio \in Nat /\ avail * ratio =< avail * RatioUnit
  BY <1>0, <1>1
<1> DEFINE n == avail * ratio
<1>3. n \in Nat /\ q \in Int /\ 0 =< q /\ RatioUnit * q =< n
  BY <1>0, <1>2
<1>4. q =< avail
  <2>1. SUFFICES ASSUME q >= avail + 1 PROVE FALSE
    BY <1>3
  <2>2. RatioUnit * q >= RatioUnit * (avail + 1)
    <3> HIDE DEF q
    <3> QED BY <2>1, <1>0, <1>3
  <2>3. RatioUnit * (avail + 1) = avail * RatioUnit + RatioUnit
    BY <1>0
  <2> HIDE DEF q, n
  <2> QED BY <2>2, <2>3, <1>0, <1>2, <1>3 DEF n
<1>5. avail >= 0 OBVIOUS
<1> QED BY <1>3, <1>4, <1>5 DEF Scale

\* A band is the interval from its start on.
Interval(b) == b.at .. b.at + b.size - 1

\* The three bands cut their interval: none is of negative size, together they
\* are the interval, and they are disjoint (splitty.h:132-142, 205-212).
LEMMA BandsCut ==
    ASSUME NEW start \in Int, NEW size \in Nat, NEW ratio \in Ratios,
           NEW gap \in 0 .. size
    PROVE  LET b == Bands(start, size - gap, ratio, gap, gap)
           IN  /\ b.first.size >= 0 /\ b.second.size >= 0 /\ b.gap.size >= 0
               /\ Interval(Band(start, size))
                    = Interval(b.first) \cup Interval(b.second) \cup Interval(b.gap)
               /\ Interval(b.first) \cap Interval(b.second) = {}
               /\ Interval(b.first) \cap Interval(b.gap) = {}
               /\ Interval(b.second) \cap Interval(b.gap) = {}
<1>1. size - gap \in Nat OBVIOUS
<1>2. Scale(size - gap, ratio) \in 0 .. (size - gap) BY <1>1, ScaleBounds
<1> QED BY <1>2 DEF Bands, Band, Interval

\* The cells of a box are the product of its two bands.
LEMMA BoxCells ==
    ASSUME NEW v, NEW h
    PROVE  Cells(Box(v, h)) = Interval(v) \X Interval(h)
BY DEF Box, Cells, Interval

\* A rectangle is the box of its own bands.
LEMMA RectCells ==
    ASSUME NEW area
    PROVE  Cells(area) = Interval(Vertical(area)) \X Interval(Horizontal(area))
BY DEF Cells, Interval, Vertical, Horizontal, Band

\* What the clamped gap leaves is never negative.
LEMMA ClampBounds ==
    ASSUME NEW gap \in Nat, NEW size \in Nat
    PROVE  Clamp(gap, size) \in 0 .. size
BY DEF Clamp

\* A horizontal split divides its rectangle, however wide its gap
\* (splitty.h:200-213).
THEOREM HSplitDivides ==
    ASSUME NEW cfg \in SplitConfigs, NEW area \in Rect,
           area.rows >= 0, area.cols >= 0
    PROVE  Divides(HSplitRects(cfg, area), area)
<1> DEFINE gap == Clamp(cfg.split_gap, area.rows)
           b == Bands(area.y, area.rows - gap, cfg.ratio, gap, gap)
           h == Horizontal(area)
           rs == << Box(b.first, h), Box(b.second, h), Box(b.gap, h) >>
<1>1. cfg.ratio \in Ratios /\ cfg.split_gap \in Nat BY ConfigAssumption
<1>2. area.rows \in Nat /\ area.y \in Int /\ h.size >= 0
  BY DEF Rect, Horizontal, Band
<1>3. gap \in 0 .. area.rows BY <1>1, <1>2, ClampBounds
<1> HIDE DEF gap
<1>4. /\ b.first.size >= 0 /\ b.second.size >= 0 /\ b.gap.size >= 0
      /\ Interval(Vertical(area))
           = Interval(b.first) \cup Interval(b.second) \cup Interval(b.gap)
      /\ Interval(b.first) \cap Interval(b.second) = {}
      /\ Interval(b.first) \cap Interval(b.gap) = {}
      /\ Interval(b.second) \cap Interval(b.gap) = {}
  BY <1>1, <1>2, <1>3, BandsCut DEF Vertical
<1> HIDE DEF b, h
<1>5. DOMAIN rs = {1, 2, 3} OBVIOUS
<1>6. /\ Cells(rs[1]) = Interval(b.first) \X Interval(h)
      /\ Cells(rs[2]) = Interval(b.second) \X Interval(h)
      /\ Cells(rs[3]) = Interval(b.gap) \X Interval(h)
  BY BoxCells
<1>7. Cells(area) = Cells(rs[1]) \cup Cells(rs[2]) \cup Cells(rs[3])
  BY <1>4, <1>6, RectCells DEF h
<1>8. Cells(area) = UNION {Cells(rs[k]) : k \in DOMAIN rs}
  <2> HIDE DEF rs
  <2> QED BY <1>5, <1>7
<1>9. \A k, m \in DOMAIN rs : k # m => Cells(rs[k]) \cap Cells(rs[m]) = {}
  <2> HIDE DEF rs
  <2> QED BY <1>4, <1>5, <1>6
<1>10. \A k \in DOMAIN rs : rs[k].rows >= 0 /\ rs[k].cols >= 0
  BY <1>2, <1>4, <1>5 DEF Box
<1>11. HSplitRects(cfg, area) = rs BY DEF HSplitRects, rs, b, h, gap
<1> HIDE DEF rs
<1> QED BY <1>8, <1>9, <1>10, <1>11 DEF Divides

\* A vertical split divides its rectangle if its gap fits in the columns: the
\* code subtracts the gap it was given, not the clamped one (splitty.h:215-228).
THEOREM VSplitDivides ==
    ASSUME NEW cfg \in SplitConfigs, NEW area \in Rect,
           area.rows >= 0, cfg.split_gap =< area.cols
    PROVE  Divides(VSplitRects(cfg, area), area)
<1> DEFINE gap == cfg.split_gap
           b == Bands(area.x, area.cols - gap, cfg.ratio, gap, gap)
           v == Vertical(area)
           rs == << Box(v, b.first), Box(v, b.second), Box(v, b.gap) >>
<1>1. cfg.ratio \in Ratios /\ cfg.split_gap \in Nat BY ConfigAssumption
<1>2. area.cols \in Nat /\ area.x \in Int /\ v.size >= 0
  BY <1>1 DEF Rect, Vertical, Band
<1>3. gap \in 0 .. area.cols BY <1>1, <1>2
<1>4. Clamp(cfg.split_gap, area.cols) = gap BY <1>1, <1>2 DEF Clamp
<1> HIDE DEF gap
<1>5. /\ b.first.size >= 0 /\ b.second.size >= 0 /\ b.gap.size >= 0
      /\ Interval(Horizontal(area))
           = Interval(b.first) \cup Interval(b.second) \cup Interval(b.gap)
      /\ Interval(b.first) \cap Interval(b.second) = {}
      /\ Interval(b.first) \cap Interval(b.gap) = {}
      /\ Interval(b.second) \cap Interval(b.gap) = {}
  BY <1>1, <1>2, <1>3, BandsCut DEF Horizontal
<1> HIDE DEF b, v
<1>6. DOMAIN rs = {1, 2, 3} OBVIOUS
<1>7. /\ Cells(rs[1]) = Interval(v) \X Interval(b.first)
      /\ Cells(rs[2]) = Interval(v) \X Interval(b.second)
      /\ Cells(rs[3]) = Interval(v) \X Interval(b.gap)
  BY BoxCells
<1>8. Cells(area) = Cells(rs[1]) \cup Cells(rs[2]) \cup Cells(rs[3])
  BY <1>5, <1>7, RectCells DEF v
<1>9. Cells(area) = UNION {Cells(rs[k]) : k \in DOMAIN rs}
  <2> HIDE DEF rs
  <2> QED BY <1>6, <1>8
<1>10. \A k, m \in DOMAIN rs : k # m => Cells(rs[k]) \cap Cells(rs[m]) = {}
  <2> HIDE DEF rs
  <2> QED BY <1>5, <1>6, <1>7
<1>11. \A k \in DOMAIN rs : rs[k].rows >= 0 /\ rs[k].cols >= 0
  BY <1>2, <1>5, <1>6 DEF Box
<1>12. VSplitRects(cfg, area) = rs BY <1>4 DEF VSplitRects, rs, b, v, gap
<1> HIDE DEF rs
<1> QED BY <1>9, <1>10, <1>11, <1>12 DEF Divides

\* A quad divides its rectangle into four panes and five gap pieces, however
\* wide its gap (splitty.h:120-191).
THEOREM QuadDivides ==
    ASSUME NEW cfg \in QuadConfigs, NEW area \in Rect,
           area.rows >= 0, area.cols >= 0
    PROVE  Divides(calc_quad(cfg, area), area)
<1> DEFINE gap == QuadGap(cfg, area)
           v == Bands(area.y, area.rows - gap, cfg.ratio_y, gap, gap)
           h == Bands(area.x, area.cols - gap, cfg.ratio_x, gap, gap)
           rs == << Box(v.first, h.first),  Box(v.first, h.second),
                    Box(v.second, h.first), Box(v.second, h.second),
                    Box(v.gap, h.first),    Box(v.gap, h.second),
                    Box(v.first, h.gap),    Box(v.second, h.gap),
                    Box(v.gap, h.gap) >>
<1>1. cfg.ratio_y \in Ratios /\ cfg.ratio_x \in Ratios /\ cfg.quad_gap \in Nat
  BY ConfigAssumption
<1>2. /\ area.rows \in Nat /\ area.y \in Int
      /\ area.cols \in Nat /\ area.x \in Int
  BY DEF Rect
<1>3. gap \in 0 .. area.rows /\ gap \in 0 .. area.cols
  BY <1>1, <1>2 DEF QuadGap, Clamp
<1> HIDE DEF gap
<1>4. /\ v.first.size >= 0 /\ v.second.size >= 0 /\ v.gap.size >= 0
      /\ Interval(Vertical(area))
           = Interval(v.first) \cup Interval(v.second) \cup Interval(v.gap)
      /\ Interval(v.first) \cap Interval(v.second) = {}
      /\ Interval(v.first) \cap Interval(v.gap) = {}
      /\ Interval(v.second) \cap Interval(v.gap) = {}
  BY <1>1, <1>2, <1>3, BandsCut DEF Vertical
<1>5. /\ h.first.size >= 0 /\ h.second.size >= 0 /\ h.gap.size >= 0
      /\ Interval(Horizontal(area))
           = Interval(h.first) \cup Interval(h.second) \cup Interval(h.gap)
      /\ Interval(h.first) \cap Interval(h.second) = {}
      /\ Interval(h.first) \cap Interval(h.gap) = {}
      /\ Interval(h.second) \cap Interval(h.gap) = {}
  BY <1>1, <1>2, <1>3, BandsCut DEF Horizontal
<1> HIDE DEF v, h
<1>6. DOMAIN rs = {1, 2, 3, 4, 5, 6, 7, 8, 9} OBVIOUS
<1>7. /\ Cells(rs[1]) = Interval(v.first) \X Interval(h.first)
      /\ Cells(rs[2]) = Interval(v.first) \X Interval(h.second)
      /\ Cells(rs[3]) = Interval(v.second) \X Interval(h.first)
      /\ Cells(rs[4]) = Interval(v.second) \X Interval(h.second)
      /\ Cells(rs[5]) = Interval(v.gap) \X Interval(h.first)
      /\ Cells(rs[6]) = Interval(v.gap) \X Interval(h.second)
      /\ Cells(rs[7]) = Interval(v.first) \X Interval(h.gap)
      /\ Cells(rs[8]) = Interval(v.second) \X Interval(h.gap)
      /\ Cells(rs[9]) = Interval(v.gap) \X Interval(h.gap)
  BY BoxCells
<1>8. Cells(area) = UNION {Cells(rs[k]) : k \in DOMAIN rs}
  <2> HIDE DEF rs
  <2>1. Cells(area) = Cells(rs[1]) \cup Cells(rs[2]) \cup Cells(rs[3])
                        \cup Cells(rs[4]) \cup Cells(rs[5]) \cup Cells(rs[6])
                        \cup Cells(rs[7]) \cup Cells(rs[8]) \cup Cells(rs[9])
    BY <1>4, <1>5, <1>7, RectCells
  <2> QED BY <1>6, <2>1
<1>9. \A k, m \in DOMAIN rs : k # m => Cells(rs[k]) \cap Cells(rs[m]) = {}
  <2> HIDE DEF rs
  <2> QED BY <1>4, <1>5, <1>6, <1>7
<1>10. \A k \in DOMAIN rs : rs[k].rows >= 0 /\ rs[k].cols >= 0
  BY <1>4, <1>5, <1>6 DEF Box
<1>11. calc_quad(cfg, area) = rs BY DEF calc_quad, rs, v, h, gap
<1> HIDE DEF rs
<1> QED BY <1>8, <1>9, <1>10, <1>11 DEF Divides

-----------------------------------------------------------------------------
(* Types *)

\* Truncating a product gives an integer for any integer to be shared.
LEMMA ScaleInt ==
    ASSUME NEW avail \in Int, NEW ratio \in Ratios
    PROVE  Scale(avail, ratio) \in Int
<1>1. /\ avail * ratio \in Int /\ -avail * ratio \in Int
      /\ RatioUnit \in Nat \ {0}
  BY RatioUnitAssumption DEF Ratios
<1> QED BY <1>1 DEF Scale

\* The bands of any interval are at integers and of integer sizes.
LEMMA BandsTyped ==
    ASSUME NEW start \in Int, NEW avail \in Int, NEW ratio \in Ratios,
           NEW step \in Int, NEW gap \in Int
    PROVE  Bands(start, avail, ratio, step, gap)
             \in [first : [at : Int, size : Int], second : [at : Int, size : Int],
                  gap : [at : Int, size : Int]]
BY ScaleInt DEF Bands, Band

\* The children of a container get rectangles of integers, possibly negative.
LEMMA ChildRectsTyped ==
    ASSUME TypeOK, NEW n \in Ids, ~(node[n].type = "SP_LEAF"), NEW r \in Rect
    PROVE  \A i \in DOMAIN Children(n) : ChildRects(n, r)[i] \in Rect
<1>1. node[n] \in Nodes BY ElementOfSeq DEF TypeOK, Ids
<1>2. r.y \in Int /\ r.x \in Int /\ r.rows \in Int /\ r.cols \in Int
  BY DEF Rect
<1> DEFINE v == Vertical(r)
           h == Horizontal(r)
           B == [at : Int, size : Int]
<1>3. v \in B /\ h \in B BY <1>2 DEF Vertical, Horizontal, Band
<1>4. \A a, b \in B : Box(a, b) \in Rect BY DEF Box, Rect
<1>5. CASE node[n].type = "SP_SPLIT"
  <2>1. /\ node[n].cfg \in SplitConfigs /\ DOMAIN Children(n) = 1 .. 3
        /\ ChildRects(n, r) = calc_split(node[n].cfg, r)
    BY <1>1, <1>5 DEF Nodes, Leaf, ChildRects, Children
  <2>2. PICK cfg \in SplitConfigs : cfg = node[n].cfg BY <2>1
  <2>3. cfg.ratio \in Ratios /\ cfg.split_gap \in Int BY ConfigAssumption
  <2>4. /\ Clamp(cfg.split_gap, r.rows) \in Int
        /\ Clamp(cfg.split_gap, r.cols) \in Int
    BY <1>2, <2>3 DEF Clamp
  <2>5. \A i \in 1 .. 3 : HSplitRects(cfg, r)[i] \in Rect
    <3> DEFINE gap == Clamp(cfg.split_gap, r.rows)
               b == Bands(r.y, r.rows - gap, cfg.ratio, gap, gap)
    <3>1. b.first \in B /\ b.second \in B /\ b.gap \in B
      BY <1>2, <2>3, <2>4, BandsTyped
    <3>2. HSplitRects(cfg, r) = << Box(b.first, h), Box(b.second, h), Box(b.gap, h) >>
      BY DEF HSplitRects
    <3> HIDE DEF b, h, B
    <3> QED BY <1>3, <1>4, <3>1, <3>2
  <2>6. \A i \in 1 .. 3 : VSplitRects(cfg, r)[i] \in Rect
    <3> DEFINE gap == Clamp(cfg.split_gap, r.cols)
               b == Bands(r.x, r.cols - cfg.split_gap, cfg.ratio,
                          cfg.split_gap, gap)
    <3>1. b.first \in B /\ b.second \in B /\ b.gap \in B
      BY <1>2, <2>3, <2>4, BandsTyped
    <3>2. VSplitRects(cfg, r) = << Box(v, b.first), Box(v, b.second), Box(v, b.gap) >>
      BY DEF VSplitRects
    <3> HIDE DEF b, v, B
    <3> QED BY <1>3, <1>4, <3>1, <3>2
  <2> QED BY <2>1, <2>2, <2>5, <2>6 DEF calc_split
<1>6. CASE node[n].type = "SP_QUAD"
  <2>1. /\ node[n].cfg \in QuadConfigs /\ DOMAIN Children(n) = 1 .. 9
        /\ ChildRects(n, r) = calc_quad(node[n].cfg, r)
    BY <1>1, <1>6 DEF Nodes, Leaf, ChildRects, Children
  <2>2. PICK cfg \in QuadConfigs : cfg = node[n].cfg BY <2>1
  <2>3. cfg.ratio_y \in Ratios /\ cfg.ratio_x \in Ratios /\ cfg.quad_gap \in Int
    BY ConfigAssumption
  <2>4. QuadGap(cfg, r) \in Int BY <1>2, <2>3 DEF QuadGap, Clamp
  <2> DEFINE gap == QuadGap(cfg, r)
             c == Bands(r.y, r.rows - gap, cfg.ratio_y, gap, gap)
             d == Bands(r.x, r.cols - gap, cfg.ratio_x, gap, gap)
  <2>5. /\ c.first \in B /\ c.second \in B /\ c.gap \in B
        /\ d.first \in B /\ d.second \in B /\ d.gap \in B
    BY <1>2, <2>3, <2>4, BandsTyped
  <2>6. calc_quad(cfg, r) = << Box(c.first, d.first),  Box(c.first, d.second),
           Box(c.second, d.first), Box(c.second, d.second),
           Box(c.gap, d.first),    Box(c.gap, d.second),
           Box(c.first, d.gap),    Box(c.second, d.gap),
           Box(c.gap, d.gap) >>
    BY DEF calc_quad
  <2> HIDE DEF c, d, B
  <2>7. \A i \in 1 .. 9 : calc_quad(cfg, r)[i] \in Rect
    BY <1>4, <2>5, <2>6
  <2> QED BY <2>1, <2>2, <2>7
<1> QED BY <1>1, <1>5, <1>6 DEF Nodes, Leaf

\* A new node keeps the types: its children are older than itself.
LEMMA CreateTyped ==
    ASSUME TypeOK, NEW new \in Nodes, NEW args \in 0 .. Len(roots),
           \A i \in DOMAIN new.children :
              new.children[i] \in (1 .. Len(node)) \cup NoChild,
           Create(new, args)
    PROVE  TypeOK'
<1> DEFINE m == Len(node) + 1
<1>1. /\ node \in Seq(Nodes) /\ rect \in Seq(Rect) /\ Len(rect) = Len(node)
      /\ seen \in Seq(Rect \cup {NULL}) /\ Len(seen) = Len(node)
      /\ roots \in Seq(Ids) /\ Len(node) < MaxNodes /\ MaxNodes \in Nat
      /\ Len(node) \in Nat /\ Len(roots) \in Nat
  BY ConfigAssumption, LenProperties DEF TypeOK, Create
<1>2. /\ node' = Append(node, new) /\ rect' = Append(rect, ZeroRect)
      /\ seen' = Append(seen, NULL)
      /\ roots' = Append(SubSeq(roots, 1, Len(roots) - args), m)
      /\ todo' = << >> /\ call' = NULL
      /\ inited' = inited /\ shown' = shown /\ freed' = freed
  BY DEF Create, Idle
<1>3. ZeroRect \in Rect BY DEF ZeroRect, Rect
<1>4. /\ node' \in Seq(Nodes) /\ Len(node') = m
      /\ \A n \in 1 .. Len(node) : node'[n] = node[n]
      /\ node'[m] = new
  BY <1>1, <1>2, AppendProperties
<1>5. /\ rect' \in Seq(Rect) /\ Len(rect') = m
      /\ seen' \in Seq(Rect \cup {NULL}) /\ Len(seen') = m
  BY <1>1, <1>2, <1>3, AppendProperties
<1>6. Ids = 1 .. Len(node) /\ Ids' = 1 .. m
  BY <1>1, <1>4, LenProperties DEF Ids
<1>7. roots' \in Seq(Ids')
  <2>1. \A i \in 1 .. Len(roots) - args : roots[i] \in Ids'
    <3>1. \A i \in 1 .. Len(roots) : roots[i] \in Ids
      BY <1>1, ElementOfSeq
    <3> QED BY <1>1, <1>6, <3>1
  <2>2. SubSeq(roots, 1, Len(roots) - args) \in Seq(Ids')
    BY <1>1, <2>1, SubSeqProperties
  <2> QED BY <1>1, <1>2, <1>6, <2>2, AppendProperties
<1>8. \A n \in Ids' : \A i \in DOMAIN Children(n)' :
         Children(n)'[i] \in (1 .. n - 1) \cup NoChild
  <2>1. TAKE n \in Ids'
  <2>2. CASE n \in Ids
    <3>1. Children(n)' = Children(n) BY <1>4, <1>6, <2>2 DEF Children
    <3> QED BY <2>2, <3>1 DEF TypeOK
  <2>3. CASE n = m
    <3>1. Children(n)' = new.children BY <1>4, <2>3 DEF Children
    <3> QED BY <1>1, <2>3, <3>1
  <2> QED BY <1>1, <1>6, <2>2, <2>3
<1>9. todo' \in Seq(Frames(Ids \cup NoChild)') BY <1>2, EmptySeq
<1>10. /\ inited' \in SUBSET Ids' /\ shown' \in SUBSET Ids' /\ freed' \in SUBSET Ids'
  BY <1>1, <1>2, <1>6 DEF TypeOK
<1>11. Len(node') =< MaxNodes BY <1>1, <1>4
<1> QED BY <1>2, <1>4, <1>5, <1>7, <1>8, <1>9, <1>10, <1>11 DEF TypeOK

\* The youngest roots are allocated nodes.
LEMMA YoungestRoots ==
    ASSUME TypeOK, NEW k \in 1 .. Len(roots)
    PROVE  /\ Youngest(k) \in Seq(1 .. Len(node)) /\ Len(Youngest(k)) = k
           /\ Youngest(k) \in [1 .. k -> 1 .. Len(node)]
<1>1. roots \in Seq(Ids) /\ Len(roots) \in Nat /\ Ids = 1 .. Len(node)
  BY LenProperties DEF TypeOK, Ids
<1>2. \A i \in Len(roots) - k + 1 .. Len(roots) : roots[i] \in Ids
  BY <1>1, ElementOfSeq
<1>3. /\ Youngest(k) \in Seq(Ids) /\ Len(Youngest(k)) = k
  BY <1>1, <1>2, SubSeqProperties DEF Youngest
<1> QED BY <1>1, <1>3, LenProperties

\* sp_new_leaf keeps the types.
LEMMA LeafTyped == TypeOK /\ sp_new_leaf => TypeOK'
<1> SUFFICES ASSUME TypeOK, sp_new_leaf PROVE TypeOK' OBVIOUS
<1>1. Leaf \in Nodes /\ DOMAIN Leaf.children = {} BY DEF Leaf, Nodes
<1>2. 0 \in 0 .. Len(roots) BY LenProperties DEF TypeOK
<1> QED BY <1>1, <1>2, CreateTyped DEF sp_new_leaf

\* sp_new_split keeps the types, with and without a gap child.
LEMMA SplitTyped ==
    ASSUME TypeOK, NEW cfg \in SplitConfigs, sp_new_split(cfg)
    PROVE  TypeOK'
<1>1. Len(roots) \in Nat /\ Len(node) \in Nat BY LenProperties DEF TypeOK
<1>2. CASE Len(roots) >= 3 /\ Create(Split(cfg, Youngest(3)), 3)
  <2>1. 3 \in 1 .. Len(roots) /\ 3 \in 0 .. Len(roots) BY <1>1, <1>2
  <2> DEFINE new == Split(cfg, Youngest(3))
  <2>2. Youngest(3) \in [1 .. 3 -> 1 .. Len(node)] BY <2>1, YoungestRoots
  <2>3. new \in Nodes BY <1>1, <2>2 DEF Split, Nodes
  <2>4. \A i \in DOMAIN new.children :
           new.children[i] \in (1 .. Len(node)) \cup NoChild
    BY <2>2 DEF Split
  <2>5. Create(new, 3) BY <1>2
  <2> HIDE DEF new
  <2> QED BY <2>1, <2>3, <2>4, <2>5, CreateTyped
<1>3. CASE NullGaps /\ Len(roots) >= 2
             /\ Create(Split(cfg, Append(Youngest(2), NULL)), 2)
  <2>1. 2 \in 1 .. Len(roots) /\ 2 \in 0 .. Len(roots) BY <1>1, <1>3
  <2> DEFINE T == (1 .. Len(node)) \cup NoChild
             y == Youngest(2)
             new == Split(cfg, Append(y, NULL))
  <2>2. y \in Seq(1 .. Len(node)) /\ Len(y) = 2 BY <2>1, YoungestRoots
  <2>3. 1 .. Len(node) \subseteq T OBVIOUS
  <2>4. NULL \in T BY <1>3 DEF NoChild
  <2> HIDE DEF y, T
  <2>5. y \in Seq(T) /\ Len(y) = 2 BY <2>2, <2>3, SeqMonotonic
  <2>6. Append(y, NULL) \in Seq(T) /\ Len(Append(y, NULL)) = Len(y) + 1
    BY <2>4, <2>5, AppendProperties, Zenon
  <2>7. Append(y, NULL) \in [1 .. 3 -> T]
    <3>1. Len(Append(y, NULL)) = 3 BY <2>5, <2>6
    <3> DEFINE a == Append(y, NULL)
    <3>2. a \in Seq(T) /\ Len(a) = 3 BY <2>6, <3>1
    <3> HIDE DEF a
    <3>3. a \in [1 .. 3 -> T] BY <3>2, LenProperties
    <3> QED BY <3>3 DEF a
  <2>8. new \in Nodes BY <1>1, <2>7 DEF Split, Nodes, T
  <2>9. \A i \in DOMAIN new.children : new.children[i] \in T
    BY <2>7 DEF Split
  <2>10. Create(new, 2) BY <1>3 DEF y
  <2> HIDE DEF new
  <2> QED BY <2>1, <2>8, <2>9, <2>10, CreateTyped DEF T
<1> QED BY <1>2, <1>3 DEF sp_new_split

\* sp_new_quad keeps the types.
LEMMA QuadTyped ==
    ASSUME TypeOK, NEW cfg \in QuadConfigs, sp_new_quad(cfg)
    PROVE  TypeOK'
<1>1. Len(roots) \in Nat /\ Len(node) \in Nat BY LenProperties DEF TypeOK
<1>2. 9 \in 1 .. Len(roots) /\ 9 \in 0 .. Len(roots) BY <1>1 DEF sp_new_quad
<1> DEFINE new == Quad(cfg, Youngest(9))
<1>3. Youngest(9) \in [1 .. 9 -> 1 .. Len(node)] BY <1>2, YoungestRoots
<1>4. new \in Nodes BY <1>1, <1>3 DEF Quad, Nodes
<1>5. \A i \in DOMAIN new.children :
         new.children[i] \in (1 .. Len(node)) \cup NoChild
  BY <1>3 DEF Quad
<1>6. Create(new, 9) BY DEF sp_new_quad
<1> HIDE DEF new
<1> QED BY <1>2, <1>4, <1>5, <1>6, CreateTyped

\* Only sp_new_leaf, sp_new_split and sp_new_quad change the tree; the other
\* steps keep the types if they keep those of what they change.
LEMMA SameTree ==
    ASSUME TypeOK, UNCHANGED node,
           rect' \in Seq(Rect), Len(rect') = Len(rect),
           seen' \in Seq(Rect \cup {NULL}), Len(seen') = Len(seen),
           roots' \in Seq(Ids), inited' \in SUBSET Ids, shown' \in SUBSET Ids,
           freed' \in SUBSET Ids, todo' \in Seq(Frames(Ids \cup NoChild)),
           call' # NULL =>
               /\ call' \in Callbacks
               /\ call'.leaf \in Ids /\ node[call'.leaf].type = "SP_LEAF"
               /\ call'.fn = "resize" <=> call'.flags # {}
    PROVE  TypeOK'
<1>1. Ids' = Ids BY DEF Ids
<1>2. \A n \in Ids : Children(n)' = Children(n) BY DEF Children
<1> QED BY <1>1, <1>2 DEF TypeOK

\* A caller's sp_refresh keeps the types.
LEMMA RefreshTyped ==
    ASSUME TypeOK, NEW i \in DOMAIN roots, NEW r \in ScreenRects,
           sp_refresh(roots[i], r)
    PROVE  TypeOK'
<1>1. roots[i] \in Ids BY LenProperties, ElementOfSeq DEF TypeOK
<1>2. r \in Rect BY ConfigAssumption
<1>3. Refresh(roots[i], r) \in Frames(Ids \cup NoChild)
  BY <1>1, <1>2 DEF Refresh, Frames
<1>4. todo' \in Seq(Frames(Ids \cup NoChild)) BY <1>3 DEF sp_refresh
<1> QED BY <1>1, <1>4, SameTree DEF sp_refresh, TypeOK

\* A caller's sp_free keeps the types: the other roots stay roots.
LEMMA FreeTyped ==
    ASSUME TypeOK, NEW i \in DOMAIN roots, sp_free(i)
    PROVE  TypeOK'
<1>1. roots \in Seq(Ids) /\ Len(roots) \in Nat /\ i \in 1 .. Len(roots)
  BY LenProperties DEF TypeOK
<1>2. \A k \in 1 .. Len(roots) : roots[k] \in Ids BY <1>1, ElementOfSeq
<1>3. Free(roots[i], 1) \in Frames(Ids \cup NoChild)
  BY <1>1, <1>2 DEF Free, Frames
<1>4. todo' \in Seq(Frames(Ids \cup NoChild)) BY <1>3 DEF sp_free
<1>5. roots' \in Seq(Ids)
  <2>1. SubSeq(roots, 1, i - 1) \in Seq(Ids)
    BY <1>1, <1>2, SubSeqProperties
  <2>2. SubSeq(roots, i + 1, Len(roots)) \in Seq(Ids)
    BY <1>1, <1>2, SubSeqProperties
  <2> QED BY <2>1, <2>2, ConcatProperties DEF sp_free
<1> QED BY <1>4, <1>5, SameTree DEF sp_free, TypeOK

\* What the top frame of a running recursion is.
LEMMA TopFrame ==
    ASSUME TypeOK, NEW op, NEW types, At(op, types)
    PROVE  /\ Top \in Frames(Ids \cup NoChild)
           /\ Tail(todo) \in Seq(Frames(Ids \cup NoChild))
           /\ Top.node \in Ids
           /\ op = "sp_refresh" => Top.rect \in Rect
           /\ op = "sp_free" => Top.at \in Nat \ {0}
<1>1. /\ Top \in Frames(Ids \cup NoChild)
      /\ Tail(todo) \in Seq(Frames(Ids \cup NoChild))
  BY HeadTailProperties DEF TypeOK, At, Top
<1>2. Top.node \in Ids \cup NoChild BY <1>1 DEF Frames
<1>3. Top.node \in Ids BY <1>2 DEF At, NoChild
<1>4. op = "sp_refresh" => Top.rect \in Rect BY <1>1 DEF At, Frames
<1>5. op = "sp_free" => Top.at \in Nat \ {0} BY <1>1 DEF At, Frames
<1> QED BY <1>1, <1>3, <1>4, <1>5

\* node->rect = rect.
LEMMA RectSet ==
    ASSUME TypeOK, NEW n \in Ids, NEW r \in Rect
    PROVE  /\ [rect EXCEPT ![n] = r] \in Seq(Rect)
           /\ Len([rect EXCEPT ![n] = r]) = Len(rect)
<1>1. n \in 1 .. Len(rect) BY LenProperties DEF TypeOK, Ids
<1> QED BY <1>1, ExceptSeq DEF TypeOK

\* The recursive calls of sp_refresh have a node and a rectangle each.
LEMMA RefreshContainerTyped == TypeOK /\ RefreshContainer => TypeOK'
<1> SUFFICES ASSUME TypeOK, RefreshContainer PROVE TypeOK' OBVIOUS
<1> DEFINE n == Top.node
           F == Frames(Ids \cup NoChild)
           cs == [i \in DOMAIN Children(n) |->
                     Refresh(Children(n)[i], ChildRects(n, Top.rect)[i])]
<1>1. At("sp_refresh", {"SP_SPLIT", "SP_QUAD"}) BY DEF RefreshContainer
<1>2. n \in Ids /\ Top.rect \in Rect /\ Tail(todo) \in Seq(F) BY <1>1, TopFrame
<1>3. ~(node[n].type = "SP_LEAF") BY <1>1 DEF At
<1>4. \A i \in DOMAIN Children(n) : ChildRects(n, Top.rect)[i] \in Rect
  BY <1>2, <1>3, ChildRectsTyped
<1>5. \A i \in DOMAIN Children(n) : Children(n)[i] \in Ids \cup NoChild
  <2>1. n \in 1 .. Len(node) /\ Ids = 1 .. Len(node) /\ Len(node) \in Nat
    BY <1>2, LenProperties DEF TypeOK, Ids
  <2> QED BY <1>2, <2>1 DEF TypeOK
<1>6. \E k \in Nat : DOMAIN Children(n) = 1 .. k
  <2>1. node[n] \in Nodes BY <1>2, LenProperties, ElementOfSeq DEF TypeOK, Ids
  <2>2. DOMAIN Children(n) = 1 .. 3 \/ DOMAIN Children(n) = 1 .. 9
    BY <2>1, <1>3 DEF Nodes, Leaf, Children
  <2> QED BY <2>2
<1>7. cs \in Seq(F)
  <2>1. \A i \in DOMAIN Children(n) : cs[i] \in F
    BY <1>4, <1>5 DEF Refresh, Frames
  <2>2. PICK k \in Nat : DOMAIN Children(n) = 1 .. k BY <1>6
  <2>3. cs \in [1 .. k -> F] BY <2>1, <2>2
  <2> HIDE DEF cs, F
  <2> QED BY <2>3, SeqDef
<1>8. todo' \in Seq(F)
  <2>1. todo' = cs \o Tail(todo) BY DEF RefreshContainer
  <2> HIDE DEF cs, F
  <2> QED BY <1>2, <1>7, <2>1, ConcatProperties
<1>9. rect' = [rect EXCEPT ![n] = Top.rect] BY DEF RefreshContainer
<1>10. rect' \in Seq(Rect) /\ Len(rect') = Len(rect) BY <1>2, <1>9, RectSet
<1> HIDE DEF n, cs
<1> QED BY <1>8, <1>10, SameTree DEF RefreshContainer, TypeOK

\* The callback of a leaf is a callback, on that leaf.
LEMMA CallbackTyped ==
    ASSUME TypeOK, NEW n \in Ids,
           NEW flags \in SUBSET {"SP_MOVED", "SP_RESIZED"},
           Callback(n, flags) # NULL
    PROVE  /\ Callback(n, flags) \in Callbacks
           /\ Callback(n, flags).leaf = n
           /\ Callback(n, flags).fn \in {"init_data", "resize"}
           /\ Callback(n, flags).fn = "init_data" <=> n \notin inited
           /\ Callback(n, flags).flags
                = IF n \in inited THEN flags ELSE {}
           /\ Callback(n, flags).fn = "resize" <=> Callback(n, flags).flags # {}
<1>1. n \in Nat BY LenProperties DEF TypeOK, Ids
<1> QED BY <1>1 DEF Callback, Callbacks

\* sp_refresh of a leaf runs a callback of that leaf or none.
LEMMA RefreshLeafTyped == TypeOK /\ RefreshLeaf => TypeOK'
<1> SUFFICES ASSUME TypeOK, RefreshLeaf PROVE TypeOK' OBVIOUS
<1> DEFINE n == Top.node
           flags == Flags(rect[n], Top.rect)
<1>1. At("sp_refresh", {"SP_LEAF"}) BY DEF RefreshLeaf
<1>2. /\ n \in Ids /\ Top.rect \in Rect
      /\ Tail(todo) \in Seq(Frames(Ids \cup NoChild))
  BY <1>1, TopFrame
<1>3. node[n].type = "SP_LEAF" BY <1>1 DEF At
<1>4. flags \in SUBSET {"SP_MOVED", "SP_RESIZED"} BY DEF Flags
<1>5. rect' = [rect EXCEPT ![n] = Top.rect] /\ call' = Callback(n, flags)
  BY DEF RefreshLeaf
<1>6. rect' \in Seq(Rect) /\ Len(rect') = Len(rect) BY <1>2, <1>5, RectSet
<1>7. todo' \in Seq(Frames(Ids \cup NoChild)) BY <1>2 DEF RefreshLeaf
<1> HIDE DEF n, flags
<1>8. call' # NULL => /\ call' \in Callbacks
                      /\ call'.leaf \in Ids /\ node[call'.leaf].type = "SP_LEAF"
                      /\ call'.fn = "resize" <=> call'.flags # {}
  <2>1. SUFFICES ASSUME Callback(n, flags) # NULL
                 PROVE  /\ Callback(n, flags) \in Callbacks
                        /\ Callback(n, flags).leaf = n
                        /\ Callback(n, flags).fn = "resize"
                              <=> Callback(n, flags).flags # {}
    BY <1>2, <1>3, <1>5
  <2> QED BY <1>2, <1>4, <2>1, CallbackTyped
<1> QED BY <1>6, <1>7, <1>8, SameTree DEF RefreshLeaf, TypeOK

\* The data of the leaf whose callback runs changes to a rectangle or to NULL.
LEMMA SeenSet ==
    ASSUME TypeOK, call # NULL, NEW x \in Rect \cup {NULL}
    PROVE  /\ [seen EXCEPT ![call.leaf] = x] \in Seq(Rect \cup {NULL})
           /\ Len([seen EXCEPT ![call.leaf] = x]) = Len(seen)
<1>1. call.leaf \in 1 .. Len(seen) BY LenProperties DEF TypeOK, Ids
<1> QED BY <1>1, ExceptSeq DEF TypeOK

\* A leaf's data is made for a rectangle.
LEMMA DataMadeTyped ==
    ASSUME TypeOK, call # NULL, DataMade, inited' \in SUBSET Ids
    PROVE  TypeOK'
<1>1. rect[call.leaf] \in Rect
  BY LenProperties, ElementOfSeq DEF TypeOK, Ids
<1>2. /\ seen' \in Seq(Rect \cup {NULL}) /\ Len(seen') = Len(seen)
  BY <1>1, SeenSet DEF DataMade
<1> QED BY <1>2, SameTree DEF DataMade, TypeOK

\* The return of a callback keeps the types.
LEMMA CallbackReturnsTyped ==
    ASSUME TypeOK, InitSucceeds \/ InitFails \/ ResizeReturns \/ FreeDataReturns
    PROVE  TypeOK'
<1>1. call # NULL /\ call.leaf \in Ids
  BY DEF InitSucceeds, InitFails, ResizeReturns, FreeDataReturns, Running, TypeOK
<1>2. CASE InitSucceeds
  <2>1. inited' \in SUBSET Ids BY <1>1, <1>2 DEF InitSucceeds, TypeOK
  <2> QED BY <1>1, <1>2, <2>1, DataMadeTyped DEF InitSucceeds
<1>3. CASE InitFails
  BY <1>3, SameTree DEF InitFails, AfterFailure, TypeOK
<1>4. CASE ResizeReturns
  <2>1. inited' \in SUBSET Ids BY <1>4 DEF ResizeReturns, TypeOK
  <2> QED BY <1>1, <1>4, <2>1, DataMadeTyped DEF ResizeReturns
<1>5. CASE FreeDataReturns
  <2>1. /\ seen' \in Seq(Rect \cup {NULL}) /\ Len(seen') = Len(seen)
    BY <1>1, <1>5, SeenSet DEF FreeDataReturns
  <2>2. freed' \in SUBSET Ids BY <1>1, <1>5 DEF FreeDataReturns, TypeOK
  <2> QED BY <1>5, <2>1, <2>2, SameTree DEF FreeDataReturns, TypeOK
<1> QED BY <1>2, <1>3, <1>4, <1>5

\* The recursion of sp_free keeps the types: its loop stays within the children.
LEMMA FreeStepTyped ==
    ASSUME TypeOK, FreeLeaf \/ FreeChild \/ FreeContainer
    PROVE  TypeOK'
<1> DEFINE n == Top.node
           F == Frames(Ids \cup NoChild)
<1>1. PICK types : At("sp_free", types)
  BY DEF FreeLeaf, FreeChild, FreeContainer
<1>2. /\ n \in Ids /\ Tail(todo) \in Seq(F) /\ Top.at \in Nat \ {0}
  BY <1>1, TopFrame
<1>3. n \in Nat BY <1>2, LenProperties DEF TypeOK, Ids
<1>4. CASE FreeLeaf
  <2>1. call' \in Callbacks /\ call'.leaf = n /\ call'.flags = {}
        /\ call'.fn = "free_data"
    BY <1>3, <1>4 DEF FreeLeaf, Callbacks
  <2>2. node[n].type = "SP_LEAF" BY <1>4 DEF FreeLeaf, At
  <2>3. todo' \in Seq(F) BY <1>2, <1>4 DEF FreeLeaf
  <2> HIDE DEF n
  <2> QED BY <1>2, <1>4, <2>1, <2>2, <2>3, SameTree DEF FreeLeaf, TypeOK
<1>5. CASE FreeChild
  <2> DEFINE c == Children(n)[Top.at]
  <2>1. node[n] \in Nodes /\ ~(node[n].type = "SP_LEAF")
    <3>1. node[n] \in Nodes BY <1>2, LenProperties, ElementOfSeq DEF TypeOK, Ids
    <3> QED BY <1>5, <3>1 DEF FreeChild, At
  <2>2. DOMAIN Children(n) = 1 .. 3 \/ DOMAIN Children(n) = 1 .. 9
    BY <2>1 DEF Nodes, Leaf, Children
  <2>3. DOMAIN Children(n) = 1 .. Len(Children(n))
    <3>1. \A f \in [1 .. 3 -> Nat \cup NoChild] : Len(f) = 3 OBVIOUS
    <3>2. \A f \in [1 .. 9 -> Nat \cup NoChild] : Len(f) = 9 OBVIOUS
    <3> QED BY <2>1, <3>1, <3>2 DEF Nodes, Leaf, Children
  <2>4. Top.at \in DOMAIN Children(n)
    BY <1>2, <1>5, <2>2, <2>3 DEF FreeChild, LoopEnd
  <2>5. c \in Ids \cup NoChild
    <3>1. n \in 1 .. Len(node) /\ Ids = 1 .. Len(node) /\ Len(node) \in Nat
      BY <1>2, LenProperties DEF TypeOK, Ids
    <3> QED BY <1>2, <2>4, <3>1 DEF TypeOK
  <2>6. Free(c, 1) \in F /\ Free(n, Top.at + 1) \in F
    BY <1>2, <2>5 DEF Free, Frames
  <2>7. todo' = << Free(c, 1), Free(n, Top.at + 1) >> \o Tail(todo)
    BY <1>5 DEF FreeChild
  <2> HIDE DEF c, n, F
  <2>8. todo' \in Seq(F)
    <3>1. << Free(c, 1), Free(n, Top.at + 1) >> \in Seq(F) BY <2>6
    <3> QED BY <1>2, <2>7, <3>1, ConcatProperties
  <2> QED BY <1>5, <2>8, SameTree DEF FreeChild, TypeOK, F
<1>6. CASE FreeContainer
  <2>1. freed' \in SUBSET Ids BY <1>2, <1>6 DEF FreeContainer, TypeOK
  <2>2. todo' \in Seq(F) BY <1>2, <1>6 DEF FreeContainer
  <2> QED BY <1>6, <2>1, <2>2, SameTree DEF FreeContainer, TypeOK
<1> QED BY <1>4, <1>5, <1>6

\* The types of the layout tree, its frames and its callbacks, for every
\* number of nodes, every configuration and every rectangle.
THEOREM TypeCorrect == Spec => []TypeOK
<1>1. Init => TypeOK
  <2> SUFFICES ASSUME Init PROVE TypeOK OBVIOUS
  <2>1. \A S : << >> \in Seq(S) /\ Len(<< >>) = 0 BY EmptySeq
  <2>2. Ids = {} BY DEF Init, Ids
  <2> QED BY <2>1, <2>2, ConfigAssumption DEF Init, TypeOK
<1>2. TypeOK /\ [Next]_vars => TypeOK'
  <2> SUFFICES ASSUME TypeOK, [Next]_vars PROVE TypeOK' OBVIOUS
  <2>1. CASE sp_new_leaf BY <2>1, LeafTyped
  <2>2. CASE \E cfg \in SplitConfigs : sp_new_split(cfg) BY <2>2, SplitTyped
  <2>3. CASE \E cfg \in QuadConfigs : sp_new_quad(cfg) BY <2>3, QuadTyped
  <2>4. CASE \E i \in DOMAIN roots, r \in ScreenRects : sp_refresh(roots[i], r)
    BY <2>4, RefreshTyped
  <2>5. CASE \E i \in DOMAIN roots : sp_free(i) BY <2>5, FreeTyped
  <2>6. CASE RefreshContainer BY <2>6, RefreshContainerTyped
  <2>7. CASE RefreshLeaf BY <2>7, RefreshLeafTyped
  <2>8. CASE InitSucceeds \/ InitFails \/ ResizeReturns \/ FreeDataReturns
    BY <2>8, CallbackReturnsTyped
  <2>9. CASE FreeLeaf \/ FreeChild \/ FreeContainer BY <2>9, FreeStepTyped
  <2>10. CASE UNCHANGED vars
    <3>1. call' = call /\ todo' = todo BY <2>10 DEF vars
    <3> QED BY <2>10, <3>1, SameTree DEF vars, TypeOK
  <2> QED
    BY <2>1, <2>2, <2>3, <2>4, <2>5, <2>6, <2>7, <2>8, <2>9, <2>10
       DEF Next, Return
<1> QED BY <1>1, <1>2, PTL DEF Spec

-----------------------------------------------------------------------------
(* What the leaves know *)

\* A callback that runs was due: the leaf without data is initialised, the one
\* with data resized.
CallbackDue ==
    call # NULL =>
        /\ call.fn = "init_data" =>
              /\ call.leaf \notin inited
              /\ call.leaf \notin freed => seen[call.leaf] = NULL
        /\ call.fn = "resize" => call.leaf \in inited

IInv == TypeOK /\ LeavesInformed /\ CallbackDue

\* What LeavesInformed asks of one leaf.
Informed(n) == seen[n] = IF n \in inited THEN rect[n] ELSE NULL

\* Every step of the caller and every step that runs no callback.
LEMMA QuietStep ==
    ASSUME IInv, TypeOK', Ids \subseteq Ids', inited' = inited, freed \subseteq freed',
           \A n \in Ids : /\ node'[n] = node[n] /\ seen'[n] = seen[n]
                          /\ node[n].type = "SP_LEAF" => rect'[n] = rect[n],
           \A n \in Ids' \ Ids : seen'[n] = NULL,
           call = NULL, call' = NULL
    PROVE  IInv'
<1>1. \A n \in Ids' \ Ids : n \notin inited BY DEF IInv, TypeOK
<1>2. ASSUME NEW n \in Ids' \ freed', node'[n].type = "SP_LEAF"
      PROVE  seen'[n] = IF n \in inited THEN rect'[n] ELSE NULL
  <2>1. CASE n \in Ids
    BY <1>2, <2>1 DEF IInv, LeavesInformed
  <2>2. CASE n \notin Ids BY <1>1, <2>2
  <2> QED BY <2>1, <2>2
<1> QED BY <1>2 DEF IInv, LeavesInformed, CallbackDue

\* A new node has no data, and is not initialised.
LEMMA CreateInformed ==
    ASSUME IInv, TypeOK', NEW new, NEW args, Create(new, args)
    PROVE  IInv'
<1>1. /\ node \in Seq(Nodes) /\ rect \in Seq(Rect) /\ seen \in Seq(Rect \cup {NULL})
      /\ Len(rect) = Len(node) /\ Len(seen) = Len(node)
  BY DEF IInv, TypeOK
<1>2. /\ node' = Append(node, new) /\ rect' = Append(rect, ZeroRect)
      /\ seen' = Append(seen, NULL) /\ call' = NULL /\ call = NULL
      /\ inited' = inited /\ freed' = freed
  BY DEF Create, Idle
<1>3. Ids = 1 .. Len(node) /\ Len(node) \in Nat BY <1>1, LenProperties DEF Ids
<1>4. Ids' = 1 .. Len(node) + 1
  <2>1. Len(node') = Len(node) + 1 BY <1>1, <1>2
  <2>2. node' \in Seq(Nodes) BY DEF TypeOK
  <2> QED BY <2>1, <2>2, LenProperties DEF Ids
<1>5. \A n \in Ids : /\ node'[n] = node[n] /\ seen'[n] = seen[n]
                     /\ rect'[n] = rect[n]
  BY <1>1, <1>2, <1>3
<1>6. seen'[Len(node) + 1] = NULL BY <1>1, <1>2, <1>3
<1>7. \A n \in Ids' \ Ids : seen'[n] = NULL BY <1>3, <1>4, <1>6
<1>8. Ids \subseteq Ids' BY <1>3, <1>4
<1>9. freed \subseteq freed' BY <1>2
<1> QED BY <1>2, <1>5, <1>7, <1>8, <1>9, QuietStep

\* The visit of a container changes the rectangle of no leaf.
LEMMA RefreshContainerInformed == IInv /\ TypeOK' /\ RefreshContainer => IInv'
<1> SUFFICES ASSUME IInv, TypeOK', RefreshContainer PROVE IInv' OBVIOUS
<1>1. Top.node \in Ids /\ ~(node[Top.node].type = "SP_LEAF")
  BY TopFrame DEF IInv, RefreshContainer, At
<1>2. \A n \in Ids : node[n].type = "SP_LEAF" => rect'[n] = rect[n]
  BY <1>1 DEF RefreshContainer
<1>3. call = NULL /\ call' = NULL BY DEF RefreshContainer, At
<1>4. Ids' = Ids BY DEF RefreshContainer, Ids
<1> QED BY <1>2, <1>3, <1>4, QuietStep DEF RefreshContainer

\* The heart of the argument: a leaf that is not called back had its data made
\* for the rectangle it gets again.
LEMMA RefreshLeafInformed == IInv /\ TypeOK' /\ RefreshLeaf => IInv'
<1> SUFFICES ASSUME IInv, TypeOK', RefreshLeaf PROVE IInv' OBVIOUS
<1> DEFINE n == Top.node
           flags == Flags(rect[n], Top.rect)
<1>1. At("sp_refresh", {"SP_LEAF"}) BY DEF RefreshLeaf
<1>2. /\ n \in Ids /\ Top.rect \in Rect /\ TypeOK /\ call = NULL
      /\ node[n].type = "SP_LEAF"
  BY <1>1, TopFrame DEF IInv, At
<1>3. /\ rect' = [rect EXCEPT ![n] = Top.rect] /\ call' = Callback(n, flags)
      /\ node' = node /\ inited' = inited /\ freed' = freed /\ seen' = seen
  BY DEF RefreshLeaf
<1>4. flags \in SUBSET {"SP_MOVED", "SP_RESIZED"} BY DEF Flags
<1>5. n \in 1 .. Len(rect) /\ DOMAIN rect = Ids /\ rect[n] \in Rect
  BY <1>2, LenProperties, ElementOfSeq DEF TypeOK, Ids
<1>6. flags = {} => Top.rect = rect[n]
  BY <1>2, <1>5 DEF Flags, Moved, Resized, Rect
<1>7. Ids' = Ids BY <1>3 DEF Ids
<1>8. n \notin freed => Informed(n)
  BY <1>2 DEF IInv, LeavesInformed, Informed
<1> HIDE DEF n, flags
<1>9. LeavesInformed'
  <2>1. SUFFICES ASSUME NEW m \in Ids \ freed, node[m].type = "SP_LEAF",
                        ~(call' # NULL /\ call'.leaf = m)
                 PROVE  seen[m] = IF m \in inited THEN rect'[m] ELSE NULL
    BY <1>3, <1>7 DEF LeavesInformed
  <2>2. Informed(m) BY <1>2, <2>1 DEF IInv, LeavesInformed, Informed
  <2>3. CASE m # n
    BY <1>3, <1>5, <2>2, <2>3 DEF Informed
  <2>4. CASE m = n
    <3>1. call' = NULL BY <1>2, <1>3, <1>4, <2>1, <2>4, CallbackTyped
    <3>2. n \in inited /\ flags = {}
      <4>1. n \in Nat BY <1>2, LenProperties DEF TypeOK, Ids
      <4>2. [fn |-> "init_data", leaf |-> n, flags |-> {}] \in Callbacks
            /\ [fn |-> "resize", leaf |-> n, flags |-> flags] \in Callbacks
        BY <1>4, <4>1 DEF Callbacks
      <4> QED BY <1>3, <3>1, <4>2, NullAssumption DEF Callback
    <3>3. rect'[n] = rect[n] BY <1>3, <1>5, <1>6, <3>2
    <3> QED BY <2>2, <2>4, <3>3 DEF Informed
  <2> QED BY <2>3, <2>4
<1>10. CallbackDue'
  <2>1. SUFFICES ASSUME Callback(n, flags) # NULL
        PROVE  /\ Callback(n, flags).fn = "init_data" =>
                    /\ Callback(n, flags).leaf \notin inited
                    /\ Callback(n, flags).leaf \notin freed
                          => seen[Callback(n, flags).leaf] = NULL
               /\ Callback(n, flags).fn = "resize" =>
                    Callback(n, flags).leaf \in inited
    BY <1>3 DEF CallbackDue
  <2>2. /\ Callback(n, flags).leaf = n
        /\ Callback(n, flags).fn = "init_data" <=> n \notin inited
    BY <1>2, <1>4, <2>1, CallbackTyped
  <2> QED BY <1>8, <2>2 DEF Informed
<1> QED BY <1>9, <1>10 DEF IInv

\* init_data and resize make the data for the current rectangle.
LEMMA DataMadeInformed ==
    ASSUME IInv, TypeOK', call # NULL, DataMade, call.leaf \in inited',
           inited' = inited \cup {call.leaf}
    PROVE  IInv'
<1>1. /\ seen' = [seen EXCEPT ![call.leaf] = rect[call.leaf]]
      /\ node' = node /\ rect' = rect /\ freed' = freed /\ call' = NULL
  BY DEF DataMade
<1>2. Ids' = Ids /\ DOMAIN seen = Ids
  BY <1>1, LenProperties DEF Ids, IInv, TypeOK
<1>3. LeavesInformed'
  <2>1. SUFFICES ASSUME NEW m \in Ids \ freed, node[m].type = "SP_LEAF"
                 PROVE  seen'[m] = IF m \in inited' THEN rect[m] ELSE NULL
    BY <1>1, <1>2 DEF LeavesInformed
  <2>2. CASE m = call.leaf BY <1>1, <1>2, <2>1, <2>2
  <2>3. CASE m # call.leaf
    <3>1. seen[m] = IF m \in inited THEN rect[m] ELSE NULL
      BY <2>1, <2>3 DEF IInv, LeavesInformed
    <3> QED BY <1>1, <1>2, <2>1, <2>3, <3>1
  <2> QED BY <2>2, <2>3
<1> QED BY <1>1, <1>3 DEF IInv, CallbackDue

\* A callback that returns leaves its leaf informed; one that failed leaves it
\* without data and uninitialised, and one that freed the data leaves no leaf.
LEMMA CallbackReturnsInformed ==
    ASSUME IInv, TypeOK',
           InitSucceeds \/ InitFails \/ ResizeReturns \/ FreeDataReturns
    PROVE  IInv'
<1>1. CASE InitSucceeds
  BY <1>1, DataMadeInformed DEF InitSucceeds, Running
<1>2. CASE ResizeReturns
  <2>1. call.leaf \in inited BY <1>2 DEF ResizeReturns, Running, IInv, CallbackDue
  <2> QED BY <1>2, <2>1, DataMadeInformed DEF ResizeReturns, Running
<1>3. CASE InitFails
  <2>1. /\ node' = node /\ rect' = rect /\ inited' = inited /\ seen' = seen
        /\ freed' = freed /\ call' = NULL /\ call # NULL
        /\ call.fn = "init_data"
    BY <1>3 DEF InitFails, Running
  <2>2. Ids' = Ids BY <2>1 DEF Ids
  <2>3. LeavesInformed'
    <3>1. SUFFICES ASSUME NEW m \in Ids \ freed, node[m].type = "SP_LEAF"
                   PROVE  seen[m] = IF m \in inited THEN rect[m] ELSE NULL
      BY <2>1, <2>2 DEF LeavesInformed
    <3>2. CASE m = call.leaf BY <2>1, <3>1, <3>2 DEF IInv, CallbackDue
    <3>3. CASE m # call.leaf BY <3>1, <3>3 DEF IInv, LeavesInformed
    <3> QED BY <3>2, <3>3
  <2> QED BY <2>1, <2>3 DEF IInv, CallbackDue
<1>4. CASE FreeDataReturns
  <2>1. /\ seen' = [seen EXCEPT ![call.leaf] = NULL]
        /\ node' = node /\ rect' = rect /\ inited' = inited
        /\ freed' = freed \cup {call.leaf} /\ call' = NULL /\ call # NULL
    BY <1>4 DEF FreeDataReturns, Running
  <2>2. Ids' = Ids /\ DOMAIN seen = Ids
    BY <2>1, LenProperties DEF Ids, IInv, TypeOK
  <2>3. LeavesInformed'
    <3>1. SUFFICES ASSUME NEW m \in Ids \ freed', node[m].type = "SP_LEAF"
                   PROVE  seen'[m] = IF m \in inited THEN rect[m] ELSE NULL
      BY <2>1, <2>2 DEF LeavesInformed
    <3>2. m \notin freed /\ m # call.leaf BY <2>1, <3>1
    <3>3. seen'[m] = seen[m] BY <2>1, <2>2, <3>2
    <3> QED BY <3>1, <3>2, <3>3 DEF IInv, LeavesInformed
  <2> QED BY <2>1, <2>3 DEF IInv, CallbackDue
<1> QED BY <1>1, <1>2, <1>3, <1>4

\* The recursion of sp_free touches no leaf that is left.
LEMMA FreeStepInformed ==
    ASSUME IInv, TypeOK', FreeLeaf \/ FreeChild \/ FreeContainer
    PROVE  IInv'
<1>1. CASE FreeLeaf
  <2>1. /\ node' = node /\ rect' = rect /\ inited' = inited /\ seen' = seen
        /\ freed' = freed /\ call = NULL /\ call'.fn = "free_data"
    BY <1>1 DEF FreeLeaf, At
  <2>2. Ids' = Ids BY <2>1 DEF Ids
  <2>3. LeavesInformed' BY <2>1, <2>2 DEF IInv, LeavesInformed
  <2> QED BY <2>1, <2>3 DEF IInv, CallbackDue
<1>2. CASE FreeChild \/ FreeContainer
  <2>1. /\ node' = node /\ rect' = rect /\ inited' = inited /\ seen' = seen
        /\ freed \subseteq freed' /\ call = NULL /\ call' = NULL
    BY <1>2 DEF FreeChild, FreeContainer, At
  <2>2. Ids' = Ids BY <2>1 DEF Ids
  <2> QED BY <2>1, <2>2, QuietStep
<1> QED BY <1>1, <1>2

\* No leaf misses a change of its rectangle, whatever the tree, the order of
\* the calls and the inits that fail (LeavesInformed of Splitty).
THEOREM NoChangeMissed == Spec => []LeavesInformed
<1>1. Init => IInv
  <2> SUFFICES ASSUME Init PROVE IInv OBVIOUS
  <2>1. \A S : << >> \in Seq(S) /\ Len(<< >>) = 0 BY EmptySeq
  <2>2. Ids = {} BY DEF Init, Ids
  <2>3. TypeOK BY <2>1, <2>2, ConfigAssumption DEF Init, TypeOK
  <2> QED BY <2>2, <2>3 DEF Init, IInv, LeavesInformed, CallbackDue
<1>2. IInv /\ TypeOK' /\ [Next]_vars => IInv'
  <2> SUFFICES ASSUME IInv, TypeOK', [Next]_vars PROVE IInv' OBVIOUS
  <2>1. CASE sp_new_leaf BY <2>1, CreateInformed DEF sp_new_leaf
  <2>2. CASE \E cfg \in SplitConfigs : sp_new_split(cfg)
    BY <2>2, CreateInformed DEF sp_new_split
  <2>3. CASE \E cfg \in QuadConfigs : sp_new_quad(cfg)
    BY <2>3, CreateInformed DEF sp_new_quad
  <2>4. CASE \/ \E i \in DOMAIN roots, r \in ScreenRects : sp_refresh(roots[i], r)
             \/ \E i \in DOMAIN roots : sp_free(i)
    <3>1. /\ node' = node /\ rect' = rect /\ inited' = inited /\ seen' = seen
          /\ freed' = freed /\ call = NULL /\ call' = NULL
      BY <2>4 DEF sp_refresh, sp_free, Idle
    <3>2. Ids' = Ids BY <3>1 DEF Ids
    <3> QED BY <3>1, <3>2, QuietStep
  <2>5. CASE RefreshContainer BY <2>5, RefreshContainerInformed
  <2>6. CASE RefreshLeaf BY <2>6, RefreshLeafInformed
  <2>7. CASE InitSucceeds \/ InitFails \/ ResizeReturns \/ FreeDataReturns
    BY <2>7, CallbackReturnsInformed
  <2>8. CASE FreeLeaf \/ FreeChild \/ FreeContainer BY <2>8, FreeStepInformed
  <2>9. CASE UNCHANGED vars
    BY <2>9 DEF vars, IInv, LeavesInformed, CallbackDue, Ids
  <2> QED
    BY <2>1, <2>2, <2>3, <2>4, <2>5, <2>6, <2>7, <2>8, <2>9 DEF Next, Return
<1>3. IInv => LeavesInformed BY DEF IInv
<1> QED BY <1>1, <1>2, <1>3, TypeCorrect, PTL DEF Spec

-----------------------------------------------------------------------------
(* Trees *)

\* A set of numbers has a least one.
LEMMA Least ==
    ASSUME NEW S, S \subseteq Nat, S # {}
    PROVE  \E m \in S : \A n \in S : m =< n
<1> DEFINE R == {ss \in Nat \X Nat : ss[1] < ss[2]}
<1>1. OpToRel(<, Nat) = R BY DEF OpToRel
<1>2. IsWellFoundedOn(R, Nat) BY <1>1, NatLessThanWellFounded
<1> HIDE DEF R
<1>3. PICK m \in S : \A n \in S : ~(<< n, m >> \in R) BY <1>2, WFMin
<1>4. \A n \in S : ~(n < m) BY <1>3 DEF R
<1> QED BY <1>4

\* A bounded one has a greatest.
LEMMA Greatest ==
    ASSUME NEW S, NEW b \in Nat, S \subseteq 0 .. b, S # {}
    PROVE  \E m \in S : \A n \in S : n =< m
<1> DEFINE T == {b - n : n \in S}
<1>1. T \subseteq Nat OBVIOUS
<1>2. PICK e \in S : TRUE OBVIOUS
<1>3. b - e \in T OBVIOUS
<1> HIDE DEF T
<1>4. PICK k \in T : \A n \in T : k =< n BY <1>1, <1>3, Least
<1>5. PICK m \in S : k = b - m BY <1>4 DEF T
<1>6. \A n \in S : b - m =< b - n BY <1>4, <1>5 DEF T
<1> QED BY <1>6

\* Children are older nodes or missing gaps.
LEMMA TreeFacts ==
    ASSUME TypeOK
    PROVE  /\ Len(node) \in Nat /\ Ids = 1 .. Len(node) /\ Ids \subseteq Nat
           /\ NULL \notin Nat /\ NULL \notin Ids
           /\ \A p \in Ids :
                 /\ node[p].type \in {"SP_LEAF", "SP_SPLIT", "SP_QUAD"}
                 /\ node[p].type = "SP_LEAF" => DOMAIN Children(p) = {}
                 /\ DOMAIN Children(p) = 1 .. Len(Children(p)) /\ Len(Children(p)) \in Nat
                 /\ \A j \in DOMAIN Children(p) :
                       Children(p)[j] # NULL => Children(p)[j] \in Ids /\ Children(p)[j] < p
<1>1. Len(node) \in Nat /\ Ids = 1 .. Len(node) /\ Ids \subseteq Nat
  BY LenProperties DEF TypeOK, Ids
<1>2. NULL \notin Nat /\ NULL \notin Ids BY <1>1, NullAssumption
<1>3. ASSUME NEW p \in Ids
      PROVE  /\ node[p].type \in {"SP_LEAF", "SP_SPLIT", "SP_QUAD"}
             /\ node[p].type = "SP_LEAF" => DOMAIN Children(p) = {}
             /\ DOMAIN Children(p) = 1 .. Len(Children(p)) /\ Len(Children(p)) \in Nat
  <2>1. node[p] \in Nodes BY <1>1, ElementOfSeq DEF TypeOK
  <2>2. CASE node[p] = Leaf
    <3>1. DOMAIN << >> = {} /\ Len(<< >>) = 0 OBVIOUS
    <3> QED BY <2>2, <3>1 DEF Leaf, Children
  <2>3. CASE node[p] # Leaf
    <3>1. \A f \in [1 .. 3 -> Nat \cup NoChild] : DOMAIN f = 1 .. 3 /\ Len(f) = 3
      OBVIOUS
    <3>2. \A f \in [1 .. 9 -> Nat \cup NoChild] : DOMAIN f = 1 .. 9 /\ Len(f) = 9
      OBVIOUS
    <3> QED BY <2>1, <2>3, <3>1, <3>2 DEF Nodes, Children
  <2> QED BY <2>2, <2>3
<1>4. ASSUME NEW p \in Ids, NEW j \in DOMAIN Children(p), Children(p)[j] # NULL
      PROVE  Children(p)[j] \in Ids /\ Children(p)[j] < p
  <2>1. Children(p)[j] \in 1 .. p - 1 BY <1>4 DEF TypeOK, NoChild
  <2> QED BY <1>1, <2>1
<1> QED BY <1>1, <1>2, <1>3, <1>4

\* No node is a child twice, or a child and a root, or a root twice.
Forest ==
    /\ \A p, q \in Ids : \A i \in DOMAIN Children(p), j \in DOMAIN Children(q) :
          Children(p)[i] = Children(q)[j] /\ Children(p)[i] # NULL => p = q /\ i = j
    /\ \A p \in Ids : \A i \in DOMAIN Children(p), k \in DOMAIN roots :
          Children(p)[i] # roots[k]
    /\ \A k, l \in DOMAIN roots : roots[k] = roots[l] => k = l

Parentless(n) == \A p \in Ids : \A j \in DOMAIN Children(p) : Children(p)[j] # n

-----------------------------------------------------------------------------
(* Stacks *)

\* What a stack holds when its top is popped.
LEMMA TailFacts ==
    ASSUME NEW S, NEW s \in Seq(S), s # << >>
    PROVE  /\ Len(s) \in Nat /\ Len(s) >= 1 /\ DOMAIN s = 1 .. Len(s) /\ Head(s) = s[1]
           /\ Tail(s) \in Seq(S) /\ DOMAIN Tail(s) = 1 .. Len(s) - 1
           /\ \A k \in 1 .. Len(s) - 1 : Tail(s)[k] = s[k + 1]
<1>1. Len(s) \in Nat /\ Len(s) # 0 /\ DOMAIN s = 1 .. Len(s)
  BY EmptySeq, LenProperties
<1> QED BY <1>1

\* What a stack holds when its top is replaced.
LEMMA PushFacts ==
    ASSUME NEW S, NEW s \in Seq(S), s # << >>, NEW f \in Seq(S),
           NEW t, t = f \o Tail(s)
    PROVE  /\ Len(f) \in Nat /\ t \in Seq(S)
           /\ \A k \in DOMAIN t : \/ k \in 1 .. Len(f) /\ t[k] = f[k]
                                  \/ /\ k - Len(f) + 1 \in 2 .. Len(s)
                                     /\ t[k] = s[k - Len(f) + 1]
           /\ \A k \in 1 .. Len(f) : k \in DOMAIN t /\ t[k] = f[k]
           /\ \A k \in 2 .. Len(s) :
                 k + Len(f) - 1 \in DOMAIN t /\ t[k + Len(f) - 1] = s[k]
<1> DEFINE n == Len(f)
           u == Tail(s)
<1>1. /\ Len(s) \in Nat /\ Len(s) >= 1 /\ u \in Seq(S) /\ DOMAIN u = 1 .. Len(s) - 1
      /\ \A k \in 1 .. Len(s) - 1 : u[k] = s[k + 1]
  BY TailFacts
<1>2. n \in Nat /\ Len(u) = Len(s) - 1
  BY <1>1
<1> HIDE DEF u
<1>3. /\ t \in Seq(S) /\ Len(t) = n + Len(s) - 1
      /\ \A k \in 1 .. n : t[k] = f[k]
      /\ \A k \in 1 .. Len(s) - 1 : t[n + k] = u[k]
  BY <1>1, <1>2 DEF u
<1>4. DOMAIN t = 1 .. n + Len(s) - 1
  BY <1>2, <1>3
<1> HIDE DEF n
<1>5. ASSUME NEW k \in DOMAIN t
      PROVE  \/ k \in 1 .. n /\ t[k] = f[k]
             \/ k - n + 1 \in 2 .. Len(s) /\ t[k] = s[k - n + 1]
  <2>1. CASE k =< n
    BY <1>2, <1>3, <1>4, <2>1
  <2>2. CASE k > n
    <3>1. k - n \in 1 .. Len(s) - 1 /\ n + (k - n) = k
      BY <1>1, <1>2, <1>4, <2>2
    <3>2. t[k] = u[k - n] /\ u[k - n] = s[(k - n) + 1]
      BY <1>1, <1>3, <3>1
    <3>3. k - n + 1 \in 2 .. Len(s)
      BY <1>1, <3>1
    <3> QED BY <3>2, <3>3
  <2> QED BY <1>2, <1>4, <2>1, <2>2
<1>6. ASSUME NEW k \in 2 .. Len(s) PROVE k + n - 1 \in DOMAIN t /\ t[k + n - 1] = s[k]
  <2>1. k - 1 \in 1 .. Len(s) - 1 /\ n + (k - 1) = k + n - 1 /\ (k - 1) + 1 = k
    BY <1>1, <1>2
  <2>2. t[n + (k - 1)] = u[k - 1] /\ u[k - 1] = s[(k - 1) + 1]
    BY <1>1, <1>3, <2>1
  <2> QED BY <1>1, <1>2, <1>4, <2>1, <2>2
<1>7. \A k \in 1 .. n : k \in DOMAIN t /\ t[k] = f[k]
  BY <1>1, <1>2, <1>3, <1>4
<1> QED BY <1>2, <1>3, <1>5, <1>6, <1>7 DEF n

-----------------------------------------------------------------------------
(* What is freed *)

FreeFrames(td) == {k \in DOMAIN td : td[k].op = "sp_free"}
BeingFreed(td, cl) ==
    {td[k].node : k \in FreeFrames(td)}
        \cup (IF cl # NULL /\ cl.fn = "free_data" THEN {cl.leaf} ELSE {})
Passed(td, p, j) == \E k \in FreeFrames(td) : td[k].node = p /\ j < td[k].at

\* One of sp_refresh and sp_free is running.
Freeing(td, cl) ==
    /\ \A k \in DOMAIN td : td[k].op = "sp_free"
    /\ cl # NULL => cl.fn = "free_data"
Refreshing(td, cl) ==
    /\ \A k \in DOMAIN td : td[k].op = "sp_refresh"
    /\ cl # NULL => cl.fn # "free_data"

\* A child is freed before its parent, when the parent's loop has passed it.
ChildrenFreed ==
    \A p \in Ids : \A j \in DOMAIN Children(p) :
        LET c == Children(p)[j]
        IN  c # NULL =>
              (c \in freed <=>
                  p \in freed \/ (Passed(todo, p, j) /\ c \notin BeingFreed(todo, call)))

\* Trees that are no child's are roots until they are freed.
TreesFreed ==
    \A n \in Ids :
        Parentless(n) =>
            (n \in freed <=> n \notin Range(roots) /\ n \notin BeingFreed(todo, call))

\* The recursion is at no node that was freed.
NoneTwice ==
    /\ BeingFreed(todo, call) \cap freed = {}
    /\ \A k \in DOMAIN todo : todo[k].node \notin freed
    /\ call # NULL => call.leaf \notin freed

\* The loop over the children of the parent is just past what is being freed.
LoopsAbove ==
    \A a \in BeingFreed(todo, call) :
        /\ a \notin Range(roots)
        /\ \A p \in Ids : \A j \in DOMAIN Children(p) :
              Children(p)[j] = a /\ a # NULL => \E k \in DOMAIN todo : todo[k] = Free(p, j + 1)

\* Parents are below their children on the stack.
StackGrows ==
    /\ \A k, l \in FreeFrames(todo) :
          k < l /\ todo[k].node # NULL /\ todo[l].node # NULL => todo[k].node < todo[l].node
    /\ call # NULL =>
          \A k \in FreeFrames(todo) : todo[k].node # NULL => call.leaf < todo[k].node

\* Nodes that were freed and containers have no data.
DataGone ==
    /\ \A n \in freed : seen[n] = NULL
    /\ \A n \in Ids : node[n].type # "SP_LEAF" => seen[n] = NULL

FreeInv ==
    /\ Forest /\ (Freeing(todo, call) \/ Refreshing(todo, call))
    /\ ChildrenFreed /\ TreesFreed /\ NoneTwice /\ LoopsAbove /\ StackGrows /\ DataGone

\* While sp_refresh runs nothing is being freed.
LEMMA NoFrees ==
    ASSUME NEW td, NEW cl, Refreshing(td, cl)
    PROVE  FreeFrames(td) = {} /\ BeingFreed(td, cl) = {} /\ \A p, j : ~Passed(td, p, j)
BY DEF Refreshing, FreeFrames, BeingFreed, Passed

\* Idle is a state of sp_refresh and of sp_free.
LEMMA IdleFrees ==
    ASSUME Idle
    PROVE  Freeing(todo, call) /\ Refreshing(todo, call)
<1>1. DOMAIN << >> = {} OBVIOUS
<1> QED BY <1>1 DEF Idle, Freeing, Refreshing

\* A step of sp_refresh frees nothing.
LEMMA RefreshFrees ==
    ASSUME FreeInv, Refreshing(todo, call), Refreshing(todo', call'), DataGone',
           node' = node, roots' = roots, freed' = freed,
           \A k \in DOMAIN todo' : todo'[k].node \notin freed,
           call' # NULL => call'.leaf \notin freed
    PROVE  FreeInv'
<1>1. /\ FreeFrames(todo') = {} /\ BeingFreed(todo', call') = {}
      /\ \A p, j : ~Passed(todo', p, j)
  BY NoFrees
<1>2. /\ BeingFreed(todo, call) = {} /\ \A p, j : ~Passed(todo, p, j)
  BY NoFrees
<1>3. Ids' = Ids /\ \A p : Children(p)' = Children(p)
  BY DEF Ids, Children
<1>4. Forest'
  BY <1>3 DEF FreeInv, Forest
<1>5. ChildrenFreed'
  BY <1>1, <1>2, <1>3 DEF FreeInv, ChildrenFreed
<1>6. TreesFreed'
  BY <1>1, <1>2, <1>3 DEF FreeInv, TreesFreed, Parentless
<1>7. NoneTwice' /\ LoopsAbove' /\ StackGrows'
  BY <1>1 DEF NoneTwice, LoopsAbove, StackGrows
<1> QED BY <1>4, <1>5, <1>6, <1>7 DEF FreeInv

\* A new node takes the youngest roots as children, and is the youngest root.
LEMMA CreateFacts ==
    ASSUME TypeOK, TypeOK', NEW new, NEW args \in 0 .. Len(roots), Create(new, args)
    PROVE  LET m == Len(node) + 1
               keep == Len(roots) - args
           IN  /\ Ids' = Ids \cup {m} /\ m \notin Ids /\ m \in Nat
               /\ \A p \in Ids : Children(p)' = Children(p) /\ node'[p] = node[p]
               /\ node'[m] = new
               /\ Len(roots) \in Nat /\ DOMAIN roots = 1 .. Len(roots)
               /\ DOMAIN roots' = 1 .. keep + 1 /\ roots'[keep + 1] = m
               /\ \A k \in 1 .. keep : roots'[k] = roots[k]
               /\ \A k \in 1 .. Len(roots) : roots[k] \in Ids
               /\ \A p \in Ids : rect'[p] = rect[p] /\ seen'[p] = seen[p]
               /\ rect'[m] = ZeroRect /\ seen'[m] = NULL
<1> DEFINE m == Len(node) + 1
           keep == Len(roots) - args
           front == SubSeq(roots, 1, keep)
<1>1. /\ node \in Seq(Nodes) /\ rect \in Seq(Rect) /\ seen \in Seq(Rect \cup {NULL})
      /\ Len(rect) = Len(node) /\ Len(seen) = Len(node) /\ roots \in Seq(Ids)
      /\ Len(node) \in Nat /\ Ids = 1 .. Len(node)
      /\ Len(roots) \in Nat /\ DOMAIN roots = 1 .. Len(roots)
  BY LenProperties DEF TypeOK, Ids
<1>2. /\ node' = Append(node, new) /\ rect' = Append(rect, ZeroRect)
      /\ seen' = Append(seen, NULL) /\ roots' = Append(front, m)
  BY DEF Create
<1>3. keep \in 0 .. Len(roots)
  BY <1>1
<1>4. \A k \in 1 .. Len(roots) : roots[k] \in Ids
  BY <1>1, ElementOfSeq
<1> HIDE DEF keep
<1> DEFINE S == Ids \cup {m}
<1>5. front \in Seq(S) /\ Len(front) = keep /\ \A k \in 1 .. keep : front[k] = roots[k]
  <2>1. \A k \in 1 .. keep : roots[k] \in S
    BY <1>1, <1>3, <1>4
  <2> QED BY <1>1, <1>3, <2>1, SubSeqProperties
<1>6. m \in S OBVIOUS
<1> HIDE DEF front, S, m
<1>7. /\ DOMAIN roots' = 1 .. keep + 1 /\ roots'[keep + 1] = m
      /\ \A k \in 1 .. keep : roots'[k] = roots[k]
  <2>1. /\ roots' \in Seq(S) /\ Len(roots') = Len(front) + 1
        /\ \A k \in 1 .. Len(front) : roots'[k] = front[k]
        /\ roots'[Len(front) + 1] = m
    BY <1>2, <1>5, <1>6, AppendProperties
  <2> QED BY <1>3, <1>5, <2>1, LenProperties
<1> USE DEF m
<1>8. Ids' = 1 .. m
  <2>1. Len(node') = m BY <1>1, <1>2
  <2>2. node' \in Seq(Nodes) BY DEF TypeOK
  <2> QED BY <2>1, <2>2, LenProperties DEF Ids
<1>9. Ids' = Ids \cup {m} /\ m \notin Ids /\ m \in Nat
  BY <1>1, <1>8
<1>10. /\ \A p \in Ids : node'[p] = node[p] /\ rect'[p] = rect[p] /\ seen'[p] = seen[p]
      /\ node'[m] = new /\ rect'[m] = ZeroRect /\ seen'[m] = NULL
  BY <1>1, <1>2
<1>11. \A p \in Ids : Children(p)' = Children(p)
  BY <1>10 DEF Children
<1> QED BY <1>1, <1>4, <1>7, <1>9, <1>10, <1>11 DEF keep

\* The children of the new node are the youngest roots, or missing.
TakesRoots(new, args) ==
    /\ \A i \in 1 .. args :
          i \in DOMAIN new.children /\ new.children[i] = roots[Len(roots) - args + i]
    /\ \A i \in DOMAIN new.children :
          \/ new.children[i] = NULL
          \/ i \in 1 .. args /\ new.children[i] = roots[Len(roots) - args + i]

\* They are no one else's, and no longer roots.
LEMMA CreateForest ==
    ASSUME TypeOK, TypeOK', Forest, NEW new, NEW args \in 0 .. Len(roots),
           Create(new, args), TakesRoots(new, args)
    PROVE  Forest'
<1> DEFINE m == Len(node) + 1
           keep == Len(roots) - args
           cs == new.children
<1>1. /\ Ids' = Ids \cup {m} /\ m \notin Ids /\ m \in Nat
      /\ \A p \in Ids : Children(p)' = Children(p)
      /\ node'[m].children = cs
      /\ Len(roots) \in Nat /\ DOMAIN roots = 1 .. Len(roots)
      /\ DOMAIN roots' = 1 .. keep + 1 /\ roots'[keep + 1] = m
      /\ \A k \in 1 .. keep : roots'[k] = roots[k]
      /\ \A k \in 1 .. Len(roots) : roots[k] \in Ids
  BY CreateFacts
<1>2. keep \in Nat /\ keep + args = Len(roots) /\ args \in Nat
  BY <1>1
<1>3. ASSUME NEW i \in DOMAIN cs, cs[i] # NULL
      PROVE  keep + i \in keep + 1 .. Len(roots) /\ cs[i] = roots[keep + i] /\ i \in Nat
  <2>1. i \in 1 .. args /\ cs[i] = roots[keep + i]
    BY <1>3 DEF TakesRoots
  <2> QED BY <1>2, <2>1
<1>4. \A p \in Ids' : \A i \in DOMAIN Children(p)' :
         Children(p)'[i] # NULL => Children(p)'[i] \in Ids' /\ Children(p)'[i] < p
  <2>1. \A p \in Ids' : \A i \in DOMAIN Children(p)' :
           Children(p)'[i] \in (1 .. p - 1) \cup NoChild
    BY DEF TypeOK, NoChild
  <2>2. Ids' = 1 .. m
    BY <1>1, TreeFacts
  <2> HIDE DEF m
  <2> QED BY <1>1, <2>1, <2>2 DEF NoChild
<1> HIDE DEF m, keep
<1>5. ASSUME NEW p \in Ids', NEW q \in Ids',
             NEW i \in DOMAIN Children(p)', NEW j \in DOMAIN Children(q)',
             Children(p)'[i] = Children(q)'[j], Children(p)'[i] # NULL
      PROVE  p = q /\ i = j
  <2>1. CASE p \in Ids /\ q \in Ids
    BY <1>1, <1>5, <2>1 DEF Forest
  <2>2. CASE p = m /\ q \in Ids
    <3>1. i \in DOMAIN cs /\ cs[i] # NULL /\ Children(q)[j] = cs[i] /\ j \in DOMAIN Children(q)
      BY <1>1, <1>5, <2>2 DEF Children
    <3>2. keep + i \in DOMAIN roots /\ Children(q)[j] = roots[keep + i]
      BY <1>1, <1>2, <1>3, <3>1
    <3> QED BY <2>2, <3>1, <3>2 DEF Forest
  <2>3. CASE p \in Ids /\ q = m
    <3>1. j \in DOMAIN cs /\ cs[j] # NULL /\ Children(p)[i] = cs[j] /\ i \in DOMAIN Children(p)
      BY <1>1, <1>5, <2>3 DEF Children
    <3>2. keep + j \in DOMAIN roots /\ Children(p)[i] = roots[keep + j]
      BY <1>1, <1>2, <1>3, <3>1
    <3> QED BY <2>3, <3>1, <3>2 DEF Forest
  <2>4. CASE p = m /\ q = m
    <3>1. i \in DOMAIN cs /\ j \in DOMAIN cs /\ cs[i] = cs[j] /\ cs[i] # NULL
      BY <1>1, <1>5, <2>4 DEF Children
    <3>2. /\ keep + i \in DOMAIN roots /\ keep + j \in DOMAIN roots /\ i \in Nat /\ j \in Nat
          /\ roots[keep + i] = roots[keep + j]
      BY <1>1, <1>2, <1>3, <3>1
    <3>3. keep + i = keep + j
      BY <3>2 DEF Forest
    <3> QED BY <1>2, <2>4, <3>2, <3>3
  <2> QED BY <1>1, <2>1, <2>2, <2>3, <2>4
<1>6. ASSUME NEW p \in Ids', NEW i \in DOMAIN Children(p)', NEW k \in DOMAIN roots'
      PROVE  Children(p)'[i] # roots'[k]
  <2>1. CASE k = keep + 1
    <3>1. roots'[k] = m /\ m # NULL
      BY <1>1, <2>1, NullAssumption
    <3>2. ASSUME Children(p)'[i] = m PROVE FALSE
      <4>1. m < p /\ p \in Ids \cup {m}
        BY <1>1, <1>4, <3>1, <3>2
      <4> QED BY <1>1, <4>1, TreeFacts DEF m
    <3> QED BY <3>1, <3>2
  <2>2. CASE k # keep + 1
    <3>1. k \in 1 .. keep /\ roots'[k] = roots[k] /\ k \in DOMAIN roots
      BY <1>1, <1>2, <2>2
    <3>2. CASE p \in Ids
      BY <1>1, <3>1, <3>2 DEF Forest
    <3>3. CASE p = m
      <4>1. i \in DOMAIN cs /\ Children(p)'[i] = cs[i]
        BY <1>1, <3>3 DEF Children
      <4>2. roots[k] # NULL
        BY <1>1, <3>1, TreeFacts
      <4>3. CASE cs[i] # NULL
        <5>1. keep + i \in keep + 1 .. Len(roots) /\ cs[i] = roots[keep + i] /\ i \in Nat
          BY <1>3, <4>1, <4>3
        <5>2. keep + i # k /\ keep + i \in DOMAIN roots
          BY <1>1, <1>2, <3>1, <5>1
        <5> QED BY <3>1, <4>1, <5>1, <5>2 DEF Forest
      <4> QED BY <3>1, <4>1, <4>2, <4>3
    <3> QED BY <1>1, <3>2, <3>3
  <2> QED BY <2>1, <2>2
<1>7. ASSUME NEW k \in DOMAIN roots', NEW l \in DOMAIN roots', roots'[k] = roots'[l]
      PROVE  k = l
  <2>1. \A n \in 1 .. keep : n \in DOMAIN roots /\ roots'[n] = roots[n] /\ roots[n] # m
    BY <1>1, <1>2
  <2>2. (k \in 1 .. keep \/ k = keep + 1) /\ (l \in 1 .. keep \/ l = keep + 1)
    BY <1>1, <1>2
  <2> QED BY <1>1, <1>7, <2>1, <2>2 DEF Forest
<1> QED BY <1>5, <1>6, <1>7 DEF Forest

\* A new node frees nothing.
LEMMA CreateFrees ==
    ASSUME TypeOK, TypeOK', FreeInv, NEW new, NEW args \in 0 .. Len(roots),
           Create(new, args), TakesRoots(new, args)
    PROVE  FreeInv'
<1> DEFINE m == Len(node) + 1
           keep == Len(roots) - args
           cs == new.children
<1>1. /\ Ids' = Ids \cup {m} /\ m \notin Ids /\ m \in Nat
      /\ \A p \in Ids : Children(p)' = Children(p) /\ node'[p] = node[p]
      /\ node'[m].children = cs
      /\ Len(roots) \in Nat /\ DOMAIN roots = 1 .. Len(roots)
      /\ DOMAIN roots' = 1 .. keep + 1 /\ roots'[keep + 1] = m
      /\ \A k \in 1 .. keep : roots'[k] = roots[k]
      /\ \A k \in 1 .. Len(roots) : roots[k] \in Ids
      /\ \A p \in Ids : seen'[p] = seen[p]
      /\ seen'[m] = NULL
  BY CreateFacts
<1>2. keep \in Nat /\ keep + args = Len(roots) /\ args \in Nat
  BY <1>1
<1>3. /\ todo = << >> /\ todo' = todo /\ call = NULL /\ call' = NULL
      /\ freed' = freed /\ freed \subseteq Ids
  BY DEF Create, Idle, TypeOK
<1>4. Refreshing(todo, call) /\ Refreshing(todo', call')
  BY <1>3, IdleFrees DEF Create
<1>5. /\ BeingFreed(todo, call) = {} /\ \A p, j : ~Passed(todo, p, j)
      /\ BeingFreed(todo', call') = {} /\ \A p, j : ~Passed(todo', p, j)
      /\ FreeFrames(todo') = {}
  BY <1>4, NoFrees
<1>6. Forest'
  BY CreateForest DEF FreeInv
<1> HIDE DEF m, keep
<1>7. ASSUME NEW k \in DOMAIN roots PROVE roots[k] \in Ids /\ roots[k] \notin freed
  <2>1. Parentless(roots[k])
    BY DEF FreeInv, Forest, Parentless
  <2> QED BY <1>1, <1>5, <2>1 DEF FreeInv, TreesFreed, Range
<1>8. ChildrenFreed'
  <2>1. ASSUME NEW p \in Ids', NEW j \in DOMAIN Children(p)', Children(p)'[j] # NULL
        PROVE  Children(p)'[j] \in freed <=> p \in freed
    <3>1. CASE p \in Ids
      BY <1>1, <1>5, <2>1, <3>1 DEF FreeInv, ChildrenFreed
    <3>2. CASE p = m
      <4>1. j \in DOMAIN cs /\ Children(p)'[j] = cs[j]
        BY <1>1, <3>2 DEF Children
      <4>2. j \in 1 .. args /\ cs[j] = roots[Len(roots) - args + j]
        BY <2>1, <4>1 DEF TakesRoots
      <4>3. Len(roots) - args + j \in DOMAIN roots
        BY <1>1, <1>2, <4>2
      <4>4. cs[j] \notin freed
        BY <1>7, <4>2, <4>3
      <4> QED BY <1>1, <1>3, <3>2, <4>1, <4>4
    <3> QED BY <1>1, <3>1, <3>2
  <2> QED BY <1>3, <1>5, <2>1 DEF ChildrenFreed
<1>9. TreesFreed'
  <2>1. ASSUME NEW n \in Ids', Parentless(n)'
        PROVE  n \in freed <=> n \notin Range(roots')
    <3>1. CASE n = m
      <4>1. n \in Range(roots')
        BY <1>1, <1>2, <3>1 DEF Range
      <4> QED BY <1>1, <1>3, <3>1, <4>1
    <3>2. CASE n \in Ids
      <4>1. Parentless(n)
        BY <1>1, <2>1 DEF Parentless
      <4>2. n \in freed <=> n \notin Range(roots)
        BY <1>5, <3>2, <4>1 DEF FreeInv, TreesFreed
      <4>3. ASSUME n \in Range(roots') PROVE n \in Range(roots)
        <5>1. PICK k \in 1 .. keep + 1 : roots'[k] = n
          BY <1>1, <4>3 DEF Range
        <5>2. k # keep + 1
          BY <1>1, <3>2, <5>1
        <5>3. k \in 1 .. keep /\ k \in DOMAIN roots
          BY <1>1, <1>2, <5>2
        <5>4. roots[k] = n
          BY <1>1, <5>1, <5>3
        <5> QED BY <5>3, <5>4 DEF Range
      <4>4. ASSUME n \in Range(roots) PROVE n \in Range(roots')
        <5>1. PICK k \in 1 .. Len(roots) : roots[k] = n
          BY <1>1, <4>4 DEF Range
        <5>2. CASE k =< keep
          <6>1. k \in 1 .. keep /\ k \in DOMAIN roots'
            BY <1>1, <1>2, <5>2
          <6>2. roots'[k] = n
            BY <1>1, <5>1, <6>1
          <6> QED BY <6>1, <6>2 DEF Range
        <5>3. CASE k > keep
          <6>1. PICK j \in 1 .. args : k = keep + j
            <7>1. k - keep \in 1 .. args /\ k = keep + (k - keep)
              BY <1>1, <1>2, <5>3
            <7> QED BY <7>1
          <6>2. j \in DOMAIN cs /\ cs[j] = n
            BY <5>1, <6>1 DEF TakesRoots, keep
          <6>3. m \in Ids' /\ j \in DOMAIN node'[m].children /\ node'[m].children[j] = n
            BY <1>1, <6>2
          <6> QED BY <2>1, <6>3 DEF Parentless, Children
        <5> QED BY <1>1, <1>2, <5>2, <5>3
      <4> QED BY <4>2, <4>3, <4>4
    <3> QED BY <1>1, <3>1, <3>2
  <2> QED BY <1>3, <1>5, <2>1 DEF TreesFreed
<1>10. NoneTwice' /\ LoopsAbove' /\ StackGrows'
  <2>1. DOMAIN todo' = {}
    BY <1>3
  <2> QED BY <1>3, <1>5, <2>1 DEF NoneTwice, LoopsAbove, StackGrows
<1>11. DataGone'
  BY <1>1, <1>3 DEF FreeInv, DataGone
<1> QED BY <1>4, <1>6, <1>8, <1>9, <1>10, <1>11 DEF FreeInv

\* Roots are nodes that are not freed while no call runs.
LEMMA RootsLive ==
    ASSUME TypeOK, FreeInv, Idle, NEW k \in DOMAIN roots
    PROVE  roots[k] \in Ids /\ roots[k] \notin freed
<1>1. roots[k] \in Ids
  BY LenProperties, ElementOfSeq DEF TypeOK
<1>2. Parentless(roots[k])
  BY DEF FreeInv, Forest, Parentless
<1>3. BeingFreed(todo, call) = {}
  BY IdleFrees, NoFrees
<1> QED BY <1>1, <1>2, <1>3 DEF FreeInv, TreesFreed, Range

\* The caller's sp_refresh is for a live root.
LEMMA RefreshRootFrees ==
    ASSUME TypeOK, FreeInv, NEW i \in DOMAIN roots, NEW r, sp_refresh(roots[i], r)
    PROVE  FreeInv'
<1>1. /\ todo' = << Refresh(roots[i], r) >> /\ call = NULL /\ call' = NULL
      /\ node' = node /\ roots' = roots /\ freed' = freed /\ seen' = seen /\ Idle
  BY DEF sp_refresh, Idle
<1>2. DOMAIN todo' = {1} /\ todo'[1] = Refresh(roots[i], r)
  BY <1>1
<1>3. todo'[1].op = "sp_refresh" /\ todo'[1].node = roots[i]
  BY <1>2 DEF Refresh
<1>4. Refreshing(todo, call) /\ Refreshing(todo', call')
  BY <1>1, <1>2, <1>3, IdleFrees DEF Refreshing
<1>5. \A k \in DOMAIN todo' : todo'[k].node \notin freed
  BY <1>1, <1>2, <1>3, RootsLive
<1>6. DataGone'
  BY <1>1 DEF FreeInv, DataGone, Ids
<1> QED BY <1>1, <1>4, <1>5, <1>6, RefreshFrees

\* What is below the top of the stack stays when the top is popped.
LEMMA PopFacts ==
    ASSUME TypeOK, NEW op, NEW types, At(op, types)
    PROVE  /\ Top = todo[1] /\ DOMAIN todo = 1 .. Len(todo) /\ Len(todo) \in Nat
           /\ 1 \in DOMAIN todo /\ Top.op = op /\ Top.node \in Ids /\ call = NULL
           /\ node[Top.node].type \in types
           /\ todo' = Tail(todo) =>
                /\ \A k \in DOMAIN todo' :
                      k + 1 \in DOMAIN todo /\ k + 1 # 1 /\ todo'[k] = todo[k + 1]
                /\ \A l \in DOMAIN todo :
                      l # 1 => l - 1 \in DOMAIN todo' /\ todo'[l - 1] = todo[l]
<1> DEFINE F == Frames(Ids \cup NoChild)
<1>1. todo \in Seq(F) /\ todo # << >>
  BY DEF TypeOK, At
<1>2. Top.node \in Ids
  BY TopFrame
<1> HIDE DEF F
<1>3. /\ Len(todo) \in Nat /\ Len(todo) >= 1 /\ DOMAIN todo = 1 .. Len(todo)
      /\ Top = todo[1] /\ DOMAIN Tail(todo) = 1 .. Len(todo) - 1
      /\ \A k \in 1 .. Len(todo) - 1 : Tail(todo)[k] = todo[k + 1]
  BY <1>1, TailFacts DEF Top
<1>4. ASSUME NEW l \in DOMAIN todo, l # 1
      PROVE  l - 1 \in DOMAIN Tail(todo) /\ Tail(todo)[l - 1] = todo[l]
  <2>1. l - 1 \in 1 .. Len(todo) - 1 /\ (l - 1) + 1 = l
    BY <1>3, <1>4
  <2>2. Tail(todo)[l - 1] = todo[(l - 1) + 1]
    BY <1>3, <2>1
  <2> QED BY <1>3, <2>1, <2>2
<1> QED BY <1>2, <1>3, <1>4 DEF At

\* The children's calls replace the container's.
LEMMA RefreshPush ==
    ASSUME TypeOK, RefreshContainer
    PROVE  LET n == Top.node
               cs == Children(n)
               r == ChildRects(n, Top.rect)
               k0 == Len(cs) - 1
           IN  /\ DOMAIN cs = 1 .. Len(cs) /\ Len(cs) \in Nat
               /\ \A k \in DOMAIN todo' :
                     \/ k \in DOMAIN cs /\ todo'[k] = Refresh(cs[k], r[k])
                     \/ \E l \in DOMAIN todo : /\ l # 1 /\ todo'[k] = todo[l]
                                               /\ k = l + k0
               /\ \A k \in DOMAIN cs : k \in DOMAIN todo' /\ todo'[k] = Refresh(cs[k], r[k])
               /\ \A l \in DOMAIN todo :
                     l # 1 => l + k0 \in DOMAIN todo' /\ todo'[l + k0] = todo[l]
<1> DEFINE n == Top.node
           F == Frames(Ids \cup NoChild)
           cs == Children(n)
           r == ChildRects(n, Top.rect)
           f == [i \in DOMAIN cs |-> Refresh(cs[i], r[i])]
<1>1. At("sp_refresh", {"SP_SPLIT", "SP_QUAD"}) /\ todo' = f \o Tail(todo)
  BY DEF RefreshContainer
<1>2. /\ n \in Ids /\ Top.rect \in Rect /\ todo \in Seq(F) /\ todo # << >>
  BY <1>1, TopFrame DEF TypeOK, At
<1>3. ~(node[n].type = "SP_LEAF") BY <1>1 DEF At
<1>4. \A i \in DOMAIN cs : r[i] \in Rect
  BY <1>2, <1>3, ChildRectsTyped
<1>5. \A i \in DOMAIN cs : cs[i] \in Ids \cup NoChild
  <2>1. n \in 1 .. Len(node) /\ Ids = 1 .. Len(node) /\ Len(node) \in Nat
    BY <1>2, LenProperties DEF TypeOK, Ids
  <2> QED BY <1>2, <2>1 DEF TypeOK
<1>6. DOMAIN cs = 1 .. Len(cs) /\ Len(cs) \in Nat
  BY <1>2, TreeFacts
<1>7. \A i \in DOMAIN cs : Refresh(cs[i], r[i]) \in F
  BY <1>4, <1>5 DEF Refresh, Frames
<1> HIDE DEF cs, r, F
<1>8. f \in Seq(F) /\ Len(f) = Len(cs) /\ \A i \in DOMAIN cs : f[i] = Refresh(cs[i], r[i])
  BY <1>6, <1>7
<1> HIDE DEF f, n
<1>9. /\ \A k \in DOMAIN todo' :
            \/ k \in 1 .. Len(f) /\ todo'[k] = f[k]
            \/ k - Len(f) + 1 \in 2 .. Len(todo) /\ todo'[k] = todo[k - Len(f) + 1]
      /\ \A k \in 1 .. Len(f) : k \in DOMAIN todo' /\ todo'[k] = f[k]
      /\ \A k \in 2 .. Len(todo) :
            k + Len(f) - 1 \in DOMAIN todo' /\ todo'[k + Len(f) - 1] = todo[k]
      /\ todo' \in Seq(F)
  BY <1>1, <1>2, <1>8, PushFacts
<1>10. /\ DOMAIN todo = 1 .. Len(todo) /\ Len(todo) \in Nat
       /\ DOMAIN todo' \subseteq Nat
  BY <1>2, <1>9, LenProperties
<1>11. ASSUME NEW k \in DOMAIN todo'
       PROVE  \/ k \in DOMAIN cs /\ todo'[k] = Refresh(cs[k], r[k])
              \/ \E l \in DOMAIN todo : /\ l # 1 /\ todo'[k] = todo[l]
                                        /\ k = l + (Len(cs) - 1)
  <2>1. CASE k \in 1 .. Len(f) /\ todo'[k] = f[k]
    BY <1>6, <1>8, <2>1
  <2>2. CASE k - Len(f) + 1 \in 2 .. Len(todo) /\ todo'[k] = todo[k - Len(f) + 1]
    <3>1. PICK l \in 2 .. Len(todo) : l = k - Len(f) + 1
      BY <2>2
    <3>2. l \in DOMAIN todo /\ l # 1 /\ k = l + (Len(cs) - 1) /\ todo'[k] = todo[l]
      <4>1. k \in Nat /\ Len(cs) \in Nat /\ l = k - Len(cs) + 1
        BY <1>6, <1>8, <1>10, <3>1
      <4>2. k = l + (Len(cs) - 1) /\ l # 1 /\ l \in DOMAIN todo
        BY <1>10, <4>1
      <4> QED BY <2>2, <3>1, <4>2
    <3> QED BY <3>2
  <2> QED BY <1>9, <2>1, <2>2
<1>12. ASSUME NEW l \in DOMAIN todo, l # 1
       PROVE  l + (Len(cs) - 1) \in DOMAIN todo' /\ todo'[l + (Len(cs) - 1)] = todo[l]
  <2>1. l \in 2 .. Len(todo) /\ l + Len(f) - 1 = l + (Len(cs) - 1)
    BY <1>6, <1>8, <1>10, <1>12
  <2>2. l + Len(f) - 1 \in DOMAIN todo' /\ todo'[l + Len(f) - 1] = todo[l]
    BY <1>9, <2>1
  <2> QED BY <2>1, <2>2
<1>13. \A k \in DOMAIN cs : k \in DOMAIN todo' /\ todo'[k] = Refresh(cs[k], r[k])
  BY <1>6, <1>8, <1>9
<1> QED BY <1>6, <1>11, <1>12, <1>13 DEF cs, r, n

\* While sp_refresh is at a node, nothing is being freed and the node is live.
LEMMA RefreshTop ==
    ASSUME TypeOK, FreeInv, NEW types, At("sp_refresh", types)
    PROVE  Refreshing(todo, call) /\ Top.node \notin freed
           /\ \A j \in DOMAIN Children(Top.node) : Children(Top.node)[j] \notin freed
<1>1. Top = todo[1] /\ 1 \in DOMAIN todo /\ Top.op = "sp_refresh" /\ Top.node \in Ids
  BY PopFacts
<1>2. Refreshing(todo, call)
  BY <1>1 DEF FreeInv, Freeing
<1>3. Top.node \notin freed
  BY <1>1 DEF FreeInv, NoneTwice
<1>4. \A p, j : ~Passed(todo, p, j)
  BY <1>2, NoFrees
<1>5. NULL \notin freed
  BY TreeFacts DEF TypeOK
<1>6. \A j \in DOMAIN Children(Top.node) : Children(Top.node)[j] \notin freed
  BY <1>1, <1>3, <1>4, <1>5 DEF FreeInv, ChildrenFreed
<1> QED BY <1>2, <1>3, <1>6

\* sp_refresh of a container goes on to children that are as live as it is.
LEMMA RefreshContainerFrees == TypeOK /\ FreeInv /\ RefreshContainer => FreeInv'
<1> SUFFICES ASSUME TypeOK, FreeInv, RefreshContainer PROVE FreeInv'
  OBVIOUS
<1>1. At("sp_refresh", {"SP_SPLIT", "SP_QUAD"})
  BY DEF RefreshContainer
<1>2. /\ node' = node /\ roots' = roots /\ freed' = freed /\ seen' = seen
      /\ call' = call /\ call = NULL
  BY <1>1, PopFacts DEF RefreshContainer
<1>3. /\ Refreshing(todo, call)
      /\ \A j \in DOMAIN Children(Top.node) : Children(Top.node)[j] \notin freed
  BY <1>1, RefreshTop
<1>4. ASSUME NEW k \in DOMAIN todo'
      PROVE  todo'[k].op = "sp_refresh" /\ todo'[k].node \notin freed
  <2>1. CASE \E l \in DOMAIN todo : todo'[k] = todo[l]
    BY <1>3, <2>1 DEF Refreshing, FreeInv, NoneTwice
  <2>2. CASE k \in DOMAIN Children(Top.node)
    <3>1. /\ todo'[k].op = "sp_refresh"
          /\ todo'[k].node = Children(Top.node)[k]
      <4>1. todo'[k] = Refresh(Children(Top.node)[k], ChildRects(Top.node, Top.rect)[k])
        BY <2>2, RefreshPush
      <4> QED BY <4>1 DEF Refresh
    <3> QED BY <1>3, <2>2, <3>1
  <2> QED BY <2>1, <2>2, RefreshPush
<1>5. Refreshing(todo', call')
  BY <1>2, <1>4 DEF Refreshing
<1>6. DataGone'
  BY <1>2 DEF FreeInv, DataGone, Ids
<1> QED BY <1>2, <1>3, <1>4, <1>5, <1>6, RefreshFrees

\* sp_refresh of a leaf calls back into a live leaf.
LEMMA RefreshLeafFrees == TypeOK /\ FreeInv /\ RefreshLeaf => FreeInv'
<1> SUFFICES ASSUME TypeOK, FreeInv, RefreshLeaf PROVE FreeInv'
  OBVIOUS
<1> DEFINE n == Top.node
           flags == Flags(rect[n], Top.rect)
<1>1. At("sp_refresh", {"SP_LEAF"}) /\ todo' = Tail(todo)
  BY DEF RefreshLeaf
<1>2. /\ node' = node /\ roots' = roots /\ freed' = freed /\ seen' = seen
      /\ call' = Callback(n, flags)
  BY DEF RefreshLeaf
<1>3. /\ Refreshing(todo, call) /\ n \notin freed /\ n \in Ids
      /\ \A k \in DOMAIN todo' : \E l \in DOMAIN todo : todo'[k] = todo[l]
  BY <1>1, RefreshTop, PopFacts
<1>4. flags \in SUBSET {"SP_MOVED", "SP_RESIZED"}
  BY DEF Flags
<1> HIDE DEF n, flags
<1>5. call' # NULL => call'.leaf = n /\ call'.fn # "free_data"
  BY <1>2, <1>3, <1>4, CallbackTyped
<1>6. Refreshing(todo', call')
  BY <1>3, <1>5 DEF Refreshing
<1>7. \A k \in DOMAIN todo' : todo'[k].node \notin freed
  BY <1>3 DEF FreeInv, NoneTwice
<1>8. DataGone'
  BY <1>2 DEF FreeInv, DataGone, Ids
<1> QED BY <1>2, <1>3, <1>5, <1>6, <1>7, <1>8, RefreshFrees

\* init_data and resize free nothing.
LEMMA DataFrees == TypeOK /\ FreeInv /\ (InitSucceeds \/ InitFails \/ ResizeReturns) => FreeInv'
<1> SUFFICES ASSUME TypeOK, FreeInv, InitSucceeds \/ InitFails \/ ResizeReturns
             PROVE  FreeInv'
  OBVIOUS
<1>1. /\ node' = node /\ roots' = roots /\ freed' = freed /\ todo' = todo /\ call' = NULL
      /\ call # NULL /\ call.fn # "free_data"
      /\ seen' = seen \/ seen' = [seen EXCEPT ![call.leaf] = rect[call.leaf]]
  BY DEF InitSucceeds, InitFails, ResizeReturns, DataMade, Running, AfterFailure
<1>2. Refreshing(todo, call) /\ Refreshing(todo', call')
  BY <1>1 DEF FreeInv, Freeing, Refreshing
<1>3. call.leaf \notin freed /\ call.leaf \in Ids /\ node[call.leaf].type = "SP_LEAF"
  BY <1>1 DEF FreeInv, NoneTwice, TypeOK
<1>4. DOMAIN seen = Ids /\ freed \subseteq Ids
  BY LenProperties DEF TypeOK, Ids
<1>5. DataGone'
  BY <1>1, <1>3, <1>4 DEF FreeInv, DataGone, Ids
<1>6. \A k \in DOMAIN todo' : todo'[k].node \notin freed
  BY <1>1 DEF FreeInv, NoneTwice
<1> QED BY <1>1, <1>2, <1>5, <1>6, RefreshFrees

\* A sequence without its i-th element.
LEMMA Removed ==
    ASSUME NEW S, NEW s \in Seq(S), NEW i \in 1 .. Len(s)
    PROVE  LET w == SubSeq(s, 1, i - 1) \o SubSeq(s, i + 1, Len(s))
           IN  /\ Len(s) \in Nat /\ DOMAIN w = 1 .. Len(s) - 1
               /\ \A j \in 1 .. Len(s) - 1 : w[j] = IF j < i THEN s[j] ELSE s[j + 1]
<1> DEFINE front == SubSeq(s, 1, i - 1)
           back == SubSeq(s, i + 1, Len(s))
<1>1. /\ front \in Seq(S) /\ Len(front) = i - 1
      /\ \A k \in 1 .. i - 1 : front[k] = s[k]
  BY SubSeqProperties
<1>2. /\ back \in Seq(S) /\ Len(back) = Len(s) - i
      /\ \A k \in 1 .. Len(s) - i : back[k] = s[i + k]
  BY SubSeqProperties
<1>3. Len(s) \in Nat
  OBVIOUS
<1> HIDE DEF front, back
<1>4. front \o back \in Seq(S) /\ Len(front \o back) = Len(s) - 1
  <2>1. front \o back \in Seq(S) /\ Len(front \o back) = Len(front) + Len(back)
    BY <1>1, <1>2, ConcatProperties
  <2>2. Len(front) + Len(back) = Len(s) - 1
    BY <1>1, <1>2, <1>3
  <2> QED BY <2>1, <2>2
<1>5. ASSUME NEW j \in 1 .. Len(s) - 1
      PROVE  (front \o back)[j] = IF j < i THEN s[j] ELSE s[j + 1]
  <2>1. CASE j < i
    BY <1>1, <1>2, <1>3, <2>1
  <2>2. CASE ~(j < i)
    <3>1. j - (i - 1) \in 1 .. Len(s) - i /\ i + (j - (i - 1)) = j + 1
      BY <1>3, <2>2
    <3>2. (front \o back)[j] = back[j - Len(front)]
      BY <1>1, <1>2, <1>3, <2>2
    <3> QED BY <1>1, <1>2, <2>2, <3>1, <3>2
  <2> QED BY <2>1, <2>2
<1>6. DOMAIN (front \o back) = 1 .. Len(s) - 1
  BY <1>4, LenProperties
<1> QED BY <1>3, <1>5, <1>6 DEF front, back

\* One root less.
LEMMA RootRemoved ==
    ASSUME TypeOK, FreeInv, NEW i \in DOMAIN roots, sp_free(i)
    PROVE  /\ Range(roots') = Range(roots) \ {roots[i]}
           /\ \A k, l \in DOMAIN roots' : roots'[k] = roots'[l] => k = l
<1> DEFINE n == Len(roots)
<1>1. roots \in Seq(Ids) /\ n \in Nat /\ i \in 1 .. n /\ DOMAIN roots = 1 .. n
  BY LenProperties DEF TypeOK
<1>2. DOMAIN roots' = 1 .. n - 1
  BY <1>1, Removed DEF sp_free
<1>3. \A k \in 1 .. n - 1 : roots'[k] = IF k < i THEN roots[k] ELSE roots[k + 1]
  BY <1>1, Removed DEF sp_free
<1> HIDE DEF n
<1>4. \A k, l \in 1 .. n : roots[k] = roots[l] => k = l
  BY <1>1 DEF FreeInv, Forest
<1>5. ASSUME NEW k \in 1 .. n, k # i PROVE \E l \in 1 .. n - 1 : roots'[l] = roots[k]
  <2>1. CASE k < i
    <3>1. k \in 1 .. n - 1 BY <1>1, <2>1
    <3> QED BY <1>3, <2>1, <3>1
  <2>2. CASE k > i
    <3>1. k - 1 \in 1 .. n - 1 /\ ~(k - 1 < i) /\ (k - 1) + 1 = k BY <1>1, <2>2
    <3>2. roots'[k - 1] = roots[(k - 1) + 1] BY <1>3, <3>1
    <3> QED BY <3>1, <3>2
  <2> QED BY <1>1, <1>5, <2>1, <2>2
<1>6. ASSUME NEW l \in 1 .. n - 1
       PROVE  \E k \in 1 .. n : k # i /\ roots'[l] = roots[k]
  <2>1. CASE l < i
    <3>1. l \in 1 .. n BY <1>1
    <3> QED BY <1>1, <1>3, <2>1, <3>1
  <2>2. CASE ~(l < i)
    <3>1. l + 1 \in 1 .. n /\ l + 1 # i BY <1>1, <2>2
    <3> QED BY <1>3, <2>2, <3>1
  <2> QED BY <2>1, <2>2
<1>7. Range(roots') = Range(roots) \ {roots[i]}
  <2>1. ASSUME NEW x \in Range(roots') PROVE x \in Range(roots) /\ x # roots[i]
    <3>1. PICK l \in 1 .. n - 1 : x = roots'[l] BY <1>2, <2>1 DEF Range
    <3>2. PICK k \in 1 .. n : k # i /\ roots'[l] = roots[k] BY <1>6
    <3> QED BY <1>1, <1>4, <3>1, <3>2 DEF Range
  <2>2. ASSUME NEW x \in Range(roots), x # roots[i] PROVE x \in Range(roots')
    <3>1. PICK k \in 1 .. n : x = roots[k] BY <1>1, <2>2 DEF Range
    <3>2. PICK l \in 1 .. n - 1 : roots'[l] = roots[k] BY <1>5, <2>2, <3>1
    <3> QED BY <1>2, <3>1, <3>2 DEF Range
  <2> QED BY <2>1, <2>2
<1>8. ASSUME NEW k \in 1 .. n - 1, NEW l \in 1 .. n - 1, roots'[k] = roots'[l]
       PROVE  k = l
  <2> DEFINE Old(m) == IF m < i THEN m ELSE m + 1
  <2>1. Old(k) \in 1 .. n /\ Old(l) \in 1 .. n /\ (Old(k) = Old(l) => k = l)
    BY <1>1
  <2>2. roots'[k] = roots[Old(k)] /\ roots'[l] = roots[Old(l)]
    BY <1>3
  <2> HIDE DEF Old
  <2> QED BY <1>4, <1>8, <2>1, <2>2
<1> QED BY <1>2, <1>7, <1>8

\* The caller's sp_free is for a live root.
LEMMA FreeRootFrees ==
    ASSUME TypeOK, FreeInv, NEW i \in DOMAIN roots, sp_free(i)
    PROVE  FreeInv'
<1> DEFINE n == roots[i]
<1>1. /\ todo' = << Free(n, 1) >> /\ call = NULL /\ call' = NULL /\ Idle
      /\ node' = node /\ freed' = freed /\ seen' = seen
  BY DEF sp_free, Idle
<1>2. DOMAIN todo' = {1} /\ todo'[1] = Free(n, 1)
  BY <1>1
<1>3. n \in Ids /\ n \notin freed
  BY <1>1, RootsLive
<1>4. /\ Range(roots') = Range(roots) \ {n}
      /\ \A k, l \in DOMAIN roots' : roots'[k] = roots'[l] => k = l
  BY RootRemoved
<1>5. n \in Range(roots)
  BY DEF Range
<1>6. \A p \in Ids : \A j \in DOMAIN Children(p) :
         Children(p)[j] # n /\ Children(p)[j] \notin Range(roots)
  BY DEF FreeInv, Forest, Range
<1> HIDE DEF n
<1>7. /\ FreeFrames(todo') = {1} /\ BeingFreed(todo', call') = {n}
      /\ \A p, j : Passed(todo', p, j) <=> n = p /\ j < 1
      /\ Freeing(todo', call')
  BY <1>1, <1>2 DEF FreeFrames, BeingFreed, Passed, Free, Freeing
<1>8. BeingFreed(todo, call) = {} /\ \A p, j : ~Passed(todo, p, j)
  BY <1>1, IdleFrees, NoFrees
<1>9. Ids' = Ids /\ \A p : Children(p)' = Children(p)
  BY <1>1 DEF Ids, Children
<1>10. Forest'
  <2>1. \A k \in DOMAIN roots' : roots'[k] \in Range(roots)
    BY <1>4 DEF Range
  <2> QED BY <1>4, <1>6, <1>9, <2>1 DEF FreeInv, Forest
<1>11. ChildrenFreed'
  <2>1. ASSUME NEW p \in Ids, NEW j \in DOMAIN Children(p), Children(p)[j] # NULL
        PROVE  (Children(p)[j] \in freed <=> p \in freed) /\ ~(j < 1)
    BY <1>8, <2>1, TreeFacts DEF FreeInv, ChildrenFreed
  <2>2. \A p \in Ids : \A j \in DOMAIN Children(p) :
           Children(p)[j] # NULL =>
             (Children(p)[j] \in freed
                <=> \/ p \in freed
                    \/ /\ Passed(todo', p, j)
                       /\ Children(p)[j] \notin BeingFreed(todo', call'))
    BY <1>7, <2>1
  <2> QED BY <1>1, <1>9, <2>2 DEF ChildrenFreed
<1>12. TreesFreed'
  BY <1>1, <1>4, <1>5, <1>7, <1>8, <1>9 DEF FreeInv, TreesFreed, Parentless
<1>13. NoneTwice'
  BY <1>1, <1>2, <1>3, <1>7 DEF NoneTwice, Free
<1>14. LoopsAbove'
  BY <1>4, <1>6, <1>7, <1>9 DEF LoopsAbove
<1>15. StackGrows'
  BY <1>1, <1>7 DEF StackGrows
<1>16. DataGone'
  BY <1>1, <1>9 DEF FreeInv, DataGone
<1> QED BY <1>7, <1>10, <1>11, <1>12, <1>13, <1>14, <1>15, <1>16 DEF FreeInv

\* While sp_free is at a node, the other nodes on the stack are above it in
\* the tree.
LEMMA FreeTop ==
    ASSUME TypeOK, FreeInv, NEW types, At("sp_free", types)
    PROVE  LET n == Top.node
           IN  /\ Freeing(todo, call) /\ FreeFrames(todo) = DOMAIN todo
               /\ BeingFreed(todo, call) = {todo[k].node : k \in DOMAIN todo}
               /\ n \in BeingFreed(todo, call) /\ n \notin freed
               /\ Top.at \in Nat \ {0} /\ Top = Free(n, Top.at)
               /\ \A k \in DOMAIN todo :
                     k # 1 => todo[k].node # n /\ (todo[k].node # NULL => n < todo[k].node)
<1> DEFINE n == Top.node
<1>1. /\ Top = todo[1] /\ 1 \in DOMAIN todo /\ Top.op = "sp_free" /\ n \in Ids
      /\ call = NULL /\ DOMAIN todo = 1 .. Len(todo) /\ Len(todo) \in Nat
  BY PopFacts
<1>2. Freeing(todo, call)
  BY <1>1 DEF FreeInv, Refreshing
<1>3. /\ FreeFrames(todo) = DOMAIN todo
      /\ BeingFreed(todo, call) = {todo[k].node : k \in DOMAIN todo}
  BY <1>1, <1>2 DEF Freeing, FreeFrames, BeingFreed
<1>4. n \in BeingFreed(todo, call) /\ n \notin freed
  BY <1>1, <1>3 DEF FreeInv, NoneTwice
<1>5. Top.at \in Nat \ {0} /\ Top = Free(n, Top.at)
  <2>1. Top \in Frames(Ids \cup NoChild) /\ Top.at \in Nat \ {0}
    BY TopFrame
  <2> QED BY <1>1, <2>1 DEF Frames, Free
<1>6. ASSUME NEW k \in DOMAIN todo, k # 1
      PROVE  todo[k].node # n /\ (todo[k].node # NULL => n < todo[k].node)
  <2>1. 1 < k BY <1>1, <1>6
  <2>2. n # NULL /\ n \in Nat BY <1>1, TreeFacts
  <2>3. todo[k].node # NULL => n < todo[k].node
    BY <1>1, <1>3, <2>1, <2>2 DEF FreeInv, StackGrows
  <2> QED BY <2>2, <2>3
<1> QED BY <1>2, <1>3, <1>4, <1>5, <1>6

\* A leaf that is to be freed is so by its callback.
LEMMA FreeLeafFrees == TypeOK /\ FreeInv /\ FreeLeaf => FreeInv'
<1> SUFFICES ASSUME TypeOK, FreeInv, FreeLeaf PROVE FreeInv'
  OBVIOUS
<1> DEFINE n == Top.node
<1>1. At("sp_free", {"SP_LEAF"}) /\ todo' = Tail(todo)
  BY DEF FreeLeaf
<1>2. /\ node' = node /\ roots' = roots /\ freed' = freed /\ seen' = seen
      /\ call' = [fn |-> "free_data", leaf |-> n, flags |-> {}]
  BY DEF FreeLeaf
<1>3. /\ n \in Ids /\ DOMAIN Children(n) = {} /\ Top = todo[1] /\ 1 \in DOMAIN todo
      /\ n \in Nat /\ DOMAIN todo = 1 .. Len(todo) /\ Len(todo) \in Nat
  BY <1>1, PopFacts, TreeFacts
<1>4. /\ \A k \in DOMAIN todo' :
            k + 1 \in DOMAIN todo /\ k + 1 # 1 /\ todo'[k] = todo[k + 1]
      /\ \A l \in DOMAIN todo :
            l # 1 => l - 1 \in DOMAIN todo' /\ todo'[l - 1] = todo[l]
  BY <1>1, PopFacts
<1>5. /\ Freeing(todo, call) /\ FreeFrames(todo) = DOMAIN todo
      /\ BeingFreed(todo, call) = {todo[k].node : k \in DOMAIN todo}
      /\ n \in BeingFreed(todo, call) /\ n \notin freed
      /\ \A k \in DOMAIN todo :
            k # 1 => todo[k].node # n /\ (todo[k].node # NULL => n < todo[k].node)
  BY <1>1, FreeTop
<1>6. call' # NULL
  <2>1. call' \in Callbacks
    BY <1>2, <1>3 DEF Callbacks
  <2> QED BY <2>1, NullAssumption
<1>7. /\ n = Top.node
      /\ call' = [fn |-> "free_data", leaf |-> n, flags |-> {}]
  BY <1>2
<1> HIDE DEF n
<1>8. call'.fn = "free_data" /\ call'.leaf = n
  BY <1>7
<1>9. /\ Freeing(todo', call') /\ FreeFrames(todo') = DOMAIN todo'
  BY <1>4, <1>5, <1>8 DEF Freeing, FreeFrames
<1>10. BeingFreed(todo', call') = BeingFreed(todo, call)
  <2>1. BeingFreed(todo', call') = {todo'[k].node : k \in DOMAIN todo'} \cup {n}
    BY <1>6, <1>8, <1>9 DEF BeingFreed
  <2>2. ASSUME NEW a \in BeingFreed(todo', call') PROVE a \in BeingFreed(todo, call)
    BY <1>4, <1>5, <2>1, <2>2
  <2>3. ASSUME NEW a \in BeingFreed(todo, call) PROVE a \in BeingFreed(todo', call')
    <3>1. PICK k \in DOMAIN todo : a = todo[k].node
      BY <1>5, <2>3
    <3>2. CASE k = 1
      BY <1>3, <1>7, <2>1, <3>1, <3>2
    <3>3. CASE k # 1
      BY <1>4, <2>1, <3>1, <3>3
    <3> QED BY <3>2, <3>3
  <2> QED BY <2>2, <2>3
<1>11. ASSUME NEW p, p # n, NEW j
       PROVE  Passed(todo', p, j) <=> Passed(todo, p, j)
  <2>1. ASSUME Passed(todo, p, j) PROVE Passed(todo', p, j)
    <3>1. PICK k \in DOMAIN todo : todo[k].node = p /\ j < todo[k].at
      BY <1>5, <2>1 DEF Passed
    <3>2. k # 1
      BY <1>3, <1>7, <1>11, <3>1
    <3>3. k - 1 \in DOMAIN todo' /\ todo'[k - 1] = todo[k]
      BY <1>4, <3>2
    <3> QED BY <1>9, <3>1, <3>3 DEF Passed
  <2>2. ASSUME Passed(todo', p, j) PROVE Passed(todo, p, j)
    BY <1>4, <1>5, <1>9, <2>2 DEF Passed
  <2> QED BY <2>1, <2>2
<1>12. Ids' = Ids /\ \A p : Children(p)' = Children(p)
  BY <1>2 DEF Ids, Children
<1>13. Forest'
  BY <1>2, <1>12 DEF FreeInv, Forest
<1>14. ChildrenFreed'
  <2>1. \A p \in Ids : \A j \in DOMAIN Children(p) : p # n
    BY <1>3
  <2>2. ASSUME NEW p \in Ids, NEW j \in DOMAIN Children(p)
        PROVE  Passed(todo', p, j) <=> Passed(todo, p, j)
    BY <1>11, <2>1
  <2> QED BY <1>2, <1>10, <1>12, <2>2 DEF FreeInv, ChildrenFreed
<1>15. TreesFreed'
  BY <1>2, <1>10, <1>12 DEF FreeInv, TreesFreed, Parentless
<1>16. NoneTwice'
  BY <1>2, <1>4, <1>5, <1>8, <1>10 DEF FreeInv, NoneTwice
<1>17. LoopsAbove'
  <2>1. ASSUME NEW a \in BeingFreed(todo, call), NEW p \in Ids,
               NEW j \in DOMAIN Children(p), Children(p)[j] = a, a # NULL
        PROVE  \E k \in DOMAIN todo' : todo'[k] = Free(p, j + 1)
    <3>1. PICK k \in DOMAIN todo : todo[k] = Free(p, j + 1)
      BY <2>1 DEF FreeInv, LoopsAbove
    <3>2. k # 1
      BY <1>3, <1>7, <3>1 DEF Free
    <3> QED BY <1>4, <3>1, <3>2
  <2> QED BY <1>2, <1>10, <1>12, <2>1 DEF FreeInv, LoopsAbove
<1>18. StackGrows'
  <2>1. ASSUME NEW k \in DOMAIN todo', NEW l \in DOMAIN todo', k < l,
               todo'[k].node # NULL, todo'[l].node # NULL
        PROVE  todo'[k].node < todo'[l].node
    <3>1. k + 1 < l + 1
      BY <1>3, <1>4, <2>1
    <3> QED BY <1>4, <1>5, <2>1, <3>1 DEF FreeInv, StackGrows
  <2>2. \A k \in DOMAIN todo' : todo'[k].node # NULL => n < todo'[k].node
    BY <1>4, <1>5
  <2> QED BY <1>8, <1>9, <2>1, <2>2 DEF StackGrows
<1>19. DataGone'
  BY <1>2, <1>12 DEF FreeInv, DataGone
<1> QED BY <1>9, <1>13, <1>14, <1>15, <1>16, <1>17, <1>18, <1>19 DEF FreeInv

\* A leaf is freed with its data.
LEMMA FreeDataFrees == TypeOK /\ FreeInv /\ FreeDataReturns => FreeInv'
<1> SUFFICES ASSUME TypeOK, FreeInv, FreeDataReturns PROVE FreeInv'
  OBVIOUS
<1> DEFINE n == call.leaf
<1>1. /\ node' = node /\ roots' = roots /\ todo' = todo /\ call' = NULL
      /\ freed' = freed \cup {n} /\ seen' = [seen EXCEPT ![n] = NULL]
      /\ call # NULL /\ call.fn = "free_data"
  BY DEF FreeDataReturns, Running
<1>2. n \in Ids /\ node[n].type = "SP_LEAF" /\ n # NULL
  BY <1>1, TreeFacts DEF TypeOK
<1>3. DOMAIN Children(n) = {}
  BY <1>2, TreeFacts
<1>4. Freeing(todo, call) /\ FreeFrames(todo) = DOMAIN todo
  BY <1>1 DEF FreeInv, Refreshing, Freeing, FreeFrames
<1>5. BeingFreed(todo, call) = {todo[k].node : k \in DOMAIN todo} \cup {n}
  BY <1>1, <1>4 DEF BeingFreed
<1>6. \A k \in DOMAIN todo : todo[k].node # n
  BY <1>1, <1>2, <1>4, TreeFacts DEF FreeInv, StackGrows
<1>7. BeingFreed(todo', call') = BeingFreed(todo, call) \ {n}
  BY <1>1, <1>4, <1>5, <1>6 DEF BeingFreed
<1>8. Ids' = Ids /\ \A p : Children(p)' = Children(p)
  BY <1>1 DEF Ids, Children
<1>9. n \in BeingFreed(todo, call)
  BY <1>5
<1> HIDE DEF n
<1>10. Freeing(todo', call')
  BY <1>1, <1>4 DEF Freeing
<1>11. Forest'
  BY <1>1, <1>8 DEF FreeInv, Forest
<1>12. ChildrenFreed'
  <2>1. ASSUME NEW p \in Ids, NEW j \in DOMAIN Children(p),
               Children(p)[j] # NULL
        PROVE  Children(p)[j] \in freed' <=>
                 \/ p \in freed'
                 \/ Passed(todo, p, j) /\ Children(p)[j] \notin BeingFreed(todo', call')
    <3>1. CASE Children(p)[j] = n
      <4>1. PICK k \in DOMAIN todo : todo[k] = Free(p, j + 1)
        BY <1>9, <2>1, <3>1 DEF FreeInv, LoopsAbove
      <4>2. j \in Nat
        BY TreeFacts
      <4>3. todo[k].node = p /\ j < todo[k].at
        BY <4>1, <4>2 DEF Free
      <4>4. Passed(todo, p, j)
        BY <1>4, <4>3 DEF Passed
      <4> QED BY <1>1, <1>7, <3>1, <4>4
    <3>2. CASE Children(p)[j] # n
      <4>1. p # n
        BY <1>3
      <4> QED BY <1>1, <1>7, <2>1, <3>2, <4>1 DEF FreeInv, ChildrenFreed
    <3> QED BY <3>1, <3>2
  <2> QED BY <1>1, <1>8, <2>1 DEF ChildrenFreed
<1>13. TreesFreed'
  <2>1. n \notin Range(roots)
    BY <1>9 DEF FreeInv, LoopsAbove
  <2>2. \A m \in Ids : Parentless(m)' <=> Parentless(m)
    BY <1>8 DEF Parentless
  <2> QED BY <1>1, <1>7, <1>8, <2>1, <2>2 DEF FreeInv, TreesFreed
<1>14. NoneTwice'
  BY <1>1, <1>6, <1>7 DEF FreeInv, NoneTwice
<1>15. LoopsAbove'
  BY <1>1, <1>7, <1>8 DEF FreeInv, LoopsAbove
<1>16. StackGrows'
  BY <1>1 DEF FreeInv, StackGrows
<1>17. DataGone'
  <2>1. DOMAIN seen = Ids /\ freed \subseteq Ids
    BY LenProperties DEF TypeOK, Ids
  <2> QED BY <1>1, <1>2, <1>8, <2>1 DEF FreeInv, DataGone
<1> QED BY <1>10, <1>11, <1>12, <1>13, <1>14, <1>15, <1>16, <1>17 DEF FreeInv

\* The loop over the children goes on to the next one.
LEMMA FreeChildFrees == TypeOK /\ FreeInv /\ FreeChild => FreeInv' /\ Freeing(todo', call')
<1> SUFFICES ASSUME TypeOK, FreeInv, FreeChild
             PROVE  FreeInv' /\ Freeing(todo', call')
  OBVIOUS
<1> DEFINE n == Top.node
           at == Top.at
           c == Children(n)[at]
           F == Frames(Ids \cup NoChild)
           f == << Free(c, 1), Free(n, at + 1) >>
<1>1. At("sp_free", {"SP_SPLIT", "SP_QUAD"}) /\ todo' = f \o Tail(todo)
  BY DEF FreeChild
<1>2. /\ node' = node /\ roots' = roots /\ freed' = freed /\ seen' = seen
      /\ call' = call /\ call = NULL
  BY <1>1, PopFacts DEF FreeChild
<1>3. /\ n \in Ids /\ Top = todo[1] /\ 1 \in DOMAIN todo /\ n \in Nat
      /\ DOMAIN todo = 1 .. Len(todo) /\ Len(todo) \in Nat
  BY <1>1, PopFacts, TreeFacts
<1>4. /\ Freeing(todo, call) /\ FreeFrames(todo) = DOMAIN todo
      /\ BeingFreed(todo, call) = {todo[k].node : k \in DOMAIN todo}
      /\ n \in BeingFreed(todo, call) /\ n \notin freed
      /\ at \in Nat \ {0} /\ Top = Free(n, at)
      /\ \A k \in DOMAIN todo :
            k # 1 => todo[k].node # n /\ (todo[k].node # NULL => n < todo[k].node)
  BY <1>1, FreeTop
<1>5. at \in DOMAIN Children(n)
  BY <1>3, <1>4, TreeFacts DEF FreeChild, LoopEnd
<1>6. /\ c # NULL => c \in Ids /\ c < n
      /\ NULL \notin Ids /\ Ids \subseteq Nat
      /\ \A p \in Ids : \A j \in DOMAIN Children(p) : j \in Nat \ {0}
      /\ \A p \in Ids : \A j \in DOMAIN Children(p) :
            Children(p)[j] # NULL => Children(p)[j] \in Ids /\ Children(p)[j] < p
  BY <1>3, <1>5, TreeFacts
<1>7. /\ \A p \in Ids : \A j \in DOMAIN Children(p) :
            Children(p)[j] = c /\ c # NULL => p = n /\ j = at
      /\ c \notin Range(roots)
  BY <1>3, <1>5 DEF FreeInv, Forest, Range
<1> HIDE DEF c
<1>8. Free(c, 1) \in F /\ Free(n, at + 1) \in F
  <2>1. c \in Ids \cup NoChild
    <3>1. n \in 1 .. Len(node) /\ Ids = 1 .. Len(node) /\ Len(node) \in Nat
      BY <1>3, LenProperties DEF TypeOK, Ids
    <3> QED BY <1>3, <1>5, <3>1 DEF TypeOK, c
  <2> QED BY <1>3, <1>4, <2>1 DEF Free, Frames
<1>9. todo \in Seq(F) /\ todo # << >>
  BY <1>1 DEF TypeOK, At
<1> HIDE DEF F
<1>10. f \in Seq(F) /\ Len(f) = 2 /\ f[1] = Free(c, 1) /\ f[2] = Free(n, at + 1)
  BY <1>8
<1> HIDE DEF f, n, at
<1>11. /\ \A k \in DOMAIN todo' :
             \/ k \in 1 .. Len(f) /\ todo'[k] = f[k]
             \/ k - Len(f) + 1 \in 2 .. Len(todo) /\ todo'[k] = todo[k - Len(f) + 1]
       /\ \A k \in 1 .. Len(f) : k \in DOMAIN todo' /\ todo'[k] = f[k]
       /\ \A k \in 2 .. Len(todo) :
             k + Len(f) - 1 \in DOMAIN todo' /\ todo'[k + Len(f) - 1] = todo[k]
       /\ todo' \in Seq(F)
  <2>1. todo' = f \o Tail(todo)
    BY <1>1
  <2>2. f \in Seq(F) /\ todo \in Seq(F) /\ todo # << >>
    BY <1>9, <1>10
  <2> QED BY <2>1, <2>2, PushFacts
<1>12. DOMAIN todo' \subseteq Nat
  BY <1>11, LenProperties
<1>13. /\ 1 \in DOMAIN todo' /\ todo'[1] = Free(c, 1)
       /\ 2 \in DOMAIN todo' /\ todo'[2] = Free(n, at + 1)
  BY <1>10, <1>11
<1>14. \A k \in DOMAIN todo' :
          k = 1 \/ k = 2 \/ (k - 1 \in DOMAIN todo /\ k - 1 > 1 /\ todo'[k] = todo[k - 1])
  <2>1. TAKE k \in DOMAIN todo'
  <2>2. CASE k \in 1 .. Len(f)
    BY <1>10, <2>2
  <2>3. CASE k - Len(f) + 1 \in 2 .. Len(todo) /\ todo'[k] = todo[k - Len(f) + 1]
    <3>1. k \in Nat /\ k - Len(f) + 1 = k - 1
      BY <1>10, <1>12
    <3> QED BY <1>3, <2>3, <3>1
  <2> QED BY <1>11, <2>2, <2>3
<1>15. \A l \in DOMAIN todo :
          l # 1 => l + 1 \in DOMAIN todo' /\ todo'[l + 1] = todo[l]
  <2>1. TAKE l \in DOMAIN todo
  <2>2. HAVE l # 1
  <2>3. l \in 2 .. Len(todo) /\ l + Len(f) - 1 = l + 1
    BY <1>3, <1>10, <2>2
  <2>4. l + Len(f) - 1 \in DOMAIN todo' /\ todo'[l + Len(f) - 1] = todo[l]
    BY <1>11, <2>3
  <2> QED BY <2>3, <2>4
<1>16. /\ todo'[1].op = "sp_free" /\ todo'[1].node = c /\ todo'[1].at = 1
       /\ todo'[2].op = "sp_free" /\ todo'[2].node = n /\ todo'[2].at = at + 1
       /\ todo[1].op = "sp_free" /\ todo[1].node = n /\ todo[1].at = at
  BY <1>3, <1>4, <1>13 DEF Free
<1>17. Freeing(todo', call') /\ FreeFrames(todo') = DOMAIN todo'
  <2>1. \A k \in DOMAIN todo' : todo'[k].op = "sp_free"
    BY <1>4, <1>14, <1>16 DEF Freeing
  <2> QED BY <1>2, <2>1 DEF Freeing, FreeFrames
<1>18. BeingFreed(todo', call') = BeingFreed(todo, call) \cup {c}
  <2>1. BeingFreed(todo', call') = {todo'[k].node : k \in DOMAIN todo'}
    BY <1>2, <1>17 DEF BeingFreed
  <2>2. ASSUME NEW a \in BeingFreed(todo', call')
        PROVE  a \in BeingFreed(todo, call) \/ a = c
    <3>1. PICK k \in DOMAIN todo' : a = todo'[k].node
      BY <2>1, <2>2
    <3> QED BY <1>4, <1>14, <1>16, <3>1
  <2>3. ASSUME NEW a \in BeingFreed(todo, call) PROVE a \in BeingFreed(todo', call')
    <3>1. PICK k \in DOMAIN todo : a = todo[k].node
      BY <1>4, <2>3
    <3>2. CASE k = 1
      BY <1>13, <1>16, <2>1, <3>1, <3>2
    <3>3. CASE k # 1
      BY <1>15, <2>1, <3>1, <3>3
    <3> QED BY <3>2, <3>3
  <2>4. c \in BeingFreed(todo', call')
    BY <1>13, <1>16, <2>1
  <2> QED BY <2>2, <2>3, <2>4
<1>19. ASSUME NEW p, NEW j \in Nat \ {0}
       PROVE  Passed(todo', p, j) <=> Passed(todo, p, j) \/ (p = n /\ j = at)
  <2>1. ASSUME Passed(todo, p, j) PROVE Passed(todo', p, j)
    <3>1. PICK k \in DOMAIN todo : todo[k].node = p /\ j < todo[k].at
      BY <1>4, <2>1 DEF Passed
    <3>2. CASE k = 1
      <4>1. p = n /\ j < at + 1
        BY <1>4, <1>16, <3>1, <3>2
      <4> QED BY <1>13, <1>16, <1>17, <4>1 DEF Passed
    <3>3. CASE k # 1
      BY <1>15, <1>17, <3>1, <3>3 DEF Passed
    <3> QED BY <3>2, <3>3
  <2>2. ASSUME p = n, j = at PROVE Passed(todo', p, j)
    BY <1>4, <1>13, <1>16, <1>17, <2>2 DEF Passed
  <2>3. ASSUME Passed(todo', p, j) PROVE Passed(todo, p, j) \/ (p = n /\ j = at)
    <3>1. PICK k \in DOMAIN todo' : todo'[k].node = p /\ j < todo'[k].at
      BY <1>17, <2>3 DEF Passed
    <3>2. k # 1
      BY <1>16, <3>1
    <3>3. CASE k = 2
      <4>1. p = n /\ (j < at \/ j = at)
        BY <1>4, <1>16, <3>1, <3>3
      <4> QED BY <1>3, <1>4, <1>16, <4>1 DEF Passed
    <3>4. CASE k # 2
      BY <1>4, <1>14, <3>1, <3>2, <3>4 DEF Passed
    <3> QED BY <3>3, <3>4
  <2> QED BY <2>1, <2>2, <2>3
<1>20. \A a \in BeingFreed(todo, call) : a # NULL => ~(a < n) /\ a # c
  <2>1. TAKE a \in BeingFreed(todo, call)
  <2>2. HAVE a # NULL
  <2>3. PICK k \in DOMAIN todo : a = todo[k].node
    BY <1>4
  <2>4. a \in Ids
    <3>1. todo[k] \in Frames(Ids \cup NoChild)
      BY <1>3, ElementOfSeq DEF TypeOK
    <3> QED BY <2>2, <2>3, <3>1 DEF Frames, NoChild
  <2>5. a = n \/ n < a
    BY <1>4, <1>16, <2>2, <2>3
  <2> QED BY <1>3, <1>6, <2>2, <2>4, <2>5
<1>21. c \notin freed
  <2>1. CASE c = NULL
    BY <1>6, <2>1 DEF TypeOK
  <2>2. CASE c # NULL
    <3>1. ~Passed(todo, n, at)
      BY <1>4, <1>16 DEF Passed
    <3> QED BY <1>3, <1>4, <1>5, <2>2, <3>1 DEF FreeInv, ChildrenFreed, c
  <2> QED BY <2>1, <2>2
<1>22. Ids' = Ids /\ \A p : Children(p)' = Children(p)
  BY <1>2 DEF Ids, Children
<1>23. Forest'
  BY <1>2, <1>22 DEF FreeInv, Forest
<1>24. ChildrenFreed'
  <2>1. ASSUME NEW p \in Ids, NEW j \in DOMAIN Children(p), Children(p)[j] # NULL
        PROVE  Children(p)[j] \in freed <=>
                 \/ p \in freed
                 \/ Passed(todo', p, j) /\ Children(p)[j] \notin BeingFreed(todo', call')
    <3>1. j \in Nat \ {0}
      BY <1>6
    <3>2. CASE p = n /\ j = at
      BY <1>4, <1>18, <1>21, <3>2 DEF c
    <3>3. CASE ~(p = n /\ j = at)
      <4>1. Children(p)[j] # c
        BY <1>7, <2>1, <3>3
      <4>2. Passed(todo', p, j) <=> Passed(todo, p, j)
        BY <1>19, <3>1, <3>3
      <4> QED BY <1>18, <2>1, <4>1, <4>2 DEF FreeInv, ChildrenFreed
    <3> QED BY <3>2, <3>3
  <2> QED BY <1>2, <1>22, <2>1 DEF ChildrenFreed
<1>25. TreesFreed'
  <2>1. \A m \in Ids : Parentless(m)' <=> Parentless(m)
    BY <1>22 DEF Parentless
  <2>2. \A m \in Ids : Parentless(m) => m # c
    BY <1>3, <1>5 DEF Parentless, c
  <2> QED BY <1>2, <1>18, <1>22, <2>1, <2>2 DEF FreeInv, TreesFreed
<1>26. NoneTwice'
  <2>1. \A k \in DOMAIN todo' : todo'[k].node \in BeingFreed(todo', call')
    BY <1>2, <1>17 DEF BeingFreed
  <2>2. BeingFreed(todo', call') \cap freed = {}
    BY <1>18, <1>21 DEF FreeInv, NoneTwice
  <2> QED BY <1>2, <2>1, <2>2 DEF NoneTwice
<1>27. LoopsAbove'
  <2>1. ASSUME NEW a \in BeingFreed(todo', call'), NEW p \in Ids,
               NEW j \in DOMAIN Children(p), Children(p)[j] = a, a # NULL
        PROVE  \E k \in DOMAIN todo' : todo'[k] = Free(p, j + 1)
    <3>1. CASE a = c
      BY <1>7, <1>13, <2>1, <3>1
    <3>2. CASE a # c
      <4>1. a \in BeingFreed(todo, call)
        BY <1>18, <3>2
      <4>2. PICK k \in DOMAIN todo : todo[k] = Free(p, j + 1)
        BY <2>1, <4>1 DEF FreeInv, LoopsAbove
      <4>3. k # 1
        <5>1. ASSUME k = 1 PROVE FALSE
          <6>1. p = n
            BY <1>16, <4>2, <5>1 DEF Free
          <6> QED BY <1>6, <1>20, <2>1, <4>1, <6>1
        <5> QED BY <5>1
      <4> QED BY <1>15, <4>2, <4>3
    <3> QED BY <3>1, <3>2
  <2>2. \A a \in BeingFreed(todo', call') : a \notin Range(roots)
    BY <1>7, <1>18 DEF FreeInv, LoopsAbove
  <2> QED BY <1>2, <1>22, <2>1, <2>2 DEF LoopsAbove
<1>28. StackGrows'
  <2>1. ASSUME NEW k \in DOMAIN todo', NEW l \in DOMAIN todo', k < l,
               todo'[k].node # NULL, todo'[l].node # NULL
        PROVE  todo'[k].node < todo'[l].node
    <3>1. l # 1
      BY <1>12, <1>14, <2>1
    <3>2. CASE l = 2
      <4>1. k = 1 /\ c # NULL
        BY <1>12, <1>14, <1>16, <2>1, <3>2
      <4> QED BY <1>6, <1>16, <3>2, <4>1
    <3>3. CASE l # 2
      <4>1. l - 1 \in DOMAIN todo /\ l - 1 > 1 /\ todo'[l] = todo[l - 1]
        BY <1>14, <3>1, <3>3
      <4>2. n < todo[l - 1].node /\ todo[l - 1].node \in Nat
        <5>1. todo[l - 1] \in Frames(Ids \cup NoChild)
          BY <1>3, <4>1, ElementOfSeq DEF TypeOK
        <5>2. todo[l - 1].node \in Ids
          BY <2>1, <4>1, <5>1 DEF Frames, NoChild
        <5>3. l - 1 # 1 /\ todo[l - 1].node # NULL
          BY <2>1, <4>1
        <5> QED BY <1>4, <1>6, <4>1, <5>2, <5>3
      <4>3. CASE k = 1
        <5>1. c # NULL /\ c < n /\ c \in Nat /\ n \in Nat
          BY <1>3, <1>6, <1>16, <2>1, <4>3
        <5> QED BY <1>16, <4>1, <4>2, <4>3, <5>1
      <4>4. CASE k = 2
        BY <1>16, <4>1, <4>2, <4>4
      <4>5. CASE k # 1 /\ k # 2
        <5>1. k - 1 \in DOMAIN todo /\ todo'[k] = todo[k - 1] /\ k - 1 < l - 1
          BY <1>12, <1>14, <2>1, <4>5
        <5> QED BY <1>4, <2>1, <4>1, <5>1 DEF FreeInv, StackGrows
      <4> QED BY <4>3, <4>4, <4>5
    <3> QED BY <3>2, <3>3
  <2> QED BY <1>2, <1>17, <2>1 DEF StackGrows
<1>29. DataGone'
  BY <1>2, <1>22 DEF FreeInv, DataGone
<1> QED
  BY <1>17, <1>23, <1>24, <1>25, <1>26, <1>27, <1>28, <1>29 DEF FreeInv

\* A container is freed when all its children were.
LEMMA FreeContainerFrees == TypeOK /\ FreeInv /\ FreeContainer => FreeInv'
<1> SUFFICES ASSUME TypeOK, FreeInv, FreeContainer PROVE FreeInv'
  OBVIOUS
<1> DEFINE n == Top.node
           at == Top.at
<1>1. At("sp_free", {"SP_SPLIT", "SP_QUAD"}) /\ todo' = Tail(todo)
  BY DEF FreeContainer
<1>2. /\ node' = node /\ roots' = roots /\ seen' = seen /\ call' = call /\ call = NULL
      /\ freed' = freed \cup {n}
  BY <1>1, PopFacts DEF FreeContainer
<1>3. /\ n \in Ids /\ Top = todo[1] /\ 1 \in DOMAIN todo /\ n \in Nat /\ n # NULL
      /\ DOMAIN todo = 1 .. Len(todo) /\ Len(todo) \in Nat
      /\ node[n].type # "SP_LEAF"
  BY <1>1, PopFacts, TreeFacts
<1>4. /\ \A k \in DOMAIN todo' :
            k + 1 \in DOMAIN todo /\ k + 1 # 1 /\ todo'[k] = todo[k + 1]
      /\ \A l \in DOMAIN todo :
            l # 1 => l - 1 \in DOMAIN todo' /\ todo'[l - 1] = todo[l]
  BY <1>1, PopFacts
<1>5. /\ Freeing(todo, call) /\ FreeFrames(todo) = DOMAIN todo
      /\ BeingFreed(todo, call) = {todo[k].node : k \in DOMAIN todo}
      /\ n \in BeingFreed(todo, call) /\ n \notin freed
      /\ at \in Nat \ {0} /\ Top = Free(n, at)
      /\ \A k \in DOMAIN todo :
            k # 1 => todo[k].node # n /\ (todo[k].node # NULL => n < todo[k].node)
  BY <1>1, FreeTop
<1>6. \A j \in DOMAIN Children(n) : j < at /\ j \in Nat
  BY <1>3, <1>5, TreeFacts DEF FreeContainer, LoopEnd
<1>7. /\ NULL \notin Ids /\ Ids \subseteq Nat
      /\ \A p \in Ids : \A j \in DOMAIN Children(p) : j \in Nat \ {0}
      /\ \A p \in Ids : \A j \in DOMAIN Children(p) :
            Children(p)[j] # NULL => Children(p)[j] \in Ids /\ Children(p)[j] < p
  BY TreeFacts
<1>8. /\ todo[1].op = "sp_free" /\ todo[1].node = n /\ todo[1].at = at
  BY <1>3, <1>5 DEF Free
<1> HIDE DEF n, at
<1>9. Freeing(todo', call') /\ FreeFrames(todo') = DOMAIN todo'
  BY <1>2, <1>4, <1>5 DEF Freeing, FreeFrames
<1>10. BeingFreed(todo', call') = BeingFreed(todo, call) \ {n}
  <2>1. BeingFreed(todo', call') = {todo'[k].node : k \in DOMAIN todo'}
    BY <1>2, <1>9 DEF BeingFreed
  <2>2. ASSUME NEW a \in BeingFreed(todo', call')
        PROVE  a \in BeingFreed(todo, call) /\ a # n
    BY <1>4, <1>5, <2>1, <2>2
  <2>3. ASSUME NEW a \in BeingFreed(todo, call), a # n PROVE a \in BeingFreed(todo', call')
    <3>1. PICK k \in DOMAIN todo : a = todo[k].node
      BY <1>5, <2>3
    <3>2. k # 1
      BY <1>8, <2>3, <3>1
    <3> QED BY <1>4, <2>1, <3>1, <3>2
  <2> QED BY <2>2, <2>3
<1>11. ASSUME NEW p, p # n, NEW j
       PROVE  Passed(todo', p, j) <=> Passed(todo, p, j)
  <2>1. ASSUME Passed(todo, p, j) PROVE Passed(todo', p, j)
    <3>1. PICK k \in DOMAIN todo : todo[k].node = p /\ j < todo[k].at
      BY <1>5, <2>1 DEF Passed
    <3>2. k # 1
      BY <1>8, <1>11, <3>1
    <3>3. k - 1 \in DOMAIN todo' /\ todo'[k - 1] = todo[k]
      BY <1>4, <3>2
    <3> QED BY <1>9, <3>1, <3>3 DEF Passed
  <2>2. ASSUME Passed(todo', p, j) PROVE Passed(todo, p, j)
    BY <1>4, <1>5, <1>9, <2>2 DEF Passed
  <2> QED BY <2>1, <2>2
<1>12. Ids' = Ids /\ \A p : Children(p)' = Children(p)
  BY <1>2 DEF Ids, Children
<1>13. Forest'
  BY <1>2, <1>12 DEF FreeInv, Forest
<1>14. ASSUME NEW p \in Ids, NEW j \in DOMAIN Children(p), NEW k \in DOMAIN todo,
              Children(p)[j] # NULL, Children(p)[j] \in BeingFreed(todo, call),
              todo[k] = Free(p, j + 1)
       PROVE  k # 1
  <2>1. ASSUME k = 1 PROVE FALSE
    <3>1. p = n
      BY <1>8, <1>14, <2>1 DEF Free
    <3>2. PICK l \in DOMAIN todo : Children(p)[j] = todo[l].node
      BY <1>5, <1>14
    <3>3. Children(p)[j] \in Nat /\ Children(p)[j] < n
      BY <1>7, <1>14, <3>1
    <3>4. todo[l].node = n \/ n < todo[l].node
      BY <1>5, <1>8, <1>14, <3>2
    <3> QED BY <1>3, <3>2, <3>3, <3>4
  <2> QED BY <2>1
<1>15. ChildrenFreed'
  <2>1. ASSUME NEW p \in Ids, NEW j \in DOMAIN Children(p), Children(p)[j] # NULL
        PROVE  Children(p)[j] \in freed' <=>
                 \/ p \in freed'
                 \/ Passed(todo', p, j) /\ Children(p)[j] \notin BeingFreed(todo', call')
    <3>1. CASE Children(p)[j] = n
      <4>1. PICK k \in DOMAIN todo : todo[k] = Free(p, j + 1)
        BY <1>5, <2>1, <3>1 DEF FreeInv, LoopsAbove
      <4>2. k - 1 \in DOMAIN todo' /\ todo'[k - 1] = Free(p, j + 1)
        BY <1>4, <1>5, <1>14, <2>1, <3>1, <4>1
      <4>3. Passed(todo', p, j)
        BY <1>7, <1>9, <4>2 DEF Passed, Free
      <4> QED BY <1>2, <1>10, <3>1, <4>3 DEF n
    <3>2. CASE Children(p)[j] # n /\ p = n
      <4>1. Passed(todo, p, j)
        BY <1>3, <1>5, <1>6, <1>8, <3>2 DEF Passed
      <4>2. Children(p)[j] \notin BeingFreed(todo, call)
        <5>1. ASSUME NEW l \in DOMAIN todo, Children(p)[j] = todo[l].node PROVE FALSE
          <6>1. Children(p)[j] \in Nat /\ Children(p)[j] < n
            BY <1>7, <2>1, <3>2
          <6>2. todo[l].node = n \/ n < todo[l].node
            BY <1>5, <1>8, <2>1, <5>1
          <6> QED BY <1>3, <5>1, <6>1, <6>2
        <5> QED BY <1>5, <5>1
      <4>3. Children(p)[j] \in freed
        BY <2>1, <4>1, <4>2 DEF FreeInv, ChildrenFreed
      <4> QED BY <1>2, <3>2, <4>3 DEF n
    <3>3. CASE Children(p)[j] # n /\ p # n
      <4>1. Passed(todo', p, j) <=> Passed(todo, p, j)
        BY <1>11, <3>3
      <4>2. freed' = freed \cup {n}
        BY <1>2 DEF n
      <4> QED BY <1>10, <2>1, <3>3, <4>1, <4>2 DEF FreeInv, ChildrenFreed
    <3> QED BY <3>1, <3>2, <3>3
  <2> QED BY <1>2, <1>12, <2>1 DEF ChildrenFreed
<1>16. TreesFreed'
  <2>1. n \notin Range(roots)
    BY <1>5 DEF FreeInv, LoopsAbove
  <2>2. \A m \in Ids : Parentless(m)' <=> Parentless(m)
    BY <1>12 DEF Parentless
  <2>3. freed' = freed \cup {n}
    BY <1>2 DEF n
  <2> QED BY <1>2, <1>10, <1>12, <2>1, <2>2, <2>3 DEF FreeInv, TreesFreed
<1>17. NoneTwice'
  <2>1. freed' = freed \cup {n}
    BY <1>2 DEF n
  <2>2. \A k \in DOMAIN todo' : todo'[k].node \notin freed'
    BY <1>4, <1>5, <2>1 DEF FreeInv, NoneTwice
  <2> QED BY <1>2, <1>10, <2>1, <2>2 DEF FreeInv, NoneTwice
<1>18. LoopsAbove'
  <2>1. ASSUME NEW a \in BeingFreed(todo', call'), NEW p \in Ids,
               NEW j \in DOMAIN Children(p), Children(p)[j] = a, a # NULL
        PROVE  \E k \in DOMAIN todo' : todo'[k] = Free(p, j + 1)
    <3>1. PICK k \in DOMAIN todo : todo[k] = Free(p, j + 1)
      BY <1>10, <2>1 DEF FreeInv, LoopsAbove
    <3>2. k # 1
      BY <1>10, <1>14, <2>1, <3>1
    <3> QED BY <1>4, <3>1, <3>2
  <2>2. \A a \in BeingFreed(todo', call') : a \notin Range(roots)
    BY <1>10 DEF FreeInv, LoopsAbove
  <2> QED BY <1>2, <1>12, <2>1, <2>2 DEF LoopsAbove
<1>19. StackGrows'
  <2>1. ASSUME NEW k \in DOMAIN todo', NEW l \in DOMAIN todo', k < l,
               todo'[k].node # NULL, todo'[l].node # NULL
        PROVE  todo'[k].node < todo'[l].node
    <3>1. k + 1 < l + 1
      BY <1>3, <1>4, <2>1
    <3> QED BY <1>4, <1>5, <2>1, <3>1 DEF FreeInv, StackGrows
  <2> QED BY <1>2, <1>9, <2>1 DEF StackGrows
<1>20. DataGone'
  <2>1. seen[n] = NULL
    BY <1>3 DEF FreeInv, DataGone
  <2>2. freed' = freed \cup {n}
    BY <1>2 DEF n
  <2> QED BY <1>2, <1>12, <2>1, <2>2 DEF FreeInv, DataGone
<1> QED
  BY <1>9, <1>13, <1>15, <1>16, <1>17, <1>18, <1>19, <1>20 DEF FreeInv

\* A constructor builds a node of the youngest roots.
Builds == \E new : \E args \in 0 .. Len(roots) : Create(new, args) /\ TakesRoots(new, args)

\* The youngest roots, one by one.
LEMMA YoungestAre ==
    ASSUME TypeOK, NEW k \in 1 .. Len(roots)
    PROVE  /\ Len(roots) \in Nat /\ Youngest(k) \in Seq(Ids) /\ Len(Youngest(k)) = k
           /\ DOMAIN Youngest(k) = 1 .. k
           /\ \A i \in 1 .. k : Youngest(k)[i] = roots[Len(roots) - k + i]
<1> DEFINE y == Youngest(k)
           a == Len(roots) - k + 1
<1>1. roots \in Seq(Ids) /\ Len(roots) \in Nat
  BY LenProperties DEF TypeOK
<1>2. \A i \in a .. Len(roots) : roots[i] \in Ids
  BY <1>1, ElementOfSeq
<1>3. y \in Seq(Ids) /\ Len(y) = k
  BY <1>1, <1>2, SubSeqProperties DEF Youngest
<1>4. \A i \in 1 .. k : y[i] = roots[a + i - 1]
  <2>1. a \in 1 .. Len(roots) + 1 /\ k = Len(roots) - a + 1
    BY <1>1
  <2>2. \A i \in 1 .. Len(roots) - a + 1 : SubSeq(roots, a, Len(roots))[i] = roots[a + i - 1]
    BY <1>1, <1>2, <2>1, SubSeqProperties
  <2> QED BY <2>1, <2>2 DEF Youngest
<1>5. \A i \in 1 .. k : a + i - 1 = Len(roots) - k + i
  BY <1>1
<1> HIDE DEF y, a
<1>6. DOMAIN y = 1 .. k
  BY <1>3, LenProperties
<1> QED BY <1>1, <1>3, <1>4, <1>5, <1>6 DEF y

\* sp_new_leaf takes no root.
LEMMA LeafBuilds == TypeOK /\ sp_new_leaf => Builds
<1> SUFFICES ASSUME TypeOK, sp_new_leaf PROVE Builds
  OBVIOUS
<1>1. 0 \in 0 .. Len(roots)
  BY LenProperties DEF TypeOK
<1>2. DOMAIN << >> = {} /\ Leaf.children = << >>
  BY DEF Leaf
<1>3. TakesRoots(Leaf, 0)
  BY <1>2 DEF TakesRoots
<1> QED BY <1>1, <1>3 DEF sp_new_leaf, Builds

\* sp_new_split takes three roots, or two and leaves out the gap.
LEMMA SplitBuilds ==
    ASSUME TypeOK, NEW cfg \in SplitConfigs, sp_new_split(cfg)
    PROVE  Builds
<1>1. Len(roots) \in Nat
  BY LenProperties DEF TypeOK
<1>2. CASE Len(roots) >= 3 /\ Create(Split(cfg, Youngest(3)), 3)
  <2> DEFINE new == Split(cfg, Youngest(3))
  <2>1. 3 \in 1 .. Len(roots) /\ 3 \in 0 .. Len(roots)
    BY <1>1, <1>2
  <2>2. new.children = Youngest(3)
    BY DEF Split
  <2>3. Create(new, 3)
    BY <1>2
  <2> HIDE DEF new
  <2>4. TakesRoots(new, 3)
    BY <2>1, <2>2, YoungestAre DEF TakesRoots
  <2> QED BY <2>1, <2>3, <2>4 DEF Builds
<1>3. CASE /\ NullGaps /\ Len(roots) >= 2
           /\ Create(Split(cfg, Append(Youngest(2), NULL)), 2)
  <2> DEFINE y == Youngest(2)
             T == Ids \cup {NULL}
             cs == Append(y, NULL)
             new == Split(cfg, cs)
  <2>1. 2 \in 1 .. Len(roots) /\ 2 \in 0 .. Len(roots)
    BY <1>1, <1>3
  <2>2. new.children = cs
    BY DEF Split
  <2>3. Create(new, 2)
    BY <1>3
  <2>4. /\ y \in Seq(Ids) /\ Len(y) = 2
        /\ \A i \in 1 .. 2 : y[i] = roots[Len(roots) - 2 + i]
    BY <2>1, YoungestAre
  <2>5. Ids \subseteq T /\ NULL \in T
    OBVIOUS
  <2> HIDE DEF y, T
  <2>6. y \in Seq(T)
    BY <2>4, <2>5, SeqMonotonic
  <2>7. /\ cs \in Seq(T) /\ Len(cs) = 3
        /\ \A i \in 1 .. 2 : cs[i] = y[i]
        /\ cs[3] = NULL
    <3>1. NULL \in T
      BY <2>5
    <3>2. /\ cs \in Seq(T) /\ Len(cs) = Len(y) + 1
          /\ \A i \in 1 .. Len(y) : cs[i] = y[i]
          /\ cs[Len(y) + 1] = NULL
      <4>1. cs = Append(y, NULL)
        OBVIOUS
      <4> HIDE DEF cs
      <4> QED BY <2>6, <3>1, <4>1
    <3> HIDE DEF cs
    <3> QED BY <2>4, <3>2
  <2> HIDE DEF new, cs
  <2>8. DOMAIN cs = 1 .. 3
    BY <2>7, LenProperties
  <2>9. TakesRoots(new, 2)
    BY <2>2, <2>4, <2>7, <2>8 DEF TakesRoots
  <2> QED BY <2>1, <2>3, <2>9 DEF Builds
<1> QED BY <1>2, <1>3 DEF sp_new_split

\* sp_new_quad takes nine roots.
LEMMA QuadBuilds ==
    ASSUME TypeOK, NEW cfg \in QuadConfigs, sp_new_quad(cfg)
    PROVE  Builds
<1> DEFINE new == Quad(cfg, Youngest(9))
<1>1. Len(roots) \in Nat
  BY LenProperties DEF TypeOK
<1>2. 9 \in 1 .. Len(roots) /\ 9 \in 0 .. Len(roots)
  BY <1>1 DEF sp_new_quad
<1>3. new.children = Youngest(9)
  BY DEF Quad
<1>4. Create(new, 9)
  BY DEF sp_new_quad
<1> HIDE DEF new
<1>5. TakesRoots(new, 9)
  BY <1>2, <1>3, YoungestAre DEF TakesRoots
<1> QED BY <1>2, <1>4, <1>5 DEF Builds

\* Nothing is freed at first.
LEMMA FreeInvInit == Init => FreeInv
<1> SUFFICES ASSUME Init PROVE FreeInv
  OBVIOUS
<1>1. Ids = {} /\ DOMAIN roots = {} /\ DOMAIN todo = {} /\ freed = {} /\ call = NULL
  BY DEF Init, Ids
<1>2. FreeFrames(todo) = {} /\ BeingFreed(todo, call) = {}
  BY <1>1 DEF FreeFrames, BeingFreed
<1> QED
  BY <1>1, <1>2
     DEF FreeInv, Forest, Freeing, ChildrenFreed, TreesFreed, NoneTwice,
         LoopsAbove, StackGrows, DataGone

\* Every step of Next does.
LEMMA FreeInvNext == TypeOK /\ TypeOK' /\ FreeInv /\ [Next]_vars => FreeInv'
<1> SUFFICES ASSUME TypeOK, TypeOK', FreeInv, [Next]_vars PROVE FreeInv'
  OBVIOUS
<1>1. CASE Builds
  BY <1>1, CreateFrees DEF Builds
<1>2. CASE sp_new_leaf
  BY <1>1, <1>2, LeafBuilds
<1>3. CASE \E cfg \in SplitConfigs : sp_new_split(cfg)
  BY <1>1, <1>3, SplitBuilds
<1>4. CASE \E cfg \in QuadConfigs : sp_new_quad(cfg)
  BY <1>1, <1>4, QuadBuilds
<1>5. CASE \E i \in DOMAIN roots, r \in ScreenRects : sp_refresh(roots[i], r)
  BY <1>5, RefreshRootFrees
<1>6. CASE \E i \in DOMAIN roots : sp_free(i)
  BY <1>6, FreeRootFrees
<1>7. CASE Return
  BY <1>7, RefreshContainerFrees, RefreshLeafFrees, DataFrees, FreeLeafFrees,
     FreeDataFrees, FreeChildFrees, FreeContainerFrees DEF Return
<1>8. CASE UNCHANGED vars
  BY <1>8 DEF vars, FreeInv, Forest, Freeing, Refreshing, ChildrenFreed, TreesFreed,
              NoneTwice, LoopsAbove, StackGrows, DataGone, Ids, Children, Parentless
<1> QED BY <1>2, <1>3, <1>4, <1>5, <1>6, <1>7, <1>8 DEF Next

\* What is freed at every moment of every run.
LEMMA FreeingCorrect == Spec => [](TypeOK /\ FreeInv)
<1>1. Init => FreeInv BY FreeInvInit
<1>2. FreeInv /\ (TypeOK /\ TypeOK' /\ [Next]_vars) => FreeInv' BY FreeInvNext
<1> QED BY <1>1, <1>2, TypeCorrect, PTL DEF Spec

-----------------------------------------------------------------------------
(* The nodes under a node *)

Closed(S) ==
    \A p \in S : \A j \in DOMAIN Children(p) :
        Children(p)[j] # NULL => Children(p)[j] \in S

Kids(n) == Range(Children(n)) \ {NULL}

\* The recursion of Under has a solution: the least set of nodes with n that
\* is closed.
LEMMA UnderIs ==
    ASSUME TypeOK
    PROVE  Under = [n \in Ids |-> {n} \cup UNION {Under[c] : c \in Kids(n)}]
<1> DEFINE D == [n \in Ids |-> {m \in Ids : \A S \in SUBSET Ids : n \in S /\ Closed(S) => m \in S}]
           G(n) == {n} \cup UNION {D[c] : c \in Kids(n)}
<1>1. \A n \in Ids : Kids(n) \subseteq Ids
  BY TreeFacts DEF Kids, Range
<1>2. \A n \in Ids : n \in D[n] /\ D[n] \subseteq Ids
  OBVIOUS
<1>3. \A n \in Ids : Closed(D[n])
  <2>1. ASSUME NEW n \in Ids, NEW p \in D[n], NEW j \in DOMAIN Children(p), Children(p)[j] # NULL
        PROVE  Children(p)[j] \in D[n]
    <3>1. p \in Ids /\ Children(p)[j] \in Ids
      BY <1>2, <2>1, TreeFacts
    <3>2. ASSUME NEW S \in SUBSET Ids, n \in S, Closed(S) PROVE Children(p)[j] \in S
      <4>1. p \in S
        BY <3>2
      <4> QED BY <2>1, <3>2, <4>1 DEF Closed
    <3> QED BY <3>1, <3>2
  <2> QED BY <2>1 DEF Closed
<1>4. \A n \in Ids : \A S \in SUBSET Ids : n \in S /\ Closed(S) => D[n] \subseteq S
  OBVIOUS
<1>5. DOMAIN D = Ids /\ D = [n \in Ids |-> D[n]]
  OBVIOUS
<1> HIDE DEF D
<1>6. ASSUME NEW n \in Ids PROVE D[n] = G(n)
  <2>1. n \in G(n) /\ G(n) \in SUBSET Ids
    BY <1>1, <1>2
  <2>2. Closed(G(n))
    <3>1. ASSUME NEW p \in G(n), NEW j \in DOMAIN Children(p), Children(p)[j] # NULL
          PROVE  Children(p)[j] \in G(n)
      <4>1. CASE p = n
        <5>1. Children(p)[j] \in Kids(n)
          BY <3>1, <4>1 DEF Kids, Range
        <5> QED BY <1>1, <1>2, <5>1
      <4>2. CASE p # n
        <5>1. PICK c \in Kids(n) : p \in D[c]
          BY <3>1, <4>2
        <5>2. Children(p)[j] \in D[c]
          BY <1>1, <1>3, <3>1, <5>1 DEF Closed
        <5> QED BY <5>2
      <4> QED BY <4>1, <4>2
    <3> HIDE DEF G
    <3> QED BY <3>1 DEF Closed
  <2>3. D[n] \subseteq G(n)
    <3> HIDE DEF G
    <3> QED BY <1>4, <2>1, <2>2
  <2>4. ASSUME NEW c \in Kids(n) PROVE D[c] \subseteq D[n]
    <3>1. c \in Ids /\ c \in D[n]
      BY <1>1, <1>2, <1>3 DEF Closed, Kids, Range
    <3> QED BY <1>2, <1>3, <1>4, <3>1
  <2> QED BY <1>2, <2>3, <2>4
<1>7. D = [n \in Ids |-> {n} \cup UNION {D[c] : c \in Kids(n)}]
  BY <1>5, <1>6
<1>8. \E f : f = [n \in Ids |-> {n} \cup UNION {f[c] : c \in Kids(n)}]
  BY <1>7
<1> QED BY <1>8 DEF Under, Kids

\* What is under a node.
LEMMA UnderFacts ==
    ASSUME TypeOK
    PROVE  \A n \in Ids :
              /\ n \in Under[n] /\ Under[n] \subseteq Ids /\ Closed(Under[n])
              /\ \A S : n \in S /\ Closed(S) => Under[n] \subseteq S
              /\ Under[n] = {n} \cup UNION {Under[c] : c \in Kids(n)}
<1>1. \A n \in Ids : Under[n] = {n} \cup UNION {Under[c] : c \in Kids(n)}
  <2>1. TAKE n \in Ids
  <2> DEFINE G(x) == {x} \cup UNION {Under[c] : c \in Kids(x)}
  <2>2. Under = [x \in Ids |-> G(x)]
    BY UnderIs
  <2> HIDE DEF G
  <2>3. Under[n] = G(n)
    BY <2>2
  <2> QED BY <2>3 DEF G
<1>2. \A n \in Ids : \A c \in Kids(n) : c \in Ids /\ c < n
  BY TreeFacts DEF Kids, Range
<1>3. Ids \subseteq Nat
  BY TreeFacts
<1>4. ASSUME NEW S, Closed(S), NEW n \in Ids, n \in S PROVE Under[n] \subseteq S
  <2> DEFINE Bad == {m \in Ids : m \in S /\ ~(Under[m] \subseteq S)}
  <2>1. SUFFICES ASSUME Bad # {} PROVE FALSE
    BY <1>4
  <2>2. Bad \subseteq Nat
    BY <1>3
  <2> HIDE DEF Bad
  <2>3. PICK m \in Bad : \A k \in Bad : m =< k
    BY <2>1, <2>2, Least
  <2>4. m \in Ids /\ m \in S /\ m \in Nat
    BY <1>3, <2>3 DEF Bad
  <2>5. ASSUME NEW c \in Kids(m) PROVE Under[c] \subseteq S
    <3>1. c \in Ids /\ c < m /\ c \in S /\ c \in Nat
      BY <1>2, <1>3, <1>4, <2>4 DEF Closed, Kids, Range
    <3>2. c \notin Bad
      BY <2>3, <2>4, <3>1
    <3> QED BY <3>1, <3>2 DEF Bad
  <2>6. Under[m] \subseteq S
    BY <1>1, <2>4, <2>5
  <2> QED BY <2>3, <2>6 DEF Bad
<1>5. \A n \in Ids : Under[n] \subseteq Ids
  <2>1. Closed(Ids)
    BY TreeFacts DEF Closed
  <2> QED BY <1>4, <2>1
<1>6. ASSUME NEW n \in Ids PROVE Closed(Under[n])
  <2> DEFINE Bad == {m \in Ids : ~Closed(Under[m])}
  <2>1. SUFFICES ASSUME Bad # {} PROVE FALSE
    OBVIOUS
  <2>2. Bad \subseteq Nat
    BY <1>3
  <2> HIDE DEF Bad
  <2>3. PICK m \in Bad : \A k \in Bad : m =< k
    BY <2>1, <2>2, Least
  <2>4. m \in Ids /\ m \in Nat
    BY <1>3, <2>3 DEF Bad
  <2>5. ASSUME NEW p \in Under[m], NEW j \in DOMAIN Children(p), Children(p)[j] # NULL
        PROVE  Children(p)[j] \in Under[m]
    <3>1. CASE p = m
      <4>1. Children(p)[j] \in Kids(m) /\ Children(p)[j] \in Ids
        BY <1>2, <2>4, <2>5, <3>1 DEF Kids, Range
      <4>2. Children(p)[j] \in Under[Children(p)[j]]
        BY <1>1, <4>1
      <4> QED BY <1>1, <2>4, <4>1, <4>2
    <3>2. CASE p # m
      <4>1. PICK c \in Kids(m) : p \in Under[c]
        BY <1>1, <2>4, <2>5, <3>2
      <4>2. c \in Ids /\ c < m /\ c \in Nat
        BY <1>2, <1>3, <2>4
      <4>3. c \notin Bad
        BY <2>3, <2>4, <4>2
      <4>4. Closed(Under[c])
        BY <4>2, <4>3 DEF Bad
      <4>5. Children(p)[j] \in Under[c]
        BY <2>5, <4>1, <4>4 DEF Closed
      <4> QED BY <1>1, <2>4, <4>5
    <3> QED BY <3>1, <3>2
  <2>6. Closed(Under[m])
    BY <2>5 DEF Closed
  <2> QED BY <2>3, <2>6 DEF Bad
<1>7. \A n \in Ids : n \in Under[n]
  BY <1>1
<1> QED BY <1>1, <1>4, <1>5, <1>6, <1>7

\* While no call runs, what is live is what is under the roots.
LEMMA LiveUnderRoots ==
    ASSUME TypeOK, FreeInv, Idle
    PROVE  freed = Ids \ UNION {Under[n] : n \in Range(roots)}
<1>1. BeingFreed(todo, call) = {} /\ \A p, j : ~Passed(todo, p, j)
  BY IdleFrees, NoFrees
<1>2. \A p \in Ids : \A j \in DOMAIN Children(p) :
         Children(p)[j] # NULL => (Children(p)[j] \in freed <=> p \in freed)
  BY <1>1 DEF FreeInv, ChildrenFreed
<1>3. \A r \in Range(roots) : r \in Ids /\ r \notin freed
  BY RootsLive DEF Range
<1>4. freed \subseteq Ids
  BY DEF TypeOK
<1>5. \A r \in Range(roots) : Under[r] \subseteq Ids \ freed
  <2>1. Closed(Ids \ freed)
    BY <1>2, TreeFacts DEF Closed
  <2> QED BY <1>3, <2>1, UnderFacts
<1>6. \A m \in Ids \ freed : \E r \in Range(roots) : m \in Under[r]
  <2> DEFINE Lost == {m \in Ids \ freed : \A r \in Range(roots) : m \notin Under[r]}
  <2>1. SUFFICES ASSUME Lost # {} PROVE FALSE
    OBVIOUS
  <2>2. Lost \subseteq 0 .. Len(node) /\ Len(node) \in Nat
    BY TreeFacts
  <2> HIDE DEF Lost
  <2>3. PICK m \in Lost : \A k \in Lost : k =< m
    BY <2>1, <2>2, Greatest
  <2>4. m \in Ids /\ m \notin freed /\ m \in Nat /\ m # NULL
    BY <2>3, TreeFacts DEF Lost
  <2>5. CASE Parentless(m)
    <3>1. m \in Range(roots)
      BY <1>1, <2>4, <2>5 DEF FreeInv, TreesFreed
    <3> QED BY <2>3, <2>4, <3>1, UnderFacts DEF Lost
  <2>6. CASE ~Parentless(m)
    <3>1. PICK p \in Ids : \E j \in DOMAIN Children(p) : Children(p)[j] = m
      BY <2>6 DEF Parentless
    <3>2. PICK j \in DOMAIN Children(p) : Children(p)[j] = m
      BY <3>1
    <3>3. p \notin freed /\ m < p /\ p \in Nat
      BY <1>2, <2>4, <3>2, TreeFacts
    <3>4. p \notin Lost
      BY <2>3, <2>4, <3>3
    <3>5. PICK r \in Range(roots) : p \in Under[r]
      BY <3>3, <3>4 DEF Lost
    <3>6. m \in Under[r]
      BY <1>3, <2>4, <3>2, <3>5, UnderFacts DEF Closed
    <3> QED BY <2>3, <3>5, <3>6 DEF Lost
  <2> QED BY <2>5, <2>6
<1> QED BY <1>4, <1>5, <1>6

\* sp_free frees the nodes under a root, each once, for every tree
\* (FreedOnce of Splitty, splitty.h:342-352).
THEOREM EachFreedOnce == Spec => []FreedOnce
<1>1. TypeOK /\ FreeInv => FreedOnce
  BY LiveUnderRoots DEF FreeInv, NoneTwice, DataGone, FreedOnce
<1> QED BY <1>1, FreeingCorrect, PTL

-----------------------------------------------------------------------------
(* What the callbacks are told *)

\* The flags of a resize are the difference to what the leaf last saw.
FlagsDue ==
    call # NULL =>
        /\ call.fn = "init_data" => seen[call.leaf] = NULL
        /\ call.fn = "resize" =>
              /\ seen[call.leaf] \in Rect
              /\ call.flags = Flags(seen[call.leaf], rect[call.leaf])

\* Only sp_refresh of a leaf starts a callback that is told something.
LEMMA FlagsDueNext ==
    TypeOK /\ TypeOK' /\ FreeInv /\ LeavesInformed /\ FlagsDue /\ [Next]_vars => FlagsDue'
<1> SUFFICES ASSUME TypeOK, TypeOK', FreeInv, LeavesInformed, FlagsDue, [Next]_vars
             PROVE  FlagsDue'
  OBVIOUS
<1>1. CASE RefreshLeaf
  <2> DEFINE n == Top.node
             flags == Flags(rect[n], Top.rect)
  <2>1. At("sp_refresh", {"SP_LEAF"})
    BY <1>1 DEF RefreshLeaf
  <2>2. /\ n \in Ids /\ node[n].type = "SP_LEAF" /\ call = NULL /\ n \notin freed
    BY <2>1, PopFacts, RefreshTop
  <2>3. /\ rect' = [rect EXCEPT ![n] = Top.rect] /\ seen' = seen
        /\ call' = Callback(n, flags)
    BY <1>1 DEF RefreshLeaf
  <2>4. rect'[n] = Top.rect /\ rect[n] \in Rect
    <3>1. DOMAIN rect = Ids /\ rect \in Seq(Rect)
      BY LenProperties DEF TypeOK, Ids
    <3>2. rect[n] \in Rect
      BY <2>2, <3>1, ElementOfSeq
    <3> HIDE DEF n
    <3> QED BY <2>2, <2>3, <3>1, <3>2
  <2>5. seen[n] = IF n \in inited THEN rect[n] ELSE NULL
    BY <2>2 DEF LeavesInformed
  <2>6. flags = Flags(rect[n], rect'[n])
    BY <2>4
  <2> HIDE DEF n, flags
  <2>7. CASE n \notin inited
    <3>1. call' = [fn |-> "init_data", leaf |-> n, flags |-> {}]
      BY <2>3, <2>7 DEF Callback
    <3>2. call'.fn = "init_data" /\ call'.leaf = n
      BY <3>1
    <3> QED BY <2>3, <2>5, <2>7, <3>2 DEF FlagsDue
  <2>8. CASE n \in inited /\ flags # {}
    <3>1. call' = [fn |-> "resize", leaf |-> n, flags |-> flags]
      BY <2>3, <2>8 DEF Callback
    <3>2. call'.fn = "resize" /\ call'.leaf = n /\ call'.flags = flags
      BY <3>1
    <3>3. seen'[n] = rect[n] /\ seen'[n] \in Rect
      BY <2>3, <2>4, <2>5, <2>8
    <3> QED BY <2>6, <3>2, <3>3 DEF FlagsDue
  <2>9. CASE n \in inited /\ flags = {}
    BY <2>3, <2>9 DEF Callback, FlagsDue
  <2> QED BY <2>7, <2>8, <2>9
<1>2. CASE Builds
  BY <1>2 DEF Builds, Create, Idle, FlagsDue
<1>3. CASE \/ \E i \in DOMAIN roots, r \in ScreenRects : sp_refresh(roots[i], r)
           \/ \E i \in DOMAIN roots : sp_free(i)
  BY <1>3 DEF sp_refresh, sp_free, Idle, FlagsDue
<1>4. CASE RefreshContainer \/ FreeChild \/ FreeContainer
  BY <1>4 DEF RefreshContainer, FreeChild, FreeContainer, At, FlagsDue
<1>5. CASE InitSucceeds \/ InitFails \/ ResizeReturns \/ FreeDataReturns
  BY <1>5 DEF InitSucceeds, InitFails, ResizeReturns, FreeDataReturns, DataMade, FlagsDue
<1>6. CASE FreeLeaf
  <2>1. call'.fn = "free_data"
    BY <1>6 DEF FreeLeaf
  <2> QED BY <2>1 DEF FlagsDue
<1>7. CASE UNCHANGED vars
  BY <1>7 DEF vars, FlagsDue
<1>8. CASE \/ sp_new_leaf
           \/ \E cfg \in SplitConfigs : sp_new_split(cfg)
           \/ \E cfg \in QuadConfigs : sp_new_quad(cfg)
  BY <1>2, <1>8, LeafBuilds, SplitBuilds, QuadBuilds
<1> QED BY <1>1, <1>3, <1>4, <1>5, <1>6, <1>7, <1>8 DEF Next, Return

\* Flags are those of FlagsExact.
LEMMA FlagsDueExact == TypeOK /\ FlagsDue => FlagsExact
<1> SUFFICES ASSUME TypeOK, FlagsDue, call # NULL, call.fn = "resize"
             PROVE  LET old == seen[call.leaf]
                        new == rect[call.leaf]
                    IN  /\ old # NULL
                        /\ "SP_MOVED" \in call.flags
                              <=> << old.y, old.x >> # << new.y, new.x >>
                        /\ "SP_RESIZED" \in call.flags
                              <=> << old.rows, old.cols >> # << new.rows, new.cols >>
  BY DEF FlagsDue, FlagsExact
<1>1. seen[call.leaf] \in Rect /\ call.flags = Flags(seen[call.leaf], rect[call.leaf])
  BY DEF FlagsDue
<1>2. seen[call.leaf] # NULL
  BY <1>1, NullAssumption
<1>3. \A a, b, c, d : << a, b >> # << c, d >> <=> a # c \/ b # d
  OBVIOUS
<1> QED BY <1>1, <1>2, <1>3 DEF Flags, Moved, Resized

\* Every callback runs for a reason that its leaf can see, and is told the
\* whole difference and no other (FlagsExact of Splitty, splitty.h:310-326).
THEOREM FlagsAreExact == Spec => []FlagsExact
<1>1. Init => FlagsDue
  BY DEF Init, FlagsDue
<1>2. FlagsDue /\ (TypeOK /\ TypeOK' /\ FreeInv /\ LeavesInformed /\ [Next]_vars) => FlagsDue'
  BY FlagsDueNext
<1>3. TypeOK /\ FlagsDue => FlagsExact
  BY FlagsDueExact
<1> QED BY <1>1, <1>2, <1>3, FreeingCorrect, NoChangeMissed, PTL DEF Spec

-----------------------------------------------------------------------------
(* Tilings *)

\* Dividing each part of a division divides the whole.
LEMMA DivisionsCompose ==
    ASSUME NEW area, NEW parts, Divides(parts, area),
           NEW tilings, \A j \in DOMAIN parts : Divides(tilings[j], parts[j]),
           NEW tiling,
           \A m \in DOMAIN tiling :
              \E j \in DOMAIN parts : m \in DOMAIN tilings[j] /\ tiling[m] = tilings[j][m],
           \A j \in DOMAIN parts : \A m \in DOMAIN tilings[j] :
              m \in DOMAIN tiling /\ tiling[m] = tilings[j][m]
    PROVE  Divides(tiling, area)
<1>1. \A m \in DOMAIN tiling : tiling[m].rows >= 0 /\ tiling[m].cols >= 0
  BY DEF Divides
<1>2. \A j \in DOMAIN parts : \A m \in DOMAIN tilings[j] :
         Cells(tiling[m]) \subseteq Cells(parts[j])
  BY DEF Divides
<1>3. Cells(area) = UNION {Cells(tiling[m]) : m \in DOMAIN tiling}
  <2>1. ASSUME NEW c \in Cells(area) PROVE \E m \in DOMAIN tiling : c \in Cells(tiling[m])
    <3>1. PICK j \in DOMAIN parts : c \in Cells(parts[j])
      BY <2>1 DEF Divides
    <3>2. PICK m \in DOMAIN tilings[j] : c \in Cells(tilings[j][m])
      BY <3>1 DEF Divides
    <3> QED BY <3>2
  <2>2. ASSUME NEW m \in DOMAIN tiling PROVE Cells(tiling[m]) \subseteq Cells(area)
    <3>1. PICK j \in DOMAIN parts : m \in DOMAIN tilings[j] /\ tiling[m] = tilings[j][m]
      OBVIOUS
    <3>2. Cells(parts[j]) \subseteq Cells(area)
      BY DEF Divides
    <3> QED BY <1>2, <3>1, <3>2
  <2> QED BY <2>1, <2>2
<1>4. ASSUME NEW k \in DOMAIN tiling, NEW m \in DOMAIN tiling, k # m
      PROVE  Cells(tiling[k]) \cap Cells(tiling[m]) = {}
  <2>1. PICK i \in DOMAIN parts : k \in DOMAIN tilings[i] /\ tiling[k] = tilings[i][k]
    OBVIOUS
  <2>2. PICK j \in DOMAIN parts : m \in DOMAIN tilings[j] /\ tiling[m] = tilings[j][m]
    OBVIOUS
  <2>3. CASE i = j
    <3>1. Divides(tilings[i], parts[i])
      OBVIOUS
    <3> QED BY <1>4, <2>1, <2>2, <2>3, <3>1 DEF Divides
  <2>4. CASE i # j
    <3>1. Cells(parts[i]) \cap Cells(parts[j]) = {}
      BY <2>4 DEF Divides
    <3> QED BY <1>2, <2>1, <2>2, <3>1
  <2> QED BY <2>3, <2>4
<1> QED BY <1>1, <1>3, <1>4 DEF Divides

\* A container divides its rectangle, unless a vertical split is narrower than
\* its gap.
LEMMA ContainersDivide ==
    ASSUME TypeOK, NEW n \in Ids, node[n].type # "SP_LEAF",
           NEW r \in Rect, r.rows >= 0, r.cols >= 0,
           node[n].type = "SP_SPLIT" /\ node[n].cfg.axis = "SP_VSPLIT"
              => node[n].cfg.split_gap =< r.cols
    PROVE  /\ DOMAIN ChildRects(n, r) = DOMAIN Children(n)
           /\ Divides(ChildRects(n, r), r)
<1>1. node[n] \in Nodes
  BY ElementOfSeq DEF TypeOK, Ids
<1>2. CASE node[n] \in [type : {"SP_SPLIT"}, cfg : SplitConfigs,
                        children : [1 .. 3 -> Nat \cup NoChild]]
  <2>1. /\ node[n].type = "SP_SPLIT" /\ node[n].cfg \in SplitConfigs
        /\ DOMAIN Children(n) = 1 .. 3
    BY <1>2 DEF Children
  <2> DEFINE cfg == node[n].cfg
  <2>2. cfg \in SplitConfigs /\ ChildRects(n, r) = calc_split(cfg, r)
    BY <2>1 DEF ChildRects
  <2>3. cfg.axis \in {"SP_HSPLIT", "SP_VSPLIT"}
    BY <2>1, ConfigAssumption
  <2>4. cfg.axis = "SP_VSPLIT" => cfg.split_gap =< r.cols
    BY <2>1
  <2> HIDE DEF cfg
  <2>5. CASE cfg.axis = "SP_HSPLIT"
    <3>1. calc_split(cfg, r) = HSplitRects(cfg, r)
      BY <2>5 DEF calc_split
    <3>2. DOMAIN HSplitRects(cfg, r) = 1 .. 3
      BY DEF HSplitRects
    <3> QED BY <2>1, <2>2, <3>1, <3>2, HSplitDivides
  <2>6. CASE cfg.axis = "SP_VSPLIT"
    <3>1. calc_split(cfg, r) = VSplitRects(cfg, r)
      BY <2>6 DEF calc_split
    <3>2. DOMAIN VSplitRects(cfg, r) = 1 .. 3
      BY DEF VSplitRects
    <3> QED BY <2>1, <2>2, <2>4, <2>6, <3>1, <3>2, VSplitDivides
  <2> QED BY <2>3, <2>5, <2>6
<1>3. CASE node[n] \in [type : {"SP_QUAD"}, cfg : QuadConfigs,
                        children : [1 .. 9 -> Nat \cup NoChild]]
  <2>1. /\ node[n].type = "SP_QUAD" /\ node[n].cfg \in QuadConfigs
        /\ DOMAIN Children(n) = 1 .. 9
    BY <1>3 DEF Children
  <2>2. ChildRects(n, r) = calc_quad(node[n].cfg, r)
    BY <2>1 DEF ChildRects
  <2>3. DOMAIN calc_quad(node[n].cfg, r) = 1 .. 9
    BY DEF calc_quad
  <2> QED BY <2>1, <2>2, <2>3, QuadDivides
<1> QED BY <1>1, <1>2, <1>3 DEF Nodes, Leaf

\* When every node under n has the rectangle that its parent gives it, the
\* leaves divide the rectangle of n.
LEMMA LeavesTile ==
    ASSUME TypeOK, NEW n \in Ids, GapsFit(n), rect[n].rows >= 0, rect[n].cols >= 0,
           \A p \in Under[n] : \A j \in DOMAIN Children(p) :
              /\ Children(p)[j] # NULL
              /\ rect[Children(p)[j]] = ChildRects(p, rect[p])[j]
    PROVE  Divides(LeafRects(n), rect[n])
<1> DEFINE Nonneg(p) == rect[p].rows >= 0 /\ rect[p].cols >= 0
           Bad == {p \in Under[n] : Nonneg(p) /\ ~Divides(LeafRects(p), rect[p])}
<1>1. n \in Under[n] /\ Under[n] \subseteq Ids /\ Closed(Under[n]) /\ Ids \subseteq Nat
  BY UnderFacts, TreeFacts
<1>2. SUFFICES ASSUME Bad # {} PROVE FALSE
  BY <1>1
<1>3. Bad \subseteq Nat
  BY <1>1
<1>4. PICK p \in Bad : \A q \in Bad : p =< q
  <2> HIDE DEF Bad
  <2> QED BY <1>2, <1>3, Least
<1>5. p \in Under[n] /\ p \in Ids /\ Nonneg(p) /\ p \in Nat
  BY <1>1, <1>4
<1>6. rect[p] \in Rect
  BY <1>5, ElementOfSeq DEF TypeOK, Ids
<1>7. CASE node[p].type = "SP_LEAF"
  <2>1. Kids(p) = {}
    BY <1>5, <1>7, TreeFacts DEF Kids, Range
  <2>2. Under[p] = {p}
    BY <1>5, <2>1, UnderFacts
  <2>3. LeafRects(p) = [m \in {p} |-> rect[m]]
    BY <1>7, <2>2 DEF LeafRects
  <2>4. Divides([m \in {p} |-> rect[m]], rect[p])
    <3>1. DOMAIN [m \in {p} |-> rect[m]] = {p} /\ [m \in {p} |-> rect[m]][p] = rect[p]
      OBVIOUS
    <3> QED BY <1>5, <3>1 DEF Divides
  <2> QED BY <1>4, <2>3, <2>4
<1>8. CASE node[p].type # "SP_LEAF"
  <2> DEFINE parts == ChildRects(p, rect[p])
             cs == Children(p)
             tilings == [j \in DOMAIN parts |-> LeafRects(cs[j])]
             tiling == LeafRects(p)
  <2>1. DOMAIN parts = DOMAIN cs /\ Divides(parts, rect[p])
    BY <1>5, <1>6, <1>8, ContainersDivide DEF GapsFit
  <2>2. \A j \in DOMAIN cs :
           /\ cs[j] \in Under[n] /\ cs[j] \in Ids /\ cs[j] < p /\ cs[j] \in Nat
           /\ cs[j] \in Kids(p) /\ rect[cs[j]] = parts[j]
    BY <1>1, <1>5, TreeFacts DEF Closed, Kids, Range
  <2>3. ASSUME NEW j \in DOMAIN cs PROVE Divides(LeafRects(cs[j]), parts[j])
    <3>1. Nonneg(cs[j])
      BY <2>1, <2>2 DEF Divides
    <3>2. cs[j] \notin Bad
      <4> HIDE DEF Bad
      <4> QED BY <1>4, <1>5, <2>2
    <3> QED BY <2>2, <3>1, <3>2
  <2>4. \A m : m \in Under[p] /\ m # p <=> \E j \in DOMAIN cs : m \in Under[cs[j]]
    <3>1. Under[p] = {p} \cup UNION {Under[c] : c \in Kids(p)}
      BY <1>5, UnderFacts
    <3>2. \A c : c \in Kids(p) <=> \E j \in DOMAIN cs : c = cs[j]
      BY <1>5 DEF Kids, Range
    <3>3. \A j \in DOMAIN cs : p \notin Under[cs[j]]
      <4>1. TAKE j \in DOMAIN cs
      <4>2. cs[j] \in Ids /\ cs[j] < p
        BY <2>2
      <4>3. Closed({q \in Ids : q =< cs[j]})
        BY <1>1, <4>2, TreeFacts DEF Closed
      <4>4. cs[j] \in {q \in Ids : q =< cs[j]}
        BY <1>1, <4>2
      <4>5. Under[cs[j]] \subseteq {q \in Ids : q =< cs[j]}
        BY <4>2, <4>3, <4>4, UnderFacts
      <4> QED BY <1>5, <2>2, <4>2, <4>5
    <3> HIDE DEF cs
    <3> QED BY <3>1, <3>2, <3>3
  <2>5. /\ DOMAIN tiling = {m \in Under[p] : node[m].type = "SP_LEAF"}
        /\ \A m \in DOMAIN tiling : tiling[m] = rect[m]
    BY DEF LeafRects
  <2>6. \A j \in DOMAIN cs :
           /\ DOMAIN tilings[j] = {m \in Under[cs[j]] : node[m].type = "SP_LEAF"}
           /\ \A m \in DOMAIN tilings[j] : tilings[j][m] = rect[m]
    BY <2>1 DEF LeafRects
  <2>7. \A j \in DOMAIN parts : Divides(tilings[j], parts[j])
    BY <2>1, <2>3
  <2> HIDE DEF tilings, tiling, parts, cs
  <2>8. \A m \in DOMAIN tiling :
           \E j \in DOMAIN parts : m \in DOMAIN tilings[j] /\ tiling[m] = tilings[j][m]
    BY <1>8, <2>1, <2>4, <2>5, <2>6
  <2>9. \A j \in DOMAIN parts : \A m \in DOMAIN tilings[j] :
           m \in DOMAIN tiling /\ tiling[m] = tilings[j][m]
    BY <2>1, <2>4, <2>5, <2>6
  <2>10. Divides(tiling, rect[p])
    BY <2>1, <2>7, <2>8, <2>9, DivisionsCompose
  <2> QED BY <1>4, <2>10 DEF tiling
<1> QED BY <1>7, <1>8

-----------------------------------------------------------------------------
(* The recursion of sp_refresh *)

RefreshFrames(td) == {k \in DOMAIN td : td[k].op = "sp_refresh"}

\* The call for the j-th child of p, as the rectangle of p asks for it.
Due(p, j) == Refresh(Children(p)[j], ChildRects(p, rect[p])[j])
Met(done, p, j) ==
    \/ \E k \in DOMAIN todo : todo[k] = Due(p, j)
    \/ Children(p)[j] \in done /\ rect[Children(p)[j]] = ChildRects(p, rect[p])[j]

\* done: the nodes whose rectangle was set by the last sp_refresh of their
\* root, or by an earlier one; open: those by the sp_refresh that is running.
AllMet(done) == \A p \in done : \A j \in DOMAIN Children(p) : Met(done, p, j)
OpenFromRoot(open) ==
    \A p \in Ids : \A j \in DOMAIN Children(p) : Children(p)[j] \in open => p \in open
CallsDue(open) ==
    \A k \in RefreshFrames(todo) :
        /\ todo[k].node \notin open
        /\ \A p \in Ids : \A j \in DOMAIN Children(p) :
              Children(p)[j] = todo[k].node /\ todo[k].node # NULL
                  => p \in open /\ todo[k] = Due(p, j)
CallsOnce ==
    \A k, l \in RefreshFrames(todo) :
        todo[k].node = todo[l].node /\ todo[k].node # NULL => k = l
ShownMet(done) ==
    \A n \in Range(roots) \cap shown :
        n \in done \/ \E k \in RefreshFrames(todo) : todo[k].node = n
RootsSized ==
    \A n \in Range(roots) :
        /\ rect[n].rows >= 0 /\ rect[n].cols >= 0
        /\ \A k \in RefreshFrames(todo) :
              todo[k].node = n => todo[k].rect.rows >= 0 /\ todo[k].rect.cols >= 0
Ongoing(done, open) ==
    /\ AllMet(done) /\ open \subseteq done /\ OpenFromRoot(open)
    /\ CallsDue(open) /\ CallsOnce /\ ShownMet(done) /\ RootsSized
RefreshInv == \E done \in SUBSET Ids : \E open \in SUBSET Ids : Ongoing(done, open)

\* Without pending calls every node that was met has what its parent gives it.
LEMMA NoCalls ==
    ASSUME Freeing(todo, call), NEW done, AllMet(done)
    PROVE  /\ RefreshFrames(todo) = {}
           /\ \A p \in done : \A j \in DOMAIN Children(p) :
                 Children(p)[j] \in done /\ rect[Children(p)[j]] = ChildRects(p, rect[p])[j]
<1>1. RefreshFrames(todo) = {}
  BY DEF Freeing, RefreshFrames
<1>2. \A p, j : \A k \in DOMAIN todo : todo[k] # Due(p, j)
  BY DEF Freeing, Due, Refresh
<1> QED BY <1>1, <1>2 DEF AllMet, Met

\* When no call has returned but the last, the shown trees are tiled.
LEMMA IdleTiles == TypeOK /\ RefreshInv => Tiling
<1> SUFFICES ASSUME TypeOK, RefreshInv, Idle,
                    NEW n \in Range(roots), n \in shown, GapsFit(n)
             PROVE  Divides(LeafRects(n), rect[n])
  BY DEF Tiling
<1>1. PICK done \in SUBSET Ids : \E open \in SUBSET Ids : Ongoing(done, open)
  BY DEF RefreshInv
<1>2. PICK open \in SUBSET Ids : Ongoing(done, open)
  BY <1>1
<1>3. /\ \A p \in done : \A j \in DOMAIN Children(p) :
            Children(p)[j] \in done /\ rect[Children(p)[j]] = ChildRects(p, rect[p])[j]
      /\ RefreshFrames(todo) = {}
  BY <1>2, IdleFrees, NoCalls DEF Ongoing
<1>4. n \in done /\ rect[n].rows >= 0 /\ rect[n].cols >= 0
  BY <1>2, <1>3 DEF Ongoing, ShownMet, RootsSized
<1>5. Under[n] \subseteq done
  <2>1. Closed(done)
    BY <1>3 DEF Closed
  <2> QED BY <1>4, <2>1, UnderFacts
<1>6. \A p \in Under[n] : \A j \in DOMAIN Children(p) :
         Children(p)[j] # NULL /\ rect[Children(p)[j]] = ChildRects(p, rect[p])[j]
  BY <1>3, <1>5, TreeFacts
<1> QED BY <1>4, <1>6, LeavesTile

\* What sp_free does leaves the tilings of the other trees.
LEMMA QuietTiles ==
    ASSUME TypeOK, RefreshInv, Freeing(todo, call), Freeing(todo', call'),
           node' = node, rect' = rect, Range(roots') \subseteq Range(roots), shown' = shown
    PROVE  RefreshInv'
<1>1. PICK done \in SUBSET Ids : \E open \in SUBSET Ids : Ongoing(done, open)
  BY DEF RefreshInv
<1>2. PICK open \in SUBSET Ids : Ongoing(done, open)
  BY <1>1
<1>3. /\ RefreshFrames(todo) = {}
      /\ \A p \in done : \A j \in DOMAIN Children(p) :
            Children(p)[j] \in done /\ rect[Children(p)[j]] = ChildRects(p, rect[p])[j]
  BY <1>2, NoCalls DEF Ongoing
<1>4. RefreshFrames(todo') = {}
  BY DEF Freeing, RefreshFrames
<1>5. Ids' = Ids /\ \A p : Children(p)' = Children(p)
  BY DEF Ids, Children
<1>6. \A p, r : ChildRects(p, r)' = ChildRects(p, r)
  BY DEF ChildRects
<1>7. AllMet(done)'
  BY <1>3, <1>5 DEF AllMet, Met, ChildRects
<1>8. OpenFromRoot({})' /\ CallsDue({})' /\ CallsOnce'
  BY <1>4 DEF OpenFromRoot, CallsDue, CallsOnce
<1>9. ShownMet(done)' /\ RootsSized'
  BY <1>2, <1>3, <1>4 DEF Ongoing, ShownMet, RootsSized
<1>10. Ongoing(done, {})'
  BY <1>7, <1>8, <1>9 DEF Ongoing
<1> QED BY <1>5, <1>10 DEF RefreshInv

\* A new node is not shown, and has no rectangle yet.
LEMMA CreateTiles ==
    ASSUME TypeOK, TypeOK', RefreshInv, NEW new, NEW args \in 0 .. Len(roots),
           Create(new, args)
    PROVE  RefreshInv'
<1> DEFINE m == Len(node) + 1
           keep == Len(roots) - args
<1>1. PICK done \in SUBSET Ids : \E open \in SUBSET Ids : Ongoing(done, open)
  BY DEF RefreshInv
<1>2. PICK open \in SUBSET Ids : Ongoing(done, open)
  BY <1>1
<1>3. /\ Idle /\ todo' = todo /\ call' = call /\ shown' = shown /\ Freeing(todo, call)
  BY IdleFrees DEF Create
<1>4. /\ Ids' = Ids \cup {m} /\ m \notin Ids
      /\ \A p \in Ids : node'[p].children = node[p].children /\ node'[p] = node[p]
      /\ \A p \in Ids : rect'[p] = rect[p]
      /\ rect'[m] = ZeroRect
      /\ Len(roots) \in Nat /\ DOMAIN roots = 1 .. Len(roots)
      /\ DOMAIN roots' = 1 .. keep + 1 /\ roots'[keep + 1] = m
      /\ \A k \in 1 .. keep : roots'[k] = roots[k]
      /\ \A k \in 1 .. Len(roots) : roots[k] \in Ids
  BY CreateFacts
<1>5. Range(roots') \subseteq Range(roots) \cup {m} /\ Range(roots) \subseteq Ids
  <2>1. ASSUME NEW k \in DOMAIN roots' PROVE roots'[k] \in Range(roots) \cup {m}
    <3>1. CASE k = keep + 1
      BY <1>4, <3>1
    <3>2. CASE k # keep + 1
      <4>1. k \in 1 .. keep /\ k \in DOMAIN roots
        BY <1>4, <3>2
      <4> QED BY <1>4, <4>1 DEF Range
    <3> QED BY <3>1, <3>2
  <2> QED BY <1>4, <2>1 DEF Range
<1> HIDE DEF m, keep
<1>6. /\ RefreshFrames(todo) = {}
      /\ \A p \in done : \A j \in DOMAIN Children(p) :
            Children(p)[j] \in done /\ rect[Children(p)[j]] = ChildRects(p, rect[p])[j]
  BY <1>2, <1>3, NoCalls DEF Ongoing
<1>7. AllMet(done)'
  <2>1. ASSUME NEW p \in done, NEW j \in DOMAIN node'[p].children
        PROVE  /\ node'[p].children[j] \in done
               /\ rect'[node'[p].children[j]] = ChildRects(p, rect[p])'[j]
    <3>1. p \in Ids /\ j \in DOMAIN Children(p) /\ node'[p].children[j] = Children(p)[j]
      BY <1>4, <2>1 DEF Children
    <3>2. ChildRects(p, rect[p])' = ChildRects(p, rect[p])
      BY <1>4, <3>1 DEF ChildRects
    <3>3. /\ Children(p)[j] \in done
          /\ rect[Children(p)[j]] = ChildRects(p, rect[p])[j]
      BY <1>6, <3>1
    <3> QED BY <1>4, <3>1, <3>2, <3>3
  <2> QED BY <2>1 DEF AllMet, Met, Children
<1>8. OpenFromRoot({})' /\ CallsDue({})' /\ CallsOnce'
  BY <1>3, <1>6 DEF OpenFromRoot, CallsDue, CallsOnce
<1>9. ShownMet(done)'
  <2>1. \A n \in Range(roots') \cap shown : n \in Range(roots)
    BY <1>4, <1>5 DEF TypeOK
  <2> QED BY <1>2, <1>3, <1>6, <2>1 DEF Ongoing, ShownMet
<1>10. RootsSized'
  <2>1. rect'[m].rows >= 0 /\ rect'[m].cols >= 0
    BY <1>4 DEF ZeroRect
  <2>2. \A n \in Range(roots) : rect'[n].rows >= 0 /\ rect'[n].cols >= 0
    BY <1>2, <1>4, <1>5 DEF Ongoing, RootsSized
  <2> QED BY <1>3, <1>5, <1>6, <2>1, <2>2 DEF RootsSized
<1>11. Ongoing(done, {})'
  BY <1>7, <1>8, <1>9, <1>10 DEF Ongoing
<1>12. done \in SUBSET Ids' /\ {} \in SUBSET Ids'
  BY <1>4
<1> QED BY <1>11, <1>12 DEF RefreshInv

\* sp_refresh of a root starts with the root.
LEMMA RefreshRootTiles ==
    ASSUME TypeOK, FreeInv, RefreshInv, NEW i \in DOMAIN roots, NEW r \in ScreenRects,
           sp_refresh(roots[i], r)
    PROVE  RefreshInv'
<1>1. PICK done \in SUBSET Ids : \E open \in SUBSET Ids : Ongoing(done, open)
  BY DEF RefreshInv
<1>2. PICK open \in SUBSET Ids : Ongoing(done, open)
  BY <1>1
<1>3. /\ todo' = << Refresh(roots[i], r) >> /\ node' = node /\ rect' = rect
      /\ roots' = roots /\ shown' = shown \cup {roots[i]} /\ Freeing(todo, call)
  BY IdleFrees DEF sp_refresh
<1>4. /\ RefreshFrames(todo) = {}
      /\ \A p \in done : \A j \in DOMAIN Children(p) :
            Children(p)[j] \in done /\ rect[Children(p)[j]] = ChildRects(p, rect[p])[j]
  BY <1>2, <1>3, NoCalls DEF Ongoing
<1>5. DOMAIN todo' = {1} /\ todo'[1] = Refresh(roots[i], r)
  BY <1>3
<1>6. RefreshFrames(todo') = {1} /\ todo'[1].node = roots[i] /\ todo'[1].rect = r
  BY <1>5 DEF RefreshFrames, Refresh
<1>7. Ids' = Ids /\ \A p : Children(p)' = Children(p)
  BY <1>3 DEF Ids, Children
<1>8. AllMet(done)'
  BY <1>3, <1>4, <1>7 DEF AllMet, Met, ChildRects
<1>9. \A p \in Ids : \A j \in DOMAIN Children(p) : Children(p)[j] # roots[i]
  BY DEF FreeInv, Forest
<1>10. OpenFromRoot({})' /\ CallsDue({})' /\ CallsOnce'
  BY <1>6, <1>7, <1>9 DEF OpenFromRoot, CallsDue, CallsOnce
<1>11. ShownMet(done)'
  BY <1>2, <1>3, <1>4, <1>6 DEF Ongoing, ShownMet
<1>12. RootsSized'
  <2>1. r.rows >= 0 /\ r.cols >= 0
    BY ConfigAssumption
  <2> QED BY <1>2, <1>3, <1>6, <2>1 DEF Ongoing, RootsSized
<1>13. Ongoing(done, {})'
  BY <1>8, <1>10, <1>11, <1>12 DEF Ongoing
<1> QED BY <1>7, <1>13 DEF RefreshInv

\* A callback moves no rectangle.
LEMMA DataTiles ==
    ASSUME RefreshInv, node' = node, rect' = rect, roots' = roots, shown' = shown, todo' = todo
    PROVE  RefreshInv'
<1>1. PICK done \in SUBSET Ids : \E open \in SUBSET Ids : Ongoing(done, open)
  BY DEF RefreshInv
<1>2. PICK open \in SUBSET Ids : Ongoing(done, open)
  BY <1>1
<1>3. Ids' = Ids /\ \A p : Children(p)' = Children(p)
  BY DEF Ids, Children
<1>4. \A p, j : Due(p, j)' = Due(p, j)
  BY DEF Due, Children, ChildRects
<1>5. AllMet(done)'
  BY <1>2, <1>3, <1>4 DEF Ongoing, AllMet, Met, ChildRects
<1>6. OpenFromRoot(open)' /\ CallsDue(open)' /\ CallsOnce'
  BY <1>2, <1>3, <1>4 DEF Ongoing, OpenFromRoot, CallsDue, CallsOnce
<1>7. ShownMet(done)' /\ RootsSized'
  BY <1>2 DEF Ongoing, ShownMet, RootsSized
<1>8. Ongoing(done, open)'
  BY <1>2, <1>5, <1>6, <1>7 DEF Ongoing
<1> QED BY <1>3, <1>8 DEF RefreshInv

\* One call of sp_refresh of a node is replaced by those of its children.
LEMMA StepTiles ==
    ASSUME TypeOK, FreeInv, RefreshInv, NEW types, At("sp_refresh", types),
           rect' = [rect EXCEPT ![Top.node] = Top.rect],
           node' = node, roots' = roots, shown' = shown,
           NEW k0,
           \A k \in DOMAIN todo' :
              \/ /\ k \in DOMAIN Children(Top.node)
                 /\ todo'[k] = Refresh(Children(Top.node)[k],
                                       ChildRects(Top.node, Top.rect)[k])
              \/ \E l \in DOMAIN todo : l # 1 /\ todo'[k] = todo[l] /\ k = l + k0,
           \A k \in DOMAIN Children(Top.node) :
              /\ k \in DOMAIN todo'
              /\ todo'[k] = Refresh(Children(Top.node)[k], ChildRects(Top.node, Top.rect)[k]),
           \A l \in DOMAIN todo : l # 1 => l + k0 \in DOMAIN todo' /\ todo'[l + k0] = todo[l]
    PROVE  RefreshInv'
<1>1. PICK m, r : m = Top.node /\ r = Top.rect
  OBVIOUS
<1>2. PICK cs, R : cs = Children(m) /\ R = ChildRects(m, r)
  OBVIOUS
<1>3. PICK done \in SUBSET Ids : \E open \in SUBSET Ids : Ongoing(done, open)
  BY DEF RefreshInv
<1>4. PICK open \in SUBSET Ids : Ongoing(done, open)
  BY <1>3
<1>5. /\ m \in Ids /\ Top = todo[1] /\ 1 \in DOMAIN todo /\ Top.op = "sp_refresh"
      /\ m # NULL /\ Refreshing(todo, call)
  BY <1>1, PopFacts, RefreshTop, TreeFacts
<1>6. 1 \in RefreshFrames(todo) /\ todo[1].node = m /\ todo[1].rect = r
  BY <1>5, <1>1 DEF RefreshFrames
<1>7. rect'[m] = r /\ \A p : p # m => rect'[p] = rect[p]
  <2>1. DOMAIN rect = Ids
    BY LenProperties DEF TypeOK, Ids
  <2>2. rect' = [rect EXCEPT ![m] = r]
    BY <1>1
  <2> QED BY <1>5, <2>1, <2>2
<1>8. /\ \A k \in DOMAIN todo' :
            \/ k \in DOMAIN cs /\ todo'[k] = Refresh(cs[k], R[k])
            \/ \E l \in DOMAIN todo : l # 1 /\ todo'[k] = todo[l] /\ k = l + k0
      /\ \A k \in DOMAIN cs : k \in DOMAIN todo' /\ todo'[k] = Refresh(cs[k], R[k])
      /\ \A l \in DOMAIN todo : l # 1 => l + k0 \in DOMAIN todo' /\ todo'[l + k0] = todo[l]
  BY <1>1, <1>2
<1>9. Ids' = Ids /\ \A p : Children(p)' = Children(p)
  BY DEF Ids, Children
<1>10. /\ \A p : p # m => ChildRects(p, rect[p])' = ChildRects(p, rect[p])
      /\ ChildRects(m, r) = ChildRects(m, rect[m])'
  BY <1>7 DEF ChildRects
<1>11. cs = Children(m) /\ \A k \in DOMAIN cs : R[k] = ChildRects(m, rect[m])'[k]
  BY <1>10, <1>2
<1>12. /\ \A p, j : p # m => Due(p, j)' = Due(p, j)
       /\ \A j \in DOMAIN cs : Due(m, j)' = Refresh(cs[j], R[j])
  BY <1>9, <1>10, <1>11 DEF Due
<1>13. \A k \in DOMAIN todo' : todo'[k].op = "sp_refresh"
  BY <1>5, <1>8 DEF Refreshing, Refresh
<1>14. RefreshFrames(todo') = DOMAIN todo' /\ RefreshFrames(todo) = DOMAIN todo
  BY <1>5, <1>13 DEF Refreshing, RefreshFrames
<1>15. /\ m \notin open
       /\ \A p \in Ids : \A j \in DOMAIN Children(p) :
             Children(p)[j] = m => p \in open /\ todo[1] = Due(p, j)
  BY <1>4, <1>5, <1>6 DEF Ongoing, CallsDue
<1>16. \A l \in DOMAIN todo : l # 1 => todo[l].node # m
  BY <1>4, <1>5, <1>6, <1>14 DEF Ongoing, CallsOnce
<1>17. /\ \A j \in DOMAIN cs : cs[j] # m /\ cs[j] \notin open
       /\ NULL \notin Ids
  <2>1. \A j \in DOMAIN cs : cs[j] # NULL => cs[j] \in Ids /\ cs[j] < m
    BY <1>5, <1>11, TreeFacts
  <2>2. Ids \subseteq Nat /\ NULL \notin Ids
    BY TreeFacts
  <2>3. \A j \in DOMAIN cs : cs[j] \notin open
    BY <1>4, <1>5, <1>11, <1>15 DEF Ongoing, OpenFromRoot
  <2> QED BY <1>5, <2>1, <2>2, <2>3
<1>18. AllMet(done \cup {m})'
  <2>1. ASSUME NEW p \in done \cup {m}, NEW j \in DOMAIN Children(p)
        PROVE  \/ \E k \in DOMAIN todo' : todo'[k] = Due(p, j)'
               \/ /\ Children(p)[j] \in done \cup {m}
                  /\ rect'[Children(p)[j]] = ChildRects(p, rect[p])'[j]
    <3>1. CASE p = m
      BY <1>8, <1>11, <1>12, <2>1, <3>1
    <3>2. CASE p # m
      <4>1. p \in done /\ p \in Ids /\ Due(p, j)' = Due(p, j)
        BY <1>12, <2>1, <3>2
      <4>2. CASE \E k \in DOMAIN todo : k # 1 /\ todo[k] = Due(p, j)
        BY <1>8, <4>1, <4>2
      <4>3. CASE todo[1] = Due(p, j)
        <5>1. Children(p)[j] = m /\ ChildRects(p, rect[p])[j] = r
          BY <1>6, <4>3 DEF Due, Refresh
        <5> QED BY <1>7, <1>10, <3>2, <5>1
      <4>4. CASE /\ Children(p)[j] \in done /\ Children(p)[j] # m
                 /\ rect[Children(p)[j]] = ChildRects(p, rect[p])[j]
        BY <1>7, <1>10, <3>2, <4>4
      <4>5. CASE Children(p)[j] = m
        BY <1>15, <2>1, <4>1, <4>3, <4>5
      <4> QED BY <1>4, <2>1, <4>1, <4>2, <4>3, <4>4, <4>5 DEF Ongoing, AllMet, Met
    <3> QED BY <3>1, <3>2
  <2> QED BY <1>9, <2>1 DEF AllMet, Met
<1>19. OpenFromRoot(open \cup {m})'
  BY <1>4, <1>9, <1>15 DEF Ongoing, OpenFromRoot
<1>20. CallsDue(open \cup {m})'
  <2>1. ASSUME NEW k \in DOMAIN todo'
        PROVE  /\ todo'[k].node \notin open \cup {m}
               /\ \A p \in Ids : \A j \in DOMAIN Children(p) :
                     Children(p)[j] = todo'[k].node /\ todo'[k].node # NULL
                         => p \in open \cup {m} /\ todo'[k] = Due(p, j)'
    <3>1. CASE k \in DOMAIN cs /\ todo'[k] = Refresh(cs[k], R[k])
      <4>1. todo'[k].node = cs[k]
        BY <3>1 DEF Refresh
      <4>2. \A p \in Ids : \A j \in DOMAIN Children(p) :
               Children(p)[j] = cs[k] /\ cs[k] # NULL => p = m /\ j = k
        BY <1>5, <1>11, <3>1 DEF FreeInv, Forest
      <4> QED BY <1>12, <1>17, <3>1, <4>1, <4>2
    <3>2. CASE \E l \in DOMAIN todo : l # 1 /\ todo'[k] = todo[l] /\ k = l + k0
      <4>1. PICK l \in DOMAIN todo : l # 1 /\ todo'[k] = todo[l]
        BY <3>2
      <4>2. /\ todo[l].node \notin open
            /\ \A p \in Ids : \A j \in DOMAIN Children(p) :
                  Children(p)[j] = todo[l].node /\ todo[l].node # NULL
                      => p \in open /\ todo[l] = Due(p, j)
        BY <1>4, <1>14 DEF Ongoing, CallsDue
      <4> QED BY <1>12, <1>15, <1>16, <4>1, <4>2
    <3> QED BY <1>8, <3>1, <3>2
  <2> QED BY <1>9, <1>14, <2>1 DEF CallsDue
<1>21. CallsOnce'
  <2>1. ASSUME NEW k \in DOMAIN todo', NEW l \in DOMAIN todo', NEW j \in DOMAIN todo,
               k \in DOMAIN cs, todo'[k] = Refresh(cs[k], R[k]),
               j # 1, todo'[l] = todo[j], todo'[k].node = todo'[l].node, todo'[k].node # NULL
        PROVE  FALSE
    <3>1. todo[j].node = cs[k] /\ cs[k] # NULL
      BY <2>1 DEF Refresh
    <3>2. m \in open
      BY <1>4, <1>5, <1>11, <1>14, <2>1, <3>1 DEF Ongoing, CallsDue
    <3> QED BY <1>15, <3>2
  <2>2. ASSUME NEW k \in DOMAIN todo', NEW l \in DOMAIN todo',
               todo'[k].node = todo'[l].node, todo'[k].node # NULL
        PROVE  k = l
    <3>1. CASE /\ k \in DOMAIN cs /\ todo'[k] = Refresh(cs[k], R[k])
               /\ l \in DOMAIN cs /\ todo'[l] = Refresh(cs[l], R[l])
      <4>1. cs[k] = cs[l] /\ cs[k] # NULL
        BY <2>2, <3>1 DEF Refresh
      <4> QED BY <1>5, <1>11, <3>1, <4>1 DEF FreeInv, Forest
    <3>2. CASE /\ \E i \in DOMAIN todo : i # 1 /\ todo'[k] = todo[i] /\ k = i + k0
               /\ \E i \in DOMAIN todo : i # 1 /\ todo'[l] = todo[i] /\ l = i + k0
      BY <1>4, <1>14, <2>2, <3>2 DEF Ongoing, CallsOnce
    <3> QED BY <1>8, <2>1, <2>2, <3>1, <3>2
  <2> QED BY <1>14, <2>2 DEF CallsOnce
<1>22. ShownMet(done \cup {m})'
  <2>1. ASSUME NEW n \in Range(roots) \cap shown
        PROVE  n \in done \cup {m} \/ \E k \in DOMAIN todo' : todo'[k].node = n
    <3>1. CASE \E k \in DOMAIN todo : k # 1 /\ todo[k].node = n
      BY <1>8, <3>1
    <3> QED BY <1>4, <1>6, <1>14, <2>1, <3>1 DEF Ongoing, ShownMet
  <2> QED BY <1>14, <2>1 DEF ShownMet
<1>23. RootsSized'
  <2>1. ASSUME NEW n \in Range(roots)
        PROVE  /\ rect'[n].rows >= 0 /\ rect'[n].cols >= 0
               /\ \A k \in DOMAIN todo' :
                     todo'[k].node = n => todo'[k].rect.rows >= 0 /\ todo'[k].rect.cols >= 0
    <3>1. \A j \in DOMAIN cs : cs[j] # n
      BY <1>5, <1>11 DEF FreeInv, Forest, Range
    <3>2. /\ rect[n].rows >= 0 /\ rect[n].cols >= 0
          /\ \A k \in DOMAIN todo :
                todo[k].node = n => todo[k].rect.rows >= 0 /\ todo[k].rect.cols >= 0
      BY <1>4, <1>14 DEF Ongoing, RootsSized
    <3>3. rect'[n].rows >= 0 /\ rect'[n].cols >= 0
      BY <1>5, <1>6, <1>7, <3>2
    <3>4. ASSUME NEW k \in DOMAIN todo', todo'[k].node = n
          PROVE  todo'[k].rect.rows >= 0 /\ todo'[k].rect.cols >= 0
      <4>1. ~(k \in DOMAIN cs /\ todo'[k] = Refresh(cs[k], R[k]))
        BY <3>1, <3>4 DEF Refresh
      <4> QED BY <1>8, <3>2, <3>4, <4>1
    <3> QED BY <3>3, <3>4
  <2> QED BY <1>14, <2>1 DEF RootsSized
<1>24. Ongoing(done \cup {m}, open \cup {m})'
  BY <1>4, <1>18, <1>19, <1>20, <1>21, <1>22, <1>23 DEF Ongoing
<1> QED BY <1>5, <1>9, <1>24 DEF RefreshInv

\* sp_refresh of a container replaces its call by those of its children.
LEMMA RefreshContainerTiles == TypeOK /\ FreeInv /\ RefreshInv /\ RefreshContainer => RefreshInv'
<1> SUFFICES ASSUME TypeOK, FreeInv, RefreshInv, RefreshContainer PROVE RefreshInv'
  OBVIOUS
<1>1. /\ At("sp_refresh", {"SP_SPLIT", "SP_QUAD"})
      /\ rect' = [rect EXCEPT ![Top.node] = Top.rect]
      /\ node' = node /\ roots' = roots /\ shown' = shown
  BY DEF RefreshContainer
<1>2. PICK cs, R, k0 : /\ cs = Children(Top.node) /\ R = ChildRects(Top.node, Top.rect)
                       /\ k0 = Len(cs) - 1
  OBVIOUS
<1>3. /\ \A k \in DOMAIN todo' :
            \/ k \in DOMAIN cs /\ todo'[k] = Refresh(cs[k], R[k])
            \/ \E l \in DOMAIN todo : l # 1 /\ todo'[k] = todo[l] /\ k = l + k0
      /\ \A k \in DOMAIN cs : k \in DOMAIN todo' /\ todo'[k] = Refresh(cs[k], R[k])
      /\ \A l \in DOMAIN todo : l # 1 => l + k0 \in DOMAIN todo' /\ todo'[l + k0] = todo[l]
  BY <1>2, RefreshPush
<1> QED BY <1>1, <1>2, <1>3, StepTiles

\* sp_refresh of a leaf has no children to go on to.
LEMMA RefreshLeafTiles == TypeOK /\ FreeInv /\ RefreshInv /\ RefreshLeaf => RefreshInv'
<1> SUFFICES ASSUME TypeOK, FreeInv, RefreshInv, RefreshLeaf PROVE RefreshInv'
  OBVIOUS
<1>1. /\ At("sp_refresh", {"SP_LEAF"}) /\ todo' = Tail(todo)
      /\ rect' = [rect EXCEPT ![Top.node] = Top.rect]
      /\ node' = node /\ roots' = roots /\ shown' = shown
  BY DEF RefreshLeaf
<1>2. DOMAIN Children(Top.node) = {}
  BY <1>1, PopFacts, TreeFacts
<1>3. /\ \A k \in DOMAIN todo' :
            k + 1 \in DOMAIN todo /\ k + 1 # 1 /\ todo'[k] = todo[k + 1]
      /\ \A l \in DOMAIN todo :
            l # 1 => l - 1 \in DOMAIN todo' /\ todo'[l - 1] = todo[l]
      /\ DOMAIN todo = 1 .. Len(todo)
  BY <1>1, PopFacts
<1>4. DOMAIN todo' \subseteq Int
  <2>1. todo \in Seq(Frames(Ids \cup NoChild)) /\ todo # << >>
    BY <1>1 DEF TypeOK, At
  <2>2. Len(todo) \in Nat /\ DOMAIN Tail(todo) = 1 .. Len(todo) - 1
    BY <2>1, TailFacts
  <2> QED BY <1>1, <2>2
<1>5. PICK k0 : k0 = -1
  OBVIOUS
<1>6. \A k \in DOMAIN todo' :
         \E l \in DOMAIN todo : l # 1 /\ todo'[k] = todo[l] /\ k = l + k0
  <2>1. TAKE k \in DOMAIN todo'
  <2>2. PICK l \in DOMAIN todo : l = k + 1 /\ l # 1 /\ todo'[k] = todo[l]
    BY <1>3
  <2> QED BY <1>4, <1>5, <2>2
<1>7. \A l \in DOMAIN todo : l # 1 => l + k0 \in DOMAIN todo' /\ todo'[l + k0] = todo[l]
  <2>1. TAKE l \in DOMAIN todo
  <2>2. l + k0 = l - 1
    BY <1>3, <1>5
  <2> QED BY <1>3, <2>2
<1> QED BY <1>1, <1>2, <1>6, <1>7, StepTiles

\* Every step keeps the tilings that were made or are being made.
LEMMA RefreshInvNext ==
    TypeOK /\ TypeOK' /\ FreeInv /\ FreeInv' /\ RefreshInv /\ [Next]_vars => RefreshInv'
<1> SUFFICES ASSUME TypeOK, TypeOK', FreeInv, FreeInv', RefreshInv, [Next]_vars
             PROVE  RefreshInv'
  OBVIOUS
<1>1. CASE Builds
  BY <1>1, CreateTiles DEF Builds
<1>2. CASE \/ sp_new_leaf
           \/ \E cfg \in SplitConfigs : sp_new_split(cfg)
           \/ \E cfg \in QuadConfigs : sp_new_quad(cfg)
  BY <1>1, <1>2, LeafBuilds, SplitBuilds, QuadBuilds
<1>3. CASE \E i \in DOMAIN roots, r \in ScreenRects : sp_refresh(roots[i], r)
  BY <1>3, RefreshRootTiles
<1>4. CASE RefreshContainer
  BY <1>4, RefreshContainerTiles
<1>5. CASE RefreshLeaf
  BY <1>5, RefreshLeafTiles
<1>6. CASE InitSucceeds \/ InitFails \/ ResizeReturns
  <2>1. /\ node' = node /\ rect' = rect /\ roots' = roots /\ shown' = shown
        /\ todo' = todo
    BY <1>6 DEF InitSucceeds, InitFails, AfterFailure, ResizeReturns, DataMade
  <2> QED BY <2>1, DataTiles
<1>7. CASE \E i \in DOMAIN roots : sp_free(i)
  <2>1. PICK i \in DOMAIN roots : sp_free(i)
    BY <1>7
  <2>2. Range(roots') = Range(roots) \ {roots[i]}
    BY <2>1, RootRemoved DEF sp_free
  <2>3. todo' = << Free(roots[i], 1) >> /\ call' = NULL
    BY <2>1 DEF sp_free, Idle
  <2>4. DOMAIN todo' = {1} /\ todo'[1].op = "sp_free"
    BY <2>3 DEF Free
  <2>5. Freeing(todo', call')
    BY <2>3, <2>4 DEF Freeing
  <2>6. /\ Freeing(todo, call) /\ node' = node /\ rect' = rect /\ shown' = shown
    BY <2>1, IdleFrees DEF sp_free
  <2> QED BY <2>2, <2>5, <2>6, QuietTiles
<1>8. CASE FreeLeaf \/ FreeChild \/ FreeContainer
  <2>1. PICK types : At("sp_free", types)
    BY <1>8 DEF FreeLeaf, FreeChild, FreeContainer
  <2>2. Freeing(todo, call)
    BY <2>1, FreeTop
  <2>3. Freeing(todo', call')
    <3>1. CASE FreeLeaf
      <4>1. call'.fn = "free_data" /\ todo' = Tail(todo)
        BY <3>1 DEF FreeLeaf
      <4>2. \A k \in DOMAIN todo' : todo'[k].op = "sp_free"
        BY <2>1, <2>2, <4>1, PopFacts DEF Freeing
      <4> QED BY <4>1, <4>2 DEF Freeing
    <3>2. CASE FreeContainer
      <4>1. call' = call /\ todo' = Tail(todo)
        BY <2>1, <3>2, PopFacts DEF FreeContainer
      <4>2. \A k \in DOMAIN todo' : todo'[k].op = "sp_free"
        BY <2>1, <2>2, <4>1, PopFacts DEF Freeing
      <4> QED BY <2>2, <4>1, <4>2 DEF Freeing
    <3>3. CASE FreeChild
      BY <3>3, FreeChildFrees
    <3> QED BY <1>8, <3>1, <3>2, <3>3
  <2>4. node' = node /\ rect' = rect /\ shown' = shown /\ roots' = roots
    BY <1>8 DEF FreeLeaf, FreeChild, FreeContainer
  <2> QED BY <2>2, <2>3, <2>4, QuietTiles
<1>9. CASE FreeDataReturns
  <2>1. /\ node' = node /\ rect' = rect /\ shown' = shown /\ roots' = roots
        /\ todo' = todo /\ call' = NULL /\ call # NULL /\ call.fn = "free_data"
    BY <1>9 DEF FreeDataReturns, Running
  <2>2. Freeing(todo, call)
    BY <2>1 DEF FreeInv, Refreshing
  <2>3. Freeing(todo', call')
    BY <2>1, <2>2 DEF Freeing
  <2> QED BY <2>1, <2>2, <2>3, QuietTiles
<1>10. CASE UNCHANGED vars
  BY <1>10, DataTiles DEF vars
<1> QED BY <1>2, <1>3, <1>4, <1>5, <1>6, <1>7, <1>8, <1>9, <1>10 DEF Next, Return

\* Between the calls the leaves of a tree that was refreshed partition its
\* rectangle, for every tree, every configuration and every sequence of calls
\* (Tiling of Splitty, splitty.h:120-229).
THEOREM LeavesPartition == Spec => []Tiling
<1>1. Init => RefreshInv
  <2>1. SUFFICES ASSUME Init PROVE Ongoing({}, {})
    BY DEF RefreshInv
  <2>2. Ids = {} /\ DOMAIN todo = {} /\ DOMAIN roots = {}
    BY <2>1 DEF Init, Ids
  <2>3. RefreshFrames(todo) = {} /\ Range(roots) = {}
    BY <2>2 DEF RefreshFrames, Range
  <2> QED
    BY <2>2, <2>3 DEF Ongoing, AllMet, OpenFromRoot, CallsDue, CallsOnce, ShownMet, RootsSized
<1>2. RefreshInv /\ (TypeOK /\ TypeOK' /\ FreeInv /\ FreeInv' /\ [Next]_vars) => RefreshInv'
  BY RefreshInvNext
<1>3. TypeOK /\ RefreshInv => Tiling
  BY IdleTiles
<1> QED BY <1>1, <1>2, <1>3, FreeingCorrect, PTL DEF Spec
=============================================================================
