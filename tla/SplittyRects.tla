----------------------------- MODULE SplittyRects -----------------------------
(***************************************************************************)
(* The arithmetic of src/splitty.h: how a split and a quad divide their    *)
(* rectangle among their children.  Along each axis the rectangle is cut   *)
(* into bands: a first pane, a second pane, and the gap between them.      *)
(***************************************************************************)
EXTENDS Integers, Sequences

CONSTANT RatioUnit      \* a ratio is a number of RatioUnit-ths

\* A ratio is a fraction.
ASSUME RatioUnitAssumption == RatioUnit \in Nat \ {0}

\* sp_new_split and sp_new_quad assert 0 < ratio <= 1.
Ratios == 1 .. RatioUnit

Rect == [y : Int, x : Int, rows : Int, cols : Int]

\* avail * ratio, converted from float to int: the fraction is cut off.  The
\* product is exact when RatioUnit is a power of two and avail is below 2^24.
Scale(avail, ratio) ==
    IF avail >= 0 THEN (avail * ratio) \div RatioUnit
                  ELSE -((-avail * ratio) \div RatioUnit)

Clamp(gap, size) == IF gap > size THEN size ELSE gap

Band(at, size) == [at |-> at, size |-> size]
Box(v, h) == [y |-> v.at, x |-> h.at, rows |-> v.size, cols |-> h.size]

\* A variant with a mistake: the second pane starts where the first one ends.
BandsNoStep(start, avail, ratio, step, gap) ==
    LET part == Scale(avail, ratio)
    IN  [first  |-> Band(start, part),
         second |-> Band(start + part, avail - part),
         gap    |-> Band(start + part, gap)]

\* The bands from start on: the panes share avail, the second one starts step
\* after the end of the first, and gap is the size of the band between them.
Bands(start, avail, ratio, step, gap) ==
    LET part == Scale(avail, ratio)
    IN  [first  |-> Band(start, part),
         second |-> Band(start + part + step, avail - part),
         gap    |-> Band(start + part, gap)]

Vertical(rect) == Band(rect.y, rect.rows)
Horizontal(rect) == Band(rect.x, rect.cols)

\* The rectangles of SP_SPLIT_LEFT, SP_SPLIT_RIGHT and SP_SPLIT_GAP.
HSplitRects(cfg, rect) ==
    LET gap == Clamp(cfg.split_gap, rect.rows)
        b == Bands(rect.y, rect.rows - gap, cfg.ratio, gap, gap)
        h == Horizontal(rect)
    IN  << Box(b.first, h), Box(b.second, h), Box(b.gap, h) >>

\* Only the gap's own rectangle has the clamped gap; the panes have what the
\* unclamped one leaves.
VSplitRects(cfg, rect) ==
    LET gap == Clamp(cfg.split_gap, rect.cols)
        b == Bands(rect.x, rect.cols - cfg.split_gap, cfg.ratio,
                   cfg.split_gap, gap)
        v == Vertical(rect)
    IN  << Box(v, b.first), Box(v, b.second), Box(v, b.gap) >>

calc_split(cfg, rect) ==
    IF cfg.axis = "SP_HSPLIT" THEN HSplitRects(cfg, rect)
                              ELSE VSplitRects(cfg, rect)

\* A variant with a mistake: the columns are forgotten.
QuadGapOfRows(cfg, rect) == Clamp(cfg.quad_gap, rect.rows)

QuadGap(cfg, rect) == Clamp(Clamp(cfg.quad_gap, rect.rows), rect.cols)

\* The rectangles of SP_QUAD_TL, TR, BL, BR, GL, GR, GT, GB and GJ.
calc_quad(cfg, rect) ==
    LET gap == QuadGap(cfg, rect)
        v == Bands(rect.y, rect.rows - gap, cfg.ratio_y, gap, gap)
        h == Bands(rect.x, rect.cols - gap, cfg.ratio_x, gap, gap)
    IN  << Box(v.first, h.first),  Box(v.first, h.second),
           Box(v.second, h.first), Box(v.second, h.second),
           Box(v.gap, h.first),    Box(v.gap, h.second),
           Box(v.first, h.gap),    Box(v.second, h.gap),
           Box(v.gap, h.gap) >>

-----------------------------------------------------------------------------
(* What a division should be *)

Cells(rect) == (rect.y .. rect.y + rect.rows - 1)
                   \X (rect.x .. rect.x + rect.cols - 1)

\* No negative size, nothing uncovered, nothing outside, no overlap.
Divides(rects, rect) ==
    /\ \A k \in DOMAIN rects : rects[k].rows >= 0 /\ rects[k].cols >= 0
    /\ Cells(rect) = UNION {Cells(rects[k]) : k \in DOMAIN rects}
    /\ \A k, m \in DOMAIN rects :
          k # m => Cells(rects[k]) \cap Cells(rects[m]) = {}
=============================================================================
