-------------------------------- MODULE Splitty --------------------------------
(***************************************************************************)
(* The layout tree of src/splitty.h.  The caller builds trees bottom up,   *)
(* refreshes a root with a rectangle, and frees a root.  sp_refresh and    *)
(* sp_free recurse over the tree and call back into the program at each    *)
(* leaf, one step for each recursive call and for each return of a         *)
(* callback: todo holds the calls that are still to be made, call is the   *)
(* callback that is running.                                               *)
(***************************************************************************)
EXTENDS SplittyRects, Functions, FiniteSets

CONSTANTS
    NULL,
    MaxNodes,       \* bound on the nodes ever allocated
    MaxShown,       \* bound on the nodes ever refreshed as a root
    SplitConfigs,   \* configurations a caller gives to sp_new_split
    QuadConfigs,    \* configurations a caller gives to sp_new_quad
    ScreenRects,    \* rectangles a caller refreshes a root with
    Flaky,          \* the leaves whose init_data may fail
    NullGaps        \* whether callers leave out the gap of a split

\* What the constructors assert of a configuration (splitty.h:232-236, 264-266).
ASSUME ConfigAssumption ==
    /\ \A cfg \in SplitConfigs :
          /\ cfg.ratio \in Ratios /\ cfg.split_gap \in Nat
          /\ cfg.axis \in {"SP_HSPLIT", "SP_VSPLIT"}
    /\ \A cfg \in QuadConfigs :
          /\ cfg.ratio_y \in Ratios /\ cfg.ratio_x \in Ratios
          /\ cfg.quad_gap \in Nat
    /\ \A r \in ScreenRects : r \in Rect /\ r.rows >= 0 /\ r.cols >= 0
    /\ MaxNodes \in Nat /\ MaxShown \in Nat /\ NullGaps \in BOOLEAN

VARIABLES
    node,           \* the nodes allocated so far: [type, cfg, children]
    rect,           \* node->rect of each
    inited,         \* the leaves with is_data_init
    roots,          \* the nodes that are no node's child, oldest first
    shown,          \* the nodes that the caller has refreshed
    todo,           \* the calls of sp_refresh and sp_free still to make
    call,           \* the callback that is running: [fn, leaf, flags] or NULL
    seen,           \* the rectangle a leaf's data was last made for, or NULL
    freed           \* the nodes given to free

vars == <<node, rect, inited, roots, shown, todo, call, seen, freed>>

-----------------------------------------------------------------------------
Ids == DOMAIN node
Children(n) == node[n].children
Under[n \in Ids] == {n} \cup UNION {Under[c] : c \in Range(Children(n)) \ {NULL}}

\* Nodes.  A split of a caller that leaves out the gap has a null child.
NoChild == IF NullGaps THEN {NULL} ELSE {}
Leaf == [type |-> "SP_LEAF", cfg |-> NULL, children |-> << >>]
Split(cfg, cs) == [type |-> "SP_SPLIT", cfg |-> cfg, children |-> cs]
Quad(cfg, cs) == [type |-> "SP_QUAD", cfg |-> cfg, children |-> cs]
ZeroRect == [y |-> 0, x |-> 0, rows |-> 0, cols |-> 0]

Nodes ==
    {Leaf}
    \cup [type : {"SP_SPLIT"}, cfg : SplitConfigs, children : [1 .. 3 -> Nat \cup NoChild]]
    \cup [type : {"SP_QUAD"}, cfg : QuadConfigs, children : [1 .. 9 -> Nat \cup NoChild]]

\* A pending sp_refresh(n, r), a pending sp_free(n) at the i-th child.
Refresh(n, r) == [op |-> "sp_refresh", node |-> n, rect |-> r]
Free(n, i) == [op |-> "sp_free", node |-> n, at |-> i]
Frames(ns) == [op : {"sp_refresh"}, node : ns, rect : Rect]
                \cup [op : {"sp_free"}, node : ns, at : Nat \ {0}]

Callbacks == [fn : {"init_data", "resize", "free_data"}, leaf : Nat,
              flags : SUBSET {"SP_MOVED", "SP_RESIZED"}]

\* NULL is told from everything it stands in for.
ASSUME NullAssumption == NULL \notin Nat \cup Rect \cup Callbacks

Idle == todo = << >> /\ call = NULL
Top == Head(todo)
At(op, types) == /\ call = NULL /\ todo # << >> /\ Top.op = op
                 /\ Top.node # NULL /\ node[Top.node].type \in types

-----------------------------------------------------------------------------
(* Building: C evaluates the arguments first, so children are the youngest *)
(* roots, in the order of the arguments.                                   *)

Create(new, args) ==
    /\ Idle /\ Len(node) < MaxNodes
    /\ node' = Append(node, new)
    /\ rect' = Append(rect, ZeroRect)
    /\ seen' = Append(seen, NULL)
    /\ roots' = Append(SubSeq(roots, 1, Len(roots) - args), Len(node) + 1)
    /\ UNCHANGED <<inited, shown, todo, call, freed>>

Youngest(k) == SubSeq(roots, Len(roots) - k + 1, Len(roots))

Init ==
    /\ node = << >> /\ rect = << >> /\ seen = << >> /\ roots = << >>
    /\ inited = {} /\ shown = {} /\ freed = {}
    /\ todo = << >> /\ call = NULL

sp_new_leaf == Create(Leaf, 0)

\* The gap may be a null pointer: only left and right are asserted.
sp_new_split(cfg) ==
    \/ Len(roots) >= 3 /\ Create(Split(cfg, Youngest(3)), 3)
    \/ NullGaps /\ Len(roots) >= 2 /\ Create(Split(cfg, Append(Youngest(2), NULL)), 2)

sp_new_quad(cfg) == Len(roots) >= 9 /\ Create(Quad(cfg, Youngest(9)), 9)

-----------------------------------------------------------------------------
(* sp_refresh *)

sp_refresh(n, r) ==
    /\ Idle
    /\ shown' = shown \cup {n} /\ Cardinality(shown') =< MaxShown
    /\ todo' = << Refresh(n, r) >>
    /\ UNCHANGED <<node, rect, inited, roots, call, seen, freed>>

Moved(from, to) == from.y # to.y \/ from.x # to.x
Resized(from, to) == from.rows # to.rows \/ from.cols # to.cols

\* A variant with a mistake: a move along x goes unnoticed.
FlagsOfRows(from, to) ==
    {f \in {"SP_MOVED"} : from.y # to.y} \cup
    {f \in {"SP_RESIZED"} : Resized(from, to)}

Flags(from, to) ==
    {f \in {"SP_MOVED"} : Moved(from, to)} \cup
    {f \in {"SP_RESIZED"} : Resized(from, to)}

ChildRects(n, r) ==
    IF node[n].type = "SP_SPLIT" THEN calc_split(node[n].cfg, r)
                                 ELSE calc_quad(node[n].cfg, r)

RefreshContainer ==
    /\ At("sp_refresh", {"SP_SPLIT", "SP_QUAD"})
    /\ LET n == Top.node
           rects == ChildRects(n, Top.rect)
       IN  /\ rect' = [rect EXCEPT ![n] = Top.rect]
           /\ todo' = [i \in DOMAIN Children(n) |->
                          Refresh(Children(n)[i], rects[i])] \o Tail(todo)
    /\ UNCHANGED <<node, inited, roots, shown, call, seen, freed>>

\* A variant with a mistake: a pane that only moved is not told.
CallbackOnResize(n, flags) ==
    IF n \notin inited THEN [fn |-> "init_data", leaf |-> n, flags |-> {}]
    ELSE IF "SP_RESIZED" \in flags
         THEN [fn |-> "resize", leaf |-> n, flags |-> flags] ELSE NULL

\* A variant with a mistake: the guard on the flags is missing.
CallbackAlways(n, flags) ==
    IF n \notin inited THEN [fn |-> "init_data", leaf |-> n, flags |-> {}]
    ELSE [fn |-> "resize", leaf |-> n, flags |-> flags]

\* The callback that sp_refresh of a leaf runs, if any.
Callback(n, flags) ==
    IF n \notin inited THEN [fn |-> "init_data", leaf |-> n, flags |-> {}]
    ELSE IF flags # {}
         THEN [fn |-> "resize", leaf |-> n, flags |-> flags] ELSE NULL

RefreshLeaf ==
    /\ At("sp_refresh", {"SP_LEAF"})
    /\ LET n == Top.node
       IN  /\ rect' = [rect EXCEPT ![n] = Top.rect]
           /\ call' = Callback(n, Flags(rect[n], Top.rect))
    /\ todo' = Tail(todo)
    /\ UNCHANGED <<node, inited, roots, shown, seen, freed>>

Running(fn) == call # NULL /\ call.fn = fn

\* The leaf's data is made for node->rect, as user_data is in the tests.
DataMade ==
    /\ seen' = [seen EXCEPT ![call.leaf] = rect[call.leaf]]
    /\ call' = NULL
    /\ UNCHANGED <<node, rect, roots, shown, todo, freed>>

InitSucceeds ==
    /\ Running("init_data")
    /\ inited' = inited \cup {call.leaf}
    /\ DataMade

\* A variant with a mistake: the failed call is repeated until it succeeds.
AfterFailureRetry(n) == << Refresh(n, rect[n]) >> \o todo

\* The next sp_refresh tries again; this one goes on to the next node.
AfterFailure(n) == todo

InitFails ==
    /\ Running("init_data") /\ call.leaf \in Flaky
    /\ todo' = AfterFailure(call.leaf)
    /\ call' = NULL
    /\ UNCHANGED <<node, rect, inited, roots, shown, seen, freed>>

ResizeReturns ==
    /\ Running("resize")
    /\ DataMade /\ UNCHANGED inited

-----------------------------------------------------------------------------
(* sp_free *)

sp_free(i) ==
    /\ Idle
    /\ todo' = << Free(roots[i], 1) >>
    /\ roots' = SubSeq(roots, 1, i - 1) \o SubSeq(roots, i + 1, Len(roots))
    /\ UNCHANGED <<node, rect, inited, shown, call, seen, freed>>

FreeLeaf ==
    /\ At("sp_free", {"SP_LEAF"})
    /\ call' = [fn |-> "free_data", leaf |-> Top.node, flags |-> {}]
    /\ todo' = Tail(todo)
    /\ UNCHANGED <<node, rect, inited, roots, shown, seen, freed>>

\* free_data releases the leaf's data, then free(node).
FreeDataReturns ==
    /\ Running("free_data")
    /\ seen' = [seen EXCEPT ![call.leaf] = NULL]
    /\ freed' = freed \cup {call.leaf}
    /\ call' = NULL
    /\ UNCHANGED <<node, rect, inited, roots, shown, todo>>

\* A variant with a mistake: the last child, the gap, is left out.
LoopEndEarly(n, i) == i >= Len(Children(n))

LoopEnd(n, i) == i > Len(Children(n))

FreeChild ==
    /\ At("sp_free", {"SP_SPLIT", "SP_QUAD"}) /\ ~LoopEnd(Top.node, Top.at)
    /\ todo' = << Free(Children(Top.node)[Top.at], 1),
                  Free(Top.node, Top.at + 1) >> \o Tail(todo)
    /\ UNCHANGED <<node, rect, inited, roots, shown, call, seen, freed>>

FreeContainer ==
    /\ At("sp_free", {"SP_SPLIT", "SP_QUAD"}) /\ LoopEnd(Top.node, Top.at)
    /\ freed' = freed \cup {Top.node}
    /\ todo' = Tail(todo)
    /\ UNCHANGED <<node, rect, inited, roots, shown, call, seen>>

-----------------------------------------------------------------------------
Return ==
    \/ RefreshContainer \/ RefreshLeaf
    \/ InitSucceeds \/ InitFails \/ ResizeReturns
    \/ FreeLeaf \/ FreeDataReturns \/ FreeChild \/ FreeContainer

Next ==
    \/ sp_new_leaf
    \/ \E cfg \in SplitConfigs : sp_new_split(cfg)
    \/ \E cfg \in QuadConfigs : sp_new_quad(cfg)
    \/ \E i \in DOMAIN roots, r \in ScreenRects : sp_refresh(roots[i], r)
    \/ \E i \in DOMAIN roots : sp_free(i)
    \/ Return

\* A call that was made runs on: the recursion takes its next step and every
\* callback returns.  The caller need not call anything.
Spec == Init /\ [][Next]_vars /\ WF_vars(Return)

-----------------------------------------------------------------------------
(* Properties *)

\* Ids are allocated children first; a resize is always for some change.
TypeOK ==
    /\ node \in Seq(Nodes) /\ Len(node) =< MaxNodes
    /\ \A n \in Ids : \A i \in DOMAIN Children(n) :
          Children(n)[i] \in (1 .. n - 1) \cup NoChild
    /\ rect \in Seq(Rect) /\ Len(rect) = Len(node)
    /\ seen \in Seq(Rect \cup {NULL}) /\ Len(seen) = Len(node)
    /\ roots \in Seq(Ids)
    /\ inited \in SUBSET Ids /\ shown \in SUBSET Ids /\ freed \in SUBSET Ids
    /\ todo \in Seq(Frames(Ids \cup NoChild))
    /\ call # NULL =>
          /\ call \in Callbacks
          /\ call.leaf \in Ids /\ node[call.leaf].type = "SP_LEAF"
          /\ call.fn = "resize" <=> call.flags # {}

\* The gap of every vertical split under n fits in its columns.
GapsFit(n) ==
    \A m \in Under[n] :
        node[m].type = "SP_SPLIT" /\ node[m].cfg.axis = "SP_VSPLIT"
            => node[m].cfg.split_gap =< rect[m].cols

LeafRects(n) ==
    [m \in {m \in Under[n] : node[m].type = "SP_LEAF"} |-> rect[m]]

\* When a refresh has returned, the leaves of the tree partition the rectangle
\* it was given, however deep and whatever was shown before: no cell of the
\* screen belongs to two panes or to none (splitty.h:120-229, 337-338), as
\* long as no vertical split is narrower than its gap.
Tiling ==
    \A n \in Range(roots) \cap shown :
        Idle /\ GapsFit(n) => Divides(LeafRects(n), rect[n])

\* The same without the exception.
TilingOfAll ==
    \A n \in Range(roots) \cap shown :
        Idle => Divides(LeafRects(n), rect[n])

\* What a leaf's data was made for is what the tree says of the leaf, at every
\* moment that no callback of the leaf is running: no change of a rectangle is
\* lost, with failed inits, roots that became children and repeated refreshes
\* (splitty.h:312-326).  A leaf without data is one that is not initialised.
LeavesInformed ==
    \A n \in Ids \ freed :
        node[n].type = "SP_LEAF" /\ ~(call # NULL /\ call.leaf = n) =>
            seen[n] = IF n \in inited THEN rect[n] ELSE NULL

\* A callback runs for a reason the leaf can see: init_data for a leaf without
\* data, resize for one whose data is out of date, with flags that are exactly
\* the difference to what the leaf last saw (splitty.h:310-326).
FlagsExact ==
    call # NULL =>
        /\ call.fn = "init_data" => seen[call.leaf] = NULL
        /\ call.fn = "resize" =>
              LET old == seen[call.leaf]
                  new == rect[call.leaf]
              IN  /\ old # NULL
                  /\ "SP_MOVED" \in call.flags
                        <=> << old.y, old.x >> # << new.y, new.x >>
                  /\ "SP_RESIZED" \in call.flags
                        <=> << old.rows, old.cols >> # << new.rows, new.cols >>

\* sp_free frees the nodes under a root, each once, with their data: no frame
\* of the recursion reads a node that was freed, and when it has returned
\* exactly the other trees are left (splitty.h:342-352).
FreedOnce ==
    /\ \A i \in DOMAIN todo : todo[i].node \notin freed
    /\ call # NULL => call.leaf \notin freed
    /\ \A n \in freed : seen[n] = NULL
    /\ Idle => freed = Ids \ UNION {Under[n] : n \in Range(roots)}

\* sp_refresh and sp_free return, a leaf whose init fails again and again
\* notwithstanding, unless they come to a gap that the caller left out: there
\* assert(node) or a null pointer ends the process (splitty.h:308, 343).
Aborted == todo # << >> /\ Top.node = NULL
CallsReturn == ~Idle ~> Idle \/ Aborted
=============================================================================
