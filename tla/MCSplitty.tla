------------------------------ MODULE MCSplitty ------------------------------
(* Ratios in quarters; rectangles that differ in place, in size, in both, and *)
(* one with no cells along an axis.                                         *)
EXTENDS Splitty

CONSTANTS MaxSplitNodes, MaxManyShown

SplitCfg(axis, ratio, gap) == [axis |-> axis, ratio |-> ratio, split_gap |-> gap]
QuadCfg(y, x, gap) == [ratio_y |-> y, ratio_x |-> x, quad_gap |-> gap]
Screen(rows, cols, y, x) == [y |-> y, x |-> x, rows |-> rows, cols |-> cols]

NoConfigs == {}

\* Nested splits: the root of a tree of two splits has 7 nodes.
Splits == {SplitCfg("SP_HSPLIT", 2, 1), SplitCfg("SP_VSPLIT", 3, 1)}
Screens == {Screen(3, 5, 0, 0), Screen(5, 3, 0, 0), Screen(3, 5, 1, 2)}

\* One quad, with ratios that leave an odd cell and gaps below, between and
\* above the sizes.
Quads == {QuadCfg(2, 3, 0), QuadCfg(2, 2, 1), QuadCfg(1, 4, 4)}

\* MaxSplitNodes bounds the nodes of a process with splits.  A process that
\* goes beyond has one quad, built in one expression as its first tree.
Quadded == \E n \in Ids : node[n].type = "SP_QUAD"
QuadFirst ==
    /\ node' # node /\ Len(node') > MaxSplitNodes =>
          /\ shown = {} /\ freed = {}
          /\ \A n \in Ids' : node'[n].type # "SP_SPLIT"
    /\ Len(node) > MaxSplitNodes /\ ~Quadded => node' # node
\* MaxManyShown bounds the nodes of a process that refreshes more than one of
\* them as a root or leaves out a gap.
Small == (Cardinality(shown') > 1 \/ (\E n \in Ids' : NULL \in Range(node'[n].children)))
            => Len(node') =< MaxManyShown
MCSpec == Init /\ [][Next /\ QuadFirst /\ Small]_vars /\ WF_vars(Return)

\* Vertical splits with a gap wider than the screen.
WideGaps == {SplitCfg("SP_VSPLIT", 2, 4)}
OneScreen == {Screen(2, 2, 0, 0)}
=============================================================================
