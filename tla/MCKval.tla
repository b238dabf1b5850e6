------------------------------- MODULE MCKval -------------------------------
(* Three keys, two values, and one address more than the blocks of three    *)
(* pairs and of the temporary key of a call.  An element of the pairs array *)
(* is 2 bytes, so that the array grows to a capacity of 2 and then of 4.    *)
EXTENDS Kval, FiniteSets

CONSTANTS k1, k2, k3, p1, p2, v1, v2

MCElem == [k : Addr, v : Addr]

\* No call looks at an address but to compare it with another or to read the
\* block there, and none reads a cell above size.  The view keeps exactly the
\* rest: what the fields of the pairs point to, how many blocks are live, which
\* fields are the same and which of them is held.
Structure ==
    << open, hda_cap(pairs), ret, Cardinality(DOMAIN heap),
       Cardinality(Keys \cup Values),
       [i \in Indices |-> << KeyAt(i), ValueAt(i) >>],
       IF held = NULL THEN NULL
       ELSE << held.text, {i \in Indices : PairAt(i).v = held.addr} >> >>

ThreeKeys == {k1, k2, k3}
OneKey == {k1}
NoPointers == {}
NoText == << >>
\* Two variables of type char * that point to equal strings.
TwoPointers == {p1, p2}
SameText == [p \in TwoPointers |-> k1]
=============================================================================
