----------------------------- MODULE TrieProofs -----------------------------
(***************************************************************************)
(* Proofs about the prefix tree, for every alphabet, set of words and type *)
(* of data.                                                                *)
(***************************************************************************)
EXTENDS Trie, FiniteSetTheorems, SequenceTheorems, TLAPS

\* A string of characters begins with its prefixes, and they with theirs.
LEMMA PrefixFacts ==
    ASSUME NEW s \in Seq(Char)
    PROVE  /\ s \in Prefixes(s) /\ Root \in Prefixes(s)
           /\ \A p \in Prefixes(s) :
                 /\ p \in Seq(Char) /\ Len(p) =< Len(s)
                 /\ p = SubSeq(s, 1, Len(p))
                 /\ Prefixes(p) \subseteq Prefixes(s)
<1>1. \A n \in 0 .. Len(s) : SubSeq(s, 1, n) \in Seq(Char) /\ Len(SubSeq(s, 1, n)) = n
  <2> SUFFICES ASSUME NEW n \in 0 .. Len(s)
               PROVE  SubSeq(s, 1, n) \in Seq(Char) /\ Len(SubSeq(s, 1, n)) = n
    OBVIOUS
  <2> QED BY SubSeqProperties
<1>2. s = SubSeq(s, 1, Len(s)) /\ Root = SubSeq(s, 1, 0)
  BY SubSeqProperties DEF Root
<1>3. ASSUME NEW n \in 0 .. Len(s), NEW m \in 0 .. n
      PROVE  SubSeq(SubSeq(s, 1, n), 1, m) = SubSeq(s, 1, m)
  BY <1>1, <1>3, SubSeqProperties
<1>4. ASSUME NEW p \in Prefixes(s)
      PROVE  /\ p \in Seq(Char) /\ Len(p) =< Len(s)
             /\ p = SubSeq(s, 1, Len(p))
             /\ Prefixes(p) \subseteq Prefixes(s)
  <2>1. PICK n \in 0 .. Len(s) : p = SubSeq(s, 1, n) BY <1>4 DEF Prefixes
  <2>2. p \in Seq(Char) /\ Len(p) = n BY <1>1, <2>1
  <2>3. ASSUME NEW m \in 0 .. Len(p) PROVE SubSeq(p, 1, m) \in Prefixes(s)
    <3>1. SubSeq(p, 1, m) = SubSeq(s, 1, m) /\ m \in 0 .. Len(s)
      BY <1>3, <2>1, <2>2
    <3> QED BY <3>1 DEF Prefixes
  <2> QED BY <2>1, <2>2, <2>3 DEF Prefixes
<1>5. s \in Prefixes(s) /\ Root \in Prefixes(s)
  <2>1. 0 \in 0 .. Len(s) /\ Len(s) \in 0 .. Len(s) BY LenProperties
  <2> QED BY <1>2, <2>1 DEF Prefixes
<1> QED BY <1>4, <1>5

\* The parent of a prefix of a string is a prefix, and the prefix is its only
\* child among them.
LEMMA ParentFacts ==
    ASSUME NEW s \in Seq(Char), NEW q \in Prefixes(s), q # Root
    PROVE  /\ Front(q) \in Prefixes(q) /\ Front(q) \in Prefixes(s)
           /\ Len(q) = Len(Front(q)) + 1
           /\ q = SubSeq(s, 1, Len(Front(q)) + 1)
<1>1. q \in Seq(Char) /\ q = SubSeq(s, 1, Len(q)) /\ Prefixes(q) \subseteq Prefixes(s)
  BY PrefixFacts
<1>2. Len(q) \in Nat /\ Len(q) # 0 BY <1>1, EmptySeq DEF Root
<1>3. Front(q) = SubSeq(q, 1, Len(q) - 1) BY DEF Front
<1>4. Len(q) - 1 \in 0 .. Len(q) BY <1>2
<1>5. Front(q) \in Prefixes(q) BY <1>3, <1>4 DEF Prefixes
<1>6. Len(Front(q)) = Len(q) - 1
  BY <1>1, <1>2, <1>3, SubSeqProperties
<1> QED BY <1>1, <1>2, <1>5, <1>6

-----------------------------------------------------------------------------
(* The inductive invariant *)

\* Every node has finitely many children, every block that a node points to is
\* one that was paid for, and only words that were added are keys.
Shape ==
    /\ \A p \in Nodes : IsFiniteSet(ChildrenIn(Nodes, p))
    /\ IsFiniteSet(Owners) /\ Cardinality(Owners) =< blocks
    /\ \A p \in Nodes : trie[p].term => p \in Words

IInv == TypeOK /\ Counted /\ Shape

\* The fields of a node after an add of s.
LEMMA StoredFields ==
    ASSUME TypeOK, NEW s \in Seq(Char), NEW d \in Val \cup {NULL},
           trie' = Stored(s, d), NEW p \in Nodes \cup Prefixes(s)
    PROVE  LET old == IF p \in Nodes THEN trie[p] ELSE NewNode
           IN  /\ Nodes' = Nodes \cup Prefixes(s)
               /\ old \in Node
               /\ trie[p]'.child_n = old.child_n + ChildrenCreated(p, s)
               /\ trie[p]'.term = (old.term \/ p = s)
               /\ trie[p]'.data = IF p = s /\ d # NULL THEN d ELSE old.data
               /\ DOMAIN (trie[p]') = {"child_n", "term", "data"}
<1> DEFINE old == IF p \in Nodes THEN trie[p] ELSE NewNode
           counted == [old EXCEPT !.child_n = @ + ChildrenCreated(p, s)]
<1>1. Nodes' = Nodes \cup Prefixes(s) BY DEF Stored, Nodes
<1>2. old \in Node BY DEF TypeOK, NewNode, Node
<1>3. trie[p]' = IF p = s THEN Marked(counted, d) ELSE counted
  BY DEF Stored
<1>4. /\ counted.child_n = old.child_n + ChildrenCreated(p, s)
      /\ counted.term = old.term /\ counted.data = old.data
      /\ DOMAIN counted = {"child_n", "term", "data"}
  BY <1>2 DEF Node
<1>5. /\ Marked(counted, d).child_n = counted.child_n
      /\ Marked(counted, d).term = TRUE
      /\ Marked(counted, d).data = IF d = NULL THEN counted.data ELSE d
      /\ DOMAIN Marked(counted, d) = {"child_n", "term", "data"}
  BY <1>4 DEF Marked
<1> HIDE DEF old, counted
<1>6. /\ trie[p]'.child_n = old.child_n + ChildrenCreated(p, s)
      /\ trie[p]'.term = (old.term \/ p = s)
      /\ trie[p]'.data = IF p = s /\ d # NULL THEN d ELSE old.data
      /\ DOMAIN (trie[p]') = {"child_n", "term", "data"}
  <2>1. CASE p = s BY <2>1, <1>2, <1>3, <1>4, <1>5 DEF Node
  <2>2. CASE p # s BY <2>2, <1>2, <1>3, <1>4 DEF Node
  <2> QED BY <2>1, <2>2
<1> QED BY <1>1, <1>2, <1>6 DEF old

\* A node has at most one child on the way of a word.
LEMMA OneChildCreated ==
    ASSUME NEW s \in Seq(Char), NEW p
    PROVE  /\ IsFiniteSet(ChildrenIn(Prefixes(s) \ Nodes, p))
           /\ ChildrenCreated(p, s) \in Nat
<1> DEFINE only == {SubSeq(s, 1, Len(p) + 1)}
<1>1. ChildrenIn(Prefixes(s) \ Nodes, p) \in SUBSET only
  BY ParentFacts DEF ChildrenIn
<1>2. IsFiniteSet(only) BY FS_Singleton
<1>3. IsFiniteSet(ChildrenIn(Prefixes(s) \ Nodes, p))
  BY <1>1, <1>2, FS_Subset
<1> QED BY <1>3, FS_CardinalityType DEF ChildrenCreated

\* An add keeps the counters equal to the numbers of children.
LEMMA StoredCounts ==
    ASSUME IInv, NEW s \in Seq(Char), NEW d \in Val \cup {NULL},
           trie' = Stored(s, d), NEW p \in Nodes'
    PROVE  /\ IsFiniteSet(ChildrenIn(Nodes', p))
           /\ trie[p]'.child_n = Cardinality(ChildrenIn(Nodes', p))
<1> USE DEF IInv
<1> DEFINE old == ChildrenIn(Nodes, p)
           new == ChildrenIn(Prefixes(s) \ Nodes, p)
<1>1. Nodes' = Nodes \cup Prefixes(s) BY DEF Stored, Nodes
<1>2. ChildrenIn(Nodes', p) = old \cup new /\ old \cap new = {}
  BY <1>1 DEF ChildrenIn
<1>3. IsFiniteSet(new) /\ Cardinality(new) \in Nat
  BY OneChildCreated DEF ChildrenCreated
<1>4. /\ IsFiniteSet(old) /\ Cardinality(old) \in Nat
      /\ (IF p \in Nodes THEN trie[p] ELSE NewNode).child_n = Cardinality(old)
  <2>1. CASE p \in Nodes BY <2>1, FS_CardinalityType DEF Shape, Counted
  <2>2. CASE p \notin Nodes
    <3>1. old = {}
      <4> SUFFICES ASSUME NEW q \in Nodes, q # Root, Front(q) = p PROVE FALSE
        BY DEF ChildrenIn
      <4>1. q \in Seq(Char) /\ Prefixes(q) \subseteq Nodes BY DEF TypeOK, Counted
      <4>2. p \in Prefixes(q) BY <4>1, PrefixFacts, ParentFacts
      <4> QED BY <2>2, <4>1, <4>2
    <3> QED BY <2>2, <3>1, FS_EmptySet DEF NewNode
  <2> QED BY <2>1, <2>2
<1>5. /\ IsFiniteSet(old \cup new)
      /\ Cardinality(old \cup new) = Cardinality(old) + Cardinality(new)
  <2>1. Cardinality(old \cap new) = 0 BY <1>2, FS_EmptySet
  <2> HIDE DEF old, new, IInv
  <2>2. /\ IsFiniteSet(old \cup new)
        /\ Cardinality(old \cup new)
              = Cardinality(old) + Cardinality(new) - Cardinality(old \cap new)
    BY <1>3, <1>4, FS_Union
  <2> QED BY <1>3, <1>4, <2>1, <2>2
<1>6. trie[p]'.child_n
        = (IF p \in Nodes THEN trie[p] ELSE NewNode).child_n + Cardinality(new)
  BY <1>1, StoredFields DEF ChildrenCreated
<1> QED BY <1>2, <1>4, <1>5, <1>6

\* An add leaves every node below the root on the way to a key.
LEMMA StoredReaches ==
    ASSUME IInv, NEW s \in Words, NEW d \in Val \cup {NULL},
           trie' = Stored(s, d), NEW p \in Nodes'
    PROVE  /\ p \in Seq(Char) /\ Prefixes(p) \subseteq Nodes'
           /\ p # Root => \E k \in Nodes' : trie[k]'.term /\ p \in Prefixes(k)
           /\ trie[p]'.term => p \in Words
<1> USE DEF IInv
<1>1. s \in Seq(Char) BY WordsAssumption
<1>2. Nodes' = Nodes \cup Prefixes(s) BY DEF Stored, Nodes
<1>3. s \in Nodes' /\ trie[s]'.term
  BY <1>1, <1>2, StoredFields, PrefixFacts
<1>4. CASE p \in Prefixes(s)
  <2>1. p \in Seq(Char) /\ Prefixes(p) \subseteq Nodes' BY <1>1, <1>2, <1>4, PrefixFacts
  <2>2. trie[p]'.term => p \in Words
    BY <1>1, <1>2, <1>4, StoredFields DEF NewNode, Shape
  <2> QED BY <1>3, <1>4, <2>1, <2>2
<1>5. CASE p \in Nodes
  <2>1. p \in Seq(Char) /\ Prefixes(p) \subseteq Nodes' BY <1>2, <1>5 DEF TypeOK, Counted
  <2>2. trie[p]'.term => p \in Words
    BY <1>1, <1>2, <1>5, StoredFields DEF Shape
  <2>3. ASSUME p # Root
        PROVE  \E k \in Nodes' : trie[k]'.term /\ p \in Prefixes(k)
    <3>1. PICK k \in Nodes : trie[k].term /\ p \in Prefixes(k)
      BY <1>5, <2>3 DEF Counted
    <3>2. k \in Nodes' /\ trie[k]'.term BY <1>1, <1>2, <3>1, StoredFields
    <3> QED BY <3>1, <3>2
  <2> QED BY <2>1, <2>2, <2>3
<1> QED BY <1>2, <1>4, <1>5

\* An add makes at most the end of its word an owner of a block.
LEMMA StoredOwners ==
    ASSUME IInv, NEW s \in Seq(Char), NEW d \in Val \cup {NULL},
           trie' = Stored(s, d)
    PROVE  /\ IsFiniteSet(Owners')
           /\ Cardinality(Owners') =< Cardinality(Owners)
                                        + IF d = NULL THEN 0 ELSE 1
<1> USE DEF IInv
<1>1. Nodes' = Nodes \cup Prefixes(s) BY DEF Stored, Nodes
<1>2. IsFiniteSet(Owners) /\ Cardinality(Owners) \in Nat
  BY FS_CardinalityType DEF Shape
<1>3. Owners' \subseteq (IF d = NULL THEN Owners ELSE Owners \cup {s})
  <2> SUFFICES ASSUME NEW p \in Nodes', trie[p]'.data # NULL
               PROVE  p \in Owners \/ (p = s /\ d # NULL)
    BY DEF Owners, HasData
  <2>1. trie[p]'.data = IF p = s /\ d # NULL THEN d
                        ELSE (IF p \in Nodes THEN trie[p] ELSE NewNode).data
    BY <1>1, StoredFields
  <2> QED BY <2>1 DEF NewNode, Owners, HasData
<1>4. /\ IsFiniteSet(Owners \cup {s})
      /\ Cardinality(Owners \cup {s}) =< Cardinality(Owners) + 1
  <2> HIDE DEF IInv
  <2>1. /\ IsFiniteSet(Owners \cup {s})
        /\ Cardinality(Owners \cup {s})
              = IF s \in Owners THEN Cardinality(Owners) ELSE Cardinality(Owners) + 1
    BY <1>2, FS_AddElement
  <2> QED BY <1>2, <2>1
<1>5. CASE d = NULL BY <1>2, <1>3, <1>5, FS_Subset
<1>6. CASE d # NULL
  <2>1. IsFiniteSet(Owners') /\ Cardinality(Owners') =< Cardinality(Owners \cup {s})
    BY <1>3, <1>4, <1>6, FS_Subset
  <2>2. Cardinality(Owners') \in Nat /\ Cardinality(Owners \cup {s}) \in Nat
    BY <1>4, <2>1, FS_CardinalityType
  <2> QED BY <1>2, <1>4, <1>6, <2>1, <2>2
<1> QED BY <1>5, <1>6

-----------------------------------------------------------------------------
(* Invariance *)

\* An add keeps the invariant.
LEMMA AddKeeps ==
    ASSUME IInv, NEW s \in Words, NEW d \in Val \cup {NULL},
           trie' = Stored(s, d), call' \in Calls,
           blocks' = blocks + IF d = NULL THEN 0 ELSE 1
    PROVE  IInv'
<1> USE DEF IInv
<1>1. s \in Seq(Char) BY WordsAssumption
<1>2. TypeOK'
  <2>1. ASSUME NEW p \in Nodes'
        PROVE  p \in Seq(Char) /\ trie[p]' \in Node /\ (HasData(p)' => trie[p]'.term)
    <3> DEFINE old == IF p \in Nodes THEN trie[p] ELSE NewNode
    <3>1. p \in Nodes \cup Prefixes(s) BY <2>1 DEF Stored, Nodes
    <3>2. old \in Node /\ (old.data # NULL => old.term)
      BY DEF TypeOK, HasData, NewNode, Node
    <3>3. /\ trie[p]'.child_n = old.child_n + ChildrenCreated(p, s)
          /\ trie[p]'.term = (old.term \/ p = s)
          /\ trie[p]'.data = IF p = s /\ d # NULL THEN d ELSE old.data
      BY <1>1, <3>1, StoredFields
    <3>4. trie[p]' \in Node
      <4> DEFINE counted == [old EXCEPT !.child_n = @ + ChildrenCreated(p, s)]
      <4>1. trie[p]' = IF p = s THEN Marked(counted, d) ELSE counted
        BY <3>1 DEF Stored
      <4>2. ChildrenCreated(p, s) \in Nat BY <1>1, OneChildCreated
      <4>3. counted \in Node
        <5> HIDE DEF old
        <5> QED BY <3>2, <4>2 DEF Node
      <4> HIDE DEF counted
      <4>4. Marked(counted, d) \in Node BY <4>3 DEF Node, Marked
      <4> QED BY <4>1, <4>3, <4>4
    <3>5. p \in Seq(Char) BY <2>1, StoredReaches
    <3> HIDE DEF old
    <3> QED BY <3>2, <3>3, <3>4, <3>5 DEF HasData
  <2> QED BY <2>1 DEF TypeOK
<1>3. Counted' BY <1>1, StoredCounts, StoredReaches DEF Counted
<1>4. Shape'
  <2>1. blocks' \in Nat /\ Cardinality(Owners') =< blocks' /\ IsFiniteSet(Owners')
    <3>1. Cardinality(Owners) \in Nat /\ Cardinality(Owners) =< blocks
          /\ blocks \in Nat
      BY FS_CardinalityType DEF Shape, TypeOK
    <3>2. IsFiniteSet(Owners') /\ Cardinality(Owners') \in Nat
          /\ Cardinality(Owners') =< Cardinality(Owners)
                                        + IF d = NULL THEN 0 ELSE 1
      BY <1>1, StoredOwners, FS_CardinalityType
    <3> HIDE DEF IInv
    <3> QED BY <3>1, <3>2
  <2> QED BY <1>1, <2>1, StoredCounts, StoredReaches DEF Shape
<1> QED BY <1>2, <1>3, <1>4

\* The trie without nodes, before trie_create and after trie_destroy.
LEMMA EmptyKeeps ==
    ASSUME trie = << >>, blocks \in Nat, call = NULL
    PROVE  IInv
<1>1. Nodes = {} BY EmptySeq DEF Nodes
<1>2. Owners = {} BY <1>1 DEF Owners
<1> QED BY <1>1, <1>2, FS_EmptySet DEF IInv, TypeOK, Counted, Shape

\* A trie of one node.
LEMMA CreateKeeps == IInv /\ trie_create => IInv'
<1> SUFFICES ASSUME IInv, trie_create PROVE IInv' OBVIOUS
<1>1. Nodes = {} /\ Nodes' = {Root} /\ trie[Root]' = NewNode
      /\ call' = NULL /\ blocks' = blocks
  BY DEF trie_create, Nodes
<1>2. Root \in Seq(Char) /\ Prefixes(Root) \subseteq {Root}
  BY EmptySeq, SubSeqEmpty DEF Root, Prefixes
<1>3. ChildrenIn(Nodes', Root) = {} BY <1>1 DEF ChildrenIn
<1>4. Owners = {} /\ Owners' = {} BY <1>1 DEF Owners, HasData, NewNode
<1>5. TypeOK'
  <2>1. NewNode \in Node /\ NewNode.data = NULL BY DEF NewNode, Node
  <2>2. blocks' \in Nat BY <1>1 DEF IInv, TypeOK
  <2> QED BY <1>1, <1>2, <2>1, <2>2 DEF TypeOK, HasData
<1>6. Counted'
  <2>1. NewNode.child_n = 0 BY DEF NewNode
  <2>2. Cardinality(ChildrenIn(Nodes', Root)) = 0 BY <1>3, FS_EmptySet
  <2> QED BY <1>1, <1>2, <2>1, <2>2 DEF Counted
<1>7. Shape'
  BY <1>1, <1>3, <1>4, FS_EmptySet DEF IInv, Shape, TypeOK, NewNode
<1> QED BY <1>5, <1>6, <1>7 DEF IInv

\* Destroying a trie frees no more blocks than there are.
LEMMA DestroyKeeps == IInv /\ trie_destroy => IInv'
<1> SUFFICES ASSUME IInv, trie_destroy PROVE IInv' OBVIOUS
<1>1. Cardinality(Owners) \in Nat /\ Cardinality(Owners) =< blocks
      /\ blocks \in Nat
  BY FS_CardinalityType DEF IInv, Shape, TypeOK
<1>2. blocks' \in Nat BY <1>1 DEF trie_destroy
<1>3. call' = NULL BY DEF trie_destroy
<1>4. Nodes' = {} BY EmptySeq DEF trie_destroy, Nodes
<1>5. Owners' = {} BY <1>4 DEF Owners
<1>6. TypeOK' BY <1>2, <1>3, <1>4 DEF TypeOK
<1>7. Counted' BY <1>4 DEF Counted
<1>8. Shape' BY <1>2, <1>4, <1>5, FS_EmptySet DEF Shape
<1> QED BY <1>6, <1>7, <1>8 DEF IInv

\* A lookup changes nothing but the record of the last call.
LEMMA LookupKeeps ==
    ASSUME IInv, NEW s \in Words, trie_lookup(s)
    PROVE  IInv'
<1>1. trie' = trie /\ blocks' = blocks BY DEF trie_lookup
<1>2. Answer(s) \in [stat : Statuses, data : Val \cup {NULL}]
  <2>1. CASE Prefixes(s) \subseteq Nodes
    <3>1. s \in Nodes BY <2>1, PrefixFacts, WordsAssumption
    <3>2. trie[s] \in Node BY <3>1 DEF IInv, TypeOK
    <3>3. StatusAt(trie[s]) \in Statuses BY <3>2 DEF StatusAt, Statuses, Node
    <3> QED BY <2>1, <3>2, <3>3 DEF Answer, Node
  <2>2. CASE ~(Prefixes(s) \subseteq Nodes)
    BY <2>2 DEF Answer, Statuses
  <2> QED BY <2>1, <2>2
<1>3. call' \in Calls BY <1>2 DEF trie_lookup, Calls
<1> QED BY <1>1, <1>3 DEF IInv, TypeOK, Counted, Shape, Nodes, Owners, HasData

\* The inductive invariant.
LEMMA IInvNext == IInv /\ [Next]_vars => IInv'
<1> SUFFICES ASSUME IInv, [Next]_vars PROVE IInv' OBVIOUS
<1>1. CASE trie_create BY <1>1, CreateKeeps
<1>2. CASE \E s \in Words, d \in Val : trie_add(s, d)
  <2>1. PICK s \in Words, d \in Val : trie_add(s, d) BY <1>2
  <2>2. call' \in Calls BY <2>1 DEF trie_add, Calls
  <2> QED BY <2>1, <2>2, AddKeeps, WordsAssumption DEF trie_add
<1>3. CASE \E s \in Words : trie_put(s) \/ trie_lookup(s)
  <2>1. PICK s \in Words : trie_put(s) \/ trie_lookup(s) BY <1>3
  <2>2. CASE trie_put(s)
    <3>1. blocks' = blocks + 0 BY <2>2 DEF trie_put, IInv, TypeOK
    <3>2. call' \in Calls BY <2>2 DEF trie_put, Calls
    <3> QED BY <2>2, <3>1, <3>2, AddKeeps DEF trie_put
  <2> QED BY <2>1, <2>2, LookupKeeps
<1>4. CASE trie_destroy BY <1>4, DestroyKeeps
<1>5. CASE UNCHANGED vars
  BY <1>5 DEF vars, IInv, TypeOK, Counted, Shape, Nodes, Owners, HasData
<1> QED BY <1>1, <1>2, <1>3, <1>4, <1>5 DEF Next

\* Type correctness and the strengthened invariant, for every alphabet, set of
\* words and bound on the blocks.
THEOREM InductiveInvariant == Spec => []IInv
<1>1. Init => IInv BY EmptyKeeps DEF Init
<1> QED BY <1>1, IInvNext, PTL DEF Spec

\* The fields of the nodes keep their types, and data is only at keys
\* (trie.h:23-28).
THEOREM TypeCorrect == Spec => []TypeOK
<1>1. IInv => TypeOK BY DEF IInv
<1> QED BY <1>1, InductiveInvariant, PTL

\* Counters and branches stay exact whatever is added (trie.h:72-75).
THEOREM CountersExact == Spec => []Counted
<1>1. IInv => Counted BY DEF IInv
<1> QED BY <1>1, InductiveInvariant, PTL

-----------------------------------------------------------------------------
(* The trie is the set of its keys *)

\* The keys, and what a word has as data, in terms of the nodes.
AbsKeys == {p \in Nodes : trie[p].term}
AbsData == [w \in Words |-> IF w \in Nodes THEN trie[w].data ELSE NULL]

\* A node has children exactly if some key goes on from there.
LEMMA ExtendedAt ==
    ASSUME IInv, NEW s \in Nodes
    PROVE  trie[s].child_n > 0 <=> \E k \in AbsKeys : IsStrictPrefix(s, k)
<1> DEFINE kids == ChildrenIn(Nodes, s)
<1>1. IsFiniteSet(kids) /\ trie[s].child_n = Cardinality(kids) /\ s \in Seq(Char)
  BY DEF IInv, Shape, Counted, TypeOK
<1>2. trie[s].child_n > 0 <=> kids # {}
  <2> HIDE DEF kids
  <2> QED BY <1>1, FS_EmptySet, FS_CardinalityType
<1>3. ASSUME NEW q \in kids PROVE \E k \in AbsKeys : IsStrictPrefix(s, k)
  <2>1. q \in Nodes /\ q # Root /\ Front(q) = s /\ q \in Seq(Char)
    BY DEF ChildrenIn, IInv, TypeOK
  <2>2. PICK k \in Nodes : trie[k].term /\ q \in Prefixes(k)
    BY <2>1 DEF IInv, Counted
  <2>3. k \in Seq(Char) BY <2>2 DEF IInv, TypeOK
  <2>4. s \in Prefixes(k) /\ Len(q) = Len(s) + 1 /\ Len(q) =< Len(k)
    BY <2>1, <2>2, <2>3, ParentFacts, PrefixFacts
  <2>5. s = SubSeq(k, 1, Len(s)) /\ s = SubSeq(s, 1, Len(s))
    BY <1>1, <2>3, <2>4, PrefixFacts
  <2>6. Len(s) \in Nat /\ Len(k) \in Nat BY <1>1, <2>3, LenProperties
  <2>7. IsPrefix(s, k) /\ s # k BY <2>4, <2>5, <2>6 DEF IsPrefix
  <2> QED BY <2>2, <2>7 DEF AbsKeys, IsStrictPrefix
<1>4. ASSUME NEW k \in AbsKeys, IsStrictPrefix(s, k) PROVE kids # {}
  <2>1. k \in Nodes /\ k \in Seq(Char) /\ Prefixes(k) \subseteq Nodes
    BY DEF AbsKeys, IInv, TypeOK, Counted
  <2>2. /\ Len(s) \in Nat /\ Len(k) \in Nat /\ Len(s) =< Len(k)
        /\ SubSeq(s, 1, Len(s)) = SubSeq(k, 1, Len(s)) /\ s # k
    BY <1>1, <1>4, <2>1, LenProperties DEF IsStrictPrefix, IsPrefix
  <2>3. s = SubSeq(k, 1, Len(s)) /\ k = SubSeq(k, 1, Len(k))
    BY <1>1, <2>1, <2>2, PrefixFacts
  <2>4. Len(s) + 1 \in 0 .. Len(k) BY <2>2, <2>3
  <2> DEFINE q == SubSeq(k, 1, Len(s) + 1)
  <2>5. q \in Prefixes(k) BY <2>4 DEF Prefixes
  <2>6. \A i \in 1 .. Len(s) + 1 : k[i] \in Char BY <2>1, <2>4, ElementOfSeq
  <2>7. q \in Seq(Char) /\ Len(q) = Len(s) + 1
    <3>1. 1 \in Int /\ Len(s) + 1 \in Int /\ 1 =< Len(s) + 1 BY <2>2
    <3>2. /\ q \in Seq(Char)
          /\ Len(q) = IF 1 =< Len(s) + 1 THEN (Len(s) + 1) - 1 + 1 ELSE 0
      BY <2>6, <3>1, SubSeqProperties
    <3> QED BY <2>2, <3>1, <3>2
  <2>8. q # Root BY <2>2, <2>7, EmptySeq DEF Root
  <2> HIDE DEF q
  <2>9. Front(q) \in Prefixes(k) /\ Len(Front(q)) + 1 = Len(s) + 1
    BY <2>1, <2>5, <2>7, <2>8, ParentFacts
  <2>10. Front(q) = s
    <3>1. Front(q) \in Seq(Char) /\ Front(q) = SubSeq(k, 1, Len(Front(q)))
      BY <2>1, <2>9, PrefixFacts
    <3>2. Len(Front(q)) = Len(s) BY <2>2, <2>9, <3>1, LenProperties
    <3> QED BY <2>3, <3>1, <3>2
  <2> QED BY <2>1, <2>5, <2>8, <2>10 DEF ChildrenIn
<1> QED BY <1>2, <1>3, <1>4

\* What a lookup answers is what the set of keys says.
LEMMA LookupSimulates ==
    ASSUME IInv, NEW s \in Words, trie_lookup(s)
    PROVE  Abs!Lookup(s)
<1>1. s \in Seq(Char) BY WordsAssumption
<1>2. Abs!Extended(s) <=> \E k \in AbsKeys : IsStrictPrefix(s, k)
  BY DEF Abs!Extended, AbsKeys, Abs!IsStrictPrefix, Abs!IsPrefix, IsStrictPrefix, IsPrefix
<1>3. s \in {p \in Nodes : trie[p].term} <=> s \in AbsKeys BY DEF AbsKeys
<1>4. Abs!Status(s) =
        IF s \in AbsKeys
        THEN IF \E k \in AbsKeys : IsStrictPrefix(s, k) THEN "TRIE_AMBIG" ELSE "TRIE_MATCH"
        ELSE IF \E k \in AbsKeys : IsStrictPrefix(s, k) THEN "TRIE_WAIT" ELSE "TRIE_NONE"
  BY <1>2, <1>3 DEF Abs!Status
<1>5. CASE Prefixes(s) \subseteq Nodes
  <2>1. s \in Nodes /\ trie[s] \in Node
    BY <1>1, <1>5, PrefixFacts DEF IInv, TypeOK
  <2>2. trie[s].child_n > 0 <=> \E k \in AbsKeys : IsStrictPrefix(s, k)
    BY <2>1, ExtendedAt
  <2>3. s \in AbsKeys <=> trie[s].term BY <2>1 DEF AbsKeys
  <2>4. StatusAt(trie[s]) = Abs!Status(s)
    BY <1>4, <2>1, <2>2, <2>3 DEF StatusAt, Node
  <2>5. Answer(s) = [stat |-> Abs!Status(s), data |-> AbsData[s]]
    BY <1>5, <2>1, <2>4 DEF Answer, AbsData
  <2> QED BY <2>5 DEF trie_lookup, Abs!Lookup, AbsData, Nodes
<1>6. CASE ~(Prefixes(s) \subseteq Nodes)
  <2>1. s \notin Nodes BY <1>6 DEF IInv, Counted
  <2>2. ~ \E k \in AbsKeys : IsStrictPrefix(s, k)
    <3> SUFFICES ASSUME NEW k \in AbsKeys, IsStrictPrefix(s, k) PROVE FALSE
      OBVIOUS
    <3>1. k \in Seq(Char) /\ Prefixes(k) \subseteq Nodes
      BY DEF AbsKeys, IInv, TypeOK, Counted
    <3>2. /\ Len(s) \in 0 .. Len(k)
          /\ SubSeq(s, 1, Len(s)) = SubSeq(k, 1, Len(s))
      BY <1>1, <3>1, LenProperties DEF IsStrictPrefix, IsPrefix
    <3>3. s = SubSeq(s, 1, Len(s)) BY <1>1, PrefixFacts
    <3>4. s \in Prefixes(k) BY <3>2, <3>3 DEF Prefixes
    <3> QED BY <2>1, <3>1, <3>4
  <2>3. Abs!Status(s) = "TRIE_NONE" BY <1>4, <2>1, <2>2 DEF AbsKeys
  <2>4. AbsData[s] = NULL BY <2>1 DEF AbsData
  <2>5. Answer(s) = [stat |-> Abs!Status(s), data |-> AbsData[s]]
    BY <1>6, <2>3, <2>4 DEF Answer
  <2> QED BY <2>5 DEF trie_lookup, Abs!Lookup, AbsData, Nodes
<1> QED BY <1>5, <1>6

\* An add makes its word a key and gives it data, and touches no other.
LEMMA StoredSimulates ==
    ASSUME IInv, NEW s \in Words, NEW d \in Val \cup {NULL}, trie' = Stored(s, d)
    PROVE  /\ AbsKeys' = AbsKeys \cup {s}
           /\ AbsData' = IF d = NULL THEN AbsData ELSE [AbsData EXCEPT ![s] = d]
<1> DEFINE old(p) == IF p \in Nodes THEN trie[p] ELSE NewNode
<1>1. s \in Seq(Char) BY WordsAssumption
<1>2. Nodes' = Nodes \cup Prefixes(s) /\ s \in Nodes'
  BY <1>1, PrefixFacts DEF Stored, Nodes
<1>3. \A p \in Nodes' :
        /\ trie[p]'.term = (old(p).term \/ p = s)
        /\ trie[p]'.data = IF p = s /\ d # NULL THEN d ELSE old(p).data
  BY <1>1, <1>2, StoredFields DEF IInv
<1>4. AbsKeys' = AbsKeys \cup {s}
  BY <1>2, <1>3 DEF AbsKeys, NewNode, IInv, TypeOK, Node
<1>5. \A w \in Words : AbsData'[w] = IF w = s /\ d # NULL THEN d ELSE AbsData[w]
  <2> SUFFICES ASSUME NEW w \in Words
               PROVE  AbsData'[w] = IF w = s /\ d # NULL THEN d ELSE AbsData[w]
    OBVIOUS
  <2>1. AbsData'[w] = IF w \in Nodes' THEN trie[w]'.data ELSE NULL
    BY DEF AbsData
  <2>2. AbsData[w] = old(w).data BY DEF AbsData, NewNode
  <2>3. w \notin Nodes' => w \notin Nodes BY <1>2
  <2>4. w \notin Nodes => AbsData[w] = NULL BY DEF AbsData
  <2> QED BY <1>2, <1>3, <2>1, <2>2, <2>3, <2>4
<1>6. /\ AbsData' = [w \in Words |-> AbsData'[w]]
      /\ AbsData = [w \in Words |-> AbsData[w]]
  BY DEF AbsData
<1> HIDE DEF old
<1> QED BY <1>4, <1>5, <1>6

\* Every step is a step of the abstract trie, or changes nothing there.
LEMMA StepSimulates == IInv /\ [Next]_vars => [Abs!Next]_(Abs!vars)
<1> SUFFICES ASSUME IInv, [Next]_vars PROVE [Abs!Next]_(Abs!vars) OBVIOUS
<1>1. CASE trie_create
  <2>1. Nodes = {} /\ Nodes' = {Root} /\ ~trie[Root]'.term /\ trie[Root]'.data = NULL
    BY <1>1 DEF trie_create, Nodes, NewNode
  <2>2. AbsKeys = {} /\ AbsKeys' = {} /\ AbsData' = Abs!NoData
    BY <2>1 DEF AbsKeys, AbsData, Abs!NoData
  <2> QED BY <1>1, <2>2 DEF trie_create, Abs!Next, Abs!Clear, AbsKeys, AbsData
<1>2. CASE \E s \in Words, d \in Val : trie_add(s, d)
  <2>1. PICK s \in Words, d \in Val : trie_add(s, d) BY <1>2
  <2>2. d # NULL BY WordsAssumption
  <2>3. AbsKeys' = AbsKeys \cup {s} /\ AbsData' = [AbsData EXCEPT ![s] = d]
    BY <2>1, <2>2, StoredSimulates DEF trie_add
  <2>4. Abs!Add(s, d) BY <2>1, <2>3 DEF Abs!Add, AbsKeys, AbsData, trie_add
  <2> QED BY <2>4 DEF Abs!Next
<1>3. CASE \E s \in Words : trie_put(s) \/ trie_lookup(s)
  <2>1. PICK s \in Words : trie_put(s) \/ trie_lookup(s) BY <1>3
  <2>2. CASE trie_put(s)
    <3>1. AbsKeys' = AbsKeys \cup {s} /\ AbsData' = AbsData
      BY <2>2, StoredSimulates DEF trie_put
    <3>2. Abs!Put(s) BY <2>2, <3>1 DEF Abs!Put, AbsKeys, AbsData, trie_put
    <3> QED BY <3>2 DEF Abs!Next
  <2>3. CASE trie_lookup(s)
    BY <2>3, LookupSimulates DEF Abs!Next
  <2> QED BY <2>1, <2>2, <2>3
<1>4. CASE trie_destroy
  <2>1. Nodes' = {} BY <1>4, EmptySeq DEF trie_destroy, Nodes
  <2>2. AbsKeys' = {} /\ AbsData' = Abs!NoData
    BY <2>1 DEF AbsKeys, AbsData, Abs!NoData
  <2> QED BY <1>4, <2>2 DEF trie_destroy, Abs!Next, Abs!Clear, AbsKeys, AbsData
<1>5. CASE UNCHANGED vars
  BY <1>5 DEF vars, Abs!vars, Nodes
<1> QED BY <1>1, <1>2, <1>3, <1>4, <1>5 DEF Next

\* The trie implements the set of keys with data: the status that a lookup
\* derives from two fields of one node is where the word it was given stands
\* among all keys, and an add makes a key of its own word (trie.h:51-106).
THEOREM TrieImplementsKeys == Spec => RefinesAbsTrie
<1>1. Init => Abs!Init
  <2> SUFFICES ASSUME Init PROVE Abs!Init OBVIOUS
  <2>1. Nodes = {} BY EmptySeq DEF Init, Nodes
  <2> QED BY <2>1 DEF Init, Abs!Init, Abs!NoData
<1> QED BY <1>1, StepSimulates, InductiveInvariant, PTL
       DEF Spec, RefinesAbsTrie, Abs!Spec
=============================================================================
