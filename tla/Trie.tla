-------------------------------- MODULE Trie --------------------------------
(***************************************************************************)
(* The prefix tree of src/trie.h.  A node is named by the characters on    *)
(* the way to it, so that children[ch] of the node p is the node p with ch *)
(* appended, if that exists; child_n, term and data are its fields.        *)
(***************************************************************************)
EXTENDS SequencesExt

CONSTANTS
    NULL,
    Char,       \* characters
    Words,      \* the words callers add and look up
    Val,        \* the data of a key, sz > 0 bytes
    MaxBlocks   \* bound on the data blocks that exist at a time

\* Words are strings; no data is not a value.
ASSUME WordsAssumption ==
    /\ Words \subseteq Seq(Char)
    /\ NULL \notin Val
    /\ MaxBlocks \in Nat

VARIABLES
    trie,       \* the nodes: a function from their names to their fields
    blocks,     \* how many blocks trie_add allocated and no one freed
    call        \* the last add or lookup: what it was given, and its answer

vars == <<trie, blocks, call>>

Nodes == DOMAIN trie
Root == << >>
Node == [child_n : Nat, term : BOOLEAN, data : Val \cup {NULL}]

Init == trie = << >> /\ blocks = 0 /\ call = NULL

-----------------------------------------------------------------------------
\* calloc gives a node without children, key or data.
NewNode == [child_n |-> 0, term |-> FALSE, data |-> NULL]

trie_create ==
    /\ Nodes = {}
    /\ trie' = [p \in {Root} |-> NewNode]
    /\ call' = NULL
    /\ UNCHANGED blocks

HasData(p) == trie[p].data # NULL
Owners == {p \in Nodes : HasData(p)}

\* The children at p of a set of nodes.
ChildrenIn(S, p) == {q \in S : q # Root /\ Front(q) = p}

\* A variant with a mistake: every add on the way counts a child.
ChildrenCountedAgain(p, s) == IF p # s THEN 1 ELSE 0

\* How many children an add of s, on its way down, creates at p.
ChildrenCreated(p, s) == Cardinality(ChildrenIn(Prefixes(s) \ Nodes, p))

\* A variant with a mistake: a key with data is not marked as one.
MarkedWithoutData(node, d) ==
    [node EXCEPT !.term = @ \/ d = NULL, !.data = IF d = NULL THEN @ ELSE d]

\* What the end of the word gets; d = NULL is sz = 0.
Marked(node, d) ==
    [node EXCEPT !.term = TRUE, !.data = IF d = NULL THEN @ ELSE d]

Stored(s, d) ==
    [p \in Nodes \cup Prefixes(s) |->
       LET old == IF p \in Nodes THEN trie[p] ELSE NewNode
           counted == [old EXCEPT !.child_n = @ + ChildrenCreated(p, s)]
       IN  IF p = s THEN Marked(counted, d) ELSE counted]

\* trie_add with data.  The pointer to a block that was there is overwritten.
trie_add(s, d) ==
    /\ Root \in Nodes /\ blocks < MaxBlocks
    /\ trie' = Stored(s, d)
    /\ blocks' = blocks + 1
    /\ call' = [op |-> "add", word |-> s, data |-> d]

\* trie_add with sz = 0.
trie_put(s) ==
    /\ Root \in Nodes
    /\ trie' = Stored(s, NULL)
    /\ call' = [op |-> "put", word |-> s]
    /\ UNCHANGED blocks

StatusAt(node) ==
    CASE node.term /\ node.child_n = 0 -> "TRIE_MATCH"
      [] node.term /\ node.child_n > 0 -> "TRIE_AMBIG"
      [] ~node.term /\ node.child_n > 0 -> "TRIE_WAIT"
      [] ~node.term /\ node.child_n = 0 -> "TRIE_NONE"

\* A variant with a mistake: a lookup stops one character early.
AnswerEarly(s) ==
    LET p == IF s = Root THEN s ELSE Front(s)
    IN  IF Prefixes(s) \subseteq Nodes
        THEN [stat |-> StatusAt(trie[p]), data |-> trie[p].data]
        ELSE [stat |-> "TRIE_NONE", data |-> NULL]

Answer(s) ==
    IF Prefixes(s) \subseteq Nodes
    THEN [stat |-> StatusAt(trie[s]), data |-> trie[s].data]
    ELSE [stat |-> "TRIE_NONE", data |-> NULL]

trie_lookup(s) ==
    /\ Root \in Nodes
    /\ call' = [op |-> "lookup", word |-> s, answer |-> Answer(s)]
    /\ UNCHANGED <<trie, blocks>>

\* The recursion frees the data and the block of every node.
trie_destroy ==
    /\ Root \in Nodes
    /\ trie' = << >>
    /\ blocks' = blocks - Cardinality(Owners)
    /\ call' = NULL

Next ==
    \/ trie_create
    \/ \E s \in Words, d \in Val : trie_add(s, d)
    \/ \E s \in Words : trie_put(s) \/ trie_lookup(s)
    \/ trie_destroy

Spec == Init /\ [][Next]_vars

-----------------------------------------------------------------------------
(* Properties *)

Statuses == {"TRIE_MATCH", "TRIE_AMBIG", "TRIE_WAIT", "TRIE_NONE"}

Calls ==
    [op : {"add"}, word : Words, data : Val]
    \cup [op : {"put"}, word : Words]
    \cup [op : {"lookup"}, word : Words,
          answer : [stat : Statuses, data : Val \cup {NULL}]]

\* data is valid only if term is true (trie.h:27).
TypeOK ==
    /\ \A p \in Nodes : /\ p \in Seq(Char) /\ trie[p] \in Node
                        /\ HasData(p) => trie[p].term
    /\ blocks \in Nat
    /\ call = NULL \/ call \in Calls

\* The counter that a lookup goes by is the number of children there are, and
\* every branch was made for some key: adds of words that begin, extend or
\* repeat each other, in any order, leave no node that looks like the beginning
\* of a key and is none, and none that cannot be reached (trie.h:72-75).
Counted ==
    \A p \in Nodes :
        /\ trie[p].child_n = Cardinality(ChildrenIn(Nodes, p))
        /\ Prefixes(p) \subseteq Nodes
        /\ p # Root => \E k \in Nodes : trie[k].term /\ p \in Prefixes(k)

\* The trie is the set of its keys.  Every add makes a key of the word it was
\* given, and of no other, and a lookup answers for the word it was given: what
\* it finds out at one node, from term and child_n, is where that word stands in
\* the whole set (trie.h:81-106).
Abs == INSTANCE AbsTrie
         WITH keys <- {p \in Nodes : trie[p].term},
              data <- [w \in Words |-> IF w \in Nodes THEN trie[w].data ELSE NULL]
RefinesAbsTrie == Abs!Spec

\* trie_destroy leaves nothing behind of what the calls before it allocated.
AllReleased == Nodes = {} => blocks = 0
=============================================================================
