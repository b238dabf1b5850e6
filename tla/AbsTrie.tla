------------------------------- MODULE AbsTrie -------------------------------
(***************************************************************************)
(* What a trie promises its callers: a set of keys, some with data, and    *)
(* lookups that tell where a word stands in that set: it is a key that no  *)
(* other key extends, a key that others extend, not a key but the          *)
(* beginning of some, or neither.  `call' is the last add or lookup as its *)
(* caller sees it: what was asked, of which word, and what came back.      *)
(***************************************************************************)
EXTENDS SequencesExt

CONSTANTS Words, Val, NULL

VARIABLES keys, data, call
vars == <<keys, data, call>>

NoData == [w \in Words |-> NULL]

Init == keys = {} /\ data = NoData /\ call = NULL

Extended(w) == \E k \in keys : IsStrictPrefix(w, k)

Status(w) ==
    IF w \in keys THEN IF Extended(w) THEN "TRIE_AMBIG" ELSE "TRIE_MATCH"
                  ELSE IF Extended(w) THEN "TRIE_WAIT" ELSE "TRIE_NONE"

\* A key added without data keeps the data it has.
Put(w) ==
    /\ call' = [op |-> "put", word |-> w]
    /\ keys' = keys \cup {w}
    /\ UNCHANGED data
Add(w, v) ==
    /\ call' = [op |-> "add", word |-> w, data |-> v]
    /\ keys' = keys \cup {w}
    /\ data' = [data EXCEPT ![w] = v]
Lookup(w) ==
    /\ call' = [op |-> "lookup", word |-> w,
                answer |-> [stat |-> Status(w), data |-> data[w]]]
    /\ UNCHANGED <<keys, data>>
Clear == keys' = {} /\ data' = NoData /\ call' = NULL

Next ==
    \/ \E w \in Words, v \in Val : Add(w, v)
    \/ \E w \in Words : Put(w) \/ Lookup(w)
    \/ Clear

Spec == Init /\ [][Next]_vars
=============================================================================
