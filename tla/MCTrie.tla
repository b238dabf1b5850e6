------------------------------- MODULE MCTrie -------------------------------
(* The empty word, a branch of three nodes, and a fork: every node can be a *)
(* key or not, extended or not.                                             *)
EXTENDS Trie

CONSTANTS a, b

MCWords == {<< >>, <<a>>, <<a, b>>, <<a, b, a>>, <<a, a>>, <<b>>}
OneWord == {<<a>>}
=============================================================================
