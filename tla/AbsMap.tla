------------------------------- MODULE AbsMap -------------------------------
(***************************************************************************)
(* What a kval promises its callers: a dictionary from keys, compared by   *)
(* what they say and not by where they are, to values.  ret is the value   *)
(* of the last call: 0 or -1, or the value a lookup found, Missing if none. *)
(***************************************************************************)
EXTENDS Integers

CONSTANTS Key, Val, Missing

VARIABLES dict, ret
vars == <<dict, ret>>

Empty == [k \in Key |-> Missing]

Init == dict = Empty /\ ret = 0

Add(k, v) ==
    \/ dict[k] = Missing /\ dict' = [dict EXCEPT ![k] = v] /\ ret' = 0
    \/ dict[k] # Missing /\ dict' = dict /\ ret' = -1

Set(k, v) == dict' = [dict EXCEPT ![k] = v] /\ ret' = 0
Delete(k) == dict' = [dict EXCEPT ![k] = Missing] /\ ret' = 0
Lookup(k) == dict' = dict /\ ret' = dict[k]
Clear == dict' = Empty /\ ret' = 0

Next ==
    \/ \E k \in Key, v \in Val : Add(k, v) \/ Set(k, v)
    \/ \E k \in Key : Delete(k) \/ Lookup(k)
    \/ Clear

Spec == Init /\ [][Next]_vars
=============================================================================
