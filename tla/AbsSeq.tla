------------------------------- MODULE AbsSeq -------------------------------
(***************************************************************************)
(* What an hda promises its callers: a sequence of elements of any length  *)
(* under push, insert, delete and free, where an element or a run of       *)
(* elements of the sequence itself may be what is pushed or inserted.  An  *)
(* operation takes effect as a whole, or the process ends (up = FALSE)     *)
(* with the sequence untouched.                                            *)
(***************************************************************************)
EXTENDS Naturals, Sequences

CONSTANTS
    Elem,       \* the values of the element type
    Buffers     \* the runs of elements callers insert

VARIABLES seq, up
vars == <<seq, up>>

Init == seq = << >> /\ up = TRUE

InsertAt(s, idx, els) ==
    SubSeq(s, 1, idx) \o els \o SubSeq(s, idx + 1, Len(s))

Push(v) == seq' = Append(seq, v)
PushElement(i) == seq' = Append(seq, seq[i + 1])
InsertBuf(idx, els) == seq' = InsertAt(seq, idx, els)
InsertOwn(idx, src, n) ==
    seq' = InsertAt(seq, idx, SubSeq(seq, src + 1, src + n))
Remove(idx, n) ==
    seq' = SubSeq(seq, 1, idx) \o SubSeq(seq, idx + n + 1, Len(seq))
Clear == seq' = << >>

Effect ==
    \/ \E v \in Elem : Push(v)
    \/ \E i \in 0 .. Len(seq) - 1 : PushElement(i)
    \/ \E idx \in 0 .. Len(seq), els \in Buffers : InsertBuf(idx, els)
    \/ \E idx, src \in 0 .. Len(seq) :
          \E n \in 0 .. Len(seq) - src : InsertOwn(idx, src, n)
    \/ \E idx \in 0 .. Len(seq) :
          \E n \in 0 .. Len(seq) - idx : Remove(idx, n)
    \/ Clear

Stop == up' = FALSE /\ seq' = seq

Next == up /\ (Stop \/ (Effect /\ up' = TRUE))

Spec == Init /\ [][Next]_vars
=============================================================================
