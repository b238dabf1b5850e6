-------------------------------- MODULE Kval --------------------------------
(***************************************************************************)
(* The dictionary of src/kval.h: an hda of pairs of pointers, each to a    *)
(* heap block of its own for the canonical key and for the value.          *)
(*                                                                         *)
(* heap maps the addresses that are allocated to what the block holds; a   *)
(* new block may reuse any address that is free.  held is a pointer that   *)
(* the caller got from kv_lookup and still uses: callers give it up when   *)
(* they set or delete its key or free the dictionary.                      *)
(***************************************************************************)
EXTENDS HdaOps, Integers

CONSTANTS
    Addr,       \* the addresses malloc and calloc may return
    Val,        \* values, v_sz bytes each
    Plain,      \* keys given as a string literal or as an int
    Pointer,    \* keys given as a variable of type char *
    TextOf      \* the string each of those variables points to

\* A char * variable points to one of the keys.
ASSUME KeysAssumption ==
    /\ TextOf \in [Pointer -> Plain]
    /\ NULL \notin Addr \cup Val
\* Between two calls both pointers of a pair point to blocks.
ASSUME PairsAssumption == Elem = [k : Addr, v : Addr]

VARIABLES
    open,       \* between kv_create and kv_free
    pairs,      \* kv->pairs, a handle of HdaOps
    heap,       \* the blocks of keys and values
    held,       \* a pointer from kv_lookup: [text, addr], or NULL
    ret         \* what the last call returned

vars == <<open, pairs, heap, held, ret>>

-----------------------------------------------------------------------------
(* Keys *)

Arg == Plain \cup Pointer

\* The bytes of the canonical key.  The macros pass &(typeof(k)){k}: for a
\* literal or an int that is the key itself, padded with zeros; for a char *
\* it is the address of the pointer, whose bytes str_canon_k then copies.
Canon(arg) == IF arg \in Pointer THEN << "address", arg >> ELSE << "key", arg >>
CanonKey == {Canon(arg) : arg \in Arg}
\* Memory that was freed is not read as a key.
ASSUME CanonAssumption == Junk \notin CanonKey

\* What a caller means by an argument, and by a canonical key made of one.
Text(arg) == IF arg \in Pointer THEN TextOf[arg] ELSE arg
KeyText(key) == IF key = Junk THEN Junk ELSE Text(key[2])

-----------------------------------------------------------------------------
(* Heap blocks *)

Alloc(hp, a, x) ==
    [b \in DOMAIN hp \cup {a} |-> IF b = a THEN x ELSE hp[b]]
FreeBlocks(hp, blocks) == [b \in DOMAIN hp \ blocks |-> hp[b]]
Available(hp) == Addr \ DOMAIN hp

\* A read through a pointer: Junk if the block was freed.
Read(hp, a) == IF a \in DOMAIN hp THEN hp[a] ELSE Junk

-----------------------------------------------------------------------------
(* Pairs *)

PairAt(i) == pairs.cell[i + 1]
Indices == 0 .. hda_size(pairs) - 1

\* A variant with a mistake: the loop of lookup_idx starts at 1.
MatchesFromOne(hp, key) == {i \in Indices \ {0} : Read(hp, PairAt(i).k) = key}

\* lookup_idx: the first pair whose key compares equal.
Matches(hp, key) == {i \in Indices : Read(hp, PairAt(i).k) = key}
Found(hp, key) == Matches(hp, key) # {}
lookup_idx(hp, key) ==
    CHOOSE i \in Matches(hp, key) : \A j \in Matches(hp, key) : i =< j

\* A variant with a mistake: the value of the pushed pair is never set.
PushPairNoValue(h, k, v) == Push(h, [k |-> k, v |-> NULL])

\* Push { canon_k, nullptr }, then set the value of the pushed pair.
PushPair(h, k, v) ==
    StoreLast(Push(h, [k |-> k, v |-> NULL]), [k |-> k, v |-> v])

\* The caller's pointer, if it is still meant to be used after key changed.
HeldWithout(text) ==
    IF held # NULL /\ held.text = text THEN NULL ELSE held

-----------------------------------------------------------------------------
(* The calls *)

Init ==
    /\ open = FALSE /\ pairs = NULL /\ heap = << >>
    /\ held = NULL /\ ret = 0

kv_create ==
    /\ ~open /\ open' = TRUE
    /\ pairs' = NULL /\ ret' = 0
    /\ UNCHANGED <<heap, held>>

\* A variant with a mistake: free(canon_k) is missing.
AddExistingLeaks(arg) ==
    \E c \in Available(heap) :
        LET hp == Alloc(heap, c, Canon(arg))
        IN  /\ Found(hp, Canon(arg))
            /\ heap' = hp
            /\ ret' = -1
            /\ UNCHANGED <<open, pairs, held>>

AddExisting(arg) ==
    \E c \in Available(heap) :
        LET hp == Alloc(heap, c, Canon(arg))
        IN  /\ Found(hp, Canon(arg))
            /\ heap' = FreeBlocks(hp, {c})
            /\ ret' = -1
            /\ UNCHANGED <<open, pairs, held>>

AddNew(arg, val) ==
    \E c \in Available(heap) :
        LET hp == Alloc(heap, c, Canon(arg))
        IN  /\ ~Found(hp, Canon(arg))
            /\ ~PushFails(pairs)
            /\ \E b \in Available(hp) :
                  /\ heap' = Alloc(hp, b, val)
                  /\ pairs' = PushPair(pairs, c, b)
            /\ ret' = 0
            /\ UNCHANGED <<open, held>>

kv_add(arg, val) == open /\ (AddExisting(arg) \/ AddNew(arg, val))

SetExisting(arg, val) ==
    \E c \in Available(heap) :
        LET hp == Alloc(heap, c, Canon(arg))
            idx == lookup_idx(hp, Canon(arg))
            freed == FreeBlocks(hp, {PairAt(idx).k, PairAt(idx).v})
            rest == Delete(pairs, idx, 1)
        IN  /\ Found(hp, Canon(arg))
            /\ ~PushFails(rest)
            /\ \E b \in Available(freed) :
                  /\ heap' = Alloc(freed, b, val)
                  /\ pairs' = PushPair(rest, c, b)
            /\ held' = HeldWithout(Text(arg))
            /\ ret' = 0
            /\ UNCHANGED open

kv_set(arg, val) == open /\ (SetExisting(arg, val) \/ AddNew(arg, val))

kv_lookup(arg) ==
    /\ open
    /\ \E c \in Available(heap) :
          LET hp == Alloc(heap, c, Canon(arg))
          IN  /\ \/ /\ ~Found(hp, Canon(arg))
                    /\ ret' = NULL /\ held' = NULL
                 \/ /\ Found(hp, Canon(arg))
                    /\ LET v == PairAt(lookup_idx(hp, Canon(arg))).v
                       IN  /\ held' = [text |-> Text(arg), addr |-> v]
                           /\ ret' = Read(hp, v)
              /\ heap' = FreeBlocks(hp, {c})
              /\ UNCHANGED <<open, pairs>>

\* A variant with a mistake: the pair is freed after hda_delete has put the
\* next one in its place.
kv_deleteLate(arg) ==
    /\ open
    /\ LET key == Canon(arg)
           idx == lookup_idx(heap, key)
           rest == Delete(pairs, idx, 1)
           gone == IF idx < rest.size THEN rest.cell[idx + 1] ELSE PairAt(idx)
       IN  \/ ~Found(heap, key) /\ UNCHANGED <<heap, pairs, held>>
           \/ /\ Found(heap, key)
              /\ heap' = FreeBlocks(heap, {gone.k, gone.v})
              /\ pairs' = rest
              /\ held' = HeldWithout(Text(arg))
    /\ ret' = 0
    /\ UNCHANGED open

kv_delete(arg) ==
    /\ open
    /\ \E c \in Available(heap) :
          LET hp == Alloc(heap, c, Canon(arg))
              idx == lookup_idx(hp, Canon(arg))
          IN  \/ /\ ~Found(hp, Canon(arg))
                 /\ heap' = FreeBlocks(hp, {c})
                 /\ UNCHANGED <<pairs, held>>
              \/ /\ Found(hp, Canon(arg))
                 /\ heap' = FreeBlocks(hp, {PairAt(idx).k, PairAt(idx).v, c})
                 /\ pairs' = Delete(pairs, idx, 1)
                 /\ held' = HeldWithout(Text(arg))
    /\ ret' = 0
    /\ UNCHANGED open

kv_free ==
    /\ open /\ open' = FALSE
    /\ heap' = FreeBlocks(heap, {PairAt(i).k : i \in Indices}
                                  \cup {PairAt(i).v : i \in Indices})
    /\ pairs' = NULL /\ held' = NULL /\ ret' = 0

Next ==
    \/ kv_create
    \/ \E arg \in Arg, val \in Val : kv_add(arg, val) \/ kv_set(arg, val)
    \/ \E arg \in Arg : kv_lookup(arg) \/ kv_delete(arg)
    \/ kv_free

Spec == Init /\ [][Next]_vars

-----------------------------------------------------------------------------
(* Properties *)

TypeOK ==
    /\ open \in BOOLEAN
    /\ GoodHandle(pairs)
    /\ \A a \in DOMAIN heap : a \in Addr /\ heap[a] \in CanonKey \cup Val
    /\ held = NULL \/ held \in [text : Plain, addr : Addr]
    /\ ret \in Val \cup {0, -1, NULL}

KeyAt(i) == Read(heap, PairAt(i).k)
ValueAt(i) == Read(heap, PairAt(i).v)
Keys == {PairAt(i).k : i \in Indices}
Values == {PairAt(i).v : i \in Indices}

\* Every block is reachable from exactly one field of one pair, and every
\* field points to a live block of its kind: nothing leaks on any path, not
\* the canonical key of a failed add, a lookup or a delete, and nothing freed
\* is still reachable (kval.h:67-70, 87-91, 111-117, 124-133, 174-180).
Ownership ==
    /\ DOMAIN heap = Keys \cup Values
    /\ Keys \cap Values = {}
    /\ \A i, j \in Indices :
          (PairAt(i).k = PairAt(j).k \/ PairAt(i).v = PairAt(j).v) => i = j
    /\ \A i \in Indices :
          KeyAt(i) \in CanonKey /\ ValueAt(i) \in Val

\* No two pairs have the same key: an add of a key that is there is refused,
\* a set replaces its pair.
UniqueKeys ==
    \A i, j \in Indices :
        KeyText(KeyAt(i)) = KeyText(KeyAt(j)) => i = j

\* A pointer that kv_lookup returned stays the value of its key while other
\* keys come and go: growing or shifting the pairs moves no value, and no
\* block is reused while a caller may still look at it.
HeldIsValid ==
    held # NULL =>
        /\ held.addr \in DOMAIN heap
        /\ \E i \in Indices : /\ KeyText(KeyAt(i)) = held.text
                              /\ PairAt(i).v = held.addr

\* The order that kv_foreach shows: an add puts its key last, a set moves its
\* key last, a delete closes the gap, and no other pair changes places.
KeyOrder == [i \in 1 .. hda_size(pairs) |-> KeyAt(i - 1)]
Without(s, i) == SubSeq(s, 1, i - 1) \o SubSeq(s, i + 1, Len(s))
OrderStep ==
    \/ KeyOrder' = KeyOrder
    \/ \E key \in CanonKey : KeyOrder' = Append(KeyOrder, key)
    \/ \E i \in DOMAIN KeyOrder :
          \/ KeyOrder' = Without(KeyOrder, i)
          \/ KeyOrder' = Append(Without(KeyOrder, i), KeyOrder[i])
    \/ KeyOrder' = << >> /\ ~open'
OrderKept == [][OrderStep]_vars

\* The pairs are a dictionary with the caller's keys: calls return what they
\* return for a dictionary, and lookups find what was last stored.
ValueOf(t) ==
    IF \E i \in Indices : KeyText(KeyAt(i)) = t
    THEN LET i == CHOOSE i \in Indices : KeyText(KeyAt(i)) = t
         IN  ValueAt(i)
    ELSE NULL

Abs == INSTANCE AbsMap
         WITH Key <- Plain, Missing <- NULL,
              dict <- [t \in Plain |-> ValueOf(t)]
RefinesAbsMap == Abs!Spec
=============================================================================
