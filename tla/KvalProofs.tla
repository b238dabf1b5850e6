----------------------------- MODULE KvalProofs -----------------------------
(***************************************************************************)
(* Proofs about the dictionary of src/kval.h, for every set of keys and    *)
(* values, every heap and every width of size_t, from what HdaOpsProofs    *)
(* says of the array of pairs.  A dictionary is looked at as the sequence  *)
(* s of its pairs and the blocks hp on the heap.                           *)
(***************************************************************************)
EXTENDS Kval, HdaOpsProofs

KeysOf(s) == {s[i].k : i \in 1 .. Len(s)}
ValuesOf(s) == {s[i].v : i \in 1 .. Len(s)}

\* The pairs own the blocks, as Ownership says.
Owned(s, hp) ==
    /\ s \in Seq(Elem)
    /\ hp = [a \in DOMAIN hp |-> hp[a]]
    /\ DOMAIN hp = KeysOf(s) \cup ValuesOf(s)
    /\ KeysOf(s) \cap ValuesOf(s) = {}
    /\ \A i, j \in 1 .. Len(s) : (s[i].k = s[j].k \/ s[i].v = s[j].v) => i = j
    /\ \A i \in 1 .. Len(s) : hp[s[i].k] \in CanonKey /\ hp[s[i].v] \in Val

\* No two pairs have the same canonical key.
Unique(s, hp) == \A i, j \in 1 .. Len(s) : hp[s[i].k] = hp[s[j].k] => i = j

\* The pointer h of a caller is the value of a pair with the key it is for.
HeldIn(h, s, hp) ==
    h # NULL => \E i \in 1 .. Len(s) :
                   s[i].v = h.addr /\ KeyText(hp[s[i].k]) = h.text

\* What the pairs say, in order.
Entry(key, val) == [key |-> key, val |-> val]
Entries(s, hp) == [i \in 1 .. Len(s) |-> Entry(hp[s[i].k], hp[s[i].v])]

\* Whether the entry i of a list is for a key, whether none is.
KeyIs(es, i, key) == i \in 1 .. Len(es) /\ es[i].key = key
NoKey(es, key) == \A i \in 1 .. Len(es) : es[i].key # key

-----------------------------------------------------------------------------
(* Adding and removing a pair *)

\* The fields of the pairs are addresses of blocks.
LEMMA Fields ==
    ASSUME NEW s \in Seq(Elem), NEW i \in 1 .. Len(s)
    PROVE  s[i] \in Elem /\ s[i].k \in Addr /\ s[i].v \in Addr
<1>1. s[i] \in Elem
  OBVIOUS
<1>2. \A x \in Elem : x.k \in Addr /\ x.v \in Addr
  BY ONLY PairsAssumption
<1> QED
  BY <1>1, <1>2

\* The blocks of the dictionary have addresses.
LEMMA OwnedAddresses ==
    ASSUME NEW s, NEW hp, Owned(s, hp)
    PROVE  DOMAIN hp \subseteq Addr
BY Fields DEF Owned, KeysOf, ValuesOf

\* The entries are those of the pairs.
LEMMA EntriesOf ==
    ASSUME NEW s, NEW hp, Owned(s, hp)
    PROVE  /\ Entries(s, hp) \in Seq([key : CanonKey, val : Val])
           /\ Len(Entries(s, hp)) = Len(s) /\ Len(s) \in Nat
           /\ \A i \in 1 .. Len(s) : /\ Entries(s, hp)[i].key = hp[s[i].k]
                                     /\ Entries(s, hp)[i].val = hp[s[i].v]
           /\ \A key : \A i \in 1 .. Len(s) :
                 hp[s[i].k] = key => KeyIs(Entries(s, hp), i, key)
           /\ \A key : (\A i \in 1 .. Len(s) : hp[s[i].k] # key)
                         => NoKey(Entries(s, hp), key)
<1>1. s \in Seq(Elem) /\ Len(s) \in Nat
  BY DEF Owned
<1> DEFINE es == Entries(s, hp)
<1>2. es = [i \in 1 .. Len(s) |-> Entry(hp[s[i].k], hp[s[i].v])]
  BY DEF Entries
<1>3. \A i \in 1 .. Len(s) : Entry(hp[s[i].k], hp[s[i].v]) \in [key : CanonKey, val : Val]
  BY DEF Owned, Entry
<1>4. es \in Seq([key : CanonKey, val : Val]) /\ Len(es) = Len(s)
  BY <1>1, <1>2, <1>3
<1>5. \A i \in 1 .. Len(s) : es[i].key = hp[s[i].k] /\ es[i].val = hp[s[i].v]
  BY <1>2 DEF Entry
<1> HIDE DEF es
<1>6. /\ \A key : \A i \in 1 .. Len(s) : hp[s[i].k] = key => KeyIs(es, i, key)
      /\ \A key : (\A i \in 1 .. Len(s) : hp[s[i].k] # key) => NoKey(es, key)
  BY <1>4, <1>5 DEF KeyIs, NoKey
<1> QED
  BY <1>1, <1>4, <1>5, <1>6 DEF es

\* A pair of two new blocks at the end.
LEMMA AddOwned ==
    ASSUME NEW s, NEW hp, Owned(s, hp), Unique(s, hp),
           NEW c \in Addr, c \notin DOMAIN hp, NEW key \in CanonKey,
           NEW b \in Addr, b \notin DOMAIN hp, b # c, NEW val \in Val,
           \A i \in 1 .. Len(s) : hp[s[i].k] # key
    PROVE  LET t == Append(s, [k |-> c, v |-> b])
               new == Alloc(Alloc(hp, c, key), b, val)
           IN  /\ Owned(t, new) /\ Unique(t, new)
               /\ \A h : HeldIn(h, s, hp) => HeldIn(h, t, new)
               /\ Entries(t, new) = Append(Entries(s, hp), Entry(key, val))
<1> DEFINE p == [k |-> c, v |-> b]
           t == Append(s, p)
           new == Alloc(Alloc(hp, c, key), b, val)
           n == Len(s)
<1>a. p \in Elem
  BY ONLY PairsAssumption, c \in Addr, b \in Addr
<1>1. s \in Seq(Elem) /\ n \in Nat /\ p \in Elem /\ p.k = c /\ p.v = b
  BY <1>a DEF Owned
<1>2. /\ t \in Seq(Elem) /\ Len(t) = n + 1 /\ t[n + 1] = p
      /\ \A i \in 1 .. n : t[i] = s[i]
  BY <1>1
<1>3. /\ new = [a \in DOMAIN new |-> new[a]]
      /\ DOMAIN new = DOMAIN hp \cup {c, b}
      /\ new[c] = key /\ new[b] = val
      /\ \A a \in DOMAIN hp : new[a] = hp[a]
  BY DEF Alloc
<1> HIDE DEF p, t, new
<1>4. \A i \in 1 .. n : s[i].k \in DOMAIN hp /\ s[i].v \in DOMAIN hp
  BY DEF Owned, KeysOf, ValuesOf
<1>5. KeysOf(t) = KeysOf(s) \cup {c}
  <2>1. ASSUME NEW x \in KeysOf(t) PROVE x \in KeysOf(s) \cup {c}
    <3>1. PICK i \in 1 .. n + 1 : x = t[i].k
      BY <1>2, <2>1 DEF KeysOf
    <3>2. CASE i = n + 1
      BY <1>1, <1>2, <3>1, <3>2
    <3>3. CASE i \in 1 .. n
      BY <1>2, <3>1, <3>3 DEF KeysOf
    <3> QED
      BY <1>1, <3>2, <3>3
  <2>2. ASSUME NEW x \in KeysOf(s) PROVE x \in KeysOf(t)
    <3>1. PICK i \in 1 .. n : x = s[i].k
      BY <2>2 DEF KeysOf
    <3>2. i \in 1 .. Len(t) /\ x = t[i].k
      BY <1>1, <1>2, <3>1
    <3> QED
      BY <3>2 DEF KeysOf
  <2>3. c \in KeysOf(t)
    <3>1. n + 1 \in 1 .. Len(t) /\ t[n + 1].k = c
      BY <1>1, <1>2
    <3> QED
      BY <3>1 DEF KeysOf
  <2> QED
    BY <2>1, <2>2, <2>3
<1>6. ValuesOf(t) = ValuesOf(s) \cup {b}
  <2>1. ASSUME NEW x \in ValuesOf(t) PROVE x \in ValuesOf(s) \cup {b}
    <3>1. PICK i \in 1 .. n + 1 : x = t[i].v
      BY <1>2, <2>1 DEF ValuesOf
    <3>2. CASE i = n + 1
      BY <1>1, <1>2, <3>1, <3>2
    <3>3. CASE i \in 1 .. n
      BY <1>2, <3>1, <3>3 DEF ValuesOf
    <3> QED
      BY <1>1, <3>2, <3>3
  <2>2. ASSUME NEW x \in ValuesOf(s) PROVE x \in ValuesOf(t)
    <3>1. PICK i \in 1 .. n : x = s[i].v
      BY <2>2 DEF ValuesOf
    <3>2. i \in 1 .. Len(t) /\ x = t[i].v
      BY <1>1, <1>2, <3>1
    <3> QED
      BY <3>2 DEF ValuesOf
  <2>3. b \in ValuesOf(t)
    <3>1. n + 1 \in 1 .. Len(t) /\ t[n + 1].v = b
      BY <1>1, <1>2
    <3> QED
      BY <3>1 DEF ValuesOf
  <2> QED
    BY <2>1, <2>2, <2>3
<1>7. DOMAIN new = KeysOf(t) \cup ValuesOf(t) /\ KeysOf(t) \cap ValuesOf(t) = {}
  BY <1>3, <1>5, <1>6 DEF Owned
<1>8. ASSUME NEW i \in 1 .. n + 1
      PROVE  /\ i \in 1 .. n => /\ t[i].k = s[i].k /\ t[i].v = s[i].v
                                /\ t[i].k # c /\ t[i].v # b
                                /\ new[t[i].k] = hp[s[i].k]
                                /\ new[t[i].v] = hp[s[i].v]
             /\ i \notin 1 .. n => /\ i = n + 1 /\ t[i].k = c /\ t[i].v = b
                                   /\ new[t[i].k] = key /\ new[t[i].v] = val
  <2>1. CASE i \in 1 .. n
    BY <1>2, <1>3, <1>4, <2>1
  <2>2. CASE i \notin 1 .. n
    <3>1. i = n + 1
      BY <1>1, <2>2
    <3> QED
      BY <1>1, <1>2, <1>3, <2>2, <3>1
  <2> QED
    BY <2>1, <2>2
<1>9. ASSUME NEW i \in 1 .. n + 1, NEW j \in 1 .. n + 1,
             t[i].k = t[j].k \/ t[i].v = t[j].v
      PROVE  i = j
  BY <1>8, <1>9 DEF Owned
<1>10. ASSUME NEW i \in 1 .. n + 1 PROVE new[t[i].k] \in CanonKey /\ new[t[i].v] \in Val
  BY <1>8 DEF Owned
<1>11. ASSUME NEW i \in 1 .. n + 1, NEW j \in 1 .. n + 1, new[t[i].k] = new[t[j].k]
       PROVE  i = j
  BY <1>8, <1>11 DEF Unique
<1>12. ASSUME NEW h, HeldIn(h, s, hp) PROVE HeldIn(h, t, new)
  <2>1. ASSUME h # NULL PROVE HeldIn(h, t, new)
    <3>1. PICK i \in 1 .. n : s[i].v = h.addr /\ KeyText(hp[s[i].k]) = h.text
      BY <1>12, <2>1 DEF HeldIn
    <3>2. i \in 1 .. Len(t) /\ i \in 1 .. n + 1
      BY <1>1, <1>2
    <3>3. t[i].v = h.addr /\ new[t[i].k] = hp[s[i].k]
      BY <1>8, <3>1, <3>2
    <3>4. KeyText(new[t[i].k]) = h.text
      BY <3>1, <3>3
    <3> QED
      BY <3>2, <3>3, <3>4 DEF HeldIn
  <2> QED
    BY <2>1 DEF HeldIn
<1>13. Owned(t, new) /\ Unique(t, new)
  BY <1>2, <1>3, <1>7, <1>9, <1>10, <1>11 DEF Owned, Unique
<1>14. Entries(t, new) = Append(Entries(s, hp), Entry(key, val))
  <2> DEFINE es == Entries(s, hp)
             et == Entries(t, new)
             e == Entry(key, val)
  <2>1. /\ es = [i \in 1 .. n |-> Entry(hp[s[i].k], hp[s[i].v])]
        /\ et = [i \in 1 .. n + 1 |-> Entry(new[t[i].k], new[t[i].v])]
    BY <1>2 DEF Entries
  <2>2. Len(es) = n /\ Append(es, e) = [i \in 1 .. n + 1 |-> IF i = n + 1 THEN e ELSE es[i]]
    BY <1>1, <2>1
  <2>3. ASSUME NEW i \in 1 .. n + 1
        PROVE  et[i] = IF i = n + 1 THEN e ELSE es[i]
    <3>1. CASE i \in 1 .. n
      BY <1>1, <1>8, <2>1, <3>1
    <3>2. CASE i \notin 1 .. n
      BY <1>8, <2>1, <3>2
    <3> QED
      BY <3>1, <3>2
  <2> HIDE DEF es, et, e
  <2>4. et = [i \in 1 .. n + 1 |-> et[i]]
    BY <2>1
  <2>5. et = Append(es, e)
    BY <2>2, <2>3, <2>4
  <2> QED
    BY <2>5 DEF es, et, e
<1> QED
  BY <1>12, <1>13, <1>14 DEF p, t, new

\* The elements of a sequence without its i-th.
LEMMA WithoutElements ==
    ASSUME NEW S, NEW s \in Seq(S), NEW i \in 1 .. Len(s)
    PROVE  LET w == Without(s, i)
           IN  /\ w \in Seq(S)
               /\ Len(w) = Len(s) - 1
               /\ \A j \in 1 .. Len(s) - 1 :
                     w[j] = IF j < i THEN s[j] ELSE s[j + 1]
<1> DEFINE front == SubSeq(s, 1, i - 1)
           back == SubSeq(s, i + 1, Len(s))
<1>1. /\ front \in Seq(S) /\ Len(front) = i - 1
      /\ \A k \in 1 .. i - 1 : front[k] = s[k]
  BY SubSeqProperties
<1>2. /\ back \in Seq(S) /\ Len(back) = Len(s) - i
      /\ \A k \in 1 .. Len(s) - i : back[k] = s[i + k]
  BY SubSeqProperties
<1>3. Len(s) \in Nat /\ Without(s, i) = front \o back
  BY DEF Without
<1> HIDE DEF front, back
<1>4. front \o back \in Seq(S) /\ Len(front \o back) = Len(s) - 1
  BY <1>1, <1>2, <1>3
<1>5. ASSUME NEW j \in 1 .. Len(s) - 1
      PROVE  (front \o back)[j] = IF j < i THEN s[j] ELSE s[j + 1]
  <2>1. CASE j < i
    BY <1>1, <1>2, <1>3, <2>1
  <2>2. CASE ~(j < i)
    <3>1. j - (i - 1) \in 1 .. Len(s) - i /\ i + (j - (i - 1)) = j + 1
      BY <1>3, <2>2
    <3>2. (front \o back)[j] = back[j - Len(front)]
      BY <1>1, <1>2, <1>3, <2>2
    <3> QED
      BY <1>1, <1>2, <2>2, <3>1, <3>2
  <2> QED
    BY <2>1, <2>2
<1> QED
  BY <1>3, <1>4, <1>5

\* A pair and its two blocks go.
LEMMA RemoveOwned ==
    ASSUME NEW s, NEW hp, Owned(s, hp), Unique(s, hp), NEW i \in 1 .. Len(s)
    PROVE  LET w == Without(s, i)
               new == FreeBlocks(hp, {s[i].k, s[i].v})
           IN  /\ Owned(w, new) /\ Unique(w, new)
               /\ \A j \in 1 .. Len(w) : new[w[j].k] # hp[s[i].k]
               /\ \A h : /\ HeldIn(h, s, hp)
                         /\ h # NULL => h.text # KeyText(hp[s[i].k])
                         => HeldIn(h, w, new)
               /\ Entries(w, new) = Without(Entries(s, hp), i)
<1> DEFINE w == Without(s, i)
           new == FreeBlocks(hp, {s[i].k, s[i].v})
           n == Len(s)
           Old(j) == IF j < i THEN j ELSE j + 1
<1>1. /\ s \in Seq(Elem) /\ n \in Nat /\ n - 1 \in Nat
      /\ w \in Seq(Elem) /\ Len(w) = n - 1
      /\ \A j \in 1 .. n - 1 : w[j] = s[Old(j)]
  <2>1. s \in Seq(Elem) /\ n \in Nat /\ i \in 1 .. Len(s)
    BY DEF Owned
  <2>2. /\ w \in Seq(Elem) /\ Len(w) = n - 1
        /\ \A j \in 1 .. n - 1 : w[j] = IF j < i THEN s[j] ELSE s[j + 1]
    BY <2>1, WithoutElements
  <2> HIDE DEF w
  <2> QED
    BY <2>1, <2>2
<1>2. /\ \A j \in 1 .. n - 1 : Old(j) \in 1 .. n /\ Old(j) # i
      /\ \A j, k \in 1 .. n - 1 : Old(j) = Old(k) => j = k
      /\ \A m \in 1 .. n : m # i => \E j \in 1 .. n - 1 : Old(j) = m
  <2>1. \A j \in 1 .. n - 1 : Old(j) \in 1 .. n /\ Old(j) # i
    BY <1>1
  <2>2. \A j, k \in 1 .. n - 1 : Old(j) = Old(k) => j = k
    BY <1>1
  <2>3. ASSUME NEW m \in 1 .. n, m # i
        PROVE  \E j \in 1 .. n - 1 : Old(j) = m
    <3>1. CASE m < i
      BY <1>1, <3>1
    <3>2. CASE m > i
      <4>1. m - 1 \in 1 .. n - 1 /\ Old(m - 1) = m
        BY <1>1, <3>2
      <4> QED
        BY <4>1
    <3> QED
      BY <1>1, <2>3, <3>1, <3>2
  <2> QED
    BY <2>1, <2>2, <2>3
<1>3. /\ new = [a \in DOMAIN new |-> new[a]]
      /\ DOMAIN new = DOMAIN hp \ {s[i].k, s[i].v}
      /\ \A a \in DOMAIN new : new[a] = hp[a]
  BY DEF FreeBlocks
<1>4. \A m \in 1 .. n : s[m].k \in KeysOf(s) /\ s[m].v \in ValuesOf(s)
  BY DEF KeysOf, ValuesOf
<1> HIDE DEF w, new, Old
<1>5. ASSUME NEW j \in 1 .. n - 1
      PROVE  /\ w[j].k = s[Old(j)].k /\ w[j].v = s[Old(j)].v
             /\ w[j].k \in DOMAIN new /\ w[j].v \in DOMAIN new
             /\ new[w[j].k] = hp[s[Old(j)].k] /\ new[w[j].v] = hp[s[Old(j)].v]
  <2>1. w[j] = s[Old(j)] /\ Old(j) \in 1 .. n /\ Old(j) # i
    BY <1>1, <1>2
  <2>2. /\ s[Old(j)].k # s[i].k /\ s[Old(j)].v # s[i].v
        /\ s[Old(j)].k # s[i].v /\ s[Old(j)].v # s[i].k
        /\ s[Old(j)].k \in DOMAIN hp /\ s[Old(j)].v \in DOMAIN hp
    BY <1>4, <2>1 DEF Owned
  <2>3. s[Old(j)].k \in DOMAIN new /\ s[Old(j)].v \in DOMAIN new
    BY <1>3, <2>2
  <2> QED
    BY <1>3, <2>1, <2>3
<1>6. KeysOf(w) = KeysOf(s) \ {s[i].k}
  <2>1. ASSUME NEW x \in KeysOf(w) PROVE x \in KeysOf(s) /\ x # s[i].k
    <3>1. PICK j \in 1 .. n - 1 : x = w[j].k
      BY <1>1, <2>1 DEF KeysOf
    <3>2. x = s[Old(j)].k /\ Old(j) \in 1 .. n /\ Old(j) # i
      BY <1>2, <1>5, <3>1
    <3> QED
      BY <1>4, <3>2 DEF Owned
  <2>2. ASSUME NEW x \in KeysOf(s), x # s[i].k PROVE x \in KeysOf(w)
    <3>1. PICK m \in 1 .. n : x = s[m].k
      BY <2>2 DEF KeysOf
    <3>2. m # i
      BY <2>2, <3>1
    <3>3. PICK j \in 1 .. n - 1 : Old(j) = m
      BY <1>2, <3>2
    <3>4. x = w[j].k /\ j \in 1 .. Len(w)
      BY <1>1, <1>5, <3>1, <3>3
    <3> QED
      BY <3>4 DEF KeysOf
  <2> QED
    BY <2>1, <2>2
<1>7. ValuesOf(w) = ValuesOf(s) \ {s[i].v}
  <2>1. ASSUME NEW x \in ValuesOf(w) PROVE x \in ValuesOf(s) /\ x # s[i].v
    <3>1. PICK j \in 1 .. n - 1 : x = w[j].v
      BY <1>1, <2>1 DEF ValuesOf
    <3>2. x = s[Old(j)].v /\ Old(j) \in 1 .. n /\ Old(j) # i
      BY <1>2, <1>5, <3>1
    <3> QED
      BY <1>4, <3>2 DEF Owned
  <2>2. ASSUME NEW x \in ValuesOf(s), x # s[i].v PROVE x \in ValuesOf(w)
    <3>1. PICK m \in 1 .. n : x = s[m].v
      BY <2>2 DEF ValuesOf
    <3>2. m # i
      BY <2>2, <3>1
    <3>3. PICK j \in 1 .. n - 1 : Old(j) = m
      BY <1>2, <3>2
    <3>4. x = w[j].v /\ j \in 1 .. Len(w)
      BY <1>1, <1>5, <3>1, <3>3
    <3> QED
      BY <3>4 DEF ValuesOf
  <2> QED
    BY <2>1, <2>2
<1>8. DOMAIN new = KeysOf(w) \cup ValuesOf(w) /\ KeysOf(w) \cap ValuesOf(w) = {}
  BY <1>3, <1>4, <1>6, <1>7 DEF Owned
<1>9. ASSUME NEW j \in 1 .. n - 1, NEW k \in 1 .. n - 1,
             w[j].k = w[k].k \/ w[j].v = w[k].v
      PROVE  j = k
  <2>1. Old(j) = Old(k)
    BY <1>2, <1>5, <1>9 DEF Owned
  <2> QED
    BY <1>2, <2>1
<1>10. ASSUME NEW j \in 1 .. n - 1
       PROVE  new[w[j].k] \in CanonKey /\ new[w[j].v] \in Val
  BY <1>2, <1>5 DEF Owned
<1>11. ASSUME NEW j \in 1 .. n - 1, NEW k \in 1 .. n - 1, new[w[j].k] = new[w[k].k]
       PROVE  j = k
  <2>1. Old(j) = Old(k)
    <3>1. hp[s[Old(j)].k] = hp[s[Old(k)].k]
      BY <1>5, <1>11
    <3> QED
      BY <1>2, <3>1 DEF Unique
  <2> QED
    BY <1>2, <2>1
<1>12. ASSUME NEW j \in 1 .. n - 1 PROVE new[w[j].k] # hp[s[i].k]
  <2>1. new[w[j].k] = hp[s[Old(j)].k]
    BY <1>5
  <2>2. Old(j) \in 1 .. n /\ Old(j) # i
    BY <1>2
  <2>3. hp[s[Old(j)].k] # hp[s[i].k]
    BY <2>2 DEF Unique
  <2> QED
    BY <2>1, <2>3
<1>13. ASSUME NEW h, HeldIn(h, s, hp), h # NULL => h.text # KeyText(hp[s[i].k])
       PROVE  HeldIn(h, w, new)
  <2>1. ASSUME h # NULL PROVE HeldIn(h, w, new)
    <3>1. PICK m \in 1 .. n : s[m].v = h.addr /\ KeyText(hp[s[m].k]) = h.text
      BY <1>13, <2>1 DEF HeldIn
    <3>2. m # i
      BY <1>13, <2>1, <3>1
    <3>3. PICK j \in 1 .. n - 1 : Old(j) = m
      BY <1>2, <3>2
    <3>4. w[j].v = h.addr /\ new[w[j].k] = hp[s[m].k] /\ j \in 1 .. Len(w)
      BY <1>1, <1>5, <3>1, <3>3
    <3>5. KeyText(new[w[j].k]) = h.text
      BY <3>1, <3>4
    <3> QED
      BY <3>4, <3>5 DEF HeldIn
  <2> QED
    BY <2>1 DEF HeldIn
<1>14. Owned(w, new) /\ Unique(w, new)
  BY <1>1, <1>3, <1>8, <1>9, <1>10, <1>11 DEF Owned, Unique
<1>15. Entries(w, new) = Without(Entries(s, hp), i)
  <2> DEFINE es == Entries(s, hp)
             ew == Entries(w, new)
             r == Without(es, i)
             T == {Entry(hp[s[m].k], hp[s[m].v]) : m \in 1 .. n}
  <2>1. /\ es = [m \in 1 .. n |-> Entry(hp[s[m].k], hp[s[m].v])]
        /\ ew = [j \in 1 .. n - 1 |-> Entry(new[w[j].k], new[w[j].v])]
    BY <1>1 DEF Entries
  <2>2. es \in Seq(T) /\ Len(es) = n
    BY <1>1, <2>1
  <2> HIDE DEF es, ew, T
  <2>3. /\ r \in Seq(T) /\ Len(r) = n - 1
        /\ \A j \in 1 .. n - 1 : r[j] = IF j < i THEN es[j] ELSE es[j + 1]
    BY <2>2, WithoutElements
  <2> HIDE DEF r
  <2>4. ASSUME NEW j \in 1 .. n - 1 PROVE ew[j] = r[j]
    <3>1. r[j] = es[Old(j)]
      BY <2>3 DEF Old
    <3>2. Old(j) \in 1 .. n
      BY <1>2
    <3>3. es[Old(j)] = Entry(hp[s[Old(j)].k], hp[s[Old(j)].v])
      BY <2>1, <3>2
    <3> QED
      BY <1>5, <2>1, <3>1, <3>3
  <2>5. DOMAIN ew = 1 .. n - 1 /\ ew = [j \in 1 .. n - 1 |-> ew[j]]
    BY <2>1
  <2>6. r = [j \in 1 .. n - 1 |-> r[j]]
    BY <1>1, <2>3
  <2>7. ew = r
    BY <2>4, <2>5, <2>6
  <2> QED
    BY <2>7 DEF es, ew, r
<1> QED
  BY <1>1, <1>12, <1>13, <1>14, <1>15 DEF w, new

-----------------------------------------------------------------------------
(* The array of pairs *)

\* The value of the pushed pair overwrites the null it was pushed with.
LEMMA Pushed ==
    ASSUME NEW h, GoodHandle(h), ~PushFails(h), NEW k \in Addr, NEW v \in Addr
    PROVE  /\ GoodHandle(PushPair(h, k, v))
           /\ Contents(PushPair(h, k, v)) = Append(Contents(h), [k |-> k, v |-> v])
<1> DEFINE g == Grow(h, 1)
           x == [k |-> k, v |-> NULL]
           y == [k |-> k, v |-> v]
           d == g.size - 1
           c1 == MemCpy(g.cell, d, << x >>, 1)
<1>1. y \in Elem
  BY ONLY PairsAssumption, k \in Addr, v \in Addr
<1>2. /\ g \in Block /\ g.size = hda_size(h) + 1 /\ g.size =< Len(g.cell)
      /\ hda_size(h) \in Nat
  BY OneIsACount, GrowResult, SizeFacts DEF PushFails
<1>3. /\ g.cell \in Seq(Cell) /\ d \in Nat /\ d + 1 =< Len(g.cell)
      /\ g = [size |-> g.size, cap |-> g.cap, cell |-> g.cell]
  BY <1>2 DEF Block
<1>4. StoreLast(g, x) = [g EXCEPT !.cell = c1]
  BY DEF StoreLast
<1>5. /\ StoreLast(g, x).size = g.size /\ StoreLast(g, x).cell = c1
      /\ StoreLast(g, x).cap = g.cap
  BY <1>2, <1>4 DEF Block
<1>6. MemCpy(c1, d, << y >>, 1) = MemCpy(g.cell, d, << y >>, 1)
  <2> DEFINE c == g.cell
  <2> HIDE DEF c, d, x, y
  <2>1. c \in Seq(Cell) /\ d \in Nat /\ d + 1 =< Len(c) /\ Len(c) \in Nat
    BY <1>3 DEF c
  <2>2. MaxOf(Len(c), d + 1) = Len(c)
    BY <2>1 DEF MaxOf
  <2>3. MemCpy(c, d, << x >>, 1) =
          [m \in 1 .. Len(c) |-> IF m > d /\ m =< d + 1 THEN At(<< x >>, m - d)
                                                        ELSE At(c, m)]
    BY <2>2 DEF MemCpy
  <2> DEFINE e == MemCpy(c, d, << x >>, 1)
  <2>4. Len(e) = Len(c) /\ DOMAIN e = 1 .. Len(c)
        /\ \A m \in 1 .. Len(c) : ~(m > d /\ m =< d + 1) => e[m] = At(c, m)
    BY <2>1, <2>3
  <2> HIDE DEF e
  <2>5. MemCpy(e, d, << y >>, 1) =
          [m \in 1 .. Len(c) |-> IF m > d /\ m =< d + 1 THEN At(<< y >>, m - d)
                                                        ELSE At(e, m)]
    BY <2>2, <2>4 DEF MemCpy
  <2>6. MemCpy(c, d, << y >>, 1) =
          [m \in 1 .. Len(c) |-> IF m > d /\ m =< d + 1 THEN At(<< y >>, m - d)
                                                        ELSE At(c, m)]
    BY <2>2 DEF MemCpy
  <2>7. ASSUME NEW m \in 1 .. Len(c), ~(m > d /\ m =< d + 1) PROVE At(e, m) = At(c, m)
    BY <2>4, <2>7 DEF At
  <2>8. MemCpy(e, d, << y >>, 1) = MemCpy(c, d, << y >>, 1)
    BY <2>5, <2>6, <2>7
  <2> QED
    BY <2>8 DEF c, e
<1>7. PushPair(h, k, v) = StoreLast(g, y)
  <2>1. PushPair(h, k, v) = [StoreLast(g, x) EXCEPT !.cell = MemCpy(c1, d, << y >>, 1)]
    BY <1>5 DEF PushPair, Push, StoreLast
  <2>2. StoreLast(g, y) = [g EXCEPT !.cell = MemCpy(g.cell, d, << y >>, 1)]
    BY DEF StoreLast
  <2> HIDE DEF g, d, c1
  <2>3. [[g EXCEPT !.cell = c1] EXCEPT !.cell = MemCpy(c1, d, << y >>, 1)]
          = [g EXCEPT !.cell = MemCpy(c1, d, << y >>, 1)]
    BY <1>3
  <2> QED
    BY <1>4, <1>6, <2>1, <2>2, <2>3
<1> HIDE DEF g, y
<1>8. Good(StoreLast(g, y)) /\ Contents(StoreLast(g, y)) = Append(Contents(h), y)
  BY <1>1, PushResult, PushContents DEF g
<1> QED
  BY <1>7, <1>8 DEF GoodHandle, y

\* hda_delete of one pair.
LEMMA Deleted ==
    ASSUME NEW h, GoodHandle(h), NEW i \in 0 .. hda_size(h) - 1
    PROVE  /\ GoodHandle(Delete(h, i, 1))
           /\ Contents(Delete(h, i, 1)) = Without(Contents(h), i + 1)
<1>1. hda_size(h) \in Nat /\ h # NULL
  BY SizeFacts DEF hda_size
<1>2. Good(h) /\ hda_size(h) = h.size
  BY <1>1 DEF GoodHandle, hda_size
<1>3. Good(Delete(h, i, 1))
  BY <1>1, <1>2, DeleteResult
<1>4. i \in 0 .. hda_size(h) /\ 1 \in 0 .. hda_size(h) - i
  BY <1>1
<1>5. Contents(Delete(h, i, 1)) =
        SubSeq(Contents(h), 1, i) \o SubSeq(Contents(h), i + 1 + 1, Len(Contents(h)))
  BY <1>4, DeleteContents
<1>6. (i + 1) - 1 = i
  OBVIOUS
<1> QED
  BY <1>3, <1>5, <1>6 DEF GoodHandle, Without

\* The pairs are the contents of the array.
LEMMA PairsAre ==
    ASSUME GoodHandle(pairs)
    PROVE  /\ Contents(pairs) \in Seq(Elem)
           /\ hda_size(pairs) = Len(Contents(pairs))
           /\ Indices = 0 .. Len(Contents(pairs)) - 1
           /\ \A i \in Indices : i + 1 \in 1 .. Len(Contents(pairs))
                                 /\ PairAt(i) = Contents(pairs)[i + 1]
<1>1. /\ Contents(pairs) \in Seq(Elem) /\ Len(Contents(pairs)) = hda_size(pairs)
      /\ \A k \in 1 .. hda_size(pairs) : Contents(pairs)[k] = pairs.cell[k]
  BY ContentsOf
<1>2. hda_size(pairs) \in Nat
  BY SizeFacts
<1> QED
  BY <1>1, <1>2 DEF Indices, PairAt

-----------------------------------------------------------------------------
(* Looking a key up *)

\* A key that is not found is the key of no pair.
LEMMA NotFound ==
    ASSUME NEW s, s = Contents(pairs), GoodHandle(pairs),
           Owned(s, heap),
           NEW c \in Available(heap), NEW key \in CanonKey,
           NEW hp, hp = Alloc(heap, c, key), ~Found(hp, key)
    PROVE  \A i \in 1 .. Len(s) : heap[s[i].k] # key
<1>1. c \in Addr /\ c \notin DOMAIN heap
  BY DEF Available
<1>3. /\ DOMAIN hp = DOMAIN heap \cup {c}
      /\ \A a \in DOMAIN heap : hp[a] = heap[a]
  BY <1>1 DEF Alloc
<1>5. /\ Len(s) \in Nat /\ Indices = 0 .. Len(s) - 1
      /\ \A i \in Indices : i + 1 \in 1 .. Len(s) /\ PairAt(i) = s[i + 1]
  BY PairsAre DEF Owned
<1>6. ASSUME NEW i \in Indices
      PROVE  Read(hp, PairAt(i).k) = heap[s[i + 1].k]
  <2>1. s[i + 1].k \in DOMAIN heap
    BY <1>5 DEF Owned, KeysOf
  <2> QED
    BY <1>3, <1>5, <2>1 DEF Read
<1>7. ASSUME NEW i \in 1 .. Len(s) PROVE heap[s[i].k] # key
  <2>1. i - 1 \in Indices /\ (i - 1) + 1 = i
    BY <1>5
  <2>2. i - 1 \notin Matches(hp, key)
    BY DEF Found
  <2>3. Read(hp, PairAt(i - 1).k) # key
    BY <2>1, <2>2 DEF Matches
  <2> QED
    BY <1>6, <2>1, <2>3
<1> QED
  BY <1>7

\* The temporary key is then a free block again.
LEMMA TemporaryFreed ==
    ASSUME NEW s, Owned(s, heap),
           NEW c \in Available(heap), NEW key \in CanonKey,
           NEW hp, hp = Alloc(heap, c, key)
    PROVE  FreeBlocks(hp, {c}) = heap
<1>1. c \in Addr /\ c \notin DOMAIN heap
  BY DEF Available
<1>2. heap = [a \in DOMAIN heap |-> heap[a]]
  BY DEF Owned
<1>3. /\ DOMAIN hp = DOMAIN heap \cup {c}
      /\ \A a \in DOMAIN heap : hp[a] = heap[a]
  BY <1>1 DEF Alloc
<1>4. DOMAIN hp \ {c} = DOMAIN heap
  BY <1>1, <1>3
<1>5. FreeBlocks(hp, {c}) = [a \in DOMAIN heap |-> hp[a]]
  BY <1>4 DEF FreeBlocks
<1>6. [a \in DOMAIN heap |-> hp[a]] = [a \in DOMAIN heap |-> heap[a]]
  BY <1>3
<1> QED
  BY <1>2, <1>5, <1>6

\* The first pair that matches is the only one.
LEMMA Looked ==
    ASSUME NEW s, s = Contents(pairs), GoodHandle(pairs),
           Owned(s, heap), Unique(s, heap),
           NEW c \in Available(heap), NEW key \in CanonKey,
           NEW hp, hp = Alloc(heap, c, key), Found(hp, key),
           NEW idx, idx = lookup_idx(hp, key)
    PROVE  /\ idx \in 0 .. hda_size(pairs) - 1
           /\ idx + 1 \in 1 .. Len(s)
           /\ PairAt(idx) = s[idx + 1]
           /\ heap[s[idx + 1].k] = key
<1>1. c \in Addr /\ c \notin DOMAIN heap
  BY DEF Available
<1>2. /\ DOMAIN hp = DOMAIN heap \cup {c}
      /\ \A a \in DOMAIN heap : hp[a] = heap[a]
  BY <1>1 DEF Alloc
<1>3. /\ hda_size(pairs) = Len(s) /\ Len(s) \in Nat /\ Indices = 0 .. Len(s) - 1
      /\ \A i \in Indices : i + 1 \in 1 .. Len(s) /\ PairAt(i) = s[i + 1]
  BY PairsAre DEF Owned
<1>4. ASSUME NEW i \in Indices
      PROVE  Read(hp, PairAt(i).k) = heap[s[i + 1].k]
  <2>1. s[i + 1].k \in DOMAIN heap
    BY <1>3 DEF Owned, KeysOf
  <2> QED
    BY <1>2, <1>3, <2>1 DEF Read
<1>5. PICK i \in Matches(hp, key) : TRUE
  BY DEF Found
<1>6. ASSUME NEW j \in Matches(hp, key) PROVE j = i
  <2>1. i \in Indices /\ j \in Indices
    BY <1>5, <1>6 DEF Matches
  <2>2. heap[s[i + 1].k] = key /\ heap[s[j + 1].k] = key
    BY <1>4, <1>5, <1>6, <2>1 DEF Matches
  <2>3. i + 1 = j + 1
    BY <1>3, <2>1, <2>2 DEF Unique
  <2> QED
    BY <1>3, <2>1, <2>3
<1>7. i \in Nat
  BY <1>3, <1>5 DEF Matches
<1>8. \E m \in Matches(hp, key) : \A j \in Matches(hp, key) : m =< j
  BY <1>5, <1>6, <1>7
<1>9. idx \in Matches(hp, key)
  BY <1>8 DEF lookup_idx
<1>10. idx \in Indices /\ heap[s[idx + 1].k] = key
  BY <1>4, <1>9 DEF Matches
<1> QED
  BY <1>3, <1>10

-----------------------------------------------------------------------------
(* The inductive invariant *)

\* What the dictionary says, pair by pair.
Listed == Entries(Contents(pairs), heap)

IInv ==
    /\ open \in BOOLEAN /\ GoodHandle(pairs) /\ (~open => pairs = NULL)
    /\ Owned(Contents(pairs), heap)
    /\ Unique(Contents(pairs), heap)
    /\ held = NULL \/ held \in [text : Plain, addr : Addr]
    /\ HeldIn(held, Contents(pairs), heap)
    /\ ret \in Val \cup {0, -1, NULL}

\* What the canonical key of an argument says.
LEMMA CanonText ==
    ASSUME NEW arg \in Arg
    PROVE  Canon(arg) \in CanonKey /\ KeyText(Canon(arg)) = Text(arg)
           /\ Text(arg) \in Plain
<1>1. Canon(arg) \in CanonKey /\ Canon(arg)[2] = arg
  BY DEF CanonKey, Canon
<1>2. Canon(arg) # Junk
  BY <1>1, CanonAssumption
<1>3. Text(arg) \in Plain
  BY KeysAssumption DEF Text, Arg
<1> QED
  BY <1>1, <1>2, <1>3 DEF KeyText

\* kv_add of a key that is there.
LEMMA AddExistingKeeps ==
    ASSUME IInv, open, NEW arg \in Arg, AddExisting(arg)
    PROVE  /\ IInv' /\ Listed' = Listed /\ ret' = -1
           /\ \E i : KeyIs(Listed, i, Canon(arg))
<1>1. PICK c \in Available(heap) :
         LET hp == Alloc(heap, c, Canon(arg))
         IN  /\ Found(hp, Canon(arg))
             /\ heap' = FreeBlocks(hp, {c}) /\ ret' = -1
             /\ UNCHANGED <<open, pairs, held>>
  BY DEF AddExisting
<1> DEFINE s == Contents(pairs)
           hp == Alloc(heap, c, Canon(arg))
<1>2. Canon(arg) \in CanonKey
  BY CanonText
<1> DEFINE x == lookup_idx(hp, Canon(arg))
<1>3. Owned(s, heap) /\ Unique(s, heap) /\ GoodHandle(pairs) /\ s = Contents(pairs)
      /\ hp = Alloc(heap, c, Canon(arg)) /\ Found(hp, Canon(arg))
      /\ x = lookup_idx(hp, Canon(arg))
  BY <1>1 DEF IInv
<1> HIDE DEF s, hp, x
<1>a. FreeBlocks(hp, {c}) = heap
  BY <1>2, <1>3, TemporaryFreed
<1>b. x + 1 \in 1 .. Len(s) /\ heap[s[x + 1].k] = Canon(arg)
  BY <1>2, <1>3, Looked
<1>4. UNCHANGED <<open, pairs, heap, held>> /\ ret' = -1
  BY <1>1, <1>a DEF hp
<1>5. IInv'
  <2>1. open' = open /\ pairs' = pairs /\ heap' = heap /\ held' = held
    BY <1>4
  <2>2. ret' \in Val \cup {0, -1, NULL}
    BY <1>4
  <2> QED
    BY <2>1, <2>2 DEF IInv
<1>6. Listed' = Listed
  BY <1>4 DEF Listed
<1>7. KeyIs(Listed, x + 1, Canon(arg))
  BY <1>b, <1>3, EntriesOf DEF Listed
<1> QED
  BY <1>4, <1>5, <1>6, <1>7

\* kv_add and kv_set of a key that is not there.
LEMMA AddNewKeeps ==
    ASSUME IInv, open, NEW arg \in Arg, NEW val \in Val, AddNew(arg, val)
    PROVE  /\ IInv' /\ NoKey(Listed, Canon(arg)) /\ ret' = 0
           /\ Listed' = Append(Listed, Entry(Canon(arg), val))
<1>1. PICK c \in Available(heap) :
         LET hp == Alloc(heap, c, Canon(arg))
         IN  /\ ~Found(hp, Canon(arg))
             /\ ~PushFails(pairs)
             /\ \E b \in Available(hp) :
                   /\ heap' = Alloc(hp, b, val)
                   /\ pairs' = PushPair(pairs, c, b)
             /\ ret' = 0
             /\ UNCHANGED <<open, held>>
  BY DEF AddNew
<1> DEFINE s == Contents(pairs)
           key == Canon(arg)
           hp == Alloc(heap, c, key)
<1>2. PICK b \in Available(hp) :
         heap' = Alloc(hp, b, val) /\ pairs' = PushPair(pairs, c, b)
  BY <1>1
<1>3. key \in CanonKey /\ ~Found(hp, key) /\ s = Contents(pairs)
      /\ hp = Alloc(heap, c, key) /\ c \in Available(heap)
  BY <1>1, CanonText
<1>4. b \in Addr /\ b \notin DOMAIN heap /\ b # c
  BY <1>2 DEF Available, Alloc
<1> HIDE DEF s, key, hp
<1>5. c \in Addr /\ c \notin DOMAIN heap /\ \A i \in 1 .. Len(s) : heap[s[i].k] # key
  <2>1. GoodHandle(pairs) /\ Owned(s, heap) /\ Unique(s, heap)
    BY <1>3 DEF IInv
  <2>2. c \in Addr /\ c \notin DOMAIN heap
    BY <1>3 DEF Available
  <2>3. \A i \in 1 .. Len(s) : heap[s[i].k] # key
    BY <1>3, <2>1, NotFound
  <2> QED
    BY <2>2, <2>3
<1>6. GoodHandle(pairs)' /\ Contents(pairs)' = Append(s, [k |-> c, v |-> b])
  <2>1. GoodHandle(PushPair(pairs, c, b))
        /\ Contents(PushPair(pairs, c, b)) = Append(s, [k |-> c, v |-> b])
    BY <1>1, <1>3, <1>4, <1>5, Pushed DEF IInv
  <2> QED
    BY <1>2, <2>1
<1> DEFINE t == Append(s, [k |-> c, v |-> b])
           new == Alloc(Alloc(heap, c, key), b, val)
<1>7. /\ Owned(t, new) /\ Unique(t, new)
      /\ \A h : HeldIn(h, s, heap) => HeldIn(h, t, new)
      /\ Entries(t, new) = Append(Entries(s, heap), Entry(key, val))
  BY <1>3, <1>4, <1>5, AddOwned DEF IInv
<1>8. heap' = new
  BY <1>2, <1>3
<1> HIDE DEF t, new
<1>9. HeldIn(held, t, new) /\ held' = held /\ open' = open /\ ret' = 0
  BY <1>1, <1>3, <1>7 DEF IInv
<1>10. IInv'
  BY <1>6, <1>7, <1>8, <1>9 DEF IInv, t
<1>11. Listed' = Append(Listed, Entry(key, val))
  BY <1>3, <1>6, <1>7, <1>8 DEF Listed, t
<1>12. NoKey(Listed, key)
  BY <1>3, <1>5, EntriesOf DEF Listed, IInv
<1> QED
  BY <1>9, <1>10, <1>11, <1>12 DEF key

\* kv_set of a key that is there: its pair is removed, then pushed anew, with
\* a value block that may reuse what was freed.
LEMMA SetExistingKeeps ==
    ASSUME IInv, open, NEW arg \in Arg, NEW val \in Val, SetExisting(arg, val)
    PROVE  /\ IInv' /\ ret' = 0
           /\ \E i : /\ KeyIs(Listed, i, Canon(arg))
                     /\ Listed' = Append(Without(Listed, i), Entry(Canon(arg), val))
<1>1. PICK c \in Available(heap) :
         LET hp == Alloc(heap, c, Canon(arg))
             idx == lookup_idx(hp, Canon(arg))
             freed == FreeBlocks(hp, {PairAt(idx).k, PairAt(idx).v})
             rest == Delete(pairs, idx, 1)
         IN  /\ Found(hp, Canon(arg))
             /\ ~PushFails(rest)
             /\ \E b \in Available(freed) :
                   /\ heap' = Alloc(freed, b, val)
                   /\ pairs' = PushPair(rest, c, b)
             /\ held' = HeldWithout(Text(arg))
             /\ ret' = 0
             /\ UNCHANGED open
  BY DEF SetExisting
<1> DEFINE s == Contents(pairs)
           key == Canon(arg)
           hp == Alloc(heap, c, key)
           idx == lookup_idx(hp, key)
           i == idx + 1
           freed == FreeBlocks(hp, {PairAt(idx).k, PairAt(idx).v})
           rest == Delete(pairs, idx, 1)
           w == Without(s, i)
           less == FreeBlocks(heap, {s[i].k, s[i].v})
<1>2. PICK b \in Available(freed) :
         heap' = Alloc(freed, b, val) /\ pairs' = PushPair(rest, c, b)
  BY <1>1
<1>3. /\ key \in CanonKey /\ Found(hp, key) /\ s = Contents(pairs)
      /\ hp = Alloc(heap, c, key) /\ c \in Available(heap)
      /\ ~PushFails(rest) /\ held' = HeldWithout(Text(arg)) /\ ret' = 0
      /\ open' = open /\ KeyText(key) = Text(arg)
  BY <1>1, CanonText
<1> HIDE DEF s, key, hp
<1>4. /\ c \in Addr /\ c \notin DOMAIN heap
      /\ idx \in 0 .. hda_size(pairs) - 1 /\ i \in 1 .. Len(s)
      /\ PairAt(idx) = s[i] /\ heap[s[i].k] = key
  <2>1. GoodHandle(pairs) /\ Owned(s, heap) /\ Unique(s, heap)
    BY <1>3 DEF IInv
  <2> DEFINE x == lookup_idx(hp, key)
  <2>2. c \in Addr /\ c \notin DOMAIN heap
    BY <1>3 DEF Available
  <2>3. x = lookup_idx(hp, key)
    OBVIOUS
  <2> HIDE DEF x
  <2>4. /\ x \in 0 .. hda_size(pairs) - 1 /\ x + 1 \in 1 .. Len(s)
        /\ PairAt(x) = s[x + 1] /\ heap[s[x + 1].k] = key
    BY <1>3, <2>1, <2>3, Looked
  <2> QED
    BY <2>2, <2>3, <2>4
<1>5. GoodHandle(rest) /\ Contents(rest) = w
  BY <1>3, <1>4, Deleted DEF IInv
<1>6. Owned(s, heap) /\ Unique(s, heap) /\ HeldIn(held, s, heap)
  BY <1>3 DEF IInv
<1>7. /\ Owned(w, less) /\ Unique(w, less)
      /\ \A j \in 1 .. Len(w) : less[w[j].k] # heap[s[i].k]
      /\ \A h : /\ HeldIn(h, s, heap)
                /\ h # NULL => h.text # KeyText(heap[s[i].k])
                => HeldIn(h, w, less)
      /\ Entries(w, less) = Without(Entries(s, heap), i)
  <2> HIDE DEF i
  <2> QED
    BY <1>4, <1>6, RemoveOwned
<1>8. s[i].k # c /\ s[i].v # c
  BY <1>4, <1>6 DEF Owned, KeysOf, ValuesOf
<1>9. freed = Alloc(less, c, key) /\ DOMAIN less \subseteq DOMAIN heap
  BY <1>3, <1>4, <1>8 DEF Alloc, FreeBlocks
<1>10. /\ b \in Addr /\ b \notin DOMAIN less /\ b # c /\ c \notin DOMAIN less
  BY <1>2, <1>4, <1>9 DEF Available, Alloc
<1>11. HeldIn(held', w, less)
  <2>1. CASE held' = NULL
    BY <2>1 DEF HeldIn
  <2>2. CASE held' # NULL
    <3>1. held' = held /\ held.text # KeyText(heap[s[i].k])
      BY <1>3, <1>4, <2>2 DEF HeldWithout
    <3> QED
      BY <1>6, <1>7, <3>1
  <2> QED
    BY <2>1, <2>2
<1> DEFINE t == Append(w, [k |-> c, v |-> b])
           new == Alloc(Alloc(less, c, key), b, val)
<1> HIDE DEF i, w, less, rest, freed, idx
<1>12. /\ Owned(t, new) /\ Unique(t, new)
       /\ \A h : HeldIn(h, w, less) => HeldIn(h, t, new)
       /\ Entries(t, new) = Append(Entries(w, less), Entry(key, val))
  <2>1. \A j \in 1 .. Len(w) : less[w[j].k] # key
    BY <1>4, <1>7
  <2> QED
    BY <1>3, <1>4, <1>7, <1>10, <2>1, AddOwned
<1>13. GoodHandle(pairs)' /\ Contents(pairs)' = t
  <2>1. GoodHandle(PushPair(rest, c, b)) /\ Contents(PushPair(rest, c, b)) = t
    BY <1>3, <1>4, <1>5, <1>10, Pushed
  <2> QED
    BY <1>2, <2>1
<1>14. heap' = new
  BY <1>2, <1>9
<1>15. HeldIn(held', t, new)
  BY <1>11, <1>12
<1>16. held' = NULL \/ held' \in [text : Plain, addr : Addr]
  BY <1>3 DEF HeldWithout, IInv
<1> HIDE DEF t, new
<1>17. IInv'
  BY <1>3, <1>12, <1>13, <1>14, <1>15, <1>16 DEF IInv
<1>18. Listed' = Append(Without(Listed, i), Entry(key, val))
  BY <1>3, <1>7, <1>12, <1>13, <1>14 DEF Listed
<1>19. KeyIs(Listed, i, key)
  BY <1>3, <1>4, <1>6, EntriesOf DEF Listed
<1> QED
  BY <1>3, <1>17, <1>18, <1>19 DEF key

\* kv_lookup: the pointer it returns is the value of the pair it found.
LEMMA LookupKeeps ==
    ASSUME IInv, NEW arg \in Arg, kv_lookup(arg)
    PROVE  /\ IInv' /\ Listed' = Listed
           /\ \/ NoKey(Listed, Canon(arg)) /\ ret' = NULL
              \/ \E i : KeyIs(Listed, i, Canon(arg)) /\ ret' = Listed[i].val
<1>1. PICK c \in Available(heap) :
         LET hp == Alloc(heap, c, Canon(arg))
         IN  /\ \/ /\ ~Found(hp, Canon(arg))
                   /\ ret' = NULL /\ held' = NULL
                \/ /\ Found(hp, Canon(arg))
                   /\ LET v == PairAt(lookup_idx(hp, Canon(arg))).v
                      IN  /\ held' = [text |-> Text(arg), addr |-> v]
                          /\ ret' = Read(hp, v)
             /\ heap' = FreeBlocks(hp, {c})
             /\ UNCHANGED <<open, pairs>>
  BY DEF kv_lookup
<1> DEFINE s == Contents(pairs)
           key == Canon(arg)
           hp == Alloc(heap, c, key)
           idx == lookup_idx(hp, key)
<1>2. /\ Owned(s, heap) /\ Unique(s, heap) /\ GoodHandle(pairs)
      /\ s = Contents(pairs) /\ hp = Alloc(heap, c, key)
      /\ key \in CanonKey /\ KeyText(key) = Text(arg) /\ Text(arg) \in Plain
      /\ idx = lookup_idx(hp, key)
  BY CanonText DEF IInv
<1>3. \/ ~Found(hp, key) /\ ret' = NULL /\ held' = NULL
      \/ /\ Found(hp, key)
         /\ held' = [text |-> Text(arg), addr |-> PairAt(idx).v]
         /\ ret' = Read(hp, PairAt(idx).v)
  BY <1>1
<1>4. heap' = FreeBlocks(hp, {c}) /\ open' = open /\ pairs' = pairs
  BY <1>1
<1> HIDE DEF s, key, hp, idx
<1>5. heap' = heap
  BY <1>2, <1>4, TemporaryFreed
<1>6. /\ held' = NULL \/ held' \in [text : Plain, addr : Addr]
      /\ HeldIn(held', s, heap)
      /\ ret' \in Val \cup {0, -1, NULL}
      /\ \/ NoKey(Listed, key) /\ ret' = NULL
         \/ \E i : KeyIs(Listed, i, key) /\ ret' = Listed[i].val
  <2>1. CASE ~Found(hp, key) /\ ret' = NULL /\ held' = NULL
    <3>1. \A i \in 1 .. Len(s) : heap[s[i].k] # key
      BY <1>2, <2>1, NotFound
    <3>2. NoKey(Listed, key)
      BY <1>2, <3>1, EntriesOf DEF Listed
    <3> QED
      BY <2>1, <3>2 DEF HeldIn
  <2>2. CASE /\ Found(hp, key)
             /\ held' = [text |-> Text(arg), addr |-> PairAt(idx).v]
             /\ ret' = Read(hp, PairAt(idx).v)
    <3>1. idx + 1 \in 1 .. Len(s) /\ PairAt(idx) = s[idx + 1]
          /\ heap[s[idx + 1].k] = key
      BY <1>2, <2>2, Looked
    <3> DEFINE i == idx + 1
    <3> HIDE DEF i
    <3>2. i \in 1 .. Len(s) /\ PairAt(idx) = s[i] /\ heap[s[i].k] = key
      BY <3>1 DEF i
    <3>3. s[i].v \in Addr /\ s[i].v \in DOMAIN heap /\ heap[s[i].v] \in Val
      <4>1. s \in Seq(Elem)
        BY <1>2 DEF Owned
      <4> QED
        BY <1>2, <3>2, <4>1, Fields DEF Owned, ValuesOf
    <3>4. ret' = heap[s[i].v]
      <4>1. s[i].v \in DOMAIN hp
        BY <1>2, <3>3 DEF Alloc
      <4>2. hp[s[i].v] = heap[s[i].v]
        BY <1>2, <3>3 DEF Alloc, Available
      <4> QED
        BY <2>2, <3>2, <4>1, <4>2 DEF Read
    <3>5. held'.addr = s[i].v /\ held'.text = Text(arg)
      BY <2>2, <3>2
    <3>6. held' \in [text : Plain, addr : Addr]
      BY <1>2, <2>2, <3>2, <3>3
    <3>7. KeyText(heap[s[i].k]) = held'.text
      BY <1>2, <3>2, <3>5
    <3>8. HeldIn(held', s, heap)
      BY <3>2, <3>5, <3>7 DEF HeldIn
    <3>9. KeyIs(Listed, i, key)
      BY <1>2, <3>2, EntriesOf DEF Listed
    <3>10. Listed[i].val = heap[s[i].v]
      BY <1>2, <3>2, EntriesOf DEF Listed
    <3> QED
      BY <3>3, <3>4, <3>6, <3>8, <3>9, <3>10
  <2> QED
    BY <1>3, <2>1, <2>2
<1>7. Listed' = Listed
  BY <1>4, <1>5 DEF Listed
<1>8. IInv'
  BY <1>2, <1>4, <1>5, <1>6 DEF IInv
<1> QED
  BY <1>6, <1>7, <1>8 DEF key

\* kv_delete: the pair goes with its two blocks, and so does the pointer the
\* caller held to its value.
LEMMA DeleteKeeps ==
    ASSUME IInv, NEW arg \in Arg, kv_delete(arg)
    PROVE  /\ IInv' /\ ret' = 0
           /\ \/ NoKey(Listed, Canon(arg)) /\ Listed' = Listed
              \/ \E i : KeyIs(Listed, i, Canon(arg)) /\ Listed' = Without(Listed, i)
<1>1. PICK c \in Available(heap) :
         LET hp == Alloc(heap, c, Canon(arg))
             idx == lookup_idx(hp, Canon(arg))
         IN  \/ /\ ~Found(hp, Canon(arg))
                /\ heap' = FreeBlocks(hp, {c})
                /\ UNCHANGED <<pairs, held>>
             \/ /\ Found(hp, Canon(arg))
                /\ heap' = FreeBlocks(hp, {PairAt(idx).k, PairAt(idx).v, c})
                /\ pairs' = Delete(pairs, idx, 1)
                /\ held' = HeldWithout(Text(arg))
  BY DEF kv_delete
<1> DEFINE s == Contents(pairs)
           key == Canon(arg)
           hp == Alloc(heap, c, key)
           idx == lookup_idx(hp, key)
<1>2. /\ Owned(s, heap) /\ Unique(s, heap) /\ GoodHandle(pairs)
      /\ HeldIn(held, s, heap) /\ open = TRUE
      /\ held = NULL \/ held \in [text : Plain, addr : Addr]
      /\ s = Contents(pairs) /\ hp = Alloc(heap, c, key)
      /\ key \in CanonKey /\ KeyText(key) = Text(arg)
      /\ idx = lookup_idx(hp, key) /\ c \in Available(heap)
  BY CanonText DEF IInv, kv_delete
<1>3. open' = TRUE /\ ret' = 0
  BY <1>2 DEF kv_delete
<1>4. CASE ~Found(hp, key) /\ heap' = FreeBlocks(hp, {c}) /\ UNCHANGED <<pairs, held>>
  <2>1. pairs' = pairs /\ held' = held
    BY <1>4
  <2> HIDE DEF s, key, hp, idx
  <2>2. heap' = heap
    BY <1>2, <1>4, TemporaryFreed
  <2>3. \A i \in 1 .. Len(s) : heap[s[i].k] # key
    BY <1>2, <1>4, NotFound
  <2>4. NoKey(Listed, key)
    BY <1>2, <2>3, EntriesOf DEF Listed
  <2>5. Listed' = Listed
    BY <2>1, <2>2 DEF Listed
  <2>6. IInv'
    BY <1>2, <1>3, <2>1, <2>2 DEF IInv
  <2> QED
    BY <1>3, <2>4, <2>5, <2>6 DEF key
<1>5. CASE /\ Found(hp, key)
           /\ heap' = FreeBlocks(hp, {PairAt(idx).k, PairAt(idx).v, c})
           /\ pairs' = Delete(pairs, idx, 1)
           /\ held' = HeldWithout(Text(arg))
  <2> HIDE DEF s, key, hp, idx
  <2> DEFINE i == idx + 1
  <2>1. /\ idx \in 0 .. hda_size(pairs) - 1 /\ i \in 1 .. Len(s)
        /\ PairAt(idx) = s[i] /\ heap[s[i].k] = key
    BY <1>2, <1>5, Looked
  <2> DEFINE w == Without(s, i)
             less == FreeBlocks(heap, {s[i].k, s[i].v})
  <2>2. GoodHandle(pairs') /\ Contents(pairs') = w
    BY <1>2, <1>5, <2>1, Deleted
  <2> HIDE DEF i
  <2>3. heap' = less
    <3>1. c \notin DOMAIN heap
      BY <1>2 DEF Available
    <3>2. DOMAIN hp \ {s[i].k, s[i].v, c} = DOMAIN heap \ {s[i].k, s[i].v}
      BY <1>2, <3>1 DEF Alloc
    <3>3. \A a \in DOMAIN heap : hp[a] = heap[a]
      BY <1>2, <3>1 DEF Alloc
    <3> QED
      BY <1>5, <2>1, <3>2, <3>3 DEF FreeBlocks
  <2>4. /\ Owned(w, less) /\ Unique(w, less)
        /\ \A h : /\ HeldIn(h, s, heap)
                  /\ h # NULL => h.text # KeyText(heap[s[i].k])
                  => HeldIn(h, w, less)
        /\ Entries(w, less) = Without(Entries(s, heap), i)
    BY <1>2, <2>1, RemoveOwned
  <2>5. HeldIn(held', w, less)
    <3>1. CASE held' = NULL
      BY <3>1 DEF HeldIn
    <3>2. CASE held' # NULL
      <4>1. held' = held /\ held.text # KeyText(heap[s[i].k])
        BY <1>2, <1>5, <2>1, <3>2 DEF HeldWithout
      <4> QED
        BY <1>2, <2>4, <4>1
    <3> QED
      BY <3>1, <3>2
  <2>6. held' = NULL \/ held' \in [text : Plain, addr : Addr]
    BY <1>2, <1>5 DEF HeldWithout
  <2> HIDE DEF w, less
  <2>7. IInv'
    BY <1>3, <2>2, <2>3, <2>4, <2>5, <2>6 DEF IInv
  <2>8. Listed' = Without(Listed, i)
    BY <1>2, <2>2, <2>3, <2>4 DEF Listed
  <2>9. KeyIs(Listed, i, key)
    BY <1>2, <2>1, EntriesOf DEF Listed
  <2> QED
    BY <1>3, <2>7, <2>8, <2>9 DEF key
<1> QED
  BY <1>1, <1>4, <1>5

-----------------------------------------------------------------------------
(* Every step *)

\* A dictionary without pairs has no blocks.
LEMMA Empty ==
    ASSUME NEW hp, hp = [a \in DOMAIN hp |-> hp[a]], DOMAIN hp = {}
    PROVE  /\ GoodHandle(NULL) /\ Owned(Contents(NULL), hp)
           /\ Unique(Contents(NULL), hp)
           /\ HeldIn(NULL, Contents(NULL), hp)
           /\ Entries(Contents(NULL), hp) = << >>
<1>1. GoodHandle(NULL) /\ hda_size(NULL) = 0
  BY DEF GoodHandle, hda_size
<1>2. Contents(NULL) \in Seq(Elem) /\ Len(Contents(NULL)) = 0
  BY <1>1, ContentsOf
<1>3. KeysOf(Contents(NULL)) = {} /\ ValuesOf(Contents(NULL)) = {}
  BY <1>2 DEF KeysOf, ValuesOf
<1>4. Entries(Contents(NULL), hp) = << >>
  BY <1>2 DEF Entries
<1> QED
  BY <1>1, <1>2, <1>3, <1>4 DEF Owned, Unique, HeldIn

\* kv_free frees the block of every pair, and there is no other.
LEMMA FreeKeeps ==
    ASSUME IInv, kv_free
    PROVE  IInv' /\ Listed' = << >> /\ ret' = 0 /\ ~open'
<1> DEFINE s == Contents(pairs)
<1>1. /\ Indices = 0 .. Len(s) - 1 /\ Len(s) \in Nat
      /\ \A i \in Indices : i + 1 \in 1 .. Len(s) /\ PairAt(i) = s[i + 1]
  BY PairsAre DEF IInv, Owned
<1>2. DOMAIN heap = KeysOf(s) \cup ValuesOf(s)
  BY DEF IInv, Owned
<1> DEFINE K == {PairAt(i).k : i \in Indices}
           V == {PairAt(i).v : i \in Indices}
<1> HIDE DEF s
<1>3. DOMAIN heap \subseteq K \cup V
  <2>1. ASSUME NEW i \in 1 .. Len(s) PROVE s[i].k \in K /\ s[i].v \in V
    <3>1. i - 1 \in Indices /\ (i - 1) + 1 = i
      BY <1>1
    <3>2. PairAt(i - 1) = s[i]
      BY <1>1, <3>1
    <3> QED
      BY <3>1, <3>2
  <2> QED
    BY <1>2, <2>1 DEF KeysOf, ValuesOf
<1>4. heap' = FreeBlocks(heap, K \cup V) /\ open' = FALSE /\ pairs' = NULL
      /\ held' = NULL /\ ret' = 0
  BY DEF kv_free
<1> HIDE DEF K, V
<1>5. heap' = [a \in DOMAIN heap' |-> heap'[a]] /\ DOMAIN heap' = {}
  BY <1>3, <1>4 DEF FreeBlocks
<1>6. /\ GoodHandle(pairs') /\ Owned(Contents(pairs'), heap')
      /\ Unique(Contents(pairs'), heap')
      /\ HeldIn(held', Contents(pairs'), heap')
      /\ Entries(Contents(pairs'), heap') = << >>
  BY <1>4, <1>5, Empty
<1> QED
  BY <1>4, <1>6 DEF IInv, Listed

\* kv_create starts with no pairs.
LEMMA CreateKeeps ==
    ASSUME IInv, kv_create
    PROVE  IInv' /\ Listed' = << >> /\ Listed = << >> /\ ret' = 0
<1>1. open' = TRUE /\ pairs' = NULL /\ ret' = 0 /\ heap' = heap /\ held' = held
  BY DEF kv_create
<1>2. pairs = NULL
  BY DEF IInv, kv_create
<1>3. Listed = << >>
  <2>1. Contents(pairs) \in Seq(Elem) /\ Len(Contents(pairs)) = 0
    BY <1>2, ContentsOf DEF GoodHandle, hda_size
  <2> QED
    BY <2>1 DEF Listed, Entries
<1>4. Listed' = Listed
  BY <1>1, <1>2 DEF Listed
<1> QED
  BY <1>1, <1>2, <1>3, <1>4 DEF IInv

\* The initial state has no dictionary and no blocks.
LEMMA IInvInit == Init => IInv /\ Listed = << >>
<1> SUFFICES ASSUME Init PROVE IInv /\ Listed = << >>
  OBVIOUS
<1>1. heap = << >> /\ pairs = NULL /\ held = NULL /\ open = FALSE /\ ret = 0
  BY DEF Init
<1>2. heap = [a \in DOMAIN heap |-> heap[a]] /\ DOMAIN heap = {}
  BY <1>1
<1> QED
  BY <1>1, <1>2, Empty DEF IInv, Listed

\* Every call keeps the invariant.
LEMMA IInvNext == IInv /\ [Next]_vars => IInv'
<1> SUFFICES ASSUME IInv, [Next]_vars PROVE IInv'
  OBVIOUS
<1>1. CASE kv_create
  BY <1>1, CreateKeeps
<1>2. ASSUME NEW arg \in Arg, NEW val \in Val, kv_add(arg, val) PROVE IInv'
  BY <1>2, AddExistingKeeps, AddNewKeeps DEF kv_add
<1>3. ASSUME NEW arg \in Arg, NEW val \in Val, kv_set(arg, val) PROVE IInv'
  BY <1>3, SetExistingKeeps, AddNewKeeps DEF kv_set
<1>4. ASSUME NEW arg \in Arg, kv_lookup(arg) PROVE IInv'
  BY <1>4, LookupKeeps
<1>5. ASSUME NEW arg \in Arg, kv_delete(arg) PROVE IInv'
  BY <1>5, DeleteKeeps
<1>6. CASE kv_free
  BY <1>6, FreeKeeps
<1>7. CASE UNCHANGED vars
  BY <1>7 DEF vars, IInv
<1> QED
  BY <1>1, <1>2, <1>3, <1>4, <1>5, <1>6, <1>7 DEF Next

\* The array of pairs is well formed, the pairs own the blocks, no two pairs
\* have the same canonical key and the caller's pointer is a value of a pair.
THEOREM InductiveInvariant == Spec => []IInv
BY IInvInit, IInvNext, PTL DEF Spec

-----------------------------------------------------------------------------
(* What follows *)

\* Handles, blocks, the caller's pointer and results have the types the code
\* gives them, whatever is added, set, looked up and deleted.
THEOREM TypeCorrect == Spec => []TypeOK
<1>1. ASSUME IInv PROVE TypeOK
  <2> DEFINE s == Contents(pairs)
  <2>1. Owned(s, heap)
    BY <1>1 DEF IInv
  <2>2. DOMAIN heap \subseteq Addr
    BY <2>1, OwnedAddresses
  <2>3. ASSUME NEW a \in DOMAIN heap PROVE heap[a] \in CanonKey \cup Val
    <3> HIDE DEF s
    <3>1. a \in KeysOf(s) \/ a \in ValuesOf(s)
      BY <2>1 DEF Owned
    <3>2. ASSUME a \in KeysOf(s) PROVE heap[a] \in CanonKey
      <4>1. PICK i \in 1 .. Len(s) : a = s[i].k
        BY <3>2 DEF KeysOf
      <4> QED
        BY <2>1, <4>1 DEF Owned
    <3>3. ASSUME a \in ValuesOf(s) PROVE heap[a] \in Val
      <4>1. PICK i \in 1 .. Len(s) : a = s[i].v
        BY <3>3 DEF ValuesOf
      <4> QED
        BY <2>1, <4>1 DEF Owned
    <3> QED
      BY <3>1, <3>2, <3>3
  <2> QED
    BY <1>1, <2>2, <2>3 DEF IInv, TypeOK
<1> QED
  BY <1>1, InductiveInvariant, PTL

\* The pairs as Ownership and its companions read them.
LEMMA PairFacts ==
    ASSUME IInv, NEW s, s = Contents(pairs)
    PROVE  /\ Len(s) \in Nat /\ Indices = 0 .. Len(s) - 1
           /\ \A i \in Indices :
                 /\ i + 1 \in 1 .. Len(s) /\ PairAt(i) = s[i + 1]
                 /\ KeyAt(i) = heap[s[i + 1].k] /\ ValueAt(i) = heap[s[i + 1].v]
           /\ \A i \in 1 .. Len(s) : i - 1 \in Indices /\ PairAt(i - 1) = s[i]
           /\ Keys = KeysOf(s) /\ Values = ValuesOf(s)
           /\ Owned(s, heap) /\ Unique(s, heap)
<1>1. /\ Len(s) \in Nat /\ Indices = 0 .. Len(s) - 1
      /\ \A i \in Indices : i + 1 \in 1 .. Len(s) /\ PairAt(i) = s[i + 1]
      /\ Owned(s, heap) /\ Unique(s, heap)
  BY PairsAre DEF IInv, Owned
<1>2. ASSUME NEW i \in Indices
      PROVE  KeyAt(i) = heap[s[i + 1].k] /\ ValueAt(i) = heap[s[i + 1].v]
  <2>1. s[i + 1].k \in DOMAIN heap /\ s[i + 1].v \in DOMAIN heap
    BY <1>1 DEF Owned, KeysOf, ValuesOf
  <2> QED
    BY <1>1, <2>1 DEF KeyAt, ValueAt, Read
<1>3. ASSUME NEW i \in 1 .. Len(s) PROVE i - 1 \in Indices /\ PairAt(i - 1) = s[i]
  <2>1. i - 1 \in Indices /\ (i - 1) + 1 = i
    BY <1>1
  <2> QED
    BY <1>1, <2>1
<1>4. Keys = KeysOf(s)
  BY <1>1, <1>3 DEF Keys, KeysOf
<1>5. Values = ValuesOf(s)
  BY <1>1, <1>3 DEF Values, ValuesOf
<1> QED
  BY <1>1, <1>2, <1>3, <1>4, <1>5

\* Every block belongs to one field of one pair and every field has its
\* block: no call leaks and none leaves a pointer to what it freed.
THEOREM OwnershipCorrect == Spec => []Ownership
<1>1. ASSUME IInv PROVE Ownership
  <2> DEFINE s == Contents(pairs)
  <2>1. s = Contents(pairs)
    OBVIOUS
  <2> HIDE DEF s
  <2>2. DOMAIN heap = Keys \cup Values /\ Keys \cap Values = {}
    BY <1>1, <2>1, PairFacts DEF Owned
  <2>3. ASSUME NEW i \in Indices PROVE KeyAt(i) \in CanonKey /\ ValueAt(i) \in Val
    <3>1. i + 1 \in 1 .. Len(s) /\ Owned(s, heap)
          /\ KeyAt(i) = heap[s[i + 1].k] /\ ValueAt(i) = heap[s[i + 1].v]
      BY <1>1, <2>1, PairFacts
    <3> QED
      BY <3>1 DEF Owned
  <2>4. ASSUME NEW i \in Indices, NEW j \in Indices,
               PairAt(i).k = PairAt(j).k \/ PairAt(i).v = PairAt(j).v
        PROVE  i = j
    <3>1. i + 1 \in 1 .. Len(s) /\ j + 1 \in 1 .. Len(s)
          /\ PairAt(i) = s[i + 1] /\ PairAt(j) = s[j + 1]
          /\ Len(s) \in Nat /\ i \in 0 .. Len(s) - 1 /\ j \in 0 .. Len(s) - 1
          /\ Owned(s, heap)
      BY <1>1, <2>1, PairFacts
    <3>2. i + 1 = j + 1
      BY <2>4, <3>1 DEF Owned
    <3> QED
      BY <3>1, <3>2
  <2> QED
    BY <2>2, <2>3, <2>4 DEF Ownership
<1> QED
  BY <1>1, InductiveInvariant, PTL

\* The pointer a caller keeps from kv_lookup stays the value of its key until
\* that key is set or deleted, or the dictionary freed.
THEOREM HeldValid == Spec => []HeldIsValid
<1>1. ASSUME IInv PROVE HeldIsValid
  <2> DEFINE s == Contents(pairs)
  <2>1. s = Contents(pairs)
    OBVIOUS
  <2> HIDE DEF s
  <2>2. ASSUME held # NULL
        PROVE  /\ held.addr \in DOMAIN heap
               /\ \E i \in Indices : /\ KeyText(KeyAt(i)) = held.text
                                     /\ PairAt(i).v = held.addr
    <3>1. HeldIn(held, s, heap)
      BY <1>1, <2>1 DEF IInv
    <3>2. PICK m \in 1 .. Len(s) :
                  s[m].v = held.addr /\ KeyText(heap[s[m].k]) = held.text
      BY <2>2, <3>1 DEF HeldIn
    <3>3. Owned(s, heap) /\ m - 1 \in Indices /\ (m - 1) + 1 = m
          /\ PairAt(m - 1) = s[m]
      BY <1>1, <2>1, PairFacts
    <3>4. KeyAt(m - 1) = heap[s[m].k]
      BY <1>1, <2>1, <3>3, PairFacts
    <3>5. held.addr \in DOMAIN heap
      BY <3>2, <3>3 DEF Owned, ValuesOf
    <3>6. KeyText(KeyAt(m - 1)) = held.text /\ PairAt(m - 1).v = held.addr
      BY <3>2, <3>3, <3>4
    <3> QED
      BY <3>3, <3>5, <3>6
  <2> QED
    BY <2>2 DEF HeldIsValid
<1> QED
  BY <1>1, InductiveInvariant, PTL

\* Without char * variables the canonical key is the key.
LEMMA PlainKeys ==
    ASSUME Pointer = {}, NEW key \in CanonKey
    PROVE  key = << "key", KeyText(key) >> /\ KeyText(key) \in Plain
<1>1. PICK arg \in Arg : key = Canon(arg)
  BY DEF CanonKey
<1>2. key = << "key", arg >> /\ Text(arg) = arg
  BY <1>1 DEF Canon, Text
<1>3. KeyText(key) = Text(arg) /\ Text(arg) \in Plain
  BY <1>1, CanonText
<1> QED
  BY <1>2, <1>3

\* With keys that are not char * variables the canonical key is the key, so
\* that a key has one pair at most.  The run kval_charptr shows what becomes
\* of it otherwise.
THEOREM KeysUnique ==
    ASSUME Pointer = {}
    PROVE  Spec => []UniqueKeys
<1>1. ASSUME NEW key \in CanonKey
      PROVE  key = << "key", KeyText(key) >>
  BY PlainKeys
<1>2. ASSUME IInv PROVE UniqueKeys
  <2> DEFINE s == Contents(pairs)
  <2>1. s = Contents(pairs)
    OBVIOUS
  <2> HIDE DEF s
  <2>2. ASSUME NEW i \in Indices, NEW j \in Indices,
               KeyText(KeyAt(i)) = KeyText(KeyAt(j))
        PROVE  i = j
    <3>1. i + 1 \in 1 .. Len(s) /\ j + 1 \in 1 .. Len(s)
          /\ Len(s) \in Nat /\ i \in 0 .. Len(s) - 1 /\ j \in 0 .. Len(s) - 1
          /\ Owned(s, heap) /\ Unique(s, heap)
          /\ KeyAt(i) = heap[s[i + 1].k] /\ KeyAt(j) = heap[s[j + 1].k]
      BY <1>2, <2>1, PairFacts
    <3>2. KeyAt(i) \in CanonKey /\ KeyAt(j) \in CanonKey
      BY <3>1 DEF Owned
    <3>3. KeyAt(i) = KeyAt(j)
      BY <1>1, <2>2, <3>2
    <3>4. i + 1 = j + 1
      BY <3>1, <3>3 DEF Unique
    <3> QED
      BY <3>1, <3>4
  <2> QED
    BY <2>2 DEF UniqueKeys
<1> QED
  BY <1>2, InductiveInvariant, PTL

-----------------------------------------------------------------------------
(* The order of the pairs *)

KeysIn(es) == [i \in 1 .. Len(es) |-> es[i].key]

\* The order that kv_foreach shows is that of the entries.
LEMMA OrderOf == IInv => KeyOrder = KeysIn(Listed)
<1> SUFFICES ASSUME IInv PROVE KeyOrder = KeysIn(Listed)
  OBVIOUS
<1> DEFINE s == Contents(pairs)
<1>1. s = Contents(pairs)
  OBVIOUS
<1> HIDE DEF s
<1>2. /\ Len(s) \in Nat /\ Owned(s, heap) /\ hda_size(pairs) = Len(s)
      /\ \A i \in 0 .. Len(s) - 1 : KeyAt(i) = heap[s[i + 1].k]
  <2>1. hda_size(pairs) = Len(s)
    BY <1>1, PairsAre DEF IInv
  <2> QED
    BY <1>1, <2>1, PairFacts
<1>3. /\ Len(Listed) = Len(s)
      /\ \A i \in 1 .. Len(s) : Listed[i].key = heap[s[i].k]
  BY <1>1, <1>2, EntriesOf DEF Listed
<1>4. ASSUME NEW i \in 1 .. Len(s) PROVE KeyAt(i - 1) = Listed[i].key
  <2>1. i - 1 \in 0 .. Len(s) - 1 /\ (i - 1) + 1 = i
    BY <1>2
  <2>2. KeyAt(i - 1) = heap[s[i].k]
    BY <1>2, <2>1
  <2> QED
    BY <1>3, <2>2
<1> QED
  BY <1>2, <1>3, <1>4 DEF KeyOrder, KeysIn

\* The keys of the list with an entry more.
LEMMA KeysAppended ==
    ASSUME NEW S, NEW es \in Seq(S), NEW e
    PROVE  KeysIn(Append(es, e)) = Append(KeysIn(es), e.key)
<1> DEFINE n == Len(es)
           f == Append(es, e)
<1>1. n \in Nat /\ Len(f) = n + 1 /\ f[n + 1] = e /\ \A i \in 1 .. n : f[i] = es[i]
  OBVIOUS
<1>2. KeysIn(es) = [i \in 1 .. n |-> es[i].key]
  BY DEF KeysIn
<1> HIDE DEF f
<1>3. KeysIn(f) = [i \in 1 .. n + 1 |-> f[i].key]
  BY <1>1 DEF KeysIn
<1>4. Append(KeysIn(es), e.key) =
        [i \in 1 .. n + 1 |-> IF i = n + 1 THEN e.key ELSE KeysIn(es)[i]]
  BY <1>1, <1>2
<1>5. ASSUME NEW i \in 1 .. n + 1
      PROVE  f[i].key = IF i = n + 1 THEN e.key ELSE KeysIn(es)[i]
  <2>1. CASE i \in 1 .. n
    BY <1>1, <1>2, <2>1
  <2>2. CASE i \notin 1 .. n
    BY <1>1, <2>2
  <2> QED
    BY <2>1, <2>2
<1> QED
  BY <1>3, <1>4, <1>5 DEF f

\* The keys of the list with an entry less.
LEMMA KeysWithout ==
    ASSUME NEW S, NEW es \in Seq(S), NEW i \in 1 .. Len(es)
    PROVE  KeysIn(Without(es, i)) = Without(KeysIn(es), i)
<1> DEFINE n == Len(es)
           K == {es[m].key : m \in 1 .. n}
           w == Without(es, i)
           ks == KeysIn(es)
           r == Without(ks, i)
<1>1. n \in Nat /\ ks = [m \in 1 .. n |-> es[m].key] /\ ks \in Seq(K) /\ Len(ks) = n
  BY DEF KeysIn
<1> HIDE DEF ks, K
<1>2. /\ w \in Seq(S) /\ Len(w) = n - 1
      /\ \A j \in 1 .. n - 1 : w[j] = IF j < i THEN es[j] ELSE es[j + 1]
  BY WithoutElements DEF n, w
<1>3. /\ r \in Seq(K) /\ Len(r) = n - 1
      /\ \A j \in 1 .. n - 1 : r[j] = IF j < i THEN ks[j] ELSE ks[j + 1]
  <2>1. i \in 1 .. Len(ks)
    BY <1>1
  <2> HIDE DEF r, n
  <2>2. LET x == Without(ks, i)
        IN  /\ x \in Seq(K) /\ Len(x) = Len(ks) - 1
            /\ \A j \in 1 .. Len(ks) - 1 : x[j] = IF j < i THEN ks[j] ELSE ks[j + 1]
    BY <1>1, <2>1, WithoutElements
  <2> QED
    BY <1>1, <2>2 DEF r
<1> HIDE DEF w, r
<1>4. KeysIn(w) = [j \in 1 .. n - 1 |-> w[j].key]
  BY <1>2 DEF KeysIn
<1>5. r = [j \in 1 .. n - 1 |-> r[j]]
  BY <1>1, <1>3
<1>6. ASSUME NEW j \in 1 .. n - 1 PROVE w[j].key = r[j]
  <2>1. CASE j < i
    <3>1. j \in 1 .. n
      BY <1>1
    <3> QED
      BY <1>1, <1>2, <1>3, <2>1, <3>1
  <2>2. CASE ~(j < i)
    <3>1. j + 1 \in 1 .. n
      BY <1>1
    <3> QED
      BY <1>1, <1>2, <1>3, <2>2, <3>1
  <2> QED
    BY <2>1, <2>2
<1>7. KeysIn(w) = r
  BY <1>4, <1>5, <1>6
<1> QED
  BY <1>7 DEF w, r, ks

\* The list of entries and what is in it.
LEMMA ListedFacts ==
    IInv => /\ Listed \in Seq([key : CanonKey, val : Val])
            /\ Len(Listed) \in Nat
            /\ \A i, j \in 1 .. Len(Listed) : Listed[i].key = Listed[j].key => i = j
<1> SUFFICES ASSUME IInv
             PROVE  /\ Listed \in Seq([key : CanonKey, val : Val])
                    /\ Len(Listed) \in Nat
                    /\ \A i, j \in 1 .. Len(Listed) :
                          Listed[i].key = Listed[j].key => i = j
  OBVIOUS
<1> DEFINE s == Contents(pairs)
<1>1. Owned(s, heap) /\ Unique(s, heap) /\ Listed = Entries(s, heap)
  BY DEF IInv, Listed
<1> HIDE DEF s
<1>2. /\ Listed \in Seq([key : CanonKey, val : Val])
      /\ Len(Listed) = Len(s) /\ Len(s) \in Nat
      /\ \A i \in 1 .. Len(s) : Listed[i].key = heap[s[i].k]
  BY <1>1, EntriesOf
<1> QED
  BY <1>1, <1>2 DEF Unique

\* A call leaves the order alone, or puts one key last, or takes one out, or
\* both, or frees everything: also with keys that are char * variables.
THEOREM OrderIsKept == Spec => OrderKept
<1> DEFINE OrderIs == KeyOrder = KeysIn(Listed)
<1>1. ASSUME IInv, OrderIs, OrderIs', Next PROVE OrderStep
  <2> DEFINE S == [key : CanonKey, val : Val]
  <2>1. Listed \in Seq(S) /\ Len(Listed) \in Nat
    BY <1>1, ListedFacts
  <2> HIDE DEF S
  <2>2. DOMAIN KeyOrder = 1 .. Len(Listed) /\ \A i \in DOMAIN KeyOrder : KeyOrder[i] = Listed[i].key
    BY <1>1 DEF KeysIn
  <2>3. CASE Listed' = Listed
    BY <1>1, <2>3 DEF OrderStep
  <2>4. ASSUME NEW arg \in Arg, NEW val, Listed' = Append(Listed, Entry(Canon(arg), val))
        PROVE  OrderStep
    <3>1. KeyOrder' = Append(KeyOrder, Canon(arg))
      BY <1>1, <2>1, <2>4, KeysAppended DEF Entry
    <3> QED
      BY <3>1, CanonText DEF OrderStep
  <2>5. ASSUME NEW i, NEW key, KeyIs(Listed, i, key), Listed' = Without(Listed, i)
        PROVE  OrderStep
    <3>1. i \in 1 .. Len(Listed)
      BY <2>5 DEF KeyIs
    <3>2. KeyOrder' = Without(KeyOrder, i)
      BY <1>1, <2>1, <2>5, <3>1, KeysWithout
    <3> QED
      BY <2>2, <3>1, <3>2 DEF OrderStep
  <2>6. ASSUME NEW i, NEW key, NEW val, KeyIs(Listed, i, key),
               Listed' = Append(Without(Listed, i), Entry(key, val))
        PROVE  OrderStep
    <3>1. i \in 1 .. Len(Listed) /\ KeyOrder[i] = key
      BY <2>2, <2>6 DEF KeyIs
    <3>2. Without(Listed, i) \in Seq(S)
      BY <2>1, <3>1, WithoutElements
    <3>3. KeysIn(Without(Listed, i)) = Without(KeyOrder, i)
      BY <1>1, <2>1, <3>1, KeysWithout
    <3>4. KeyOrder' = Append(Without(KeyOrder, i), key)
      <4> DEFINE w == Without(Listed, i)
                 e == Entry(key, val)
      <4>1. e.key = key
        BY DEF Entry
      <4> HIDE DEF w, e
      <4>2. KeysIn(Append(w, e)) = Append(KeysIn(w), e.key)
        BY <3>2, KeysAppended DEF w
      <4> QED
        BY <1>1, <2>6, <3>3, <4>1, <4>2 DEF w, e
    <3> QED
      BY <2>2, <3>1, <3>4 DEF OrderStep
  <2>7. CASE kv_create
    BY <1>1, <2>3, <2>7, CreateKeeps
  <2>8. ASSUME NEW arg \in Arg, NEW val \in Val, kv_add(arg, val) PROVE OrderStep
    BY <1>1, <2>3, <2>4, <2>8, AddExistingKeeps, AddNewKeeps DEF kv_add
  <2>9. ASSUME NEW arg \in Arg, NEW val \in Val, kv_set(arg, val) PROVE OrderStep
    BY <1>1, <2>4, <2>6, <2>9, SetExistingKeeps, AddNewKeeps DEF kv_set
  <2>10. ASSUME NEW arg \in Arg, kv_lookup(arg) PROVE OrderStep
    BY <1>1, <2>3, <2>10, LookupKeeps
  <2>11. ASSUME NEW arg \in Arg, kv_delete(arg) PROVE OrderStep
    BY <1>1, <2>3, <2>5, <2>11, DeleteKeeps
  <2>12. CASE kv_free
    <3>1. KeyOrder' = << >> /\ ~open'
      BY <1>1, <2>12, FreeKeeps DEF KeysIn
    <3> QED
      BY <3>1 DEF OrderStep
  <2> QED
    BY <1>1, <2>7, <2>8, <2>9, <2>10, <2>11, <2>12 DEF Next
<1>2. IInv /\ OrderIs /\ OrderIs' /\ [Next]_vars => [OrderStep]_vars
  BY <1>1
<1>3. IInv => OrderIs
  BY OrderOf
<1> HIDE DEF OrderIs
<1> QED
  BY <1>2, <1>3, InductiveInvariant, PTL DEF Spec, OrderKept

-----------------------------------------------------------------------------
(* The pairs are a dictionary *)

Pairs == [key : CanonKey, val : Val]
KeyOf(t) == << "key", t >>
Dict == [t \in Plain |-> ValueOf(t)]

\* A list of pairs with one pair at most for a key.
Keyed(es) ==
    /\ es \in Seq(Pairs)
    /\ \A i, j \in 1 .. Len(es) : es[i].key = es[j].key => i = j

\* The list of pairs stands for the dictionary d.
Means(es, d) ==
    /\ d = [t \in Plain |-> d[t]]
    /\ \A t \in Plain :
          \/ NoKey(es, KeyOf(t)) /\ d[t] = NULL
          \/ \E i : KeyIs(es, i, KeyOf(t)) /\ d[t] = es[i].val

\* A list stands for one dictionary.
LEMMA MeansOne ==
    ASSUME NEW es, Keyed(es), NEW d, Means(es, d), NEW e, Means(es, e)
    PROVE  d = e
<1>1. ASSUME NEW t \in Plain PROVE d[t] = e[t]
  <2>1. CASE NoKey(es, KeyOf(t))
    BY <2>1 DEF Means, NoKey, KeyIs
  <2>2. CASE ~NoKey(es, KeyOf(t))
    <3>1. PICK i : KeyIs(es, i, KeyOf(t)) /\ d[t] = es[i].val
      BY <2>2 DEF Means
    <3>2. PICK j : KeyIs(es, j, KeyOf(t)) /\ e[t] = es[j].val
      BY <2>2 DEF Means
    <3>3. i = j
      BY <3>1, <3>2 DEF Keyed, KeyIs
    <3> QED
      BY <3>1, <3>2, <3>3
  <2> QED
    BY <2>1, <2>2
<1>2. d = [t \in Plain |-> d[t]] /\ e = [t \in Plain |-> e[t]]
  BY DEF Means
<1> QED
  BY <1>1, <1>2

\* A pair with a new key at the end.
LEMMA MeansAppend ==
    ASSUME NEW es, Keyed(es), NEW d, Means(es, d), NEW t \in Plain, NEW val,
           NoKey(es, KeyOf(t))
    PROVE  /\ d[t] = NULL
           /\ Means(Append(es, Entry(KeyOf(t), val)), [d EXCEPT ![t] = val])
<1> DEFINE n == Len(es)
           e == Entry(KeyOf(t), val)
           fs == Append(es, e)
           f == [d EXCEPT ![t] = val]
<1>1. es \in Seq(Pairs) /\ n \in Nat
  BY DEF Keyed
<1>2. e.key = KeyOf(t) /\ e.val = val
  BY DEF Entry
<1>3. d = [u \in Plain |-> d[u]] /\ d[t] = NULL
  BY DEF Means, NoKey, KeyIs
<1> HIDE DEF e
<1>4. Len(fs) = n + 1 /\ fs[n + 1] = e /\ \A i \in 1 .. n : fs[i] = es[i]
  BY <1>1
<1>5. f = [u \in Plain |-> f[u]] /\ f[t] = val /\ \A u \in Plain \ {t} : f[u] = d[u]
  BY <1>3
<1> HIDE DEF fs, f
<1>6. ASSUME NEW u \in Plain
      PROVE  \/ NoKey(fs, KeyOf(u)) /\ f[u] = NULL
             \/ \E i : KeyIs(fs, i, KeyOf(u)) /\ f[u] = fs[i].val
  <2>1. CASE u = t
    <3>1. KeyIs(fs, n + 1, KeyOf(u)) /\ f[u] = fs[n + 1].val
      BY <1>1, <1>2, <1>4, <1>5, <2>1 DEF KeyIs
    <3> QED
      BY <3>1
  <2>2. ASSUME u # t, NoKey(es, KeyOf(u)), d[u] = NULL
        PROVE  NoKey(fs, KeyOf(u)) /\ f[u] = NULL
    <3>1. KeyOf(u) # KeyOf(t)
      BY <2>2 DEF KeyOf
    <3> QED
      BY <1>1, <1>2, <1>4, <1>5, <2>2, <3>1 DEF NoKey
  <2>3. ASSUME u # t, NEW i, KeyIs(es, i, KeyOf(u)), d[u] = es[i].val
        PROVE  KeyIs(fs, i, KeyOf(u)) /\ f[u] = fs[i].val
    BY <1>1, <1>4, <1>5, <2>3 DEF KeyIs
  <2> QED
    BY <2>1, <2>2, <2>3 DEF Means
<1> QED
  BY <1>3, <1>5, <1>6 DEF Means, fs, f, e

\* A pair less.
LEMMA MeansWithout ==
    ASSUME NEW es, Keyed(es), NEW d, Means(es, d), NEW t \in Plain,
           NEW i, KeyIs(es, i, KeyOf(t))
    PROVE  /\ Keyed(Without(es, i)) /\ NoKey(Without(es, i), KeyOf(t))
           /\ d[t] = es[i].val
           /\ Means(Without(es, i), [d EXCEPT ![t] = NULL])
<1> DEFINE n == Len(es)
           w == Without(es, i)
           f == [d EXCEPT ![t] = NULL]
<1>1. es \in Seq(Pairs) /\ n \in Nat /\ i \in 1 .. n /\ es[i].key = KeyOf(t)
      /\ \A a, b \in 1 .. n : es[a].key = es[b].key => a = b
  BY DEF Keyed, KeyIs
<1>2. /\ w \in Seq(Pairs) /\ Len(w) = n - 1
      /\ \A j \in 1 .. n - 1 : w[j] = IF j < i THEN es[j] ELSE es[j + 1]
  BY <1>1, WithoutElements
<1>3. d = [u \in Plain |-> d[u]] /\ d[t] = es[i].val
  BY <1>1 DEF Means, NoKey, KeyIs
<1>4. f = [u \in Plain |-> f[u]] /\ f[t] = NULL /\ \A u \in Plain \ {t} : f[u] = d[u]
  BY <1>3
<1> HIDE DEF w, f
<1> DEFINE Old(j) == IF j < i THEN j ELSE j + 1
           New(m) == IF m < i THEN m ELSE m - 1
<1>5. \A j \in 1 .. n - 1 : Old(j) \in 1 .. n /\ Old(j) # i /\ w[j] = es[Old(j)]
  BY <1>1, <1>2
<1>6. \A j, k \in 1 .. n - 1 : Old(j) = Old(k) => j = k
  BY <1>1
<1>7. \A m \in 1 .. n : m # i => New(m) \in 1 .. n - 1 /\ Old(New(m)) = m
  BY <1>1
<1> HIDE DEF Old, New
<1>8. Keyed(w)
  BY <1>1, <1>2, <1>5, <1>6 DEF Keyed
<1>9. NoKey(w, KeyOf(t))
  BY <1>1, <1>2, <1>5 DEF NoKey
<1>10. ASSUME NEW u \in Plain
       PROVE  \/ NoKey(w, KeyOf(u)) /\ f[u] = NULL
              \/ \E j : KeyIs(w, j, KeyOf(u)) /\ f[u] = w[j].val
  <2>1. CASE u = t
    BY <1>4, <1>9, <2>1
  <2>2. ASSUME u # t, NoKey(es, KeyOf(u)), d[u] = NULL
        PROVE  NoKey(w, KeyOf(u)) /\ f[u] = NULL
    BY <1>2, <1>4, <1>5, <2>2 DEF NoKey
  <2>3. ASSUME u # t, NEW m, KeyIs(es, m, KeyOf(u)), d[u] = es[m].val
        PROVE  KeyIs(w, New(m), KeyOf(u)) /\ f[u] = w[New(m)].val
    <3>1. m \in 1 .. n /\ es[m].key = KeyOf(u)
      BY <2>3 DEF KeyIs
    <3>2. m # i
      BY <1>1, <2>3, <3>1 DEF KeyOf
    <3>3. New(m) \in 1 .. n - 1 /\ w[New(m)] = es[m]
      BY <1>5, <1>7, <3>1, <3>2
    <3> QED
      BY <1>2, <1>4, <2>3, <3>1, <3>3 DEF KeyIs
  <2> QED
    BY <2>1, <2>2, <2>3 DEF Means
<1> QED
  BY <1>3, <1>4, <1>8, <1>9, <1>10 DEF Means, w, f

\* The pairs stand for the dictionary that ValueOf reads off them.
LEMMA PairsAreDict ==
    ASSUME Pointer = {}, IInv
    PROVE  Keyed(Listed) /\ Means(Listed, Dict)
<1> DEFINE s == Contents(pairs)
<1>1. s = Contents(pairs)
  OBVIOUS
<1> HIDE DEF s
<1>2. /\ Len(s) \in Nat /\ Owned(s, heap) /\ Unique(s, heap)
      /\ \A i \in 1 .. Len(s) : i - 1 \in Indices
      /\ \A i \in Indices : i + 1 \in 1 .. Len(s)
      /\ \A i \in Indices : KeyAt(i) = heap[s[i + 1].k] /\ ValueAt(i) = heap[s[i + 1].v]
  BY <1>1, PairFacts
<1>3. /\ Len(Listed) = Len(s) /\ Listed \in Seq(Pairs)
      /\ \A i \in 1 .. Len(s) : /\ Listed[i].key = heap[s[i].k]
                                /\ Listed[i].val = heap[s[i].v]
  <2>1. Listed = Entries(s, heap)
    BY <1>1 DEF Listed
  <2>2. /\ Len(Listed) = Len(s)
        /\ \A i \in 1 .. Len(s) : /\ Listed[i].key = heap[s[i].k]
                                  /\ Listed[i].val = heap[s[i].v]
    BY <1>2, <2>1, EntriesOf
  <2>3. Listed \in Seq(Pairs)
    BY ListedFacts DEF Pairs
  <2> QED
    BY <2>2, <2>3
<1>4. Keyed(Listed)
  BY <1>2, <1>3 DEF Keyed, Unique
<1>5. /\ Indices = 0 .. Len(s) - 1
      /\ \A i \in Indices : KeyAt(i) = Listed[i + 1].key /\ ValueAt(i) = Listed[i + 1].val
  BY <1>1, <1>2, <1>3, PairFacts
<1>6. ASSUME NEW i \in Indices, NEW t \in Plain
      PROVE  KeyText(KeyAt(i)) = t <=> KeyIs(Listed, i + 1, KeyOf(t))
  <2>1. i + 1 \in 1 .. Len(Listed) /\ KeyAt(i) = Listed[i + 1].key
    BY <1>2, <1>3, <1>5
  <2>2. KeyAt(i) \in CanonKey
    BY <1>2 DEF Owned
  <2>3. KeyAt(i) = KeyOf(KeyText(KeyAt(i)))
    BY <2>2, PlainKeys DEF KeyOf
  <2>4. KeyText(KeyAt(i)) = t <=> KeyAt(i) = KeyOf(t)
    BY <2>3 DEF KeyOf
  <2> QED
    BY <2>1, <2>4 DEF KeyIs
<1>7. ASSUME NEW t \in Plain
      PROVE  \/ NoKey(Listed, KeyOf(t)) /\ ValueOf(t) = NULL
             \/ \E i : KeyIs(Listed, i, KeyOf(t)) /\ ValueOf(t) = Listed[i].val
  <2>1. CASE \E i \in Indices : KeyText(KeyAt(i)) = t
    <3> DEFINE i == CHOOSE i \in Indices : KeyText(KeyAt(i)) = t
    <3>1. i \in Indices /\ KeyText(KeyAt(i)) = t
      BY <2>1
    <3>2. ValueOf(t) = ValueAt(i)
      BY <2>1 DEF ValueOf
    <3> HIDE DEF i
    <3>3. KeyIs(Listed, i + 1, KeyOf(t)) /\ ValueOf(t) = Listed[i + 1].val
      BY <1>5, <1>6, <3>1, <3>2
    <3> QED
      BY <3>3
  <2>2. CASE ~\E i \in Indices : KeyText(KeyAt(i)) = t
    <3>1. ValueOf(t) = NULL
      BY <2>2 DEF ValueOf
    <3>2. ASSUME NEW i \in 1 .. Len(Listed) PROVE Listed[i].key # KeyOf(t)
      <4>1. i - 1 \in Indices /\ (i - 1) + 1 = i
        BY <1>2, <1>3
      <4> QED
        BY <1>6, <2>2, <3>2, <4>1 DEF KeyIs
    <3> QED
      BY <3>1, <3>2 DEF NoKey
  <2> QED
    BY <2>1, <2>2
<1>8. Dict = [t \in Plain |-> Dict[t]] /\ \A t \in Plain : Dict[t] = ValueOf(t)
  BY DEF Dict
<1> QED
  BY <1>4, <1>7, <1>8 DEF Means

\* With keys that are not char * variables every call is one of a dictionary:
\* it returns what the dictionary returns and stores what it stores.
THEOREM KvalImplementsMap ==
    ASSUME Pointer = {}
    PROVE  Spec => RefinesAbsMap
<1> DEFINE Stands == Keyed(Listed) /\ Means(Listed, Dict)
<1>1. ASSUME Init PROVE Abs!Init
  <2>1. Keyed(Listed) /\ Means(Listed, Dict) /\ Listed = << >> /\ ret = 0
    BY <1>1, IInvInit, PairsAreDict DEF Init
  <2>2. \A t \in Plain : Dict[t] = NULL
    BY <2>1 DEF Means, KeyIs
  <2>3. Dict = [t \in Plain |-> NULL]
    BY <2>2 DEF Dict
  <2> QED
    BY <2>1, <2>3 DEF Abs!Init, Abs!Empty, Dict
<1>2. ASSUME IInv, IInv', Stands, Stands', [Next]_vars PROVE [Abs!Next]_(Abs!vars)
  <2>1. /\ Keyed(Listed) /\ Means(Listed, Dict)
        /\ Keyed(Listed') /\ Means(Listed', Dict')
    BY <1>2 DEF Keyed, Means, NoKey, KeyIs
  <2>2. Dict = [t \in Plain |-> Dict[t]]
    BY <2>1 DEF Means
  <2>3. ASSUME NEW arg \in Arg
        PROVE  arg \in Plain /\ Canon(arg) = KeyOf(arg)
    BY <2>3 DEF Arg, Canon, KeyOf
  <2>4. ASSUME Listed' = Listed PROVE Dict' = Dict
    BY <2>1, <2>4, MeansOne
  <2>5. ASSUME NEW t \in Plain, NoKey(Listed, KeyOf(t))
        PROVE  Dict[t] = NULL
    BY <2>1, <2>5 DEF Means, NoKey, KeyIs
  <2>6. ASSUME NEW t \in Plain, NEW i, KeyIs(Listed, i, KeyOf(t))
        PROVE  Dict[t] = Listed[i].val /\ Dict[t] # NULL
    <3>1. Dict[t] = Listed[i].val
      BY <2>1, <2>6 DEF Means, Keyed, NoKey, KeyIs
    <3>2. Listed[i] \in Pairs
      BY <2>1, <2>6 DEF Keyed, KeyIs
    <3>3. Listed[i].val \in Val
      BY <3>2 DEF Pairs
    <3> QED
      BY <3>1, <3>3, KeysAssumption
  <2>7. ASSUME NEW t \in Plain, NEW val, NoKey(Listed, KeyOf(t)),
               Listed' = Append(Listed, Entry(KeyOf(t), val))
        PROVE  Dict' = [Dict EXCEPT ![t] = val]
    <3>1. Means(Listed', [Dict EXCEPT ![t] = val])
      BY <2>1, <2>7, MeansAppend
    <3> QED
      BY <2>1, <3>1, MeansOne
  <2>8. ASSUME NEW t \in Plain, NEW i, KeyIs(Listed, i, KeyOf(t)),
               Listed' = Without(Listed, i)
        PROVE  Dict' = [Dict EXCEPT ![t] = NULL]
    <3>1. Means(Listed', [Dict EXCEPT ![t] = NULL])
      BY <2>1, <2>8, MeansWithout
    <3> QED
      BY <2>1, <3>1, MeansOne
  <2>9. ASSUME NEW t \in Plain, NEW val, NEW i, KeyIs(Listed, i, KeyOf(t)),
               Listed' = Append(Without(Listed, i), Entry(KeyOf(t), val))
        PROVE  Dict' = [Dict EXCEPT ![t] = val]
    <3> DEFINE w == Without(Listed, i)
               e == [Dict EXCEPT ![t] = NULL]
    <3>1. Keyed(w) /\ NoKey(w, KeyOf(t)) /\ Means(w, e)
      BY <2>1, <2>9, MeansWithout
    <3>2. [e EXCEPT ![t] = val] = [Dict EXCEPT ![t] = val]
      BY <2>2
    <3> HIDE DEF e
    <3>3. Means(Listed', [e EXCEPT ![t] = val])
      BY <2>9, <3>1, MeansAppend
    <3> QED
      BY <2>1, <3>2, <3>3, MeansOne
  <2>10. ASSUME Listed' = << >> PROVE Dict' = [t \in Plain |-> NULL]
    <3>1. \A t \in Plain : Dict'[t] = NULL
      BY <2>1, <2>10 DEF Means, KeyIs
    <3> QED
      BY <2>1, <3>1 DEF Means
  <2>11. CASE kv_create
    <3>1. Dict' = Abs!Empty /\ ret' = 0
      BY <1>2, <2>10, <2>11, CreateKeeps DEF Abs!Empty
    <3> QED
      BY <3>1 DEF Abs!Next, Abs!Clear, Dict
  <2>12. ASSUME NEW arg \in Arg, NEW val \in Val, open, AddExisting(arg)
         PROVE  Abs!Add(arg, val)
    <3>1. Dict' = Dict /\ ret' = -1 /\ Dict[arg] # NULL
      BY <1>2, <2>3, <2>4, <2>6, <2>12, AddExistingKeeps
    <3> QED
      BY <3>1 DEF Abs!Add, Dict
  <2>13. ASSUME NEW arg \in Arg, NEW val \in Val, open, AddNew(arg, val)
         PROVE  Abs!Add(arg, val) /\ Abs!Set(arg, val)
    <3>1. Dict' = [Dict EXCEPT ![arg] = val] /\ ret' = 0 /\ Dict[arg] = NULL
      BY <1>2, <2>3, <2>5, <2>7, <2>13, AddNewKeeps
    <3> QED
      BY <3>1 DEF Abs!Add, Abs!Set, Dict
  <2>14. ASSUME NEW arg \in Arg, NEW val \in Val, open, SetExisting(arg, val)
         PROVE  Abs!Set(arg, val)
    <3>1. Dict' = [Dict EXCEPT ![arg] = val] /\ ret' = 0
      BY <1>2, <2>3, <2>9, <2>14, SetExistingKeeps
    <3> QED
      BY <3>1 DEF Abs!Set, Dict
  <2>15. ASSUME NEW arg \in Arg, kv_lookup(arg) PROVE Abs!Lookup(arg)
    <3>1. Dict' = Dict /\ ret' = Dict[arg]
      BY <1>2, <2>3, <2>4, <2>5, <2>6, <2>15, LookupKeeps
    <3> QED
      BY <3>1 DEF Abs!Lookup, Dict
  <2>16. ASSUME NEW arg \in Arg, kv_delete(arg) PROVE Abs!Delete(arg)
    <3>1. ret' = 0 /\ \/ NoKey(Listed, KeyOf(arg)) /\ Listed' = Listed
                      \/ \E i : /\ KeyIs(Listed, i, KeyOf(arg))
                                /\ Listed' = Without(Listed, i)
      BY <1>2, <2>3, <2>16, DeleteKeeps
    <3>2. Dict' = [Dict EXCEPT ![arg] = NULL]
      <4>1. CASE NoKey(Listed, KeyOf(arg)) /\ Listed' = Listed
        <5>1. Dict' = Dict /\ Dict[arg] = NULL
          BY <2>3, <2>4, <2>5, <4>1
        <5> QED
          BY <2>2, <5>1
      <4>2. CASE \E i : KeyIs(Listed, i, KeyOf(arg)) /\ Listed' = Without(Listed, i)
        BY <2>3, <2>8, <4>2
      <4> QED
        BY <3>1, <4>1, <4>2
    <3> QED
      BY <3>1, <3>2 DEF Abs!Delete, Dict
  <2>17. CASE kv_free
    <3>1. Dict' = Abs!Empty /\ ret' = 0
      BY <1>2, <2>10, <2>17, FreeKeeps DEF Abs!Empty
    <3> QED
      BY <3>1 DEF Abs!Next, Abs!Clear, Dict
  <2>18. CASE UNCHANGED vars
    <3>1. Listed' = Listed /\ ret' = ret
      BY <2>18 DEF vars, Listed, Contents, Entries, Entry
    <3>2. Dict' = Dict
      BY <2>4, <3>1
    <3> QED
      BY <3>1, <3>2 DEF Abs!vars, Dict
  <2>19. ASSUME NEW arg \in Arg, NEW val \in Val, kv_add(arg, val) \/ kv_set(arg, val)
         PROVE  Abs!Next
    <3>1. Abs!Add(arg, val) \/ Abs!Set(arg, val)
      BY <2>12, <2>13, <2>14, <2>19 DEF kv_add, kv_set
    <3> QED
      BY <2>3, <3>1 DEF Abs!Next
  <2>20. ASSUME NEW arg \in Arg, kv_lookup(arg) \/ kv_delete(arg) PROVE Abs!Next
    BY <2>3, <2>15, <2>16, <2>20 DEF Abs!Next
  <2> QED
    BY <1>2, <2>11, <2>17, <2>18, <2>19, <2>20 DEF Next
<1>3. IInv => Stands
  BY PairsAreDict
<1> HIDE DEF Stands
<1>4. IInv /\ IInv' /\ Stands /\ Stands' /\ [Next]_vars => [Abs!Next]_(Abs!vars)
  BY <1>2
<1>5. Init => Abs!Init
  BY <1>1
<1> QED
  BY <1>3, <1>4, <1>5, InductiveInvariant, PTL DEF Spec, Abs!Spec, RefinesAbsMap
=============================================================================
