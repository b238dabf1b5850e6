---------------------------- MODULE UnityProofs ----------------------------
(***************************************************************************)
(* Proofs about Unity.  Of its assertions (UnityAsserts), for every width  *)
(* of char and UNITY_INT and every range of float: that each fails exactly *)
(* when what it says does not hold, and that the numbers it prints are     *)
(* those it compared.  Of its runner (UnityFixture), for every suite of    *)
(* tests, every command line, every bound on the steps of a test and every *)
(* UNITY_MAX_POINTERS: that tests are counted by their first verdict and   *)
(* that pointers are restored.                                             *)
(***************************************************************************)
EXTENDS UnityRun, TLAPS, SequenceTheorems, WellFoundedInduction

-----------------------------------------------------------------------------
(* Numbers                                                                  *)

\* Every set of naturals has a least element.
LEMMA LeastNumber ==
    ASSUME NEW T \in SUBSET Nat, T # {}
    PROVE  \E m \in T : \A n \in T : m =< n
<1> DEFINE R == {ss \in Nat \X Nat : ss[1] < ss[2]}
<1>1. OpToRel(<, Nat) = R
  BY DEF OpToRel
<1>2. IsWellFoundedOn(R, Nat)
  BY <1>1, NatLessThanWellFounded
<1> HIDE DEF R
<1>3. PICK m \in T : \A n \in T : ~(<< n, m >> \in R)
  BY <1>2, WFMin
<1>4. ASSUME NEW n \in T PROVE m =< n
  <2>1. ~(n < m)
    <3>1. << n, m >> \in Nat \X Nat
      OBVIOUS
    <3>2. n < m => << n, m >> \in R
      BY <3>1 DEF R
    <3> QED
      BY <1>3, <3>2
  <2> QED
    BY <2>1
<1> QED
  BY <1>4

\* Induction over the naturals, for a set in place of a predicate.
LEMMA Induction ==
    ASSUME NEW S, 0 \in S, \A n \in Nat : n \in S => n + 1 \in S
    PROVE  \A n \in Nat : n \in S
<1> DEFINE T == {n \in Nat : n \notin S}
<1>1. SUFFICES ASSUME T # {} PROVE FALSE
  OBVIOUS
<1>2. T \in SUBSET Nat
  OBVIOUS
<1>3. PICK m \in T : \A n \in T : m =< n
  BY <1>1, <1>2, LeastNumber
<1>4. m \in Nat /\ m # 0 /\ m \notin S
  BY <1>3
<1>5. m - 1 \in Nat /\ (m - 1) + 1 = m
  BY <1>4
<1>6. m - 1 \in T
  BY <1>4, <1>5
<1> QED
  BY <1>3, <1>5, <1>6

LEMMA MaxOfTwo ==
    ASSUME NEW x \in Int, NEW y \in Int
    PROVE  Max({x, y}) = IF x >= y THEN x ELSE y
<1> DEFINE T(m) == m \in {x, y} /\ \A n \in {x, y} : m >= n
           t == IF x >= y THEN x ELSE y
<1>1. T(t) /\ \A m : T(m) => m = t
  OBVIOUS
<1>2. Max({x, y}) = CHOOSE m \in {x, y} : \A n \in {x, y} : m >= n
  BY DEF Max
<1>3. Max({x, y}) = CHOOSE m : T(m)
  BY <1>2
<1> HIDE DEF T, t
<1>4. T(CHOOSE m : T(m))
  BY <1>1
<1>5. Max({x, y}) = t
  BY <1>1, <1>3, <1>4
<1> QED
  BY <1>5 DEF t

LEMMA MinOfTwo ==
    ASSUME NEW x \in Int, NEW y \in Int
    PROVE  Min({x, y}) = IF x =< y THEN x ELSE y
<1> DEFINE T(m) == m \in {x, y} /\ \A n \in {x, y} : m =< n
           t == IF x =< y THEN x ELSE y
<1>1. T(t) /\ \A m : T(m) => m = t
  OBVIOUS
<1>2. Min({x, y}) = CHOOSE m \in {x, y} : \A n \in {x, y} : m =< n
  BY DEF Min
<1>3. Min({x, y}) = CHOOSE m : T(m)
  BY <1>2
<1> HIDE DEF T, t
<1>4. T(CHOOSE m : T(m))
  BY <1>1
<1>5. Min({x, y}) = t
  BY <1>1, <1>3, <1>4
<1> QED
  BY <1>5 DEF t

LEMMA MinOfNumbers ==
    ASSUME NEW T \in SUBSET Nat, T # {}
    PROVE  Min(T) \in T /\ \A n \in T : Min(T) =< n
<1>1. \E m \in T : \A n \in T : m =< n
  BY LeastNumber
<1>2. Min(T) = CHOOSE m \in T : \A n \in T : m =< n
  BY DEF Min
<1> QED
  BY <1>1, <1>2

\* Division leaves a quotient and a remainder.
LEMMA Parts ==
    ASSUME NEW M \in Nat \ {0}, NEW x \in Int
    PROVE  \E k \in Int, s \in 0 .. M - 1 : x = M * k + s /\ x % M = s /\ x \div M = k
<1> DEFINE k == x \div M
           t == x % M
<1>1. k \in Int /\ t \in 0 .. M - 1 /\ t = x - M * k
  OBVIOUS
<1>2. M * k \in Int /\ x % M = t /\ x \div M = k
  BY <1>1
<1> HIDE DEF k, t
<1>3. x = M * k + t
  BY <1>1, <1>2
<1> QED
  BY <1>1, <1>2, <1>3

\* A function on an interval that is given at 0 and step by step.
Recurses(f, S, a, g, n) ==
    f \in [0 .. n -> S] /\ f[0] = a /\ \A i \in 1 .. n : f[i] = g[i][f[i - 1]]

LEMMA RecursionExists ==
    ASSUME NEW S, NEW a \in S, NEW g \in [Nat -> [S -> S]], NEW n \in Nat
    PROVE  \E f : Recurses(f, S, a, g, n)
<1> DEFINE Is(f, m) == Recurses(f, S, a, g, m)
           T == {m \in Nat : \E f : Is(f, m)}
<1>1. 0 \in T
  <2>1. Is([i \in 0 .. 0 |-> a], 0)
    BY DEF Recurses
  <2> QED
    BY <2>1
<1>2. ASSUME NEW m \in Nat, m \in T PROVE m + 1 \in T
  <2>1. PICK f : Is(f, m)
    BY <1>2
  <2> DEFINE h == [i \in 0 .. m + 1 |-> IF i =< m THEN f[i] ELSE g[m + 1][f[m]]]
  <2>2. f[m] \in S /\ g[m + 1][f[m]] \in S
    BY <2>1 DEF Recurses
  <2>3. h \in [0 .. m + 1 -> S] /\ h[0] = a
    BY <2>1, <2>2 DEF Recurses
  <2>4. ASSUME NEW i \in 1 .. m + 1 PROVE h[i] = g[i][h[i - 1]]
    <3>1. i - 1 \in 0 .. m /\ i - 1 \in 0 .. m + 1 /\ i \in 0 .. m + 1 /\ h[i - 1] = f[i - 1]
      OBVIOUS
    <3>2. CASE i =< m
      BY <2>1, <3>1, <3>2 DEF Recurses
    <3>3. CASE i = m + 1
      <4>1. h[i] = g[m + 1][f[m]] /\ h[i - 1] = f[m]
        BY <3>1, <3>3
      <4> QED
        BY <3>3, <4>1
    <3> QED
      BY <3>2, <3>3
  <2>5. Is(h, m + 1)
    BY <2>3, <2>4 DEF Recurses
  <2> HIDE DEF Is, h
  <2> QED
    BY <2>5
<1> HIDE DEF T
<1>3. n \in T
  BY <1>1, <1>2, Induction
<1> QED
  BY <1>3 DEF T

LEMMA PowerFunction ==
    ASSUME NEW b \in Nat, NEW n \in Nat
    PROVE  \E p \in [0 .. n -> Nat] :
              /\ p[0] = 1 /\ \A i \in 1 .. n : p[i] = b * p[i - 1]
              /\ Power(b, n) = p[n]
<1> DEFINE g == [i \in Nat |-> [k \in Nat |-> b * k]]
           one == 1
<1>1. one \in Nat /\ g \in [Nat -> [Nat -> Nat]]
  OBVIOUS
<1>2. \A i \in Nat, k \in Nat : g[i][k] = b * k
  OBVIOUS
<1> HIDE DEF g, one
<1>3. PICK f : Recurses(f, Nat, one, g, n)
  BY <1>1, RecursionExists
<1>4. f = [i \in 0 .. n |-> IF i = 0 THEN 1 ELSE b * f[i - 1]]
  <2>1. ASSUME NEW i \in 1 .. n PROVE f[i] = b * f[i - 1]
    <3>1. i \in Nat /\ i - 1 \in 0 .. n
      OBVIOUS
    <3> QED
      BY <1>2, <1>3, <3>1 DEF Recurses
  <2> QED
    BY <1>3, <2>1 DEF Recurses, one
<1> DEFINE p == CHOOSE p : p = [i \in 0 .. n |-> IF i = 0 THEN 1 ELSE b * p[i - 1]]
<1>5. p = [i \in 0 .. n |-> IF i = 0 THEN 1 ELSE b * p[i - 1]]
  BY <1>4
<1>6. Power(b, n) = p[n]
  BY DEF Power
<1> HIDE DEF p
<1>7. p[0] = 1 /\ DOMAIN p = 0 .. n /\ \A i \in 1 .. n : p[i] = b * p[i - 1]
  BY <1>5
<1> DEFINE T == {i \in Nat : i =< n => p[i] \in Nat}
<1>8. 0 \in T
  BY <1>7
<1>9. ASSUME NEW i \in Nat, i \in T PROVE i + 1 \in T
  <2>1. CASE i + 1 =< n
    <3>1. i + 1 \in 1 .. n /\ (i + 1) - 1 = i /\ p[i] \in Nat
      BY <1>9, <2>1
    <3>2. p[i + 1] = b * p[i]
      BY <1>7, <3>1
    <3> QED
      BY <3>1, <3>2
  <2> QED
    BY <2>1
<1>10. \A i \in Nat : i \in T
  BY <1>8, <1>9, Induction
<1>11. p \in [0 .. n -> Nat]
  <2>1. \A i \in 0 .. n : p[i] \in Nat
    BY <1>10
  <2>2. p = [i \in 0 .. n |-> p[i]]
    BY <1>5
  <2> QED
    BY <2>1, <2>2
<1> QED
  BY <1>6, <1>7, <1>11

LEMMA PowerFacts ==
    ASSUME NEW b \in Nat, NEW n \in Nat
    PROVE  /\ Power(b, n) \in Nat
           /\ Power(b, 0) = 1
           /\ Power(b, n + 1) = b * Power(b, n)
<1>1. Power(b, 0) = 1
  BY PowerFunction
<1>2. PICK f \in [0 .. n -> Nat] :
            /\ f[0] = 1 /\ \A i \in 1 .. n : f[i] = b * f[i - 1]
            /\ Power(b, n) = f[n]
  BY PowerFunction
<1>3. n + 1 \in Nat
  OBVIOUS
<1>4. PICK h \in [0 .. n + 1 -> Nat] :
            /\ h[0] = 1 /\ \A i \in 1 .. n + 1 : h[i] = b * h[i - 1]
            /\ Power(b, n + 1) = h[n + 1]
  BY <1>3, PowerFunction
<1> DEFINE T == {i \in Nat : i =< n => f[i] = h[i]}
<1>5. 0 \in T
  BY <1>2, <1>4
<1>6. ASSUME NEW i \in Nat, i \in T PROVE i + 1 \in T
  <2>1. CASE i + 1 =< n
    <3>1. i + 1 \in 1 .. n /\ i + 1 \in 1 .. n + 1 /\ (i + 1) - 1 = i /\ f[i] = h[i]
      BY <1>6, <2>1
    <3>2. f[i + 1] = b * f[i] /\ h[i + 1] = b * h[i]
      BY <1>2, <1>4, <3>1
    <3> QED
      BY <3>1, <3>2
  <2> QED
    BY <2>1
<1>7. \A i \in Nat : i \in T
  BY <1>5, <1>6, Induction
<1>8. f[n] = h[n] /\ h[n + 1] = b * h[n]
  BY <1>4, <1>7
<1> QED
  BY <1>1, <1>2, <1>4, <1>8

LEMMA PowerGrows ==
    ASSUME NEW b \in Nat \ {0}, NEW m \in Nat, NEW n \in Nat, m =< n
    PROVE  /\ Power(b, m) \in Nat \ {0} /\ Power(b, n) \in Nat \ {0}
           /\ Power(b, m) =< Power(b, n)
<1> DEFINE T == {i \in Nat : Power(b, i) \in Nat \ {0}}
<1>1. 0 \in T
  BY PowerFacts
<1>2. ASSUME NEW i \in Nat, i \in T PROVE i + 1 \in T
  <2> DEFINE q == Power(b, i)
  <2>1. q \in Nat \ {0} /\ Power(b, i + 1) = b * q
    BY <1>2, PowerFacts
  <2> HIDE DEF q
  <2>2. b * q \in Nat \ {0}
    BY <2>1
  <2> QED
    BY <2>1, <2>2
<1>3. \A i \in Nat : i \in T
  BY <1>1, <1>2, Induction
<1> DEFINE U == {k \in Nat : Power(b, m) =< Power(b, m + k)}
<1>4. 0 \in U
  BY <1>3
<1>5. ASSUME NEW k \in Nat, k \in U PROVE k + 1 \in U
  <2> DEFINE q == Power(b, m + k)
  <2>1. m + k \in Nat /\ (m + k) + 1 = m + (k + 1)
    OBVIOUS
  <2>2. q \in Nat \ {0} /\ Power(b, m + (k + 1)) = b * q
    BY <1>3, <2>1, PowerFacts
  <2>3. Power(b, m) =< q /\ Power(b, m) \in Nat
    BY <1>3, <1>5
  <2> HIDE DEF q
  <2>4. q =< b * q
    BY <2>2
  <2> QED
    BY <2>2, <2>3, <2>4
<1>6. \A k \in Nat : k \in U
  BY <1>4, <1>5, Induction
<1>7. n - m \in Nat /\ m + (n - m) = n
  OBVIOUS
<1> QED
  BY <1>3, <1>6, <1>7

\* There is only one such pair.
LEMMA OneQuotient ==
    ASSUME NEW M \in Nat \ {0}, NEW q \in Int, NEW s \in 0 .. M - 1,
           NEW x, x = M * q + s
    PROVE  x % M = s /\ x \div M = q
<1>1. x \in Int
  OBVIOUS
<1>2. PICK k \in Int, t \in 0 .. M - 1 : x = M * k + t /\ x % M = t /\ x \div M = k
  BY <1>1, Parts
<1>3. M * (k - q) = s - t
  BY <1>2
<1> DEFINE d == k - q
<1>4. d \in Int /\ M * d = s - t
  BY <1>2, <1>3
<1> HIDE DEF d
<1>5. CASE d >= 1
  <2>1. M * d >= M
    BY <1>4, <1>5
  <2> QED
    BY <1>2, <1>4, <2>1
<1>6. CASE d =< -1
  <2>1. M * d =< -M
    BY <1>4, <1>6
  <2> QED
    BY <1>2, <1>4, <2>1
<1>7. CASE d = 0
  <2>1. M * d = 0
    BY <1>7
  <2>2. s = t
    BY <1>2, <1>4, <2>1
  <2>3. k = q
    BY <1>2, <1>7 DEF d
  <2> QED
    BY <1>2, <2>2, <2>3
<1> QED
  BY <1>4, <1>5, <1>6, <1>7

LEMMA SameRemainder ==
    ASSUME NEW M \in Nat \ {0}, NEW x \in Int, NEW y \in Int
    PROVE  x % M = y % M <=> (x - y) % M = 0
<1>1. PICK k \in Int, s \in 0 .. M - 1 : x = M * k + s /\ x % M = s
  BY Parts
<1>2. PICK l \in Int, t \in 0 .. M - 1 : y = M * l + t /\ y % M = t
  BY Parts
<1>3. PICK d \in Int, v \in 0 .. M - 1 : x - y = M * d + v /\ (x - y) % M = v
  <2>1. x - y \in Int
    OBVIOUS
  <2> QED
    BY <2>1, Parts
<1> DEFINE A == M * k
           B == M * l
           D == M * d
<1>4. A \in Int /\ B \in Int /\ D \in Int /\ x = A + s /\ y = B + t /\ x - y = D + v
  BY <1>1, <1>2, <1>3
<1>5. M * (k - l) = A - B /\ M * (l + d) = B + D /\ k - l \in Int /\ l + d \in Int
  OBVIOUS
<1> HIDE DEF A, B, D
<1>6. ASSUME s = t PROVE v = 0
  <2> DEFINE e == k - l
             w == x - y
  <2>1. e \in Int /\ w = M * e + 0 /\ 0 \in 0 .. M - 1
    BY <1>4, <1>5, <1>6
  <2> HIDE DEF e, w
  <2>2. w % M = 0
    BY <2>1, OneQuotient
  <2> QED
    BY <1>3, <2>2 DEF w
<1>7. ASSUME v = 0 PROVE s = t
  <2> DEFINE e == l + d
  <2> HIDE DEF e
  <2>1. e \in Int /\ x = M * e + t
    BY <1>4, <1>5, <1>7 DEF e
  <2>2. x % M = t
    BY <2>1, OneQuotient
  <2> QED
    BY <1>1, <2>2
<1> QED
  BY <1>1, <1>2, <1>3, <1>6, <1>7

\* Adding a multiple of the modulus changes no remainder.
LEMMA Wrapped ==
    ASSUME NEW M \in Nat \ {0}, NEW x \in Int, NEW k \in Int
    PROVE  (x + M * k) % M = x % M
<1>1. PICK q \in Int, s \in 0 .. M - 1 : x = M * q + s /\ x % M = s
  BY Parts
<1>2. M * q \in Int /\ M * k \in Int /\ M * (q + k) = M * q + M * k
  OBVIOUS
<1>3. x + M * k = M * (q + k) + s /\ q + k \in Int
  BY <1>1, <1>2
<1>4. (x + M * k) % M = s
  BY <1>3, OneQuotient
<1> QED
  BY <1>1, <1>4

LEMMA PowerPositive ==
    ASSUME NEW b \in Nat \ {0}, NEW n \in Nat
    PROVE  Power(b, n) \in Nat \ {0}
<1>1. n =< n
  OBVIOUS
<1> QED
  BY <1>1, PowerGrows

LEMMA PowerSum ==
    ASSUME NEW b \in Nat \ {0}, NEW m \in Nat, NEW n \in Nat
    PROVE  Power(b, m + n) = Power(b, m) * Power(b, n)
<1> DEFINE P == Power(b, m)
           T == {k \in Nat : Power(b, m + k) = P * Power(b, k)}
<1>1. P \in Nat /\ \A k \in Nat : Power(b, k) \in Nat
  BY PowerFacts
<1>2. 0 \in T
  BY <1>1, PowerFacts
<1>3. ASSUME NEW k \in Nat, k \in T PROVE k + 1 \in T
  <2> DEFINE q == Power(b, k)
             s == Power(b, m + k)
  <2>1. m + k \in Nat /\ (m + k) + 1 = m + (k + 1)
    OBVIOUS
  <2>2. Power(b, m + (k + 1)) = b * s /\ Power(b, k + 1) = b * q /\ s = P * q
    BY <1>3, <2>1, PowerFacts
  <2>3. q \in Nat /\ s \in Nat
    BY <1>1, <2>1
  <2> HIDE DEF P, q, s
  <2>4. b * (P * q) = P * (b * q)
    BY <1>1, <2>3
  <2> QED
    BY <2>2, <2>4
<1>4. \A k \in Nat : k \in T
  BY <1>2, <1>3, Induction
<1> QED
  BY <1>4

LEMMA PowerOfPower ==
    ASSUME NEW h \in Nat, NEW j \in Nat
    PROVE  Power(Power(2, h), j) = Power(2, h * j)
<1> DEFINE B == Power(2, h)
           T == {i \in Nat : Power(B, i) = Power(2, h * i)}
<1>1. B \in Nat
  BY PowerFacts
<1>2. 0 \in T
  <2>1. h * 0 = 0
    OBVIOUS
  <2> HIDE DEF B
  <2> QED
    BY <1>1, <2>1, PowerFacts
<1>3. ASSUME NEW i \in Nat, i \in T PROVE i + 1 \in T
  <2> DEFINE x == h * i
             y == h * (i + 1)
  <2>1. x \in Nat /\ y = x + h
    OBVIOUS
  <2> HIDE DEF x, y
  <2>2. Power(2, x + h) = Power(2, x) * B
    BY <2>1, PowerSum
  <2>3. Power(B, i) = Power(2, x)
    BY <1>3 DEF x
  <2> HIDE DEF B
  <2>4. Power(B, i + 1) = B * Power(B, i) /\ Power(B, i) \in Nat
    BY <1>1, PowerFacts
  <2>5. Power(B, i + 1) = Power(2, y)
    BY <1>1, <2>1, <2>2, <2>3, <2>4
  <2> QED
    BY <2>5 DEF y
<1>4. \A i \in Nat : i \in T
  BY <1>2, <1>3, Induction
<1> QED
  BY <1>4

\* To divide by a product is to divide by its factors.
LEMMA DivideTwice ==
    ASSUME NEW A \in Nat \ {0}, NEW b \in Nat \ {0}, NEW m \in Int
    PROVE  /\ A * b \in Nat \ {0}
           /\ m \div (A * b) = (m \div A) \div b
<1>1. PICK q \in Int, s \in 0 .. A - 1 : m = A * q + s /\ m \div A = q
  BY Parts
<1>2. PICK p \in Int, t \in 0 .. b - 1 : q = b * p + t /\ q \div b = p
  BY Parts
<1> DEFINE M == A * b
           u == A * t
<1>3. M \in Nat \ {0}
  OBVIOUS
<1>4. m = M * p + (u + s)
  <2>1. A * (b * p + t) = (A * b) * p + A * t
    BY <1>2
  <2> QED
    BY <1>1, <1>2, <2>1
<1>5. u \in Nat /\ u =< M - A
  <2>1. u \in Nat
    OBVIOUS
  <2>2. b - 1 - t \in Nat
    OBVIOUS
  <2>3. A * (b - 1 - t) \in Nat /\ A * (b - 1 - t) = M - A - u
    BY <2>2
  <2> DEFINE z == A * (b - 1 - t)
  <2> HIDE DEF z, u, M
  <2>4. z \in Nat /\ z = M - A - u
    BY <2>3 DEF z
  <2> QED
    BY <1>3, <2>1, <2>4 DEF u, M
<1> HIDE DEF M, u
<1>6. u + s \in 0 .. M - 1
  BY <1>3, <1>5
<1> DEFINE v == u + s
<1>7. v \in 0 .. M - 1 /\ m = M * p + v
  BY <1>4, <1>6
<1> HIDE DEF v
<1>8. m \div M = p
  BY <1>3, <1>7, OneQuotient
<1> QED
  BY <1>1, <1>2, <1>3, <1>8 DEF M

-----------------------------------------------------------------------------
(* What a number is read as                                                 *)

\* The widths of types.
LEMMA Widths ==
    ASSUME NEW w \in 1 .. IntBits
    PROVE  /\ w \in Nat /\ IntBits - w \in Nat
           /\ Power(2, w) \in Nat \ {0} /\ IntMod \in Nat \ {0}
           /\ Power(2, w - 1) \in Nat \ {0}
           /\ Power(2, w) = 2 * Power(2, w - 1)
           /\ Power(2, w) =< IntMod
           /\ Power(2, IntBits - w) \in Nat
           /\ IntMod = Power(2, w) * Power(2, IntBits - w)
<1>1. w \in Nat /\ w - 1 \in Nat /\ IntBits \in Nat /\ IntBits - w \in Nat /\ w =< IntBits
  BY AssertsAssumption
<1>2. 2 \in Nat \ {0} /\ (w - 1) + 1 = w /\ w + (IntBits - w) = IntBits
  BY <1>1
<1>3. Power(2, w) = 2 * Power(2, w - 1)
  BY <1>1, <1>2, PowerFacts
<1>4. IntMod = Power(2, w) * Power(2, IntBits - w)
  BY <1>1, <1>2, PowerSum DEF IntMod
<1>5. Power(2, w - 1) \in Nat \ {0}
  BY <1>1, <1>2, PowerGrows
<1>6. /\ Power(2, w) \in Nat \ {0} /\ Power(2, IntBits) \in Nat \ {0}
      /\ Power(2, w) =< Power(2, IntBits)
  BY <1>1, <1>2, PowerGrows
<1>7. Power(2, IntBits - w) \in Nat
  BY <1>1, PowerFacts
<1> QED
  BY <1>1, <1>3, <1>4, <1>5, <1>6, <1>7 DEF IntMod

\* What a number is read as has the same bits, and is in the range of the type.
LEMMA Reading ==
    ASSUME NEW w \in 1 .. IntBits, NEW x \in Int
    PROVE  /\ Unsigned(x, w) \in 0 .. Power(2, w) - 1
           /\ Signed(x, w) \in -Power(2, w - 1) .. Power(2, w - 1) - 1
           /\ Signed(x, w) = Unsigned(x, w) \/ Signed(x, w) = Unsigned(x, w) - Power(2, w)
           /\ Unsigned(Signed(x, w), w) = Unsigned(x, w)
<1> DEFINE W == Power(2, w)
           H == Power(2, w - 1)
           u == Unsigned(x, w)
           s == Signed(x, w)
<1>1. W \in Nat \ {0} /\ H \in Nat \ {0} /\ W = 2 * H
  BY Widths
<1>2. u = x % W /\ s = IF u < H THEN u ELSE u - W
  BY DEF Unsigned, Signed
<1>3. Unsigned(s, w) = s % W
  BY DEF Unsigned
<1> HIDE DEF W, H, s, u
<1>4. PICK k \in Int, t \in 0 .. W - 1 : x = W * k + t /\ u = t
  BY <1>1, <1>2, Parts
<1>5. /\ u \in 0 .. W - 1 /\ s \in -H .. H - 1
      /\ s = u \/ s = u - W
  BY <1>1, <1>2, <1>4
<1>6. \E q \in Int : s = W * q + u
  <2>1. W * 0 = 0 /\ W * (-1) = -W
    BY <1>1
  <2> QED
    BY <1>1, <1>5, <2>1
<1>7. s % W = u
  BY <1>1, <1>5, <1>6, OneQuotient
<1> QED
  BY <1>3, <1>5, <1>7 DEF W, H, s, u

\* Two numbers are read as the same one exactly if their bits are the same.
LEMMA CastsEqual ==
    ASSUME NEW w \in 1 .. IntBits, NEW x \in Int, NEW y \in Int, NEW style
    PROVE  Cast(x, style, w) = Cast(y, style, w) <=> (x - y) % Power(2, w) = 0
<1>1. Unsigned(x, w) = Unsigned(y, w) <=> (x - y) % Power(2, w) = 0
  <2>1. Power(2, w) \in Nat \ {0}
    BY Widths
  <2> QED
    BY <2>1, SameRemainder DEF Unsigned
<1>2. Signed(x, w) = Signed(y, w) <=> Unsigned(x, w) = Unsigned(y, w)
  <2>1. /\ Unsigned(Signed(x, w), w) = Unsigned(x, w)
        /\ Unsigned(Signed(y, w), w) = Unsigned(y, w)
    BY Reading
  <2>2. Unsigned(x, w) = Unsigned(y, w) => Signed(x, w) = Signed(y, w)
    BY DEF Signed
  <2> QED
    BY <2>1, <2>2
<1> QED
  BY <1>1, <1>2 DEF Cast

LEMMA DistanceIs ==
    ASSUME NEW x \in Int, NEW y \in Int
    PROVE  Distance(x, y) = IF x > y THEN x - y ELSE y - x
<1>1. Max({x - y, y - x}) = IF x - y >= y - x THEN x - y ELSE y - x
  BY MaxOfTwo
<1> QED
  BY <1>1 DEF Distance

\* The value of a number and what it is cast to differ by a multiple of the
\* width of UNITY_INT, and the distance of two values is less.
LEMMA CastValue ==
    ASSUME NEW w \in 1 .. IntBits, NEW x \in Int, NEW style
    PROVE  /\ Cast(x, style, w) \in Int
           /\ Value(x, style, w) \in Int
           /\ \E k \in Int : Cast(x, style, w) = Value(x, style, w) + IntMod * k
           /\ IF IsSigned(style)
              THEN /\ Cast(x, style, w) = Value(x, style, w)
                   /\ Value(x, style, w) \in -Power(2, w - 1) .. Power(2, w - 1) - 1
              ELSE /\ Value(x, style, w) \in 0 .. Power(2, w) - 1
                   /\ Cast(x, style, w) % IntMod = Value(x, style, w)
<1> DEFINE W == Power(2, w)
           H == Power(2, w - 1)
           u == Unsigned(x, w)
           s == Signed(x, w)
<1>1. W \in Nat \ {0} /\ H \in Nat \ {0} /\ W = 2 * H /\ IntMod \in Nat \ {0} /\ W =< IntMod
  BY Widths
<1>2. u \in 0 .. W - 1 /\ s \in -H .. H - 1 /\ (s = u \/ s = u - W)
  BY Reading
<1>3. w = IntBits => W = IntMod
  BY DEF IntMod
<1>4. CASE IsSigned(style)
  <2>1. Cast(x, style, w) = s /\ Value(x, style, w) = s
    BY <1>4 DEF Cast, Value
  <2> HIDE DEF W, H, s, u
  <2>2. s = s + IntMod * 0 /\ s \in Int
    BY <1>1, <1>2
  <2> QED
    BY <1>2, <1>4, <2>1, <2>2 DEF H
<1>5. CASE ~IsSigned(style)
  <2>1. Value(x, style, w) = u /\ Cast(x, style, w) = IF w = IntBits THEN s ELSE u
    BY <1>5 DEF Cast, Value
  <2> HIDE DEF W, H, s, u
  <2>2. IntMod * 0 = 0 /\ IntMod * (-1) = -IntMod
    BY <1>1
  <2>3. \E k \in Int : Cast(x, style, w) = IntMod * k + u
    <3> DEFINE m == Cast(x, style, w)
    <3>1. m = u \/ m = u - IntMod
      BY <1>2, <1>3, <2>1
    <3> HIDE DEF m
    <3>2. m = IntMod * 0 + u \/ m = IntMod * (-1) + u
      BY <1>1, <1>2, <2>2, <3>1
    <3> QED
      BY <3>2 DEF m
  <2>4. u \in 0 .. IntMod - 1 /\ Cast(x, style, w) \in Int
    BY <1>1, <1>2, <2>1
  <2>5. Cast(x, style, w) % IntMod = u
    BY <1>1, <2>3, <2>4, OneQuotient
  <2>6. \E k \in Int : Cast(x, style, w) = u + IntMod * k
    BY <1>1, <2>3, <2>4
  <2> QED
    BY <1>2, <1>5, <2>1, <2>4, <2>5, <2>6 DEF W
<1> QED
  BY <1>4, <1>5

LEMMA GapIsDistance ==
    ASSUME NEW w \in 1 .. IntBits, NEW x \in Int, NEW y \in Int, NEW style
    PROVE  Gap(Cast(x, style, w), Cast(y, style, w), style)
             = Distance(Value(x, style, w), Value(y, style, w))
<1> DEFINE M == IntMod
           a == Cast(x, style, w)
           b == Cast(y, style, w)
           v == Value(x, style, w)
           z == Value(y, style, w)
<1>1. M \in Nat \ {0}
  BY Widths
<1>2. PICK k \in Int : a \in Int /\ v \in Int /\ a = v + M * k
  BY CastValue
<1>3. PICK l \in Int : b \in Int /\ z \in Int /\ b = z + M * l
  BY CastValue
<1>4. Gap(a, b, style) = IF z > v THEN (b - a) % M ELSE (a - b) % M
  <2>1. CASE IsSigned(style)
    BY <2>1, CastValue DEF Gap
  <2>2. CASE ~IsSigned(style)
    <3>1. a % M = v /\ b % M = z
      BY <2>2, CastValue
    <3> QED
      BY <2>2, <3>1 DEF Gap
  <2> QED
    BY <2>1, <2>2
<1>5. v - z \in -(M - 1) .. M - 1
  <2> DEFINE W == Power(2, w)
             H == Power(2, w - 1)
  <2>1. W \in Nat \ {0} /\ H \in Nat \ {0} /\ W = 2 * H /\ W =< M
    BY Widths
  <2>2. \/ v \in -H .. H - 1 /\ z \in -H .. H - 1
        \/ v \in 0 .. W - 1 /\ z \in 0 .. W - 1
    BY CastValue
  <2> HIDE DEF W, H, v, z, M
  <2> QED
    BY <1>1, <2>1, <2>2
<1>6. Distance(v, z) = IF v > z THEN v - z ELSE z - v
  BY <1>2, <1>3, DistanceIs
<1> HIDE DEF M, a, b, v, z
<1>7. /\ M * k \in Int /\ M * l \in Int
      /\ M * (k - l) = M * k - M * l /\ M * (l - k) = M * l - M * k
  BY <1>1
<1>8. CASE z > v
  <2> DEFINE e == l - k
             t == z - v
  <2>1. e \in Int /\ t \in 0 .. M - 1 /\ b - a = M * e + t
    BY <1>1, <1>2, <1>3, <1>5, <1>7, <1>8
  <2> HIDE DEF e, t
  <2>2. (b - a) % M = t
    BY <1>1, <2>1, OneQuotient
  <2> QED
    BY <1>2, <1>3, <1>4, <1>6, <1>8, <2>2 DEF t, a, b, v, z
<1>9. CASE ~(z > v)
  <2> DEFINE e == k - l
             t == v - z
  <2>1. e \in Int /\ t \in 0 .. M - 1 /\ a - b = M * e + t
    BY <1>1, <1>2, <1>3, <1>5, <1>7, <1>9
  <2> HIDE DEF e, t
  <2>2. (a - b) % M = t
    BY <1>1, <2>1, OneQuotient
  <2>3. Distance(v, z) = t
    BY <1>2, <1>3, <1>6, <1>9 DEF t
  <2>4. Gap(a, b, style) = t
    BY <1>4, <1>9, <2>2
  <2> QED
    BY <2>3, <2>4 DEF a, b, v, z
<1> QED
  BY <1>8, <1>9

-----------------------------------------------------------------------------
(* The assertions about numbers                                             *)

Exact(c) == Fails(c) <=> ~Holds(c)

LEMMA TypedWidth ==
    ASSUME NEW c, Typed(c)
    PROVE  c.width \in 1 .. IntBits
<1>1. PICK n \in 1 .. IntBits : c.width = n * ByteBits /\ c.width =< IntBits
  BY DEF Typed
<1>2. ByteBits \in Nat /\ ByteBits >= 1 /\ IntBits \in Nat
  BY AssertsAssumption
<1>3. n * ByteBits \in Nat /\ n * ByteBits >= n
  BY <1>2
<1> QED
  BY <1>1, <1>2, <1>3

LEMMA PatternsAreNumbers == \A x \in Patterns : x \in Nat
BY DEF Patterns

LEMMA BitsExact == ASSUME NEW c, Legal(c), c.op = "BITS" PROVE Exact(c)
<1>1. Fails(c) <=> UnityAssertBits(c)
  BY DEF Fails
<1>2. Holds(c) <=> \A i \in 0 .. IntBits - 1 :
                      Bit(c.mask, i) => (Bit(c.expected, i) <=> Bit(c.actual, i))
  BY DEF Holds
<1>3. \A x, i : Bit(x, i) \in BOOLEAN
  BY DEF Bit
<1> QED
  BY <1>1, <1>2, <1>3 DEF Exact, UnityAssertBits

LEMMA EqualExact == ASSUME NEW c, Legal(c), c.op = "EQUAL" PROVE Exact(c)
<1>1. Typed(c) /\ c.expected \in Int /\ c.actual \in Int
  BY PatternsAreNumbers DEF Legal
<1>2. Fails(c) <=> UnityAssertEqualNumber(c)
  BY DEF Fails
<1>3. Holds(c) <=> (c.expected - c.actual) % Power(2, c.width) = 0
  BY DEF Holds
<1> QED
  BY <1>1, <1>2, <1>3, TypedWidth, CastsEqual DEF Exact, UnityAssertEqualNumber

LEMMA CompareExact == ASSUME NEW c, Legal(c), c.op = "COMPARE" PROVE Exact(c)
<1> DEFINE a == Value(c.actual, c.style, c.width)
           t == Value(c.threshold, c.style, c.width)
<1>1. /\ Typed(c) /\ c.threshold \in Int /\ c.actual \in Int
      /\ c.compare \in {{"GREATER_THAN"}, {"GREATER_THAN", "EQUAL_TO"},
                        {"SMALLER_THAN"}, {"SMALLER_THAN", "EQUAL_TO"}, {"NOT_EQUAL"}}
  BY PatternsAreNumbers DEF Legal
<1>2. Fails(c) <=> UnityAssertGreaterOrLessOrEqualNumber(c)
  BY DEF Fails
<1>3. Holds(c) <=> Compares(c, a, t)
  BY DEF Holds
<1>4. a \in Int /\ t \in Int
  BY <1>1, TypedWidth, CastValue
<1>5. UnityAssertGreaterOrLessOrEqualNumber(c) <=>
        \/ t = a /\ "EQUAL_TO" \notin c.compare
        \/ a > t /\ "SMALLER_THAN" \in c.compare
        \/ a < t /\ "GREATER_THAN" \in c.compare
  BY DEF UnityAssertGreaterOrLessOrEqualNumber, Value
<1> HIDE DEF a, t
<1>6. Compares(c, a, t) <=>
        \/ a = t /\ "EQUAL_TO" \in c.compare
        \/ a > t /\ ("GREATER_THAN" \in c.compare \/ "NOT_EQUAL" \in c.compare)
        \/ a < t /\ ("SMALLER_THAN" \in c.compare \/ "NOT_EQUAL" \in c.compare)
  BY DEF Compares
<1>7. a = t \/ a > t \/ a < t
  BY <1>4
<1>8. (a = t => ~(a > t) /\ ~(a < t)) /\ ~(a > t /\ a < t)
  BY <1>4
<1> QED
  BY <1>1, <1>2, <1>3, <1>5, <1>6, <1>7, <1>8 DEF Exact

\* The tolerance is a number on both sides, whatever the test wrote.
LEMMA ToleranceIs ==
    ASSUME NEW c, Typed(c), c.delta \in Int
    PROVE  Tolerance(c) \in Int /\ Value(c.delta, "UINT", c.width) = Tolerance(c)
<1>1. Value(c.delta, "UINT", c.width) = Tolerance(c)
  BY DEF Value, IsSigned, Tolerance
<1> QED
  BY <1>1, TypedWidth, CastValue

LEMMA WithinExact == ASSUME NEW c, Legal(c), c.op = "WITHIN" PROVE Exact(c)
<1> DEFINE e == Value(c.expected, c.style, c.width)
           a == Value(c.actual, c.style, c.width)
<1>1. Typed(c) /\ c.expected \in Int /\ c.actual \in Int /\ c.delta \in Int
  BY PatternsAreNumbers DEF Legal
<1>2. Fails(c) <=> Distance(e, a) > Tolerance(c)
  BY <1>1, TypedWidth, GapIsDistance DEF Fails, UnityAssertNumbersWithin
<1>3. Holds(c) <=> Distance(e, a) =< Tolerance(c)
  BY <1>1, ToleranceIs DEF Holds, Close
<1>4. e \in Int /\ a \in Int /\ Tolerance(c) \in Int
  BY <1>1, TypedWidth, CastValue, ToleranceIs
<1>5. Distance(e, a) \in Int
  BY <1>4, DistanceIs
<1> QED
  BY <1>2, <1>3, <1>4, <1>5 DEF Exact

-----------------------------------------------------------------------------
(* The assertions about arrays                                              *)

LEMMA ElementsOf ==
    ASSUME NEW c, NEW S, OfArrays(c, S), ~c.same, c.expected # NULL, c.actual # NULL,
           NEW i \in 1 .. c.num_elements
    PROVE  c.expected[IF c.array_to_array THEN i ELSE 1] \in S /\ c.actual[i] \in S
<1>1. /\ c.num_elements \in Nat /\ c.expected \in Seq(S) /\ c.actual \in Seq(S)
      /\ Len(c.expected) >= (IF c.array_to_array THEN c.num_elements ELSE 1)
      /\ Len(c.actual) >= c.num_elements
  BY DEF OfArrays, Readable, Pointers
<1> QED
  BY <1>1

LEMMA OneNull ==
    ASSUME NEW c
    PROVE  UnityIsOneArrayNull(c) <=> ~(c.expected # NULL /\ c.actual # NULL)
BY DEF UnityIsOneArrayNull

LEMMA EqualArrayExact == ASSUME NEW c, Legal(c), c.op = "EQUAL_ARRAY" PROVE Exact(c)
<1> DEFINE e(i) == c.expected[IF c.array_to_array THEN i ELSE 1]
           n == c.num_elements
<1>1. Typed(c) /\ OfArrays(c, Patterns) /\ n \in Nat
  BY DEF Legal, OfArrays
<1>2. Fails(c) <=>
        \/ n = 0
        \/ /\ ~c.same
           /\ \/ UnityIsOneArrayNull(c)
              \/ \E i \in 1 .. n : Cast(e(i), c.style, c.width)
                                     # Cast(c.actual[i], c.style, c.width)
  BY DEF Fails, UnityAssertEqualIntArray, ArrayFails
<1>3. Holds(c) <=>
        /\ n > 0
        /\ \/ c.same
           \/ /\ c.expected # NULL /\ c.actual # NULL
              /\ \A i \in 1 .. n : (e(i) - c.actual[i]) % Power(2, c.width) = 0
  BY DEF Holds, Whether
<1>4. ASSUME ~c.same, c.expected # NULL, c.actual # NULL, NEW i \in 1 .. n
      PROVE  Cast(e(i), c.style, c.width) = Cast(c.actual[i], c.style, c.width)
               <=> (e(i) - c.actual[i]) % Power(2, c.width) = 0
  <2>1. e(i) \in Patterns /\ c.actual[i] \in Patterns
    BY <1>1, <1>4, ElementsOf
  <2>2. e(i) \in Int /\ c.actual[i] \in Int
    BY <2>1, PatternsAreNumbers
  <2> HIDE DEF e
  <2> QED
    BY <1>1, <2>2, TypedWidth, CastsEqual
<1> HIDE DEF e, n
<1> QED
  BY <1>1, <1>2, <1>3, <1>4, OneNull DEF Exact

LEMMA ArrayWithinExact == ASSUME NEW c, Legal(c), c.op = "ARRAY_WITHIN" PROVE Exact(c)
<1> DEFINE e(i) == c.expected[IF c.array_to_array THEN i ELSE 1]
           n == c.num_elements
           V(x) == Value(x, c.style, c.width)
<1>1. Typed(c) /\ OfArrays(c, Patterns) /\ n \in Nat /\ c.delta \in Int
  BY PatternsAreNumbers DEF Legal, OfArrays
<1>2. Fails(c) <=>
        \/ n = 0
        \/ /\ ~c.same
           /\ \/ UnityIsOneArrayNull(c)
              \/ \E i \in 1 .. n :
                    Gap(Cast(e(i), c.style, c.width), Cast(c.actual[i], c.style, c.width),
                        c.style) > Tolerance(c)
  BY DEF Fails, UnityAssertNumbersArrayWithin, ArrayFails
<1>3. Holds(c) <=>
        /\ n > 0
        /\ \/ c.same
           \/ /\ c.expected # NULL /\ c.actual # NULL
              /\ \A i \in 1 .. n : Distance(V(e(i)), V(c.actual[i])) =< Tolerance(c)
  BY <1>1, ToleranceIs DEF Holds, Whether, Close
<1>4. ASSUME ~c.same, c.expected # NULL, c.actual # NULL, NEW i \in 1 .. n
      PROVE  Gap(Cast(e(i), c.style, c.width), Cast(c.actual[i], c.style, c.width),
                 c.style) > Tolerance(c)
               <=> ~(Distance(V(e(i)), V(c.actual[i])) =< Tolerance(c))
  <2>1. e(i) \in Patterns /\ c.actual[i] \in Patterns
    BY <1>1, <1>4, ElementsOf
  <2>2. e(i) \in Int /\ c.actual[i] \in Int
    BY <2>1, PatternsAreNumbers
  <2> HIDE DEF e
  <2>3. Gap(Cast(e(i), c.style, c.width), Cast(c.actual[i], c.style, c.width), c.style)
          = Distance(V(e(i)), V(c.actual[i]))
    BY <1>1, <2>2, TypedWidth, GapIsDistance
  <2>4. V(e(i)) \in Int /\ V(c.actual[i]) \in Int
    BY <1>1, <2>2, TypedWidth, CastValue
  <2> HIDE DEF V
  <2>5. Distance(V(e(i)), V(c.actual[i])) \in Int
    BY <2>4, DistanceIs
  <2>6. Tolerance(c) \in Int
    BY <1>1, ToleranceIs
  <2> QED
    BY <2>3, <2>5, <2>6
<1> HIDE DEF e, n, V
<1> QED
  BY <1>1, <1>2, <1>3, <1>4, OneNull DEF Exact

-----------------------------------------------------------------------------
(* The assertions about strings and memory                                  *)

StringOps == {"EQUAL_STRING", "NOT_EQUAL_STRING", "EQUAL_STRING_LEN", "NOT_EQUAL_STRING_LEN"}

\* Texts that agree up to the end of the longer one, and one place behind
\* that of the shorter one, are the same.
LEMMA WholeTexts ==
    ASSUME NEW s \in Strings, NEW t \in Strings
    PROVE  /\ s # NULL /\ t # NULL
           /\ DifferUpTo(s, t, Whole(s, t)) <=> ~SameText(s, t)
<1> DEFINE p == Len(s)
           q == Len(t)
           n == Whole(s, t)
<1>1. /\ p \in Nat /\ q \in Nat /\ DOMAIN s = 1 .. p
      /\ \A i \in 1 .. p : s[i] # NUL
      /\ \A i \in 1 .. q : t[i] # NUL
      /\ s \in Seq(Int) /\ t \in Seq(Int)
  BY DEF Strings
<1>2. s # NULL /\ t # NULL
  BY <1>1, AssertsAssumption
<1>3. n = IF p >= q THEN p ELSE q
  <2>1. n = Max({p, q})
    BY DEF Whole
  <2> HIDE DEF n, p, q
  <2>2. p \in Int /\ q \in Int
    BY <1>1
  <2> QED
    BY <2>1, <2>2, MaxOfTwo
<1>4. SameText(s, t) <=> p = q /\ \A i \in 1 .. p : s[i] = t[i]
  BY <1>1, <1>2 DEF SameText
<1>5. /\ DifferUpTo(s, t, n) <=> \E i \in 1 .. n : CharAt(s, i) # CharAt(t, i)
      /\ \A i : CharAt(s, i) = IF i =< p THEN s[i] ELSE NUL
      /\ \A i : CharAt(t, i) = IF i =< q THEN t[i] ELSE NUL
  BY DEF DifferUpTo, CharAt
<1> HIDE DEF p, q, n
<1>6. DifferUpTo(s, t, n) <=> ~SameText(s, t)
  <2>1. CASE p = q
    <3>1. n = p
      BY ONLY <1>1, <1>3, <2>1
    <3>2. ASSUME NEW i \in 1 .. p
          PROVE  CharAt(s, i) = s[i] /\ CharAt(t, i) = t[i]
      BY ONLY <1>1, <1>5, <2>1, i \in 1 .. p
    <3> QED
      BY ONLY <1>4, <1>5, <2>1, <3>1, <3>2
  <2>2. CASE p < q
    <3>1. q \in 1 .. n /\ CharAt(s, q) # CharAt(t, q) /\ p # q
      BY ONLY <1>1, <1>3, <1>5, <2>2
    <3> QED
      BY ONLY <1>4, <1>5, <3>1
  <2>3. CASE p > q
    <3>1. p \in 1 .. n /\ CharAt(s, p) # CharAt(t, p) /\ p # q
      BY ONLY <1>1, <1>3, <1>5, <2>3
    <3> QED
      BY ONLY <1>4, <1>5, <3>1
  <2> QED
    BY ONLY <1>1, <2>1, <2>2, <2>3
<1> QED
  BY <1>2, <1>6 DEF n

\* The text a string has up to a length.
LEMMA UpToIs ==
    ASSUME NEW s \in Seq(Int), NEW n \in Nat
    PROVE  LET m == IF n =< Len(s) THEN n ELSE Len(s)
           IN  /\ UpTo(s, n) \in Seq(Int) /\ UpTo(s, n) # NULL
               /\ Len(UpTo(s, n)) = m /\ m \in Nat
               /\ DOMAIN UpTo(s, n) = 1 .. m
               /\ \A i \in 1 .. m : UpTo(s, n)[i] = s[i]
<1> DEFINE m == IF n =< Len(s) THEN n ELSE Len(s)
           t == SubSeq(s, 1, m)
<1>1. s # NULL
  BY AssertsAssumption
<1>2. m \in Nat /\ m =< Len(s) /\ Len(s) \in Nat
  OBVIOUS
<1>3. Min({n, Len(s)}) = m
  BY <1>2, MinOfTwo
<1>4. UpTo(s, n) = t
  BY <1>1, <1>3 DEF UpTo
<1> HIDE DEF m
<1>5. /\ t \in Seq(Int) /\ Len(t) = m /\ DOMAIN t = 1 .. m
      /\ \A i \in 1 .. m : t[i] = s[i]
  BY <1>2
<1>6. t # NULL
  BY <1>5, AssertsAssumption
<1> HIDE DEF t
<1>7. /\ UpTo(s, n) \in Seq(Int) /\ UpTo(s, n) # NULL
      /\ Len(UpTo(s, n)) = m /\ m \in Nat
      /\ DOMAIN UpTo(s, n) = 1 .. m
      /\ \A i \in 1 .. m : UpTo(s, n)[i] = s[i]
  BY <1>2, <1>4, <1>5, <1>6
<1> QED
  BY <1>7 DEF m

LEMMA PartsOfTexts ==
    ASSUME NEW s \in Strings, NEW t \in Strings, NEW n \in Nat
    PROVE  DifferUpTo(s, t, n) <=> ~SameText(UpTo(s, n), UpTo(t, n))
<1> DEFINE p == Len(s)
           q == Len(t)
           k == IF n =< p THEN n ELSE p
           l == IF n =< q THEN n ELSE q
           u == UpTo(s, n)
           v == UpTo(t, n)
<1>1. /\ p \in Nat /\ q \in Nat
      /\ \A i \in 1 .. p : s[i] # NUL
      /\ \A i \in 1 .. q : t[i] # NUL
      /\ s \in Seq(Int) /\ t \in Seq(Int)
  BY DEF Strings
<1>2. /\ u # NULL /\ Len(u) = k /\ DOMAIN u = 1 .. k /\ \A i \in 1 .. k : u[i] = s[i]
      /\ v # NULL /\ Len(v) = l /\ \A i \in 1 .. l : v[i] = t[i]
  BY <1>1, UpToIs
<1>3. SameText(u, v) <=> k = l /\ \A i \in 1 .. k : u[i] = v[i]
  BY <1>2 DEF SameText
<1>4. /\ DifferUpTo(s, t, n) <=> \E i \in 1 .. n : CharAt(s, i) # CharAt(t, i)
      /\ \A i : CharAt(s, i) = IF i =< p THEN s[i] ELSE NUL
      /\ \A i : CharAt(t, i) = IF i =< q THEN t[i] ELSE NUL
  BY DEF DifferUpTo, CharAt
<1>5. /\ k = IF n =< p THEN n ELSE p
      /\ l = IF n =< q THEN n ELSE q
  OBVIOUS
<1>6. /\ \A i \in 1 .. k : u[i] = s[i]
      /\ \A i \in 1 .. l : v[i] = t[i]
  BY <1>2
<1> HIDE DEF p, q, k, l, u, v
<1>7. CASE k = l
  <2>1. SameText(u, v) <=> \A i \in 1 .. k : s[i] = t[i]
    BY ONLY <1>3, <1>6, <1>7
  <2> QED
    <3>1. ASSUME NEW i \in 1 .. k
          PROVE  i \in 1 .. n /\ CharAt(s, i) = s[i] /\ CharAt(t, i) = t[i]
      BY ONLY <1>1, <1>4, <1>5, <1>7, n \in Nat, i \in 1 .. k
    <3>2. ASSUME NEW i \in 1 .. n, i \notin 1 .. k
          PROVE  CharAt(s, i) = CharAt(t, i)
      BY ONLY <1>1, <1>4, <1>5, <1>7, n \in Nat, i \in 1 .. n, <3>2
    <3>3. DifferUpTo(s, t, n) <=> \E i \in 1 .. k : s[i] # t[i]
      BY ONLY <1>4, <3>1, <3>2
    <3> QED
      BY ONLY <2>1, <3>3 DEF u, v
<1>8. CASE k < l
  <2>1. l \in 1 .. n /\ CharAt(s, l) # CharAt(t, l)
    BY ONLY <1>1, <1>4, <1>5, <1>8, n \in Nat
  <2>2. k # l
    BY ONLY <1>1, <1>5, <1>8, n \in Nat
  <2> QED
    BY ONLY <1>3, <1>4, <2>1, <2>2 DEF u, v
<1>9. CASE k > l
  <2>1. k \in 1 .. n /\ CharAt(s, k) # CharAt(t, k)
    BY ONLY <1>1, <1>4, <1>5, <1>9, n \in Nat
  <2>2. k # l
    BY ONLY <1>1, <1>5, <1>9, n \in Nat
  <2> QED
    BY ONLY <1>3, <1>4, <2>1, <2>2 DEF u, v
<1>10. k = l \/ k < l \/ k > l
  BY ONLY <1>1, <1>5, n \in Nat
<1> QED
  BY <1>7, <1>8, <1>9, <1>10 DEF u, v

LEMMA StringExact == ASSUME NEW c, Legal(c), c.op \in StringOps PROVE Exact(c)
<1> DEFINE e == c.expected
           a == c.actual
           n == c.length
<1>1. /\ n \in Nat /\ e \in {NULL} \cup Strings /\ a \in {NULL} \cup Strings
      /\ c.same \in BOOLEAN /\ (c.same => e = a) /\ (e = NULL /\ a = NULL => c.same)
  BY DEF Legal, Readable, StringOps
<1>2. UnityIsOneArrayNull(c) <=> e = NULL \/ a = NULL
  BY DEF UnityIsOneArrayNull
<1>3. /\ SameText(e, a) <=> c.same \/ (e # NULL /\ a # NULL /\ ~DifferUpTo(e, a, Whole(e, a)))
  <2>1. CASE e = a
    <3>1. SameText(e, a)
      BY <2>1 DEF SameText
    <3>2. CASE e = NULL
      BY <1>1, <2>1, <3>1, <3>2
    <3>3. CASE e # NULL
      BY <1>1, <2>1, <3>1, <3>3, WholeTexts
    <3> QED
      BY <3>2, <3>3
  <2>2. CASE e # a /\ (e = NULL \/ a = NULL)
    BY <1>1, <2>2 DEF SameText
  <2>3. CASE e # a /\ e # NULL /\ a # NULL
    BY <1>1, <2>3, WholeTexts
  <2> QED
    BY <2>1, <2>2, <2>3
<1>4. SameText(UpTo(e, n), UpTo(a, n)) <=>
          c.same \/ (e # NULL /\ a # NULL /\ ~DifferUpTo(e, a, n))
  <2>1. CASE e = a
    <3>1. SameText(UpTo(e, n), UpTo(a, n))
      BY <2>1 DEF SameText
    <3>2. CASE e = NULL
      BY <1>1, <2>1, <3>1, <3>2
    <3>3. CASE e # NULL
      BY <1>1, <2>1, <3>1, <3>3, PartsOfTexts
    <3> QED
      BY <3>2, <3>3
  <2>2. CASE e # a /\ e = NULL
    <3>1. a \in Seq(Int) /\ UpTo(e, n) = NULL
      BY <1>1, <2>2 DEF Strings, UpTo
    <3>2. UpTo(a, n) # NULL
      BY <1>1, <3>1, UpToIs
    <3> QED
      BY <1>1, <2>2, <3>1, <3>2 DEF SameText
  <2>3. CASE e # a /\ a = NULL
    <3>1. e \in Seq(Int) /\ UpTo(a, n) = NULL
      BY <1>1, <2>3 DEF Strings, UpTo
    <3>2. UpTo(e, n) # NULL
      BY <1>1, <3>1, UpToIs
    <3> QED
      BY <1>1, <2>3, <3>1, <3>2 DEF SameText
  <2>4. CASE e # a /\ e # NULL /\ a # NULL
    BY <1>1, <2>4, PartsOfTexts
  <2> QED
    BY <2>1, <2>2, <2>3, <2>4
<1> HIDE DEF e, a, n
<1>5. CASE c.op = "EQUAL_STRING"
  <2>1. Fails(c) <=> ~c.same /\ (UnityIsOneArrayNull(c) \/ DifferUpTo(e, a, Whole(e, a)))
    BY <1>5 DEF Fails, UnityAssertEqualString, e, a
  <2>2. Holds(c) <=> SameText(e, a)
    BY <1>5 DEF Holds, e, a
  <2> QED
    BY <1>1, <1>2, <1>3, <2>1, <2>2 DEF Exact
<1>6. CASE c.op = "NOT_EQUAL_STRING"
  <2>1. Fails(c) <=> c.same \/ (~UnityIsOneArrayNull(c) /\ ~DifferUpTo(e, a, Whole(e, a)))
    BY <1>6 DEF Fails, UnityAssertNotEqualString, e, a
  <2>2. Holds(c) <=> ~SameText(e, a)
    BY <1>6 DEF Holds, e, a
  <2> QED
    BY <1>1, <1>2, <1>3, <2>1, <2>2 DEF Exact
<1>7. CASE c.op = "EQUAL_STRING_LEN"
  <2>1. Fails(c) <=> ~c.same /\ (UnityIsOneArrayNull(c) \/ DifferUpTo(e, a, n))
    BY <1>7 DEF Fails, UnityAssertEqualStringLen, e, a, n
  <2>2. Holds(c) <=> SameText(UpTo(e, n), UpTo(a, n))
    BY <1>7 DEF Holds, e, a, n
  <2> QED
    BY <1>1, <1>2, <1>4, <2>1, <2>2 DEF Exact
<1>8. CASE c.op = "NOT_EQUAL_STRING_LEN"
  <2>1. Fails(c) <=>
          n = 0 \/ c.same \/ (~UnityIsOneArrayNull(c) /\ ~DifferUpTo(e, a, n))
    BY <1>8 DEF Fails, UnityAssertNotEqualStringLen, e, a, n
  <2>2. Holds(c) <=> n > 0 /\ ~SameText(UpTo(e, n), UpTo(a, n))
    BY <1>8 DEF Holds, e, a, n
  <2>3. n > 0 <=> n # 0
    BY <1>1
  <2> QED
    BY <1>1, <1>2, <1>4, <2>1, <2>2, <2>3 DEF Exact
<1> QED
  BY <1>5, <1>6, <1>7, <1>8 DEF StringOps

LEMMA StringArrayExact == ASSUME NEW c, Legal(c), c.op = "EQUAL_STRING_ARRAY" PROVE Exact(c)
<1> DEFINE e(i) == c.expected[IF c.array_to_array THEN i ELSE 1]
           a(i) == c.actual[i]
           n == c.num_elements
           Differ(s, t) == IF s = NULL \/ t = NULL THEN s # t
                           ELSE DifferUpTo(s, t, Whole(s, t))
<1>1. OfArrays(c, {NULL} \cup Strings) /\ n \in Nat
  BY DEF Legal, OfArrays
<1>2. Fails(c) <=>
        \/ n = 0
        \/ /\ ~c.same
           /\ \/ UnityIsOneArrayNull(c)
              \/ \E i \in 1 .. n : Differ(e(i), a(i))
  BY DEF Fails, UnityAssertEqualStringArray, ArrayFails
<1>3. Holds(c) <=>
        /\ n > 0
        /\ \/ c.same
           \/ /\ c.expected # NULL /\ c.actual # NULL
              /\ \A i \in 1 .. n : SameText(e(i), a(i))
  BY DEF Holds, Whether
<1>4. ASSUME ~c.same, c.expected # NULL, c.actual # NULL, NEW i \in 1 .. n
      PROVE  Differ(e(i), a(i)) <=> ~SameText(e(i), a(i))
  <2>1. e(i) \in {NULL} \cup Strings /\ a(i) \in {NULL} \cup Strings
    BY <1>1, <1>4, ElementsOf
  <2> HIDE DEF e, a
  <2>2. CASE e(i) = NULL \/ a(i) = NULL
    BY <2>2 DEF SameText
  <2>3. CASE ~(e(i) = NULL \/ a(i) = NULL)
    BY <2>1, <2>3, WholeTexts
  <2> QED
    BY <2>2, <2>3
<1> HIDE DEF e, a, n, Differ
<1> QED
  BY <1>1, <1>2, <1>3, <1>4, OneNull DEF Exact

\* The element k of s, as elements of n bytes.
LEMMA ElementIs ==
    ASSUME NEW s \in Seq(Int), NEW n \in Nat \ {0}, NEW k \in Nat \ {0}, k * n =< Len(s)
    PROVE  Element(s, k, n) = [j \in 1 .. n |-> s[(k - 1) * n + j]]
<1> DEFINE b == (k - 1) * n
           m == k * n
           p == Len(s)
<1>1. b \in Nat /\ m \in Nat /\ m = b + n /\ p \in Nat /\ m =< p
  <2>1. k - 1 \in Nat /\ k = (k - 1) + 1
    OBVIOUS
  <2>2. ((k - 1) + 1) * n = (k - 1) * n + n /\ (k - 1) * n \in Nat
    BY <2>1
  <2> QED
    BY <2>1, <2>2
<1>2. Element(s, k, n) = SubSeq(s, b + 1, m)
  BY DEF Element
<1> HIDE DEF b, m
<1>3. SubSeq(s, b + 1, m) = [j \in 1 .. n |-> s[b + j]]
  <2>1. SubSeq(s, b + 1, m) = [j \in 1 .. m - (b + 1) + 1 |-> s[j + (b + 1) - 1]]
    BY <1>1
  <2>2. m - (b + 1) + 1 = n /\ \A j \in 1 .. n : j + (b + 1) - 1 = b + j
    BY <1>1
  <2> QED
    BY <2>1, <2>2
<1> QED
  BY <1>2, <1>3 DEF b

\* A byte of m elements of n bytes is a byte of one of them.
LEMMA BytesOfElements ==
    ASSUME NEW m \in Nat, NEW n \in Nat \ {0}
    PROVE  /\ \A i \in 1 .. m * n : \E k \in 1 .. m, j \in 1 .. n : i = (k - 1) * n + j
           /\ \A k \in 1 .. m, j \in 1 .. n :
                 /\ (k - 1) * n + j \in 1 .. m * n
                 /\ ((((k - 1) * n + j) - 1) % n) + 1 = j
<1>1. ASSUME NEW i \in 1 .. m * n
      PROVE  \E k \in 1 .. m, j \in 1 .. n : i = (k - 1) * n + j
  <2>1. i - 1 \in Int /\ m * n \in Nat
    OBVIOUS
  <2>2. PICK q \in Int, r1 \in 0 .. n - 1 : i - 1 = n * q + r1
    BY <2>1, Parts
  <2> DEFINE P == n * q
             T == m * n
  <2>3. P \in Int /\ T \in Nat /\ i - 1 = P + r1 /\ i \in 1 .. T
    BY <2>1, <2>2
  <2>4. q >= 0
    <3>1. CASE q =< -1
      <4>1. P =< -n
        BY <3>1
      <4> HIDE DEF P, T
      <4> QED
        BY <2>3, <4>1
    <3> QED
      BY <3>1
  <2>5. q < m
    <3>1. CASE q >= m
      <4>1. P >= T
        BY <3>1
      <4> HIDE DEF P, T
      <4> QED
        BY <2>3, <4>1
    <3> QED
      BY <3>1
  <2>6. q + 1 \in 1 .. m /\ r1 + 1 \in 1 .. n /\ ((q + 1) - 1) * n = P
    BY <2>4, <2>5
  <2> HIDE DEF P, T
  <2>7. i = ((q + 1) - 1) * n + (r1 + 1)
    BY <2>3, <2>6
  <2> QED
    BY <2>6, <2>7
<1>2. ASSUME NEW k \in 1 .. m, NEW j \in 1 .. n
      PROVE  /\ (k - 1) * n + j \in 1 .. m * n
             /\ ((((k - 1) * n + j) - 1) % n) + 1 = j
  <2> DEFINE b == (k - 1) * n
             T == m * n
             d == k - 1
             t == j - 1
             x == (b + j) - 1
  <2>1. b \in Nat /\ T \in Nat /\ b + n =< T /\ b = n * d /\ d \in Int /\ t \in 0 .. n - 1
    <3>1. k * n = (k - 1) * n + n
      OBVIOUS
    <3>2. k * n =< m * n
      OBVIOUS
    <3> QED
      BY <3>1, <3>2
  <2> HIDE DEF b, T
  <2>2. b + j \in 1 .. T
    BY <2>1
  <2>3. x = n * d + t
    BY <2>1
  <2> HIDE DEF d, t, x
  <2>4. x % n = t
    BY <2>1, <2>3, OneQuotient
  <2>5. (x % n) + 1 = j
    BY <2>4 DEF t
  <2> QED
    BY <2>2, <2>5 DEF b, T, x
<1> QED
  BY <1>1, <1>2

LEMMA EqualMemoryExact == ASSUME NEW c, Legal(c), c.op = "EQUAL_MEMORY" PROVE Exact(c)
<1> DEFINE e == c.expected
           a == c.actual
           m == c.num_elements
           n == c.length
           At(i) == IF c.array_to_array THEN i ELSE ((i - 1) % n) + 1
           Which(k) == IF c.array_to_array THEN k ELSE 1
<1>1. /\ m \in Nat /\ n \in Nat /\ e \in Pointers(Int) /\ a \in Pointers(Int)
      /\ Readable(c, IF c.array_to_array THEN m * n ELSE n, m * n)
  BY DEF Legal
<1>2. Fails(c) <=>
        \/ m = 0
        \/ n = 0
        \/ /\ ~c.same
           /\ UnityIsOneArrayNull(c) \/ \E i \in 1 .. m * n : a[i] # e[At(i)]
  BY DEF Fails, UnityAssertEqualMemory
<1>3. Holds(c) <=>
        /\ m > 0 /\ n > 0
        /\ \/ c.same
           \/ /\ e # NULL /\ a # NULL
              /\ \A k \in 1 .. m : Element(e, Which(k), n) = Element(a, k, n)
  BY DEF Holds
<1>4. ASSUME ~c.same, e # NULL, a # NULL, n # 0
      PROVE  (\E i \in 1 .. m * n : a[i] # e[At(i)])
               <=> ~ \A k \in 1 .. m : Element(e, Which(k), n) = Element(a, k, n)
  <2>1. /\ e \in Seq(Int) /\ a \in Seq(Int) /\ n \in Nat \ {0}
        /\ Len(e) >= (IF c.array_to_array THEN m * n ELSE n) /\ Len(a) >= m * n
    BY <1>1, <1>4 DEF Pointers, Readable
  <2>2. /\ \A i \in 1 .. m * n : \E k \in 1 .. m, j \in 1 .. n : i = (k - 1) * n + j
        /\ \A k \in 1 .. m, j \in 1 .. n :
                 /\ (k - 1) * n + j \in 1 .. m * n
                 /\ ((((k - 1) * n + j) - 1) % n) + 1 = j
    BY <1>1, <2>1, BytesOfElements
  <2>3. \A k \in 1 .. m : k * n =< m * n
    BY <1>1, <2>1
  <2>4. ASSUME NEW k \in 1 .. m, NEW j \in 1 .. n
        PROVE  At((k - 1) * n + j) = (Which(k) - 1) * n + j
    <3>1. (1 - 1) * n + j = j
      BY <2>1
    <3> QED
      BY <2>2, <3>1
  <2>5. ASSUME NEW k \in 1 .. m
        PROVE  Element(e, Which(k), n) = Element(a, k, n) <=>
                 \A j \in 1 .. n : e[At((k - 1) * n + j)] = a[(k - 1) * n + j]
    <3>1. Which(k) \in Nat \ {0} /\ k \in Nat \ {0}
      BY <1>1
    <3>2. Which(k) * n =< Len(e) /\ k * n =< Len(a)
      <4>1. k * n =< m * n /\ k * n \in Int /\ m * n \in Int /\ Len(e) \in Int /\ Len(a) \in Int
        <5>1. k * n =< m * n
          BY <2>3
        <5>2. k \in Int /\ n \in Int /\ m \in Int /\ Len(e) \in Int /\ Len(a) \in Int
          BY <1>1, <2>1
        <5> HIDE DEF e, a, n, m
        <5> QED
          BY <5>1, <5>2
      <4> DEFINE K == k * n
                 T == m * n
      <4>2. CASE c.array_to_array
        <5>1. Which(k) * n = K /\ Len(e) >= T /\ Len(a) >= T
          BY <2>1, <4>2
        <5> HIDE DEF K, T
        <5> QED
          BY <4>1, <5>1 DEF K, T
      <4>3. CASE ~c.array_to_array
        <5>1. Which(k) * n = n /\ Len(e) >= n /\ Len(a) >= T
          BY <2>1, <4>3
        <5> HIDE DEF K, T
        <5> QED
          BY <2>1, <4>1, <5>1 DEF K, T
      <4> QED
        BY <4>2, <4>3
    <3> DEFINE w == Which(k)
    <3>3. e \in Seq(Int) /\ a \in Seq(Int) /\ n \in Nat \ {0}
      BY <2>1
    <3> HIDE DEF e, a, n, w, At
    <3>4. Element(e, w, n) = Element(a, k, n) <=>
             \A j \in 1 .. n : e[(w - 1) * n + j] = a[(k - 1) * n + j]
      <4>1. w \in Nat \ {0} /\ k \in Nat \ {0} /\ w * n =< Len(e) /\ k * n =< Len(a)
        BY <3>1, <3>2 DEF w
      <4> QED
        <5> DEFINE f == [j \in 1 .. n |-> e[(w - 1) * n + j]]
                   g == [j \in 1 .. n |-> a[(k - 1) * n + j]]
        <5>1. Element(e, w, n) = f
          BY ONLY <3>3, <4>1, ElementIs
        <5>2. Element(a, k, n) = g
          BY ONLY <3>3, <4>1, ElementIs
        <5>3. f = g <=> \A j \in 1 .. n : e[(w - 1) * n + j] = a[(k - 1) * n + j]
          OBVIOUS
        <5> QED
          BY ONLY <5>1, <5>2, <5>3
    <3> QED
      BY <2>4, <3>4 DEF w
  <2> HIDE DEF e, a, m, n, At, Which
  <2>6. ASSUME NEW i \in 1 .. m * n, a[i] # e[At(i)]
        PROVE  \E k \in 1 .. m : Element(e, Which(k), n) # Element(a, k, n)
    <3>1. PICK k \in 1 .. m, j \in 1 .. n : i = (k - 1) * n + j
      BY <2>2
    <3>2. e[At((k - 1) * n + j)] # a[(k - 1) * n + j]
      BY <2>6, <3>1
    <3> QED
      BY <2>5, <3>2
  <2>7. ASSUME NEW k \in 1 .. m, Element(e, Which(k), n) # Element(a, k, n)
        PROVE  \E i \in 1 .. m * n : a[i] # e[At(i)]
    <3>1. PICK j \in 1 .. n : e[At((k - 1) * n + j)] # a[(k - 1) * n + j]
      BY <2>5, <2>7
    <3> DEFINE i == (k - 1) * n + j
    <3>2. i \in 1 .. m * n /\ a[i] # e[At(i)]
      BY <2>2, <3>1
    <3> HIDE DEF i
    <3> QED
      BY <3>2
  <2> QED
    BY <2>6, <2>7
<1>5. (m > 0 <=> m # 0) /\ (n > 0 <=> n # 0)
  BY <1>1
<1>6. UnityIsOneArrayNull(c) <=> ~(e # NULL /\ a # NULL)
  BY OneNull
<1> HIDE DEF e, a, m, n, At, Which
<1> QED
  BY <1>2, <1>3, <1>4, <1>5, <1>6 DEF Exact

LEMMA NotEqualMemoryExact == ASSUME NEW c, Legal(c), c.op = "NOT_EQUAL_MEMORY" PROVE Exact(c)
<1> DEFINE e == c.expected
           a == c.actual
           n == c.length
<1>1. /\ n \in Nat /\ e \in Pointers(Int) /\ a \in Pointers(Int)
      /\ Readable(c, n, n)
  BY DEF Legal
<1>2. Fails(c) <=>
        n = 0 \/ c.same \/ (~UnityIsOneArrayNull(c) /\ \A i \in 1 .. n : e[i] = a[i])
  BY DEF Fails, UnityAssertNotEqualMemory
<1>3. Holds(c) <=> n > 0 /\ ~c.same /\ (NULL \in {e, a} \/ UpTo(e, n) # UpTo(a, n))
  BY DEF Holds
<1>4. ASSUME ~c.same, e # NULL, a # NULL
      PROVE  UpTo(e, n) = UpTo(a, n) <=> \A i \in 1 .. n : e[i] = a[i]
  <2>1. e \in Seq(Int) /\ a \in Seq(Int) /\ Len(e) >= n /\ Len(a) >= n
    BY <1>1, <1>4 DEF Pointers, Readable
  <2> DEFINE u == UpTo(e, n)
             v == UpTo(a, n)
  <2>2. /\ (IF n =< Len(e) THEN n ELSE Len(e)) = n
        /\ (IF n =< Len(a) THEN n ELSE Len(a)) = n
    BY <1>1, <2>1
  <2> HIDE DEF e, a, n
  <2>3. /\ u \in Seq(Int) /\ DOMAIN u = 1 .. n /\ \A i \in 1 .. n : u[i] = e[i]
        /\ v \in Seq(Int) /\ DOMAIN v = 1 .. n /\ \A i \in 1 .. n : v[i] = a[i]
    BY <1>1, <2>1, <2>2, UpToIs
  <2> HIDE DEF u, v
  <2>4. u = [i \in 1 .. n |-> u[i]] /\ v = [i \in 1 .. n |-> v[i]]
    BY <2>3
  <2>5. u = v <=> \A i \in 1 .. n : u[i] = v[i]
    BY <2>4
  <2> QED
    BY <2>3, <2>5 DEF u, v
<1>5. n > 0 <=> n # 0
  BY <1>1
<1>6. UnityIsOneArrayNull(c) <=> ~(e # NULL /\ a # NULL)
  BY OneNull
<1> HIDE DEF e, a, n
<1> QED
  BY <1>1, <1>2, <1>3, <1>4, <1>5, <1>6 DEF Exact, Readable

-----------------------------------------------------------------------------
(* The assertions about floats                                              *)

LEMMA FloatFacts ==
    /\ \A x \in Floats : Finite(x) <=> x \in -FloatMax .. FloatMax
    /\ \A x \in Floats : Finite(x) \/ x = Inf \/ x = NegInf \/ x = NaN
    /\ \A x \in Int : Finite(x) /\ x # NaN /\ x # Inf /\ x # NegInf
    /\ \A x \in Int : Size(x) = (IF x >= 0 THEN x ELSE -x) /\ Size(x) \in Nat
    /\ ~Finite(NaN) /\ ~Finite(Inf) /\ ~Finite(NegInf)
<1>1. /\ FloatMax \in Nat /\ NaN \notin Int /\ Inf \notin Int /\ NegInf \notin Int
      /\ NaN # Inf /\ NaN # NegInf /\ Inf # NegInf
  BY AssertsAssumption
<1>2. \A x \in Int : Finite(x) /\ x # NaN /\ x # Inf /\ x # NegInf
  BY <1>1 DEF Finite, Infinite
<1>3. ~Finite(NaN) /\ ~Finite(Inf) /\ ~Finite(NegInf)
  BY DEF Finite, Infinite
<1>4. -FloatMax .. FloatMax \subseteq Int
  BY <1>1
<1>5. \A x \in Floats : x \in -FloatMax .. FloatMax \/ x = Inf \/ x = NegInf \/ x = NaN
  BY DEF Floats
<1>6. ASSUME NEW x \in Int PROVE Size(x) = (IF x >= 0 THEN x ELSE -x) /\ Size(x) \in Nat
  <2>1. Size(x) = Max({x, -x})
    BY <1>2 DEF Size
  <2>2. -x \in Int
    OBVIOUS
  <2>3. Max({x, -x}) = IF x >= -x THEN x ELSE -x
    BY <2>2, MaxOfTwo
  <2> QED
    BY <2>1, <2>3
<1> QED
  BY <1>1, <1>2, <1>3, <1>4, <1>5, <1>6

\* The relation of two floats that the code computes is nearness, if the
\* tolerance is a float.
LEMMA FloatsWithinIs ==
    ASSUME NEW units \in Int, Size(units) =< Precision * FloatMax,
           NEW e \in Floats, NEW a \in Floats
    PROVE  UnityFloatsWithin(units, e, a) <=> Near(Size(units), e, a)
<1>1. FloatMax \in Nat /\ Precision \in Nat \ {0}
  BY AssertsAssumption
<1>2. CASE Finite(e) /\ Finite(a)
  <2> DEFINE d == a - e
             z == Size(d)
             u == Size(units)
             p == Precision * z
             L == Precision * FloatMax
  <2>1. e \in Int /\ a \in Int /\ d \in Int
    BY <1>1, <1>2, FloatFacts
  <2>2. Distance(e, a) = z /\ z \in Nat /\ (e = a <=> z = 0)
    <3>1. z = IF d >= 0 THEN d ELSE -d
      BY <2>1, FloatFacts
    <3>2. Distance(e, a) = IF e > a THEN e - a ELSE a - e
      BY <2>1, DistanceIs
    <3> HIDE DEF z
    <3> QED
      BY <2>1, <3>1, <3>2
  <2>3. u \in Nat /\ p \in Nat /\ L \in Nat /\ u =< L
    BY <1>1, <2>2, FloatFacts
  <2>4. /\ e \notin Infinite /\ e # NaN /\ a # NaN
    BY <2>1, FloatFacts DEF Infinite
  <2>5. Less(u, p) <=> u < p
    <3> HIDE DEF u, p
    <3>1. u \in Int /\ p \in Int
      BY <2>3
    <3> QED
      BY <3>1, FloatFacts DEF Less
  <2>6. DiffFinite(a, e) <=> z =< FloatMax
    BY <1>2 DEF DiffFinite
  <2>7. UnityFloatsWithin(units, e, a) <=> z =< FloatMax /\ ~(u < p)
    BY <2>4, <2>5, <2>6 DEF UnityFloatsWithin
  <2>8. Near(u, e, a) <=> e = a \/ p =< u
    BY <1>2, <2>2 DEF Near
  <2>9. z > FloatMax => p > L
    BY <1>1, <2>2
  <2>10. z = 0 => p = 0
    BY <1>1, <2>2
  <2> HIDE DEF d, z, u, p, L
  <2>11. UnityFloatsWithin(units, e, a) <=> Near(u, e, a)
    BY <1>1, <2>2, <2>3, <2>7, <2>8, <2>9, <2>10
  <2> QED
    BY <2>11 DEF u
<1>3. CASE ~(Finite(e) /\ Finite(a))
  <2>1. Near(Size(units), e, a) <=> e = a
    BY <1>3 DEF Near
  <2>2. ~DiffFinite(a, e)
    BY <1>3 DEF DiffFinite
  <2>3. UnityFloatsWithin(units, e, a) <=> (e \in Infinite /\ e = a) \/ (e = NaN /\ a = NaN)
    BY <2>2 DEF UnityFloatsWithin
  <2>4. e = a => e \in Infinite \/ e = NaN
    BY <1>3 DEF Finite
  <2> QED
    BY <2>1, <2>3, <2>4
<1> QED
  BY <1>2, <1>3

\* Whatever the tolerance, nothing but itself is near a float that is not a
\* number.
LEMMA NotFiniteWithin ==
    ASSUME NEW units, NEW other, NEW e, NEW a, ~Finite(e) \/ ~Finite(a)
    PROVE  UnityFloatsWithin(units, e, a) <=> Near(other, e, a)
<1>1. Near(other, e, a) <=> e = a
  BY DEF Near
<1>2. ~DiffFinite(a, e)
  BY DEF DiffFinite
<1>3. UnityFloatsWithin(units, e, a) <=> (e \in Infinite /\ e = a) \/ (e = NaN /\ a = NaN)
  BY <1>2 DEF UnityFloatsWithin
<1>4. e = a => e \in Infinite \/ e = NaN
  BY DEF Finite
<1> QED
  BY <1>1, <1>3, <1>4

\* A float as the tolerance of another one.
LEMMA OwnSizeIs ==
    ASSUME NEW e \in Floats, NEW a \in Floats
    PROVE  /\ UnityFloatsWithin(e, e, a) <=> Near(Size(e), e, a)
           /\ UnityFloatsWithin(Size(e), e, a) <=> Near(Size(e), e, a)
<1>1. CASE Finite(e)
  <2>1. FloatMax \in Nat /\ Precision \in Nat \ {0}
    BY AssertsAssumption
  <2>2. e \in Int /\ -FloatMax =< e /\ e =< FloatMax
    BY <1>1, <2>1, FloatFacts
  <2>3. Size(e) = (IF e >= 0 THEN e ELSE -e) /\ Size(e) \in Nat
    BY <2>2, FloatFacts
  <2> DEFINE z == Size(e)
             L == Precision * FloatMax
  <2>4. L \in Nat /\ FloatMax =< L
    BY <2>1
  <2> HIDE DEF L, z
  <2>5. z \in Int /\ z =< L /\ Size(z) = z
    BY <2>1, <2>2, <2>3, <2>4, FloatFacts DEF z
  <2>6. UnityFloatsWithin(e, e, a) <=> Near(z, e, a)
    BY <2>2, <2>5, FloatsWithinIs DEF z, L
  <2>7. UnityFloatsWithin(z, e, a) <=> Near(z, e, a)
    BY <2>5, FloatsWithinIs DEF L
  <2> QED
    BY <2>6, <2>7 DEF z
<1>2. CASE ~Finite(e)
  BY <1>2, NotFiniteWithin
<1> QED
  BY <1>1, <1>2

LEMMA FloatWithinExact ==
    ASSUME NEW c, Legal(c), c.op \in {"FLOAT_WITHIN", "FLOAT_NOT_WITHIN"}
    PROVE  Exact(c)
<1> DEFINE d == c.delta
           u == Precision * d
           within == UnityFloatsWithin(u, c.expected, c.actual)
           near == Near(Precision * Size(d), c.expected, c.actual)
<1>1. /\ d \in -FloatMax .. FloatMax /\ c.expected \in Floats /\ c.actual \in Floats
      /\ FloatMax \in Nat /\ Precision \in Nat \ {0}
  BY AssertsAssumption DEF Legal
<1>2. d \in Int /\ Size(d) \in Nat /\ Size(d) =< FloatMax /\ Size(d) = (IF d >= 0 THEN d ELSE -d)
  BY <1>1, FloatFacts
<1>3. u \in Int /\ Size(u) = Precision * Size(d)
  <2>1. u \in Int
    BY <1>1, <1>2
  <2>2. Size(u) = IF u >= 0 THEN u ELSE -u
    BY <2>1, FloatFacts
  <2>3. CASE d >= 0
    BY <1>1, <1>2, <2>2, <2>3
  <2>4. CASE d < 0
    <3>1. Precision * (-d) = -u /\ u < 0
      BY <1>1, <1>2, <2>4
    <3>2. Size(d) = -d
      BY <1>2, <2>4
    <3>3. Size(u) = -u
      BY <2>1, <2>2, <3>1
    <3> HIDE DEF u
    <3> QED
      BY ONLY <2>1, <3>1, <3>2, <3>3
  <2> QED
    BY <1>2, <2>3, <2>4
<1>4. Size(u) =< Precision * FloatMax
  BY <1>1, <1>2, <1>3
<1>5. within <=> near
  <2>1. within <=> Near(Size(u), c.expected, c.actual)
    <3> HIDE DEF u
    <3> QED
      BY <1>1, <1>3, <1>4, FloatsWithinIs
  <2> QED
    BY <1>3, <2>1
<1>6. CASE c.op = "FLOAT_WITHIN"
  <2>1. Fails(c) <=> ~within
    BY <1>6 DEF Fails, UnityAssertFloatsWithin
  <2>2. Holds(c) <=> near
    BY <1>6 DEF Holds
  <2> QED
    BY <1>5, <2>1, <2>2 DEF Exact
<1>7. CASE c.op = "FLOAT_NOT_WITHIN"
  <2>1. Fails(c) <=> within
    BY <1>7 DEF Fails, UnityAssertFloatsNotWithin
  <2>2. Holds(c) <=> ~near
    BY <1>7 DEF Holds
  <2> QED
    BY <1>5, <2>1, <2>2 DEF Exact
<1> QED
  BY <1>6, <1>7

LEMMA EqualFloatExact ==
    ASSUME NEW c, Legal(c), c.op \in {"EQUAL_FLOAT", "NOT_EQUAL_FLOAT"}
    PROVE  Exact(c)
<1> DEFINE near == Near(Size(c.expected), c.expected, c.actual)
<1>1. c.expected \in Floats /\ c.actual \in Floats
  BY DEF Legal
<1>2. WithinOwnSize(c) <=> near
  BY <1>1, OwnSizeIs DEF WithinOwnSize
<1>3. CASE c.op = "EQUAL_FLOAT"
  <2>1. Fails(c) <=> ~WithinOwnSize(c)
    BY <1>3 DEF Fails
  <2>2. Holds(c) <=> near
    BY <1>3 DEF Holds
  <2> QED
    BY <1>2, <2>1, <2>2 DEF Exact
<1>4. CASE c.op = "NOT_EQUAL_FLOAT"
  <2>1. Fails(c) <=> WithinOwnSize(c)
    BY <1>4 DEF Fails
  <2>2. Holds(c) <=> ~near
    BY <1>4 DEF Holds
  <2> QED
    BY <1>2, <2>1, <2>2 DEF Exact
<1> QED
  BY <1>3, <1>4

LEMMA FloatArrayExact == ASSUME NEW c, Legal(c), c.op = "FLOAT_ARRAY" PROVE Exact(c)
<1> DEFINE e(i) == c.expected[IF c.array_to_array THEN i ELSE 1]
           a(i) == c.actual[i]
           n == c.num_elements
           d == c.delta
           Given(x) == IF Finite(x) THEN Precision * Size(d) + Size(x) ELSE Size(x)
           Asked(x) == Precision * Size(d) + (IF Finite(x) THEN Size(x) ELSE 0)
<1>1. /\ OfArrays(c, Floats) /\ n \in Nat /\ d \in Floats
      /\ c.expected # NULL => \A i \in DOMAIN c.expected : Tolerable(c, c.expected[i])
  BY DEF Legal, OfArrays
<1>2. Fails(c) <=>
        \/ n = 0
        \/ d = NaN
        \/ /\ d \notin Infinite
           /\ \/ n = 0
              \/ /\ ~c.same
                 /\ \/ UnityIsOneArrayNull(c)
                    \/ \E i \in 1 .. n : ~UnityFloatsWithin(Given(e(i)), e(i), a(i))
  BY DEF Fails, UnityAssertWithinFloatArray, ArrayFails
<1>3. Holds(c) <=>
        /\ n > 0 /\ d # NaN
        /\ \/ d \in Infinite
           \/ /\ n > 0
              /\ \/ c.same
                 \/ /\ c.expected # NULL /\ c.actual # NULL
                    /\ \A i \in 1 .. n : Near(Asked(e(i)), e(i), a(i))
  BY DEF Holds, Whether
<1>4. ASSUME ~c.same, c.expected # NULL, c.actual # NULL, NEW i \in 1 .. n,
             d # NaN, d \notin Infinite
      PROVE  UnityFloatsWithin(Given(e(i)), e(i), a(i)) <=> Near(Asked(e(i)), e(i), a(i))
  <2>1. e(i) \in Floats /\ a(i) \in Floats
    BY <1>1, <1>4, ElementsOf
  <2>2. (IF c.array_to_array THEN i ELSE 1) \in DOMAIN c.expected
    <3>1. /\ c.expected \in Seq(Floats)
          /\ Len(c.expected) >= (IF c.array_to_array THEN n ELSE 1)
      BY <1>1, <1>4 DEF OfArrays, Readable, Pointers
    <3> QED
      BY <1>1, <3>1
  <2>3. Tolerable(c, e(i))
    BY <1>1, <1>4, <2>2
  <2>4. Finite(d)
    BY <1>4 DEF Finite
  <2> HIDE DEF e, a
  <2>5. CASE Finite(e(i))
    <3> DEFINE u == Given(e(i))
               s1 == Precision * Size(d)
               s2 == Size(e(i))
    <3>1. FloatMax \in Nat /\ Precision \in Nat \ {0}
      BY AssertsAssumption
    <3>2. d \in Int /\ e(i) \in Int
      BY <1>1, <2>1, <2>4, <2>5, <3>1, FloatFacts
    <3>3. Size(d) \in Nat /\ s2 \in Nat
      BY <3>2, FloatFacts
    <3>4. s1 \in Nat /\ u = s1 + s2 /\ u =< Precision * FloatMax /\ Asked(e(i)) = u
      BY <2>3, <2>4, <2>5, <3>1, <3>3 DEF Tolerable
    <3> HIDE DEF u, s1, s2, Asked
    <3>5. u \in Int /\ Size(u) = u
      BY <3>3, <3>4, FloatFacts
    <3>6. UnityFloatsWithin(u, e(i), a(i)) <=> Near(u, e(i), a(i))
      BY <2>1, <3>4, <3>5, FloatsWithinIs
    <3> QED
      BY <3>4, <3>6 DEF u
  <2>6. CASE ~Finite(e(i))
    BY <2>6, NotFiniteWithin
  <2> QED
    BY <2>5, <2>6
<1>5. n > 0 <=> n # 0
  BY <1>1
<1>6. UnityIsOneArrayNull(c) <=> ~(c.expected # NULL /\ c.actual # NULL)
  BY OneNull
<1> HIDE DEF e, a, n, d, Given, Asked
<1> QED
  BY <1>2, <1>3, <1>4, <1>5, <1>6 DEF Exact

LEMMA FloatCompareExact == ASSUME NEW c, Legal(c), c.op = "FLOAT_COMPARE" PROVE Exact(c)
<1> DEFINE t == c.threshold
           a == c.actual
           s == Size(t)
<1>1. /\ t \in Floats /\ a \in Floats
      /\ c.compare \in {{"GREATER_THAN"}, {"GREATER_THAN", "EQUAL_TO"},
                        {"SMALLER_THAN"}, {"SMALLER_THAN", "EQUAL_TO"}}
  BY DEF Legal
<1>2. Fails(c) <=>
        /\ \/ "SMALLER_THAN" \in c.compare /\ ~Less(a, t)
           \/ "GREATER_THAN" \in c.compare /\ ~Less(t, a)
        /\ ~("EQUAL_TO" \in c.compare /\ UnityFloatsWithin(s, t, a))
  BY DEF Fails, UnityAssertGreaterOrLessFloat
<1>3. Holds(c) <=>
        \/ "EQUAL_TO" \in c.compare /\ Near(s, a, t)
        \/ "GREATER_THAN" \in c.compare /\ Less(t, a)
        \/ "SMALLER_THAN" \in c.compare /\ Less(a, t)
  BY DEF Holds
<1>4. UnityFloatsWithin(s, t, a) <=> Near(s, t, a)
  BY <1>1, OwnSizeIs
<1>5. Near(s, t, a) <=> Near(s, a, t)
  <2>1. Finite(a) /\ Finite(t) => Distance(t, a) = Distance(a, t)
    <3>1. ASSUME Finite(a), Finite(t) PROVE Distance(t, a) = Distance(a, t)
      <4>1. a \in Int /\ t \in Int
        <5>1. FloatMax \in Nat
          BY AssertsAssumption
        <5> QED
          BY <1>1, <3>1, <5>1, FloatFacts
      <4> HIDE DEF a, t
      <4> QED
        BY <4>1, DistanceIs
    <3> QED
      BY <3>1
  <2> QED
    BY <2>1 DEF Near
<1> HIDE DEF t, a, s
<1> QED
  BY <1>1, <1>2, <1>3, <1>4, <1>5 DEF Exact

LEMMA FloatSpecialExact == ASSUME NEW c, Legal(c), c.op = "FLOAT_SPECIAL" PROVE Exact(c)
<1> DEFINE is == CASE c.trait = "INF"     -> c.actual = Inf
                   [] c.trait = "NEG_INF" -> c.actual = NegInf
                   [] c.trait = "NAN"     -> c.actual = NaN
                   [] c.trait = "DET"     -> Finite(c.actual)
           those == CASE c.trait = "INF"     -> {Inf}
                      [] c.trait = "NEG_INF" -> {NegInf}
                      [] c.trait = "NAN"     -> {NaN}
                      [] c.trait = "DET"     -> -FloatMax .. FloatMax
<1>1. /\ c.trait \in {"INF", "NEG_INF", "NAN", "DET"}
      /\ c.should_be \in BOOLEAN /\ c.actual \in Floats
  BY DEF Legal
<1>2. Fails(c) <=> c.should_be # is
  BY DEF Fails, UnityAssertFloatSpecial
<1>3. Holds(c) <=> (c.should_be <=> c.actual \in those)
  BY DEF Holds
<1>4. is \in BOOLEAN /\ (is <=> c.actual \in those)
  <2>1. Finite(c.actual) \in BOOLEAN
    BY DEF Finite
  <2>2. CASE c.trait = "INF"
    BY <2>2
  <2>3. CASE c.trait = "NEG_INF"
    BY <2>3
  <2>4. CASE c.trait = "NAN"
    BY <2>4
  <2>5. CASE c.trait = "DET"
    BY <1>1, <2>1, <2>5, FloatFacts
  <2> QED
    BY <1>1, <2>2, <2>3, <2>4, <2>5
<1> HIDE DEF is, those
<1> QED
  BY <1>1, <1>2, <1>3, <1>4 DEF Exact

-----------------------------------------------------------------------------
\* An assertion fails exactly when what its name says of its arguments does
\* not hold, whatever its arguments are (Fails is what unity.c does, Holds what
\* the name promises).
THEOREM AssertionsExact == ASSUME NEW c, Legal(c) PROVE Exact(c)
BY BitsExact, EqualExact, CompareExact, WithinExact, EqualArrayExact, ArrayWithinExact,
   StringExact, StringArrayExact, EqualMemoryExact, NotEqualMemoryExact,
   FloatWithinExact, EqualFloatExact, FloatArrayExact, FloatCompareExact, FloatSpecialExact
   DEF Legal, StringOps

\* Every assertion of every process is such a call (unity.c:768-2140), so none
\* passes that should fail or fails that should pass.
THEOREM VerdictsExact == UnitySpec => []VerdictExact
<1> DEFINE Which == call = NULL \/ call \in Calls
<1>1. UnityInit => Which
  BY DEF UnityInit
<1>2. Which /\ [UnityNext]_<<vars, call>> => Which'
  BY DEF UnityNext
<1>3. Which => VerdictExact
  BY CallsAssumption, AssertionsExact DEF VerdictExact, Exact
<1> QED
  BY <1>1, <1>2, <1>3, PTL DEF UnitySpec

-----------------------------------------------------------------------------
(* What is printed                                                          *)

\* The function that Worth computes with.
LEMMA WorthFunction ==
    ASSUME NEW b \in Int, NEW L \in Nat, NEW d \in [1 .. L -> Int]
    PROVE  \E v \in [0 .. L -> Int] :
              /\ v[0] = 0 /\ \A i \in 1 .. L : v[i] = v[i - 1] * b + d[i]
              /\ Worth(d, b) = v[L]
<1> DEFINE h(i) == IF i \in 1 .. L THEN d[i] ELSE 0
           g == [i \in Nat |-> [k \in Int |-> k * b + h(i)]]
           zero == 0
<1>1. zero \in Int /\ g \in [Nat -> [Int -> Int]]
  OBVIOUS
<1>2. \A i \in 1 .. L, k \in Int : g[i][k] = k * b + d[i]
  OBVIOUS
<1> HIDE DEF g, zero, h
<1>3. PICK f : Recurses(f, Int, zero, g, L)
  BY <1>1, RecursionExists
<1>4. f \in [0 .. L -> Int] /\ f[0] = 0 /\ \A i \in 1 .. L : f[i] = f[i - 1] * b + d[i]
  <2>1. ASSUME NEW i \in 1 .. L PROVE f[i] = f[i - 1] * b + d[i]
    <3>1. i - 1 \in 0 .. L
      OBVIOUS
    <3>2. f[i - 1] \in Int /\ f[i] = g[i][f[i - 1]]
      BY <1>3, <3>1 DEF Recurses
    <3> QED
      BY <1>2, <3>2
  <2> QED
    BY <1>3, <2>1 DEF Recurses, zero
<1>5. Len(d) = L
  OBVIOUS
<1> DEFINE n == CHOOSE n : n = [i \in 0 .. L |-> IF i = 0 THEN 0 ELSE n[i - 1] * b + d[i]]
<1>6. f = [i \in 0 .. L |-> IF i = 0 THEN 0 ELSE f[i - 1] * b + d[i]]
  BY <1>4
<1>7. n = [i \in 0 .. L |-> IF i = 0 THEN 0 ELSE n[i - 1] * b + d[i]]
  BY <1>6
<1>8. Worth(d, b) = n[L]
  BY <1>5 DEF Worth
<1> HIDE DEF n
<1>9. n[0] = 0 /\ DOMAIN n = 0 .. L /\ \A i \in 1 .. L : n[i] = n[i - 1] * b + d[i]
  BY <1>7
<1> DEFINE T == {i \in Nat : i =< L => n[i] = f[i]}
<1>10. 0 \in T
  BY <1>4, <1>9
<1>11. ASSUME NEW i \in Nat, i \in T PROVE i + 1 \in T
  <2>1. CASE i + 1 =< L
    <3>1. i + 1 \in 1 .. L /\ (i + 1) - 1 = i /\ n[i] = f[i]
      BY <1>11, <2>1
    <3>2. n[i + 1] = n[i] * b + d[i + 1] /\ f[i + 1] = f[i] * b + d[i + 1]
      BY <1>4, <1>9, <3>1
    <3> QED
      BY <3>1, <3>2
  <2> QED
    BY <2>1
<1>12. \A i \in Nat : i \in T
  BY <1>10, <1>11, Induction
<1>13. n[L] = f[L]
  BY <1>12
<1> QED
  BY <1>4, <1>8, <1>13

\* The last L digits of a number denote it up to multiples of b ^ L.
LEMMA DigitsDenote ==
    ASSUME NEW b \in Nat \ {0}, NEW L \in Nat, NEW m \in Nat,
           NEW d, d = [i \in 1 .. L |-> (m \div Power(b, L - i)) % b]
    PROVE  Worth(d, b) = m % Power(b, L)
<1> DEFINE q(i) == m \div Power(b, L - i)
           Q == m \div Power(b, L)
<1>1. \A i \in 0 .. L : Power(b, i) \in Nat \ {0} /\ Power(b, L - i) \in Nat \ {0}
  <2>1. \A i \in 0 .. L : i \in Nat /\ L - i \in Nat
    OBVIOUS
  <2> QED
    BY <2>1, PowerPositive
<1>2. Q \in Int /\ \A i \in 0 .. L : q(i) \in Int
  BY <1>1
<1>3. d \in [1 .. L -> Int]
  <2>1. \A i \in 1 .. L : q(i) % b \in Int
    BY <1>2
  <2> QED
    BY <2>1
<1>4. PICK v \in [0 .. L -> Int] :
              /\ v[0] = 0 /\ \A i \in 1 .. L : v[i] = v[i - 1] * b + d[i]
              /\ Worth(d, b) = v[L]
  <2>1. b \in Int
    OBVIOUS
  <2> QED
    BY ONLY L \in Nat, <1>3, <2>1, WorthFunction
<1>5. ASSUME NEW i \in 1 .. L PROVE d[i] = q(i) - b * q(i - 1)
  <2> DEFINE A == Power(b, L - i)
  <2>1. L - i \in Nat /\ L - (i - 1) = (L - i) + 1
    OBVIOUS
  <2>2. Power(b, L - (i - 1)) = A * b /\ A \in Nat \ {0}
    <3>1. Power(b, (L - i) + 1) = b * A /\ A \in Nat
      BY <2>1, PowerFacts
    <3>2. A # 0
      BY <1>1
    <3> HIDE DEF A
    <3> QED
      BY <2>1, <3>1, <3>2
  <2>3. q(i - 1) = q(i) \div b
    <3>1. q(i - 1) = m \div (A * b)
      BY <2>2
    <3>4. A \in Nat \ {0} /\ m \in Int
      BY <2>2
    <3> HIDE DEF A
    <3>2. m \div (A * b) = (m \div A) \div b
      BY ONLY <3>4, b \in Nat \ {0}, DivideTwice
    <3> QED
      BY <3>1, <3>2 DEF A
  <2>4. d[i] = q(i) % b
    OBVIOUS
  <2> DEFINE x == q(i)
  <2>5. x \in Int
    BY <1>2
  <2> HIDE DEF x
  <2>6. x % b = x - b * (x \div b)
    BY <2>5
  <2> QED
    BY <2>3, <2>4, <2>6 DEF x
<1> DEFINE T == {i \in Nat : i =< L => v[i] = q(i) - Power(b, i) * Q}
<1>6. 0 \in T
  <2>1. Power(b, 0) = 1 /\ L - 0 = L
    BY PowerFacts
  <2>2. q(0) = Q /\ v[0] = 0
    BY <1>4, <2>1
  <2> HIDE DEF Q, q
  <2>3. 1 * Q = Q /\ Q - Q = 0
    BY <1>2
  <2> QED
    BY <2>1, <2>2, <2>3
<1>7. ASSUME NEW i \in Nat, i \in T PROVE i + 1 \in T
  <2>1. CASE i + 1 =< L
    <3> DEFINE p == Power(b, i)
               x == q(i)
               y == q(i + 1)
    <3>1. i + 1 \in 1 .. L /\ (i + 1) - 1 = i /\ i \in 0 .. L /\ i + 1 \in 0 .. L
      BY <2>1
    <3>2. v[i] = x - p * Q
      BY <1>7, <3>1
    <3>3. v[i + 1] = v[i] * b + d[i + 1]
      BY <1>4, <3>1
    <3>4. d[i + 1] = y - b * x
      BY <1>5, <3>1
    <3>5. Power(b, i + 1) = b * p /\ p \in Int
      <4>1. Power(b, i + 1) = b * Power(b, i) /\ Power(b, i) \in Nat
        BY PowerFacts
      <4> QED
        BY <4>1
    <3>6. x \in Int /\ y \in Int
      BY <1>2, <3>1
    <3> HIDE DEF p, x, y, Q
    <3>7. (x - p * Q) * b + (y - b * x) = y - (b * p) * Q
      BY <1>2, <3>5, <3>6
    <3>8. v[i + 1] = y - Power(b, i + 1) * Q
      BY <3>2, <3>3, <3>4, <3>5, <3>7
    <3> QED
      BY <3>8 DEF y
  <2> QED
    BY <2>1
<1>8. \A i \in Nat : i \in T
  BY <1>6, <1>7, Induction
<1>9. v[L] = q(L) - Power(b, L) * Q
  BY <1>8
<1>10. q(L) = m
  <2>1. L - L = 0 /\ Power(b, 0) = 1
    BY PowerFacts
  <2>2. m \div 1 = m
    OBVIOUS
  <2> QED
    BY <2>1, <2>2
<1>11. m % Power(b, L) = m - Power(b, L) * Q
  <2> DEFINE M == Power(b, L)
  <2>1. M \in Nat \ {0}
    BY <1>1
  <2> HIDE DEF M
  <2>2. m % M = m - M * (m \div M)
    BY <2>1
  <2> QED
    BY <2>2 DEF M
<1> QED
  BY <1>4, <1>9, <1>10, <1>11

\* The digits that are printed for a number denote it.
LEMMA UnsignedPrinted ==
    ASSUME NEW m \in 0 .. IntMod - 1
    PROVE  Worth(UnityPrintNumberUnsigned(m), 10) = m
<1> DEFINE S == {i \in 0 .. IntBits : m \div Power(10, i) =< 9}
           k == Min(S)
<1>1. IntBits \in Nat /\ IntMod \in Nat
  BY AssertsAssumption, PowerFacts DEF IntMod
<1>2. m \in Nat
  BY <1>1
<1>3. Power(2, IntBits) =< Power(10, IntBits) /\ Power(10, IntBits) \in Nat
  <2> DEFINE T == {i \in Nat : Power(2, i) =< Power(10, i)}
  <2>1. 0 \in T
    BY PowerFacts
  <2>2. ASSUME NEW i \in Nat, i \in T PROVE i + 1 \in T
    <3>1. /\ Power(2, i + 1) = 2 * Power(2, i) /\ Power(2, i) \in Nat
          /\ Power(10, i + 1) = 10 * Power(10, i) /\ Power(10, i) \in Nat
      BY PowerFacts
    <3>2. Power(2, i) =< Power(10, i)
      BY <2>2
    <3> QED
      BY <3>1, <3>2
  <2>3. \A i \in Nat : i \in T
    BY <2>1, <2>2, Induction
  <2> QED
    BY <1>1, <2>3, PowerFacts
<1>4. IntBits \in S
  <2> DEFINE M == Power(10, IntBits)
  <2>1. M \in Nat \ {0} /\ m \in 0 .. M - 1
    BY <1>1, <1>3 DEF IntMod
  <2> HIDE DEF M
  <2>2. m = M * 0 + m
    BY <2>1
  <2>3. m \div M = 0
    BY <2>1
  <2> QED
    BY <1>1, <2>3 DEF M
<1>5. k \in 0 .. IntBits /\ m \div Power(10, k) =< 9
  <2>1. S \in SUBSET Nat /\ S # {}
    BY <1>1, <1>4
  <2>2. k \in S
    BY <2>1, MinOfNumbers
  <2> QED
    BY <2>2
<1>6. UnityPrintNumberUnsigned(m) = [i \in 1 .. k + 1 |-> (m \div Power(10, k + 1 - i)) % 10]
  BY DEF UnityPrintNumberUnsigned
<1> HIDE DEF k, S
<1>7. k \in Nat /\ k + 1 \in Nat
  BY <1>1, <1>5
<1>8. Worth(UnityPrintNumberUnsigned(m), 10) = m % Power(10, k + 1)
  BY <1>2, <1>6, <1>7, DigitsDenote
<1>9. m < Power(10, k + 1)
  <2> DEFINE A == Power(10, k)
  <2>1. A \in Nat \ {0} /\ Power(10, k + 1) = 10 * A
    <3>1. 10 \in Nat \ {0}
      OBVIOUS
    <3>2. A \in Nat \ {0}
      BY <1>7, <3>1, PowerPositive
    <3>3. Power(10, k + 1) = 10 * A
      BY <1>7, <3>1, PowerFacts
    <3> QED
      BY <3>2, <3>3
  <2> HIDE DEF A
  <2>2. PICK p \in Int, s \in 0 .. A - 1 : m = A * p + s /\ m \div A = p
    BY <1>2, <2>1, Parts
  <2>3. p =< 9
    BY <1>5, <2>2 DEF A
  <2>4. A * p =< A * 9
    BY <2>1, <2>3
  <2> QED
    BY <1>2, <2>1, <2>2, <2>4
<1>10. m % Power(10, k + 1) = m
  <2> DEFINE M == Power(10, k + 1)
  <2>1. M \in Nat \ {0} /\ m \in 0 .. M - 1
    BY <1>2, <1>7, <1>9, PowerPositive
  <2> HIDE DEF M
  <2>2. m % M = m
    BY <2>1
  <2> QED
    BY <2>2 DEF M
<1> QED
  BY <1>8, <1>10

\* The nibbles that are printed for a number denote its lowest bits.
LEMMA HexPrinted ==
    ASSUME NEW m \in Nat, NEW n \in Nat
    PROVE  Worth(UnityPrintNumberHex(m, 2 * n), Power(2, ByteBits \div 2))
             = m % Power(2, n * ByteBits)
<1> DEFINE h == ByteBits \div 2
           B == Power(2, h)
           j == 2 * n
<1>1. h \in Nat /\ ByteBits = 2 * h
  BY AssertsAssumption
<1>2. B \in Nat \ {0} /\ j \in Nat
  BY <1>1, PowerGrows
<1>3. UnityPrintNumberHex(m, j) = [i \in 1 .. j |-> (m \div Power(B, j - i)) % B]
  BY DEF UnityPrintNumberHex
<1>4. h * j = n * ByteBits
  <2>1. h * (2 * n) = n * (2 * h)
    BY <1>1
  <2> QED
    BY <1>1, <2>1
<1>5. Power(B, j) = Power(2, n * ByteBits)
  <2>1. Power(B, j) = Power(2, h * j)
    <3> HIDE DEF h, j
    <3> QED
      BY <1>1, <1>2, PowerOfPower
  <2> QED
    BY <1>4, <2>1
<1>6. Worth(UnityPrintNumberHex(m, j), B) = m % Power(B, j)
  <2> HIDE DEF B, j
  <2> QED
    BY <1>2, <1>3, DigitsDenote
<1> QED
  BY <1>5, <1>6

\* A number up to the range of UNITY_UINT is what its remainder is.
LEMMA LowBits ==
    ASSUME NEW w \in 1 .. IntBits, NEW x \in Int
    PROVE  (x % IntMod) % Power(2, w) = x % Power(2, w)
<1> DEFINE W == Power(2, w)
           V == Power(2, IntBits - w)
           M == IntMod
<1>1. W \in Nat \ {0} /\ V \in Nat /\ M \in Nat \ {0} /\ M = W * V
  BY Widths
<1> HIDE DEF W, V, M
<1>2. PICK k \in Int, s \in 0 .. M - 1 : x = M * k + s /\ x % M = s
  BY <1>1, Parts
<1> DEFINE e == V * k
<1>3. e \in Int /\ s \in Int
  BY <1>1
<1>4. x = s + W * e
  <2>1. (W * V) * k = W * (V * k)
    BY <1>1
  <2> QED
    BY <1>1, <1>2, <2>1
<1> HIDE DEF e
<1>5. (s + W * e) % W = s % W
  BY <1>1, <1>3, Wrapped
<1> QED
  BY <1>2, <1>4, <1>5 DEF W, M

LEMMA DecimalDenotes ==
    ASSUME NEW minus \in BOOLEAN, NEW digits, NEW style, NEW w
    PROVE  Denoted(Text("", minus, digits), style, w)
             = IF minus THEN -Worth(digits, 10) ELSE Worth(digits, 10)
<1> DEFINE t == Text("", minus, digits)
<1>1. t.prefix = "" /\ t.minus = minus /\ t.digits = digits
  BY DEF Text
<1> HIDE DEF t
<1>2. Worth(t.digits, IF t.prefix = "" THEN 10 ELSE Power(2, ByteBits \div 2))
        = Worth(digits, 10)
  BY <1>1
<1>3. Denoted(t, style, w) = IF t.minus THEN -Worth(digits, 10) ELSE Worth(digits, 10)
  BY <1>1, <1>2 DEF Denoted
<1> QED
  BY <1>1, <1>3 DEF t

LEMMA EqualTells ==
    ASSUME NEW c, Typed(c), c.op = "EQUAL", NEW x \in Patterns
    PROVE  Denoted(Printed(c, x), c.style, c.width) = Value(x, c.style, c.width)
<1> DEFINE w == c.width
           X == Cast(x, c.style, w)
           v == Value(x, c.style, w)
           H == Power(2, w - 1)
           W == Power(2, w)
           M == IntMod
           B == Power(2, ByteBits \div 2)
<1>1. w \in 1 .. IntBits /\ x \in Int
  BY TypedWidth, PatternsAreNumbers
<1>2. W \in Nat \ {0} /\ H \in Nat \ {0} /\ W = 2 * H /\ M \in Nat \ {0} /\ W =< M
  BY <1>1, Widths
<1>3. X \in Int /\ v \in Int
  BY <1>1, CastValue
<1>4. IF IsSigned(c.style) THEN X = v /\ v \in -H .. H - 1
                           ELSE v \in 0 .. W - 1 /\ X % M = v
  BY <1>1, CastValue
<1>5. Printed(c, x) = UnityPrintByStyle(X, c.style, w)
  BY DEF Printed
<1>6. X % M \in Nat
  BY <1>2, <1>3
<1>7. CASE c.style = "CHAR" /\ X \in Printable
  <2>1. Printed(c, x) = Text("'", FALSE, << X >>)
    BY <1>5, <1>7 DEF UnityPrintByStyle
  <2>2. Denoted(Printed(c, x), c.style, w) = X
    BY <2>1 DEF Denoted, Text
  <2> QED
    BY <1>4, <1>7, <2>2 DEF IsSigned
<1>8. CASE c.style = "CHAR" /\ X \notin Printable
  <2> DEFINE d == UnityPrintNumberHex(X % M, 2)
             n == Worth(d, B)
  <2>1. Printed(c, x) = Text("x", FALSE, d)
    BY <1>5, <1>8 DEF UnityPrintByStyle
  <2>2. Denoted(Printed(c, x), c.style, w) = Signed(n, w)
    BY <2>1 DEF Denoted, Text
  <2>3. w = ByteBits /\ ByteBits \in Nat
    BY <1>8, AssertsAssumption DEF Typed
  <2>4. n = (X % M) % W
    <3>1. 1 \in Nat /\ 2 * 1 = 2 /\ 1 * ByteBits = w
      BY <2>3
    <3> QED
      BY <1>6, <3>1, HexPrinted
  <2>5. (X % M) % W = X % W
    BY <1>1, <1>3, LowBits
  <2>6. X = Signed(x, w)
    BY <1>8 DEF Cast, IsSigned
  <2>7. X % W = Unsigned(x, w)
    BY <1>1, <2>6, Reading DEF Unsigned
  <2>8. n = Unsigned(x, w) /\ Unsigned(x, w) \in 0 .. W - 1
    BY <1>1, <2>4, <2>5, <2>7, Reading
  <2> DEFINE u == Unsigned(x, w)
  <2>9. Unsigned(u, w) = u
    <3>1. Unsigned(u, w) = u % W
      BY DEF Unsigned
    <3> HIDE DEF u, W
    <3>2. u % W = u
      BY <1>2, <2>8 DEF u, W
    <3> QED
      BY <3>1, <3>2
  <2>10. Signed(u, w) = Signed(x, w)
    BY <2>9 DEF Signed
  <2> QED
    BY <1>4, <1>8, <2>2, <2>6, <2>8, <2>10 DEF IsSigned
<1>9. CASE c.style = "INT"
  <2> DEFINE m == IF X < 0 THEN -X ELSE X
  <2>1. X = v /\ v \in -H .. H - 1
    BY <1>4, <1>9 DEF IsSigned
  <2> HIDE DEF X, v, H, W, M
  <2>2. m \in 0 .. M - 1 /\ m % M = m
    BY <1>2, <1>3, <2>1
  <2>3. Printed(c, x) = Text("", X < 0, UnityPrintNumberUnsigned(m))
    BY <1>5, <1>9, <2>2 DEF UnityPrintByStyle, UnityPrintNumber, M
  <2> HIDE DEF m
  <2>4. Worth(UnityPrintNumberUnsigned(m), 10) = m
    BY <2>2, UnsignedPrinted DEF M
  <2>5. Denoted(Printed(c, x), c.style, w) = IF X < 0 THEN -m ELSE m
    <3>1. (X < 0) \in BOOLEAN
      BY <1>3
    <3> DEFINE neg == X < 0
               d == UnityPrintNumberUnsigned(m)
    <3>2. Denoted(Text("", neg, d), c.style, w)
            = IF neg THEN -Worth(d, 10) ELSE Worth(d, 10)
      <4> HIDE DEF neg, d
      <4> QED
        BY <3>1, DecimalDenotes DEF neg
    <3> QED
      BY <2>3, <2>4, <3>2
  <2>6. (IF X < 0 THEN -m ELSE m) = X
    BY <1>3 DEF m
  <2> QED
    BY <2>1, <2>5, <2>6 DEF v
<1>10. CASE c.style = "UINT"
  <2>1. X % M = v /\ v \in 0 .. W - 1
    BY <1>4, <1>10 DEF IsSigned
  <2>2. Printed(c, x) = Text("", FALSE, UnityPrintNumberUnsigned(v))
    BY <1>5, <1>10, <2>1 DEF UnityPrintByStyle
  <2> HIDE DEF X, v, W, M
  <2>3. v \in 0 .. M - 1
    BY <1>2, <2>1
  <2>4. Worth(UnityPrintNumberUnsigned(v), 10) = v
    BY <2>3, UnsignedPrinted DEF M
  <2>5. Denoted(Printed(c, x), c.style, w) = v
    BY <2>2, <2>4, DecimalDenotes
  <2> QED
    BY <2>5 DEF v
<1>11. CASE c.style = "HEX"
  <2> DEFINE n == w \div ByteBits
  <2>1. X % M = v /\ v \in 0 .. W - 1
    BY <1>4, <1>11 DEF IsSigned
  <2>2. Printed(c, x) = Text("0x", FALSE, UnityPrintNumberHex(v, 2 * n))
    BY <1>5, <1>11, <2>1 DEF UnityPrintByStyle
  <2>3. n \in Nat /\ n * ByteBits = w
    <3>1. PICK k \in 1 .. IntBits : w = k * ByteBits
      BY DEF Typed
    <3>2. ByteBits \in Nat \ {0} /\ k \in Nat /\ 0 \in 0 .. ByteBits - 1
      BY AssertsAssumption
    <3>3. w = ByteBits * k + 0
      BY <3>1, <3>2
    <3>4. w \div ByteBits = k
      <4> HIDE DEF w
      <4> QED
        BY <3>2, <3>3, OneQuotient
    <3> QED
      BY <3>1, <3>2, <3>4
  <2> HIDE DEF X, v, M, n
  <2>4. v \in Nat /\ v % W = v
    <3> HIDE DEF W
    <3> QED
      BY <1>2, <2>1
  <2>5. Worth(UnityPrintNumberHex(v, 2 * n), B) = v
    BY <2>3, <2>4, HexPrinted
  <2> HIDE DEF B
  <2>6. Denoted(Printed(c, x), c.style, w) = v
    BY <2>2, <2>5 DEF Denoted, Text, B
  <2> QED
    BY <2>6 DEF v
<1> QED
  BY <1>7, <1>8, <1>9, <1>10, <1>11 DEF Typed

LEMMA BitsTell ==
    ASSUME NEW c, c.op = "BITS", Fails(c)
    PROVE  Printed(c, c.expected) # Printed(c, c.actual)
<1>1. PICK i \in 0 .. IntBits - 1 : Bit(c.mask, i) /\ Bit(c.expected, i) # Bit(c.actual, i)
  BY DEF Fails, UnityAssertBits
<1> DEFINE j == IntBits - i
           Shown(x, b) == IF ~Bit(c.mask, b) THEN "X" ELSE IF Bit(x, b) THEN "1" ELSE "0"
           f(x) == [k \in 1 .. IntBits |-> Shown(x, IntBits - k)]
<1>2. j \in 1 .. IntBits /\ IntBits - j = i
  BY AssertsAssumption
<1>3. \A x : Printed(c, x) = f(x)
  BY DEF Printed, UnityPrintMask
<1>4. \A x : f(x)[j] = Shown(x, IntBits - j)
  BY <1>2
<1> HIDE DEF j, f
<1>5. Shown(c.expected, i) # Shown(c.actual, i)
  <2>1. \A x : Bit(x, i) \in BOOLEAN
    BY DEF Bit
  <2> QED
    BY <1>1, <2>1
<1> HIDE DEF Shown
<1>6. f(c.expected)[j] # f(c.actual)[j]
  BY <1>2, <1>4, <1>5
<1> QED
  BY <1>3, <1>6

\* What a failed assertion prints for a number denotes it, for every style,
\* width and sign, and two masked numbers that differ are printed differently
\* (unity.c:199-345).
THEOREM ReportsTell == UnitySpec => []ReportTells
<1> DEFINE Which == call = NULL \/ call \in Calls
<1>1. UnityInit => Which
  BY DEF UnityInit
<1>2. Which /\ [UnityNext]_<<vars, call>> => Which'
  BY DEF UnityNext
<1>3. Which => ReportTells
  <2>1. ASSUME call \in Calls, call.op = "EQUAL"
        PROVE  Typed(call) /\ call.expected \in Patterns /\ call.actual \in Patterns
    BY <2>1, CallsAssumption DEF Legal
  <2> QED
    BY <2>1, EqualTells, BitsTell DEF ReportTells
<1> QED
  BY <1>1, <1>2, <1>3, PTL DEF UnitySpec

-----------------------------------------------------------------------------
(* The runner                                                               *)

Between == {"options", "begin", "idle", "exit"}
Inside == {"setup", "body", "teardown", "undo"}
Counts == [NumberOfTests : Nat, TestFailures : Nat, TestIgnores : Nat,
           CurrentTestFailed : BOOLEAN, CurrentTestIgnored : BOOLEAN]
Tallies == [{"pass", "fail", "ignore"} -> Nat]
Entries == [pointer : Cells, old_value : Values]

\* The parts of the state that the proofs are about have their types.
Shape ==
    /\ phase \in Between \cup Inside
    /\ unity \in Counts
    /\ first \in {"pass", "fail", "ignore"}
    /\ tally \in Tallies
    /\ cell \in [Cells -> Values]
    /\ store \in Seq(Entries)

\* The flags of Unity tell the first verdict of the test that runs, and the
\* counters agree but for that test.
Counted ==
    /\ unity.CurrentTestFailed <=> first = "fail"
    /\ unity.CurrentTestIgnored <=> first = "ignore"
    /\ phase \in Between => first = "pass"
    /\ unity.TestFailures = tally["fail"]
    /\ unity.TestIgnores = tally["ignore"]
    /\ unity.NumberOfTests = tally["pass"] + tally["fail"] + tally["ignore"]
                               + (IF phase \in Inside THEN 1 ELSE 0)
    /\ phase = "exit" /\ args = << >> => result = tally["fail"]

\* A pointer that is not in the store has its value of before the tests, and
\* for one that is, the oldest entry has it.
Undoable ==
    /\ \A c \in Cells : (\A i \in 1 .. Len(store) : store[i].pointer # c) => cell[c] = origin[c]
    /\ \A i \in 1 .. Len(store) :
          (\A j \in 1 .. i - 1 : store[j].pointer # store[i].pointer)
              => store[i].old_value = origin[store[i].pointer]
    /\ phase \in Between => store = << >>

-----------------------------------------------------------------------------

\* The last entry of a store, and the store without it.
LEMMA LastEntry ==
    ASSUME NEW s \in Seq(Entries), s # << >>
    PROVE  /\ Len(s) \in Nat /\ Len(s) \in 1 .. Len(s)
           /\ s[Len(s)] \in Entries
           /\ SubSeq(s, 1, Len(s) - 1) \in Seq(Entries)
           /\ Len(SubSeq(s, 1, Len(s) - 1)) = Len(s) - 1
           /\ \A i \in 1 .. Len(s) - 1 : SubSeq(s, 1, Len(s) - 1)[i] = s[i]
<1>1. Len(s) \in Nat /\ Len(s) # 0
  BY EmptySeq
<1>2. Len(s) \in 1 .. Len(s) /\ 1 \in 1 .. Len(s)
  BY <1>1
<1>3. s[Len(s)] \in Entries
  BY <1>2, ElementOfSeq
<1>4. SubSeq(s, 1, Len(s) - 1) \in Seq(Entries)
  BY <1>1, SubSeqProperties
<1>5. \A i \in 1 .. Len(s) - 1 : s[i] \in Entries
  BY <1>1, ElementOfSeq
<1>6. Len(SubSeq(s, 1, Len(s) - 1)) = Len(s) - 1
  <2>1. CASE Len(s) = 1
    BY <1>5, <2>1, SubSeqProperties
  <2>2. CASE Len(s) # 1
    <3>1. 1 =< Len(s) - 1 /\ Len(s) - 1 \in Int
      <4>1. \A n \in Nat : n # 0 /\ n # 1 => 1 =< n - 1 /\ n - 1 \in Int
        OBVIOUS
      <4> QED
        BY ONLY <1>1, <2>2, <4>1
    <3>2. Len(SubSeq(s, 1, Len(s) - 1)) = Len(s) - 1 - 1 + 1
      BY <1>5, <3>1, SubSeqProperties
    <3> QED
      BY <1>1, <3>2
  <2> QED
    BY <2>1, <2>2
<1>7. \A i \in 1 .. (Len(s) - 1) - 1 + 1 : SubSeq(s, 1, Len(s) - 1)[i] = s[1 + i - 1]
  BY <1>1, <1>5, SubSeqProperties
<1>8. \A i \in 1 .. Len(s) - 1 : SubSeq(s, 1, Len(s) - 1)[i] = s[i]
  BY <1>1, <1>7
<1> QED
  BY <1>1, <1>2, <1>3, <1>4, <1>6, <1>8

\* Counting one more test in a tally.
LEMMA TallyOne ==
    ASSUME NEW t \in Tallies, NEW v \in {"pass", "fail", "ignore"}
    PROVE  /\ [t EXCEPT ![v] = t[v] + 1] \in Tallies
           /\ \A w \in {"pass", "fail", "ignore"} :
                 [t EXCEPT ![v] = t[v] + 1][w] = IF w = v THEN t[w] + 1 ELSE t[w]
BY DEF Tallies

\* What UnityIgnoreTest does to the counters.
LEMMA IgnoreCounts ==
    ASSUME NEW u \in Counts, NEW n,
           n = [u EXCEPT !.NumberOfTests = @ + 1, !.TestIgnores = @ + 1]
    PROVE  /\ n \in Counts
           /\ n.NumberOfTests = u.NumberOfTests + 1
           /\ n.TestFailures = u.TestFailures
           /\ n.TestIgnores = u.TestIgnores + 1
           /\ n.CurrentTestFailed = u.CurrentTestFailed
           /\ n.CurrentTestIgnored = u.CurrentTestIgnored
<1> DEFINE m == [u EXCEPT !.NumberOfTests = u.NumberOfTests + 1]
<1>1. m \in Counts /\ n = [m EXCEPT !.TestIgnores = u.TestIgnores + 1]
  BY DEF Counts
<1>2. m.NumberOfTests = u.NumberOfTests + 1
  BY DEF Counts
<1>3. /\ m.TestFailures = u.TestFailures
      /\ m.CurrentTestFailed = u.CurrentTestFailed
      /\ m.CurrentTestIgnored = u.CurrentTestIgnored
  BY DEF Counts
<1> HIDE DEF m
<1> QED
  BY <1>1, <1>2, <1>3 DEF Counts

\* The counters that UnityConcludeFixtureTest makes of u.
Concluded(u) ==
    [u EXCEPT
        !.TestIgnores = IF u.CurrentTestIgnored THEN @ + 1 ELSE @,
        !.TestFailures = IF u.CurrentTestFailed /\ ~u.CurrentTestIgnored
                         THEN @ + 1 ELSE @,
        !.CurrentTestFailed = FALSE, !.CurrentTestIgnored = FALSE]

\* What UnityConcludeFixtureTest does to the counters, field by field.
LEMMA ConcludeCounts ==
    ASSUME NEW u \in Counts, NEW n, n = Concluded(u)
    PROVE  /\ n \in Counts
           /\ n.NumberOfTests = u.NumberOfTests
           /\ n.TestFailures = IF u.CurrentTestFailed /\ ~u.CurrentTestIgnored
                               THEN u.TestFailures + 1 ELSE u.TestFailures
           /\ n.TestIgnores = IF u.CurrentTestIgnored THEN u.TestIgnores + 1 ELSE u.TestIgnores
           /\ n.CurrentTestFailed = FALSE
           /\ n.CurrentTestIgnored = FALSE
<1> DEFINE i == IF u.CurrentTestIgnored THEN u.TestIgnores + 1 ELSE u.TestIgnores
           f == IF u.CurrentTestFailed /\ ~u.CurrentTestIgnored
                THEN u.TestFailures + 1 ELSE u.TestFailures
           m1 == [u EXCEPT !.TestIgnores = i]
           m2 == [m1 EXCEPT !.TestFailures = f]
           m3 == [m2 EXCEPT !.CurrentTestFailed = FALSE]
<1>1. i \in Nat /\ f \in Nat
  BY DEF Counts
<1>2. n = [m3 EXCEPT !.CurrentTestIgnored = FALSE]
  BY DEF Counts, Concluded
<1> HIDE DEF i, f
<1>3. m1 \in Counts /\ m1.TestIgnores = i /\ m1.NumberOfTests = u.NumberOfTests
  BY <1>1 DEF Counts
<1> HIDE DEF m1
<1>4. /\ m2 \in Counts /\ m2.TestFailures = f
      /\ m2.TestIgnores = i /\ m2.NumberOfTests = u.NumberOfTests
  BY <1>1, <1>3 DEF Counts
<1> HIDE DEF m2
<1>5. /\ m3 \in Counts /\ m3.TestFailures = f /\ m3.CurrentTestFailed = FALSE
      /\ m3.TestIgnores = i /\ m3.NumberOfTests = u.NumberOfTests
  BY <1>4 DEF Counts
<1> HIDE DEF m3
<1>6. /\ n \in Counts /\ n.TestFailures = f /\ n.CurrentTestFailed = FALSE
      /\ n.CurrentTestIgnored = FALSE
      /\ n.TestIgnores = i /\ n.NumberOfTests = u.NumberOfTests
  BY <1>2, <1>5 DEF Counts
<1> QED
  BY <1>6 DEF i, f

\* The counters, the verdict and the store of pointers keep their types in
\* every step of the runner (unity_fixture.c:30-354).
THEOREM ShapeCorrect == Spec => []Shape
<1>1. Init => Shape
  BY EmptySeq DEF Init, Shape, Counts, Tallies, NoCounts, NoTally, Between, Inside
<1>2. Shape /\ [Next]_vars => Shape'
  <2> SUFFICES ASSUME Shape, [Next]_vars PROVE Shape'
    OBVIOUS
  <2>1. CASE ReadHelp \/ ReadFilter \/ ReadRepeat \/ ReadOther \/ OptionsRead
    BY <2>1 DEF ReadHelp, ReadFilter, ReadRepeat, ReadOther, OptionsRead, Option, Refuse,
        history, Shape, Between, Inside
  <2>2. CASE EndRun \/ MainReturns \/ SkipTest
    BY <2>2 DEF EndRun, MainReturns, SkipTest, Idle, history, Shape, Between, Inside
  <2>12. CASE BeginRun
    <3>1. unity' \in Counts /\ tally' \in Tallies
      BY <2>12 DEF BeginRun, NoCounts, NoTally, Counts, Tallies
    <3> QED
      BY <2>12, <3>1 DEF BeginRun, Shape, Between, Inside
  <2>3. CASE UnityIgnoreTest
    <3>1. unity' \in Counts
      BY <2>3, IgnoreCounts DEF UnityIgnoreTest, Shape
    <3>2. tally' \in Tallies
      BY <2>3, TallyOne DEF UnityIgnoreTest, Shape
    <3> QED
      BY <2>3, <3>1, <3>2 DEF UnityIgnoreTest, Idle, Shape, Between, Inside
  <2>4. CASE StartTest
    BY <2>4, EmptySeq DEF StartTest, Idle, Shape, Counts, Between, Inside
  <2>5. CASE FunctionReturns
    BY <2>5 DEF FunctionReturns, Running, Shape, Between, Inside
  <2>6. CASE AssertFunction
    <3>1. PICK fails \in Verdicts :
             IF fails THEN Fail
             ELSE (IF Decided THEN Abort ELSE GoOn) /\ UNCHANGED <<unity, first>>
      BY <2>6 DEF AssertFunction
    <3> QED
      BY <2>6, <3>1 DEF AssertFunction, Step, Running, Fail, Abort, GoOn, Decided, Verdict,
          Shape, Counts, Between, Inside
  <2>7. CASE AssertCondition \/ UnityIgnore \/ TestPass
    BY <2>7 DEF AssertCondition, UnityIgnore, TestPass, Step, Running, Fail, Abort, GoOn,
        Decided, Verdict, Shape, Counts, Between, Inside
  <2>8. CASE UnityPointer_Set
    <3>1. PICK p \in Cells, v \in Values :
             IF Len(store) >= MaxPointers THEN Fail /\ UNCHANGED <<cell, store>>
             ELSE /\ store' = Append(store, [pointer |-> p, old_value |-> cell[p]])
                  /\ cell' = [cell EXCEPT ![p] = v]
                  /\ GoOn /\ UNCHANGED <<unity, first>>
      BY <2>8 DEF UnityPointer_Set
    <3> DEFINE full == Len(store) >= MaxPointers
    <3>2. [pointer |-> p, old_value |-> cell[p]] \in Entries /\ [cell EXCEPT ![p] = v] \in [Cells -> Values]
      BY DEF Shape, Entries
    <3>3. cell' \in [Cells -> Values] /\ store' \in Seq(Entries)
      <4>1. CASE full
        BY <3>1, <4>1 DEF Shape
      <4>2. CASE ~full
        <5>1. store' = Append(store, [pointer |-> p, old_value |-> cell[p]])
          BY <3>1, <4>2
        <5>2. cell' = [cell EXCEPT ![p] = v]
          BY <3>1, <4>2
        <5> QED
          BY <3>2, <5>1, <5>2, AppendProperties DEF Shape
      <4> QED
        BY <4>1, <4>2
    <3> QED
      BY <2>8, <3>1, <3>3 DEF UnityPointer_Set, Step, Running, Fail, Abort, GoOn, Decided, Verdict,
          Shape, Counts, Between, Inside
  <2>9. CASE UndoLast
    <3>1. store[Len(store)] \in Entries /\ SubSeq(store, 1, Len(store) - 1) \in Seq(Entries)
      BY <2>9, LastEntry DEF UndoLast, Shape
    <3>2. cell' \in [Cells -> Values] /\ store' \in Seq(Entries)
      BY <2>9, <3>1 DEF UndoLast, Shape, Entries
    <3> QED
      BY <2>9, <3>2 DEF UndoLast, history, Shape, Between, Inside
  <2>10. CASE UnityConcludeFixtureTest
    <3>3. unity' = Concluded(unity) /\ unity \in Counts
      BY <2>10, Zenon DEF UnityConcludeFixtureTest, Concluded, Shape
    <3>1. unity' \in Counts
      BY <3>3, ConcludeCounts
    <3>2. tally' \in Tallies
      BY <2>10, TallyOne DEF UnityConcludeFixtureTest, Shape
    <3> QED
      BY <2>10, <3>1, <3>2 DEF UnityConcludeFixtureTest, Shape, Between, Inside
  <2>11. CASE UNCHANGED vars
    BY <2>11 DEF vars, Shape
  <2> QED
    BY <2>1, <2>2, <2>3, <2>4, <2>5, <2>6, <2>7, <2>8, <2>9, <2>10, <2>11, <2>12 DEF Next
<1> QED
  BY <1>1, <1>2, PTL DEF Spec

-----------------------------------------------------------------------------

\* The counting is inductive: see TotalsCorrect.
LEMMA CountedStep == ASSUME Shape, Counted, Next PROVE Counted'
<1>1. CASE ReadHelp \/ ReadFilter \/ ReadRepeat \/ ReadOther \/ OptionsRead
  BY <1>1 DEF ReadHelp, ReadFilter, ReadRepeat, ReadOther, OptionsRead, Option, Refuse,
      history, Shape, Counts, Tallies, Counted, Between, Inside
<1>2. CASE EndRun \/ MainReturns \/ SkipTest
  BY <1>2 DEF EndRun, MainReturns, SkipTest, Idle, history, Shape, Counted, Between, Inside
<1>11. CASE BeginRun
  BY <1>11 DEF BeginRun, NoCounts, NoTally, Shape, Counted, Between, Inside
<1>3. CASE UnityIgnoreTest
  <2>1. /\ tally' \in Tallies
        /\ tally'["ignore"] = tally["ignore"] + 1
        /\ tally'["pass"] = tally["pass"] /\ tally'["fail"] = tally["fail"]
    BY <1>3, TallyOne DEF UnityIgnoreTest, Shape
  <2>2. /\ unity'.NumberOfTests = unity.NumberOfTests + 1
        /\ unity'.TestIgnores = unity.TestIgnores + 1
        /\ unity'.TestFailures = unity.TestFailures
        /\ unity'.CurrentTestFailed = unity.CurrentTestFailed
        /\ unity'.CurrentTestIgnored = unity.CurrentTestIgnored
    BY <1>3, IgnoreCounts DEF UnityIgnoreTest, Shape
  <2>3. UNCHANGED <<first, phase, args, result>> /\ phase = "idle"
    BY <1>3 DEF UnityIgnoreTest, Idle
  <2> QED
    BY <2>1, <2>2, <2>3 DEF Shape, Counts, Tallies, Counted, Between, Inside
<1>4. CASE StartTest
  <2>1. /\ unity'.NumberOfTests = unity.NumberOfTests + 1
        /\ unity'.TestFailures = unity.TestFailures
        /\ unity'.TestIgnores = unity.TestIgnores
        /\ unity'.CurrentTestFailed = unity.CurrentTestFailed
        /\ unity'.CurrentTestIgnored = unity.CurrentTestIgnored
    BY <1>4 DEF StartTest, Shape, Counts
  <2>2. /\ UNCHANGED <<first, tally>>
        /\ phase \in Between /\ phase \notin Inside
        /\ phase' \notin Between /\ phase' \in Inside /\ phase' # "exit"
    BY <1>4 DEF StartTest, Idle, Between, Inside
  <2>3. unity \in Counts /\ tally["pass"] \in Nat /\ tally["fail"] \in Nat /\ tally["ignore"] \in Nat
    BY DEF Shape, Tallies
  <2>4. unity'.NumberOfTests = tally'["pass"] + tally'["fail"] + tally'["ignore"] + 1
    BY <2>1, <2>2, <2>3 DEF Counted, Counts
  <2>5. /\ unity'.CurrentTestFailed <=> first' = "fail"
        /\ unity'.CurrentTestIgnored <=> first' = "ignore"
    BY <2>1, <2>2 DEF Counted
  <2> QED
    BY <2>1, <2>2, <2>4, <2>5 DEF Counted
<1>5. CASE FunctionReturns
  BY <1>5 DEF FunctionReturns, Running, Shape, Counts, Tallies, Counted, Between, Inside
<1>6. CASE AssertFunction
  <2>1. PICK fails \in Verdicts :
           IF fails THEN Fail
           ELSE (IF Decided THEN Abort ELSE GoOn) /\ UNCHANGED <<unity, first>>
    BY <1>6 DEF AssertFunction
  <2> QED
    BY <1>6, <2>1 DEF AssertFunction, Step, Running, Fail, Abort, GoOn, Decided, Verdict,
        Shape, Counts, Tallies, Counted, Between, Inside
<1>7. CASE AssertCondition \/ UnityIgnore \/ TestPass
  BY <1>7 DEF AssertCondition, UnityIgnore, TestPass, Step, Running, Fail, Abort, GoOn,
      Decided, Verdict, Shape, Counts, Tallies, Counted, Between, Inside
<1>8. CASE UnityPointer_Set
  <2>1. PICK p \in Cells, v \in Values :
           IF Len(store) >= MaxPointers THEN Fail /\ UNCHANGED <<cell, store>>
           ELSE /\ store' = Append(store, [pointer |-> p, old_value |-> cell[p]])
                /\ cell' = [cell EXCEPT ![p] = v]
                /\ GoOn /\ UNCHANGED <<unity, first>>
    BY <1>8 DEF UnityPointer_Set
  <2> QED
    BY <1>8, <2>1 DEF UnityPointer_Set, Step, Running, Fail, Abort, GoOn, Decided, Verdict,
        Shape, Counts, Tallies, Counted, Between, Inside
<1>9. CASE UndoLast
  BY <1>9 DEF UndoLast, history, Shape, Counts, Tallies, Counted, Between, Inside
<1>10. CASE UnityConcludeFixtureTest
  <2>1. /\ unity' \in Counts
        /\ unity'.NumberOfTests = unity.NumberOfTests
        /\ unity'.TestFailures = IF unity.CurrentTestFailed /\ ~unity.CurrentTestIgnored
                                 THEN unity.TestFailures + 1 ELSE unity.TestFailures
        /\ unity'.TestIgnores = IF unity.CurrentTestIgnored
                                THEN unity.TestIgnores + 1 ELSE unity.TestIgnores
        /\ unity'.CurrentTestFailed = FALSE
        /\ unity'.CurrentTestIgnored = FALSE
    <3>1. unity' = Concluded(unity) /\ unity \in Counts
      BY <1>10, Zenon DEF UnityConcludeFixtureTest, Concluded, Shape
    <3> QED
      BY <3>1, ConcludeCounts
  <2>2. /\ tally' \in Tallies
        /\ \A w \in {"pass", "fail", "ignore"} :
              tally'[w] = IF w = first THEN tally[w] + 1 ELSE tally[w]
    BY <1>10, TallyOne DEF UnityConcludeFixtureTest, Shape
  <2>3. phase = "undo" /\ phase' = "idle" /\ first' = "pass"
    BY <1>10 DEF UnityConcludeFixtureTest
  <2>4. CASE first = "pass"
    BY <2>1, <2>2, <2>3, <2>4 DEF Shape, Counts, Tallies, Counted, Between, Inside
  <2>5. CASE first = "fail"
    BY <2>1, <2>2, <2>3, <2>5 DEF Shape, Counts, Tallies, Counted, Between, Inside
  <2>6. CASE first = "ignore"
    BY <2>1, <2>2, <2>3, <2>6 DEF Shape, Counts, Tallies, Counted, Between, Inside
  <2> QED
    BY <2>4, <2>5, <2>6 DEF Shape
<1> QED
  BY <1>1, <1>2, <1>3, <1>4, <1>5, <1>6, <1>7, <1>8, <1>9, <1>10, <1>11 DEF Next

\* Every test that was run is counted once, by the first thing that decided
\* it, and UnityMain returns the failures of the last repetition
\* (unity_fixture.c:30-47, 84-122, 324-354).
THEOREM TotalsCorrect == Spec => []TotalsExact
<1>1. Init => Counted
  BY DEF Init, Counted, NoCounts, NoTally, Between, Inside
<1>2. Shape /\ Counted /\ [Next]_vars => Counted'
  <2>1. UNCHANGED vars /\ Counted => Counted'
    BY DEF vars, Counted
  <2> QED
    BY <2>1, CountedStep
<1>3. Shape /\ Counted => TotalsExact
  BY DEF Shape, Counts, Tallies, Counted, TotalsExact, BetweenTests, Between, Inside
<1> QED
  BY <1>1, <1>2, <1>3, ShapeCorrect, PTL DEF Spec

-----------------------------------------------------------------------------

\* Setting a pointer keeps its value of before the tests in the store.
LEMMA SetUndoable ==
    ASSUME Shape, Undoable, NEW p \in Cells, NEW v \in Values,
           store' = Append(store, [pointer |-> p, old_value |-> cell[p]]),
           cell' = [cell EXCEPT ![p] = v], origin' = origin, phase' \notin Between
    PROVE  Undoable'
<1> DEFINE n == Len(store)
<1>1. /\ n \in Nat
      /\ Len(store') = n + 1
      /\ \A i \in 1 .. n : store'[i] = store[i]
      /\ store'[n + 1] = [pointer |-> p, old_value |-> cell[p]]
  BY DEF Shape
<1> HIDE DEF n
<1>2. ASSUME NEW c \in Cells, \A i \in 1 .. n + 1 : store'[i].pointer # c
      PROVE  cell'[c] = origin'[c]
  <2>1. c # p
    BY <1>1, <1>2
  <2>2. \A i \in 1 .. n : store[i].pointer # c
    BY <1>1, <1>2
  <2> QED
    BY <2>1, <2>2 DEF Undoable, Shape, n
<1>3. ASSUME NEW i \in 1 .. n + 1,
             \A j \in 1 .. i - 1 : store'[j].pointer # store'[i].pointer
      PROVE  store'[i].old_value = origin'[store'[i].pointer]
  <2>1. CASE i \in 1 .. n
    <3>1. \A j \in 1 .. i - 1 : store[j].pointer # store[i].pointer
      BY <1>1, <1>3, <2>1
    <3> QED
      BY <1>1, <2>1, <3>1 DEF Undoable, n
  <2>2. CASE i = n + 1
    <3>1. \A j \in 1 .. n : store[j].pointer # p
      BY <1>1, <1>3, <2>2
    <3>2. cell[p] = origin[p]
      BY <3>1 DEF Undoable, n
    <3> QED
      BY <1>1, <2>2, <3>2
  <2> QED
    BY <1>1, <2>1, <2>2
<1> QED
  BY <1>1, <1>2, <1>3 DEF Undoable

\* Taking back the last pointer that was set keeps the rest to be taken back.
LEMMA UndoUndoable == ASSUME Shape, Undoable, UndoLast PROVE Undoable'
<1> DEFINE n == Len(store)
<1>1. n \in Nat /\ n \in 1 .. n /\ store[n].pointer \in Cells
  BY LastEntry DEF Shape, UndoLast, Entries
<1>2. /\ Len(store') = n - 1
      /\ \A i \in 1 .. n - 1 : store'[i] = store[i]
  BY LastEntry DEF Shape, UndoLast
<1>3. cell' = [cell EXCEPT ![store[n].pointer] = store[n].old_value] /\ origin' = origin
  BY DEF UndoLast, history
<1>4. phase' \notin Between
  BY DEF UndoLast, Between
<1> HIDE DEF n
<1>5. ASSUME NEW c \in Cells, \A i \in 1 .. n - 1 : store'[i].pointer # c
      PROVE  cell'[c] = origin'[c]
  <2>1. \A i \in 1 .. n - 1 : store[i].pointer # c
    BY <1>2, <1>5
  <2>2. CASE c = store[n].pointer
    <3>1. store[n].old_value = origin[c]
      BY <1>1, <2>1, <2>2 DEF Undoable, n
    <3> QED
      BY <1>1, <1>3, <2>2, <3>1 DEF Shape
  <2>3. CASE c # store[n].pointer
    <3>1. \A i \in 1 .. n : store[i].pointer # c
      BY <1>1, <2>1, <2>3
    <3>2. cell[c] = origin[c]
      BY <3>1 DEF Undoable, n
    <3> QED
      BY <1>1, <1>3, <2>3, <3>2 DEF Shape
  <2> QED
    BY <2>2, <2>3
<1>6. ASSUME NEW i \in 1 .. n - 1,
             \A j \in 1 .. i - 1 : store'[j].pointer # store'[i].pointer
      PROVE  store'[i].old_value = origin'[store'[i].pointer]
  <2>1. i \in 1 .. n /\ \A j \in 1 .. i - 1 : store[j].pointer # store[i].pointer
    BY <1>1, <1>2, <1>6
  <2> QED
    BY <1>1, <1>2, <1>3, <2>1 DEF Undoable, n
<1> QED
  BY <1>2, <1>4, <1>5, <1>6 DEF Undoable

\* Every other step leaves the pointers and the store alone, or finds the
\* store empty.
LEMMA UndoableStep == ASSUME Shape, Undoable, Next PROVE Undoable'
<1>1. CASE \/ ReadHelp \/ ReadFilter \/ ReadRepeat \/ ReadOther \/ OptionsRead
           \/ BeginRun \/ EndRun \/ MainReturns \/ SkipTest \/ UnityIgnoreTest
  <2>1. UNCHANGED <<cell, store, origin>> /\ phase \in Between
    BY <1>1 DEF ReadHelp, ReadFilter, ReadRepeat, ReadOther, OptionsRead, Option, Refuse,
        BeginRun, EndRun, MainReturns, SkipTest, UnityIgnoreTest, Idle, history, Between
  <2> QED
    BY <2>1 DEF Undoable
<1>2. CASE StartTest
  <2>1. UNCHANGED <<cell, store, origin>>
    BY <1>2 DEF StartTest, Idle, Undoable, Between
  <2>2. phase' \notin Between
    BY <1>2 DEF StartTest, Between
  <2> QED
    BY <2>1, <2>2 DEF Undoable
<1>3. CASE FunctionReturns \/ AssertFunction \/ AssertCondition \/ UnityIgnore \/ TestPass
  <2>1. UNCHANGED <<cell, store, origin>>
    BY <1>3 DEF FunctionReturns, AssertFunction, AssertCondition, UnityIgnore, TestPass,
        Step, Running
  <2>2. phase' \notin Between
    <3>1. CASE FunctionReturns
      BY <3>1 DEF FunctionReturns, Running, Between
    <3>2. CASE AssertFunction \/ AssertCondition \/ UnityIgnore \/ TestPass
      BY <3>2 DEF AssertFunction, AssertCondition, UnityIgnore, TestPass, Step, Running,
          Fail, Abort, GoOn, Between
    <3> QED
      BY <1>3, <3>1, <3>2
  <2> QED
    BY <2>1, <2>2 DEF Undoable
<1>4. CASE UnityPointer_Set
  <2>1. PICK p \in Cells, v \in Values :
           IF Len(store) >= MaxPointers THEN Fail /\ UNCHANGED <<cell, store>>
           ELSE /\ store' = Append(store, [pointer |-> p, old_value |-> cell[p]])
                /\ cell' = [cell EXCEPT ![p] = v]
                /\ GoOn /\ UNCHANGED <<unity, first>>
    BY <1>4 DEF UnityPointer_Set
  <2>2. phase' \notin Between /\ origin' = origin
    BY <1>4, <2>1 DEF UnityPointer_Set, Step, Running, Fail, Abort, GoOn, Between
  <2>3. CASE Len(store) >= MaxPointers
    BY <2>1, <2>2, <2>3 DEF Undoable
  <2>4. CASE ~(Len(store) >= MaxPointers)
    BY <2>1, <2>2, <2>4, SetUndoable
  <2> QED
    BY <2>3, <2>4
<1>5. CASE UndoLast
  BY <1>5, UndoUndoable
<1>6. CASE UnityConcludeFixtureTest
  BY <1>6 DEF UnityConcludeFixtureTest, Undoable
<1> QED
  BY <1>1, <1>2, <1>3, <1>4, <1>5, <1>6 DEF Next

\* Between two tests every pointer is what it was before the first one,
\* however the tests were left (unity_fixture.c:150-189).
THEOREM PointersCorrect == Spec => []PointersRestored
<1>1. Init => Undoable
  BY DEF Init, Undoable
<1>2. Shape /\ Undoable /\ [Next]_vars => Undoable'
  BY UndoableStep DEF vars, Undoable
<1>3. /\ Init => origin \in [Cells -> Values]
      /\ origin \in [Cells -> Values] /\ [Next]_vars => (origin \in [Cells -> Values])'
  BY DEF Init, Next, vars, ReadHelp, ReadFilter, ReadRepeat, ReadOther, OptionsRead, Option, Refuse,
      BeginRun, EndRun, MainReturns, SkipTest, UnityIgnoreTest, StartTest, Idle, history,
      FunctionReturns, AssertFunction, AssertCondition, UnityIgnore, TestPass,
      UnityPointer_Set, Step, Running, UndoLast, UnityConcludeFixtureTest
<1>4. Shape /\ Undoable /\ origin \in [Cells -> Values] => PointersRestored
  BY DEF Shape, Undoable, PointersRestored, BetweenTests, Between
<1> QED
  BY <1>1, <1>2, <1>3, <1>4, ShapeCorrect, PTL DEF Spec
=============================================================================
