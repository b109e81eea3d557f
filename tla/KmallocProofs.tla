---------------------------- MODULE KmallocProofs ---------------------------
(***************************************************************************)
(* kmalloc and kfree, for every pool, every slab and every class of slots: *)
(* what the lists of slabs and of free slots hold, and what halts.         *)
(***************************************************************************)
EXTENDS Kmalloc, ChunksProofs

-----------------------------------------------------------------------------
\* The function that Walk defines.
After(nxt, y) == IF y \in DOMAIN nxt THEN nxt[y] ELSE NULL

Part(g, n, nxt, x) == g = [i \in 0 .. n |-> IF i = 0 THEN x ELSE After(nxt, g[i - 1])]

LEMMA PartExists ==
  ASSUME NEW nxt, NEW x
  PROVE  \A n \in Nat : \E g : Part(g, n, nxt, x)
<1> DEFINE S == {n \in Nat : \E g : Part(g, n, nxt, x)}
<1>1. 0 \in S
  <2> DEFINE g == [i \in 0 .. 0 |-> x]
  <2>1. Part(g, 0, nxt, x)
    BY DEF Part
  <2> QED BY <2>1
<1>2. ASSUME NEW n \in Nat, n \in S PROVE n + 1 \in S
  <2>1. PICK g : Part(g, n, nxt, x)
    BY <1>2
  <2> DEFINE h == [i \in 0 .. n + 1 |-> IF i = n + 1 THEN After(nxt, g[n]) ELSE g[i]]
  <2>2. ASSUME NEW i \in 0 .. n + 1
        PROVE  h[i] = IF i = 0 THEN x ELSE After(nxt, h[i - 1])
    <3>1. CASE i = 0
      BY <2>1, <3>1 DEF Part
    <3>2. CASE i \in 1 .. n
      <4>1. i \in 0 .. n /\ i - 1 \in 0 .. n /\ i # n + 1 /\ i - 1 # n + 1 /\ i # 0
        BY <3>2
      <4>2. h[i] = g[i] /\ h[i - 1] = g[i - 1]
        BY <4>1
      <4> QED BY <2>1, <4>1, <4>2 DEF Part
    <3>3. CASE i = n + 1
      BY <3>3
    <3> QED BY <3>1, <3>2, <3>3
  <2>3. Part(h, n + 1, nxt, x)
    BY <2>2 DEF Part
  <2> HIDE DEF h
  <2> QED BY <2>3
<1> HIDE DEF S
<1>3. Nat \subseteq S
  BY <1>1, <1>2, Induction
<1> QED BY <1>3 DEF S

LEMMA PartUnique ==
  ASSUME NEW nxt, NEW x, NEW m \in Nat, NEW n \in Nat, NEW g, NEW h,
         Part(g, m, nxt, x), Part(h, n, nxt, x)
  PROVE  \A i \in Nat : i <= m /\ i <= n => g[i] = h[i]
<1> DEFINE S == {i \in Nat : i <= m /\ i <= n => g[i] = h[i]}
<1>1. 0 \in S
  BY DEF Part
<1>2. ASSUME NEW i \in Nat, i \in S PROVE i + 1 \in S
  <2> SUFFICES ASSUME i + 1 <= m, i + 1 <= n PROVE g[i + 1] = h[i + 1]
    OBVIOUS
  <2>1. g[i] = h[i]
    BY <1>2
  <2>2. i + 1 \in 0 .. m /\ i + 1 \in 0 .. n /\ i + 1 # 0 /\ (i + 1) - 1 = i
    OBVIOUS
  <2>3. g[i + 1] = After(nxt, g[i]) /\ h[i + 1] = After(nxt, h[i])
    BY <2>2 DEF Part
  <2> QED BY <2>1, <2>3
<1> HIDE DEF S
<1>3. Nat \subseteq S
  BY <1>1, <1>2, Induction
<1> QED BY <1>3 DEF S

\* The first node of a walk, and the one after each.
LEMMA WalkIs ==
  ASSUME NEW nxt, NEW x
  PROVE  /\ Walk(nxt, x)[0] = x
         /\ \A n \in Nat : Walk(nxt, x)[n + 1] = After(nxt, Walk(nxt, x)[n])
<1> DEFINE Eq(f) == f = [n \in Nat |-> IF n = 0 THEN x ELSE After(nxt, f[n - 1])]
           G == [n \in Nat |-> CHOOSE g : Part(g, n, nxt, x)]
           w == [n \in Nat |-> G[n][n]]
<1>1. \A n \in Nat : Part(G[n], n, nxt, x)
  BY PartExists
<1> HIDE DEF G
<1>2. ASSUME NEW n \in Nat
      PROVE  w[n] = IF n = 0 THEN x ELSE After(nxt, w[n - 1])
  <2>1. CASE n = 0
    <3>1. Part(G[n], n, nxt, x) /\ n \in 0 .. n
      BY <1>1
    <3>2. G[n][n] = x
      BY <2>1, <3>1 DEF Part
    <3> QED BY <2>1, <3>2
  <2>2. CASE n # 0
    <3>1. n - 1 \in Nat /\ n - 1 <= n /\ n - 1 <= n - 1 /\ n \in 0 .. n
      BY <2>2
    <3>2. G[n][n] = After(nxt, G[n][n - 1])
      BY <1>1, <2>2, <3>1 DEF Part
    <3>3. G[n][n - 1] = G[n - 1][n - 1]
      <4>1. Part(G[n], n, nxt, x) /\ Part(G[n - 1], n - 1, nxt, x)
        BY <1>1, <3>1
      <4>2. \A i \in Nat : i <= n /\ i <= n - 1 => G[n][i] = G[n - 1][i]
        <5>1. \A g, h : Part(g, n, nxt, x) /\ Part(h, n - 1, nxt, x) =>
                \A i \in Nat : i <= n /\ i <= n - 1 => g[i] = h[i]
          BY <3>1, PartUnique
        <5> QED BY <4>1, <5>1
      <4> QED BY <3>1, <4>2
    <3> QED BY <2>2, <3>1, <3>2, <3>3
  <2> QED BY <2>1, <2>2
<1>3. Eq(w)
  BY <1>2
<1> HIDE DEF w
<1>4. Walk(nxt, x) = CHOOSE f : Eq(f)
  BY DEF Walk, After
<1>5. Eq(Walk(nxt, x))
  BY <1>3, <1>4
<1>6. \A n \in Nat : n + 1 \in Nat /\ n + 1 # 0 /\ (n + 1) - 1 = n
  OBVIOUS
<1> QED BY <1>5, <1>6

-----------------------------------------------------------------------------
\* halvings, by the same argument: the numbers up to n suffice for n.
Halves(g, n) == g = [i \in 0 .. n |-> IF i > 1 THEN 1 + g[i \div 2] ELSE 0]

LEMMA Half ==
  \A n \in Nat : n > 1 => n \div 2 \in Nat /\ n \div 2 < n /\ n \div 2 >= 1
                          /\ (n = 2 * (n \div 2) \/ n = 2 * (n \div 2) + 1)
  OBVIOUS

LEMMA HalvesExists == \A n \in Nat : \E g : Halves(g, n)
<1> DEFINE S == {n \in Nat : \E g : Halves(g, n)}
<1>1. 0 \in S
  <2> DEFINE g == [i \in 0 .. 0 |-> 0]
  <2>1. Halves(g, 0)
    BY DEF Halves
  <2> QED BY <2>1
<1>2. ASSUME NEW n \in Nat, n \in S PROVE n + 1 \in S
  <2>1. PICK g : Halves(g, n)
    BY <1>2
  <2> DEFINE v == IF n + 1 > 1 THEN 1 + g[(n + 1) \div 2] ELSE 0
             h == [i \in 0 .. n + 1 |-> IF i = n + 1 THEN v ELSE g[i]]
  <2>2. ASSUME NEW i \in 0 .. n + 1
        PROVE  h[i] = IF i > 1 THEN 1 + h[i \div 2] ELSE 0
    <3>0. i > 1 => i \div 2 \in Nat /\ i \div 2 < i
      BY Half
    <3>1. CASE i = n + 1
      <4>1. h[i] = v
        BY <3>1
      <4>2. i > 1 => i \div 2 \in 0 .. n + 1 /\ i \div 2 # n + 1
        BY <3>0, <3>1
      <4>3. i > 1 => h[i \div 2] = g[i \div 2]
        BY <4>2
      <4> QED BY <3>1, <4>1, <4>3
    <3>2. CASE i # n + 1
      <4>1. i \in 0 .. n
        BY <3>2
      <4>2. h[i] = g[i] /\ g[i] = IF i > 1 THEN 1 + g[i \div 2] ELSE 0
        BY <2>1, <3>2, <4>1 DEF Halves
      <4>3. i > 1 => i \div 2 \in 0 .. n + 1 /\ i \div 2 # n + 1
        BY <3>0, <4>1
      <4>4. i > 1 => h[i \div 2] = g[i \div 2]
        BY <4>3
      <4> QED BY <4>2, <4>4
    <3> QED BY <3>1, <3>2
  <2> HIDE DEF v
  <2>3. Halves(h, n + 1)
    BY <2>2 DEF Halves
  <2> HIDE DEF h
  <2> QED BY <2>3
<1> HIDE DEF S
<1>3. Nat \subseteq S
  BY <1>1, <1>2, Induction
<1> QED BY <1>3 DEF S

LEMMA HalvesUnique ==
  ASSUME NEW m \in Nat, NEW n \in Nat, NEW g, NEW h, Halves(g, m), Halves(h, n)
  PROVE  \A i \in Nat : i <= m /\ i <= n => g[i] = h[i]
<1> DEFINE S == {k \in Nat : \A i \in 0 .. k : i <= m /\ i <= n => g[i] = h[i]}
<1>1. 0 \in S
  BY DEF Halves
<1>2. ASSUME NEW k \in Nat, k \in S PROVE k + 1 \in S
  <2> SUFFICES ASSUME NEW i \in 0 .. k + 1, i <= m, i <= n PROVE g[i] = h[i]
    OBVIOUS
  <2>1. /\ g[i] = IF i > 1 THEN 1 + g[i \div 2] ELSE 0
        /\ h[i] = IF i > 1 THEN 1 + h[i \div 2] ELSE 0
    BY DEF Halves
  <2>2. i > 1 => i \div 2 \in 0 .. k /\ i \div 2 <= m /\ i \div 2 <= n
    BY Half
  <2> QED BY <1>2, <2>1, <2>2
<1> HIDE DEF S
<1>3. Nat \subseteq S
  BY <1>1, <1>2, Induction
<1> QED BY <1>3 DEF S

LEMMA HalvingsIs ==
  \A n \in Nat : halvings[n] = IF n > 1 THEN 1 + halvings[n \div 2] ELSE 0
<1> DEFINE Eq(f) == f = [n \in Nat |-> IF n > 1 THEN 1 + f[n \div 2] ELSE 0]
           G == [n \in Nat |-> CHOOSE g : Halves(g, n)]
           w == [n \in Nat |-> G[n][n]]
<1>1. \A n \in Nat : Halves(G[n], n)
  BY HalvesExists
<1> HIDE DEF G
<1>2. ASSUME NEW n \in Nat
      PROVE  w[n] = IF n > 1 THEN 1 + w[n \div 2] ELSE 0
  <2>1. G[n][n] = IF n > 1 THEN 1 + G[n][n \div 2] ELSE 0
    <3>1. Halves(G[n], n) /\ n \in 0 .. n
      BY <1>1
    <3> QED BY <3>1 DEF Halves
  <2>2. n > 1 => n \div 2 \in Nat /\ n \div 2 <= n /\ n \div 2 <= n \div 2
    BY Half
  <2>3. n > 1 => G[n][n \div 2] = G[n \div 2][n \div 2]
    BY <1>1, <2>2, HalvesUnique
  <2> QED BY <2>1, <2>2, <2>3
<1>3. Eq(w)
  BY <1>2
<1> HIDE DEF w
<1>4. halvings = CHOOSE f : Eq(f)
  BY DEF halvings
<1>5. Eq(halvings)
  BY <1>3, <1>4
<1> QED BY <1>5

-----------------------------------------------------------------------------
\* Powers of two up to a bound.
Doubles(M) ==
  M \in Nat /\ \A k \in 0 .. M : 2^k \in Nat \ {0} /\ 2^(k + 1) = 2 * 2^k

LEMMA DoublesSlots == Doubles(SLAB_MAX_ORDER)
  BY SlabAssumption, SlotPowerAssumption DEF Doubles

LEMMA DoublesOrders == Doubles(BUDDY_MAX_ORDER - 1)
<1>1. \A k \in 0 .. BUDDY_MAX_ORDER - 1 :
        k \in 0 .. BUDDY_MAX_ORDER /\ k < BUDDY_MAX_ORDER
  BY PoolAssumption
<1>2. \A k \in 0 .. BUDDY_MAX_ORDER - 1 : 2^k \in Nat \ {0}
  BY <1>1, PowerNat
<1>3. \A k \in 0 .. BUDDY_MAX_ORDER - 1 : 2^(k + 1) = 2 * 2^k
  BY <1>1, PowerDouble
<1>4. BUDDY_MAX_ORDER - 1 \in Nat
  BY PoolAssumption
<1> QED BY <1>2, <1>3, <1>4 DEF Doubles

LEMMA PowersGrow ==
  ASSUME NEW M, Doubles(M), NEW a \in 0 .. M + 1, NEW b \in 0 .. M + 1, a <= b
  PROVE  2^a \in Nat \ {0} /\ 2^b \in Nat \ {0} /\ 2^a <= 2^b
<1>1. ASSUME NEW k \in 0 .. M + 1 PROVE 2^k \in Nat \ {0}
  <2>1. CASE k = 0
    BY <2>1, PowerZero
  <2>2. CASE k # 0
    <3>1. k - 1 \in 0 .. M /\ (k - 1) + 1 = k
      BY <2>2 DEF Doubles
    <3>2. 2^((k - 1) + 1) = 2 * 2^(k - 1) /\ 2^(k - 1) \in Nat \ {0}
      BY <3>1 DEF Doubles
    <3> QED BY <3>1, <3>2
  <2> QED BY <2>1, <2>2
<1> DEFINE S == {n \in Nat : a + n <= M + 1 => 2^a <= 2^(a + n)}
<1>2. 0 \in S
  <2>1. a + 0 = a
    OBVIOUS
  <2> QED BY <1>1, <2>1
<1>3. ASSUME NEW n \in Nat, n \in S PROVE n + 1 \in S
  <2> SUFFICES ASSUME a + (n + 1) <= M + 1 PROVE 2^a <= 2^(a + (n + 1))
    OBVIOUS
  <2>1. a + n \in 0 .. M /\ a + n <= M + 1 /\ (a + n) + 1 = a + (n + 1)
    BY DEF Doubles
  <2>2. 2^(a + (n + 1)) = 2 * 2^(a + n) /\ 2^(a + n) \in Nat \ {0}
    BY <2>1 DEF Doubles
  <2>3. 2^a <= 2^(a + n) /\ 2^a \in Nat
    BY <1>1, <1>3, <2>1
  <2> QED BY <2>2, <2>3
<1> HIDE DEF S
<1>4. Nat \subseteq S
  BY <1>2, <1>3, Induction
<1>5. b - a \in Nat /\ a + (b - a) = b /\ b <= M + 1
  BY DEF Doubles
<1>6. 2^a <= 2^(a + (b - a))
  BY <1>4, <1>5 DEF S
<1> QED BY <1>1, <1>5, <1>6

LEMMA HalvingsNat == \A n \in Nat : halvings[n] \in Nat
<1> DEFINE S == {k \in Nat : \A n \in 0 .. k : halvings[n] \in Nat}
<1>1. 0 \in S
  BY HalvingsIs
<1>2. ASSUME NEW k \in Nat, k \in S PROVE k + 1 \in S
  <2> SUFFICES ASSUME NEW n \in 0 .. k + 1 PROVE halvings[n] \in Nat
    OBVIOUS
  <2>1. n > 1 => n \div 2 \in 0 .. k
    BY Half
  <2>2. halvings[n] = IF n > 1 THEN 1 + halvings[n \div 2] ELSE 0
    BY HalvingsIs
  <2> QED BY <1>2, <2>1, <2>2
<1> HIDE DEF S
<1>3. Nat \subseteq S
  BY <1>1, <1>2, Induction
<1>4. \A n \in Nat : n \in 0 .. n
  OBVIOUS
<1> QED BY <1>3, <1>4 DEF S

\* A number lies between two powers of two, and halvings counts the lower one.
Between(M, n) ==
  /\ halvings[n] <= M => 2^halvings[n] <= n /\ n < 2 * 2^halvings[n]
  /\ \A k \in 0 .. M + 1 : k <= halvings[n] => 2^k <= n

LEMMA HalvingsBetween ==
  ASSUME NEW M, Doubles(M)
  PROVE  \A n \in Nat \ {0} : Between(M, n)
<1> DEFINE S == {k \in Nat : \A n \in 1 .. k : Between(M, n)}
<1>1. 0 \in S
  OBVIOUS
<1>2. ASSUME NEW j \in Nat, j \in S PROVE j + 1 \in S
  <2> SUFFICES ASSUME NEW n \in 1 .. j + 1 PROVE Between(M, n)
    OBVIOUS
  <2>1. M \in Nat /\ 2^0 = 1
    BY PowerZero DEF Doubles
  <2>2. CASE n = 1
    <3>1. halvings[n] = 0
      BY <2>2, HalvingsIs
    <3>2. \A k \in 0 .. M + 1 : k <= 0 => k = 0
      BY <2>1
    <3>3. 2^halvings[n] = 1
      BY <2>1, <3>1
    <3>4. ASSUME NEW k \in 0 .. M + 1, k <= halvings[n] PROVE 2^k <= n
      <4>1. k = 0
        BY <3>1, <3>2, <3>4
      <4>2. 2^k = 1
        BY <2>1, <4>1
      <4> QED BY <2>2, <4>2
    <3> QED BY <2>2, <3>3, <3>4 DEF Between
  <2>3. CASE n > 1
    <3>1. PICK m \in Nat : m = n \div 2
      BY <2>3, Half
    <3>2. m \in 1 .. j /\ (n = 2 * m \/ n = 2 * m + 1)
      BY <2>3, <3>1, Half
    <3>3. halvings[n] = 1 + halvings[m] /\ halvings[m] \in Nat
      BY <2>3, <3>1, HalvingsIs, HalvingsNat
    <3>4. Between(M, m)
      BY <1>2, <3>2
    <3>5. ASSUME halvings[n] <= M PROVE 2^halvings[n] <= n /\ n < 2 * 2^halvings[n]
      <4>1. halvings[m] \in 0 .. M /\ halvings[m] + 1 = halvings[n]
        BY <2>1, <3>3, <3>5
      <4>2. 2^halvings[m] \in Nat \ {0} /\ 2^(halvings[m] + 1) = 2 * 2^halvings[m]
        BY <4>1 DEF Doubles
      <4>3. 2^halvings[m] <= m /\ m < 2 * 2^halvings[m]
        BY <3>4, <4>1 DEF Between
      <4>4. 2^halvings[n] = 2 * 2^halvings[m]
        BY <4>1, <4>2
      <4> DEFINE e == 2^halvings[m]
                 f == 2^halvings[n]
      <4>5. e \in Nat /\ f = 2 * e /\ e <= m /\ m < 2 * e
        BY <4>2, <4>3, <4>4
      <4> HIDE DEF e, f
      <4>6. f <= n /\ n < 2 * f
        BY <3>2, <4>5
      <4> QED BY <4>6 DEF f
    <3>6. ASSUME NEW k \in 0 .. M + 1, k <= halvings[n] PROVE 2^k <= n
      <4>1. CASE k = 0
        BY <2>1, <2>3, <4>1
      <4>2. CASE k # 0
        <5>1. k - 1 \in 0 .. M /\ k - 1 \in 0 .. M + 1 /\ (k - 1) + 1 = k
              /\ k - 1 <= halvings[m]
          BY <2>1, <3>3, <3>6, <4>2
        <5>2. 2^(k - 1) \in Nat \ {0} /\ 2^((k - 1) + 1) = 2 * 2^(k - 1)
          BY <5>1 DEF Doubles
        <5>3. 2^(k - 1) <= m
          BY <3>4, <5>1 DEF Between
        <5>4. 2^k = 2 * 2^(k - 1)
          BY <5>1, <5>2
        <5> QED BY <3>2, <5>2, <5>3, <5>4
      <4> QED BY <4>1, <4>2
    <3> QED BY <3>5, <3>6 DEF Between
  <2> QED BY <2>2, <2>3
<1> HIDE DEF S
<1>3. Nat \subseteq S
  BY <1>1, <1>2, Induction
<1>4. \A n \in Nat \ {0} : n \in 1 .. n
  OBVIOUS
<1> QED BY <1>3, <1>4 DEF S

\* What size_to_order returns: the least order that is large enough.
LEMMA OrderIs ==
  ASSUME NEW M, Doubles(M), NEW n \in Nat
  PROVE  /\ size_to_order(n) \in Nat
         /\ size_to_order(n) <= M + 1 => n <= 2^size_to_order(n)
         /\ \A k \in 0 .. M : n <= 2^k => size_to_order(n) <= k
         /\ \A k \in 0 .. M : n = 2^k => size_to_order(n) = k
<1>0. M \in Nat /\ halvings[n] \in Nat
  BY HalvingsNat DEF Doubles
<1> DEFINE h == halvings[n]
           o == IF n > 2^h THEN h + 1 ELSE h
<1>1. o = size_to_order(n)
  BY DEF size_to_order
<1>2. CASE n = 0
  <2>1. h = 0
    BY <1>2, HalvingsIs
  <2>2. o = 0 /\ n <= 2^0
    BY <1>2, <2>1, PowerZero
  <2>3. \A k \in 0 .. M : n # 2^k /\ 0 <= k
    BY <1>2 DEF Doubles
  <2> HIDE DEF o
  <2>4. size_to_order(n) = 0
    BY <1>1, <2>2
  <2>5. \A k \in 0 .. M : 0 <= k
    OBVIOUS
  <2> QED BY <2>2, <2>3, <2>4, <2>5
<1>3. CASE n # 0
  <2>1. Between(M, n)
    BY <1>3, HalvingsBetween
  <2>2. o \in Nat /\ o \in {h, h + 1}
    BY <1>0
  <2>3. ASSUME o <= M + 1 PROVE n <= 2^o
    <3>1. CASE n > 2^h
      <4>1. o = h + 1 /\ h \in 0 .. M
        BY <1>0, <2>3, <3>1
      <4>2. n < 2 * 2^h /\ 2^(h + 1) = 2 * 2^h /\ 2^h \in Nat
        BY <2>1, <4>1 DEF Between, Doubles
      <4> QED BY <4>1, <4>2
    <3>2. CASE ~ n > 2^h
      <4>1. o = h /\ h \in 0 .. M + 1
        BY <1>0, <2>3, <3>2
      <4>2. 2^h \in Nat
        BY <1>0, <4>1, PowersGrow
      <4> QED BY <3>2, <4>1, <4>2
    <3> QED BY <3>1, <3>2
  <2>4. ASSUME NEW k \in 0 .. M, n <= 2^k PROVE o <= k
    <3>1. k + 1 \in 0 .. M + 1 /\ 2^(k + 1) = 2 * 2^k /\ 2^k \in Nat \ {0}
      BY <1>0 DEF Doubles
    <3>2. ~ k + 1 <= h
      BY <2>1, <2>4, <3>1 DEF Between
    <3>3. h = k => o = h
      BY <2>4, <3>1
    <3> QED BY <1>0, <2>2, <3>2, <3>3
  <2>5. ASSUME NEW k \in 0 .. M, n = 2^k PROVE o = k
    <3>1. k \in 0 .. M + 1 /\ 2^k \in Nat \ {0} /\ n <= 2^k
      BY <1>0, <2>5 DEF Doubles
    <3>2. o <= k
      BY <2>4, <3>1
    <3>3. ASSUME o + 1 <= k PROVE FALSE
      <4>1. o \in 0 .. M + 1 /\ o + 1 \in 0 .. M + 1 /\ o \in 0 .. M
        BY <1>0, <2>2, <3>3
      <4>2. n <= 2^o
        BY <2>3, <4>1
      <4>3. 2^(o + 1) <= 2^k
        BY <1>0, <3>1, <3>3, <4>1, PowersGrow
      <4>4. 2^(o + 1) = 2 * 2^o /\ 2^o \in Nat \ {0}
        BY <4>1 DEF Doubles
      <4> QED BY <2>5, <3>1, <4>2, <4>3, <4>4
    <3> QED BY <2>2, <3>2, <3>3
  <2> HIDE DEF o
  <2> QED BY <1>1, <2>2, <2>3, <2>4, <2>5
<1> QED BY <1>2, <1>3

-----------------------------------------------------------------------------
\* The walk from x meets each node of X once, c in all, and then ends.
Listed(nxt, x, c, X) ==
  LET w == Walk(nxt, x)
  IN /\ c \in Nat /\ NULL \notin X
     /\ w[c] = NULL
     /\ \A n \in 0 .. c - 1 : w[n] \in X
     /\ \A y \in X : \E n \in 0 .. c - 1 : w[n] = y
     /\ \A m, n \in 0 .. c - 1 : w[m] = w[n] => m = n

LEMMA ListedNone ==
  ASSUME NEW nxt
  PROVE  Listed(nxt, NULL, 0, {})
  BY WalkIs DEF Listed

LEMMA ListedStart ==
  ASSUME NEW nxt, NEW x, NEW c, NEW X, Listed(nxt, x, c, X)
  PROVE  /\ x = NULL => c = 0 /\ X = {}
         /\ x # NULL => x \in X /\ c > 0
<1> DEFINE w == Walk(nxt, x)
<1>1. w[0] = x
  BY WalkIs
<1>2. c \in Nat /\ NULL \notin X /\ w[c] = NULL /\ (\A n \in 0 .. c - 1 : w[n] \in X)
      /\ \A y \in X : \E n \in 0 .. c - 1 : w[n] = y
  BY DEF Listed
<1> HIDE DEF w
<1>3. CASE c = 0
  BY <1>1, <1>2, <1>3
<1>4. CASE c # 0
  <2>1. 0 \in 0 .. c - 1
    BY <1>2, <1>4
  <2> QED BY <1>1, <1>2, <2>1
<1> QED BY <1>3, <1>4

\* A change of links outside the list.
LEMMA ListedSame ==
  ASSUME NEW nxt, NEW nxt2, NEW x, NEW c, NEW X, Listed(nxt, x, c, X),
         \A z \in X : After(nxt2, z) = After(nxt, z)
  PROVE  Listed(nxt2, x, c, X)
<1> DEFINE w == Walk(nxt, x)
           v == Walk(nxt2, x)
           S == {n \in Nat : n <= c => v[n] = w[n]}
<1>1. v[0] = x /\ w[0] = x
      /\ \A n \in Nat : v[n + 1] = After(nxt2, v[n]) /\ w[n + 1] = After(nxt, w[n])
  BY WalkIs
<1>2. c \in Nat /\ NULL \notin X /\ w[c] = NULL /\ (\A n \in 0 .. c - 1 : w[n] \in X)
      /\ (\A y \in X : \E n \in 0 .. c - 1 : w[n] = y)
      /\ \A m, n \in 0 .. c - 1 : w[m] = w[n] => m = n
  BY DEF Listed
<1> SUFFICES \A n \in 0 .. c : v[n] = w[n]
  <2> HIDE DEF w, v
  <2>1. SUFFICES ASSUME \A n \in 0 .. c : v[n] = w[n]
                 PROVE  /\ v[c] = NULL /\ \A n \in 0 .. c - 1 : v[n] \in X
                        /\ \A y \in X : \E n \in 0 .. c - 1 : v[n] = y
                        /\ \A m, n \in 0 .. c - 1 : v[m] = v[n] => m = n
    BY <1>2 DEF Listed, v
  <2>2. c \in 0 .. c /\ \A n \in 0 .. c - 1 : v[n] = w[n]
    BY <1>2, <2>1
  <2> QED BY <1>2, <2>1, <2>2
<1> HIDE DEF w, v
<1>3. 0 \in S
  BY <1>1
<1>4. ASSUME NEW n \in Nat, n \in S PROVE n + 1 \in S
  <2> SUFFICES ASSUME n + 1 <= c PROVE v[n + 1] = w[n + 1]
    OBVIOUS
  <2>1. v[n] = w[n] /\ n \in 0 .. c - 1
    BY <1>2, <1>4
  <2>2. w[n] \in X
    BY <1>2, <2>1
  <2> QED BY <1>1, <2>1, <2>2
<1> HIDE DEF S
<1>5. Nat \subseteq S
  BY <1>3, <1>4, Induction
<1> QED BY <1>2, <1>5 DEF S

\* A node goes in front.
LEMMA ListedFront ==
  ASSUME NEW nxt, NEW nxt2, NEW x, NEW y, NEW c, NEW X, Listed(nxt, x, c, X),
         y \notin X, y # NULL, After(nxt2, y) = x,
         \A z \in X : After(nxt2, z) = After(nxt, z)
  PROVE  Listed(nxt2, y, c + 1, X \cup {y})
<1> DEFINE w == Walk(nxt, x)
           v == Walk(nxt2, y)
           S == {n \in Nat : n <= c => v[n + 1] = w[n]}
<1>1. v[0] = y /\ w[0] = x
      /\ \A n \in Nat : v[n + 1] = After(nxt2, v[n]) /\ w[n + 1] = After(nxt, w[n])
  BY WalkIs
<1>2. c \in Nat /\ NULL \notin X /\ w[c] = NULL /\ (\A n \in 0 .. c - 1 : w[n] \in X)
      /\ (\A z \in X : \E n \in 0 .. c - 1 : w[n] = z)
      /\ \A m, n \in 0 .. c - 1 : w[m] = w[n] => m = n
  BY DEF Listed
<1> HIDE DEF w, v
<1>3. 0 \in S
  <2>1. v[0 + 1] = After(nxt2, v[0])
    BY <1>1
  <2> QED BY <1>1, <2>1
<1>4. ASSUME NEW n \in Nat, n \in S PROVE n + 1 \in S
  <2> SUFFICES ASSUME n + 1 <= c PROVE v[(n + 1) + 1] = w[n + 1]
    OBVIOUS
  <2>1. v[n + 1] = w[n] /\ n \in 0 .. c - 1 /\ n + 1 \in Nat
    BY <1>2, <1>4
  <2>2. w[n] \in X
    BY <1>2, <2>1
  <2>3. v[(n + 1) + 1] = After(nxt2, v[n + 1]) /\ w[n + 1] = After(nxt, w[n])
    BY <1>1, <2>1
  <2> QED BY <2>1, <2>2, <2>3
<1> HIDE DEF S
<1>5. \A n \in 0 .. c : v[n + 1] = w[n]
  <2>1. Nat \subseteq S
    BY <1>3, <1>4, Induction
  <2> QED BY <1>2, <2>1 DEF S
<1>6. \A n \in 1 .. c + 1 : v[n] = w[n - 1]
  <2> SUFFICES ASSUME NEW n \in 1 .. c + 1 PROVE v[n] = w[n - 1]
    OBVIOUS
  <2>1. n - 1 \in 0 .. c /\ (n - 1) + 1 = n
    BY <1>2
  <2> QED BY <1>5, <2>1
<1>7. v[c + 1] = NULL /\ c + 1 \in Nat
  BY <1>2, <1>5
<1>8. ASSUME NEW n \in 0 .. (c + 1) - 1 PROVE v[n] \in X \cup {y}
  <2>1. CASE n = 0
    BY <1>1, <2>1
  <2>2. CASE n # 0
    <3>1. n \in 1 .. c + 1 /\ n - 1 \in 0 .. c - 1
      BY <1>2, <2>2
    <3> QED BY <1>2, <1>6, <3>1
  <2> QED BY <2>1, <2>2
<1>9. ASSUME NEW z \in X \cup {y} PROVE \E n \in 0 .. (c + 1) - 1 : v[n] = z
  <2>1. CASE z = y
    <3>1. 0 \in 0 .. (c + 1) - 1
      BY <1>2
    <3> QED BY <1>1, <2>1, <3>1
  <2>2. CASE z # y
    <3>1. PICK n \in 0 .. c - 1 : w[n] = z
      BY <1>2, <2>2
    <3>2. n + 1 \in 0 .. (c + 1) - 1 /\ n \in 0 .. c
      BY <1>2
    <3> QED BY <1>5, <3>1, <3>2
  <2> QED BY <2>1, <2>2
<1>10. ASSUME NEW m \in 0 .. (c + 1) - 1, NEW n \in 0 .. (c + 1) - 1, v[m] = v[n]
       PROVE  m = n
  <2>1. \A k \in 0 .. (c + 1) - 1 :
          k # 0 => k \in 1 .. c + 1 /\ k - 1 \in 0 .. c - 1 /\ v[k] \in X
    <3> SUFFICES ASSUME NEW k \in 0 .. (c + 1) - 1, k # 0
                 PROVE  k \in 1 .. c + 1 /\ k - 1 \in 0 .. c - 1 /\ v[k] \in X
      OBVIOUS
    <3>1. k \in 1 .. c + 1 /\ k - 1 \in 0 .. c - 1
      BY <1>2
    <3> QED BY <1>2, <1>6, <3>1
  <2>2. CASE m = 0 \/ n = 0
    BY <1>1, <1>10, <2>1, <2>2
  <2>3. CASE m # 0 /\ n # 0
    <3>1. v[m] = w[m - 1] /\ v[n] = w[n - 1]
      BY <1>6, <2>1, <2>3
    <3>2. m - 1 = n - 1
      BY <1>2, <1>10, <2>1, <2>3, <3>1
    <3> QED BY <3>2
  <2> QED BY <2>2, <2>3
<1>11. NULL \notin X \cup {y}
  BY <1>2
<1> QED BY <1>7, <1>8, <1>9, <1>10, <1>11 DEF Listed, v

\* The first node goes.
LEMMA ListedRest ==
  ASSUME NEW nxt, NEW nxt2, NEW x, NEW c, NEW X, Listed(nxt, x, c, X), x # NULL,
         \A z \in X \ {x} : After(nxt2, z) = After(nxt, z)
  PROVE  Listed(nxt2, After(nxt, x), c - 1, X \ {x})
<1> DEFINE w == Walk(nxt, x)
           v == Walk(nxt2, After(nxt, x))
           S == {n \in Nat : n <= c - 1 => v[n] = w[n + 1]}
<1>1. v[0] = After(nxt, x) /\ w[0] = x
      /\ \A n \in Nat : v[n + 1] = After(nxt2, v[n]) /\ w[n + 1] = After(nxt, w[n])
  BY WalkIs
<1>2. c \in Nat /\ NULL \notin X /\ w[c] = NULL /\ (\A n \in 0 .. c - 1 : w[n] \in X)
      /\ (\A z \in X : \E n \in 0 .. c - 1 : w[n] = z)
      /\ \A m, n \in 0 .. c - 1 : w[m] = w[n] => m = n
  BY DEF Listed
<1>3. x \in X /\ c > 0
  BY ListedStart
<1> HIDE DEF w, v
<1>4. ASSUME NEW n \in 1 .. c - 1 PROVE w[n] \in X \ {x}
  <2>1. n \in 0 .. c - 1 /\ 0 \in 0 .. c - 1 /\ n # 0
    BY <1>2, <1>3
  <2> QED BY <1>1, <1>2, <2>1
<1>5. 0 \in S
  <2>1. w[0 + 1] = After(nxt, w[0])
    BY <1>1
  <2> QED BY <1>1, <2>1
<1>6. ASSUME NEW n \in Nat, n \in S PROVE n + 1 \in S
  <2> SUFFICES ASSUME n + 1 <= c - 1 PROVE v[n + 1] = w[(n + 1) + 1]
    OBVIOUS
  <2>1. v[n] = w[n + 1] /\ n + 1 \in 1 .. c - 1 /\ n + 1 \in Nat
    BY <1>2, <1>6
  <2>2. w[n + 1] \in X \ {x}
    BY <1>4, <2>1
  <2>3. v[n + 1] = After(nxt2, v[n]) /\ w[(n + 1) + 1] = After(nxt, w[n + 1])
    BY <1>1, <2>1
  <2> QED BY <2>1, <2>2, <2>3
<1> HIDE DEF S
<1>7. \A n \in 0 .. c - 1 : v[n] = w[n + 1]
  <2>1. Nat \subseteq S
    BY <1>5, <1>6, Induction
  <2> QED BY <1>2, <2>1 DEF S
<1>8. v[c - 1] = NULL /\ c - 1 \in Nat
  <2>1. c - 1 \in 0 .. c - 1 /\ (c - 1) + 1 = c
    BY <1>2, <1>3
  <2> QED BY <1>2, <1>7, <2>1
<1>9. ASSUME NEW n \in 0 .. (c - 1) - 1 PROVE v[n] = w[n + 1] /\ n + 1 \in 1 .. c - 1
  BY <1>2, <1>7
<1>10. ASSUME NEW z \in X \ {x} PROVE \E n \in 0 .. (c - 1) - 1 : v[n] = z
  <2>1. PICK n \in 0 .. c - 1 : w[n] = z
    BY <1>2
  <2>2. n # 0
    BY <1>1, <2>1
  <2>3. n - 1 \in 0 .. (c - 1) - 1 /\ (n - 1) + 1 = n
    BY <1>2, <2>2
  <2> QED BY <1>9, <2>1, <2>3
<1>11. ASSUME NEW m \in 0 .. (c - 1) - 1, NEW n \in 0 .. (c - 1) - 1, v[m] = v[n]
       PROVE  m = n
  <2>1. m + 1 \in 0 .. c - 1 /\ n + 1 \in 0 .. c - 1 /\ w[m + 1] = w[n + 1]
    BY <1>9, <1>11
  <2>2. m + 1 = n + 1
    BY <1>2, <2>1
  <2> QED BY <2>2
<1>12. \A n \in 0 .. (c - 1) - 1 : v[n] \in X \ {x}
  BY <1>4, <1>9
<1>13. NULL \notin X \ {x}
  BY <1>2
<1> QED BY <1>8, <1>10, <1>11, <1>12, <1>13 DEF Listed, v

LEMMA ListedCount ==
  ASSUME NEW nxt, NEW x, NEW c, NEW X, Listed(nxt, x, c, X)
  PROVE  /\ IsFiniteSet(X) /\ Cardinality(X) = c
         /\ {Walk(nxt, x)[n] : n \in 0 .. c - 1} = X
<1> DEFINE w == Walk(nxt, x)
           f == [n \in 0 .. c - 1 |-> w[n]]
<1>1. c \in Nat /\ (\A n \in 0 .. c - 1 : w[n] \in X)
      /\ (\A z \in X : \E n \in 0 .. c - 1 : w[n] = z)
      /\ \A m, n \in 0 .. c - 1 : w[m] = w[n] => m = n
  BY DEF Listed
<1> HIDE DEF w
<1>2. f \in Bijection(0 .. c - 1, X)
  BY <1>1 DEF Bijection, Injection, Surjection, IsInjective
<1>3. ExistsBijection(0 .. c - 1, X)
  BY <1>2 DEF ExistsBijection
<1>4. IsFiniteSet(0 .. c - 1) /\ Cardinality(0 .. c - 1) = c
  <2>1. 0 \in Int /\ c - 1 \in Int
    BY <1>1
  <2>2. Cardinality(0 .. c - 1) = IF 0 > c - 1 THEN 0 ELSE (c - 1) - 0 + 1
    BY <2>1, FS_Interval
  <2> QED BY <1>1, <2>1, <2>2, FS_Interval
<1>5. IsFiniteSet(X) /\ Cardinality(X) = c
  BY <1>3, <1>4, FS_Bijection
<1>6. {w[n] : n \in 0 .. c - 1} = X
  BY <1>1
<1> QED BY <1>5, <1>6 DEF w

-----------------------------------------------------------------------------
\* Where the slots of a slab are.
Page == BUDDY_PAGE_SIZE
Count(o) == SLAB_INIT_SIZE \div order_to_size(o)
Slot(s, o, i) == page_to_virt(s) + i * order_to_size(o)

LEMMA MulLt ==
  \A a, b \in Int, s \in Nat \ {0} : a * s < b * s => a < b
  OBVIOUS

LEMMA Divided ==
  \A x \in Int, s \in Nat \ {0} :
    /\ x \div s \in Int /\ (x \div s) * s <= x /\ x < (x \div s) * s + s
    /\ (x % s = 0 => x = (x \div s) * s)
  OBVIOUS

LEMMA PageFacts ==
  /\ Page \in Nat \ {0} /\ SlabPageOrder \in Orders
  /\ 2^SlabPageOrder \in Nat \ {0} /\ SLAB_INIT_SIZE = 2^SlabPageOrder * Page
  /\ SLAB_INIT_SIZE \in Nat \ {0}
  /\ NULL \notin Int
<1>1. Page \in Nat \ {0}
  <2>1. SLAB_MIN_ORDER \in SlabOrders /\ SLAB_MIN_ORDER \in 0 .. SLAB_MAX_ORDER
    BY SlabAssumption DEF SlabOrders
  <2>2. 2^SLAB_MIN_ORDER \in Nat \ {0} /\ 2^SLAB_MIN_ORDER < Page /\ Page \in Nat
    BY <2>1, SlabAssumption, SlotPowerAssumption DEF Page
  <2> QED BY <2>2
<1>2. PICK o \in Orders : SLAB_INIT_SIZE = 2^o * Page
  BY SlabAssumption DEF Page
<1>3. 2^o \in Nat \ {0} /\ o \in 0 .. BUDDY_MAX_ORDER - 1
  BY OrderPower DEF Orders
<1>4. SLAB_INIT_SIZE \div Page = 2^o
  BY <1>1, <1>2, <1>3, Multiple
<1>5. SlabPageOrder = o
  BY <1>3, <1>4, DoublesOrders, OrderIs DEF SlabPageOrder, Page
<1> QED BY <1>1, <1>2, <1>3, <1>5, PoolAssumption

LEMMA SlotFacts ==
  ASSUME NEW o \in SlabOrders
  PROVE  /\ order_to_size(o) \in Nat \ {0} /\ order_to_size(o) < Page
         /\ Page % order_to_size(o) = 0
         /\ Count(o) \in Nat /\ Count(o) >= 2
         /\ Count(o) * order_to_size(o) <= SLAB_INIT_SIZE
<1>1. o \in 0 .. SLAB_MAX_ORDER
  BY SlabAssumption DEF SlabOrders
<1> DEFINE z == order_to_size(o)
<1>2. z \in Nat \ {0} /\ z < Page /\ Page % z = 0
  BY <1>1, SlabAssumption, SlotPowerAssumption DEF order_to_size, Page
<1> HIDE DEF z
<1>3. 2 * z <= Page
  <2>1. PICK q \in Int : Page = q * z
    <3>1. Page \in Int /\ z \in Nat \ {0} /\ Page % z = 0
      BY <1>2, PageFacts
    <3>2. \A p \in Int, u \in Nat \ {0} : p % u = 0 => \E q \in Int : p = q * u
      BY Multiple
    <3> QED BY <3>1, <3>2, Zenon
  <2>2. 1 * z < q * z
    BY <1>2, <2>1
  <2>3. 1 < q
    BY <1>2, <2>2, MulLt
  <2>4. 2 * z <= q * z
    BY <1>2, <2>3, MulLe
  <2> QED BY <2>1, <2>4
<1>4. Page <= SLAB_INIT_SIZE
  <2>1. 1 * Page <= 2^SlabPageOrder * Page
    BY PageFacts, MulLe
  <2> QED BY <2>1, PageFacts
<1>5. PICK k \in Int : k = SLAB_INIT_SIZE \div z /\ k * z <= SLAB_INIT_SIZE
                       /\ SLAB_INIT_SIZE < k * z + z
  <2>1. SLAB_INIT_SIZE \in Int /\ z \in Nat \ {0}
    BY <1>2, PageFacts
  <2>2. /\ SLAB_INIT_SIZE \div z \in Int
        /\ (SLAB_INIT_SIZE \div z) * z <= SLAB_INIT_SIZE
        /\ SLAB_INIT_SIZE < (SLAB_INIT_SIZE \div z) * z + z
    BY <2>1, Divided, Zenon
  <2> QED BY <2>2, Zenon
<1>6. k >= 2
  <2>1. 2 * z < k * z + z /\ k * z + z = (k + 1) * z
    <3>1. k * z \in Int
      BY <1>2
    <3>2. k * z + z = (k + 1) * z
      BY <1>2
    <3> QED BY <1>2, <1>3, <1>4, <1>5, <3>1, <3>2, PageFacts
  <2>2. 2 < k + 1
    BY <1>2, <2>1, MulLt
  <2> QED BY <2>2
<1>7. k = Count(o)
  BY <1>5 DEF Count, z
<1> QED BY <1>2, <1>5, <1>6, <1>7 DEF z

LEMMA PageByte ==
  /\ \A p \in Pages : page_to_virt(p) \in Bytes /\ virt_to_page(page_to_virt(p)) = p
  /\ \A a \in Bytes : a \in Int /\ virt_to_page(a) \in Pages
  /\ \A p, q \in Pages : page_to_virt(p) = page_to_virt(q) => p = q
<1>1. StartPage \in Nat /\ NPages \in Nat /\ EndPage = StartPage + NPages
      /\ Pages = StartPage .. EndPage - 1
  BY PoolAssumption DEF EndPage, Pages
<1>2. Page \in Nat \ {0}
  BY PageFacts
<1>3. ASSUME NEW p \in Pages
      PROVE  page_to_virt(p) \in Bytes /\ virt_to_page(page_to_virt(p)) = p
  <2>1. p \in Int /\ StartPage <= p /\ p + 1 <= EndPage
    BY <1>1
  <2>2. StartPage * Page <= p * Page /\ (p + 1) * Page <= EndPage * Page
    BY <1>1, <1>2, <2>1, MulLe
  <2>3. (p + 1) * Page = p * Page + Page /\ p * Page \in Int /\ StartPage * Page \in Int
        /\ EndPage * Page \in Int
    BY <1>1, <1>2, <2>1
  <2>4. p * Page \in StartPage * Page .. EndPage * Page - 1
    BY <1>2, <2>2, <2>3
  <2>5. (p * Page) \div Page = p
    BY <1>2, <2>1, <2>3, Multiple
  <2> QED BY <2>4, <2>5 DEF page_to_virt, virt_to_page, Bytes, Page
<1>4. ASSUME NEW a \in Bytes PROVE a \in Int /\ virt_to_page(a) \in Pages
  <2>1. StartPage * Page \in Int /\ EndPage * Page \in Int
    BY <1>1, <1>2
  <2>2. a \in Int /\ StartPage * Page <= a /\ a < EndPage * Page
    BY <2>1 DEF Bytes, page_to_virt, Page
  <2>3. PICK q \in Int : q = a \div Page /\ q * Page <= a /\ a < q * Page + Page
    BY <1>2, <2>2, Divided
  <2>4. q * Page + Page = (q + 1) * Page /\ q * Page \in Int
    BY <1>2
  <2>5. q < EndPage
    <3>1. q * Page < EndPage * Page
      <4> DEFINE e == EndPage * Page
                 t == q * Page
      <4>1. t \in Int /\ e \in Int /\ t <= a /\ a < e /\ a \in Int
        BY <2>1, <2>2, <2>3, <2>4
      <4> HIDE DEF t, e
      <4>2. t < e
        BY <4>1
      <4> QED BY <4>2 DEF t, e
    <3>2. EndPage \in Int /\ q \in Int /\ Page \in Nat \ {0}
      BY <1>1, <1>2
    <3> QED BY <3>1, <3>2, MulLt, Zenon
  <2>6. StartPage < q + 1
    <3>1. StartPage * Page < (q + 1) * Page
      <4> DEFINE e == StartPage * Page
                 t == q * Page
                 v == (q + 1) * Page
      <4>1. t \in Int /\ e \in Int /\ e <= a /\ a < t + Page /\ a \in Int /\ t + Page = v
        BY <2>1, <2>2, <2>3, <2>4
      <4> HIDE DEF t, e, v
      <4>2. e < v
        BY <4>1, <1>2
      <4> QED BY <4>2 DEF v, e
    <3>2. StartPage \in Int /\ q + 1 \in Int /\ Page \in Nat \ {0}
      BY <1>1, <1>2
    <3> QED BY <3>1, <3>2, MulLt, Zenon
  <2> QED BY <1>1, <2>2, <2>3, <2>5, <2>6 DEF virt_to_page, Page
<1> QED BY <1>3, <1>4

\* The slots of a slab, one after the other behind its header.
LEMMA SlotIs ==
  ASSUME NEW s \in Pages, Fits(s, SlabPageOrder), NEW o \in SlabOrders
  PROVE  /\ Slots(s, o) = {Slot(s, o, i) : i \in 1 .. Count(o) - 1}
         /\ FirstSlot(s, o) = Slot(s, o, 1)
         /\ \A i \in Int : /\ Slot(s, o, i) \in Int
                           /\ Slot(s, o, i) + order_to_size(o) = Slot(s, o, i + 1)
         /\ \A i, j \in Int : Slot(s, o, i) = Slot(s, o, j) => i = j
<1> DEFINE z == order_to_size(o)
           b == page_to_virt(s)
<1>1. z \in Nat \ {0} /\ b \in Int
  BY SlotFacts, PageByte, PageFacts DEF page_to_virt
<1>2. Slots(s, o) = {Slot(s, o, i) : i \in 1 .. Count(o) - 1}
  BY DEF Slots, Slot, Count
<1> HIDE DEF z, b
<1>3. \A i \in Int : Slot(s, o, i) = b + i * z
  BY DEF Slot, z, b
<1>4. ASSUME NEW i \in Int
      PROVE  Slot(s, o, i) \in Int /\ Slot(s, o, i) + z = Slot(s, o, i + 1)
  <2>1. (i + 1) * z = i * z + z /\ i * z \in Int
    BY <1>1
  <2> QED BY <1>1, <1>3, <2>1
<1>5. ASSUME NEW i \in Int, NEW j \in Int, Slot(s, o, i) = Slot(s, o, j)
      PROVE  i = j
  <2>1. i * z = j * z
    <3> DEFINE x == i * z
               y == j * z
    <3>1. x \in Int /\ y \in Int
      BY <1>1
    <3>2. b + x = b + y
      BY <1>3, <1>5, Zenon
    <3> HIDE DEF x, y
    <3>3. x = y
      BY <1>1, <3>1, <3>2
    <3> QED BY <3>3 DEF x, y
  <2>2. (i * z) \div z = i /\ (j * z) \div z = j
    BY <1>1, Multiple
  <2> QED BY <2>1, <2>2
<1>6. FirstSlot(s, o) = Slot(s, o, 1)
  <2>1. FirstSlot(s, o) = b + z /\ 1 * z = z
    BY <1>1 DEF FirstSlot, z, b
  <2> QED BY <1>3, <2>1
<1> QED BY <1>2, <1>4, <1>5, <1>6 DEF z

LEMMA SlotInside ==
  ASSUME NEW s \in Pages, Fits(s, SlabPageOrder), NEW o \in SlabOrders,
         NEW a \in Slots(s, o)
  PROVE  /\ a \in Bytes /\ virt_to_page(a) \in Extent(s, SlabPageOrder)
         /\ page_to_virt(s) + order_to_size(o) <= a
         /\ a + order_to_size(o) <= page_to_virt(s) + SLAB_INIT_SIZE
<1> DEFINE z == order_to_size(o)
           b == page_to_virt(s)
           n == 2^SlabPageOrder
<1>0. z \in Nat \ {0} /\ Count(o) \in Nat /\ Count(o) * z <= SLAB_INIT_SIZE
      /\ b \in Int /\ b = s * Page /\ s \in Int
      /\ n \in Nat \ {0} /\ Page \in Nat \ {0} /\ SLAB_INIT_SIZE = n * Page
      /\ SLAB_INIT_SIZE \in Nat
  BY SlotFacts, PageByte, PageFacts, PoolAssumption DEF page_to_virt, Page, Pages
<1>1. StartPage \in Int /\ EndPage \in Int /\ StartPage <= s /\ s + n <= EndPage
  BY PoolAssumption DEF Fits, EndPage
<1>2. PICK i \in 1 .. Count(o) - 1 : a = b + i * z
  BY DEF Slots, Count
<1>3. Bytes = StartPage * Page .. EndPage * Page - 1
  BY DEF Bytes, page_to_virt, Page
<1> HIDE DEF z, b, n
<1>4. z <= i * z /\ i * z + z <= SLAB_INIT_SIZE
  <2>1. i \in Int /\ 1 <= i /\ i + 1 <= Count(o)
    BY <1>0
  <2>2. 1 * z <= i * z /\ (i + 1) * z <= Count(o) * z
    BY <1>0, <2>1, MulLe
  <2>3. (i + 1) * z = i * z + z /\ i * z \in Int /\ Count(o) * z \in Int
    BY <1>0, <2>1
  <2> QED BY <1>0, <2>2, <2>3
<1>5. a \in Int /\ b + z <= a /\ a + z <= b + SLAB_INIT_SIZE
  <2>1. i * z \in Int
    BY <1>0
  <2> QED BY <1>0, <1>2, <1>4, <2>1
<1>6. b + SLAB_INIT_SIZE = (s + n) * Page
  BY <1>0
<1>7. virt_to_page(a) \in s .. s + n - 1
  <2>1. PICK q \in Int : q = a \div Page /\ q * Page <= a /\ a < q * Page + Page
    BY <1>0, <1>5, Divided
  <2>2. q * Page + Page = (q + 1) * Page /\ q * Page \in Int /\ (s + n) * Page \in Int
        /\ s * Page \in Int
    BY <1>0
  <2>3. q < s + n
    <3>1. q * Page < (s + n) * Page
      BY <1>0, <1>5, <1>6, <2>1, <2>2
    <3> QED BY <1>0, <3>1, MulLt
  <2>4. s < q + 1
    <3>1. s * Page < (q + 1) * Page
      BY <1>0, <1>5, <2>1, <2>2
    <3> QED BY <1>0, <3>1, MulLt
  <2> QED BY <1>0, <2>1, <2>3, <2>4 DEF virt_to_page, Page
<1>8. a \in Bytes
  <2>1. StartPage * Page <= s * Page /\ (s + n) * Page <= EndPage * Page
    BY <1>0, <1>1, MulLe
  <2>2. StartPage * Page \in Int /\ EndPage * Page \in Int /\ s * Page \in Int
        /\ (s + n) * Page \in Int
    BY <1>0, <1>1
  <2> QED BY <1>0, <1>3, <1>5, <1>6, <2>1, <2>2
<1> QED BY <1>5, <1>7, <1>8 DEF Extent, z, b, n

\* The list that init_slab_cache lays through the slots.
LEMMA LinkedList ==
  ASSUME NEW s \in Pages, Fits(s, SlabPageOrder), NEW o \in SlabOrders,
         next_free \in [Bytes -> Bytes \cup {NULL, User}]
  PROVE  LET l == LinkSlots(s, o)
         IN /\ l \in [Bytes -> Bytes \cup {NULL, User}]
            /\ Listed(l, FirstSlot(s, o), Count(o) - 1, Slots(s, o))
            /\ \A a \in Bytes \ Slots(s, o) : l[a] = next_free[a]
            /\ FirstSlot(s, o) \in Slots(s, o)
            /\ l[FirstSlot(s, o)] \in Bytes \cup {NULL}
<1> DEFINE l == LinkSlots(s, o)
           K == Count(o)
           w == Walk(l, FirstSlot(s, o))
           S == {n \in Nat : n < K - 1 => w[n] = Slot(s, o, n + 1)}
<1>0. K \in Nat /\ K >= 2
  BY SlotFacts
<1>1. Slots(s, o) \subseteq Bytes
  BY SlotInside
<1>2. \A i \in 1 .. K - 1 : Slot(s, o, i) \in Slots(s, o)
  BY SlotIs
<1>3. \A a \in Bytes :
        l[a] = IF a \notin Slots(s, o) THEN next_free[a]
               ELSE IF a + order_to_size(o) \in Slots(s, o) THEN a + order_to_size(o)
               ELSE NULL
  BY DEF LinkSlots
<1>4. DOMAIN l = Bytes
  BY DEF LinkSlots
<1>5. l \in [Bytes -> Bytes \cup {NULL, User}]
  <2>1. \A a \in Bytes : l[a] \in Bytes \cup {NULL, User}
    BY <1>1, <1>3
  <2>2. l = [a \in Bytes |-> l[a]]
    BY DEF LinkSlots
  <2> HIDE DEF l
  <2> QED BY <2>1, <2>2
<1> HIDE DEF l
<1>6. ASSUME NEW i \in 1 .. K - 1
      PROVE  After(l, Slot(s, o, i)) = IF i + 1 <= K - 1 THEN Slot(s, o, i + 1) ELSE NULL
  <2>1. Slot(s, o, i) \in Slots(s, o) /\ Slot(s, o, i) \in Bytes
        /\ Slot(s, o, i) + order_to_size(o) = Slot(s, o, i + 1)
    BY <1>1, <1>2, SlotIs
  <2>2. After(l, Slot(s, o, i)) = IF Slot(s, o, i + 1) \in Slots(s, o)
                                  THEN Slot(s, o, i + 1) ELSE NULL
    BY <1>3, <1>4, <2>1 DEF After
  <2>3. CASE i + 1 <= K - 1
    BY <1>0, <1>2, <2>2, <2>3
  <2>4. CASE ~ i + 1 <= K - 1
    <3>1. Slot(s, o, i + 1) \notin Slots(s, o)
      <4> SUFFICES ASSUME NEW j \in 1 .. K - 1, Slot(s, o, i + 1) = Slot(s, o, j) PROVE FALSE
        BY SlotIs
      <4>1. i + 1 = j
        BY SlotIs
      <4> QED BY <1>0, <2>4, <4>1
    <3> QED BY <2>2, <2>4, <3>1
  <2> QED BY <2>3, <2>4
<1>7. w[0] = Slot(s, o, 1) /\ \A n \in Nat : w[n + 1] = After(l, w[n])
  BY WalkIs, SlotIs
<1> HIDE DEF w, K
<1>8. \A n \in 0 .. K - 2 : w[n] = Slot(s, o, n + 1)
  <2>1. 0 \in S
    BY <1>7
  <2>2. ASSUME NEW n \in Nat, n \in S PROVE n + 1 \in S
    <3> SUFFICES ASSUME n + 1 < K - 1 PROVE w[n + 1] = Slot(s, o, (n + 1) + 1)
      OBVIOUS
    <3>1. w[n] = Slot(s, o, n + 1) /\ n + 1 \in 1 .. K - 1 /\ (n + 1) + 1 <= K - 1
      BY <1>0, <2>2
    <3>2. w[n + 1] = After(l, w[n])
      BY <1>7
    <3> QED BY <1>6, <3>1, <3>2
  <2> HIDE DEF S
  <2>3. Nat \subseteq S
    BY <2>1, <2>2, Induction
  <2> QED BY <1>0, <2>3 DEF S
<1>9. w[K - 1] = NULL
  <2>1. K - 2 \in Nat /\ (K - 2) + 1 = K - 1 /\ K - 2 \in 0 .. K - 2 /\ K - 1 \in 1 .. K - 1
        /\ ~ (K - 1) + 1 <= K - 1
    BY <1>0
  <2>2. w[K - 1] = After(l, w[K - 2]) /\ w[K - 2] = Slot(s, o, K - 1)
    BY <1>7, <1>8, <2>1
  <2> QED BY <1>6, <2>1, <2>2
<1>10. Listed(l, FirstSlot(s, o), K - 1, Slots(s, o))
  <2>1. K - 1 \in Nat /\ (K - 1) - 1 = K - 2
    BY <1>0
  <2>2. ASSUME NEW n \in 0 .. K - 2
        PROVE  w[n] = Slot(s, o, n + 1) /\ w[n] \in Slots(s, o)
    <3>1. n + 1 \in 1 .. K - 1
      BY <1>0
    <3> QED BY <1>2, <1>8, <3>1
  <2>3. ASSUME NEW y \in Slots(s, o) PROVE \E n \in 0 .. K - 2 : w[n] = y
    <3>1. PICK i \in 1 .. K - 1 : y = Slot(s, o, i)
      BY SlotIs DEF K
    <3>2. i - 1 \in 0 .. K - 2 /\ (i - 1) + 1 = i
      BY <1>0
    <3>3. w[i - 1] = Slot(s, o, i)
      BY <1>8, <3>2
    <3> QED BY <3>1, <3>2, <3>3
  <2>4. ASSUME NEW m \in 0 .. K - 2, NEW n \in 0 .. K - 2, w[m] = w[n] PROVE m = n
    <3>1. Slot(s, o, m + 1) = Slot(s, o, n + 1) /\ m + 1 \in Int /\ n + 1 \in Int
      BY <1>0, <2>2, <2>4
    <3>2. m + 1 = n + 1
      BY <3>1, SlotIs
    <3> QED BY <3>2
  <2>5. NULL \notin Slots(s, o)
    BY <1>1, PageByte, PageFacts
  <2> QED BY <1>9, <2>1, <2>2, <2>3, <2>4, <2>5 DEF Listed, w
<1>11. FirstSlot(s, o) \in Slots(s, o)
  <2>1. 1 \in 1 .. K - 1
    BY <1>0
  <2> QED BY <1>2, <2>1, SlotIs
<1>12. l[FirstSlot(s, o)] \in Bytes \cup {NULL}
  BY <1>1, <1>3, <1>11
<1>13. \A a \in Bytes \ Slots(s, o) : l[a] = next_free[a]
  BY <1>3
<1> QED BY <1>5, <1>10, <1>11, <1>12, <1>13 DEF l, K


-----------------------------------------------------------------------------
\* The invariant, part by part.
ChunksApart ==
  /\ \A p \in Pages : owned[p] # NULL => Fits(p, owned[p])
  /\ \A p, q \in Pages :
       owned[p] # NULL /\ owned[q] # NULL /\ p # q =>
         Extent(p, owned[p]) \cap Extent(q, owned[q]) = {}

\* A page is tagged with the slab it lies in.
IsSlab(s) == s \in Pages /\ page_slab[s] = s

Tags ==
  /\ \A p \in Pages : page_slab[p] # NULL =>
       IsSlab(page_slab[p]) /\ p \in Extent(page_slab[p], SlabPageOrder)
  /\ \A s \in Pages : IsSlab(s) =>
       /\ owned[s] = SlabPageOrder /\ header[s].order \in SlabOrders
       /\ \A p \in Extent(s, SlabPageOrder) : page_slab[p] = s

\* The lists of slabs and of free slots end, and hold what they should once.
SlabSet(o) == {s \in Pages : IsSlab(s) /\ header[s].order = o}
NextSlabs == [s \in Pages |-> header[s].next_slab]

SlabLists == \A o \in SlabOrders : \E c : Listed(NextSlabs, slabs[o], c, SlabSet(o))

FreeSlots(s) == Slots(s, header[s].order) \ InUse

SlotLists ==
  \A s \in Pages :
    IsSlab(s) => \E c : Listed(next_free, header[s].free_list_head, c, FreeSlots(s))

\* An object is a slot or a chunk, and a chunk in use is a slab or an object.
ObjectsRight ==
  \A a \in Bytes : live[a] # NULL =>
    LET p == virt_to_page(a)
    IN IF page_slab[p] # NULL
       THEN a \in Slots(page_slab[p], header[page_slab[p]].order) /\ FitsSlot(live[a])
       ELSE owned[p] # NULL /\ a = page_to_virt(p)

ChunksUsed ==
  \A p \in Pages : owned[p] # NULL => IsSlab(p) \/ live[page_to_virt(p)] # NULL

\* init_slab has not reached the orders to come.
NotYet == \A o \in SlabOrders : o >= init_order => slabs[o] = NULL

Inv ==
  /\ TypeOK /\ ChunksApart /\ Tags /\ SlabLists /\ SlotLists
  /\ ObjectsRight /\ ChunksUsed /\ NotYet /\ HaltsOnlyWithoutMemory

-----------------------------------------------------------------------------
\* What the invariant says of one slab.
LEMMA SlabFacts ==
  ASSUME Inv, NEW s, IsSlab(s)
  PROVE  /\ s \in Pages /\ s # NULL /\ page_slab[s] = s
         /\ owned[s] = SlabPageOrder /\ header[s].order \in SlabOrders
         /\ Fits(s, SlabPageOrder)
         /\ s \in SlabSet(header[s].order)
         /\ \A a \in Slots(s, header[s].order) :
              a \in Bytes /\ a # NULL /\ virt_to_page(a) \in Pages
                /\ page_slab[virt_to_page(a)] = s
<1>1. s \in Pages /\ page_slab[s] = s /\ s # NULL
  BY PageFacts, PoolAssumption DEF IsSlab, Pages
<1>2. owned[s] = SlabPageOrder /\ header[s].order \in SlabOrders
      /\ \A p \in Extent(s, SlabPageOrder) : page_slab[p] = s
  BY <1>1 DEF Inv, Tags
<1>3. owned[s] # NULL
  BY <1>2, PageFacts DEF Orders
<1>4. Fits(s, SlabPageOrder)
  BY <1>1, <1>2, <1>3 DEF Inv, ChunksApart
<1>5. ASSUME NEW a \in Slots(s, header[s].order)
      PROVE  a \in Bytes /\ a # NULL /\ virt_to_page(a) \in Pages
               /\ page_slab[virt_to_page(a)] = s
  <2>1. a \in Bytes /\ virt_to_page(a) \in Extent(s, SlabPageOrder)
    BY <1>1, <1>2, <1>4, SlotInside
  <2>2. a \in Int /\ virt_to_page(a) \in Pages
    BY <2>1, PageByte
  <2> QED BY <1>2, <2>1, <2>2, PageFacts
<1> QED BY <1>1, <1>2, <1>4, <1>5 DEF SlabSet

\* A slot belongs to one slab only.
LEMMA SlotsApart ==
  ASSUME Inv, NEW s, NEW t, IsSlab(s), IsSlab(t), NEW a,
         a \in Slots(s, header[s].order), a \in Slots(t, header[t].order)
  PROVE  s = t
<1>1. page_slab[virt_to_page(a)] = s
  BY SlabFacts
<1>2. page_slab[virt_to_page(a)] = t
  BY SlabFacts
<1> QED BY <1>1, <1>2

\* Where a chunk may be allocated there is nothing yet.
LEMMA NothingThere ==
  ASSUME Inv, NEW p \in Pages, NEW o \in Orders, Available(p, o)
  PROVE  /\ owned[p] = NULL
         /\ \A q \in Pages : q \in Extent(p, o) => owned[q] = NULL /\ page_slab[q] = NULL
         /\ \A a \in Bytes : virt_to_page(a) \in Extent(p, o) => live[a] = NULL
         /\ p \in Extent(p, o)
         /\ \A q \in Extent(p, o) : q \in Pages
<1>1. \A k \in Orders : 2^k \in Nat \ {0}
  BY OrderPower
<1>2. \A q \in Pages, k \in Orders : q \in Extent(q, k)
  BY <1>1, PoolAssumption DEF Extent, Pages
<1>3. \A q \in Pages : owned[q] # NULL =>
        owned[q] \in Orders /\ Extent(p, o) \cap Extent(q, owned[q]) = {}
  BY DEF Available, Unused, Inv, TypeOK
<1>4. ASSUME NEW q \in Pages, q \in Extent(p, o) PROVE owned[q] = NULL /\ page_slab[q] = NULL
  <2>1. owned[q] = NULL
    BY <1>2, <1>3, <1>4
  <2>2. SUFFICES ASSUME page_slab[q] # NULL PROVE FALSE
    BY <2>1
  <2>3. IsSlab(page_slab[q]) /\ q \in Extent(page_slab[q], SlabPageOrder)
    BY <2>2 DEF Inv, Tags
  <2>4. page_slab[q] \in Pages /\ owned[page_slab[q]] = SlabPageOrder
        /\ owned[page_slab[q]] # NULL
    BY <2>3, SlabFacts, PageFacts DEF Orders
  <2> QED BY <1>3, <1>4, <2>3, <2>4
<1>5. ASSUME NEW a \in Bytes, virt_to_page(a) \in Extent(p, o) PROVE live[a] = NULL
  <2>1. virt_to_page(a) \in Pages
    BY PageByte
  <2>2. owned[virt_to_page(a)] = NULL /\ page_slab[virt_to_page(a)] = NULL
    BY <1>4, <1>5, <2>1
  <2> QED BY <2>2 DEF Inv, ObjectsRight
<1>6. \A q \in Extent(p, o) : q \in Pages
  <2>1. Fits(p, o)
    BY DEF Available
  <2> QED BY <1>1, <2>1, PoolAssumption DEF Fits, Extent, Pages, EndPage
<1> QED BY <1>2, <1>4, <1>5, <1>6

\* A chunk more, and a chunk less.
LEMMA ChunkTaken ==
  ASSUME Inv, NEW p \in Pages, NEW o \in Orders, Available(p, o),
         owned' = [owned EXCEPT ![p] = o]
  PROVE  ChunksApart' /\ owned' \in [Pages -> Orders \cup {NULL}]
<1>1. owned \in [Pages -> Orders \cup {NULL}]
  BY DEF Inv, TypeOK
<1>2. ASSUME NEW q \in Pages, owned'[q] # NULL PROVE Fits(q, owned'[q])
  <2>1. CASE q = p
    BY <1>1, <2>1 DEF Available
  <2>2. CASE q # p
    BY <1>1, <1>2, <2>2 DEF Inv, ChunksApart
  <2> QED BY <2>1, <2>2
<1>3. ASSUME NEW q \in Pages, owned'[q] # NULL, NEW r \in Pages, owned'[r] # NULL, q # r
      PROVE  Extent(q, owned'[q]) \cap Extent(r, owned'[r]) = {}
  <2>1. \A x \in Pages : x # p => owned'[x] = owned[x]
    BY <1>1
  <2>2. owned'[p] = o
    BY <1>1
  <2>3. CASE q = p
    BY <1>3, <2>1, <2>2, <2>3 DEF Available, Unused
  <2>4. CASE r = p
    BY <1>3, <2>1, <2>2, <2>4 DEF Available, Unused
  <2>5. CASE q # p /\ r # p
    BY <1>3, <2>1, <2>5 DEF Inv, ChunksApart
  <2> QED BY <2>3, <2>4, <2>5
<1> QED BY <1>1, <1>2, <1>3 DEF ChunksApart

LEMMA ChunkGiven ==
  ASSUME Inv, NEW p \in Pages, owned' = [owned EXCEPT ![p] = NULL]
  PROVE  ChunksApart' /\ owned' \in [Pages -> Orders \cup {NULL}]
<1>1. owned \in [Pages -> Orders \cup {NULL}]
  BY DEF Inv, TypeOK
<1>2. \A q \in Pages : owned'[q] # NULL => q # p /\ owned'[q] = owned[q]
  BY <1>1
<1> QED BY <1>1, <1>2 DEF Inv, ChunksApart


-----------------------------------------------------------------------------
\* The search of _alloc_in_slab_nolock finds a slab with a free slot, or NULL when
\* the slabs of the order are full.
LEMMA HeadFacts ==
  ASSUME Inv, NEW s, IsSlab(s)
  PROVE  /\ header[s].free_list_head = NULL <=> FreeSlots(s) = {}
         /\ header[s].free_list_head # NULL =>
              header[s].free_list_head \in FreeSlots(s)
<1>1. PICK c : Listed(next_free, header[s].free_list_head, c, FreeSlots(s))
  BY DEF Inv, SlotLists, IsSlab
<1>2. /\ header[s].free_list_head = NULL => FreeSlots(s) = {}
      /\ header[s].free_list_head # NULL => header[s].free_list_head \in FreeSlots(s)
  BY <1>1, ListedStart
<1> QED BY <1>2

LEMMA ShortList ==
  ASSUME NEW o \in SlabOrders, NEW c, Listed(NextSlabs, slabs[o], c, SlabSet(o))
  PROVE  c \in 0 .. NPages
<1>0. c \in Nat
  BY DEF Listed
<1>1. IsFiniteSet(SlabSet(o)) /\ Cardinality(SlabSet(o)) = c
  BY ListedCount
<1>2. SlabSet(o) \subseteq Pages
  BY DEF SlabSet
<1>3. Cardinality(SlabSet(o)) <= Cardinality(Pages)
  BY <1>2, PagesFinite, FS_Subset
<1> QED BY <1>0, <1>1, <1>3, PagesFinite, PoolAssumption

LEMMA Search ==
  ASSUME Inv, NEW o \in SlabOrders
  PROVE  /\ SlabWithSlot(o) = NULL => \A s \in SlabSet(o) : FreeSlots(s) = {}
         /\ SlabWithSlot(o) # NULL =>
              /\ SlabWithSlot(o) \in SlabSet(o)
              /\ header[SlabWithSlot(o)].free_list_head # NULL
<1> DEFINE w == SlabWalk(o)
           stops == {n \in 0 .. NPages :
                       w[n] = NULL \/ header[w[n]].free_list_head # NULL}
           k == CHOOSE n \in stops : \A m \in stops : n <= m
<1>1. PICK c : Listed(NextSlabs, slabs[o], c, SlabSet(o))
  BY DEF Inv, SlabLists
<1>2. c \in 0 .. NPages
  BY <1>1, ShortList
<1>3. /\ w[c] = NULL
      /\ \A n \in 0 .. c - 1 : w[n] \in SlabSet(o)
      /\ \A y \in SlabSet(o) : \E n \in 0 .. c - 1 : w[n] = y
  BY <1>1 DEF Listed, SlabWalk, NextSlabs
<1>4. SlabWithSlot(o) = w[k]
  BY DEF SlabWithSlot
<1> HIDE DEF w
<1>5. c \in stops
  BY <1>2, <1>3
<1>6. k \in stops /\ \A m \in stops : k <= m
  <2>1. stops \in SUBSET Nat
    BY PoolAssumption
  <2>2. \E n \in stops : \A m \in stops : n <= m
    BY <1>5, <2>1, LeastOrder
  <2> QED BY <2>2
<1> HIDE DEF k
<1>7. k <= c /\ k \in 0 .. NPages /\ (w[k] = NULL \/ header[w[k]].free_list_head # NULL)
  BY <1>5, <1>6
<1>8. \A s \in SlabSet(o) : s # NULL /\ IsSlab(s)
  BY SlabFacts DEF SlabSet
<1>9. CASE w[k] = NULL
  <2>1. k = c
    <3>1. SUFFICES ASSUME k # c PROVE FALSE
      OBVIOUS
    <3>2. k \in 0 .. c - 1
      BY <1>2, <1>7, <3>1, PoolAssumption
    <3> QED BY <1>3, <1>8, <1>9, <3>2
  <2>2. ASSUME NEW s \in SlabSet(o) PROVE FreeSlots(s) = {}
    <3>1. PICK n \in 0 .. c - 1 : w[n] = s
      BY <1>3
    <3>2. n \notin stops
      BY <1>2, <1>6, <2>1, <3>1, PoolAssumption
    <3>3. n \in 0 .. NPages
      BY <1>2, <3>1, PoolAssumption
    <3>4. header[s].free_list_head = NULL
      BY <3>1, <3>2, <3>3
    <3> QED BY <1>8, <3>4, HeadFacts
  <2> QED BY <1>4, <1>9, <2>2
<1>10. CASE w[k] # NULL
  <2>1. k \in 0 .. c - 1
    <3>1. k # c
      BY <1>3, <1>10
    <3> QED BY <1>2, <1>7, <3>1, PoolAssumption
  <2> QED BY <1>3, <1>4, <1>7, <1>10, <2>1
<1> QED BY <1>9, <1>10

\* The order of the slots for a size.
LEMMA OrderInRange ==
  ASSUME NEW size \in Sizes, FitsSlot(size)
  PROVE  SlotOrder(size) \in SlabOrders
<1>1. size \in Nat
  BY WordAssumption
<1>2. SLAB_MAX_ORDER \in 0 .. SLAB_MAX_ORDER /\ size <= 2^SLAB_MAX_ORDER
  BY SlabAssumption DEF FitsSlot, order_to_size
<1>3. size_to_order(size) \in Nat /\ size_to_order(size) <= SLAB_MAX_ORDER
  BY <1>1, <1>2, DoublesSlots, OrderIs
<1> QED BY <1>3, SlabAssumption DEF SlotOrder, SlabOrders

LEMMA LargeOrderNat ==
  ASSUME NEW size \in Sizes
  PROVE  PageOrder(size) \in Nat
<1> DEFINE x == (size + BUDDY_PAGE_SIZE - 1) % WORD
<1>1. size \in Nat /\ WORD \in Nat \ {0} /\ BUDDY_PAGE_SIZE \in Nat \ {0}
  <2>1. EndPage * Page \in Nat
    BY PageFacts, PoolAssumption DEF EndPage
  <2> QED BY <2>1, WordAssumption, PageFacts DEF Page, page_to_virt
<1>2. x \in Nat
  BY <1>1
<1> HIDE DEF x
<1>3. x \div BUDDY_PAGE_SIZE \in Nat
  BY <1>1, <1>2
<1>4. size_to_page_order(size) \in Nat
  BY <1>3, DoublesSlots, OrderIs DEF size_to_page_order, x
<1> QED BY <1>4 DEF PageOrder


-----------------------------------------------------------------------------
\* A chunk that starts on a page of a slab is the slab.
LEMMA SlabOrOutside ==
  ASSUME Inv, NEW p \in Pages, owned[p] # NULL, page_slab[p] # NULL
  PROVE  page_slab[p] = p
<1>1. IsSlab(page_slab[p]) /\ p \in Extent(page_slab[p], SlabPageOrder)
  BY DEF Inv, Tags
<1>2. page_slab[p] \in Pages /\ owned[page_slab[p]] = SlabPageOrder
      /\ owned[page_slab[p]] # NULL
  BY <1>1, SlabFacts, PageFacts DEF Orders
<1>3. p \in Extent(p, owned[p])
  <2>1. owned[p] \in Orders
    BY DEF Inv, TypeOK
  <2> QED BY <2>1, OrderPower, PoolAssumption DEF Extent, Pages
<1> QED BY <1>1, <1>2, <1>3 DEF Inv, ChunksApart

\* A slot changes hands: the list of its slab is right if it was made right.
LEMMA SlotMoves ==
  ASSUME Inv, NEW s, IsSlab(s), NEW a \in Slots(s, header[s].order),
         NEW h \in Bytes \cup {NULL}, NEW v \in Bytes \cup {NULL, User},
         NEW z \in Nat \cup {NULL}, z # NULL => FitsSlot(z),
         UNCHANGED <<physVars, init_order, slabs, page_slab, halted>>,
         header' = [header EXCEPT ![s].free_list_head = h],
         next_free' = [next_free EXCEPT ![a] = v],
         live' = [live EXCEPT ![a] = z],
         \E c : Listed(next_free', h, c, FreeSlots(s)')
  PROVE  Inv'
<1>1. UNCHANGED <<owned, ret, refused>>
  BY DEF physVars
<1>2. /\ owned \in [Pages -> Orders \cup {NULL}]
      /\ header \in [Pages -> [free_list_head : Bytes \cup {NULL},
                               next_slab : Pages \cup {NULL},
                               order : SlabOrders \cup {NULL}]]
      /\ next_free \in [Bytes -> Bytes \cup {NULL, User}]
      /\ live \in [Bytes -> Nat \cup {NULL}]
  BY DEF Inv, TypeOK
<1>3. s \in Pages /\ a \in Bytes /\ page_slab[virt_to_page(a)] = s
      /\ virt_to_page(a) \in Pages /\ s # NULL
  BY SlabFacts
<1>4. /\ header' \in [Pages -> [free_list_head : Bytes \cup {NULL},
                                next_slab : Pages \cup {NULL},
                                order : SlabOrders \cup {NULL}]]
      /\ header'[s].free_list_head = h
      /\ \A t \in Pages : header'[t].order = header[t].order
                          /\ header'[t].next_slab = header[t].next_slab
      /\ \A t \in Pages : t # s => header'[t] = header[t]
  <2>1. header'[s] = [header[s] EXCEPT !.free_list_head = h]
    BY <1>2, <1>3
  <2>2. header[s] \in [free_list_head : Bytes \cup {NULL}, next_slab : Pages \cup {NULL},
                       order : SlabOrders \cup {NULL}]
    BY <1>2, <1>3
  <2>3. header'[s] \in [free_list_head : Bytes \cup {NULL}, next_slab : Pages \cup {NULL},
                        order : SlabOrders \cup {NULL}]
        /\ header'[s].free_list_head = h
        /\ header'[s].order = header[s].order /\ header'[s].next_slab = header[s].next_slab
    BY <2>1, <2>2
  <2>4. \A t \in Pages : t # s => header'[t] = header[t]
    BY <1>2
  <2> QED BY <1>2, <1>3, <2>3, <2>4
<1>5. /\ next_free' \in [Bytes -> Bytes \cup {NULL, User}]
      /\ \A b \in Bytes : b # a => next_free'[b] = next_free[b]
  BY <1>2
<1>6. /\ live' \in [Bytes -> Nat \cup {NULL}]
      /\ live'[a] = z
      /\ \A b \in Bytes : b # a => live'[b] = live[b]
  BY <1>2, <1>3
<1>7. \A t : IsSlab(t)' <=> IsSlab(t)
  BY DEF IsSlab
<1>8. TypeOK'
  BY <1>1, <1>4, <1>5, <1>6 DEF Inv, TypeOK
<1>9. ChunksApart'
  BY <1>1 DEF Inv, ChunksApart
<1>10. Tags'
  BY <1>1, <1>4, <1>7 DEF Inv, Tags
<1>11. SlabLists'
  <2>1. NextSlabs' = NextSlabs
    BY <1>4 DEF NextSlabs
  <2>2. \A o \in SlabOrders : SlabSet(o)' = SlabSet(o)
    BY <1>4, <1>7 DEF SlabSet
  <2> QED BY <2>1, <2>2 DEF Inv, SlabLists
<1>12. SlotLists'
  <2> SUFFICES ASSUME NEW t \in Pages, IsSlab(t)
               PROVE  \E c : Listed(next_free', header'[t].free_list_head, c, FreeSlots(t)')
    BY <1>7 DEF SlotLists
  <2>1. CASE t = s
    BY <1>4, <2>1
  <2>2. CASE t # s
    <3>1. a \notin Slots(t, header[t].order)
      BY <2>2, SlotsApart
    <3>2. FreeSlots(t)' = FreeSlots(t)
      <4>1. \A b \in Slots(t, header[t].order) : b \in Bytes /\ b # a
        BY <3>1, SlabFacts
      <4>2. \A b \in Slots(t, header[t].order) : b \in InUse' <=> b \in InUse
        BY <1>6, <4>1 DEF InUse
      <4> QED BY <1>4, <4>2 DEF FreeSlots
    <3>3. PICK c : Listed(next_free, header[t].free_list_head, c, FreeSlots(t))
      BY DEF Inv, SlotLists
    <3>4. \A b \in FreeSlots(t) : After(next_free', b) = After(next_free, b)
      <4>1. \A b \in FreeSlots(t) : b \in Bytes /\ b # a
        BY <3>1, SlabFacts DEF FreeSlots
      <4> QED BY <1>2, <1>5, <4>1 DEF After
    <3>5. Listed(next_free', header[t].free_list_head, c, FreeSlots(t))
      BY <3>3, <3>4, ListedSame
    <3> QED BY <1>4, <2>2, <3>2, <3>5
  <2> QED BY <2>1, <2>2
<1>13. ObjectsRight'
  <2> SUFFICES ASSUME NEW b \in Bytes, live'[b] # NULL
               PROVE  LET p == virt_to_page(b)
                      IN IF page_slab[p] # NULL
                         THEN b \in Slots(page_slab[p], header'[page_slab[p]].order)
                                /\ FitsSlot(live'[b])
                         ELSE owned[p] # NULL /\ b = page_to_virt(p)
    BY <1>1 DEF ObjectsRight
  <2>1. page_slab[virt_to_page(b)] # NULL => page_slab[virt_to_page(b)] \in Pages
    BY PageByte DEF Inv, TypeOK
  <2>2. CASE b = a
    BY <1>3, <1>4, <1>6, <2>2
  <2>3. CASE b # a
    BY <1>4, <1>6, <2>1, <2>3 DEF Inv, ObjectsRight
  <2> QED BY <2>2, <2>3
<1>14. ChunksUsed'
  <2> SUFFICES ASSUME NEW p \in Pages, owned[p] # NULL
               PROVE  IsSlab(p) \/ live'[page_to_virt(p)] # NULL
    BY <1>1, <1>7 DEF ChunksUsed
  <2>1. CASE a = page_to_virt(p)
    <3>1. page_slab[p] = s
      BY <1>3, <2>1, PageByte
    <3> QED BY <1>3, <3>1, SlabOrOutside DEF IsSlab
  <2>2. CASE a # page_to_virt(p)
    BY <1>6, <2>2, PageByte DEF Inv, ChunksUsed
  <2> QED BY <2>1, <2>2
<1>15. NotYet' /\ HaltsOnlyWithoutMemory'
  BY <1>1 DEF Inv, NotYet, HaltsOnlyWithoutMemory, Available, Unused
<1> QED BY <1>8, <1>9, <1>10, <1>11, <1>12, <1>13, <1>14, <1>15 DEF Inv

LEMMA SlotTaken ==
  ASSUME Inv, NEW s, IsSlab(s), header[s].free_list_head # NULL, TakeSlot(s),
         NEW size \in Nat, FitsSlot(size),
         live' = [live EXCEPT ![header[s].free_list_head] = size]
  PROVE  Inv'
<1> DEFINE a == header[s].free_list_head
<1>1. a \in FreeSlots(s) /\ a # NULL
  BY HeadFacts
<1>2. a \in Slots(s, header[s].order) /\ s \in Pages /\ a \in Bytes
  BY <1>1, SlabFacts DEF FreeSlots
<1>3. /\ next_free \in [Bytes -> Bytes \cup {NULL, User}]
      /\ live \in [Bytes -> Nat \cup {NULL}]
      /\ header \in [Pages -> [free_list_head : Bytes \cup {NULL},
                               next_slab : Pages \cup {NULL},
                               order : SlabOrders \cup {NULL}]]
  BY DEF Inv, TypeOK
<1>4. PICK c : Listed(next_free, a, c, FreeSlots(s))
  BY <1>2 DEF Inv, SlotLists
<1>5. /\ header' = [header EXCEPT ![s].free_list_head = next_free[a]]
      /\ next_free' = [next_free EXCEPT ![a] = User]
      /\ UNCHANGED <<physVars, init_order, slabs, page_slab, halted>>
      /\ live' = [live EXCEPT ![a] = size]
  BY DEF TakeSlot
<1> HIDE DEF a
<1>6. \A b \in FreeSlots(s) \ {a} : After(next_free', b) = After(next_free, b)
  <2>1. \A b \in FreeSlots(s) \ {a} : b \in Bytes
    BY SlabFacts DEF FreeSlots
  <2> QED BY <1>3, <1>5, <2>1 DEF After
<1>7. Listed(next_free', After(next_free, a), c - 1, FreeSlots(s) \ {a})
  BY <1>1, <1>4, <1>6, ListedRest
<1>8. After(next_free, a) = next_free[a]
  BY <1>2, <1>3 DEF After
<1>9. next_free[a] \in Bytes \cup {NULL}
  <2>1. next_free[a] # NULL => next_free[a] \in FreeSlots(s)
    BY <1>7, <1>8, ListedStart
  <2> QED BY <2>1, SlabFacts DEF FreeSlots
<1>10. FreeSlots(s)' = FreeSlots(s) \ {a}
  <2>1. header'[s].order = header[s].order
    BY <1>2, <1>3, <1>5
  <2>2. size # NULL
    BY PageFacts
  <2>3. \A b \in Slots(s, header[s].order) : b \in InUse' <=> (b \in InUse \/ b = a)
    <3>1. \A b \in Slots(s, header[s].order) : b \in Bytes
      BY SlabFacts
    <3> QED BY <1>3, <1>5, <2>2, <3>1 DEF InUse
  <2> QED BY <2>1, <2>3 DEF FreeSlots
<1>11. \E k : Listed(next_free', next_free[a], k, FreeSlots(s)')
  BY <1>7, <1>8, <1>10
<1>12. size \in Nat \cup {NULL} /\ User \in Bytes \cup {NULL, User}
  OBVIOUS
<1> QED BY <1>2, <1>5, <1>9, <1>11, <1>12, SlotMoves

LEMMA SlotGiven ==
  ASSUME Inv, NEW a \in Bytes, live[a] # NULL, page_slab[virt_to_page(a)] # NULL,
         free_in_slab(a), live' = [live EXCEPT ![a] = NULL]
  PROVE  Inv'
<1>0. PICK s, h : s = page_slab[virt_to_page(a)] /\ h = header[s].free_list_head
  OBVIOUS
<1>1. IsSlab(s) /\ a \in Slots(s, header[s].order)
  BY <1>0, PageByte DEF Inv, ObjectsRight, Tags
<1>2. s \in Pages /\ a # NULL
  BY <1>1, SlabFacts
<1>3. /\ next_free \in [Bytes -> Bytes \cup {NULL, User}]
      /\ live \in [Bytes -> Nat \cup {NULL}]
      /\ header \in [Pages -> [free_list_head : Bytes \cup {NULL},
                               next_slab : Pages \cup {NULL},
                               order : SlabOrders \cup {NULL}]]
  BY DEF Inv, TypeOK
<1>4. PICK c : Listed(next_free, h, c, FreeSlots(s))
  BY <1>0, <1>1, <1>2 DEF Inv, SlotLists
<1>5. /\ header' = [header EXCEPT ![s].free_list_head = a]
      /\ next_free' = [next_free EXCEPT ![a] = h]
      /\ UNCHANGED <<physVars, init_order, slabs, page_slab, halted>>
  BY <1>0 DEF free_in_slab, OwnSlab
<1>6. h \in Bytes \cup {NULL}
  BY <1>0, <1>2, <1>3
<1>7. a \notin FreeSlots(s)
  BY DEF FreeSlots, InUse
<1>8. \A b \in FreeSlots(s) : After(next_free', b) = After(next_free, b)
  <2>1. \A b \in FreeSlots(s) : b \in Bytes /\ b # a
    BY <1>1, <1>7, SlabFacts DEF FreeSlots
  <2> QED BY <1>3, <1>5, <2>1 DEF After
<1>9. After(next_free', a) = h
  BY <1>3, <1>5 DEF After
<1>10. Listed(next_free', a, c + 1, FreeSlots(s) \cup {a})
  BY <1>2, <1>4, <1>7, <1>8, <1>9, ListedFront
<1>11. FreeSlots(s)' = FreeSlots(s) \cup {a}
  <2>1. header'[s].order = header[s].order
    BY <1>2, <1>3, <1>5
  <2>2. \A b \in Slots(s, header[s].order) : b \in InUse' <=> (b \in InUse /\ b # a)
    <3>1. \A b \in Slots(s, header[s].order) : b \in Bytes
      BY <1>1, SlabFacts
    <3> QED BY <1>3, <3>1 DEF InUse
  <2> QED BY <1>1, <2>1, <2>2 DEF FreeSlots
<1>12. \E k : Listed(next_free', a, k, FreeSlots(s)')
  BY <1>10, <1>11
<1>13. a \in Bytes \cup {NULL} /\ h \in Bytes \cup {NULL, User}
       /\ NULL \in Nat \cup {NULL}
  BY <1>6
<1> QED BY <1>1, <1>5, <1>12, <1>13, SlotMoves


-----------------------------------------------------------------------------
\* get_pages for a caller, and what it refuses.
LEMMA ChunkServed ==
  ASSUME Inv, ~ halted, NEW o, Allocate(o), UNCHANGED slabVars, NEW size \in Nat,
         live' = [live EXCEPT ![page_to_virt(ret')] = size]
  PROVE  Inv'
<1>1. PICK p \in Pages : /\ o \in Orders /\ Available(p, o)
                         /\ owned' = [owned EXCEPT ![p] = o]
                         /\ ret' = p /\ refused' = NULL
  BY DEF Allocate
<1>2. UNCHANGED <<init_order, slabs, header, page_slab, next_free, halted>>
  BY DEF slabVars
<1>3. ChunksApart' /\ owned' \in [Pages -> Orders \cup {NULL}]
  BY <1>1, ChunkTaken
<1>4. /\ owned[p] = NULL /\ page_slab[p] = NULL /\ o # NULL
      /\ live[page_to_virt(p)] = NULL
  <2>1. p \in Extent(p, o)
    BY <1>1, NothingThere
  <2>2. owned[p] = NULL /\ page_slab[p] = NULL
    BY <1>1, <2>1, NothingThere
  <2>3. live[page_to_virt(p)] = NULL
    BY <1>1, <2>1, NothingThere, PageByte
  <2>4. o # NULL
    BY <1>1, PageFacts DEF Orders
  <2> QED BY <2>2, <2>3, <2>4
<1>5. \A q \in Pages : q # p => owned'[q] = owned[q]
  BY <1>1 DEF Inv, TypeOK
<1>6. page_to_virt(p) \in Bytes /\ virt_to_page(page_to_virt(p)) = p
  BY PageByte
<1>7. /\ live' \in [Bytes -> Nat \cup {NULL}]
      /\ \A a \in Bytes : a # page_to_virt(p) => live'[a] = live[a]
      /\ live'[page_to_virt(p)] # NULL
  <2>1. live' = [live EXCEPT ![page_to_virt(p)] = size] /\ size # NULL
    BY <1>1, PageFacts
  <2>2. live \in [Bytes -> Nat \cup {NULL}]
    BY DEF Inv, TypeOK
  <2> QED BY <1>6, <2>1, <2>2
<1>8. TypeOK'
  BY <1>1, <1>2, <1>3, <1>7 DEF Inv, TypeOK
<1>9. \A t : IsSlab(t)' <=> IsSlab(t)
  BY <1>2 DEF IsSlab
<1>10. \A t : IsSlab(t) => t # p
  BY <1>4, PageFacts, SlabFacts
<1>11. Tags'
  BY <1>2, <1>5, <1>9, <1>10 DEF Inv, Tags
<1>12. SlabLists'
  <2>1. NextSlabs' = NextSlabs
    BY <1>2 DEF NextSlabs
  <2>2. \A k \in SlabOrders : SlabSet(k)' = SlabSet(k)
    BY <1>2, <1>9 DEF SlabSet
  <2> QED BY <1>2, <2>1, <2>2 DEF Inv, SlabLists
<1>13. SlotLists'
  <2>1. ASSUME NEW t \in Pages, IsSlab(t) PROVE FreeSlots(t)' = FreeSlots(t)
    <3>1. \A b \in Slots(t, header[t].order) : b \in Bytes /\ b # page_to_virt(p)
      BY <1>4, <1>6, <2>1, SlabFacts
    <3>2. \A b \in Slots(t, header[t].order) : b \in InUse' <=> b \in InUse
      BY <1>7, <3>1 DEF InUse
    <3> QED BY <1>2, <3>2 DEF FreeSlots
  <2> QED BY <1>2, <1>9, <2>1 DEF Inv, SlotLists
<1>14. ObjectsRight'
  <2> SUFFICES ASSUME NEW a \in Bytes, live'[a] # NULL
               PROVE  LET q == virt_to_page(a)
                      IN IF page_slab[q] # NULL
                         THEN a \in Slots(page_slab[q], header[page_slab[q]].order)
                                /\ FitsSlot(live'[a])
                         ELSE owned'[q] # NULL /\ a = page_to_virt(q)
    BY <1>2 DEF ObjectsRight
  <2>1. CASE a = page_to_virt(p)
    <3>1. owned'[p] = o
      BY <1>1 DEF Inv, TypeOK
    <3> QED BY <1>4, <1>6, <2>1, <3>1
  <2>2. CASE a # page_to_virt(p)
    <3>1. live'[a] = live[a] /\ virt_to_page(a) \in Pages
      BY <1>7, <2>2, PageByte
    <3>2. owned[virt_to_page(a)] # NULL => owned'[virt_to_page(a)] # NULL
      BY <1>4, <1>5, <3>1
    <3> QED BY <3>1, <3>2 DEF Inv, ObjectsRight
  <2> QED BY <2>1, <2>2
<1>15. ChunksUsed'
  <2> SUFFICES ASSUME NEW q \in Pages, owned'[q] # NULL
               PROVE  IsSlab(q) \/ live'[page_to_virt(q)] # NULL
    BY <1>9 DEF ChunksUsed
  <2>1. CASE q = p
    BY <1>7, <2>1
  <2>2. CASE q # p
    <3>1. IsSlab(q) \/ live[page_to_virt(q)] # NULL
      BY <1>5, <2>2 DEF Inv, ChunksUsed
    <3>2. page_to_virt(q) # page_to_virt(p) /\ page_to_virt(q) \in Bytes
      BY <2>2, PageByte
    <3> QED BY <1>7, <3>1, <3>2
  <2> QED BY <2>1, <2>2
<1>16. NotYet' /\ HaltsOnlyWithoutMemory'
  BY <1>2 DEF Inv, NotYet, HaltsOnlyWithoutMemory
<1> QED BY <1>3, <1>8, <1>11, <1>12, <1>13, <1>14, <1>15, <1>16 DEF Inv

LEMMA ChunkRefused ==
  ASSUME Inv, NEW o \in Nat, Refuse(o), halted' \in BOOLEAN,
         UNCHANGED <<init_order, slabs, header, page_slab, next_free, live>>,
         halted' => o = SlabPageOrder
  PROVE  Inv'
<1>1. UNCHANGED owned /\ ret' = NULL /\ refused' = o
  BY DEF Refuse
<1>2. TypeOK'
  BY <1>1 DEF Inv, TypeOK
<1>3. \A t : IsSlab(t)' <=> IsSlab(t)
  BY DEF IsSlab
<1>4. ChunksApart' /\ Tags'
  BY <1>1, <1>3 DEF Inv, ChunksApart, Tags
<1>5. SlabLists'
  BY <1>3 DEF Inv, SlabLists, NextSlabs, SlabSet
<1>6. SlotLists'
  BY <1>3 DEF Inv, SlotLists, FreeSlots, InUse
<1>7. ObjectsRight' /\ ChunksUsed' /\ NotYet'
  BY <1>1, <1>3 DEF Inv, ObjectsRight, ChunksUsed, NotYet
<1>8. HaltsOnlyWithoutMemory'
  <2> SUFFICES ASSUME halted', NEW p \in Pages PROVE ~ Available(p, SlabPageOrder)'
    BY DEF HaltsOnlyWithoutMemory
  <2>1. ~ Available(p, SlabPageOrder)
    BY PageFacts DEF Refuse
  <2> QED BY <1>1, <2>1 DEF Available, Unused
<1> QED BY <1>2, <1>4, <1>5, <1>6, <1>7, <1>8 DEF Inv

\* kfree of a large object, and free_pages.
LEMMA ChunkFreed ==
  ASSUME Inv, ~ halted, NEW a \in Bytes, live[a] # NULL,
         page_slab[virt_to_page(a)] = NULL,
         BuddyFree(virt_to_page(a)), live' = [live EXCEPT ![a] = NULL]
  PROVE  Inv'
<1>1. PICK p : p = virt_to_page(a)
  OBVIOUS
<1>2. p \in Pages /\ owned[p] # NULL /\ a = page_to_virt(p) /\ page_slab[p] = NULL
  BY <1>1, PageByte DEF Inv, ObjectsRight
<1>3. /\ owned' = [owned EXCEPT ![p] = NULL] /\ refused' = NULL /\ ~ halted'
      /\ UNCHANGED <<ret, init_order, slabs, header, page_slab, next_free>>
  BY <1>1, <1>2 DEF BuddyFree
<1>4. ChunksApart' /\ owned' \in [Pages -> Orders \cup {NULL}]
  BY <1>2, <1>3, ChunkGiven
<1>5. \A q \in Pages : q # p => owned'[q] = owned[q]
  BY <1>3 DEF Inv, TypeOK
<1>6. /\ live' \in [Bytes -> Nat \cup {NULL}]
      /\ \A b \in Bytes : b # a => live'[b] = live[b]
      /\ live'[a] = NULL
  BY DEF Inv, TypeOK
<1>7. TypeOK'
  <2>1. halted' \in BOOLEAN
    BY <1>1, <1>2 DEF BuddyFree
  <2> QED BY <1>3, <1>4, <1>6, <2>1 DEF Inv, TypeOK
<1>8. \A t : IsSlab(t)' <=> IsSlab(t)
  BY <1>3 DEF IsSlab
<1>9. \A t : IsSlab(t) => t # p
  BY <1>2, PageFacts, SlabFacts
<1>10. Tags'
  BY <1>3, <1>5, <1>8, <1>9 DEF Inv, Tags
<1>11. SlabLists'
  <2>1. NextSlabs' = NextSlabs
    BY <1>3 DEF NextSlabs
  <2>2. \A k \in SlabOrders : SlabSet(k)' = SlabSet(k)
    BY <1>3, <1>8 DEF SlabSet
  <2> QED BY <1>3, <2>1, <2>2 DEF Inv, SlabLists
<1>12. SlotLists'
  <2>1. ASSUME NEW t \in Pages, IsSlab(t) PROVE FreeSlots(t)' = FreeSlots(t)
    <3>1. \A b \in Slots(t, header[t].order) : b \in Bytes /\ b # a
      BY <1>1, <1>2, <2>1, SlabFacts
    <3>2. \A b \in Slots(t, header[t].order) : b \in InUse' <=> b \in InUse
      BY <1>6, <3>1 DEF InUse
    <3> QED BY <1>3, <3>2 DEF FreeSlots
  <2> QED BY <1>3, <1>8, <2>1 DEF Inv, SlotLists
<1>13. ObjectsRight'
  <2> SUFFICES ASSUME NEW b \in Bytes, live'[b] # NULL
               PROVE  LET q == virt_to_page(b)
                      IN IF page_slab[q] # NULL
                         THEN b \in Slots(page_slab[q], header[page_slab[q]].order)
                                /\ FitsSlot(live'[b])
                         ELSE owned'[q] # NULL /\ b = page_to_virt(q)
    BY <1>3 DEF ObjectsRight
  <2>1. b # a /\ live'[b] = live[b] /\ virt_to_page(b) \in Pages
    BY <1>6, PageByte
  <2>2. CASE page_slab[virt_to_page(b)] # NULL
    BY <2>1, <2>2 DEF Inv, ObjectsRight
  <2>3. CASE page_slab[virt_to_page(b)] = NULL
    <3>1. owned[virt_to_page(b)] # NULL /\ b = page_to_virt(virt_to_page(b))
      BY <2>1, <2>3 DEF Inv, ObjectsRight
    <3>2. virt_to_page(b) # p
      BY <1>2, <2>1, <3>1
    <3> QED BY <1>5, <2>1, <2>3, <3>1, <3>2
  <2> QED BY <2>2, <2>3
<1>14. ChunksUsed'
  <2> SUFFICES ASSUME NEW q \in Pages, owned'[q] # NULL
               PROVE  IsSlab(q) \/ live'[page_to_virt(q)] # NULL
    BY <1>8 DEF ChunksUsed
  <2>1. q # p
    BY <1>2, <1>3 DEF Inv, TypeOK
  <2>2. IsSlab(q) \/ live[page_to_virt(q)] # NULL
    BY <1>5, <2>1 DEF Inv, ChunksUsed
  <2>3. page_to_virt(q) # a /\ page_to_virt(q) \in Bytes
    BY <1>2, <2>1, PageByte
  <2> QED BY <1>6, <2>2, <2>3
<1>15. NotYet' /\ HaltsOnlyWithoutMemory'
  BY <1>3 DEF Inv, NotYet, HaltsOnlyWithoutMemory
<1> QED BY <1>4, <1>7, <1>10, <1>11, <1>12, <1>13, <1>14, <1>15 DEF Inv


-----------------------------------------------------------------------------
\* init_slab_cache with a chunk to put the slab in.
LEMMA NewSlab ==
  ASSUME Inv, ~ halted, NEW o \in SlabOrders, NEW s \in Pages,
         Available(s, SlabPageOrder), owned' = [owned EXCEPT ![s] = SlabPageOrder],
         ret' = s, refused' = NULL, UNCHANGED halted, alloc_slab_memory(s),
         slabs' = [slabs EXCEPT ![o] = s], NEW taken \in BOOLEAN,
         header' = [header EXCEPT ![s] =
                      [free_list_head |-> IF taken THEN LinkSlots(s, o)[FirstSlot(s, o)]
                                          ELSE FirstSlot(s, o),
                       next_slab |-> slabs[o], order |-> o]],
         next_free' = IF taken THEN [LinkSlots(s, o) EXCEPT ![FirstSlot(s, o)] = User]
                      ELSE LinkSlots(s, o),
         NEW size \in Nat, FitsSlot(size),
         live' = IF taken THEN [live EXCEPT ![FirstSlot(s, o)] = size] ELSE live,
         init_order' \in SLAB_MIN_ORDER .. SLAB_MAX_ORDER + 1,
         init_order <= init_order', o < init_order'
  PROVE  Inv'
<1>1. PICK l, first : l = LinkSlots(s, o) /\ first = FirstSlot(s, o)
  OBVIOUS
<1>2. /\ SlabPageOrder \in Orders /\ s # NULL /\ Fits(s, SlabPageOrder)
      /\ SlabPageOrder # NULL
  BY PageFacts, PoolAssumption DEF Pages, Available, Orders
<1>3. /\ owned \in [Pages -> Orders \cup {NULL}]
      /\ slabs \in [SlabOrders -> Pages \cup {NULL}]
      /\ header \in [Pages -> [free_list_head : Bytes \cup {NULL},
                               next_slab : Pages \cup {NULL},
                               order : SlabOrders \cup {NULL}]]
      /\ page_slab \in [Pages -> Pages \cup {NULL}]
      /\ next_free \in [Bytes -> Bytes \cup {NULL, User}]
      /\ live \in [Bytes -> Nat \cup {NULL}]
  BY DEF Inv, TypeOK
<1>4. /\ owned[s] = NULL /\ s \in Extent(s, SlabPageOrder)
      /\ \A q \in Pages :
           q \in Extent(s, SlabPageOrder) => owned[q] = NULL /\ page_slab[q] = NULL
      /\ \A a \in Bytes : virt_to_page(a) \in Extent(s, SlabPageOrder) => live[a] = NULL
      /\ \A q \in Extent(s, SlabPageOrder) : q \in Pages
  BY <1>2, NothingThere
<1>5. ChunksApart' /\ owned' \in [Pages -> Orders \cup {NULL}]
  BY <1>2, ChunkTaken
<1>6. /\ owned'[s] = SlabPageOrder
      /\ \A q \in Pages : q # s => owned'[q] = owned[q]
  BY <1>3
<1>7. /\ page_slab' \in [Pages -> Pages \cup {NULL}]
      /\ \A q \in Extent(s, SlabPageOrder) : page_slab'[q] = s
      /\ \A q \in Pages : q \notin Extent(s, SlabPageOrder) => page_slab'[q] = page_slab[q]
  BY <1>3, <1>4 DEF alloc_slab_memory
<1>8. /\ l \in [Bytes -> Bytes \cup {NULL, User}]
      /\ Listed(l, first, Count(o) - 1, Slots(s, o))
      /\ \A a \in Bytes \ Slots(s, o) : l[a] = next_free[a]
      /\ first \in Slots(s, o)
      /\ l[first] \in Bytes \cup {NULL}
  BY <1>1, <1>2, <1>3, LinkedList
<1>9. \A a \in Slots(s, o) :
        a \in Bytes /\ virt_to_page(a) \in Extent(s, SlabPageOrder) /\ a # NULL
          /\ virt_to_page(a) \in Pages /\ live[a] = NULL
  <2>1. \A a \in Slots(s, o) : a \in Bytes /\ virt_to_page(a) \in Extent(s, SlabPageOrder)
    BY <1>2, SlotInside
  <2> QED BY <1>4, <2>1, PageByte, PageFacts
<1>10. PICK head \in Bytes \cup {NULL} : head = IF taken THEN l[first] ELSE first
  BY <1>8, <1>9
<1>11. /\ header' \in [Pages -> [free_list_head : Bytes \cup {NULL},
                                 next_slab : Pages \cup {NULL},
                                 order : SlabOrders \cup {NULL}]]
       /\ header'[s].free_list_head = head /\ header'[s].next_slab = slabs[o]
       /\ header'[s].order = o
       /\ \A t \in Pages : t # s => header'[t] = header[t]
  <2>1. header' = [header EXCEPT ![s] =
                     [free_list_head |-> head, next_slab |-> slabs[o], order |-> o]]
    BY <1>1, <1>10
  <2>2. slabs[o] \in Pages \cup {NULL}
    BY <1>3
  <2> QED BY <1>3, <2>1, <2>2
<1>12. next_free' = IF taken THEN [l EXCEPT ![first] = User] ELSE l
  BY <1>1
<1>13. /\ next_free' \in [Bytes -> Bytes \cup {NULL, User}]
       /\ \A a \in Bytes : a # first => next_free'[a] = l[a]
       /\ ~ taken => next_free' = l
  BY <1>8, <1>12
<1>14. /\ live' \in [Bytes -> Nat \cup {NULL}]
       /\ \A a \in Bytes : a # first => live'[a] = live[a]
       /\ taken => live'[first] = size
       /\ ~ taken => live' = live
  <2>1. first \in Bytes
    BY <1>8, <1>9
  <2>2. live' = IF taken THEN [live EXCEPT ![first] = size] ELSE live
    BY <1>1
  <2> QED BY <1>3, <2>1, <2>2
<1>15. TypeOK'
  <2>1. slabs' \in [SlabOrders -> Pages \cup {NULL}]
    BY <1>3
  <2>2. ret' \in Pages \cup {NULL} /\ refused' \in Nat \cup {NULL} /\ halted' \in BOOLEAN
    BY DEF Inv, TypeOK
  <2> QED BY <1>5, <1>7, <1>11, <1>13, <1>14, <2>1, <2>2 DEF TypeOK
<1>16. \A t : IsSlab(t) => /\ t \in Pages /\ t # s /\ t \notin Extent(s, SlabPageOrder)
                           /\ t # NULL
  BY <1>4, SlabFacts
<1>17. \A t : IsSlab(t)' <=> IsSlab(t) \/ t = s
  <2>1. ASSUME NEW t, IsSlab(t)' PROVE IsSlab(t) \/ t = s
    BY <1>7, <2>1 DEF IsSlab
  <2>2. ASSUME NEW t, IsSlab(t) PROVE IsSlab(t)'
    BY <1>7, <1>16, <2>2 DEF IsSlab
  <2>3. IsSlab(s)'
    BY <1>4, <1>7 DEF IsSlab
  <2> QED BY <2>1, <2>2, <2>3
<1>18. Tags'
  <2>1. ASSUME NEW p \in Pages, page_slab'[p] # NULL
        PROVE  IsSlab(page_slab[p])' /\ p \in Extent(page_slab'[p], SlabPageOrder)
    <3>1. CASE p \in Extent(s, SlabPageOrder)
      <4>1. page_slab'[p] = s
        BY <1>7, <3>1
      <4>2. IsSlab(s)'
        BY <1>17
      <4> QED BY <3>1, <4>1, <4>2 DEF IsSlab
    <3>2. CASE p \notin Extent(s, SlabPageOrder)
      <4>1. page_slab'[p] = page_slab[p]
        BY <1>7, <3>2
      <4>2. IsSlab(page_slab[p]) /\ p \in Extent(page_slab[p], SlabPageOrder)
        BY <2>1, <4>1 DEF Inv, Tags
      <4>3. PICK t : t = page_slab[p]
        OBVIOUS
      <4>4. IsSlab(t)'
        BY <1>17, <4>2, <4>3
      <4> QED BY <4>1, <4>2, <4>3, <4>4 DEF IsSlab
    <3> QED BY <3>1, <3>2
  <2>2. ASSUME NEW t \in Pages, IsSlab(t)'
        PROVE  /\ owned'[t] = SlabPageOrder /\ header'[t].order \in SlabOrders
               /\ \A p \in Extent(t, SlabPageOrder) : page_slab'[p] = t
    <3>1. CASE t = s
      BY <1>6, <1>7, <1>11, <3>1
    <3>2. CASE t # s
      <4>1. IsSlab(t)
        BY <1>17, <2>2, <3>2
      <4>2. owned[t] = SlabPageOrder /\ header[t].order \in SlabOrders
            /\ \A p \in Extent(t, SlabPageOrder) : page_slab[p] = t
        BY <4>1 DEF Inv, Tags
      <4>3. ASSUME NEW p \in Extent(t, SlabPageOrder) PROVE page_slab'[p] = t
        <5>1. page_slab[p] = t /\ t # NULL
          BY <1>16, <4>1, <4>2
        <5>2. p \notin Extent(s, SlabPageOrder)
          BY <1>4, <5>1
        <5>3. p \in Pages
          <6>1. Fits(t, SlabPageOrder)
            BY <4>1, SlabFacts
          <6> QED BY <6>1, PageFacts, PoolAssumption DEF Fits, Extent, Pages, EndPage
        <5> QED BY <1>7, <5>1, <5>2, <5>3
      <4> QED BY <1>6, <1>11, <3>2, <4>2, <4>3
    <3> QED BY <3>1, <3>2
  <2>3. \A p \in Pages : page_slab'[p] # NULL =>
          IsSlab(page_slab[p])' /\ p \in Extent(page_slab'[p], SlabPageOrder)
    BY <2>1
  <2>4. \A t \in Pages : IsSlab(t)' =>
          /\ owned'[t] = SlabPageOrder /\ header'[t].order \in SlabOrders
          /\ \A p \in Extent(t, SlabPageOrder) : page_slab'[p] = t
    BY <2>2
  <2> QED BY <2>3, <2>4 DEF Tags
<1>19. SlabLists'
  <2> SUFFICES ASSUME NEW k \in SlabOrders
               PROVE  \E c : Listed(NextSlabs', slabs'[k], c, SlabSet(k)')
    BY DEF SlabLists
  <2>1. PICK c : Listed(NextSlabs, slabs[k], c, SlabSet(k))
    BY DEF Inv, SlabLists
  <2>2. \A t \in SlabSet(k) : After(NextSlabs', t) = After(NextSlabs, t)
    BY <1>11, <1>16 DEF SlabSet, After, NextSlabs
  <2>3. CASE k = o
    <3>1. SlabSet(k)' = SlabSet(k) \cup {s}
      BY <1>11, <1>16, <1>17, <2>3 DEF SlabSet
    <3>2. After(NextSlabs', s) = slabs[k]
      BY <1>11, <2>3 DEF After, NextSlabs
    <3>3. s \notin SlabSet(k)
      BY <1>16 DEF SlabSet
    <3>4. Listed(NextSlabs', s, c + 1, SlabSet(k) \cup {s})
      BY <1>2, <2>1, <2>2, <3>2, <3>3, ListedFront
    <3>5. slabs'[k] = s
      BY <1>3, <2>3
    <3> QED BY <3>1, <3>4, <3>5
  <2>4. CASE k # o
    <3>1. SlabSet(k)' = SlabSet(k)
      BY <1>11, <1>16, <1>17, <2>4 DEF SlabSet
    <3>2. Listed(NextSlabs', slabs[k], c, SlabSet(k))
      BY <2>1, <2>2, ListedSame
    <3>3. slabs'[k] = slabs[k]
      BY <1>3, <2>4
    <3> QED BY <3>1, <3>2, <3>3
  <2> QED BY <2>3, <2>4
<1>20. SlotLists'
  <2> SUFFICES ASSUME NEW t \in Pages, IsSlab(t)'
               PROVE  \E c : Listed(next_free', header'[t].free_list_head, c, FreeSlots(t)')
    BY DEF SlotLists
  <2>1. CASE t = s /\ taken
    <3>1. FreeSlots(t)' = Slots(s, o) \ {first}
      <4>1. \A b \in Slots(s, o) : b \in InUse' <=> b = first
        BY <1>9, <1>14, <2>1, PageFacts DEF InUse
      <4> QED BY <1>8, <1>11, <2>1, <4>1 DEF FreeSlots
    <3>2. \A b \in Slots(s, o) \ {first} : After(next_free', b) = After(l, b)
      BY <1>8, <1>9, <1>13 DEF After
    <3>3. first # NULL
      BY <1>8, <1>9
    <3>4. Listed(next_free', After(l, first), (Count(o) - 1) - 1, Slots(s, o) \ {first})
      BY <1>8, <3>2, <3>3, ListedRest
    <3>5. After(l, first) = head
      BY <1>8, <1>9, <1>10, <2>1 DEF After
    <3> QED BY <1>11, <2>1, <3>1, <3>4, <3>5
  <2>2. CASE t = s /\ ~ taken
    <3>1. FreeSlots(t)' = Slots(s, o)
      <4>1. \A b \in Slots(s, o) : b \notin InUse'
        BY <1>9, <1>14, <2>2 DEF InUse
      <4> QED BY <1>11, <2>2, <4>1 DEF FreeSlots
    <3> QED BY <1>8, <1>10, <1>11, <1>13, <2>2, <3>1
  <2>3. CASE t # s
    <3>1. IsSlab(t)
      BY <1>17, <2>3
    <3>2. PICK c : Listed(next_free, header[t].free_list_head, c, FreeSlots(t))
      BY <3>1 DEF Inv, SlotLists
    <3>3. \A b \in Slots(t, header[t].order) :
            b \in Bytes /\ b \notin Slots(s, o) /\ b # first
      <4> SUFFICES ASSUME NEW b \in Slots(t, header[t].order)
                   PROVE  b \in Bytes /\ b \notin Slots(s, o)
        BY <1>8
      <4>1. b \in Bytes /\ page_slab[virt_to_page(b)] = t /\ t # NULL
        BY <3>1, SlabFacts
      <4> QED BY <1>4, <1>9, <4>1
    <3>4. FreeSlots(t)' = FreeSlots(t)
      <4>1. \A b \in Slots(t, header[t].order) : b \in InUse' <=> b \in InUse
        BY <1>14, <3>3 DEF InUse
      <4> QED BY <1>11, <2>3, <4>1 DEF FreeSlots
    <3>5. \A b \in FreeSlots(t) : After(next_free', b) = After(next_free, b)
      <4>1. \A b \in FreeSlots(t) : b \in Bytes /\ next_free'[b] = next_free[b]
        BY <1>8, <1>13, <3>3 DEF FreeSlots
      <4> QED BY <1>3, <1>13, <4>1 DEF After
    <3>6. Listed(next_free', header[t].free_list_head, c, FreeSlots(t))
      BY <3>2, <3>5, ListedSame
    <3> QED BY <1>11, <2>3, <3>4, <3>6
  <2> QED BY <2>1, <2>2, <2>3
<1>21. ObjectsRight'
  <2> SUFFICES ASSUME NEW a \in Bytes, live'[a] # NULL
               PROVE  LET p == virt_to_page(a)
                      IN IF page_slab'[p] # NULL
                         THEN a \in Slots(page_slab'[p], header'[page_slab'[p]].order)
                                /\ FitsSlot(live'[a])
                         ELSE owned'[p] # NULL /\ a = page_to_virt(p)
    BY DEF ObjectsRight
  <2>1. CASE a = first /\ taken
    <3>1. page_slab'[virt_to_page(a)] = s
      BY <1>7, <1>8, <1>9, <2>1
    <3> QED BY <1>2, <1>8, <1>11, <1>14, <2>1, <3>1
  <2>2. CASE a # first \/ ~ taken
    <3>1. live'[a] = live[a] /\ live[a] # NULL /\ virt_to_page(a) \in Pages
      BY <1>14, <2>2, PageByte
    <3>2. virt_to_page(a) \notin Extent(s, SlabPageOrder)
      BY <1>4, <3>1
    <3>3. page_slab'[virt_to_page(a)] = page_slab[virt_to_page(a)]
      BY <1>7, <3>1, <3>2
    <3>4. CASE page_slab[virt_to_page(a)] # NULL
      <4>1. IsSlab(page_slab[virt_to_page(a)])
        BY <3>1, <3>4 DEF Inv, Tags
      <4>2. header'[page_slab[virt_to_page(a)]] = header[page_slab[virt_to_page(a)]]
        BY <1>11, <1>16, <4>1
      <4> QED BY <3>1, <3>3, <3>4, <4>2 DEF Inv, ObjectsRight
    <3>5. CASE page_slab[virt_to_page(a)] = NULL
      <4>1. owned[virt_to_page(a)] # NULL /\ a = page_to_virt(virt_to_page(a))
        BY <3>1, <3>5 DEF Inv, ObjectsRight
      <4>2. owned'[virt_to_page(a)] = owned[virt_to_page(a)]
        BY <1>4, <1>6, <3>1, <4>1
      <4> QED BY <3>3, <3>5, <4>1, <4>2
    <3> QED BY <3>4, <3>5
  <2> QED BY <2>1, <2>2
<1>22. ChunksUsed'
  <2> SUFFICES ASSUME NEW p \in Pages, owned'[p] # NULL, p # s
               PROVE  IsSlab(p) \/ live'[page_to_virt(p)] # NULL
    BY <1>17 DEF ChunksUsed
  <2>1. IsSlab(p) \/ live[page_to_virt(p)] # NULL
    BY <1>6 DEF Inv, ChunksUsed
  <2>2. live[page_to_virt(p)] # NULL => page_to_virt(p) # first
    BY <1>8, <1>9
  <2> QED BY <1>14, <2>1, <2>2, PageByte
<1>23. NotYet'
  <2> SUFFICES ASSUME NEW k \in SlabOrders, k >= init_order' PROVE slabs'[k] = NULL
    BY DEF NotYet
  <2>1. k \in Int /\ o \in Int /\ init_order \in Int /\ init_order' \in Int
    BY SlabAssumption DEF SlabOrders, Inv, TypeOK
  <2>2. k # o /\ k >= init_order
    BY <2>1
  <2> QED BY <1>3, <2>2 DEF Inv, NotYet
<1>24. HaltsOnlyWithoutMemory'
  BY DEF HaltsOnlyWithoutMemory
<1> QED BY <1>5, <1>15, <1>18, <1>19, <1>20, <1>21, <1>22, <1>23, <1>24 DEF Inv


-----------------------------------------------------------------------------
LEMMA InitRight == Init => Inv
<1> SUFFICES ASSUME Init PROVE Inv
  OBVIOUS
<1> USE DEF Init, SlabInit
<1>1. TypeOK
  <2>1. init_order \in SLAB_MIN_ORDER .. SLAB_MAX_ORDER + 1
    BY SlabAssumption
  <2>2. header \in [Pages -> [free_list_head : Bytes \cup {NULL},
                             next_slab : Pages \cup {NULL},
                             order : SlabOrders \cup {NULL}]]
    OBVIOUS
  <2>3. /\ owned \in [Pages -> Orders \cup {NULL}]
        /\ page_slab \in [Pages -> Pages \cup {NULL}]
        /\ slabs \in [SlabOrders -> Pages \cup {NULL}]
        /\ next_free \in [Bytes -> Bytes \cup {NULL, User}]
        /\ live \in [Bytes -> Nat \cup {NULL}]
    OBVIOUS
  <2> QED BY <2>1, <2>2, <2>3 DEF TypeOK
<1>2. \A t : ~ IsSlab(t)
  BY PoolAssumption DEF IsSlab, Pages
<1>3. ChunksApart /\ Tags /\ ObjectsRight /\ ChunksUsed /\ NotYet
  BY <1>2 DEF ChunksApart, Tags, ObjectsRight, ChunksUsed, NotYet
<1>4. SlabLists
  <2> SUFFICES ASSUME NEW o \in SlabOrders
               PROVE  \E c : Listed(NextSlabs, slabs[o], c, SlabSet(o))
    BY DEF SlabLists
  <2>1. SlabSet(o) = {} /\ slabs[o] = NULL
    BY <1>2 DEF SlabSet
  <2>2. Listed(NextSlabs, NULL, 0, {})
    BY ListedNone
  <2> QED BY <2>1, <2>2
<1>5. SlotLists /\ HaltsOnlyWithoutMemory
  BY <1>2 DEF SlotLists, HaltsOnlyWithoutMemory
<1> QED BY <1>1, <1>3, <1>4, <1>5 DEF Inv

\* init_slab_cache, in the loop of init_slab or when the slabs of an order are full.
LEMMA CacheMade ==
  ASSUME Inv, ~ halted, NEW o \in SlabOrders, NEW next, NEW taken \in BOOLEAN,
         next = slabs[o], init_slab_cache(o, next, taken),
         NEW size \in Nat, FitsSlot(size),
         live' = IF taken /\ ~ halted' THEN [live EXCEPT ![FirstSlot(ret', o)] = size]
                 ELSE live,
         halted' => UNCHANGED init_order,
         ~ halted' => /\ init_order' \in SLAB_MIN_ORDER .. SLAB_MAX_ORDER + 1
                      /\ init_order <= init_order' /\ o < init_order'
  PROVE  Inv'
<1>1. CASE Allocate(SlabPageOrder) /\ UNCHANGED halted
  <2>1. PICK s \in Pages : /\ Available(s, SlabPageOrder)
                           /\ owned' = [owned EXCEPT ![s] = SlabPageOrder]
                           /\ ret' = s /\ refused' = NULL
    BY <1>1 DEF Allocate
  <2>2. ~ Refuse(SlabPageOrder)
    BY <2>1, PageFacts DEF Refuse
  <2>3. /\ alloc_slab_memory(s)
        /\ slabs' = [slabs EXCEPT ![o] = s]
        /\ header' = [header EXCEPT ![s] =
                        [free_list_head |-> IF taken THEN LinkSlots(s, o)[FirstSlot(s, o)]
                                            ELSE FirstSlot(s, o),
                         next_slab |-> slabs[o], order |-> o]]
        /\ next_free' = IF taken THEN [LinkSlots(s, o) EXCEPT ![FirstSlot(s, o)] = User]
                        ELSE LinkSlots(s, o)
    BY <2>1, <2>2 DEF init_slab_cache
  <2>4. live' = IF taken THEN [live EXCEPT ![FirstSlot(s, o)] = size] ELSE live
    BY <1>1, <2>1
  <2>5. /\ init_order' \in SLAB_MIN_ORDER .. SLAB_MAX_ORDER + 1
        /\ init_order <= init_order' /\ o < init_order'
    BY <1>1
  <2> QED BY <1>1, <2>1, <2>3, <2>4, <2>5, NewSlab
<1>2. CASE Refuse(SlabPageOrder) /\ halted' = TRUE
            /\ UNCHANGED <<slabs, header, page_slab, next_free>>
  <2>1. UNCHANGED <<init_order, slabs, header, page_slab, next_free, live>>
    BY <1>2
  <2>2. SlabPageOrder \in Nat
    BY PageFacts DEF Orders
  <2> QED BY <1>2, <2>1, <2>2, ChunkRefused
<1> QED BY <1>1, <1>2 DEF init_slab_cache

LEMMA StepRight == Inv /\ [Next]_vars => Inv'
<1> SUFFICES ASSUME Inv, [Next]_vars PROVE Inv'
  OBVIOUS
<1>1. CASE InitSlab
  <2>1. ~ halted /\ init_order <= SLAB_MAX_ORDER /\ UNCHANGED live
        /\ init_slab_cache(init_order, NULL, FALSE)
        /\ init_order' = IF halted' THEN init_order ELSE init_order + 1
    BY <1>1 DEF InitSlab, init_slab
  <2>2. PICK o : o = init_order
    OBVIOUS
  <2>3. o \in SlabOrders /\ o \in Int
    BY <2>1, <2>2, SlabAssumption DEF Inv, TypeOK, SlabOrders
  <2>4. slabs[o] = NULL
    BY <2>2, <2>3 DEF Inv, NotYet
  <2>5. 0 \in Nat /\ FitsSlot(0)
    <3>1. SLAB_MAX_ORDER \in 0 .. SLAB_MAX_ORDER
      BY SlabAssumption
    <3> QED BY <3>1, SlotPowerAssumption DEF FitsSlot, order_to_size
  <2>6. ~ halted' => /\ init_order' \in SLAB_MIN_ORDER .. SLAB_MAX_ORDER + 1
                     /\ init_order <= init_order' /\ o < init_order'
    BY <2>1, <2>2, <2>3, SlabAssumption DEF SlabOrders
  <2>7. init_slab_cache(o, NULL, FALSE)
    BY <2>1, <2>2
  <2> QED BY <2>1, <2>3, <2>4, <2>5, <2>6, <2>7, CacheMade
<1>2. ASSUME NEW size \in Sizes, kmalloc(size) PROVE Inv'
  <2>1. ~ halted /\ init_order > SLAB_MAX_ORDER
    BY <1>2 DEF kmalloc, Ready
  <2>2. size \in Nat
    BY WordAssumption
  <2>3. CASE SmallRequest(size)
    <3>1. PICK o : o = SlotOrder(size)
      OBVIOUS
    <3>2. PICK s : s = SlabWithSlot(o)
      OBVIOUS
    <3>3. FitsSlot(size) /\ o \in SlabOrders
      BY <2>3, <3>1, OrderInRange DEF SmallRequest
    <3>4. CASE /\ s # NULL
               /\ TakeSlot(s)
               /\ live' = [live EXCEPT ![header[s].free_list_head] = size]
      <4>1. IsSlab(s) /\ header[s].free_list_head # NULL
        BY <3>2, <3>3, <3>4, Search DEF SlabSet
      <4> QED BY <2>2, <3>3, <3>4, <4>1, SlotTaken
    <3>5. CASE /\ s = NULL
               /\ TakeFromNewSlab(o)
               /\ live' = IF halted' THEN live
                          ELSE [live EXCEPT ![FirstSlot(ret', o)] = size]
      <4>1. init_slab_cache(o, slabs[o], TRUE) /\ UNCHANGED init_order
        BY <3>5 DEF TakeFromNewSlab, NextSlab
      <4>2. PICK next : next = slabs[o]
        OBVIOUS
      <4>3. init_order \in SLAB_MIN_ORDER .. SLAB_MAX_ORDER + 1 /\ o < init_order
            /\ init_order <= init_order
        BY <2>1, <3>3, SlabAssumption DEF SlabOrders, Inv, TypeOK
      <4>4. live' = IF TRUE /\ ~ halted' THEN [live EXCEPT ![FirstSlot(ret', o)] = size]
                    ELSE live
        BY <3>5
      <4>5. init_slab_cache(o, next, TRUE)
        BY <4>1, <4>2
      <4> QED BY <2>1, <2>2, <3>3, <4>1, <4>2, <4>3, <4>4, <4>5, CacheMade
    <3> QED BY <2>3, <3>1, <3>2, <3>4, <3>5 DEF SmallRequest
  <2>4. CASE LargeRequest(size)
    <3>1. PICK o : o = PageOrder(size)
      OBVIOUS
    <3>2. o \in Nat
      BY <3>1, LargeOrderNat
    <3>3. get_pages(o, size)
      BY <2>4, <3>1 DEF LargeRequest
    <3>4. CASE Refuse(o) /\ UNCHANGED <<slabVars, live>>
      BY <2>1, <3>2, <3>4, ChunkRefused DEF slabVars, Inv, TypeOK
    <3> QED BY <2>1, <2>2, <3>3, <3>4, ChunkServed DEF get_pages
  <2> QED BY <1>2, <2>3, <2>4 DEF kmalloc
<1>3. ASSUME NEW o \in Requests, GetPages(o) PROVE Inv'
  <2>1. ~ halted /\ get_pages(o, page_to_virt(2^o)) /\ o \in Nat
    BY <1>3 DEF GetPages, Ready, Requests
  <2>2. page_to_virt(2^o) \in Nat
    <3>1. 2^o \in Nat
      BY PowerAssumption DEF Requests
    <3> QED BY <3>1, PageFacts DEF page_to_virt, Page
  <2>3. CASE Refuse(o) /\ UNCHANGED <<slabVars, live>>
    BY <2>1, <2>3, ChunkRefused DEF slabVars, Inv, TypeOK
  <2> QED BY <2>1, <2>2, <2>3, ChunkServed DEF get_pages
<1>4. ASSUME NEW a \in Bytes, kfree(a) PROVE Inv'
  <2>1. ~ halted /\ live[a] # NULL /\ live' = [live EXCEPT ![a] = NULL]
    BY <1>4 DEF kfree, Ready
  <2>2. CASE page_slab[virt_to_page(a)] # NULL
    BY <1>4, <2>1, <2>2, SlotGiven DEF kfree
  <2>3. CASE page_slab[virt_to_page(a)] = NULL
    BY <1>4, <2>1, <2>3, ChunkFreed DEF kfree
  <2> QED BY <2>2, <2>3
<1>5. ASSUME NEW a \in Bytes, free_pages(a) PROVE Inv'
  <2>1. ~ halted /\ live[a] # NULL /\ live' = [live EXCEPT ![a] = NULL]
        /\ ~ FitsSlot(live[a]) /\ BuddyFree(virt_to_page(a))
    BY <1>5 DEF free_pages, Ready
  <2>2. page_slab[virt_to_page(a)] = NULL
    BY <2>1 DEF Inv, ObjectsRight
  <2> QED BY <2>1, <2>2, ChunkFreed
<1>6. CASE UNCHANGED vars
  <2>1. UNCHANGED <<owned, ret, refused, init_order, slabs, header, page_slab, next_free,
                    halted, live>>
    BY <1>6 DEF vars, physVars, slabVars
  <2>2. \A t : IsSlab(t)' <=> IsSlab(t)
    BY <2>1 DEF IsSlab
  <2>3. \A t : FreeSlots(t)' = FreeSlots(t) /\ SlabSet(t)' = SlabSet(t)
    BY <2>1, <2>2 DEF FreeSlots, SlabSet, InUse
  <2>4. TypeOK' /\ ChunksApart' /\ Tags' /\ ObjectsRight' /\ ChunksUsed' /\ NotYet'
    BY <2>1, <2>2 DEF Inv, TypeOK, ChunksApart, Tags, ObjectsRight, ChunksUsed, NotYet
  <2>5. SlabLists' /\ SlotLists'
    BY <2>1, <2>2, <2>3 DEF Inv, SlabLists, SlotLists, NextSlabs
  <2>6. HaltsOnlyWithoutMemory'
    BY <2>1 DEF Inv, HaltsOnlyWithoutMemory, Available, Unused
  <2> QED BY <2>4, <2>5, <2>6 DEF Inv
<1> QED BY <1>1, <1>2, <1>3, <1>4, <1>5, <1>6 DEF Next, Halted

THEOREM AlwaysInv == Spec => []Inv
<1>1. Init => Inv
  BY InitRight
<1>2. Inv /\ [Next]_vars => Inv'
  BY StepRight
<1> QED BY <1>1, <1>2, PTL DEF Spec


-----------------------------------------------------------------------------
\* Nothing comes after the end of a list.
LEMMA ListedEnd ==
  ASSUME NEW nxt, NULL \notin DOMAIN nxt, NEW x, NEW c, NEW X, Listed(nxt, x, c, X)
  PROVE  \A n \in Nat : n >= c => Walk(nxt, x)[n] = NULL
<1> DEFINE w == Walk(nxt, x)
           S == {n \in Nat : n >= c => w[n] = NULL}
<1>1. c \in Nat /\ w[c] = NULL /\ w[0] = x /\ \A n \in Nat : w[n + 1] = After(nxt, w[n])
  BY WalkIs DEF Listed
<1> HIDE DEF w
<1>2. 0 \in S
  BY <1>1
<1>3. ASSUME NEW n \in Nat, n \in S PROVE n + 1 \in S
  <2> SUFFICES ASSUME n + 1 >= c PROVE w[n + 1] = NULL
    OBVIOUS
  <2>1. CASE n >= c
    BY <1>1, <1>3, <2>1 DEF After
  <2>2. CASE ~ n >= c
    <3>1. n + 1 = c
      BY <1>1, <2>2
    <3> QED BY <1>1, <3>1
  <2> QED BY <2>1, <2>2
<1> HIDE DEF S
<1>4. Nat \subseteq S
  BY <1>2, <1>3, Induction
<1> QED BY <1>4 DEF S, w

\* The slabs that the lists lead to are those the pages are tagged with.
LEMMA SlabsListed ==
  ASSUME Inv
  PROVE  /\ \A o \in SlabOrders : /\ SlabsOf(o) = SlabSet(o)
                                  /\ SlabWalk(o)[Cardinality(SlabsOf(o))] = NULL
         /\ \A s : s \in AllSlabs <=> IsSlab(s)
<1>1. ASSUME NEW o \in SlabOrders
      PROVE  SlabsOf(o) = SlabSet(o) /\ SlabWalk(o)[Cardinality(SlabsOf(o))] = NULL
  <2> DEFINE w == SlabWalk(o)
  <2>1. PICK c : Listed(NextSlabs, slabs[o], c, SlabSet(o))
    BY DEF Inv, SlabLists
  <2>2. c \in 0 .. NPages
    BY <2>1, ShortList
  <2>3. /\ w[c] = NULL /\ NULL \notin SlabSet(o)
        /\ \A n \in 0 .. c - 1 : w[n] \in SlabSet(o)
        /\ \A y \in SlabSet(o) : \E n \in 0 .. c - 1 : w[n] = y
    BY <2>1 DEF Listed, SlabWalk, NextSlabs
  <2>4. \A n \in Nat : n >= c => w[n] = NULL
    <3>1. NULL \notin DOMAIN NextSlabs
      BY PoolAssumption DEF NextSlabs, Pages
    <3> QED BY <2>1, <3>1, ListedEnd DEF SlabWalk, NextSlabs
  <2>5. SlabsOf(o) = {w[n] : n \in 0 .. NPages} \ {NULL}
    BY DEF SlabsOf
  <2>6. Cardinality(SlabSet(o)) = c
    BY <2>1, ListedCount
  <2> HIDE DEF w
  <2>7. ASSUME NEW s \in SlabsOf(o) PROVE s \in SlabSet(o)
    <3>1. PICK n \in 0 .. NPages : w[n] = s /\ s # NULL
      BY <2>5
    <3>2. n \in 0 .. c - 1
      BY <2>2, <2>4, <3>1, PoolAssumption
    <3> QED BY <2>3, <3>1, <3>2
  <2>8. ASSUME NEW s \in SlabSet(o) PROVE s \in SlabsOf(o)
    <3>1. PICK n \in 0 .. c - 1 : w[n] = s
      BY <2>3
    <3>2. n \in 0 .. NPages
      BY <2>2, PoolAssumption
    <3> QED BY <2>3, <2>5, <3>1, <3>2
  <2>9. SlabsOf(o) = SlabSet(o)
    BY <2>7, <2>8
  <2> QED BY <2>3, <2>6, <2>9 DEF w
<1>2. ASSUME NEW s PROVE s \in AllSlabs <=> IsSlab(s)
  <2>1. s \in AllSlabs <=> \E o \in SlabOrders : s \in SlabsOf(o)
    BY DEF AllSlabs
  <2>2. s \in AllSlabs <=> \E o \in SlabOrders : s \in SlabSet(o)
    BY <1>1, <2>1
  <2>3. IsSlab(s) => s \in SlabSet(header[s].order) /\ header[s].order \in SlabOrders
    BY SlabFacts
  <2> QED BY <2>2, <2>3 DEF SlabSet
<1> QED BY <1>1, <1>2

\* The types of the state of the slabs and of kmalloc (slab_header, struct page,
\* slab_slot_list), for every pool and every number of orders.
THEOREM TypeCorrect == Spec => []TypeOK
<1>1. Inv => TypeOK
  BY DEF Inv
<1> QED BY <1>1, AlwaysInv, PTL

\* The lists of slabs and the tags of the pages agree, whatever has been allocated
\* and freed: kfree tells the objects of slabs from chunks (kfree, set_page_slab).
THEOREM AlwaysSlabs == Spec => []SlabsRight
<1>1. Inv => SlabsRight
  <2> SUFFICES ASSUME Inv PROVE SlabsRight
    OBVIOUS
  <2>1. ASSUME NEW o \in SlabOrders, NEW s \in SlabsOf(o)
        PROVE  header[s].order = o /\ owned[s] = SlabPageOrder
    <3>1. s \in SlabSet(o)
      BY SlabsListed
    <3> QED BY <3>1, SlabFacts DEF SlabSet
  <2>2. ASSUME NEW p \in Pages, NEW s \in Pages
        PROVE  page_slab[p] = s <=> s \in AllSlabs /\ p \in Extent(s, SlabPageOrder)
    <3>1. s # NULL
      BY PoolAssumption DEF Pages
    <3>2. page_slab[p] = s => IsSlab(s) /\ p \in Extent(s, SlabPageOrder)
      BY <3>1 DEF Inv, Tags
    <3>3. IsSlab(s) /\ p \in Extent(s, SlabPageOrder) => page_slab[p] = s
      BY DEF Inv, Tags
    <3> QED BY <3>2, <3>3, SlabsListed
  <2> QED BY <2>1, <2>2, SlabsListed DEF SlabsRight
<1> QED BY <1>1, AlwaysInv, PTL

\* A free list holds the slots that are not in use, each once, and never leads into
\* what a caller has written (_alloc_in_slab_nolock, free_in_slab).
THEOREM AlwaysFreeLists == Spec => []FreeListsRight
<1>1. Inv => FreeListsRight
  <2> SUFFICES ASSUME Inv, NEW s \in AllSlabs
               PROVE  /\ {SlotWalk(s)[n] : n \in 0 .. Cardinality(FreeSlots(s)) - 1}
                           = FreeSlots(s)
                      /\ SlotWalk(s)[Cardinality(FreeSlots(s))] = NULL
    BY DEF FreeListsRight, FreeSlots
  <2>1. IsSlab(s)
    BY SlabsListed
  <2>2. PICK c : Listed(next_free, header[s].free_list_head, c, FreeSlots(s))
    BY <2>1 DEF Inv, SlotLists, IsSlab
  <2>3. Cardinality(FreeSlots(s)) = c
    BY <2>2, ListedCount
  <2>4. {SlotWalk(s)[n] : n \in 0 .. c - 1} = FreeSlots(s)
    BY <2>2, ListedCount DEF SlotWalk
  <2>5. SlotWalk(s)[c] = NULL
    BY <2>2 DEF Listed, SlotWalk
  <2> QED BY <2>3, <2>4, <2>5
<1> QED BY <1>1, AlwaysInv, PTL

\* Every chunk taken from the buddy system is a slab or an object in use.
THEOREM AlwaysAccounted == Spec => []NoPageLost
<1>1. Inv => NoPageLost
  <2> SUFFICES ASSUME Inv PROVE NoPageLost
    OBVIOUS
  <2>1. ASSUME NEW p \in Pages, owned[p] # NULL
        PROVE  p \in AllSlabs \cup {virt_to_page(a) : a \in {b \in InUse : ~ IsSmall(b)}}
    <3>1. CASE IsSlab(p)
      BY <3>1, SlabsListed
    <3>2. CASE ~ IsSlab(p)
      <4>1. live[page_to_virt(p)] # NULL
        BY <2>1, <3>2 DEF Inv, ChunksUsed
      <4>2. page_slab[p] = NULL
        BY <2>1, <3>2, SlabOrOutside DEF IsSlab
      <4>3. page_to_virt(p) \in InUse /\ ~ IsSmall(page_to_virt(p))
            /\ p = virt_to_page(page_to_virt(p))
        BY <4>1, <4>2, PageByte DEF InUse, IsSmall
      <4> QED BY <4>3
    <3> QED BY <3>1, <3>2
  <2>2. ASSUME NEW s \in AllSlabs PROVE s \in Pages /\ owned[s] # NULL
    BY SlabsListed, SlabFacts, PageFacts DEF Orders
  <2>3. ASSUME NEW a \in InUse, ~ IsSmall(a)
        PROVE  virt_to_page(a) \in Pages /\ owned[virt_to_page(a)] # NULL
    BY <2>3, PageByte DEF InUse, IsSmall, Inv, ObjectsRight
  <2> QED BY <2>1, <2>2, <2>3 DEF NoPageLost
<1> QED BY <1>1, AlwaysInv, PTL

\* Of the BUG_ONs of slab.c and buddy.c only the one of virt_to_page is met, and only
\* when no slab can be had.
THEOREM AlwaysHaltsRightly == Spec => []HaltsOnlyWithoutMemory
<1>1. Inv => HaltsOnlyWithoutMemory
  BY DEF Inv
<1> QED BY <1>1, AlwaysInv, PTL

\* alloc_in_slab takes a new slab only when those of the order are full.
THEOREM AlwaysGrowsWhenFull == Spec => GrowsOnlyWhenFull
<1> DEFINE Grows == \A o \in SlabOrders :
             slabs'[o] # slabs[o] => \A s \in SlabsOf(o) : Slots(s, o) \subseteq InUse
<1>1. Inv /\ [Next]_vars => [Grows]_vars
  <2> SUFFICES ASSUME Inv, Next PROVE Grows \/ UNCHANGED vars
    OBVIOUS
  <2>1. ASSUME NEW o \in SlabOrders, NEW next, NEW taken, init_slab_cache(o, next, taken),
               \A s \in SlabSet(o) : FreeSlots(s) = {}
        PROVE  Grows
    <3>1. ASSUME NEW k \in SlabOrders, slabs'[k] # slabs[k] PROVE k = o
      BY <2>1, <3>1 DEF init_slab_cache, Inv, TypeOK
    <3>2. ASSUME NEW s \in SlabsOf(o) PROVE Slots(s, o) \subseteq InUse
      <4>1. s \in SlabSet(o)
        BY SlabsListed
      <4> QED BY <2>1, <4>1 DEF SlabSet, FreeSlots
    <3> QED BY <3>1, <3>2
  <2>2. CASE InitSlab
    <3>1. PICK o : o = init_order
      OBVIOUS
    <3>2. o \in SlabOrders /\ init_slab_cache(o, NULL, FALSE)
      <4>1. o <= SLAB_MAX_ORDER
        BY <2>2, <3>1 DEF InitSlab, init_slab
      <4>2. o \in SLAB_MIN_ORDER .. SLAB_MAX_ORDER + 1
        BY <3>1 DEF Inv, TypeOK
      <4>3. o \in SlabOrders
        BY <4>1, <4>2, SlabAssumption DEF SlabOrders
      <4>4. init_slab_cache(o, NULL, FALSE)
        BY <2>2, <3>1 DEF InitSlab, init_slab
      <4> QED BY <4>3, <4>4
    <3>3. SlabSet(o) = {}
      <4>1. slabs[o] = NULL
        BY <3>1, <3>2 DEF Inv, NotYet, SlabOrders
      <4>2. PICK c : Listed(NextSlabs, slabs[o], c, SlabSet(o))
        BY <3>2 DEF Inv, SlabLists
      <4> QED BY <4>1, <4>2, ListedStart
    <3> QED BY <2>1, <3>2, <3>3
  <2>3. ASSUME UNCHANGED slabs PROVE Grows
    BY <2>3
  <2>4. ASSUME NEW size \in Sizes, kmalloc(size) PROVE Grows
    <3>1. CASE SmallRequest(size)
      <4>1. PICK o : o = SlotOrder(size)
        OBVIOUS
      <4>2. PICK t : t = SlabWithSlot(o)
        OBVIOUS
      <4>3. o \in SlabOrders
        BY <3>1, <4>1, OrderInRange DEF SmallRequest
      <4>4. CASE TakeSlot(t)
        BY <2>3, <4>4 DEF TakeSlot
      <4>5. CASE t = NULL /\ TakeFromNewSlab(o)
        <5>1. \A s \in SlabSet(o) : FreeSlots(s) = {}
          BY <4>2, <4>3, <4>5, Search
        <5>2. PICK next : next = NextSlab(o)
          OBVIOUS
        <5>3. init_slab_cache(o, next, TRUE)
          BY <4>5, <5>2 DEF TakeFromNewSlab
        <5> QED BY <2>1, <4>3, <5>1, <5>3
      <4> QED BY <3>1, <4>1, <4>2, <4>4, <4>5 DEF SmallRequest
    <3>2. CASE LargeRequest(size)
      BY <2>3, <3>2 DEF LargeRequest, get_pages, slabVars
    <3> QED BY <2>4, <3>1, <3>2 DEF kmalloc
  <2>5. ASSUME NEW o \in Requests, GetPages(o) PROVE Grows
    BY <2>3, <2>5 DEF GetPages, get_pages, slabVars
  <2>6. ASSUME NEW a \in Bytes, kfree(a) \/ free_pages(a) PROVE Grows
    BY <2>3, <2>6 DEF kfree, free_pages, free_in_slab, BuddyFree
  <2> QED BY <2>2, <2>4, <2>5, <2>6 DEF Next, Halted
<1>2. Spec => [][Grows]_vars
  BY <1>1, AlwaysInv, PTL DEF Spec
<1> QED BY <1>2 DEF GrowsOnlyWhenFull


-----------------------------------------------------------------------------
\* What a step does to the objects: one more, one less, or none; the others keep
\* their room.
Served(size, n) ==
  \/ /\ size \in Sizes /\ FitsSlot(size)
     /\ n = order_to_size(SlotOrder(size))
  \/ /\ size \in Sizes /\ ~ FitsSlot(size)
     /\ PageOrder(size) \in Orders /\ n = page_to_virt(2^PageOrder(size))
  \/ \E o \in Orders : size = page_to_virt(2^o) /\ n = size

Kept(x) == \A b \in InUse : b # x => Room(b)' = Room(b)

Added ==
  \E x \in Bytes, size \in Nat, n \in Int :
    /\ live[x] = NULL /\ live' = [live EXCEPT ![x] = size]
    /\ Served(size, n) /\ Room(x)' = n /\ Kept(x)

Gone ==
  \E x \in Bytes : live[x] # NULL /\ live' = [live EXCEPT ![x] = NULL] /\ Kept(x)

Same == UNCHANGED live /\ Kept(NULL)

\* Where the object at b finds its room.
LEMMA RoomAt ==
  ASSUME Inv, NEW b \in InUse
  PROVE  /\ b \in Bytes /\ b # NULL /\ virt_to_page(b) \in Pages
         /\ page_slab[virt_to_page(b)] # NULL => IsSlab(page_slab[virt_to_page(b)])
         /\ page_slab[virt_to_page(b)] = NULL =>
              owned[virt_to_page(b)] # NULL /\ b = page_to_virt(virt_to_page(b))
<1>1. b \in Bytes /\ live[b] # NULL
  BY DEF InUse
<1>2. virt_to_page(b) \in Pages /\ b # NULL
  BY <1>1, PageByte, PageFacts
<1> QED BY <1>1, <1>2 DEF Inv, Tags, ObjectsRight

LEMMA RoomsOfSlots ==
  ASSUME Inv, NEW s, IsSlab(s), NEW h, header' = [header EXCEPT ![s].free_list_head = h],
         UNCHANGED <<owned, page_slab>>
  PROVE  /\ \A x : Kept(x)
         /\ \A a \in Slots(s, header[s].order) : Room(a)' = order_to_size(header[s].order)
<1>1. header \in [Pages -> [free_list_head : Bytes \cup {NULL},
                            next_slab : Pages \cup {NULL},
                            order : SlabOrders \cup {NULL}]]
  BY DEF Inv, TypeOK
<1>2. \A t \in Pages : header'[t].order = header[t].order
  BY <1>1
<1>3. ASSUME NEW b \in InUse PROVE Room(b)' = Room(b)
  <2>1. CASE page_slab[virt_to_page(b)] # NULL
    <3>1. page_slab[virt_to_page(b)] \in Pages
      BY <2>1, RoomAt DEF IsSlab
    <3> QED BY <1>2, <2>1, <3>1 DEF Room, IsSmall
  <2>2. CASE page_slab[virt_to_page(b)] = NULL
    BY <2>2 DEF Room, IsSmall
  <2> QED BY <2>1, <2>2
<1>4. ASSUME NEW a \in Slots(s, header[s].order)
      PROVE  Room(a)' = order_to_size(header[s].order)
  <2>1. page_slab[virt_to_page(a)] = s /\ s # NULL /\ s \in Pages
    BY SlabFacts
  <2> QED BY <1>2, <2>1 DEF Room, IsSmall
<1> QED BY <1>3, <1>4 DEF Kept

LEMMA RoomsOfChunks ==
  ASSUME Inv, NEW p \in Pages, NEW o, owned' = [owned EXCEPT ![p] = o],
         UNCHANGED <<header, page_slab>>, page_slab[p] = NULL
  PROVE  /\ Kept(page_to_virt(p))
         /\ Room(page_to_virt(p))' = page_to_virt(2^o)
<1>1. owned \in [Pages -> Orders \cup {NULL}]
  BY DEF Inv, TypeOK
<1>2. ASSUME NEW b \in InUse, b # page_to_virt(p) PROVE Room(b)' = Room(b)
  <2>1. CASE page_slab[virt_to_page(b)] # NULL
    BY <2>1 DEF Room, IsSmall
  <2>2. CASE page_slab[virt_to_page(b)] = NULL
    <3>1. virt_to_page(b) \in Pages /\ virt_to_page(b) # p
      BY <1>2, <2>2, RoomAt
    <3>2. owned'[virt_to_page(b)] = owned[virt_to_page(b)]
      BY <1>1, <3>1
    <3> QED BY <2>2, <3>2 DEF Room, IsSmall
  <2> QED BY <2>1, <2>2
<1>3. Room(page_to_virt(p))' = page_to_virt(2^o)
  <2>1. virt_to_page(page_to_virt(p)) = p
    BY PageByte
  <2>2. owned'[p] = o
    BY <1>1
  <2> QED BY <2>1, <2>2 DEF Room, IsSmall
<1> QED BY <1>2, <1>3 DEF Kept

LEMMA RoomsOfNewSlab ==
  ASSUME Inv, NEW o \in SlabOrders, NEW s \in Pages, Available(s, SlabPageOrder),
         owned' = [owned EXCEPT ![s] = SlabPageOrder], alloc_slab_memory(s),
         NEW h, NEW next,
         header' = [header EXCEPT ![s] =
                      [free_list_head |-> h, next_slab |-> next, order |-> o]]
  PROVE  /\ \A x : Kept(x)
         /\ Room(FirstSlot(s, o))' = order_to_size(o)
         /\ FirstSlot(s, o) \in Bytes /\ live[FirstSlot(s, o)] = NULL
<1>0. SlabPageOrder \in Orders /\ Fits(s, SlabPageOrder)
  BY PageFacts DEF Available
<1>1. /\ owned \in [Pages -> Orders \cup {NULL}]
      /\ header \in [Pages -> [free_list_head : Bytes \cup {NULL},
                               next_slab : Pages \cup {NULL},
                               order : SlabOrders \cup {NULL}]]
      /\ next_free \in [Bytes -> Bytes \cup {NULL, User}]
  BY DEF Inv, TypeOK
<1>2. /\ owned[s] = NULL
      /\ \A q \in Pages :
           q \in Extent(s, SlabPageOrder) => owned[q] = NULL /\ page_slab[q] = NULL
      /\ \A a \in Bytes : virt_to_page(a) \in Extent(s, SlabPageOrder) => live[a] = NULL
      /\ s \in Extent(s, SlabPageOrder)
  BY <1>0, NothingThere
<1>3. ASSUME NEW b \in InUse PROVE Room(b)' = Room(b)
  <2>1. b \in Bytes /\ live[b] # NULL /\ virt_to_page(b) \in Pages
    BY RoomAt DEF InUse
  <2>2. virt_to_page(b) \notin Extent(s, SlabPageOrder)
    BY <1>2, <2>1
  <2>3. page_slab'[virt_to_page(b)] = page_slab[virt_to_page(b)]
    BY <2>1, <2>2 DEF alloc_slab_memory
  <2>4. CASE page_slab[virt_to_page(b)] # NULL
    <3>1. IsSlab(page_slab[virt_to_page(b)])
      BY <2>4, RoomAt
    <3>2. page_slab[virt_to_page(b)] \in Pages /\ page_slab[virt_to_page(b)] # s
      BY <1>2, <3>1, <2>4 DEF IsSlab
    <3>3. header'[page_slab[virt_to_page(b)]] = header[page_slab[virt_to_page(b)]]
      BY <1>1, <3>2
    <3> QED BY <2>3, <2>4, <3>3 DEF Room, IsSmall
  <2>5. CASE page_slab[virt_to_page(b)] = NULL
    <3>1. owned'[virt_to_page(b)] = owned[virt_to_page(b)]
      BY <1>1, <1>2, <2>1, <2>2
    <3> QED BY <2>3, <2>5, <3>1 DEF Room, IsSmall
  <2> QED BY <2>4, <2>5
<1>4. PICK first : first = FirstSlot(s, o)
  OBVIOUS
<1>5. first \in Bytes /\ virt_to_page(first) \in Extent(s, SlabPageOrder)
      /\ virt_to_page(first) \in Pages
  <2>1. first \in Slots(s, o)
    BY <1>0, <1>1, <1>4, LinkedList
  <2>2. first \in Bytes /\ virt_to_page(first) \in Extent(s, SlabPageOrder)
    BY <1>0, <2>1, SlotInside
  <2> QED BY <2>2, PageByte
<1>6. Room(first)' = order_to_size(o)
  <2>1. page_slab'[virt_to_page(first)] = s
    BY <1>5 DEF alloc_slab_memory
  <2>2. header'[s].order = o /\ s # NULL
    BY <1>1, PoolAssumption DEF Pages
  <2> QED BY <2>1, <2>2 DEF Room, IsSmall
<1>7. live[first] = NULL
  BY <1>2, <1>5
<1>8. Room(FirstSlot(s, o))' = order_to_size(o)
  BY <1>4, <1>6 DEF Room, IsSmall
<1> QED BY <1>3, <1>4, <1>5, <1>7, <1>8 DEF Kept


LEMMA ChunkAdded ==
  ASSUME Inv, NEW o \in Orders, Allocate(o), UNCHANGED slabVars, NEW size \in Nat,
         live' = [live EXCEPT ![page_to_virt(ret')] = size],
         Served(size, page_to_virt(2^o))
  PROVE  Added
<1>1. PICK p \in Pages : /\ Available(p, o)
                         /\ owned' = [owned EXCEPT ![p] = o]
                         /\ ret' = p /\ refused' = NULL
  BY DEF Allocate
<1>2. PICK x : x = page_to_virt(p)
  OBVIOUS
<1>3. UNCHANGED <<header, page_slab>>
  BY DEF slabVars
<1>4. x \in Bytes /\ virt_to_page(x) = p
  BY <1>2, PageByte
<1>5. p \in Extent(p, o)
  BY <1>1, NothingThere
<1>6. page_slab[p] = NULL /\ live[x] = NULL
  <2>1. page_slab[p] = NULL
    BY <1>1, <1>5, NothingThere
  <2>2. live[x] = NULL
    BY <1>1, <1>4, <1>5, NothingThere
  <2> QED BY <2>1, <2>2
<1>7. Kept(page_to_virt(p)) /\ Room(page_to_virt(p))' = page_to_virt(2^o)
  BY <1>1, <1>3, <1>6, RoomsOfChunks
<1>8. Kept(x)
  BY <1>2, <1>7
<1>9. Room(x)' = page_to_virt(2^o)
  BY <1>2, <1>7 DEF Room, IsSmall
<1>10. page_to_virt(2^o) \in Int
  BY OrderPower, PageFacts DEF page_to_virt, Page
<1>11. live' = [live EXCEPT ![x] = size]
  BY <1>1, <1>2
<1> QED BY <1>4, <1>6, <1>8, <1>9, <1>10, <1>11 DEF Added

LEMMA NoChange ==
  ASSUME UNCHANGED <<owned, header, page_slab, live>>
  PROVE  Same
BY DEF Same, Kept, Room, IsSmall

LEMMA ChunkGone ==
  ASSUME Inv, NEW a \in Bytes, live[a] # NULL, page_slab[virt_to_page(a)] = NULL,
         BuddyFree(virt_to_page(a)), live' = [live EXCEPT ![a] = NULL]
  PROVE  Gone
<1>1. PICK p : p = virt_to_page(a)
  OBVIOUS
<1>2. p \in Pages /\ a = page_to_virt(p) /\ page_slab[p] = NULL
  BY <1>1, RoomAt DEF InUse
<1>3. owned' = [owned EXCEPT ![p] = NULL] /\ UNCHANGED <<header, page_slab>>
  BY <1>1 DEF BuddyFree
<1>4. Kept(page_to_virt(p))
  BY <1>2, <1>3, RoomsOfChunks
<1> QED BY <1>2, <1>4 DEF Gone

LEMMA StepObjects == Inv /\ [Next]_vars => Added \/ Gone \/ Same
<1> SUFFICES ASSUME Inv, [Next]_vars PROVE Added \/ Gone \/ Same
  OBVIOUS
<1>1. ASSUME NEW size \in Sizes, SmallRequest(size) PROVE Added \/ Same
  <2>1. PICK o : o = SlotOrder(size)
    OBVIOUS
  <2>2. PICK s : s = SlabWithSlot(o)
    OBVIOUS
  <2>3. FitsSlot(size) /\ o \in SlabOrders /\ size \in Nat
    BY <1>1, <2>1, OrderInRange, WordAssumption DEF SmallRequest
  <2>4. Served(size, order_to_size(o)) /\ order_to_size(o) \in Int
    BY <2>1, <2>3, SlotFacts DEF Served
  <2>5. CASE /\ s # NULL
             /\ TakeSlot(s)
             /\ live' = [live EXCEPT ![header[s].free_list_head] = size]
    <3>1. IsSlab(s) /\ header[s].order = o /\ header[s].free_list_head # NULL
      BY <2>2, <2>3, <2>5, Search DEF SlabSet
    <3>2. PICK a : a = header[s].free_list_head
      OBVIOUS
    <3>3. a \in FreeSlots(s)
      BY <3>1, <3>2, HeadFacts
    <3>4. a \in Slots(s, header[s].order) /\ a \in Bytes /\ live[a] = NULL
      BY <3>1, <3>3, SlabFacts DEF FreeSlots, InUse
    <3>5. header' = [header EXCEPT ![s].free_list_head = next_free[header[s].free_list_head]]
          /\ UNCHANGED <<owned, page_slab>>
      BY <2>5 DEF TakeSlot, physVars
    <3>6. /\ \A x : Kept(x)
          /\ \A b \in Slots(s, header[s].order) : Room(b)' = order_to_size(header[s].order)
      BY <3>1, <3>5, RoomsOfSlots
    <3>7. Room(a)' = order_to_size(o) /\ Kept(a)
      BY <3>1, <3>4, <3>6
    <3>8. live' = [live EXCEPT ![a] = size]
      BY <2>5, <3>2
    <3> QED BY <2>3, <2>4, <3>4, <3>7, <3>8 DEF Added
  <2>6. CASE /\ s = NULL
             /\ TakeFromNewSlab(o)
             /\ live' = IF halted' THEN live
                        ELSE [live EXCEPT ![FirstSlot(ret', o)] = size]
    <3>1. init_slab_cache(o, NextSlab(o), TRUE)
      BY <2>6 DEF TakeFromNewSlab
    <3>2. CASE Refuse(SlabPageOrder) /\ halted' = TRUE
               /\ UNCHANGED <<slabs, header, page_slab, next_free>>
      BY <2>6, <3>2, NoChange DEF Refuse
    <3>3. CASE ~ (Refuse(SlabPageOrder) /\ halted' = TRUE
                  /\ UNCHANGED <<slabs, header, page_slab, next_free>>)
      <4>1. PICK t \in Pages : /\ Available(t, SlabPageOrder)
                               /\ owned' = [owned EXCEPT ![t] = SlabPageOrder]
                               /\ ret' = t /\ alloc_slab_memory(t)
                               /\ header' = [header EXCEPT ![t] =
                                    [free_list_head |-> LinkSlots(t, o)[FirstSlot(t, o)],
                                     next_slab |-> NextSlab(o), order |-> o]]
                               /\ UNCHANGED halted
        BY <3>1, <3>3 DEF init_slab_cache, Allocate
      <4>2. PICK h, next : h = LinkSlots(t, o)[FirstSlot(t, o)] /\ next = NextSlab(o)
        OBVIOUS
      <4>3. header' = [header EXCEPT ![t] =
                         [free_list_head |-> h, next_slab |-> next, order |-> o]]
        BY <4>1, <4>2
      <4>4. /\ \A x : Kept(x)
            /\ Room(FirstSlot(t, o))' = order_to_size(o)
            /\ FirstSlot(t, o) \in Bytes /\ live[FirstSlot(t, o)] = NULL
        BY <2>3, <4>1, <4>3, RoomsOfNewSlab
      <4>5. CASE halted'
        <5>1. Same
          BY <2>6, <4>4, <4>5 DEF Same
        <5> QED BY <5>1
      <4>6. CASE ~ halted'
        <5>1. live' = [live EXCEPT ![FirstSlot(t, o)] = size]
          BY <2>6, <4>1, <4>6
        <5>2. PICK x : x = FirstSlot(t, o)
          OBVIOUS
        <5>3. Room(x)' = order_to_size(o)
          BY <4>4, <5>2 DEF Room, IsSmall
        <5>4. x \in Bytes /\ live[x] = NULL /\ Kept(x) /\ live' = [live EXCEPT ![x] = size]
          BY <4>4, <5>1, <5>2
        <5> QED BY <2>3, <2>4, <5>3, <5>4 DEF Added
      <4> QED BY <4>5, <4>6
    <3> QED BY <3>2, <3>3
  <2> QED BY <1>1, <2>1, <2>2, <2>5, <2>6 DEF SmallRequest
<1>2. ASSUME NEW size \in Nat, NEW o \in Nat, get_pages(o, size),
             o \in Orders => Served(size, page_to_virt(2^o))
      PROVE  Added \/ Same
  <2>1. CASE Refuse(o) /\ UNCHANGED <<slabVars, live>>
    BY <2>1, NoChange DEF Refuse, slabVars
  <2>2. CASE Allocate(o) /\ live' = [live EXCEPT ![page_to_virt(ret')] = size]
             /\ UNCHANGED slabVars
    <3>1. o \in Orders
      BY <2>2 DEF Allocate
    <3> QED BY <1>2, <2>2, <3>1, ChunkAdded
  <2> QED BY <1>2, <2>1, <2>2 DEF get_pages
<1>3. ASSUME NEW size \in Sizes, LargeRequest(size) PROVE Added \/ Same
  <2>1. PICK o : o = PageOrder(size)
    OBVIOUS
  <2>2. get_pages(o, size) /\ o \in Nat /\ size \in Nat
    BY <1>3, <2>1, LargeOrderNat, WordAssumption DEF LargeRequest
  <2>3. o \in Orders => Served(size, page_to_virt(2^o))
    BY <1>3, <2>1 DEF Served, LargeRequest
  <2> QED BY <1>2, <2>2, <2>3
<1>4. ASSUME NEW o \in Requests, GetPages(o) PROVE Added \/ Same
  <2>1. PICK size : size = page_to_virt(2^o)
    OBVIOUS
  <2>2. size \in Nat /\ o \in Nat
    <3>1. 2^o \in Nat
      BY PowerAssumption DEF Requests
    <3> QED BY <2>1, <3>1, PageFacts DEF page_to_virt, Page, Requests
  <2>3. get_pages(o, size)
    BY <1>4, <2>1 DEF GetPages
  <2>4. o \in Orders => Served(size, page_to_virt(2^o))
    BY <2>1 DEF Served
  <2> QED BY <1>2, <2>2, <2>3, <2>4
<1>5. ASSUME NEW a \in Bytes, kfree(a) PROVE Gone
  <2>1. live[a] # NULL /\ live' = [live EXCEPT ![a] = NULL]
    BY <1>5 DEF kfree
  <2>2. CASE page_slab[virt_to_page(a)] # NULL
    <3>1. PICK s : s = page_slab[virt_to_page(a)]
      OBVIOUS
    <3>2. IsSlab(s)
      BY <2>1, <2>2, <3>1, RoomAt DEF InUse
    <3>3. header' = [header EXCEPT ![s].free_list_head = a] /\ UNCHANGED <<owned, page_slab>>
      BY <1>5, <2>2, <3>1 DEF kfree, free_in_slab, OwnSlab, physVars
    <3>4. \A x : Kept(x)
      BY <3>2, <3>3, RoomsOfSlots
    <3> QED BY <2>1, <3>4 DEF Gone
  <2>3. CASE page_slab[virt_to_page(a)] = NULL
    BY <1>5, <2>1, <2>3, ChunkGone DEF kfree
  <2> QED BY <2>2, <2>3
<1>6. ASSUME NEW a \in Bytes, free_pages(a) PROVE Gone
  <2>1. live[a] # NULL /\ live' = [live EXCEPT ![a] = NULL] /\ ~ FitsSlot(live[a])
        /\ BuddyFree(virt_to_page(a))
    BY <1>6 DEF free_pages
  <2>2. page_slab[virt_to_page(a)] = NULL
    BY <2>1 DEF Inv, ObjectsRight
  <2> QED BY <2>1, <2>2, ChunkGone
<1>7. CASE InitSlab
  <2>1. PICK o : o = init_order
    OBVIOUS
  <2>2. UNCHANGED live /\ init_slab_cache(o, NULL, FALSE)
    BY <1>7, <2>1 DEF InitSlab, init_slab
  <2>3. o \in SlabOrders
    <3>1. o <= SLAB_MAX_ORDER
      BY <1>7, <2>1 DEF InitSlab, init_slab
    <3>2. o \in SLAB_MIN_ORDER .. SLAB_MAX_ORDER + 1
      BY <2>1 DEF Inv, TypeOK
    <3> QED BY <3>1, <3>2, SlabAssumption DEF SlabOrders
  <2>4. CASE Refuse(SlabPageOrder) /\ halted' = TRUE
             /\ UNCHANGED <<slabs, header, page_slab, next_free>>
    BY <2>2, <2>4, NoChange DEF Refuse
  <2>5. CASE ~ (Refuse(SlabPageOrder) /\ halted' = TRUE
                /\ UNCHANGED <<slabs, header, page_slab, next_free>>)
    <3>1. PICK t \in Pages : /\ Available(t, SlabPageOrder)
                             /\ owned' = [owned EXCEPT ![t] = SlabPageOrder]
                             /\ alloc_slab_memory(t)
                             /\ header' = [header EXCEPT ![t] =
                                  [free_list_head |-> FirstSlot(t, o),
                                   next_slab |-> NULL, order |-> o]]
      BY <2>2, <2>5 DEF init_slab_cache, Allocate
    <3>2. PICK h : h = FirstSlot(t, o)
      OBVIOUS
    <3>3. header' = [header EXCEPT ![t] =
                       [free_list_head |-> h, next_slab |-> NULL, order |-> o]]
      BY <3>1, <3>2
    <3>4. \A x : Kept(x)
      BY <2>3, <3>1, <3>3, RoomsOfNewSlab
    <3> QED BY <2>2, <3>4 DEF Same
  <2> QED BY <2>4, <2>5
<1>8. CASE UNCHANGED vars
  BY <1>8, NoChange DEF vars, physVars, slabVars
<1> QED BY <1>1, <1>3, <1>4, <1>5, <1>6, <1>7, <1>8 DEF Next, Halted, kmalloc


-----------------------------------------------------------------------------
\* Where the objects lie.
Fine(a, n) == IF n <= Page THEN a % n = 0 ELSE a % Page = 0

RoomsRight ==
  \A a \in InUse :
    /\ Room(a) \in {order_to_size(o) : o \in SlabOrders} \cup {page_to_virt(2^o) : o \in Orders}
    /\ a + Room(a) - 1 <= page_to_virt(EndPage) - 1
    /\ Fine(a, Room(a))
    /\ \A b \in InUse : b # a => a + Room(a) <= b \/ b + Room(b) <= a

\* The chunk an object lies in.
Home(a) == IF IsSmall(a) THEN page_slab[virt_to_page(a)] ELSE virt_to_page(a)

LEMMA ChunkRange ==
  ASSUME Inv, NEW c \in Pages, owned[c] # NULL
  PROVE  /\ owned[c] \in Orders /\ 2^owned[c] \in Nat \ {0} /\ c \in Int
         /\ c + 2^owned[c] <= EndPage /\ EndPage \in Int
         /\ page_to_virt(c) \in Int /\ page_to_virt(2^owned[c]) \in Int
         /\ page_to_virt(c) + page_to_virt(2^owned[c]) = page_to_virt(c + 2^owned[c])
         /\ page_to_virt(c + 2^owned[c]) <= page_to_virt(EndPage)
         /\ page_to_virt(EndPage) \in Int
<1>1. owned[c] \in Orders
  BY DEF Inv, TypeOK
<1>2. PICK n \in Nat \ {0} : n = 2^owned[c]
  BY <1>1, OrderPower
<1>3. c \in Int /\ EndPage \in Int
  BY PoolAssumption DEF Pages, EndPage
<1>4. c + n <= EndPage
  BY <1>2 DEF Inv, ChunksApart, Fits
<1>5. Page \in Nat
  BY PageFacts
<1>6. c * Page \in Int /\ n * Page \in Int /\ EndPage * Page \in Int
      /\ c * Page + n * Page = (c + n) * Page
  BY <1>2, <1>3, <1>5
<1>7. (c + n) * Page <= EndPage * Page
  BY <1>2, <1>3, <1>4, <1>5, MulLe
<1> QED BY <1>1, <1>2, <1>3, <1>4, <1>6, <1>7 DEF page_to_virt, Page

LEMMA AtHome ==
  ASSUME Inv, NEW a \in InUse
  PROVE  /\ Home(a) \in Pages /\ owned[Home(a)] # NULL
         /\ a \in Int /\ Room(a) \in Nat \ {0}
         /\ page_to_virt(Home(a)) <= a
         /\ a + Room(a) <= page_to_virt(Home(a) + 2^owned[Home(a)])
         /\ IsSmall(a) => /\ IsSlab(Home(a))
                          /\ a \in Slots(Home(a), header[Home(a)].order)
                          /\ Room(a) = order_to_size(header[Home(a)].order)
         /\ ~ IsSmall(a) => /\ page_slab[Home(a)] = NULL
                            /\ a = page_to_virt(Home(a))
                            /\ Room(a) = page_to_virt(2^owned[Home(a)])
<1>1. CASE IsSmall(a)
  <2>1. PICK s : s = Home(a)
    OBVIOUS
  <2>2. s = page_slab[virt_to_page(a)] /\ s # NULL
    BY <1>1, <2>1 DEF Home, IsSmall
  <2>3. IsSlab(s)
    BY <2>2, RoomAt
  <2>4. a \in Bytes /\ a \in Slots(s, header[s].order)
    BY <2>2 DEF Inv, ObjectsRight, InUse
  <2>5. Room(a) = order_to_size(header[s].order)
    BY <1>1, <2>2 DEF Room
  <2>6. s \in Pages /\ header[s].order \in SlabOrders /\ owned[s] = SlabPageOrder
        /\ Fits(s, SlabPageOrder) /\ owned[s] # NULL
    BY <2>3, SlabFacts, PageFacts DEF Orders
  <2>7. /\ page_to_virt(s) + Room(a) <= a
        /\ a + Room(a) <= page_to_virt(s) + SLAB_INIT_SIZE
    BY <2>4, <2>5, <2>6, SlotInside
  <2>8. Room(a) \in Nat \ {0}
    BY <2>5, <2>6, SlotFacts
  <2>9. page_to_virt(s) + SLAB_INIT_SIZE = page_to_virt(s + 2^SlabPageOrder)
    <3>1. SLAB_INIT_SIZE = page_to_virt(2^SlabPageOrder)
      BY PageFacts DEF page_to_virt, Page
    <3> QED BY <2>6, <3>1, ChunkRange
  <2>10. a \in Int /\ page_to_virt(s) \in Int
    BY <2>4, <2>6, PageByte
  <2>11. page_to_virt(s) <= a
    BY <2>7, <2>8, <2>10
  <2> QED BY <1>1, <2>1, <2>3, <2>4, <2>5, <2>6, <2>7, <2>8, <2>9, <2>10, <2>11
<1>2. CASE ~ IsSmall(a)
  <2>1. PICK p : p = Home(a)
    OBVIOUS
  <2>2. p = virt_to_page(a) /\ page_slab[p] = NULL
    BY <1>2, <2>1 DEF Home, IsSmall
  <2>3. p \in Pages /\ owned[p] # NULL /\ a = page_to_virt(p)
    BY <2>2, RoomAt
  <2>4. Room(a) = page_to_virt(2^owned[p])
    BY <1>2, <2>2 DEF Room
  <2>5. Room(a) \in Nat \ {0}
    <3>1. PICK n \in Nat \ {0} : n = 2^owned[p]
      BY <2>3, ChunkRange
    <3>2. n * Page \in Nat \ {0}
      BY PageFacts
    <3> QED BY <2>4, <3>1, <3>2 DEF page_to_virt, Page
  <2>6. a \in Int
    BY <2>3, PageByte
  <2>7. a + Room(a) = page_to_virt(p + 2^owned[p])
    BY <2>3, <2>4, ChunkRange
  <2>8. a + Room(a) <= page_to_virt(p + 2^owned[p]) /\ page_to_virt(p) <= a
    BY <2>3, <2>5, <2>6, <2>7
  <2>9. /\ p \in Pages /\ owned[p] # NULL /\ a \in Int /\ Room(a) \in Nat \ {0}
        /\ page_to_virt(p) <= a /\ a + Room(a) <= page_to_virt(p + 2^owned[p])
        /\ page_slab[p] = NULL /\ a = page_to_virt(p) /\ Room(a) = page_to_virt(2^owned[p])
    BY <2>2, <2>3, <2>4, <2>5, <2>6, <2>8, Zenon
  <2> QED BY <1>2, <2>1, <2>9, Zenon
<1> QED BY <1>1, <1>2

\* Objects in different chunks.
LEMMA HomesApart ==
  ASSUME Inv, NEW a \in InUse, NEW b \in InUse, Home(a) # Home(b)
  PROVE  a + Room(a) <= b \/ b + Room(b) <= a
<1>1. PICK c \in Pages, d \in Pages : c = Home(a) /\ d = Home(b)
  BY AtHome
<1>2. owned[c] # NULL /\ owned[d] # NULL /\ c # d
  BY <1>1, AtHome
<1>3. PICK m \in Nat \ {0}, n \in Nat \ {0} : m = 2^owned[c] /\ n = 2^owned[d]
  BY <1>2, ChunkRange
<1>4. c \in Int /\ d \in Int
  BY <1>2, ChunkRange
<1>5. (c .. c + m - 1) \cap (d .. d + n - 1) = {}
  BY <1>2, <1>3 DEF Inv, ChunksApart, Extent
<1>6. c + m <= d \/ d + n <= c
  <2>1. SUFFICES ASSUME ~ c + m <= d, ~ d + n <= c PROVE FALSE
    OBVIOUS
  <2>2. CASE c <= d
    <3>1. d \in c .. c + m - 1 /\ d \in d .. d + n - 1
      BY <1>3, <1>4, <2>1, <2>2
    <3> QED BY <1>5, <3>1
  <2>3. CASE ~ c <= d
    <3>1. c \in c .. c + m - 1 /\ c \in d .. d + n - 1
      BY <1>3, <1>4, <2>1, <2>3
    <3> QED BY <1>5, <3>1
  <2> QED BY <2>2, <2>3
<1>7. \A x, y \in Int : x <= y => page_to_virt(x) <= page_to_virt(y)
                                  /\ page_to_virt(x) \in Int /\ page_to_virt(y) \in Int
  <2> SUFFICES ASSUME NEW x \in Int, NEW y \in Int, x <= y
               PROVE  x * Page <= y * Page /\ x * Page \in Int /\ y * Page \in Int
    BY DEF page_to_virt, Page
  <2> QED BY PageFacts, MulLe
<1>8. /\ page_to_virt(c) <= a /\ a + Room(a) <= page_to_virt(c + m)
      /\ page_to_virt(d) <= b /\ b + Room(b) <= page_to_virt(d + n)
      /\ a \in Int /\ b \in Int /\ Room(a) \in Int /\ Room(b) \in Int
  BY <1>1, <1>3, AtHome
<1>9. CASE c + m <= d
  <2>1. page_to_virt(c + m) <= page_to_virt(d) /\ page_to_virt(c + m) \in Int
        /\ page_to_virt(d) \in Int
    BY <1>3, <1>4, <1>7, <1>9
  <2> QED BY <1>8, <2>1
<1>10. CASE d + n <= c
  <2>1. page_to_virt(d + n) <= page_to_virt(c) /\ page_to_virt(d + n) \in Int
        /\ page_to_virt(c) \in Int
    BY <1>3, <1>4, <1>7, <1>10
  <2> QED BY <1>8, <2>1
<1> QED BY <1>6, <1>9, <1>10

\* Slots of one slab.
LEMMA NeighboursApart ==
  ASSUME NEW s \in Pages, Fits(s, SlabPageOrder), NEW o \in SlabOrders,
         NEW a \in Slots(s, o), NEW b \in Slots(s, o), a # b
  PROVE  a + order_to_size(o) <= b \/ b + order_to_size(o) <= a
<1>1. PICK i \in Int, j \in Int : a = Slot(s, o, i) /\ b = Slot(s, o, j) /\ i # j
  <2>1. PICK i \in 1 .. Count(o) - 1 : a = Slot(s, o, i)
    BY SlotIs
  <2>2. PICK j \in 1 .. Count(o) - 1 : b = Slot(s, o, j)
    BY SlotIs
  <2>3. i \in Int /\ j \in Int
    BY SlotFacts
  <2> QED BY <2>1, <2>2, <2>3
<1>2. \A x, y \in Int : x < y => Slot(s, o, x) + order_to_size(o) <= Slot(s, o, y)
  <2> SUFFICES ASSUME NEW x \in Int, NEW y \in Int, x < y
               PROVE  Slot(s, o, x + 1) <= Slot(s, o, y)
    BY SlotIs
  <2>1. PICK z, t : z = order_to_size(o) /\ t = page_to_virt(s)
    OBVIOUS
  <2>2. z \in Nat /\ t \in Int
    BY <2>1, SlotFacts, PageByte
  <2>3. (x + 1) * z <= y * z /\ (x + 1) * z \in Int /\ y * z \in Int
    BY <2>2, MulLe
  <2>4. t + (x + 1) * z <= t + y * z
    BY <2>2, <2>3
  <2> QED BY <2>1, <2>4 DEF Slot
<1>3. i < j \/ j < i
  BY <1>1
<1> QED BY <1>1, <1>2, <1>3

LEMMA RoomsFollow == Inv => RoomsRight
<1> SUFFICES ASSUME Inv, NEW a \in InUse
             PROVE  /\ Room(a) \in {order_to_size(o) : o \in SlabOrders}
                                     \cup {page_to_virt(2^o) : o \in Orders}
                    /\ a + Room(a) - 1 <= page_to_virt(EndPage) - 1
                    /\ Fine(a, Room(a))
                    /\ \A b \in InUse : b # a => a + Room(a) <= b \/ b + Room(b) <= a
  BY DEF RoomsRight
<1>1. PICK c \in Pages : c = Home(a) /\ owned[c] # NULL
  BY AtHome
<1>2. a + Room(a) - 1 <= page_to_virt(EndPage) - 1
  <2>1. a \in Int /\ Room(a) \in Int /\ a + Room(a) <= page_to_virt(c + 2^owned[c])
    BY <1>1, AtHome
  <2>2. page_to_virt(c + 2^owned[c]) <= page_to_virt(EndPage) /\ page_to_virt(EndPage) \in Int
        /\ page_to_virt(c + 2^owned[c]) \in Int
    <3>1. page_to_virt(c) + page_to_virt(2^owned[c]) \in Int
      BY <1>1, ChunkRange
    <3> QED BY <1>1, <3>1, ChunkRange
  <2> QED BY <2>1, <2>2
<1>3. ASSUME NEW b \in InUse, b # a PROVE a + Room(a) <= b \/ b + Room(b) <= a
  <2>1. CASE Home(b) # c
    BY <1>1, <2>1, HomesApart
  <2>2. CASE Home(b) = c
    <3>1. IsSmall(a) <=> IsSmall(b)
      <4>1. \A x \in InUse : Home(x) = c => (IsSmall(x) <=> page_slab[c] # NULL)
        <5>1. IsSlab(c) => page_slab[c] # NULL
          BY SlabFacts
        <5> QED BY <5>1, AtHome
      <4> QED BY <1>1, <2>2, <4>1
    <3>2. IsSmall(a)
      <4>1. SUFFICES ASSUME ~ IsSmall(a) PROVE FALSE
        OBVIOUS
      <4>2. a = page_to_virt(c) /\ b = page_to_virt(c)
        BY <1>1, <2>2, <3>1, <4>1, AtHome
      <4> QED BY <1>3, <4>2
    <3>3. IsSlab(c) /\ a \in Slots(c, header[c].order) /\ b \in Slots(c, header[c].order)
          /\ Room(a) = order_to_size(header[c].order)
          /\ Room(b) = order_to_size(header[c].order)
      BY <1>1, <2>2, <3>1, <3>2, AtHome
    <3>4. Fits(c, SlabPageOrder) /\ header[c].order \in SlabOrders
      BY <3>3, SlabFacts
    <3> QED BY <1>3, <3>3, <3>4, NeighboursApart
  <2> QED BY <2>1, <2>2
<1>4. CASE IsSmall(a)
  <2>1. IsSlab(c) /\ a \in Slots(c, header[c].order)
        /\ Room(a) = order_to_size(header[c].order)
    BY <1>1, <1>4, AtHome
  <2>2. PICK o \in SlabOrders : o = header[c].order
    BY <2>1, SlabFacts
  <2>3. PICK z \in Nat \ {0} : z = order_to_size(o) /\ z < Page /\ Page % z = 0
    BY SlotFacts
  <2>4. PICK i \in Int : a = c * Page + i * z
    <3>1. PICK i \in 1 .. Count(o) - 1 : a = page_to_virt(c) + i * order_to_size(o)
      BY <2>1, <2>2 DEF Slots, Count
    <3>2. i \in Int
      BY SlotFacts
    <3> QED BY <2>3, <3>1, <3>2 DEF page_to_virt, Page
  <2>5. PICK q \in Int : Page = q * z
    <3>1. Page \in Int
      BY PageFacts
    <3>2. \A p \in Int, u \in Nat \ {0} : p % u = 0 => \E k \in Int : p = k * u
      BY Multiple
    <3> QED BY <2>3, <3>1, <3>2, Zenon
  <2>6. a = (c * q + i) * z
    <3>1. c \in Int
      BY PoolAssumption DEF Pages
    <3>2. c * (q * z) = (c * q) * z
      BY <3>1
    <3>3. (c * q) * z + i * z = (c * q + i) * z
      <4>1. PICK e \in Int : e = c * q
        BY <3>1
      <4>2. e * z + i * z = (e + i) * z
        OBVIOUS
      <4> QED BY <4>1, <4>2
    <3> QED BY <2>4, <2>5, <3>2, <3>3, Zenon
  <2>7. a % z = 0
    <3>1. c * q + i \in Int /\ a \in Int
      <4>1. c \in Int
        BY PoolAssumption DEF Pages
      <4> QED BY <4>1, AtHome
    <3>2. \A p \in Int, u \in Nat \ {0}, k \in Int : p = k * u => p % u = 0
      BY Multiple
    <3> QED BY <2>6, <3>1, <3>2, Zenon
  <2>8. Room(a) = z /\ z <= Page
    BY <2>1, <2>2, <2>3, PageFacts
  <2>9. Fine(a, Room(a))
    BY <2>7, <2>8 DEF Fine
  <2> QED BY <1>2, <1>3, <2>1, <2>2, <2>9
<1>5. CASE ~ IsSmall(a)
  <2>1. a = page_to_virt(c) /\ Room(a) = page_to_virt(2^owned[c])
    BY <1>1, <1>5, AtHome
  <2>2. PICK o \in Orders : o = owned[c]
    BY <1>1, ChunkRange
  <2>3. PICK n \in Nat \ {0} : n = 2^o
    BY OrderPower
  <2>4. a = c * Page /\ Room(a) = n * Page /\ c \in Int /\ Page \in Nat \ {0}
    BY <2>1, <2>2, <2>3, PageFacts, PoolAssumption DEF page_to_virt, Page, Pages
  <2>5. a % Page = 0
    BY <2>4, Multiple
  <2>6. n * Page <= Page => n * Page = Page
    <3>1. 1 * Page <= n * Page
      BY <2>4, MulLe
    <3> QED BY <2>4, <3>1
  <2>7. Fine(a, Room(a))
    BY <2>4, <2>5, <2>6 DEF Fine
  <2> QED BY <1>2, <1>3, <2>1, <2>2, <2>7
<1> QED BY <1>4, <1>5


-----------------------------------------------------------------------------
\* What a request asks for is what it gets, unless the sum in ROUND_UP wraps.
NoWrap == \A size \in Sizes : size + BUDDY_PAGE_SIZE <= WORD

LEMMA RoomEnough ==
  ASSUME NoWrap, NEW size \in Nat, NEW n, Served(size, n)
  PROVE  n >= size
<1>1. CASE size \in Sizes /\ FitsSlot(size) /\ n = order_to_size(SlotOrder(size))
  <2>1. PICK o : o = size_to_order(size)
    OBVIOUS
  <2>2. SLAB_MAX_ORDER \in 0 .. SLAB_MAX_ORDER /\ size <= 2^SLAB_MAX_ORDER
    BY <1>1, SlabAssumption DEF FitsSlot, order_to_size
  <2>3. o \in Nat /\ o <= SLAB_MAX_ORDER /\ size <= 2^o
    BY <2>1, <2>2, DoublesSlots, OrderIs, SlabAssumption
  <2>4. SLAB_MIN_ORDER \in 0 .. SLAB_MAX_ORDER /\ o \in 0 .. SLAB_MAX_ORDER
    BY <2>3, SlabAssumption
  <2>5. CASE o < SLAB_MIN_ORDER
    <3>1. 2^o <= 2^SLAB_MIN_ORDER /\ 2^o \in Nat /\ 2^SLAB_MIN_ORDER \in Nat
      <4>1. o \in 0 .. SLAB_MAX_ORDER + 1 /\ SLAB_MIN_ORDER \in 0 .. SLAB_MAX_ORDER + 1
            /\ o <= SLAB_MIN_ORDER
        BY <2>4, <2>5, SlabAssumption
      <4> QED BY <4>1, DoublesSlots, PowersGrow
    <3>2. n = 2^SLAB_MIN_ORDER
      BY <1>1, <2>1, <2>5 DEF SlotOrder, order_to_size
    <3> QED BY <2>3, <3>1, <3>2
  <2>6. CASE ~ o < SLAB_MIN_ORDER
    BY <1>1, <2>1, <2>3, <2>6 DEF SlotOrder, order_to_size
  <2> QED BY <2>5, <2>6
<1>2. CASE size \in Sizes /\ ~ FitsSlot(size)
            /\ PageOrder(size) \in Orders /\ n = page_to_virt(2^PageOrder(size))
  <2>1. CASE size <= BUDDY_PAGE_SIZE
    <3>1. n = 1 * Page
      BY <1>2, <2>1, PowerZero DEF PageOrder, page_to_virt, Page
    <3> QED BY <2>1, <3>1, PageFacts DEF Page
  <2>2. CASE ~ size <= BUDDY_PAGE_SIZE
    <3>1. PICK x \in Nat : x = size + Page - 1 /\ x % WORD = x
      <4>1. size + BUDDY_PAGE_SIZE <= WORD /\ WORD \in Nat /\ Page \in Nat \ {0}
        BY <1>2, WordAssumption, PageFacts DEF NoWrap
      <4>2. size + Page - 1 \in Nat /\ size + Page - 1 < WORD
        BY <4>1 DEF Page
      <4>3. \A y \in Nat : y < WORD => y % WORD = y
        BY <4>1
      <4> QED BY <4>2, <4>3
    <3>2. PICK m \in Int : m = x \div Page /\ m * Page <= x /\ x < m * Page + Page
      <4>1. x \in Int /\ Page \in Nat \ {0}
        BY <3>1, PageFacts
      <4>2. x \div Page \in Int /\ (x \div Page) * Page <= x /\ x < (x \div Page) * Page + Page
        BY <4>1, Divided, Zenon
      <4> QED BY <4>2, Zenon
    <3>3. size <= m * Page
      <4>1. m * Page \in Int /\ Page \in Nat
        BY PageFacts
      <4> QED BY <3>1, <3>2, <4>1
    <3>4. m \in Nat
      <4>1. 0 * Page < (m + 1) * Page
        <5>1. (m + 1) * Page = m * Page + Page /\ m * Page \in Int /\ Page \in Nat \ {0}
          BY PageFacts
        <5> QED BY <3>1, <3>2, <5>1
      <4>2. 0 < m + 1
        BY <4>1, PageFacts, MulLt
      <4> QED BY <4>2
    <3>5. PICK o \in Orders : o = PageOrder(size) /\ o = size_to_order(m)
      <4>1. PageOrder(size) = size_to_order((x % WORD) \div Page)
        BY <2>2, <3>1 DEF PageOrder, size_to_page_order, Page
      <4> QED BY <1>2, <3>1, <3>2, <4>1
    <3>6. m <= 2^o
      <4>1. o <= (BUDDY_MAX_ORDER - 1) + 1
        BY PoolAssumption DEF Orders
      <4> QED BY <3>4, <3>5, <4>1, DoublesOrders, OrderIs
    <3>7. PICK k \in Nat \ {0} : k = 2^o
      BY OrderPower
    <3>8. m * Page <= k * Page /\ m * Page \in Int /\ k * Page \in Int
      BY <3>4, <3>6, <3>7, MulLe, PageFacts
    <3>9. n = k * Page
      BY <1>2, <3>5, <3>7 DEF page_to_virt, Page
    <3> QED BY <3>3, <3>8, <3>9
  <2> QED BY <2>1, <2>2
<1>3. CASE n = size
  BY <1>3
<1> QED BY <1>1, <1>2, <1>3 DEF Served

-----------------------------------------------------------------------------
\* kmalloc implements the heap its callers see.
Rec(a) == IF live[a] = NULL THEN NULL ELSE [size |-> live[a], length |-> Room(a)]
HeapRoom == [a \in Bytes |-> Rec(a)]

LEMMA HeapStep ==
  ASSUME Inv, Inv', RoomsRight', [Next]_vars, NoWrap,
         NULL \notin [size : Nat, length : Int]
  PROVE  [Objects!HeapNext]_HeapRoom
<1>0. live \in [Bytes -> Nat \cup {NULL}] /\ live' \in [Bytes -> Nat \cup {NULL}]
  BY DEF Inv, TypeOK
<1>1. DOMAIN HeapRoom = Bytes /\ DOMAIN HeapRoom' = Bytes
      /\ \A b \in Bytes : HeapRoom[b] = Rec(b) /\ HeapRoom'[b] = Rec(b)'
  BY DEF HeapRoom
<1>2. ASSUME Same PROVE UNCHANGED HeapRoom
  <2>1. ASSUME NEW b \in Bytes PROVE Rec(b)' = Rec(b)
    <3>1. CASE live[b] = NULL
      BY <1>2, <3>1 DEF Same, Rec
    <3>2. CASE live[b] # NULL
      <4>1. b \in InUse /\ b # NULL
        BY <3>2, RoomAt DEF InUse
      <4>2. Room(b)' = Room(b) /\ live'[b] = live[b]
        BY <1>2, <4>1 DEF Same, Kept
      <4> QED BY <4>2 DEF Rec
    <3> QED BY <3>1, <3>2
  <2> QED BY <2>1 DEF HeapRoom
<1>3. ASSUME Added PROVE Objects!HeapNext
  <2>1. PICK x \in Bytes, size \in Nat, n \in Int :
          /\ live[x] = NULL /\ live' = [live EXCEPT ![x] = size]
          /\ Served(size, n) /\ Room(x)' = n /\ Kept(x)
    BY <1>3 DEF Added
  <2>2. live'[x] = size /\ size # NULL /\ \A b \in Bytes : b # x => live'[b] = live[b]
    BY <1>0, <2>1, PageFacts
  <2>3. \A b \in Bytes : b # x => HeapRoom'[b] = HeapRoom[b]
    <3> SUFFICES ASSUME NEW b \in Bytes, b # x PROVE Rec(b)' = Rec(b)
      BY <1>1
    <3>1. CASE live[b] = NULL
      BY <2>2, <3>1 DEF Rec
    <3>2. CASE live[b] # NULL
      <4>1. Room(b)' = Room(b) /\ live'[b] = live[b]
        BY <2>1, <2>2, <3>2 DEF Kept, InUse
      <4> QED BY <4>1 DEF Rec
    <3> QED BY <3>1, <3>2
  <2>4. HeapRoom'[x] = [size |-> size, length |-> n]
    <3>1. Rec(x)' = [size |-> live'[x], length |-> Room(x)']
      BY <2>2 DEF Rec
    <3> QED BY <1>1, <2>1, <2>2, <3>1
  <2>5. HeapRoom' = [HeapRoom EXCEPT ![x] = HeapRoom'[x]]
    <3>1. PICK f, g : f = HeapRoom /\ g = HeapRoom'
      OBVIOUS
    <3>2. f = [b \in Bytes |-> f[b]] /\ g = [b \in Bytes |-> g[b]]
      BY <3>1 DEF HeapRoom
    <3>3. \A b \in Bytes : b # x => g[b] = f[b]
      BY <2>3, <3>1
    <3>4. g = [f EXCEPT ![x] = g[x]]
      BY <3>2, <3>3
    <3> QED BY <3>1, <3>4
  <2>6. /\ n \in {order_to_size(o) : o \in SlabOrders} \cup {page_to_virt(2^o) : o \in Orders}
        /\ x + n - 1 <= page_to_virt(EndPage) - 1
        /\ Fine(x, n)
        /\ \A b \in InUse' : b # x => x + n <= b \/ b + Room(b)' <= x
    <3>1. x \in InUse'
      BY <2>2 DEF InUse
    <3>2. \A a \in InUse' :
            /\ Room(a)' \in {order_to_size(o) : o \in SlabOrders}
                              \cup {page_to_virt(2^o) : o \in Orders}
            /\ a + Room(a)' - 1 <= page_to_virt(EndPage) - 1
            /\ Fine(a, Room(a)')
            /\ \A b \in InUse' : b # a => a + Room(a)' <= b \/ b + Room(b)' <= a
      BY DEF RoomsRight, Fine
    <3> QED BY <2>1, <3>1, <3>2
  <2>7. n >= size
    BY <2>1, RoomEnough
  <2>8. ASSUME NEW b \in Bytes, HeapRoom[b] # NULL
        PROVE  x + n <= b \/ b + HeapRoom[b].length <= x
    <3>1. live[b] # NULL /\ HeapRoom[b].length = Room(b)
      BY <1>1, <2>8 DEF Rec
    <3>2. b # x /\ b \in InUse' /\ Room(b)' = Room(b)
      BY <2>1, <2>2, <3>1 DEF InUse, Kept
    <3> QED BY <2>6, <3>1, <3>2
  <2>9. size \in Sizes \cup {page_to_virt(2^o) : o \in Orders}
    BY <2>1 DEF Served
  <2>10. Objects!Allocate(HeapRoom, HeapRoom', size)
    BY <2>4, <2>5, <2>6, <2>7, <2>8
       DEF Objects!Allocate, Objects!Apart, Objects!Bytes, Bytes, Fine, Page
  <2> QED BY <2>9, <2>10 DEF Objects!HeapNext, HeapRoom, Rec
<1>4. ASSUME Gone PROVE Objects!HeapNext
  <2>1. PICK x \in Bytes :
          live[x] # NULL /\ live' = [live EXCEPT ![x] = NULL] /\ Kept(x)
    BY <1>4 DEF Gone
  <2>2. live'[x] = NULL /\ \A b \in Bytes : b # x => live'[b] = live[b]
    BY <1>0, <2>1
  <2>3. \A b \in Bytes : b # x => HeapRoom'[b] = HeapRoom[b]
    <3> SUFFICES ASSUME NEW b \in Bytes, b # x PROVE Rec(b)' = Rec(b)
      BY <1>1
    <3>1. CASE live[b] = NULL
      BY <2>2, <3>1 DEF Rec
    <3>2. CASE live[b] # NULL
      <4>1. Room(b)' = Room(b) /\ live'[b] = live[b]
        BY <2>1, <2>2, <3>2 DEF Kept, InUse
      <4> QED BY <4>1 DEF Rec
    <3> QED BY <3>1, <3>2
  <2>4. HeapRoom'[x] = NULL /\ HeapRoom[x] # NULL
    <3>1. Rec(x)' = NULL
      BY <2>2 DEF Rec
    <3>2. x \in InUse
      BY <2>1 DEF InUse
    <3>3. Room(x) \in Int /\ live[x] \in Nat
      BY <1>0, <2>1, <3>2, AtHome
    <3>4. Rec(x) \in [size : Nat, length : Int]
      BY <2>1, <3>3 DEF Rec
    <3> QED BY <1>1, <3>1, <3>4
  <2>5. HeapRoom' = [HeapRoom EXCEPT ![x] = NULL]
    <3>1. PICK f, g : f = HeapRoom /\ g = HeapRoom'
      OBVIOUS
    <3>2. f = [b \in Bytes |-> f[b]] /\ g = [b \in Bytes |-> g[b]]
      BY <3>1 DEF HeapRoom
    <3>3. (\A b \in Bytes : b # x => g[b] = f[b]) /\ g[x] = NULL
      BY <2>3, <2>4, <3>1
    <3>4. g = [f EXCEPT ![x] = NULL]
      BY <3>2, <3>3
    <3> QED BY <3>1, <3>4
  <2>6. Objects!Free(HeapRoom, HeapRoom')
    BY <2>4, <2>5 DEF Objects!Free, Objects!Bytes, Bytes
  <2> QED BY <2>6 DEF Objects!HeapNext, HeapRoom, Rec
<1> QED BY <1>2, <1>3, <1>4, StepObjects

\* Objects never overlap, are as long as was asked for and aligned, whatever serves the
\* request (kmalloc, kfree): unless a size is within a page of the largest number.
THEOREM ImplementsHeap ==
  NoWrap /\ NULL \notin [size : Nat, length : Int] => (Spec => HeapSpec)
<1> SUFFICES ASSUME NoWrap, NULL \notin [size : Nat, length : Int]
             PROVE  Spec => HeapSpec
  OBVIOUS
<1>1. Init => Objects!HeapInit
  BY DEF Init, Objects!HeapInit, Objects!Bytes, Bytes
<1>2. Inv /\ Inv' /\ RoomsRight' /\ [Next]_vars => [Objects!HeapNext]_HeapRoom
  BY HeapStep
<1>3. Inv => RoomsRight
  BY RoomsFollow
<1>4. Spec => Objects!HeapInit /\ [][Objects!HeapNext]_HeapRoom
  BY <1>1, <1>2, <1>3, AlwaysInv, PTL DEF Spec
<1> QED BY <1>4, PTL DEF HeapSpec, Objects!HeapSpec, HeapRoom, Rec


-----------------------------------------------------------------------------
\* Rooms are no larger than they need be.
SnugOf(size, n) ==
  \/ n = order_to_size(SLAB_MIN_ORDER)
  \/ n < Page /\ n < 2 * size
  \/ n = Page /\ ~ FitsSlot(size)
  \/ n > Page /\ n < 2 * size

SnugRooms == \A a \in InUse : SnugOf(live[a], Room(a))

LEMMA OrderBelow ==
  ASSUME NEW M, Doubles(M), NEW x \in Nat, NEW o \in 1 .. M + 1, o = size_to_order(x)
  PROVE  2^(o - 1) \in Nat \ {0} /\ 2^(o - 1) < x /\ 2^o = 2 * 2^(o - 1)
<1>1. M \in Nat /\ o - 1 \in 0 .. M /\ (o - 1) + 1 = o
  BY DEF Doubles
<1>2. 2^(o - 1) \in Nat \ {0} /\ 2^((o - 1) + 1) = 2 * 2^(o - 1)
  BY <1>1 DEF Doubles
<1>3. ~ x <= 2^(o - 1)
  <2>1. x <= 2^(o - 1) => o <= o - 1
    BY <1>1, OrderIs
  <2> QED BY <1>1, <2>1
<1>4. 2^o = 2 * 2^(o - 1)
  BY <1>1, <1>2
<1> QED BY <1>2, <1>3, <1>4

LEMMA ServedSnugly ==
  ASSUME NEW size \in Nat, NEW n, Served(size, n)
  PROVE  SnugOf(size, n)
<1>1. CASE size \in Sizes /\ FitsSlot(size) /\ n = order_to_size(SlotOrder(size))
  <2>1. PICK o : o = size_to_order(size)
    OBVIOUS
  <2>2. SlotOrder(size) \in SlabOrders
    BY <1>1, OrderInRange
  <2>3. CASE SlotOrder(size) = SLAB_MIN_ORDER
    BY <1>1, <2>3 DEF SnugOf
  <2>4. CASE SlotOrder(size) # SLAB_MIN_ORDER
    <3>1. SlotOrder(size) = o
      BY <2>1, <2>4 DEF SlotOrder
    <3>2. o \in 1 .. SLAB_MAX_ORDER + 1
      BY <2>2, <2>4, <3>1, SlabAssumption DEF SlabOrders
    <3>3. PICK k \in Nat \ {0} : k < size /\ 2^o = 2 * k
      BY <2>1, <3>2, DoublesSlots, OrderBelow
    <3>4. n = 2 * k
      BY <1>1, <3>1, <3>3 DEF order_to_size
    <3>5. n < Page
      BY <1>1, <2>2, SlotFacts
    <3> QED BY <3>3, <3>4, <3>5 DEF SnugOf
  <2> QED BY <2>3, <2>4
<1>2. CASE size \in Sizes /\ ~ FitsSlot(size)
            /\ PageOrder(size) \in Orders /\ n = page_to_virt(2^PageOrder(size))
  <2>1. CASE PageOrder(size) = 0
    <3>1. n = 1 * Page
      BY <1>2, <2>1, PowerZero DEF page_to_virt, Page
    <3> QED BY <1>2, <3>1, PageFacts DEF SnugOf
  <2>2. CASE PageOrder(size) # 0
    <3>1. PICK x \in Nat : x = size + Page - 1
      BY PageFacts
    <3>2. PICK y \in Nat : y = x % WORD /\ y <= x
      <4>1. WORD \in Nat \ {0}
        <5>1. EndPage * Page \in Nat
          BY PageFacts, PoolAssumption DEF EndPage
        <5> QED BY <5>1, WordAssumption DEF Page, page_to_virt
      <4>2. \A w \in Nat \ {0} : x % w \in Nat /\ x % w <= x
        OBVIOUS
      <4> QED BY <4>1, <4>2
    <3>3. PICK m \in Int : m = y \div Page /\ m * Page <= y /\ y < m * Page + Page
      <4>1. y \in Int /\ Page \in Nat \ {0}
        BY PageFacts
      <4>2. y \div Page \in Int /\ (y \div Page) * Page <= y /\ y < (y \div Page) * Page + Page
        BY <4>1, Divided, Zenon
      <4> QED BY <4>2, Zenon
    <3>4. m \in Nat
      <4>1. \A u \in Nat, s \in Nat \ {0} : u \div s \in Nat
        OBVIOUS
      <4> QED BY <3>3, <4>1, PageFacts
    <3>5. PICK o \in Orders : o = PageOrder(size) /\ o = size_to_order(m)
      <4>1. PageOrder(size) = size_to_page_order(size)
        BY <2>2 DEF PageOrder
      <4>2. size_to_page_order(size) = size_to_order((x % WORD) \div Page)
        BY <3>1 DEF size_to_page_order, Page
      <4> QED BY <1>2, <3>2, <3>3, <4>1, <4>2
    <3>6. PICK k \in Nat \ {0} : k < m /\ 2^o = 2 * k
      <4>1. o \in 1 .. (BUDDY_MAX_ORDER - 1) + 1
        BY <2>2, <3>5, PoolAssumption DEF Orders
      <4> QED BY <3>4, <3>5, <4>1, DoublesOrders, OrderBelow
    <3>7. (k + 1) * Page <= m * Page /\ (k + 1) * Page = k * Page + Page
          /\ 1 * Page <= k * Page /\ k * Page \in Int /\ m * Page \in Int
      <4>1. k + 1 <= m /\ Page \in Nat
        BY <3>4, <3>6, PageFacts
      <4> QED BY <3>4, <3>6, <4>1, MulLe
    <3>8. k * Page < size
      BY <3>1, <3>2, <3>3, <3>7, PageFacts
    <3>9. n = 2 * (k * Page)
      <4>1. n = (2 * k) * Page
        BY <1>2, <3>5, <3>6 DEF page_to_virt, Page
      <4> QED BY <4>1, PageFacts
    <3>10. n > Page /\ n < 2 * size
      <4>1. Page \in Nat \ {0} /\ 1 * Page = Page
        BY PageFacts
      <4>2. PICK e \in Int : e = k * Page
        BY <3>7
      <4> QED BY <3>7, <3>8, <3>9, <4>1, <4>2
    <3> QED BY <3>10 DEF SnugOf
  <2> QED BY <2>1, <2>2
<1>3. ASSUME NEW o \in Orders, size = page_to_virt(2^o), n = size PROVE SnugOf(size, n)
  <2>1. PICK k \in Nat \ {0} : k = 2^o
    BY OrderPower
  <2>2. n = k * Page /\ Page \in Nat \ {0}
    BY <1>3, <2>1, PageFacts DEF page_to_virt, Page
  <2>3. n >= Page
    <3>1. 1 * Page <= k * Page
      BY <2>2, MulLe
    <3> QED BY <2>2, <3>1
  <2>4. ~ FitsSlot(Page)
    <3>1. SLAB_MAX_ORDER \in SlabOrders
      BY SlabAssumption DEF SlabOrders
    <3>2. order_to_size(SLAB_MAX_ORDER) < Page /\ order_to_size(SLAB_MAX_ORDER) \in Nat
      BY <3>1, SlotFacts
    <3> QED BY <2>2, <3>2 DEF FitsSlot
  <2> QED BY <1>3, <2>2, <2>3, <2>4 DEF SnugOf
<1> QED BY <1>1, <1>2, <1>3 DEF Served

\* A request gets the smallest slot, or the smallest chunk, that holds it: no object has
\* twice the room it needs, except in the smallest slots and in single pages.
THEOREM AlwaysSnug == Spec => []Snug
<1>1. Init => SnugRooms
  BY DEF Init, SnugRooms, InUse
<1>2. Inv /\ SnugRooms /\ [Next]_vars => SnugRooms'
  <2> SUFFICES ASSUME Inv, SnugRooms, [Next]_vars PROVE SnugRooms'
    OBVIOUS
  <2>1. live \in [Bytes -> Nat \cup {NULL}]
    BY DEF Inv, TypeOK
  <2>2. \A x, b : Kept(x) /\ b \in InUse /\ b # x /\ live'[b] = live[b] =>
                   SnugOf(live'[b], Room(b)')
    BY DEF Kept, SnugRooms
  <2>3. CASE Added
    <3>1. PICK x \in Bytes, size \in Nat, n \in Int :
            /\ live[x] = NULL /\ live' = [live EXCEPT ![x] = size]
            /\ Served(size, n) /\ Room(x)' = n /\ Kept(x)
      BY <2>3 DEF Added
    <3>2. SnugOf(live'[x], Room(x)')
      <4>1. SnugOf(size, n) /\ live'[x] = size
        BY <2>1, <3>1, ServedSnugly
      <4> QED BY <3>1, <4>1
    <3>3. ASSUME NEW b \in InUse', b # x PROVE SnugOf(live'[b], Room(b)')
      <4>1. b \in InUse /\ live'[b] = live[b]
        BY <2>1, <3>1, <3>3 DEF InUse
      <4> QED BY <2>2, <3>1, <3>3, <4>1
    <3>4. \A b \in InUse' : SnugOf(live'[b], Room(b)')
      BY <3>2, <3>3
    <3> QED BY <3>4 DEF SnugRooms, SnugOf
  <2>4. CASE Gone
    <3>1. PICK x \in Bytes :
            live[x] # NULL /\ live' = [live EXCEPT ![x] = NULL] /\ Kept(x)
      BY <2>4 DEF Gone
    <3>2. ASSUME NEW b \in InUse' PROVE SnugOf(live'[b], Room(b)')
      <4>1. b \in InUse /\ b # x /\ live'[b] = live[b]
        BY <2>1, <3>1, <3>2 DEF InUse
      <4> QED BY <2>2, <3>1, <4>1
    <3>3. \A b \in InUse' : SnugOf(live'[b], Room(b)')
      BY <3>2
    <3> QED BY <3>3 DEF SnugRooms, SnugOf
  <2>5. CASE Same
    <3>1. ASSUME NEW b \in InUse' PROVE SnugOf(live'[b], Room(b)')
      <4>1. b \in InUse /\ live'[b] = live[b]
        BY <2>5, <3>1 DEF InUse, Same
      <4>2. b # NULL
        BY <4>1, RoomAt
      <4> QED BY <2>2, <2>5, <4>1, <4>2 DEF Same
    <3>2. \A b \in InUse' : SnugOf(live'[b], Room(b)')
      BY <3>1
    <3> QED BY <3>2 DEF SnugRooms, SnugOf
  <2> QED BY <2>3, <2>4, <2>5, StepObjects
<1>3. Inv /\ SnugRooms => Snug
  <2> SUFFICES ASSUME Inv, SnugRooms, NEW a \in InUse
               PROVE  \/ Room(a) = order_to_size(SLAB_MIN_ORDER)
                      \/ IsSmall(a) /\ Room(a) < 2 * live[a]
                      \/ Room(a) = BUDDY_PAGE_SIZE /\ ~ FitsSlot(live[a])
                      \/ Room(a) > BUDDY_PAGE_SIZE /\ Room(a) < 2 * live[a]
    BY DEF Snug
  <2>1. SnugOf(live[a], Room(a))
    BY DEF SnugRooms
  <2>2. ~ IsSmall(a) => Room(a) >= Page /\ Room(a) \in Int
    <3>1. SUFFICES ASSUME ~ IsSmall(a) PROVE Room(a) >= Page /\ Room(a) \in Int
      OBVIOUS
    <3>2. Home(a) \in Pages /\ owned[Home(a)] # NULL
          /\ Room(a) = page_to_virt(2^owned[Home(a)])
      BY <3>1, AtHome
    <3>3. PICK k \in Nat \ {0} : k = 2^owned[Home(a)]
      BY <3>2, ChunkRange
    <3>4. 1 * Page <= k * Page /\ Page \in Nat /\ k * Page \in Int
      BY PageFacts, MulLe
    <3>5. Room(a) = k * Page
      BY <3>2, <3>3 DEF page_to_virt, Page
    <3> QED BY <3>4, <3>5
  <2>3. ~ IsSmall(a) => ~ Room(a) < Page
    BY <2>2, PageFacts
  <2> QED BY <2>1, <2>3 DEF SnugOf, Page
<1> QED BY <1>1, <1>2, <1>3, AlwaysInv, PTL DEF Spec

-----------------------------------------------------------------------------
\* Counting the memory: a piece is a byte of a slot, of a header or of a large
\* object, named by where the block it belongs to starts.
Pieces(a, n) == {a} \X (0 .. n - 1)

SlotSize(s) == order_to_size(header[s].order)

UsedPieces == [a \in InUse |-> Pieces(a, Room(a))]
HeaderPieces == [s \in AllSlabs |-> Pieces(page_to_virt(s), SlotSize(s))]
FreePieces(s) == [a \in FreeSlots(s) |-> Pieces(a, SlotSize(s))]
FreeOfSlab(o) == [s \in SlabsOf(o) |-> UnionOf(FreePieces(s), FreeSlots(s))]
FreeOfOrder == [o \in SlabOrders |-> UnionOf(FreeOfSlab(o), SlabsOf(o))]

AllPieces ==
  (UnionOf(UsedPieces, InUse) \cup UnionOf(HeaderPieces, AllSlabs))
    \cup UnionOf(FreeOfOrder, SlabOrders)

\* The pieces of one chunk in use: the blocks of a slab, its header among them, or
\* one large object.
BlocksOf(s) == 0 .. Count(header[s].order) - 1
Blocks(s) ==
  [i \in BlocksOf(s) |-> Pieces(Slot(s, header[s].order, i), SlotSize(s))]

ChunksInUse == {c \in Pages : owned[c] # NULL}

ChunkPieces ==
  [c \in ChunksInUse |-> IF IsSlab(c) THEN UnionOf(Blocks(c), BlocksOf(c))
                     ELSE Pieces(page_to_virt(c), page_to_virt(2^owned[c]))]

LEMMA PieceCount ==
  ASSUME NEW a, NEW n \in Nat
  PROVE  IsFiniteSet(Pieces(a, n)) /\ Cardinality(Pieces(a, n)) = n
<1>1. IsFiniteSet({a}) /\ Cardinality({a}) = 1
  BY FS_Singleton
<1>2. IsFiniteSet(0 .. n - 1) /\ Cardinality(0 .. n - 1) = n
  BY CountTo
<1>3. /\ IsFiniteSet({a} \X (0 .. n - 1))
      /\ Cardinality({a} \X (0 .. n - 1)) = Cardinality({a}) * Cardinality(0 .. n - 1)
  BY <1>1, <1>2, FS_Product
<1> QED BY <1>1, <1>2, <1>3 DEF Pieces

LEMMA PieceStart ==
  ASSUME NEW a, NEW n, NEW x \in Pieces(a, n)
  PROVE  x[1] = a
  BY DEF Pieces

LEMMA SetsFinite ==
  ASSUME Inv
  PROVE  /\ IsFiniteSet(SlabOrders) /\ IsFiniteSet(InUse) /\ IsFiniteSet(AllSlabs)
         /\ \A o \in SlabOrders : IsFiniteSet(SlabsOf(o))
         /\ \A s \in AllSlabs : IsFiniteSet(FreeSlots(s))
         /\ IsFiniteSet(ChunksInUse)
<1>1. IsFiniteSet(SlabOrders)
  <2>1. SLAB_MIN_ORDER \in Int /\ SLAB_MAX_ORDER \in Int
    BY SlabAssumption
  <2> QED BY <2>1, FS_Interval DEF SlabOrders
<1>2. IsFiniteSet(Bytes) /\ \A a \in InUse : a \in Bytes
  <2>1. page_to_virt(StartPage) \in Int /\ page_to_virt(EndPage) - 1 \in Int
    BY PoolAssumption, PageFacts DEF page_to_virt, EndPage, Page
  <2> QED BY <2>1, FS_Interval DEF Bytes, InUse
<1>3. AllSlabs \subseteq Pages /\ ChunksInUse \subseteq Pages
      /\ \A o \in SlabOrders : SlabsOf(o) \subseteq Pages
  BY SlabsListed, SlabFacts DEF SlabSet, ChunksInUse
<1>4. ASSUME NEW s \in AllSlabs PROVE IsFiniteSet(FreeSlots(s))
  <2>1. IsSlab(s)
    BY SlabsListed
  <2>2. FreeSlots(s) \subseteq Bytes
    BY <2>1, SlabFacts DEF FreeSlots
  <2> QED BY <1>2, <2>2, FS_Subset
<1>5. InUse \subseteq Bytes
  BY <1>2
<1> QED BY <1>1, <1>2, <1>3, <1>4, <1>5, PagesFinite, FS_Subset

\* What get_free_mem_size_from_slab counts in one slab.
LEMMA FreeBytesRight ==
  ASSUME Inv, NEW s, IsSlab(s)
  PROVE  /\ Cardinality(FreeSlots(s)) \in Nat
         /\ FreeBytes(s, header[s].order) = Cardinality(FreeSlots(s)) * SlotSize(s)
<1> DEFINE o == header[s].order
           w == SlotWalk(s)
           N == {n \in 0 .. SLAB_INIT_SIZE : w[n] # NULL}
<1>1. PICK c : Listed(next_free, header[s].free_list_head, c, FreeSlots(s))
  BY DEF Inv, SlotLists, IsSlab
<1>2. Cardinality(FreeSlots(s)) = c /\ c \in Nat
  <2>1. Cardinality(FreeSlots(s)) = c
    BY <1>1, ListedCount
  <2>2. c \in Nat
    BY <1>1 DEF Listed
  <2> QED BY <2>1, <2>2
<1>3. o \in SlabOrders /\ s \in Pages /\ Fits(s, SlabPageOrder)
  BY SlabFacts
<1>4. PICK K \in Nat : K = Count(o) /\ K >= 2 /\ K * SlotSize(s) <= SLAB_INIT_SIZE
                       /\ SlotSize(s) \in Nat \ {0}
  BY <1>3, SlotFacts DEF SlotSize
<1>5. K <= SLAB_INIT_SIZE
  <2>1. PICK z \in Nat \ {0} : z = SlotSize(s)
    BY <1>4
  <2>2. K * 1 <= K * z
    BY <2>1
  <2> QED BY <1>4, <2>1, <2>2, PageFacts
<1>6. c <= K - 1
  <2>1. next_free \in [Bytes -> Bytes \cup {NULL, User}]
    BY DEF Inv, TypeOK
  <2>2. Listed(LinkSlots(s, o), FirstSlot(s, o), Count(o) - 1, Slots(s, o))
    BY <1>3, <2>1, LinkedList
  <2>3. IsFiniteSet(Slots(s, o)) /\ Cardinality(Slots(s, o)) = K - 1
    BY <1>4, <2>2, ListedCount
  <2>4. FreeSlots(s) \in SUBSET Slots(s, o)
    BY DEF FreeSlots
  <2> QED BY <1>2, <2>3, <2>4, FS_Subset
<1>7. /\ w[c] = NULL /\ NULL \notin FreeSlots(s)
      /\ \A n \in 0 .. c - 1 : w[n] \in FreeSlots(s)
      /\ \A n \in Nat : n >= c => w[n] = NULL
  <2>1. NULL \notin DOMAIN next_free
    BY PageByte, PageFacts DEF Inv, TypeOK
  <2>2. \A n \in Nat : n >= c => w[n] = NULL
    BY <1>1, <2>1, ListedEnd DEF SlotWalk
  <2>3. /\ w[c] = NULL /\ NULL \notin FreeSlots(s)
        /\ \A n \in 0 .. c - 1 : w[n] \in FreeSlots(s)
    BY <1>1 DEF Listed, SlotWalk
  <2> QED BY <2>2, <2>3
<1> HIDE DEF w
<1>8. N = 0 .. c - 1
  BY <1>2, <1>4, <1>5, <1>6, <1>7, PageFacts
<1>9. Cardinality(0 .. c - 1) = c
  BY <1>2, CountTo
<1>10. FreeBytes(s, o) = SlotSize(s) * Cardinality(N)
  BY DEF FreeBytes, SlotSize, N, w
<1>11. SlotSize(s) * c = c * SlotSize(s)
  <2>1. PICK z \in Nat \ {0} : z = SlotSize(s)
    BY <1>4
  <2> QED BY <1>2, <2>1
<1> HIDE DEF N
<1> QED BY <1>2, <1>8, <1>9, <1>10, <1>11

\* Where the pieces of the free slots start.
LEMMA FreeStarts ==
  ASSUME Inv
  PROVE  /\ \A s \in AllSlabs : \A x \in UnionOf(FreePieces(s), FreeSlots(s)) :
              x[1] \in FreeSlots(s)
         /\ \A o \in SlabOrders : \A x \in UnionOf(FreeOfSlab(o), SlabsOf(o)) :
              \E s \in SlabsOf(o) : x[1] \in FreeSlots(s)
         /\ \A x \in UnionOf(FreeOfOrder, SlabOrders) :
              \E s \in AllSlabs : x[1] \in FreeSlots(s)
<1>1. ASSUME NEW s \in AllSlabs, NEW x \in UnionOf(FreePieces(s), FreeSlots(s))
      PROVE  x[1] \in FreeSlots(s)
  <2>1. PICK a \in FreeSlots(s) : x \in Pieces(a, SlotSize(s))
    BY DEF UnionOf, FreePieces
  <2> QED BY <2>1, PieceStart
<1>2. ASSUME NEW o \in SlabOrders, NEW x \in UnionOf(FreeOfSlab(o), SlabsOf(o))
      PROVE  \E s \in SlabsOf(o) : x[1] \in FreeSlots(s)
  <2>1. PICK s \in SlabsOf(o) : x \in UnionOf(FreePieces(s), FreeSlots(s))
    <3>1. PICK s \in SlabsOf(o) : x \in FreeOfSlab(o)[s]
      BY DEF UnionOf
    <3> QED BY <3>1 DEF FreeOfSlab
  <2>2. s \in AllSlabs
    BY <2>1 DEF AllSlabs
  <2> QED BY <1>1, <2>1, <2>2
<1>3. ASSUME NEW x \in UnionOf(FreeOfOrder, SlabOrders)
      PROVE  \E s \in AllSlabs : x[1] \in FreeSlots(s)
  <2>1. PICK o \in SlabOrders : x \in UnionOf(FreeOfSlab(o), SlabsOf(o))
    <3>1. PICK o \in SlabOrders : x \in FreeOfOrder[o]
      BY DEF UnionOf
    <3> QED BY <3>1 DEF FreeOfOrder
  <2>2. PICK s \in SlabsOf(o) : x[1] \in FreeSlots(s)
    BY <1>2, <2>1
  <2> QED BY <2>2 DEF AllSlabs
<1> QED BY <1>1, <1>2, <1>3

LEMMA FreeSumOfSlab ==
  ASSUME Inv, NEW s, IsSlab(s)
  PROVE  /\ IsFiniteSet(UnionOf(FreePieces(s), FreeSlots(s)))
         /\ Cardinality(UnionOf(FreePieces(s), FreeSlots(s)))
              = FreeBytes(s, header[s].order)
<1> DEFINE E == FreePieces(s)
           S == FreeSlots(s)
           k == SlotSize(s)
<1>1. k \in Nat
  BY SlabFacts, SlotFacts DEF SlotSize
<1>2. IsFiniteSet(S)
  BY SetsFinite, SlabsListed
<1>3. \A x \in S : IsFiniteSet(E[x]) /\ Cardinality(E[x]) = k
  BY <1>1, PieceCount DEF FreePieces
<1>4. \A x, y \in S : x # y => E[x] \cap E[y] = {}
  BY DEF FreePieces, Pieces
<1> HIDE DEF E, S, k
<1>5. IsFiniteSet(UnionOf(E, S)) /\ Cardinality(UnionOf(E, S)) = Cardinality(S) * k
  BY <1>1, <1>2, <1>3, <1>4, EqualParts
<1> QED BY <1>5, FreeBytesRight DEF E, S, k

LEMMA FreeSumOfOrder ==
  ASSUME Inv, NEW o \in SlabOrders
  PROVE  /\ IsFiniteSet(UnionOf(FreeOfSlab(o), SlabsOf(o)))
         /\ SumFunction([s \in SlabsOf(o) |-> FreeBytes(s, o)])
              = Cardinality(UnionOf(FreeOfSlab(o), SlabsOf(o)))
<1> DEFINE f == [s \in SlabsOf(o) |-> FreeBytes(s, o)]
           E == FreeOfSlab(o)
           S == SlabsOf(o)
<1>1. \A s \in S : IsSlab(s) /\ s \in AllSlabs /\ header[s].order = o
  BY SlabsListed DEF SlabSet, AllSlabs
<1>2. IsFiniteSet(S) /\ S = DOMAIN f
  BY SetsFinite
<1>3. ASSUME NEW s \in S PROVE IsFiniteSet(E[s]) /\ f[s] = Cardinality(E[s])
  <2>1. E[s] = UnionOf(FreePieces(s), FreeSlots(s)) /\ f[s] = FreeBytes(s, header[s].order)
    BY <1>1 DEF FreeOfSlab
  <2> QED BY <1>1, <2>1, FreeSumOfSlab
<1>4. ASSUME NEW s \in S, NEW t \in S, s # t PROVE E[s] \cap E[t] = {}
  <2> SUFFICES ASSUME NEW x \in E[s], x \in E[t] PROVE FALSE
    OBVIOUS
  <2>1. x[1] \in FreeSlots(s) /\ x[1] \in FreeSlots(t)
    BY <1>1, FreeStarts DEF FreeOfSlab
  <2> QED BY <1>1, <1>4, <2>1, SlotsApart DEF FreeSlots
<1> HIDE DEF f, E, S
<1>5. IsFiniteSet(UnionOf(E, S)) /\ SumFunction(f) = Cardinality(UnionOf(E, S))
  BY <1>2, <1>3, <1>4, SumCounts
<1> QED BY <1>5 DEF f, E, S

LEMMA FreeSum ==
  ASSUME Inv
  PROVE  /\ IsFiniteSet(UnionOf(FreeOfOrder, SlabOrders))
         /\ get_free_mem_size_from_slab = Cardinality(UnionOf(FreeOfOrder, SlabOrders))
<1> DEFINE f == [o \in SlabOrders |-> SumFunction([s \in SlabsOf(o) |-> FreeBytes(s, o)])]
           E == FreeOfOrder
<1>1. IsFiniteSet(SlabOrders) /\ SlabOrders = DOMAIN f
  BY SetsFinite
<1>2. ASSUME NEW o \in SlabOrders PROVE IsFiniteSet(E[o]) /\ f[o] = Cardinality(E[o])
  BY FreeSumOfOrder DEF FreeOfOrder
<1>3. ASSUME NEW o \in SlabOrders, NEW u \in SlabOrders, o # u
      PROVE  E[o] \cap E[u] = {}
  <2> SUFFICES ASSUME NEW x \in E[o], x \in E[u] PROVE FALSE
    OBVIOUS
  <2>1. PICK s \in SlabsOf(o) : x[1] \in FreeSlots(s)
    BY FreeStarts DEF FreeOfOrder
  <2>2. PICK t \in SlabsOf(u) : x[1] \in FreeSlots(t)
    BY FreeStarts DEF FreeOfOrder
  <2>3. IsSlab(s) /\ IsSlab(t) /\ header[s].order = o /\ header[t].order = u
    BY SlabsListed DEF SlabSet
  <2> QED BY <1>3, <2>1, <2>2, <2>3, SlotsApart DEF FreeSlots
<1>4. get_free_mem_size_from_slab = SumFunction(f)
  BY DEF get_free_mem_size_from_slab
<1> HIDE DEF f, E
<1>5. IsFiniteSet(UnionOf(E, SlabOrders)) /\ SumFunction(f) = Cardinality(UnionOf(E, SlabOrders))
  BY <1>1, <1>2, <1>3, SumCounts
<1> QED BY <1>4, <1>5 DEF E

LEMMA UsedSum ==
  ASSUME Inv
  PROVE  /\ IsFiniteSet(UnionOf(UsedPieces, InUse))
         /\ SumFunction([a \in InUse |-> Room(a)]) = Cardinality(UnionOf(UsedPieces, InUse))
         /\ \A x \in UnionOf(UsedPieces, InUse) : x[1] \in InUse
<1> DEFINE f == [a \in InUse |-> Room(a)]
           E == UsedPieces
<1>1. IsFiniteSet(InUse) /\ InUse = DOMAIN f
  BY SetsFinite
<1>2. ASSUME NEW a \in InUse PROVE IsFiniteSet(E[a]) /\ f[a] = Cardinality(E[a])
  <2>1. Room(a) \in Nat
    BY AtHome
  <2> QED BY <2>1, PieceCount DEF UsedPieces
<1>3. \A a, b \in InUse : a # b => E[a] \cap E[b] = {}
  BY DEF UsedPieces, Pieces
<1>4. \A x \in UnionOf(E, InUse) : x[1] \in InUse
  BY PieceStart DEF UnionOf, UsedPieces
<1> HIDE DEF f, E
<1>5. IsFiniteSet(UnionOf(E, InUse)) /\ SumFunction(f) = Cardinality(UnionOf(E, InUse))
  BY <1>1, <1>2, <1>3, SumCounts
<1> QED BY <1>4, <1>5 DEF f, E

LEMMA HeaderSum ==
  ASSUME Inv
  PROVE  /\ IsFiniteSet(UnionOf(HeaderPieces, AllSlabs))
         /\ SumFunction([s \in AllSlabs |-> order_to_size(header[s].order)])
              = Cardinality(UnionOf(HeaderPieces, AllSlabs))
         /\ \A x \in UnionOf(HeaderPieces, AllSlabs) :
              \E s \in AllSlabs : x[1] = page_to_virt(s)
<1> DEFINE f == [s \in AllSlabs |-> order_to_size(header[s].order)]
           E == HeaderPieces
<1>1. IsFiniteSet(AllSlabs) /\ AllSlabs = DOMAIN f
  BY SetsFinite
<1>2. ASSUME NEW s \in AllSlabs PROVE IsFiniteSet(E[s]) /\ f[s] = Cardinality(E[s])
  <2>1. SlotSize(s) \in Nat /\ f[s] = SlotSize(s)
    BY SlabsListed, SlabFacts, SlotFacts DEF SlotSize
  <2> HIDE DEF f
  <2> QED BY <2>1, PieceCount DEF HeaderPieces
<1>3. ASSUME NEW s \in AllSlabs, NEW t \in AllSlabs, s # t PROVE E[s] \cap E[t] = {}
  <2>1. page_to_virt(s) # page_to_virt(t)
    BY <1>3, SlabsListed, SlabFacts, PageByte
  <2> QED BY <2>1 DEF HeaderPieces, Pieces
<1>4. \A x \in UnionOf(E, AllSlabs) : \E s \in AllSlabs : x[1] = page_to_virt(s)
  BY PieceStart DEF UnionOf, HeaderPieces
<1> HIDE DEF f, E
<1>5. IsFiniteSet(UnionOf(E, AllSlabs)) /\ SumFunction(f) = Cardinality(UnionOf(E, AllSlabs))
  BY <1>1, <1>2, <1>3, SumCounts
<1> QED BY <1>4, <1>5 DEF f, E

\* What the header, the slots in use and the free slots of the slabs, and the large
\* objects count is counted once.
LEMMA PiecesApart ==
  ASSUME Inv
  PROVE  /\ UnionOf(UsedPieces, InUse) \cap UnionOf(HeaderPieces, AllSlabs) = {}
         /\ UnionOf(UsedPieces, InUse) \cap UnionOf(FreeOfOrder, SlabOrders) = {}
         /\ UnionOf(HeaderPieces, AllSlabs) \cap UnionOf(FreeOfOrder, SlabOrders) = {}
<1>1. ASSUME NEW s \in AllSlabs, NEW t \in AllSlabs
      PROVE  page_to_virt(s) \notin Slots(t, header[t].order)
  <2> SUFFICES ASSUME page_to_virt(s) \in Slots(t, header[t].order) PROVE FALSE
    OBVIOUS
  <2>1. IsSlab(s) /\ IsSlab(t)
    BY SlabsListed
  <2>2. virt_to_page(page_to_virt(s)) = s /\ page_slab[s] = s
    BY <2>1, SlabFacts, PageByte
  <2>3. s = t
    BY <2>1, <2>2, SlabFacts
  <2>4. PICK i \in 1 .. Count(header[t].order) - 1 :
          page_to_virt(s) = Slot(t, header[t].order, i)
    BY <2>1, SlabFacts, SlotIs
  <2>5. page_to_virt(s) = Slot(t, header[t].order, 0)
    <3>1. order_to_size(header[t].order) \in Nat /\ page_to_virt(t) \in Int
      BY <2>1, SlabFacts, SlotFacts, PageByte
    <3> QED BY <2>3, <3>1 DEF Slot
  <2>6. i \in Int /\ i # 0 /\ 0 \in Int
    BY <2>1, SlabFacts, SlotFacts
  <2> QED BY <2>1, <2>4, <2>5, <2>6, SlabFacts, SlotIs
<1>2. \A s \in AllSlabs : page_to_virt(s) \notin InUse
  <2> SUFFICES ASSUME NEW s \in AllSlabs, page_to_virt(s) \in InUse PROVE FALSE
    OBVIOUS
  <2>1. virt_to_page(page_to_virt(s)) = s /\ page_slab[s] = s /\ s # NULL
        /\ page_to_virt(s) \in Bytes
    BY SlabsListed, SlabFacts, PageByte
  <2>2. page_to_virt(s) \in Slots(s, header[s].order)
    BY <2>1 DEF Inv, ObjectsRight, InUse
  <2> QED BY <1>1, <2>2
<1>3. \A s \in AllSlabs : FreeSlots(s) \cap InUse = {}
                          /\ FreeSlots(s) \subseteq Slots(s, header[s].order)
  BY DEF FreeSlots
<1>4. UnionOf(UsedPieces, InUse) \cap UnionOf(HeaderPieces, AllSlabs) = {}
  <2> SUFFICES ASSUME NEW x \in UnionOf(UsedPieces, InUse),
                      x \in UnionOf(HeaderPieces, AllSlabs) PROVE FALSE
    OBVIOUS
  <2>1. x[1] \in InUse
    BY UsedSum
  <2>2. PICK s \in AllSlabs : x[1] = page_to_virt(s)
    BY HeaderSum
  <2> QED BY <1>2, <2>1, <2>2
<1>5. UnionOf(UsedPieces, InUse) \cap UnionOf(FreeOfOrder, SlabOrders) = {}
  <2> SUFFICES ASSUME NEW x \in UnionOf(UsedPieces, InUse),
                      x \in UnionOf(FreeOfOrder, SlabOrders) PROVE FALSE
    OBVIOUS
  <2>1. x[1] \in InUse
    BY UsedSum
  <2>2. PICK s \in AllSlabs : x[1] \in FreeSlots(s)
    BY FreeStarts
  <2> QED BY <1>3, <2>1, <2>2
<1>6. UnionOf(HeaderPieces, AllSlabs) \cap UnionOf(FreeOfOrder, SlabOrders) = {}
  <2> SUFFICES ASSUME NEW x \in UnionOf(HeaderPieces, AllSlabs),
                      x \in UnionOf(FreeOfOrder, SlabOrders) PROVE FALSE
    OBVIOUS
  <2>1. PICK s \in AllSlabs : x[1] = page_to_virt(s)
    BY HeaderSum
  <2>2. PICK t \in AllSlabs : x[1] \in FreeSlots(t)
    BY FreeStarts
  <2> QED BY <1>1, <1>3, <2>1, <2>2
<1> QED BY <1>4, <1>5, <1>6

\* The blocks of a slab, header first, fill its chunk; so does a large object.
LEMMA ChunkPieceCount ==
  ASSUME Inv, NEW c \in ChunksInUse
  PROVE  /\ IsFiniteSet(ChunkPieces[c])
         /\ Cardinality(ChunkPieces[c]) = page_to_virt(2^owned[c])
         /\ \A x \in ChunkPieces[c] : Home(x[1]) = c
<1>0. c \in Pages /\ owned[c] # NULL /\ owned[c] \in Orders
  BY DEF ChunksInUse, Inv, TypeOK
<1>1. CASE IsSlab(c)
  <2> DEFINE o == header[c].order
             S == BlocksOf(c)
             E == Blocks(c)
  <2>1. ChunkPieces[c] = UnionOf(E, S)
    BY <1>1 DEF ChunkPieces
  <2>2. o \in SlabOrders /\ Fits(c, SlabPageOrder) /\ owned[c] = SlabPageOrder
    BY <1>1, SlabFacts
  <2>3. PICK K \in Nat, z \in Nat \ {0} : K = Count(o) /\ z = SlotSize(c) /\ K >= 2
    BY <2>2, SlotFacts DEF SlotSize
  <2>4. IsFiniteSet(S) /\ Cardinality(S) = K
    <3>1. IsFiniteSet(0 .. K - 1) /\ Cardinality(0 .. K - 1) = K
      BY <2>3, CountTo
    <3> QED BY <2>3, <3>1 DEF BlocksOf
  <2>5. \A i \in S : i \in Int /\ E[i] = Pieces(Slot(c, o, i), z)
    BY <2>3 DEF BlocksOf, Blocks
  <2>6. \A i \in S : IsFiniteSet(E[i]) /\ Cardinality(E[i]) = z
    BY <2>5, PieceCount
  <2>7. ASSUME NEW i \in S, NEW j \in S, i # j PROVE E[i] \cap E[j] = {}
    <3>1. Slot(c, o, i) # Slot(c, o, j)
      BY <1>0, <2>2, <2>5, <2>7, SlotIs
    <3> QED BY <2>5, <3>1 DEF Pieces
  <2>8. \A i \in S : Home(Slot(c, o, i)) = c
    <3> SUFFICES ASSUME NEW i \in S PROVE Home(Slot(c, o, i)) = c
      OBVIOUS
    <3>1. page_slab[virt_to_page(Slot(c, o, i))] = c
      <4>1. CASE i = 0
        <5>1. Slot(c, o, 0) = page_to_virt(c)
          BY <1>0, <2>3, PageByte DEF Slot, SlotSize
        <5> QED BY <1>0, <1>1, <4>1, <5>1, PageByte DEF IsSlab
      <4>2. CASE i # 0
        <5>1. i \in 1 .. Count(o) - 1
          BY <2>3, <4>2 DEF BlocksOf
        <5>2. Slot(c, o, i) \in Slots(c, o)
          BY <1>0, <2>2, <5>1, SlotIs
        <5> QED BY <1>1, <5>2, SlabFacts
      <4> QED BY <4>1, <4>2
    <3>2. c # NULL
      BY <1>1, SlabFacts
    <3> QED BY <3>1, <3>2 DEF Home, IsSmall
  <2>9. \A x \in UnionOf(E, S) : Home(x[1]) = c
    <3> SUFFICES ASSUME NEW x \in UnionOf(E, S) PROVE Home(x[1]) = c
      OBVIOUS
    <3>1. PICK i \in S : x \in E[i]
      BY DEF UnionOf
    <3>2. x[1] = Slot(c, o, i)
      BY <2>5, <3>1, PieceStart
    <3> QED BY <2>8, <3>2
  <2>10. K * z = SLAB_INIT_SIZE
    <3>1. PICK q \in Int : Page = q * z
      <4>1. Page \in Int /\ z \in Nat \ {0} /\ Page % z = 0
        BY <2>2, <2>3, SlotFacts, PageFacts DEF SlotSize
      <4>2. \A p \in Int, u \in Nat \ {0} : p % u = 0 => \E r \in Int : p = r * u
        BY Multiple
      <4> QED BY <4>1, <4>2, Zenon
    <3>2. PICK n \in Nat \ {0} : n = 2^SlabPageOrder /\ SLAB_INIT_SIZE = n * Page
      BY PageFacts
    <3>3. SLAB_INIT_SIZE = (n * q) * z
      <4>1. n * (q * z) = (n * q) * z
        OBVIOUS
      <4> QED BY <3>1, <3>2, <4>1
    <3>4. n * q \in Int /\ SLAB_INIT_SIZE \in Int
      BY PageFacts
    <3>5. SLAB_INIT_SIZE \div z = n * q
      <4>1. PICK m \in Int : m = n * q
        BY <3>4
      <4> QED BY <2>3, <3>3, <3>4, <4>1, Multiple
    <3> QED BY <2>3, <3>3, <3>5 DEF Count, SlotSize
  <2>11. SLAB_INIT_SIZE = page_to_virt(2^owned[c])
    BY <2>2, PageFacts DEF page_to_virt, Page
  <2> HIDE DEF E, S
  <2>12. IsFiniteSet(UnionOf(E, S)) /\ Cardinality(UnionOf(E, S)) = Cardinality(S) * z
    <3>1. z \in Nat
      BY <2>3
    <3> QED BY <2>4, <2>6, <2>7, <3>1, EqualParts
  <2> QED BY <2>1, <2>4, <2>9, <2>10, <2>11, <2>12
<1>2. CASE ~ IsSlab(c)
  <2>1. ChunkPieces[c] = Pieces(page_to_virt(c), page_to_virt(2^owned[c]))
    BY <1>2 DEF ChunkPieces
  <2>2. page_to_virt(2^owned[c]) \in Nat
    <3>1. PICK n \in Nat : n = 2^owned[c]
      BY <1>0, OrderPower
    <3> QED BY <3>1, PageFacts DEF page_to_virt, Page
  <2>3. Home(page_to_virt(c)) = c
    <3>1. page_slab[c] = NULL
      BY <1>0, <1>2, SlabOrOutside DEF IsSlab
    <3> QED BY <1>0, <3>1, PageByte DEF Home, IsSmall
  <2> QED BY <2>1, <2>2, <2>3, PieceCount, PieceStart
<1> QED BY <1>1, <1>2

\* The blocks of the chunks in use are the objects, the headers and the free slots.
LEMMA PiecesOfChunks == Inv => AllPieces = UnionOf(ChunkPieces, ChunksInUse)
<1> SUFFICES ASSUME Inv PROVE AllPieces = UnionOf(ChunkPieces, ChunksInUse)
  OBVIOUS
<1>1. ASSUME NEW c \in ChunksInUse, NEW x \in ChunkPieces[c]
      PROVE  x \in UnionOf(ChunkPieces, ChunksInUse)
  BY DEF UnionOf
<1>2. ASSUME NEW s, IsSlab(s)
      PROVE  /\ s \in ChunksInUse /\ s \in AllSlabs /\ s \in Pages
             /\ header[s].order \in SlabOrders /\ Fits(s, SlabPageOrder)
             /\ s \in SlabsOf(header[s].order)
             /\ Count(header[s].order) \in Nat /\ Count(header[s].order) >= 2
             /\ Slot(s, header[s].order, 0) = page_to_virt(s)
             /\ ChunkPieces[s] = UnionOf(Blocks(s), BlocksOf(s))
  <2>1. s \in Pages /\ owned[s] = SlabPageOrder /\ SlabPageOrder # NULL
        /\ header[s].order \in SlabOrders /\ Fits(s, SlabPageOrder)
    BY <1>2, SlabFacts, PageFacts DEF Orders
  <2>2. s \in ChunksInUse
    BY <2>1 DEF ChunksInUse
  <2>3. ChunkPieces[s] = UnionOf(Blocks(s), BlocksOf(s))
    BY <1>2, <2>2 DEF ChunkPieces
  <2>4. Slot(s, header[s].order, 0) = page_to_virt(s)
    BY <2>1, SlotFacts, PageByte DEF Slot
  <2>5. s \in SlabsOf(header[s].order)
    BY <1>2, <2>1, SlabsListed, SlabFacts
  <2> QED BY <1>2, <2>1, <2>2, <2>3, <2>4, <2>5, SlotFacts, SlabsListed
<1>3. ASSUME NEW s, IsSlab(s), NEW i \in BlocksOf(s),
             NEW x \in Pieces(Slot(s, header[s].order, i), SlotSize(s))
      PROVE  x \in UnionOf(ChunkPieces, ChunksInUse)
  <2>1. x \in UnionOf(Blocks(s), BlocksOf(s))
    BY <1>3 DEF UnionOf, Blocks
  <2> QED BY <1>1, <1>2, <1>3, <2>1
<1>4. ASSUME NEW s, IsSlab(s), NEW a \in Slots(s, header[s].order)
      PROVE  \E i \in BlocksOf(s) : a = Slot(s, header[s].order, i)
  <2>1. PICK i \in 1 .. Count(header[s].order) - 1 : a = Slot(s, header[s].order, i)
    BY <1>2, <1>4, SlotIs
  <2>2. i \in BlocksOf(s)
    BY <1>2, <1>4 DEF BlocksOf
  <2> QED BY <2>1, <2>2
<1>5. ASSUME NEW x \in UnionOf(UsedPieces, InUse)
      PROVE  x \in UnionOf(ChunkPieces, ChunksInUse)
  <2>1. PICK a \in InUse : x \in Pieces(a, Room(a))
    <3>1. PICK a \in InUse : x \in UsedPieces[a]
      BY DEF UnionOf
    <3> QED BY <3>1 DEF UsedPieces
  <2>2. CASE IsSmall(a)
    <3>1. PICK s : s = Home(a) /\ IsSlab(s) /\ a \in Slots(s, header[s].order)
                   /\ Room(a) = SlotSize(s)
      BY <2>2, AtHome DEF SlotSize
    <3>2. PICK i \in BlocksOf(s) : a = Slot(s, header[s].order, i)
      BY <1>4, <3>1
    <3> QED BY <1>3, <2>1, <3>1, <3>2
  <2>3. CASE ~ IsSmall(a)
    <3>1. PICK c \in Pages : c = Home(a) /\ owned[c] # NULL /\ page_slab[c] = NULL
                   /\ a = page_to_virt(c) /\ Room(a) = page_to_virt(2^owned[c])
      BY <2>3, AtHome
    <3>2. ~ IsSlab(c) /\ c \in ChunksInUse
      BY <3>1, SlabFacts DEF ChunksInUse
    <3>3. x \in ChunkPieces[c]
      BY <2>1, <3>1, <3>2 DEF ChunkPieces
    <3> QED BY <1>1, <3>2, <3>3
  <2> QED BY <2>2, <2>3
<1>6. ASSUME NEW x \in UnionOf(HeaderPieces, AllSlabs)
      PROVE  x \in UnionOf(ChunkPieces, ChunksInUse)
  <2>1. PICK s \in AllSlabs : x \in Pieces(page_to_virt(s), SlotSize(s))
    <3>1. PICK s \in AllSlabs : x \in HeaderPieces[s]
      BY DEF UnionOf
    <3> QED BY <3>1 DEF HeaderPieces
  <2>2. IsSlab(s)
    BY SlabsListed
  <2>3. 0 \in BlocksOf(s) /\ page_to_virt(s) = Slot(s, header[s].order, 0)
    BY <1>2, <2>2 DEF BlocksOf
  <2> QED BY <1>3, <2>1, <2>2, <2>3
<1>7. ASSUME NEW x \in UnionOf(FreeOfOrder, SlabOrders)
      PROVE  x \in UnionOf(ChunkPieces, ChunksInUse)
  <2>1. PICK o \in SlabOrders : x \in UnionOf(FreeOfSlab(o), SlabsOf(o))
    <3>1. PICK o \in SlabOrders : x \in FreeOfOrder[o]
      BY DEF UnionOf
    <3> QED BY <3>1 DEF FreeOfOrder
  <2>2. PICK s \in SlabsOf(o) : x \in UnionOf(FreePieces(s), FreeSlots(s))
    <3>1. PICK s \in SlabsOf(o) : x \in FreeOfSlab(o)[s]
      BY <2>1 DEF UnionOf
    <3> QED BY <3>1 DEF FreeOfSlab
  <2>3. PICK a \in FreeSlots(s) : x \in Pieces(a, SlotSize(s))
    BY <2>2 DEF UnionOf, FreePieces
  <2>4. IsSlab(s)
    BY SlabsListed DEF SlabSet
  <2>5. PICK i \in BlocksOf(s) : a = Slot(s, header[s].order, i)
    BY <1>4, <2>4 DEF FreeSlots
  <2> QED BY <1>3, <2>3, <2>4, <2>5
<1>8. ASSUME NEW x \in UnionOf(ChunkPieces, ChunksInUse) PROVE x \in AllPieces
  <2>1. PICK c \in ChunksInUse : x \in ChunkPieces[c]
    BY DEF UnionOf
  <2>2. CASE IsSlab(c)
    <3>1. PICK i \in BlocksOf(c) : x \in Pieces(Slot(c, header[c].order, i), SlotSize(c))
      <4>1. x \in UnionOf(Blocks(c), BlocksOf(c))
        BY <1>2, <2>1, <2>2
      <4>2. PICK i \in BlocksOf(c) : x \in Blocks(c)[i]
        BY <4>1 DEF UnionOf
      <4> QED BY <4>2 DEF Blocks
    <3>2. CASE i = 0
      <4>1. x \in HeaderPieces[c] /\ c \in AllSlabs
        BY <1>2, <2>2, <3>1, <3>2 DEF HeaderPieces
      <4> QED BY <4>1 DEF AllPieces, UnionOf
    <3>3. CASE i # 0
      <4> DEFINE a == Slot(c, header[c].order, i)
      <4>1. a \in Slots(c, header[c].order)
        <5>1. i \in 1 .. Count(header[c].order) - 1
          BY <1>2, <2>2, <3>3 DEF BlocksOf
        <5> QED BY <1>2, <2>2, <5>1, SlotIs
      <4>2. CASE a \in InUse
        <5>1. page_slab[virt_to_page(a)] = c /\ c # NULL
          BY <2>2, <4>1, SlabFacts
        <5>2. Room(a) = SlotSize(c)
          BY <5>1 DEF Room, IsSmall, SlotSize
        <5>3. x \in UsedPieces[a]
          BY <3>1, <4>2, <5>2 DEF UsedPieces
        <5> HIDE DEF a
        <5> QED BY <4>2, <5>3 DEF AllPieces, UnionOf
      <4>3. CASE a \notin InUse
        <5>1. a \in FreeSlots(c)
          BY <4>1, <4>3 DEF FreeSlots
        <5>2. x \in FreePieces(c)[a]
          BY <3>1, <5>1 DEF FreePieces
        <5> HIDE DEF a
        <5>3. x \in UnionOf(FreePieces(c), FreeSlots(c))
          BY <5>1, <5>2 DEF UnionOf
        <5>4. PICK o \in SlabOrders : o = header[c].order /\ c \in SlabsOf(o)
          BY <1>2, <2>2
        <5>5. x \in FreeOfSlab(o)[c]
          BY <5>3, <5>4 DEF FreeOfSlab
        <5>6. x \in FreeOfOrder[o]
          BY <5>4, <5>5 DEF FreeOfOrder, UnionOf
        <5> QED BY <5>6 DEF AllPieces, UnionOf
      <4> QED BY <4>2, <4>3
    <3> QED BY <3>2, <3>3
  <2>3. CASE ~ IsSlab(c)
    <3>1. c \in Pages /\ owned[c] # NULL
      BY DEF ChunksInUse
    <3>2. page_slab[c] = NULL
      BY <2>3, <3>1, SlabOrOutside DEF IsSlab
    <3>3. page_to_virt(c) \in InUse /\ virt_to_page(page_to_virt(c)) = c
      BY <2>3, <3>1, PageByte DEF Inv, ChunksUsed, InUse
    <3>4. Room(page_to_virt(c)) = page_to_virt(2^owned[c])
      BY <3>2, <3>3 DEF Room, IsSmall
    <3>5. x \in UsedPieces[page_to_virt(c)]
      BY <2>1, <2>3, <3>3, <3>4 DEF ChunkPieces, UsedPieces
    <3> QED BY <3>3, <3>5 DEF AllPieces, UnionOf
  <2> QED BY <2>2, <2>3
<1> QED BY <1>5, <1>6, <1>7, <1>8 DEF AllPieces

\* The chunks in use hold as many bytes as the pages in use.
PageBytes ==
  [c \in ChunksInUse |-> Extent(c, owned[c]) \X (0 .. Page - 1)]

LEMMA PageByteCount ==
  ASSUME Inv
  PROVE  /\ IsFiniteSet(AllPieces) /\ IsFiniteSet(UnusedPages)
         /\ Cardinality(AllPieces) = (NPages - Cardinality(UnusedPages)) * Page
         /\ Cardinality(UnusedPages) \in 0 .. NPages
<1> DEFINE h == [c \in ChunksInUse |-> page_to_virt(2^owned[c])]
           U == Pages \ UnusedPages
<1>1. IsFiniteSet(ChunksInUse) /\ ChunksInUse = DOMAIN h
  BY SetsFinite
<1>2. /\ IsFiniteSet(UnionOf(ChunkPieces, ChunksInUse))
      /\ SumFunction(h) = Cardinality(UnionOf(ChunkPieces, ChunksInUse))
  <2>1. \A c \in ChunksInUse : IsFiniteSet(ChunkPieces[c]) /\ h[c] = Cardinality(ChunkPieces[c])
    BY ChunkPieceCount
  <2>2. ASSUME NEW c \in ChunksInUse, NEW d \in ChunksInUse, c # d
        PROVE  ChunkPieces[c] \cap ChunkPieces[d] = {}
    BY <2>2, ChunkPieceCount
  <2> HIDE DEF h
  <2> QED BY <1>1, <2>1, <2>2, SumCounts
<1>3. IsFiniteSet(0 .. Page - 1) /\ Cardinality(0 .. Page - 1) = Page
  BY PageFacts, CountTo
<1>4. ASSUME NEW c \in ChunksInUse
      PROVE  IsFiniteSet(PageBytes[c]) /\ h[c] = Cardinality(PageBytes[c])
  <2>1. c \in Pages /\ owned[c] # NULL
    BY DEF ChunksInUse
  <2>2. PICK n \in Nat \ {0} : n = 2^owned[c]
    BY <2>1, ChunkRange
  <2>3. c \in Int
    BY <2>1, ChunkRange
  <2>4. IsFiniteSet(Extent(c, owned[c])) /\ Cardinality(Extent(c, owned[c])) = n
    <3>1. owned[c] \in Orders
      BY <2>1, ChunkRange
    <3> QED BY <2>2, <2>3, <3>1, ExtentSize
  <2>5. /\ IsFiniteSet(Extent(c, owned[c]) \X (0 .. Page - 1))
        /\ Cardinality(Extent(c, owned[c]) \X (0 .. Page - 1)) = n * Page
    BY <1>3, <2>4, FS_Product
  <2> QED BY <2>2, <2>5 DEF PageBytes, page_to_virt, Page
<1>5. /\ IsFiniteSet(UnionOf(PageBytes, ChunksInUse))
      /\ SumFunction(h) = Cardinality(UnionOf(PageBytes, ChunksInUse))
  <2>1. ASSUME NEW c \in ChunksInUse, NEW d \in ChunksInUse, c # d
        PROVE  PageBytes[c] \cap PageBytes[d] = {}
    <3>1. Extent(c, owned[c]) \cap Extent(d, owned[d]) = {}
      BY <2>1 DEF ChunksInUse, Inv, ChunksApart
    <3> QED BY <3>1 DEF PageBytes
  <2> HIDE DEF h
  <2> QED BY <1>1, <1>4, <2>1, SumCounts
<1>6. UnionOf(PageBytes, ChunksInUse) = U \X (0 .. Page - 1)
  <2>1. \A p \in Pages : p \in U <=> \E c \in ChunksInUse : p \in Extent(c, owned[c])
    BY DEF UnusedPages, ChunksInUse
  <2>2. \A c \in ChunksInUse : Extent(c, owned[c]) \subseteq Pages
    <3> SUFFICES ASSUME NEW c \in ChunksInUse PROVE Extent(c, owned[c]) \subseteq Pages
      OBVIOUS
    <3>1. c \in Pages /\ owned[c] # NULL
      BY DEF ChunksInUse
    <3>2. owned[c] \in Orders /\ Fits(c, owned[c]) /\ c \in Int
      BY <3>1, ChunkRange DEF Inv, ChunksApart
    <3> QED BY <3>2, FitsIn
  <2>3. \A p : p \in U <=> \E c \in ChunksInUse : p \in Extent(c, owned[c])
    BY <2>1, <2>2
  <2> HIDE DEF U
  <2>4. UnionOf(PageBytes, ChunksInUse)
          = UNION {Extent(c, owned[c]) \X (0 .. Page - 1) : c \in ChunksInUse}
    BY DEF UnionOf, PageBytes
  <2> QED BY <2>3, <2>4
<1>7. IsFiniteSet(U) /\ Cardinality(U) = NPages - Cardinality(UnusedPages)
      /\ IsFiniteSet(UnusedPages) /\ Cardinality(UnusedPages) \in 0 .. NPages
  <2>1. UnusedPages \in SUBSET Pages /\ Pages \cap UnusedPages = UnusedPages
    BY DEF UnusedPages
  <2>2. IsFiniteSet(UnusedPages) /\ Cardinality(UnusedPages) <= NPages
    BY <2>1, PagesFinite, FS_Subset
  <2>3. Cardinality(UnusedPages) \in Nat
    BY <2>2, FS_CardinalityType
  <2>4. IsFiniteSet(U)
        /\ Cardinality(U) = Cardinality(Pages) - Cardinality(Pages \cap UnusedPages)
    BY PagesFinite, FS_Difference
  <2> QED BY <2>1, <2>2, <2>3, <2>4, PagesFinite, PoolAssumption
<1>8. Cardinality(U \X (0 .. Page - 1)) = Cardinality(U) * Page
  BY <1>3, <1>7, FS_Product
<1> HIDE DEF h, U
<1> QED BY <1>2, <1>5, <1>6, <1>7, <1>8, PiecesOfChunks

LEMMA Accounted == Inv => MemoryAccounted
<1> SUFFICES ASSUME Inv PROVE MemoryAccounted
  OBVIOUS
<1> DEFINE A == UnionOf(UsedPieces, InUse)
           B == UnionOf(HeaderPieces, AllSlabs)
           C == UnionOf(FreeOfOrder, SlabOrders)
           used == SumFunction([a \in InUse |-> Room(a)])
           headers == SumFunction([s \in AllSlabs |-> order_to_size(header[s].order)])
<1>1. IsFiniteSet(A) /\ IsFiniteSet(B) /\ IsFiniteSet(C)
      /\ used = Cardinality(A) /\ headers = Cardinality(B)
      /\ get_free_mem_size_from_slab = Cardinality(C)
  BY UsedSum, HeaderSum, FreeSum
<1>2. A \cap B = {} /\ (A \cup B) \cap C = {} /\ AllPieces = (A \cup B) \cup C
  BY PiecesApart DEF AllPieces
<1>3. get_free_mem_size = get_free_mem_size_from_slab + Cardinality(UnusedPages) * Page
  BY DEF get_free_mem_size, page_to_virt, Page
<1>4. MemoryAccounted <=> get_free_mem_size + used + headers = NPages * Page
  BY DEF MemoryAccounted, page_to_virt, Page
<1> HIDE DEF A, B, C, used, headers
<1>5. Cardinality(A) \in Nat /\ Cardinality(B) \in Nat /\ Cardinality(C) \in Nat
  BY <1>1, FS_CardinalityType
<1>6. IsFiniteSet(A \cup B) /\ Cardinality(A \cup B) = Cardinality(A) + Cardinality(B)
  <2>1. Cardinality(A \cap B) = 0
    BY <1>2, FS_EmptySet
  <2>2. IsFiniteSet(A \cup B) /\ Cardinality(A \cup B)
          = Cardinality(A) + Cardinality(B) - Cardinality(A \cap B)
    BY <1>1, FS_Union
  <2> QED BY <1>5, <2>1, <2>2
<1>7. Cardinality(AllPieces) = Cardinality(A) + Cardinality(B) + Cardinality(C)
  <2>1. Cardinality((A \cup B) \cap C) = 0
    BY <1>2, FS_EmptySet
  <2>2. Cardinality((A \cup B) \cup C)
          = Cardinality(A \cup B) + Cardinality(C) - Cardinality((A \cup B) \cap C)
    BY <1>1, <1>6, FS_Union
  <2> QED BY <1>2, <1>5, <1>6, <2>1, <2>2
<1>8. PICK u \in Nat : u = Cardinality(UnusedPages) /\ u <= NPages
  BY PageByteCount
<1>9. Cardinality(AllPieces) = (NPages - u) * Page
  BY <1>8, PageByteCount
<1>10. (NPages - u) * Page = NPages * Page - u * Page
       /\ NPages * Page \in Int /\ u * Page \in Int
  BY PageFacts, PoolAssumption
<1>11. PICK a \in Nat, b \in Nat, c \in Nat, v \in Int, w \in Int :
         /\ a = Cardinality(A) /\ b = Cardinality(B) /\ c = Cardinality(C)
         /\ v = u * Page /\ w = NPages * Page
  BY <1>5, <1>10
<1>12. a + b + c = w - v
  BY <1>7, <1>9, <1>10, <1>11
<1>13. get_free_mem_size + used + headers = (c + v) + a + b
  BY <1>1, <1>3, <1>8, <1>11
<1>14. (c + v) + a + b = w
  BY <1>12
<1> QED BY <1>4, <1>11, <1>13, <1>14

\* What get_free_mem_size reports, the objects in use and the headers of the slabs
\* make up the pool, to the byte, after every call: no slot, no slab and no chunk is
\* lost or counted twice (get_free_mem_size, get_free_mem_size_from_slab).
THEOREM AlwaysMemoryAccounted == Spec => []MemoryAccounted
<1>1. Inv => MemoryAccounted
  BY Accounted
<1> QED BY <1>1, AlwaysInv, PTL

=============================================================================
