---------------------------- MODULE ChunksProofs ----------------------------
(***************************************************************************)
(* The geometry of chunks, for every pool: aligned chunks are disjoint or  *)
(* nested, and a chunk and its buddy are the two halves of a chunk of the  *)
(* next order.  The exponents stay within PowerAssumption.  At the end, the  *)
(* set that a sum over a finite set counts.                                *)
(***************************************************************************)
EXTENDS Chunks, Functions, FiniteSetTheorems, WellFoundedInduction,
        NaturalsInduction, TLAPS

LEMMA PowerZero == 2^0 = 1
  OBVIOUS

LEMMA PowerNat == ASSUME NEW k \in 0 .. BUDDY_MAX_ORDER PROVE 2^k \in Nat \ {0}
  BY PowerAssumption

LEMMA OrderPower ==
  ASSUME NEW k \in Orders
  PROVE  k \in 0 .. BUDDY_MAX_ORDER /\ k < BUDDY_MAX_ORDER /\ 2^k \in Nat \ {0}
<1>1. k \in 0 .. BUDDY_MAX_ORDER /\ k < BUDDY_MAX_ORDER
  BY PoolAssumption DEF Orders
<1> QED BY <1>1, PowerNat

LEMMA PowerDouble ==
  ASSUME NEW k \in 0 .. BUDDY_MAX_ORDER, k < BUDDY_MAX_ORDER
  PROVE  2^(k + 1) = 2 * 2^k
<1>1. 2^1 = 2
  OBVIOUS
<1>2. 1 \in 0 .. BUDDY_MAX_ORDER /\ k + 1 <= BUDDY_MAX_ORDER
  BY PoolAssumption
<1>3. 2^(k + 1) = 2^k * 2^1
  BY <1>2, PowerAssumption
<1>4. 2^k \in Nat \ {0}
  BY PowerNat
<1> QED BY <1>1, <1>3, <1>4

LEMMA PowerSplit ==
  ASSUME NEW j \in 0 .. BUDDY_MAX_ORDER, NEW k \in 0 .. BUDDY_MAX_ORDER, j <= k
  PROVE  2^k = 2^j * 2^(k - j)
<1>1. k - j \in 0 .. BUDDY_MAX_ORDER /\ j + (k - j) = k
  BY PoolAssumption
<1>2. 2^(j + (k - j)) = 2^j * 2^(k - j)
  BY <1>1, PowerAssumption
<1> QED BY <1>1, <1>2

-----------------------------------------------------------------------------
LEMMA MulLe == \A a, b, s \in Int : a <= b /\ s >= 0 => a * s <= b * s
  OBVIOUS

LEMMA Multiple ==
  \A s \in Nat \ {0}, p \in Int :
    /\ p % s = 0 => \E q \in Int : p = q * s
    /\ \A q \in Int : p = q * s => p % s = 0 /\ p \div s = q
  OBVIOUS

LEMMA BuddyArith ==
  ASSUME NEW s \in Nat \ {0}, NEW p \in Int, p % s = 0
  PROVE  IF (p \div s) % 2 = 0
         THEN (p + s) % s = 0 /\ p % (2 * s) = 0 /\ ((p + s) \div s) % 2 # 0
         ELSE (p - s) % s = 0 /\ (p - s) % (2 * s) = 0
                /\ ((p - s) \div s) % 2 = 0
<1>1. PICK q \in Int : p = q * s
  BY Multiple
<1>2. p \div s = q
  BY <1>1, Multiple
<1>3. CASE q % 2 = 0
  <2>1. PICK r \in Int : q = r * 2
    BY <1>3
  <2>2. p = r * (2 * s) /\ p + s = (q + 1) * s /\ q + 1 \in Int /\ p + s \in Int
    BY <2>1, <1>1
  <2>3. p % (2 * s) = 0
    BY <2>2, Multiple
  <2>4. (p + s) % s = 0 /\ (p + s) \div s = q + 1
    BY <2>2, Multiple
  <2>5. (q + 1) % 2 # 0
    BY <2>1
  <2> QED BY <1>2, <1>3, <2>3, <2>4, <2>5
<1>4. CASE q % 2 # 0
  <2>1. PICK r \in Int : q = r * 2 + 1
    BY <1>4
  <2>2. p - s = r * (2 * s) /\ p - s = (q - 1) * s /\ q - 1 \in Int /\ p - s \in Int
    BY <2>1, <1>1
  <2>3. (p - s) % (2 * s) = 0
    <3>1. 2 * s \in Nat \ {0}
      OBVIOUS
    <3> QED BY <2>2, <3>1, Multiple
  <2>4. (p - s) % s = 0 /\ (p - s) \div s = q - 1
    BY <2>2, Multiple
  <2>5. (q - 1) % 2 = 0
    BY <2>1
  <2> QED BY <1>2, <1>4, <2>3, <2>4, <2>5
<1> QED BY <1>3, <1>4

-----------------------------------------------------------------------------
\* Aligned chunks are nested or disjoint.
LEMMA Laminar ==
  ASSUME NEW j \in Orders, NEW k \in Orders, j <= k,
         NEW h \in Int, NEW p \in Int, h % 2^j = 0, p % 2^k = 0
  PROVE  \/ Extent(h, j) \subseteq Extent(p, k)
         \/ Extent(h, j) \cap Extent(p, k) = {}
<1> DEFINE s == 2^j
           m == 2^(k - j)
<1>1. s \in Nat \ {0} /\ m \in Nat \ {0} /\ 2^k = s * m /\ 2^k \in Nat \ {0}
  BY OrderPower, PowerSplit
<1>2. PICK q \in Int : h = q * s
  BY <1>1, Multiple
<1>3. PICK r \in Int : p = r * 2^k
  BY <1>1, Multiple
<1> HIDE DEF s, m
<1>4. p = (r * m) * s /\ r * m \in Int /\ p + 2^k = (r * m + m) * s
  BY <1>1, <1>3
<1>5. h + s = (q + 1) * s
  BY <1>1, <1>2
<1>6. CASE q + 1 <= r * m
  <2>1. h + s <= p
    BY <1>1, <1>4, <1>5, <1>6, MulLe
  <2> QED BY <2>1, <1>1 DEF Extent, s
<1>7. CASE r * m + m <= q
  <2>1. p + 2^k <= h
    <3>1. r * m + m \in Int /\ s \in Int /\ s >= 0
      BY <1>1, <1>4
    <3>2. (r * m + m) * s <= q * s
      BY <3>1, <1>7, MulLe
    <3> QED BY <3>2, <1>2, <1>4
  <2> QED BY <2>1, <1>1 DEF Extent, s
<1>8. CASE r * m <= q /\ q + 1 <= r * m + m
  <2>1. p <= h /\ h + s <= p + 2^k
    BY <1>1, <1>2, <1>4, <1>5, <1>8, MulLe
  <2> QED BY <2>1, <1>1 DEF Extent, s
<1> QED BY <1>1, <1>4, <1>6, <1>7, <1>8

\* An aligned chunk that holds the first page of one at least as large, aligned
\* to the larger of the two, starts there.
LEMMA SameStart ==
  ASSUME NEW j \in Orders, NEW k \in Orders, j <= k,
         NEW h \in Int, NEW p \in Int, h % 2^j = 0, p % 2^k = 0,
         p \in Extent(h, j)
  PROVE  h = p
<1>1. 2^j \in Nat \ {0} /\ 2^k \in Nat \ {0}
  BY OrderPower
<1>2. h \in Extent(h, j) /\ p \in Extent(p, k)
  BY <1>1 DEF Extent
<1>3. Extent(h, j) \subseteq Extent(p, k)
  BY <1>2, Laminar
<1> QED BY <1>1, <1>2, <1>3 DEF Extent

\* A chunk and its buddy: each is the other's buddy, and the lower of the two
\* starts the chunk of the next order that they make up.
LEMMA BuddyHalves ==
  ASSUME NEW k \in Orders, k < BUDDY_MAX_ORDER - 1,
         NEW p \in Int, p % 2^k = 0
  PROVE  LET b == FlipBit(p, k)
             low == IF b < p THEN b ELSE p
         IN /\ b \in Int /\ b # p
            /\ b % 2^k = 0
            /\ FlipBit(b, k) = p
            /\ low % 2^(k + 1) = 0
            /\ Extent(low, k + 1) = Extent(p, k) \cup Extent(b, k)
            /\ Extent(p, k) \cap Extent(b, k) = {}
            /\ b = (IF b < p THEN p - 2^k ELSE p + 2^k)
<1> DEFINE s == 2^k
           b == FlipBit(p, k)
<1>1. s \in Nat \ {0} /\ 2^(k + 1) = 2 * s
  BY OrderPower, PowerDouble
<1>2. p % s = 0
  OBVIOUS
<1>3. b = IF (p \div s) % 2 = 0 THEN p + s ELSE p - s
  BY DEF FlipBit
<1>4. FlipBit(b, k) = IF (b \div s) % 2 = 0 THEN b + s ELSE b - s
  BY DEF FlipBit
<1>5. /\ Extent(p, k) = p .. p + s - 1
      /\ Extent(b, k) = b .. b + s - 1
      /\ \A x : Extent(x, k + 1) = x .. x + 2 * s - 1
  BY <1>1 DEF Extent
<1> HIDE DEF s, b
<1>6. IF (p \div s) % 2 = 0
      THEN (p + s) % s = 0 /\ p % (2 * s) = 0 /\ ((p + s) \div s) % 2 # 0
      ELSE (p - s) % s = 0 /\ (p - s) % (2 * s) = 0
             /\ ((p - s) \div s) % 2 = 0
  BY <1>1, <1>2, BuddyArith
<1>7. CASE (p \div s) % 2 = 0
  <2>1. b = p + s /\ FlipBit(b, k) = b - s
    BY <1>3, <1>4, <1>6, <1>7
  <2>2. ~ (b < p) /\ b \in Int /\ b # p /\ FlipBit(b, k) = p
    BY <2>1, <1>1
  <2>3. b % s = 0 /\ p % 2^(k + 1) = 0
    BY <2>1, <1>1, <1>6, <1>7
  <2>4. /\ Extent(p, k + 1) = Extent(p, k) \cup Extent(b, k)
        /\ Extent(p, k) \cap Extent(b, k) = {}
    BY <2>1, <1>1, <1>5
  <2> QED BY <2>1, <2>2, <2>3, <2>4 DEF b, s
<1>8. CASE (p \div s) % 2 # 0
  <2>1. b = p - s /\ FlipBit(b, k) = b + s
    BY <1>3, <1>4, <1>6, <1>8
  <2>2. b < p /\ b \in Int /\ b # p /\ FlipBit(b, k) = p
    BY <2>1, <1>1
  <2>3. b % s = 0 /\ b % 2^(k + 1) = 0
    BY <2>1, <1>1, <1>6, <1>8
  <2>4. /\ Extent(b, k + 1) = Extent(p, k) \cup Extent(b, k)
        /\ Extent(p, k) \cap Extent(b, k) = {}
    BY <2>1, <1>1, <1>5
  <2> QED BY <2>1, <2>2, <2>3, <2>4 DEF b, s
<1> QED BY <1>7, <1>8

\* A chunk that is cut in two: its upper half is the buddy of its lower half.
LEMMA CutHalves ==
  ASSUME NEW k \in Orders, k + 1 \in Orders, NEW p \in Int, p % 2^(k + 1) = 0
  PROVE  /\ p % 2^k = 0
         /\ FlipBit(p, k) = p + 2^k
<1> DEFINE s == 2^k
<1>1. s \in Nat \ {0} /\ 2^(k + 1) = 2 * s
  BY OrderPower, PowerDouble
<1>2. p % (2 * s) = 0
  BY <1>1
<1>3. FlipBit(p, k) = IF (p \div s) % 2 = 0 THEN p + s ELSE p - s
  BY DEF FlipBit
<1> HIDE DEF s
<1>4. 2 * s \in Nat \ {0}
  BY <1>1
<1>5. PICK q \in Int : p = q * (2 * s)
  BY <1>2, <1>4, Multiple
<1>6. p = (2 * q) * s /\ 2 * q \in Int
  BY <1>1, <1>5
<1>7. p % s = 0 /\ p \div s = 2 * q
  BY <1>1, <1>6, Multiple
<1>8. (2 * q) % 2 = 0
  OBVIOUS
<1> QED BY <1>3, <1>7, <1>8 DEF s

\* Inside a larger aligned chunk, the buddy of a chunk is inside it too.
LEMMA BuddyNested ==
  ASSUME NEW j \in Orders, NEW k \in Orders, j < k,
         NEW h \in Int, NEW p \in Int, h % 2^j = 0, p % 2^k = 0,
         h \in Extent(p, k)
  PROVE  /\ Extent(h, j) \subseteq Extent(p, k)
         /\ Extent(FlipBit(h, j), j) \subseteq Extent(p, k)
<1> DEFINE b == FlipBit(h, j)
           low == IF b < h THEN b ELSE h
<1>1. j < BUDDY_MAX_ORDER - 1 /\ j + 1 \in Orders /\ j + 1 <= k
  BY PoolAssumption DEF Orders
<1>2. /\ b \in Int /\ low % 2^(j + 1) = 0
      /\ Extent(low, j + 1) = Extent(h, j) \cup Extent(b, j)
  BY <1>1, BuddyHalves
<1>3. h \in Extent(h, j)
  BY OrderPower DEF Extent
<1> HIDE DEF b
<1>4. low \in Int
  BY <1>2
<1> HIDE DEF low
<1>5. \/ Extent(low, j + 1) \subseteq Extent(p, k)
      \/ Extent(low, j + 1) \cap Extent(p, k) = {}
  BY <1>1, <1>2, <1>4, Laminar
<1> QED BY <1>2, <1>3, <1>5 DEF b

-----------------------------------------------------------------------------
\* Tilings.

LEMMA FitsIn ==
  ASSUME NEW p \in Int, NEW k \in Orders, Fits(p, k)
  PROVE  p \in Pages /\ Extent(p, k) \subseteq Pages /\ p \in Extent(p, k)
  BY OrderPower, PoolAssumption DEF Fits, Extent, Pages, EndPage

\* The buddy of a chunk of a tiling, when it is in the pool, starts a chunk
\* that is no larger: the fields merge_page reads there are not leftovers.
LEMMA TileBuddy ==
  ASSUME NEW H \in SUBSET Pages, NEW ord \in [Pages -> Orders], Tiles(H, ord),
         NEW p \in H, ord[p] < BUDDY_MAX_ORDER - 1,
         get_buddy_chunk(p, ord[p]) # NULL
  PROVE  /\ get_buddy_chunk(p, ord[p]) = FlipBit(p, ord[p])
         /\ FlipBit(p, ord[p]) \in H
         /\ FlipBit(p, ord[p]) # p
         /\ ord[FlipBit(p, ord[p])] <= ord[p]
<1> DEFINE k == ord[p]
           b == FlipBit(p, k)
<1>1. p \in Int /\ k \in Orders /\ p \in Pages
  BY PoolAssumption DEF Pages, EndPage
<1>2. p % 2^k = 0 /\ Fits(p, k)
  BY DEF Tiles, Fits
<1>3. get_buddy_chunk(p, k) = b /\ b \in Pages
  BY PoolAssumption DEF get_buddy_chunk
<1>4. b \in Int /\ b # p /\ b % 2^k = 0 /\ FlipBit(b, k) = p
  BY <1>1, <1>2, BuddyHalves
<1> HIDE DEF k, b
<1>5. PICK h \in H : b \in Extent(h, ord[h])
  BY <1>3 DEF Tiles
<1>6. h \in Int /\ ord[h] \in Orders /\ h % 2^ord[h] = 0
  BY PoolAssumption DEF Pages, EndPage, Tiles, Fits
<1>7. p \in Extent(p, k)
  BY <1>1, <1>2, FitsIn
<1>8. CASE ord[h] > k
  <2>1. Extent(FlipBit(b, k), k) \subseteq Extent(h, ord[h])
    <3>1. k < ord[h]
      BY <1>8, <1>1, <1>6 DEF Orders
    <3> QED BY <3>1, <1>1, <1>4, <1>5, <1>6, BuddyNested
  <2>2. h # p
    BY <1>8, <1>1, PoolAssumption DEF k, Orders
  <2>3. p \in Extent(p, ord[p]) \cap Extent(h, ord[h])
    BY <2>1, <1>4, <1>7 DEF k
  <2> QED BY <2>2, <2>3 DEF Tiles
<1>9. CASE ord[h] <= k
  <2>1. h = b
    BY <1>9, <1>1, <1>4, <1>5, <1>6, SameStart
  <2> QED BY <2>1, <1>3, <1>4, <1>9 DEF k, b
<1> QED BY <1>1, <1>6, <1>8, <1>9, PoolAssumption DEF Orders

\* The buddy that split_page finds is in the pool and starts no chunk yet.
LEMMA TileCut ==
  ASSUME NEW H \in SUBSET Pages, NEW ord \in [Pages -> Orders], Tiles(H, ord),
         NEW p \in H, NEW k \in Orders, ord[p] = k + 1
  PROVE  /\ get_buddy_chunk(p, k) = FlipBit(p, k)
         /\ FlipBit(p, k) \in Pages \ H
         /\ FlipBit(p, k) # p
         /\ FlipBit(FlipBit(p, k), k) = p
         /\ Fits(p, k) /\ Fits(FlipBit(p, k), k)
         /\ Extent(p, k + 1) = Extent(p, k) \cup Extent(FlipBit(p, k), k)
         /\ Extent(p, k) \cap Extent(FlipBit(p, k), k) = {}
<1> DEFINE b == FlipBit(p, k)
<1>1. /\ p \in Int /\ p \in Pages /\ ord[p] \in Orders
      /\ k \in Orders /\ k + 1 \in Orders /\ ord[p] = k + 1
      /\ k < BUDDY_MAX_ORDER - 1
  BY PoolAssumption DEF Pages, EndPage, Orders
<1>2. Fits(p, k + 1) /\ p % 2^(k + 1) = 0
  BY <1>1 DEF Tiles, Fits
<1>3. p % 2^k = 0 /\ b = p + 2^k
  BY <1>1, <1>2, CutHalves
<1>4. 2^k \in Nat \ {0} /\ 2^(k + 1) = 2 * 2^k
  BY <1>1, OrderPower, PowerDouble
<1>5. /\ b \in Int /\ b # p /\ b % 2^k = 0 /\ FlipBit(b, k) = p
      /\ Extent(p, k + 1) = Extent(p, k) \cup Extent(b, k)
      /\ Extent(p, k) \cap Extent(b, k) = {}
  <2>1. ~ (b < p)
    BY <1>1, <1>3, <1>4
  <2> QED BY <2>1, <1>1, <1>3, BuddyHalves
<1> HIDE DEF b
<1>6. Fits(p, k) /\ Fits(b, k)
  <2> DEFINE s == 2^k
  <2>1. p >= StartPage /\ p + 2 * s <= EndPage /\ s \in Nat \ {0} /\ b = p + s
    BY <1>2, <1>3, <1>4 DEF Fits
  <2>2. p % s = 0 /\ b % s = 0
    BY <1>3, <1>5
  <2>3. StartPage \in Int /\ EndPage \in Int
    BY PoolAssumption DEF EndPage
  <2> HIDE DEF s
  <2>4. p + s <= EndPage /\ b + s <= EndPage /\ b >= StartPage
    BY <2>1, <2>3, <1>1
  <2> QED BY <2>1, <2>2, <2>4 DEF Fits, s
<1>7. b \in Pages /\ b \in Extent(b, k) /\ p \in Extent(p, k)
  BY <1>1, <1>5, <1>6, FitsIn
<1>8. get_buddy_chunk(p, k) = b /\ b # NULL
  BY <1>7, PoolAssumption DEF get_buddy_chunk, b, Pages, EndPage
<1>9. b \notin H
  <2>1. ASSUME b \in H PROVE FALSE
    <3>1. b \in Extent(b, ord[b])
      BY <2>1, <1>5, <1>7, FitsIn DEF Tiles
    <3>2. b \in Extent(p, ord[p])
      BY <1>1, <1>5, <1>7
    <3> QED BY <3>1, <3>2, <2>1, <1>5 DEF Tiles
  <2> QED BY <2>1
<1> QED BY <1>5, <1>6, <1>7, <1>8, <1>9 DEF b

\* split_page keeps the tiling.
LEMMA TileSplit ==
  ASSUME NEW H \in SUBSET Pages, NEW ord \in [Pages -> Orders], Tiles(H, ord),
         NEW p \in H, NEW k \in Orders, ord[p] = k + 1,
         NEW b, b = FlipBit(p, k),
         NEW new, new[p] = k, new[b] = k, \A q \in H \ {p} : new[q] = ord[q]
  PROVE  Tiles(H \cup {b}, new)
<1>1. /\ b \in Pages \ H /\ b # p
      /\ Fits(p, k) /\ Fits(b, k)
      /\ Extent(p, k + 1) = Extent(p, k) \cup Extent(b, k)
      /\ Extent(p, k) \cap Extent(b, k) = {}
  BY TileCut
<1>2. ASSUME NEW q \in H \cup {b} PROVE Fits(q, new[q])
  BY <1>1 DEF Tiles
<1>3. ASSUME NEW q \in H, q # p
      PROVE  /\ Extent(q, new[q]) \cap Extent(p, new[p]) = {}
             /\ Extent(q, new[q]) \cap Extent(b, new[b]) = {}
  <2>1. Extent(q, ord[q]) \cap Extent(p, k + 1) = {}
    BY <1>3 DEF Tiles
  <2> QED BY <2>1, <1>3, <1>1
<1>4. ASSUME NEW q \in H \cup {b}, NEW r \in H \cup {b}, q # r
      PROVE  Extent(q, new[q]) \cap Extent(r, new[r]) = {}
  <2>1. CASE q \in H \ {p} /\ r \in H \ {p}
    BY <2>1, <1>4, <1>1 DEF Tiles
  <2>2. CASE q \in {p, b} /\ r \in {p, b}
    BY <2>2, <1>4, <1>1
  <2>3. CASE q \in H \ {p} /\ r \in {p, b}
    BY <2>3, <1>3
  <2>4. CASE q \in {p, b} /\ r \in H \ {p}
    BY <2>4, <1>3
  <2> QED BY <2>1, <2>2, <2>3, <2>4
<1>5. ASSUME NEW x \in Pages PROVE \E q \in H \cup {b} : x \in Extent(q, new[q])
  <2>1. PICK q \in H : x \in Extent(q, ord[q])
    BY DEF Tiles
  <2>2. CASE q = p
    BY <2>1, <2>2, <1>1
  <2>3. CASE q # p
    BY <2>1, <2>3, <1>1
  <2> QED BY <2>2, <2>3
<1> QED BY <1>2, <1>4, <1>5 DEF Tiles

\* merge_page keeps the tiling.
LEMMA TileMerge ==
  ASSUME NEW H \in SUBSET Pages, NEW ord \in [Pages -> Orders], Tiles(H, ord),
         NEW p \in H, NEW b \in H, NEW k \in Orders, k < BUDDY_MAX_ORDER - 1,
         ord[p] = k, ord[b] = k, b = FlipBit(p, k),
         NEW low, low = (IF b < p THEN b ELSE p),
         NEW new, new[low] = k + 1,
         \A q \in H \ {p, b} : new[q] = ord[q]
  PROVE  /\ low \in H
         /\ Tiles(H \ ({p, b} \ {low}), new)
<1> DEFINE G == H \ ({p, b} \ {low})
<1>1. /\ p \in Int /\ b \in Int /\ p \in Pages /\ b \in Pages
      /\ k + 1 \in Orders /\ low \in {p, b} /\ low \in Int /\ low <= p /\ low <= b
  BY PoolAssumption DEF Pages, EndPage, Orders
<1>2. p % 2^k = 0 /\ Fits(p, k) /\ Fits(b, k)
  BY DEF Tiles, Fits
<1>3. /\ b # p
      /\ low % 2^(k + 1) = 0
      /\ Extent(low, k + 1) = Extent(p, k) \cup Extent(b, k)
      /\ b = (IF b < p THEN p - 2^k ELSE p + 2^k)
  BY <1>1, <1>2, BuddyHalves
<1>4. 2^k \in Nat \ {0} /\ 2^(k + 1) = 2 * 2^k
  BY OrderPower, PowerDouble
<1>5. Fits(low, k + 1)
  <2> DEFINE s == 2^k
  <2>1. /\ p >= StartPage /\ p + s <= EndPage /\ b >= StartPage /\ b + s <= EndPage
        /\ s \in Nat \ {0} /\ 2^(k + 1) = 2 * s
        /\ b = (IF b < p THEN p - s ELSE p + s)
    BY <1>2, <1>3, <1>4 DEF Fits
  <2>2. StartPage \in Int /\ EndPage \in Int
    BY PoolAssumption DEF EndPage
  <2> HIDE DEF s
  <2>3. low >= StartPage /\ low + 2 * s <= EndPage
    BY <2>1, <2>2, <1>1
  <2> QED BY <2>1, <2>3, <1>3 DEF Fits
<1>6. /\ G = (H \ {p, b}) \cup {low}
      /\ new[low] = k + 1
      /\ \A q \in H \ {p, b} : new[q] = ord[q]
  BY <1>1
<1> HIDE DEF G
<1>7. ASSUME NEW q \in G PROVE Fits(q, new[q])
  BY <1>5, <1>6 DEF Tiles
<1>8. ASSUME NEW q \in H \ {p, b}
      PROVE  Extent(q, new[q]) \cap Extent(low, new[low]) = {}
  <2>1. /\ Extent(q, ord[q]) \cap Extent(p, k) = {}
        /\ Extent(q, ord[q]) \cap Extent(b, k) = {}
    BY DEF Tiles
  <2> QED BY <2>1, <1>3, <1>6
<1>9. ASSUME NEW q \in G, NEW r \in G, q # r
      PROVE  Extent(q, new[q]) \cap Extent(r, new[r]) = {}
  <2>1. CASE q \in H \ {p, b} /\ r \in H \ {p, b}
    BY <2>1, <1>6, <1>9 DEF Tiles
  <2>2. CASE q \in H \ {p, b} /\ r = low
    BY <2>2, <1>8
  <2>3. CASE q = low /\ r \in H \ {p, b}
    BY <2>3, <1>8
  <2> QED BY <2>1, <2>2, <2>3, <1>6, <1>9
<1>10. ASSUME NEW x \in Pages PROVE \E q \in G : x \in Extent(q, new[q])
  <2>1. PICK q \in H : x \in Extent(q, ord[q])
    BY DEF Tiles
  <2>2. CASE q \in {p, b}
    BY <2>1, <2>2, <1>3, <1>6
  <2>3. CASE q \notin {p, b}
    BY <2>1, <2>3, <1>6
  <2> QED BY <2>2, <2>3
<1> QED BY <1>1, <1>7, <1>9, <1>10 DEF Tiles, G

\* A non-empty set of natural numbers has a least element.
LEMMA LeastOrder ==
  ASSUME NEW S \in SUBSET Nat, S # {}
  PROVE  \E n \in S : \A m \in S : n <= m
<1>1. IsWellFoundedOn(OpToRel(<, Nat), Nat)
  BY NatLessThanWellFounded
<1>2. PICK n \in S : \A m \in S : ~ (<<m, n>> \in OpToRel(<, Nat))
  BY <1>1, WFMin
<1>3. ASSUME NEW m \in S PROVE n <= m
  <2>1. m \in Nat /\ n \in Nat /\ (m < n \/ n <= m)
    OBVIOUS
  <2>2. m < n => <<m, n>> \in OpToRel(<, Nat)
    BY <2>1 DEF OpToRel
  <2> QED BY <2>1, <2>2, <1>2
<1> QED BY <1>3

\* Induction over the natural numbers, told of a set.
LEMMA Induction ==
  ASSUME NEW S, 0 \in S, \A n \in Nat : n \in S => n + 1 \in S
  PROVE  Nat \subseteq S
<1> SUFFICES ASSUME Nat \ S # {} PROVE FALSE
  OBVIOUS
<1>1. PICK x \in Nat \ S : \A y \in Nat \ S : x <= y
  <2>1. Nat \ S \in SUBSET Nat
    OBVIOUS
  <2> QED BY <2>1, LeastOrder
<1>2. x - 1 \in Nat /\ ~ x <= x - 1 /\ (x - 1) + 1 = x
  OBVIOUS
<1>3. x - 1 \in S
  BY <1>1, <1>2
<1> QED BY <1>2, <1>3

\* When no two free buddies stay apart, the free chunks that fill an aligned
\* extent cannot all be smaller than it: the smallest of them has a buddy in
\* the extent, and that buddy is one of them and of the same order.
LEMMA NoFragments ==
  ASSUME NEW H \in SUBSET Pages, NEW ord \in [Pages -> Orders], Tiles(H, ord),
         NEW F \in SUBSET H,
         \A f \in F : ord[f] < BUDDY_MAX_ORDER - 1 =>
           ~ (FlipBit(f, ord[f]) \in F /\ ord[FlipBit(f, ord[f])] = ord[f]),
         NEW x \in Int, NEW o \in Orders, Fits(x, o),
         \A h \in H : Extent(h, ord[h]) \cap Extent(x, o) # {} => h \in F
  PROVE  \E f \in F : ord[f] >= o
<1> SUFFICES ASSUME \A f \in F : ord[f] < o PROVE FALSE
  BY PoolAssumption DEF Orders
<1> DEFINE T == {h \in H : Extent(h, ord[h]) \cap Extent(x, o) # {}}
<1>1. T \subseteq F /\ T \in SUBSET Pages
  OBVIOUS
<1>2. x \in Pages /\ Extent(x, o) \subseteq Pages /\ x \in Extent(x, o) /\ x % 2^o = 0
  BY FitsIn DEF Fits
<1>3. \A h \in H : h \in Int /\ ord[h] \in Orders /\ h % 2^ord[h] = 0
                  /\ Fits(h, ord[h]) /\ ord[h] \in Nat
  <2>1. Pages \subseteq Int /\ Orders \subseteq Nat
    BY PoolAssumption DEF Pages, EndPage, Orders
  <2>2. \A h \in H : Fits(h, ord[h])
    BY DEF Tiles
  <2> QED BY <2>1, <2>2 DEF Fits
<1>4. PICK h \in T : \A g \in T : ord[h] <= ord[g]
  <2>1. T # {}
    BY <1>2 DEF Tiles
  <2>2. {ord[g] : g \in T} \in SUBSET Nat /\ {ord[g] : g \in T} # {}
    BY <2>1, <1>3
  <2> HIDE DEF T
  <2>3. PICK n \in {ord[g] : g \in T} : \A m \in {ord[g] : g \in T} : n <= m
    BY <2>2, LeastOrder
  <2> QED BY <2>3
<1> DEFINE k == ord[h]
           b == FlipBit(h, k)
<1>5. h \in F /\ k \in Orders /\ k < o /\ h \in Int /\ h % 2^k = 0 /\ o \in Orders
  BY <1>1, <1>3
<1>6. k < BUDDY_MAX_ORDER - 1
  BY <1>5, PoolAssumption DEF Orders
<1>7. h \in Extent(x, o)
  <2>1. Extent(h, k) \subseteq Extent(x, o)
    <3>1. k <= o
      BY <1>5 DEF Orders
    <3>2. Extent(h, k) \cap Extent(x, o) # {}
      OBVIOUS
    <3> QED BY <3>1, <3>2, <1>2, <1>5, Laminar
  <2>2. h \in Extent(h, k)
    BY <1>3, FitsIn
  <2> QED BY <2>1, <2>2
<1>8. b \in Int /\ b \in Extent(b, k)
  BY <1>5, <1>6, BuddyHalves, OrderPower DEF Extent
<1>9. Extent(b, k) \subseteq Extent(x, o)
  BY <1>2, <1>5, <1>7, BuddyNested
<1>10. b \in Pages
  BY <1>2, <1>8, <1>9
<1>11. get_buddy_chunk(h, k) # NULL
  BY <1>8, <1>10, PoolAssumption DEF get_buddy_chunk
<1>12. b \in H /\ ord[b] <= k
  BY <1>6, <1>11, TileBuddy
<1>13. b \in T
  <2>1. b \in Extent(b, ord[b])
    BY <1>3, <1>12, FitsIn
  <2> QED BY <2>1, <1>8, <1>9, <1>12
<1>14. ord[b] = k
  BY <1>3, <1>4, <1>12, <1>13
<1> QED BY <1>1, <1>5, <1>6, <1>13, <1>14

-----------------------------------------------------------------------------
\* Sums, and what they count.

\* Induction over a finite set, told of a set of sets.
LEMMA SetInduction ==
  ASSUME NEW S, IsFiniteSet(S), NEW Q,
         {} \in Q,
         \A s \in SUBSET S : \A x \in s : s \ {x} \in Q => s \in Q
  PROVE  SUBSET S \subseteq Q
<1> DEFINE N == {n \in Nat :
                   \A s \in SUBSET S : Cardinality(s) = n => s \in Q}
<1>0. \A s \in SUBSET S : IsFiniteSet(s) /\ Cardinality(s) \in Nat
  BY FS_Subset, FS_CardinalityType
<1>1. 0 \in N
  BY <1>0, FS_EmptySet
<1>2. ASSUME NEW n \in Nat, n \in N PROVE n + 1 \in N
  <2> SUFFICES ASSUME NEW s \in SUBSET S, Cardinality(s) = n + 1
               PROVE  s \in Q
    OBVIOUS
  <2>1. s # {}
    <3>1. n + 1 # 0 /\ Cardinality({}) = 0
      BY FS_EmptySet
    <3> QED BY <3>1
  <2>2. PICK x \in s : TRUE
    BY <2>1
  <2>3. Cardinality(s \ {x}) = n
    BY <1>0, FS_RemoveElement
  <2>4. s \ {x} \in SUBSET S
    OBVIOUS
  <2>5. s \ {x} \in Q
    BY <1>2, <2>3, <2>4
  <2> QED BY <2>5
<1> HIDE DEF N
<1>3. Nat \subseteq N
  BY <1>1, <1>2, Induction
<1> QED BY <1>0, <1>3 DEF N

LEMMA CountTo ==
  ASSUME NEW n \in Nat
  PROVE  IsFiniteSet(0 .. n - 1) /\ Cardinality(0 .. n - 1) = n
<1>1. 0 \in Int /\ n - 1 \in Int
  OBVIOUS
<1>2. IsFiniteSet(0 .. n - 1)
      /\ Cardinality(0 .. n - 1) = IF 0 > n - 1 THEN 0 ELSE (n - 1) - 0 + 1
  BY <1>1, FS_Interval
<1> QED BY <1>2

LEMMA PagesFinite ==
  /\ IsFiniteSet(Pages) /\ Cardinality(Pages) = NPages
<1>1. StartPage \in Int /\ EndPage - 1 \in Int /\ StartPage <= EndPage - 1
      /\ (EndPage - 1) - StartPage + 1 = NPages
  BY PoolAssumption DEF EndPage
<1> QED BY <1>1, FS_Interval DEF Pages

LEMMA ExtentSize ==
  ASSUME NEW p \in Int, NEW o \in Orders
  PROVE  IsFiniteSet(Extent(p, o)) /\ Cardinality(Extent(p, o)) = 2^o
<1>1. 2^o \in Nat \ {0}
  BY OrderPower
<1> DEFINE z == p + 2^o - 1
<1>2. z \in Int /\ ~ (p > z) /\ z - p + 1 = 2^o
  BY <1>1
<1>3. Extent(p, o) = p .. z
  BY DEF Extent
<1> HIDE DEF z
<1>4. IsFiniteSet(p .. z) /\ Cardinality(p .. z) = IF p > z THEN 0 ELSE z - p + 1
  BY <1>2, FS_Interval
<1> QED BY <1>2, <1>3, <1>4

\* The union of a family of sets, over the indices s.
UnionOf(E, s) == UNION {E[x] : x \in s}

\* An index of a finite disjoint family adds the size of its set.
LEMMA UnionStep ==
  ASSUME NEW S, IsFiniteSet(S), NEW E,
         \A x \in S : IsFiniteSet(E[x]),
         \A x, y \in S : x # y => E[x] \cap E[y] = {}
  PROVE  /\ \A s \in SUBSET S : IsFiniteSet(UnionOf(E, s))
         /\ UnionOf(E, {}) = {}
         /\ \A s \in SUBSET S : \A x \in s :
              Cardinality(UnionOf(E, s)) =
                Cardinality(E[x]) + Cardinality(UnionOf(E, s \ {x}))
<1>0. UnionOf(E, {}) = {}
  BY DEF UnionOf
<1>1. \A s \in SUBSET S : \A x \in s :
        /\ UnionOf(E, s) = E[x] \cup UnionOf(E, s \ {x})
        /\ E[x] \cap UnionOf(E, s \ {x}) = {}
  BY DEF UnionOf
<1> DEFINE Q == {s \in SUBSET S : IsFiniteSet(UnionOf(E, s))}
<1>2. {} \in Q
  BY <1>0, FS_EmptySet
<1>3. ASSUME NEW s \in SUBSET S, NEW x \in s, s \ {x} \in Q
      PROVE  s \in Q
  <2>1. x \in S /\ IsFiniteSet(E[x]) /\ IsFiniteSet(UnionOf(E, s \ {x}))
    BY <1>3
  <2>2. IsFiniteSet(E[x] \cup UnionOf(E, s \ {x}))
    BY <2>1, FS_Union
  <2> QED BY <1>1, <2>2
<1> HIDE DEF Q
<1>4. SUBSET S \subseteq Q
  BY <1>2, <1>3, SetInduction
<1>5. \A s \in SUBSET S : IsFiniteSet(UnionOf(E, s))
  BY <1>4 DEF Q
<1>6. ASSUME NEW s \in SUBSET S, NEW x \in s
      PROVE  Cardinality(UnionOf(E, s)) =
                Cardinality(E[x]) + Cardinality(UnionOf(E, s \ {x}))
  <2>1. s \ {x} \in SUBSET S /\ x \in S
    OBVIOUS
  <2>2. IsFiniteSet(E[x]) /\ IsFiniteSet(UnionOf(E, s \ {x}))
    BY <1>5, <2>1
  <2>3. Cardinality(E[x] \cap UnionOf(E, s \ {x})) = 0
    BY <1>1, FS_EmptySet
  <2>4. /\ Cardinality(E[x]) \in Nat
        /\ Cardinality(UnionOf(E, s \ {x})) \in Nat
    BY <2>2, FS_CardinalityType
  <2>5. Cardinality(E[x] \cup UnionOf(E, s \ {x})) =
          Cardinality(E[x]) + Cardinality(UnionOf(E, s \ {x}))
            - Cardinality(E[x] \cap UnionOf(E, s \ {x}))
    BY <2>2, FS_Union
  <2>6. UnionOf(E, s) = E[x] \cup UnionOf(E, s \ {x})
    BY <1>1
  <2> HIDE DEF UnionOf
  <2> QED BY <2>3, <2>4, <2>5, <2>6
<1> QED BY <1>0, <1>5, <1>6

\* What a sum counts: when each value is the size of a set, and the sets are
\* disjoint, the sum is the size of their union.
LEMMA SumOnSetCounts ==
  ASSUME NEW S, IsFiniteSet(S), NEW E, NEW f,
         \A x \in S : IsFiniteSet(E[x]) /\ f[x] = Cardinality(E[x]),
         \A x, y \in S : x # y => E[x] \cap E[y] = {}
  PROVE  /\ IsFiniteSet(UnionOf(E, S))
         /\ SumFunctionOnSet(f, S) = Cardinality(UnionOf(E, S))
<1> DEFINE Rec(g) == g = [s \in SUBSET S |->
                   IF s = {} THEN 0
                   ELSE f[CHOOSE x \in s : TRUE] + g[s \ {CHOOSE x \in s : TRUE}]]
           w == [s \in SUBSET S |-> Cardinality(UnionOf(E, s))]
           h == CHOOSE g : Rec(g)
<1>0. SumFunctionOnSet(f, S) = h[S]
  BY DEF SumFunctionOnSet, FoldFunctionOnSet, MapThenFoldSet
<1>1. /\ \A s \in SUBSET S : IsFiniteSet(UnionOf(E, s))
      /\ UnionOf(E, {}) = {}
      /\ \A s \in SUBSET S : \A x \in s :
           Cardinality(UnionOf(E, s)) =
             Cardinality(E[x]) + Cardinality(UnionOf(E, s \ {x}))
  BY UnionStep
<1>2. Rec(w)
  <2>1. ASSUME NEW s \in SUBSET S
        PROVE  w[s] = IF s = {} THEN 0
                      ELSE f[CHOOSE x \in s : TRUE] + w[s \ {CHOOSE x \in s : TRUE}]
    <3>1. CASE s = {}
      BY <1>1, <3>1, FS_EmptySet
    <3>2. CASE s # {}
      <4> DEFINE c == CHOOSE x \in s : TRUE
      <4>1. c \in s
        BY <3>2
      <4> HIDE DEF c
      <4>2. s \ {c} \in SUBSET S /\ f[c] = Cardinality(E[c])
        BY <4>1
      <4>3. w[s] = f[c] + w[s \ {c}]
        BY <1>1, <4>1, <4>2
      <4> QED BY <3>2, <4>3 DEF c
    <3> QED BY <3>1, <3>2
  <2> QED BY <2>1
<1>3. Rec(h)
  BY <1>2
<1>4. \A s \in SUBSET S :
        h[s] = IF s = {} THEN 0
               ELSE f[CHOOSE x \in s : TRUE] + h[s \ {CHOOSE x \in s : TRUE}]
  BY <1>3
<1> HIDE DEF h
<1> DEFINE Q == {s \in SUBSET S : h[s] = Cardinality(UnionOf(E, s))}
<1> DEFINE N == {n \in Nat : \A s \in SUBSET S : Cardinality(s) = n => s \in Q}
<1>10. \A s \in SUBSET S : IsFiniteSet(s) /\ Cardinality(s) \in Nat
  BY FS_Subset, FS_CardinalityType
<1>5. 0 \in N
  BY <1>1, <1>4, <1>10, FS_EmptySet
<1>6. ASSUME NEW n \in Nat, n \in N PROVE n + 1 \in N
  <2> SUFFICES ASSUME NEW s \in SUBSET S, Cardinality(s) = n + 1
               PROVE  s \in Q
    OBVIOUS
  <2>1. s # {}
    <3>1. n + 1 # 0 /\ Cardinality({}) = 0
      BY FS_EmptySet
    <3> QED BY <3>1
  <2> DEFINE c == CHOOSE x \in s : TRUE
  <2>2. c \in s /\ h[s] = f[c] + h[s \ {c}]
    BY <1>4, <2>1
  <2> HIDE DEF c
  <2>3. s \ {c} \in SUBSET S /\ Cardinality(s \ {c}) = n /\ f[c] = Cardinality(E[c])
    <3>1. IsFiniteSet(s) /\ c \in s /\ c \in S
      BY <1>10, <2>2
    <3>2. Cardinality(s \ {c}) = Cardinality(s) - 1
      BY <3>1, FS_RemoveElement
    <3> QED BY <3>1, <3>2
  <2>4. h[s \ {c}] = Cardinality(UnionOf(E, s \ {c}))
    BY <1>6, <2>3
  <2>5. s \in SUBSET S /\ c \in s
    BY <2>2
  <2>6. Cardinality(UnionOf(E, s)) =
          Cardinality(E[c]) + Cardinality(UnionOf(E, s \ {c}))
    BY <1>1, <2>5
  <2> QED BY <2>2, <2>3, <2>4, <2>6
<1>7. Nat \subseteq N
  <2> HIDE DEF N
  <2> QED BY <1>5, <1>6, Induction
<1>8. S \in Q
  BY <1>7, <1>10
<1> QED BY <1>0, <1>1, <1>8

\* As many disjoint sets, each of size k.
LEMMA EqualParts ==
  ASSUME NEW S, IsFiniteSet(S), NEW E, NEW k \in Nat,
         \A x \in S : IsFiniteSet(E[x]) /\ Cardinality(E[x]) = k,
         \A x, y \in S : x # y => E[x] \cap E[y] = {}
  PROVE  /\ IsFiniteSet(UnionOf(E, S))
         /\ Cardinality(UnionOf(E, S)) = Cardinality(S) * k
<1>1. /\ \A s \in SUBSET S : IsFiniteSet(UnionOf(E, s))
      /\ UnionOf(E, {}) = {}
      /\ \A s \in SUBSET S : \A x \in s :
           Cardinality(UnionOf(E, s)) =
             Cardinality(E[x]) + Cardinality(UnionOf(E, s \ {x}))
  <2>1. \A x \in S : IsFiniteSet(E[x])
    OBVIOUS
  <2> QED BY <2>1, UnionStep
<1>2. \A s \in SUBSET S : IsFiniteSet(s) /\ Cardinality(s) \in Nat
  BY FS_Subset, FS_CardinalityType
<1> DEFINE Q == {s \in SUBSET S :
                   Cardinality(UnionOf(E, s)) = Cardinality(s) * k}
<1>3. {} \in Q
  BY <1>1, FS_EmptySet
<1>4. ASSUME NEW s \in SUBSET S, NEW x \in s, s \ {x} \in Q
      PROVE  s \in Q
  <2>1. Cardinality(s \ {x}) = Cardinality(s) - 1
    BY <1>2, FS_RemoveElement
  <2>2. Cardinality(UnionOf(E, s)) = k + (Cardinality(s) - 1) * k
    BY <1>1, <1>4, <2>1
  <2>3. \A m \in Nat : k + (m - 1) * k = m * k
    OBVIOUS
  <2> QED BY <1>2, <2>2, <2>3
<1> HIDE DEF Q
<1>5. SUBSET S \subseteq Q
  BY <1>3, <1>4, SetInduction
<1> QED BY <1>1, <1>5 DEF Q

LEMMA SumCounts ==
  ASSUME NEW f, NEW S, S = DOMAIN f, IsFiniteSet(S), NEW E,
         \A x \in S : IsFiniteSet(E[x]) /\ f[x] = Cardinality(E[x]),
         \A x, y \in S : x # y => E[x] \cap E[y] = {}
  PROVE  /\ IsFiniteSet(UnionOf(E, S))
         /\ SumFunction(f) = Cardinality(UnionOf(E, S))
<1>1. SumFunction(f) = SumFunctionOnSet(f, S)
  BY DEF SumFunction
<1>2. /\ IsFiniteSet(UnionOf(E, S))
      /\ SumFunctionOnSet(f, S) = Cardinality(UnionOf(E, S))
  <2>1. \A x \in S : IsFiniteSet(E[x]) /\ f[x] = Cardinality(E[x])
    OBVIOUS
  <2> QED BY <2>1, SumOnSetCounts
<1> QED BY <1>1, <1>2

=============================================================================
