---------------------------- MODULE PrintkProofs ----------------------------
(***************************************************************************)
(* For integers of every width, every string and every width of a field:   *)
(* each directive sends the field it asks for, and the walk and the buffer *)
(* are left only where the properties of Printk say so.                    *)
(***************************************************************************)
EXTENDS Printk, SequenceTheorems, WellFoundedInduction, NaturalsInduction, TLAPS

LEMMA LeastOrder ==
  ASSUME NEW S \in SUBSET Nat, S # {}
  PROVE  \E n \in S : \A m \in S : n <= m
<1>1. IsWellFoundedOn(OpToRel(<, Nat), Nat)
  BY NatLessThanWellFounded
<1>2. PICK n \in S : \A m \in S : ~ (<<m, n>> \in OpToRel(<, Nat))
  BY <1>1, WFMin
<1>3. ASSUME NEW m \in S PROVE n <= m
  <2>1. m \in Nat /\ n \in Nat /\ (m < n \/ n <= m)
    OBVIOUS
  <2>2. m < n => <<m, n>> \in OpToRel(<, Nat)
    BY <2>1 DEF OpToRel
  <2> QED BY <2>1, <2>2, <1>2
<1> QED BY <1>3

\* Induction over the natural numbers, told of a set.
LEMMA Induction ==
  ASSUME NEW S, 0 \in S, \A n \in Nat : n \in S => n + 1 \in S
  PROVE  Nat \subseteq S
<1> SUFFICES ASSUME Nat \ S # {} PROVE FALSE
  OBVIOUS
<1>1. PICK x \in Nat \ S : \A y \in Nat \ S : x <= y
  <2>1. Nat \ S \in SUBSET Nat
    OBVIOUS
  <2> QED BY <2>1, LeastOrder
<1>2. x - 1 \in Nat /\ ~ x <= x - 1 /\ (x - 1) + 1 = x
  OBVIOUS
<1>3. x - 1 \in S
  BY <1>1, <1>2
<1> QED BY <1>2, <1>3

-----------------------------------------------------------------------------
(* Powers of two and remainders.                                            *)

LEMMA WidthsAre ==
  /\ CHAR \in Nat \ {0} /\ SHORT \in Nat \ {0} /\ INT \in Nat \ {0}
  /\ LONG \in Nat \ {0} /\ CHAR < SHORT /\ SHORT < INT /\ INT < LONG
  BY Widths

LEMMA PowerNat == ASSUME NEW k \in 0 .. LONG PROVE 2^k \in Nat \ {0}
  BY Powers

LEMMA PowerLow == 2^0 = 1 /\ 2^1 = 2
  OBVIOUS

LEMMA PowerNext ==
  ASSUME NEW k \in 0 .. LONG, k < LONG
  PROVE  2^(k + 1) = 2 * 2^k
<1>1. 1 \in 0 .. LONG /\ k + 1 <= LONG
  BY WidthsAre
<1>2. 2^(k + 1) = 2^k * 2^1
  BY <1>1, Powers
<1>3. 2^k \in Nat \ {0}
  BY PowerNat
<1> QED BY <1>2, <1>3, PowerLow

LEMMA PowerPrevious ==
  ASSUME NEW k \in 1 .. LONG
  PROVE  k - 1 \in 0 .. LONG /\ 2^k = 2 * 2^(k - 1)
<1>1. k - 1 \in 0 .. LONG /\ k - 1 < LONG /\ (k - 1) + 1 = k
  BY WidthsAre
<1>2. 2^((k - 1) + 1) = 2 * 2^(k - 1)
  BY <1>1, PowerNext
<1> QED BY <1>1, <1>2

LEMMA PowerSplit ==
  ASSUME NEW j \in 0 .. LONG, NEW k \in 0 .. LONG, j <= k
  PROVE  \E q \in Nat \ {0} : 2^k = 2^j * q
<1>1. k - j \in 0 .. LONG /\ j + (k - j) = k /\ j + (k - j) <= LONG
  BY WidthsAre
<1>2. 2^(j + (k - j)) = 2^j * 2^(k - j)
  BY <1>1, Powers
<1>3. 2^(k - j) \in Nat \ {0}
  BY <1>1, PowerNat
<1> QED BY <1>1, <1>2, <1>3

LEMMA MulLe ==
  ASSUME NEW a \in Nat, NEW q \in Nat \ {0}
  PROVE  a <= a * q
<1>1. a * q = a + a * (q - 1) /\ q - 1 \in Nat
  OBVIOUS
<1>2. \A b, c \in Nat : b * c \in Nat
  OBVIOUS
<1> QED BY <1>1, <1>2

LEMMA PowerGrows ==
  ASSUME NEW j \in 0 .. LONG, NEW k \in 0 .. LONG, j <= k
  PROVE  2^j <= 2^k
<1>1. PICK q \in Nat \ {0} : 2^k = 2^j * q
  BY PowerSplit
<1>2. PICK a \in Nat : a = 2^j
  BY PowerNat
<1> QED BY <1>1, <1>2, MulLe

LEMMA Division ==
  ASSUME NEW s \in Int, s > 0, NEW p \in Int
  PROVE  p = s * (p \div s) + (p % s) /\ p \div s \in Int /\ p % s \in 0 .. s - 1
<1>1. p = s * (p \div s) + (p % s)
  OBVIOUS
<1>2. p \div s \in Int
  OBVIOUS
<1>3. p % s \in 0 .. s - 1
  OBVIOUS
<1> QED BY <1>1, <1>2, <1>3

LEMMA RemainderIs ==
  \A s \in Nat \ {0}, p \in Int, q \in Int, r \in Int :
    p = q * s + r /\ r >= 0 /\ r < s => p % s = r
  OBVIOUS

LEMMA Multiple ==
  \A s \in Nat \ {0}, p \in Int :
    /\ p % s = 0 => \E q \in Int : p = q * s
    /\ \A q \in Int : p = q * s => p % s = 0
<1> SUFFICES ASSUME NEW s \in Nat \ {0}, NEW p \in Int
             PROVE  /\ p % s = 0 => \E q \in Int : p = q * s
                    /\ \A q \in Int : p = q * s => p % s = 0
  OBVIOUS
<1>1. ASSUME p % s = 0 PROVE \E q \in Int : p = q * s
  <2>1. s \in Int /\ s > 0
    OBVIOUS
  <2>2. p \div s \in Int /\ p = s * (p \div s) + (p % s)
    BY <2>1, Division
  <2>3. PICK q \in Int : q = p \div s
    BY <2>2
  <2>4. p = s * q + 0 /\ s * q = q * s /\ s * q \in Int
    BY <1>1, <2>2, <2>3
  <2> QED BY <2>4
<1>2. ASSUME NEW q \in Int, p = q * s PROVE p % s = 0
  <2>1. p = q * s + 0 /\ 0 >= 0 /\ 0 < s
    BY <1>2
  <2> QED BY <2>1, RemainderIs
<1> QED BY <1>1, <1>2

LEMMA RemainderSmall ==
  \A s \in Nat \ {0}, p \in Nat : p < s => p % s = p
  OBVIOUS

LEMMA RemainderNegative ==
  \A s \in Nat \ {0}, p \in Int : -s <= p /\ p < 0 => p % s = p + s
<1>1. ASSUME NEW s \in Nat \ {0}, NEW p \in Int, -s <= p, p < 0
      PROVE  p % s = p + s
  <2>1. p = (-1) * s + (p + s) /\ p + s >= 0 /\ p + s < s /\ p + s \in Int /\ -1 \in Int
    BY <1>1
  <2> QED BY <2>1, RemainderIs
<1> QED BY <1>1

\* A remainder differs from its number by a multiple.
LEMMA RemainderDiffers ==
  ASSUME NEW s \in Nat \ {0}, NEW p \in Int
  PROVE  ((p % s) - p) % s = 0 /\ (((p % s) - s) - p) % s = 0
<1>1. PICK q \in Int, r \in 0 .. s - 1 : r = p % s /\ p = s * q + r
  BY Division
<1>2. s * (-q) = -(s * q) /\ s * (-q - 1) = -(s * q) - s
  OBVIOUS
<1>3. (-q) * s = s * (-q) /\ (-q - 1) * s = s * (-q - 1)
  OBVIOUS
<1>4. r - p = (-q) * s /\ (r - s) - p = (-q - 1) * s
  BY <1>1, <1>2, <1>3
<1>5. -q \in Int /\ -q - 1 \in Int /\ r - p \in Int /\ (r - s) - p \in Int
  OBVIOUS
<1>6. (r - p) % s = 0 /\ ((r - s) - p) % s = 0
  BY <1>4, <1>5, Multiple
<1> QED BY <1>1, <1>6

LEMMA MultipleOfFactor ==
  \A a, b, q \in Nat \ {0} : b = a * q =>
    \A x, y, z \in Int : (x - y) % b = 0 /\ (y - z) % a = 0 => (x - z) % a = 0
<1> TAKE a, b, q \in Nat \ {0}
<1> HAVE b = a * q
<1> TAKE x, y, z \in Int
<1> HAVE (x - y) % b = 0 /\ (y - z) % a = 0
<1>0. x - y \in Int /\ y - z \in Int /\ x - z \in Int
  OBVIOUS
<1>1. PICK m \in Int : x - y = m * b
  BY <1>0, Multiple
<1>2. PICK n \in Int : y - z = n * a
  BY <1>0, Multiple
<1>3. m * (a * q) = (m * q) * a
  OBVIOUS
<1>4. m * q \in Int
  OBVIOUS
<1>5. (m * q) * a + n * a = (m * q + n) * a
  BY <1>4
<1>6. x - z = (m * q + n) * a
  BY <1>1, <1>2, <1>3, <1>5
<1>7. m * q + n \in Int
  BY <1>4
<1> QED BY <1>0, <1>6, <1>7, Multiple

LEMMA Halved ==
  ASSUME NEW bits \in 1 .. LONG
  PROVE  \E h \in Nat \ {0} : /\ 2^bits = 2 * h /\ 2^(bits - 1) = h
                              /\ SignedRange(bits) = -h .. h - 1
<1>1. bits - 1 \in 0 .. LONG /\ 2^bits = 2 * 2^(bits - 1)
  BY PowerPrevious
<1>2. 2^(bits - 1) \in Nat \ {0}
  BY <1>1, PowerNat
<1> QED BY <1>1, <1>2 DEF SignedRange

LEMMA SignedIs ==
  ASSUME NEW v \in Int, NEW bits \in 1 .. LONG
  PROVE  /\ Signed(v, bits) \in SignedRange(bits)
         /\ (Signed(v, bits) - v) % 2^bits = 0
<1>1. PICK h \in Nat \ {0} : /\ 2^bits = 2 * h
                             /\ SignedRange(bits) = -h .. h - 1
  BY Halved
<1>2. PICK s \in Nat \ {0} : s = 2 * h
  OBVIOUS
<1>3. \E i \in SignedRange(bits) : (i - v) % s = 0
  <2>1. PICK r \in 0 .. s - 1 : r = v % s
    BY Division
  <2>2. (r - v) % s = 0 /\ ((r - s) - v) % s = 0
    BY <2>1, RemainderDiffers
  <2>3. CASE r < h
    <3>1. r \in SignedRange(bits)
      BY <1>1, <2>3
    <3> QED BY <2>2, <3>1
  <2>4. CASE ~ r < h
    <3>1. r - s \in SignedRange(bits)
      BY <1>1, <1>2, <2>4
    <3> QED BY <2>2, <3>1
  <2> QED BY <2>3, <2>4
<1>4. 2^bits = s
  BY <1>1, <1>2
<1>5. Signed(v, bits) = CHOOSE i \in SignedRange(bits) : (i - v) % s = 0
  BY <1>4 DEF Signed
<1> QED BY <1>3, <1>4, <1>5

\* A number in the range is its own value.
LEMMA SignedSame ==
  ASSUME NEW bits \in 1 .. LONG, NEW v \in SignedRange(bits)
  PROVE  Signed(v, bits) = v
<1>1. PICK h \in Nat \ {0} : /\ 2^bits = 2 * h
                             /\ SignedRange(bits) = -h .. h - 1
  BY Halved
<1>2. v \in Int /\ v >= -h /\ v < h
  BY <1>1
<1>3. PICK i \in SignedRange(bits) : i = Signed(v, bits) /\ (i - v) % (2 * h) = 0
  BY <1>1, <1>2, SignedIs
<1>4. i \in Int /\ i >= -h /\ i < h
  BY <1>1
<1>5. PICK q \in Int : i - v = q * (2 * h)
  <2>1. 2 * h \in Nat \ {0} /\ i - v \in Int
    BY <1>2, <1>4
  <2> QED BY <1>3, <2>1, Multiple
<1>6. i - v < 2 * h /\ i - v > -(2 * h)
  BY <1>2, <1>4
<1>7. q = 0
  <2>1. q >= 1 => q * (2 * h) >= 2 * h
    OBVIOUS
  <2>2. q <= -1 => q * (2 * h) <= -(2 * h)
    OBVIOUS
  <2> QED BY <1>5, <1>6, <2>1, <2>2
<1>8. i - v = 0
  BY <1>5, <1>7
<1> QED BY <1>2, <1>3, <1>4, <1>8

-----------------------------------------------------------------------------
(* The recursive functions: what a numeral is, and what it is worth.        *)

Counted(s, base, k, n) ==
  IF s[k] \in DigitCharacters THEN n * base + Worth(s[k]) ELSE n

Counts(g, s, base, n) ==
  g = [k \in 0 .. n |-> IF k = 0 THEN 0 ELSE Counted(s, base, k, g[k - 1])]

LEMMA CountsExists ==
  ASSUME NEW s, NEW base
  PROVE  \A n \in Nat : \E g : Counts(g, s, base, n)
<1> DEFINE S == {n \in Nat : \E g : Counts(g, s, base, n)}
<1>1. 0 \in S
  <2> DEFINE g == [k \in 0 .. 0 |-> 0]
  <2>1. Counts(g, s, base, 0)
    BY DEF Counts
  <2> QED BY <2>1
<1>2. ASSUME NEW n \in Nat, n \in S PROVE n + 1 \in S
  <2>1. PICK g : Counts(g, s, base, n)
    BY <1>2
  <2> DEFINE v == Counted(s, base, n + 1, g[n])
             h == [k \in 0 .. n + 1 |-> IF k = n + 1 THEN v ELSE g[k]]
  <2> HIDE DEF v
  <2>2. ASSUME NEW k \in 0 .. n + 1
        PROVE  h[k] = IF k = 0 THEN 0 ELSE Counted(s, base, k, h[k - 1])
    <3>1. CASE k = n + 1
      <4>1. k # 0 /\ k - 1 = n /\ n \in 0 .. n + 1 /\ n # n + 1
        BY <3>1
      <4>2. h[k] = v /\ h[k - 1] = g[n]
        BY <3>1, <4>1
      <4> QED BY <3>1, <4>1, <4>2 DEF v
    <3>2. CASE k # n + 1
      <4>1. k \in 0 .. n /\ (k # 0 => k - 1 \in 0 .. n + 1 /\ k - 1 # n + 1)
        BY <3>2
      <4>2. h[k] = g[k] /\ (k # 0 => h[k - 1] = g[k - 1])
        BY <3>2, <4>1
      <4>3. g[k] = IF k = 0 THEN 0 ELSE Counted(s, base, k, g[k - 1])
        BY <2>1, <4>1 DEF Counts
      <4> QED BY <4>2, <4>3
    <3> QED BY <3>1, <3>2
  <2>3. Counts(h, s, base, n + 1)
    BY <2>2 DEF Counts
  <2> HIDE DEF h
  <2> QED BY <2>3
<1> HIDE DEF S
<1>3. Nat \subseteq S
  BY <1>1, <1>2, Induction
<1> QED BY <1>3 DEF S

\* Sequences that agree count alike.
LEMMA CountsAgree ==
  ASSUME NEW s, NEW t, NEW base, NEW m \in Nat, NEW n \in Nat, NEW l \in Nat,
         m <= n, m <= l, \A k \in 1 .. m : s[k] = t[k],
         NEW g, NEW h, Counts(g, s, base, n), Counts(h, t, base, l)
  PROVE  g[m] = h[m]
<1> DEFINE S == {k \in Nat : k <= m => g[k] = h[k]}
<1>1. 0 \in S
  BY DEF Counts
<1>2. ASSUME NEW k \in Nat, k \in S PROVE k + 1 \in S
  <2> SUFFICES ASSUME k + 1 <= m PROVE g[k + 1] = h[k + 1]
    OBVIOUS
  <2>1. /\ k + 1 \in 0 .. n /\ k + 1 \in 0 .. l /\ k + 1 \in 1 .. m
        /\ k + 1 # 0 /\ (k + 1) - 1 = k /\ k <= m
    OBVIOUS
  <2>2. g[k + 1] = Counted(s, base, k + 1, g[k])
    BY <2>1 DEF Counts
  <2>3. h[k + 1] = Counted(t, base, k + 1, h[k])
    BY <2>1 DEF Counts
  <2>4. g[k] = h[k] /\ s[k + 1] = t[k + 1]
    BY <1>2, <2>1
  <2> QED BY <2>2, <2>3, <2>4 DEF Counted
<1> HIDE DEF S
<1>3. Nat \subseteq S
  BY <1>1, <1>2, Induction
<1> QED BY <1>3 DEF S

LEMMA ValueCounts ==
  ASSUME NEW s, Len(s) \in Nat, NEW base
  PROVE  \E g : Counts(g, s, base, Len(s)) /\ Value(s, base) = g[Len(s)]
<1> DEFINE Eq(g) == g = [k \in 0 .. Len(s) |->
                          IF k = 0 THEN 0
                          ELSE IF s[k] \in DigitCharacters
                               THEN g[k - 1] * base + Worth(s[k])
                          ELSE g[k - 1]]
           value == CHOOSE g : Eq(g)
<1>1. \A g : Eq(g) <=> Counts(g, s, base, Len(s))
  BY DEF Counts, Counted
<1>2. \E g : Eq(g)
  BY <1>1, CountsExists
<1>3. Eq(value)
  BY <1>2
<1>4. Value(s, base) = value[Len(s)]
  BY DEF Value
<1> QED BY <1>1, <1>3, <1>4

LEMMA ValueOfEmpty == \A base : Value(<<>>, base) = 0
<1> SUFFICES ASSUME NEW base PROVE Value(<<>>, base) = 0
  OBVIOUS
<1>1. Len(<<>>) = 0
  OBVIOUS
<1>2. PICK g : Counts(g, <<>>, base, 0) /\ Value(<<>>, base) = g[0]
  BY <1>1, ValueCounts
<1> QED BY <1>2 DEF Counts

LEMMA ValueOfAppend ==
  ASSUME NEW S, NEW s \in Seq(S), NEW c \in S, NEW base
  PROVE  Value(Append(s, c), base) =
           IF c \in DigitCharacters THEN Value(s, base) * base + Worth(c)
           ELSE Value(s, base)
<1> DEFINE t == Append(s, c)
           n == Len(s)
<1>1. n \in Nat /\ Len(t) = n + 1 /\ t[n + 1] = c /\ \A k \in 1 .. n : t[k] = s[k]
  OBVIOUS
<1> HIDE DEF t
<1>2. PICK g : Counts(g, s, base, n) /\ Value(s, base) = g[n]
  BY <1>1, ValueCounts
<1>3. PICK h : Counts(h, t, base, n + 1) /\ Value(t, base) = h[n + 1]
  BY <1>1, ValueCounts
<1>4. h[n] = g[n]
  <2> HIDE DEF n
  <2>1. n <= n + 1 /\ n <= n /\ n + 1 \in Nat /\ \A k \in 1 .. n : s[k] = t[k]
    BY <1>1
  <2>2. n \in Nat /\ Counts(g, s, base, n) /\ Counts(h, t, base, n + 1)
    BY <1>1, <1>2, <1>3
  <2>3. g[n] = h[n]
    BY <2>1, <2>2, CountsAgree
  <2> QED BY <2>3
<1>5. h[n + 1] = Counted(t, base, n + 1, h[n])
  <2>1. n + 1 \in 0 .. n + 1 /\ n + 1 # 0 /\ (n + 1) - 1 = n
    BY <1>1
  <2> QED BY <1>3, <2>1 DEF Counts
<1>6. Value(t, base) = Counted(t, base, n + 1, Value(s, base))
  BY <1>2, <1>3, <1>4, <1>5
<1> QED BY <1>1, <1>6 DEF Counted, t

-----------------------------------------------------------------------------
(* Digits.                                                                  *)

DigitTables == {LowerDigits, UpperDigits}

LEMMA LowerIs ==
  /\ LowerDigits[1] = "0" /\ LowerDigits[2] = "1" /\ LowerDigits[3] = "2"
  /\ LowerDigits[4] = "3" /\ LowerDigits[5] = "4" /\ LowerDigits[6] = "5"
  /\ LowerDigits[7] = "6" /\ LowerDigits[8] = "7" /\ LowerDigits[9] = "8"
  /\ LowerDigits[10] = "9" /\ LowerDigits[11] = "a" /\ LowerDigits[12] = "b"
  /\ LowerDigits[13] = "c" /\ LowerDigits[14] = "d" /\ LowerDigits[15] = "e"
  /\ LowerDigits[16] = "f"
  BY DEF LowerDigits

LEMMA UpperIs ==
  /\ \A i \in 1 .. 10 : UpperDigits[i] = LowerDigits[i]
  /\ UpperDigits[11] = "A" /\ UpperDigits[12] = "B"
  /\ UpperDigits[13] = "C" /\ UpperDigits[14] = "D" /\ UpperDigits[15] = "E"
  /\ UpperDigits[16] = "F"
  BY DEF UpperDigits, LowerDigits

LEMMA TablesAre ==
  ASSUME NEW t \in DigitTables
  PROVE  /\ \A i \in 1 .. 16 : t[i] \in DigitCharacters
         /\ \A i \in 2 .. 16 : t[i] # "0"
         /\ t[1] = "0"
<1>1. DOMAIN LowerDigits = 1 .. 16 /\ DOMAIN UpperDigits = 1 .. 16
  BY DEF LowerDigits, UpperDigits
<1>2. \A i \in 1 .. 16 : t[i] \in DigitCharacters
  BY <1>1 DEF DigitTables, DigitCharacters, Range
<1>4. t[1] = "0" /\ \A i \in 2 .. 16 : t[i] # "0"
  BY LowerIs, UpperIs DEF DigitTables
<1> QED BY <1>2, <1>4

LEMMA TablesApart ==
  ASSUME NEW t \in DigitTables, NEW i \in 1 .. 16, NEW j \in 1 .. 16,
         t[i] \in {LowerDigits[j], UpperDigits[j]}
  PROVE  i = j
<1>1. \A k, l \in 1 .. 16 : LowerDigits[k] = LowerDigits[l] => k = l
  BY LowerIs
<1>2. \A k, l \in 1 .. 16 : UpperDigits[k] = LowerDigits[l] => k = l
  BY LowerIs, UpperIs
<1>3. \A k, l \in 1 .. 16 : UpperDigits[k] = UpperDigits[l] => k = l
  BY LowerIs, UpperIs
<1> QED BY <1>1, <1>2, <1>3 DEF DigitTables

LEMMA WorthOfDigit ==
  ASSUME NEW t \in DigitTables, NEW d \in 0 .. 15
  PROVE  Worth(t[d + 1]) = d
<1>1. d + 1 \in 1 .. 16 /\ t[d + 1] \in {LowerDigits[d + 1], UpperDigits[d + 1]}
  BY DEF DigitTables
<1>2. ASSUME NEW e \in 0 .. 15, t[d + 1] \in {LowerDigits[e + 1], UpperDigits[e + 1]}
      PROVE  e = d
  <2>1. e + 1 \in 1 .. 16
    OBVIOUS
  <2>2. d + 1 = e + 1
    BY <1>1, <1>2, <2>1, TablesApart
  <2> QED BY <2>2
<1> QED BY <1>1, <1>2 DEF Worth

LEMMA OtherCharacters ==
  /\ "-" \notin DigitCharacters /\ "*" \notin DigitCharacters
  /\ "l" \notin DigitCharacters /\ "ll" \notin DigitCharacters
  /\ "h" \notin DigitCharacters /\ "hh" \notin DigitCharacters
<1>1. DOMAIN LowerDigits = 1 .. 16 /\ DOMAIN UpperDigits = 1 .. 16
  BY DEF LowerDigits, UpperDigits
<1>2. ASSUME NEW i \in 1 .. 16
      PROVE  /\ LowerDigits[i] # "-" /\ LowerDigits[i] # "*"
             /\ LowerDigits[i] # "l" /\ LowerDigits[i] # "ll"
             /\ LowerDigits[i] # "h" /\ LowerDigits[i] # "hh"
  BY LowerIs
<1>3. ASSUME NEW i \in 1 .. 16
      PROVE  /\ UpperDigits[i] # "-" /\ UpperDigits[i] # "*"
             /\ UpperDigits[i] # "l" /\ UpperDigits[i] # "ll"
             /\ UpperDigits[i] # "h" /\ UpperDigits[i] # "hh"
  <2>1. CASE i \in 1 .. 10
    BY <1>2, <2>1, UpperIs
  <2>2. CASE i \in 11 .. 16
    BY <2>2, UpperIs
  <2> QED BY <2>1, <2>2
<1> QED BY <1>1, <1>2, <1>3 DEF DigitCharacters, Range

-----------------------------------------------------------------------------
(* Numerals.                                                                *)

Bases == {2, 10, 16}

LEMMA BaseDivides ==
  ASSUME NEW base \in Bases, NEW v \in Nat
  PROVE  /\ v \div base \in Nat /\ v % base \in 0 .. base - 1
         /\ v = (v \div base) * base + (v % base)
         /\ v > 0 => v \div base < v
         /\ base \in Nat /\ base > 1 /\ base <= 16
<1>1. base \in Nat /\ base \in Int /\ base > 1 /\ base <= 16
  BY DEF Bases
<1>2. PICK q \in Int, r \in 0 .. base - 1 :
        q = v \div base /\ r = v % base /\ v = base * q + r
  BY <1>1, Division
<1>3. base * q = q * base
  BY <1>1
<1>4. q >= 0
  <2>1. q <= -1 => base * q <= -base
    BY DEF Bases
  <2> QED BY <1>1, <1>2, <2>1
<1>5. v > 0 => q < v
  BY <1>2, <1>4 DEF Bases
<1>6. q * base + r = v /\ q \in Nat
  BY <1>1, <1>2, <1>3, <1>4
<1>7. v = (v \div base) * base + (v % base)
  <2>0. base \in Int /\ base > 0 /\ v \in Int
    BY <1>1
  <2>1. v = base * (v \div base) + (v % base) /\ v \div base \in Int
    BY <2>0, Division, Zenon
  <2>2. \A x, y \in Int : x * y = y * x
    OBVIOUS
  <2>3. base * (v \div base) = (v \div base) * base
    BY <1>1, <2>1, <2>2, Zenon
  <2> QED BY <2>1, <2>3, Zenon
<1>8. v \div base \in Nat /\ v % base \in 0 .. base - 1
  BY <1>2, <1>6, Zenon
<1>9. v > 0 => v \div base < v
  BY <1>2, <1>5, Zenon
<1> QED BY <1>1, <1>7, <1>8, <1>9

Written(digits, base, v, before) ==
  IF v = 0 THEN <<>> ELSE Append(before, digits[(v % base) + 1])

Numerals(g, base, digits, n) ==
  g = [v \in 0 .. n |-> Written(digits, base, v, g[v \div base])]

LEMMA NumeralsExist ==
  ASSUME NEW base \in Bases, NEW digits
  PROVE  \A n \in Nat : \E g : Numerals(g, base, digits, n)
<1> DEFINE S == {n \in Nat : \E g : Numerals(g, base, digits, n)}
<1>1. 0 \in S
  <2> DEFINE g == [v \in 0 .. 0 |-> <<>>]
  <2>1. Numerals(g, base, digits, 0)
    BY DEF Numerals, Written
  <2> QED BY <2>1
<1>2. ASSUME NEW n \in Nat, n \in S PROVE n + 1 \in S
  <2>1. PICK g : Numerals(g, base, digits, n)
    BY <1>2
  <2> DEFINE w == Written(digits, base, n + 1, g[(n + 1) \div base])
             h == [v \in 0 .. n + 1 |-> IF v = n + 1 THEN w ELSE g[v]]
  <2> HIDE DEF w
  <2>2. ASSUME NEW v \in 0 .. n + 1
        PROVE  h[v] = Written(digits, base, v, h[v \div base])
    <3>1. CASE v = 0
      <4>1. h[v] = g[0] /\ g[0] = <<>>
        BY <2>1, <3>1 DEF Numerals, Written
      <4> QED BY <3>1, <4>1 DEF Written
    <3>2. CASE v # 0
      <4>1. v \div base \in 0 .. n + 1 /\ v \div base < v /\ v \div base # n + 1
        BY <3>2, BaseDivides
      <4>2. h[v \div base] = g[v \div base]
        BY <4>1
      <4>3. h[v] = Written(digits, base, v, g[v \div base])
        BY <2>1 DEF Numerals, w
      <4> QED BY <4>2, <4>3
    <3> QED BY <3>1, <3>2
  <2>3. Numerals(h, base, digits, n + 1)
    BY <2>2 DEF Numerals
  <2> HIDE DEF h
  <2> QED BY <2>3
<1> HIDE DEF S
<1>3. Nat \subseteq S
  BY <1>1, <1>2, Induction
<1> QED BY <1>3 DEF S

\* The numeral of a number is that of its quotient and one digit more.
LEMMA NumeralIs ==
  ASSUME NEW base \in Bases, NEW digits, NEW v \in Nat, v < 2^LONG
  PROVE  Numeral(v, base, digits) =
           Written(digits, base, v, Numeral(v \div base, base, digits))
<1> DEFINE Eq(g) == g = [u \in 0 .. 2^LONG - 1 |->
                          IF u = 0 THEN <<>>
                          ELSE Append(g[u \div base], digits[(u % base) + 1])]
           before == CHOOSE g : Eq(g)
<1>1. PICK n \in Nat : n = 2^LONG - 1
  <2>1. LONG \in 0 .. LONG
    BY WidthsAre
  <2> QED BY <2>1, PowerNat
<1>2. \A g : Eq(g) <=> Numerals(g, base, digits, n)
  BY <1>1 DEF Numerals, Written
<1>3. \E g : Eq(g)
  BY <1>2, NumeralsExist
<1>4. Eq(before)
  BY <1>3
<1>5. \A u : Numeral(u, base, digits) = before[u]
  BY DEF Numeral
<1>6. v \in 0 .. n
  <2>1. LONG \in 0 .. LONG
    BY WidthsAre
  <2>2. 2^LONG \in Nat
    BY <2>1, PowerNat
  <2> QED BY <1>1, <2>2
<1>7. Numerals(before, base, digits, n)
  BY <1>2, <1>4
<1> HIDE DEF before
<1>8. before[v] = Written(digits, base, v, before[v \div base])
  BY <1>6, <1>7 DEF Numerals
<1> QED BY <1>5, <1>8

\* What a numeral is: digits that are worth the number, none of them a leading
\* zero, and how many.
Reads(d, v, base) ==
  /\ d \in Seq(DigitCharacters) /\ Value(d, base) = v
  /\ v = 0 => d = <<>>
  /\ v > 0 => Len(d) >= 1 /\ d[1] # "0"

Short(d, v, base) ==
  /\ base >= 8 => \A n \in 0 .. LONG : v < 2^n => 3 * Len(d) <= n + 2
  /\ base = 2 => \A n \in 0 .. LONG : /\ v < 2^n => Len(d) <= n
                                      /\ v >= 2^n => Len(d) >= n + 1

LEMMA ReadsNothing == \A base : Reads(<<>>, 0, base)
<1>1. <<>> \in Seq(DigitCharacters)
  OBVIOUS
<1> QED BY <1>1, ValueOfEmpty DEF Reads

LEMMA ReadsDigit ==
  ASSUME NEW base \in Bases, NEW t \in DigitTables, NEW v \in Nat, v # 0,
         NEW e, Reads(e, v \div base, base)
  PROVE  Reads(Append(e, t[(v % base) + 1]), v, base)
<1> DEFINE c == t[(v % base) + 1]
           d == Append(e, c)
<1>1. PICK q \in Nat, r \in 0 .. base - 1 :
        q = v \div base /\ r = v % base /\ v = q * base + r
  BY BaseDivides
<1>2. base \in Nat /\ base <= 16 /\ base > 1
  BY BaseDivides
<1>3. r \in 0 .. 15 /\ r + 1 \in 1 .. 16
  BY <1>2
<1>4. c = t[r + 1] /\ c \in DigitCharacters /\ Worth(c) = r
  BY <1>1, <1>3, TablesAre, WorthOfDigit
<1>5. e \in Seq(DigitCharacters) /\ Value(e, base) = q
  BY <1>1 DEF Reads
<1> HIDE DEF c
<1>6. /\ d \in Seq(DigitCharacters) /\ Len(d) = Len(e) + 1 /\ Len(e) \in Nat
      /\ d[Len(e) + 1] = c /\ \A i \in 1 .. Len(e) : d[i] = e[i]
  BY <1>4, <1>5
<1>7. Value(d, base) = q * base + r
  BY <1>4, <1>5, ValueOfAppend
<1>8. d[1] # "0"
  <2>1. CASE q = 0
    <3>1. q * base = 0
      BY <1>2, <2>1
    <3>2. r # 0 /\ r + 1 \in 2 .. 16
      BY <1>1, <1>3, <3>1
    <3>3. c # "0"
      BY <1>4, <3>2, TablesAre
    <3>4. e = <<>>
      BY <1>1, <2>1 DEF Reads
    <3>5. Len(e) + 1 = 1
      BY <3>4
    <3> QED BY <1>6, <3>3, <3>5
  <2>2. CASE q > 0
    <3>1. Len(e) >= 1 /\ e[1] # "0"
      BY <1>1, <2>2 DEF Reads
    <3>2. 1 \in 1 .. Len(e)
      BY <1>6, <3>1
    <3> QED BY <1>6, <3>1, <3>2
  <2> QED BY <2>1, <2>2
<1> HIDE DEF d
<1>9. Len(d) >= 1 /\ v > 0
  BY <1>6
<1>10. Reads(d, v, base)
  BY <1>1, <1>6, <1>7, <1>8, <1>9 DEF Reads
<1> QED BY <1>10 DEF d, c

LEMMA ShortDigit ==
  ASSUME NEW base \in Bases, NEW v \in Nat, v # 0,
         NEW e, Len(e) \in Nat, v \div base = 0 => Len(e) = 0,
         Short(e, v \div base, base), NEW d, Len(d) = Len(e) + 1
  PROVE  Short(d, v, base)
<1>1. PICK q \in Nat, r \in 0 .. base - 1 :
        q = v \div base /\ r = v % base /\ v = q * base + r
  <2>1. /\ v \div base \in Nat /\ v % base \in 0 .. base - 1
        /\ v = (v \div base) * base + (v % base)
    BY BaseDivides, Zenon
  <2> QED BY <2>1, Zenon
<1>2. ASSUME base >= 8, NEW n \in 0 .. LONG, v < 2^n
      PROVE  3 * Len(d) <= n + 2
  <2>0. n \in Nat /\ 2^n \in Nat
    BY PowerNat, WidthsAre
  <2>1. CASE n >= 3
    <3>1. n \in 1 .. LONG /\ n - 1 \in 1 .. LONG /\ n - 2 \in 1 .. LONG
          /\ (n - 1) - 1 = n - 2 /\ (n - 2) - 1 = n - 3 /\ n - 3 \in 0 .. LONG
      BY <2>1, WidthsAre
    <3>2. 2^n = 2 * 2^(n - 1) /\ 2^(n - 1) = 2 * 2^(n - 2) /\ 2^(n - 2) = 2 * 2^(n - 3)
      BY <3>1, PowerPrevious
    <3>3. PICK x \in Nat : x = 2^(n - 3)
      BY <3>1, PowerNat
    <3>4. PICK y \in Nat : y = 2^n /\ y = 8 * x
      BY <2>0, <3>2, <3>3
    <3>5. q < x
      BY <1>1, <1>2, <3>4 DEF Bases
    <3>6. 3 * Len(e) <= (n - 3) + 2
      BY <1>1, <1>2, <3>1, <3>3, <3>5 DEF Short
    <3> QED BY <2>0, <3>6
  <2>2. CASE n < 3
    <3>1. 2^0 = 1 /\ 2^1 = 2 /\ 2^2 = 4
      OBVIOUS
    <3>2. n = 0 \/ n = 1 \/ n = 2
      BY <2>0, <2>2
    <3>3. v < 4 /\ n # 0
      <4>1. n = 0 => v < 1
        BY <1>2, <3>1
      <4>2. n = 1 => v < 2
        BY <1>2, <3>1
      <4>3. n = 2 => v < 4
        BY <1>2, <3>1
      <4> QED BY <3>2, <4>1, <4>2, <4>3
    <3>4. q = 0
      BY <1>1, <1>2, <3>3 DEF Bases
    <3>5. Len(d) = 1 /\ n >= 1
      BY <1>1, <2>0, <3>3, <3>4
    <3>6. 3 * 1 <= n + 2
      BY <2>0, <3>5
    <3> QED BY <3>5, <3>6
  <2> QED BY <2>0, <2>1, <2>2
<1>3. ASSUME base = 2, NEW n \in 0 .. LONG
      PROVE  (v < 2^n => Len(d) <= n) /\ (v >= 2^n => Len(d) >= n + 1)
  <2>1. CASE n = 0
    <3>1. 2^n = 1
      BY <2>1, PowerLow
    <3> QED BY <2>1, <3>1
  <2>2. CASE n # 0
    <3>1. n \in 1 .. LONG /\ n - 1 \in 0 .. LONG /\ n \in Nat
      BY <2>2, WidthsAre
    <3>2. PICK x \in Nat : x = 2^(n - 1)
      BY <3>1, PowerNat
    <3>3. 2^n = 2 * x
      BY <3>1, <3>2, PowerPrevious
    <3>4. /\ v < 2 * x => q < x
          /\ v >= 2 * x => q >= x
      BY <1>1, <1>3
    <3>5. (q < x => Len(e) <= n - 1) /\ (q >= x => Len(e) >= (n - 1) + 1)
      BY <1>1, <1>3, <3>1, <3>2 DEF Short
    <3> QED BY <3>1, <3>3, <3>4, <3>5
  <2> QED BY <2>1, <2>2
<1> QED BY <1>2, <1>3 DEF Short

LEMMA ShortNothing == \A base \in Bases : Short(<<>>, 0, base)
<1> SUFFICES ASSUME NEW base \in Bases, NEW n \in 0 .. LONG
             PROVE  /\ 3 * Len(<<>>) <= n + 2 /\ Len(<<>>) <= n
                    /\ 0 >= 2^n => Len(<<>>) >= n + 1
  BY DEF Short
<1>1. n \in Nat /\ 2^n \in Nat \ {0} /\ Len(<<>>) = 0
  BY PowerNat, WidthsAre
<1> QED BY <1>1

LEMMA NumeralReads ==
  ASSUME NEW base \in Bases, NEW t \in DigitTables, NEW u \in Nat, u < 2^LONG
  PROVE  /\ Reads(Numeral(u, base, t), u, base)
         /\ Short(Numeral(u, base, t), u, base)
<1> DEFINE N(v) == Numeral(v, base, t)
           Good(v) == Reads(N(v), v, base) /\ Short(N(v), v, base)
           S == {n \in Nat : \A v \in 0 .. n : v < 2^LONG => Good(v)}
<1>0. 2^LONG \in Nat \ {0}
  <2>1. LONG \in 0 .. LONG
    BY WidthsAre
  <2> QED BY <2>1, PowerNat
<1>1. 0 \in S
  <2>1. N(0) = <<>>
    <3>1. 0 \in Nat /\ 0 < 2^LONG
      BY <1>0
    <3>2. N(0) = Written(t, base, 0, N(0 \div base))
      BY <3>1, NumeralIs
    <3> QED BY <3>2 DEF Written
  <2>2. Good(0)
    BY <2>1, ReadsNothing, ShortNothing
  <2> QED BY <2>2
<1>2. ASSUME NEW n \in Nat, n \in S PROVE n + 1 \in S
  <2> SUFFICES ASSUME n + 1 < 2^LONG PROVE Good(n + 1)
    BY <1>2
  <2> DEFINE v == n + 1
             q == v \div base
             c == t[(v % base) + 1]
  <2>1. v \in Nat /\ v # 0 /\ v > 0
    OBVIOUS
  <2>2. q \in Nat /\ q < v
    BY <2>1, BaseDivides
  <2>3. q \in 0 .. n /\ q < 2^LONG
    BY <1>0, <2>1, <2>2
  <2> HIDE DEF q
  <2>4. Good(q)
    BY <1>2, <2>3
  <2> HIDE DEF v
  <2>5. N(v) = Append(N(q), c)
    <3>1. v < 2^LONG
      BY DEF v
    <3>2. N(v) = Written(t, base, v, N(v \div base))
      BY <2>1, <3>1, NumeralIs
    <3> QED BY <2>1, <3>2 DEF Written, q
  <2> HIDE DEF N
  <2>6. Reads(N(v), v, base)
    BY <2>1, <2>4, <2>5, ReadsDigit DEF q
  <2>7. Len(N(q)) \in Nat /\ (q = 0 => Len(N(q)) = 0) /\ Len(N(v)) = Len(N(q)) + 1
    <3>1. N(q) \in Seq(DigitCharacters) /\ (q = 0 => N(q) = <<>>)
      BY <2>4 DEF Reads
    <3>2. Len(N(q)) \in Nat /\ (q = 0 => Len(N(q)) = 0)
      BY <3>1
    <3>3. Len(Append(N(q), c)) = Len(N(q)) + 1
      BY <3>1
    <3> QED BY <2>5, <3>2, <3>3
  <2>8. Short(N(v), v, base)
    BY <2>1, <2>4, <2>7, ShortDigit DEF q
  <2> QED BY <2>6, <2>8 DEF v
<1> HIDE DEF S
<1>3. Nat \subseteq S
  BY <1>1, <1>2, Induction
<1>4. u \in S /\ u \in 0 .. u
  BY <1>3
<1> QED BY <1>4 DEF S

-----------------------------------------------------------------------------
(* What a conversion is given, and what it prints.                          *)

Letters == {"d", "u", "x", "X", "b", "p"}

LEMMA LettersAre ==
  ASSUME NEW m \in Modifiers \cup {"none"}, NEW c \in IntegerLetters(m)
  PROVE  /\ c \in Letters /\ c # "s" /\ Base(c) \in Bases
         /\ IsSigned(c) \in BOOLEAN
         /\ IsSigned(c) /\ Base(c) = 10 <=> c = "d"
         /\ IsSigned(c) <=> c \in {"d", "b"}
         /\ c = "b" => Base(c) = 2 /\ Bits(m, c) = INT /\ m = "none"
         /\ c # "b" => Base(c) >= 8
<1>1. c \in Letters /\ c # "s"
  BY DEF IntegerLetters, Letters, Modifiers
<1>2. CASE c = "d"
  BY <1>1, <1>2 DEF Base, Bases, IsSigned
<1>3. CASE c = "u"
  BY <1>1, <1>3 DEF Base, Bases, IsSigned
<1>4. CASE c = "b"
  <2>1. m = "none"
    BY <1>4 DEF IntegerLetters, Modifiers
  <2>2. Bits(m, c) = INT
    BY <1>4, <2>1 DEF Bits
  <2> QED BY <1>1, <1>4, <2>1, <2>2 DEF Base, Bases, IsSigned
<1>5. CASE c \in {"x", "X", "p"}
  <2>1. Base(c) = 16 /\ ~ IsSigned(c)
    BY <1>5 DEF Base, IsSigned
  <2> QED BY <1>1, <1>5, <2>1 DEF Bases, IsSigned
<1> QED BY <1>1, <1>2, <1>3, <1>4, <1>5 DEF Letters

LEMMA BitsAre ==
  ASSUME NEW m \in Modifiers \cup {"none"}, NEW c \in IntegerLetters(m)
  PROVE  /\ Bits(m, c) \in 1 .. LONG /\ Bits(m, c) \in 0 .. LONG
         /\ IF m \in {"h", "hh"} THEN Bits(m, c) < INT ELSE Bits(m, c) >= INT
         /\ Max({INT, Bits(m, c)}) = IF m \in {"h", "hh"} THEN INT ELSE Bits(m, c)
<1>1. Bits(m, c) = IF m = "hh" THEN CHAR
                   ELSE IF m = "h" THEN SHORT
                   ELSE IF m \in {"l", "ll"} \/ c = "p" THEN LONG ELSE INT
  <2>1. CASE m = "hh"
    BY <2>1, LettersAre DEF Bits, IntegerLetters
  <2>2. CASE m = "h"
    BY <2>2, LettersAre DEF Bits, IntegerLetters
  <2>3. CASE m \in {"l", "ll"}
    BY <2>3 DEF Bits
  <2>4. CASE m = "none"
    BY <2>4 DEF Bits
  <2> QED BY <2>1, <2>2, <2>3, <2>4 DEF Modifiers
<1>2. PICK b \in Nat \ {0} : b = Bits(m, c)
  BY <1>1, WidthsAre
<1>3. b \in 1 .. LONG /\ IF m \in {"h", "hh"} THEN b < INT ELSE b >= INT
  <2>1. CASE m \in {"h", "hh"}
    BY <1>1, <1>2, <2>1, WidthsAre
  <2>2. CASE m \notin {"h", "hh"}
    BY <1>1, <1>2, <2>2, WidthsAre
  <2> QED BY <2>1, <2>2
<1>4. Max({INT, b}) = IF b > INT THEN b ELSE INT
  BY WidthsAre DEF Max
<1>5. Max({INT, b}) = IF m \in {"h", "hh"} THEN INT ELSE b
  BY <1>3, <1>4, WidthsAre
<1> QED BY <1>2, <1>3, <1>5

\* The field that a conversion is given, as FieldSent sees it.
Given(f, m, c, arg) == f.modifier = m /\ f.letter = c /\ f.arg = arg

LEMMA MeantIs ==
  ASSUME NEW m \in Modifiers \cup {"none"}, NEW c \in IntegerLetters(m), NEW arg,
         NEW f, Given(f, m, c, arg), NEW v, (v - arg) % 2^Bits(m, c) = 0,
         v \in IF IsSigned(c) THEN SignedRange(Bits(m, c))
               ELSE IF m \in {"h", "hh"} THEN UnsignedRange(LONG)
               ELSE UnsignedRange(Bits(m, c))
  PROVE  v \in Meant(f)
<1>1. CASE IsSigned(c)
  BY <1>1 DEF Meant, Given
<1>2. CASE ~ IsSigned(c) /\ m \in {"h", "hh"}
  BY <1>2 DEF Meant, Given
<1>3. CASE ~ IsSigned(c) /\ m \notin {"h", "hh"}
  BY <1>3 DEF Meant, Given
<1> QED BY <1>1, <1>2, <1>3

\* The magnitude that simple_outputi writes.
Magnitude(c, i) == (IF c = "d" /\ i < 0 THEN -i ELSE i) % 2^LONG

LEMMA SignedMeant ==
  ASSUME NEW m \in Modifiers \cup {"none"}, NEW c \in IntegerLetters(m), IsSigned(c),
         NEW arg \in Arguments(m, c), NEW i \in Passed(m, c, arg),
         NEW f, Given(f, m, c, arg)
  PROVE  /\ i \in Int /\ i \in Meant(f)
         /\ c = "b" => i = arg
         /\ i >= 0 => Magnitude(c, i) = i
         /\ c = "d" /\ i < 0 => Magnitude(c, i) = -i
         /\ c = "b" /\ i < 0 => Magnitude(c, i) = i + 2^LONG /\ i + 2^LONG >= 2^(LONG - 1)
         /\ i < 2^LONG /\ -i < 2^LONG
         /\ c = "b" => i < 2^(INT - 1)
<1> DEFINE bits == Bits(m, c)
<1>1. bits \in 1 .. LONG /\ bits \in 0 .. LONG
  BY BitsAre
<1>2. Passed(m, c, arg) = {Signed(arg, bits)}
  BY DEF Passed
<1>3. arg \in SignedRange(Max({INT, bits})) /\ Max({INT, bits}) \in 1 .. LONG
  BY BitsAre, WidthsAre DEF Arguments
<1> HIDE DEF bits
<1>4. arg \in Int
  <2>1. PICK h \in Nat : SignedRange(Max({INT, bits})) = -h .. h - 1
    BY <1>3, Halved
  <2> QED BY <1>3, <2>1
<1>5. i \in SignedRange(bits) /\ (i - arg) % 2^bits = 0
  BY <1>1, <1>2, <1>4, SignedIs
<1>6. i \in Meant(f)
  BY <1>5, MeantIs DEF bits
<1>7. PICK h \in Nat \ {0} : 2^bits = 2 * h /\ 2^(bits - 1) = h
                             /\ SignedRange(bits) = -h .. h - 1
  BY <1>1, Halved
<1>8. PICK M \in Nat \ {0}, k \in Nat \ {0} :
        M = 2^LONG /\ M = 2 * k /\ 2^(LONG - 1) = k
  <2>1. LONG \in 1 .. LONG
    BY WidthsAre
  <2>2. PICK k \in Nat \ {0} : 2^LONG = 2 * k /\ 2^(LONG - 1) = k
    BY <2>1, Halved
  <2>3. 2 * k \in Nat \ {0}
    OBVIOUS
  <2> QED BY <2>2, <2>3
<1>9. 2 * h <= M
  <2>1. LONG \in 0 .. LONG /\ bits <= LONG
    BY <1>1, WidthsAre
  <2>2. 2^bits <= 2^LONG
    BY <1>1, <2>1, PowerGrows
  <2> QED BY <1>7, <1>8, <2>2
<1>10. i \in Int /\ -h <= i /\ i < h /\ i < M /\ -i < M /\ -k <= i
  BY <1>5, <1>7, <1>8, <1>9
<1>11. i >= 0 => Magnitude(c, i) = i
  <2>1. i >= 0 => i % M = i
    BY <1>10, RemainderSmall
  <2>2. i >= 0 => Magnitude(c, i) = i % M
    BY <1>8, <1>10 DEF Magnitude
  <2> QED BY <2>1, <2>2
<1>12. c = "d" /\ i < 0 => Magnitude(c, i) = -i
  <2>1. i < 0 => (-i) % M = -i
    <3>1. i < 0 => -i \in Nat /\ -i < M
      BY <1>10
    <3> QED BY <3>1, RemainderSmall
  <2>2. c = "d" /\ i < 0 => Magnitude(c, i) = (-i) % M
    BY <1>8 DEF Magnitude
  <2> QED BY <2>1, <2>2
<1>13. c = "b" /\ i < 0 => Magnitude(c, i) = i + M /\ i + M >= k
  <2>1. i < 0 => i % M = i + M
    BY <1>10, RemainderNegative
  <2>2. c = "b" => Magnitude(c, i) = i % M
    BY <1>8 DEF Magnitude
  <2> QED BY <1>8, <1>10, <2>1, <2>2
<1>14. c = "b" => i = arg /\ i < 2^(INT - 1)
  <2> SUFFICES ASSUME c = "b" PROVE i = arg /\ i < 2^(INT - 1)
    OBVIOUS
  <2>1. bits = INT /\ m = "none"
    BY LettersAre DEF bits
  <2>2. Max({INT, bits}) = bits
    BY <2>1, BitsAre DEF bits
  <2>3. i = arg
    BY <1>1, <1>2, <1>3, <2>2, SignedSame
  <2> QED BY <1>7, <1>10, <2>1, <2>3
<1> QED BY <1>6, <1>8, <1>10, <1>11, <1>12, <1>13, <1>14

LEMMA UnsignedMeant ==
  ASSUME NEW m \in Modifiers \cup {"none"}, NEW c \in IntegerLetters(m), ~ IsSigned(c),
         NEW arg \in Arguments(m, c), NEW i \in Passed(m, c, arg),
         NEW f, Given(f, m, c, arg)
  PROVE  /\ i \in Int /\ c # "d" /\ c # "b"
         /\ Magnitude(c, i) \in Nat /\ Magnitude(c, i) < 2^LONG
         /\ Magnitude(c, i) \in Meant(f)
         /\ i = 0 <=> Magnitude(c, i) = 0
<1> DEFINE bits == Bits(m, c)
           u == Magnitude(c, i)
<1>1. bits \in 1 .. LONG /\ bits \in 0 .. LONG /\ bits <= LONG
      /\ LONG \in 0 .. LONG /\ LONG \in 1 .. LONG
  <2>1. bits \in 1 .. LONG /\ bits \in 0 .. LONG
    BY BitsAre
  <2> HIDE DEF bits
  <2> QED BY <2>1, WidthsAre
<1>2. c # "d" /\ c # "b"
  BY LettersAre
<1>3. PICK M \in Nat \ {0}, k \in Nat \ {0} :
        M = 2^LONG /\ M = 2 * k /\ SignedRange(LONG) = -k .. k - 1
  <2>1. PICK k \in Nat \ {0} : 2^LONG = 2 * k /\ SignedRange(LONG) = -k .. k - 1
    BY <1>1, Halved
  <2>2. 2 * k \in Nat \ {0}
    OBVIOUS
  <2> QED BY <2>1, <2>2
<1>4. arg \in UnsignedRange(Max({INT, bits}))
  BY DEF Arguments
<1>5. Max({INT, bits}) \in 0 .. LONG
  BY <1>1, BitsAre, WidthsAre
<1>6. PICK A \in Nat \ {0} : A = 2^bits
  BY <1>1, PowerNat
<1>7. PICK q \in Nat \ {0} : M = A * q
  BY <1>1, <1>3, <1>6, PowerSplit
<1>8. arg \in Int
  <2>1. PICK x \in Nat : x = 2^Max({INT, bits})
    BY <1>5, PowerNat
  <2> QED BY <1>4, <2>1 DEF UnsignedRange
<1>9. i \in SignedRange(LONG) /\ (i - arg) % A = 0
  <2>1. CASE m \in {"h", "hh"}
    BY <1>6, <2>1 DEF Passed
  <2>2. CASE m \notin {"h", "hh"}
    <3>1. i = Signed(arg, LONG)
      BY <2>2 DEF Passed
    <3>2. i \in SignedRange(LONG) /\ (i - arg) % M = 0
      BY <1>1, <1>3, <1>8, <3>1, SignedIs
    <3>3. i \in Int /\ (arg - arg) % A = 0
      <4>1. arg - arg = 0 /\ 0 = 0 * A
        BY <1>8
      <4>2. 0 % A = 0
        BY <4>1, Multiple
      <4> QED BY <1>3, <3>2, <4>1, <4>2
    <3>4. (i - arg) % A = 0
      BY <1>7, <1>8, <3>2, <3>3, MultipleOfFactor
    <3> QED BY <3>2, <3>4
  <2> QED BY <2>1, <2>2
<1>10. i \in Int /\ -k <= i /\ i < k
  BY <1>3, <1>9
<1>11. u = i % M
  BY <1>2, <1>3 DEF Magnitude
<1> HIDE DEF bits, u
<1>12. u \in Nat /\ u < M
  BY <1>10, <1>11, Division
<1>13. i = 0 <=> u = 0
  <2>1. i >= 0 => i % M = i
    BY <1>3, <1>10, RemainderSmall
  <2>2. i < 0 => i % M = i + M
    BY <1>3, <1>10, RemainderNegative
  <2>3. i >= 0 => u = i
    BY <1>11, <2>1
  <2>4. i < 0 => u = i + 2 * k /\ i + 2 * k > 0
    BY <1>3, <1>10, <1>11, <2>2
  <2> QED BY <1>10, <2>3, <2>4
<1>14. (u - arg) % A = 0
  <2>1. (u - i) % M = 0
    BY <1>10, <1>11, RemainderDiffers
  <2>2. u \in Int
    BY <1>12
  <2>3. A \in Nat \ {0} /\ M \in Nat \ {0} /\ q \in Nat \ {0} /\ i \in Int
    BY <1>10
  <2>4. (i - arg) % A = 0
    BY <1>9
  <2>5. M = A * q /\ arg \in Int
    BY <1>7, <1>8
  <2>6. \A x, y, z \in Int : (x - y) % M = 0 /\ (y - z) % A = 0 => (x - z) % A = 0
    BY <2>3, <2>5, MultipleOfFactor
  <2> QED BY <2>1, <2>2, <2>3, <2>4, <2>5, <2>6, Zenon
<1>15. u \in IF m \in {"h", "hh"} THEN UnsignedRange(LONG) ELSE UnsignedRange(bits)
  <2>1. CASE m \in {"h", "hh"}
    BY <1>3, <1>12, <2>1 DEF UnsignedRange
  <2>2. CASE m \notin {"h", "hh"}
    <3>1. Max({INT, bits}) = bits
      BY <2>2, BitsAre DEF bits
    <3>2. arg >= 0 /\ arg < A
      BY <1>4, <1>6, <1>8, <3>1 DEF UnsignedRange
    <3>3. A <= M
      BY <1>7, MulLe
    <3>4. arg \in Nat /\ arg < M
      BY <1>3, <1>6, <1>8, <3>2, <3>3
    <3>5. u = arg
      <4>1. i = Signed(arg, LONG)
        BY <2>2 DEF Passed
      <4>2. (i - arg) % M = 0
        BY <1>1, <1>3, <1>8, <4>1, SignedIs
      <4>3. PICK n \in Int : i - arg = n * M
        <5>1. i - arg \in Int
          BY <1>8, <1>10
        <5> QED BY <4>2, <5>1, Multiple
      <4>4. i = n * M + arg
        BY <1>8, <1>10, <4>3
      <4>5. i % M = arg
        BY <1>8, <1>10, <3>4, <4>4, RemainderIs
      <4> QED BY <1>11, <4>5
    <3> QED BY <1>6, <2>2, <3>2, <3>5, <1>8 DEF UnsignedRange
  <2> QED BY <2>1, <2>2
<1>16. u \in Meant(f)
  BY <1>6, <1>14, <1>15, MeantIs DEF bits
<1> QED BY <1>2, <1>3, <1>10, <1>12, <1>13, <1>16 DEF u

-----------------------------------------------------------------------------
(* Fields.                                                                  *)

Chars == DigitCharacters \cup STRING \cup {"-", Blank, "c", "(", "n", "u", "l", ")"}

Pad(n, zero) == [k \in 1 .. n |-> IF zero THEN "0" ELSE Blank]

Field(right, zero, w, sign, body) ==
  LET pad == Pad(w - Len(sign) - Len(body), zero)
  IN  IF right THEN sign \o body \o pad
      ELSE IF zero THEN sign \o pad \o body
      ELSE pad \o sign \o body

LEMMA SomeChars == "0" \in Chars /\ "-" \in Chars /\ Blank \in Chars
<1>1. "0" \in DigitCharacters
  <2>1. LowerDigits[1] = "0" /\ LowerDigits \in DigitTables
    BY LowerIs DEF DigitTables
  <2> QED BY <2>1, TablesAre
<1> QED BY <1>1 DEF Chars

LEMMA PadIs ==
  ASSUME NEW n \in Int, NEW zero
  PROVE  /\ Pad(n, zero) \in Seq(Chars)
         /\ Len(Pad(n, zero)) = IF n > 0 THEN n ELSE 0
         /\ n <= 0 => Pad(n, zero) = <<>>
<1>1. CASE n > 0
  BY <1>1, SomeChars DEF Pad
<1>2. CASE n <= 0
  <2>1. 1 .. n = {}
    BY <1>2
  <2>2. Pad(n, zero) = <<>>
    BY <2>1 DEF Pad
  <2> QED BY <1>2, <2>2
<1> QED BY <1>1, <1>2

LEMMA PrintsIs ==
  ASSUME NEW s, NEW w, NEW f
  PROVE  prints(s, w, f) =
           LET pad == Pad(w - Len(s), "PAD_ZERO" \in f)
           IN  IF "PAD_RIGHT" \in f THEN s \o pad ELSE pad \o s
  BY DEF prints, Pad

\* A field without a sign.
LEMMA PrintsField ==
  ASSUME NEW s \in Seq(Chars), NEW w \in Int, NEW f
  PROVE  /\ prints(s, w, f) = Field("PAD_RIGHT" \in f, "PAD_ZERO" \in f, w, <<>>, s)
         /\ prints(s, w, f) \in Seq(Chars)
<1> DEFINE zero == "PAD_ZERO" \in f
           right == "PAD_RIGHT" \in f
           pad == Pad(w - Len(s), zero)
<1>1. prints(s, w, f) = IF right THEN s \o pad ELSE pad \o s
  BY PrintsIs
<1>2. Len(s) \in Nat /\ Len(<<>>) = 0 /\ w - Len(s) \in Int
  BY LenProperties
<1>3. w - Len(<<>>) - Len(s) = w - Len(s)
  BY <1>2
<1>4. pad \in Seq(Chars) /\ <<>> \in Seq(Chars)
  BY <1>2, PadIs, EmptySeq
<1>5. Field(right, zero, w, <<>>, s) = IF right THEN <<>> \o s \o pad
                                       ELSE IF zero THEN <<>> \o pad \o s
                                       ELSE pad \o <<>> \o s
  BY <1>3 DEF Field
<1> HIDE DEF pad, zero, right
<1>6. <<>> \o s = s /\ <<>> \o pad = pad /\ pad \o <<>> = pad
  BY <1>4, ConcatEmptySeq
<1>7. prints(s, w, f) \in Seq(Chars)
  BY <1>1, <1>4, ConcatProperties
<1>8. prints(s, w, f) = Field(right, zero, w, <<>>, s)
  BY <1>1, <1>5, <1>6
<1> QED BY <1>7, <1>8 DEF zero, right

Body(i, base, u, digits) == IF i = 0 THEN <<"0">> ELSE Numeral(u, base, digits)

LEMMA Regroup ==
  ASSUME NEW s \in Seq(Chars), NEW t \in Seq(Chars), NEW u \in Seq(Chars)
  PROVE  s \o t \o u = s \o (t \o u)
  BY ConcatAssociative

\* What simple_outputi prints, whatever the width, the flags and the sign.
LEMMA OutputIs ==
  ASSUME NEW i \in Int, NEW c, IsSigned(c) /\ Base(c) = 10 <=> c = "d",
         NEW w \in Int, NEW f, NEW digits,
         NEW b, b = Body(i, Base(c), Magnitude(c, i), digits), b \in Seq(Chars)
  PROVE  LET printed == simple_outputi(i, Base(c), IsSigned(c), w, f, digits)
         IN  /\ printed.text = Field("PAD_RIGHT" \in f, "PAD_ZERO" \in f, w,
                                     IF c = "d" /\ i < 0 THEN <<"-">> ELSE <<>>, b)
             /\ printed.pc = Len(printed.text) /\ printed.pc \in Nat
             /\ printed.room \in {Len(b) + 1, Len(b) + 2}
             /\ ~ (c = "d" /\ i < 0) => printed.room = Len(b) + 1
<1> DEFINE neg == c = "d" /\ i < 0
           zero == "PAD_ZERO" \in f
           right == "PAD_RIGHT" \in f
           first == neg /\ w # 0 /\ zero
           s == (IF neg /\ ~ first THEN <<"-">> ELSE <<>>) \o b
           padded == prints(s, IF first THEN w - 1 ELSE w, f)
           minus == IF first THEN <<"-">> ELSE <<>>
           printed == simple_outputi(i, Base(c), IsSigned(c), w, f, digits)
<1>1. printed = Printed(minus, padded, Len(s) + 1)
  <2>1. CASE neg
    <3>1. IsSigned(c) /\ Base(c) = 10 /\ i < 0
      BY <2>1
    <3> QED BY <2>1, <3>1 DEF simple_outputi, Body, Magnitude
  <2>2. CASE ~ neg
    <3>1. ~ (IsSigned(c) /\ Base(c) = 10 /\ i < 0)
      BY <2>2
    <3> QED BY <2>2, <3>1 DEF simple_outputi, Body, Magnitude
  <2> QED BY <2>1, <2>2
<1>2. /\ printed.text = minus \o padded /\ printed.pc = Len(minus) + Len(padded)
      /\ printed.room = Len(s) + 1
  BY <1>1 DEF Printed
<1> HIDE DEF printed
<1>3. /\ <<"-">> \in Seq(Chars) /\ Len(<<"-">>) = 1 /\ <<>> \in Seq(Chars)
      /\ Len(<<>>) = 0 /\ Len(b) \in Nat
  BY SomeChars
<1>4. /\ <<>> \o b = b /\ <<"-">> \o b \in Seq(Chars)
      /\ Len(<<"-">> \o b) = Len(b) + 1
  BY <1>3, ConcatEmptySeq, ConcatProperties
<1>5. CASE ~ neg
  <2>1. ~ first /\ s = b /\ minus = <<>> /\ padded = prints(b, w, f)
    BY <1>4, <1>5
  <2>2. padded = Field(right, zero, w, <<>>, b) /\ padded \in Seq(Chars)
    BY <2>1, PrintsField
  <2>3. <<>> \o padded = padded /\ Len(padded) \in Nat
    BY <2>2, ConcatEmptySeq, LenProperties
  <2> HIDE DEF s, minus, padded, first
  <2>4. printed.room = Len(b) + 1 /\ printed.text = padded
    BY <1>2, <2>1, <2>3
  <2>5. printed.pc = Len(padded) /\ printed.pc \in Nat
    BY <1>2, <1>3, <2>1, <2>3
  <2> QED BY <1>5, <2>2, <2>4, <2>5 DEF printed, zero, right, neg
<1>6. CASE neg /\ first
  <2> DEFINE pad == Pad(w - 1 - Len(b), zero)
  <2>1. s = b /\ minus = <<"-">> /\ padded = prints(b, w - 1, f) /\ zero
    BY <1>4, <1>6
  <2>2. w - 1 \in Int /\ (w - 1) - Len(b) \in Int /\ w - Len(<<"-">>) - Len(b) = w - 1 - Len(b)
    BY <1>3
  <2>3. pad \in Seq(Chars)
    BY <2>2, PadIs
  <2>4. padded = IF right THEN b \o pad ELSE pad \o b
    BY <2>1, PrintsIs
  <2>5. Field(right, zero, w, <<"-">>, b) = IF right THEN <<"-">> \o b \o pad
                                            ELSE <<"-">> \o pad \o b
    BY <2>1, <2>2 DEF Field
  <2> HIDE DEF s, minus, padded, first, pad, zero, right
  <2>6. padded \in Seq(Chars) /\ Len(padded) \in Nat
    BY <2>3, <2>4, ConcatProperties, LenProperties
  <2>7. /\ <<"-">> \o b \o pad = <<"-">> \o (b \o pad)
        /\ <<"-">> \o pad \o b = <<"-">> \o (pad \o b)
    <3>1. <<"-">> \in Seq(Chars) /\ b \in Seq(Chars) /\ pad \in Seq(Chars)
      BY <1>3, <2>3, SomeChars
    <3> QED BY <3>1, Regroup
  <2>8. printed.text = Field(right, zero, w, <<"-">>, b)
    BY <1>2, <2>1, <2>4, <2>5, <2>7
  <2>9. Len(<<"-">> \o padded) = Len(<<"-">>) + Len(padded)
    BY <1>3, <2>6, ConcatProperties
  <2>10. printed.pc = Len(printed.text) /\ printed.room = Len(b) + 1
    BY <1>2, <2>1, <2>9
  <2>11. printed.pc \in Nat
    BY <1>2, <1>3, <2>1, <2>6
  <2> QED BY <1>6, <2>8, <2>10, <2>11 DEF printed, zero, right, neg
<1>7. CASE neg /\ ~ first
  <2> DEFINE pad == Pad(w - Len(<<"-">> \o b), zero)
  <2>1. s = <<"-">> \o b /\ minus = <<>> /\ padded = prints(s, w, f)
    BY <1>7
  <2>2. /\ w - Len(<<"-">> \o b) \in Int
        /\ w - Len(<<"-">> \o b) = w - Len(<<"-">>) - Len(b)
    BY <1>3, <1>4
  <2>3. pad \in Seq(Chars)
    BY <2>2, PadIs
  <2>4. padded = IF right THEN <<"-">> \o b \o pad ELSE pad \o (<<"-">> \o b)
    BY <2>1, PrintsIs
  <2>5. Field(right, zero, w, <<"-">>, b) = IF right THEN <<"-">> \o b \o pad
                                            ELSE IF zero THEN <<"-">> \o pad \o b
                                            ELSE pad \o <<"-">> \o b
    BY <2>2 DEF Field
  <2>6. zero => pad = <<>>
    <3>1. zero => w = 0
      BY <1>7
    <3>2. zero => w - Len(<<"-">> \o b) <= 0
      BY <1>3, <1>4, <3>1
    <3> QED BY <2>2, <3>2, PadIs
  <2> HIDE DEF s, minus, padded, first, pad, zero, right
  <2>7. padded \in Seq(Chars) /\ Len(padded) \in Nat
    BY <1>4, <2>3, <2>4, ConcatProperties, LenProperties
  <2>8. pad \o <<"-">> \o b = pad \o (<<"-">> \o b)
    BY <1>3, <2>3, ConcatAssociative
  <2>9. zero => <<"-">> \o pad \o b = pad \o (<<"-">> \o b)
    <3>1. <<"-">> \o <<>> = <<"-">> /\ <<>> \o (<<"-">> \o b) = <<"-">> \o b
      BY <1>3, <1>4, ConcatEmptySeq
    <3> QED BY <2>6, <3>1
  <2>10. padded = Field(right, zero, w, <<"-">>, b)
    BY <2>4, <2>5, <2>8, <2>9
  <2>11. <<>> \o padded = padded
    BY <2>7, ConcatEmptySeq
  <2>12. /\ printed.pc = Len(printed.text) /\ printed.text = padded
         /\ printed.pc \in Nat
    BY <1>2, <1>3, <2>1, <2>7, <2>11
  <2>13. printed.room = Len(b) + 2
    BY <1>2, <1>3, <1>4, <2>1
  <2> QED BY <1>7, <2>10, <2>12, <2>13 DEF printed, zero, right, neg
<1> QED BY <1>5, <1>6, <1>7

Holds(t, b) == \E first, end \in DOMAIN t : SubSeq(t, first, end) = b

LEMMA SubSeqMiddle ==
  ASSUME NEW S, NEW a \in Seq(S), NEW b \in Seq(S), NEW c \in Seq(S), Len(b) >= 1
  PROVE  Holds(a \o b \o c, b)
<1> DEFINE ab == a \o b
           abc == ab \o c
<1>1. Len(a) \in Nat /\ Len(b) \in Nat /\ Len(c) \in Nat
  BY LenProperties
<1>2. ab \in Seq(S) /\ Len(ab) = Len(a) + Len(b)
  BY ConcatProperties
<1>3. SubSeq(ab, Len(a) + 1, Len(a) + Len(b)) =
        SubSeq(b, Len(a) + 1 - Len(a), Len(a) + Len(b) - Len(a))
  <2>1. /\ Len(a) + 1 \in Len(a) + 1 .. Len(a) + Len(b)
        /\ Len(a) + Len(b) \in Len(a) + 1 .. Len(a) + Len(b)
    BY <1>1
  <2> QED BY <2>1, SubSeqOfConcat2
<1>4. Len(a) + 1 - Len(a) = 1 /\ Len(a) + Len(b) - Len(a) = Len(b)
  BY <1>1
<1>5. SubSeq(b, 1, Len(b)) = b
  BY SubSeqFull
<1> HIDE DEF ab
<1>6. /\ Len(a) + 1 \in 1 .. Len(ab) /\ Len(a) + Len(b) \in 1 .. Len(ab)
  BY <1>1, <1>2
<1>7. SubSeq(abc, Len(a) + 1, Len(a) + Len(b)) = SubSeq(ab, Len(a) + 1, Len(a) + Len(b))
  BY <1>2, <1>6, SubSeqOfConcat1
<1>8. abc \in Seq(S) /\ Len(abc) = Len(ab) + Len(c)
  BY <1>2, ConcatProperties
<1>9. Len(a) + 1 \in DOMAIN abc /\ Len(a) + Len(b) \in DOMAIN abc
  <2>1. DOMAIN abc = 1 .. Len(abc)
    BY <1>8, LenProperties
  <2> HIDE DEF abc
  <2>2. Len(ab) \in Nat
    BY <1>1, <1>2
  <2> QED BY <1>1, <1>6, <1>8, <2>1, <2>2
<1>10. Holds(abc, b)
  BY <1>3, <1>4, <1>5, <1>7, <1>9 DEF Holds
<1> QED BY <1>10 DEF ab

LEMMA FieldHolds ==
  ASSUME NEW right, NEW zero, NEW w \in Int, NEW sign \in Seq(Chars),
         NEW body \in Seq(Chars), Len(body) >= 1
  PROVE  Holds(Field(right, zero, w, sign, body), body)
<1> DEFINE pad == Pad(w - Len(sign) - Len(body), zero)
           t == Field(right, zero, w, sign, body)
<1>1. pad \in Seq(Chars)
  <2>1. w - Len(sign) - Len(body) \in Int
    BY LenProperties
  <2> QED BY <2>1, PadIs
<1>2. t = IF right THEN sign \o body \o pad
          ELSE IF zero THEN sign \o pad \o body ELSE pad \o sign \o body
  BY DEF Field
<1> HIDE DEF pad, t
<1>3. ASSUME NEW a \in Seq(Chars), t = a \o body
      PROVE  Holds(t, body)
  <2>1. <<>> \in Seq(Chars) /\ a \o body \in Seq(Chars)
    BY EmptySeq, ConcatProperties
  <2>2. a \o body \o <<>> = a \o body
    BY <2>1, ConcatEmptySeq
  <2>3. Holds(a \o body \o <<>>, body)
    BY <2>1, SubSeqMiddle
  <2> QED BY <1>3, <2>2, <2>3
<1>4. sign \o pad \in Seq(Chars) /\ pad \o sign \in Seq(Chars)
  BY <1>1, ConcatProperties
<1>5. CASE right
  <2>1. Holds(sign \o body \o pad, body)
    BY <1>1, SubSeqMiddle
  <2>2. t = sign \o body \o pad
    BY <1>2, <1>5
  <2> QED BY <2>1, <2>2 DEF t
<1>6. CASE ~ right /\ zero
  <2>1. t = (sign \o pad) \o body
    BY <1>2, <1>6
  <2> QED BY <1>3, <1>4, <2>1 DEF t
<1>7. CASE ~ right /\ ~ zero
  <2>1. t = (pad \o sign) \o body
    BY <1>2, <1>7
  <2> QED BY <1>3, <1>4, <2>1 DEF t
<1> QED BY <1>5, <1>6, <1>7 DEF t

\* The digits that simple_outputi writes are a numeral of the magnitude.
LEMMA BodyIs ==
  ASSUME NEW i, NEW base \in Bases, NEW u \in Nat, u < 2^LONG, i = 0 <=> u = 0,
         NEW t \in DigitTables, NEW v \in Int, u = IF v < 0 THEN -v ELSE v
  PROVE  LET b == Body(i, base, u, t)
         IN  /\ b \in Seq(DigitCharacters) /\ b \in Seq(Chars) /\ Len(b) >= 1
             /\ Writes(b, v, base)
             /\ i = 0 => Len(b) = 1
             /\ i # 0 => Short(b, u, base)
<1> DEFINE b == Body(i, base, u, t)
<1>1. CASE i = 0
  <2>1. b = <<"0">>
    BY <1>1 DEF Body
  <2> HIDE DEF b
  <2>2. "0" \in DigitCharacters /\ Worth("0") = 0
    <3>1. LowerDigits \in DigitTables /\ LowerDigits[1] = "0" /\ 0 + 1 = 1 /\ 0 \in 0 .. 15
      BY LowerIs DEF DigitTables
    <3>2. Worth(LowerDigits[0 + 1]) = 0
      BY <3>1, WorthOfDigit
    <3> QED BY <3>1, <3>2, TablesAre
  <2>3. b \in Seq(DigitCharacters) /\ Len(b) = 1
    BY <2>1, <2>2
  <2>4. Value(b, base) = 0
    <3>1. <<>> \in Seq(DigitCharacters) /\ b = Append(<<>>, "0")
      BY <2>1
    <3>2. Value(b, base) = Value(<<>>, base) * base + Worth("0")
      BY <2>2, <3>1, ValueOfAppend
    <3>3. Value(<<>>, base) = 0 /\ 0 * base + 0 = 0
      BY ValueOfEmpty DEF Bases
    <3> QED BY <2>2, <3>2, <3>3
  <2>5. b \in Seq(Chars)
    BY <2>1, SomeChars
  <2>6. Range(b) \subseteq DigitCharacters
    BY <2>3, LenProperties, ElementOfSeq DEF Range
  <2>7. Writes(b, v, base)
    BY <1>1, <2>3, <2>4, <2>6 DEF Writes
  <2>8. /\ b \in Seq(DigitCharacters) /\ b \in Seq(Chars) /\ Len(b) >= 1
        /\ Writes(b, v, base)
        /\ i = 0 => Len(b) = 1
        /\ i # 0 => Short(b, u, base)
    BY <1>1, <2>3, <2>5, <2>7
  <2> QED BY <2>8 DEF b
<1>2. CASE i # 0
  <2>1. b = Numeral(u, base, t)
    BY <1>2 DEF Body
  <2>2. Reads(b, u, base) /\ Short(b, u, base)
    BY <2>1, NumeralReads
  <2> HIDE DEF b
  <2>3. b \in Seq(DigitCharacters) /\ Value(b, base) = u /\ Len(b) >= 1 /\ b[1] # "0"
    BY <1>2, <2>2 DEF Reads
  <2>4. b \in Seq(Chars)
    <3>1. DigitCharacters \subseteq Chars
      BY DEF Chars
    <3> QED BY <2>3, <3>1, SeqMonotonic
  <2>5. Range(b) \subseteq DigitCharacters
    BY <2>3 DEF Range
  <2>6. Writes(b, v, base)
    BY <2>3, <2>5 DEF Writes
  <2> QED BY <1>2, <2>2, <2>3, <2>4, <2>6 DEF b
<1> QED BY <1>1, <1>2

LEMMA FilledIs ==
  ASSUME NEW f, NEW fl, NEW w, w = AskedWidth(f),
         "PAD_RIGHT" \in fl <=> Contains(f.asked, "-"),
         "PAD_ZERO" \in fl <=> AsksZeros(f), NEW sign, NEW body
  PROVE  Filled(f, sign, body) =
           Field("PAD_RIGHT" \in fl, "PAD_ZERO" \in fl, w, sign, body)
<1> DEFINE pad == Pad(w - Len(sign) - Len(body), "PAD_ZERO" \in fl)
<1>1. pad = [k \in 1 .. AskedWidth(f) - Len(sign) - Len(body) |->
               IF AsksZeros(f) THEN "0" ELSE Blank]
  <2>1. CASE AsksZeros(f)
    BY <2>1 DEF Pad
  <2>2. CASE ~ AsksZeros(f)
    BY <2>2 DEF Pad
  <2> QED BY <2>1, <2>2
<1> HIDE DEF pad
<1>2. Filled(f, sign, body) = IF Contains(f.asked, "-") THEN sign \o body \o pad
                              ELSE IF AsksZeros(f) THEN sign \o pad \o body
                              ELSE pad \o sign \o body
  BY <1>1 DEF Filled
<1>3. Field("PAD_RIGHT" \in fl, "PAD_ZERO" \in fl, w, sign, body) =
        IF "PAD_RIGHT" \in fl THEN sign \o body \o pad
        ELSE IF "PAD_ZERO" \in fl THEN sign \o pad \o body ELSE pad \o sign \o body
  BY DEF Field, pad
<1>4. CASE Contains(f.asked, "-")
  BY <1>2, <1>3, <1>4
<1>5. CASE ~ Contains(f.asked, "-") /\ AsksZeros(f)
  BY <1>2, <1>3, <1>5
<1>6. CASE ~ Contains(f.asked, "-") /\ ~ AsksZeros(f)
  BY <1>2, <1>3, <1>6
<1> QED BY <1>4, <1>5, <1>6

DigitsFor(c) == IF c = "X" THEN UpperDigits ELSE LowerDigits

\* The %b of a negative number overruns print_buf.
LEMMA NegativeOverruns ==
  ASSUME NEW m \in Modifiers \cup {"none"}, NEW c \in IntegerLetters(m),
         NEW arg \in Arguments(m, c), NEW i \in Passed(m, c, arg), c = "b", i < 0,
         NEW w \in Int, NEW fl
  PROVE  LET printed == simple_outputi(i, Base(c), IsSigned(c), w, fl, DigitsFor(c))
         IN  /\ arg < 0 /\ printed.room > LONG
             /\ printed.pc = Len(printed.text) /\ printed.pc \in Nat
<1> DEFINE u == Magnitude(c, i)
           f == [modifier |-> m, letter |-> c, arg |-> arg]
           b == Body(i, 2, u, DigitsFor(c))
           printed == simple_outputi(i, Base(c), IsSigned(c), w, fl, DigitsFor(c))
<1>1. IsSigned(c) /\ Base(c) = 2 /\ 2 \in Bases
  BY LettersAre DEF Bases
<1>2. Given(f, m, c, arg)
  BY DEF Given
<1>3. /\ i \in Int /\ i = arg /\ i < 2^LONG /\ -i < 2^LONG
      /\ u = i + 2^LONG /\ u >= 2^(LONG - 1)
  BY <1>1, <1>2, SignedMeant
<1>4. PICK M \in Nat \ {0}, k \in Nat \ {0} : M = 2^LONG /\ k = 2^(LONG - 1)
  <2>1. LONG \in 0 .. LONG /\ LONG - 1 \in 0 .. LONG
    BY WidthsAre
  <2> QED BY <2>1, PowerNat
<1>5. u \in Nat /\ u < 2^LONG /\ u > 0 /\ u >= 2^(LONG - 1) /\ u \in Int
  BY <1>3, <1>4
<1>6. DigitsFor(c) \in DigitTables
  BY DEF DigitsFor, DigitTables
<1> HIDE DEF u
<1>7. (i = 0 <=> u = 0) /\ i # 0 /\ u = IF u < 0 THEN -u ELSE u
  BY <1>3, <1>5
<1>8. b \in Seq(Chars) /\ Short(b, u, 2)
  BY <1>1, <1>5, <1>6, <1>7, BodyIs
<1>9. (IsSigned(c) /\ Base(c) = 10 <=> c = "d") /\ ~ (c = "d" /\ i < 0)
  BY <1>1
<1>10. b = Body(i, Base(c), Magnitude(c, i), DigitsFor(c))
  BY <1>1 DEF u
<1> HIDE DEF b
<1>11. /\ printed.pc = Len(printed.text) /\ printed.pc \in Nat
       /\ printed.room = Len(b) + 1
  BY <1>3, <1>8, <1>9, <1>10, OutputIs
<1>12. Len(b) >= (LONG - 1) + 1
  <2>1. LONG - 1 \in 0 .. LONG
    BY WidthsAre
  <2> QED BY <1>5, <1>8, <2>1 DEF Short
<1>13. printed.room > LONG
  BY <1>8, <1>11, <1>12, WidthsAre
<1> QED BY <1>3, <1>11, <1>13

\* What a conversion writes in every other case, and the number it stands for.
LEMMA ConversionMeans ==
  ASSUME NEW m \in Modifiers \cup {"none"}, NEW c \in IntegerLetters(m),
         NEW arg \in Arguments(m, c), NEW i \in Passed(m, c, arg),
         ~ (c = "b" /\ i < 0), NEW f, Given(f, m, c, arg)
  PROVE  \E v \in Meant(f) :
           /\ v \in Int /\ i \in Int
           /\ v < 0 <=> c = "d" /\ i < 0
           /\ Magnitude(c, i) = IF v < 0 THEN -v ELSE v
           /\ i = 0 <=> Magnitude(c, i) = 0
           /\ Magnitude(c, i) \in Nat /\ Magnitude(c, i) < 2^LONG
           /\ c = "b" => Magnitude(c, i) < 2^(INT - 1)
<1> DEFINE u == Magnitude(c, i)
<1>0. PICK M \in Nat \ {0} : M = 2^LONG
  <2>1. LONG \in 0 .. LONG
    BY WidthsAre
  <2> QED BY <2>1, PowerNat
<1>1. CASE IsSigned(c)
  <2>1. /\ i \in Int /\ i \in Meant(f) /\ i < M /\ -i < M
        /\ i >= 0 => u = i
        /\ c = "d" /\ i < 0 => u = -i
        /\ c = "b" => i < 2^(INT - 1)
    BY <1>0, <1>1, SignedMeant
  <2>2. c = "d" \/ c = "b"
    BY <1>1, LettersAre
  <2>3. i < 0 <=> c = "d" /\ i < 0
    BY <2>2
  <2> HIDE DEF u
  <2>4. u = IF i < 0 THEN -i ELSE i
    BY <2>1, <2>3
  <2>5. (i = 0 <=> u = 0) /\ u \in Nat /\ u < M
    BY <2>1, <2>4
  <2>6. c = "b" => u < 2^(INT - 1)
    BY <2>1, <2>2, <2>4
  <2> QED BY <1>0, <2>1, <2>3, <2>4, <2>5, <2>6 DEF u
<1>2. CASE ~ IsSigned(c)
  <2>1. /\ i \in Int /\ c # "d" /\ c # "b" /\ u \in Nat /\ u < 2^LONG
        /\ u \in Meant(f) /\ (i = 0 <=> u = 0)
    BY <1>2, UnsignedMeant
  <2> HIDE DEF u
  <2>2. u \in Int /\ ~ u < 0 /\ u = IF u < 0 THEN -u ELSE u
    BY <2>1
  <2> QED BY <2>1, <2>2 DEF u
<1> QED BY <1>1, <1>2

LEMMA ConversionSends ==
  ASSUME NEW m \in Modifiers \cup {"none"}, NEW c \in IntegerLetters(m),
         NEW arg \in Arguments(m, c), NEW i \in Passed(m, c, arg),
         ~ (c = "b" /\ i < 0),
         NEW w \in Int, NEW fl, NEW f, Given(f, m, c, arg), w = AskedWidth(f),
         "PAD_RIGHT" \in fl <=> Contains(f.asked, "-"),
         "PAD_ZERO" \in fl <=> AsksZeros(f),
         f.text = simple_outputi(i, Base(c), IsSigned(c), w, fl, DigitsFor(c)).text
  PROVE  LET printed == simple_outputi(i, Base(c), IsSigned(c), w, fl, DigitsFor(c))
         IN  /\ printed.room \in Nat /\ printed.room <= LONG /\ FieldSent(f)
             /\ printed.pc = Len(printed.text) /\ printed.pc \in Nat
<1> DEFINE u == Magnitude(c, i)
           base == Base(c)
           t == DigitsFor(c)
           printed == simple_outputi(i, base, IsSigned(c), w, fl, t)
<1>1. PICK v \in Meant(f) :
        /\ v \in Int /\ i \in Int
        /\ v < 0 <=> c = "d" /\ i < 0
        /\ u = IF v < 0 THEN -v ELSE v
        /\ i = 0 <=> u = 0
        /\ u \in Nat /\ u < 2^LONG
        /\ c = "b" => u < 2^(INT - 1)
  BY ConversionMeans
<1>2. base \in Bases /\ t \in DigitTables
  BY LettersAre DEF DigitsFor, DigitTables
<1> DEFINE b == Body(i, base, u, t)
           sign == IF v < 0 THEN <<"-">> ELSE <<>>
<1> HIDE DEF u, t
<1>3. /\ b \in Seq(DigitCharacters) /\ b \in Seq(Chars) /\ Len(b) >= 1
      /\ Writes(b, v, base)
      /\ i = 0 => Len(b) = 1
      /\ i # 0 => Short(b, u, base)
  <2> HIDE DEF base
  <2> QED BY <1>1, <1>2, BodyIs
<1>4. IsSigned(c) /\ Base(c) = 10 <=> c = "d"
  BY LettersAre
<1>5. sign = IF c = "d" /\ i < 0 THEN <<"-">> ELSE <<>>
  BY <1>1
<1>6. b = Body(i, Base(c), Magnitude(c, i), t)
  BY DEF u
<1> HIDE DEF b
<1>7. /\ printed.text = Field("PAD_RIGHT" \in fl, "PAD_ZERO" \in fl, w, sign, b)
      /\ printed.pc = Len(printed.text) /\ printed.pc \in Nat
      /\ printed.room \in {Len(b) + 1, Len(b) + 2}
      /\ ~ v < 0 => printed.room = Len(b) + 1
  <2>1. i \in Int /\ b \in Seq(Chars) /\ (v < 0 <=> c = "d" /\ i < 0)
    BY <1>1, <1>3
  <2> HIDE DEF sign
  <2>2. /\ printed.text = Field("PAD_RIGHT" \in fl, "PAD_ZERO" \in fl, w,
                                IF c = "d" /\ i < 0 THEN <<"-">> ELSE <<>>, b)
        /\ printed.pc = Len(printed.text) /\ printed.pc \in Nat
        /\ printed.room \in {Len(b) + 1, Len(b) + 2}
        /\ ~ (c = "d" /\ i < 0) => printed.room = Len(b) + 1
    BY <1>4, <1>6, <2>1, OutputIs
  <2> QED BY <1>5, <2>1, <2>2
<1>8. sign \in Seq(Chars)
  <2>1. <<>> \in Seq(Chars) /\ <<"-">> \in Seq(Chars)
    BY SomeChars
  <2> QED BY <2>1
<1>9. f.text = Filled(f, sign, b)
  <2>1. f.text = printed.text
    BY DEF t
  <2> HIDE DEF sign, printed
  <2> QED BY <1>7, <2>1, FilledIs
<1>10. Holds(f.text, b)
  <2>1. f.text = printed.text
    BY DEF t
  <2> HIDE DEF sign, printed
  <2>2. Holds(Field("PAD_RIGHT" \in fl, "PAD_ZERO" \in fl, w, sign, b), b)
    BY <1>3, <1>8, FieldHolds
  <2> QED BY <1>7, <2>1, <2>2
<1>11. FieldSent(f)
  <2>1. PICK first \in DOMAIN f.text, end \in DOMAIN f.text :
          SubSeq(f.text, first, end) = b
    BY <1>10 DEF Holds
  <2>2. f.letter # "s" /\ f.letter = c
    BY LettersAre DEF Given
  <2>3. b # <<>>
    BY <1>3
  <2>4. SubSeq(f.text, first, end) # <<>> /\ Writes(SubSeq(f.text, first, end), v, Base(f.letter))
        /\ f.text = Filled(f, sign, SubSeq(f.text, first, end))
    BY <1>3, <1>9, <2>1, <2>2, <2>3
  <2> QED BY <2>2, <2>4 DEF FieldSent
<1>12. LONG \in Nat /\ LONG >= 4 /\ INT \in Nat /\ INT < LONG /\ LONG \in 0 .. LONG
       /\ INT - 1 \in 0 .. LONG
  BY WidthsAre
<1>13. printed.room \in Nat /\ printed.room <= LONG
  <2> DEFINE room == printed.room
             n == Len(b)
  <2>0. n \in Nat /\ room \in {n + 1, n + 2} /\ (~ v < 0 => room = n + 1)
    BY <1>3, <1>7
  <2> HIDE DEF room, n
  <2>1. CASE i = 0
    <3>1. n = 1
      BY <1>3, <2>1 DEF n
    <3> QED BY <1>12, <2>0, <3>1 DEF room
  <2>2. CASE i # 0 /\ c # "b"
    <3>1. base >= 8
      BY <2>2, LettersAre
    <3>2. 3 * n <= LONG + 2
      BY <1>1, <1>3, <1>12, <2>2, <3>1 DEF Short, n
    <3> QED BY <1>12, <2>0, <3>2 DEF room
  <2>3. CASE i # 0 /\ c = "b"
    <3>1. base = 2
      BY <2>3, LettersAre
    <3>2. n <= INT - 1
      BY <1>1, <1>3, <1>12, <2>3, <3>1 DEF Short, n
    <3>3. ~ v < 0
      BY <1>1, <2>3
    <3> QED BY <1>12, <2>0, <3>2, <3>3 DEF room
  <2> QED BY <2>1, <2>2, <2>3
<1> QED BY <1>7, <1>11, <1>13 DEF t

\* The field of a string.
LEMMA StringSends ==
  ASSUME NEW s \in Strings \cup {<<>>, <<"c">>, <<"(", "n", "u", "l", "l", ")">>},
         NEW w \in Int, NEW fl, NEW f, f.letter = "s", f.arg = s, w = AskedWidth(f),
         "PAD_RIGHT" \in fl <=> Contains(f.asked, "-"),
         "PAD_ZERO" \in fl <=> AsksZeros(f),
         f.text = Printed(<<>>, prints(s, w, fl), 0).text
  PROVE  LET printed == Printed(<<>>, prints(s, w, fl), 0)
         IN  FieldSent(f) /\ printed.pc = Len(printed.text) /\ printed.pc \in Nat
<1> DEFINE padded == prints(s, w, fl)
           printed == Printed(<<>>, padded, 0)
<1>1. s \in Seq(Chars)
  <2>1. CASE s \in Strings
    <3>1. s \in Seq(STRING)
      BY <2>1, Inputs
    <3>2. STRING \subseteq Chars
      BY DEF Chars
    <3> QED BY <3>1, <3>2, SeqMonotonic
  <2>2. CASE s = <<>>
    BY <2>2
  <2>3. CASE s = <<"c">>
    <3>1. "c" \in Chars
      BY DEF Chars
    <3> QED BY <2>3, <3>1
  <2>4. CASE s = <<"(", "n", "u", "l", "l", ")">>
    <3>1. "(" \in Chars /\ "n" \in Chars /\ "u" \in Chars /\ "l" \in Chars /\ ")" \in Chars
      BY DEF Chars
    <3> QED BY <2>4, <3>1
  <2> QED BY <2>1, <2>2, <2>3, <2>4
<1>2. /\ padded = Field("PAD_RIGHT" \in fl, "PAD_ZERO" \in fl, w, <<>>, s)
      /\ padded \in Seq(Chars)
  BY <1>1, PrintsField
<1> HIDE DEF padded
<1>3. <<>> \o padded = padded /\ Len(<<>>) = 0 /\ Len(padded) \in Nat
  BY <1>2, ConcatEmptySeq, LenProperties
<1>4. printed.text = padded /\ printed.pc = Len(padded) /\ printed.pc \in Nat
  BY <1>3 DEF Printed
<1>5. f.text = Filled(f, <<>>, f.arg)
  <2>1. f.text = padded
    BY <1>4 DEF padded
  <2>2. Filled(f, <<>>, s) = Field("PAD_RIGHT" \in fl, "PAD_ZERO" \in fl, w, <<>>, s)
    BY FilledIs
  <2> QED BY <1>2, <2>1, <2>2
<1>6. FieldSent(f)
  BY <1>5 DEF FieldSent
<1> QED BY <1>4, <1>6 DEF padded

-----------------------------------------------------------------------------
(* The walk over the format: what width and flags hold is what the          *)
(* characters of the directive ask for, whatever came before it.            *)

Directive == InDirective \cup Modifiers

AskedChars == DigitCharacters \cup {"-", "*"} \cup Modifiers

Flag(a) == IF Contains(a, "-") THEN 2 ELSE 1

Zeros(a) == Len(a) >= Flag(a) /\ a[Flag(a)] = "0"

WidthOf(a, s) == IF Contains(a, "*") THEN s ELSE Value(a, 10)

TypeOK ==
  /\ at \in {"text", "done", "past", "overrun"} \cup Directive
  /\ width \in Int /\ pc \in Int /\ sent \in Int /\ returns \in Int /\ star \in Int
  /\ asked \in Seq(AskedChars)

\* Within a directive.
Asked ==
  /\ last = NULL
  /\ width = WidthOf(asked, star)
  /\ "PAD_RIGHT" \in flags <=> Contains(asked, "-")
  /\ "PAD_ZERO" \in flags <=> Zeros(asked)
  /\ at \in {"%", "flags", "width"} => ~ Contains(asked, "*")
  /\ at = "%" <=> asked = <<>>
  /\ at \in {"%", "flags"} => width = 0
  /\ at = "flags" => asked = <<"-">> \/ Zeros(asked)
  /\ at \notin {"%", "flags"} => Len(asked) >= Flag(asked)

IInv == /\ TypeOK /\ FieldRight /\ StaysInBounds
        /\ at \in Directive => Asked

LEMMA AppendIs ==
  ASSUME NEW a \in Seq(AskedChars), NEW c \in AskedChars
  PROVE  /\ Append(a, c) \in Seq(AskedChars) /\ Len(Append(a, c)) = Len(a) + 1
         /\ Append(a, c)[Len(a) + 1] = c
         /\ \A k \in 1 .. Len(a) : Append(a, c)[k] = a[k]
         /\ Append(a, c) # <<>> /\ Len(a) \in Nat
         /\ \A x : Contains(Append(a, c), x) <=> Contains(a, x) \/ c = x
<1> DEFINE b == Append(a, c)
           n == Len(a)
<1>1. /\ b \in Seq(AskedChars) /\ Len(b) = n + 1 /\ b[n + 1] = c /\ n \in Nat
      /\ \A k \in 1 .. n : b[k] = a[k]
  OBVIOUS
<1>2. b # <<>>
  BY <1>1
<1> HIDE DEF b, n
<1>3. ASSUME NEW x PROVE (\E k \in 1 .. Len(b) : b[k] = x) <=> (\E k \in 1 .. n : a[k] = x) \/ c = x
  <2>1. \A k \in 1 .. Len(b) : k \in 1 .. n \/ k = n + 1
    BY <1>1
  <2>2. n + 1 \in 1 .. Len(b) /\ \A k \in 1 .. n : k \in 1 .. Len(b)
    BY <1>1
  <2> QED BY <1>1, <2>1, <2>2, Zenon
<1>4. \A x : Contains(b, x) <=> Contains(a, x) \/ c = x
  BY <1>3, Zenon DEF Contains, n
<1> QED BY <1>1, <1>2, <1>4 DEF b, n

LEMMA FlagIs ==
  ASSUME NEW a PROVE Flag(a) \in {1, 2} /\ (Flag(a) = 2 <=> Contains(a, "-"))
  BY DEF Flag

\* A character behind the flags, and the one that decides about zeros.
LEMMA AppendFlag ==
  ASSUME NEW a \in Seq(AskedChars), NEW c \in AskedChars, c # "-",
         Len(a) + 1 >= Flag(a)
  PROVE  /\ Contains(Append(a, c), "-") <=> Contains(a, "-")
         /\ Len(Append(a, c)) >= Flag(Append(a, c))
         /\ Zeros(Append(a, c)) <=> IF Len(a) >= Flag(a) THEN Zeros(a) ELSE c = "0"
<1> DEFINE b == Append(a, c)
           n == Len(a)
<1>1. /\ Len(b) = n + 1 /\ b[n + 1] = c /\ n \in Nat /\ n + 1 >= Flag(a)
      /\ \A k \in 1 .. n : b[k] = a[k]
      /\ Contains(b, "-") <=> Contains(a, "-")
  BY AppendIs
<1> HIDE DEF b, n
<1>2. Flag(b) = Flag(a) /\ Flag(a) \in {1, 2}
  BY <1>1, FlagIs DEF Flag
<1>3. Len(b) >= Flag(b)
  BY <1>1, <1>2
<1>4. CASE n >= Flag(a)
  <2>1. Flag(a) \in 1 .. n
    BY <1>1, <1>2, <1>4
  <2>2. b[Flag(b)] = a[Flag(a)]
    BY <1>1, <1>2, <2>1
  <2> QED BY <1>1, <1>3, <1>4, <2>2 DEF Zeros, b, n
<1>5. CASE ~ n >= Flag(a)
  <2>1. n + 1 = Flag(b)
    BY <1>1, <1>2, <1>5
  <2>2. b[Flag(b)] = c
    BY <1>1, <2>1
  <2> QED BY <1>1, <1>3, <1>5, <2>2 DEF Zeros, b, n
<1> QED BY <1>4, <1>5

LEMMA AppendWidth ==
  ASSUME NEW a \in Seq(AskedChars), NEW c \in AskedChars, NEW s, ~ Contains(a, "*")
  PROVE  WidthOf(Append(a, c), s) =
           IF c = "*" THEN s
           ELSE IF c \in DigitCharacters THEN WidthOf(a, s) * 10 + Worth(c)
           ELSE WidthOf(a, s)
<1>1. Contains(Append(a, c), "*") <=> c = "*"
  BY AppendIs
<1>2. Value(Append(a, c), 10) = IF c \in DigitCharacters THEN Value(a, 10) * 10 + Worth(c)
                                ELSE Value(a, 10)
  BY ValueOfAppend
<1> QED BY <1>1, <1>2 DEF WidthOf

LEMMA AppendModifier ==
  ASSUME NEW a \in Seq(AskedChars), NEW m \in Modifiers, NEW s
  PROVE  /\ WidthOf(Append(a, m), s) = WidthOf(a, s)
         /\ m \in AskedChars /\ m # "-" /\ m # "0" /\ m # "*"
<1>1. m \in AskedChars /\ m # "-" /\ m # "0" /\ m # "*" /\ m \notin DigitCharacters
  BY OtherCharacters DEF AskedChars, Modifiers
<1>2. Contains(Append(a, m), "*") <=> Contains(a, "*")
  BY <1>1, AppendIs
<1>3. Value(Append(a, m), 10) = Value(a, 10)
  BY <1>1, ValueOfAppend
<1> QED BY <1>1, <1>2, <1>3 DEF WidthOf

LEMMA ZeroIs == "0" \in DigitCharacters /\ Worth("0") = 0
<1>1. LowerDigits \in DigitTables /\ LowerDigits[1] = "0" /\ 0 + 1 = 1 /\ 0 \in 0 .. 15
  BY LowerIs DEF DigitTables
<1>2. Worth(LowerDigits[0 + 1]) = 0
  BY <1>1, WorthOfDigit
<1> QED BY <1>1, <1>2, TablesAre

LEMMA DigitIs ==
  ASSUME NEW d \in 0 .. 9
  PROVE  LET c == LowerDigits[d + 1]
         IN  /\ c \in DigitCharacters /\ Worth(c) = d
             /\ c # "-" /\ c # "*" /\ c \in AskedChars /\ (d # 0 => c # "0")
<1>1. LowerDigits \in DigitTables /\ d + 1 \in 1 .. 16 /\ d \in 0 .. 15
      /\ (d # 0 => d + 1 \in 2 .. 16)
  BY DEF DigitTables
<1>2. Worth(LowerDigits[d + 1]) = d
  BY <1>1, WorthOfDigit
<1>3. LowerDigits[d + 1] \in DigitCharacters /\ (d # 0 => LowerDigits[d + 1] # "0")
  BY <1>1, TablesAre
<1> HIDE DEF DigitTables
<1> QED BY <1>2, <1>3, OtherCharacters DEF AskedChars

LEMMA NothingAsked ==
  /\ <<>> \in Seq(AskedChars) /\ \A x : ~ Contains(<<>>, x)
  /\ Flag(<<>>) = 1 /\ ~ Zeros(<<>>) /\ Len(<<>>) = 0
  /\ \A s : WidthOf(<<>>, s) = 0
<1>1. \A x : ~ Contains(<<>>, x)
  BY DEF Contains
<1>2. <<>> \in Seq(AskedChars) /\ Len(<<>>) = 0
  OBVIOUS
<1>3. Flag(<<>>) = 1
  BY <1>1 DEF Flag
<1>4. ~ Zeros(<<>>)
  BY <1>2, <1>3 DEF Zeros
<1>5. \A s : WidthOf(<<>>, s) = 0
  BY <1>1, ValueOfEmpty DEF WidthOf
<1> QED BY <1>1, <1>2, <1>3, <1>4, <1>5, Zenon

LEMMA MinusAsked ==
  LET a == <<"-">>
  IN  /\ a \in Seq(AskedChars) /\ Contains(a, "-") /\ ~ Contains(a, "*")
      /\ ~ Zeros(a) /\ a # <<>> /\ Flag(a) = 2 /\ Len(a) = 1
      /\ \A s : WidthOf(a, s) = 0
<1> DEFINE a == Append(<<>>, "-")
<1>1. a = <<"-">> /\ "-" \in AskedChars
  BY DEF AskedChars
<1>2. /\ a \in Seq(AskedChars) /\ Len(a) = 1 /\ a # <<>>
      /\ \A x : Contains(a, x) <=> "-" = x
  BY <1>1, NothingAsked, AppendIs
<1>3. Flag(a) = 2 /\ ~ Contains(a, "*") /\ Contains(a, "-")
  BY <1>2 DEF Flag
<1>4. ~ Zeros(a)
  BY <1>2, <1>3 DEF Zeros
<1>5. \A s : WidthOf(a, s) = 0
  <2>1. "-" # "*" /\ "-" \notin DigitCharacters
    BY OtherCharacters
  <2>2. ASSUME NEW s PROVE WidthOf(Append(<<>>, "-"), s) = 0
    <3>1. <<>> \in Seq(AskedChars) /\ ~ Contains(<<>>, "*") /\ WidthOf(<<>>, s) = 0
      BY NothingAsked, Zenon
    <3>2. "-" \in AskedChars
      BY <1>1
    <3>3. WidthOf(Append(<<>>, "-"), s) =
            IF "-" = "*" THEN s
            ELSE IF "-" \in DigitCharacters THEN WidthOf(<<>>, s) * 10 + Worth("-")
            ELSE WidthOf(<<>>, s)
      BY <3>1, <3>2, AppendWidth, Zenon
    <3> QED BY <2>1, <3>1, <3>3, Zenon
  <2> QED BY <1>1, <2>2
<1> HIDE DEF a
<1> QED BY <1>1, <1>2, <1>3, <1>4, <1>5

LEMMA FieldAsks ==
  ASSUME NEW f, f.asked = asked, f.star = star
  PROVE  AskedWidth(f) = WidthOf(asked, star) /\ (AsksZeros(f) <=> Zeros(asked))
  BY DEF AskedWidth, AsksZeros, WidthOf, Zeros, Flag

-----------------------------------------------------------------------------
(* The invariant.                                                           *)

LEMMA PointsAre ==
  /\ Directive \cap {"text", "done", "past", "overrun"} = {}
  /\ {"flags", "width", "star"} \cap Modifiers = {} /\ "%" \notin Modifiers
  /\ Directive = {"%", "flags", "width", "star", "l", "ll", "h", "hh"}
  /\ Modifiers = {"l", "ll", "h", "hh"} /\ InDirective = {"%", "flags", "width", "star"}
  BY DEF Directive, InDirective, Modifiers

LEMMA Initially == Init => IInv
<1> SUFFICES ASSUME Init PROVE IInv
  OBVIOUS
<1>1. TypeOK
  BY NothingAsked DEF Init, TypeOK
<1>2. FieldRight /\ StaysInBounds /\ at \notin Directive
  BY PointsAre DEF Init, FieldRight, StaysInBounds
<1> QED BY <1>1, <1>2 DEF IInv

LEMMA PlainTextKeeps == IInv /\ PlainText => IInv'
<1> SUFFICES ASSUME IInv, PlainText PROVE IInv'
  OBVIOUS
<1>1. PICK c \in {"a", "\n", "%"} :
        /\ pc' = pc + 1
        /\ sent' = sent + (IF c = "\n" THEN 2 ELSE 1)
        /\ returns' = returns + (IF c = "\n" THEN 1 ELSE 0)
        /\ at' = "text" /\ last' = NULL /\ UNCHANGED <<width, flags, asked, star>>
  BY DEF PlainText
<1>2. TypeOK'
  BY <1>1 DEF IInv, TypeOK
<1>3. pc' = sent' - returns'
  BY <1>1 DEF IInv, TypeOK, FieldRight
<1>4. FieldRight' /\ StaysInBounds' /\ at' \notin Directive
  BY <1>1, <1>3, PointsAre DEF FieldRight, StaysInBounds
<1> QED BY <1>2, <1>4 DEF IInv

LEMMA PercentKeeps == IInv /\ Percent => IInv'
<1> SUFFICES ASSUME IInv, Percent PROVE IInv'
  OBVIOUS
<1>1. /\ at' = "%" /\ width' = 0 /\ flags' = {}
      /\ asked' = <<>> /\ star' = 0 /\ last' = NULL /\ UNCHANGED <<pc, sent, returns>>
  BY DEF Percent, count
<1>2. TypeOK'
  BY <1>1, PointsAre, NothingAsked DEF IInv, TypeOK
<1>3. FieldRight' /\ StaysInBounds'
  BY <1>1 DEF IInv, FieldRight, StaysInBounds
<1>4. Asked'
  BY <1>1, NothingAsked DEF Asked
<1> QED BY <1>2, <1>3, <1>4 DEF IInv

\* A step within a directive.
LEMMA Within ==
  ASSUME IInv, TypeOK', Asked', at \in Directive, at' \in Directive, UNCHANGED count
  PROVE  IInv'
<1>1. pc' = sent' - returns' /\ at' \notin {"text", "done", "past", "overrun"}
  BY PointsAre DEF IInv, FieldRight, count
<1>2. FieldRight' /\ StaysInBounds'
  BY <1>1 DEF FieldRight, StaysInBounds
<1> QED BY <1>2 DEF IInv

LEMMA MinusKeeps == IInv /\ Minus => IInv'
<1> SUFFICES ASSUME IInv, Minus PROVE IInv'
  OBVIOUS
<1>1. /\ at = "%" /\ at' = "flags" /\ flags' = {"PAD_RIGHT"} /\ asked' = <<"-">>
      /\ UNCHANGED <<width, star, last, pc, sent, returns>> /\ UNCHANGED count
      /\ at \in Directive /\ at' \in Directive
  BY PointsAre DEF Minus, count
<1>2. last = NULL /\ width = 0
  BY <1>1 DEF IInv, Asked
<1>3. TypeOK'
  BY <1>1, MinusAsked DEF IInv, TypeOK
<1>4. Asked'
  BY <1>1, <1>2, MinusAsked DEF Asked
<1> QED BY <1>1, <1>3, <1>4, Within

LEMMA ZeroKeeps == IInv /\ Zero => IInv'
<1> SUFFICES ASSUME IInv, Zero PROVE IInv'
  OBVIOUS
<1>1. /\ at \in {"%", "flags"} /\ at' = "flags" /\ flags' = flags \cup {"PAD_ZERO"}
      /\ asked' = Append(asked, "0")
      /\ UNCHANGED <<width, star, last, pc, sent, returns>> /\ UNCHANGED count
      /\ at \in Directive /\ at' \in Directive
  BY PointsAre DEF Zero, count
<1>2. /\ last = NULL /\ width = 0 /\ width = WidthOf(asked, star)
      /\ "PAD_RIGHT" \in flags <=> Contains(asked, "-")
      /\ "PAD_ZERO" \in flags <=> Zeros(asked)
      /\ ~ Contains(asked, "*") /\ asked \in Seq(AskedChars)
      /\ asked = <<>> \/ asked = <<"-">> \/ Zeros(asked)
  BY <1>1 DEF IInv, Asked, TypeOK
<1>3. "0" \in AskedChars /\ "0" # "-" /\ "0" # "*"
  BY ZeroIs DEF AskedChars
<1>4. /\ asked' \in Seq(AskedChars) /\ asked' # <<>>
      /\ \A x : Contains(asked', x) <=> Contains(asked, x) \/ "0" = x
  BY <1>1, <1>2, <1>3, AppendIs
<1>5. TypeOK'
  BY <1>1, <1>4 DEF IInv, TypeOK
<1>6. width' = WidthOf(asked', star')
  <2>1. 0 * 10 + 0 = 0
    OBVIOUS
  <2> QED BY <1>1, <1>2, <1>3, <2>1, AppendWidth, ZeroIs
<1>7. Len(asked') >= Flag(asked') /\ Zeros(asked')
  <2>1. Len(asked) + 1 >= Flag(asked)
    <3>1. Len(asked) \in Nat /\ Flag(asked) \in {1, 2}
      BY <1>2, FlagIs, LenProperties
    <3>2. asked # <<>> => Len(asked) >= 1
      BY <1>2
    <3>3. asked = <<>> => Flag(asked) = 1
      BY NothingAsked
    <3> QED BY <3>1, <3>2, <3>3
  <2>2. Zeros(asked) \/ ~ Len(asked) >= Flag(asked)
    <3>1. ~ Len(<<>>) >= Flag(<<>>) /\ ~ Len(<<"-">>) >= Flag(<<"-">>)
      BY NothingAsked, MinusAsked
    <3>2. CASE asked = <<>>
      BY <3>1, <3>2
    <3>3. CASE asked = <<"-">>
      BY <3>1, <3>3
    <3> QED BY <1>2, <3>2, <3>3
  <2>3. /\ Len(asked') >= Flag(asked')
        /\ Zeros(asked') <=> IF Len(asked) >= Flag(asked) THEN Zeros(asked) ELSE "0" = "0"
    BY <1>1, <1>2, <1>3, <2>1, AppendFlag
  <2> QED BY <2>2, <2>3
<1>8. Asked'
  BY <1>1, <1>2, <1>3, <1>4, <1>6, <1>7 DEF Asked
<1> QED BY <1>1, <1>5, <1>8, Within

\* Where a flag or the width may still come.
LEMMA Opened ==
  ASSUME IInv, at \in {"%", "flags", "width"}
  PROVE  /\ last = NULL /\ width = WidthOf(asked, star)
         /\ "PAD_RIGHT" \in flags <=> Contains(asked, "-")
         /\ "PAD_ZERO" \in flags <=> Zeros(asked)
         /\ ~ Contains(asked, "*") /\ asked \in Seq(AskedChars)
         /\ Len(asked) + 1 >= Flag(asked)
         /\ ~ Len(asked) >= Flag(asked) => ~ Zeros(asked)
         /\ at \in {"%", "flags"} => width = 0
         /\ width \in Int /\ star \in Int
<1>1. at \in Directive
  BY PointsAre
<1>2. /\ last = NULL /\ width = WidthOf(asked, star)
      /\ "PAD_RIGHT" \in flags <=> Contains(asked, "-")
      /\ "PAD_ZERO" \in flags <=> Zeros(asked)
      /\ ~ Contains(asked, "*") /\ asked \in Seq(AskedChars)
      /\ at \in {"%", "flags"} => width = 0
      /\ width \in Int /\ star \in Int
      /\ asked = <<>> \/ asked = <<"-">> \/ Zeros(asked) \/ Len(asked) >= Flag(asked)
  BY <1>1 DEF IInv, Asked, TypeOK
<1>3. Len(asked) + 1 >= Flag(asked)
  <2>1. Len(asked) \in Nat /\ Flag(asked) \in {1, 2}
    BY <1>2, FlagIs, LenProperties
  <2>2. Len(<<>>) = 0 /\ Flag(<<>>) = 1 /\ Len(<<"-">>) = 1 /\ Flag(<<"-">>) = 2
    BY NothingAsked, MinusAsked
  <2>3. CASE asked = <<>>
    BY <2>2, <2>3
  <2>4. CASE asked = <<"-">>
    BY <2>2, <2>4
  <2>5. CASE Len(asked) >= Flag(asked)
    BY <2>1, <2>5
  <2> QED BY <1>2, <2>3, <2>4, <2>5 DEF Zeros
<1>4. ~ Len(asked) >= Flag(asked) => ~ Zeros(asked)
  BY DEF Zeros
<1> QED BY <1>2, <1>3, <1>4

LEMMA StarKeeps == IInv /\ Star => IInv'
<1> SUFFICES ASSUME IInv, Star PROVE IInv'
  OBVIOUS
<1>1. /\ at \in {"%", "flags", "width"} /\ at' = "star" /\ width' = star' /\ star' \in Int
      /\ asked' = Append(asked, "*")
      /\ UNCHANGED <<flags, last, pc, sent, returns>> /\ UNCHANGED count
      /\ at \in Directive /\ at' \in Directive
  BY PointsAre, Inputs DEF Star, count
<1>2. "*" \in AskedChars /\ "*" # "-" /\ "*" # "0"
  BY DEF AskedChars
<1>3. asked' \in Seq(AskedChars) /\ asked' # <<>>
  BY <1>1, <1>2, Opened, AppendIs
<1>4. TypeOK'
  BY <1>1, <1>3 DEF IInv, TypeOK
<1>5. width' = WidthOf(asked', star')
  BY <1>1, <1>2, Opened, AppendWidth
<1>6. /\ Contains(asked', "-") <=> Contains(asked, "-")
      /\ Len(asked') >= Flag(asked') /\ (Zeros(asked') <=> Zeros(asked))
  BY <1>1, <1>2, Opened, AppendFlag
<1>7. Asked'
  BY <1>1, <1>3, <1>5, <1>6, Opened DEF Asked
<1> QED BY <1>1, <1>4, <1>7, Within

LEMMA DigitKeeps == IInv /\ Digit => IInv'
<1> SUFFICES ASSUME IInv, Digit PROVE IInv'
  OBVIOUS
<1>1. PICK d \in WidthDigits \cup (IF at = "width" THEN {0} ELSE {}) :
        /\ at \in {"%", "flags", "width"} /\ at' = "width" /\ width' = width * 10 + d
        /\ asked' = Append(asked, LowerDigits[d + 1])
        /\ UNCHANGED <<flags, star, last, pc, sent, returns>>
  BY DEF Digit, count
<1>2. d \in 0 .. 9 /\ (at # "width" => d # 0)
  BY Inputs
<1>3. UNCHANGED count /\ at \in Directive /\ at' \in Directive
  BY <1>1, PointsAre DEF count
<1> DEFINE c == LowerDigits[d + 1]
<1>4. /\ c \in DigitCharacters /\ Worth(c) = d
      /\ c # "-" /\ c # "*" /\ c \in AskedChars /\ (d # 0 => c # "0")
  BY <1>2, DigitIs
<1>5. asked' = Append(asked, c)
  BY <1>1
<1> HIDE DEF c
<1>6. /\ asked' \in Seq(AskedChars) /\ asked' # <<>>
      /\ \A x : Contains(asked', x) <=> Contains(asked, x) \/ c = x
  BY <1>1, <1>4, <1>5, Opened, AppendIs
<1>7. width' = WidthOf(asked', star')
  BY <1>1, <1>4, <1>5, Opened, AppendWidth
<1>8. TypeOK'
  <2>1. width' \in Int
    BY <1>1, <1>2, Opened
  <2> QED BY <1>1, <1>3, <1>6, <2>1 DEF IInv, TypeOK
<1>9. /\ Contains(asked', "-") <=> Contains(asked, "-")
      /\ Len(asked') >= Flag(asked')
      /\ Zeros(asked') <=> IF Len(asked) >= Flag(asked) THEN Zeros(asked) ELSE c = "0"
  BY <1>1, <1>4, <1>5, Opened, AppendFlag
<1>10. Zeros(asked') <=> Zeros(asked)
  <2>1. CASE Len(asked) >= Flag(asked)
    BY <1>9, <2>1
  <2>2. CASE ~ Len(asked) >= Flag(asked)
    <3>1. at # "width"
      BY <1>3, <2>2 DEF IInv, Asked
    <3> QED BY <1>1, <1>2, <1>4, <1>9, <2>2, <3>1, Opened
  <2> QED BY <2>1, <2>2
<1>11. ~ Contains(asked', "*")
  BY <1>1, <1>4, <1>6, Opened
<1>12. Asked'
  BY <1>1, <1>6, <1>7, <1>9, <1>10, <1>11, Opened DEF Asked
<1> QED BY <1>3, <1>8, <1>12, Within

LEMMA ReadModifierKeeps == IInv /\ ReadModifier => IInv'
<1> SUFFICES ASSUME IInv, ReadModifier PROVE IInv'
  OBVIOUS
<1>1. PICK m \in Modifiers :
        /\ at \in InDirective \cup {"l", "h"} /\ at' = m /\ asked' = Append(asked, m)
        /\ UNCHANGED <<width, flags, star, last, pc, sent, returns>>
  BY DEF ReadModifier, count
<1>2. UNCHANGED count /\ at \in Directive /\ at' \in Directive
      /\ at' \notin {"%", "flags", "width"}
  BY <1>1, PointsAre DEF count
<1>3. /\ last = NULL /\ width = WidthOf(asked, star)
      /\ "PAD_RIGHT" \in flags <=> Contains(asked, "-")
      /\ "PAD_ZERO" \in flags <=> Zeros(asked)
      /\ asked \in Seq(AskedChars)
  BY <1>2 DEF IInv, Asked, TypeOK
<1>4. m \in AskedChars /\ m # "-" /\ m # "0" /\ m # "*" /\ WidthOf(asked', star) = WidthOf(asked, star)
  BY <1>1, <1>3, AppendModifier
<1>5. asked' \in Seq(AskedChars) /\ asked' # <<>>
  BY <1>1, <1>3, <1>4, AppendIs
<1>6. TypeOK'
  BY <1>1, <1>2, <1>5 DEF IInv, TypeOK
<1>7. Len(asked) + 1 >= Flag(asked)
  <2>1. CASE at \in {"%", "flags", "width"}
    BY <2>1, Opened
  <2>2. CASE at \notin {"%", "flags", "width"}
    <3>1. Len(asked) >= Flag(asked)
      BY <1>2, <2>2 DEF IInv, Asked
    <3>2. Len(asked) \in Nat /\ Flag(asked) \in {1, 2}
      BY <1>3, FlagIs, LenProperties
    <3> QED BY <3>1, <3>2
  <2> QED BY <2>1, <2>2
<1>8. /\ Contains(asked', "-") <=> Contains(asked, "-")
      /\ Len(asked') >= Flag(asked')
      /\ Zeros(asked') <=> IF Len(asked) >= Flag(asked) THEN Zeros(asked) ELSE m = "0"
  BY <1>1, <1>3, <1>4, <1>7, AppendFlag
<1>9. Zeros(asked') <=> Zeros(asked)
  BY <1>4, <1>8 DEF Zeros
<1>10. Asked'
  BY <1>1, <1>2, <1>3, <1>4, <1>5, <1>8, <1>9 DEF Asked
<1> QED BY <1>2, <1>6, <1>10, Within

\* At the letter of a conversion: what the field is sent with.
LEMMA AtLetter ==
  ASSUME IInv, at \in Directive, NEW f, f.asked = asked, f.star = star
  PROVE  /\ width = AskedWidth(f) /\ width \in Int
         /\ "PAD_RIGHT" \in flags <=> Contains(f.asked, "-")
         /\ "PAD_ZERO" \in flags <=> AsksZeros(f)
  BY FieldAsks DEF IInv, Asked, TypeOK

\* The characters that a conversion sent are all counted.
LEMMA Sent ==
  ASSUME IInv, at \in Directive, at' \in {"text", "overrun"},
         NEW n \in Nat, pc' = pc + n, sent' = sent + n,
         UNCHANGED <<width, flags, returns, asked, star>>
  PROVE  TypeOK' /\ pc' = sent' - returns' /\ at' \notin Directive
<1>1. TypeOK'
  BY DEF IInv, TypeOK
<1>2. pc' = sent' - returns'
  BY DEF IInv, TypeOK, FieldRight
<1> QED BY <1>1, <1>2, PointsAre

LEMMA ConvertIntegerKeeps == IInv /\ ConvertInteger => IInv'
<1> SUFFICES ASSUME IInv, ConvertInteger PROVE IInv'
  OBVIOUS
<1> DEFINE Out(i, c) == simple_outputi(i, Base(c), IsSigned(c), width, flags, DigitsFor(c))
           Taken(m, c, arg, text) == [modifier |-> m, letter |-> c, arg |-> arg,
                                      text |-> text, asked |-> asked, star |-> star]
<1> DEFINE Does(c, arg, i) ==
             /\ at' = IF Out(i, c).room > PRINT_BUF_LEN THEN "overrun" ELSE "text"
             /\ pc' = pc + Out(i, c).pc /\ sent' = sent + Len(Out(i, c).text)
             /\ last' = Taken(Modifier, c, arg, Out(i, c).text)
             /\ UNCHANGED <<width, flags, returns, asked, star>>
<1>1. PICK c \in IntegerLetters(Modifier) :
        \E arg \in Arguments(Modifier, c) : \E i \in Passed(Modifier, c, arg) : Does(c, arg, i)
  BY DEF ConvertInteger, Send, DigitsFor
<1>2. PICK arg \in Arguments(Modifier, c) : \E i \in Passed(Modifier, c, arg) : Does(c, arg, i)
  BY <1>1, Zenon
<1>3. PICK i \in Passed(Modifier, c, arg) : Does(c, arg, i)
  BY <1>2, Zenon
<1>4. /\ at' = IF Out(i, c).room > PRINT_BUF_LEN THEN "overrun" ELSE "text"
      /\ pc' = pc + Out(i, c).pc /\ sent' = sent + Len(Out(i, c).text)
      /\ last' = Taken(Modifier, c, arg, Out(i, c).text)
      /\ UNCHANGED <<width, flags, returns, asked, star>>
  BY <1>3
<1>5. at \in Directive /\ Modifier \in Modifiers \cup {"none"}
  BY DEF ConvertInteger, Directive, Modifier
<1> DEFINE printed == Out(i, c)
           m == Modifier
           f == last'
<1>6. /\ f.modifier = m /\ f.letter = c /\ f.arg = arg /\ f.text = printed.text
      /\ f.asked = asked /\ f.star = star
  BY <1>4
<1>7. Given(f, m, c, arg)
  BY <1>6 DEF Given
<1>8. /\ width = AskedWidth(f) /\ width \in Int
      /\ "PAD_RIGHT" \in flags <=> Contains(f.asked, "-")
      /\ "PAD_ZERO" \in flags <=> AsksZeros(f)
  BY <1>5, <1>6, AtLetter
<1>9. LONG = PRINT_BUF_LEN /\ LONG \in Nat
  BY Buffer, WidthsAre
<1>10. CASE c = "b" /\ i < 0
  <2>1. /\ arg < 0 /\ printed.room > LONG
        /\ printed.pc = Len(printed.text) /\ printed.pc \in Nat
    BY <1>5, <1>8, <1>10, NegativeOverruns
  <2>2. at' = "overrun"
    BY <1>4, <1>9, <2>1
  <2>3. TypeOK' /\ pc' = sent' - returns' /\ at' \notin Directive
    BY <1>4, <1>5, <2>1, <2>2, Sent
  <2>4. FieldRight' /\ StaysInBounds'
    BY <1>6, <1>10, <2>1, <2>2, <2>3 DEF FieldRight, StaysInBounds
  <2> QED BY <2>3, <2>4 DEF IInv
<1>11. CASE ~ (c = "b" /\ i < 0)
  <2>1. /\ printed.room \in Nat /\ printed.room <= LONG /\ FieldSent(f)
        /\ printed.pc = Len(printed.text) /\ printed.pc \in Nat
    BY <1>5, <1>6, <1>7, <1>8, <1>11, ConversionSends
  <2>2. at' = "text"
    BY <1>4, <1>9, <2>1
  <2>3. TypeOK' /\ pc' = sent' - returns' /\ at' \notin Directive
    BY <1>4, <1>5, <2>1, <2>2, Sent
  <2>4. FieldRight' /\ StaysInBounds'
    BY <2>1, <2>2, <2>3 DEF FieldRight, StaysInBounds
  <2> QED BY <2>3, <2>4 DEF IInv
<1> QED BY <1>10, <1>11

LEMMA ConvertStringKeeps == IInv /\ ConvertString => IInv'
<1> SUFFICES ASSUME IInv, ConvertString PROVE IInv'
  OBVIOUS
<1> DEFINE Texts == Strings \cup {<<>>, <<"c">>, <<"(", "n", "u", "l", "l", ")">>}
           Out(s) == Printed(<<>>, prints(s, width, flags), 0)
<1>1. PICK s \in Texts :
        /\ pc' = pc + Out(s).pc /\ sent' = sent + Len(Out(s).text)
        /\ last' = [modifier |-> "none", letter |-> "s", arg |-> s, text |-> Out(s).text,
                    asked |-> asked, star |-> star]
        /\ UNCHANGED <<width, flags, returns, asked, star>>
  BY DEF ConvertString, Send
<1>2. at' = "text" /\ at \in Directive
  BY DEF ConvertString, Directive
<1> DEFINE printed == Out(s)
           f == last'
<1>3. f.letter = "s" /\ f.arg = s /\ f.text = printed.text /\ f.asked = asked /\ f.star = star
  BY <1>1
<1>4. /\ width = AskedWidth(f) /\ width \in Int
      /\ "PAD_RIGHT" \in flags <=> Contains(f.asked, "-")
      /\ "PAD_ZERO" \in flags <=> AsksZeros(f)
  BY <1>2, <1>3, AtLetter
<1>5. FieldSent(f) /\ printed.pc = Len(printed.text) /\ printed.pc \in Nat
  BY <1>3, <1>4, StringSends
<1>6. TypeOK' /\ pc' = sent' - returns' /\ at' \notin Directive
  BY <1>1, <1>2, <1>5, Sent
<1>7. FieldRight' /\ StaysInBounds'
  BY <1>2, <1>5, <1>6 DEF FieldRight, StaysInBounds
<1> QED BY <1>6, <1>7 DEF IInv

\* The steps that only move the walk.
LEMMA Moves ==
  ASSUME IInv, UNCHANGED <<width, flags, asked, star, last, count>>,
         \/ at' = "text" /\ at \in Directive
         \/ at' = "done"
         \/ at' = "past" /\ at \in Directive \ {"%"}
  PROVE  IInv'
<1>1. at' \in {"text", "done", "past", "overrun"} /\ at' \notin Directive
  BY PointsAre
<1>2. TypeOK'
  BY <1>1 DEF IInv, TypeOK, count
<1>3. FieldRight'
  <2>1. pc' = sent' - returns'
    BY DEF IInv, FieldRight, count
  <2>2. at' = "text" => last' = NULL
    BY DEF IInv, Asked
  <2> QED BY <2>1, <2>2 DEF FieldRight
<1>4. StaysInBounds'
  BY <1>1 DEF IInv, Asked, StaysInBounds
<1> QED BY <1>1, <1>2, <1>3, <1>4 DEF IInv

LEMMA Stutters == IInv /\ UNCHANGED vars => IInv'
<1> SUFFICES ASSUME IInv, UNCHANGED vars PROVE IInv'
  OBVIOUS
<1>1. /\ at' = at /\ width' = width /\ flags' = flags /\ pc' = pc /\ sent' = sent
      /\ returns' = returns /\ asked' = asked /\ star' = star /\ last' = last
  BY DEF vars
<1>2. TypeOK' /\ FieldRight' /\ StaysInBounds'
  BY <1>1 DEF IInv, TypeOK, FieldRight, StaysInBounds
<1>3. at' \in Directive => Asked'
  BY <1>1 DEF IInv, Asked
<1> QED BY <1>2, <1>3 DEF IInv

LEMMA Invariance == IInv /\ [Next]_vars => IInv'
<1> SUFFICES ASSUME IInv, [Next]_vars PROVE IInv'
  OBVIOUS
<1>1. CASE PlainText \/ Percent
  BY <1>1, PlainTextKeeps, PercentKeeps
<1>2. CASE Minus \/ Zero \/ Star \/ Digit \/ ReadModifier
  BY <1>2, MinusKeeps, ZeroKeeps, StarKeeps, DigitKeeps, ReadModifierKeeps
<1>3. CASE ConvertInteger \/ ConvertString
  BY <1>3, ConvertIntegerKeeps, ConvertStringKeeps
<1>4. CASE Unknown
  BY <1>4, Moves DEF Unknown, Directive
<1>5. CASE EndOfFormat
  BY <1>5, Moves DEF EndOfFormat
<1>6. CASE EndInDirective
  BY <1>6, PointsAre, Moves DEF EndInDirective, Directive
<1>7. CASE Stopped \/ UNCHANGED vars
  BY <1>7, Stutters DEF Stopped
<1> QED BY <1>1, <1>2, <1>3, <1>4, <1>5, <1>6, <1>7 DEF Next

LEMMA Inductive == Spec => []IInv
  BY Initially, Invariance, PTL DEF Spec

\* Whatever directives a format has, whatever came before them and whatever
\* their arguments, each one sends the field it asks for, with a numeral that
\* reads back as its argument, and the count that simple_vsprintf returns is of
\* all the characters sent but the carriage returns (simple_outputi, prints).
THEOREM FieldsRight == Spec => []FieldRight
<1>1. IInv => FieldRight
  BY DEF IInv
<1> QED BY <1>1, Inductive, PTL

\* The walk passes the end of a format only within a directive, and print_buf,
\* with a place for every bit of a long, is too small for nothing but the %b of
\* a negative number (the loop of simple_vsprintf, print_buf of simple_outputi).
THEOREM WalkInBounds == Spec => []StaysInBounds
<1>1. IInv => StaysInBounds
  BY DEF IInv
<1> QED BY <1>1, Inductive, PTL

=============================================================================
