--------------------------- MODULE PageTableProofs --------------------------
(***************************************************************************)
(* For every number of entries, every set of page table pages and all      *)
(* calls that keep the contract, the tables are a tree at every step, and  *)
(* what they map is what the calls asked for.                              *)
(***************************************************************************)
EXTENDS PageTable, FiniteSetTheorems, TLAPS

-----------------------------------------------------------------------------
\* Arithmetic.

LEMMA Distrib ==
  \A a, b, c \in Int :
    /\ a * c \in Int
    /\ (a + b) * c = a * c + b * c
    /\ a * (b * c) = (a * b) * c
  OBVIOUS

LEMMA MulLe == \A a, b, s \in Int : a <= b /\ s >= 0 => a * s <= b * s
  OBVIOUS

LEMMA DivBounds ==
  \A x \in Int, s \in Nat \ {0} :
    /\ x \div s \in Int
    /\ (x \div s) * s <= x
    /\ x < (x \div s) * s + s
    /\ x % s = x - (x \div s) * s
  OBVIOUS

LEMMA DivMod ==
  ASSUME NEW x \in Nat, NEW s \in Nat \ {0}
  PROVE  /\ x \div s \in Nat /\ x % s \in 0 .. s - 1
         /\ x = (x \div s) * s + (x % s)
<1> DEFINE q == x \div s
<1>1. q \in Int /\ q * s <= x /\ x < q * s + s /\ x % s = x - q * s
  BY DivBounds
<1> HIDE DEF q
<1>2. q * s \in Int
  BY <1>1
<1>3. q >= 0
  <2>1. CASE q + 1 <= 0
    <3>1. (q + 1) * s <= 0 * s
      BY <1>1, <2>1, MulLe
    <3>2. (q + 1) * s = q * s + s /\ 0 * s = 0
      BY <1>1
    <3> QED BY <3>1, <3>2, <1>1, <1>2
  <2> QED BY <2>1, <1>1
<1> DEFINE m == q * s
           r == x % s
<1>4. m \in Int /\ m <= x /\ x < m + s /\ r = x - m
  BY <1>1, <1>2
<1> HIDE DEF m, r
<1>5. x = m + r /\ r \in 0 .. s - 1
  BY <1>4
<1>6. x = q * s + r
  BY <1>5 DEF m
<1>7. x \div s \in Nat
  BY <1>1, <1>3 DEF q
<1>8. x % s \in 0 .. s - 1
  BY <1>5 DEF r
<1>9. x = (x \div s) * s + (x % s)
  BY <1>6, Zenon DEF q, r
<1> QED BY <1>7, <1>8, <1>9, Zenon

\* Quotient and remainder are determined.
LEMMA DivUnique ==
  ASSUME NEW s \in Nat \ {0}, NEW q \in Nat, NEW r \in 0 .. s - 1
  PROVE  (q * s + r) \div s = q /\ (q * s + r) % s = r
<1> DEFINE x == q * s + r
           d == x \div s
           m == x % s
<1>1. q * s \in Nat /\ x \in Nat
  OBVIOUS
<1>2. d \in Nat /\ m \in 0 .. s - 1 /\ x = d * s + m /\ d * s \in Nat
  <2>1. d \in Nat /\ m \in 0 .. s - 1 /\ x = d * s + m
    BY <1>1, DivMod
  <2> QED BY <2>1
<1>3. x = q * s + r
  OBVIOUS
<1> HIDE DEF x, d, m
<1>4. ASSUME d + 1 <= q PROVE FALSE
  <2>1. (d + 1) * s <= q * s
    BY <1>2, <1>4, MulLe
  <2>2. (d + 1) * s = d * s + s
    BY <1>2
  <2> QED BY <2>1, <2>2, <1>1, <1>2, <1>3
<1>5. ASSUME q + 1 <= d PROVE FALSE
  <2>1. (q + 1) * s <= d * s
    BY <1>2, <1>5, MulLe
  <2>2. (q + 1) * s = q * s + s
    OBVIOUS
  <2> QED BY <2>1, <2>2, <1>1, <1>2, <1>3
<1>6. d = q
  BY <1>2, <1>4, <1>5
<1>7. m = r
  BY <1>1, <1>2, <1>3, <1>6
<1> QED BY <1>6, <1>7 DEF x, d, m

LEMMA DivDiv ==
  ASSUME NEW v \in Nat, NEW D \in Nat \ {0}, NEW E \in Nat \ {0}
  PROVE  v \div (E * D) = (v \div D) \div E
<1> DEFINE x == v \div D
           y == x \div E
           off == (x % E) * D + (v % D)
<1>1. x \in Nat /\ v % D \in 0 .. D - 1 /\ v = x * D + (v % D)
  BY DivMod
<1>2. y \in Nat /\ x % E \in 0 .. E - 1 /\ x = y * E + (x % E)
  BY <1>1, DivMod
<1> DEFINE r == x % E
           w == v % D
<1>3. x = y * E + r /\ v = x * D + w /\ off = r * D + w
  BY <1>1, <1>2
<1>4. r \in 0 .. E - 1 /\ w \in 0 .. D - 1
  BY <1>1, <1>2
<1> HIDE DEF x, y, r, w
<1>5. x * D = (y * E) * D + r * D /\ (y * E) * D = y * (E * D)
  <2>1. y \in Int /\ E \in Int /\ D \in Int /\ r \in Int /\ y * E \in Int
    BY <1>2, <1>4
  <2> QED BY <2>1, <1>3, Distrib
<1>6. E * D \in Nat \ {0} /\ r * D \in Nat /\ r * D <= (E - 1) * D /\ (E - 1) * D = E * D - D
  <2>1. r * D <= (E - 1) * D
    BY <1>4, MulLe
  <2> QED BY <2>1, <1>4
<1>7. r * D + w \in 0 .. E * D - 1
  BY <1>4, <1>6
<1>8. v = y * (E * D) + (r * D + w)
  <2>1. y * (E * D) \in Nat
    BY <1>2, <1>6
  <2> QED BY <2>1, <1>3, <1>4, <1>5, <1>6
<1>9. v \div (E * D) = y
  BY <1>2, <1>6, <1>7, <1>8, DivUnique
<1> QED BY <1>9 DEF y, x

-----------------------------------------------------------------------------
\* Which table of a level describes a page, and which entry of that level; both
\* are numbered along the address space.
Number(l, v) == v \div (PTP_ENTRIES * PerEntry(l))
EntryNumber(l, v) == v \div PerEntry(l)

LEMMA PerFacts ==
  /\ PTP_ENTRIES \in Nat \ {0, 1}
  /\ \A l \in Levels : PerEntry(l) \in Nat \ {0}
  /\ \A l \in 0 .. 2 : PerEntry(l) = PTP_ENTRIES * PerEntry(l + 1)
  /\ PerEntry(3) = 1
<1>1. PTP_ENTRIES \in Nat \ {0, 1}
  BY TableAssumption
<1>2. PTP_ENTRIES * PTP_ENTRIES \in Nat \ {0}
  BY <1>1
<1>3. PTP_ENTRIES * (PTP_ENTRIES * PTP_ENTRIES) \in Nat \ {0}
  BY <1>1, <1>2
<1>4. /\ PerEntry(3) = 1 /\ PerEntry(2) = PTP_ENTRIES
      /\ PerEntry(1) = PTP_ENTRIES * PTP_ENTRIES
      /\ PerEntry(0) = PTP_ENTRIES * (PTP_ENTRIES * PTP_ENTRIES)
  BY DEF PerEntry
<1>5. Levels = {0, 1, 2, 3} /\ 0 .. 2 = {0, 1, 2}
  BY DEF Levels
<1> QED BY <1>1, <1>2, <1>3, <1>4, <1>5

\* One step down the levels.
LEMMA NumberStep ==
  ASSUME NEW l \in Levels, NEW v \in Nat
  PROVE  /\ Number(l, v) \in Nat /\ EntryNumber(l, v) \in Nat
         /\ GET_INDEX(l, v) \in Indices
         /\ EntryNumber(l, v) = Number(l, v) * PTP_ENTRIES + GET_INDEX(l, v)
         /\ l # 3 => Number(l + 1, v) = EntryNumber(l, v)
<1> DEFINE D == PerEntry(l)
           E == PTP_ENTRIES
           x == v \div D
<1>1. D \in Nat \ {0} /\ E \in Nat \ {0}
  BY PerFacts
<1>2. x \in Nat
  BY <1>1, DivMod
<1>3. v \div (E * D) = x \div E
  BY <1>1, DivDiv
<1>4. x \div E \in Nat /\ x % E \in 0 .. E - 1 /\ x = (x \div E) * E + (x % E)
  BY <1>1, <1>2, DivMod
<1>5. l # 3 => PTP_ENTRIES * PerEntry(l + 1) = PerEntry(l)
  BY PerFacts DEF Levels
<1>6. Number(l, v) = x \div E /\ EntryNumber(l, v) = x /\ GET_INDEX(l, v) = x % E
  BY <1>3 DEF Number, EntryNumber, GET_INDEX
<1>7. l # 3 => Number(l + 1, v) = x
  BY <1>5 DEF Number
<1> HIDE DEF x, E
<1>8. EntryNumber(l, v) = Number(l, v) * E + GET_INDEX(l, v)
  BY <1>1, <1>2, <1>4, <1>6
<1> QED BY <1>2, <1>4, <1>6, <1>7, <1>8 DEF Indices, E

LEMMA Digits ==
  ASSUME NEW a \in Nat, NEW b \in Nat, NEW i \in Indices, NEW j \in Indices,
         a * PTP_ENTRIES + i = b * PTP_ENTRIES + j
  PROVE  a = b /\ i = j
<1>1. PTP_ENTRIES \in Nat \ {0} /\ i \in 0 .. PTP_ENTRIES - 1 /\ j \in 0 .. PTP_ENTRIES - 1
  BY PerFacts DEF Indices
<1>2. /\ (a * PTP_ENTRIES + i) \div PTP_ENTRIES = a /\ (a * PTP_ENTRIES + i) % PTP_ENTRIES = i
      /\ (b * PTP_ENTRIES + j) \div PTP_ENTRIES = b /\ (b * PTP_ENTRIES + j) % PTP_ENTRIES = j
  BY <1>1, DivUnique
<1> QED BY <1>2

-----------------------------------------------------------------------------
\* The tree.  Every table handed out has a level, a number among the tables of its
\* level, and, but for the root, a table and an entry at which it hangs.

BlockEntries == {e \in Ptes : ~ e.is_table /\ e.pfn \in Nat /\ e.attr # NULL}
PageEntries == {e \in Ptes : e.is_table /\ e.pfn \in Nat /\ e.attr # NULL}

Hangs(lev, num, par, idx, p) ==
  /\ lev[p] = lev[par[p]] + 1
  /\ num[p] = num[par[p]] * PTP_ENTRIES + idx[p]
  /\ table[par[p]][idx[p]] = TableEntry(p)

EntryShape(lev, par, idx, p, i) ==
  \/ table[p][i] = NULL
  \/ lev[p] = 3 /\ table[p][i] \in PageEntries
  \/ lev[p] \in {1, 2} /\ table[p][i] \in BlockEntries
  \/ /\ lev[p] # 3
     /\ \E q \in used \ {pgtbl} :
          table[p][i] = TableEntry(q) /\ par[q] = p /\ idx[q] = i

Shape(lev, num, par, idx) ==
  /\ lev \in [used -> Levels] /\ num \in [used -> Nat]
  /\ par \in [used -> used] /\ idx \in [used -> Indices]
  /\ pgtbl = NULL => used = {}
  /\ pgtbl # NULL => pgtbl \in used /\ lev[pgtbl] = 0 /\ num[pgtbl] = 0
  /\ \A p \in used \ {pgtbl} : Hangs(lev, num, par, idx, p)
  /\ \A p \in used, i \in Indices : EntryShape(lev, par, idx, p, i)

\* The call in progress is at the table that describes its page, and keeps its contract.
NoBlockAhead(lev, num) ==
  \A p \in used, i \in Indices, v \in walk.va .. walk.end - 1 :
    lev[p] \in {1, 2} /\ table[p][i] \in BlockEntries =>
      num[p] * PTP_ENTRIES + i # EntryNumber(lev[p], v)

NoTableAhead(lev, num) ==
  \A p \in used, l \in {1, 2}, v \in walk.va .. walk.end - 1 :
    /\ lev[p] = l + 1
    /\ v % PerEntry(l) = 0
    /\ (v + (walk.pa - walk.va)) % PerEntry(l) = 0
    /\ walk.end - v >= PerEntry(l)
    => num[p] # EntryNumber(l, v)

WalkRight(lev, num) ==
  walk # NULL =>
    /\ pgtbl # NULL
    /\ walk.ptp \in used /\ lev[walk.ptp] = walk.level
    /\ walk.end <= PTP_ENTRIES * PerEntry(0)
    /\ walk.va < walk.end => num[walk.ptp] = Number(walk.level, walk.va)
    /\ walk.op # "unmap_huge" => NoBlockAhead(lev, num)
    /\ walk.op = "map_huge" => NoTableAhead(lev, num)

Types ==
  /\ pgtbl \in Ptps \cup {NULL}
  /\ used \subseteq Ptps
  /\ DOMAIN table = Ptps /\ \A p \in used : DOMAIN table[p] = Indices
  /\ walk \in Walks \cup {NULL}
  /\ ret \in {NULL, 0}
  /\ halted \in BOOLEAN /\ (halted => used = Ptps)

Tree == \E lev, num, par, idx : Shape(lev, num, par, idx) /\ WalkRight(lev, num)

Inv == Types /\ Tree

-----------------------------------------------------------------------------
LEMMA EntriesNotNull ==
  /\ \A p \in Ptps : TableEntry(p) \in Ptes /\ TableEntry(p) # NULL /\ TableEntry(p).is_table
                     /\ TableEntry(p).pfn = p /\ TableEntry(p).attr = NULL
  /\ \A e \in BlockEntries \cup PageEntries : e # NULL
<1>1. \A p \in Ptps : TableEntry(p) \in Ptes
  BY DEF TableEntry, Ptes
<1> QED BY <1>1, NullAssumption DEF TableEntry, BlockEntries, PageEntries

\* The table above the one that describes a page describes it too, and the entry for
\* the page leads down.
LEMMA StepUp ==
  ASSUME NEW lev, NEW num, NEW par, NEW idx, Shape(lev, num, par, idx),
         NEW p \in used \ {pgtbl}, NEW v \in Nat, num[p] = Number(lev[p], v)
  PROVE  /\ par[p] \in used /\ lev[par[p]] \in 0 .. 2 /\ lev[p] = lev[par[p]] + 1
         /\ num[par[p]] = Number(lev[par[p]], v)
         /\ Pte(lev[par[p]], par[p], v) = TableEntry(p)
<1> DEFINE q == par[p]
<1>1. /\ q \in used /\ idx[p] \in Indices /\ lev[q] \in Levels /\ lev[p] \in Levels
      /\ num[q] \in Nat /\ Hangs(lev, num, par, idx, p)
  BY DEF Shape
<1>2. lev[p] = lev[q] + 1 /\ lev[q] \in 0 .. 2 /\ lev[q] # 3
  BY <1>1 DEF Hangs, Levels
<1>3. Number(lev[p], v) = Number(lev[q], v) * PTP_ENTRIES + GET_INDEX(lev[q], v)
  BY <1>1, <1>2, NumberStep
<1>4. num[q] * PTP_ENTRIES + idx[p] = Number(lev[q], v) * PTP_ENTRIES + GET_INDEX(lev[q], v)
  BY <1>1, <1>3 DEF Hangs
<1>5. Number(lev[q], v) \in Nat /\ GET_INDEX(lev[q], v) \in Indices
  BY <1>1, NumberStep
<1>6. num[q] = Number(lev[q], v) /\ idx[p] = GET_INDEX(lev[q], v)
  BY <1>1, <1>4, <1>5, Digits
<1>7. Pte(lev[q], q, v) = TableEntry(p)
  BY <1>1, <1>6 DEF Hangs, Pte
<1> QED BY <1>1, <1>2, <1>6, <1>7

LEMMA OnlyRoot ==
  ASSUME NEW lev, NEW num, NEW par, NEW idx, Shape(lev, num, par, idx),
         NEW p \in used
  PROVE  lev[p] = 0 <=> p = pgtbl
<1>1. CASE p # pgtbl
  <2>1. Hangs(lev, num, par, idx, p) /\ par[p] \in used
    BY <1>1 DEF Shape
  <2>2. lev[par[p]] \in Levels
    BY <2>1 DEF Shape
  <2> QED BY <1>1, <2>1, <2>2 DEF Hangs, Levels
<1>2. CASE p = pgtbl
  BY <1>2 DEF Shape
<1> QED BY <1>1, <1>2

\* The walk for a page ends at an entry that leads no further.
EndsAt(l, e) ==
  \/ e = NULL
  \/ l = 3 /\ e \in PageEntries
  \/ l \in {1, 2} /\ e \in BlockEntries

Ends(lev, num, p, v) ==
  p \in used /\ num[p] = Number(lev[p], v) /\ EndsAt(lev[p], Pte(lev[p], p, v))

LEMMA FoundAnswers ==
  ASSUME NEW l \in Levels, NEW e \in BlockEntries \cup PageEntries, NEW v \in Nat
  PROVE  Found(l, e, v) # NULL /\ Found(l, e, v).level = l /\ Found(l, e, v).attr = e.attr
<1>1. PerEntry(l) \in Nat \ {0}
  BY PerFacts
<1>2. e.pfn \in Nat /\ e.attr \in Attrs
  BY DEF BlockEntries, PageEntries, Ptes
<1>3. v % PerEntry(l) \in Nat /\ e.pfn * PerEntry(l) \in Nat
  <2>1. \A x \in Nat, s \in Nat \ {0} : x % s \in Nat /\ x * s \in Nat
    OBVIOUS
  <2> QED BY <1>1, <1>2, <2>1
<1>4. Found(l, e, v) \in Answers
  BY <1>2, <1>3 DEF Answers, Found
<1> QED BY <1>4, NullAssumption DEF Found

\* What query_in_pgtbl answers: what the entry says at which the walk ends.
AnswerOf(l, e, v) == IF e = NULL THEN NULL ELSE Found(l, e, v)

LEMMA EndFound ==
  ASSUME Types,
         NEW lev, NEW num, NEW par, NEW idx, Shape(lev, num, par, idx),
         NEW p, NEW v \in Nat, Ends(lev, num, p, v)
  PROVE  query_in_pgtbl(v) = AnswerOf(lev[p], Pte(lev[p], p, v), v)
<1>1. p \in used /\ lev[p] \in {0, 1, 2, 3} /\ num[p] = Number(lev[p], v)
  BY DEF Ends, Shape, Levels
<1>2. PICK e : e = Pte(lev[p], p, v) /\ EndsAt(lev[p], e)
  BY DEF Ends
<1>3. /\ e \in PageEntries => e # NULL
      /\ e \in BlockEntries => e # NULL /\ ~ e.is_table
      /\ \A q \in used : TableEntry(q) # NULL /\ TableEntry(q).is_table /\ TableEntry(q).pfn = q
  BY EntriesNotNull DEF BlockEntries, Types
<1>4. ASSUME NEW q \in used, NEW l \in 1 .. 3, lev[q] = l, num[q] = Number(l, v)
      PROVE  /\ par[q] \in used /\ lev[par[q]] = l - 1 /\ num[par[q]] = Number(l - 1, v)
             /\ Pte(l - 1, par[q], v) = TableEntry(q)
  <2>1. q \in used \ {pgtbl} /\ num[q] = Number(lev[q], v)
    BY <1>4, OnlyRoot
  <2>2. /\ par[q] \in used /\ lev[q] = lev[par[q]] + 1 /\ lev[par[q]] \in 0 .. 2
        /\ num[par[q]] = Number(lev[par[q]], v)
        /\ Pte(lev[par[q]], par[q], v) = TableEntry(q)
    BY <2>1, StepUp
  <2>3. lev[par[q]] = l - 1
    BY <1>4, <2>2
  <2> QED BY <2>2, <2>3
<1>5. CASE lev[p] = 0
  <2>1. p = pgtbl /\ e = NULL
    BY <1>1, <1>2, <1>5, OnlyRoot DEF EndsAt
  <2> QED BY <1>2, <1>5, <2>1 DEF query_in_pgtbl, AnswerOf
<1>6. CASE lev[p] = 1
  <2>1. PICK q1 \in used : /\ lev[q1] = 0 /\ Pte(0, q1, v) = TableEntry(p)
    BY <1>1, <1>4, <1>6
  <2>2. q1 = pgtbl
    BY <2>1, OnlyRoot
  <2>3. e = NULL \/ e \in BlockEntries
    BY <1>2, <1>6 DEF EndsAt
  <2> QED BY <1>1, <1>2, <1>3, <1>6, <2>1, <2>2, <2>3 DEF query_in_pgtbl, AnswerOf
<1>7. CASE lev[p] = 2
  <2>1. PICK q2 \in used : lev[q2] = 1 /\ num[q2] = Number(1, v) /\ Pte(1, q2, v) = TableEntry(p)
    BY <1>1, <1>4, <1>7
  <2>2. PICK q1 \in used : lev[q1] = 0 /\ Pte(0, q1, v) = TableEntry(q2)
    BY <1>4, <2>1
  <2>3. q1 = pgtbl
    BY <2>2, OnlyRoot
  <2>4. e = NULL \/ e \in BlockEntries
    BY <1>2, <1>7 DEF EndsAt
  <2> QED BY <1>1, <1>2, <1>3, <1>7, <2>1, <2>2, <2>3, <2>4 DEF query_in_pgtbl, AnswerOf
<1>8. CASE lev[p] = 3
  <2>1. PICK q3 \in used : lev[q3] = 2 /\ num[q3] = Number(2, v) /\ Pte(2, q3, v) = TableEntry(p)
    BY <1>1, <1>4, <1>8
  <2>2. PICK q2 \in used : lev[q2] = 1 /\ num[q2] = Number(1, v) /\ Pte(1, q2, v) = TableEntry(q3)
    BY <1>4, <2>1
  <2>3. PICK q1 \in used : lev[q1] = 0 /\ Pte(0, q1, v) = TableEntry(q2)
    BY <1>4, <2>2
  <2>4. q1 = pgtbl
    BY <2>3, OnlyRoot
  <2> QED BY <1>1, <1>2, <1>3, <1>8, <2>1, <2>2, <2>3, <2>4 DEF query_in_pgtbl, AnswerOf
<1> QED BY <1>1, <1>5, <1>6, <1>7, <1>8

LEMMA RootNumber ==
  ASSUME NEW v \in Nat, v < PTP_ENTRIES * PerEntry(0)
  PROVE  Number(0, v) = 0
<1> DEFINE s == PTP_ENTRIES * PerEntry(0)
<1>1. s \in Nat \ {0}
  BY PerFacts DEF Levels
<1>2. v \in 0 .. s - 1 /\ 0 * s + v = v
  BY <1>1
<1> HIDE DEF s
<1>3. (0 * s + v) \div s = 0
  BY <1>1, <1>2, DivUnique
<1> QED BY <1>2, <1>3 DEF Number, s

LEMMA PagesAre == VPages \subseteq Nat /\ \A v \in VPages : v < PTP_ENTRIES * PerEntry(0)
<1>1. PTP_ENTRIES * PerEntry(0) \in Nat
  BY PerFacts DEF Levels
<1> QED BY <1>1 DEF VPages

\* The walk for every page ends.
LEMMA HasEnd ==
  ASSUME Types, NEW lev, NEW num, NEW par, NEW idx, Shape(lev, num, par, idx),
         pgtbl # NULL, NEW v \in VPages
  PROVE  \E p \in used : Ends(lev, num, p, v)
<1>1. v \in Nat /\ Number(0, v) = 0
  BY PagesAre, RootNumber
<1>2. pgtbl \in used /\ lev[pgtbl] = 0 /\ num[pgtbl] = Number(0, v)
  BY <1>1 DEF Shape
<1>3. ASSUME NEW l \in Levels, NEW p \in used, lev[p] = l, num[p] = Number(l, v)
      PROVE  \/ Ends(lev, num, p, v)
             \/ l # 3 /\ \E q \in used : lev[q] = l + 1 /\ num[q] = Number(l + 1, v)
  <2>1. /\ GET_INDEX(l, v) \in Indices
        /\ EntryNumber(l, v) = Number(l, v) * PTP_ENTRIES + GET_INDEX(l, v)
        /\ l # 3 => Number(l + 1, v) = EntryNumber(l, v)
    BY <1>1, NumberStep
  <2>2. EntryShape(lev, par, idx, p, GET_INDEX(l, v))
    BY <2>1 DEF Shape
  <2>3. CASE EndsAt(l, Pte(l, p, v))
    BY <1>3, <2>3 DEF Ends
  <2>4. CASE ~ EndsAt(l, Pte(l, p, v))
    <3>1. PICK q \in used \ {pgtbl} : par[q] = p /\ idx[q] = GET_INDEX(l, v) /\ l # 3
      BY <1>3, <2>2, <2>4 DEF EntryShape, EndsAt, Pte
    <3>2. lev[q] = l + 1 /\ num[q] = Number(l, v) * PTP_ENTRIES + GET_INDEX(l, v)
      BY <1>3, <3>1 DEF Shape, Hangs
    <3> QED BY <2>1, <3>1, <3>2
  <2> QED BY <2>3, <2>4
<1>4. Levels = {0, 1, 2, 3} /\ 0 + 1 = 1 /\ 1 + 1 = 2 /\ 2 + 1 = 3
  BY DEF Levels
<1>5. (\E p \in used : Ends(lev, num, p, v)) \/ \E q \in used : lev[q] = 1 /\ num[q] = Number(1, v)
  BY <1>2, <1>3, <1>4
<1>6. (\E p \in used : Ends(lev, num, p, v)) \/ \E q \in used : lev[q] = 2 /\ num[q] = Number(2, v)
  BY <1>3, <1>4, <1>5
<1>7. (\E p \in used : Ends(lev, num, p, v)) \/ \E q \in used : lev[q] = 3 /\ num[q] = Number(3, v)
  BY <1>3, <1>4, <1>6
<1> QED BY <1>3, <1>4, <1>7

\* A block is what query_in_pgtbl finds for the pages it describes.
LEMMA BlockSeen ==
  ASSUME Types,
         NEW lev, NEW num, NEW par, NEW idx, Shape(lev, num, par, idx),
         NEW p \in used, NEW i \in Indices, NEW v \in Nat,
         NEW l \in {1, 2}, lev[p] = l,
         NEW e \in BlockEntries, table[p][i] = e,
         num[p] * PTP_ENTRIES + i = EntryNumber(l, v)
  PROVE  InBlock(v)
<1>1. l \in Levels /\ num[p] \in Nat /\ e # NULL
  BY EntriesNotNull DEF Shape, Levels
<1>2. num[p] = Number(l, v) /\ i = GET_INDEX(l, v)
  <2>1. /\ Number(l, v) \in Nat /\ GET_INDEX(l, v) \in Indices
        /\ EntryNumber(l, v) = Number(l, v) * PTP_ENTRIES + GET_INDEX(l, v)
    BY <1>1, NumberStep
  <2> QED BY <1>1, <2>1, Digits
<1>3. Ends(lev, num, p, v) /\ Pte(lev[p], p, v) = e
  BY <1>2 DEF Ends, EndsAt, Pte
<1>4. query_in_pgtbl(v) = Found(l, e, v)
  BY <1>1, <1>3, EndFound DEF AnswerOf
<1> QED BY <1>1, <1>4, FoundAnswers DEF InBlock

\* A table is what the contract of map_range_in_pgtbl_huge looks for.
LEMMA TableSeen ==
  ASSUME Types,
         NEW lev, NEW num, NEW par, NEW idx, Shape(lev, num, par, idx),
         NEW p \in used, NEW l \in {1, 2}, NEW v \in Nat,
         lev[p] = l + 1, num[p] = EntryNumber(l, v)
  PROVE  TableBelow(l, v)
<1>1. l \in Levels /\ l # 3 /\ p # pgtbl /\ p \in Ptps /\ lev[p] \in Levels
  BY OnlyRoot DEF Levels, Types
<1>2. num[p] = Number(lev[p], v)
  BY <1>1, NumberStep
<1> DEFINE q == par[p]
<1>3. /\ q \in used /\ lev[q] = l /\ num[q] = Number(l, v)
      /\ Pte(l, q, v) = TableEntry(p)
  BY <1>1, <1>2, StepUp
<1>4. q # pgtbl /\ q \in Ptps
  BY <1>3, OnlyRoot DEF Types
<1> DEFINE r == par[q]
<1>5. /\ r \in used /\ lev[r] = l - 1 /\ num[r] = Number(l - 1, v)
      /\ Pte(l - 1, r, v) = TableEntry(q)
  BY <1>3, <1>4, StepUp
<1>6. CASE l = 1
  <2>1. r = pgtbl
    BY <1>5, <1>6, OnlyRoot
  <2> QED BY <1>1, <1>3, <1>4, <1>5, <1>6, <2>1, EntriesNotNull DEF TableBelow
<1>7. CASE l = 2
  <2>1. r # pgtbl /\ r \in Ptps
    BY <1>5, <1>7, OnlyRoot DEF Types
  <2>2. /\ par[r] \in used /\ lev[par[r]] = 0
        /\ Pte(0, par[r], v) = TableEntry(r)
    BY <1>5, <1>7, <2>1, StepUp
  <2>3. par[r] = pgtbl
    BY <2>2, OnlyRoot
  <2> QED BY <1>1, <1>3, <1>4, <1>5, <1>7, <2>1, <2>2, <2>3, EntriesNotNull DEF TableBelow
<1> QED BY <1>6, <1>7

-----------------------------------------------------------------------------
\* Where a round of a call stands.

\* Blocks further on have other numbers, and a block that starts further on with
\* the same number starts here.
LEMMA LaterBlock ==
  ASSUME NEW l \in Levels, NEW a \in Nat, NEW v \in Nat
  PROVE  /\ a + PerEntry(l) <= v => EntryNumber(l, a) # EntryNumber(l, v)
         /\ a <= v /\ v % PerEntry(l) = 0 /\ EntryNumber(l, a) = EntryNumber(l, v) => a = v
<1> DEFINE D == PerEntry(l)
           m == a % D
           n == v % D
           x == a \div D
           y == v \div D
<1>1. D \in Nat \ {0}
  BY PerFacts
<1>2. x \in Nat /\ y \in Nat /\ m \in 0 .. D - 1 /\ n \in 0 .. D - 1
      /\ a = x * D + m /\ v = y * D + n
  BY <1>1, DivMod
<1>3. EntryNumber(l, a) = x /\ EntryNumber(l, v) = y
  BY DEF EntryNumber
<1> HIDE DEF D, m, n, x, y
<1>4. x = y => x * D = y * D /\ x * D \in Nat
  BY <1>1, <1>2
<1>5. x = y => a - m = v - n
  BY <1>1, <1>2, <1>4
<1>6. a + D <= v => x # y
  BY <1>1, <1>2, <1>5
<1>7. a <= v /\ n = 0 /\ x = y => a = v
  BY <1>1, <1>2, <1>5
<1> QED BY <1>3, <1>6, <1>7 DEF D, n

LEMMA Here ==
  ASSUME Types, NEW lev, NEW num, NEW par, NEW idx,
         Shape(lev, num, par, idx), WalkRight(lev, num), InRound
  PROVE  /\ walk \in Walks /\ walk.va \in Nat /\ walk.end \in Nat /\ walk.pa \in Nat
         /\ walk.level \in Levels /\ pgtbl # NULL
         /\ walk.ptp \in used /\ lev[walk.ptp] = walk.level /\ Index \in Indices
         /\ Entry = table[walk.ptp][Index]
         /\ num[walk.ptp] * PTP_ENTRIES + Index = EntryNumber(walk.level, walk.va)
         /\ walk.level # 3 => Number(walk.level + 1, walk.va)
                                = EntryNumber(walk.level, walk.va)
<1>1. walk # NULL /\ walk.va < walk.end /\ walk \in Walks
  BY DEF InRound, Types
<1>2. walk.va \in Nat /\ walk.end \in Nat /\ walk.pa \in Nat /\ walk.level \in Levels
  BY <1>1 DEF Walks
<1>3. /\ pgtbl # NULL /\ walk.ptp \in used /\ lev[walk.ptp] = walk.level
      /\ num[walk.ptp] = Number(walk.level, walk.va)
  BY <1>1 DEF WalkRight
<1>4. /\ Index \in Indices
      /\ EntryNumber(walk.level, walk.va) = Number(walk.level, walk.va) * PTP_ENTRIES + Index
      /\ walk.level # 3 => Number(walk.level + 1, walk.va) = EntryNumber(walk.level, walk.va)
  BY <1>2, NumberStep DEF Index
<1> QED BY <1>1, <1>2, <1>3, <1>4 DEF Entry, Pte, Index

\* An entry that is followed leads to a table.
LEMMA FollowedEntry ==
  ASSUME Types, NEW lev, NEW num, NEW par, NEW idx,
         Shape(lev, num, par, idx), WalkRight(lev, num), InRound,
         walk.level # 3, Entry # NULL,
         walk.op # "unmap_huge" \/ walk.level = 0 \/ Entry.is_table
  PROVE  \E q \in used \ {pgtbl} : Entry = TableEntry(q) /\ par[q] = walk.ptp /\ idx[q] = Index
<1> USE Here
<1>1. EntryShape(lev, par, idx, walk.ptp, Index)
  BY DEF Shape
<1>2. ASSUME walk.level \in {1, 2}, Entry \in BlockEntries PROVE FALSE
  <2>1. CASE walk.op # "unmap_huge"
    <3>1. NoBlockAhead(lev, num) /\ walk.va \in walk.va .. walk.end - 1
      BY <2>1 DEF WalkRight, InRound
    <3> QED BY <1>2, <3>1 DEF NoBlockAhead
  <2>2. CASE Entry.is_table
    BY <1>2, <2>2 DEF BlockEntries
  <2> QED BY <1>2, <2>1, <2>2
<1> QED BY <1>1, <1>2 DEF EntryShape

\* One step down the tables.
LEMMA GoDown ==
  ASSUME Inv, InRound, walk.level # 3, Entry # NULL,
         walk.op # "unmap_huge" \/ walk.level = 0 \/ Entry.is_table,
         Down(Entry.pfn), UNCHANGED <<pgtbl, table, used, ret, halted>>
  PROVE  Inv'
<1>1. PICK lev, num, par, idx : Shape(lev, num, par, idx) /\ WalkRight(lev, num)
  BY DEF Inv, Tree
<1>2. Types
  BY DEF Inv
<1> USE <1>1, <1>2, Here
<1>3. PICK q \in used \ {pgtbl} : Entry = TableEntry(q) /\ par[q] = walk.ptp /\ idx[q] = Index
  BY FollowedEntry
<1>4. Entry.pfn = q /\ q \in Ptps
  BY <1>3, EntriesNotNull DEF Types
<1>5. walk' = [walk EXCEPT !.level = @ + 1, !.ptp = q]
  BY <1>4 DEF Down
<1>6. walk' \in Walks /\ walk' # NULL
  <2>1. walk.level + 1 \in Levels
    BY DEF Levels
  <2>2. walk' \in Walks
    BY <1>4, <1>5, <2>1 DEF Walks
  <2> QED BY <2>2, NullAssumption
<1>7. /\ walk'.va = walk.va /\ walk'.end = walk.end /\ walk'.pa = walk.pa /\ walk'.op = walk.op
      /\ walk'.level = walk.level + 1 /\ walk'.ptp = q
  BY <1>5 DEF Walks
<1>8. Types'
  BY <1>6 DEF Types
<1>9. Shape(lev, num, par, idx)'
  BY DEF Shape, Hangs, EntryShape
<1>10. lev[q] = walk.level + 1 /\ num[q] = Number(walk.level + 1, walk.va)
  BY <1>3 DEF Shape, Hangs
<1>11. WalkRight(lev, num)'
  <2>1. walk # NULL
    BY DEF InRound
  <2>2. /\ walk.op # "unmap_huge" => NoBlockAhead(lev, num)'
        /\ walk.op = "map_huge" => NoTableAhead(lev, num)'
    BY <1>7, <2>1 DEF WalkRight, NoBlockAhead, NoTableAhead
  <2> QED BY <1>3, <1>7, <1>10, <2>1, <2>2 DEF WalkRight
<1> QED BY <1>8, <1>9, <1>11 DEF Inv, Tree

\* The next round keeps the contract, if no block was put ahead of it.
LEMMA AfterRound ==
  ASSUME Types, NEW lev, NEW num, NEW par, NEW idx,
         Shape(lev, num, par, idx), WalkRight(lev, num), InRound,
         NEW n \in Nat \ {0}, NextRound(n), UNCHANGED <<pgtbl, used>>,
         \A p \in used, i \in Indices :
           lev[p] \in {1, 2} /\ table'[p][i] \in BlockEntries =>
             \/ table[p][i] \in BlockEntries
             \/ \A v \in walk.va + n .. walk.end - 1 :
                  num[p] * PTP_ENTRIES + i # EntryNumber(lev[p], v)
  PROVE  walk' \in Walks /\ WalkRight(lev, num)'
<1> USE Here
<1>1. walk' = [walk EXCEPT !.va = @ + n, !.pa = @ + n, !.level = 0, !.ptp = pgtbl]
  BY DEF NextRound
<1>2. pgtbl \in Ptps /\ 0 \in Levels
  BY DEF Types, Levels
<1>3. walk' \in Walks
  <2>1. walk.va + n \in Nat /\ walk.pa + n \in Nat /\ walk \in Walks
    OBVIOUS
  <2>2. walk' = [walk EXCEPT !.va = walk.va + n, !.pa = walk.pa + n, !.level = 0, !.ptp = pgtbl]
    BY <1>1
  <2> QED BY <1>2, <2>1, <2>2 DEF Walks
<1>4. /\ walk'.va = walk.va + n /\ walk'.end = walk.end /\ walk'.pa = walk.pa + n
      /\ walk'.op = walk.op /\ walk'.level = 0 /\ walk'.ptp = pgtbl
  BY <1>1 DEF Walks
<1>5. walk # NULL /\ pgtbl \in used /\ lev[pgtbl] = 0 /\ num[pgtbl] = 0
      /\ walk.end <= PTP_ENTRIES * PerEntry(0)
  BY DEF InRound, Shape, WalkRight
<1>6. walk'.va < walk'.end => Number(0, walk'.va) = 0
  <2>1. PTP_ENTRIES * PerEntry(0) \in Nat
    BY PerFacts DEF Levels
  <2> QED BY <1>4, <1>5, <2>1, RootNumber
<1>7. \A v \in walk'.va .. walk'.end - 1 : v \in walk.va .. walk.end - 1
  BY <1>4
<1>8. walk'.op # "unmap_huge" => NoBlockAhead(lev, num)'
  <2> SUFFICES ASSUME walk.op # "unmap_huge",
                      NEW p \in used, NEW i \in Indices, NEW v \in walk'.va .. walk'.end - 1,
                      lev[p] \in {1, 2}, table'[p][i] \in BlockEntries
               PROVE  num[p] * PTP_ENTRIES + i # EntryNumber(lev[p], v)
    BY <1>4 DEF NoBlockAhead, BlockEntries
  <2>1. CASE table[p][i] \in BlockEntries
    BY <1>5, <1>7, <2>1 DEF WalkRight, NoBlockAhead
  <2>2. CASE table[p][i] \notin BlockEntries
    BY <1>4, <2>2
  <2> QED BY <2>1, <2>2
<1>9. walk'.op = "map_huge" => NoTableAhead(lev, num)'
  <2>1. walk'.pa - walk'.va = walk.pa - walk.va
    BY <1>4
  <2> QED BY <1>4, <1>5, <1>7, <2>1 DEF WalkRight, NoTableAhead
<1> QED BY <1>3, <1>4, <1>5, <1>6, <1>8, <1>9 DEF WalkRight

\* An entry is written where no table hangs.
LEMMA SetEntry ==
  ASSUME Types, NEW lev, NEW num, NEW par, NEW idx, Shape(lev, num, par, idx),
         NEW p \in used, NEW i \in Indices, NEW e,
         table' = [table EXCEPT ![p][i] = e], UNCHANGED <<pgtbl, used>>,
         lev[p] # 3 => table[p][i] = NULL \/ table[p][i] \in BlockEntries,
         \/ e = NULL
         \/ lev[p] = 3 /\ e \in PageEntries
         \/ lev[p] \in {1, 2} /\ e \in BlockEntries
  PROVE  /\ Shape(lev, num, par, idx)'
         /\ DOMAIN table' = Ptps /\ \A q \in used : DOMAIN table'[q] = Indices
<1>1. p \in DOMAIN table /\ i \in DOMAIN table[p]
  BY DEF Types
<1>2. /\ table'[p][i] = e
      /\ \A q \in Ptps, j \in Indices : q # p \/ j # i => table'[q][j] = table[q][j]
      /\ DOMAIN table' = Ptps /\ \A q \in used : DOMAIN table'[q] = Indices
  BY <1>1 DEF Types
<1>3. \A q \in used : q \in Ptps
  BY DEF Types
<1>4. ASSUME NEW q \in used \ {pgtbl} PROVE Hangs(lev, num, par, idx, q)'
  <2>1. Hangs(lev, num, par, idx, q) /\ par[q] \in used /\ idx[q] \in Indices
        /\ lev[par[q]] \in Levels /\ lev[q] \in Levels
    BY DEF Shape
  <2>2. ~ (par[q] = p /\ idx[q] = i)
    <3> SUFFICES ASSUME par[q] = p, idx[q] = i PROVE FALSE
      OBVIOUS
    <3>1. table[p][i] = TableEntry(q) /\ lev[p] # 3
      BY <2>1 DEF Hangs, Levels
    <3> QED BY <1>3, <3>1, EntriesNotNull DEF BlockEntries
  <2> QED BY <1>2, <1>3, <2>1, <2>2 DEF Hangs
<1>5. ASSUME NEW q \in used, NEW j \in Indices PROVE EntryShape(lev, par, idx, q, j)'
  <2>1. EntryShape(lev, par, idx, q, j)
    BY DEF Shape
  <2>2. CASE q = p /\ j = i
    BY <1>2, <2>2 DEF EntryShape, PageEntries, BlockEntries
  <2>3. CASE ~ (q = p /\ j = i)
    BY <1>2, <1>3, <2>1, <2>3 DEF EntryShape, PageEntries, BlockEntries
  <2> QED BY <2>2, <2>3
<1>6. Shape(lev, num, par, idx)'
  BY <1>4, <1>5 DEF Shape
<1> QED BY <1>2, <1>6

-----------------------------------------------------------------------------
\* The steps.

LEMMA InitInv == Init => Inv
<1> SUFFICES ASSUME Init PROVE Inv
  OBVIOUS
<1>1. Types
  BY DEF Init, Types
<1> DEFINE none == [x \in {} |-> NULL]
<1>2. Shape(none, none, none, none)
  BY DEF Init, Shape
<1>3. WalkRight(none, none)
  BY DEF Init, WalkRight
<1> QED BY <1>1, <1>2, <1>3 DEF Inv, Tree

LEMMA CreateInv == Inv /\ CreatePageTable => Inv'
<1> SUFFICES ASSUME Inv, CreatePageTable PROVE Inv'
  OBVIOUS
<1> USE DEF CreatePageTable
<1>0. PICK a, b, c, d : Shape(a, b, c, d) /\ WalkRight(a, b)
  BY DEF Inv, Tree
<1>1. used = {} /\ walk = NULL
  <2>1. used = {}
    BY <1>0 DEF Shape
  <2>2. walk = NULL
    BY <1>0 DEF WalkRight
  <2> QED BY <2>1, <2>2
<1>2. PICK p \in Ptps : pgtbl' = p /\ used' = {p} /\ table' = [table EXCEPT ![p] = Zeroed]
  BY <1>1
<1>3. p # NULL /\ table'[p] = Zeroed /\ DOMAIN table' = Ptps /\ DOMAIN Zeroed = Indices
  BY <1>2, TableAssumption DEF Inv, Types, Zeroed
<1>4. Types'
  BY <1>1, <1>2, <1>3 DEF Inv, Types
<1>5. 0 \in Indices /\ 0 \in Levels
  BY PerFacts DEF Indices, Levels
<1>6. PICK lev, par : lev = [q \in {p} |-> 0] /\ par = [q \in {p} |-> p]
  OBVIOUS
<1>7. Shape(lev, lev, par, lev)'
  <2>1. \A q \in used', i \in Indices : table'[q][i] = NULL
    BY <1>2, <1>3 DEF Zeroed
  <2>2. \A q \in used', i \in Indices : EntryShape(lev, par, lev, q, i)'
    BY <2>1 DEF EntryShape
  <2> QED BY <1>2, <1>3, <1>5, <1>6, <2>2 DEF Shape
<1>8. WalkRight(lev, lev)'
  BY <1>1 DEF WalkRight
<1> QED BY <1>4, <1>7, <1>8 DEF Inv, Tree

LEMMA BeginInv ==
  ASSUME Inv, NEW op \in {"map", "map_huge", "unmap", "unmap_huge"}, NEW r \in Ranges,
         NEW pa \in Nat, NEW flags \in SUBSET {"WRITE", "EXEC", "DEVICE", "NOCACHE"},
         Begin(op, r, pa, flags),
         op # "unmap_huge" => NoBlocks(r),
         op = "map_huge" => NoTablesUnderBlocks(r, pa - r.va)
  PROVE  Inv'
<1>1. PICK lev, num, par, idx : Shape(lev, num, par, idx)
  BY DEF Inv, Tree
<1>2. Types
  BY DEF Inv
<1>3. /\ r.va \in Nat /\ r.len \in Nat /\ r.va + r.len <= PTP_ENTRIES * PerEntry(0)
      /\ Region(r) = r.va .. r.va + r.len - 1
  <2>1. PTP_ENTRIES * PerEntry(0) \in Nat
    BY PerFacts DEF Levels
  <2>2. r.va \in 0 .. PTP_ENTRIES * PerEntry(0) - 1 /\ r.len \in Nat
        /\ r.va .. r.va + r.len - 1 \subseteq 0 .. PTP_ENTRIES * PerEntry(0) - 1
    BY TableAssumption DEF VPages, Region
  <2>3. r.len # 0 => r.va + r.len - 1 \in r.va .. r.va + r.len - 1
    BY <2>1, <2>2
  <2>4. r.len # 0 => r.va + r.len - 1 \in 0 .. PTP_ENTRIES * PerEntry(0) - 1
    BY <2>2, <2>3
  <2> QED BY <2>1, <2>2, <2>4 DEF Region
<1>4. /\ pgtbl # NULL /\ UNCHANGED <<pgtbl, table, used, ret, halted>>
      /\ walk' = [op |-> op, va |-> r.va, end |-> r.va + r.len, pa |-> pa,
                  flags |-> flags, level |-> 0, ptp |-> pgtbl]
  BY DEF Begin
<1>5. walk' \in Walks
  BY <1>2, <1>3, <1>4 DEF Walks, Types, Levels
<1>6. Types'
  BY <1>2, <1>4, <1>5 DEF Types
<1>11. walk'.va = r.va /\ walk'.end = r.va + r.len /\ walk'.pa = pa /\ UNCHANGED <<table, used>>
  BY <1>4
<1>7. Shape(lev, num, par, idx)'
  BY <1>1, <1>4 DEF Shape, Hangs, EntryShape
<1>8. ASSUME op # "unmap_huge",
             NEW p \in used, NEW i \in Indices, NEW v \in r.va .. (r.va + r.len) - 1,
             lev[p] \in {1, 2}, table[p][i] \in BlockEntries
      PROVE  num[p] * PTP_ENTRIES + i # EntryNumber(lev[p], v)
  <2> SUFFICES ASSUME num[p] * PTP_ENTRIES + i = EntryNumber(lev[p], v) PROVE FALSE
    OBVIOUS
  <2>1. v \in Nat /\ v \in Region(r)
    BY <1>3
  <2>2. InBlock(v)
    BY <1>1, <1>2, <1>8, <2>1, BlockSeen
  <2> QED BY <1>8, <2>1, <2>2 DEF NoBlocks
<1>9. ASSUME op = "map_huge",
             NEW p \in used, NEW l \in {1, 2}, NEW v \in r.va .. (r.va + r.len) - 1,
             lev[p] = l + 1, v % PerEntry(l) = 0,
             (v + (pa - r.va)) % PerEntry(l) = 0,
             (r.va + r.len) - v >= PerEntry(l)
      PROVE  num[p] # EntryNumber(l, v)
  <2> SUFFICES ASSUME num[p] = EntryNumber(l, v) PROVE FALSE
    OBVIOUS
  <2>1. v \in Nat /\ v \in Region(r)
    BY <1>3
  <2>2. TableBelow(l, v)
    BY <1>1, <1>2, <1>9, <2>1, TableSeen
  <2>3. BlockGoesTo(l, v, r, pa - r.va)
    <3>1. r.va + r.len - v >= PerEntry(l)
      <4>1. PerEntry(l) \in Nat
        BY PerFacts DEF Levels
      <4> QED BY <1>3, <1>9, <2>1, <4>1
    <3> QED BY <1>9, <3>1 DEF BlockGoesTo
  <2> QED BY <1>9, <2>1, <2>2, <2>3 DEF NoTablesUnderBlocks
<1>12. walk'.op # "unmap_huge" => NoBlockAhead(lev, num)'
  <2>1. walk'.op = op
    BY <1>4
  <2> QED BY <1>8, <1>11, <2>1 DEF NoBlockAhead, BlockEntries
<1>13. walk'.op = "map_huge" => NoTableAhead(lev, num)'
  <2>1. walk'.op = op
    BY <1>4
  <2> QED BY <1>9, <1>11, <2>1 DEF NoTableAhead
<1>10. WalkRight(lev, num)'
  <2>1. r.va < r.va + r.len => Number(0, r.va) = 0
    <3>1. PTP_ENTRIES * PerEntry(0) \in Nat
      BY PerFacts DEF Levels
    <3> QED BY <1>3, <3>1, RootNumber
  <2> QED BY <1>1, <1>3, <1>4, <1>12, <1>13, <2>1 DEF WalkRight, Shape
<1> QED BY <1>6, <1>7, <1>10 DEF Inv, Tree

LEMMA CallsInv == ~ BlocksOverTables /\ Inv /\ Calls => Inv'
<1> SUFFICES ASSUME ~ BlocksOverTables, Inv, Calls PROVE Inv'
  OBVIOUS
<1>1. ASSUME NEW r \in Ranges PROVE r.va \in Nat
  BY <1>1, TableAssumption DEF VPages
<1>2. ASSUME NEW r \in Ranges, NEW off \in Offsets, NEW flags \in FlagSets,
             map_range_in_pgtbl(r, off, flags)
      PROVE  Inv'
  <2>1. /\ r.va + off \in Nat
        /\ flags \in SUBSET {"WRITE", "EXEC", "DEVICE", "NOCACHE"}
    BY <1>1, TableAssumption
  <2> QED BY <1>2, <2>1, BeginInv DEF map_range_in_pgtbl
<1>3. ASSUME NEW r \in Ranges, NEW off \in Offsets, NEW flags \in FlagSets,
             map_range_in_pgtbl_huge(r, off, flags)
      PROVE  Inv'
  <2>1. /\ r.va + off \in Nat /\ (r.va + off) - r.va = off
        /\ flags \in SUBSET {"WRITE", "EXEC", "DEVICE", "NOCACHE"}
    BY <1>1, TableAssumption
  <2> QED BY <1>3, <2>1, BeginInv DEF map_range_in_pgtbl_huge
<1>4. ASSUME NEW r \in Ranges, unmap_range_in_pgtbl(r) PROVE Inv'
  BY <1>4, BeginInv DEF unmap_range_in_pgtbl
<1>5. ASSUME NEW r \in Ranges, unmap_range_in_pgtbl_huge(r) PROVE Inv'
  BY <1>5, BeginInv DEF unmap_range_in_pgtbl_huge
<1> QED BY <1>2, <1>3, <1>4, <1>5 DEF Calls

LEMMA SkipInv == Inv /\ Skip => Inv'
<1> SUFFICES ASSUME Inv, Skip PROVE Inv'
  OBVIOUS
<1>1. PICK lev, num, par, idx : Shape(lev, num, par, idx) /\ WalkRight(lev, num)
  BY DEF Inv, Tree
<1>2. /\ Types /\ InRound /\ NextRound(1) /\ UNCHANGED <<pgtbl, table, used, ret, halted>>
  BY DEF Inv, Skip, SkippedPages
<1>3. walk' \in Walks /\ WalkRight(lev, num)'
  BY <1>1, <1>2, AfterRound
<1>4. Shape(lev, num, par, idx)'
  BY <1>1, <1>2 DEF Shape, Hangs, EntryShape
<1>5. Types'
  BY <1>2, <1>3 DEF Types
<1> QED BY <1>1, <1>3, <1>4, <1>5 DEF Inv, Tree

LEMMA ClearShape ==
  ASSUME Types, NEW lev, NEW num, NEW par, NEW idx,
         Shape(lev, num, par, idx), WalkRight(lev, num), ClearEntry
  PROVE  /\ walk.level # 3 => Entry \in BlockEntries
         /\ Shape(lev, num, par, idx)' /\ DOMAIN table' = Ptps
         /\ \A q \in used : DOMAIN table'[q] = Indices
<1>1. /\ InRound /\ table' = [table EXCEPT ![walk.ptp][Index] = NULL]
      /\ Entry # NULL /\ (walk.level = 3 \/ AtBlock) /\ UNCHANGED <<pgtbl, used>>
  BY DEF ClearEntry
<1> USE <1>1, Here
<1>2. walk.level # 3 => Entry \in BlockEntries
  <2> SUFFICES ASSUME walk.level # 3 PROVE Entry \in BlockEntries
    OBVIOUS
  <2>1. EntryShape(lev, par, idx, walk.ptp, Index) /\ ~ Entry.is_table
    BY DEF AtBlock, Shape
  <2>2. \A q \in used \ {pgtbl} : TableEntry(q).is_table
    BY EntriesNotNull DEF Types
  <2> QED BY <2>1, <2>2 DEF EntryShape
<1> QED BY <1>2, SetEntry

LEMMA ClearInv == Inv /\ ClearEntry => Inv'
<1> SUFFICES ASSUME Inv, ClearEntry PROVE Inv'
  OBVIOUS
<1>1. PICK lev, num, par, idx : Shape(lev, num, par, idx) /\ WalkRight(lev, num)
  BY DEF Inv, Tree
<1>2. /\ Types /\ InRound /\ NextRound(PerEntry(walk.level))
      /\ table' = [table EXCEPT ![walk.ptp][Index] = NULL]
      /\ UNCHANGED <<pgtbl, used, ret, halted>>
  BY DEF Inv, ClearEntry
<1> USE <1>1, <1>2, Here
<1>3. PerEntry(walk.level) \in Nat \ {0}
  BY PerFacts
<1>5. Shape(lev, num, par, idx)' /\ DOMAIN table' = Ptps
      /\ \A q \in used : DOMAIN table'[q] = Indices
  BY ClearShape
<1>6. \A p \in used, i \in Indices : table'[p][i] \in BlockEntries => table[p][i] \in BlockEntries
  <2>1. NULL \notin BlockEntries
    BY EntriesNotNull
  <2> QED BY <2>1 DEF Types
<1>7. walk' \in Walks /\ WalkRight(lev, num)'
  BY <1>3, <1>6, AfterRound
<1>8. Types'
  BY <1>5, <1>7 DEF Types
<1> QED BY <1>5, <1>7, <1>8 DEF Inv, Tree

LEMMA AttributesType ==
  \A flags \in SUBSET {"WRITE", "EXEC", "DEVICE", "NOCACHE"} :
    Attributes(flags) \in Attrs /\ Attributes(flags) # NULL
<1>1. \A flags : Attributes(flags) \in Attrs
  BY DEF Attributes, Attrs
<1> QED BY <1>1, NullAssumption

LEMMA PutShape ==
  ASSUME Types, NEW lev, NEW num, NEW par, NEW idx,
         Shape(lev, num, par, idx), WalkRight(lev, num), PutEntry
  PROVE  /\ \/ walk.level = 3 /\ PageEntry(walk.level, walk.pa, walk.flags) \in PageEntries
            \/ /\ walk.level \in {1, 2}
               /\ PageEntry(walk.level, walk.pa, walk.flags) \in BlockEntries
         /\ Shape(lev, num, par, idx)' /\ DOMAIN table' = Ptps
         /\ \A q \in used : DOMAIN table'[q] = Indices
<1> DEFINE e == PageEntry(walk.level, walk.pa, walk.flags)
<1>2. /\ InRound /\ Maps
      /\ table' = [table EXCEPT ![walk.ptp][Index] = e]
      /\ (walk.level = 3 \/ PutsBlock)
      /\ UNCHANGED <<pgtbl, used>>
  BY DEF PutEntry
<1> USE <1>2, Here
<1>3. PerEntry(walk.level) \in Nat \ {0} /\ walk.flags \in SUBSET {"WRITE", "EXEC", "DEVICE", "NOCACHE"}
  BY PerFacts DEF Walks
<1>4. e \in Ptes /\ e.pfn \in Nat /\ e.attr # NULL /\ (e.is_table <=> walk.level = 3)
  <2>1. walk.pa \div PerEntry(walk.level) \in Nat
    BY <1>3, DivMod
  <2> QED BY <1>3, <2>1, AttributesType DEF PageEntry, Ptes
<1> HIDE DEF e
<1>5. lev[walk.ptp] # 3 => table[walk.ptp][Index] = NULL \/ table[walk.ptp][Index] \in BlockEntries
  <2> SUFFICES ASSUME walk.level # 3,
                      NEW q \in used \ {pgtbl}, Entry = TableEntry(q),
                      par[q] = walk.ptp, idx[q] = Index
               PROVE  FALSE
    <3>1. EntryShape(lev, par, idx, walk.ptp, Index)
      BY DEF Shape
    <3> QED BY <3>1 DEF EntryShape
  <2>1. PutsBlock
    OBVIOUS
  <2>2. NoTableAhead(lev, num) /\ walk.level \in {1, 2}
    BY <2>1 DEF PutsBlock, WalkRight, InRound
  <2>3. /\ lev[q] = walk.level + 1 /\ num[q] = EntryNumber(walk.level, walk.va)
    BY DEF Shape, Hangs
  <2>4. walk.va \in walk.va .. walk.end - 1 /\ walk.va + (walk.pa - walk.va) = walk.pa
    BY DEF InRound
  <2> QED BY <2>1, <2>2, <2>3, <2>4 DEF PutsBlock, NoTableAhead
<1>6. \/ lev[walk.ptp] = 3 /\ e \in PageEntries
      \/ lev[walk.ptp] \in {1, 2} /\ e \in BlockEntries
  BY <1>4 DEF PutsBlock, PageEntries, BlockEntries
<1>7. Shape(lev, num, par, idx)' /\ DOMAIN table' = Ptps
      /\ \A q \in used : DOMAIN table'[q] = Indices
  BY <1>5, <1>6, SetEntry
<1> QED BY <1>6, <1>7 DEF e

LEMMA PutInv == Inv /\ PutEntry => Inv'
<1> SUFFICES ASSUME Inv, PutEntry PROVE Inv'
  OBVIOUS
<1>1. PICK lev, num, par, idx : Shape(lev, num, par, idx) /\ WalkRight(lev, num)
  BY DEF Inv, Tree
<1>2. /\ Types /\ InRound /\ NextRound(PerEntry(walk.level))
      /\ table' = [table EXCEPT ![walk.ptp][Index] =
                     PageEntry(walk.level, walk.pa, walk.flags)]
      /\ UNCHANGED <<pgtbl, used, ret, halted>>
  BY DEF Inv, PutEntry
<1> USE <1>1, <1>2, Here
<1>3. PerEntry(walk.level) \in Nat \ {0}
  BY PerFacts
<1>7. Shape(lev, num, par, idx)' /\ DOMAIN table' = Ptps
      /\ \A q \in used : DOMAIN table'[q] = Indices
  BY PutShape
<1>8. ASSUME NEW p \in used, NEW i \in Indices, lev[p] \in {1, 2}, table'[p][i] \in BlockEntries,
             table[p][i] \notin BlockEntries,
             NEW v \in walk.va + PerEntry(walk.level) .. walk.end - 1
      PROVE  num[p] * PTP_ENTRIES + i # EntryNumber(lev[p], v)
  <2>1. p = walk.ptp /\ i = Index
    BY <1>8 DEF Types
  <2>2. v \in Nat /\ walk.va + PerEntry(walk.level) <= v
    BY <1>3
  <2> QED BY <2>1, <2>2, LaterBlock
<1>9. walk' \in Walks /\ WalkRight(lev, num)'
  BY <1>3, <1>8, AfterRound
<1>10. Types'
  BY <1>7, <1>9 DEF Types
<1> QED BY <1>7, <1>9, <1>10 DEF Inv, Tree

\* A new table is linked where none was.
LEMMA LinkTables ==
  ASSUME Types, NEW lev, NEW num, NEW par, NEW idx,
         Shape(lev, num, par, idx), WalkRight(lev, num), InRound,
         NEW p \in Ptps \ used, LinkNewTable(p)
  PROVE  /\ used' = used \cup {p} /\ table'[p] = Zeroed
         /\ table'[walk.ptp][Index] = TableEntry(p)
         /\ \A q \in used, j \in Indices :
              q # walk.ptp \/ j # Index => table'[q][j] = table[q][j]
         /\ DOMAIN table' = Ptps /\ \A q \in used' : DOMAIN table'[q] = Indices
<1> USE Here
<1>1. table' = [table EXCEPT ![p] = Zeroed, ![walk.ptp][Index] = TableEntry(p)]
      /\ used' = used \cup {p}
  BY DEF LinkNewTable
<1>2. DOMAIN Zeroed = Indices /\ walk.ptp \in Ptps /\ walk.ptp # p
  BY DEF Zeroed, Types
<1> QED BY <1>1, <1>2 DEF Types

LEMMA LinkShape ==
  ASSUME Types, NEW lev, NEW num, NEW par, NEW idx,
         Shape(lev, num, par, idx), WalkRight(lev, num), InRound,
         walk.level # 3, Entry = NULL,
         NEW p \in Ptps \ used, LinkNewTable(p), UNCHANGED pgtbl
  PROVE  \E lev2, num2, par2, idx2 :
           /\ lev2[p] = walk.level + 1 /\ num2[p] = num[walk.ptp] * PTP_ENTRIES + Index
           /\ par2[p] = walk.ptp /\ idx2[p] = Index
           /\ \A q \in used : /\ q # p /\ lev2[q] = lev[q] /\ num2[q] = num[q]
                             /\ par2[q] = par[q] /\ idx2[q] = idx[q]
           /\ Shape(lev2, num2, par2, idx2)'
<1> USE Here
<1> DEFINE w == walk.ptp
<1>3. w \in used /\ w \in Ptps /\ w # p /\ Index \in Indices /\ walk.level + 1 \in Levels
  BY DEF Types, Levels
<1>4. /\ used' = used \cup {p} /\ table'[p] = Zeroed /\ table'[w][Index] = TableEntry(p)
      /\ \A q \in used, j \in Indices : q # w \/ j # Index => table'[q][j] = table[q][j]
  BY LinkTables
<1>5. PICK lev2, num2, par2, idx2 :
        /\ lev2 = [q \in used' |-> IF q = p THEN walk.level + 1 ELSE lev[q]]
        /\ num2 = [q \in used' |-> IF q = p THEN num[w] * PTP_ENTRIES + Index ELSE num[q]]
        /\ par2 = [q \in used' |-> IF q = p THEN w ELSE par[q]]
        /\ idx2 = [q \in used' |-> IF q = p THEN Index ELSE idx[q]]
  OBVIOUS
<1>6. /\ lev2[p] = walk.level + 1 /\ num2[p] = num[w] * PTP_ENTRIES + Index
      /\ par2[p] = w /\ idx2[p] = Index
      /\ \A q \in used : /\ q # p /\ lev2[q] = lev[q] /\ num2[q] = num[q]
                        /\ par2[q] = par[q] /\ idx2[q] = idx[q]
  BY <1>4, <1>5
<1>7. /\ lev2 \in [used' -> Levels] /\ num2 \in [used' -> Nat]
      /\ par2 \in [used' -> used'] /\ idx2 \in [used' -> Indices]
  <2>1. EntryNumber(walk.level, walk.va) \in Nat
    BY NumberStep
  <2>2. num[w] * PTP_ENTRIES + Index \in Nat
    BY <2>1
  <2>3. /\ lev \in [used -> Levels] /\ num \in [used -> Nat]
        /\ par \in [used -> used] /\ idx \in [used -> Indices]
    BY DEF Shape
  <2> QED BY <1>3, <1>4, <1>5, <2>2, <2>3
<1>8. ASSUME NEW q \in used' \ {pgtbl} PROVE Hangs(lev2, num2, par2, idx2, q)'
  <2>1. CASE q = p
    BY <1>3, <1>4, <1>6, <2>1 DEF Hangs
  <2>2. CASE q # p
    <3>1. q \in used /\ q \in Ptps /\ Hangs(lev, num, par, idx, q)
      BY <1>4, <2>2 DEF Shape, Types
    <3>2. par[q] \in used /\ idx[q] \in Indices
      BY <3>1 DEF Shape
    <3>3. ~ (par[q] = w /\ idx[q] = Index)
      BY <3>1, EntriesNotNull DEF Hangs
    <3> QED BY <1>4, <1>6, <3>1, <3>2, <3>3 DEF Hangs
  <2> QED BY <2>1, <2>2
<1>9. ASSUME NEW q \in used', NEW i \in Indices PROVE EntryShape(lev2, par2, idx2, q, i)'
  <2>1. CASE q = p
    BY <1>4, <2>1 DEF EntryShape, Zeroed
  <2>2. CASE q = w /\ i = Index
    <3>1. p \in used' \ {pgtbl'} /\ lev2[w] # 3
      BY <1>3, <1>4, <1>6 DEF Shape
    <3> QED BY <1>4, <1>6, <2>2, <3>1 DEF EntryShape
  <2>3. CASE q \in used /\ ~ (q = w /\ i = Index)
    <3>1. EntryShape(lev, par, idx, q, i) /\ table'[q][i] = table[q][i] /\ lev2[q] = lev[q]
      BY <1>4, <1>6, <2>3 DEF Shape
    <3> QED BY <1>4, <1>6, <3>1 DEF EntryShape, PageEntries, BlockEntries
  <2> QED BY <1>4, <2>1, <2>2, <2>3
<1>10. Shape(lev2, num2, par2, idx2)'
  <2>1. pgtbl' # NULL /\ pgtbl' \in used' /\ lev2[pgtbl'] = 0 /\ num2[pgtbl'] = 0
    BY <1>4, <1>6 DEF Shape
  <2> QED BY <1>7, <1>8, <1>9, <2>1 DEF Shape
<1> QED BY <1>6, <1>10

LEMMA LinkInv ==
  ASSUME Inv, InRound, Maps, walk.level # 3, ~ PutsBlock, Entry = NULL,
         NEW p \in Ptps \ used, LinkNewTable(p), Down(p), UNCHANGED <<pgtbl, ret, halted>>
  PROVE  Inv'
<1>1. PICK lev, num, par, idx : Shape(lev, num, par, idx) /\ WalkRight(lev, num)
  BY DEF Inv, Tree
<1>2. Types
  BY DEF Inv
<1> USE <1>1, <1>2, Here
<1> DEFINE w == walk.ptp
<1>3. w \in used /\ w \in Ptps /\ w # p /\ Index \in Indices /\ walk.level + 1 \in Levels
  BY DEF Types, Levels
<1>4. /\ used' = used \cup {p} /\ table'[p] = Zeroed /\ table'[w][Index] = TableEntry(p)
      /\ \A q \in used, j \in Indices : q # w \/ j # Index => table'[q][j] = table[q][j]
      /\ DOMAIN table' = Ptps /\ \A q \in used' : DOMAIN table'[q] = Indices
  BY LinkTables
<1>6. PICK lev2, num2, par2, idx2 :
        /\ lev2[p] = walk.level + 1 /\ num2[p] = num[w] * PTP_ENTRIES + Index
        /\ par2[p] = w /\ idx2[p] = Index
        /\ \A q \in used : /\ q # p /\ lev2[q] = lev[q] /\ num2[q] = num[q]
                          /\ par2[q] = par[q] /\ idx2[q] = idx[q]
        /\ Shape(lev2, num2, par2, idx2)'
  BY LinkShape
<1>10. Shape(lev2, num2, par2, idx2)'
  BY <1>6
<1>11. walk' = [walk EXCEPT !.level = @ + 1, !.ptp = p]
  BY DEF Down
<1>12. walk' \in Walks /\ walk' # NULL
  <2>1. walk' \in Walks
    BY <1>3, <1>11 DEF Walks
  <2> QED BY <2>1, NullAssumption
<1>13. /\ walk'.va = walk.va /\ walk'.end = walk.end /\ walk'.pa = walk.pa /\ walk'.op = walk.op
       /\ walk'.level = walk.level + 1 /\ walk'.ptp = p
  BY <1>11 DEF Walks
<1>14. Types'
  BY <1>3, <1>4, <1>12 DEF Types, InRound
<1>15. walk # NULL /\ walk.op # "unmap_huge" /\ walk.va < walk.end
  BY DEF InRound, Maps
<1>16. NoBlockAhead(lev2, num2)'
  <2> SUFFICES ASSUME NEW q \in used', NEW i \in Indices, NEW v \in walk.va .. walk.end - 1,
                      lev2[q] \in {1, 2}, table'[q][i] \in BlockEntries
               PROVE  num2[q] * PTP_ENTRIES + i # EntryNumber(lev2[q], v)
    BY <1>13 DEF NoBlockAhead, BlockEntries
  <2>1. q # p
    BY <1>4, EntriesNotNull DEF Zeroed
  <2>2. ~ (q = w /\ i = Index)
    BY <1>4, EntriesNotNull DEF BlockEntries
  <2>3. q \in used /\ table[q][i] \in BlockEntries /\ lev2[q] = lev[q] /\ num2[q] = num[q]
    BY <1>4, <1>6, <2>1, <2>2
  <2> QED BY <1>15, <2>3 DEF WalkRight, NoBlockAhead
<1>17. walk.op = "map_huge" => NoTableAhead(lev2, num2)'
  <2> SUFFICES ASSUME walk.op = "map_huge",
                      NEW q \in used', NEW l \in {1, 2}, NEW v \in walk.va .. walk.end - 1,
                      lev2[q] = l + 1, v % PerEntry(l) = 0,
                      (v + (walk.pa - walk.va)) % PerEntry(l) = 0,
                      walk.end - v >= PerEntry(l), num2[q] = EntryNumber(l, v)
               PROVE  FALSE
    BY <1>13 DEF NoTableAhead
  <2>1. CASE q = p
    <3>1. l = walk.level /\ num2[q] = EntryNumber(walk.level, walk.va) /\ v \in Nat /\ walk.va <= v
      BY <1>6, <2>1 DEF Levels
    <3>2. v = walk.va
      BY <3>1, LaterBlock
    <3>3. walk.va + (walk.pa - walk.va) = walk.pa
      OBVIOUS
    <3> QED BY <3>1, <3>2, <3>3 DEF PutsBlock
  <2>2. CASE q # p
    <3>1. q \in used /\ lev2[q] = lev[q] /\ num2[q] = num[q]
      BY <1>4, <1>6, <2>2
    <3>2. NoTableAhead(lev, num)
      BY <1>15 DEF WalkRight
    <3> QED BY <3>1, <3>2 DEF NoTableAhead
  <2> QED BY <2>1, <2>2
<1>18. WalkRight(lev2, num2)'
  <2>1. num2[p] = Number(walk.level + 1, walk.va) /\ walk.end <= PTP_ENTRIES * PerEntry(0)
    BY <1>6, <1>15 DEF WalkRight
  <2> QED BY <1>4, <1>6, <1>13, <1>16, <1>17, <2>1 DEF WalkRight
<1> QED BY <1>10, <1>14, <1>18 DEF Inv, Tree

LEMMA DescendToMapInv == Inv /\ DescendToMap => Inv'
<1> SUFFICES ASSUME Inv, DescendToMap PROVE Inv'
  OBVIOUS
<1>1. /\ InRound /\ Maps /\ walk.level # 3 /\ ~ PutsBlock /\ UNCHANGED <<pgtbl, ret>>
      /\ walk.op # "unmap_huge"
  BY DEF DescendToMap, Maps
<1>2. CASE Entry # NULL /\ Down(Entry.pfn) /\ UNCHANGED <<table, used, halted>>
  BY <1>1, <1>2, GoDown
<1>3. ASSUME Entry = NULL, NEW p \in Ptps \ used,
             LinkNewTable(p), Down(p), UNCHANGED halted
      PROVE  Inv'
  BY <1>1, <1>3, LinkInv
<1>4. CASE /\ Entry = NULL /\ used = Ptps /\ halted' = TRUE
           /\ UNCHANGED <<table, used, walk>>
  <2>1. PICK lev, num, par, idx : Shape(lev, num, par, idx) /\ WalkRight(lev, num)
    BY DEF Inv, Tree
  <2>2. Shape(lev, num, par, idx)' /\ WalkRight(lev, num)'
    BY <1>1, <1>4, <2>1
       DEF Shape, Hangs, EntryShape, WalkRight, NoBlockAhead, NoTableAhead
  <2>3. Types'
    BY <1>1, <1>4 DEF Inv, Types
  <2> QED BY <2>2, <2>3 DEF Inv, Tree
<1> QED BY <1>2, <1>3, <1>4 DEF DescendToMap

LEMMA DescendToUnmapInv == Inv /\ DescendToUnmap => Inv'
<1> SUFFICES ASSUME Inv, DescendToUnmap PROVE Inv'
  OBVIOUS
<1>1. walk.level \in Levels
  <2>1. PICK lev, num, par, idx : Shape(lev, num, par, idx) /\ WalkRight(lev, num)
    BY DEF Inv, Tree
  <2> QED BY <2>1, Here DEF Inv, DescendToUnmap
<1>2. walk.op # "unmap_huge" \/ walk.level = 0 \/ Entry.is_table
  BY <1>1 DEF DescendToUnmap, AtBlock, Levels
<1> QED BY <1>2, GoDown DEF DescendToUnmap

LEMMA ReturnInv == Inv /\ Return => Inv'
<1> SUFFICES ASSUME Inv, Return PROVE Inv'
  OBVIOUS
<1>1. PICK lev, num, par, idx : Shape(lev, num, par, idx)
  BY DEF Inv, Tree
<1>2. /\ walk' = NULL /\ ret' = 0 /\ UNCHANGED <<pgtbl, table, used, halted>>
  BY DEF Return
<1>3. Shape(lev, num, par, idx)' /\ WalkRight(lev, num)'
  BY <1>1, <1>2 DEF Shape, Hangs, EntryShape, WalkRight
<1>4. Types'
  BY <1>2 DEF Inv, Types
<1> QED BY <1>3, <1>4 DEF Inv, Tree

-----------------------------------------------------------------------------
\* What free_page_table meets.

Level(lev, l) == {p \in used : lev[p] = l}

\* What hangs at the tables of a level is the next level.
LEMMA NextLevel ==
  ASSUME Types, NEW lev, NEW num, NEW par, NEW idx, Shape(lev, num, par, idx),
         NEW l \in 0 .. 2
  PROVE  NextTables(Level(lev, l)) = Level(lev, l + 1)
<1> DEFINE S == Level(lev, l)
<1>1. ASSUME NEW x \in S \X Indices, NEW e, e = table[x[1]][x[2]], e # NULL, e.is_table
      PROVE  e.pfn \in Level(lev, l + 1)
  <2>1. x[1] \in used /\ lev[x[1]] = l /\ x[2] \in Indices
    BY DEF Level
  <2>2. EntryShape(lev, par, idx, x[1], x[2])
    BY <2>1 DEF Shape
  <2>3. PICK q \in used \ {pgtbl} : e = TableEntry(q) /\ par[q] = x[1]
    BY <1>1, <2>1, <2>2 DEF EntryShape, BlockEntries
  <2>4. lev[q] = l + 1 /\ e.pfn = q
    BY <2>1, <2>3 DEF Shape, Hangs, TableEntry
  <2> QED BY <2>3, <2>4 DEF Level
<1>2. ASSUME NEW q \in Level(lev, l + 1)
      PROVE  \E x \in S \X Indices : /\ table[x[1]][x[2]] # NULL /\ table[x[1]][x[2]].is_table
                                     /\ table[x[1]][x[2]].pfn = q
  <2>1. q \in used /\ lev[q] = l + 1 /\ q \in Ptps
    BY DEF Level, Types
  <2>2. q # pgtbl
    BY <2>1, OnlyRoot
  <2>3. /\ Hangs(lev, num, par, idx, q) /\ par[q] \in used /\ idx[q] \in Indices
        /\ lev[par[q]] \in Levels
    BY <2>1, <2>2 DEF Shape
  <2>4. lev[par[q]] = l
    BY <2>1, <2>3 DEF Hangs, Levels
  <2>5. <<par[q], idx[q]>> \in S \X Indices /\ table[par[q]][idx[q]] = TableEntry(q)
    BY <2>3, <2>4 DEF Level, Hangs
  <2>6. TableEntry(q) # NULL /\ TableEntry(q).is_table /\ TableEntry(q).pfn = q
    BY <2>1, EntriesNotNull
  <2> QED BY <2>5, <2>6
<1>3. NextTables(S) \subseteq Level(lev, l + 1)
  BY <1>1 DEF NextTables
<1>4. Level(lev, l + 1) \subseteq NextTables(S)
  <2> SUFFICES ASSUME NEW q \in Level(lev, l + 1) PROVE q \in NextTables(S)
    OBVIOUS
  <2>1. PICK x \in S \X Indices : /\ table[x[1]][x[2]] # NULL /\ table[x[1]][x[2]].is_table
                                 /\ table[x[1]][x[2]].pfn = q
    BY <1>2
  <2> QED BY <2>1 DEF NextTables
<1> QED BY <1>3, <1>4

LEMMA FreedIsUsed ==
  ASSUME Types, NEW lev, NEW num, NEW par, NEW idx, Shape(lev, num, par, idx), pgtbl # NULL
  PROVE  /\ FreedTables = used
         /\ UNION {Tables(l) : l \in 0 .. 2} = {p \in used : lev[p] # 3}
<1>1. Level(lev, 0) = {pgtbl}
  BY OnlyRoot DEF Level, Shape
<1>2. /\ NextTables(Level(lev, 0)) = Level(lev, 1)
      /\ NextTables(Level(lev, 1)) = Level(lev, 2)
      /\ NextTables(Level(lev, 2)) = Level(lev, 3)
  <2>1. NextTables(Level(lev, 0)) = Level(lev, 0 + 1)
    BY NextLevel
  <2>2. NextTables(Level(lev, 1)) = Level(lev, 1 + 1)
    BY NextLevel
  <2>3. NextTables(Level(lev, 2)) = Level(lev, 2 + 1)
    BY NextLevel
  <2> QED BY <2>1, <2>2, <2>3
<1>3. /\ Tables(0) = Level(lev, 0) /\ Tables(1) = Level(lev, 1)
      /\ Tables(2) = Level(lev, 2) /\ Tables(3) = Level(lev, 3)
  BY <1>1, <1>2 DEF Tables
<1>4. \A p \in used : lev[p] \in {0, 1, 2, 3}
  BY DEF Shape, Levels
<1>5. Levels = {0, 1, 2, 3} /\ 0 .. 2 = {0, 1, 2}
  BY DEF Levels
<1>6. FreedTables = used
  BY <1>3, <1>4, <1>5 DEF FreedTables, Level
<1>7. UNION {Tables(l) : l \in {0, 1, 2}} = {p \in used : lev[p] # 3}
  BY <1>3, <1>4 DEF Level
<1> QED BY <1>5, <1>6, <1>7

LEMMA FreeInv == Inv /\ free_page_table => Inv'
<1> SUFFICES ASSUME Inv, free_page_table PROVE Inv'
  OBVIOUS
<1>1. PICK lev, num, par, idx : Shape(lev, num, par, idx)
  BY DEF Inv, Tree
<1>2. FreedTables = used
  BY <1>1, FreedIsUsed DEF Inv, free_page_table
<1>3. /\ used' = {} /\ halted' = FALSE /\ pgtbl' = NULL /\ walk' = NULL /\ ret' = ret
      /\ DOMAIN table' = Ptps
  BY <1>2 DEF free_page_table
<1>4. Types'
  BY <1>3 DEF Inv, Types
<1> DEFINE none == [x \in {} |-> NULL]
<1>5. Shape(none, none, none, none)' /\ WalkRight(none, none)'
  BY <1>3 DEF Shape, WalkRight
<1> QED BY <1>4, <1>5 DEF Inv, Tree

LEMMA NextInv == ~ BlocksOverTables /\ Inv /\ [Next]_vars => Inv'
<1> SUFFICES ASSUME ~ BlocksOverTables, Inv, [Next]_vars PROVE Inv'
  OBVIOUS
<1>1. CASE UNCHANGED vars
  <2>1. PICK lev, num, par, idx : Shape(lev, num, par, idx) /\ WalkRight(lev, num)
    BY DEF Inv, Tree
  <2>2. Shape(lev, num, par, idx)' /\ WalkRight(lev, num)'
    BY <1>1, <2>1
       DEF vars, Shape, Hangs, EntryShape, WalkRight, NoBlockAhead, NoTableAhead
  <2>3. Types'
    BY <1>1 DEF vars, Inv, Types
  <2> QED BY <2>2, <2>3 DEF Inv, Tree
<1>2. CASE CreatePageTable
  BY <1>2, CreateInv
<1>3. CASE Calls
  BY <1>3, CallsInv
<1>4. CASE DescendToMap
  BY <1>4, DescendToMapInv
<1>5. CASE PutEntry
  BY <1>5, PutInv
<1>6. CASE Skip
  BY <1>6, SkipInv
<1>7. CASE DescendToUnmap
  BY <1>7, DescendToUnmapInv
<1>8. CASE ClearEntry
  BY <1>8, ClearInv
<1>9. CASE Return
  BY <1>9, ReturnInv
<1>10. CASE free_page_table
  BY <1>10, FreeInv
<1> QED BY <1>1, <1>2, <1>3, <1>4, <1>5, <1>6, <1>7, <1>8, <1>9, <1>10
    DEF Next, Round, Halted

LEMMA InvAlways == ~ BlocksOverTables /\ Spec => []Inv
<1> SUFFICES ASSUME ~ BlocksOverTables PROVE Spec => []Inv
  OBVIOUS
<1>1. Inv /\ [Next]_vars => Inv'
  BY NextInv
<1> QED BY InitInv, <1>1, PTL DEF Spec

-----------------------------------------------------------------------------
\* What the invariant gives.

LEMMA InvTypeOK == Inv => TypeOK
<1> SUFFICES ASSUME Inv PROVE TypeOK
  OBVIOUS
<1>1. PICK lev, num, par, idx : Shape(lev, num, par, idx) /\ WalkRight(lev, num)
  BY DEF Inv, Tree
<1>2. ASSUME NEW p \in used, NEW i \in Indices PROVE PteOK(table[p][i])
  <2>1. EntryShape(lev, par, idx, p, i)
    BY <1>1 DEF Shape
  <2>2. \A q \in used : TableEntry(q).is_table /\ TableEntry(q).pfn = q /\ TableEntry(q).attr = NULL
    BY DEF TableEntry
  <2> QED BY <2>1, <2>2 DEF EntryShape, PteOK, PageEntries, BlockEntries
<1>3. walk # NULL => walk \in Walks /\ walk.ptp \in used
  BY <1>1 DEF WalkRight, Inv, Types
<1> QED BY <1>2, <1>3 DEF TypeOK, Inv, Types

LEMMA InvTreeRight == Inv => TreeRight
<1> SUFFICES ASSUME Inv PROVE TreeRight
  OBVIOUS
<1>1. PICK lev, num, par, idx : Shape(lev, num, par, idx)
  BY DEF Inv, Tree
<1>2. Types
  BY DEF Inv
<1>3. CASE pgtbl = NULL
  BY <1>1, <1>3 DEF Shape, TreeRight
<1>4. CASE pgtbl # NULL
  <2> DEFINE Upper == {q \in used : lev[q] # 3}
  <2>1. FreedTables = used /\ UNION {Tables(l) : l \in 0 .. 2} = Upper
    BY <1>1, <1>2, <1>4, FreedIsUsed
  <2>2. ASSUME NEW p \in used, NEW x \in EntriesTo(p)
        PROVE  p # pgtbl /\ x = <<par[p], idx[p]>>
    <3>1. /\ x \in Upper \X Indices
          /\ table[x[1]][x[2]] # NULL /\ table[x[1]][x[2]].is_table
          /\ table[x[1]][x[2]].pfn = p
      BY <2>1 DEF EntriesTo
    <3>2. EntryShape(lev, par, idx, x[1], x[2]) /\ lev[x[1]] # 3
      BY <1>1, <3>1 DEF Shape
    <3>3. PICK q \in used \ {pgtbl} :
            table[x[1]][x[2]] = TableEntry(q) /\ par[q] = x[1] /\ idx[q] = x[2]
      BY <3>1, <3>2 DEF EntryShape, BlockEntries
    <3>4. q = p
      BY <3>1, <3>3 DEF TableEntry
    <3> QED BY <3>1, <3>3, <3>4
  <2>3. ASSUME NEW p \in used, p # pgtbl PROVE <<par[p], idx[p]>> \in EntriesTo(p)
    <3>1. /\ Hangs(lev, num, par, idx, p) /\ par[p] \in used /\ idx[p] \in Indices
          /\ lev[par[p]] \in Levels /\ lev[p] \in Levels /\ p \in Ptps
      BY <1>1, <1>2, <2>3 DEF Shape, Types
    <3>2. par[p] \in Upper /\ table[par[p]][idx[p]] = TableEntry(p)
      BY <3>1 DEF Hangs, Levels
    <3> QED BY <2>1, <3>1, <3>2, EntriesNotNull DEF EntriesTo
  <2>4. ASSUME NEW p \in used
        PROVE  Cardinality(EntriesTo(p)) = IF p = pgtbl THEN 0 ELSE 1
    <3>1. CASE p = pgtbl
      <4>1. EntriesTo(p) = {}
        BY <2>2, <3>1
      <4> QED BY <3>1, <4>1, FS_EmptySet
    <3>2. CASE p # pgtbl
      <4>1. EntriesTo(p) = {<<par[p], idx[p]>>}
        BY <2>2, <2>3, <3>2
      <4> QED BY <3>2, <4>1, FS_Singleton
    <3> QED BY <3>1, <3>2
  <2> QED BY <1>4, <2>1, <2>4 DEF TreeRight
<1> QED BY <1>3, <1>4

\* The types, for calls that keep the contract: every entry of every table in use is
\* invalid, leads to a table in use, or is a block or page.
THEOREM TypeCorrect == ~ BlocksOverTables /\ Spec => []TypeOK
  BY InvAlways, InvTypeOK, PTL

\* At every step of every call each page handed out for the page table, and no
\* other, hangs at exactly one entry, so free_page_table frees each page once.
THEOREM TreeAlways == ~ BlocksOverTables /\ Spec => []TreeRight
  BY InvAlways, InvTreeRight, PTL

\* No BUG_ON stops the kernel but the one for a table that cannot be allocated.
THEOREM HaltsRightly == ~ BlocksOverTables /\ Spec => []HaltsOnlyWithoutMemory
<1>1. Inv => HaltsOnlyWithoutMemory
  BY DEF Inv, Types, HaltsOnlyWithoutMemory
<1> QED BY InvAlways, <1>1, PTL

-----------------------------------------------------------------------------
\* What callers see, and how a step changes it.

EndsFound ==
  \A lev, num, par, idx, p : \A v \in Nat :
    Types /\ Shape(lev, num, par, idx) /\ Ends(lev, num, p, v)
      => query_in_pgtbl(v) = AnswerOf(lev[p], Pte(lev[p], p, v), v)

LEMMA EndsFoundNow == EndsFound
  BY EndFound DEF EndsFound

LEMMA EndsFoundNext == EndsFound'
  BY EndsFoundNow, PTL

\* The pages that an entry describes, from an aligned one on.
LEMMA BlockPages ==
  ASSUME NEW l \in Levels, NEW a \in Nat, a % PerEntry(l) = 0, NEW v \in Nat
  PROVE  /\ EntryNumber(l, v) = EntryNumber(l, a) <=> v \in a .. a + PerEntry(l) - 1
         /\ v \in a .. a + PerEntry(l) - 1 => v % PerEntry(l) = v - a
<1> DEFINE D == PerEntry(l)
           x == a \div D
           y == v \div D
           n == v % D
<1>1. D \in Nat \ {0}
  BY PerFacts
<1>2. x \in Nat /\ y \in Nat /\ n \in 0 .. D - 1 /\ a = x * D + 0 /\ v = y * D + n
  BY <1>1, DivMod
<1>3. ASSUME v \in a .. a + D - 1 PROVE y = x /\ n = v - a
  <2> HIDE DEF D, x
  <2>1. x * D \in Nat /\ a = x * D
    BY <1>1, <1>2
  <2>2. PICK r \in 0 .. D - 1 : r = v - a /\ v = x * D + r
    BY <1>1, <1>3, <2>1
  <2>3. (x * D + r) \div D = x /\ (x * D + r) % D = r
    BY <1>1, <1>2, DivUnique
  <2>4. v \div D = x /\ v % D = r
    BY <2>2, <2>3, Zenon
  <2> QED BY <2>2, <2>4
<1>4. ASSUME y = x PROVE v \in a .. a + D - 1
  <2>1. y * D = x * D /\ x * D \in Int
    BY <1>1, <1>2, <1>4
  <2> HIDE DEF D, x, y, n
  <2> QED BY <1>1, <1>2, <2>1
<1>5. EntryNumber(l, v) = y /\ EntryNumber(l, a) = x
  BY DEF EntryNumber
<1> QED BY <1>3, <1>4, <1>5

\* The first page of the block that a page lies in.
LEMMA FirstOf ==
  ASSUME NEW l \in Levels, NEW v \in Nat
  PROVE  /\ v - (v % PerEntry(l)) \in Nat
         /\ (v - (v % PerEntry(l))) % PerEntry(l) = 0
         /\ v \in v - (v % PerEntry(l)) .. v - (v % PerEntry(l)) + PerEntry(l) - 1
<1> DEFINE D == PerEntry(l)
           y == v \div D
           n == v % D
<1>1. D \in Nat \ {0}
  BY PerFacts
<1>2. y \in Nat /\ n \in 0 .. D - 1 /\ v = y * D + n
  BY <1>1, DivMod
<1>3. y * D \in Nat
  BY <1>1, <1>2
<1>4. (y * D + 0) % D = 0
  <2> HIDE DEF D
  <2> QED BY <1>1, <1>2, DivUnique
<1> HIDE DEF D, y, n
<1>5. v - n = y * D + 0
  BY <1>2, <1>3
<1>6. v - n \in Nat /\ (v - n) % D = 0 /\ v \in v - n .. v - n + D - 1
  BY <1>1, <1>2, <1>3, <1>4, <1>5
<1> QED BY <1>6 DEF D, n

\* The walk of a call, at the entry where it ends, knows the answer.
LEMMA EntryFound ==
  ASSUME Types, NEW lev, NEW num, NEW par, NEW idx,
         Shape(lev, num, par, idx), WalkRight(lev, num), InRound,
         EndsAt(walk.level, Entry)
  PROVE  query_in_pgtbl(walk.va) = AnswerOf(walk.level, Entry, walk.va)
<1> USE Here
<1>1. num[walk.ptp] = Number(lev[walk.ptp], walk.va)
  BY DEF WalkRight, InRound
<1>2. Ends(lev, num, walk.ptp, walk.va) /\ Pte(lev[walk.ptp], walk.ptp, walk.va) = Entry
  BY <1>1 DEF Ends, Entry
<1> QED BY <1>2, EndFound

\* An entry is written: what is seen changes for the pages it describes.
LEMMA QueryFrame ==
  ASSUME Types, Types', NEW lev, NEW num, NEW par, NEW idx,
         Shape(lev, num, par, idx), Shape(lev, num, par, idx)',
         pgtbl # NULL, UNCHANGED <<pgtbl, used>>,
         NEW w \in used, NEW i \in Indices, NEW e,
         table'[w][i] = e, EndsAt(lev[w], e),
         \A q \in used, j \in Indices : q # w \/ j # i => table'[q][j] = table[q][j],
         NEW v \in VPages
  PROVE  /\ num[w] * PTP_ENTRIES + i = EntryNumber(lev[w], v)
              => query_in_pgtbl(v)' = AnswerOf(lev[w], e, v)
         /\ num[w] * PTP_ENTRIES + i # EntryNumber(lev[w], v)
              => query_in_pgtbl(v)' = query_in_pgtbl(v)
<1>1. v \in Nat /\ \A q \in used : lev[q] \in Levels /\ num[q] \in Nat
  BY PagesAre DEF Shape
<1>2. \A l \in Levels :
        /\ Number(l, v) \in Nat /\ GET_INDEX(l, v) \in Indices
        /\ EntryNumber(l, v) = Number(l, v) * PTP_ENTRIES + GET_INDEX(l, v)
  BY <1>1, NumberStep
<1>3. CASE num[w] * PTP_ENTRIES + i = EntryNumber(lev[w], v)
  <2>1. num[w] = Number(lev[w], v) /\ i = GET_INDEX(lev[w], v)
    BY <1>1, <1>2, <1>3, Digits
  <2>2. Pte(lev[w], w, v)' = e
    BY <2>1 DEF Pte
  <2>3. Ends(lev, num, w, v)'
    BY <2>1, <2>2 DEF Ends
  <2> QED BY <1>1, <1>3, <2>2, <2>3, EndsFoundNext DEF EndsFound
<1>4. CASE num[w] * PTP_ENTRIES + i # EntryNumber(lev[w], v)
  <2>1. PICK p \in used : Ends(lev, num, p, v)
    BY HasEnd
  <2>2. p # w \/ GET_INDEX(lev[p], v) # i
    BY <1>1, <1>2, <1>4, <2>1 DEF Ends
  <2>3. Pte(lev[p], p, v)' = Pte(lev[p], p, v)
    BY <1>1, <1>2, <2>2 DEF Pte
  <2>4. Ends(lev, num, p, v)'
    BY <2>1, <2>3 DEF Ends
  <2>5. query_in_pgtbl(v)' = AnswerOf(lev[p], Pte(lev[p], p, v), v)
    BY <1>1, <2>3, <2>4, EndsFoundNext DEF EndsFound
  <2> QED BY <1>1, <1>4, <2>1, <2>5, EndFound
<1> QED BY <1>3, <1>4

\* All pages of a block are mapped.
BlocksAreWhole ==
  pgtbl # NULL =>
    \A v, u \in VPages :
      query_in_pgtbl(v) # NULL
        => /\ query_in_pgtbl(v).level \in Levels
           /\ EntryNumber(query_in_pgtbl(v).level, u) = EntryNumber(query_in_pgtbl(v).level, v)
                => query_in_pgtbl(u) # NULL

LEMMA InvBlocks == Inv => BlocksAreWhole
<1> SUFFICES ASSUME Inv, pgtbl # NULL, NEW v \in VPages, NEW u \in VPages,
                    query_in_pgtbl(v) # NULL
             PROVE  /\ query_in_pgtbl(v).level \in Levels
                    /\ EntryNumber(query_in_pgtbl(v).level, u)
                         = EntryNumber(query_in_pgtbl(v).level, v) => query_in_pgtbl(u) # NULL
  BY DEF BlocksAreWhole
<1>1. PICK lev, num, par, idx : Shape(lev, num, par, idx)
  BY DEF Inv, Tree
<1>2. Types /\ v \in Nat /\ u \in Nat
  BY PagesAre DEF Inv
<1>3. PICK p \in used : Ends(lev, num, p, v)
  BY <1>1, <1>2, HasEnd
<1>4. PICK l, e : l = lev[p] /\ e = Pte(l, p, v)
  OBVIOUS
<1>5. /\ l \in Levels /\ num[p] = Number(l, v) /\ num[p] \in Nat /\ EndsAt(l, e)
  BY <1>1, <1>3, <1>4 DEF Ends, Shape
<1>6. query_in_pgtbl(v) = AnswerOf(l, e, v)
  BY <1>1, <1>2, <1>3, <1>4, EndFound
<1>7. e # NULL /\ e \in BlockEntries \cup PageEntries
  BY <1>5, <1>6 DEF AnswerOf, EndsAt
<1>8. query_in_pgtbl(v).level = l
  BY <1>2, <1>5, <1>6, <1>7, FoundAnswers DEF AnswerOf
<1>9. ASSUME EntryNumber(l, u) = EntryNumber(l, v) PROVE query_in_pgtbl(u) # NULL
  <2>1. /\ Number(l, v) \in Nat /\ GET_INDEX(l, v) \in Indices
        /\ EntryNumber(l, v) = Number(l, v) * PTP_ENTRIES + GET_INDEX(l, v)
        /\ Number(l, u) \in Nat /\ GET_INDEX(l, u) \in Indices
        /\ EntryNumber(l, u) = Number(l, u) * PTP_ENTRIES + GET_INDEX(l, u)
    BY <1>2, <1>5, NumberStep
  <2>2. Number(l, u) = Number(l, v) /\ GET_INDEX(l, u) = GET_INDEX(l, v)
    BY <1>9, <2>1, Digits
  <2>3. Pte(l, p, u) = e
    BY <1>4, <2>2 DEF Pte
  <2>4. Ends(lev, num, p, u)
    BY <1>3, <1>4, <1>5, <2>2, <2>3 DEF Ends
  <2>5. query_in_pgtbl(u) = AnswerOf(l, e, u)
    BY <1>1, <1>2, <1>4, <2>3, <2>4, EndFound
  <2> QED BY <1>2, <1>5, <1>7, <2>5, FoundAnswers DEF AnswerOf
<1> QED BY <1>5, <1>8, <1>9

-----------------------------------------------------------------------------
\* A call that unmaps blocks was made for whole blocks, and still has whole blocks
\* before it.
Inside(v) ==
  query_in_pgtbl(v) # NULL =>
    LET D == PerEntry(query_in_pgtbl(v).level)
        first == v - (v % D)
    IN first .. first + D - 1 \subseteq walk.va .. walk.end - 1

WholeAhead ==
  walk # NULL /\ walk.op = "unmap_huge" => \A v \in walk.va .. walk.end - 1 : Inside(v)

\* The first n pages of what is left are not mapped any more, and no others change.
Cleared(n) ==
  /\ NextRound(n) /\ walk.va + n <= walk.end /\ UNCHANGED pgtbl
  /\ \A v \in VPages : query_in_pgtbl(v)' = IF v \in walk.va .. walk.va + n - 1
                                            THEN NULL ELSE query_in_pgtbl(v)

LEMMA PagesAhead ==
  ASSUME Inv, InRound
  PROVE  /\ walk.va \in Nat /\ walk.end \in Nat /\ walk.va < walk.end
         /\ walk.va .. walk.end - 1 \subseteq VPages
<1>1. PICK lev, num, par, idx : Shape(lev, num, par, idx) /\ WalkRight(lev, num)
  BY DEF Inv, Tree
<1>2. walk.va \in Nat /\ walk.end \in Nat /\ walk.end <= PTP_ENTRIES * PerEntry(0)
      /\ walk.va < walk.end
  BY <1>1, Here DEF Inv, WalkRight, InRound
<1>3. PTP_ENTRIES * PerEntry(0) \in Nat
  BY PerFacts DEF Levels
<1> QED BY <1>2, <1>3 DEF VPages

LEMMA RoundFields ==
  ASSUME Inv, InRound, NEW n \in Nat, NextRound(n)
  PROVE  /\ walk'.va = walk.va + n /\ walk'.end = walk.end /\ walk'.pa = walk.pa + n
         /\ walk'.op = walk.op /\ walk'.flags = walk.flags /\ walk' # NULL
<1>1. walk \in Walks /\ pgtbl \in Ptps \cup {NULL} /\ pgtbl # NULL
  <2>1. PICK lev, num, par, idx : Shape(lev, num, par, idx) /\ WalkRight(lev, num)
    BY DEF Inv, Tree
  <2> QED BY <2>1 DEF Inv, Types, InRound, WalkRight
<1>2. walk' = [walk EXCEPT !.va = @ + n, !.pa = @ + n, !.level = 0, !.ptp = pgtbl]
  BY DEF NextRound
<1>3. /\ walk'.va = walk.va + n /\ walk'.end = walk.end /\ walk'.pa = walk.pa + n
      /\ walk'.op = walk.op /\ walk'.flags = walk.flags
  BY <1>1, <1>2 DEF Walks
<1>4. walk' \in Walks
  <2>1. walk.va + n \in Nat /\ walk.pa + n \in Nat /\ pgtbl \in Ptps /\ 0 \in Levels
    BY <1>1 DEF Walks, Levels
  <2>2. walk' = [walk EXCEPT !.va = walk.va + n, !.pa = walk.pa + n, !.level = 0, !.ptp = pgtbl]
    BY <1>2
  <2> QED BY <1>1, <2>1, <2>2 DEF Walks
<1> QED BY <1>3, <1>4, NullAssumption

LEMMA WholeKept ==
  ASSUME Inv, BlocksAreWhole', InRound, WholeAhead, NEW n \in Nat, Cleared(n)
  PROVE  WholeAhead'
<1> SUFFICES ASSUME walk.op = "unmap_huge", NEW v \in walk.va + n .. walk.end - 1,
                    query_in_pgtbl(v)' # NULL
             PROVE  LET D == PerEntry(query_in_pgtbl(v)'.level)
                        first == v - (v % D)
                    IN first .. first + D - 1 \subseteq walk.va + n .. walk.end - 1
  BY RoundFields DEF WholeAhead, Inside, Cleared
<1>1. /\ walk.va \in Nat /\ walk.end \in Nat /\ v \in VPages /\ v \in Nat
      /\ v \in walk.va .. walk.end - 1 /\ v \notin walk.va .. walk.va + n - 1
      /\ walk.va .. walk.end - 1 \subseteq VPages
  BY PagesAhead
<1>2. query_in_pgtbl(v)' = query_in_pgtbl(v)
  BY <1>1 DEF Cleared
<1>3. PICK l : l = query_in_pgtbl(v).level
  OBVIOUS
<1>4. pgtbl' # NULL
  <2>1. PICK lev, num, par, idx : Shape(lev, num, par, idx) /\ WalkRight(lev, num)
    BY DEF Inv, Tree
  <2> QED BY <2>1 DEF WalkRight, InRound, Cleared
<1>5. /\ l \in Levels
      /\ \A u \in VPages : EntryNumber(l, u) = EntryNumber(l, v) => query_in_pgtbl(u)' # NULL
  BY <1>1, <1>2, <1>3, <1>4 DEF BlocksAreWhole
<1> DEFINE first == v - (v % PerEntry(l))
<1>6. first .. first + PerEntry(l) - 1 \subseteq walk.va .. walk.end - 1
  <2>1. InRound /\ walk # NULL /\ Inside(v)
    BY <1>1 DEF WholeAhead, InRound
  <2> QED BY <1>2, <1>3, <2>1 DEF Inside
<1>7. /\ first \in Nat /\ first % PerEntry(l) = 0
      /\ v \in first .. first + PerEntry(l) - 1
  BY <1>1, <1>5, FirstOf
<1> HIDE DEF first
<1>8. ASSUME NEW u \in first .. first + PerEntry(l) - 1 PROVE u \in walk.va + n .. walk.end - 1
  <2>1. u \in walk.va .. walk.end - 1 /\ u \in VPages /\ u \in Nat
    BY <1>1, <1>6, <1>7
  <2>2. EntryNumber(l, u) = EntryNumber(l, first) /\ EntryNumber(l, v) = EntryNumber(l, first)
    BY <1>1, <1>5, <1>7, <2>1, BlockPages
  <2>3. query_in_pgtbl(u)' # NULL
    BY <1>5, <2>1, <2>2
  <2>4. u \notin walk.va .. walk.va + n - 1
    BY <2>1, <2>3 DEF Cleared
  <2> QED BY <1>1, <2>1, <2>4
<1> QED BY <1>2, <1>3, <1>8 DEF first

\* The steps of the calls that unmap.
LEMMA SkipCleared ==
  ASSUME Inv, Skip
  PROVE  Cleared(1)
<1>1. PICK lev, num, par, idx : Shape(lev, num, par, idx) /\ WalkRight(lev, num)
  BY DEF Inv, Tree
<1>2. /\ Types /\ InRound /\ Entry = NULL /\ NextRound(1) /\ UNCHANGED <<pgtbl, table>>
  BY DEF Inv, Skip, SkippedPages
<1>3. query_in_pgtbl(walk.va) = NULL
  BY <1>1, <1>2, EntryFound DEF EndsAt, AnswerOf
<1>4. \A v : query_in_pgtbl(v)' = query_in_pgtbl(v)
  BY <1>2 DEF query_in_pgtbl, Pte
<1>5. walk.va \in Nat /\ walk.end \in Nat /\ walk.va + 1 <= walk.end
  BY <1>2, PagesAhead
<1>6. walk.va .. walk.va + 1 - 1 = {walk.va}
  BY <1>5
<1> QED BY <1>2, <1>3, <1>4, <1>5, <1>6 DEF Cleared

\* A block, or an entry of level 3, is written at an address aligned to it.
LEMMA WriteSeen ==
  ASSUME Inv, Types', NEW lev, NEW num, NEW par, NEW idx,
         Shape(lev, num, par, idx), WalkRight(lev, num), Shape(lev, num, par, idx)',
         InRound, NEW e, table' = [table EXCEPT ![walk.ptp][Index] = e],
         EndsAt(walk.level, e), UNCHANGED <<pgtbl, used>>,
         walk.va % PerEntry(walk.level) = 0,
         NEW v \in VPages
  PROVE  query_in_pgtbl(v)' = IF v \in walk.va .. walk.va + PerEntry(walk.level) - 1
                              THEN AnswerOf(walk.level, e, v) ELSE query_in_pgtbl(v)
<1>1. Types
  BY DEF Inv
<1> USE <1>1, Here
<1>2. walk.ptp \in Ptps /\ v \in Nat /\ walk.level \in Levels
  BY PagesAre DEF Types
<1>3. /\ table'[walk.ptp][Index] = e
      /\ \A q \in used, j \in Indices : q # walk.ptp \/ j # Index => table'[q][j] = table[q][j]
  BY <1>2 DEF Types
<1>4. /\ EntryNumber(walk.level, walk.va) = EntryNumber(walk.level, v)
           => query_in_pgtbl(v)' = AnswerOf(walk.level, e, v)
      /\ EntryNumber(walk.level, walk.va) # EntryNumber(walk.level, v)
           => query_in_pgtbl(v)' = query_in_pgtbl(v)
  BY <1>3, QueryFrame
<1>5. EntryNumber(walk.level, v) = EntryNumber(walk.level, walk.va)
        <=> v \in walk.va .. walk.va + PerEntry(walk.level) - 1
  BY <1>2, BlockPages
<1> QED BY <1>4, <1>5

LEMMA ClearCleared ==
  ASSUME Inv, Types', WholeAhead, ClearEntry
  PROVE  PerEntry(walk.level) \in Nat \ {0} /\ Cleared(PerEntry(walk.level))
<1>1. PICK lev, num, par, idx : Shape(lev, num, par, idx) /\ WalkRight(lev, num)
  BY DEF Inv, Tree
<1>2. /\ Types /\ InRound /\ NextRound(PerEntry(walk.level))
      /\ table' = [table EXCEPT ![walk.ptp][Index] = NULL]
      /\ Entry # NULL /\ (walk.level = 3 \/ AtBlock)
      /\ UNCHANGED <<pgtbl, used>>
  BY DEF Inv, ClearEntry
<1>3. /\ walk.level \in Levels /\ walk.va \in Nat /\ walk.end \in Nat /\ walk.va < walk.end
  BY <1>1, <1>2, Here, PagesAhead
<1>4. PerEntry(walk.level) \in Nat \ {0}
  BY <1>3, PerFacts
<1>5. Shape(lev, num, par, idx)' /\ (walk.level # 3 => Entry \in BlockEntries)
  BY <1>1, <1>2, ClearShape
<1>6. walk.va % PerEntry(walk.level) = 0 /\ walk.va + PerEntry(walk.level) <= walk.end
  <2>1. CASE walk.level = 3
    <3>1. PerEntry(3) = 1 /\ \A a \in Nat : a % 1 = 0
      BY PerFacts
    <3> QED BY <1>3, <2>1, <3>1
  <2>2. CASE walk.level # 3
    <3>1. walk.op = "unmap_huge" /\ walk.level \in {1, 2} /\ Entry \in BlockEntries
      BY <1>2, <1>5, <2>2 DEF AtBlock
    <3>2. query_in_pgtbl(walk.va) = Found(walk.level, Entry, walk.va)
      BY <1>1, <1>2, <3>1, EntryFound DEF EndsAt, AnswerOf
    <3>3. query_in_pgtbl(walk.va) # NULL /\ query_in_pgtbl(walk.va).level = walk.level
      BY <1>3, <3>1, <3>2, FoundAnswers
    <3>4. Inside(walk.va)
      <4>1. walk.va \in walk.va .. walk.end - 1
        BY <1>3
      <4> QED BY <1>2, <3>1, <4>1 DEF WholeAhead, InRound
    <3> DEFINE D == PerEntry(walk.level)
               m == walk.va % D
               first == walk.va - m
    <3>5. first .. first + D - 1 \subseteq walk.va .. walk.end - 1
      BY <3>3, <3>4 DEF Inside
    <3>6. first \in Nat /\ first % D = 0 /\ walk.va \in first .. first + D - 1
      BY <1>3, FirstOf
    <3>7. D \in Nat \ {0}
      BY <1>4
    <3> HIDE DEF first, D
    <3>8. first \in first .. first + D - 1 /\ first + D - 1 \in first .. first + D - 1
      BY <3>6, <3>7
    <3>9. first = walk.va /\ first + D - 1 <= walk.end - 1
      BY <1>3, <3>5, <3>6, <3>8
    <3>10. walk.va + D <= walk.end
      BY <1>3, <3>6, <3>7, <3>9
    <3> QED BY <3>6, <3>9, <3>10 DEF D
  <2> QED BY <2>1, <2>2
<1>7. ASSUME NEW v \in VPages
      PROVE  query_in_pgtbl(v)' = IF v \in walk.va .. walk.va + PerEntry(walk.level) - 1
                                  THEN NULL ELSE query_in_pgtbl(v)
  <2>1. EndsAt(walk.level, NULL) /\ AnswerOf(walk.level, NULL, v) = NULL
    BY DEF EndsAt, AnswerOf
  <2> QED BY <1>1, <1>2, <1>5, <1>6, <2>1, WriteSeen
<1> QED BY <1>2, <1>4, <1>6, <1>7 DEF Cleared

-----------------------------------------------------------------------------
\* The steps, as those of AddrSpace.

LEMMA SettleStep ==
  ASSUME Inv, InRound, NEW n \in Nat \ {0}, NextRound(n), walk.va + n <= walk.end,
         \A v \in VPages : Seen(v)' = IF v \in walk.va .. walk.va + n - 1
                                      THEN Asked(v) ELSE Seen(v)
  PROVE  Abstract!AsNext
<1>1. /\ walk.va \in Nat /\ walk.end \in Nat
      /\ walk'.va = walk.va + n /\ walk'.end = walk.end /\ walk'.pa = walk.pa + n
      /\ walk'.op = walk.op /\ walk'.flags = walk.flags /\ walk' # NULL /\ walk # NULL
      /\ walk.va .. walk.end - 1 \subseteq VPages
  BY PagesAhead, RoundFields DEF InRound
<1>2. walk.pa \in Nat
  BY DEF Inv, Types, Walks, InRound
<1>3. PICK S : S = walk.va .. walk.va + n - 1
  OBVIOUS
<1>4. S \subseteq walk.va .. walk.end - 1
      /\ (walk.va .. walk.end - 1) \ S = walk.va + n .. walk.end - 1
  BY <1>1, <1>3
<1>5. Todo = [v \in walk.va .. walk.end - 1 |-> Asked(v)]
  BY <1>1 DEF Todo
<1>6. Space' = [v \in VPages |-> IF v \in S THEN Todo[v] ELSE Space[v]]
  BY <1>3, <1>4, <1>5 DEF Space
<1>7. \A v \in walk.va + n .. walk.end - 1 : Asked(v)' = Asked(v)
  <2> SUFFICES ASSUME NEW v \in walk.va + n .. walk.end - 1 PROVE Asked(v)' = Asked(v)
    OBVIOUS
  <2>1. walk'.pa + (v - walk'.va) = walk.pa + (v - walk.va)
    BY <1>1, <1>2
  <2> QED BY <1>1, <2>1 DEF Asked, Maps
<1>8. Todo' = [v \in walk.va + n .. walk.end - 1 |-> Asked(v)']
  BY <1>1 DEF Todo
<1>9. Todo' = [v \in DOMAIN Todo \ S |-> Todo[v]]
  <2>1. DOMAIN Todo \ S = walk.va + n .. walk.end - 1
    BY <1>4, <1>5
  <2>2. \A v \in walk.va + n .. walk.end - 1 : Todo[v] = Asked(v)
    BY <1>4, <1>5
  <2> QED BY <1>7, <1>8, <2>1, <2>2
<1>10. S \in SUBSET DOMAIN Todo
  BY <1>4, <1>5
<1>11. Abstract!Settle(S)
  BY <1>6, <1>9 DEF Abstract!Settle
<1> QED BY <1>10, <1>11 DEF Abstract!AsNext

LEMMA TableThere ==
  ASSUME Inv, walk # NULL
  PROVE  pgtbl # NULL /\ pgtbl \in Ptps
<1>1. PICK lev, num, par, idx : Shape(lev, num, par, idx) /\ WalkRight(lev, num)
  BY DEF Inv, Tree
<1> QED BY <1>1 DEF WalkRight, Inv, Types

LEMMA ClearedStep ==
  ASSUME Inv, InRound, ~ Maps, NEW n \in Nat \ {0}, Cleared(n)
  PROVE  Abstract!AsNext
<1>1. pgtbl # NULL /\ pgtbl' = pgtbl
  BY TableThere DEF InRound, Cleared
<1>2. ASSUME NEW v \in VPages
      PROVE  Seen(v)' = IF v \in walk.va .. walk.va + n - 1 THEN Asked(v) ELSE Seen(v)
  <2>1. query_in_pgtbl(v)' = IF v \in walk.va .. walk.va + n - 1 THEN NULL ELSE query_in_pgtbl(v)
    BY DEF Cleared
  <2>2. Asked(v) = NULL
    BY DEF Asked
  <2>3. CASE v \in walk.va .. walk.va + n - 1
    BY <2>1, <2>2, <2>3 DEF Seen
  <2>4. CASE v \notin walk.va .. walk.va + n - 1
    BY <1>1, <2>1, <2>4 DEF Seen
  <2> QED BY <2>3, <2>4
<1> QED BY <1>2, SettleStep DEF Cleared

\* What an entry that is written grants is what the call asks for.
LEMMA GrantedAsked ==
  ASSUME walk \in Walks, Maps,
         walk.pa % PerEntry(walk.level) = 0,
         NEW v \in Nat, v % PerEntry(walk.level) = v - walk.va
  PROVE  Granted(Found(walk.level, PageEntry(walk.level, walk.pa, walk.flags), v)) = Asked(v)
<1> DEFINE D == PerEntry(walk.level)
           x == walk.pa \div D
<1>1. D \in Nat \ {0} /\ walk.pa \in Nat /\ walk.va \in Nat
  BY PerFacts DEF Walks
<1>2. walk.pa = x * D + 0 /\ x \in Nat
  BY <1>1, DivMod
<1>3. x * D \in Nat
  BY <1>1, <1>2
<1> HIDE DEF D, x
<1>4. x * D + (v % D) = walk.pa + (v - walk.va)
  BY <1>1, <1>2, <1>3 DEF D
<1>5. PICK a : a = Attributes(walk.flags)
  OBVIOUS
<1>6. Found(walk.level, PageEntry(walk.level, walk.pa, walk.flags), v)
        = [level |-> walk.level, attr |-> a, pa |-> x * D + (v % D)]
  BY <1>5 DEF Found, PageEntry, x, D
<1>7. Granted(Found(walk.level, PageEntry(walk.level, walk.pa, walk.flags), v))
        = [pa |-> walk.pa + (v - walk.va), write |-> a.AP = "RW", exec |-> ~ a.UXN,
           memory |-> a.attr_index, shared |-> a.SH]
  BY <1>4, <1>6 DEF Granted
<1>8. (a.AP = "RW") = ("WRITE" \in walk.flags)
  <2>1. a.AP = IF "WRITE" \in walk.flags THEN "RW" ELSE "RO"
    BY <1>5 DEF Attributes
  <2> QED BY <2>1
<1>9. a.attr_index = IF "DEVICE" \in walk.flags THEN "device"
                     ELSE IF "NOCACHE" \in walk.flags THEN "nocache" ELSE "normal"
  BY <1>5 DEF Attributes
<1>10. (~ a.UXN) = ("EXEC" \in walk.flags)
  <2>1. a.UXN = ("EXEC" \notin walk.flags)
    BY <1>5, Zenon DEF Attributes
  <2>2. CASE "EXEC" \in walk.flags
    <3>1. a.UXN = FALSE
      BY <2>1, <2>2
    <3>2. (~ a.UXN) = TRUE
      BY <3>1
    <3>3. ("EXEC" \in walk.flags) = TRUE
      BY <2>2
    <3> QED BY <3>2, <3>3, Zenon
  <2>3. CASE "EXEC" \notin walk.flags
    <3>1. a.UXN = TRUE
      BY <2>1, <2>3
    <3>2. (~ a.UXN) = FALSE
      BY <3>1
    <3>3. ("EXEC" \in walk.flags) = FALSE
      BY <2>3
    <3> QED BY <3>2, <3>3, Zenon
  <2> QED BY <2>2, <2>3
<1>11. a.SH = ("DEVICE" \notin walk.flags)
  BY <1>5, Zenon DEF Attributes
<1> QED BY <1>7, <1>8, <1>9, <1>10, <1>11, Zenon DEF Asked

LEMMA PutStep ==
  ASSUME Inv, Types', PutEntry
  PROVE  Abstract!AsNext
<1>1. PICK lev, num, par, idx : Shape(lev, num, par, idx) /\ WalkRight(lev, num)
  BY DEF Inv, Tree
<1> DEFINE e == PageEntry(walk.level, walk.pa, walk.flags)
<1>2. /\ Types /\ InRound /\ Maps /\ NextRound(PerEntry(walk.level))
      /\ table' = [table EXCEPT ![walk.ptp][Index] = e]
      /\ (walk.level = 3 \/ PutsBlock)
      /\ UNCHANGED <<pgtbl, used>>
  BY DEF Inv, PutEntry
<1>3. /\ walk \in Walks /\ walk.level \in Levels /\ walk.va \in Nat /\ walk.pa \in Nat
      /\ walk.end \in Nat /\ walk.va < walk.end
  BY <1>1, <1>2, Here, PagesAhead
<1>4. PerEntry(walk.level) \in Nat \ {0}
  BY <1>3, PerFacts
<1>5. /\ Shape(lev, num, par, idx)' /\ EndsAt(walk.level, e)
      /\ e \in BlockEntries \cup PageEntries
  BY <1>1, <1>2, PutShape DEF EndsAt
<1>6. /\ walk.va % PerEntry(walk.level) = 0 /\ walk.pa % PerEntry(walk.level) = 0
      /\ walk.va + PerEntry(walk.level) <= walk.end
  <2>1. CASE walk.level = 3
    <3>1. PerEntry(3) = 1 /\ \A a \in Nat : a % 1 = 0
      BY PerFacts
    <3> QED BY <1>3, <2>1, <3>1
  <2>2. CASE PutsBlock
    BY <1>3, <1>4, <2>2 DEF PutsBlock
  <2> QED BY <1>2, <2>1, <2>2
<1>7. pgtbl # NULL /\ pgtbl' = pgtbl
  BY <1>2, TableThere DEF InRound
<1> HIDE DEF e
<1>8. ASSUME NEW v \in VPages
      PROVE  Seen(v)' = IF v \in walk.va .. walk.va + PerEntry(walk.level) - 1
                        THEN Asked(v) ELSE Seen(v)
  <2>1. query_in_pgtbl(v)' = IF v \in walk.va .. walk.va + PerEntry(walk.level) - 1
                             THEN AnswerOf(walk.level, e, v) ELSE query_in_pgtbl(v)
    BY <1>1, <1>2, <1>5, <1>6, WriteSeen
  <2>2. v \in Nat /\ e # NULL
    BY <1>5, PagesAre, EntriesNotNull
  <2>3. CASE v \in walk.va .. walk.va + PerEntry(walk.level) - 1
    <3>1. query_in_pgtbl(v)' = Found(walk.level, e, v) /\ Found(walk.level, e, v) # NULL
      BY <1>3, <1>5, <2>1, <2>2, <2>3, FoundAnswers DEF AnswerOf
    <3>2. v % PerEntry(walk.level) = v - walk.va
      BY <1>3, <1>6, <2>2, <2>3, BlockPages
    <3>3. Granted(Found(walk.level, e, v)) = Asked(v)
      BY <1>2, <1>3, <1>6, <2>2, <3>2, GrantedAsked DEF e
    <3>4. Seen(v)' = Granted(query_in_pgtbl(v)')
      BY <1>7, <3>1 DEF Seen, Granted
    <3> QED BY <2>3, <3>1, <3>3, <3>4
  <2>4. CASE v \notin walk.va .. walk.va + PerEntry(walk.level) - 1
    BY <1>7, <2>1, <2>4 DEF Seen, Granted
  <2> QED BY <2>3, <2>4
<1> QED BY <1>2, <1>4, <1>6, <1>8, SettleStep

\* A step down changes nothing that callers see.
LEMMA DownTodo ==
  ASSUME Inv, InRound, walk.level # 3, NEW p \in Ptps, Down(p)
  PROVE  /\ Todo' = Todo
         /\ walk' # NULL /\ walk'.va = walk.va /\ walk'.end = walk.end /\ walk'.op = walk.op
<1>1. walk \in Walks /\ walk # NULL /\ walk.level + 1 \in Levels
  BY DEF Inv, Types, InRound, Walks, Levels
<1>2. walk' = [walk EXCEPT !.level = @ + 1, !.ptp = p]
  BY DEF Down
<1>3. /\ walk'.va = walk.va /\ walk'.end = walk.end /\ walk'.pa = walk.pa
      /\ walk'.op = walk.op /\ walk'.flags = walk.flags
  BY <1>1, <1>2 DEF Walks
<1>4. walk' \in Walks
  BY <1>1, <1>2 DEF Walks
<1>5. walk' # NULL
  BY <1>4, NullAssumption
<1>6. \A v : Asked(v)' = Asked(v)
  BY <1>3 DEF Asked, Maps
<1>7. Todo' = Todo
  BY <1>1, <1>3, <1>5, <1>6 DEF Todo
<1> QED BY <1>3, <1>5, <1>7

LEMMA SpaceSame == UNCHANGED <<pgtbl, table>> => UNCHANGED Space /\ \A v : UNCHANGED query_in_pgtbl(v)
<1> SUFFICES ASSUME UNCHANGED <<pgtbl, table>>
             PROVE  UNCHANGED Space /\ \A v : UNCHANGED query_in_pgtbl(v)
  OBVIOUS
<1>1. \A v : query_in_pgtbl(v)' = query_in_pgtbl(v)
  BY DEF query_in_pgtbl, Pte
<1>2. \A v : Seen(v)' = Seen(v)
  BY <1>1 DEF Seen, Granted
<1> QED BY <1>1, <1>2 DEF Space

\* An empty table is linked: what was not mapped still is not.
LEMMA LinkSeen ==
  ASSUME Types, Types', NEW lev, NEW num, NEW par, NEW idx,
         Shape(lev, num, par, idx), WalkRight(lev, num), InRound,
         walk.level # 3, Entry = NULL,
         NEW p \in Ptps \ used, LinkNewTable(p), UNCHANGED pgtbl,
         NEW v \in VPages
  PROVE  query_in_pgtbl(v)' = query_in_pgtbl(v)
<1> USE Here
<1> DEFINE w == walk.ptp
<1>1. /\ used' = used \cup {p} /\ table'[p] = Zeroed
      /\ \A q \in used, j \in Indices : q # w \/ j # Index => table'[q][j] = table[q][j]
  BY LinkTables
<1>2. PICK lev2, num2, par2, idx2 :
        /\ lev2[p] = walk.level + 1 /\ num2[p] = num[w] * PTP_ENTRIES + Index
        /\ \A q \in used : /\ q # p /\ lev2[q] = lev[q] /\ num2[q] = num[q]
        /\ Shape(lev2, num2, par2, idx2)'
  BY LinkShape
<1>3. PICK q \in used : Ends(lev, num, q, v)
  BY HasEnd
<1>4. v \in Nat /\ lev[q] \in Levels /\ num[q] = Number(lev[q], v)
  BY <1>3, PagesAre DEF Ends, Shape
<1>5. /\ GET_INDEX(lev[q], v) \in Indices
      /\ EntryNumber(lev[q], v) = Number(lev[q], v) * PTP_ENTRIES + GET_INDEX(lev[q], v)
      /\ lev[q] # 3 => Number(lev[q] + 1, v) = EntryNumber(lev[q], v)
                       /\ GET_INDEX(lev[q] + 1, v) \in Indices
  BY <1>4, NumberStep DEF Levels
<1>6. query_in_pgtbl(v) = AnswerOf(lev[q], Pte(lev[q], q, v), v)
  BY <1>3, <1>4, EndFound
<1>7. CASE q # w \/ GET_INDEX(lev[q], v) # Index
  <2>1. Pte(lev2[q], q, v)' = Pte(lev[q], q, v)
    BY <1>1, <1>2, <1>5, <1>7 DEF Pte
  <2>2. Ends(lev2, num2, q, v)'
    BY <1>1, <1>2, <1>3, <2>1 DEF Ends
  <2>3. query_in_pgtbl(v)' = AnswerOf(lev2[q], Pte(lev[q], q, v), v)
    BY <1>2, <1>4, <2>1, <2>2, EndsFoundNext DEF EndsFound
  <2> QED BY <1>2, <1>6, <2>3
<1>8. CASE q = w /\ GET_INDEX(lev[q], v) = Index
  <2>1. query_in_pgtbl(v) = NULL
    BY <1>6, <1>8 DEF AnswerOf, Pte
  <2>2. lev2[p] = lev[q] + 1 /\ num2[p] = Number(lev2[p], v) /\ GET_INDEX(lev2[p], v) \in Indices
    BY <1>2, <1>4, <1>5, <1>8
  <2>3. Pte(lev2[p], p, v)' = NULL
    BY <1>1, <2>2 DEF Pte, Zeroed
  <2>4. Ends(lev2, num2, p, v)'
    BY <1>1, <2>2, <2>3 DEF Ends, EndsAt
  <2>5. query_in_pgtbl(v)' = AnswerOf(lev2[p], NULL, v)
    BY <1>2, <1>4, <2>3, <2>4, EndsFoundNext DEF EndsFound
  <2> QED BY <2>1, <2>5 DEF AnswerOf
<1> QED BY <1>7, <1>8

LEMMA SpaceKept ==
  ASSUME UNCHANGED pgtbl, \A v \in VPages : query_in_pgtbl(v)' = query_in_pgtbl(v)
  PROVE  UNCHANGED Space
<1>1. \A v \in VPages : Seen(v)' = Seen(v)
  BY DEF Seen, Granted
<1> QED BY <1>1 DEF Space

LEMMA DescendToMapStep ==
  ASSUME Inv, Types', DescendToMap
  PROVE  UNCHANGED <<Space, Todo>>
<1>1. PICK lev, num, par, idx : Shape(lev, num, par, idx) /\ WalkRight(lev, num)
  BY DEF Inv, Tree
<1>2. /\ Types /\ InRound /\ walk.level # 3 /\ UNCHANGED pgtbl /\ Entry = table[walk.ptp][Index]
      /\ walk.ptp \in used /\ Index \in Indices /\ lev[walk.ptp] = walk.level
  BY <1>1, Here DEF Inv, DescendToMap
<1>3. CASE Entry # NULL /\ Down(Entry.pfn) /\ UNCHANGED table
  <2>1. EntryShape(lev, par, idx, walk.ptp, Index) /\ Maps
    BY <1>1, <1>2 DEF Shape, DescendToMap
  <2>2. walk.op # "unmap_huge" /\ walk.va \in walk.va .. walk.end - 1
    BY <1>2, <2>1, PagesAhead DEF Maps, Inv
  <2>3. ~ (walk.level \in {1, 2} /\ Entry \in BlockEntries)
    BY <1>1, <1>2, <2>2, Here DEF WalkRight, InRound, NoBlockAhead
  <2>4. Entry.pfn \in Ptps
    BY <1>2, <1>3, <2>1, <2>3, EntriesNotNull DEF EntryShape, Types
  <2> QED BY <1>2, <1>3, <2>4, DownTodo, SpaceSame
<1>4. ASSUME NEW p \in Ptps \ used, Entry = NULL, LinkNewTable(p), Down(p)
      PROVE  UNCHANGED <<Space, Todo>>
  <2>1. \A v \in VPages : query_in_pgtbl(v)' = query_in_pgtbl(v)
    BY <1>1, <1>2, <1>4, LinkSeen
  <2> QED BY <1>2, <1>4, <2>1, DownTodo, SpaceKept
<1>5. CASE UNCHANGED <<table, walk>>
  BY <1>2, <1>5, SpaceSame DEF Todo, Asked, Maps
<1> QED BY <1>3, <1>4, <1>5 DEF DescendToMap

LEMMA DescendToUnmapStep ==
  ASSUME Inv, DescendToUnmap
  PROVE  /\ UNCHANGED <<Space, Todo>>
         /\ walk' # NULL /\ walk'.va = walk.va /\ walk'.end = walk.end /\ walk'.op = walk.op
<1>1. PICK lev, num, par, idx : Shape(lev, num, par, idx) /\ WalkRight(lev, num)
  BY DEF Inv, Tree
<1>2. /\ Types /\ InRound /\ walk.level # 3 /\ UNCHANGED <<pgtbl, table>>
      /\ Entry = table[walk.ptp][Index] /\ Entry # NULL /\ Down(Entry.pfn) /\ ~ AtBlock
      /\ walk.ptp \in used /\ Index \in Indices /\ lev[walk.ptp] = walk.level
  BY <1>1, Here DEF Inv, DescendToUnmap
<1>3. EntryShape(lev, par, idx, walk.ptp, Index)
  BY <1>1, <1>2 DEF Shape
<1>4. walk.level \in {1, 2} => Entry \notin BlockEntries
  <2>1. CASE walk.op = "unmap_huge"
    BY <1>2, <2>1 DEF AtBlock, BlockEntries
  <2>2. CASE walk.op # "unmap_huge"
    <3>1. walk.va \in walk.va .. walk.end - 1
      BY <1>2, PagesAhead DEF Inv
    <3> QED BY <1>1, <1>2, <2>2, <3>1, Here DEF WalkRight, InRound, NoBlockAhead
  <2> QED BY <2>1, <2>2
<1>5. Entry.pfn \in Ptps
  BY <1>2, <1>3, <1>4, EntriesNotNull DEF EntryShape, Types
<1> QED BY <1>2, <1>5, DownTodo, SpaceSame

\* A call begins.
LEMMA BeginStep ==
  ASSUME Inv, NEW op \in {"map", "map_huge", "unmap", "unmap_huge"}, NEW r \in Ranges,
         NEW pa \in Nat, NEW flags \in SUBSET {"WRITE", "EXEC", "DEVICE", "NOCACHE"},
         Begin(op, r, pa, flags)
  PROVE  /\ UNCHANGED Space /\ Todo = Abstract!Nothing
         /\ Todo' = [v \in Region(r) |-> Asked(v)']
         /\ walk' # NULL /\ walk'.op = op /\ walk'.pa = pa /\ walk'.flags = flags
         /\ walk'.va = r.va /\ walk'.end = r.va + r.len
         /\ r.va \in Nat /\ Region(r) = walk'.va .. walk'.end - 1
<1>1. r.va \in Nat /\ r.len \in Nat
  BY TableAssumption DEF VPages
<1>2. /\ walk = NULL /\ pgtbl # NULL /\ UNCHANGED <<pgtbl, table>>
      /\ walk' = [op |-> op, va |-> r.va, end |-> r.va + r.len, pa |-> pa,
                  flags |-> flags, level |-> 0, ptp |-> pgtbl]
  BY DEF Begin
<1>3. walk' \in Walks
  BY <1>1, <1>2 DEF Inv, Types, Walks, Levels
<1>4. /\ walk' # NULL /\ walk'.op = op /\ walk'.pa = pa /\ walk'.flags = flags
      /\ walk'.va = r.va /\ walk'.end = r.va + r.len
  BY <1>2, <1>3, NullAssumption
<1>5. Todo = Abstract!Nothing
  BY <1>2 DEF Todo, Abstract!Nothing
<1>6. Region(r) = walk'.va .. walk'.end - 1
  BY <1>1, <1>4 DEF Region
<1>7. Todo' = [v \in Region(r) |-> Asked(v)']
  BY <1>4, <1>6 DEF Todo
<1> QED BY <1>1, <1>2, <1>4, <1>5, <1>6, <1>7, SpaceSame

LEMMA BeginMapStep ==
  ASSUME Inv, NEW op \in {"map", "map_huge"}, NEW r \in Ranges,
         NEW off \in Offsets, NEW flags \in FlagSets, Begin(op, r, r.va + off, flags)
  PROVE  Abstract!AsNext
<1>1. /\ r.va \in Nat /\ off \in Nat /\ r.va + off \in Nat
      /\ flags \in SUBSET {"WRITE", "EXEC", "DEVICE", "NOCACHE"}
  BY TableAssumption DEF VPages
<1>2. /\ UNCHANGED Space /\ Todo = Abstract!Nothing
      /\ Todo' = [v \in Region(r) |-> Asked(v)']
      /\ walk'.op = op /\ walk'.pa = r.va + off /\ walk'.flags = flags
      /\ walk'.va = r.va /\ Region(r) = walk'.va .. walk'.end - 1
  BY <1>1, BeginStep
<1>3. ASSUME NEW v \in Region(r) PROVE Asked(v)' = Abstract!Mapping(v + off, flags)
  <2>1. walk'.pa + (v - walk'.va) = v + off
    BY <1>1, <1>2
  <2>2. Maps'
    BY <1>2 DEF Maps
  <2> QED BY <1>2, <2>1, <2>2 DEF Asked, Abstract!Mapping
<1>4. Abstract!AskMap(Region(r), off, flags)
  BY <1>2, <1>3 DEF Abstract!AskMap
<1> QED BY <1>4 DEF Abstract!AsNext

LEMMA BeginUnmapStep ==
  ASSUME Inv, NEW op \in {"unmap", "unmap_huge"}, NEW r \in Ranges, Begin(op, r, 0, {})
  PROVE  Abstract!AsNext
<1>1. /\ UNCHANGED Space /\ Todo = Abstract!Nothing
      /\ Todo' = [v \in Region(r) |-> Asked(v)'] /\ walk'.op = op
  BY BeginStep
<1>2. \A v : Asked(v)' = NULL
  BY <1>1 DEF Asked, Maps
<1>3. Abstract!AskUnmap(Region(r))
  BY <1>1, <1>2 DEF Abstract!AskUnmap
<1> QED BY <1>3 DEF Abstract!AsNext

LEMMA CallsStep ==
  ASSUME Inv, Calls
  PROVE  Abstract!AsNext
<1>1. ASSUME NEW r \in Ranges, NEW off \in Offsets, NEW flags \in FlagSets,
             map_range_in_pgtbl(r, off, flags) \/ map_range_in_pgtbl_huge(r, off, flags)
      PROVE  Abstract!AsNext
  BY <1>1, BeginMapStep DEF map_range_in_pgtbl, map_range_in_pgtbl_huge
<1>2. ASSUME NEW r \in Ranges, unmap_range_in_pgtbl(r) \/ unmap_range_in_pgtbl_huge(r)
      PROVE  Abstract!AsNext
  BY <1>2, BeginUnmapStep DEF unmap_range_in_pgtbl, unmap_range_in_pgtbl_huge
<1> QED BY <1>1, <1>2 DEF Calls

\* The contract of unmap_range_in_pgtbl_huge is kept by all that it does.
LEMMA CallsWhole ==
  ASSUME Inv, Calls
  PROVE  WholeAhead'
<1>1. ASSUME NEW r \in Ranges, NEW off \in Offsets, NEW flags \in FlagSets,
             map_range_in_pgtbl(r, off, flags) \/ map_range_in_pgtbl_huge(r, off, flags)
      PROVE  WholeAhead'
  <2>1. r.va + off \in Nat /\ flags \in SUBSET {"WRITE", "EXEC", "DEVICE", "NOCACHE"}
    BY TableAssumption DEF VPages
  <2>2. walk'.op \in {"map", "map_huge"}
    BY <1>1, <2>1, BeginStep DEF map_range_in_pgtbl, map_range_in_pgtbl_huge
  <2> QED BY <2>2 DEF WholeAhead
<1>2. ASSUME NEW r \in Ranges, unmap_range_in_pgtbl(r) PROVE WholeAhead'
  <2>1. walk'.op = "unmap"
    BY <1>2, BeginStep DEF unmap_range_in_pgtbl
  <2> QED BY <2>1 DEF WholeAhead
<1>3. ASSUME NEW r \in Ranges, unmap_range_in_pgtbl_huge(r) PROVE WholeAhead'
  <2>1. WholeBlocks(r) /\ Begin("unmap_huge", r, 0, {})
    BY <1>3 DEF unmap_range_in_pgtbl_huge
  <2>2. Region(r) = walk'.va .. walk'.end - 1
    BY <2>1, BeginStep
  <2>3. \A v : query_in_pgtbl(v)' = query_in_pgtbl(v)
    BY <2>1, SpaceSame DEF Begin
  <2> QED BY <2>1, <2>2, <2>3 DEF WholeAhead, Inside, WholeBlocks
<1> QED BY <1>1, <1>2, <1>3 DEF Calls

LEMMA WholeNext ==
  ASSUME Inv, Types', BlocksAreWhole', WholeAhead, [Next]_vars
  PROVE  WholeAhead'
<1>1. CASE Calls
  BY <1>1, CallsWhole
<1>2. CASE Skip
  BY <1>2, SkipCleared, WholeKept DEF Skip
<1>3. CASE ClearEntry
  BY <1>3, ClearCleared, WholeKept DEF ClearEntry
<1>4. CASE DescendToUnmap
  <2>1. /\ walk # NULL /\ walk'.va = walk.va /\ walk'.end = walk.end /\ walk'.op = walk.op
        /\ \A v : query_in_pgtbl(v)' = query_in_pgtbl(v)
    BY <1>4, DescendToUnmapStep, SpaceSame DEF DescendToUnmap, InRound
  <2> QED BY <2>1 DEF WholeAhead, Inside
<1>5. CASE DescendToMap
  <2>1. walk'.op = walk.op
    <3>1. walk \in Walks
      BY <1>5 DEF DescendToMap, InRound, Inv, Types
    <3> QED BY <1>5, <3>1 DEF DescendToMap, Down, Walks
  <2> QED BY <1>5, <2>1 DEF DescendToMap, Maps, WholeAhead
<1>6. CASE PutEntry
  <2>1. InRound /\ Maps /\ NextRound(PerEntry(walk.level)) /\ walk.level \in Levels
    BY <1>6 DEF PutEntry, InRound, Inv, Types, Walks
  <2>2. walk'.op = walk.op
    BY <2>1, PerFacts, RoundFields
  <2> QED BY <2>1, <2>2 DEF Maps, WholeAhead
<1>7. CASE Return
  BY <1>7 DEF Return, WholeAhead
<1>8. CASE CreatePageTable
  <2>1. walk' = NULL
    BY <1>8, TableThere DEF CreatePageTable
  <2> QED BY <2>1 DEF WholeAhead
<1>9. CASE free_page_table
  BY <1>9 DEF free_page_table, WholeAhead
<1>10. CASE UNCHANGED vars
  <2>1. walk' = walk /\ \A v : query_in_pgtbl(v)' = query_in_pgtbl(v)
    BY <1>10, SpaceSame DEF vars
  <2> QED BY <2>1 DEF WholeAhead, Inside
<1> QED BY <1>1, <1>2, <1>3, <1>4, <1>5, <1>6, <1>7, <1>8, <1>9, <1>10
    DEF Next, Round, Halted

\* An empty page table maps nothing.
LEMMA CreateStep ==
  ASSUME Inv, CreatePageTable
  PROVE  UNCHANGED <<Space, Todo>>
<1>1. PICK p \in Ptps : pgtbl = NULL /\ pgtbl' = p /\ table' = [table EXCEPT ![p] = Zeroed]
                        /\ walk' = walk
  BY DEF CreatePageTable
<1>2. table'[p] = Zeroed /\ walk = NULL /\ 0 \in Levels
  BY <1>1, TableThere DEF Inv, Types, Levels
<1>3. ASSUME NEW v \in VPages PROVE Seen(v)' = Seen(v)
  <2>1. GET_INDEX(0, v) \in Indices
    BY <1>2, PagesAre, NumberStep
  <2>2. Pte(0, p, v)' = NULL
    BY <1>2, <2>1 DEF Pte, Zeroed
  <2>3. query_in_pgtbl(v)' = NULL
    BY <1>1, <2>2 DEF query_in_pgtbl
  <2> QED BY <1>1, <2>3 DEF Seen
<1> QED BY <1>1, <1>2, <1>3 DEF Space, Todo

LEMMA AsStep ==
  ASSUME Inv, Types', WholeAhead, [Next]_vars
  PROVE  [Abstract!AsNext]_(<<Space, Todo>>)
<1>1. CASE CreatePageTable
  BY <1>1, CreateStep
<1>2. CASE Calls
  BY <1>2, CallsStep
<1>3. CASE DescendToMap
  BY <1>3, DescendToMapStep
<1>4. CASE PutEntry
  BY <1>4, PutStep
<1>5. CASE Skip
  BY <1>5, SkipCleared, ClearedStep DEF Skip
<1>6. CASE DescendToUnmap
  BY <1>6, DescendToUnmapStep
<1>7. CASE ClearEntry
  BY <1>7, ClearCleared, ClearedStep DEF ClearEntry
<1>8. CASE Return
  <2>1. /\ walk # NULL /\ walk \in Walks /\ walk.va >= walk.end /\ walk' = NULL
        /\ UNCHANGED <<pgtbl, table>>
    BY <1>8 DEF Return, Inv, Types
  <2>2. walk.va .. walk.end - 1 = {}
    BY <2>1 DEF Walks
  <2>3. Todo' = Todo
    BY <2>1, <2>2 DEF Todo
  <2> QED BY <2>1, <2>3, SpaceSame
<1>9. CASE free_page_table
  <2>1. walk = NULL /\ walk' = NULL /\ pgtbl' = NULL
    BY <1>9 DEF free_page_table
  <2>2. Todo = Abstract!Nothing /\ Todo' = Todo
    BY <2>1 DEF Todo, Abstract!Nothing
  <2>3. Space' = [v \in VPages |-> NULL]
    BY <2>1 DEF Space, Seen
  <2>4. Abstract!Drop
    BY <2>2, <2>3 DEF Abstract!Drop
  <2> QED BY <2>4 DEF Abstract!AsNext
<1>10. CASE UNCHANGED vars
  BY <1>10, SpaceSame DEF vars, Todo, Asked, Maps
<1> QED BY <1>1, <1>2, <1>3, <1>4, <1>5, <1>6, <1>7, <1>8, <1>9, <1>10
    DEF Next, Round, Halted

\* The tables implement the address space that callers see: for calls that keep the
\* contract, every page is mapped as the last call for it asked, and a call changes the
\* pages of its region only, whatever blocks and tables are on the way
\* (map_range_in_pgtbl, unmap_range_in_pgtbl and the functions for huge pages).
THEOREM ImplementsAddrSpace == ~ BlocksOverTables /\ Spec => AsSpec
<1> SUFFICES ASSUME ~ BlocksOverTables PROVE Spec => AsSpec
  OBVIOUS
<1>1. Init => Abstract!AsInit /\ WholeAhead
  BY DEF Init, Abstract!AsInit, Abstract!Nothing, Space, Todo, Seen, WholeAhead
<1>2. Inv /\ Inv' /\ BlocksAreWhole' /\ WholeAhead /\ [Next]_vars => WholeAhead'
  BY WholeNext DEF Inv
<1>3. Inv /\ Inv' /\ WholeAhead /\ [Next]_vars => [Abstract!AsNext]_(<<Space, Todo>>)
  BY AsStep DEF Inv
<1>4. Spec => []Inv
  BY InvAlways
<1>5. Spec => Abstract!AsInit /\ [][Abstract!AsNext]_(<<Space, Todo>>)
  BY <1>1, <1>2, <1>3, <1>4, InvBlocks, PTL DEF Spec
<1> QED BY <1>5, PTL DEF AsSpec, Abstract!AsSpec, Abstract!asVars

=============================================================================
