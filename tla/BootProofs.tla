----------------------------- MODULE BootProofs -----------------------------
(***************************************************************************)
(* The boot, for every size of table, kernel address, end of the image and *)
(* length of the FIFO: translation, the levels, the TLB and the line.      *)
(***************************************************************************)
EXTENDS Boot, MmInitProofs

-----------------------------------------------------------------------------
\* Addresses as the digits that index the tables.
E == PTP_ENTRIES
Square == PTP_ENTRIES * PTP_ENTRIES
Top == KERNEL_VADDR \div Square   \* the entry of boot_ttbr1_l0

LEMMA Sizes ==
  /\ E \in Nat \ {0, 1} /\ Square \in Nat \ {0} /\ Square = E * E
  /\ 2 * E <= Square /\ Table!Indices = 0 .. E - 1
  /\ Table!VA = 0 .. E * Square - 1 /\ E * Square \in Nat
  /\ PHYSMEM_END = E /\ PERIPHERAL_BASE \in 1 .. E - 1
<1>1. E \in Nat \ {0, 1}
  BY BootAssumption DEF Table!TableAssumption, E
<1>2. 2 * E <= E * E /\ E * E \in Nat
  BY <1>1, MulLe
<1>3. E * E >= 4
  BY <1>1, <1>2
<1>4. E * (E * E) \in Nat
  BY <1>1, <1>2
<1> QED BY <1>1, <1>2, <1>3, <1>4, BootAssumption
    DEF Table!TableAssumption, Table!Indices, Table!VA, E, Square

LEMMA DivModNat ==
  ASSUME NEW x \in Nat, NEW s \in Nat \ {0}
  PROVE  /\ x \div s \in Nat /\ x % s \in 0 .. s - 1
         /\ x = (x \div s) * s + (x % s)
<1> DEFINE q == x \div s
           r == x % s
           m == q * s
<1>1. q \in Int /\ m <= x /\ x < m + s /\ r = x - m
  BY DivMod
<1>2. m \in Int
  BY <1>1
<1>3. q >= 0
  <2>1. CASE q + 1 <= 0
    <3>1. (q + 1) * s <= 0 * s /\ (q + 1) * s = q * s + s /\ 0 * s = 0
      <4> HIDE DEF q
      <4>1. (q + 1) * s <= 0 * s
        BY <1>1, <2>1, MulLe
      <4> QED BY <1>1, <4>1
    <3> HIDE DEF q
    <3> QED BY <3>1, <1>1, <1>2 DEF m
  <2> HIDE DEF q, m
  <2> QED BY <1>1, <2>1
<1> HIDE DEF q, r, m
<1>4. q \in Nat /\ r \in 0 .. s - 1 /\ x = m + r
  BY <1>1, <1>2, <1>3
<1>5. x = q * s + r
  BY <1>4 DEF m
<1> QED BY <1>4, <1>5, Zenon DEF q, r

LEMMA ModUnique ==
  ASSUME NEW s \in Nat \ {0}, NEW i \in Nat, NEW off \in 0 .. s - 1
  PROVE  (i * s + off) \div s = i /\ (i * s + off) % s = off
<1> DEFINE x == i * s + off
           q == x \div s
           m == i * s
<1>1. x \in Int /\ m \in Int /\ x = m + off
  OBVIOUS
<1>2. q = i
  BY DivUnique
<1>3. x % s = x - q * s
  BY <1>1, DivMod
<1>4. x % s = x - m
  BY <1>2, <1>3
<1> HIDE DEF x, m
<1>5. x % s = off
  BY <1>1, <1>4
<1> QED BY <1>2, <1>5 DEF x

\* The entries that a walk for an address reads.
LEMMA Digits ==
  ASSUME NEW x \in 0 .. E - 1, NEW y \in 0 .. E - 1, NEW z \in 0 .. E - 1,
         NEW va, va = x * Square + (y * E + z)
  PROVE  /\ va \in Nat
         /\ Table!GET_L0_INDEX(va) = x
         /\ Table!GET_L1_INDEX(va) = y
         /\ Table!GET_L2_INDEX(va) = z
<1> USE Sizes
<1> DEFINE w == y * E + z
           u == x * E + y
<1>1. y * E \in Nat /\ y * E <= (E - 1) * E /\ (E - 1) * E = E * E - E
  <2>1. y * E <= (E - 1) * E
    BY MulLe
  <2> QED BY <2>1
<1>2. w \in 0 .. Square - 1
  BY <1>1
<1>3. x * Square \in Nat /\ va \in Nat
  BY <1>2
<1>4. va \div Square = x
  BY <1>2, DivUnique
<1>5. x * E \in Nat /\ u \in Nat
  OBVIOUS
<1>6. (x * E) * E = x * Square
  OBVIOUS
<1>7. va = u * E + z
  <2>1. u * E = (x * E) * E + y * E
    BY <1>5
  <2> HIDE DEF u
  <2> QED BY <2>1, <1>1, <1>3, <1>5, <1>6
<1>8. va \div E = u /\ va % E = z
  <2> HIDE DEF u
  <2> QED BY <1>5, <1>7, ModUnique
<1>9. u % E = y
  BY ModUnique
<1>10. x % E = x
  <2>1. (0 * E + x) % E = x
    BY ModUnique
  <2> QED BY <2>1
<1> QED BY <1>3, <1>4, <1>8, <1>9, <1>10
    DEF Table!GET_L0_INDEX, Table!GET_L1_INDEX, Table!GET_L2_INDEX, E, Square

LEMMA HasDigits ==
  ASSUME NEW va \in Table!VA
  PROVE  \E x, y, z \in 0 .. E - 1 : va = x * Square + (y * E + z)
<1> DEFINE x == va \div Square
           r == va % Square
           y == r \div E
           z == r % E
<1>0. E \in Nat \ {0, 1} /\ Square \in Nat \ {0} /\ Square = E * E /\ E * Square \in Nat
  BY Sizes
<1>1. va \in Nat /\ va < E * Square
  BY Sizes
<1>2. x \in Nat /\ r \in 0 .. Square - 1 /\ va = x * Square + r
  BY <1>0, <1>1, DivModNat
<1>3. y \in Nat /\ z \in 0 .. E - 1 /\ r = y * E + z
  <2>1. r \in Nat
    BY <1>0, <1>2
  <2> HIDE DEF r
  <2> QED BY <1>0, <2>1, DivModNat
<1> HIDE DEF x, r, y, z
<1>4. x <= E - 1
  <2> SUFFICES ASSUME E <= x PROVE FALSE
    BY <1>0, <1>2
  <2>1. E * Square <= x * Square /\ x * Square \in Nat
    BY <1>0, <1>2, MulLe
  <2> QED BY <2>1, <1>0, <1>1, <1>2
<1>5. y <= E - 1
  <2> SUFFICES ASSUME E <= y PROVE FALSE
    BY <1>0, <1>3
  <2>1. E * E <= y * E /\ y * E \in Nat
    BY <1>0, <1>3, MulLe
  <2> QED BY <2>1, <1>0, <1>2, <1>3
<1>6. x \in 0 .. E - 1 /\ y \in 0 .. E - 1
  BY <1>0, <1>2, <1>3, <1>4, <1>5
<1>7. va = x * Square + (y * E + z)
  BY <1>2, <1>3
<1> QED BY <1>3, <1>6, <1>7

LEMMA HasIndices ==
  ASSUME NEW va \in Table!VA
  PROVE  \E x, y, z \in 0 .. E - 1 :
           /\ va = x * Square + (y * E + z)
           /\ Table!GET_L0_INDEX(va) = x
           /\ Table!GET_L1_INDEX(va) = y /\ Table!GET_L2_INDEX(va) = z
<1>1. PICK x \in 0 .. E - 1, y \in 0 .. E - 1, z \in 0 .. E - 1 :
        va = x * Square + (y * E + z)
  BY HasDigits
<1>2. /\ Table!GET_L0_INDEX(va) = x
      /\ Table!GET_L1_INDEX(va) = y /\ Table!GET_L2_INDEX(va) = z
  BY <1>1, Digits
<1> QED BY <1>1, <1>2

LEMMA TopFacts ==
  /\ KERNEL_VADDR \in Nat
  /\ Top \in 0 .. E - 1 /\ KERNEL_VADDR = Top * Square
<1>0. E \in Nat \ {0} /\ Square \in Nat \ {0} /\ Table!VA = 0 .. E * Square - 1
      /\ E * Square \in Nat
  BY Sizes
<1>1. KERNEL_VADDR \in Nat /\ KERNEL_VADDR < E * Square /\ KERNEL_VADDR % Square = 0
  BY <1>0, BootAssumption DEF Table!TableAssumption, Square
<1>2. Top \in Nat /\ KERNEL_VADDR = Top * Square
  <2>1. \A x \in Nat, s \in Nat \ {0} : x % s = 0 => x \div s \in Nat /\ x = (x \div s) * s
    BY DivModNat
  <2> QED BY <1>0, <1>1, <2>1 DEF Top
<1>3. Top * Square \in Nat
  BY <1>0, <1>2
<1>4. Top <= E - 1
  <2> SUFFICES ASSUME E <= Top PROVE FALSE
    BY <1>0, <1>2
  <2>1. E * Square <= Top * Square
    BY <1>0, <1>2, MulLe
  <2> QED BY <2>1, <1>0, <1>1, <1>2, <1>3
<1> QED BY <1>0, <1>1, <1>2, <1>3, <1>4

LEMMA Bounds ==
  /\ E \in Nat \ {0, 1} /\ Table!Indices = 0 .. E - 1
  /\ PHYSMEM_END = E /\ PERIPHERAL_BASE \in 1 .. E - 1
  /\ KERNEL_VADDR \in Nat /\ Top \in 0 .. E - 1
  BY Sizes, TopFacts

\* How far behind the beginning of a half an address is.
LEMMA Distance ==
  ASSUME NEW a \in 0 .. E - 1,
         NEW x \in 0 .. E - 1, NEW y \in 0 .. E - 1, NEW z \in 0 .. E - 1
  PROVE  LET d == (x * Square + (y * E + z)) - a * Square
         IN /\ d \in Int
            /\ x = a /\ y = 0 => d = z
            /\ x = a /\ y = 1 => d = E + z
            /\ x = a /\ y \notin {0, 1} => d >= 2 * E
            /\ x < a => d < 0
            /\ x > a => d >= 2 * E
<1> USE Sizes
<1> DEFINE m == x * Square
           n == a * Square
           w == y * E
<1>1. m \in Nat /\ n \in Nat /\ w \in Nat
  OBVIOUS
<1>2. w <= (E - 1) * E /\ (E - 1) * E = Square - E
  <2>1. w <= (E - 1) * E
    BY MulLe
  <2> QED BY <2>1
<1>3. x = a => m = n
  OBVIOUS
<1>4. y = 0 => w = 0
  OBVIOUS
<1>5. y = 1 => w = E
  OBVIOUS
<1>6. y \notin {0, 1} => w >= 2 * E
  <2>1. y \notin {0, 1} => 2 * E <= y * E
    BY MulLe
  <2> QED BY <2>1
<1>7. x < a => m + Square <= n
  <2>1. x < a => (x + 1) * Square <= a * Square
    BY MulLe
  <2>2. (x + 1) * Square = m + Square
    OBVIOUS
  <2> QED BY <2>1, <2>2
<1>8. x > a => n + Square <= m
  <2>1. x > a => (a + 1) * Square <= x * Square
    BY MulLe
  <2>2. (a + 1) * Square = n + Square
    OBVIOUS
  <2> QED BY <2>1, <2>2
<1> HIDE DEF m, n, w
<1>9. LET d == (m + (w + z)) - n
      IN /\ d \in Int
         /\ x = a /\ y = 0 => d = z
         /\ x = a /\ y = 1 => d = E + z
         /\ x = a /\ y \notin {0, 1} => d >= 2 * E
         /\ x < a => d < 0
         /\ x > a => d >= 2 * E
  BY <1>1, <1>2, <1>3, <1>4, <1>5, <1>6, <1>7, <1>8
<1> QED BY <1>9 DEF m, n, w

-----------------------------------------------------------------------------
\* The tables, as far as init_boot_pt has come.
Block(i) == Table!BlockEntry(i, IF i < PERIPHERAL_BASE THEN "normal" ELSE "device")

Filled(h, i) == half > h \/ (half = h /\ i < vaddr - Table!Start(h))

Position ==
  /\ half \in 0 .. 2
  /\ half # 2 => vaddr \in Nat /\ vaddr - Table!Start(half) \in 0 .. E

Shapes ==
  \A f \in {l0, l1, l2} :
    DOMAIN f = {0, 1} /\ \A h \in {0, 1} : DOMAIN f[h] = Table!Indices

Upper ==
  \A i \in Table!Indices :
    /\ l0[0][i] = IF i = 0 THEN Table!TableEntry ELSE NULL
    /\ l0[1][i] = IF i = Top /\ half # 0 THEN Table!TableEntry ELSE NULL
    /\ l1[0][i] = IF i = 0 THEN Table!TableEntry ELSE NULL
    /\ l1[1][i] = IF i = 0 /\ half # 0 THEN Table!TableEntry
                  ELSE IF i = 1 /\ half = 2 THEN Table!BlockEntry(E, "device")
                  ELSE NULL

Lower ==
  \A h \in {0, 1}, i \in Table!Indices :
    l2[h][i] = IF Filled(h, i) THEN Block(i) ELSE NULL

TablesRight == Position /\ Shapes /\ Upper /\ Lower

LEMMA EntryFacts ==
  /\ Table!TableEntry # NULL /\ Table!TableEntry.is_table
  /\ \A pa \in Nat, memory \in {"normal", "device"} :
       LET e == Table!BlockEntry(pa, memory)
       IN e # NULL /\ ~ e.is_table /\ e.pa = pa /\ e.memory = memory
<1>1. Table!TableEntry \in [is_table : {TRUE}]
  BY DEF Table!TableEntry
<1>2. \A pa \in Nat, memory \in {"normal", "device"} :
        Table!BlockEntry(pa, memory)
          \in [is_table : {FALSE}, pa : Nat, memory : {"normal", "device"}]
  BY DEF Table!BlockEntry
<1>3. /\ NULL \notin [is_table : {TRUE}]
      /\ NULL \notin [is_table : {FALSE}, pa : Nat, memory : {"normal", "device"}]
  BY BootAssumption DEF Table!TableAssumption
<1>4. Table!TableEntry # NULL /\ Table!TableEntry.is_table
  BY <1>1, <1>3 DEF Table!TableEntry
<1>5. ASSUME NEW pa \in Nat, NEW memory \in {"normal", "device"}
      PROVE  LET e == Table!BlockEntry(pa, memory)
             IN e # NULL /\ ~ e.is_table /\ e.pa = pa /\ e.memory = memory
  BY <1>2, <1>3 DEF Table!BlockEntry
<1> QED BY <1>4, <1>5

\* The indices of the addresses where the halves begin.
LEMMA StartIndices ==
  /\ Table!GET_L0_INDEX(0) = 0 /\ Table!GET_L1_INDEX(0) = 0
  /\ Table!GET_L0_INDEX(KERNEL_VADDR) = Top /\ Table!GET_L1_INDEX(KERNEL_VADDR) = 0
  /\ Table!GET_L1_INDEX(KERNEL_VADDR + PHYSMEM_END) = 1
  /\ \A h \in {0, 1}, i \in 0 .. E - 1 : Table!GET_L2_INDEX(Table!Start(h) + i) = i
<1>1. /\ 0 * Square = 0 /\ 0 * E = 0 /\ 1 * E = E /\ Top * Square \in Nat
      /\ 0 \in 0 .. E - 1 /\ 1 \in 0 .. E - 1 /\ Top \in 0 .. E - 1
      /\ KERNEL_VADDR = Top * Square /\ PHYSMEM_END = E /\ E \in Nat
  BY Sizes, TopFacts
<1>2. Table!GET_L0_INDEX(0) = 0 /\ Table!GET_L1_INDEX(0) = 0
  <2>1. 0 = 0 * Square + (0 * E + 0)
    BY <1>1
  <2>2. \A va : va = 0 * Square + (0 * E + 0)
                => Table!GET_L0_INDEX(va) = 0 /\ Table!GET_L1_INDEX(va) = 0
    BY <1>1, Digits
  <2> QED BY <2>1, <2>2
<1>3. Table!GET_L0_INDEX(KERNEL_VADDR) = Top /\ Table!GET_L1_INDEX(KERNEL_VADDR) = 0
  <2>1. KERNEL_VADDR = Top * Square + (0 * E + 0)
    BY <1>1
  <2>2. \A va : va = Top * Square + (0 * E + 0)
                => Table!GET_L0_INDEX(va) = Top /\ Table!GET_L1_INDEX(va) = 0
    BY <1>1, Digits
  <2> QED BY <2>1, <2>2
<1>4. Table!GET_L1_INDEX(KERNEL_VADDR + PHYSMEM_END) = 1
  <2>1. KERNEL_VADDR + PHYSMEM_END = Top * Square + (1 * E + 0)
    BY <1>1
  <2>2. \A va : va = Top * Square + (1 * E + 0) => Table!GET_L1_INDEX(va) = 1
    BY <1>1, Digits
  <2> QED BY <2>1, <2>2
<1>5. ASSUME NEW h \in {0, 1}, NEW i \in 0 .. E - 1
      PROVE  Table!GET_L2_INDEX(Table!Start(h) + i) = i
  <2>1. CASE h = 0
    <3>1. Table!Start(h) + i = 0 * Square + (0 * E + i)
      BY <1>1, <2>1 DEF Table!Start
    <3>2. \A va : va = 0 * Square + (0 * E + i) => Table!GET_L2_INDEX(va) = i
      BY <1>1, Digits
    <3> QED BY <3>1, <3>2
  <2>2. CASE h = 1
    <3>1. Table!Start(h) + i = Top * Square + (0 * E + i)
      BY <1>1, <2>2 DEF Table!Start
    <3>2. \A va : va = Top * Square + (0 * E + i) => Table!GET_L2_INDEX(va) = i
      BY <1>1, Digits
    <3> QED BY <3>1, <3>2
  <2> QED BY <2>1, <2>2
<1> QED BY <1>2, <1>3, <1>4, <1>5

LEMMA TableInit == Table!Init => TablesRight
<1> SUFFICES ASSUME Table!Init PROVE TablesRight
  OBVIOUS
<1> USE Bounds
<1>1. /\ l0 = [Table!Empty EXCEPT ![0][0] = Table!TableEntry]
      /\ l1 = [Table!Empty EXCEPT ![0][0] = Table!TableEntry]
      /\ l2 = Table!Empty /\ half = 0 /\ vaddr = 0
  BY StartIndices DEF Table!Init
<1>2. Table!Empty = [h \in {0, 1} |-> [i \in Table!Indices |-> NULL]]
  BY DEF Table!Empty
<1>3. Upper
  BY <1>1, <1>2 DEF Upper
<1>4. Lower
  <2>1. \A h \in {0, 1}, i \in Table!Indices : ~ Filled(h, i)
    BY <1>1 DEF Filled, Table!Start
  <2> QED BY <1>1, <1>2, <2>1 DEF Lower
<1>5. Shapes
  <2>1. DOMAIN l0 = {0, 1} /\ \A h \in {0, 1} : DOMAIN l0[h] = Table!Indices
    BY <1>1, <1>2
  <2>2. DOMAIN l1 = {0, 1} /\ \A h \in {0, 1} : DOMAIN l1[h] = Table!Indices
    BY <1>1, <1>2
  <2>3. DOMAIN l2 = {0, 1} /\ \A h \in {0, 1} : DOMAIN l2[h] = Table!Indices
    BY <1>1, <1>2
  <2> QED BY <2>1, <2>2, <2>3 DEF Shapes
<1>6. Position
  BY <1>1 DEF Position, Table!Start
<1> QED BY <1>3, <1>4, <1>5, <1>6 DEF TablesRight

\* Going on to the next half leaves the blocks that are mapped.
LEMMA SameBlocks ==
  ASSUME Lower, UNCHANGED l2,
         \A h \in {0, 1}, i \in Table!Indices : Filled(h, i)' <=> Filled(h, i)
  PROVE  Lower'
  BY DEF Lower, Block, Table!BlockEntry, Table!Indices

LEMMA TableNext == TablesRight /\ Table!Next => TablesRight'
<1> SUFFICES ASSUME TablesRight, Table!Next PROVE TablesRight'
  OBVIOUS
<1> USE Bounds
<1>0. /\ 0 \in Table!Indices /\ 1 \in Table!Indices /\ Top \in Table!Indices
      /\ Position /\ Shapes /\ Upper /\ Lower
  BY DEF TablesRight
<1>1. CASE Table!MapBlock
  <2>1. /\ half \in {0, 1} /\ vaddr <= Table!Last(half) /\ vaddr' = vaddr + 1
        /\ UNCHANGED <<half, l0, l1>>
        /\ l2' = [l2 EXCEPT ![half][Table!GET_L2_INDEX(vaddr)] = Table!Entry(vaddr, half)]
    BY <1>0, <1>1 DEF Table!MapBlock, Position
  <2>2. Table!Start(half) \in Nat /\ vaddr \in Nat /\ vaddr - Table!Start(half) \in 0 .. E
        /\ vaddr <= Table!Start(half) + (E - 1)
    BY <1>0, <2>1 DEF Position, Table!Last, Table!Start
  <2>3. PICK n \in 0 .. E - 1 : vaddr = Table!Start(half) + n
    <3>1. vaddr - Table!Start(half) \in 0 .. E - 1
          /\ vaddr = Table!Start(half) + (vaddr - Table!Start(half))
      BY <2>2
    <3> QED BY <3>1
  <2>4. l2' = [l2 EXCEPT ![half][n] = Block(n)]
    <3>1. Table!GET_L2_INDEX(vaddr) = n
      BY <2>1, <2>3, StartIndices
    <3>2. vaddr - Table!Start(half) = n
          /\ (vaddr < Table!Start(half) + PERIPHERAL_BASE <=> n < PERIPHERAL_BASE)
      BY <2>2, <2>3
    <3>3. Table!Entry(vaddr, half) = Block(n)
      BY <3>2 DEF Table!Entry, Block
    <3> QED BY <2>1, <3>1, <3>3
  <2>5. ASSUME NEW h \in {0, 1}, NEW i \in Table!Indices
        PROVE  Filled(h, i)' <=> Filled(h, i) \/ (h = half /\ i = n)
    <3>1. CASE h = half
      <4>1. i \in Int /\ n \in Int
        OBVIOUS
      <4>2. vaddr - Table!Start(half) = n /\ (vaddr + 1) - Table!Start(half) = n + 1
        BY <2>2, <2>3
      <4>3. Filled(h, i)' <=> half > h \/ i < n + 1
        BY <2>1, <3>1, <4>2 DEF Filled, Table!Start
      <4>4. Filled(h, i) <=> half > h \/ i < n
        BY <3>1, <4>2 DEF Filled
      <4> QED BY <2>1, <3>1, <4>1, <4>3, <4>4
    <3>2. CASE h # half
      BY <2>1, <3>2 DEF Filled, Table!Start
    <3> QED BY <3>1, <3>2
  <2>6. Lower'
    <3>1. ASSUME NEW h \in {0, 1}, NEW i \in Table!Indices
          PROVE  l2'[h][i] = IF Filled(h, i)' THEN Block(i) ELSE NULL
      <4>1. l2'[h][i] = IF h = half /\ i = n THEN Block(n) ELSE l2[h][i]
        BY <1>0, <2>1, <2>4 DEF Shapes
      <4>2. l2[h][i] = IF Filled(h, i) THEN Block(i) ELSE NULL
        BY <1>0 DEF Lower
      <4> QED BY <2>5, <4>1, <4>2 DEF Filled
    <3> QED BY <3>1 DEF Lower, Block, Table!BlockEntry, Table!Indices
  <2>7. Shapes'
    BY <1>0, <2>1, <2>4 DEF Shapes, Table!Indices
  <2>8. Position'
    BY <2>1, <2>2, <2>3 DEF Position, Table!Start
  <2>9. Upper'
    BY <1>0, <2>1 DEF Upper, Table!TableEntry, Table!BlockEntry, Table!Indices
  <2> QED BY <2>6, <2>7, <2>8, <2>9 DEF TablesRight
<1>2. CASE Table!BeginHigh
  <2>1. /\ half = 0 /\ half' = 1 /\ vaddr' = KERNEL_VADDR /\ UNCHANGED l2
        /\ l0' = [l0 EXCEPT ![1][Top] = Table!TableEntry]
        /\ l1' = [l1 EXCEPT ![1][0] = Table!TableEntry]
        /\ vaddr > Table!Last(0)
    BY <1>2, StartIndices DEF Table!BeginHigh
  <2>2. Lower'
    <3>1. vaddr = E
      BY <1>0, <2>1 DEF Position, Table!Start, Table!Last
    <3>2. ASSUME NEW h \in {0, 1}, NEW i \in Table!Indices
          PROVE  Filled(h, i)' <=> Filled(h, i)
      <4>1. i \in Int /\ i < E /\ ~ i < 0
        OBVIOUS
      <4>2. CASE h = 0
        BY <2>1, <3>1, <4>1, <4>2 DEF Filled, Table!Start
      <4>3. CASE h = 1
        <5>1. ~ Filled(1, i)
          BY <2>1 DEF Filled
        <5>2. vaddr' - Table!Start(1) = 0
          BY <2>1 DEF Table!Start
        <5>3. ~ Filled(1, i)'
          BY <2>1, <4>1, <5>2 DEF Filled, Table!Start
        <5> QED BY <4>3, <5>1, <5>3
      <4> QED BY <4>2, <4>3
    <3> QED BY <1>0, <2>1, <3>2, SameBlocks
  <2>3. Shapes'
    BY <1>0, <2>1 DEF Shapes, Table!Indices
  <2>4. Upper'
    <3>1. ASSUME NEW i \in Table!Indices
          PROVE  /\ l0'[0][i] = l0[0][i] /\ l1'[0][i] = l1[0][i]
                 /\ l0'[1][i] = IF i = Top THEN Table!TableEntry ELSE NULL
                 /\ l1'[1][i] = IF i = 0 THEN Table!TableEntry ELSE NULL
      BY <1>0, <2>1 DEF Upper, Shapes
    <3> QED BY <1>0, <2>1, <3>1 DEF Upper, Table!TableEntry, Table!BlockEntry, Table!Indices
  <2>5. Position'
    BY <2>1 DEF Position, Table!Start
  <2> QED BY <2>2, <2>3, <2>4, <2>5 DEF TablesRight
<1>3. CASE Table!MapLocal
  <2>1. /\ half = 1 /\ half' = 2 /\ vaddr' = KERNEL_VADDR + PHYSMEM_END
        /\ UNCHANGED <<l0, l2>>
        /\ l1' = [l1 EXCEPT ![1][1] = Table!BlockEntry(E, "device")]
        /\ vaddr > Table!Last(1)
    BY <1>3, StartIndices DEF Table!MapLocal
  <2>2. Lower'
    <3>1. vaddr - Table!Start(1) = E
      BY <1>0, <2>1 DEF Position, Table!Start, Table!Last
    <3>2. ASSUME NEW h \in {0, 1}, NEW i \in Table!Indices
          PROVE  Filled(h, i)' <=> Filled(h, i)
      <4>1. i \in Int /\ i < E
        OBVIOUS
      <4>2. Filled(h, i)
        BY <2>1, <3>1, <4>1 DEF Filled
      <4>3. Filled(h, i)'
        BY <2>1 DEF Filled
      <4> QED BY <4>2, <4>3
    <3> QED BY <1>0, <2>1, <3>2, SameBlocks
  <2>3. Shapes'
    BY <1>0, <2>1 DEF Shapes, Table!Indices
  <2>4. Upper'
    <3>1. ASSUME NEW i \in Table!Indices
          PROVE  /\ l1'[0][i] = l1[0][i]
                 /\ l1'[1][i] = IF i = 1 THEN Table!BlockEntry(E, "device") ELSE l1[1][i]
      BY <1>0, <2>1 DEF Shapes
    <3>2. ASSUME NEW i \in Table!Indices
          PROVE  /\ l1'[0][i] = IF i = 0 THEN Table!TableEntry ELSE NULL
                 /\ l1'[1][i] = IF i = 0 THEN Table!TableEntry
                                ELSE IF i = 1 THEN Table!BlockEntry(E, "device") ELSE NULL
                 /\ l0'[0][i] = IF i = 0 THEN Table!TableEntry ELSE NULL
                 /\ l0'[1][i] = IF i = Top THEN Table!TableEntry ELSE NULL
      BY <1>0, <2>1, <3>1 DEF Upper
    <3> QED BY <2>1, <3>2 DEF Upper
  <2>5. Position'
    BY <2>1 DEF Position
  <2> QED BY <2>2, <2>3, <2>4, <2>5 DEF TablesRight
<1> QED BY <1>1, <1>2, <1>3 DEF Table!Next

\* What a walk finds, for every address.
LEMMA WalkFinds ==
  ASSUME TablesRight, NEW h \in {0, 1}, NEW va \in Table!VA
  PROVE  \/ Table!Translate(h, va) = Table!Expected(h, va)
         \/ half # 2 /\ Table!Translate(h, va) = NULL
<1> USE Sizes, TopFacts
<1>1. PICK x \in 0 .. E - 1, y \in 0 .. E - 1, z \in 0 .. E - 1 :
        /\ va = x * Square + (y * E + z)
        /\ Table!GET_L0_INDEX(va) = x
        /\ Table!GET_L1_INDEX(va) = y /\ Table!GET_L2_INDEX(va) = z
  BY HasIndices
<1>2. /\ va \in Nat /\ Table!GET_L0_INDEX(va) = x
      /\ Table!GET_L1_INDEX(va) = y /\ Table!GET_L2_INDEX(va) = z
  BY <1>1
<1> DEFINE a == IF h = 0 THEN 0 ELSE Top
           d == va - Table!Start(h)
<1>3. a \in 0 .. E - 1 /\ Table!Start(h) = a * Square
  BY DEF Table!Start
<1>4. /\ d \in Int
      /\ x = a /\ y = 0 => d = z
      /\ x = a /\ y = 1 => d = E + z
      /\ x = a /\ y \notin {0, 1} => d >= 2 * E
      /\ x < a => d < 0
      /\ x > a => d >= 2 * E
  BY <1>1, <1>3, Distance
<1> HIDE DEF a, d
<1>5. Table!Expected(h, va)
        = IF d \in 0 .. (h + 1) * E - 1
          THEN [pa |-> d, memory |-> IF d < PERIPHERAL_BASE THEN "normal" ELSE "device"]
          ELSE NULL
  BY DEF Table!Expected, d
<1>6. /\ (h + 1) * E \in {E, 2 * E} /\ (h = 0 => (h + 1) * E = E) /\ (h = 1 => (h + 1) * E = 2 * E)
  OBVIOUS
<1>7. va % PTP_ENTRIES = z
  BY <1>2 DEF Table!GET_L2_INDEX
<1> DEFINE e0 == l0[h][x]
           e1 == l1[h][y]
           e2 == l2[h][z]
<1>8. Table!Translate(h, va)
        = IF e0 = NULL \/ e1 = NULL THEN NULL
          ELSE IF ~ e1.is_table THEN [pa |-> e1.pa + z, memory |-> e1.memory]
          ELSE IF e2 = NULL THEN NULL
          ELSE [pa |-> e2.pa, memory |-> e2.memory]
  BY <1>2, <1>7 DEF Table!Translate
<1>9. /\ e0 = IF x = a /\ (h = 0 \/ half # 0) THEN Table!TableEntry ELSE NULL
      /\ e1 = IF y = 0 /\ (h = 0 \/ half # 0) THEN Table!TableEntry
              ELSE IF h = 1 /\ y = 1 /\ half = 2 THEN Table!BlockEntry(E, "device")
              ELSE NULL
      /\ e2 = IF Filled(h, z) THEN Block(z) ELSE NULL
  BY DEF TablesRight, Upper, Lower, a
<1> HIDE DEF e0, e1, e2
<1>10. CASE x # a
  <2>1. d < 0 \/ d >= 2 * E
    BY <1>3, <1>4, <1>10
  <2>2. d \notin 0 .. (h + 1) * E - 1
    BY <1>4, <1>6, <2>1
  <2> QED BY <1>5, <1>8, <1>9, <1>10, <2>2
<1>11. CASE x = a /\ y = 0
  <2>1. d = z /\ d \in 0 .. (h + 1) * E - 1
    BY <1>4, <1>6, <1>11
  <2>2. CASE Filled(h, z) /\ (h = 0 \/ half # 0)
    <3>1. e0 = Table!TableEntry /\ e1 = Table!TableEntry /\ e2 = Block(z)
      BY <1>9, <1>11, <2>2
    <3>2. e2 # NULL /\ e2.pa = z
          /\ e2.memory = IF z < PERIPHERAL_BASE THEN "normal" ELSE "device"
      BY <3>1, EntryFacts DEF Block
    <3> QED BY <1>5, <1>8, <2>1, <3>1, <3>2, EntryFacts
  <2>3. CASE ~ (Filled(h, z) /\ (h = 0 \/ half # 0))
    <3>1. half # 2
      <4>1. half = 2 => half > h
        OBVIOUS
      <4> QED BY <2>3, <4>1 DEF Filled
    <3> QED BY <1>8, <1>9, <1>11, <2>3, <3>1, EntryFacts
  <2> QED BY <2>2, <2>3
<1>12. CASE x = a /\ y = 1
  <2>1. d = E + z
    BY <1>4, <1>12
  <2>2. CASE h = 1 /\ half = 2
    <3>1. e0 = Table!TableEntry /\ e1 = Table!BlockEntry(E, "device")
      BY <1>9, <1>12, <2>2
    <3>2. d \in 0 .. (h + 1) * E - 1 /\ ~ d < PERIPHERAL_BASE
      BY <1>6, <2>1, <2>2
    <3> QED BY <1>5, <1>8, <2>1, <3>1, <3>2, EntryFacts
  <2>3. CASE ~ (h = 1 /\ half = 2)
    <3>1. e1 = NULL
      BY <1>9, <1>12, <2>3
    <3>2. h = 0 => d \notin 0 .. (h + 1) * E - 1
      BY <1>6, <2>1
    <3> QED BY <1>5, <1>8, <2>3, <3>1, <3>2
  <2> QED BY <2>2, <2>3
<1>13. CASE x = a /\ y \notin {0, 1}
  <2>1. d \notin 0 .. (h + 1) * E - 1
    BY <1>4, <1>6, <1>13
  <2> QED BY <1>5, <1>8, <1>9, <1>13, <2>1
<1> QED BY <1>10, <1>11, <1>12, <1>13

-----------------------------------------------------------------------------
\* Where the program is.

LEMMA CallAt ==
  ASSUME stage \in 1 .. 19, NEW name, Does(name)
  PROVE  /\ name = "in_el3" => stage = 1
         /\ name = "in_el2" => stage = 2
         /\ name = "eret" => stage = 3
         /\ name = "clear_bss" => stage = 4
         /\ name = "early_uart_init" => stage = 5
         /\ name = "uart_send_string" => stage \in {6, 7, 10, 11}
         /\ name = "init_boot_pt" => stage = 8
         /\ name = "el1_mmu_activate" => stage = 9
         /\ name = "start_kernel" => stage = 12
         /\ name = "ttbr0_el1" => stage = 13
         /\ name = "flush_tlb_all" => stage = 14
         /\ name = "uart_init" => stage = 15
         /\ name = "kinfo" => stage \in {16, 18}
         /\ name = "mm_init" => stage = 17
<1>1. Program[stage] = name
  BY DEF Does
<1>2. stage \in {1, 2, 3, 4, 5, 6, 7, 8, 9, 10, 11, 12, 13, 14, 15, 16, 17, 18, 19}
  OBVIOUS
<1> QED BY <1>1, <1>2 DEF Program

LEMMA CalledMeans ==
  ASSUME stage \in 1 .. 19
  PROVE  /\ Called("eret") <=> stage > 3
         /\ Called("start_kernel") <=> stage > 12
         /\ Called("ttbr0_el1") <=> stage > 13
         /\ Called("flush_tlb_all") <=> stage > 14
<1>1. ASSUME NEW i \in 1 .. 19
      PROVE  /\ Program[i] = "eret" <=> i = 3
             /\ Program[i] = "start_kernel" <=> i = 12
             /\ Program[i] = "ttbr0_el1" <=> i = 13
             /\ Program[i] = "flush_tlb_all" <=> i = 14
  <2>1. i \in {1, 2, 3, 4, 5, 6, 7, 8, 9, 10, 11, 12, 13, 14, 15, 16, 17, 18, 19}
    OBVIOUS
  <2> QED BY <2>1 DEF Program
<1>2. ASSUME NEW name, NEW n \in 1 .. 19, \A i \in 1 .. 19 : Program[i] = name <=> i = n
      PROVE  Called(name) <=> stage > n
  <2>1. ASSUME Called(name) PROVE stage > n
    <3>1. PICK i \in 1 .. stage - 1 : Program[i] = name
      BY <2>1 DEF Called
    <3>2. i \in 1 .. 19
      OBVIOUS
    <3>3. i = n
      BY <1>2, <3>1, <3>2
    <3> QED BY <3>3
  <2>2. ASSUME stage > n PROVE Called(name)
    <3>1. n \in 1 .. stage - 1
      BY <2>2
    <3>2. Program[n] = name
      BY <1>2
    <3> QED BY <3>1, <3>2 DEF Called
  <2> QED BY <2>1, <2>2
<1>3. Called("eret") <=> stage > 3
  BY <1>1, <1>2
<1>4. Called("start_kernel") <=> stage > 12
  BY <1>1, <1>2
<1>5. Called("ttbr0_el1") <=> stage > 13
  BY <1>1, <1>2
<1>6. Called("flush_tlb_all") <=> stage > 14
  BY <1>1, <1>2
<1> QED BY <1>3, <1>4, <1>5, <1>6

\* What each step does to the place in the program.
LEMMA Moves ==
  ASSUME stage \in 1 .. 19, BootNext
  PROVE  /\ stage' \in 1 .. 19
         /\ stage' = stage \/ (stage' = stage + 1 /\ Serial!Idle)
         /\ \/ UNCHANGED <<el, masked, ret>> /\ (stage > 3 \/ stage' = stage)
            \/ in_el3 /\ stage = 1
            \/ in_el2 /\ stage = 2
            \/ eret /\ stage = 3
         /\ \/ UNCHANGED tableVars /\ (stage # 8 \/ stage' = stage \/ half = 2)
            \/ Table!Next /\ stage = 8 /\ stage' = stage
         /\ UNCHANGED vars \/ (Next /\ stage = 17)
<1> USE CallAt
<1>1. CASE in_el3
  <2>1. stage = 1
    BY <1>1 DEF in_el3
  <2> QED BY <1>1, <2>1 DEF in_el3, Goes, Does, tableVars
<1>2. CASE in_el2
  <2>1. stage = 2
    BY <1>2 DEF in_el2
  <2> QED BY <1>2, <2>1 DEF in_el2, Goes, Does
<1>3. CASE eret
  <2>1. stage = 3
    BY <1>3 DEF eret
  <2> QED BY <1>3, <2>1 DEF eret, Goes, Does
<1>4. CASE clear_bss
  <2>1. stage = 4
    BY <1>4 DEF clear_bss
  <2> QED BY <1>4, <2>1 DEF clear_bss, Goes, Does
<1>5. CASE CallDriver
  <2>1. stage \in {5, 6, 7, 10, 11, 15, 16, 18}
    <3>1. Does("early_uart_init") => stage = 5
      OBVIOUS
    <3>2. Does("uart_send_string") => stage \in {6, 7, 10, 11}
      OBVIOUS
    <3>3. Does("kinfo") => stage \in {16, 18}
      OBVIOUS
    <3>4. Does("uart_init") => stage = 15
      OBVIOUS
    <3> QED BY <1>5, <3>1, <3>2, <3>3, <3>4 DEF CallDriver
  <2>2. Serial!Idle
    BY <1>5 DEF CallDriver, Does
  <2> QED BY <1>5, <2>1, <2>2 DEF CallDriver, Goes, cpuVars
<1>6. CASE Driver
  BY <1>6 DEF Driver, cpuVars
<1>7. CASE init_boot_pt
  <2>1. stage = 8 /\ Serial!Idle
    BY <1>7 DEF init_boot_pt, Does
  <2> QED BY <1>7, <2>1 DEF init_boot_pt, Goes, cpuVars
<1>8. CASE el1_mmu_activate
  <2>1. stage = 9
    BY <1>8 DEF el1_mmu_activate
  <2> QED BY <1>8, <2>1 DEF el1_mmu_activate, Goes, Does, cpuVars
<1>9. CASE start_kernel
  <2>1. stage = 12
    BY <1>9 DEF start_kernel
  <2> QED BY <1>9, <2>1 DEF start_kernel, Goes, Does, cpuVars
<1>10. CASE SetTtbr0
  <2>1. stage = 13
    BY <1>10 DEF SetTtbr0
  <2> QED BY <1>10, <2>1 DEF SetTtbr0, Goes, Does, cpuVars
<1>11. CASE FlushTlb
  <2>1. stage = 14
    BY <1>11 DEF FlushTlb
  <2> QED BY <1>11, <2>1 DEF FlushTlb, Goes, Does, cpuVars
<1>12. CASE main
  <2>1. stage = 17 /\ Serial!Idle
    BY <1>12 DEF main, Does
  <2> QED BY <1>12, <2>1 DEF main, Goes, cpuVars
<1>13. CASE Spin
  BY <1>13 DEF Spin, cpuVars
<1>14. CASE Loop \/ Lost
  BY <1>14 DEF Loop, Lost, bootVars, cpuVars
<1>15. CASE Transmit
  BY <1>15 DEF Transmit, cpuVars
<1>16. CASE TakesEffect
  BY <1>16 DEF TakesEffect, cpuVars
<1>17. CASE FillTlb
  BY <1>17 DEF FillTlb, cpuVars
<1> QED BY <1>1, <1>2, <1>3, <1>4, <1>5, <1>6, <1>7, <1>8, <1>9, <1>10, <1>11, <1>12,
           <1>13, <1>14, <1>15, <1>16, <1>17 DEF BootNext, ProcessorStep

-----------------------------------------------------------------------------
\* The levels.
EntryInv ==
  /\ ret \in [{2, 3} -> {NULL, EL1h}]
  /\ stage <= 3 => el \in 1 .. 3
  /\ stage \in {2, 3} /\ el = 3 => ret[3] = EL1h
  /\ stage = 3 /\ el = 2 => ret[2] = EL1h
  /\ stage > 3 => el = 1
  /\ masked \in BOOLEAN
  /\ stage <= 3 /\ el = 1 => ret[2] = NULL /\ ret[3] = NULL
  /\ stage > 3 => masked \/ (ret[2] = NULL /\ ret[3] = NULL)

LEMMA EntryNext ==
  ASSUME stage \in 1 .. 19, EntryInv, [BootNext]_bootVars
  PROVE  EntryInv'
<1>0. EL1h # NULL /\ EL1h.el = 1 /\ EL1h.masked = TRUE
  <2>1. EL1h \in [el : {1}, masked : {TRUE}]
    BY DEF EL1h
  <2> QED BY <2>1, BootAssumption DEF EL1h
<1>1. CASE UNCHANGED <<el, masked, ret>> /\ (stage > 3 \/ stage' = stage) /\ stage' \in {stage, stage + 1}
  BY <1>1 DEF EntryInv, EL1h
<1>2. CASE in_el3 /\ stage = 1
  <2>1. stage' = 2 /\ UNCHANGED <<el, masked>> /\ (el # 3 => UNCHANGED ret)
        /\ (el = 3 => ret' = [ret EXCEPT ![3] = EL1h])
    BY <1>2 DEF in_el3, Goes, SetReturn
  <2>2. CASE el = 3
    <3>1. ret' = [ret EXCEPT ![3] = EL1h]
      BY <2>1, <2>2
    <3>2. ret' \in [{2, 3} -> {NULL, EL1h}] /\ ret'[3] = EL1h
      BY <3>1 DEF EntryInv
    <3> QED BY <1>2, <2>1, <2>2, <3>2  DEF EntryInv, EL1h
  <2>3. CASE el # 3
    BY <1>2, <2>1, <2>3  DEF EntryInv, EL1h
  <2> QED BY <2>2, <2>3
<1>3. CASE in_el2 /\ stage = 2
  <2>1. stage' = 3 /\ UNCHANGED <<el, masked>> /\ (el = 1 => UNCHANGED ret)
        /\ (el # 1 => ret' = [ret EXCEPT ![2] = EL1h])
    BY <1>3 DEF in_el2, Goes, SetReturn
  <2>2. CASE el # 1
    <3>1. ret' = [ret EXCEPT ![2] = EL1h]
      BY <2>1, <2>2
    <3>2. ret' \in [{2, 3} -> {NULL, EL1h}] /\ ret'[2] = EL1h /\ ret'[3] = ret[3]
      BY <3>1 DEF EntryInv
    <3> QED BY <1>3, <2>1, <2>2, <3>2  DEF EntryInv, EL1h
  <2>3. CASE el = 1
    BY <1>3, <2>1, <2>3  DEF EntryInv, EL1h
  <2> QED BY <2>2, <2>3
<1>4. CASE eret /\ stage = 3
  <2>0. /\ el \in 1 .. 3 /\ masked \in BOOLEAN /\ (el # 1 => ret[el] = EL1h)
        /\ el = 1 => ret[2] = NULL /\ ret[3] = NULL
    BY <1>4 DEF EntryInv
  <2>1. stage' = 4 /\ ret' = ret
    BY <1>4 DEF eret, Goes
  <2>2. el' = 1 /\ masked' \in BOOLEAN /\ (masked' \/ (ret[2] = NULL /\ ret[3] = NULL))
    <3>1. CASE el = 1
      <4>1. UNCHANGED <<el, masked>>
        BY <1>4, <3>1 DEF eret
      <4> QED BY <2>0, <3>1, <4>1
    <3>2. CASE el # 1
      <4>1. ret[el] # NULL
        BY <1>0, <2>0, <3>2
      <4>2. el' = ret[el].el /\ masked' = ret[el].masked
        BY <1>4, <3>2, <4>1 DEF eret
      <4> QED BY <1>0, <2>0, <3>2, <4>2
    <3> QED BY <3>1, <3>2
  <2> QED BY <2>1, <2>2 DEF EntryInv, EL1h
<1>5. CASE UNCHANGED bootVars
  BY <1>1, <1>5 DEF bootVars, cpuVars
<1>6. CASE BootNext
  BY <1>1, <1>2, <1>3, <1>4, <1>6, Moves
<1> QED BY <1>5, <1>6

-----------------------------------------------------------------------------
\* The tables are complete when init_boot_pt returns.
TableInv == TablesRight /\ (stage > 8 => half = 2)

LEMMA TableStep ==
  ASSUME stage \in 1 .. 19, TableInv, [BootNext]_bootVars
  PROVE  TableInv'
<1>1. UNCHANGED tableVars => TablesRight'
  <2> SUFFICES ASSUME UNCHANGED tableVars PROVE TablesRight'
    OBVIOUS
  <2>1. Position' /\ Shapes'
    BY DEF TableInv, TablesRight, tableVars, Position, Shapes, Table!Start, Table!Indices
  <2>2. Upper'
    BY DEF TableInv, TablesRight, tableVars, Upper, Table!Indices, Table!TableEntry,
           Table!BlockEntry
  <2>3. Lower'
    BY DEF TableInv, TablesRight, tableVars, Lower, Filled, Block, Table!Start,
           Table!Indices, Table!BlockEntry
  <2> QED BY <2>1, <2>2, <2>3 DEF TablesRight
<1>2. CASE UNCHANGED tableVars /\ stage' \in {stage, stage + 1}
           /\ (stage # 8 \/ stage' = stage \/ half = 2)
  BY <1>1, <1>2 DEF TableInv, tableVars
<1>3. CASE Table!Next /\ stage = 8 /\ stage' = stage
  BY <1>3, TableNext DEF TableInv
<1>4. CASE UNCHANGED bootVars
  BY <1>2, <1>4 DEF bootVars
<1>5. CASE BootNext
  BY <1>2, <1>3, <1>5, Moves
<1> QED BY <1>4, <1>5

-----------------------------------------------------------------------------
\* Translation and the TLB.
MmuInv ==
  /\ mmu \in {"off", "pending", "on", "lost"}
  /\ mmu = "off" <=> stage <= 9
  /\ stage > 12 => mmu \in {"on", "lost"}
  /\ stage \in 10 .. 13 => ttbr0 = "boot_ttbr0_l0"
  /\ stage > 13 => ttbr0 = "zero"
  /\ stage > 9 =>
       \A e \in tlb : /\ e.tag = 1 => e.to = Table!Expected(1, e.va)
                      /\ e.tag = 0 /\ stage <= 13 => e.to = Table!Expected(0, e.va)
                      /\ e.tag = 0 /\ stage > 14 => e.to = Unknown

\* A walk finds what the kernel expects, until the low half is gone.
LEMMA WalkIs ==
  ASSUME stage \in 1 .. 19, TableInv, MmuInv, stage > 9,
         NEW h \in {0, 1}, NEW va \in Table!VA
  PROVE  /\ h = 1 \/ stage <= 13 => Walk(h, va) = Table!Expected(h, va)
         /\ h = 0 /\ stage > 13 => Walk(h, va) = Unknown
<1>1. Table!Translate(h, va) = Table!Expected(h, va)
  BY WalkFinds DEF TableInv
<1>2. h = 1 \/ stage <= 13 => Walk(h, va) = Table!Translate(h, va)
  BY DEF MmuInv, Walk
<1>3. h = 0 /\ stage > 13 => Walk(h, va) = Unknown
  BY DEF MmuInv, Walk
<1> QED BY <1>1, <1>2, <1>3

\* Steps that leave translation alone.
LEMMA MmuSame ==
  ASSUME stage \in 1 .. 19, MmuInv, UNCHANGED mmuVars,
         stage' = stage \/ (stage' = stage + 1 /\ stage \notin {9, 12, 13, 14})
  PROVE  MmuInv'
  BY DEF MmuInv, mmuVars, Table!Expected, Table!Start

LEMMA MmuNext ==
  ASSUME stage \in 1 .. 19, MmuInv, TableInv, [BootNext]_bootVars
  PROVE  MmuInv'
<1> USE CallAt
<1>1. CASE in_el3
  <2>1. stage = 1
    BY <1>1 DEF in_el3
  <2> QED BY <1>1, <2>1, MmuSame DEF in_el3, Goes
<1>2. CASE in_el2
  <2>1. stage = 2
    BY <1>2 DEF in_el2
  <2> QED BY <1>2, <2>1, MmuSame DEF in_el2, Goes
<1>3. CASE eret
  <2>1. stage = 3
    BY <1>3 DEF eret
  <2> QED BY <1>3, <2>1, MmuSame DEF eret, Goes
<1>4. CASE clear_bss
  <2>1. stage = 4
    BY <1>4 DEF clear_bss
  <2> QED BY <1>4, <2>1, MmuSame DEF clear_bss, Goes
<1>5. CASE CallDriver
  <2>1. stage \in {5, 6, 7, 10, 11, 15, 16, 18}
    <3>1. Does("early_uart_init") => stage = 5
      OBVIOUS
    <3>2. Does("uart_send_string") => stage \in {6, 7, 10, 11}
      OBVIOUS
    <3>3. Does("kinfo") => stage \in {16, 18}
      OBVIOUS
    <3>4. Does("uart_init") => stage = 15
      OBVIOUS
    <3> QED BY <1>5, <3>1, <3>2, <3>3, <3>4 DEF CallDriver
  <2> QED BY <1>5, <2>1, MmuSame DEF CallDriver, Goes
<1>6. CASE Driver
  BY <1>6, MmuSame DEF Driver
<1>7. CASE init_boot_pt
  <2>1. stage = 8
    BY <1>7 DEF init_boot_pt
  <2> QED BY <1>7, <2>1, MmuSame DEF init_boot_pt, Goes
<1>8. CASE el1_mmu_activate
  <2>1. stage = 9
    BY <1>8 DEF el1_mmu_activate
  <2>2. stage' = 10 /\ tlb' = {} /\ ttbr0' = "boot_ttbr0_l0" /\ mmu' = "pending"
    BY <1>8, <2>1 DEF el1_mmu_activate, Goes, Buffer!flush_tlb_all
  <2> QED BY <2>2 DEF MmuInv
<1>9. CASE start_kernel
  <2>1. stage = 12
    BY <1>9 DEF start_kernel
  <2>2. stage' = 13 /\ mmu' \in {"on", "lost"} /\ UNCHANGED <<ttbr0, tlb>>
    BY <1>9, <2>1 DEF start_kernel, Goes
  <2>3. ttbr0 = "boot_ttbr0_l0"
        /\ \A e \in tlb : /\ e.tag = 1 => e.to = Table!Expected(1, e.va)
                          /\ e.tag = 0 => e.to = Table!Expected(0, e.va)
    BY <2>1 DEF MmuInv
  <2> QED BY <2>2, <2>3 DEF MmuInv, Table!Expected, Table!Start
<1>10. CASE SetTtbr0
  <2>1. stage = 13
    BY <1>10 DEF SetTtbr0
  <2>2. stage' = 14 /\ ttbr0' = "zero" /\ UNCHANGED <<mmu, tlb>>
    BY <1>10, <2>1 DEF SetTtbr0, Goes
  <2>3. mmu \in {"on", "lost"} /\ \A e \in tlb : e.tag = 1 => e.to = Table!Expected(1, e.va)
    BY <2>1 DEF MmuInv
  <2> QED BY <2>2, <2>3 DEF MmuInv, Table!Expected, Table!Start
<1>11. CASE FlushTlb
  <2>1. stage = 14
    BY <1>11 DEF FlushTlb
  <2>2. stage' = 15 /\ tlb' = {} /\ UNCHANGED <<mmu, ttbr0>>
    BY <1>11, <2>1 DEF FlushTlb, Goes, Buffer!flush_tlb_all
  <2> QED BY <2>1, <2>2 DEF MmuInv
<1>12. CASE main
  <2>1. stage = 17
    BY <1>12 DEF main
  <2> QED BY <1>12, <2>1, MmuSame DEF main, Goes
<1>13. CASE Spin
  BY <1>13, MmuSame DEF Spin
<1>14. CASE Loop
  BY <1>14, MmuSame DEF Loop, bootVars
<1>15. CASE Transmit
  BY <1>15, MmuSame DEF Transmit
<1>16. CASE TakesEffect
  BY <1>16 DEF TakesEffect, MmuInv, Table!Expected, Table!Start
<1>17. CASE FillTlb
  <2>1. PICK a \in Probes : Buffer!Fill(a.tag, a.va, Walk(a.tag, a.va))
    BY <1>17 DEF FillTlb
  <2>2. a.tag \in {0, 1} /\ a.va \in Table!VA
    BY BootAssumption
  <2>3. stage > 9 /\ UNCHANGED <<stage, mmu, ttbr0>>
    BY <1>17 DEF FillTlb, MmuInv
  <2> DEFINE n == [tag |-> a.tag, va |-> a.va, to |-> Walk(a.tag, a.va)]
  <2>4. tlb' = tlb \cup {n}
    BY <2>1 DEF Buffer!Fill
  <2>5. /\ n.tag = 1 => n.to = Table!Expected(1, n.va)
        /\ n.tag = 0 /\ stage <= 13 => n.to = Table!Expected(0, n.va)
        /\ n.tag = 0 /\ stage > 14 => n.to = Unknown
    BY <2>2, <2>3, WalkIs
  <2> HIDE DEF n
  <2> QED BY <2>3, <2>4, <2>5 DEF MmuInv, Table!Expected, Table!Start
<1>18. CASE Lost \/ UNCHANGED bootVars
  BY <1>18, MmuSame DEF Lost, bootVars
<1> QED BY <1>1, <1>2, <1>3, <1>4, <1>5, <1>6, <1>7, <1>8, <1>9, <1>10, <1>11, <1>12,
           <1>13, <1>14, <1>15, <1>16, <1>17, <1>18 DEF BootNext, ProcessorStep

-----------------------------------------------------------------------------
\* The memory, which mm_init lays out when all this is done.
MemInv == JInv /\ (pc # "parse" => stage >= 17)

LEMMA MemNext ==
  ASSUME stage \in 1 .. 19, MemInv, [BootNext]_bootVars
  PROVE  MemInv'
<1>1. CASE UNCHANGED vars /\ stage' \in {stage, stage + 1}
  <2>1. JInv'
    BY <1>1, NextPool DEF MemInv
  <2> QED BY <1>1, <2>1 DEF MemInv, vars
<1>2. CASE Next /\ stage = 17 /\ stage' \in {stage, stage + 1}
  BY <1>2, NextPool DEF MemInv
<1>3. CASE UNCHANGED bootVars
  BY <1>1, <1>3 DEF bootVars
<1>4. CASE BootNext
  BY <1>1, <1>2, <1>4, Moves
<1> QED BY <1>3, <1>4

-----------------------------------------------------------------------------
BootInv == stage \in 1 .. 19 /\ EntryInv /\ TableInv /\ MmuInv /\ MemInv

LEMMA BootInitInv == BootInit => BootInv
<1> SUFFICES ASSUME BootInit PROVE BootInv
  OBVIOUS
<1>1. stage = 1 /\ el \in 1 .. 3 /\ masked \in BOOLEAN /\ mmu = "off" /\ Table!Init /\ Init
      /\ ret = [e \in {2, 3} |-> NULL]
  BY DEF BootInit
<1>2. EntryInv
  BY <1>1 DEF EntryInv
<1>3. TableInv
  BY <1>1, TableInit DEF TableInv
<1>4. MmuInv
  BY <1>1 DEF MmuInv
<1>5. MemInv
  BY <1>1, InitPool DEF MemInv, Init
<1> QED BY <1>1, <1>2, <1>3, <1>4, <1>5 DEF BootInv

LEMMA BootNextInv == BootInv /\ [BootNext]_bootVars => BootInv'
<1> SUFFICES ASSUME BootInv, [BootNext]_bootVars PROVE BootInv'
  OBVIOUS
<1>1. stage' \in 1 .. 19
  BY Moves DEF BootInv, bootVars
<1> QED BY <1>1, EntryNext, TableStep, MmuNext, MemNext DEF BootInv

LEMMA BootAlways == BootSpec => []BootInv
  BY BootInitInv, BootNextInv, PTL DEF BootSpec

-----------------------------------------------------------------------------
\* Whatever level the firmware leaves the processor on, init_c and what follows run
\* on EL1, and with interrupts masked if it was a level above.
THEOREM AlwaysEL1 == BootSpec => []EntryRight
<1>1. BootInv => EntryRight
  BY CalledMeans DEF BootInv, EntryInv, EntryRight
<1> QED BY BootAlways, <1>1, PTL

\* init_boot_pt never maps an address of 48 bits wrong, and in the end it has mapped
\* those that the kernel expects and no others.
THEOREM AlwaysTranslated == BootSpec => []TranslationRight
<1>1. BootInv => TranslationRight
  <2> SUFFICES ASSUME BootInv, NEW h \in {0, 1}, NEW va \in Addresses
               PROVE  \/ Table!Translate(h, va) = Table!Expected(h, va)
                      \/ half # 2 /\ Table!Translate(h, va) = NULL
    BY DEF TranslationRight, Table!TranslationRight
  <2>1. va \in Table!VA
    BY BootAssumption DEF Table!TableAssumption
  <2> QED BY <2>1, WalkFinds DEF BootInv, TableInv
<1> QED BY BootAlways, <1>1, PTL

\* When main runs no translation is left that the table for low addresses gave.
THEOREM NeverStale == BootSpec => []NoStaleLow
<1>1. BootInv => NoStaleLow
  <2> SUFFICES ASSUME BootInv, Called("flush_tlb_all"), NEW e \in tlb, e.tag = 0
               PROVE  e.to = Unknown
    BY DEF NoStaleLow
  <2>1. stage > 14
    BY CalledMeans DEF BootInv
  <2> QED BY <2>1 DEF BootInv, MmuInv
<1> QED BY BootAlways, <1>1, PTL

\* If the usable memory ends below 1G, the code that runs, its stack and the registers of
\* the UART are found at every step of the boot, whatever the TLB remembers and whenever
\* translation sets in; only at the jump to the high half are they not found if it has
\* not set in by then.
THEOREM AlwaysFound ==
  MemEnd < PHYSMEM_END * SIZE_2M => (BootSpec => []AccessesRight)
<1> SUFFICES ASSUME MemEnd < PHYSMEM_END * SIZE_2M PROVE BootSpec => []AccessesRight
  OBVIOUS
<1>1. BootInv => AccessesRight
  <2> SUFFICES ASSUME BootInv, mmu # "lost" PROVE AccessesRight
    BY DEF AccessesRight
  <2>1. ASSUME NEW b \in 0 .. E - 1, NEW h \in {0, 1}
        PROVE  Table!Start(h) + b \in Table!VA
    <3> DEFINE top == IF h = 0 THEN 0 ELSE Top
    <3>1. Table!Start(h) = top * Square /\ top \in 0 .. E - 1
      BY Sizes, TopFacts DEF Table!Start
    <3> HIDE DEF top
    <3>2. top * Square <= (E - 1) * Square /\ (E - 1) * Square = E * Square - Square
      <4>0. E - 1 \in Int /\ top \in Int /\ top <= E - 1 /\ Square \in Nat /\ E \in Nat
        BY <3>1, Sizes
      <4>1. top * Square <= (E - 1) * Square
        BY <4>0, MulLe
      <4> HIDE DEF E, Square
      <4> QED BY <4>0, <4>1
    <3>3. top * Square \in Nat
      BY <3>1, Sizes
    <3> QED BY <3>1, <3>2, <3>3, Sizes
  <2>2. img_end \div SIZE_2M \in 0 .. E - 1
    <3>1. img_end \in Nat /\ img_end <= MemEnd /\ MemEnd \in Nat
      <4>1. img_end \in Nat /\ ROUND_UP(img_end, PAGE_SIZE) <= MemEnd
            /\ PAGE_SIZE \in Nat \ {0} /\ MemEnd \in Nat
        BY MemAssumption DEF BootInv, MemInv, JInv, IInv, RangeRight
      <4> QED BY <4>1, RoundUp
    <3>2. SIZE_2M \in Nat \ {0}
      BY BootAssumption
    <3>3a. PICK q \in Nat : q = img_end \div SIZE_2M /\ q * SIZE_2M <= img_end
      <4>1. img_end \div SIZE_2M \in Nat
        BY <3>1, <3>2, DivModNat
      <4>2. img_end \in Int /\ (img_end \div SIZE_2M) * SIZE_2M <= img_end
        BY <3>1, <3>2, DivMod
      <4> QED BY <4>1, <4>2
    <3>3. q \in Nat /\ q * SIZE_2M <= img_end
      BY <3>3a
    <3>4. q <= E - 1
      <4> SUFFICES ASSUME E <= q PROVE FALSE
        BY <3>3, Sizes
      <4>1. E * SIZE_2M <= q * SIZE_2M
        BY <3>2, <3>3, Sizes, MulLe
      <4>2. E * SIZE_2M \in Nat /\ q * SIZE_2M \in Nat
        BY <3>2, <3>3, Sizes
      <4> QED BY <3>1, <3>3, <4>1, <4>2, Sizes
    <3> QED BY <3>3a, <3>4, Sizes
  <2>3. UartBlock \in 0 .. E - 1
    BY BootAssumption, Sizes
  <2>4. stage > 12 <=> Half = 1
    BY CalledMeans DEF Half, BootInv
  <2> DEFINE code == IF Half = 0 THEN {0} ELSE {0, img_end \div SIZE_2M}
  <2>5. ASSUME NEW b \in code \cup {UartBlock}
        PROVE  Sees(Half, Table!Start(Half) + b) \subseteq
                 {Table!Expected(Half, Table!Start(Half) + b)}
                   \cup (IF Half = 0 THEN {Untranslated(Table!Start(Half) + b)} ELSE {})
    <3> DEFINE va == Table!Start(Half) + b
               h == Half
    <3>1. h \in {0, 1}
      BY DEF Half
    <3>2. b \in 0 .. E - 1
      BY <2>2, <2>3, Sizes
    <3>3. va \in Table!VA
      BY <2>1, <3>1, <3>2
    <3> HIDE DEF va, h
    <3>4. mmu # "off" => stage > 9 /\ (h = 1 \/ stage <= 13)
      BY <2>4, <3>1 DEF BootInv, MmuInv, h
    <3>5. mmu # "off" => Walk(h, va) = Table!Expected(h, va)
      BY <3>1, <3>3, <3>4, WalkIs DEF BootInv
    <3>6. ASSUME mmu # "off", NEW e \in tlb, e.tag = h, e.va = va
          PROVE  e.to = Table!Expected(h, va)
      BY <3>1, <3>4, <3>6 DEF BootInv, MmuInv
    <3>7. h = 1 => mmu = "on"
      BY <2>4 DEF BootInv, MmuInv, h
    <3>8. Sees(h, va) \subseteq {Table!Expected(h, va)}
                                \cup (IF h = 0 THEN {Untranslated(va)} ELSE {})
      BY <3>1, <3>5, <3>6, <3>7 DEF Sees, Buffer!Sees
    <3> QED BY <3>8 DEF va, h
  <2> QED BY <2>5 DEF AccessesRight
<1> QED BY BootAlways, <1>1, PTL

\* If the usable memory ends where the peripherals begin, or before, the boot page table
\* maps the array of struct page and the pool, as memory, where phys_to_virt looks.
THEOREM PoolAlwaysMapped ==
  MemEnd <= PERIPHERAL_BASE * SIZE_2M => (BootSpec => []PoolMapped)
<1> SUFFICES ASSUME MemEnd <= PERIPHERAL_BASE * SIZE_2M PROVE BootSpec => []PoolMapped
  OBVIOUS
<1>1. BootInv => PoolMapped
  <2> DEFINE S == SIZE_2M
             first == pool.page_metadata
             last == pool.pool_start_addr + pool_mem_size - 1
  <2> SUFFICES ASSUME BootInv, pc = "ready",
                      NEW block \in first \div S .. last \div S
               PROVE  Table!Translate(1, block)
                        = [pa |-> block - KERNEL_VADDR, memory |-> "normal"]
    BY DEF PoolMapped
  <2>1. /\ first \in Nat /\ pool.pool_start_addr \in Nat /\ pool.page_num \in Nat
        /\ phys_to_virt(img_end) <= first
        /\ pool.pool_start_addr + pool_mem_size <= phys_to_virt(MemEnd)
        /\ img_end \in Nat
    BY MemAssumption DEF BootInv, MemInv, JInv, IInv, RangeRight, PoolRight, LayoutFits
  <2>2. /\ S \in Nat \ {0} /\ KBASE = KERNEL_VADDR * S /\ KERNEL_VADDR \in Nat
        /\ KBASE \in Nat /\ MemEnd \in Nat /\ PAGE_SIZE \in Nat
        /\ PERIPHERAL_BASE \in Nat /\ E \in Nat /\ PERIPHERAL_BASE \in 1 .. E - 1
    BY MemAssumption, BootAssumption, TopFacts, Sizes
  <2>3. pool_mem_size \in Nat
    BY <2>1, <2>2 DEF pool_mem_size
  <2>4. KERNEL_VADDR * S <= first /\ last \in Int
        /\ last < KERNEL_VADDR * S + PERIPHERAL_BASE * S
    <3>1. PERIPHERAL_BASE * S \in Nat /\ KERNEL_VADDR * S \in Nat
      BY <2>2
    <3> QED BY <2>1, <2>2, <2>3, <3>1 DEF phys_to_virt
  <2>4a. first \in Int /\ last \in Int /\ S \in Int /\ KERNEL_VADDR \in Int
    BY <2>1, <2>2, <2>4
  <2> HIDE DEF S, first, last
  <2>5. (KERNEL_VADDR + PERIPHERAL_BASE) * S = KERNEL_VADDR * S + PERIPHERAL_BASE * S
        /\ KERNEL_VADDR * S \in Nat /\ PERIPHERAL_BASE * S \in Nat
    BY <2>2
  <2>6. KERNEL_VADDR <= first \div S
    <3> DEFINE q == first \div S
    <3>1. q \in Int /\ first < q * S + S
      BY <2>2, <2>4a, DivMod
    <3> HIDE DEF q
    <3> SUFFICES ASSUME q + 1 <= KERNEL_VADDR PROVE FALSE
      BY <2>2, <3>1 DEF q
    <3>2. (q + 1) * S <= KERNEL_VADDR * S /\ (q + 1) * S = q * S + S /\ q * S \in Int
      <4>1. (q + 1) * S <= KERNEL_VADDR * S
        BY <2>2, <3>1, MulLe
      <4> QED BY <2>2, <3>1, <4>1
    <3> QED BY <2>4, <2>4a, <2>5, <3>1, <3>2
  <2>7. last \div S < KERNEL_VADDR + PERIPHERAL_BASE
    <3> DEFINE q == last \div S
    <3>1. q \in Int /\ q * S <= last
      BY <2>2, <2>4, DivMod
    <3> HIDE DEF q
    <3> SUFFICES ASSUME KERNEL_VADDR + PERIPHERAL_BASE <= q PROVE FALSE
      BY <2>2, <3>1 DEF q
    <3>2. (KERNEL_VADDR + PERIPHERAL_BASE) * S <= q * S /\ q * S \in Int
      <4>1. (KERNEL_VADDR + PERIPHERAL_BASE) * S <= q * S
        BY <2>2, <3>1, MulLe
      <4> QED BY <2>2, <3>1, <4>1
    <3> QED BY <2>4, <2>5, <3>1, <3>2
  <2>8. block \in Int /\ KERNEL_VADDR <= block /\ block < KERNEL_VADDR + PERIPHERAL_BASE
    <3>1. first \div S \in Int /\ last \div S \in Int
      BY <2>2, <2>4a, DivMod
    <3> QED BY <2>2, <2>6, <2>7, <3>1
  <2>9. block \in Table!VA
    <3>1. Top * Square <= (E - 1) * Square /\ (E - 1) * Square = E * Square - Square
      <4>1. Top * Square <= (E - 1) * Square
        BY Sizes, TopFacts, MulLe
      <4> QED BY <4>1, Sizes
    <3>2. Top * Square \in Nat
      BY Sizes, TopFacts
    <3> QED BY <2>2, <2>8, <3>1, <3>2, Sizes, TopFacts
  <2>10. half = 2
    BY DEF BootInv, MemInv, TableInv
  <2>11. Table!Translate(1, block) = Table!Expected(1, block)
    BY <2>9, <2>10, WalkFinds DEF BootInv, TableInv
  <2>12. Table!Expected(1, block) = [pa |-> block - KERNEL_VADDR, memory |-> "normal"]
    <3>1. Table!Start(1) = KERNEL_VADDR
      BY DEF Table!Start
    <3>2. block - KERNEL_VADDR \in 0 .. 2 * PHYSMEM_END - 1
          /\ block - KERNEL_VADDR < PERIPHERAL_BASE
      BY <2>2, <2>8, Sizes
    <3>3. (1 + 1) * PHYSMEM_END = 2 * PHYSMEM_END
      OBVIOUS
    <3> QED BY <3>1, <3>2, <3>3 DEF Table!Expected
  <2> QED BY <2>11, <2>12
<1> QED BY BootAlways, <1>1, PTL

-----------------------------------------------------------------------------
\* The serial line.  What is written to a register and what is sent; writes that leave
\* the line as it is once it is set up; what is set after the first n of InitWrites.
Registers == {"GPFSEL1", "GPPUD", "GPPUDCLK0", "AUX_ENABLES"} \cup Serial!MuRegisters
Values == {0, 1, 3, 270, {}, {14, 15}} \cup (Nat \X Nat)

Harmless ==
  {w \in [reg : Registers, value : Values] :
     /\ w.reg = "AUX_ENABLES" => w.value = 1
     /\ w.reg = "LCR" => w.value = 3
     /\ w.reg = "BAUD" => w.value = 270}

HasRegisters ==
  /\ {"GPFSEL1", "AUX_ENABLES", "LCR", "BAUD"} \subseteq DOMAIN reg
  /\ DOMAIN reg.GPFSEL1 = Serial!Pins

IsSet(n) ==
  /\ n >= 1 => reg.GPFSEL1[14] = 2
  /\ n >= 5 => reg.AUX_ENABLES = 1
  /\ n >= 9 => reg.LCR = 3
  /\ n >= 11 => reg.BAUD = 270

LineInv ==
  /\ todo \in Seq(Harmless) /\ line \in Seq(Values) /\ fifo \in Seq(Values)
  /\ line \o fifo = sent
  /\ HasRegisters
  /\ stage <= 5 => todo = <<>>
  /\ stage <= 6 => fifo = <<>>
  /\ stage = 6 =>
       /\ Len(todo) <= 12 /\ IsSet(12 - Len(todo))
       /\ \A i \in 1 .. Len(todo) : todo[i] = Serial!InitWrites[12 - Len(todo) + i]
  /\ stage > 6 => IsSet(12)

\* What InitWrites are.
LEMMA Inits ==
  /\ Serial!InitWrites \in Seq(Harmless) /\ Len(Serial!InitWrites) = 12
  /\ \A i \in 1 .. 12 :
       /\ Serial!InitWrites[i].reg # "IO"
       /\ Serial!InitWrites[i].reg \in Serial!MuRegisters => i > 5
       /\ i = 1 => Serial!InitWrites[i].reg = "GPFSEL1"
       /\ i = 5 => Serial!InitWrites[i] = Serial!Write("AUX_ENABLES", 1)
       /\ i = 9 => Serial!InitWrites[i] = Serial!Write("LCR", 3)
       /\ i = 11 => Serial!InitWrites[i] = Serial!Write("BAUD", 270)
<1> DEFINE I == Serial!InitWrites
<1>1. Len(I) = 12
  BY DEF Serial!InitWrites
<1>2. ASSUME NEW i \in 1 .. 12
      PROVE  /\ I[i] \in Harmless /\ I[i].reg # "IO"
             /\ I[i].reg \in Serial!MuRegisters => i > 5
             /\ i = 1 => I[i].reg = "GPFSEL1"
             /\ i = 5 => I[i] = Serial!Write("AUX_ENABLES", 1)
             /\ i = 9 => I[i] = Serial!Write("LCR", 3)
             /\ i = 11 => I[i] = Serial!Write("BAUD", 270)
  <2>1. i \in {1, 2, 3, 4, 5, 6, 7, 8, 9, 10, 11, 12}
    OBVIOUS
  <2> QED BY <2>1 DEF Serial!InitWrites, Serial!Write, Harmless, Registers, Values,
                      Serial!MuRegisters
<1>3. I \in Seq(Harmless)
  BY <1>1, <1>2 DEF Serial!InitWrites
<1> QED BY <1>1, <1>2, <1>3

\* The calls of the drivers.
LEMMA TextSends ==
  ASSUME stage \in 1 .. 19
  PROVE  Serial!Sends(Text) \in Seq(Harmless)
<1>1. /\ Text \in Seq(Values)
  BY DEF Text, Values
<1>2. \A i \in DOMAIN Text : Serial!Write("IO", Text[i]) \in Harmless
  BY <1>1 DEF Serial!Write, Harmless, Registers, Serial!MuRegisters
<1> QED BY <1>1, <1>2 DEF Serial!Sends

LEMMA LineInitial == BootInit => LineInv
<1> SUFFICES ASSUME BootInit PROVE LineInv
  OBVIOUS
<1>1. stage = 1 /\ todo = <<>> /\ line = <<>> /\ fifo = <<>> /\ sent = <<>>
  BY DEF BootInit, Serial!UartInit
<1>2. HasRegisters
  BY DEF BootInit, Serial!UartInit, HasRegisters
<1> QED BY <1>1, <1>2 DEF LineInv

\* A driver's write.
LEMMA LineDriver ==
  ASSUME stage \in 1 .. 19, LineInv, Driver
  PROVE  LineInv'
<1>0. PICK n \in Int : n = 12 - Len(todo)
  <2>1. Len(todo) \in Nat
    BY DEF LineInv
  <2> QED BY <2>1
<1> DEFINE w == Head(todo)
<1>1. todo # <<>> /\ todo' = Tail(todo) /\ UNCHANGED stage
  BY DEF Driver, Serial!DriverStep, Serial!SendChar, Serial!WriteRegister
<1>2. /\ w \in Harmless /\ w = todo[1] /\ todo' \in Seq(Harmless)
      /\ Len(todo) \in Nat \ {0} /\ Len(todo') = Len(todo) - 1
      /\ \A i \in 1 .. Len(todo') : todo'[i] = todo[i + 1]
  BY <1>1 DEF LineInv
<1>3. stage > 5
  BY <1>1 DEF LineInv
<1>4. ASSUME stage = 6
      PROVE  /\ n \in 0 .. 11 /\ w = Serial!InitWrites[n + 1] /\ IsSet(n)
             /\ Len(todo') <= 12 /\ 12 - Len(todo') = n + 1
             /\ \A i \in 1 .. Len(todo') : todo'[i] = Serial!InitWrites[12 - Len(todo') + i]
  <2>1. /\ Len(todo) <= 12 /\ IsSet(12 - Len(todo))
        /\ \A i \in 1 .. Len(todo) : todo[i] = Serial!InitWrites[12 - Len(todo) + i]
    BY <1>4 DEF LineInv
  <2>2. n \in 0 .. 11 /\ IsSet(n) /\ Len(todo') <= 12 /\ 12 - Len(todo') = n + 1
    <3>1. n \in 0 .. 11 /\ Len(todo') <= 12 /\ 12 - Len(todo') = n + 1
      <4>1. Len(todo) \in Nat \ {0} /\ Len(todo') = Len(todo) - 1 /\ Len(todo) <= 12
        BY <1>2, <2>1
      <4> DEFINE before == Len(todo)
                 after == Len(todo')
      <4>2. before \in Nat \ {0} /\ after = before - 1 /\ before <= 12 /\ n = 12 - before
        BY <1>0, <4>1
      <4> HIDE DEF before, after
      <4>3. n \in 0 .. 11 /\ after <= 12 /\ 12 - after = n + 1
        BY <4>2
      <4> QED BY <4>3 DEF after
    <3>2. IsSet(n)
      BY <1>0, <2>1
    <3> QED BY <3>1, <3>2
  <2>3. w = Serial!InitWrites[n + 1]
    <3>1. 1 \in 1 .. Len(todo)
      BY <1>2
    <3> QED BY <1>0, <1>2, <2>1, <3>1
  <2>4. ASSUME NEW i \in 1 .. Len(todo')
        PROVE  todo'[i] = Serial!InitWrites[12 - Len(todo') + i]
    <3>1. i + 1 \in 1 .. Len(todo) /\ todo'[i] = todo[i + 1]
      BY <1>2
    <3>2. 12 - Len(todo) + (i + 1) = 12 - Len(todo') + i
      BY <1>2
    <3> QED BY <2>1, <3>1, <3>2
  <2> QED BY <2>2, <2>3, <2>4
<1> HIDE DEF w
<1>5. CASE Serial!SendChar
  <2>1. w.reg = "IO" /\ UNCHANGED <<reg, line>>
    BY <1>5 DEF Serial!SendChar, w
  <2>2. stage # 6
    BY <1>4, <2>1, Inits
  <2>3. fifo' = Append(fifo, w.value) /\ sent' = Append(sent, w.value)
    BY <1>5 DEF Serial!SendChar, Serial!Ready, w
  <2>4. w.value \in Values
    BY <1>2 DEF Harmless
  <2>5. line' \o fifo' = sent' /\ fifo' \in Seq(Values)
    BY <2>1, <2>3, <2>4 DEF LineInv
  <2>6. HasRegisters' /\ (IsSet(12))'
    BY <1>3, <2>1, <2>2 DEF LineInv, HasRegisters, IsSet, Serial!Pins
  <2> QED BY <1>1, <1>2, <1>3, <2>1, <2>2, <2>5, <2>6 DEF LineInv
<1>6. CASE Serial!WriteRegister
  <2>1. UNCHANGED <<fifo, line, sent>> /\ w.reg # "IO"
        /\ reg' = IF w.reg \in Serial!MuRegisters /\ ~ Serial!Enabled THEN reg
                  ELSE [reg EXCEPT ![w.reg] = IF w.reg = "GPFSEL1" THEN Serial!Alt5(@)
                                              ELSE w.value]
    BY <1>6 DEF Serial!WriteRegister, w
  <2>2. /\ HasRegisters'
        /\ reg'.GPFSEL1[14] = IF w.reg = "GPFSEL1" THEN 2 ELSE reg.GPFSEL1[14]
        /\ reg'.AUX_ENABLES = IF w.reg = "AUX_ENABLES" THEN 1 ELSE reg.AUX_ENABLES
        /\ reg'.LCR = IF w.reg = "LCR" /\ Serial!Enabled THEN 3 ELSE reg.LCR
        /\ reg'.BAUD = IF w.reg = "BAUD" /\ Serial!Enabled THEN 270 ELSE reg.BAUD
    <3>1. w.reg \in Registers
          /\ (w.reg = "AUX_ENABLES" => w.value = 1)
          /\ (w.reg = "LCR" => w.value = 3) /\ (w.reg = "BAUD" => w.value = 270)
      BY <1>2 DEF Harmless
    <3>2. HasRegisters
      BY DEF LineInv
    <3>3. CASE w.reg \in Serial!MuRegisters /\ ~ Serial!Enabled
      BY <2>1, <3>2, <3>3 DEF HasRegisters, Serial!MuRegisters, Serial!Pins
    <3>4. CASE ~ (w.reg \in Serial!MuRegisters /\ ~ Serial!Enabled)
      <4>1. reg' = [reg EXCEPT ![w.reg] = IF w.reg = "GPFSEL1" THEN Serial!Alt5(@)
                                          ELSE w.value]
        BY <2>1, <3>4
      <4>2. CASE w.reg = "GPFSEL1"
        BY <3>2, <4>1, <4>2 DEF HasRegisters, Serial!Alt5, Serial!Pins
      <4>3. CASE w.reg # "GPFSEL1"
        <5>1. reg' = [reg EXCEPT ![w.reg] = w.value]
          BY <4>1, <4>3
        <5>2. HasRegisters' /\ reg'.GPFSEL1 = reg.GPFSEL1
          BY <3>2, <4>3, <5>1 DEF HasRegisters, Serial!Pins
        <5>3. w.reg \in {"LCR", "BAUD"} => Serial!Enabled
          BY <3>4 DEF Serial!MuRegisters
        <5> QED BY <3>1, <3>2, <4>3, <5>1, <5>2, <5>3 DEF HasRegisters
      <4> QED BY <4>2, <4>3
    <3> QED BY <3>3, <3>4
  <2>3. CASE stage = 6
    <3>1. (IsSet(n + 1))'
      <4>0. n \in 0 .. 11 /\ n + 1 \in 1 .. 12 /\ w = Serial!InitWrites[n + 1] /\ IsSet(n)
        BY <1>4, <2>3
      <4>1. /\ n = 0 => w.reg = "GPFSEL1"
            /\ n = 4 => w.reg = "AUX_ENABLES"
            /\ n = 8 => w.reg = "LCR"
            /\ n = 10 => w.reg = "BAUD"
        BY <4>0, Inits DEF Serial!Write
      <4>2. n >= 5 => Serial!Enabled
        BY <4>0 DEF IsSet, Serial!Enabled
      <4>3. n + 1 >= 1 => reg'.GPFSEL1[14] = 2
        BY <2>2, <4>0, <4>1 DEF IsSet
      <4>4. n + 1 >= 5 => reg'.AUX_ENABLES = 1
        BY <2>2, <4>0, <4>1 DEF IsSet
      <4>5. n + 1 >= 9 => reg'.LCR = 3
        BY <2>2, <4>0, <4>1, <4>2 DEF IsSet
      <4>6. n + 1 >= 11 => reg'.BAUD = 270
        BY <2>2, <4>0, <4>1, <4>2 DEF IsSet
      <4> QED BY <4>3, <4>4, <4>5, <4>6 DEF IsSet
    <3>2. stage' = 6 /\ fifo' = <<>>
      BY <1>1, <2>1, <2>3 DEF LineInv
    <3>3. line' \in Seq(Values) /\ fifo' \in Seq(Values) /\ line' \o fifo' = sent'
      BY <2>1 DEF LineInv
    <3>4. IsSet(12 - Len(todo))'
      BY <1>4, <2>3, <3>1 DEF IsSet
    <3> QED BY <1>2, <1>4, <2>2, <2>3, <3>2, <3>3, <3>4 DEF LineInv
  <2>4. CASE stage # 6
    <3>1. (IsSet(12))'
      BY <1>3, <2>2, <2>4 DEF LineInv, IsSet
    <3> QED BY <1>1, <1>2, <1>3, <2>1, <2>2, <2>4, <3>1 DEF LineInv
  <2> QED BY <2>3, <2>4
<1> QED BY <1>5, <1>6 DEF Driver, Serial!DriverStep

\* Steps that leave the line and what is set alone.
LEMMA LineSame ==
  ASSUME stage \in 1 .. 19, LineInv, UNCHANGED uartVars,
         stage' = stage \/ (stage' = stage + 1 /\ stage # 5 /\ Serial!Idle)
  PROVE  LineInv'
<1>1. HasRegisters' /\ \A k \in Int : IsSet(k) => IsSet(k)'
  BY DEF LineInv, HasRegisters, IsSet, uartVars, Serial!Pins
<1>2. CASE stage' = stage
  BY <1>1, <1>2 DEF LineInv, uartVars
<1>3. CASE stage' = stage + 1 /\ stage # 5 /\ Serial!Idle
  <2>1. todo = <<>> /\ Len(todo) = 0
    BY <1>3 DEF Serial!Idle
  <2>2. stage >= 6 => IsSet(12)
    BY <2>1 DEF LineInv
  <2> QED BY <1>1, <1>3, <2>1, <2>2 DEF LineInv, uartVars
<1> QED BY <1>2, <1>3

LEMMA LineNext ==
  ASSUME stage \in 1 .. 19, LineInv, [BootNext]_bootVars
  PROVE  LineInv'
<1> USE CallAt
<1>1. CASE CallDriver
  <2>1. todo = <<>> /\ Len(todo) = 0 /\ stage' = stage + 1
        /\ UNCHANGED <<reg, fifo, line, sent>>
    BY <1>1 DEF CallDriver, Does, Goes, Serial!Idle, Serial!early_uart_init,
                Serial!uart_send_string, Serial!uart_init
  <2>2. HasRegisters' /\ \A k \in Int : IsSet(k) => IsSet(k)'
    BY <2>1 DEF LineInv, HasRegisters, IsSet, Serial!Pins
  <2>3. CASE Does("early_uart_init") /\ Serial!early_uart_init
    <3>1. stage = 5 /\ todo' = Serial!InitWrites
      BY <2>3 DEF Serial!early_uart_init
    <3>2. IsSet(0)'
      BY DEF IsSet
    <3> QED BY <2>1, <2>2, <3>1, <3>2, Inits DEF LineInv
  <2>4. CASE ~ (Does("early_uart_init") /\ Serial!early_uart_init)
    <3>1. stage >= 6
      <4>1. Does("uart_send_string") => stage \in {6, 7, 10, 11}
        OBVIOUS
      <4>2. Does("kinfo") => stage \in {16, 18}
        OBVIOUS
      <4>3. Does("uart_init") => stage = 15
        OBVIOUS
      <4> QED BY <1>1, <2>4, <4>1, <4>2, <4>3 DEF CallDriver
    <3>2. IsSet(12)'
      BY <2>1, <2>2, <3>1 DEF LineInv
    <3>3. todo' = Serial!Sends(Text) \/ todo' = Serial!InitWrites \o Serial!Sends(Text)
      BY <1>1, <2>4 DEF CallDriver, Serial!uart_send_string, Serial!uart_init
    <3>4. todo' \in Seq(Harmless)
      <4>1. \A s, t \in Seq(Harmless) : s \o t \in Seq(Harmless)
        OBVIOUS
      <4>2. Serial!InitWrites \in Seq(Harmless) /\ Serial!Sends(Text) \in Seq(Harmless)
        BY Inits, TextSends
      <4> HIDE DEF Harmless
      <4> QED BY <3>3, <4>1, <4>2
    <3> QED BY <2>1, <2>2, <3>1, <3>2, <3>4 DEF LineInv
  <2> QED BY <2>3, <2>4
<1>2. CASE Driver
  BY <1>2, LineDriver
<1>3. CASE Transmit
  <2>1. /\ fifo # <<>> /\ fifo' = Tail(fifo) /\ UNCHANGED <<stage, reg, todo, sent>>
        /\ line' = Append(line, IF Serial!Readable THEN Head(fifo) ELSE Garbled)
    BY <1>3 DEF Transmit, Serial!Transmit
  <2>2. stage > 6 /\ Serial!Readable
    BY <2>1 DEF LineInv, IsSet, Serial!Readable
  <2>3. /\ line' = Append(line, Head(fifo)) /\ Head(fifo) \in Values
        /\ fifo' \in Seq(Values) /\ line' \in Seq(Values) /\ line' \o fifo' = line \o fifo
    <3>1. line' = Append(line, Head(fifo)) /\ fifo' = Tail(fifo) /\ fifo # <<>>
      BY <2>1, <2>2
    <3>2. line \in Seq(Values) /\ fifo \in Seq(Values)
      BY DEF LineInv
    <3>3. \A s, t \in Seq(Values) :
            t # <<>> => /\ Append(s, Head(t)) \o Tail(t) = s \o t
                        /\ Head(t) \in Values /\ Tail(t) \in Seq(Values)
                        /\ Append(s, Head(t)) \in Seq(Values)
      OBVIOUS
    <3> QED BY <3>1, <3>2, <3>3
  <2>4. HasRegisters' /\ IsSet(12)'
    BY <2>1, <2>2 DEF LineInv, HasRegisters, IsSet, Serial!Pins
  <2> QED BY <2>1, <2>2, <2>3, <2>4 DEF LineInv
<1>4. CASE \/ in_el3 \/ in_el2 \/ eret \/ clear_bss \/ init_boot_pt \/ el1_mmu_activate
           \/ start_kernel \/ SetTtbr0 \/ FlushTlb \/ main
  <2>1. UNCHANGED uartVars /\ Serial!Idle /\ stage # 5
    BY <1>4 DEF in_el3, in_el2, eret, clear_bss, init_boot_pt, el1_mmu_activate,
                start_kernel, SetTtbr0, FlushTlb, main, Does
  <2>2. stage' = stage \/ stage' = stage + 1
    BY <1>4 DEF in_el3, in_el2, eret, clear_bss, init_boot_pt, el1_mmu_activate,
                start_kernel, SetTtbr0, FlushTlb, main, Goes
  <2> QED BY <2>1, <2>2, LineSame
<1>5. CASE Spin \/ Loop \/ Lost \/ TakesEffect \/ FillTlb \/ UNCHANGED bootVars
  <2>1. UNCHANGED uartVars /\ UNCHANGED stage
    BY <1>5 DEF Spin, Serial!Spin, Serial!uartVars, uartVars, Loop, Lost, TakesEffect,
                FillTlb, bootVars
  <2> QED BY <2>1, LineSame
<1> QED BY <1>1, <1>2, <1>3, <1>4, <1>5 DEF BootNext, ProcessorStep

\* What was sent is on the line or in the transmitter, once, in order and readable,
\* however many characters the transmitter holds and whenever it sends them.
THEOREM AlwaysInOrder == BootSpec => []InOrder
<1> DEFINE Inv == stage \in 1 .. 19 /\ LineInv
<1>1. BootInit => Inv
  BY LineInitial DEF BootInit
<1>2. Inv /\ [BootNext]_bootVars => Inv'
  BY Moves, LineNext DEF bootVars
<1>3. Inv => InOrder
  BY DEF LineInv, InOrder, Serial!InOrder
<1> QED BY <1>1, <1>2, <1>3, PTL DEF BootSpec

=============================================================================
