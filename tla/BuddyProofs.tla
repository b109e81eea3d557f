---------------------------- MODULE BuddyProofs -----------------------------
(***************************************************************************)
(* Proofs about Buddy.                                                     *)
(***************************************************************************)
EXTENDS Buddy, ChunksProofs, SequenceTheorems

-----------------------------------------------------------------------------
\* What list_add and list_del do to a list without repetitions.

LEMMA ListAdd ==
  ASSUME NEW S, NEW l \in Seq(S), NEW p \in S, IsInjective(l), p \notin Range(l)
  PROVE  /\ list_add(l, p) \in Seq(S)
         /\ Len(list_add(l, p)) = Len(l) + 1
         /\ Range(list_add(l, p)) = Range(l) \cup {p}
         /\ IsInjective(list_add(l, p))
<1> DEFINE m == <<p>> \o l
<1>1. m \in Seq(S) /\ Len(m) = Len(l) + 1
  OBVIOUS
<1>2. \A i \in 1 .. Len(m) : m[i] = IF i = 1 THEN p ELSE l[i - 1]
  OBVIOUS
<1>3. list_add(l, p) = m
  BY DEF list_add, Cons
<1>4. DOMAIN m = 1 .. Len(l) + 1 /\ DOMAIN l = 1 .. Len(l) /\ Len(l) \in Nat
  BY <1>1
<1> HIDE DEF m
<1>5. Range(m) = Range(l) \cup {p}
  <2>1. Range(m) \subseteq Range(l) \cup {p}
    BY <1>1, <1>2, <1>4 DEF Range
  <2>2. p \in Range(m)
    BY <1>1, <1>2, <1>4 DEF Range
  <2>3. ASSUME NEW i \in 1 .. Len(l) PROVE l[i] \in Range(m)
    <3>1. i + 1 \in DOMAIN m /\ m[i + 1] = l[i]
      BY <1>1, <1>2, <1>4
    <3> QED BY <3>1 DEF Range
  <2> QED BY <2>1, <2>2, <2>3, <1>4 DEF Range
<1>6. IsInjective(m)
  <2>1. \A i \in 1 .. Len(l) : l[i] # p
    BY <1>4 DEF Range
  <2>2. \A i, j \in 1 .. Len(l) : l[i] = l[j] => i = j
    BY <1>4 DEF IsInjective
  <2>3. SUFFICES ASSUME NEW i \in 1 .. Len(l) + 1, NEW j \in 1 .. Len(l) + 1,
                        m[i] = m[j]
                 PROVE  i = j
    BY <1>4 DEF IsInjective
  <2>4. CASE i = 1 \/ j = 1
    BY <2>1, <2>3, <2>4, <1>1, <1>2, <1>4
  <2>5. CASE i # 1 /\ j # 1
    <3>1. i - 1 \in 1 .. Len(l) /\ j - 1 \in 1 .. Len(l)
      BY <2>5, <1>4
    <3>2. l[i - 1] = l[j - 1]
      BY <2>3, <2>5, <1>1, <1>2, <1>4
    <3> QED BY <3>1, <3>2, <2>2
  <2> QED BY <2>4, <2>5
<1> QED BY <1>1, <1>3, <1>5, <1>6

LEMMA ListDel ==
  ASSUME NEW S, NEW l \in Seq(S), NEW p \in Range(l), IsInjective(l)
  PROVE  /\ list_del(l, p) \in Seq(S)
         /\ Len(list_del(l, p)) = Len(l) - 1
         /\ Range(list_del(l, p)) = Range(l) \ {p}
         /\ IsInjective(list_del(l, p))
<1> DEFINE k == CHOOSE i \in 1 .. Len(l) : l[i] = p
           m == SubSeq(l, 1, k - 1) \o SubSeq(l, k + 1, Len(l))
<1>1. DOMAIN l = 1 .. Len(l) /\ Len(l) \in Nat
  OBVIOUS
<1>2. k \in 1 .. Len(l) /\ l[k] = p
  BY <1>1 DEF Range
<1>3. list_del(l, p) = m
  BY DEF list_del, RemoveAt
<1> HIDE DEF k
<1> DEFINE u == SubSeq(l, 1, k - 1)
           v == SubSeq(l, k + 1, Len(l))
<1>4. /\ u \in Seq(S) /\ Len(u) = k - 1
      /\ \A i \in 1 .. k - 1 : u[i] = l[i]
  <2>1. /\ 1 \in Int /\ k - 1 \in Int
        /\ \A i \in 1 .. k - 1 : l[i] \in S
    BY <1>1, <1>2
  <2>2. /\ u \in Seq(S)
        /\ Len(u) = IF 1 <= k - 1 THEN k - 1 - 1 + 1 ELSE 0
        /\ \A i \in 1 .. k - 1 - 1 + 1 : u[i] = l[1 + i - 1]
    BY <2>1, SubSeqProperties
  <2> HIDE DEF u
  <2> QED BY <2>2, <1>2
<1>5. /\ v \in Seq(S) /\ Len(v) = Len(l) - k
      /\ \A i \in 1 .. Len(l) - k : v[i] = l[k + i]
  <2>1. /\ k + 1 \in Int /\ Len(l) \in Int
        /\ \A i \in k + 1 .. Len(l) : l[i] \in S
    BY <1>1, <1>2
  <2>2. /\ v \in Seq(S)
        /\ Len(v) = IF k + 1 <= Len(l) THEN Len(l) - (k + 1) + 1 ELSE 0
        /\ \A i \in 1 .. Len(l) - (k + 1) + 1 : v[i] = l[k + 1 + i - 1]
    BY <2>1, SubSeqProperties
  <2> HIDE DEF v
  <2>3. Len(v) = Len(l) - k
    <3>1. k \in Int /\ Len(l) \in Int /\ k <= Len(l)
      BY <1>1, <1>2
    <3>2. Len(v) = IF k + 1 <= Len(l) THEN Len(l) - (k + 1) + 1 ELSE 0
      BY <2>2
    <3> QED BY <3>1, <3>2
  <2>4. ASSUME NEW i \in 1 .. Len(l) - k PROVE v[i] = l[k + i]
    <3>1. i \in 1 .. Len(l) - (k + 1) + 1 /\ k + 1 + i - 1 = k + i
      BY <1>1, <1>2
    <3> QED BY <3>1, <2>2
  <2> QED BY <2>2, <2>3, <2>4
<1>6. m = u \o v
  OBVIOUS
<1> HIDE DEF u, v, m
<1>7. /\ m \in Seq(S) /\ Len(m) = Len(u) + Len(v)
      /\ \A i \in 1 .. Len(u) + Len(v) :
            m[i] = IF i <= Len(u) THEN u[i] ELSE v[i - Len(u)]
  BY <1>4, <1>5, <1>6, ConcatProperties
<1>8. m \in Seq(S) /\ Len(m) = Len(l) - 1
  BY <1>1, <1>2, <1>4, <1>5, <1>7
<1>9. \A i \in 1 .. Len(l) - 1 : m[i] = IF i < k THEN l[i] ELSE l[i + 1]
  <2>1. ASSUME NEW i \in 1 .. Len(l) - 1, i < k PROVE m[i] = l[i]
    <3>1. i \in 1 .. k - 1
      BY <2>1, <1>2
    <3> QED BY <3>1, <1>1, <1>2, <1>4, <1>5, <1>7
  <2>2. ASSUME NEW i \in 1 .. Len(l) - 1, ~ (i < k) PROVE m[i] = l[i + 1]
    <3>1. /\ i - (k - 1) \in 1 .. Len(l) - k
          /\ k + (i - (k - 1)) = i + 1
      BY <2>2, <1>1, <1>2
    <3>2. i \in 1 .. Len(u) + Len(v) /\ ~ (i <= Len(u)) /\ Len(u) = k - 1
      BY <2>2, <1>1, <1>2, <1>4, <1>5
    <3>3. m[i] = v[i - (k - 1)]
      BY <3>2, <1>7
    <3> QED BY <3>1, <3>3, <1>5
  <2> QED BY <2>1, <2>2
<1>10. DOMAIN m = 1 .. Len(l) - 1
  BY <1>8
<1>11. Range(m) = Range(l) \ {p}
  <2>1. ASSUME NEW i \in DOMAIN m PROVE m[i] \in Range(l) \ {p}
    BY <1>1, <1>2, <1>9, <1>10 DEF Range, IsInjective
  <2>2. ASSUME NEW i \in DOMAIN l, l[i] # p PROVE l[i] \in Range(m)
    <3>1. CASE i < k
      BY <3>1, <1>1, <1>2, <1>9, <1>10 DEF Range
    <3>2. CASE i > k
      <4>1. i - 1 \in DOMAIN m /\ m[i - 1] = l[i]
        BY <3>2, <1>1, <1>2, <1>9, <1>10
      <4> QED BY <4>1 DEF Range
    <3>3. i # k
      BY <2>2, <1>2
    <3> QED BY <3>1, <3>2, <3>3, <1>1, <1>2
  <2> QED BY <2>1, <2>2 DEF Range
<1>12. IsInjective(m)
  <2> SUFFICES ASSUME NEW a \in 1 .. Len(l) - 1, NEW b \in 1 .. Len(l) - 1, m[a] = m[b]
               PROVE  a = b
    BY <1>10 DEF IsInjective
  <2>1. PICK x \in 1 .. Len(l) : x = IF a < k THEN a ELSE a + 1
    BY <1>1, <1>2
  <2>2. PICK y \in 1 .. Len(l) : y = IF b < k THEN b ELSE b + 1
    BY <1>1, <1>2
  <2>3. l[x] = l[y]
    BY <1>9, <2>1, <2>2
  <2>4. x = y
    BY <1>1, <2>3 DEF IsInjective
  <2> QED BY <1>1, <1>2, <2>1, <2>2, <2>4
<1> QED BY <1>3, <1>8, <1>11, <1>12

\* An empty list, and the first element of one that is not.
LEMMA ListHead ==
  ASSUME NEW S, NEW l \in Seq(S)
  PROVE  /\ Len(l) \in Nat
         /\ Len(l) = 0 => Range(l) = {}
         /\ Len(l) > 0 => l # <<>> /\ Head(l) \in Range(l)
         /\ Range(l) \subseteq S
<1>1. DOMAIN l = 1 .. Len(l) /\ Len(l) \in Nat
  OBVIOUS
<1>2. Len(l) > 0 => Head(l) = l[1] /\ 1 \in DOMAIN l
  OBVIOUS
<1> QED BY <1>1, <1>2 DEF Range

-----------------------------------------------------------------------------
LEMMA Numbers ==
  /\ Pages \subseteq Int /\ Orders \subseteq Nat /\ NULL \notin Pages
  /\ NULL \notin Orders /\ NULL \notin Int /\ 0 \in Orders
  /\ BUDDY_MAX_ORDER \in Nat
  /\ \A o \in Orders : o < BUDDY_MAX_ORDER /\ o >= 0
  BY PoolAssumption DEF Pages, EndPage, Orders

\* A listed page is on the list of its order and on no other.
LEMMA ListedAt ==
  ASSUME TypeOK, ListsRight, NEW p, NEW o \in Orders, OnList(p, o)
  PROVE  /\ p \in Pages /\ order[p] = o /\ allocated[p] = 0 /\ p # cur
         /\ \A j \in Orders : OnList(p, j) => j = o
         /\ p \in Heads
<1>1. free_list[o] \in Seq(Pages)
  BY DEF TypeOK
<1>2. p \in Pages
  BY <1>1, ListHead DEF OnList
<1> QED BY <1>2 DEF ListsRight, OnList, Heads, Listed

LEMMA GetChunkInv ==
  ASSUME Inv, pc = "idle", page_idx = NPages, NEW o \in Orders, GetChunk(o)
  PROVE  Inv'
<1>1. PICK k \in Candidates(o) :
        /\ \A j \in Candidates(o) : k <= j
        /\ IF \/ free_list[k] = <<>>
              \/ allocated[Head(free_list[k])] = 1
              \/ order[Head(free_list[k])] # k
           THEN Panic
           ELSE /\ pc' = "split"
                /\ cur' = Head(free_list[k])
                /\ want' = o
                /\ free_list' =
                     [free_list EXCEPT ![k] = list_del(@, Head(free_list[k]))]
                /\ nr_free' = [nr_free EXCEPT ![k] = @ - 1]
                /\ UNCHANGED <<pageVars, page_idx, userVars>>
  BY DEF GetChunk
<1> DEFINE p == Head(free_list[k])
<1>2. k \in Orders /\ o <= k /\ nr_free[k] > 0
  BY Numbers DEF Candidates, Orders
<1>3. free_list[k] \in Seq(Pages) /\ Len(free_list[k]) = nr_free[k] /\ IsInjective(free_list[k])
  BY <1>2 DEF Inv, TypeOK, ListsRight
<1>4. free_list[k] # <<>> /\ p \in Range(free_list[k])
  BY <1>2, <1>3, ListHead
<1>5. p \in Pages /\ allocated[p] = 0 /\ order[p] = k
      /\ \A j \in Orders : OnList(p, j) => j = k
  BY <1>2, <1>4, ListedAt DEF OnList, Inv
<1> HIDE DEF p
<1>6. /\ pc' = "split" /\ cur' = p /\ want' = o
      /\ free_list' = [free_list EXCEPT ![k] = list_del(@, p)]
      /\ nr_free' = [nr_free EXCEPT ![k] = @ - 1]
      /\ UNCHANGED <<allocated, order, page_idx, owned, ret, refused>>
  BY <1>1, <1>4, <1>5 DEF p, pageVars, userVars
<1>7. /\ free_list'[k] \in Seq(Pages)
      /\ Len(free_list'[k]) = Len(free_list[k]) - 1
      /\ Range(free_list'[k]) = Range(free_list[k]) \ {p}
      /\ IsInjective(free_list'[k])
  <2>1. free_list'[k] = list_del(free_list[k], p)
    BY <1>2, <1>6 DEF Inv, TypeOK
  <2> QED BY <2>1, <1>3, <1>4, ListDel
<1>8. \A j \in Orders : j # k => free_list'[j] = free_list[j] /\ nr_free'[j] = nr_free[j]
  BY <1>6 DEF Inv, TypeOK
<1>9. \A x, j : j \in Orders => (OnList(x, j)' <=> OnList(x, j) /\ x # p)
  BY <1>5, <1>6, <1>7, <1>8 DEF OnList
<1>10. nr_free'[k] = nr_free[k] - 1 /\ nr_free'[k] \in Nat
  BY <1>2, <1>6 DEF Inv, TypeOK
<1>11. TypeOK'
  <2>1. free_list' \in [Orders -> Seq(Pages)]
    BY <1>6, <1>7, <1>8, <1>2 DEF Inv, TypeOK
  <2>2. nr_free' \in [Orders -> Nat]
    BY <1>6, <1>8, <1>10 DEF Inv, TypeOK
  <2> QED BY <2>1, <2>2, <1>5, <1>6 DEF Inv, TypeOK
<1>12. (NoPanic /\ MarksOwned /\ CallRight)'
  BY <1>2, <1>5, <1>6 DEF Inv, NoPanic, MarksOwned, CallRight
<1>13. ListsRight'
  <2>1. ASSUME NEW j \in Orders
        PROVE  /\ nr_free'[j] = Len(free_list'[j]) /\ IsInjective(free_list'[j])
    BY <1>3, <1>7, <1>8, <1>10 DEF Inv, ListsRight
  <2>2. ASSUME NEW j \in Orders, NEW x \in Range(free_list'[j])
        PROVE  allocated'[x] = 0 /\ order'[x] = j /\ x # cur'
    BY <1>6, <1>9 DEF Inv, ListsRight, OnList
  <2> QED BY <2>1, <2>2 DEF ListsRight
<1>14. Heads' = Heads
  <2>1. cur = NULL /\ NULL \notin Pages
    BY Numbers DEF Inv, CallRight
  <2>2. \A x \in Pages : x # p => (Listed(x)' <=> Listed(x))
    BY <1>9 DEF Listed
  <2>3. Listed(p)
    BY <1>2, <1>4 DEF Listed, OnList
  <2>4. \A x : x \in Heads' <=> x \in Heads
    BY <2>1, <2>2, <2>3, <1>5, <1>6 DEF Heads
  <2> QED BY <2>4
<1>15. Tiling'
  BY <1>6, <1>14 DEF Inv, Tiling
<1>16. Coalesced'
  BY <1>9 DEF Inv, Coalesced, OnList
<1> QED BY <1>11, <1>12, <1>13, <1>15, <1>16 DEF Inv

LEMMA SplitReturnInv ==
  ASSUME Inv, pc = "split", allocated[cur] = 0, SplitReturn
  PROVE  Inv'
<1>1. /\ cur \in Pages /\ page_idx = NPages /\ order[cur] = want
      /\ want \in Orders
  BY DEF Inv, CallRight, SplitReturn, TypeOK
<1>2. /\ allocated' = [allocated EXCEPT ![cur] = 1]
      /\ owned' = [owned EXCEPT ![cur] = want]
      /\ ret' = cur /\ refused' = NULL /\ pc' = "idle" /\ cur' = NULL /\ want' = 0
      /\ UNCHANGED <<order, free_list, nr_free, page_idx>>
  BY DEF SplitReturn, poolVars
<1>3. TypeOK'
  BY <1>1, <1>2, Numbers DEF Inv, TypeOK
<1>4. (NoPanic /\ MarksOwned)'
  BY <1>1, <1>2 DEF Inv, TypeOK, NoPanic, MarksOwned
<1>5. CallRight'
  <2>1. \A p \in Pages : p < StartPage + page_idx
    BY <1>1, PoolAssumption DEF Pages, EndPage
  <2> QED BY <2>1, <1>2, Numbers, PoolAssumption DEF Inv, TypeOK, CallRight, Pages, EndPage
<1>6. ListsRight'
  <2>1. ASSUME NEW o \in Orders, NEW x \in Range(free_list[o])
        PROVE  allocated'[x] = 0 /\ order'[x] = o /\ x # cur'
    <3>1. x \in Pages /\ x # cur /\ allocated[x] = 0 /\ order[x] = o
      BY ListedAt DEF OnList, Inv
    <3> QED BY <3>1, <1>2, Numbers DEF Inv, TypeOK
  <2> QED BY <2>1, <1>2 DEF Inv, ListsRight
<1>7. Heads' = Heads
  <2>1. \A x \in Pages : Listed(x)' <=> Listed(x)
    BY <1>2 DEF Listed, OnList
  <2>2. \A x : x \in Heads' <=> x \in Heads
    BY <2>1, <1>1, <1>2, Numbers DEF Heads, Inv, TypeOK
  <2> QED BY <2>2
<1>8. Tiling'
  BY <1>2, <1>7 DEF Inv, Tiling
<1>9. Coalesced'
  BY <1>2 DEF Inv, Coalesced, OnList
<1> QED BY <1>3, <1>4, <1>5, <1>6, <1>8, <1>9 DEF Inv

LEMMA SplitHalfInv ==
  ASSUME Inv, pc = "split", allocated[cur] = 0, SplitHalf
  PROVE  Inv'
<1> DEFINE k == order[cur] - 1
           buddy == get_buddy_chunk(cur, k)
<1>1. /\ cur \in Pages /\ cur \in Heads /\ page_idx = NPages
      /\ order[cur] > want /\ want \in Orders /\ order[cur] \in Orders
  BY DEF Inv, CallRight, SplitHalf, TypeOK, Heads
<1>2. k \in Orders /\ k \in Int /\ want <= k /\ order[cur] > 0 /\ order[cur] = k + 1
      /\ k < BUDDY_MAX_ORDER - 1
  BY <1>1, Numbers DEF Orders
<1>3. Heads \in SUBSET Pages /\ order \in [Pages -> Orders] /\ Tiles(Heads, order)
  BY DEF Heads, Inv, TypeOK, Tiling
<1>4. IF buddy = NULL
      THEN Panic
      ELSE /\ order' = [order EXCEPT ![cur] = k, ![buddy] = k]
           /\ allocated' = [allocated EXCEPT ![buddy] = 0]
           /\ free_list' = [free_list EXCEPT ![k] = list_add(@, buddy)]
           /\ nr_free' = [nr_free EXCEPT ![k] = @ + 1]
           /\ UNCHANGED <<callVars, userVars>>
  BY DEF SplitHalf
<1> HIDE DEF k
<1>5. /\ buddy # NULL /\ buddy \in Pages /\ buddy \notin Heads /\ buddy # cur
      /\ buddy = FlipBit(cur, k) /\ FlipBit(buddy, k) = cur
  <2> HIDE DEF buddy
  <2>1. cur \in Heads /\ k \in Orders /\ order[cur] = k + 1
    BY <1>1, <1>2
  <2>2. /\ get_buddy_chunk(cur, k) = FlipBit(cur, k)
        /\ FlipBit(cur, k) \in Pages \ Heads
        /\ FlipBit(cur, k) # cur
        /\ FlipBit(FlipBit(cur, k), k) = cur
    BY <2>1, <1>3, TileCut
  <2>3. buddy = FlipBit(cur, k)
    BY <2>2 DEF buddy
  <2> QED BY <2>2, <2>3, Numbers
<1> HIDE DEF buddy
<1>6. /\ order' = [order EXCEPT ![cur] = k, ![buddy] = k]
      /\ allocated' = [allocated EXCEPT ![buddy] = 0]
      /\ free_list' = [free_list EXCEPT ![k] = list_add(@, buddy)]
      /\ nr_free' = [nr_free EXCEPT ![k] = @ + 1]
      /\ UNCHANGED <<page_idx, pc, cur, want, owned, ret, refused>>
  BY <1>4, <1>5 DEF callVars, userVars
<1>7. allocated[buddy] = 0 /\ ~ Listed(buddy) /\ allocated' = allocated
  BY <1>5, <1>6 DEF Heads, Inv, TypeOK
<1>8. /\ free_list'[k] \in Seq(Pages)
      /\ Len(free_list'[k]) = Len(free_list[k]) + 1
      /\ Range(free_list'[k]) = Range(free_list[k]) \cup {buddy}
      /\ IsInjective(free_list'[k])
  <2>1. free_list'[k] = list_add(free_list[k], buddy) /\ free_list[k] \in Seq(Pages)
    BY <1>2, <1>6 DEF Inv, TypeOK
  <2>2. IsInjective(free_list[k]) /\ buddy \notin Range(free_list[k])
    BY <1>2, <1>7 DEF Inv, ListsRight, Listed, OnList
  <2> QED BY <2>1, <2>2, <1>5, ListAdd
<1>9. \A j \in Orders : j # k => free_list'[j] = free_list[j] /\ nr_free'[j] = nr_free[j]
  BY <1>6 DEF Inv, TypeOK
<1>10. nr_free'[k] = nr_free[k] + 1 /\ nr_free[k] \in Nat
  BY <1>2, <1>6 DEF Inv, TypeOK
<1>11. \A x, j : j \in Orders =>
         (OnList(x, j)' <=> (OnList(x, j) \/ (x = buddy /\ j = k)))
  BY <1>2, <1>6, <1>8, <1>9 DEF OnList
<1>12. /\ order'[cur] = k /\ order'[buddy] = k
       /\ \A x \in Pages : x # cur /\ x # buddy => order'[x] = order[x]
  BY <1>1, <1>3, <1>5, <1>6
<1>13. TypeOK'
  <2>1. free_list' \in [Orders -> Seq(Pages)]
    BY <1>6, <1>8, <1>9, <1>2 DEF Inv, TypeOK
  <2>2. nr_free' \in [Orders -> Nat]
    BY <1>6, <1>9, <1>10 DEF Inv, TypeOK
  <2>3. order' \in [Pages -> Orders]
    BY <1>2, <1>3, <1>6
  <2> QED BY <2>1, <2>2, <2>3, <1>6, <1>7 DEF Inv, TypeOK
<1>14. (NoPanic /\ MarksOwned /\ CallRight)'
  <2>1. NoPanic' /\ CallRight'
    BY <1>2, <1>6, <1>7, <1>12 DEF Inv, NoPanic, CallRight
  <2>2. ASSUME NEW x \in Pages
        PROVE  IF allocated'[x] = 1 THEN owned'[x] = order'[x] ELSE owned'[x] = NULL
    <3>1. CASE x \in {cur, buddy}
      BY <3>1, <1>5, <1>6, <1>7 DEF Inv, MarksOwned
    <3>2. CASE x \notin {cur, buddy}
      BY <3>2, <1>6, <1>7, <1>12 DEF Inv, MarksOwned
    <3> QED BY <3>1, <3>2
  <2> QED BY <2>1, <2>2 DEF MarksOwned
<1>15. ListsRight'
  <2>1. ASSUME NEW j \in Orders
        PROVE  nr_free'[j] = Len(free_list'[j]) /\ IsInjective(free_list'[j])
    BY <1>8, <1>9, <1>10 DEF Inv, ListsRight
  <2>2. ASSUME NEW j \in Orders, NEW x \in Range(free_list'[j])
        PROVE  allocated'[x] = 0 /\ order'[x] = j /\ x # cur'
    <3>1. CASE x = buddy /\ j = k
      BY <3>1, <1>5, <1>6, <1>7, <1>12
    <3>2. CASE OnList(x, j)
      <4>1. x \in Pages /\ x # cur /\ x # buddy /\ allocated[x] = 0 /\ order[x] = j
        BY <3>2, <1>7, ListedAt DEF Inv, Listed
      <4> QED BY <4>1, <1>6, <1>7, <1>12
    <3> QED BY <3>1, <3>2, <1>11 DEF OnList
  <2> QED BY <2>1, <2>2 DEF ListsRight
<1>16. Heads' = Heads \cup {buddy}
  <2>1. \A x \in Pages : Listed(x)' <=> (Listed(x) \/ x = buddy)
    BY <1>2, <1>11 DEF Listed
  <2>2. \A x : x \in Heads' <=> (x \in Heads \/ x = buddy)
    BY <2>1, <1>5, <1>6, <1>7 DEF Heads
  <2> QED BY <2>2
<1>17. Tiling'
  <2>1. /\ order'[cur] = k /\ order'[buddy] = k
        /\ \A q \in Heads \ {cur} : order'[q] = order[q]
    BY <1>3, <1>5, <1>12
  <2>2. Tiles(Heads \cup {buddy}, order')
    BY <2>1, <1>1, <1>2, <1>3, <1>5, TileSplit
  <2> QED BY <2>2, <1>16 DEF Tiling
<1>18. Coalesced'
  <2>1. SUFFICES ASSUME NEW o \in Orders, NEW x, OnList(x, o)',
                        o < BUDDY_MAX_ORDER - 1, OnList(get_buddy_chunk(x, o), o)'
                 PROVE  FALSE
    BY DEF Coalesced, OnList
  <2>2. \A y, j : y = cur /\ j = k => ~ OnList(y, j)' /\ ~ OnList(y, j)
    <3>1. ~ OnList(cur, k)
      BY <1>2, ListedAt DEF Inv
    <3> QED BY <3>1, <1>2, <1>5, <1>11
  <2>3. CASE x = buddy /\ o = k
    <3>1. get_buddy_chunk(x, o) \in {cur, NULL}
      BY <2>3, <1>5 DEF get_buddy_chunk
    <3>2. ~ OnList(NULL, k)
      BY <1>2, Numbers, ListedAt DEF Inv
    <3> QED BY <3>1, <3>2, <2>1, <2>2, <2>3, <1>5, <1>11
  <2>4. CASE OnList(x, o) /\ get_buddy_chunk(x, o) = buddy /\ o = k
    <3>1. x \in Pages /\ x % 2^k = 0
      BY <2>4, <1>2, ListedAt DEF Inv, Tiling, Tiles, Fits
    <3>2. FlipBit(x, k) = buddy
      BY <2>4, <1>5 DEF get_buddy_chunk
    <3>3. FlipBit(buddy, k) = x
      BY <3>1, <3>2, <1>2, Numbers, BuddyHalves
    <3> QED BY <3>3, <2>2, <2>4, <1>5
  <2>5. CASE OnList(x, o) /\ OnList(get_buddy_chunk(x, o), o)
    BY <2>1, <2>5 DEF Inv, Coalesced, OnList
  <2> QED BY <2>1, <2>3, <2>4, <2>5, <1>11
<1> QED BY <1>13, <1>14, <1>15, <1>17, <1>18 DEF Inv

LEMMA StartFreeInv ==
  ASSUME Inv, pc = "idle", NEW p \in Pages, allocated[p] = 1, StartFree(p),
         \/ page_idx = NPages /\ page_idx' = page_idx
         \/ page_idx < NPages /\ p = StartPage + page_idx /\ page_idx' = page_idx + 1
  PROVE  Inv'
<1>1. /\ allocated' = [allocated EXCEPT ![p] = 0]
      /\ owned' = [owned EXCEPT ![p] = NULL]
      /\ pc' = "merge" /\ cur' = p /\ refused' = NULL
      /\ UNCHANGED <<order, free_list, nr_free, want, ret>>
  BY DEF StartFree, poolVars
<1>2. cur = NULL /\ NULL \notin Pages /\ page_idx \in Int /\ StartPage \in Int
  BY Numbers, PoolAssumption DEF Inv, CallRight, TypeOK
<1>3. TypeOK'
  BY <1>1, PoolAssumption DEF Inv, TypeOK
<1>4. (NoPanic /\ MarksOwned)'
  BY <1>1 DEF Inv, TypeOK, NoPanic, MarksOwned
<1>5. CallRight'
  <2>1. ASSUME NEW x \in Pages, x >= StartPage + page_idx' PROVE allocated'[x] = 1
    <3>1. x \in Int /\ x < StartPage + NPages
      BY PoolAssumption DEF Pages, EndPage
    <3>2. x # p /\ x >= StartPage + page_idx
      BY <2>1, <3>1, <1>2, PoolAssumption
    <3> QED BY <3>2, <1>1 DEF Inv, TypeOK, CallRight
  <2>2. allocated'[p] = 0
    BY <1>1 DEF Inv, TypeOK
  <2> QED BY <2>1, <2>2, <1>1 DEF CallRight
<1>6. ListsRight'
  <2>1. ASSUME NEW o \in Orders, NEW x \in Range(free_list[o])
        PROVE  allocated'[x] = 0 /\ order'[x] = o /\ x # cur'
    <3>1. x \in Pages /\ allocated[x] = 0 /\ order[x] = o
      BY ListedAt DEF OnList, Inv
    <3> QED BY <3>1, <1>1 DEF Inv, TypeOK
  <2> QED BY <2>1, <1>1 DEF Inv, ListsRight
<1>7. Heads' = Heads
  <2>1. \A x \in Pages : Listed(x)' <=> Listed(x)
    BY <1>1 DEF Listed, OnList
  <2>2. \A x : x \in Heads' <=> x \in Heads
    BY <2>1, <1>1, <1>2 DEF Heads, Inv, TypeOK
  <2> QED BY <2>2
<1>8. Tiling'
  BY <1>1, <1>7 DEF Inv, Tiling
<1>9. Coalesced'
  BY <1>1 DEF Inv, Coalesced, OnList
<1> QED BY <1>3, <1>4, <1>5, <1>6, <1>8, <1>9 DEF Inv

\* What merge_page finds when it looks at the buddy of its chunk.
LEMMA MergeBuddy ==
  ASSUME Inv, pc = "merge", NEW k, k = order[cur], k < BUDDY_MAX_ORDER - 1,
         NEW b, b = get_buddy_chunk(cur, k), b # NULL
  PROVE  /\ cur \in Heads /\ k \in Orders
         /\ b = FlipBit(cur, k) /\ b \in Heads /\ b # cur /\ order[b] <= k
         /\ FlipBit(b, k) = cur
         /\ allocated[b] = 0 => OnList(b, order[b])
<1>1. /\ Heads \in SUBSET Pages /\ order \in [Pages -> Orders]
      /\ Tiles(Heads, order) /\ cur \in Heads /\ cur \in Int
      /\ cur % 2^k = 0 /\ k \in Orders
  BY Numbers DEF Heads, Inv, CallRight, TypeOK, Tiling, Tiles, Fits
<1>2. b = FlipBit(cur, k) /\ b \in Heads /\ b # cur /\ order[b] <= k
  BY <1>1, TileBuddy
<1>3. FlipBit(b, k) = cur
  BY <1>1, <1>2, BuddyHalves
<1>4. allocated[b] = 0 => OnList(b, order[b])
  BY <1>1, <1>2, ListedAt DEF Heads, Listed, Inv
<1> QED BY <1>1, <1>2, <1>3, <1>4

LEMMA MergeReturnInv ==
  ASSUME Inv, pc = "merge", allocated[cur] = 0, MergeReturn
  PROVE  Inv'
<1> DEFINE k == order[cur]
<1>1. cur \in Pages /\ k \in Orders /\ cur \in Heads
  BY DEF Inv, CallRight, TypeOK, Heads
<1>2. /\ ~ CanMerge
      /\ free_list' = [free_list EXCEPT ![k] = list_add(@, cur)]
      /\ nr_free' = [nr_free EXCEPT ![k] = @ + 1]
      /\ pc' = "idle" /\ cur' = NULL
      /\ UNCHANGED <<allocated, order, page_idx, want, owned, ret, refused>>
  BY DEF MergeReturn, pageVars, userVars
<1>3. /\ ~ Listed(cur)
      /\ free_list[k] \in Seq(Pages) /\ IsInjective(free_list[k])
  BY <1>1, ListedAt DEF Inv, Listed, TypeOK, ListsRight
<1> HIDE DEF k
<1>4. /\ free_list'[k] \in Seq(Pages)
      /\ Len(free_list'[k]) = Len(free_list[k]) + 1
      /\ Range(free_list'[k]) = Range(free_list[k]) \cup {cur}
      /\ IsInjective(free_list'[k])
  <2>1. free_list'[k] = list_add(free_list[k], cur)
    BY <1>1, <1>2 DEF Inv, TypeOK
  <2>2. cur \notin Range(free_list[k])
    BY <1>1, <1>3 DEF Listed, OnList
  <2> QED BY <2>1, <2>2, <1>1, <1>3, ListAdd
<1>5. \A j \in Orders : j # k => free_list'[j] = free_list[j] /\ nr_free'[j] = nr_free[j]
  BY <1>2 DEF Inv, TypeOK
<1>6. nr_free'[k] = nr_free[k] + 1 /\ nr_free[k] \in Nat
  BY <1>1, <1>2 DEF Inv, TypeOK
<1>7. \A x, j : j \in Orders =>
        (OnList(x, j)' <=> (OnList(x, j) \/ (x = cur /\ j = k)))
  BY <1>1, <1>4, <1>5 DEF OnList
<1>8. TypeOK'
  <2>1. free_list' \in [Orders -> Seq(Pages)]
    BY <1>1, <1>2, <1>4, <1>5 DEF Inv, TypeOK
  <2>2. nr_free' \in [Orders -> Nat]
    BY <1>1, <1>2, <1>5, <1>6 DEF Inv, TypeOK
  <2> QED BY <2>1, <2>2, <1>2 DEF Inv, TypeOK
<1>9. (NoPanic /\ MarksOwned /\ CallRight)'
  BY <1>2 DEF Inv, NoPanic, MarksOwned, CallRight
<1>10. ListsRight'
  <2>1. ASSUME NEW j \in Orders
        PROVE  nr_free'[j] = Len(free_list'[j]) /\ IsInjective(free_list'[j])
    BY <1>4, <1>5, <1>6 DEF Inv, ListsRight
  <2>2. ASSUME NEW j \in Orders, NEW x \in Range(free_list'[j])
        PROVE  allocated'[x] = 0 /\ order'[x] = j /\ x # cur'
    <3>1. CASE x = cur /\ j = k
      BY <3>1, <1>1, <1>2, Numbers DEF k
    <3>2. CASE OnList(x, j)
      BY <3>2, <1>2, Numbers, ListedAt DEF Inv
    <3> QED BY <3>1, <3>2, <1>7 DEF OnList
  <2> QED BY <2>1, <2>2 DEF ListsRight
<1>11. Heads' = Heads
  <2>1. \A x \in Pages : Listed(x)' <=> (Listed(x) \/ x = cur)
    BY <1>1, <1>7 DEF Listed
  <2>2. \A x : x \in Heads' <=> x \in Heads
    BY <2>1, <1>1, <1>2, Numbers DEF Heads
  <2> QED BY <2>2
<1>12. Tiling'
  BY <1>2, <1>11 DEF Inv, Tiling
<1>13. Coalesced'
  <2>1. SUFFICES ASSUME NEW o \in Orders, NEW x, OnList(x, o)',
                        o < BUDDY_MAX_ORDER - 1, OnList(get_buddy_chunk(x, o), o)'
                 PROVE  FALSE
    BY DEF Coalesced, OnList
  <2>2. ASSUME o = k PROVE ~ OnList(get_buddy_chunk(cur, o), o)
    <3>1. SUFFICES ASSUME OnList(get_buddy_chunk(cur, o), o) PROVE FALSE
      OBVIOUS
    <3>2. /\ get_buddy_chunk(cur, o) \in Pages
          /\ allocated[get_buddy_chunk(cur, o)] = 0
          /\ order[get_buddy_chunk(cur, o)] = o
      BY <3>1, ListedAt DEF Inv
    <3> QED BY <2>1, <2>2, <3>2, <1>2, Numbers DEF CanMerge, k
  <2>3. CASE x = cur /\ o = k
    <3>1. get_buddy_chunk(cur, o) # cur
      <4>1. cur % 2^k = 0 /\ cur \in Int /\ k < BUDDY_MAX_ORDER - 1
        BY <2>1, <2>3, <1>1, Numbers DEF Inv, Tiling, Tiles, Fits, k
      <4>2. FlipBit(cur, k) # cur
        BY <4>1, <1>1, BuddyHalves
      <4> QED BY <4>2, <2>3, <1>1, Numbers DEF get_buddy_chunk
    <3> QED BY <3>1, <2>1, <2>2, <2>3, <1>7
  <2>4. CASE OnList(x, o) /\ get_buddy_chunk(x, o) = cur /\ o = k
    <3>1. x \in Pages /\ x % 2^k = 0 /\ x \in Int
      <4>1. x \in Heads /\ order[x] = k /\ x \in Pages
        BY <2>4, ListedAt DEF Inv
      <4>2. Fits(x, order[x])
        BY <4>1 DEF Inv, Tiling, Tiles
      <4> QED BY <4>1, <4>2, Numbers DEF Fits
    <3>2. FlipBit(x, k) = cur
      BY <2>4, <1>1, Numbers DEF get_buddy_chunk
    <3>3. FlipBit(cur, k) = x
      BY <3>1, <3>2, <2>1, <2>4, <1>1, BuddyHalves
    <3>4. get_buddy_chunk(cur, k) = x
      BY <3>1, <3>3 DEF get_buddy_chunk
    <3> QED BY <3>4, <2>2, <2>4
  <2>5. CASE OnList(x, o) /\ OnList(get_buddy_chunk(x, o), o)
    BY <2>1, <2>5 DEF Inv, Coalesced, OnList
  <2> QED BY <2>1, <2>3, <2>4, <2>5, <1>7
<1> QED BY <1>8, <1>9, <1>10, <1>12, <1>13 DEF Inv

LEMMA MergeHalvesInv ==
  ASSUME Inv, pc = "merge", allocated[cur] = 0, MergeHalves
  PROVE  Inv'
<1> DEFINE k == order[cur]
           buddy == get_buddy_chunk(cur, k)
           low == IF buddy < cur THEN buddy ELSE cur
<1>1. /\ k < BUDDY_MAX_ORDER - 1 /\ buddy # NULL /\ allocated[buddy] = 0
      /\ order[buddy] >= k /\ cur \in Pages
      /\ IF order[buddy] > k \/ ~ OnList(buddy, k)
         THEN Panic
         ELSE /\ free_list' = [free_list EXCEPT ![k] = list_del(@, buddy)]
              /\ nr_free' = [nr_free EXCEPT ![k] = @ - 1]
              /\ cur' = low
              /\ order' = [order EXCEPT ![low] = @ + 1]
              /\ UNCHANGED <<allocated, page_idx, pc, want, userVars>>
  BY DEF MergeHalves, CanMerge, Inv, CallRight
<1> HIDE DEF k, low
<1>2. /\ cur \in Heads /\ k \in Orders
      /\ buddy = FlipBit(cur, k) /\ buddy \in Heads /\ buddy # cur
      /\ order[buddy] <= k /\ FlipBit(buddy, k) = cur
      /\ OnList(buddy, order[buddy])
  <2>1. k = order[cur]
    BY DEF k
  <2> QED BY <2>1, <1>1, MergeBuddy
<1> HIDE DEF buddy
<1>3. /\ buddy \in Pages /\ order[buddy] = k /\ OnList(buddy, k)
      /\ order[cur] = k /\ k + 1 \in Orders
      /\ Heads \in SUBSET Pages /\ order \in [Pages -> Orders]
      /\ Tiles(Heads, order)
  <2>1. buddy \in Pages /\ order[buddy] \in Orders /\ order[cur] = k
    BY <1>2 DEF Heads, Inv, TypeOK, k
  <2>2. order[buddy] = k
    <3>1. order[buddy] \in Nat /\ k \in Nat
      BY <2>1, <1>2, Numbers
    <3> QED BY <3>1, <1>1, <1>2
  <2>3. k + 1 \in Orders
    BY <1>1, <1>2, PoolAssumption DEF Orders
  <2> QED BY <2>1, <2>2, <2>3, <1>2 DEF Heads, Inv, TypeOK, Tiling
<1>4. /\ free_list' = [free_list EXCEPT ![k] = list_del(@, buddy)]
      /\ nr_free' = [nr_free EXCEPT ![k] = @ - 1]
      /\ cur' = low
      /\ order' = [order EXCEPT ![low] = @ + 1]
      /\ UNCHANGED <<allocated, page_idx, pc, want, owned, ret, refused>>
  <2>1. ~ (order[buddy] > k)
    <3>1. k \in Nat
      BY <1>2, Numbers
    <3> QED BY <3>1, <1>3
  <2> QED BY <2>1, <1>1, <1>3 DEF userVars
<1>5. /\ low \in {cur, buddy} /\ low \in Pages
      /\ order'[low] = k + 1
      /\ \A x \in Pages : x # low => order'[x] = order[x]
  BY <1>1, <1>3, <1>4 DEF low
<1>6. /\ free_list'[k] \in Seq(Pages)
      /\ Len(free_list'[k]) = Len(free_list[k]) - 1
      /\ Range(free_list'[k]) = Range(free_list[k]) \ {buddy}
      /\ IsInjective(free_list'[k])
  <2>1. free_list'[k] = list_del(free_list[k], buddy) /\ free_list[k] \in Seq(Pages)
    BY <1>2, <1>4 DEF Inv, TypeOK
  <2>2. IsInjective(free_list[k]) /\ buddy \in Range(free_list[k])
    BY <1>2, <1>3 DEF Inv, ListsRight, OnList
  <2> QED BY <2>1, <2>2, ListDel
<1>7. \A j \in Orders : j # k => free_list'[j] = free_list[j] /\ nr_free'[j] = nr_free[j]
  BY <1>4 DEF Inv, TypeOK
<1>8. nr_free'[k] = nr_free[k] - 1 /\ nr_free'[k] \in Nat
  <2>1. nr_free'[k] = nr_free[k] - 1 /\ nr_free[k] = Len(free_list[k])
    BY <1>2, <1>4 DEF Inv, TypeOK, ListsRight
  <2>2. Len(free_list'[k]) \in Nat /\ Len(free_list[k]) \in Nat
    BY <1>2, <1>6, ListHead DEF Inv, TypeOK
  <2> QED BY <2>1, <2>2, <1>6
<1>9. \A j \in Orders : OnList(buddy, j) => j = k
  BY <1>2, <1>3, ListedAt DEF Inv
<1>10. \A x, j : j \in Orders => (OnList(x, j)' <=> (OnList(x, j) /\ x # buddy))
  BY <1>6, <1>7, <1>9 DEF OnList
<1>11. TypeOK'
  <2>1. free_list' \in [Orders -> Seq(Pages)]
    BY <1>2, <1>4, <1>6, <1>7 DEF Inv, TypeOK
  <2>2. nr_free' \in [Orders -> Nat]
    BY <1>2, <1>4, <1>7, <1>8 DEF Inv, TypeOK
  <2>3. order' \in [Pages -> Orders]
    <3>1. order[low] + 1 = k + 1
      BY <1>3, <1>5
    <3> QED BY <3>1, <1>3, <1>4, <1>5
  <2> QED BY <2>1, <2>2, <2>3, <1>4, <1>5 DEF Inv, TypeOK
<1>12. allocated[low] = 0
  BY <1>1, <1>5
<1>13. (NoPanic /\ MarksOwned /\ CallRight)'
  <2>1. NoPanic' /\ CallRight'
    BY <1>4, <1>5, <1>12 DEF Inv, NoPanic, CallRight
  <2>2. ASSUME NEW x \in Pages
        PROVE  IF allocated'[x] = 1 THEN owned'[x] = order'[x] ELSE owned'[x] = NULL
    <3>1. CASE x = low
      BY <3>1, <1>4, <1>12 DEF Inv, MarksOwned
    <3>2. CASE x # low
      BY <3>2, <1>4, <1>5 DEF Inv, MarksOwned
    <3> QED BY <3>1, <3>2
  <2> QED BY <2>1, <2>2 DEF MarksOwned
<1>14. ListsRight'
  <2>1. ASSUME NEW j \in Orders
        PROVE  nr_free'[j] = Len(free_list'[j]) /\ IsInjective(free_list'[j])
    BY <1>6, <1>7, <1>8 DEF Inv, ListsRight
  <2>2. ASSUME NEW j \in Orders, NEW x \in Range(free_list'[j])
        PROVE  allocated'[x] = 0 /\ order'[x] = j /\ x # cur'
    <3>1. OnList(x, j) /\ x # buddy
      BY <1>10 DEF OnList
    <3>2. x \in Pages /\ x # cur /\ allocated[x] = 0 /\ order[x] = j
      BY <3>1, ListedAt DEF Inv
    <3> QED BY <3>1, <3>2, <1>4, <1>5
  <2> QED BY <2>1, <2>2 DEF ListsRight
<1>15. Heads' = Heads \ ({cur, buddy} \ {low})
  <2>1. \A x \in Pages : Listed(x)' <=> (Listed(x) /\ x # buddy)
    BY <1>10 DEF Listed
  <2>2. ~ Listed(cur)
    BY ListedAt DEF Listed, Inv
  <2>3. \A x : x \in Heads' <=> (x \in Heads /\ x \notin ({cur, buddy} \ {low}))
    <3>1. ASSUME NEW x \in Pages \ {cur, buddy} PROVE x \in Heads' <=> x \in Heads
      BY <3>1, <2>1, <1>4, <1>5 DEF Heads
    <3>2. ASSUME NEW x \in {cur, buddy} PROVE x \in Heads' <=> x = low
      BY <2>1, <2>2, <1>1, <1>3, <1>4, <1>5 DEF Heads
    <3>3. Heads' \subseteq Pages /\ Heads \subseteq Pages
      BY DEF Heads
    <3> QED BY <3>1, <3>2, <3>3, <1>2, <1>5
  <2> QED BY <2>3
<1>16. Tiling'
  <2>1. \A q \in Heads \ {cur, buddy} : order'[q] = order[q]
    BY <1>3, <1>5
  <2>2. low = IF buddy < cur THEN buddy ELSE cur
    BY DEF low
  <2>3. Tiles(Heads \ ({cur, buddy} \ {low}), order')
    BY <2>1, <2>2, <1>1, <1>2, <1>3, <1>5, TileMerge
  <2> QED BY <2>3, <1>15 DEF Tiling
<1>17. Coalesced'
  BY <1>10 DEF Inv, Coalesced, OnList
<1> QED BY <1>11, <1>13, <1>14, <1>16, <1>17 DEF Inv

-----------------------------------------------------------------------------
LEMMA InitInv == Init => Inv
<1> SUFFICES ASSUME Init PROVE Inv
  OBVIOUS
<1>1. \A o \in Orders : Range(free_list[o]) = {} /\ IsInjective(free_list[o])
                       /\ Len(free_list[o]) = 0 /\ nr_free[o] = 0
  BY DEF Init, Range, IsInjective
<1>2. TypeOK
  BY PoolAssumption, Numbers DEF Init, TypeOK
<1>3. NoPanic /\ MarksOwned /\ CallRight
  BY Numbers DEF Init, NoPanic, MarksOwned, CallRight
<1>4. ListsRight /\ Coalesced
  BY <1>1 DEF ListsRight, Coalesced
<1>5. Heads = Pages /\ \A p \in Pages : order[p] = 0
  BY DEF Init, Heads
<1>6. \A p \in Pages : Extent(p, 0) = {p} /\ Fits(p, 0)
  BY PowerZero, PoolAssumption DEF Extent, Fits, Pages, EndPage
<1>7. Tiling
  BY <1>5, <1>6 DEF Tiling, Tiles
<1> QED BY <1>2, <1>3, <1>4, <1>7 DEF Inv

LEMMA NextInv == Inv /\ [Next]_vars => Inv'
<1> SUFFICES ASSUME Inv, [Next]_vars PROVE Inv'
  OBVIOUS
<1>1. CASE init_buddy
  <2>1. StartPage + page_idx \in Pages /\ allocated[StartPage + page_idx] = 1
    BY <1>1, PoolAssumption DEF init_buddy, Inv, TypeOK, CallRight, Pages, EndPage
  <2> QED BY <2>1, <1>1, StartFreeInv DEF init_buddy
<1>2. ASSUME NEW o \in Requests, buddy_get_pages(o) PROVE Inv'
  <2>1. CASE GetNothing(o)
    <3>1. TypeOK'
      BY <2>1, Numbers DEF GetNothing, pageVars, poolVars, callVars, Inv, TypeOK
    <3>2. (NoPanic /\ MarksOwned /\ CallRight /\ ListsRight)'
      BY <2>1 DEF GetNothing, pageVars, poolVars, callVars, Inv, NoPanic,
                  MarksOwned, CallRight, ListsRight
    <3>3. (Tiling /\ Coalesced)'
      BY <2>1 DEF GetNothing, pageVars, poolVars, callVars, Inv, Tiling, Heads,
                  Listed, OnList, Coalesced
    <3> QED BY <3>1, <3>2, <3>3 DEF Inv
  <2>2. CASE o \in Orders /\ GetChunk(o)
    BY <1>2, <2>2, GetChunkInv DEF buddy_get_pages
  <2> QED BY <1>2, <2>1, <2>2 DEF buddy_get_pages
<1>3. ASSUME NEW p \in Pages, buddy_free_pages(p) PROVE Inv'
  <2>1. allocated[p] = 1
    BY <1>3 DEF buddy_free_pages, Inv, MarksOwned, TypeOK
  <2> QED BY <2>1, <1>3, StartFreeInv DEF buddy_free_pages
<1>4. CASE split_page
  <2>1. pc = "split" /\ want <= order[cur] /\ allocated[cur] = 0
    BY <1>4 DEF split_page, Inv, CallRight
  <2>2. ~ (order[cur] < want)
    <3>1. order[cur] \in Nat /\ want \in Nat
      BY <2>1, Numbers DEF Inv, TypeOK, CallRight
    <3> QED BY <2>1, <3>1
  <2>3. SplitReturn \/ SplitHalf
    BY <1>4, <2>1, <2>2 DEF split_page
  <2> QED BY <2>1, <2>3, SplitReturnInv, SplitHalfInv
<1>5. CASE merge_page
  <2>1. pc = "merge" /\ cur \in Pages /\ order[cur] \in Orders /\ allocated[cur] = 0
    BY <1>5 DEF merge_page, Inv, CallRight, TypeOK
  <2>2. ~ (order[cur] > BUDDY_MAX_ORDER - 1)
    BY <2>1, PoolAssumption DEF Orders
  <2>3. MergeHalves \/ MergeReturn
    BY <1>5, <2>1, <2>2 DEF merge_page
  <2> QED BY <2>1, <2>3, MergeHalvesInv, MergeReturnInv
<1>6. CASE UNCHANGED vars
  <2>1. (TypeOK /\ NoPanic /\ MarksOwned /\ CallRight /\ ListsRight)'
    BY <1>6 DEF vars, Inv, TypeOK, NoPanic, MarksOwned, CallRight, ListsRight
  <2>2. (Tiling /\ Coalesced)'
    BY <1>6 DEF vars, Inv, Tiling, Heads, Listed, OnList, Coalesced
  <2> QED BY <2>1, <2>2 DEF Inv
<1> QED BY <1>1, <1>2, <1>3, <1>4, <1>5, <1>6 DEF Next

LEMMA SpecInv == Spec => []Inv
  BY InitInv, NextInv, PTL DEF Spec

-----------------------------------------------------------------------------
\* TypeOK holds in every pool of every size: the fields of struct page and of
\* the free lists keep to their ranges (buddy.c).
THEOREM TypeCorrect == Spec => []TypeOK
  BY SpecInv, PTL DEF Inv

\* No BUG_ON of buddy.c can fire and no list operation works on a node that is
\* not on the list, in any pool and for any sequence of calls.
THEOREM NeverPanics == Spec => []NoPanic
  BY SpecInv, PTL DEF Inv

\* The chunks, in use and free, tile the pool at every step of every split and
\* merge: nothing is handed out twice and no page is lost.
THEOREM AlwaysTiled == Spec => []Tiling
  BY SpecInv, PTL DEF Inv

\* Two free buddies of one order are never both listed.
THEOREM AlwaysCoalesced == Spec => []Coalesced
  BY SpecInv, PTL DEF Inv

\* The mark that buddy_free_pages tests tells the first pages of the chunks in
\* use from all other pages.
THEOREM MarksRight == Spec => []MarksOwned
  BY SpecInv, PTL DEF Inv

\* The free lists hold the free chunks of their order, once, and count them.
THEOREM ListsAreRight == Spec => []ListsRight
  BY SpecInv, PTL DEF Inv

-----------------------------------------------------------------------------
\* The chunks of a free list are as large as its counter says, and the free
\* lists and the chunks in use share the pool out.
FreeExtents(o) ==
  UNION {Extent(p, o) : p \in Range(free_list[o])}

\* A list without repetitions is as long as the set of its elements is large.
LEMMA RangeSize ==
  ASSUME NEW S, NEW l \in Seq(S), IsInjective(l)
  PROVE  IsFiniteSet(Range(l)) /\ Cardinality(Range(l)) = Len(l)
<1>1. Len(l) \in Nat /\ DOMAIN l = 1 .. Len(l)
  OBVIOUS
<1>2. IsFiniteSet(1 .. Len(l)) /\ Cardinality(1 .. Len(l)) = Len(l)
  BY <1>1, FS_Interval
<1>3. l \in Surjection(1 .. Len(l), Range(l))
  BY <1>1 DEF Surjection, Range
<1>4. l \in Injection(1 .. Len(l), Range(l))
  BY <1>1, <1>3 DEF Injection, IsInjective, Surjection
<1> QED BY <1>2, <1>3, <1>4, FS_Surjection

LEMMA FreeSize ==
  ASSUME Inv, pc = "idle", NEW o \in Orders
  PROVE  IsFiniteSet(FreeExtents(o))
         /\ Cardinality(FreeExtents(o)) = nr_free[o] * 2^o
<1> DEFINE S == Range(free_list[o])
           E == [p \in S |-> Extent(p, o)]
<1>1. free_list[o] \in Seq(Pages) /\ IsInjective(free_list[o])
      /\ nr_free[o] = Len(free_list[o])
  BY DEF Inv, TypeOK, ListsRight
<1>2. S \subseteq Pages /\ Pages \subseteq Int
  BY <1>1, PoolAssumption DEF Range, Pages, EndPage
<1>3. IsFiniteSet(S) /\ Cardinality(S) = nr_free[o]
  BY <1>1, RangeSize
<1>4. \A p \in S : p \in Heads /\ order[p] = o
  BY <1>1, <1>2 DEF Inv, ListsRight, Heads, Listed, OnList
<1>5. \A p, q \in S : p # q => E[p] \cap E[q] = {}
  BY <1>4 DEF Inv, Tiling, Tiles
<1>6. \A p \in S : IsFiniteSet(E[p]) /\ Cardinality(E[p]) = 2^o
  BY <1>2, ExtentSize
<1>7. UnionOf(E, S) = FreeExtents(o)
  BY DEF UnionOf, FreeExtents
<1>8. 2^o \in Nat
  BY OrderPower
<1> HIDE DEF S, E
<1>9. IsFiniteSet(UnionOf(E, S)) /\ Cardinality(UnionOf(E, S)) = Cardinality(S) * 2^o
  BY <1>3, <1>5, <1>6, <1>8, EqualParts
<1> QED BY <1>3, <1>7, <1>9

LEMMA InvFreeMemSize == Inv => FreeMemSize
<1> SUFFICES ASSUME Inv, pc = "idle"
             PROVE  get_free_mem_size_from_buddy =
                      NPages - SumFunction([p \in {q \in Pages : owned[q] # NULL} |->
                                               2^owned[p]])
  BY DEF FreeMemSize
<1> DEFINE f == [o \in Orders |-> nr_free[o] * 2^o]
           E == [o \in Orders |-> FreeExtents(o)]
           W == {q \in Pages : owned[q] # NULL}
           g == [p \in W |-> 2^owned[p]]
           D == [p \in W |-> Extent(p, owned[p])]
<1>1. Pages \subseteq Int /\ IsFiniteSet(Pages) /\ Cardinality(Pages) = NPages
  <2>1. Pages \subseteq Int
    BY PoolAssumption DEF Pages, EndPage
  <2> QED BY <2>1, PagesFinite
<1>2. IsFiniteSet(Orders) /\ IsFiniteSet(W)
  <2>1. 0 \in Int /\ BUDDY_MAX_ORDER - 1 \in Int
    BY PoolAssumption
  <2>2. IsFiniteSet(Orders)
    BY <2>1, FS_Interval DEF Orders
  <2> QED BY <1>1, <2>2, FS_Subset
<1>3. \A p \in W : /\ owned[p] \in Orders /\ order[p] = owned[p]
                    /\ p \in Heads /\ allocated[p] = 1
  BY DEF Inv, TypeOK, MarksOwned, Heads
<1>4. \A o \in Orders : \A p \in Range(free_list[o]) :
        p \in Pages /\ order[p] = o /\ p \in Heads /\ allocated[p] = 0
  <2>1. \A o \in Orders : Range(free_list[o]) \subseteq Pages
    BY DEF Inv, TypeOK, Range
  <2> QED BY <2>1 DEF Inv, ListsRight, Heads, Listed, OnList
<1>5. \A p \in Heads : p \in W \/ \E o \in Orders : p \in Range(free_list[o])
  <2>1. \A p \in Heads : p \in Pages /\ p # cur
    BY PoolAssumption DEF Inv, CallRight, Heads, Pages
  <2>2. \A p \in Heads : allocated[p] = 1 => p \in W
    BY <2>1, PoolAssumption DEF Inv, MarksOwned, TypeOK, Orders
  <2> QED BY <2>1, <2>2 DEF Heads, Listed, OnList
<1>6. \A p, q \in Heads : p # q => Extent(p, order[p]) \cap Extent(q, order[q]) = {}
  BY DEF Inv, Tiling, Tiles
<1>7. /\ \A p \in Heads : Extent(p, order[p]) \subseteq Pages
      /\ \A x \in Pages : \E p \in Heads : x \in Extent(p, order[p])
  <2>1. \A p \in Heads : p \in Int /\ order[p] \in Orders /\ Fits(p, order[p])
    BY <1>1 DEF Inv, Tiling, Tiles, TypeOK, Heads
  <2> QED BY <2>1, FitsIn DEF Inv, Tiling, Tiles
<1>8. /\ IsFiniteSet(UnionOf(E, Orders))
      /\ SumFunction(f) = Cardinality(UnionOf(E, Orders))
  <2>1. \A o \in Orders : IsFiniteSet(E[o]) /\ f[o] = Cardinality(E[o])
    BY FreeSize
  <2>2. ASSUME NEW o \in Orders, NEW u \in Orders, o # u
        PROVE  FreeExtents(o) \cap FreeExtents(u) = {}
    BY <1>4, <1>6, <2>2 DEF FreeExtents
  <2>3. \A o, u \in Orders : o # u => E[o] \cap E[u] = {}
    BY <2>2
  <2>4. Orders = DOMAIN f
    OBVIOUS
  <2> HIDE DEF f, E
  <2> QED BY <1>2, <2>1, <2>3, <2>4, SumCounts
<1>9. /\ IsFiniteSet(UnionOf(D, W))
      /\ SumFunction(g) = Cardinality(UnionOf(D, W))
  <2>1. \A p \in W : p \in Int
    BY <1>1
  <2>2. \A p \in W : IsFiniteSet(D[p]) /\ g[p] = Cardinality(D[p])
    BY <1>3, <2>1, ExtentSize
  <2>3. \A p, q \in W : p # q => D[p] \cap D[q] = {}
    BY <1>3, <1>6
  <2>4. W = DOMAIN g
    OBVIOUS
  <2> HIDE DEF g, D, W
  <2> QED BY <1>2, <2>2, <2>3, <2>4, SumCounts
<1>10. UnionOf(E, Orders) \cap UnionOf(D, W) = {}
  <2> SUFFICES ASSUME NEW x \in UnionOf(E, Orders), x \in UnionOf(D, W)
               PROVE  FALSE
    OBVIOUS
  <2>1. PICK o \in Orders : x \in FreeExtents(o)
    BY DEF UnionOf
  <2>2. PICK p \in Range(free_list[o]) : x \in Extent(p, o)
    BY <2>1 DEF FreeExtents
  <2>3. PICK q \in W : x \in Extent(q, owned[q])
    BY DEF UnionOf
  <2>4. p # q
    BY <1>3, <1>4, <2>2, <2>3
  <2> QED BY <1>3, <1>4, <1>6, <2>2, <2>3, <2>4
<1>11. UnionOf(E, Orders) \cup UnionOf(D, W) = Pages
  <2>1. \A o \in Orders : FreeExtents(o) \subseteq Pages
    BY <1>4, <1>7 DEF FreeExtents
  <2>2. UnionOf(E, Orders) \subseteq Pages
    BY <2>1 DEF UnionOf
  <2>3. UnionOf(D, W) \subseteq Pages
    BY <1>3, <1>7 DEF UnionOf
  <2>4. ASSUME NEW x \in Pages
        PROVE  x \in UnionOf(E, Orders) \cup UnionOf(D, W)
    <3>1. PICK p \in Heads : x \in Extent(p, order[p])
      BY <1>7
    <3>2. CASE p \in W
      BY <1>3, <3>1, <3>2 DEF UnionOf
    <3>3. CASE \E o \in Orders : p \in Range(free_list[o])
      <4>1. PICK o \in Orders : p \in Range(free_list[o])
        BY <3>3
      <4>2. x \in FreeExtents(o)
        BY <1>4, <3>1, <4>1 DEF FreeExtents
      <4> QED BY <4>2 DEF UnionOf
    <3> QED BY <1>5, <3>2, <3>3
  <2> QED BY <2>2, <2>3, <2>4
<1>12. NPages = SumFunction(f) + SumFunction(g)
       /\ SumFunction(f) \in Int /\ SumFunction(g) \in Int
  <2> HIDE DEF E, D, W, f, g
  <2>1. Cardinality(UnionOf(E, Orders) \cap UnionOf(D, W)) = 0
    BY <1>10, FS_EmptySet
  <2>2. Cardinality(Pages) = Cardinality(UnionOf(E, Orders))
          + Cardinality(UnionOf(D, W))
          - Cardinality(UnionOf(E, Orders) \cap UnionOf(D, W))
    BY <1>8, <1>9, <1>11, FS_Union
  <2>3. Cardinality(UnionOf(E, Orders)) \in Nat /\ Cardinality(UnionOf(D, W)) \in Nat
    BY <1>8, <1>9, FS_CardinalityType
  <2> QED BY <1>1, <1>8, <1>9, <2>1, <2>2, <2>3
<1>13. get_free_mem_size_from_buddy = SumFunction(f)
  BY DEF get_free_mem_size_from_buddy
<1> HIDE DEF f, g
<1>14. SumFunction(f) = NPages - SumFunction(g)
  BY <1>12, PoolAssumption
<1> QED BY <1>13, <1>14 DEF g

\* What get_free_mem_size_from_buddy returns between calls is the number of
\* pages that no caller holds: splitting and merging neither lose nor invent
\* memory in the counters.
THEOREM FreeMemCounted == Spec => []FreeMemSize
  BY SpecInv, InvFreeMemSize, PTL

-----------------------------------------------------------------------------
\* Refinement: Buddy implements PhysMem.

\* The instance has its own copy of Chunks.
LEMMA PhysSame ==
  /\ Phys!Pages = Pages /\ Phys!Orders = Orders /\ Phys!Requests = Requests
  /\ \A p, o : Phys!Extent(p, o) = Extent(p, o)
  /\ \A p, o : Phys!Fits(p, o) <=> Fits(p, o)
  BY DEF Phys!Pages, Pages, Phys!EndPage, EndPage, Phys!Orders, Orders,
         Phys!Requests, Requests, Phys!Extent, Extent, Phys!Fits, Fits

LEMMA InitPhys == Init => Phys!PhysInit
  BY PhysSame DEF Init, Phys!PhysInit

\* A request that finds no list to serve it finds no aligned unused chunk: the
\* free chunks that fill the extent of one would all be smaller than it, and
\* the smallest would have its buddy beside it, free, of the same order.
LEMMA NothingPhys ==
  ASSUME Inv, pc = "idle", NEW o \in Requests, GetNothing(o)
  PROVE  Phys!Refuse(o)
<1>1. ret' = NULL /\ refused' = o /\ UNCHANGED owned
  BY DEF GetNothing
<1>2. CASE o \notin Orders
  BY <1>1, <1>2, PhysSame DEF Phys!Refuse
<1>3. CASE o \in Orders /\ Candidates(o) = {}
  <2>1. SUFFICES ASSUME NEW x \in Pages, Phys!Available(x, o) PROVE FALSE
    BY <1>1, PhysSame DEF Phys!Refuse
  <2>2. Fits(x, o) /\ x \in Int
    <3>1. Phys!Fits(x, o)
      BY <2>1 DEF Phys!Available
    <3> QED BY <3>1, Numbers, PhysSame
  <2> DEFINE F == {f \in Heads : Listed(f)}
  <2>3. /\ Heads \in SUBSET Pages /\ order \in [Pages -> Orders]
        /\ Tiles(Heads, order) /\ F \in SUBSET Heads
    BY DEF Heads, Inv, TypeOK, Tiling
  <2>4. \A h \in Heads : Extent(h, order[h]) \cap Extent(x, o) # {} => h \in F
    <3>1. SUFFICES ASSUME NEW h \in Heads, ~ Listed(h)
                   PROVE  Extent(h, order[h]) \cap Extent(x, o) = {}
      OBVIOUS
    <3>2. h \in Pages /\ allocated[h] = 1
      BY <3>1, Numbers DEF Heads, Inv, CallRight
    <3>3. owned[h] = order[h] /\ owned[h] # NULL
      BY <3>2, Numbers DEF Inv, MarksOwned, TypeOK
    <3> QED BY <2>1, <3>2, <3>3, PhysSame DEF Phys!Available, Phys!Unused
  <2>5. \A f \in F : OnList(f, order[f]) /\ order[f] \in Orders
    BY ListedAt DEF Listed, Inv
  <2>6. \A f \in F : order[f] < BUDDY_MAX_ORDER - 1 =>
          ~ (FlipBit(f, order[f]) \in F /\ order[FlipBit(f, order[f])] = order[f])
    <3>1. SUFFICES ASSUME NEW f \in F, order[f] < BUDDY_MAX_ORDER - 1,
                          FlipBit(f, order[f]) \in F,
                          order[FlipBit(f, order[f])] = order[f]
                   PROVE  FALSE
      OBVIOUS
    <3>2. OnList(FlipBit(f, order[f]), order[f]) /\ FlipBit(f, order[f]) \in Pages
      BY <3>1, <2>3, <2>5
    <3>3. get_buddy_chunk(f, order[f]) = FlipBit(f, order[f])
      BY <3>2 DEF get_buddy_chunk
    <3> QED BY <3>1, <3>2, <3>3, <2>5 DEF Inv, Coalesced, OnList
  <2>7. PICK f \in F : order[f] >= o
    <3> HIDE DEF F
    <3> QED BY <2>2, <2>3, <2>4, <2>6, <1>3, NoFragments
  <2>8. order[f] \in Candidates(o)
    <3>1. OnList(f, order[f]) /\ order[f] \in Orders
      BY <2>5
    <3>2. nr_free[order[f]] > 0
      BY <3>1, ListHead DEF Inv, ListsRight, TypeOK, OnList
    <3> QED BY <3>1, <3>2, <2>7, <1>3, Numbers DEF Candidates, Orders
  <2> QED BY <2>8, <1>3
<1> QED BY <1>2, <1>3 DEF GetNothing

LEMMA ReturnPhys ==
  ASSUME Inv, pc = "split", allocated[cur] = 0, SplitReturn
  PROVE  Phys!Allocate(want)
<1>1. /\ cur \in Pages /\ cur \in Heads /\ order[cur] = want /\ want \in Orders
      /\ owned' = [owned EXCEPT ![cur] = want] /\ ret' = cur /\ refused' = NULL
  BY DEF Inv, CallRight, SplitReturn, TypeOK, Heads
<1>2. Fits(cur, want)
  BY <1>1 DEF Inv, Tiling, Tiles
<1>3. Phys!Unused(cur, want)
  <2>1. SUFFICES ASSUME NEW q \in Pages, owned[q] # NULL
                 PROVE  Extent(cur, want) \cap Extent(q, owned[q]) = {}
    BY PhysSame DEF Phys!Unused
  <2>2. allocated[q] = 1 /\ owned[q] = order[q]
    BY <2>1 DEF Inv, MarksOwned
  <2>3. q \in Heads /\ q # cur
    BY <2>2 DEF Heads
  <2> QED BY <2>2, <2>3, <1>1 DEF Inv, Tiling, Tiles
<1> QED BY <1>1, <1>2, <1>3, PhysSame DEF Phys!Allocate, Phys!Available

LEMMA NextPhys == Inv /\ [Next]_vars => [Phys!PhysNext]_Phys!physVars
<1> SUFFICES ASSUME Inv, [Next]_vars PROVE [Phys!PhysNext]_Phys!physVars
  OBVIOUS
<1>1. ASSUME NEW p \in Pages, StartFree(p), allocated[p] = 1 PROVE Phys!Release(p)
  BY <1>1, Numbers DEF StartFree, Phys!Release, Inv, MarksOwned, TypeOK
<1>2. CASE init_buddy
  <2>1. StartPage + page_idx \in Pages /\ allocated[StartPage + page_idx] = 1
    BY <1>2, PoolAssumption DEF init_buddy, Inv, TypeOK, CallRight, Pages, EndPage
  <2> QED BY <2>1, <1>1, <1>2, PhysSame DEF init_buddy, Phys!PhysNext
<1>3. ASSUME NEW o \in Requests, buddy_get_pages(o)
      PROVE  [Phys!PhysNext]_Phys!physVars
  <2>1. CASE GetNothing(o)
    BY <1>3, <2>1, NothingPhys, PhysSame DEF buddy_get_pages, Phys!PhysNext
  <2>2. CASE GetChunk(o)
    BY <2>2 DEF GetChunk, Panic, userVars, Phys!physVars
  <2> QED BY <1>3, <2>1, <2>2 DEF buddy_get_pages
<1>4. ASSUME NEW p \in Pages, buddy_free_pages(p) PROVE Phys!PhysNext
  <2>1. allocated[p] = 1
    BY <1>4 DEF buddy_free_pages, Inv, MarksOwned, TypeOK
  <2> QED BY <2>1, <1>1, <1>4, PhysSame DEF buddy_free_pages, Phys!PhysNext
<1>5. CASE split_page
  <2>1. CASE Panic
    BY <2>1 DEF Panic, userVars, Phys!physVars
  <2>2. CASE SplitReturn /\ allocated[cur] = 0
    <3>1. Phys!Allocate(want) /\ want \in Orders
      BY <2>2, <1>5, ReturnPhys DEF split_page, Inv, TypeOK
    <3> QED BY <3>1, PhysSame DEF Phys!PhysNext
  <2>3. CASE SplitHalf
    BY <2>3 DEF SplitHalf, Panic, userVars, Phys!physVars
  <2>4. pc = "split" => allocated[cur] = 0
    BY DEF Inv, CallRight
  <2> QED BY <1>5, <2>1, <2>2, <2>3, <2>4 DEF split_page
<1>6. CASE merge_page
  <2>1. UNCHANGED <<owned, ret, refused>>
    BY <1>6 DEF merge_page, MergeHalves, MergeReturn, Panic, userVars
  <2> QED BY <2>1 DEF Phys!physVars
<1>7. CASE UNCHANGED vars
  BY <1>7 DEF vars, Phys!physVars
<1> QED BY <1>2, <1>3, <1>4, <1>5, <1>6, <1>7 DEF Next

\* The buddy allocator implements the memory its callers see: what it returns
\* is aligned and overlaps nothing in use, and it refuses a request only when
\* the pool has no aligned unused chunk of that order.
THEOREM ImplementsPhysMem == Spec => PhysSpec
  BY SpecInv, InitPhys, NextPhys, PTL DEF Spec, PhysSpec, Phys!PhysSpec

=============================================================================
