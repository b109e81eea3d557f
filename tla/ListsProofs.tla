----------------------------- MODULE ListsProofs ----------------------------
(***************************************************************************)
(* The rings and the hlists of list.h, for every number of lists and nodes *)
(* and every history of the calls: they stay linked, and they implement    *)
(* the sequences of Lists.                                                 *)
(***************************************************************************)
EXTENDS MCLists, SequencesExt, SequenceTheorems, FiniteSetTheorems,
        WellFoundedInduction, NaturalsInduction, TLAPS

-----------------------------------------------------------------------------
\* Sequences one element longer or shorter.
Inserted(s, k, n) ==
  [i \in 1 .. Len(s) + 1 |-> IF i <= k THEN s[i] ELSE IF i = k + 1 THEN n ELSE s[i - 1]]

Removed(s, k) == [i \in 1 .. Len(s) - 1 |-> IF i < k THEN s[i] ELSE s[i + 1]]

LEMMA InsertedIs ==
  ASSUME NEW S, NEW s \in Seq(S), NEW k \in 0 .. Len(s), NEW n \in S
  PROVE  /\ Inserted(s, k, n) \in Seq(S)
         /\ Len(Inserted(s, k, n)) = Len(s) + 1
         /\ \A i \in 1 .. Len(s) + 1 :
              Inserted(s, k, n)[i] = IF i <= k THEN s[i] ELSE IF i = k + 1 THEN n ELSE s[i - 1]
         /\ k = 0 => Inserted(s, k, n) = Cons(n, s)
         /\ k = Len(s) => Inserted(s, k, n) = Append(s, n)
<1> DEFINE t == Inserted(s, k, n)
<1>1. /\ Len(s) \in Nat
      /\ \A i \in 1 .. Len(s) : s[i] \in S
  OBVIOUS
<1>2. t \in [1 .. Len(s) + 1 -> S]
  BY <1>1 DEF Inserted
<1>3. t \in Seq(S) /\ Len(t) = Len(s) + 1
  BY <1>1, <1>2
<1>4. \A i \in 1 .. Len(s) + 1 :
        t[i] = IF i <= k THEN s[i] ELSE IF i = k + 1 THEN n ELSE s[i - 1]
  BY DEF Inserted
<1>5. ASSUME k = 0 PROVE t = Cons(n, s)
  <2> DEFINE m == <<n>> \o s
  <2>1. m \in Seq(S) /\ Len(m) = Len(s) + 1
    OBVIOUS
  <2>2. \A i \in 1 .. Len(s) + 1 : m[i] = IF i = 1 THEN n ELSE s[i - 1]
    OBVIOUS
  <2>3. \A i \in 1 .. Len(s) + 1 : m[i] = t[i]
    BY <1>1, <1>4, <1>5, <2>2
  <2> HIDE DEF t, m
  <2>4. t = m
    BY <1>3, <2>1, <2>3, SeqEqual
  <2> QED BY <2>4 DEF Cons, m
<1>6. ASSUME k = Len(s) PROVE t = Append(s, n)
  <2> DEFINE m == Append(s, n)
  <2>1. m \in Seq(S) /\ Len(m) = Len(s) + 1
    OBVIOUS
  <2>2. \A i \in 1 .. Len(s) + 1 : m[i] = IF i <= Len(s) THEN s[i] ELSE n
    OBVIOUS
  <2>3. \A i \in 1 .. Len(s) + 1 : m[i] = t[i]
    BY <1>1, <1>4, <1>6, <2>2
  <2> HIDE DEF t, m
  <2>4. t = m
    BY <1>3, <2>1, <2>3, SeqEqual
  <2> QED BY <2>4 DEF m
<1> QED BY <1>3, <1>4, <1>5, <1>6

LEMMA RemovedIs ==
  ASSUME NEW S, NEW s \in Seq(S), NEW k \in 1 .. Len(s)
  PROVE  /\ Removed(s, k) \in Seq(S)
         /\ Len(Removed(s, k)) = Len(s) - 1
         /\ \A i \in 1 .. Len(s) - 1 : Removed(s, k)[i] = IF i < k THEN s[i] ELSE s[i + 1]
         /\ Removed(s, k) = RemoveAt(s, k)
<1> DEFINE t == Removed(s, k)
           u == SubSeq(s, 1, k - 1)
           v == SubSeq(s, k + 1, Len(s))
           m == u \o v
<1>1. /\ Len(s) \in Nat
      /\ \A i \in 1 .. Len(s) : s[i] \in S
  OBVIOUS
<1>2. t \in [1 .. Len(s) - 1 -> S]
  BY <1>1 DEF Removed
<1>3. t \in Seq(S) /\ Len(t) = Len(s) - 1
  BY <1>1, <1>2
<1>4. \A i \in 1 .. Len(s) - 1 : t[i] = IF i < k THEN s[i] ELSE s[i + 1]
  BY DEF Removed
<1>5. /\ u \in Seq(S) /\ Len(u) = k - 1
      /\ \A i \in 1 .. k - 1 : u[i] = s[i]
  <2>1. /\ 1 \in Int /\ k - 1 \in Int
        /\ \A i \in 1 .. k - 1 : s[i] \in S
    BY <1>1
  <2>2. /\ u \in Seq(S)
        /\ Len(u) = IF 1 <= k - 1 THEN k - 1 - 1 + 1 ELSE 0
        /\ \A i \in 1 .. k - 1 - 1 + 1 : u[i] = s[1 + i - 1]
    BY <2>1, SubSeqProperties
  <2> HIDE DEF u
  <2> QED BY <2>2
<1>6. /\ v \in Seq(S) /\ Len(v) = Len(s) - k
      /\ \A i \in 1 .. Len(s) - k : v[i] = s[k + i]
  <2>1. /\ k + 1 \in Int /\ Len(s) \in Int
        /\ \A i \in k + 1 .. Len(s) : s[i] \in S
    BY <1>1
  <2>2. /\ v \in Seq(S)
        /\ Len(v) = IF k + 1 <= Len(s) THEN Len(s) - (k + 1) + 1 ELSE 0
        /\ \A i \in 1 .. Len(s) - (k + 1) + 1 : v[i] = s[k + 1 + i - 1]
    BY <2>1, SubSeqProperties
  <2> HIDE DEF v
  <2>3. ASSUME NEW i \in 1 .. Len(s) - k PROVE v[i] = s[k + i]
    <3>1. i \in 1 .. Len(s) - (k + 1) + 1 /\ k + 1 + i - 1 = k + i
      BY <1>1
    <3> QED BY <3>1, <2>2
  <2> QED BY <2>2, <2>3, <1>1
<1> HIDE DEF u, v
<1>7. /\ m \in Seq(S) /\ Len(m) = Len(u) + Len(v)
      /\ \A i \in 1 .. Len(u) + Len(v) :
            m[i] = IF i <= Len(u) THEN u[i] ELSE v[i - Len(u)]
  BY <1>5, <1>6, ConcatProperties
<1> HIDE DEF m
<1>8. Len(m) = Len(s) - 1
  BY <1>1, <1>5, <1>6, <1>7
<1>9. ASSUME NEW i \in 1 .. Len(s) - 1
      PROVE  m[i] = t[i]
  <2>0. i \in 1 .. Len(u) + Len(v) /\ Len(u) = k - 1
    BY <1>1, <1>5, <1>6
  <2>1. CASE i < k
    BY <1>1, <1>4, <1>5, <1>7, <2>0, <2>1
  <2>2. CASE ~ i < k
    <3>1. i - (k - 1) \in 1 .. Len(s) - k /\ k + (i - (k - 1)) = i + 1
      BY <1>1, <2>2
    <3>2. m[i] = v[i - (k - 1)]
      BY <1>7, <2>0, <2>2
    <3>3. t[i] = s[i + 1]
      BY <1>4, <2>2
    <3> QED BY <1>6, <3>1, <3>2, <3>3
  <2> QED BY <2>1, <2>2
<1> HIDE DEF t
<1>10. t = m
  BY <1>3, <1>7, <1>8, <1>9, SeqEqual
<1>11. m = RemoveAt(s, k)
  BY DEF RemoveAt, m, u, v
<1> QED BY <1>3, <1>4, <1>10, <1>11 DEF t

-----------------------------------------------------------------------------
\* The cells of the list of h, of which the sequence L[h] has the nodes, from its
\* head, which is at 0, to what ends it.
At(L, ends, h, i) ==
  IF i = 0 THEN h ELSE IF i <= Len(L[h]) THEN L[h][i] ELSE ends[h]

\* The pointers nxt make of the cells in on the lists L.
Stand(nxt, on, ends, L) ==
  /\ L \in [Heads -> Seq(Nodes)]
  /\ \A h \in Heads : \A i \in 0 .. Len(L[h]) :
       nxt[At(L, ends, h, i)] = At(L, ends, h, i + 1)
  /\ \A g, h \in Heads : \A i \in 1 .. Len(L[g]), j \in 1 .. Len(L[h]) :
       L[g][i] = L[h][j] => g = h /\ i = j
  /\ on = {n \in Nodes : \E h \in Heads : \E i \in 1 .. Len(L[h]) : L[h][i] = n}

NotNodes(ends) == \A h \in Heads : ends[h] \notin Nodes

\* No cell is on two lists, or twice on one.
LEMMA CellsApart ==
  ASSUME NEW nxt, NEW on, NEW ends, NEW L, Stand(nxt, on, ends, L),
         NEW g \in Heads, NEW h \in Heads,
         NEW i \in 0 .. Len(L[g]), NEW j \in 0 .. Len(L[h]),
         At(L, ends, g, i) = At(L, ends, h, j)
  PROVE  g = h /\ i = j
<1>1. L[g] \in Seq(Nodes) /\ L[h] \in Seq(Nodes)
  BY DEF Stand
<1>2. Len(L[g]) \in Nat /\ Len(L[h]) \in Nat
  BY <1>1
<1>3. i # 0 => i \in 1 .. Len(L[g]) /\ L[g][i] \in Nodes
  BY <1>1, <1>2
<1>4. j # 0 => j \in 1 .. Len(L[h]) /\ L[h][j] \in Nodes
  BY <1>1, <1>2
<1>5. CASE i = 0 /\ j = 0
  BY <1>5 DEF At
<1>6. CASE i = 0 /\ j # 0
  BY <1>2, <1>4, <1>6, CellAssumption DEF At
<1>7. CASE i # 0 /\ j = 0
  BY <1>2, <1>3, <1>7, CellAssumption DEF At
<1>8. CASE i # 0 /\ j # 0
  <2>1. L[g][i] = L[h][j]
    BY <1>2, <1>8 DEF At
  <2> QED BY <2>1, <1>3, <1>4, <1>8 DEF Stand
<1> QED BY <1>5, <1>6, <1>7, <1>8

\* Where the nodes of a list are.
LEMMA NodeAt ==
  ASSUME NEW nxt, NEW on, NEW ends, NEW L, Stand(nxt, on, ends, L), NEW n \in Nodes
  PROVE  n \in on <=> \E h \in Heads : \E i \in 1 .. Len(L[h]) : At(L, ends, h, i) = n
<1>1. \A h \in Heads : \A i \in 1 .. Len(L[h]) : At(L, ends, h, i) = L[h][i]
  <2> SUFFICES ASSUME NEW h \in Heads, NEW i \in 1 .. Len(L[h])
               PROVE  At(L, ends, h, i) = L[h][i]
    OBVIOUS
  <2>1. L[h] \in Seq(Nodes)
    BY DEF Stand
  <2> QED BY <2>1 DEF At
<1>2. n \in on <=> \E h \in Heads : \E i \in 1 .. Len(L[h]) : L[h][i] = n
  BY DEF Stand
<1> QED BY <1>1, <1>2

\* A node is put on a list, behind the cell at k.
LEMMA InsertStands ==
  ASSUME NEW nxt, NEW on, NEW ends, NEW L, NotNodes(ends), Stand(nxt, on, ends, L),
         NEW h \in Heads, NEW k \in 0 .. Len(L[h]), NEW n \in Nodes, n \notin on,
         NEW nxt2,
         \A x \in Heads \cup Nodes :
           nxt2[x] = IF x = At(L, ends, h, k) THEN n
                     ELSE IF x = n THEN nxt[At(L, ends, h, k)] ELSE nxt[x]
  PROVE  Stand(nxt2, on \cup {n}, ends, [L EXCEPT ![h] = Inserted(L[h], k, n)])
<1> DEFINE t == Inserted(L[h], k, n)
           M == [L EXCEPT ![h] = t]
<1>1. /\ L \in [Heads -> Seq(Nodes)] /\ L[h] \in Seq(Nodes) /\ Len(L[h]) \in Nat
      /\ \A g \in Heads : L[g] \in Seq(Nodes) /\ Len(L[g]) \in Nat
  BY DEF Stand
<1>2. /\ t \in Seq(Nodes) /\ Len(t) = Len(L[h]) + 1
      /\ \A i \in 1 .. Len(L[h]) + 1 :
           t[i] = IF i <= k THEN L[h][i] ELSE IF i = k + 1 THEN n ELSE L[h][i - 1]
  BY <1>1, InsertedIs
<1> HIDE DEF t
<1>3. /\ M \in [Heads -> Seq(Nodes)] /\ M[h] = t
      /\ \A g \in Heads : g # h => M[g] = L[g]
  BY <1>1, <1>2
<1> HIDE DEF M
<1>4. \A g \in Heads : g # h => \A i \in Nat : At(M, ends, g, i) = At(L, ends, g, i)
  BY <1>3 DEF At
<1>5. ASSUME NEW i \in Nat, i <= Len(L[h]) + 2
      PROVE  At(M, ends, h, i) = IF i <= k THEN At(L, ends, h, i)
                                 ELSE IF i = k + 1 THEN n ELSE At(L, ends, h, i - 1)
  <2>0. k \in Nat /\ k <= Len(L[h]) /\ i \in Nat /\ i <= Len(L[h]) + 2
    BY <1>1, <1>5
  <2>1. CASE i = 0
    BY <2>0, <2>1 DEF At
  <2>2. CASE i # 0 /\ i <= k
    BY <1>1, <1>2, <1>3, <2>2 DEF At
  <2>3. CASE i = k + 1
    BY <1>1, <1>2, <1>3, <2>3 DEF At
  <2>4. CASE i > k + 1 /\ i <= Len(L[h]) + 1
    BY <1>1, <1>2, <1>3, <2>4 DEF At
  <2>5. CASE i = Len(L[h]) + 2
    BY <1>1, <1>2, <1>3, <2>5 DEF At
  <2>6. i = 0 \/ (i # 0 /\ i <= k) \/ i = k + 1 \/ (i > k + 1 /\ i <= Len(L[h]) + 1)
        \/ i = Len(L[h]) + 2
    BY <1>1, <2>0
  <2> QED BY <2>1, <2>2, <2>3, <2>4, <2>5, <2>6
<1>6. \A g \in Heads : \A i \in 0 .. Len(L[g]) :
        /\ At(L, ends, g, i) \in Heads \cup Nodes
        /\ At(L, ends, g, i) # n
        /\ nxt[At(L, ends, g, i)] = At(L, ends, g, i + 1)
        /\ At(L, ends, g, i) = At(L, ends, h, k) => g = h /\ i = k
  <2> SUFFICES ASSUME NEW g \in Heads, NEW i \in 0 .. Len(L[g])
               PROVE  /\ At(L, ends, g, i) \in Heads \cup Nodes
                      /\ At(L, ends, g, i) # n
                      /\ nxt[At(L, ends, g, i)] = At(L, ends, g, i + 1)
                      /\ At(L, ends, g, i) = At(L, ends, h, k) => g = h /\ i = k
    OBVIOUS
  <2>1. At(L, ends, g, i) \in Heads \cup Nodes
    BY <1>1 DEF At
  <2>2. At(L, ends, g, i) # n
    <3>1. CASE i = 0
      BY <3>1, CellAssumption DEF At
    <3>2. CASE i # 0
      <4>1. i \in 1 .. Len(L[g])
        BY <1>1, <3>2
      <4> QED BY <4>1, NodeAt
    <3> QED BY <3>1, <3>2
  <2>3. nxt[At(L, ends, g, i)] = At(L, ends, g, i + 1)
    BY DEF Stand
  <2> QED BY <2>1, <2>2, <2>3, CellsApart
<1>7. ASSUME NEW g \in Heads, NEW i \in 0 .. Len(M[g])
      PROVE  nxt2[At(M, ends, g, i)] = At(M, ends, g, i + 1)
  <2>1. CASE g # h
    BY <1>1, <1>3, <1>4, <1>6, <2>1
  <2>2. CASE g = h
    <3>0. i \in Nat /\ i <= Len(L[h]) + 1 /\ k \in Nat /\ k <= Len(L[h])
      BY <1>1, <1>2, <1>3, <2>2
    <3>1. CASE i < k
      <4>1. /\ i + 1 \in Nat /\ i + 1 <= Len(L[h]) + 2 /\ i <= Len(L[h]) + 2
            /\ i <= k /\ i + 1 <= k /\ i # k /\ i \in 0 .. Len(L[h])
        BY <1>1, <3>0, <3>1
      <4>2. /\ At(M, ends, h, i) = At(L, ends, h, i)
            /\ At(M, ends, h, i + 1) = At(L, ends, h, i + 1)
        BY <1>5, <3>0, <4>1
      <4> QED BY <1>6, <2>2, <4>1, <4>2
    <3>2. CASE i = k
      <4>1. /\ i + 1 \in Nat /\ i + 1 <= Len(L[h]) + 2 /\ i <= Len(L[h]) + 2
            /\ i <= k /\ ~ i + 1 <= k /\ i + 1 = k + 1 /\ i \in 0 .. Len(L[h])
        BY <1>1, <3>0, <3>2
      <4>2. At(M, ends, h, i) = At(L, ends, h, k) /\ At(M, ends, h, i + 1) = n
        BY <1>5, <3>0, <3>2, <4>1
      <4>3. nxt2[At(L, ends, h, k)] = n
        BY <1>6, <3>2, <4>1
      <4> QED BY <2>2, <4>2, <4>3
    <3>3. CASE i = k + 1
      <4>0. /\ i + 1 \in Nat /\ i + 1 <= Len(L[h]) + 2 /\ i <= Len(L[h]) + 2
            /\ ~ i <= k /\ ~ i + 1 <= k /\ i + 1 # k + 1 /\ (i + 1) - 1 = k + 1
        BY <1>1, <3>0, <3>3
      <4>1. At(M, ends, h, i) = n /\ At(M, ends, h, i + 1) = At(L, ends, h, k + 1)
        BY <1>5, <3>0, <3>3, <4>0
      <4>2. nxt2[n] = nxt[At(L, ends, h, k)]
        BY <1>6, <3>0
      <4> QED BY <1>6, <2>2, <3>0, <4>1, <4>2
    <3>4. CASE i > k + 1
      <4>0. /\ i + 1 \in Nat /\ i + 1 <= Len(L[h]) + 2 /\ i <= Len(L[h]) + 2
            /\ ~ i <= k /\ i # k + 1 /\ ~ i + 1 <= k /\ i + 1 # k + 1 /\ (i + 1) - 1 = i
        BY <1>1, <3>0, <3>4
      <4>1. /\ At(M, ends, h, i) = At(L, ends, h, i - 1)
            /\ At(M, ends, h, i + 1) = At(L, ends, h, i)
        BY <1>5, <3>0, <4>0
      <4>2. i - 1 \in 0 .. Len(L[h]) /\ i - 1 # k /\ (i - 1) + 1 = i
        BY <1>1, <3>0, <3>4
      <4> QED BY <1>6, <2>2, <4>1, <4>2
    <3> QED BY <3>0, <3>1, <3>2, <3>3, <3>4
  <2> QED BY <2>1, <2>2
<1>8. \A g \in Heads : \A i \in 1 .. Len(L[g]) : L[g][i] \in Nodes /\ L[g][i] # n
  BY <1>1 DEF Stand
<1>9. ASSUME NEW f \in Heads, NEW g \in Heads,
             NEW i \in 1 .. Len(M[f]), NEW j \in 1 .. Len(M[g]), M[f][i] = M[g][j]
      PROVE  f = g /\ i = j
  <2>1. \A d, e \in Heads : \A a \in 1 .. Len(L[d]), b \in 1 .. Len(L[e]) :
          L[d][a] = L[e][b] => d = e /\ a = b
    BY DEF Stand
  <2>2. ASSUME NEW e \in Heads, NEW a \in 1 .. Len(M[e])
        PROVE  \/ e = h /\ a = k + 1 /\ M[e][a] = n
               \/ /\ ~ (e = h /\ a = k + 1)
                  /\ \E b \in 1 .. Len(L[e]) :
                       M[e][a] = L[e][b] /\ b = IF e # h \/ a <= k THEN a ELSE a - 1
    <3>1. CASE e # h
      BY <1>3, <3>1
    <3>2. CASE e = h
      <4>1. a \in 1 .. Len(L[h]) + 1 /\ M[e][a] = t[a]
        BY <1>2, <1>3, <3>2
      <4>2. CASE a <= k
        BY <1>1, <1>2, <3>2, <4>1, <4>2
      <4>3. CASE a = k + 1
        BY <1>1, <1>2, <3>2, <4>1, <4>3
      <4>4. CASE a > k + 1
        <5>1. a - 1 \in 1 .. Len(L[h]) /\ t[a] = L[h][a - 1] /\ ~ a <= k
          BY <1>1, <1>2, <4>1, <4>4
        <5> QED BY <3>2, <4>1, <4>4, <5>1
      <4> QED BY <1>1, <4>1, <4>2, <4>3, <4>4
    <3> QED BY <3>1, <3>2
  <2>3. CASE f = h /\ i = k + 1
    <3>1. M[f][i] = n
      BY <2>2, <2>3
    <3>2. ASSUME NEW b \in 1 .. Len(L[g]) PROVE M[g][j] # L[g][b]
      BY <1>8, <1>9, <3>1
    <3>3. g = h /\ j = k + 1
      BY <2>2, <3>2
    <3> QED BY <2>3, <3>3
  <2>4. CASE ~ (f = h /\ i = k + 1)
    <3>1. PICK a \in 1 .. Len(L[f]) :
            M[f][i] = L[f][a] /\ a = IF f # h \/ i <= k THEN i ELSE i - 1
      BY <2>2, <2>4
    <3>2. M[g][j] # n
      BY <1>8, <1>9, <3>1
    <3>3. PICK b \in 1 .. Len(L[g]) :
            /\ M[g][j] = L[g][b] /\ b = IF g # h \/ j <= k THEN j ELSE j - 1
            /\ ~ (g = h /\ j = k + 1)
      BY <2>2, <3>2
    <3>4. f = g /\ a = b
      <4>1. L[f][a] = L[g][b]
        BY <1>9, <3>1, <3>3
      <4> QED BY <2>1, <4>1
    <3>5. i \in Int /\ j \in Int /\ k \in Int
      OBVIOUS
    <3>6. a = (IF f # h \/ i <= k THEN i ELSE i - 1) /\ a = (IF f # h \/ j <= k THEN j ELSE j - 1)
      BY <3>1, <3>3, <3>4
    <3>7. ~ (f = h /\ i = k + 1) /\ ~ (f = h /\ j = k + 1)
      BY <2>4, <3>3, <3>4
    <3>8. i = j
      BY <3>5, <3>6, <3>7
    <3> QED BY <3>4, <3>8
  <2> QED BY <2>3, <2>4
<1>10. on \cup {n} = {m \in Nodes : \E g \in Heads : \E i \in 1 .. Len(M[g]) : M[g][i] = m}
  <2>1. on = {m \in Nodes : \E g \in Heads : \E i \in 1 .. Len(L[g]) : L[g][i] = m}
    BY DEF Stand
  <2>2. k + 1 \in 1 .. Len(M[h]) /\ M[h][k + 1] = n
    BY <1>1, <1>2, <1>3
  <2>3. ASSUME NEW g \in Heads, NEW i \in 1 .. Len(L[g])
        PROVE  \E j \in 1 .. Len(M[g]) : M[g][j] = L[g][i]
    <3>1. CASE g # h
      BY <1>3, <3>1
    <3>2. CASE g = h /\ i <= k
      <4>1. i \in 1 .. Len(L[h]) + 1 /\ t[i] = L[h][i]
        BY <1>1, <1>2, <3>2
      <4> QED BY <1>2, <1>3, <3>2, <4>1
    <3>3. CASE g = h /\ i > k
      <4>0. /\ i + 1 \in 1 .. Len(L[h]) + 1 /\ (i + 1) - 1 = i
            /\ ~ i + 1 <= k /\ i + 1 # k + 1
        BY <1>1, <3>3
      <4>1. t[i + 1] = L[h][i]
        BY <1>2, <4>0
      <4> QED BY <1>2, <1>3, <3>3, <4>0, <4>1
    <3> QED BY <1>1, <3>1, <3>2, <3>3
  <2>4. ASSUME NEW g \in Heads, NEW i \in 1 .. Len(M[g])
        PROVE  M[g][i] = n \/ \E j \in 1 .. Len(L[g]) : L[g][j] = M[g][i]
    <3>1. CASE g # h
      BY <1>3, <3>1
    <3>2. CASE g = h
      <4>1. i \in 1 .. Len(L[h]) + 1 /\ M[g][i] = t[i]
        BY <1>2, <1>3, <3>2
      <4>2. CASE i <= k
        <5>1. i \in 1 .. Len(L[h]) /\ t[i] = L[h][i]
          BY <1>1, <1>2, <4>1, <4>2
        <5> QED BY <3>2, <4>1, <5>1
      <4>3. CASE i = k + 1
        <5>1. t[i] = n
          BY <1>1, <1>2, <4>1, <4>3
        <5> QED BY <4>1, <5>1
      <4>4. CASE i > k + 1
        <5>1. i - 1 \in 1 .. Len(L[h]) /\ t[i] = L[h][i - 1]
          BY <1>1, <1>2, <4>1, <4>4
        <5> QED BY <3>2, <4>1, <5>1
      <4> QED BY <1>1, <4>1, <4>2, <4>3, <4>4
    <3> QED BY <3>1, <3>2
  <2>5. ASSUME NEW m \in Nodes
        PROVE  m \in on \cup {n} <=> \E g \in Heads : \E i \in 1 .. Len(M[g]) : M[g][i] = m
    <3>1. m \in on <=> \E g \in Heads : \E i \in 1 .. Len(L[g]) : L[g][i] = m
      BY <2>1
    <3>2. m \in on \cup {n} => \E g \in Heads : \E i \in 1 .. Len(M[g]) : M[g][i] = m
      <4>1. CASE m = n
        BY <2>2, <4>1
      <4>2. CASE m \in on
        <5>0. PICK g \in Heads : \E i \in 1 .. Len(L[g]) : L[g][i] = m
          BY <3>1, <4>2
        <5>1. PICK i \in 1 .. Len(L[g]) : L[g][i] = m
          BY <5>0
        <5>2. PICK j \in 1 .. Len(M[g]) : M[g][j] = L[g][i]
          BY <2>3
        <5> QED BY <5>1, <5>2
      <4> QED BY <4>1, <4>2
    <3>3. (\E g \in Heads : \E i \in 1 .. Len(M[g]) : M[g][i] = m) => m \in on \cup {n}
      BY <2>4, <3>1
    <3> QED BY <3>2, <3>3
  <2>6. on \subseteq Nodes
    BY <2>1
  <2> QED BY <2>5, <2>6
<1>11. Stand(nxt2, on \cup {n}, ends, M)
  BY <1>3, <1>7, <1>9, <1>10 DEF Stand
<1> QED BY <1>11 DEF M, t

\* A node is taken off its list, where it is at k.
LEMMA DeleteStands ==
  ASSUME NEW nxt, NEW on, NEW ends, NEW L, NotNodes(ends), Stand(nxt, on, ends, L),
         NEW h \in Heads, NEW k \in 1 .. Len(L[h]), NEW nxt2,
         \A x \in Heads \cup Nodes :
           nxt2[x] = IF x = At(L, ends, h, k - 1) THEN nxt[At(L, ends, h, k)] ELSE nxt[x]
  PROVE  Stand(nxt2, on \ {L[h][k]}, ends, [L EXCEPT ![h] = Removed(L[h], k)])
<1> DEFINE t == Removed(L[h], k)
           M == [L EXCEPT ![h] = t]
<1>1. /\ L \in [Heads -> Seq(Nodes)] /\ L[h] \in Seq(Nodes) /\ Len(L[h]) \in Nat
      /\ k \in Nat /\ 1 <= k /\ k <= Len(L[h])
      /\ \A g \in Heads : L[g] \in Seq(Nodes) /\ Len(L[g]) \in Nat
  BY DEF Stand
<1>2. /\ t \in Seq(Nodes) /\ Len(t) = Len(L[h]) - 1
      /\ \A i \in 1 .. Len(L[h]) - 1 : t[i] = IF i < k THEN L[h][i] ELSE L[h][i + 1]
  BY <1>1, RemovedIs
<1> HIDE DEF t
<1>3. /\ M \in [Heads -> Seq(Nodes)] /\ M[h] = t
      /\ \A g \in Heads : g # h => M[g] = L[g]
  BY <1>1, <1>2
<1> HIDE DEF M
<1>4. \A g \in Heads : g # h => \A i \in Nat : At(M, ends, g, i) = At(L, ends, g, i)
  BY <1>3 DEF At
<1>5. ASSUME NEW i \in Nat, i <= Len(L[h])
      PROVE  At(M, ends, h, i) = IF i < k THEN At(L, ends, h, i) ELSE At(L, ends, h, i + 1)
  <2>1. CASE i = 0
    BY <1>1, <2>1 DEF At
  <2>2. CASE i # 0 /\ i < k
    BY <1>1, <1>2, <1>3, <2>2 DEF At
  <2>3. CASE i >= k /\ i < Len(L[h])
    BY <1>1, <1>2, <1>3, <2>3 DEF At
  <2>4. CASE i = Len(L[h])
    BY <1>1, <1>2, <1>3, <2>4 DEF At
  <2> QED BY <1>1, <1>5, <2>1, <2>2, <2>3, <2>4
<1>6. \A g \in Heads : \A i \in 0 .. Len(L[g]) :
        /\ At(L, ends, g, i) \in Heads \cup Nodes
        /\ nxt[At(L, ends, g, i)] = At(L, ends, g, i + 1)
        /\ At(L, ends, g, i) = At(L, ends, h, k - 1) => g = h /\ i = k - 1
  <2> SUFFICES ASSUME NEW g \in Heads, NEW i \in 0 .. Len(L[g])
               PROVE  /\ At(L, ends, g, i) \in Heads \cup Nodes
                      /\ nxt[At(L, ends, g, i)] = At(L, ends, g, i + 1)
                      /\ At(L, ends, g, i) = At(L, ends, h, k - 1) => g = h /\ i = k - 1
    OBVIOUS
  <2>1. At(L, ends, g, i) \in Heads \cup Nodes
    BY <1>1 DEF At
  <2>2. nxt[At(L, ends, g, i)] = At(L, ends, g, i + 1)
    BY DEF Stand
  <2>3. k - 1 \in 0 .. Len(L[h])
    BY <1>1
  <2> QED BY <2>1, <2>2, <2>3, CellsApart
<1>7. ASSUME NEW g \in Heads, NEW i \in 0 .. Len(M[g])
      PROVE  nxt2[At(M, ends, g, i)] = At(M, ends, g, i + 1)
  <2>1. CASE g # h
    BY <1>1, <1>3, <1>4, <1>6, <2>1
  <2>2. CASE g = h
    <3>0. i \in Nat /\ i <= Len(L[h]) - 1
      BY <1>1, <1>2, <1>3, <2>2
    <3>1. CASE i < k - 1
      <4>0. i < k /\ i + 1 \in Nat /\ i + 1 < k /\ i + 1 <= Len(L[h]) /\ i <= Len(L[h])
        BY <1>1, <3>0, <3>1
      <4>1. /\ At(M, ends, h, i) = At(L, ends, h, i)
            /\ At(M, ends, h, i + 1) = At(L, ends, h, i + 1)
        BY <1>5, <3>0, <4>0
      <4> QED BY <1>1, <1>6, <2>2, <3>0, <3>1, <4>1
    <3>2. CASE i = k - 1
      <4>1. /\ At(M, ends, h, i) = At(L, ends, h, k - 1)
            /\ At(M, ends, h, i + 1) = At(L, ends, h, k + 1)
        BY <1>1, <1>5, <3>0, <3>2
      <4>2. nxt[At(L, ends, h, k)] = At(L, ends, h, k + 1)
        BY <1>1, <1>6
      <4>3. k - 1 \in 0 .. Len(L[h])
        BY <1>1
      <4> QED BY <1>6, <2>2, <4>1, <4>2, <4>3
    <3>3. CASE i > k - 1
      <4>1. i + 1 \in Nat /\ i + 1 <= Len(L[h]) /\ ~ i < k /\ ~ i + 1 < k /\ i + 1 # k - 1
        BY <1>1, <3>0, <3>3
      <4>2. /\ At(M, ends, h, i) = At(L, ends, h, i + 1)
            /\ At(M, ends, h, i + 1) = At(L, ends, h, (i + 1) + 1)
        BY <1>5, <3>0, <4>1
      <4> QED BY <1>6, <2>2, <4>1, <4>2
    <3> QED BY <1>1, <3>0, <3>1, <3>2, <3>3
  <2> QED BY <2>1, <2>2
<1>8. \A d, e \in Heads : \A a \in 1 .. Len(L[d]), b \in 1 .. Len(L[e]) :
        L[d][a] = L[e][b] => d = e /\ a = b
  BY DEF Stand
<1>9. ASSUME NEW e \in Heads, NEW a \in 1 .. Len(M[e])
      PROVE  \E b \in 1 .. Len(L[e]) :
               /\ M[e][a] = L[e][b] /\ b = IF e # h \/ a < k THEN a ELSE a + 1
               /\ ~ (e = h /\ b = k)
  <2>1. CASE e # h
    BY <1>3, <2>1
  <2>2. CASE e = h
    <3>1. a \in 1 .. Len(L[h]) - 1 /\ M[e][a] = t[a]
      BY <1>2, <1>3, <2>2
    <3>2. CASE a < k
      BY <1>1, <1>2, <2>2, <3>1, <3>2
    <3>3. CASE ~ a < k
      <4>1. a + 1 \in 1 .. Len(L[h]) /\ t[a] = L[h][a + 1] /\ a + 1 # k
        BY <1>1, <1>2, <3>1, <3>3
      <4> QED BY <2>2, <3>1, <3>3, <4>1
    <3> QED BY <3>2, <3>3
  <2> QED BY <2>1, <2>2
<1>10. ASSUME NEW f \in Heads, NEW g \in Heads,
              NEW i \in 1 .. Len(M[f]), NEW j \in 1 .. Len(M[g]), M[f][i] = M[g][j]
       PROVE  f = g /\ i = j
  <2>1. PICK a \in 1 .. Len(L[f]) :
          M[f][i] = L[f][a] /\ a = IF f # h \/ i < k THEN i ELSE i + 1
    BY <1>9
  <2>2. PICK b \in 1 .. Len(L[g]) :
          M[g][j] = L[g][b] /\ b = IF g # h \/ j < k THEN j ELSE j + 1
    BY <1>9
  <2>3. f = g /\ a = b
    <3>1. L[f][a] = L[g][b]
      BY <1>10, <2>1, <2>2
    <3>2. \A x \in 1 .. Len(L[f]), y \in 1 .. Len(L[g]) :
            L[f][x] = L[g][y] => f = g /\ x = y
      BY <1>8
    <3> QED BY <3>1, <3>2
  <2>4. i \in Int /\ j \in Int /\ k \in Int
    OBVIOUS
  <2>5. /\ a = (IF f # h \/ i < k THEN i ELSE i + 1)
        /\ a = (IF f # h \/ j < k THEN j ELSE j + 1)
    BY <2>1, <2>2, <2>3
  <2>6. i = j
    BY <2>4, <2>5
  <2> QED BY <2>3, <2>6
<1>11. on \ {L[h][k]} = {m \in Nodes : \E g \in Heads : \E i \in 1 .. Len(M[g]) : M[g][i] = m}
  <2>1. on = {m \in Nodes : \E g \in Heads : \E i \in 1 .. Len(L[g]) : L[g][i] = m}
    BY DEF Stand
  <2>2. ASSUME NEW g \in Heads, NEW i \in 1 .. Len(L[g]), L[g][i] # L[h][k]
        PROVE  \E j \in 1 .. Len(M[g]) : M[g][j] = L[g][i]
    <3>1. CASE g # h
      BY <1>3, <3>1
    <3>2. CASE g = h /\ i < k
      <4>1. i \in 1 .. Len(L[h]) - 1 /\ t[i] = L[h][i]
        BY <1>1, <1>2, <3>2
      <4> QED BY <1>2, <1>3, <3>2, <4>1
    <3>3. CASE g = h /\ i > k
      <4>1. i - 1 \in 1 .. Len(L[h]) - 1 /\ t[i - 1] = L[h][i]
        BY <1>1, <1>2, <3>3
      <4> QED BY <1>2, <1>3, <3>3, <4>1
    <3>4. ~ (g = h /\ i = k)
      BY <2>2
    <3> QED BY <1>1, <3>1, <3>2, <3>3, <3>4
  <2>3. ASSUME NEW g \in Heads, NEW i \in 1 .. Len(M[g])
        PROVE  M[g][i] # L[h][k] /\ \E j \in 1 .. Len(L[g]) : L[g][j] = M[g][i]
    <3>1. PICK b \in 1 .. Len(L[g]) : M[g][i] = L[g][b] /\ ~ (g = h /\ b = k)
      BY <1>9
    <3>2. \A x \in 1 .. Len(L[g]), y \in 1 .. Len(L[h]) :
            L[g][x] = L[h][y] => g = h /\ x = y
      BY <1>8
    <3>3. L[g][b] # L[h][k]
      BY <3>1, <3>2
    <3>4. M[g][i] # L[h][k]
      BY <3>1, <3>3
    <3>5. \E j \in 1 .. Len(L[g]) : L[g][j] = M[g][i]
      BY <3>1
    <3> QED BY <3>4, <3>5
  <2>4. ASSUME NEW m \in Nodes, m \in on, m # L[h][k]
        PROVE  \E g \in Heads : \E i \in 1 .. Len(M[g]) : M[g][i] = m
    <3>1. PICK g \in Heads : \E i \in 1 .. Len(L[g]) : L[g][i] = m
      BY <2>1, <2>4
    <3>2. PICK i \in 1 .. Len(L[g]) : L[g][i] = m
      BY <3>1
    <3>3. \E j \in 1 .. Len(M[g]) : M[g][j] = L[g][i]
      BY <2>2, <2>4, <3>2
    <3> QED BY <3>2, <3>3
  <2>5. ASSUME NEW m \in Nodes, NEW g \in Heads, NEW i \in 1 .. Len(M[g]), M[g][i] = m
        PROVE  m \in on /\ m # L[h][k]
    BY <2>1, <2>3, <2>5
  <2> QED BY <2>1, <2>4, <2>5
<1>12. Stand(nxt2, on \ {L[h][k]}, ends, M)
  BY <1>3, <1>7, <1>10, <1>11 DEF Stand
<1> QED BY <1>12 DEF M, t

-----------------------------------------------------------------------------
\* Induction over the natural numbers, told of a set.
LEMMA LeastNumber ==
  ASSUME NEW S \in SUBSET Nat, S # {}
  PROVE  \E n \in S : \A m \in S : n <= m
<1>1. IsWellFoundedOn(OpToRel(<, Nat), Nat)
  BY NatLessThanWellFounded
<1>2. PICK n \in S : \A m \in S : ~ (<<m, n>> \in OpToRel(<, Nat))
  BY <1>1, WFMin
<1>3. ASSUME NEW m \in S PROVE n <= m
  <2>1. m \in Nat /\ n \in Nat /\ (m < n \/ n <= m)
    OBVIOUS
  <2>2. m < n => <<m, n>> \in OpToRel(<, Nat)
    BY <2>1 DEF OpToRel
  <2> QED BY <2>1, <2>2, <1>2
<1> QED BY <1>3

LEMMA Induction ==
  ASSUME NEW S, 0 \in S, \A n \in Nat : n \in S => n + 1 \in S
  PROVE  Nat \subseteq S
<1> SUFFICES ASSUME Nat \ S # {} PROVE FALSE
  OBVIOUS
<1>1. PICK x \in Nat \ S : \A y \in Nat \ S : x <= y
  <2>1. Nat \ S \in SUBSET Nat
    OBVIOUS
  <2> QED BY <2>1, LeastNumber
<1>2. x - 1 \in Nat /\ ~ x <= x - 1 /\ (x - 1) + 1 = x
  OBVIOUS
<1>3. x - 1 \in S
  BY <1>1, <1>2
<1> QED BY <1>2, <1>3

\* A list of nodes without repetitions is no longer than the nodes are many.
LEMMA NoLonger ==
  ASSUME NEW nxt, NEW on, NEW ends, NEW L, Stand(nxt, on, ends, L), NEW h \in Heads
  PROVE  Len(L[h]) \in Nat /\ Cardinality(Nodes) \in Nat /\ Len(L[h]) <= Cardinality(Nodes)
<1>1. L[h] \in Seq(Nodes)
  BY DEF Stand
<1>2. L[h] \in Injection(1 .. Len(L[h]), Nodes)
  BY <1>1 DEF Stand, Injection, IsInjective
<1>3. Cardinality(Nodes) \in Nat
  BY CellAssumption, FS_CardinalityType
<1>4. Cardinality(1 .. Len(L[h])) <= Cardinality(Nodes)
  BY <1>2, CellAssumption, FS_Injection
<1>5. Cardinality(1 .. Len(L[h])) = Len(L[h])
  BY <1>1, FS_Interval
<1> QED BY <1>1, <1>3, <1>4, <1>5

\* Following the pointers from the cell at j gives what the list has from there on.
LEMMA AlongIs ==
  ASSUME NEW nxt, NEW on, NEW ends, NEW L, NotNodes(ends), Stand(nxt, on, ends, L),
         NEW h \in Heads, NEW j \in 1 .. Len(L[h]) + 1
  PROVE  Along(nxt, At(L, ends, h, j), ends[h]) = SubSeq(L[h], j, Len(L[h]))
<1> DEFINE s == L[h]
           c == At(L, ends, h, j)
           end == ends[h]
           m == Len(s) + 1 - j
           Eq(f) == f = [i \in Nat |-> IF i = 0 THEN c
                                       ELSE IF f[i - 1] = end THEN end ELSE nxt[f[i - 1]]]
           g == [i \in Nat |-> IF i < m THEN s[j + i] ELSE end]
           at == CHOOSE f : Eq(f)
           E == {i \in 0 .. Cardinality(Nodes) : at[i] = end}
<1>1. /\ s \in Seq(Nodes) /\ Len(s) \in Nat /\ Len(s) <= Cardinality(Nodes)
      /\ Cardinality(Nodes) \in Nat /\ m \in Nat /\ m <= Len(s) /\ j \in Nat /\ 1 <= j
  <2>1. s \in Seq(Nodes) /\ Len(s) \in Nat
    BY DEF Stand
  <2>2. Len(s) <= Cardinality(Nodes) /\ Cardinality(Nodes) \in Nat
    BY NoLonger
  <2>3. j \in Nat /\ 1 <= j /\ j <= Len(s) + 1
    BY <2>1
  <2> QED BY <2>1, <2>2, <2>3
<1>2. end \notin Nodes /\ \A i \in 1 .. Len(s) : s[i] \in Nodes /\ s[i] # end
  BY <1>1 DEF NotNodes
<1>3. /\ \A i \in 1 .. Len(s) : At(L, ends, h, i) = s[i]
      /\ At(L, ends, h, Len(s) + 1) = end
  BY <1>1 DEF At
<1>4. /\ \A i \in 1 .. Len(s) - 1 : nxt[s[i]] = s[i + 1]
      /\ Len(s) > 0 => nxt[s[Len(s)]] = end
  <2>1. \A i \in 1 .. Len(s) : nxt[At(L, ends, h, i)] = At(L, ends, h, i + 1)
    BY <1>1 DEF Stand
  <2>2. ASSUME NEW i \in 1 .. Len(s) - 1 PROVE nxt[s[i]] = s[i + 1]
    <3>1. i \in 1 .. Len(s) /\ i + 1 \in 1 .. Len(s)
      BY <1>1
    <3> QED BY <1>3, <2>1, <3>1
  <2>3. Len(s) > 0 => Len(s) \in 1 .. Len(s)
    BY <1>1
  <2> QED BY <1>3, <2>1, <2>2, <2>3
<1>5. Along(nxt, c, end) =
        IF E = {} THEN <<NULL>>
        ELSE [i \in 1 .. CHOOSE e \in E : \A f \in E : e <= f |-> at[i - 1]]
  BY DEF Along
<1>6. ASSUME NEW i \in Nat
      PROVE  g[i] = IF i = 0 THEN c ELSE IF g[i - 1] = end THEN end ELSE nxt[g[i - 1]]
  <2>1. CASE i = 0
    BY <1>1, <1>3, <2>1
  <2>2. CASE i # 0
    <3>1. i - 1 \in Nat
      BY <2>2
    <3>2. CASE i - 1 >= m
      BY <1>1, <2>2, <3>1, <3>2
    <3>3. CASE i - 1 < m - 1
      <4>1. /\ j + (i - 1) \in 1 .. Len(s) - 1 /\ j + (i - 1) \in 1 .. Len(s)
            /\ (j + (i - 1)) + 1 = j + i
        BY <1>1, <3>1, <3>3
      <4>2. i < m /\ i - 1 < m
        BY <1>1, <3>1, <3>3
      <4>3. g[i] = s[j + i] /\ g[i - 1] = s[j + (i - 1)]
        BY <3>1, <4>2
      <4>4. s[j + (i - 1)] # end /\ nxt[s[j + (i - 1)]] = s[j + i]
        BY <1>2, <1>4, <4>1
      <4> QED BY <2>2, <4>3, <4>4
    <3>4. CASE i - 1 = m - 1
      <4>1. j + (i - 1) = Len(s) /\ Len(s) > 0
        BY <1>1, <3>1, <3>4
      <4> QED BY <1>1, <1>2, <1>4, <2>2, <3>1, <3>4, <4>1
    <3> QED BY <1>1, <3>1, <3>2, <3>3, <3>4
  <2> QED BY <2>1, <2>2
<1>7. Eq(g)
  BY <1>6
<1> HIDE DEF g
<1>8. Eq(at)
  BY <1>7
<1> HIDE DEF at
<1>9. \A i \in Nat : at[i] = g[i]
  <2> DEFINE T == {i \in Nat : at[i] = g[i]}
  <2>1. 0 \in T
    BY <1>7, <1>8
  <2>2. ASSUME NEW i \in Nat, i \in T PROVE i + 1 \in T
    <3>1. i + 1 \in Nat /\ i + 1 # 0 /\ (i + 1) - 1 = i
      OBVIOUS
    <3>2. at[i + 1] = IF at[i] = end THEN end ELSE nxt[at[i]]
      BY <1>8, <3>1
    <3>3. g[i + 1] = IF g[i] = end THEN end ELSE nxt[g[i]]
      BY <1>7, <3>1
    <3> QED BY <2>2, <3>2, <3>3
  <2> HIDE DEF T
  <2>3. Nat \subseteq T
    BY <2>1, <2>2, Induction
  <2> QED BY <2>3 DEF T
<1>10. \A i \in Nat : at[i] = IF i < m THEN s[j + i] ELSE end
  BY <1>9 DEF g
<1>11. E = m .. Cardinality(Nodes)
  <2>1. ASSUME NEW i \in 0 .. Cardinality(Nodes) PROVE at[i] = end <=> i >= m
    <3>1. i < m => j + i \in 1 .. Len(s)
      BY <1>1
    <3> QED BY <1>1, <1>2, <1>10, <3>1
  <2> QED BY <1>1, <2>1
<1> HIDE DEF E
<1>12. m \in E /\ \A f \in E : m <= f
  BY <1>1, <1>11
<1>13. (CHOOSE e \in E : \A f \in E : e <= f) = m
  <2>1. ASSUME NEW e \in E, \A f \in E : e <= f PROVE e = m
    <3>1. e <= m /\ m <= e
      BY <1>12, <2>1
    <3>2. e \in Nat
      BY <1>1, <1>11
    <3> QED BY <1>1, <3>1, <3>2
  <2> QED BY <1>12, <2>1
<1>14. Along(nxt, c, end) = [i \in 1 .. m |-> at[i - 1]]
  BY <1>5, <1>12, <1>13
<1>15. [i \in 1 .. m |-> at[i - 1]] = [i \in 1 .. m |-> s[i + j - 1]]
  <2>1. ASSUME NEW i \in 1 .. m PROVE at[i - 1] = s[i + j - 1]
    <3>1. i - 1 \in Nat /\ i - 1 < m /\ j + (i - 1) = i + j - 1
      BY <1>1
    <3> QED BY <1>10, <3>1
  <2> QED BY <2>1
<1>16. SubSeq(s, j, Len(s)) = [i \in 1 .. m |-> s[i + j - 1]]
  BY <1>1
<1> QED BY <1>14, <1>15, <1>16

-----------------------------------------------------------------------------
\* The lists are the sequences that the pointers stand for.
LEMMA SequencesAre ==
  ASSUME NEW nxt, NEW on, NEW ends, NEW L, NotNodes(ends), Stand(nxt, on, ends, L)
  PROVE  /\ \A h \in Heads : nxt[h] = At(L, ends, h, 1) /\ Along(nxt, nxt[h], ends[h]) = L[h]
         /\ [h \in Heads |-> Along(nxt, nxt[h], ends[h])] = L
<1>1. L \in [Heads -> Seq(Nodes)]
  BY DEF Stand
<1>2. ASSUME NEW h \in Heads
      PROVE  nxt[h] = At(L, ends, h, 1) /\ Along(nxt, nxt[h], ends[h]) = L[h]
  <2>1. L[h] \in Seq(Nodes) /\ Len(L[h]) \in Nat
    BY <1>1
  <2>2. nxt[h] = At(L, ends, h, 1)
    <3>1. 0 \in 0 .. Len(L[h]) /\ 0 + 1 = 1
      BY <2>1
    <3>2. nxt[At(L, ends, h, 0)] = At(L, ends, h, 0 + 1)
      BY <3>1 DEF Stand
    <3> QED BY <3>1, <3>2 DEF At
  <2>3. Along(nxt, At(L, ends, h, 1), ends[h]) = SubSeq(L[h], 1, Len(L[h]))
    <3>1. 1 \in 1 .. Len(L[h]) + 1
      BY <2>1
    <3> QED BY <3>1, AlongIs
  <2>4. SubSeq(L[h], 1, Len(L[h])) = L[h]
    BY <2>1, SubSeqFull
  <2> QED BY <2>2, <2>3, <2>4
<1> QED BY <1>1, <1>2

\* Lists without nodes.
LEMMA EmptyStands ==
  ASSUME NEW nxt, NEW ends, \A h \in Heads : nxt[h] = ends[h]
  PROVE  Stand(nxt, {}, ends, [h \in Heads |-> <<>>])
<1> DEFINE L == [h \in Heads |-> <<>>]
<1>1. \A h \in Heads : L[h] = <<>> /\ L[h] \in Seq(Nodes) /\ Len(L[h]) = 0
  OBVIOUS
<1>2. L \in [Heads -> Seq(Nodes)]
  BY <1>1
<1>3. ASSUME NEW h \in Heads, NEW i \in 0 .. Len(L[h])
      PROVE  nxt[At(L, ends, h, i)] = At(L, ends, h, i + 1)
  <2>1. i = 0
    BY <1>1
  <2>2. At(L, ends, h, 0) = h /\ At(L, ends, h, 1) = ends[h]
    BY <1>1 DEF At
  <2> QED BY <2>1, <2>2
<1>4. \A h \in Heads : 1 .. Len(L[h]) = {}
  BY <1>1
<1> HIDE DEF L
<1> QED BY <1>2, <1>3, <1>4 DEF Stand, L

\* The nodes that are on no sequence are those that are on no list.
LEMMA LooseAre ==
  ASSUME NEW nxt, NEW on, NEW ends, NEW L, Stand(nxt, on, ends, L)
  PROVE  Nodes \ UNION {ToSet(L[h]) : h \in Heads} = Nodes \ on
<1>1. \A h \in Heads : ToSet(L[h]) = {L[h][i] : i \in 1 .. Len(L[h])}
  <2> SUFFICES ASSUME NEW h \in Heads
               PROVE  ToSet(L[h]) = {L[h][i] : i \in 1 .. Len(L[h])}
    OBVIOUS
  <2>1. L[h] \in Seq(Nodes)
    BY DEF Stand
  <2> QED BY <2>1 DEF ToSet
<1>2. on = {n \in Nodes : \E h \in Heads : \E i \in 1 .. Len(L[h]) : L[h][i] = n}
  BY DEF Stand
<1>3. ASSUME NEW n \in Nodes
      PROVE  n \in UNION {ToSet(L[h]) : h \in Heads} <=> n \in on
  <2>1. n \in UNION {ToSet(L[h]) : h \in Heads} <=> \E h \in Heads : n \in ToSet(L[h])
    OBVIOUS
  <2>2. \A h \in Heads : n \in ToSet(L[h]) <=> \E i \in 1 .. Len(L[h]) : L[h][i] = n
    BY <1>1
  <2> QED BY <1>2, <2>1, <2>2
<1> QED BY <1>3

-----------------------------------------------------------------------------
\* Loops, the same for both kinds of lists.  The loop v goes on with the cell at j,
\* and the node it is at may be on its list just before j only.
VisitAt(L, ends, v, j) ==
  /\ IF v.safe THEN v.tmp = At(L, ends, v.head, j)
     ELSE j > 1 /\ v.elem = L[v.head][j - 1]
  /\ \A i \in 1 .. Len(L[v.head]) : L[v.head][i] = v.elem => i = j - 1

Visiting(L, ends, v) ==
  v # NULL => v \in Visits /\ \E j \in 1 .. Len(L[v.head]) + 1 : VisitAt(L, ends, v, j)

\* A list ends at its head or at NULL.
CellEnds(ends) == \A h \in Heads : ends[h] \in Heads \cup {NULL}

LEMMA EndsApart == ASSUME NEW ends, CellEnds(ends) PROVE NotNodes(ends)
  BY CellAssumption DEF NotNodes, CellEnds

\* What a loop has yet to visit.
LEMMA TodoIs ==
  ASSUME NEW nxt, NEW on, NEW ends, NEW L, CellEnds(ends), Stand(nxt, on, ends, L),
         NEW v \in Visits, NEW j \in 1 .. Len(L[v.head]) + 1, VisitAt(L, ends, v, j)
  PROVE  /\ v.head \in Heads /\ L[v.head] \in Seq(Nodes) /\ v # NULL
         /\ Goes(nxt, v) = At(L, ends, v.head, j)
         /\ Todo(nxt, v, ends[v.head]) = <<v.elem>> \o SubSeq(L[v.head], j, Len(L[v.head]))
<1> DEFINE h == v.head
<1>1. h \in Heads /\ L[h] \in Seq(Nodes) /\ Len(L[h]) \in Nat
  BY DEF Stand, Visits
<1>2. Goes(nxt, v) = At(L, ends, h, j)
  <2>1. CASE v.safe
    BY <2>1 DEF VisitAt, Goes
  <2>2. CASE ~ v.safe
    <3>1. j - 1 \in 1 .. Len(L[h]) /\ j - 1 \in 0 .. Len(L[h]) /\ (j - 1) + 1 = j
      BY <1>1, <2>2 DEF VisitAt
    <3>2. v.elem = At(L, ends, h, j - 1)
      BY <1>1, <2>2, <3>1 DEF VisitAt, At
    <3>3. nxt[At(L, ends, h, j - 1)] = At(L, ends, h, (j - 1) + 1)
      BY <1>1, <3>1 DEF Stand
    <3> QED BY <2>2, <3>1, <3>2, <3>3 DEF Goes
  <2> QED BY <2>1, <2>2
<1>3. Along(nxt, At(L, ends, h, j), ends[h]) = SubSeq(L[h], j, Len(L[h]))
  BY <1>1, AlongIs, EndsApart
<1>4. v # NULL
  BY VisitAssumption
<1>5. Todo(nxt, v, ends[h]) = <<v.elem>> \o Along(nxt, Goes(nxt, v), ends[h])
  BY <1>4 DEF Todo
<1> QED BY <1>1, <1>2, <1>3, <1>4, <1>5

\* A loop goes on to the node at j, or is over.
LEMMA LoopIs ==
  ASSUME NEW nxt, NEW on, NEW ends, NEW L, CellEnds(ends), Stand(nxt, on, ends, L),
         NEW h \in Heads, NEW safe \in BOOLEAN, NEW j \in 1 .. Len(L[h]) + 1,
         NEW v, v = LoopAt(nxt, h, safe, At(L, ends, h, j), ends[h])
  PROVE  /\ Visiting(L, ends, v)
         /\ v # NULL => v.head = h
         /\ Todo(nxt, v, ends[h]) = SubSeq(L[h], j, Len(L[h]))
<1> DEFINE e == At(L, ends, h, j)
           w == [head |-> h, safe |-> safe, elem |-> e, tmp |-> nxt[e]]
<1>1. L[h] \in Seq(Nodes) /\ Len(L[h]) \in Nat
  BY DEF Stand
<1>2. CASE j = Len(L[h]) + 1
  <2>1. e = ends[h]
    BY <1>1, <1>2 DEF At
  <2>2. v = NULL
    BY <2>1 DEF LoopAt
  <2>3. SubSeq(L[h], j, Len(L[h])) = <<>>
    BY <1>1, <1>2, SubSeqEmpty
  <2> QED BY <2>2, <2>3 DEF Visiting, Todo
<1>3. CASE j # Len(L[h]) + 1
  <2>1. /\ j \in 1 .. Len(L[h]) /\ j \in 0 .. Len(L[h]) /\ j \in Nat
        /\ j + 1 \in 1 .. Len(L[h]) + 1 /\ j + 1 > 1 /\ (j + 1) - 1 = j
    BY <1>1, <1>3
  <2>2. e = L[h][j] /\ e \in Nodes /\ e # ends[h]
    BY <1>1, <2>1, EndsApart DEF At, NotNodes
  <2>3. nxt[e] = At(L, ends, h, j + 1)
    BY <2>1 DEF Stand
  <2>4. nxt[e] \in Heads \cup Nodes \cup {NULL}
    BY <1>1, <2>1, <2>3 DEF At, CellEnds
  <2>5. w \in Visits
    BY <2>2, <2>4 DEF Visits
  <2>6. v = w
    BY <2>2 DEF LoopAt
  <2>7. VisitAt(L, ends, w, j + 1)
    <3>1. ASSUME NEW i \in 1 .. Len(L[h]), L[h][i] = e PROVE i = j
      BY <2>1, <2>2, <3>1 DEF Stand
    <3> QED BY <2>1, <2>2, <2>3, <3>1 DEF VisitAt
  <2>8. w.head = h /\ w.elem = L[h][j]
    BY <2>2
  <2> HIDE DEF w
  <2>9. Visiting(L, ends, v)
    BY <2>1, <2>5, <2>6, <2>7, <2>8 DEF Visiting
  <2>10. Todo(nxt, w, ends[h]) = <<L[h][j]>> \o SubSeq(L[h], j + 1, Len(L[h]))
    <3>1. j + 1 \in 1 .. Len(L[w.head]) + 1
      BY <2>1, <2>8
    <3>2. Todo(nxt, w, ends[w.head])
            = <<w.elem>> \o SubSeq(L[w.head], j + 1, Len(L[w.head]))
      <4>1. PICK i \in 1 .. Len(L[w.head]) + 1 : i = j + 1
        BY <3>1
      <4>2. VisitAt(L, ends, w, i)
        BY <2>7, <4>1
      <4>3. Todo(nxt, w, ends[w.head]) = <<w.elem>> \o SubSeq(L[w.head], i, Len(L[w.head]))
        BY <2>5, <4>2, TodoIs
      <4> QED BY <4>1, <4>3
    <3> QED BY <2>8, <3>2
  <2>11. SubSeq(L[h], j, Len(L[h])) = <<L[h][j]>> \o SubSeq(L[h], j + 1, Len(L[h]))
    <3>1. Len(L[h]) \in j .. Len(L[h])
      BY <1>1, <2>1
    <3> QED BY <1>1, <2>1, <3>1, SubSeqRecursiveFirst
  <2> QED BY <2>6, <2>8, <2>9, <2>10, <2>11
<1> QED BY <1>2, <1>3

\* A loop begins with all of the list.
LEMMA LoopBegins ==
  ASSUME NEW nxt, NEW on, NEW ends, NEW L, CellEnds(ends), Stand(nxt, on, ends, L),
         NEW h \in Heads, NEW safe \in BOOLEAN,
         NEW v, v = LoopAt(nxt, h, safe, nxt[h], ends[h])
  PROVE  /\ Visiting(L, ends, v)
         /\ v # NULL => v.head = h
         /\ Todo(nxt, v, ends[h]) = L[h]
<1>1. L[h] \in Seq(Nodes) /\ Len(L[h]) \in Nat
  BY DEF Stand
<1>2. nxt[h] = At(L, ends, h, 1) /\ 1 \in 1 .. Len(L[h]) + 1
  BY <1>1, SequencesAre, EndsApart
<1>3. /\ Visiting(L, ends, v)
      /\ v # NULL => v.head = h
      /\ Todo(nxt, v, ends[h]) = SubSeq(L[h], 1, Len(L[h]))
  BY <1>2, LoopIs
<1>4. SubSeq(L[h], 1, Len(L[h])) = L[h]
  BY <1>1, SubSeqFull
<1> QED BY <1>3, <1>4

\* A loop goes on with the rest of what it has yet to visit.
LEMMA LoopGoesOn ==
  ASSUME NEW nxt, NEW on, NEW ends, NEW L, CellEnds(ends), Stand(nxt, on, ends, L),
         NEW v, v # NULL, Visiting(L, ends, v),
         NEW w, w = LoopAt(nxt, v.head, v.safe, Goes(nxt, v), ends[v.head])
  PROVE  /\ v.head \in Heads
         /\ Visiting(L, ends, w)
         /\ w # NULL => w.head = v.head
         /\ Todo(nxt, v, ends[v.head]) # <<>>
         /\ Todo(nxt, w, ends[v.head]) = Tail(Todo(nxt, v, ends[v.head]))
<1> DEFINE h == v.head
<1>1. v \in Visits /\ h \in Heads /\ v.safe \in BOOLEAN /\ v.elem \in Nodes
  BY DEF Visiting, Visits
<1>2. PICK j \in 1 .. Len(L[h]) + 1 : VisitAt(L, ends, v, j)
  BY DEF Visiting
<1> DEFINE u == SubSeq(L[h], j, Len(L[h]))
<1>3. /\ Goes(nxt, v) = At(L, ends, h, j)
      /\ Todo(nxt, v, ends[h]) = <<v.elem>> \o u
      /\ L[h] \in Seq(Nodes)
  BY <1>1, <1>2, TodoIs
<1>4. /\ Visiting(L, ends, w)
      /\ w # NULL => w.head = h
      /\ Todo(nxt, w, ends[h]) = u
  BY <1>1, <1>3, LoopIs
<1>5. u \in Seq(Nodes)
  BY <1>3, SubSeqProperties
<1> HIDE DEF u
<1>6. <<v.elem>> \o u # <<>> /\ Tail(<<v.elem>> \o u) = u
  BY <1>1, <1>5
<1> QED BY <1>1, <1>3, <1>4, <1>6

\* Two states in which a loop has the same nodes ahead of it.
LEMMA SameAhead ==
  ASSUME NEW ends, CellEnds(ends), NEW v \in Visits,
         NEW nxt, NEW on, NEW L, Stand(nxt, on, ends, L),
         NEW j \in 1 .. Len(L[v.head]) + 1, VisitAt(L, ends, v, j),
         NEW nxt2, NEW on2, NEW L2, Stand(nxt2, on2, ends, L2),
         NEW k \in 1 .. Len(L2[v.head]) + 1, VisitAt(L2, ends, v, k)
  PROVE  SubSeq(L2[v.head], k, Len(L2[v.head])) = SubSeq(L[v.head], j, Len(L[v.head]))
           => Todo(nxt2, v, ends[v.head]) = Todo(nxt, v, ends[v.head])
<1> DEFINE Spot(M) == 1 .. Len(M[v.head]) + 1
           Right(a, M, i) ==
             Todo(a, v, ends[v.head]) = <<v.elem>> \o SubSeq(M[v.head], i, Len(M[v.head]))
<1>1. \A a, b, M : Stand(a, b, ends, M)
        => \A i \in Spot(M) : VisitAt(M, ends, v, i) => Right(a, M, i)
  <2> SUFFICES ASSUME NEW a, NEW b, NEW M, Stand(a, b, ends, M),
                      NEW i \in Spot(M), VisitAt(M, ends, v, i)
               PROVE  Right(a, M, i)
    OBVIOUS
  <2> QED BY TodoIs
<1>2. j \in Spot(L) /\ k \in Spot(L2)
  OBVIOUS
<1> HIDE DEF Spot, Right
<1>3. Right(nxt, L, j) /\ Right(nxt2, L2, k)
  BY <1>1, <1>2
<1> QED BY <1>3 DEF Right

\* A loop goes on unaware of what changes on other lists than its own.
LEMMA LoopSame ==
  ASSUME NEW ends, CellEnds(ends),
         NEW nxt, NEW on, NEW L, Stand(nxt, on, ends, L),
         NEW nxt2, NEW on2, NEW L2, Stand(nxt2, on2, ends, L2),
         NEW v, Visiting(L, ends, v), v # NULL => L2[v.head] = L[v.head]
  PROVE  /\ Visiting(L2, ends, v)
         /\ v # NULL => v.head \in Heads
         /\ v # NULL => Todo(nxt2, v, ends[v.head]) = Todo(nxt, v, ends[v.head])
<1>1. CASE v = NULL
  BY <1>1 DEF Visiting
<1>2. CASE v # NULL
  <2>1. PICK j \in 1 .. Len(L[v.head]) + 1 : VisitAt(L, ends, v, j)
    BY <1>2 DEF Visiting
  <2>2. v \in Visits /\ v.head \in Heads
    BY <1>2 DEF Visiting, Visits
  <2>3. j \in 1 .. Len(L2[v.head]) + 1 /\ VisitAt(L2, ends, v, j)
    BY <1>2, <2>1 DEF VisitAt, At
  <2>4. Visiting(L2, ends, v)
    BY <2>2, <2>3 DEF Visiting
  <2>5. Todo(nxt2, v, ends[v.head]) = Todo(nxt, v, ends[v.head])
    BY <1>2, <2>1, <2>2, <2>3, SameAhead
  <2> QED BY <1>2, <2>2, <2>4, <2>5
<1> QED BY <1>1, <1>2

\* The node that a safe loop is at leaves the list.
LEMMA LoopDeletes ==
  ASSUME NEW ends, CellEnds(ends),
         NEW nxt, NEW on, NEW L, Stand(nxt, on, ends, L),
         NEW nxt2, NEW on2, NEW L2, Stand(nxt2, on2, ends, L2),
         NEW v, v # NULL, Visiting(L, ends, v), v.safe,
         NEW k \in 1 .. Len(L[v.head]), v.elem = L[v.head][k],
         L2[v.head] = Removed(L[v.head], k)
  PROVE  /\ Visiting(L2, ends, v)
         /\ v.head \in Heads
         /\ Todo(nxt2, v, ends[v.head]) = Todo(nxt, v, ends[v.head])
<1> DEFINE h == v.head
           s == L[h]
           t == Removed(s, k)
<1>1. /\ h \in Heads /\ v \in Visits
      /\ L \in [Heads -> Seq(Nodes)] /\ s \in Seq(Nodes) /\ Len(s) \in Nat
  BY DEF Visiting, Visits, Stand
<1>2. PICK j \in 1 .. Len(s) + 1 : VisitAt(L, ends, v, j)
  BY DEF Visiting
<1>3. k = j - 1
  BY <1>2 DEF VisitAt
<1>4. /\ t \in Seq(Nodes) /\ Len(t) = Len(s) - 1
      /\ \A i \in 1 .. Len(s) - 1 : t[i] = IF i < k THEN s[i] ELSE s[i + 1]
  <2>1. s \in Seq(Nodes) /\ k \in 1 .. Len(s)
    BY <1>1
  <2> HIDE DEF s
  <2> QED BY <2>1, RemovedIs
<1>5. L2[h] = t
  BY <1>1
<1> HIDE DEF t
<1>6. /\ k \in Nat /\ j \in Nat /\ k >= 1 /\ k <= Len(s) /\ j = k + 1
      /\ k \in 1 .. Len(t) + 1
  BY <1>1, <1>3, <1>4
<1>7. At(L2, ends, h, k) = At(L, ends, h, j)
  <2>1. CASE k <= Len(s) - 1
    <3>1. k \in 1 .. Len(s) - 1 /\ ~ k < k /\ k # 0 /\ j # 0 /\ j <= Len(s)
      BY <1>1, <1>6, <2>1
    <3> QED BY <1>4, <1>5, <1>6, <2>1, <3>1 DEF At
  <2>2. CASE k = Len(s)
    <3>1. ~ k <= Len(t) /\ ~ j <= Len(s) /\ k # 0 /\ j # 0
      BY <1>1, <1>4, <1>6, <2>2
    <3> QED BY <1>5, <3>1 DEF At
  <2> QED BY <1>1, <1>6, <2>1, <2>2
<1>8. ASSUME NEW i \in 1 .. Len(t) PROVE t[i] # v.elem
  <2>1. \A x \in 1 .. Len(s) : s[x] = s[k] => x = k
    BY <1>1 DEF Stand
  <2>2. i \in 1 .. Len(s) - 1
    BY <1>4
  <2>3. CASE i < k
    <3>1. i \in 1 .. Len(s) /\ i # k /\ t[i] = s[i]
      BY <1>1, <1>4, <1>6, <2>2, <2>3
    <3> QED BY <2>1, <3>1
  <2>4. CASE ~ i < k
    <3>1. i + 1 \in 1 .. Len(s) /\ i + 1 # k /\ t[i] = s[i + 1]
      BY <1>1, <1>4, <1>6, <2>2, <2>4
    <3> QED BY <2>1, <3>1
  <2> QED BY <2>3, <2>4
<1>9. VisitAt(L2, ends, v, k)
  BY <1>2, <1>5, <1>7, <1>8 DEF VisitAt
<1>10. Visiting(L2, ends, v)
  BY <1>1, <1>5, <1>6, <1>9 DEF Visiting
<1>11. SubSeq(t, k, Len(t)) = SubSeq(s, j, Len(s))
  <2>1. SubSeq(t, k, Len(t)) = [i \in 1 .. Len(s) - k |-> t[i + k - 1]]
    <3>1. Len(t) - k + 1 = Len(s) - k
      BY <1>1, <1>4, <1>6
    <3> QED BY <1>1, <1>4, <1>6, <3>1
  <2>2. SubSeq(s, j, Len(s)) = [i \in 1 .. Len(s) - k |-> s[i + j - 1]]
    <3>1. Len(s) - j + 1 = Len(s) - k
      BY <1>1, <1>6
    <3> QED BY <1>1, <1>6, <3>1
  <2>3. ASSUME NEW i \in 1 .. Len(s) - k PROVE t[i + k - 1] = s[i + j - 1]
    <3>1. /\ i + k - 1 \in 1 .. Len(s) - 1 /\ ~ i + k - 1 < k
          /\ (i + k - 1) + 1 = i + j - 1
      BY <1>1, <1>6
    <3> QED BY <1>4, <3>1
  <2> QED BY <2>1, <2>2, <2>3
<1>12. Todo(nxt2, v, ends[h]) = Todo(nxt, v, ends[h])
  BY <1>1, <1>2, <1>5, <1>6, <1>9, <1>11, SameAhead
<1> QED BY <1>1, <1>10, <1>12

-----------------------------------------------------------------------------
(* The rings of ListHead.                                                   *)
Pointers ==
  /\ next \in [Heads \cup Nodes -> Heads \cup Nodes \cup {NULL}]
  /\ prev \in [Heads \cup Nodes -> Heads \cup Nodes \cup {NULL}]
  /\ listed \subseteq Nodes

RingInv == Pointers /\ Linked

LEMMA RingInit == Init => RingInv
  BY CellAssumption DEF Init, RingInv, Pointers, Linked, Cells

\* A node that is not on a list is put behind a cell of a list.
LEMMA InsertKeepsLinked ==
  ASSUME RingInv, NEW n \in Nodes, n \notin listed, NEW c \in Cells,
         InsertAfter(n, c), listed' = listed \cup {n}
  PROVE  RingInv'
<1> DEFINE d == next[c]
<1>1. /\ n \in Heads \cup Nodes /\ n \notin Cells
      /\ d \in Cells /\ Cells \subseteq Heads \cup Nodes
      /\ Cells' = Cells \cup {n}
      /\ n # c /\ n # d
  BY CellAssumption DEF RingInv, Pointers, Linked, Cells
<1>2. Pointers'
  BY <1>1 DEF RingInv, Pointers, InsertAfter
<1>3. \A x \in Heads \cup Nodes :
        /\ next'[x] = IF x = c THEN n ELSE IF x = n THEN d ELSE next[x]
        /\ prev'[x] = IF x = d THEN n ELSE IF x = n THEN c ELSE prev[x]
  BY <1>1 DEF RingInv, Pointers, InsertAfter
<1>4. \A x \in Cells : next[x] \in Cells /\ prev[x] \in Cells
                       /\ prev[next[x]] = x /\ next[prev[x]] = x
  BY DEF RingInv, Linked
<1>5. Linked'
  BY <1>1, <1>3, <1>4 DEF Linked
<1> QED
  BY <1>2, <1>5 DEF RingInv

\* The neighbours of a node that is taken off are linked to each other.
LEMMA DeleteKeepsLinked ==
  ASSUME RingInv, NEW n \in Nodes, list_del(n)
  PROVE  RingInv'
<1> DEFINE b == prev[n]
           d == next[n]
<1>1. /\ n \in listed /\ n \in Cells /\ b \in Cells /\ d \in Cells
      /\ Cells \subseteq Heads \cup Nodes
      /\ Cells' = Cells \ {n}
  BY CellAssumption DEF RingInv, Pointers, Linked, Cells, list_del, MayDelete
<1>2. Pointers'
  BY <1>1 DEF RingInv, Pointers, list_del
<1>3. \A x \in Heads \cup Nodes :
        /\ next'[x] = IF x = b THEN d ELSE next[x]
        /\ prev'[x] = IF x = d THEN b ELSE prev[x]
  BY <1>1 DEF RingInv, Pointers, list_del
<1>4. \A x \in Cells : next[x] \in Cells /\ prev[x] \in Cells
                       /\ prev[next[x]] = x /\ next[prev[x]] = x
  BY DEF RingInv, Linked
<1>5. prev[d] = n /\ next[b] = n
  BY <1>1, <1>4
<1>6. ASSUME NEW x \in Cells, x # n
      PROVE  /\ next'[x] \in Cells \ {n} /\ prev'[next'[x]] = x
             /\ prev'[x] \in Cells \ {n} /\ next'[prev'[x]] = x
  <2>1. next'[x] \in Cells \ {n} /\ prev'[next'[x]] = x
    <3>1. CASE x = b
      BY <1>1, <1>3, <1>4, <1>5, <1>6, <3>1
    <3>2. CASE x # b
      BY <1>1, <1>3, <1>4, <1>5, <1>6, <3>2
    <3> QED
      BY <3>1, <3>2
  <2>2. prev'[x] \in Cells \ {n} /\ next'[prev'[x]] = x
    <3>1. CASE x = d
      BY <1>1, <1>3, <1>4, <1>5, <1>6, <3>1
    <3>2. CASE x # d
      BY <1>1, <1>3, <1>4, <1>5, <1>6, <3>2
    <3> QED
      BY <3>1, <3>2
  <2> QED
    BY <2>1, <2>2
<1>7. Linked'
  BY <1>1, <1>6 DEF Linked
<1> QED
  BY <1>2, <1>7 DEF RingInv

LEMMA RingNext == RingInv /\ [Next]_vars => RingInv'
<1> SUFFICES ASSUME RingInv, [Next]_vars PROVE RingInv'
  OBVIOUS
<1>1. ASSUME NEW n \in Nodes, NEW h \in Heads, list_add(n, h)
      PROVE  RingInv'
  <2>1. h \in Cells
    BY DEF Cells
  <2> QED
    BY <1>1, <2>1, InsertKeepsLinked DEF list_add, MayAdd
<1>2. ASSUME NEW n \in Nodes, NEW h \in Heads, list_append(n, h)
      PROVE  RingInv'
  <2>1. prev[h] \in Cells
    BY DEF RingInv, Linked, Cells
  <2> QED
    BY <1>2, <2>1, InsertKeepsLinked DEF list_append, MayAdd
<1>3. ASSUME NEW n \in Nodes, list_del(n)
      PROVE  RingInv'
  BY <1>3, DeleteKeepsLinked
<1>4. ASSUME UNCHANGED ringVars
      PROVE  RingInv'
  BY <1>4 DEF RingInv, Pointers, Linked, Cells, ringVars
<1>5. ASSUME NEW h \in Heads, NEW safe \in BOOLEAN, for_each_in_list(h, safe)
      PROVE  RingInv'
  BY <1>4, <1>5 DEF for_each_in_list
<1>6. CASE Advance
  BY <1>4, <1>6 DEF Advance
<1>7. CASE Break
  BY <1>4, <1>7 DEF Break
<1>8. CASE UNCHANGED vars
  BY <1>4, <1>8 DEF vars
<1> QED
  BY <1>1, <1>2, <1>3, <1>5, <1>6, <1>7, <1>8 DEF Next

-----------------------------------------------------------------------------
\* The sequences that the rings stand for, and what a traversal has yet to visit.
RingEnds == [h \in Heads |-> h]

Rings == [h \in Heads |-> Ring(h)]

RingTodo == Todo(next, visit, visit.head)

RingsStand == Stand(next, listed, RingEnds, Rings)

RingIInv == RingInv /\ RingsStand /\ Visiting(Rings, RingEnds, visit)

LEMMA RingEndsAre ==
  NotNodes(RingEnds) /\ CellEnds(RingEnds) /\ \A h \in Heads : RingEnds[h] = h
  BY CellAssumption DEF NotNodes, CellEnds, RingEnds

\* The rings are the sequences that the pointers stand for.
LEMMA RingsAre ==
  ASSUME NEW nxt, NEW on, NEW L, Stand(nxt, on, RingEnds, L)
  PROVE  [h \in Heads |-> Along(nxt, nxt[h], h)] = L
<1>1. [h \in Heads |-> Along(nxt, nxt[h], RingEnds[h])] = L
  BY SequencesAre, RingEndsAre
<1>2. \A h \in Heads : Along(nxt, nxt[h], RingEnds[h]) = Along(nxt, nxt[h], h)
  BY RingEndsAre
<1> QED BY <1>1, <1>2

LEMMA RingsInsert ==
  ASSUME RingInv, RingsStand, NEW n \in Nodes, n \notin listed,
         NEW h \in Heads, NEW k \in 0 .. Len(Rings[h]),
         InsertAfter(n, At(Rings, RingEnds, h, k)), listed' = listed \cup {n}
  PROVE  RingsStand' /\ Rings' = [Rings EXCEPT ![h] = Inserted(Rings[h], k, n)]
<1> DEFINE c == At(Rings, RingEnds, h, k)
           M == [Rings EXCEPT ![h] = Inserted(Rings[h], k, n)]
<1>1. c \in Cells /\ c # n
  <2>1. Rings[h] \in Seq(Nodes)
    BY DEF RingsStand, Stand
  <2>2. CASE k = 0
    BY <2>2, CellAssumption DEF At, Cells
  <2>3. CASE k # 0
    <3>1. k \in 1 .. Len(Rings[h]) /\ c = Rings[h][k] /\ c \in Nodes
      BY <2>1, <2>3 DEF At
    <3>2. c \in listed
      BY <3>1 DEF RingsStand, Stand
    <3> QED BY <3>2 DEF Cells
  <2> QED BY <2>2, <2>3
<1>2. \A x \in Heads \cup Nodes :
        next'[x] = IF x = c THEN n ELSE IF x = n THEN next[c] ELSE next[x]
  BY <1>1 DEF InsertAfter, RingInv, Pointers, Cells
<1>3. Stand(next', listed', RingEnds, M)
  BY <1>2, InsertStands, RingEndsAre DEF RingsStand
<1>4. Rings' = M
  <2>1. [g \in Heads |-> Along(next', next'[g], g)] = M
    BY <1>3, RingsAre
  <2> QED BY <2>1 DEF Rings, Ring
<1> QED BY <1>3, <1>4 DEF RingsStand, RingEnds

LEMMA RingsDelete ==
  ASSUME RingInv, RingsStand, NEW h \in Heads, NEW k \in 1 .. Len(Rings[h]),
         list_del(Rings[h][k])
  PROVE  RingsStand' /\ Rings' = [Rings EXCEPT ![h] = Removed(Rings[h], k)]
<1> DEFINE n == Rings[h][k]
           c == At(Rings, RingEnds, h, k - 1)
           M == [Rings EXCEPT ![h] = Removed(Rings[h], k)]
<1>1. Rings[h] \in Seq(Nodes) /\ Len(Rings[h]) \in Nat /\ n \in Nodes
  BY DEF RingsStand, Stand
<1>2. n = At(Rings, RingEnds, h, k) /\ n \in listed
  BY <1>1 DEF At, RingsStand, Stand
<1>3. next[c] = n
  <2>1. k - 1 \in 0 .. Len(Rings[h]) /\ (k - 1) + 1 = k
    BY <1>1
  <2>2. next[c] = At(Rings, RingEnds, h, (k - 1) + 1)
    BY <2>1 DEF RingsStand, Stand
  <2> QED BY <1>2, <2>1, <2>2
<1>4. c \in Cells
  <2>1. CASE k - 1 = 0
    BY <2>1 DEF At, Cells
  <2>2. CASE k - 1 # 0
    <3>1. k - 1 \in 1 .. Len(Rings[h]) /\ c = Rings[h][k - 1] /\ c \in Nodes
      BY <1>1, <2>2 DEF At
    <3>2. c \in listed
      BY <3>1 DEF RingsStand, Stand
    <3> QED BY <3>2 DEF Cells
  <2> QED BY <2>1, <2>2
<1>5. prev[n] = c
  BY <1>3, <1>4 DEF RingInv, Linked
<1>6. \A x \in Heads \cup Nodes : next'[x] = IF x = c THEN next[n] ELSE next[x]
  BY <1>4, <1>5 DEF list_del, RingInv, Pointers, Cells
<1>7. listed' = listed \ {n}
  BY DEF list_del
<1>8. Stand(next', listed', RingEnds, M)
  BY <1>2, <1>6, <1>7, DeleteStands, RingEndsAre DEF RingsStand
<1>9. Rings' = M
  <2>1. [g \in Heads |-> Along(next', next'[g], g)] = M
    BY <1>8, RingsAre
  <2> QED BY <2>1 DEF Rings, Ring
<1> QED BY <1>8, <1>9 DEF RingsStand, RingEnds

\* The rings begin empty.
LEMMA RingIInvInit ==
  ASSUME Init
  PROVE  RingIInv /\ Rings = [h \in Heads |-> <<>>] /\ RingTodo = <<>>
<1>1. RingInv
  BY RingInit
<1>2. Stand(next, listed, RingEnds, [h \in Heads |-> <<>>])
  BY EmptyStands, RingEndsAre DEF Init
<1>3. Rings = [h \in Heads |-> <<>>]
  BY <1>2, RingsAre DEF Rings, Ring
<1>4. Visiting(Rings, RingEnds, visit) /\ RingTodo = <<>>
  BY DEF Init, Visiting, RingTodo, Todo
<1> QED BY <1>1, <1>2, <1>3, <1>4 DEF RingIInv, RingsStand

\* The state of Lists that ListHead implements.
LEMMA AbstractRings ==
  /\ Abstract!ListsInit <=> Rings = [h \in Heads |-> <<>>] /\ RingTodo = <<>> /\ left = FALSE
  /\ Abstract!Loose = Nodes \ UNION {ToSet(Rings[h]) : h \in Heads}
  /\ \A h \in Heads, n \in Nodes :
       /\ Abstract!AddFirst(h, n) <=> Rings' = [Rings EXCEPT ![h] = Cons(n, @)]
       /\ Abstract!AddLast(h, n) <=> Rings' = [Rings EXCEPT ![h] = Append(@, n)]
  /\ \A h \in Heads, k \in Nat :
       Abstract!Delete(h, k) <=> Rings' = [Rings EXCEPT ![h] = RemoveAt(@, k)]
<1>1. \A s : Abstract!ToSet(s) = ToSet(s)
  BY DEF Abstract!ToSet, ToSet
<1>2. \A s, n : Abstract!Cons(n, s) = Cons(n, s)
  BY DEF Abstract!Cons, Cons
<1>3. \A s, k : Abstract!RemoveAt(s, k) = RemoveAt(s, k)
  BY DEF Abstract!RemoveAt, RemoveAt
<1>4. Abstract!ListsInit <=> Rings = [h \in Heads |-> <<>>] /\ RingTodo = <<>> /\ left = FALSE
  BY DEF Abstract!ListsInit, Rings, RingTodo
<1>5. Abstract!Loose = Nodes \ UNION {ToSet(Rings[h]) : h \in Heads}
  BY <1>1 DEF Abstract!Loose, Rings
<1>6. ASSUME NEW h \in Heads, NEW n \in Nodes
      PROVE  /\ Abstract!AddFirst(h, n) <=> Rings' = [Rings EXCEPT ![h] = Cons(n, @)]
             /\ Abstract!AddLast(h, n) <=> Rings' = [Rings EXCEPT ![h] = Append(@, n)]
  BY <1>2 DEF Abstract!AddFirst, Abstract!AddLast, Rings
<1>7. ASSUME NEW h \in Heads, NEW k \in Nat
      PROVE  Abstract!Delete(h, k) <=> Rings' = [Rings EXCEPT ![h] = RemoveAt(@, k)]
  BY <1>3 DEF Abstract!Delete, Rings
<1> QED BY <1>4, <1>5, <1>6, <1>7

LEMMA AbstractNext ==
  [Abstract!ListsNext]_(Abstract!listsVars) <=>
    \/ /\ \/ \E h \in Heads, n \in Abstract!Loose :
               Abstract!AddFirst(h, n) \/ Abstract!AddLast(h, n)
          \/ \E h \in Heads : \E k \in DOMAIN Rings[h] : Abstract!Delete(h, k)
       /\ RingTodo' = RingTodo /\ left' = left
    \/ /\ RingTodo = <<>> /\ Rings' = Rings
       /\ (\E h \in Heads : RingTodo' = Rings[h]) /\ left' = FALSE
    \/ /\ RingTodo # <<>> /\ Rings' = Rings
       /\ \/ RingTodo' = Tail(RingTodo) /\ left' = left
          \/ RingTodo' = <<>> /\ left' = TRUE
    \/ Rings' = Rings /\ RingTodo' = RingTodo /\ left' = left
  BY DEF Abstract!ListsNext, Abstract!listsVars, Rings, RingTodo

\* A traversal goes on unaware of what changes on other lists than its own.
LEMMA VisitSame ==
  ASSUME RingsStand, RingsStand', Visiting(Rings, RingEnds, visit), UNCHANGED visit,
         visit # NULL => Rings'[visit.head] = Rings[visit.head]
  PROVE  Visiting(Rings, RingEnds, visit)' /\ RingTodo' = RingTodo
<1>1. RingEnds' = RingEnds
  BY DEF RingEnds
<1>2. Stand(next, listed, RingEnds, Rings) /\ Stand(next', listed', RingEnds, Rings')
  BY <1>1 DEF RingsStand
<1>3. /\ Visiting(Rings', RingEnds, visit)
      /\ visit # NULL => visit.head \in Heads
      /\ visit # NULL =>
           Todo(next', visit, RingEnds[visit.head]) = Todo(next, visit, RingEnds[visit.head])
  BY <1>2, LoopSame, RingEndsAre
<1>4. RingTodo' = RingTodo
  <2>1. CASE visit = NULL
    BY <2>1 DEF RingTodo, Todo
  <2>2. CASE visit # NULL
    BY <1>3, <2>2, RingEndsAre DEF RingTodo
  <2> QED BY <2>1, <2>2
<1> QED BY <1>1, <1>3, <1>4

LEMMA AddStep ==
  ASSUME RingIInv, NEW n \in Nodes, NEW h \in Heads, list_add(n, h) \/ list_append(n, h)
  PROVE  /\ RingIInv'
         /\ Abstract!AddFirst(h, n) \/ Abstract!AddLast(h, n)
         /\ n \in Abstract!Loose /\ RingTodo' = RingTodo /\ left' = left
<1> DEFINE s == Rings[h]
<1>1. /\ n \notin listed /\ listed' = listed \cup {n} /\ UNCHANGED visit /\ left' = left
      /\ visit # NULL => h # visit.head
  BY DEF list_add, list_append, MayAdd, loopVars
<1>2. /\ Rings \in [Heads -> Seq(Nodes)] /\ s \in Seq(Nodes) /\ Len(s) \in Nat
      /\ RingInv /\ RingsStand /\ Visiting(Rings, RingEnds, visit)
  BY DEF RingIInv, RingsStand, Stand
<1>3. RingInv'
  BY RingNext DEF RingIInv, Next
<1>4. PICK k \in 0 .. Len(s) : /\ InsertAfter(n, At(Rings, RingEnds, h, k))
                               /\ k = 0 \/ k = Len(s)
  <2>1. CASE list_add(n, h)
    <3>1. At(Rings, RingEnds, h, 0) = h /\ 0 \in 0 .. Len(s)
      BY <1>2 DEF At
    <3> QED BY <2>1, <3>1 DEF list_add
  <2>2. CASE list_append(n, h)
    <3> DEFINE c == At(Rings, RingEnds, h, Len(s))
    <3>1. Len(s) \in 0 .. Len(s)
      BY <1>2
    <3>2. next[c] = h
      <4>1. next[c] = At(Rings, RingEnds, h, Len(s) + 1)
        BY <1>2, <3>1 DEF RingsStand, Stand
      <4> QED BY <1>2, <4>1, RingEndsAre DEF At
    <3>3. c \in Cells
      <4>1. CASE Len(s) = 0
        BY <4>1 DEF At, Cells
      <4>2. CASE Len(s) # 0
        <5>1. Len(s) \in 1 .. Len(s) /\ c = s[Len(s)] /\ c \in Nodes
          BY <1>2, <4>2 DEF At
        <5>2. c \in listed
          BY <1>2, <5>1 DEF RingsStand, Stand
        <5> QED BY <5>2 DEF Cells
      <4> QED BY <4>1, <4>2
    <3>4. prev[h] = c
      BY <1>2, <3>2, <3>3 DEF RingInv, Linked
    <3> QED BY <2>2, <3>1, <3>4 DEF list_append
  <2> QED BY <2>1, <2>2
<1>5. RingsStand' /\ Rings' = [Rings EXCEPT ![h] = Inserted(s, k, n)]
  BY <1>1, <1>2, <1>4, RingsInsert
<1>6. (k = 0 => Inserted(s, k, n) = Cons(n, s)) /\ (k = Len(s) => Inserted(s, k, n) = Append(s, n))
  BY <1>2, InsertedIs
<1>7. Abstract!AddFirst(h, n) \/ Abstract!AddLast(h, n)
  <2>1. CASE k = 0
    BY <1>5, <1>6, <2>1, AbstractRings
  <2>2. CASE k = Len(s)
    BY <1>5, <1>6, <2>2, AbstractRings
  <2> QED BY <1>4, <2>1, <2>2
<1>8. visit # NULL => Rings'[visit.head] = Rings[visit.head]
  BY <1>1, <1>2, <1>5 DEF Visiting, Visits
<1>9. Visiting(Rings, RingEnds, visit)' /\ RingTodo' = RingTodo
  BY <1>1, <1>2, <1>5, <1>8, VisitSame
<1>10. n \in Abstract!Loose
  BY <1>1, <1>2, LooseAre, AbstractRings DEF RingsStand
<1> QED BY <1>1, <1>3, <1>5, <1>7, <1>9, <1>10 DEF RingIInv

LEMMA DeleteStep ==
  ASSUME RingIInv, NEW n \in Nodes, list_del(n)
  PROVE  /\ RingIInv'
         /\ \E h \in Heads : \E k \in DOMAIN Rings[h] : Abstract!Delete(h, k)
         /\ RingTodo' = RingTodo /\ left' = left
<1>1. RingInv'
  BY RingNext DEF RingIInv, Next
<1>2. /\ RingInv /\ RingsStand /\ Visiting(Rings, RingEnds, visit)
      /\ Rings \in [Heads -> Seq(Nodes)]
  BY DEF RingIInv, RingsStand, Stand
<1>3. PICK h \in Heads : \E k \in 1 .. Len(Rings[h]) : Rings[h][k] = n
  BY <1>2 DEF list_del, MayDelete, RingsStand, Stand
<1>4. PICK k \in 1 .. Len(Rings[h]) : Rings[h][k] = n
  BY <1>3
<1>5. RingsStand' /\ Rings' = [Rings EXCEPT ![h] = Removed(Rings[h], k)]
  BY <1>2, <1>4, RingsDelete
<1>6. k \in DOMAIN Rings[h] /\ k \in Nat
  BY <1>2
<1>7. Abstract!Delete(h, k)
  <2>1. Rings[h] \in Seq(Nodes)
    BY <1>2
  <2>2. Removed(Rings[h], k) = RemoveAt(Rings[h], k)
    BY <2>1, RemovedIs
  <2> QED BY <1>5, <1>6, <2>2, AbstractRings
<1>8. UNCHANGED visit /\ left' = left
  BY DEF list_del, loopVars
<1>9. CASE visit = NULL \/ visit.head # h
  <2>1. visit # NULL => Rings'[visit.head] = Rings[visit.head]
    BY <1>2, <1>5, <1>9 DEF Visiting, Visits
  <2>2. Visiting(Rings, RingEnds, visit)' /\ RingTodo' = RingTodo
    BY <1>2, <1>5, <1>8, <2>1, VisitSame
  <2> QED BY <1>1, <1>5, <1>6, <1>7, <1>8, <2>2 DEF RingIInv
<1>10. CASE visit # NULL /\ visit.head = h
  <2>1. n \in OnList(h)
    <3>1. Rings[h] = Ring(h)
      BY DEF Rings
    <3> QED BY <1>4, <1>6, <3>1 DEF OnList
  <2>2. visit.safe /\ visit.elem = n
    BY <1>10, <2>1 DEF list_del, MayDelete
  <2>3. RingEnds' = RingEnds
    BY DEF RingEnds
  <2>4. Stand(next, listed, RingEnds, Rings) /\ Stand(next', listed', RingEnds, Rings')
    BY <1>2, <1>5, <2>3 DEF RingsStand
  <2>5. /\ Visiting(Rings', RingEnds, visit)
        /\ Todo(next', visit, RingEnds[h]) = Todo(next, visit, RingEnds[h])
    <3>1. Rings'[visit.head] = Removed(Rings[visit.head], k)
      BY <1>2, <1>5, <1>10
    <3>2. k \in 1 .. Len(Rings[visit.head]) /\ visit.elem = Rings[visit.head][k]
      BY <1>4, <1>10, <2>2
    <3> QED BY <1>2, <1>10, <2>2, <2>4, <3>1, <3>2, LoopDeletes, RingEndsAre
  <2>6. RingTodo' = RingTodo
    BY <1>8, <1>10, <2>5, RingEndsAre DEF RingTodo
  <2> QED BY <1>1, <1>5, <1>6, <1>7, <1>8, <2>3, <2>5, <2>6 DEF RingIInv
<1> QED BY <1>9, <1>10

\* What a step that changes no list does to the traversal.
LEMMA OnlyVisit ==
  ASSUME RingIInv, UNCHANGED ringVars, Visiting(Rings, RingEnds, visit')
  PROVE  RingIInv' /\ Rings' = Rings
  BY DEF RingIInv, RingInv, Pointers, Linked, Cells, RingsStand, RingEnds, Rings, Ring, ringVars

LEMMA BeginStep ==
  ASSUME RingIInv, NEW h \in Heads, NEW safe \in BOOLEAN, for_each_in_list(h, safe)
  PROVE  RingIInv' /\ RingTodo = <<>> /\ RingTodo' = Rings[h] /\ Rings' = Rings
<1>1. Stand(next, listed, RingEnds, Rings)
  BY DEF RingIInv, RingsStand
<1>2. visit' = LoopAt(next, h, safe, next[h], RingEnds[h]) /\ next' = next
  BY RingEndsAre DEF for_each_in_list, ringVars
<1>3. /\ Visiting(Rings, RingEnds, visit')
      /\ visit' # NULL => visit'.head = h
      /\ Todo(next, visit', RingEnds[h]) = Rings[h]
  BY <1>1, <1>2, LoopBegins, RingEndsAre
<1>4. RingIInv' /\ Rings' = Rings
  BY <1>3, OnlyVisit DEF for_each_in_list
<1>5. RingTodo = <<>>
  BY DEF for_each_in_list, RingTodo, Todo
<1>6. RingTodo' = Rings[h]
  <2>1. CASE visit' = NULL
    BY <1>3, <2>1 DEF RingTodo, Todo
  <2>2. CASE visit' # NULL
    BY <1>2, <1>3, <2>2, RingEndsAre DEF RingTodo
  <2> QED BY <2>1, <2>2
<1> QED BY <1>4, <1>5, <1>6

LEMMA AdvanceStep ==
  ASSUME RingIInv, Advance
  PROVE  RingIInv' /\ RingTodo # <<>> /\ RingTodo' = Tail(RingTodo) /\ Rings' = Rings
<1>1. /\ Stand(next, listed, RingEnds, Rings) /\ Visiting(Rings, RingEnds, visit)
      /\ visit # NULL /\ next' = next
  BY DEF RingIInv, RingsStand, Advance, ringVars
<1> DEFINE h == visit.head
<1>2. h \in Heads
  BY <1>1 DEF Visiting, Visits
<1>3. visit' = LoopAt(next, h, visit.safe, Goes(next, visit), RingEnds[h])
  BY <1>2, RingEndsAre DEF Advance, Following
<1>4. /\ Visiting(Rings, RingEnds, visit')
      /\ visit' # NULL => visit'.head = h
      /\ Todo(next, visit, RingEnds[h]) # <<>>
      /\ Todo(next, visit', RingEnds[h]) = Tail(Todo(next, visit, RingEnds[h]))
  BY <1>1, <1>3, LoopGoesOn, RingEndsAre
<1>5. RingIInv' /\ Rings' = Rings
  BY <1>4, OnlyVisit DEF Advance
<1>6. RingTodo = Todo(next, visit, RingEnds[h])
  BY <1>2, RingEndsAre DEF RingTodo
<1>7. RingTodo' = Todo(next, visit', RingEnds[h])
  <2>1. CASE visit' = NULL
    BY <2>1 DEF RingTodo, Todo
  <2>2. CASE visit' # NULL
    BY <1>1, <1>2, <1>4, <2>2, RingEndsAre DEF RingTodo
  <2> QED BY <2>1, <2>2
<1> QED BY <1>4, <1>5, <1>6, <1>7

LEMMA BreakStep ==
  ASSUME RingIInv, Break
  PROVE  RingIInv' /\ RingTodo # <<>> /\ RingTodo' = <<>> /\ Rings' = Rings
<1>1. /\ Stand(next, listed, RingEnds, Rings) /\ Visiting(Rings, RingEnds, visit)
      /\ visit # NULL /\ visit' = NULL
  BY DEF RingIInv, RingsStand, Break
<1> DEFINE h == visit.head
<1>2. h \in Heads
  BY <1>1 DEF Visiting, Visits
<1>3. Todo(next, visit, RingEnds[h]) # <<>>
  BY <1>1, LoopGoesOn, RingEndsAre
<1>4. RingTodo # <<>>
  BY <1>2, <1>3, RingEndsAre DEF RingTodo
<1>5. RingIInv' /\ Rings' = Rings
  BY <1>1, OnlyVisit DEF Break, Visiting
<1> QED BY <1>1, <1>4, <1>5 DEF RingTodo, Todo

LEMMA RingIInvNext ==
  RingIInv /\ [Next]_vars => RingIInv' /\ [Abstract!ListsNext]_(Abstract!listsVars)
<1> SUFFICES ASSUME RingIInv, [Next]_vars
             PROVE  RingIInv' /\ [Abstract!ListsNext]_(Abstract!listsVars)
  OBVIOUS
<1>1. ASSUME NEW n \in Nodes, NEW h \in Heads, list_add(n, h) \/ list_append(n, h)
      PROVE  RingIInv' /\ [Abstract!ListsNext]_(Abstract!listsVars)
  BY <1>1, AddStep, AbstractNext
<1>2. ASSUME NEW n \in Nodes, list_del(n)
      PROVE  RingIInv' /\ [Abstract!ListsNext]_(Abstract!listsVars)
  BY <1>2, DeleteStep, AbstractNext
<1>3. ASSUME NEW h \in Heads, NEW safe \in BOOLEAN, for_each_in_list(h, safe)
      PROVE  RingIInv' /\ [Abstract!ListsNext]_(Abstract!listsVars)
  <2>1. left' = FALSE
    BY <1>3 DEF for_each_in_list
  <2> QED BY <1>3, <2>1, BeginStep, AbstractNext
<1>4. CASE Advance
  <2>1. left' = left
    BY <1>4 DEF Advance
  <2> QED BY <1>4, <2>1, AdvanceStep, AbstractNext
<1>5. CASE Break
  <2>1. left' = TRUE
    BY <1>5 DEF Break
  <2> QED BY <1>5, <2>1, BreakStep, AbstractNext
<1>6. CASE UNCHANGED vars
  <2>1. UNCHANGED ringVars /\ UNCHANGED visit /\ left' = left
    BY <1>6 DEF vars, loopVars
  <2>2. RingIInv' /\ Rings' = Rings
    BY <2>1, OnlyVisit DEF RingIInv
  <2>3. RingTodo' = RingTodo
    BY <2>1 DEF ringVars, RingTodo
  <2> QED BY <2>1, <2>2, <2>3, AbstractNext
<1> QED BY <1>1, <1>2, <1>3, <1>4, <1>5, <1>6 DEF Next

\* list_add, list_append and list_del keep every list linked both ways, and no
\* pointer of a list ever leads to a node that was taken off it.
THEOREM RingsLinked == Spec => []Linked
<1>1. RingInv => Linked
  BY DEF RingInv
<1> QED
  BY RingInit, RingNext, <1>1, PTL DEF Spec

\* The rings implement sequences of nodes: list_add puts a node first, list_append
\* last, list_del takes out its own, and the loops visit what was on a list when they
\* began, each node once and in order, though the body of a safe loop takes the node
\* it is at off the list and puts it on another, up to where the body breaks out.
THEOREM RingsAreLists == Spec => ListsSpec
<1>1. Init => RingIInv /\ Abstract!ListsInit
  BY RingIInvInit, AbstractRings DEF Init
<1> QED
  BY RingIInvNext, <1>1, PTL DEF Spec, ListsSpec, Abstract!ListsSpec

-----------------------------------------------------------------------------
(* The hlists of HList.                                                     *)
HPointers ==
  /\ hnext \in [Heads \cup Nodes -> Nodes \cup {NULL}]
  /\ hpprev \in [Nodes -> Heads \cup Nodes \cup {NULL}]
  /\ hlisted \subseteq Nodes

HInv == HPointers /\ H!Linked

LEMMA HInvInit == H!Init => HInv
  BY CellAssumption DEF H!Init, HInv, HPointers, H!Linked

LEMMA HAddKeepsInv ==
  ASSUME HInv, NEW n \in Nodes, NEW h \in Heads, H!hlist_add(n, h)
  PROVE  HInv'
<1> DEFINE d == hnext[h]
<1>1. /\ n \notin hlisted /\ n \notin Heads /\ n # h /\ h \notin Nodes
      /\ d \in hlisted \cup {NULL} /\ d # n /\ n # NULL /\ h # NULL
      /\ hlisted' = hlisted \cup {n}
  BY CellAssumption DEF HInv, HPointers, H!Linked, H!hlist_add, H!MayAdd
<1>2. HPointers'
  BY <1>1 DEF HInv, HPointers, H!hlist_add
<1>3. /\ \A x \in Heads \cup Nodes :
           hnext'[x] = IF x = h THEN n ELSE IF x = n THEN d ELSE hnext[x]
      /\ \A m \in Nodes :
           hpprev'[m] = IF m = n THEN h ELSE IF m = d THEN n ELSE hpprev[m]
  BY <1>1 DEF HInv, HPointers, H!hlist_add
<1>4. /\ \A m \in hlisted : hpprev[m] \in Heads \cup hlisted /\ hnext[hpprev[m]] = m
      /\ \A c \in Heads \cup hlisted :
           hnext[c] # NULL => hnext[c] \in hlisted /\ hpprev[hnext[c]] = c
      /\ hlisted \subseteq Nodes /\ NULL \notin Heads \cup Nodes
  BY CellAssumption DEF HInv, HPointers, H!Linked
<1>5. ASSUME NEW m \in hlisted'
      PROVE  hpprev'[m] \in Heads \cup hlisted' /\ hnext'[hpprev'[m]] = m
  <2>1. CASE m = n
    BY <1>1, <1>3, <2>1
  <2>2. CASE m = d /\ m # n
    BY <1>1, <1>3, <1>4, <2>2
  <2>3. CASE m # n /\ m # d
    BY <1>1, <1>3, <1>4, <2>3
  <2> QED
    BY <2>1, <2>2, <2>3
<1>6. ASSUME NEW c \in Heads \cup hlisted', hnext'[c] # NULL
      PROVE  hnext'[c] \in hlisted' /\ hpprev'[hnext'[c]] = c
  <2>1. CASE c = h
    BY <1>1, <1>3, <2>1
  <2>2. CASE c = n
    BY <1>1, <1>3, <1>4, <1>6, <2>2
  <2>3. CASE c # n /\ c # h
    BY <1>1, <1>3, <1>4, <1>6, <2>3
  <2> QED
    BY <2>1, <2>2, <2>3
<1> QED
  BY <1>2, <1>5, <1>6 DEF HInv, H!Linked

LEMMA HDeleteKeepsInv ==
  ASSUME HInv, NEW n \in Nodes, H!hlist_del(n)
  PROVE  HInv'
<1> DEFINE b == hpprev[n]
           d == hnext[n]
<1>1. /\ n \in hlisted /\ b \in Heads \cup hlisted /\ hnext[b] = n
      /\ d \in hlisted \cup {NULL}
      /\ hlisted' = hlisted \ {n}
  BY DEF HInv, HPointers, H!Linked, H!hlist_del, H!MayDelete
<1>2. HPointers'
  BY <1>1 DEF HInv, HPointers, H!hlist_del, H!PprevWithout
<1>3. /\ \A x \in Heads \cup Nodes : hnext'[x] = IF x = b THEN d ELSE hnext[x]
      /\ \A m \in Nodes : hpprev'[m] = IF m = d THEN b ELSE hpprev[m]
  BY <1>1 DEF HInv, HPointers, H!hlist_del, H!PprevWithout
<1>4. /\ \A m \in hlisted : hpprev[m] \in Heads \cup hlisted /\ hnext[hpprev[m]] = m
      /\ \A c \in Heads \cup hlisted :
           hnext[c] # NULL => hnext[c] \in hlisted /\ hpprev[hnext[c]] = c
      /\ hlisted \subseteq Nodes /\ NULL \notin Heads \cup Nodes
      /\ Heads \cap Nodes = {}
  BY CellAssumption DEF HInv, HPointers, H!Linked
<1>5. ASSUME NEW m \in hlisted'
      PROVE  hpprev'[m] \in Heads \cup hlisted' /\ hnext'[hpprev'[m]] = m
  <2>1. CASE m = d
    <3>1. b # n
      BY <1>1, <1>4, <1>5, <2>1
    <3> QED
      BY <1>1, <1>3, <1>4, <1>5, <2>1, <3>1
  <2>2. CASE m # d
    <3>1. hpprev[m] # n /\ hpprev[m] # b
      BY <1>1, <1>4, <1>5, <2>2
    <3> QED
      BY <1>1, <1>3, <1>4, <1>5, <2>2, <3>1
  <2> QED
    BY <2>1, <2>2
<1>6. ASSUME NEW c \in Heads \cup hlisted', hnext'[c] # NULL
      PROVE  hnext'[c] \in hlisted' /\ hpprev'[hnext'[c]] = c
  <2>1. CASE c = b
    <3>1. d # n
      BY <1>1, <1>4, <1>6, <2>1
    <3> QED
      BY <1>1, <1>3, <1>4, <1>6, <2>1, <3>1
  <2>2. CASE c # b
    <3>1. c # n /\ hnext[c] # n /\ hnext[c] # d
      BY <1>1, <1>3, <1>4, <1>6, <2>2
    <3> QED
      BY <1>1, <1>3, <1>4, <1>6, <2>2, <3>1
  <2> QED
    BY <2>1, <2>2
<1> QED
  BY <1>2, <1>5, <1>6 DEF HInv, H!Linked

LEMMA HInvNext == HInv /\ [H!Next]_(H!vars) => HInv'
<1> SUFFICES ASSUME HInv, [H!Next]_(H!vars) PROVE HInv'
  OBVIOUS
<1>1. ASSUME NEW n \in Nodes, NEW h \in Heads, H!hlist_add(n, h)
      PROVE  HInv'
  BY <1>1, HAddKeepsInv
<1>2. ASSUME NEW n \in Nodes, H!hlist_del(n)
      PROVE  HInv'
  BY <1>2, HDeleteKeepsInv
<1>3. ASSUME UNCHANGED H!hlistVars
      PROVE  HInv'
  BY <1>3 DEF HInv, HPointers, H!Linked, H!hlistVars
<1>4. ASSUME NEW h \in Heads, NEW safe \in BOOLEAN, H!for_each_in_hlist(h, safe)
      PROVE  HInv'
  BY <1>3, <1>4 DEF H!for_each_in_hlist
<1>5. CASE H!Advance
  BY <1>3, <1>5 DEF H!Advance
<1>6. CASE H!Break
  BY <1>3, <1>6 DEF H!Break
<1>7. CASE UNCHANGED H!vars
  BY <1>3, <1>7 DEF H!vars
<1> QED
  BY <1>1, <1>2, <1>4, <1>5, <1>6, <1>7 DEF H!Next

-----------------------------------------------------------------------------
\* The sequences that the hlists stand for, and what a traversal has yet to visit.
HEnds == [h \in Heads |-> NULL]

HSeqs == [h \in Heads |-> Along(hnext, hnext[h], NULL)]

HTodo == Todo(hnext, hvisit, NULL)

HStand == Stand(hnext, hlisted, HEnds, HSeqs)

HIInv == HInv /\ HStand /\ Visiting(HSeqs, HEnds, hvisit)

LEMMA HEndsAre ==
  NotNodes(HEnds) /\ CellEnds(HEnds) /\ \A h \in Heads : HEnds[h] = NULL
  BY CellAssumption DEF NotNodes, CellEnds, HEnds

LEMMA HSeqsAre ==
  ASSUME NEW nxt, NEW on, NEW L, Stand(nxt, on, HEnds, L)
  PROVE  [h \in Heads |-> Along(nxt, nxt[h], NULL)] = L
<1>1. [h \in Heads |-> Along(nxt, nxt[h], HEnds[h])] = L
  BY SequencesAre, HEndsAre
<1>2. \A h \in Heads : Along(nxt, nxt[h], HEnds[h]) = Along(nxt, nxt[h], NULL)
  BY HEndsAre
<1> QED BY <1>1, <1>2

\* HList has the operators of Cells under names of its own.
LEMMA HCells ==
  /\ H!Visits = Visits
  /\ \A nxt, c, e : H!Along(nxt, c, e) = Along(nxt, c, e)
  /\ \A nxt, h, s, c, e : H!LoopAt(nxt, h, s, c, e) = LoopAt(nxt, h, s, c, e)
  /\ \A nxt, v : H!Goes(nxt, v) = Goes(nxt, v)
  /\ \A nxt, v, e : H!Todo(nxt, v, e) = Todo(nxt, v, e)
<1>1. H!Cardinality(Nodes) = Cardinality(Nodes)
  BY DEF H!Cardinality, Cardinality
<1>2. \A nxt, c, e : H!Along(nxt, c, e) = Along(nxt, c, e)
  BY <1>1 DEF H!Along, Along
<1>3. H!Visits = Visits
  BY DEF H!Visits, Visits
<1>4. \A nxt, h, s, c, e : H!LoopAt(nxt, h, s, c, e) = LoopAt(nxt, h, s, c, e)
  BY DEF H!LoopAt, LoopAt
<1>5. \A nxt, v : H!Goes(nxt, v) = Goes(nxt, v)
  BY DEF H!Goes, Goes
<1>6. \A nxt, v, e : H!Todo(nxt, v, e) = Todo(nxt, v, e)
  BY <1>2, <1>5 DEF H!Todo, Todo
<1> QED BY <1>2, <1>3, <1>4, <1>5, <1>6

\* The state of Lists that HList implements.
LEMMA HMapped ==
  /\ HSeqs = [h \in Heads |-> H!From(h)] /\ HSeqs' = [h \in Heads |-> H!From(h)]'
  /\ HTodo = H!Todo(hnext, hvisit, NULL) /\ HTodo' = H!Todo(hnext, hvisit, NULL)'
  BY HCells DEF HSeqs, HTodo, H!From

LEMMA HAbstractIs ==
  /\ H!Abstract!ListsInit <=>
       HSeqs = [h \in Heads |-> <<>>] /\ HTodo = <<>> /\ hleft = FALSE
  /\ H!Abstract!Loose = Nodes \ UNION {ToSet(HSeqs[h]) : h \in Heads}
  /\ \A h \in Heads, n \in Nodes :
       H!Abstract!AddFirst(h, n) <=> HSeqs' = [HSeqs EXCEPT ![h] = Cons(n, @)]
  /\ \A h \in Heads, k \in Nat :
       H!Abstract!Delete(h, k) <=> HSeqs' = [HSeqs EXCEPT ![h] = RemoveAt(@, k)]
<1>1. \A s : H!Abstract!ToSet(s) = ToSet(s)
  BY DEF H!Abstract!ToSet, ToSet
<1>2. \A s, n : H!Abstract!Cons(n, s) = Cons(n, s)
  BY DEF H!Abstract!Cons, Cons
<1>3. \A s, k : H!Abstract!RemoveAt(s, k) = RemoveAt(s, k)
  BY DEF H!Abstract!RemoveAt, RemoveAt
<1>4. H!Abstract!ListsInit <=>
        HSeqs = [h \in Heads |-> <<>>] /\ HTodo = <<>> /\ hleft = FALSE
  BY HMapped DEF H!Abstract!ListsInit
<1>5. H!Abstract!Loose = Nodes \ UNION {ToSet(HSeqs[h]) : h \in Heads}
  BY <1>1, HMapped DEF H!Abstract!Loose
<1>6. ASSUME NEW h \in Heads, NEW n \in Nodes
      PROVE  H!Abstract!AddFirst(h, n) <=> HSeqs' = [HSeqs EXCEPT ![h] = Cons(n, @)]
  BY <1>2, HMapped DEF H!Abstract!AddFirst
<1>7. ASSUME NEW h \in Heads, NEW k \in Nat
      PROVE  H!Abstract!Delete(h, k) <=> HSeqs' = [HSeqs EXCEPT ![h] = RemoveAt(@, k)]
  BY <1>3, HMapped DEF H!Abstract!Delete
<1> QED BY <1>4, <1>5, <1>6, <1>7

LEMMA HAbstractNext ==
  [H!Abstract!ListsNext]_(H!Abstract!listsVars) <=>
    \/ /\ \/ \E h \in Heads, n \in H!Abstract!Loose :
               H!Abstract!AddFirst(h, n) \/ H!Abstract!AddLast(h, n)
          \/ \E h \in Heads : \E k \in DOMAIN HSeqs[h] : H!Abstract!Delete(h, k)
       /\ HTodo' = HTodo /\ hleft' = hleft
    \/ /\ HTodo = <<>> /\ HSeqs' = HSeqs
       /\ (\E h \in Heads : HTodo' = HSeqs[h]) /\ hleft' = FALSE
    \/ /\ HTodo # <<>> /\ HSeqs' = HSeqs
       /\ \/ HTodo' = Tail(HTodo) /\ hleft' = hleft
          \/ HTodo' = <<>> /\ hleft' = TRUE
    \/ HSeqs' = HSeqs /\ HTodo' = HTodo /\ hleft' = hleft
  BY HMapped DEF H!Abstract!ListsNext, H!Abstract!listsVars

LEMMA HIInvInit ==
  ASSUME H!Init
  PROVE  HIInv /\ HSeqs = [h \in Heads |-> <<>>] /\ HTodo = <<>> /\ hleft = FALSE
<1>1. HInv
  BY HInvInit
<1>2. Stand(hnext, hlisted, HEnds, [h \in Heads |-> <<>>])
  BY EmptyStands, HEndsAre DEF H!Init
<1>3. HSeqs = [h \in Heads |-> <<>>]
  BY <1>2, HSeqsAre DEF HSeqs
<1>4. Visiting(HSeqs, HEnds, hvisit) /\ HTodo = <<>> /\ hleft = FALSE
  BY DEF H!Init, Visiting, HTodo, Todo
<1> QED BY <1>1, <1>2, <1>3, <1>4 DEF HIInv, HStand

\* A traversal goes on unaware of what changes on other lists than its own.
LEMMA HVisitSame ==
  ASSUME HStand, HStand', Visiting(HSeqs, HEnds, hvisit), UNCHANGED hvisit,
         hvisit # NULL => HSeqs'[hvisit.head] = HSeqs[hvisit.head]
  PROVE  Visiting(HSeqs, HEnds, hvisit)' /\ HTodo' = HTodo
<1>1. HEnds' = HEnds
  BY DEF HEnds
<1>2. Stand(hnext, hlisted, HEnds, HSeqs) /\ Stand(hnext', hlisted', HEnds, HSeqs')
  BY <1>1 DEF HStand
<1>3. /\ Visiting(HSeqs', HEnds, hvisit)
      /\ hvisit # NULL => hvisit.head \in Heads
      /\ hvisit # NULL =>
           Todo(hnext', hvisit, HEnds[hvisit.head]) = Todo(hnext, hvisit, HEnds[hvisit.head])
  BY <1>2, LoopSame, HEndsAre
<1>4. HTodo' = HTodo
  <2>1. CASE hvisit = NULL
    BY <2>1 DEF HTodo, Todo
  <2>2. CASE hvisit # NULL
    BY <1>3, <2>2, HEndsAre DEF HTodo
  <2> QED BY <2>1, <2>2
<1> QED BY <1>1, <1>3, <1>4

LEMMA HAddStep ==
  ASSUME HIInv, NEW n \in Nodes, NEW h \in Heads, H!hlist_add(n, h)
  PROVE  /\ HIInv'
         /\ H!Abstract!AddFirst(h, n) /\ n \in H!Abstract!Loose
         /\ HTodo' = HTodo /\ hleft' = hleft
<1> DEFINE s == HSeqs[h]
           M == [HSeqs EXCEPT ![h] = Inserted(s, 0, n)]
<1>1. HInv /\ HStand /\ HInv' /\ Visiting(HSeqs, HEnds, hvisit)
  BY HAddKeepsInv DEF HIInv
<1>2. /\ HSeqs \in [Heads -> Seq(Nodes)] /\ s \in Seq(Nodes) /\ Len(s) \in Nat
      /\ 0 \in 0 .. Len(s)
  BY <1>1 DEF HStand, Stand
<1>3. /\ n \notin hlisted /\ hlisted' = hlisted \cup {n} /\ UNCHANGED hvisit
      /\ hleft' = hleft
      /\ hvisit # NULL => h # hvisit.head
  BY DEF H!hlist_add, H!MayAdd, H!loopVars
<1>4. \A x \in Heads \cup Nodes :
        hnext'[x] = IF x = At(HSeqs, HEnds, h, 0) THEN n
                    ELSE IF x = n THEN hnext[At(HSeqs, HEnds, h, 0)] ELSE hnext[x]
  BY <1>1 DEF H!hlist_add, HInv, HPointers, At
<1>5. Stand(hnext', hlisted', HEnds, M)
  BY <1>1, <1>2, <1>3, <1>4, InsertStands, HEndsAre DEF HStand
<1>6. HSeqs' = M
  <2>1. [g \in Heads |-> Along(hnext', hnext'[g], NULL)] = M
    BY <1>5, HSeqsAre
  <2> QED BY <2>1 DEF HSeqs
<1>7. Inserted(s, 0, n) = Cons(n, s)
  <2>1. \A k \in 0 .. Len(s) : k = 0 => Inserted(s, k, n) = Cons(n, s)
    BY <1>2, InsertedIs
  <2> QED BY <1>2, <2>1
<1>8. H!Abstract!AddFirst(h, n)
  BY <1>6, <1>7, HAbstractIs
<1>9. n \in H!Abstract!Loose
  BY <1>1, <1>3, LooseAre, HAbstractIs DEF HStand
<1>10. HStand'
  BY <1>5, <1>6 DEF HStand, HEnds
<1>11. hvisit # NULL => HSeqs'[hvisit.head] = HSeqs[hvisit.head]
  BY <1>1, <1>2, <1>3, <1>6 DEF Visiting, Visits
<1>12. Visiting(HSeqs, HEnds, hvisit)' /\ HTodo' = HTodo
  BY <1>1, <1>3, <1>10, <1>11, HVisitSame
<1> QED BY <1>1, <1>3, <1>8, <1>9, <1>10, <1>12 DEF HIInv

LEMMA HDeleteStep ==
  ASSUME HIInv, NEW n \in Nodes, H!hlist_del(n)
  PROVE  /\ HIInv'
         /\ \E h \in Heads : \E k \in DOMAIN HSeqs[h] : H!Abstract!Delete(h, k)
         /\ HTodo' = HTodo /\ hleft' = hleft
<1>1. /\ HInv /\ HStand /\ HInv' /\ Visiting(HSeqs, HEnds, hvisit)
      /\ HSeqs \in [Heads -> Seq(Nodes)]
  BY HDeleteKeepsInv DEF HIInv, HStand, Stand
<1>2. /\ n \in hlisted /\ hlisted' = hlisted \ {n} /\ UNCHANGED hvisit /\ hleft' = hleft
      /\ hvisit # NULL => n \notin H!OnList(hvisit.head) \/ (hvisit.safe /\ n = hvisit.elem)
  BY DEF H!hlist_del, H!MayDelete, H!loopVars
<1>3. PICK h \in Heads : \E k \in 1 .. Len(HSeqs[h]) : HSeqs[h][k] = n
  BY <1>1, <1>2 DEF HStand, Stand
<1>4. PICK k \in 1 .. Len(HSeqs[h]) : HSeqs[h][k] = n
  BY <1>3
<1> DEFINE s == HSeqs[h]
           c == At(HSeqs, HEnds, h, k - 1)
           M == [HSeqs EXCEPT ![h] = Removed(s, k)]
<1>5. s \in Seq(Nodes) /\ Len(s) \in Nat /\ k \in DOMAIN s /\ k \in Nat
  <2>1. s \in Seq(Nodes)
    BY <1>1 DEF HStand, Stand
  <2> QED BY <2>1
<1>6. n = At(HSeqs, HEnds, h, k)
  BY <1>4, <1>5 DEF At
<1>7. hnext[c] = n
  <2>1. k - 1 \in 0 .. Len(s) /\ (k - 1) + 1 = k
    BY <1>5
  <2>2. hnext[c] = At(HSeqs, HEnds, h, (k - 1) + 1)
    BY <1>1, <2>1 DEF HStand, Stand
  <2> QED BY <1>6, <2>1, <2>2
<1>8. c \in Heads \cup hlisted
  <2>1. CASE k - 1 = 0
    BY <2>1 DEF At
  <2>2. CASE k - 1 # 0
    <3>1. k - 1 \in 1 .. Len(s) /\ c = s[k - 1] /\ c \in Nodes
      BY <1>5, <2>2 DEF At
    <3>2. c \in hlisted
      BY <1>1, <3>1 DEF HStand, Stand
    <3> QED BY <3>2
  <2> QED BY <2>1, <2>2
<1>9. hpprev[n] = c
  BY <1>1, <1>7, <1>8, CellAssumption DEF HInv, H!Linked
<1>10. \A x \in Heads \cup Nodes : hnext'[x] = IF x = c THEN hnext[n] ELSE hnext[x]
  BY <1>1, <1>8, <1>9 DEF H!hlist_del, HInv, HPointers
<1>11. Stand(hnext', hlisted', HEnds, M)
  <2>1. hlisted' = hlisted \ {n} /\ Stand(hnext, hlisted, HEnds, HSeqs)
    BY <1>1, <1>2 DEF HStand
  <2> QED BY <1>4, <1>6, <1>10, <2>1, DeleteStands, HEndsAre
<1>12. HSeqs' = M
  <2>1. [g \in Heads |-> Along(hnext', hnext'[g], NULL)] = M
    BY <1>11, HSeqsAre
  <2> QED BY <2>1 DEF HSeqs
<1>13. HStand' /\ HEnds' = HEnds
  BY <1>11, <1>12 DEF HStand, HEnds
<1>14. Removed(s, k) = RemoveAt(s, k)
  BY <1>5, RemovedIs
<1>15. H!Abstract!Delete(h, k)
  BY <1>5, <1>12, <1>14, HAbstractIs
<1>16. Visiting(HSeqs, HEnds, hvisit)' /\ HTodo' = HTodo
  <2>1. CASE hvisit = NULL \/ hvisit.head # h
    <3>1. hvisit # NULL => HSeqs'[hvisit.head] = HSeqs[hvisit.head]
      BY <1>1, <1>12, <2>1 DEF Visiting, Visits
    <3> QED BY <1>1, <1>2, <1>13, <3>1, HVisitSame
  <2>2. CASE hvisit # NULL /\ hvisit.head = h
    <3>1. n \in H!OnList(h)
      <4>1. HSeqs[h] = H!From(h)
        BY HMapped
      <4> QED BY <1>4, <1>5, <4>1 DEF H!OnList
    <3>2. hvisit.safe /\ hvisit.elem = n
      BY <1>2, <2>2, <3>1
    <3>3. Stand(hnext, hlisted, HEnds, HSeqs) /\ Stand(hnext', hlisted', HEnds, HSeqs')
      BY <1>1, <1>13 DEF HStand
    <3>4. HSeqs'[hvisit.head] = Removed(HSeqs[hvisit.head], k)
      BY <1>1, <1>12, <2>2
    <3>5. k \in 1 .. Len(HSeqs[hvisit.head]) /\ hvisit.elem = HSeqs[hvisit.head][k]
      BY <1>4, <2>2, <3>2
    <3>6. /\ Visiting(HSeqs', HEnds, hvisit)
          /\ Todo(hnext', hvisit, HEnds[h]) = Todo(hnext, hvisit, HEnds[h])
      BY <1>1, <2>2, <3>2, <3>3, <3>4, <3>5, LoopDeletes, HEndsAre
    <3> QED BY <1>2, <1>13, <2>2, <3>6, HEndsAre DEF HTodo
  <2> QED BY <2>1, <2>2
<1>17. HIInv'
  BY <1>1, <1>13, <1>16 DEF HIInv
<1> QED BY <1>2, <1>5, <1>15, <1>16, <1>17

\* What a step that changes no list does to the traversal.
LEMMA HOnlyVisit ==
  ASSUME HIInv, UNCHANGED H!hlistVars, Visiting(HSeqs, HEnds, hvisit')
  PROVE  HIInv' /\ HSeqs' = HSeqs /\ hnext' = hnext
  BY DEF HIInv, HInv, HPointers, H!Linked, HStand, HEnds, HSeqs, H!hlistVars

LEMMA HBeginStep ==
  ASSUME HIInv, NEW h \in Heads, NEW safe \in BOOLEAN, H!for_each_in_hlist(h, safe)
  PROVE  HIInv' /\ HTodo = <<>> /\ HTodo' = HSeqs[h] /\ HSeqs' = HSeqs /\ hleft' = FALSE
<1>1. Stand(hnext, hlisted, HEnds, HSeqs)
  BY DEF HIInv, HStand
<1>2. /\ hvisit' = LoopAt(hnext, h, safe, hnext[h], HEnds[h])
      /\ hvisit = NULL /\ hleft' = FALSE /\ UNCHANGED H!hlistVars
  BY HEndsAre, HCells DEF H!for_each_in_hlist
<1>3. /\ Visiting(HSeqs, HEnds, hvisit')
      /\ Todo(hnext, hvisit', HEnds[h]) = HSeqs[h]
  BY <1>1, <1>2, LoopBegins, HEndsAre
<1>4. HIInv' /\ HSeqs' = HSeqs /\ hnext' = hnext
  BY <1>2, <1>3, HOnlyVisit
<1>5. HTodo = <<>>
  BY <1>2 DEF HTodo, Todo
<1>6. HTodo' = HSeqs[h]
  BY <1>3, <1>4, HEndsAre DEF HTodo
<1> QED BY <1>2, <1>4, <1>5, <1>6

LEMMA HAdvanceStep ==
  ASSUME HIInv, H!Advance
  PROVE  /\ HIInv' /\ HTodo # <<>> /\ HTodo' = Tail(HTodo)
         /\ HSeqs' = HSeqs /\ hleft' = hleft
<1> DEFINE h == hvisit.head
<1>1. /\ Stand(hnext, hlisted, HEnds, HSeqs) /\ Visiting(HSeqs, HEnds, hvisit)
      /\ hvisit # NULL /\ hleft' = hleft /\ UNCHANGED H!hlistVars
  BY DEF HIInv, HStand, H!Advance
<1>2. h \in Heads
  BY <1>1 DEF Visiting, Visits
<1>3. hvisit' = LoopAt(hnext, h, hvisit.safe, Goes(hnext, hvisit), HEnds[h])
  BY <1>2, HEndsAre, HCells DEF H!Advance, H!Following
<1>4. /\ Visiting(HSeqs, HEnds, hvisit')
      /\ Todo(hnext, hvisit, HEnds[h]) # <<>>
      /\ Todo(hnext, hvisit', HEnds[h]) = Tail(Todo(hnext, hvisit, HEnds[h]))
  BY <1>1, <1>3, LoopGoesOn, HEndsAre
<1>5. HIInv' /\ HSeqs' = HSeqs /\ hnext' = hnext
  BY <1>1, <1>4, HOnlyVisit
<1> QED BY <1>1, <1>2, <1>4, <1>5, HEndsAre DEF HTodo

LEMMA HBreakStep ==
  ASSUME HIInv, H!Break
  PROVE  HIInv' /\ HTodo # <<>> /\ HTodo' = <<>> /\ HSeqs' = HSeqs /\ hleft' = TRUE
<1> DEFINE h == hvisit.head
<1>1. /\ Stand(hnext, hlisted, HEnds, HSeqs) /\ Visiting(HSeqs, HEnds, hvisit)
      /\ hvisit # NULL /\ hvisit' = NULL /\ hleft' = TRUE /\ UNCHANGED H!hlistVars
  BY DEF HIInv, HStand, H!Break
<1>2. h \in Heads
  BY <1>1 DEF Visiting, Visits
<1>3. Todo(hnext, hvisit, HEnds[h]) # <<>>
  BY <1>1, LoopGoesOn, HEndsAre
<1>4. HIInv' /\ HSeqs' = HSeqs
  BY <1>1, HOnlyVisit DEF Visiting
<1>5. HTodo # <<>>
  BY <1>2, <1>3, HEndsAre DEF HTodo
<1>6. HTodo' = <<>>
  BY <1>1 DEF HTodo, Todo
<1> QED BY <1>1, <1>4, <1>5, <1>6

LEMMA HIInvNext ==
  HIInv /\ [H!Next]_(H!vars) => HIInv' /\ [H!Abstract!ListsNext]_(H!Abstract!listsVars)
<1> SUFFICES ASSUME HIInv, [H!Next]_(H!vars)
             PROVE  HIInv' /\ [H!Abstract!ListsNext]_(H!Abstract!listsVars)
  OBVIOUS
<1>1. ASSUME NEW n \in Nodes, NEW h \in Heads, H!hlist_add(n, h)
      PROVE  HIInv' /\ [H!Abstract!ListsNext]_(H!Abstract!listsVars)
  BY <1>1, HAddStep, HAbstractNext
<1>2. ASSUME NEW n \in Nodes, H!hlist_del(n)
      PROVE  HIInv' /\ [H!Abstract!ListsNext]_(H!Abstract!listsVars)
  BY <1>2, HDeleteStep, HAbstractNext
<1>3. ASSUME NEW h \in Heads, NEW safe \in BOOLEAN, H!for_each_in_hlist(h, safe)
      PROVE  HIInv' /\ [H!Abstract!ListsNext]_(H!Abstract!listsVars)
  BY <1>3, HBeginStep, HAbstractNext
<1>4. CASE H!Advance
  BY <1>4, HAdvanceStep, HAbstractNext
<1>5. CASE H!Break
  BY <1>5, HBreakStep, HAbstractNext
<1>6. CASE UNCHANGED H!vars
  <2>1. UNCHANGED H!hlistVars /\ UNCHANGED hvisit /\ hleft' = hleft
    BY <1>6 DEF H!vars, H!loopVars
  <2>2. HIInv' /\ HSeqs' = HSeqs /\ hnext' = hnext
    BY <2>1, HOnlyVisit DEF HIInv
  <2>3. HTodo' = HTodo
    BY <2>1, <2>2 DEF HTodo
  <2> QED BY <2>1, <2>2, <2>3, HAbstractNext
<1> QED BY <1>1, <1>2, <1>3, <1>4, <1>5, <1>6 DEF H!Next

\* hlist_add and hlist_del keep every pprev at the cell that points to its node,
\* and no pointer of a list leads to a node that was taken off.
THEOREM HListsLinked == H!Spec => []HLinked
<1>1. HInv => HLinked
  BY DEF HInv, HLinked
<1> QED
  BY HInvInit, HInvNext, <1>1, PTL DEF H!Spec

\* The hlists implement sequences of nodes: hlist_add puts a node first, hlist_del,
\* which knows nothing of the list but the field that points to the node, takes out
\* that node, and the loops visit what was on a list when they began, each node once
\* and in order, though the body of a safe loop takes the node it is at off the list
\* and puts it on another, up to where the body breaks out.
THEOREM HListsAreLists == H!Spec => HListsSpec
<1>1. H!Init => HIInv /\ H!Abstract!ListsInit
  BY HIInvInit, HAbstractIs
<1> QED
  BY HIInvNext, <1>1, PTL DEF H!Spec, HListsSpec, H!ListsSpec, H!Abstract!ListsSpec

\* What TLC checks is the one specification beside the other.
THEOREM ListsTogether == MCSpec => Spec /\ H!Spec
<1>1. ListsInit => Init /\ H!Init
  BY DEF ListsInit
<1>2. [ListsNext]_<<kind, vars, hlistVars>> => [Next]_vars /\ [H!Next]_(H!vars)
  BY DEF ListsNext, hlistVars, vars, ringVars, loopVars, H!vars, H!hlistVars, H!loopVars
<1> QED
  BY <1>1, <1>2, PTL DEF MCSpec, Spec, H!Spec
=============================================================================
