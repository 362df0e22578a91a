--------------------------- MODULE ScuIntcProofs ----------------------------
(***************************************************************************)
(* The interrupt path keeps its queues in order, for every set of sources: *)
(* an invariant of the record intc that every operator of ScuIntc keeps.   *)
(***************************************************************************)
EXTENDS ScuIntc, FiniteSetTheorems, SequenceTheorems, TLAPS

-----------------------------------------------------------------------------
(* What the operators of IntQueue preserve, for every queue. *)

\* A set of positions that is not empty has a last one.
LEMMA LastPosition ==
  ASSUME NEW n \in Nat, NEW S \in SUBSET (1..n), S # {}
  PROVE  \E m \in S : \A j \in S : j <= m
<1> DEFINE F == {i..n : i \in S}
<1>1. F \subseteq FiniteSubsetsOf(1..n)
  <2>1. \A i \in S : (i..n) \in SUBSET (1..n) /\ IsFiniteSet(i..n)
    BY FS_Interval
  <2> QED BY <2>1 DEF FiniteSubsetsOf
<1>2. F # {}
  OBVIOUS
<1>3. PICK x \in F : \A y \in F : ~(<<y, x>> \in StrictSubsetOrdering(1..n))
  <2>1. IsWellFoundedOn(StrictSubsetOrdering(1..n), FiniteSubsetsOf(1..n))
    BY FS_StrictSubsetOrderingWellFounded
  <2> HIDE DEF F
  <2> QED BY <1>1, <1>2, <2>1, WFMin
<1>4. PICK m \in S : x = m..n
  OBVIOUS
<1>5. ASSUME NEW j \in S, m < j PROVE FALSE
  <2>1. (j..n) \subseteq (m..n) /\ (j..n) # (m..n)
    <3>1. m \in m..n /\ m \notin j..n
      BY <1>5
    <3> QED BY <1>5, <3>1
  <2>2. <<j..n, m..n>> \in StrictSubsetOrdering(1..n)
    <3>1. (j..n) \in SUBSET (1..n) /\ (m..n) \in SUBSET (1..n)
      OBVIOUS
    <3> QED BY <2>1, <3>1 DEF StrictSubsetOrdering
  <2> QED BY <2>2, <1>3, <1>4
<1> QED BY <1>5

\* A set of positions that is not empty has a first one.
LEMMA FirstPosition ==
  ASSUME NEW n \in Nat, NEW S \in SUBSET (1..n), S # {}
  PROVE  \E m \in S : \A j \in S : m <= j
<1> DEFINE T == {n + 1 - i : i \in S}
<1>1. T \in SUBSET (1..n) /\ T # {}
  <2>1. \A i \in S : i \in 1..n /\ n + 1 - i \in 1..n
    OBVIOUS
  <2>2. PICK i \in S : TRUE
    OBVIOUS
  <2>3. n + 1 - i \in T
    OBVIOUS
  <2> QED BY <2>1, <2>3
<1>2. PICK t \in T : \A u \in T : u <= t
  BY <1>1, LastPosition
<1>3. PICK m \in S : t = n + 1 - m
  OBVIOUS
<1>4. \A j \in S : n + 1 - j <= n + 1 - m
  BY <1>2, <1>3
<1> QED BY <1>4

\* The length and the fields of a queue.
LEMMA QueueFields ==
  ASSUME NEW q \in Seq(Entry)
  PROVE  /\ Len(q) \in Nat
         /\ q \in [1..Len(q) -> Entry]
         /\ \A i \in 1..Len(q) : /\ q[i] \in Entry
                                 /\ q[i].level \in Nat
                                 /\ q[i].vector \in Nat
<1>1. Len(q) \in Nat /\ q \in [1..Len(q) -> Entry] /\ \A i \in 1..Len(q) : q[i] \in Entry
  OBVIOUS
<1>2. \A e \in Entry : e.level \in Nat /\ e.vector \in Nat
  BY DEF Entry
<1> QED BY <1>1, <1>2

\* Below counts a prefix of an ordered queue.
LEMMA BelowIsPrefix ==
  ASSUME NEW q \in Seq(Entry), Ordered(q), NEW level \in Nat
  PROVE  /\ Below(q, level) \in 0..Len(q)
         /\ \A i \in 1..Len(q) : i <= Below(q, level) <=> q[i].level <= level
<1> DEFINE S == {i \in 1..Len(q) : q[i].level <= level}
<1> DEFINE B == Below(q, level)
<1>0. Len(q) \in Nat /\ \A i \in 1..Len(q) : q[i].level \in Nat
  BY QueueFields
<1>1. CASE S = {}
  <2>1. B = 0
    BY <1>1, FS_EmptySet DEF Below
  <2> QED BY <1>0, <1>1, <2>1
<1>2. CASE S # {}
  <2>1. PICK m \in S : \A j \in S : j <= m
    <3>1. S \in SUBSET (1..Len(q))
      OBVIOUS
    <3> HIDE DEF S
    <3> QED BY <1>0, <1>2, <3>1, LastPosition
  <2>2. S = 1..m
    <3>1. ASSUME NEW i \in 1..m PROVE i \in S
      <4>1. i \in 1..Len(q) /\ m \in 1..Len(q) /\ q[m].level <= level
        BY <1>0, <2>1
      <4>2. i = m \/ i < m
        BY <4>1
      <4>3. q[i].level <= q[m].level
        BY <1>0, <4>1, <4>2 DEF Ordered
      <4> QED BY <1>0, <4>1, <4>3
    <3>2. ASSUME NEW i \in S PROVE i \in 1..m
      BY <2>1
    <3> QED BY <3>1, <3>2
  <2>3. B = m
    <3>1. m \in 1..Len(q)
      BY <2>1
    <3>2. Cardinality(1..m) = m
      BY <3>1, FS_Interval
    <3> QED BY <2>2, <3>2 DEF Below
  <2>4. ASSUME NEW i \in 1..Len(q) PROVE i <= m <=> q[i].level <= level
    <3>1. i \in S <=> i \in 1..m
      BY <2>2
    <3> QED BY <1>0, <2>1, <3>1
  <2> QED BY <1>0, <2>1, <2>3, <2>4
<1> QED BY <1>1, <1>2

\* The first position with the level of p exists.
LEMMA GroupHeadIsFirst ==
  ASSUME NEW q \in Seq(Entry), NEW p \in 1..Len(q)
  PROVE  LET h == GroupHead(q, p)
         IN  /\ h \in 1..p
             /\ q[h].level = q[p].level
             /\ \A i \in 1..(h-1) : q[i].level # q[p].level
<1> DEFINE S == {i \in 1..Len(q) : q[i].level = q[p].level}
<1>1. PICK m \in S : \A j \in S : m <= j
  <2>1. S \in SUBSET (1..Len(q)) /\ S # {} /\ Len(q) \in Nat
    OBVIOUS
  <2> HIDE DEF S
  <2> QED BY <2>1, FirstPosition
<1>2. \E j \in 1..Len(q) : /\ q[j].level = q[p].level
                           /\ \A i \in 1..(j-1) : q[i].level # q[p].level
  <2>1. m \in 1..Len(q) /\ q[m].level = q[p].level
    OBVIOUS
  <2>2. ASSUME NEW i \in 1..(m-1) PROVE q[i].level # q[p].level
    BY <1>1, <2>1
  <2> QED BY <2>1, <2>2
<1> DEFINE h == GroupHead(q, p)
<1>3. /\ h \in 1..Len(q)
      /\ q[h].level = q[p].level
      /\ \A i \in 1..(h-1) : q[i].level # q[p].level
  BY <1>2 DEF GroupHead
<1>4. h <= p
  <2>1. ~(p \in 1..(h-1))
    BY <1>3
  <2> QED BY <1>3, <2>1
<1> QED BY <1>3, <1>4

\* The first position of a vector that is queued exists.
LEMMA FindIsFirst ==
  ASSUME NEW q \in Seq(Entry), NEW v, Holds(q, v)
  PROVE  Find(q, v) \in 1..Len(q) /\ q[Find(q, v)].vector = v
<1> DEFINE S == {i \in 1..Len(q) : q[i].vector = v}
<1>1. PICK m \in S : \A j \in S : m <= j
  <2>1. S \in SUBSET (1..Len(q)) /\ S # {} /\ Len(q) \in Nat
    BY DEF Holds
  <2> HIDE DEF S
  <2> QED BY <2>1, FirstPosition
<1>2. \E p \in 1..Len(q) : /\ q[p].vector = v
                           /\ \A i \in 1..(p-1) : q[i].vector # v
  <2>1. m \in 1..Len(q) /\ q[m].vector = v
    OBVIOUS
  <2>2. ASSUME NEW i \in 1..(m-1) PROVE q[i].vector # v
    BY <1>1, <2>1
  <2> QED BY <2>1, <2>2
<1> QED BY <1>2 DEF Find


\* Where each entry of the sorted insertion comes from: the new entry is the
\* one above those at or below its level, and every other position holds an
\* old entry whose level is that of the position's own old neighbour.
LEMMA SortInEntries ==
  ASSUME NEW q \in Seq(Entry), Ordered(q), NEW e \in Entry
  PROVE  LET k == Below(q, e.level)
             n == Len(q)
             r == SortIn(q, e)
         IN  /\ k \in 0..n
             /\ r \in Seq(Entry)
             /\ Len(r) = n + 1
             /\ \A i \in 1..k : r[i] = q[i] /\ q[i].level <= e.level
             /\ r[k+1] = e
             /\ \A i \in (k+2)..(n+1) :
                  \E j \in (k+1)..n : /\ r[i] = q[j]
                                      /\ q[j].level = q[i-1].level
                                      /\ q[j].level > e.level
<1> DEFINE k == Below(q, e.level)
           n == Len(q)
           r == SortIn(q, e)
           E(i) == IF i <= k THEN q[i]
                   ELSE IF i = k+1 THEN e
                   ELSE IF i <= n /\ q[i].level = q[i-1].level THEN q[i]
                   ELSE q[GroupHead(q, i-1)]
<1>1. e.level \in Nat
  BY DEF Entry
<1>2. k \in 0..n /\ \A i \in 1..n : i <= k <=> q[i].level <= e.level
  BY <1>1, BelowIsPrefix
<1>3. n \in Nat /\ \A i \in 1..n : q[i] \in Entry /\ q[i].level \in Nat
  BY QueueFields
<1>4. r = [i \in 1..(n+1) |-> E(i)]
  BY DEF SortIn
<1>5. \A i \in (k+2)..(n+1) :
        \E j \in (k+1)..n : /\ E(i) = q[j]
                            /\ q[j].level = q[i-1].level
                            /\ q[j].level > e.level
  <2> SUFFICES ASSUME NEW i \in (k+2)..(n+1)
               PROVE  \E j \in (k+1)..n : /\ E(i) = q[j]
                                          /\ q[j].level = q[i-1].level
                                          /\ q[j].level > e.level
    OBVIOUS
  <2>1. i-1 \in 1..n /\ i-1 \in (k+1)..n /\ q[i-1].level > e.level
    BY <1>1, <1>2, <1>3
  <2>2. CASE i <= n /\ q[i].level = q[i-1].level
    <3>1. i \in (k+1)..n /\ E(i) = q[i]
      BY <1>2, <1>3, <2>2
    <3> QED BY <2>1, <2>2, <3>1
  <2>3. CASE ~(i <= n /\ q[i].level = q[i-1].level)
    <3> DEFINE h == GroupHead(q, i-1)
    <3>1. h \in 1..(i-1) /\ q[h].level = q[i-1].level
      BY <2>1, GroupHeadIsFirst
    <3>2. E(i) = q[h]
      BY <1>2, <1>3, <2>3
    <3>3. h \in (k+1)..n
      <4>1. h \in 1..n /\ ~(q[h].level <= e.level)
        BY <1>1, <1>3, <2>1, <3>1
      <4> QED BY <1>2, <4>1
    <3> QED BY <2>1, <3>1, <3>2, <3>3
  <2> QED BY <2>2, <2>3
<1>6. \A i \in 1..(n+1) : E(i) \in Entry
  <2> SUFFICES ASSUME NEW i \in 1..(n+1) PROVE E(i) \in Entry
    OBVIOUS
  <2>1. CASE i <= k
    BY <1>2, <1>3, <2>1
  <2>2. CASE i = k+1
    BY <1>2, <1>3, <2>2
  <2>3. CASE i \in (k+2)..(n+1)
    <3>1. PICK j \in (k+1)..n : E(i) = q[j]
      BY <1>5, <2>3
    <3>2. j \in 1..n
      BY <1>2, <1>3
    <3> HIDE DEF E
    <3> QED BY <1>3, <3>1, <3>2
  <2> QED BY <1>2, <1>3, <2>1, <2>2, <2>3
<1>7. r \in [1..(n+1) -> Entry]
  <2> HIDE DEF E
  <2> QED BY <1>4, <1>6
<1>8. r \in Seq(Entry) /\ Len(r) = n + 1
  <2>1. n + 1 \in Nat
    BY <1>3
  <2>2. r \in Seq(Entry)
    <3> HIDE DEF r, n
    <3> QED BY <1>7, <2>1
  <2>3. DOMAIN r = 1..(n+1)
    <3> HIDE DEF r, n
    <3> QED BY <1>7
  <2>4. Len(r) = n + 1
    <3> HIDE DEF r, n
    <3> QED BY <2>1, <2>2, <2>3, LenProperties
  <2> QED BY <2>2, <2>4
<1>9. \A i \in 1..(n+1) : r[i] = E(i)
  <2> HIDE DEF E
  <2> QED BY <1>4
<1>10. \A i \in 1..k : r[i] = q[i] /\ q[i].level <= e.level
  BY <1>2, <1>3, <1>9
<1>11. r[k+1] = e
  BY <1>2, <1>3, <1>9
<1>12. \A i \in (k+2)..(n+1) :
         \E j \in (k+1)..n : /\ r[i] = q[j]
                             /\ q[j].level = q[i-1].level
                             /\ q[j].level > e.level
  <2>1. \A i \in (k+2)..(n+1) : i \in 1..(n+1)
    BY <1>2, <1>3
  <2> HIDE DEF E, r, k, n
  <2> QED BY <1>5, <1>9, <2>1
<1> QED BY <1>2, <1>8, <1>10, <1>11, <1>12

\* The sorted insertion keeps the queue in order.
LEMMA SortInOrdered ==
  ASSUME NEW q \in Seq(Entry), Ordered(q), NEW e \in Entry
  PROVE  Ordered(SortIn(q, e))
<1> DEFINE k == Below(q, e.level)
           n == Len(q)
           r == SortIn(q, e)
<1>1. /\ k \in 0..n
      /\ Len(r) = n + 1
      /\ \A i \in 1..k : r[i] = q[i] /\ q[i].level <= e.level
      /\ r[k+1] = e
      /\ \A i \in (k+2)..(n+1) : r[i].level = q[i-1].level /\ r[i].level > e.level
  <2>1. /\ k \in 0..n
        /\ Len(r) = n + 1
        /\ \A i \in 1..k : r[i] = q[i] /\ q[i].level <= e.level
        /\ r[k+1] = e
        /\ \A i \in (k+2)..(n+1) :
             \E j \in (k+1)..n : /\ r[i] = q[j]
                                 /\ q[j].level = q[i-1].level
                                 /\ q[j].level > e.level
    BY SortInEntries
  <2> HIDE DEF k, n, r
  <2>2. ASSUME NEW i \in (k+2)..(n+1)
        PROVE  r[i].level = q[i-1].level /\ r[i].level > e.level
    <3>1. PICK j \in (k+1)..n : /\ r[i] = q[j]
                                /\ q[j].level = q[i-1].level
                                /\ q[j].level > e.level
      BY <2>1
    <3> QED BY <3>1
  <2> QED BY <2>1, <2>2
<1>2. n \in Nat /\ e.level \in Nat /\ \A i \in 1..n : q[i].level \in Nat
  BY QueueFields DEF Entry
<1>3. \A i, j \in 1..n : i < j => q[i].level <= q[j].level
  BY DEF Ordered
<1> HIDE DEF k, n, r
<1>4. ASSUME NEW i \in 1..(n+1), NEW j \in 1..(n+1), i < j
      PROVE  r[i].level <= r[j].level
  <2>1. CASE j <= k
    BY <1>1, <1>2, <1>3, <1>4, <2>1
  <2>2. CASE j = k+1
    BY <1>1, <1>2, <1>4, <2>2
  <2>3. CASE j > k+1 /\ i <= k+1
    <3>1. r[j].level > e.level /\ r[j].level \in Nat
      <4>1. j \in (k+2)..(n+1) /\ j-1 \in 1..n
        BY <1>1, <1>2, <1>4, <2>3
      <4> QED BY <1>1, <1>2, <4>1
    <3>2. r[i].level <= e.level /\ r[i].level \in Nat
      <4>1. CASE i = k+1
        BY <1>1, <1>2, <4>1
      <4>2. CASE i <= k
        <5>1. i \in 1..k /\ i \in 1..n
          BY <1>1, <1>2, <4>2
        <5> QED BY <1>1, <1>2, <5>1
      <4>3. i \in Int /\ k \in Int /\ i <= k+1
        BY <1>1, <2>3
      <4> QED BY <4>1, <4>2, <4>3
    <3> QED BY <1>2, <3>1, <3>2
  <2>4. CASE j > k+1 /\ i > k+1
    <3>1. i-1 \in 1..n /\ j-1 \in 1..n /\ i-1 < j-1
      BY <1>1, <1>2, <1>4, <2>4
    <3>2. r[i].level = q[i-1].level /\ r[j].level = q[j-1].level
      BY <1>1, <1>2, <1>4, <2>4
    <3> QED BY <1>3, <3>1, <3>2
  <2> QED BY <1>1, <1>2, <2>1, <2>2, <2>3, <2>4
<1> QED BY <1>1, <1>4 DEF Ordered, r

\* The sorted insertion of a vector that is not there repeats no vector.
LEMMA SortInDistinct ==
  ASSUME NEW q \in Seq(Entry), Ordered(q), Distinct(q),
         NEW e \in Entry, ~Holds(q, e.vector)
  PROVE  Distinct(SortIn(q, e))
<1> DEFINE k == Below(q, e.level)
           n == Len(q)
           r == SortIn(q, e)
<1>1. /\ k \in 0..n
      /\ Len(r) = n + 1
      /\ \A i \in 1..k : r[i] = q[i]
      /\ r[k+1] = e
      /\ \A i \in (k+2)..(n+1) : \E j \in (k+1)..n : r[i] = q[j]
  <2> HIDE DEF k, n, r
  <2> QED BY SortInEntries DEF k, n, r
<1>2. n \in Nat /\ \A i \in 1..n : q[i].level \in Nat
  BY QueueFields
<1>3. \A i, j \in 1..n : q[i].vector = q[j].vector => i = j
  BY DEF Distinct
<1>4. \A i \in 1..n : q[i].vector # e.vector
  BY DEF Holds
\* above the new entry, position i holds q[src(i)]
<1> DEFINE src(i) == IF i <= n /\ q[i].level = q[i-1].level
                       THEN i ELSE GroupHead(q, i-1)
<1>5. \A i \in (k+2)..(n+1) : r[i] = q[src(i)] /\ src(i) \in 1..n
  <2> SUFFICES ASSUME NEW i \in (k+2)..(n+1) PROVE r[i] = q[src(i)] /\ src(i) \in 1..n
    OBVIOUS
  <2>1. i \in 1..(n+1) /\ ~(i <= k) /\ i # k+1
    BY <1>1, <1>2
  <2>2. r[i] = q[src(i)]
    BY <2>1 DEF SortIn
  <2>3. i-1 \in 1..n
    BY <1>1, <1>2
  <2>4. GroupHead(q, i-1) \in 1..(i-1)
    BY <2>3, GroupHeadIsFirst
  <2>5. src(i) \in 1..n
    BY <1>2, <2>1, <2>3, <2>4
  <2> QED BY <2>2, <2>5
<1>6. ASSUME NEW i \in (k+2)..(n+1), NEW j \in (k+2)..(n+1), i < j
      PROVE  src(i) # src(j)
  <2>1. i-1 \in 1..n /\ j-1 \in 1..n /\ i \in 1..n /\ i <= j-1
    BY <1>1, <1>2, <1>6
  <2> DEFINE gi == GroupHead(q, i-1)
             gj == GroupHead(q, j-1)
  <2>2. /\ gi \in 1..(i-1) /\ q[gi].level = q[i-1].level
        /\ gj \in 1..(j-1) /\ q[gj].level = q[j-1].level
        /\ \A p \in 1..(gj-1) : q[p].level # q[j-1].level
    BY <2>1, GroupHeadIsFirst
  <2>3. q[i-1].level <= q[i].level /\ (i = j-1 \/ q[i].level <= q[j-1].level)
    BY <2>1 DEF Ordered
  <2> HIDE DEF gi, gj
  <2>4. CASE src(i) = i /\ src(j) = j
    BY <1>6, <2>4
  <2>5. CASE src(i) = i /\ q[i].level = q[i-1].level /\ src(j) = gj
    <3>1. SUFFICES ASSUME gj = i PROVE FALSE
      BY <2>5
    <3>2. i-1 \in 1..(gj-1) /\ q[i-1].level = q[j-1].level
      BY <2>1, <2>2, <2>5, <3>1
    <3> QED BY <2>2, <3>2
  <2>6. CASE src(i) = gi /\ src(j) = j
    BY <1>6, <2>1, <2>2, <2>6
  <2>7. CASE src(i) = gi /\ q[i].level # q[i-1].level /\ src(j) = gj
    <3>1. SUFFICES ASSUME gi = gj PROVE FALSE
      BY <2>7
    <3>2. q[i-1].level = q[j-1].level
      BY <2>2, <3>1
    <3>3. q[i-1].level \in Nat /\ q[i].level \in Nat /\ q[j-1].level \in Nat
      BY <1>2, <2>1
    <3> QED BY <2>1, <2>3, <2>7, <3>2, <3>3
  <2> QED BY <2>1, <2>4, <2>5, <2>6, <2>7 DEF gi, gj
<1> HIDE DEF k, n, r, src
<1>7. ASSUME NEW i \in 1..(n+1), NEW j \in 1..(n+1), i < j
      PROVE  r[i].vector # r[j].vector
  <2>1. CASE j <= k
    <3>1. i \in 1..k /\ j \in 1..k /\ i \in 1..n /\ j \in 1..n
      BY <1>1, <1>2, <1>7, <2>1
    <3> QED BY <1>1, <1>3, <1>7, <3>1
  <2>2. CASE j = k+1
    <3>1. i \in 1..k /\ i \in 1..n
      BY <1>1, <1>2, <1>7, <2>2
    <3> QED BY <1>1, <1>4, <2>2, <3>1
  <2>3. CASE j > k+1 /\ i <= k
    <3>1. PICK p \in (k+1)..n : r[j] = q[p]
      BY <1>1, <1>2, <2>3
    <3>2. i \in 1..k /\ i \in 1..n /\ p \in 1..n /\ i # p
      BY <1>1, <1>2, <1>7, <2>3
    <3> QED BY <1>1, <1>3, <3>1, <3>2
  <2>4. CASE j > k+1 /\ i = k+1
    <3>1. j \in (k+2)..(n+1)
      BY <1>1, <1>2, <2>4
    <3> QED BY <1>1, <1>4, <1>5, <2>4, <3>1
  <2>5. CASE j > k+1 /\ i > k+1
    <3>1. i \in (k+2)..(n+1) /\ j \in (k+2)..(n+1)
      BY <1>1, <1>2, <1>7, <2>5
    <3>2. src(i) # src(j)
      BY <1>6, <1>7, <3>1
    <3> QED BY <1>3, <1>5, <3>1, <3>2
  <2> QED BY <1>1, <1>2, <2>1, <2>2, <2>3, <2>4, <2>5
<1>8. \A i, j \in 1..(n+1) : r[i].vector = r[j].vector => i = j
  <2> SUFFICES ASSUME NEW i \in 1..(n+1), NEW j \in 1..(n+1),
                      r[i].vector = r[j].vector, i # j
               PROVE  FALSE
    OBVIOUS
  <2>1. i < j \/ j < i
    BY <1>2
  <2> QED BY <1>7, <2>1
<1> QED BY <1>1, <1>8 DEF Distinct, r

\* A queue that is in order and repeats no vector.
Fine(q) == q \in Seq(Entry) /\ Ordered(q) /\ Distinct(q)

\* every entry of q is an entry of r
EntriesIn(q, r) == \A i \in 1..Len(q) : \E j \in 1..Len(r) : q[i] = r[j]

\* A function on 1..n is a sequence of length n.
LEMMA FunctionIsQueue ==
  ASSUME NEW n \in Nat, NEW r \in [1..n -> Entry]
  PROVE  r \in Seq(Entry) /\ Len(r) = n
<1>1. r \in Seq(Entry)
  OBVIOUS
<1>2. DOMAIN r = 1..n
  OBVIOUS
<1> QED BY <1>1, <1>2, LenProperties

\* Queueing an interrupt keeps a queue fine, and puts nothing else in.
LEMMA EnqueueFine ==
  ASSUME NEW q, Fine(q), NEW e \in Entry
  PROVE  LET r == Enqueue(q, e)
         IN  /\ Fine(r)
             /\ \A i \in 1..Len(r) : r[i] = e \/ \E j \in 1..Len(q) : r[i] = q[j]
<1>1. CASE Holds(q, e.vector)
  BY <1>1 DEF Enqueue, Fine
<1>2. CASE ~Holds(q, e.vector)
  <2> DEFINE r == SortIn(q, e)
             n == Len(q)
             k == Below(q, e.level)
  <2>1. Enqueue(q, e) = r
    BY <1>2 DEF Enqueue
  <2>2. Fine(r)
    BY <1>2, SortInEntries, SortInOrdered, SortInDistinct DEF Fine
  <2>3. /\ k \in 0..n
        /\ Len(r) = n + 1
        /\ \A i \in 1..k : r[i] = q[i]
        /\ r[k+1] = e
        /\ \A i \in (k+2)..(n+1) : \E j \in (k+1)..n : r[i] = q[j]
    BY SortInEntries DEF Fine
  <2>4. n \in Nat
    BY QueueFields DEF Fine
  <2> HIDE DEF r, n, k
  <2>5. ASSUME NEW i \in 1..(n+1) PROVE r[i] = e \/ \E j \in 1..n : r[i] = q[j]
    <3>1. CASE i \in 1..k
      <4>1. i \in 1..n
        BY <2>3, <2>4, <3>1
      <4> QED BY <2>3, <3>1, <4>1
    <3>2. CASE i = k+1
      BY <2>3, <3>2
    <3>3. CASE i \in (k+2)..(n+1)
      <4>1. PICK j \in (k+1)..n : r[i] = q[j]
        BY <2>3, <3>3
      <4>2. j \in 1..n
        BY <2>3, <2>4
      <4> QED BY <4>1, <4>2
    <3> QED BY <2>3, <2>4, <3>1, <3>2, <3>3
  <2> QED BY <2>1, <2>2, <2>3, <2>5 DEF n
<1> QED BY <1>1, <1>2

\* Taking a position out keeps a queue fine.
LEMMA DropFine ==
  ASSUME NEW q, Fine(q), NEW p \in 1..Len(q)
  PROVE  LET r == Drop(q, p)
         IN  Fine(r) /\ EntriesIn(r, q) /\ Len(r) = Len(q) - 1
<1> DEFINE n == Len(q)
           r == Drop(q, p)
<1>1. n \in Nat /\ p \in 1..n /\ \A i \in 1..n : q[i] \in Entry
  BY QueueFields DEF Fine
<1>2. /\ \A i, j \in 1..n : i < j => q[i].level <= q[j].level
      /\ \A i, j \in 1..n : q[i].vector = q[j].vector => i = j
  BY DEF Fine, Ordered, Distinct
<1>3. r = [i \in 1..(n-1) |-> IF i < p THEN q[i] ELSE q[i+1]]
  BY DEF Drop
<1> HIDE DEF n, r
<1>4. n - 1 \in Nat /\ r \in [1..(n-1) -> Entry]
  BY <1>1, <1>3
<1>5. r \in Seq(Entry) /\ Len(r) = n - 1
  BY <1>4, FunctionIsQueue
<1>6. \A i \in 1..(n-1) : \/ i < p /\ i \in 1..n /\ r[i] = q[i]
                          \/ ~(i < p) /\ i+1 \in 1..n /\ r[i] = q[i+1]
  BY <1>1, <1>3
<1>7. EntriesIn(r, q)
  BY <1>5, <1>6 DEF EntriesIn, n
<1>8. Ordered(r)
  <2> SUFFICES ASSUME NEW i \in 1..(n-1), NEW j \in 1..(n-1), i < j
               PROVE  r[i].level <= r[j].level
    BY <1>5 DEF Ordered
  <2> QED BY <1>1, <1>2, <1>6
<1>9. Distinct(r)
  <2> SUFFICES ASSUME NEW i \in 1..(n-1), NEW j \in 1..(n-1), r[i].vector = r[j].vector
               PROVE  i = j
    BY <1>5 DEF Distinct
  <2> DEFINE from(x) == IF x < p THEN x ELSE x+1
  <2>1. /\ from(i) \in 1..n /\ r[i] = q[from(i)]
        /\ from(j) \in 1..n /\ r[j] = q[from(j)]
    BY <1>6
  <2>2. from(i) = from(j)
    <3> HIDE DEF from
    <3> QED BY <1>2, <2>1
  <2> QED BY <1>1, <2>2
<1> QED BY <1>5, <1>7, <1>8, <1>9 DEF Fine, n, r

\* Withdrawing a vector keeps a queue fine.
LEMMA WithdrawFine ==
  ASSUME NEW q, Fine(q), NEW v
  PROVE  LET r == Withdraw(q, v)
         IN  Fine(r) /\ EntriesIn(r, q)
<1>1. CASE Holds(q, v)
  <2>1. Find(q, v) \in 1..Len(q)
    BY <1>1, FindIsFirst DEF Fine
  <2> QED BY <1>1, <2>1, DropFine DEF Withdraw
<1>2. CASE ~Holds(q, v)
  BY <1>2 DEF Withdraw, EntriesIn
<1> QED BY <1>1, <1>2

\* Dropping the lowest entries keeps a queue fine.
LEMMA SuffixFine ==
  ASSUME NEW q, Fine(q), NEW h \in 0..Len(q)
  PROVE  LET r == [i \in 1..(Len(q) - h) |-> q[i+h]]
         IN  Fine(r) /\ EntriesIn(r, q)
<1> DEFINE n == Len(q)
           r == [i \in 1..(n-h) |-> q[i+h]]
<1>1. n \in Nat /\ h \in 0..n /\ \A i \in 1..n : q[i] \in Entry
  BY QueueFields DEF Fine
<1>2. /\ \A i, j \in 1..n : i < j => q[i].level <= q[j].level
      /\ \A i, j \in 1..n : q[i].vector = q[j].vector => i = j
  BY DEF Fine, Ordered, Distinct
<1> HIDE DEF n
<1>3. n - h \in Nat /\ \A i \in 1..(n-h) : i+h \in 1..n /\ r[i] = q[i+h]
  BY <1>1
<1>4. r \in [1..(n-h) -> Entry]
  BY <1>1, <1>3
<1> HIDE DEF r
<1>5. r \in Seq(Entry) /\ Len(r) = n - h
  BY <1>3, <1>4, FunctionIsQueue
<1>6. EntriesIn(r, q)
  BY <1>3, <1>5 DEF EntriesIn, n
<1>7. Ordered(r)
  <2> SUFFICES ASSUME NEW i \in 1..(n-h), NEW j \in 1..(n-h), i < j
               PROVE  r[i].level <= r[j].level
    BY <1>5 DEF Ordered
  <2> QED BY <1>1, <1>2, <1>3
<1>8. Distinct(r)
  <2> SUFFICES ASSUME NEW i \in 1..(n-h), NEW j \in 1..(n-h), r[i].vector = r[j].vector
               PROVE  i = j
    BY <1>5 DEF Distinct
  <2>1. i+h \in 1..n /\ q[i+h] = r[i] /\ j+h \in 1..n /\ q[j+h] = r[j]
    BY <1>3
  <2>2. i+h = j+h
    BY <1>2, <2>1
  <2> QED BY <1>1, <2>2
<1> QED BY <1>5, <1>6, <1>7, <1>8 DEF Fine, n, r

-----------------------------------------------------------------------------
(* The invariant. *)

\* the requests that wait in the controller
MaskableOnly(q) ==
  \A i \in 1..Len(q) : /\ q[i].vector \in Sources \cap MaskableVectors
                       /\ q[i].level = Level[q[i].vector]

\* what may pend at a CPU: the vectors, and level 16 for the NMI alone
CpuEntry(e, V) ==
  e.vector \in V /\ e.level \in 0..16 /\ (e.level = 16 => e.vector = NMI)
PendingIn(q, V) == \A i \in 1..Len(q) : CpuEntry(q[i], V)

IntcOK(c) ==
  /\ c \in IntcType
  /\ Fine(c.queue) /\ MaskableOnly(c.queue)
  /\ Fine(c.msh2) /\ PendingIn(c.msh2, Sources \cup {NMI})
  /\ Fine(c.ssh2) /\ PendingIn(c.ssh2, {65, 67})

\* the inductive invariant
IInv == IntcOK(intc) /\ mI \in 0..15 /\ sI \in 0..15

-----------------------------------------------------------------------------
(* The constant tables *)

LEMMA LevelRange == \A v \in AllVectors : Level[v] \in 1..15
<1> SUFFICES ASSUME NEW v \in AllVectors PROVE Level[v] \in 1..15
  OBVIOUS
<1>1. v \in 64..77 \cup 80..95
  BY DEF AllVectors, MaskableVectors, ABusVectors
<1>2. Level[v] = CASE v = 64 -> 15 [] v = 65 -> 14 [] v = 66 -> 13
                   [] v = 67 -> 12 [] v = 68 -> 11 [] v = 69 -> 10
                   [] v = 70 -> 9  [] v \in {71, 72} -> 8
                   [] v \in {73, 74} -> 6 [] v = 75 -> 5 [] v = 76 -> 3
                   [] v = 77 -> 2 [] v \in 80..83 -> 7
                   [] v \in 84..87 -> 4 [] OTHER -> 1
  BY DEF Level
<1> QED BY <1>1, <1>2

LEMMA RequestType ==
  ASSUME NEW v \in Sources
  PROVE  /\ Request(v) \in Entry
         /\ Request(v).vector = v
         /\ Request(v).level = Level[v]
         /\ Level[v] \in 1..15
<1>1. v \in AllVectors /\ v \in Nat /\ Level[v] \in 1..15
  BY SourcesAssumption, LevelRange DEF AllVectors, MaskableVectors, ABusVectors
<1> QED BY <1>1 DEF Request, Entry

LEMMA BitTypes ==
  /\ IsFiniteSet(StatusBits)
  /\ \A v \in Sources \cap MaskableVectors : StatusBit(v) \in StatusBits
<1>1. StatusBits \subseteq 0..13
  BY DEF StatusBits, StatusBit, MaskableVectors
<1>2. IsFiniteSet(StatusBits)
  <2>1. IsFiniteSet(0..13)
    <3>1. 0 \in Int /\ 13 \in Int
      OBVIOUS
    <3> QED BY <3>1, FS_Interval
  <2> QED BY <1>1, <2>1, FS_Subset
<1> QED BY <1>2 DEF StatusBits

-----------------------------------------------------------------------------
(* The operators keep IntcOK *)

\* The state with new masks and status, and with the queue that WithQueue sets.
LEMMA WithQueueOK ==
  ASSUME NEW c, IntcOK(c), NEW q, Fine(q), MaskableOnly(q)
  PROVE  IntcOK(WithQueue(c, q))
<1> DEFINE L == {b \in StatusBits :
                   /\ b >= Len(q)
                   /\ IF b < Len(c.queue)
                        THEN StatusBit(c.queue[Len(c.queue)].vector) = b
                        ELSE b \in c.left}
<1>1. WithQueue(c, q) = [c EXCEPT !.queue = q, !.left = L]
  BY DEF WithQueue
<1>2. L \in SUBSET StatusBits
  OBVIOUS
<1>3. q \in Seq(Entry)
  BY DEF Fine
<1> HIDE DEF L
<1> QED BY <1>1, <1>2, <1>3 DEF IntcOK, IntcType

LEMMA RegistersOK ==
  ASSUME NEW c, IntcOK(c), NEW ims \in SUBSET MaskBits,
         NEW ist \in SUBSET StatusBits, NEW a \in BOOLEAN
  PROVE  /\ IntcOK([c EXCEPT !.IMS = ims])
         /\ IntcOK([c EXCEPT !.IST = ist])
         /\ IntcOK([c EXCEPT !.AIACK = a])
BY DEF IntcOK, IntcType

LEMMA EnqueuePending ==
  ASSUME NEW q, Fine(q), NEW V, PendingIn(q, V),
         NEW e \in Entry, CpuEntry(e, V)
  PROVE  Fine(Enqueue(q, e)) /\ PendingIn(Enqueue(q, e), V)
<1> DEFINE r == Enqueue(q, e)
<1>1. /\ Fine(r)
      /\ \A i \in 1..Len(r) : r[i] = e \/ \E j \in 1..Len(q) : r[i] = q[j]
  BY EnqueueFine
<1> HIDE DEF r
<1>2. PendingIn(r, V)
  <2> SUFFICES ASSUME NEW i \in 1..Len(r)
               PROVE  CpuEntry(r[i], V)
    BY DEF PendingIn
  <2>1. CASE r[i] = e
    BY <2>1
  <2>2. CASE \E j \in 1..Len(q) : r[i] = q[j]
    <3>1. PICK j \in 1..Len(q) : r[i] = q[j]
      BY <2>2
    <3> QED BY <3>1 DEF PendingIn
  <2> QED BY <1>1, <2>1, <2>2
<1> QED BY <1>1, <1>2 DEF r

LEMMA EnqueueSlave ==
  ASSUME NEW q, Fine(q), PendingIn(q, {65, 67}),
         NEW v \in {65, 67}, NEW l \in 0..15
  PROVE  LET e == [vector |-> v, level |-> l]
         IN  Fine(Enqueue(q, e)) /\ PendingIn(Enqueue(q, e), {65, 67})
<1> DEFINE e == [vector |-> v, level |-> l]
<1>1. e \in Entry /\ CpuEntry(e, {65, 67})
  BY DEF Entry, CpuEntry
<1> HIDE DEF e
<1>2. Fine(Enqueue(q, e)) /\ PendingIn(Enqueue(q, e), {65, 67})
  BY <1>1, EnqueuePending
<1> QED BY <1>2 DEF e

LEMMA ToCpusOK ==
  ASSUME NEW c, IntcOK(c), NEW v \in Sources
  PROVE  IntcOK(ToCpus(c, v))
<1> DEFINE m == Enqueue(c.msh2, Request(v))
           s == CASE c.IsSSH2Running /\ v = HBlankIN ->
                       Enqueue(c.ssh2, [vector |-> 65, level |-> 1])
                  [] c.IsSSH2Running /\ v = VBlankIN ->
                       Enqueue(c.ssh2, [vector |-> 67, level |-> 2])
                  [] OTHER -> c.ssh2
<1>1. Fine(m) /\ PendingIn(m, Sources \cup {NMI})
  <2>1. /\ Fine(c.msh2) /\ PendingIn(c.msh2, Sources \cup {NMI})
        /\ Request(v) \in Entry /\ CpuEntry(Request(v), Sources \cup {NMI})
    BY RequestType DEF IntcOK, CpuEntry
  <2> QED BY <2>1, EnqueuePending
<1>2. Fine(s) /\ PendingIn(s, {65, 67})
  <2>1. Fine(c.ssh2) /\ PendingIn(c.ssh2, {65, 67})
    BY DEF IntcOK
  <2> DEFINE s1 == Enqueue(c.ssh2, [vector |-> 65, level |-> 1])
             s2 == Enqueue(c.ssh2, [vector |-> 67, level |-> 2])
  <2>2. /\ Fine(s1) /\ PendingIn(s1, {65, 67})
        /\ Fine(s2) /\ PendingIn(s2, {65, 67})
    BY <2>1, EnqueueSlave
  <2>3. s = s1 \/ s = s2 \/ s = c.ssh2
    <3> HIDE DEF s1, s2
    <3> QED BY DEF s1, s2
  <2> HIDE DEF s1, s2, s
  <2> QED BY <2>1, <2>2, <2>3
<1>3. ToCpus(c, v) = [c EXCEPT !.msh2 = m, !.ssh2 = s]
  BY DEF ToCpus
<1>4. m \in Seq(Entry) /\ s \in Seq(Entry)
  BY <1>1, <1>2 DEF Fine
<1> HIDE DEF m, s
<1> QED BY <1>1, <1>2, <1>3, <1>4 DEF IntcOK, IntcType

LEMMA EntriesInPending ==
  ASSUME NEW q, NEW V, PendingIn(q, V), NEW r, EntriesIn(r, q)
  PROVE  PendingIn(r, V)
BY DEF PendingIn, EntriesIn

LEMMA EntriesInMaskable ==
  ASSUME NEW q, MaskableOnly(q), NEW r, EntriesIn(r, q)
  PROVE  MaskableOnly(r)
BY DEF MaskableOnly, EntriesIn

LEMMA MasterOK ==
  ASSUME NEW c, IntcOK(c), NEW q, Fine(q), PendingIn(q, Sources \cup {NMI})
  PROVE  IntcOK([c EXCEPT !.msh2 = q])
<1>1. q \in Seq(Entry)
  BY DEF Fine
<1> QED BY <1>1 DEF IntcOK, IntcType

LEMMA SlaveOK ==
  ASSUME NEW c, IntcOK(c), NEW q, Fine(q), PendingIn(q, {65, 67}), NEW b \in BOOLEAN
  PROVE  /\ IntcOK([c EXCEPT !.ssh2 = q])
         /\ IntcOK([c EXCEPT !.IsSSH2Running = b])
<1>1. q \in Seq(Entry)
  BY DEF Fine
<1> QED BY <1>1 DEF IntcOK, IntcType

LEMMA SendInterruptOK ==
  ASSUME NEW c, IntcOK(c), NEW v \in Sources
  PROVE  IntcOK(SendInterrupt(c, v))
<1> DEFINE ist == c.IST \cup {StatusBit(v)}
           d   == [c EXCEPT !.IST = ist]
<1>1. CASE v \in ABusVectors
  <2> DEFINE a == [c EXCEPT !.AIACK = FALSE]
  <2>1. IntcOK(a)
    BY RegistersOK DEF IntcOK, IntcType
  <2>2. /\ Fine(a.msh2) /\ PendingIn(a.msh2, Sources \cup {NMI})
        /\ a.msh2 = c.msh2
    BY <2>1 DEF IntcOK, IntcType
  <2> DEFINE q == Enqueue(c.msh2, Request(v))
  <2>3. Fine(q) /\ PendingIn(q, Sources \cup {NMI})
    <3>1. Request(v) \in Entry /\ CpuEntry(Request(v), Sources \cup {NMI})
      BY RequestType DEF CpuEntry
    <3> QED BY <2>2, <3>1, EnqueuePending
  <2>4. [c EXCEPT !.AIACK = FALSE, !.msh2 = q] = [a EXCEPT !.msh2 = q]
    BY DEF IntcOK, IntcType
  <2>5. IntcOK([a EXCEPT !.msh2 = q])
    <3> HIDE DEF a, q
    <3> QED BY <2>1, <2>3, MasterOK
  <2>6. SendInterrupt(c, v) \in {c, a, [c EXCEPT !.AIACK = FALSE, !.msh2 = q]}
    BY <1>1 DEF SendInterrupt
  <2> QED BY <2>1, <2>4, <2>5, <2>6
<1>2. CASE v \notin ABusVectors
  <2>1. v \in Sources \cap MaskableVectors
    BY <1>2, SourcesAssumption DEF AllVectors
  <2>2. IntcOK(d)
    <3>1. ist \in SUBSET StatusBits
      BY <2>1, BitTypes DEF IntcOK, IntcType
    <3> HIDE DEF ist
    <3> QED BY <3>1, RegistersOK DEF IntcOK, IntcType
  <2> DEFINE q == Enqueue(c.queue, Request(v))
  <2>3. Fine(q) /\ MaskableOnly(q)
    <3>1. Fine(c.queue) /\ MaskableOnly(c.queue) /\ Request(v) \in Entry
      BY RequestType DEF IntcOK
    <3>2. /\ Fine(q)
          /\ \A i \in 1..Len(q) : \/ q[i] = Request(v)
                                  \/ \E j \in 1..Len(c.queue) : q[i] = c.queue[j]
      BY <3>1, EnqueueFine
    <3> HIDE DEF q
    <3>3. ASSUME NEW i \in 1..Len(q)
          PROVE  /\ q[i].vector \in Sources \cap MaskableVectors
                 /\ q[i].level = Level[q[i].vector]
      <4>1. CASE q[i] = Request(v)
        BY <2>1, <4>1, RequestType
      <4>2. CASE \E j \in 1..Len(c.queue) : q[i] = c.queue[j]
        BY <3>1, <4>2 DEF MaskableOnly
      <4> QED BY <3>2, <4>1, <4>2
    <3> QED BY <3>2, <3>3 DEF MaskableOnly
  <2>4. IntcOK(ToCpus(d, v)) /\ IntcOK(WithQueue(d, q))
    <3> HIDE DEF d, q
    <3> QED BY <2>2, <2>3, ToCpusOK, WithQueueOK
  <2>5. SendInterrupt(c, v) \in {ToCpus(d, v), WithQueue(d, q)}
    BY <1>2 DEF SendInterrupt
  <2> QED BY <2>4, <2>5
<1> QED BY <1>1, <1>2

LEMMA RemoveTimerOK ==
  ASSUME NEW c, IntcOK(c), NEW v
  PROVE  IntcOK(ScuRemoveTimer(c, v))
<1> DEFINE d == [c EXCEPT !.IST = c.IST \ {StatusBit(v)}]
           q == Withdraw(c.queue, v)
           m == Withdraw(c.msh2, v)
           e == WithQueue(d, q)
<1>1. IntcOK(d)
  BY RegistersOK DEF IntcOK, IntcType
<1>2. Fine(q) /\ MaskableOnly(q)
  BY WithdrawFine, EntriesInMaskable DEF IntcOK
<1>3. Fine(m) /\ PendingIn(m, Sources \cup {NMI})
  BY WithdrawFine, EntriesInPending DEF IntcOK
<1>4. IntcOK(e)
  <2> HIDE DEF d, q
  <2> QED BY <1>1, <1>2, WithQueueOK
<1>5. IntcOK([e EXCEPT !.msh2 = m])
  <2> HIDE DEF e, m
  <2> QED BY <1>3, <1>4, MasterOK
<1> QED BY <1>5 DEF ScuRemoveTimer, ScuRemoveInterrupt

LEMMA RemoveVBlankINOK ==
  ASSUME NEW c, IntcOK(c)
  PROVE  IntcOK(ScuRemoveVBlankIN(c))
<1> DEFINE m == Withdraw(c.msh2, VBlankIN)
           s == Withdraw(c.ssh2, 67)
<1>1. Fine(m) /\ PendingIn(m, Sources \cup {NMI})
  BY WithdrawFine, EntriesInPending DEF IntcOK
<1>2. Fine(s) /\ PendingIn(s, {65, 67})
  BY WithdrawFine, EntriesInPending DEF IntcOK
<1>3. ScuRemoveVBlankIN(c) = [c EXCEPT !.msh2 = m, !.ssh2 = s]
  BY DEF ScuRemoveVBlankIN
<1>4. m \in Seq(Entry) /\ s \in Seq(Entry)
  BY <1>1, <1>2 DEF Fine
<1> HIDE DEF m, s
<1> QED BY <1>1, <1>2, <1>3, <1>4 DEF IntcOK, IntcType

\* The request that is served is the last ready one.
LEMMA TopReady ==
  ASSUME NEW c, IntcOK(c), Ready(c) # {}
  PROVE  LET top == CHOOSE i \in Ready(c) : \A j \in Ready(c) : j <= i
         IN  /\ top \in Ready(c)
             /\ top \in 1..Len(c.queue)
             /\ \A j \in Ready(c) : j <= top
<1>1. Ready(c) \in SUBSET (1..Len(c.queue)) /\ Len(c.queue) \in Nat
  BY QueueFields DEF Ready, IntcOK, Fine
<1>2. \E i \in Ready(c) : \A j \in Ready(c) : j <= i
  BY <1>1, LastPosition
<1> QED BY <1>1, <1>2

LEMMA TestInterruptMaskOK ==
  ASSUME NEW c, IntcOK(c)
  PROVE  IntcOK(ScuTestInterruptMask(c))
<1>1. CASE Ready(c) = {}
  BY <1>1 DEF ScuTestInterruptMask
<1>2. CASE Ready(c) # {}
  <2> DEFINE top == CHOOSE i \in Ready(c) : \A j \in Ready(c) : j <= i
             v   == c.queue[top].vector
             t   == ToCpus(c, v)
             ist == c.IST \ {StatusBit(v)}
             d   == [t EXCEPT !.IST = ist]
             q   == Drop(c.queue, top)
  <2>1. top \in 1..Len(c.queue)
    BY <1>2, TopReady
  <2>2. v \in Sources
    BY <2>1 DEF IntcOK, MaskableOnly
  <2>3. IntcOK(t)
    <3> HIDE DEF v
    <3> QED BY <2>2, ToCpusOK
  <2>4. IntcOK(d)
    <3>1. ist \in SUBSET StatusBits
      BY DEF IntcOK, IntcType
    <3>2. t.IMS \in SUBSET MaskBits /\ t.AIACK \in BOOLEAN
      <4> HIDE DEF t
      <4> QED BY <2>3 DEF IntcOK, IntcType
    <3> HIDE DEF t, ist
    <3> QED BY <2>3, <3>1, <3>2, RegistersOK
  <2>5. Fine(q) /\ MaskableOnly(q)
    <3>1. Fine(c.queue) /\ MaskableOnly(c.queue)
      BY DEF IntcOK
    <3> HIDE DEF top
    <3> QED BY <2>1, <3>1, DropFine, EntriesInMaskable
  <2>6. IntcOK(WithQueue(d, q))
    <3> HIDE DEF d, q
    <3> QED BY <2>4, <2>5, WithQueueOK
  <2>7. ScuTestInterruptMask(c) = WithQueue(d, q)
    BY <1>2 DEF ScuTestInterruptMask
  <2> QED BY <2>6, <2>7
<1> QED BY <1>1, <1>2

LEMMA DropLowestOK ==
  ASSUME NEW c, IntcOK(c), NEW h \in 0..Len(c.queue)
  PROVE  IntcOK(DropLowest(c, h))
<1> DEFINE q == [i \in 1..(Len(c.queue) - h) |-> c.queue[i+h]]
<1>1. Fine(q) /\ MaskableOnly(q)
  <2>1. Fine(c.queue) /\ MaskableOnly(c.queue)
    BY DEF IntcOK
  <2>2. Fine(q) /\ EntriesIn(q, c.queue)
    BY <2>1, SuffixFine
  <2> HIDE DEF q
  <2> QED BY <2>1, <2>2, EntriesInMaskable
<1>2. IntcOK(WithQueue(c, q))
  <2> HIDE DEF q
  <2> QED BY <1>1, WithQueueOK
<1> QED BY <1>2 DEF DropLowest

\* A look at the pending queue keeps it fine, and the mask a level.
LEMMA AcceptOK ==
  ASSUME NEW q, Fine(q), NEW V, PendingIn(q, V), NEW I \in 0..15
  PROVE  /\ Fine(AfterAccept(q, I)) /\ PendingIn(AfterAccept(q, I), V)
         /\ MaskAfter(q, I) \in 0..15
<1>1. CASE Accepts(q, I)
  <2>1. Len(q) \in 1..Len(q)
    BY <1>1, QueueFields DEF Accepts, Fine
  <2>2. Fine(Drop(q, Len(q))) /\ PendingIn(Drop(q, Len(q)), V)
    BY <2>1, DropFine, EntriesInPending
  <2>3. q[Len(q)].level \in 0..16
    BY <2>1 DEF PendingIn, CpuEntry
  <2> QED BY <1>1, <2>2, <2>3 DEF AfterAccept, MaskAfter
<1>2. CASE ~Accepts(q, I)
  BY <1>2 DEF AfterAccept, MaskAfter
<1> QED BY <1>1, <1>2

-----------------------------------------------------------------------------
(* The invariant *)

LEMMA InitOK == Init => IInv
<1> SUFFICES ASSUME Init PROVE IInv
  OBVIOUS
<1>1. Fine(<< >>) /\ MaskableOnly(<< >>) /\ \A V : PendingIn(<< >>, V)
  BY DEF Fine, Ordered, Distinct, MaskableOnly, PendingIn
<1> QED BY <1>1 DEF Init, IInv, IntcOK, IntcType

\* The hits of an acknowledge are no more than the requests in the queue.
LEMMA HitsFit ==
  ASSUME NEW c, IntcOK(c), NEW val, NEW hits \in SUBSET (c.IST \ val),
         Cardinality(hits) <= Len(c.queue)
  PROVE  Cardinality(hits) \in 0..Len(c.queue)
<1>1. hits \in SUBSET StatusBits
  BY DEF IntcOK, IntcType
<1>2. Cardinality(hits) \in Nat
  BY <1>1, BitTypes, FS_Subset, FS_CardinalityType
<1>3. Len(c.queue) \in Nat
  BY QueueFields DEF IntcOK, Fine
<1> QED BY <1>2, <1>3

LEMMA NextOK == IInv /\ [Next]_vars => IInv'
<1> SUFFICES ASSUME IInv, [Next]_vars PROVE IInv'
  OBVIOUS
<1>0. IntcOK(intc) /\ mI \in 0..15 /\ sI \in 0..15
  BY DEF IInv
<1>a. \A c : IntcOK(c) => c.IST \in SUBSET StatusBits /\ Fine(c.msh2) /\ Fine(c.ssh2)
                          /\ PendingIn(c.msh2, Sources \cup {NMI})
                          /\ PendingIn(c.ssh2, {65, 67})
  BY DEF IntcOK, IntcType
<1>1. ASSUME NEW v \in Sources, Raise(v) PROVE IInv'
  <2>1. IntcOK(SendInterrupt(intc, v))
    BY <1>0, SendInterruptOK
  <2> QED BY <1>0, <1>1, <2>1 DEF Raise, IInv
<1>2. ASSUME NEW v \in Sources \cap {Timer0, Timer1}, RemoveTimer(v) PROVE IInv'
  <2>1. IntcOK(ScuRemoveTimer(intc, v))
    BY <1>0, RemoveTimerOK
  <2> QED BY <1>0, <1>2, <2>1 DEF RemoveTimer, IInv
<1>3. CASE RemoveVBlankIN
  <2>1. IntcOK(ScuRemoveVBlankIN(intc))
    BY <1>0, RemoveVBlankINOK
  <2> QED BY <1>0, <1>3, <2>1 DEF RemoveVBlankIN, IInv
<1>4. ASSUME NEW val \in SUBSET MaskBits, WriteIMS(val) PROVE IInv'
  <2>1. IntcOK([intc EXCEPT !.IMS = val])
    BY <1>0, RegistersOK DEF IntcOK, IntcType
  <2>2. IntcOK(ScuTestInterruptMask([intc EXCEPT !.IMS = val]))
    BY <2>1, TestInterruptMaskOK
  <2> QED BY <1>0, <1>4, <2>2 DEF WriteIMS, IInv
<1>5. ASSUME NEW val \in SUBSET StatusBits, WriteIST(val) PROVE IInv'
  <2>1. PICK hits \in SUBSET (intc.IST \ val) :
          /\ Cardinality(hits) <= Len(intc.queue)
          /\ intc' = ScuTestInterruptMask(
                       [DropLowest(intc, Cardinality(hits))
                          EXCEPT !.IST = intc.IST \cap val])
    BY <1>5 DEF WriteIST
  <2> DEFINE h == Cardinality(hits)
             d == DropLowest(intc, h)
             e == [d EXCEPT !.IST = intc.IST \cap val]
  <2>2. h \in 0..Len(intc.queue)
    BY <1>0, <2>1, HitsFit
  <2>3. IntcOK(d)
    BY <1>0, <2>2, DropLowestOK
  <2>4. IntcOK(e)
    <3>1. intc.IST \cap val \in SUBSET StatusBits
      BY <1>0, <1>a
    <3>2. d.IMS \in SUBSET MaskBits /\ d.AIACK \in BOOLEAN
      <4> HIDE DEF d
      <4> QED BY <2>3 DEF IntcOK, IntcType
    <3> HIDE DEF d
    <3> QED BY <2>3, <3>1, <3>2, RegistersOK
  <2>5. IntcOK(ScuTestInterruptMask(e))
    <3> HIDE DEF e
    <3> QED BY <2>4, TestInterruptMaskOK
  <2> QED BY <1>0, <1>5, <2>1, <2>5 DEF WriteIST, IInv
<1>6. ASSUME NEW val \in BOOLEAN, WriteAIACK(val) PROVE IInv'
  <2>1. IntcOK([intc EXCEPT !.AIACK = val])
    BY <1>0, RegistersOK DEF IntcOK, IntcType
  <2>2. IntcOK(ScuTestInterruptMask([intc EXCEPT !.AIACK = val]))
    BY <2>1, TestInterruptMaskOK
  <2> QED BY <1>0, <1>6, <2>2 DEF WriteAIACK, IInv
\* a look at a pending queue with the mask I
<1>m. ASSUME NEW I \in 0..15
      PROVE  /\ IntcOK([intc EXCEPT !.msh2 = AfterAccept(intc.msh2, I)])
             /\ MaskAfter(intc.msh2, I) \in 0..15
  <2>1. /\ Fine(AfterAccept(intc.msh2, I))
        /\ PendingIn(AfterAccept(intc.msh2, I), Sources \cup {NMI})
        /\ MaskAfter(intc.msh2, I) \in 0..15
    BY <1>0, <1>a, AcceptOK
  <2> QED BY <1>0, <2>1, MasterOK
<1>s. ASSUME NEW I \in 0..15
      PROVE  /\ IntcOK([intc EXCEPT !.ssh2 = AfterAccept(intc.ssh2, I)])
             /\ MaskAfter(intc.ssh2, I) \in 0..15
  <2>1. /\ Fine(AfterAccept(intc.ssh2, I))
        /\ PendingIn(AfterAccept(intc.ssh2, I), {65, 67})
        /\ MaskAfter(intc.ssh2, I) \in 0..15
    BY <1>0, <1>a, AcceptOK
  <2> QED BY <1>0, <2>1, SlaveOK
<1>7. CASE HandleMaster
  BY <1>0, <1>m, <1>7 DEF HandleMaster, IInv
<1>8. CASE HandleSlave
  BY <1>0, <1>s, <1>8 DEF HandleSlave, IInv
<1>9. ASSUME NEW l \in MaskLevels, LdcSRMaster(l) PROVE IInv'
  <2>1. l \in 0..15
    BY MaskLevelsAssumption
  <2> QED BY <1>0, <1>m, <1>9, <2>1 DEF LdcSRMaster, IInv
<1>10. ASSUME NEW l \in MaskLevels, LdcSRSlave(l) PROVE IInv'
  <2>1. l \in 0..15
    BY MaskLevelsAssumption
  <2> QED BY <1>0, <1>s, <1>10, <2>1 DEF LdcSRSlave, IInv
<1>11. ASSUME NEW emulatebios \in BOOLEAN, StartSlave(emulatebios) PROVE IInv'
  <2> DEFINE d == [intc EXCEPT !.ssh2 = AfterAccept(intc.ssh2, 0)]
  <2>1. IntcOK(d) /\ MaskAfter(intc.ssh2, 0) \in 0..15
    BY <1>s
  <2>2. IntcOK([d EXCEPT !.IsSSH2Running = TRUE])
    <3> HIDE DEF d
    <3> QED BY <2>1 DEF IntcOK, IntcType
  <2>3. [d EXCEPT !.IsSSH2Running = TRUE] =
        [intc EXCEPT !.IsSSH2Running = TRUE, !.ssh2 = AfterAccept(intc.ssh2, 0)]
    BY <1>0 DEF IntcOK, IntcType
  <2>4. IntcOK([intc EXCEPT !.IsSSH2Running = TRUE])
    BY <1>0 DEF IntcOK, IntcType
  <2> QED BY <1>0, <1>11, <2>1, <2>2, <2>3, <2>4 DEF StartSlave, IInv
<1>e. /\ << >> \in Seq(Entry) /\ Fine(<< >>) /\ MaskableOnly(<< >>)
      /\ \A V : PendingIn(<< >>, V)
  BY DEF Fine, Ordered, Distinct, MaskableOnly, PendingIn
<1>n. LET q == Enqueue(intc.msh2, [vector |-> NMI, level |-> 16])
      IN  Fine(q) /\ PendingIn(q, Sources \cup {NMI}) /\ q \in Seq(Entry)
  <2> DEFINE e == [vector |-> NMI, level |-> 16]
  <2>1. e \in Entry /\ CpuEntry(e, Sources \cup {NMI})
    BY DEF Entry, NMI, CpuEntry
  <2> HIDE DEF e
  <2>2. Fine(Enqueue(intc.msh2, e)) /\ PendingIn(Enqueue(intc.msh2, e), Sources \cup {NMI})
    BY <1>0, <1>a, <2>1, EnqueuePending
  <2> QED BY <2>2 DEF e, Fine
<1>12. CASE StopSlave
  <2>1. intc' = [intc EXCEPT !.IsSSH2Running = FALSE, !.ssh2 = << >>]
    BY <1>12 DEF StopSlave
  <2>2. IntcOK(intc')
    BY <1>0, <1>e, <2>1 DEF IntcOK, IntcType
  <2> QED BY <1>0, <1>12, <2>2 DEF StopSlave, IInv
<1>13. CASE SendNMI
  BY <1>0, <1>n, <1>13, MasterOK DEF SendNMI, IInv
<1>14. CASE ClockChange
  <2> DEFINE q == Enqueue(intc.msh2, [vector |-> NMI, level |-> 16])
  <2>1. intc' = [intc EXCEPT !.IMS = MaskBits \ {14}, !.AIACK = FALSE,
                             !.queue = << >>, !.left = {},
                             !.IsSSH2Running = FALSE, !.ssh2 = << >>, !.msh2 = q]
    BY <1>0, <1>14 DEF ClockChange, ScuReset, IntcOK, IntcType
  <2>2. Fine(q) /\ PendingIn(q, Sources \cup {NMI}) /\ q \in Seq(Entry)
    BY <1>n
  <2>3. sI' = 15 /\ mI' = mI
    BY <1>14 DEF ClockChange
  <2> HIDE DEF q
  <2>4. IntcOK(intc')
    BY <1>0, <1>e, <2>1, <2>2 DEF IntcOK, IntcType
  <2> QED BY <1>0, <2>3, <2>4 DEF IInv
<1>15. CASE UNCHANGED vars
  BY <1>0, <1>15 DEF vars, IInv
<1> QED
  BY <1>1, <1>2, <1>3, <1>4, <1>5, <1>6, <1>7, <1>8, <1>9, <1>10, <1>11,
     <1>12, <1>13, <1>14, <1>15 DEF Next

\* The interrupt path keeps the inductive invariant.
THEOREM Invariance == Spec => []IInv
<1> QED BY InitOK, NextOK, PTL DEF Spec

\* The state keeps its type, whatever the sources and the masks of a program.
THEOREM TypeCorrect == Spec => []TypeOK
<1>1. IInv => TypeOK
  BY DEF IInv, IntcOK, TypeOK
<1> QED BY <1>1, Invariance, PTL

\* The queue of the controller and both pending queues stay ordered by level
\* and hold each vector once, so that serving the last entry serves the most
\* urgent one; and no A-bus request is ever in the queue of the controller.
THEOREM QueuesStayInOrder == Spec => []QueuesInOrder
<1>1. IInv => QueuesInOrder
  BY DEF IInv, IntcOK, Fine, MaskableOnly, QueuesInOrder
<1> QED BY <1>1, Invariance, PTL

\* What is left of a fine queue after one look does not beat the new mask.
LEMMA NothingLeftAbove ==
  ASSUME NEW q, Fine(q), NEW V, PendingIn(q, V), NEW I \in 0..15
  PROVE  \A i \in 1..Len(AfterAccept(q, I)) :
           AfterAccept(q, I)[i].level <= MaskAfter(q, I)
<1> DEFINE n == Len(q)
<1>1. /\ n \in Nat
      /\ \A i \in 1..n : q[i].level \in 0..16 /\ (q[i].level = 16 => q[i].vector = NMI)
      /\ \A i, j \in 1..n : i < j => q[i].level <= q[j].level
      /\ \A i, j \in 1..n : q[i].vector = q[j].vector => i = j
  BY QueueFields DEF Fine, PendingIn, CpuEntry, Ordered, Distinct
<1>2. CASE Accepts(q, I)
  <2>1. n \in 1..n /\ q[n].level > I
    BY <1>1, <1>2 DEF Accepts
  <2> DEFINE r == Drop(q, n)
  <2>2. AfterAccept(q, I) = r /\ Len(r) = n - 1
    BY <1>2, <2>1, DropFine DEF AfterAccept
  <2>3. \A i \in 1..(n-1) : r[i] = q[i] /\ i \in 1..n /\ i < n
    BY <1>1 DEF Drop
  <2>4. MaskAfter(q, I) = IF q[n].level = 16 THEN 15 ELSE q[n].level
    BY <1>2 DEF MaskAfter
  <2> HIDE DEF r, n
  <2>5. ASSUME NEW i \in 1..(n-1) PROVE r[i].level <= MaskAfter(q, I)
    <3>1. q[i].level <= q[n].level /\ q[i].level \in 0..16 /\ q[n].level \in 0..16
      BY <1>1, <2>1, <2>3
    <3>2. CASE q[n].level = 16
      <4>1. q[i].level # 16
        BY <1>1, <2>1, <2>3, <3>2 DEF n
      <4> QED BY <2>3, <2>4, <3>1, <3>2, <4>1
    <3>3. CASE q[n].level # 16
      BY <2>3, <2>4, <3>1, <3>3
    <3> QED BY <3>2, <3>3
  <2> QED BY <2>2, <2>5
<1>3. CASE ~Accepts(q, I)
  <2>1. AfterAccept(q, I) = q /\ MaskAfter(q, I) = I
    BY <1>3 DEF AfterAccept, MaskAfter
  <2>2. n = 0 \/ (n \in 1..n /\ q[n].level <= I)
    BY <1>1, <1>3 DEF Accepts
  <2>3. ASSUME NEW i \in 1..n PROVE q[i].level <= I
    <3>1. i = n \/ i < n
      BY <1>1
    <3>2. n \in 1..n /\ q[n].level <= I /\ q[n].level \in 0..16 /\ q[i].level \in 0..16
      BY <1>1, <2>2
    <3>3. q[i].level <= q[n].level
      BY <1>1, <3>1, <3>2
    <3> HIDE DEF n
    <3> QED BY <3>2, <3>3
  <2> QED BY <2>1, <2>3
<1> QED BY <1>2, <1>3

\* The single look SH2HandleInterrupts takes at its queue is enough: nothing
\* that beats the new mask is left pending.
THEOREM MaskCoversPending == Spec => NothingBeatsMask
<1> DEFINE P == HandleMaster \/ (\E l \in MaskLevels : LdcSRMaster(l)) =>
                  \A i \in 1..Len(intc'.msh2) : intc'.msh2[i].level <= mI'
<1>1. IInv /\ [Next]_vars => [P]_vars
  <2> SUFFICES ASSUME IInv PROVE P
    OBVIOUS
  <2>1. /\ intc \in IntcType /\ mI \in 0..15
        /\ Fine(intc.msh2) /\ PendingIn(intc.msh2, Sources \cup {NMI})
    BY DEF IInv, IntcOK
  <2>2. ASSUME NEW I \in 0..15,
               intc' = [intc EXCEPT !.msh2 = AfterAccept(intc.msh2, I)],
               mI' = MaskAfter(intc.msh2, I)
        PROVE  \A i \in 1..Len(intc'.msh2) : intc'.msh2[i].level <= mI'
    <3>1. intc'.msh2 = AfterAccept(intc.msh2, I)
      BY <2>1, <2>2 DEF IntcType
    <3> QED BY <2>1, <2>2, <3>1, NothingLeftAbove
  <2>3. CASE HandleMaster
    BY <2>1, <2>2, <2>3 DEF HandleMaster
  <2>4. ASSUME NEW l \in MaskLevels, LdcSRMaster(l)
        PROVE  \A i \in 1..Len(intc'.msh2) : intc'.msh2[i].level <= mI'
    <3>1. l \in 0..15
      BY MaskLevelsAssumption
    <3> QED BY <2>2, <2>4, <3>1 DEF LdcSRMaster
  <2> QED BY <2>3, <2>4
<1>2. Spec => [][P]_vars
  BY <1>1, Invariance, PTL DEF Spec
<1> QED BY <1>2 DEF NothingBeatsMask

-----------------------------------------------------------------------------
(* What a step hands to the CPUs. *)

\* the vectors a step from c to d adds to the pending queue of the master
Arrived(c, d) == VectorsOf(d.msh2) \ VectorsOf(c.msh2)

\* one vector arrives at most; when it comes from the queue of the controller, no
\* request that stays there ready has a higher level
Delivers(c, d) ==
  /\ \E v : Arrived(c, d) \subseteq {v}
  /\ \A v \in Arrived(c, d) :
       v \in VectorsOf(c.queue) \ VectorsOf(d.queue) =>
         \A i \in Ready(d) : d.queue[i].level <= Level[v]

\* A step that adds nothing to the master's queue delivers nothing wrongly.
LEMMA NothingArrives ==
  ASSUME NEW c, NEW d, VectorsOf(d.msh2) \subseteq VectorsOf(c.msh2)
  PROVE  Delivers(c, d)
<1>1. Arrived(c, d) = {}
  BY DEF Arrived
<1> QED BY <1>1 DEF Delivers

\* A vector that is queued is in the queue, and nothing else is new.
LEMMA EnqueueAdds ==
  ASSUME NEW q, Fine(q), NEW e \in Entry
  PROVE  /\ VectorsOf(Enqueue(q, e)) \subseteq VectorsOf(q) \cup {e.vector}
         /\ Holds(Enqueue(q, e), e.vector)
<1> DEFINE r == Enqueue(q, e)
<1>1. \A i \in 1..Len(r) : r[i] = e \/ \E j \in 1..Len(q) : r[i] = q[j]
  BY EnqueueFine
<1>2. CASE Holds(q, e.vector)
  BY <1>2 DEF Enqueue, VectorsOf
<1>3. CASE ~Holds(q, e.vector)
  <2> DEFINE k == Below(q, e.level)
  <2>1. Len(r) = Len(q) + 1 /\ r[k+1] = e /\ k \in 0..Len(q) /\ Len(q) \in Nat
    BY <1>3, SortInEntries, QueueFields DEF Enqueue, Fine
  <2> HIDE DEF r, k
  <2>2. k+1 \in 1..Len(r)
    BY <2>1
  <2>3. Holds(r, e.vector)
    BY <2>1, <2>2 DEF Holds
  <2>4. VectorsOf(r) \subseteq VectorsOf(q) \cup {e.vector}
    BY <1>1 DEF VectorsOf
  <2> QED BY <2>3, <2>4 DEF r
<1> QED BY <1>2, <1>3

\* A queue without some of its entries has no new vector.
LEMMA EntriesInVectors ==
  ASSUME NEW q, NEW r, EntriesIn(r, q)
  PROVE  VectorsOf(r) \subseteq VectorsOf(q)
BY DEF EntriesIn, VectorsOf

\* A vector handed to the CPUs arrives at the master.
LEMMA ToCpusDelivers ==
  ASSUME NEW c, IntcOK(c), NEW v \in Sources
  PROVE  LET d == ToCpus(c, v)
         IN  /\ Arrived(c, d) \subseteq {v}
             /\ d = [c EXCEPT !.msh2 = d.msh2, !.ssh2 = d.ssh2]
<1> DEFINE m == Enqueue(c.msh2, Request(v))
           s == CASE c.IsSSH2Running /\ v = HBlankIN ->
                       Enqueue(c.ssh2, [vector |-> 65, level |-> 1])
                  [] c.IsSSH2Running /\ v = VBlankIN ->
                       Enqueue(c.ssh2, [vector |-> 67, level |-> 2])
                  [] OTHER -> c.ssh2
           d == ToCpus(c, v)
<1>1. d = [c EXCEPT !.msh2 = m, !.ssh2 = s]
  BY DEF ToCpus
<1>2. VectorsOf(m) \subseteq VectorsOf(c.msh2) \cup {v}
  BY RequestType, EnqueueAdds DEF IntcOK
<1> HIDE DEF m, s
<1>3. c \in IntcType
  BY DEF IntcOK
<1>4. d.msh2 = m /\ d = [c EXCEPT !.msh2 = d.msh2, !.ssh2 = d.ssh2]
  BY <1>1, <1>3 DEF IntcType
<1> HIDE DEF d
<1>5. Arrived(c, d) \subseteq {v}
  BY <1>2, <1>4 DEF Arrived
<1> QED BY <1>4, <1>5 DEF d

\* A source's request delivers its own vector, or waits in the queue.
LEMMA SendInterruptDelivers ==
  ASSUME NEW c, IntcOK(c), NEW v \in Sources
  PROVE  Delivers(c, SendInterrupt(c, v))
<1>1. c \in IntcType
  BY DEF IntcOK
<1> DEFINE d == [c EXCEPT !.IST = c.IST \cup {StatusBit(v)}]
           q == Enqueue(c.queue, Request(v))
           m == Enqueue(c.msh2, Request(v))
<1>2. CASE v \in ABusVectors
  <2>1. VectorsOf(m) \subseteq VectorsOf(c.msh2) \cup {v}
    BY RequestType, EnqueueAdds DEF IntcOK
  <2> HIDE DEF m
  <2> DEFINE a == [c EXCEPT !.AIACK = FALSE, !.msh2 = m]
  <2>3. a.msh2 = m /\ a.queue = c.queue
    BY <1>1 DEF IntcType
  <2>4. Delivers(c, a)
    <3> HIDE DEF a
    <3>1. Arrived(c, a) \subseteq {v}
      BY <2>1, <2>3 DEF Arrived
    <3> QED BY <2>3, <3>1 DEF Delivers
  <2>5. Delivers(c, c) /\ Delivers(c, [c EXCEPT !.AIACK = FALSE])
    <3>1. [c EXCEPT !.AIACK = FALSE].msh2 = c.msh2
      BY <1>1 DEF IntcType
    <3> QED BY <3>1, NothingArrives
  <2>6. SendInterrupt(c, v) \in {c, a, [c EXCEPT !.AIACK = FALSE]}
    BY <1>2 DEF SendInterrupt, m
  <2> QED BY <2>4, <2>5, <2>6
<1>3. CASE v \notin ABusVectors
  <2>1. v \in Sources \cap MaskableVectors
    BY <1>3, SourcesAssumption DEF AllVectors
  <2>2. c.IST \cup {StatusBit(v)} \in SUBSET StatusBits
    BY <1>1, <2>1, BitTypes DEF IntcType
  <2>3. IntcOK(d)
    BY <1>1, <2>2, RegistersOK DEF IntcType
  <2>4. d.msh2 = c.msh2 /\ d.queue = c.queue /\ d \in IntcType
    BY <1>1, <2>2 DEF IntcType
  <2> HIDE DEF d
  <2>5. Delivers(c, ToCpus(d, v))
    <3> DEFINE t == ToCpus(d, v)
    <3>1. Arrived(d, t) \subseteq {v}
          /\ t = [d EXCEPT !.msh2 = t.msh2, !.ssh2 = t.ssh2]
      BY <2>3, ToCpusDelivers
    <3> HIDE DEF t
    <3>2. t.queue = c.queue
      BY <2>4, <3>1 DEF IntcType
    <3>3. Arrived(c, t) = Arrived(d, t)
      BY <2>4 DEF Arrived
    <3>4. Delivers(c, t)
      BY <3>1, <3>2, <3>3 DEF Delivers
    <3> QED BY <3>4 DEF t
  <2>6. Delivers(c, WithQueue(d, q))
    <3>1. WithQueue(d, q).msh2 = c.msh2
      BY <2>4 DEF WithQueue, IntcType
    <3> QED BY <3>1, NothingArrives
  <2>7. SendInterrupt(c, v) \in {ToCpus(d, v), WithQueue(d, q)}
    BY <1>3 DEF SendInterrupt, d
  <2> QED BY <2>5, <2>6, <2>7
<1> QED BY <1>2, <1>3

\* ScuTestInterruptMask takes the request of the highest level of those that are
\* ready: what stays behind and is still ready stood below it.
LEMMA TestInterruptMaskDelivers ==
  ASSUME NEW c, IntcOK(c)
  PROVE  LET d == ScuTestInterruptMask(c)
         IN  /\ \E v : Arrived(c, d) \subseteq {v}
             /\ \A v \in Arrived(c, d) : \A i \in Ready(d) : d.queue[i].level <= Level[v]
<1>1. CASE Ready(c) = {}
  <2>1. ScuTestInterruptMask(c) = c /\ Arrived(c, c) = {}
    BY <1>1 DEF ScuTestInterruptMask, Arrived
  <2> QED BY <2>1
<1>2. CASE Ready(c) # {}
  <2> DEFINE top == CHOOSE i \in Ready(c) : \A j \in Ready(c) : j <= i
             v   == c.queue[top].vector
             t   == ToCpus(c, v)
             u   == [t EXCEPT !.IST = c.IST \ {StatusBit(v)}]
             q   == Drop(c.queue, top)
             d   == WithQueue(u, q)
  <2>1. ScuTestInterruptMask(c) = d
    BY <1>2 DEF ScuTestInterruptMask
  <2>2. top \in 1..Len(c.queue) /\ \A j \in Ready(c) : j <= top
    BY <1>2, TopReady
  <2> HIDE DEF top
  <2>3. v \in Sources /\ c.queue[top].level = Level[v]
    BY <2>2 DEF IntcOK, MaskableOnly
  <2> HIDE DEF v
  <2>4. /\ Arrived(c, t) \subseteq {v} /\ c \in IntcType
        /\ t = [c EXCEPT !.msh2 = t.msh2, !.ssh2 = t.ssh2]
    BY <2>3, ToCpusDelivers DEF IntcOK
  <2> HIDE DEF t
  <2>5. t.IMS = c.IMS /\ DOMAIN t = DOMAIN c
    BY <2>4 DEF IntcType
  <2>6. /\ DOMAIN c = {"IMS", "IST", "AIACK", "queue", "left", "msh2", "ssh2",
                       "IsSSH2Running"}
    BY <2>4 DEF IntcType
  <2>7. u.IMS = c.IMS /\ u.IST \subseteq c.IST /\ u.msh2 = t.msh2
    BY <2>4, <2>5, <2>6
  <2>8. DOMAIN u = DOMAIN c
    BY <2>5
  <2> HIDE DEF u
  <2>9. /\ d.queue = q /\ d.IMS = c.IMS /\ d.IST \subseteq c.IST
        /\ d.msh2 = t.msh2
    BY <2>6, <2>7, <2>8 DEF WithQueue
  <2> HIDE DEF d
  <2>10. Arrived(c, d) \subseteq {v}
    BY <2>4, <2>9 DEF Arrived
  <2>11. ASSUME NEW i \in Ready(d) PROVE d.queue[i].level <= Level[v]
    <3> DEFINE n == Len(c.queue)
               j == IF i < top THEN i ELSE i+1
    <3>1. Fine(c.queue) /\ n \in Nat
      BY QueueFields DEF IntcOK, Fine
    <3>2. i \in 1..Len(q) /\ Len(q) = n - 1
      BY <2>2, <2>9, <3>1, DropFine DEF Ready
    <3>3. i \in 1..(n-1)
      BY <3>2
    <3>4. q[i] = c.queue[j]
      BY <3>3 DEF Drop
    <3>5. j \in 1..n
      BY <2>2, <3>1, <3>3
    <3>6. j \in Ready(c)
      BY <2>9, <3>4, <3>5 DEF Ready
    <3>7. j < top
      BY <2>2, <3>1, <3>3, <3>6
    <3>8. c.queue[j].level <= c.queue[top].level
      BY <2>2, <3>1, <3>5, <3>7 DEF Fine, Ordered
    <3> QED BY <2>3, <2>9, <3>4, <3>8
  <2> QED BY <2>1, <2>10, <2>11
<1> QED BY <1>1, <1>2

\* Nor does a write of a register, which may drop requests first, deliver anything
\* that is not the most urgent.
LEMMA TestAfterWrite ==
  ASSUME NEW c, NEW e, IntcOK(e), e.msh2 = c.msh2
  PROVE  Delivers(c, ScuTestInterruptMask(e))
<1> DEFINE d == ScuTestInterruptMask(e)
<1>1. /\ \E v : Arrived(e, d) \subseteq {v}
      /\ \A v \in Arrived(e, d) : \A i \in Ready(d) : d.queue[i].level <= Level[v]
  BY TestInterruptMaskDelivers
<1> HIDE DEF d
<1>2. Arrived(c, d) = Arrived(e, d)
  BY DEF Arrived
<1>3. Delivers(c, d)
  BY <1>1, <1>2 DEF Delivers
<1> QED BY <1>3 DEF d

\* An NMI delivers itself: it is in no queue of the controller.
LEMMA NMIDelivers ==
  ASSUME NEW c, IntcOK(c), NEW d,
         d.msh2 = Enqueue(c.msh2, [vector |-> NMI, level |-> 16])
  PROVE  Delivers(c, d)
<1>1. [vector |-> NMI, level |-> 16] \in Entry
  BY DEF Entry, NMI
<1>2. Arrived(c, d) \subseteq {NMI}
  BY <1>1, EnqueueAdds DEF IntcOK, Arrived
<1>3. NMI \notin VectorsOf(c.queue)
  <2>1. \A v \in VectorsOf(c.queue) : v \in 64..77
    BY DEF IntcOK, MaskableOnly, VectorsOf, MaskableVectors
  <2> QED BY <2>1 DEF NMI
<1> QED BY <1>2, <1>3 DEF Delivers

\* Taking entries out of the master's queue delivers nothing.
LEMMA FewerDelivers ==
  ASSUME NEW c, NEW d, EntriesIn(d.msh2, c.msh2)
  PROVE  Delivers(c, d)
BY EntriesInVectors, NothingArrives

LEMMA SameDelivers ==
  ASSUME NEW c, NEW d, d.msh2 = c.msh2
  PROVE  Delivers(c, d)
BY NothingArrives

LEMMA NextDelivers == IInv /\ [Next]_vars => Delivers(intc, intc')
<1> SUFFICES ASSUME IInv, [Next]_vars PROVE Delivers(intc, intc')
  OBVIOUS
<1>0. /\ IntcOK(intc) /\ intc \in IntcType /\ Fine(intc.queue) /\ Fine(intc.msh2)
      /\ mI \in 0..15
  BY DEF IInv, IntcOK
<1>1. ASSUME NEW v \in Sources, Raise(v) PROVE Delivers(intc, intc')
  BY <1>0, <1>1, SendInterruptDelivers DEF Raise
<1>2. ASSUME NEW v, RemoveTimer(v) PROVE Delivers(intc, intc')
  <2>1. intc'.msh2 = Withdraw(intc.msh2, v)
    <3> DEFINE d == ScuRemoveInterrupt(intc, v)
    <3>1. DOMAIN d = DOMAIN intc /\ "msh2" \in DOMAIN intc
      BY <1>0 DEF ScuRemoveInterrupt, WithQueue, IntcType
    <3>2. intc' = [d EXCEPT !.msh2 = Withdraw(intc.msh2, v)]
      BY <1>2 DEF RemoveTimer, ScuRemoveTimer
    <3> HIDE DEF d
    <3> QED BY <3>1, <3>2
  <2>2. EntriesIn(intc'.msh2, intc.msh2)
    BY <1>0, <2>1, WithdrawFine
  <2> QED BY <2>2, FewerDelivers
<1>3. CASE RemoveVBlankIN
  <2>1. intc'.msh2 = Withdraw(intc.msh2, VBlankIN)
    BY <1>0, <1>3 DEF RemoveVBlankIN, ScuRemoveVBlankIN, IntcType
  <2>2. EntriesIn(intc'.msh2, intc.msh2)
    BY <1>0, <2>1, WithdrawFine
  <2> QED BY <2>2, FewerDelivers
<1>4. ASSUME NEW val \in SUBSET MaskBits, WriteIMS(val) PROVE Delivers(intc, intc')
  <2> DEFINE e == [intc EXCEPT !.IMS = val]
  <2>1. IntcOK(e) /\ e.msh2 = intc.msh2
    BY <1>0, RegistersOK DEF IntcOK, IntcType
  <2> HIDE DEF e
  <2>2. Delivers(intc, ScuTestInterruptMask(e))
    BY <2>1, TestAfterWrite
  <2> QED BY <1>4, <2>2 DEF WriteIMS, e
<1>5. ASSUME NEW val \in SUBSET StatusBits, WriteIST(val) PROVE Delivers(intc, intc')
  <2>1. PICK hits \in SUBSET (intc.IST \ val) :
          /\ Cardinality(hits) <= Len(intc.queue)
          /\ intc' = ScuTestInterruptMask(
                       [DropLowest(intc, Cardinality(hits))
                          EXCEPT !.IST = intc.IST \cap val])
    BY <1>5 DEF WriteIST
  <2> DEFINE h == Cardinality(hits)
             d == DropLowest(intc, h)
             e == [d EXCEPT !.IST = intc.IST \cap val]
  <2>2. h \in 0..Len(intc.queue)
    BY <1>0, <2>1, HitsFit
  <2>3. IntcOK(d)
    BY <1>0, <2>2, DropLowestOK
  <2>4. d.msh2 = intc.msh2
    BY <1>0 DEF DropLowest, WithQueue, IntcType
  <2>5. IntcOK(e) /\ e.msh2 = intc.msh2
    <3>1. intc.IST \cap val \in SUBSET StatusBits
      BY <1>0 DEF IntcType
    <3> HIDE DEF d
    <3>2. d \in IntcType
      BY <2>3 DEF IntcOK
    <3>3. d.IMS \in SUBSET MaskBits /\ d.AIACK \in BOOLEAN
      BY <3>2 DEF IntcType
    <3>4. IntcOK(e)
      BY <2>3, <3>1, <3>3, RegistersOK
    <3>5. e.msh2 = d.msh2
      BY <3>2 DEF IntcType
    <3> QED BY <2>4, <3>4, <3>5
  <2> HIDE DEF e
  <2>6. Delivers(intc, ScuTestInterruptMask(e))
    BY <2>5, TestAfterWrite
  <2> QED BY <2>1, <2>6 DEF e
<1>6. ASSUME NEW val \in BOOLEAN, WriteAIACK(val) PROVE Delivers(intc, intc')
  <2> DEFINE e == [intc EXCEPT !.AIACK = val]
  <2>1. IntcOK(e) /\ e.msh2 = intc.msh2
    BY <1>0, RegistersOK DEF IntcOK, IntcType
  <2> HIDE DEF e
  <2>2. Delivers(intc, ScuTestInterruptMask(e))
    BY <2>1, TestAfterWrite
  <2> QED BY <1>6, <2>2 DEF WriteAIACK, e
<1>m. ASSUME NEW I, intc' = [intc EXCEPT !.msh2 = AfterAccept(intc.msh2, I)]
      PROVE  Delivers(intc, intc')
  <2>1. intc'.msh2 = AfterAccept(intc.msh2, I)
    BY <1>0, <1>m DEF IntcType
  <2>2. EntriesIn(AfterAccept(intc.msh2, I), intc.msh2)
    <3>1. CASE Accepts(intc.msh2, I)
      <4>1. Len(intc.msh2) \in 1..Len(intc.msh2)
        BY <1>0, <3>1, QueueFields DEF Accepts, Fine
      <4> QED BY <1>0, <3>1, <4>1, DropFine DEF AfterAccept
    <3>2. CASE ~Accepts(intc.msh2, I)
      BY <3>2 DEF AfterAccept, EntriesIn
    <3> QED BY <3>1, <3>2
  <2> QED BY <2>1, <2>2, FewerDelivers
<1>7. CASE HandleMaster \/ \E l \in MaskLevels : LdcSRMaster(l)
  BY <1>7, <1>m DEF HandleMaster, LdcSRMaster
<1>8. CASE \/ HandleSlave \/ \E l \in MaskLevels : LdcSRSlave(l)
           \/ \E emulatebios \in BOOLEAN : StartSlave(emulatebios)
           \/ StopSlave
  <2>1. intc'.msh2 = intc.msh2
    BY <1>0, <1>8 DEF HandleSlave, LdcSRSlave, StartSlave, StopSlave, IntcType
  <2> QED BY <2>1, SameDelivers
<1>9. CASE SendNMI
  BY <1>0, <1>9, NMIDelivers DEF SendNMI, IntcType
<1>10. CASE ClockChange
  <2> DEFINE q == Enqueue(intc.msh2, [vector |-> NMI, level |-> 16])
  <2>1. intc' = [intc EXCEPT !.IMS = MaskBits \ {14}, !.AIACK = FALSE,
                             !.queue = << >>, !.left = {},
                             !.IsSSH2Running = FALSE, !.ssh2 = << >>, !.msh2 = q]
    BY <1>0, <1>10 DEF ClockChange, ScuReset, IntcType
  <2> HIDE DEF q
  <2>2. intc'.msh2 = q
    BY <1>0, <2>1 DEF IntcType
  <2> QED BY <1>0, <2>2, NMIDelivers DEF q
<1>11. CASE UNCHANGED vars
  BY <1>11, SameDelivers DEF vars
<1> QED
  BY <1>1, <1>2, <1>3, <1>4, <1>5, <1>6, <1>7, <1>8, <1>9, <1>10, <1>11 DEF Next

\* Whatever the program unmasks or acknowledges, the request that goes to the
\* master is the most urgent of those that were ready, and it is one only.
THEOREM HighestIsServedFirst == Spec => ServesHighestFirst
<1> DEFINE A == /\ \A v \in VectorsOf(intc.queue) \ VectorsOf(intc'.queue) :
                     Holds(intc'.msh2, v) /\ ~Holds(intc.msh2, v) =>
                       \A i \in Ready(intc') : intc'.queue[i].level <= Level[v]
                /\ Cardinality(VectorsOf(intc'.msh2) \ VectorsOf(intc.msh2)) <= 1
<1>1. Delivers(intc, intc') => A
  <2> SUFFICES ASSUME Delivers(intc, intc') PROVE A
    OBVIOUS
  <2>1. ASSUME NEW v \in VectorsOf(intc.queue) \ VectorsOf(intc'.queue),
               Holds(intc'.msh2, v), ~Holds(intc.msh2, v)
        PROVE  \A i \in Ready(intc') : intc'.queue[i].level <= Level[v]
    <3>1. v \in Arrived(intc, intc')
      BY <2>1 DEF Arrived, Holds, VectorsOf
    <3> QED BY <2>1, <3>1 DEF Delivers
  <2>2. Cardinality(Arrived(intc, intc')) <= 1
    <3>1. PICK v : Arrived(intc, intc') \subseteq {v}
      BY DEF Delivers
    <3>2. CASE Arrived(intc, intc') = {}
      BY <3>2, FS_EmptySet
    <3>3. CASE Arrived(intc, intc') = {v}
      <4>1. Cardinality({v}) = 1
        BY FS_Singleton
      <4> QED BY <3>3, <4>1
    <3> QED BY <3>1, <3>2, <3>3
  <2> QED BY <2>1, <2>2 DEF Arrived
<1>2. IInv /\ [Next]_vars => [A]_vars
  BY <1>1, NextDelivers
<1>3. Spec => [][A]_vars
  BY <1>2, Invariance, PTL DEF Spec
<1> QED BY <1>3 DEF ServesHighestFirst

=============================================================================
