--------------------------- MODULE ScuFrameProofs ---------------------------
(***************************************************************************)
(* ScuFrame for every number of lines, slices and levels, every place of   *)
(* the blank, every transfer the program asks for and any number of writes,*)
(* resets and changes of the clock.                                        *)
(*                                                                         *)
(* The blanks: what the SCU does in a step has no part in them.  Timer 0:  *)
(* of the operators of the SCU all but HBlank-IN, VBlank-OUT and the reset *)
(* leave it alone.  The transfers: what a share of time makes of the steps *)
(* a level has to do, by the recursion that counts them, and from it that  *)
(* every operator of the SCU leaves each level owed what it is to be owed. *)
(***************************************************************************)
EXTENDS ScuFrame, FiniteSetTheorems, TLAPS

-----------------------------------------------------------------------------
(* The steps of a transfer. *)

\* A set of numbers that is not empty has a least one.
LEMMA LeastNumber ==
  ASSUME NEW T, T \subseteq Nat, T # {}
  PROVE  \E m \in T : \A j \in T : m <= j
<1>1. PICK m \in T : \A j \in T : ~(<<j, m>> \in OpToRel(<, Nat))
  BY NatLessThanWellFounded, WFMin
<1>2. \A j \in T : ~(j < m)
  BY <1>1 DEF OpToRel
<1> QED BY <1>2

\* An entry takes a step at least.
LEMMA StepsPositive ==
  \A n \in Nat, unit \in Nat \ {0} : Steps(n, unit) \in Nat \ {0}
<1> SUFFICES ASSUME NEW n \in Nat, NEW unit \in Nat \ {0}
             PROVE  Steps(n, unit) \in Nat \ {0}
  OBVIOUS
<1>1. CASE n = 0
  BY <1>1 DEF Steps
<1>2. CASE n > 0
  <2>1. (n + unit - 1) \div unit >= 1
    BY <1>2
  <2> QED BY <1>2, <2>1 DEF Steps
<1> QED BY <1>1, <1>2

\* The steps of the first i entries, for each i, are what the recursion says.
LEMMA StepsOfIs ==
  ASSUME NEW q \in Seq(Nat), NEW unit \in Nat \ {0}
  PROVE  /\ StepsOf(q, unit) \in [0..Len(q) -> Nat]
         /\ StepsOf(q, unit)[0] = 0
         /\ \A i \in 1..Len(q) :
              StepsOf(q, unit)[i] = StepsOf(q, unit)[i-1] + Steps(q[i], unit)
<1> DEFINE n == Len(q)
           S(i) == Steps(q[i], unit)
           Sums(k, f) == /\ f \in [0..n -> Nat] /\ f[0] = 0
                         /\ \A i \in 1..k : f[i] = f[i-1] + S(i)
           T == {k \in 0..n : ~ \E f : Sums(k, f)}
<1>1. n \in Nat /\ \A i \in 1..n : S(i) \in Nat
  <2>1. n \in Nat /\ \A i \in 1..n : q[i] \in Nat
    OBVIOUS
  <2>2. \A i \in 1..n : Steps(q[i], unit) \in Nat
    BY <2>1, StepsPositive
  <2> QED BY <2>1, <2>2
<1> HIDE DEF n, S
<1>2. T = {}
  <2> SUFFICES ASSUME T # {} PROVE FALSE
    OBVIOUS
  <2>1. PICK k \in T : \A j \in T : k <= j
    <3>1. T \subseteq Nat
      BY <1>1
    <3> QED BY <3>1, LeastNumber
  <2>2. k # 0
    <3>1. Sums(0, [i \in 0..n |-> 0])
      BY <1>1
    <3> QED BY <3>1, <2>1
  <2>3. k - 1 \in 0..n /\ k - 1 \notin T /\ k \in 1..n
    <3>1. k \in 0..n
      OBVIOUS
    <3>2. k - 1 \in 0..n /\ k \in 1..n /\ ~(k <= k - 1)
      BY <1>1, <2>2, <3>1
    <3> HIDE DEF T
    <3> QED BY <2>1, <3>2
  <2>4. PICK f : Sums(k - 1, f)
    BY <2>3, Zenon
  <2> DEFINE g == [f EXCEPT ![k] = f[k-1] + S(k)]
  <2>5. Sums(k, g)
    <3>1. f \in [0..n -> Nat] /\ f[0] = 0 /\ \A i \in 1..(k-1) : f[i] = f[i-1] + S(i)
      BY <2>4
    <3>2. f[k-1] + S(k) \in Nat
      <4>1. f[k-1] \in Nat
        BY <2>3, <3>1
      <4>2. S(k) \in Nat
        BY <1>1, <2>3
      <4> QED BY <4>1, <4>2
    <3>3. g \in [0..n -> Nat]
      BY <3>1, <3>2
    <3>4. g[k] = f[k-1] + S(k) /\ \A i \in 0..(k-1) : g[i] = f[i]
      BY <2>3, <3>1
    <3> HIDE DEF g
    <3>5. g[0] = 0
      BY <2>3, <3>1, <3>4
    <3>6. \A i \in 1..k : g[i] = g[i-1] + S(i)
      <4> SUFFICES ASSUME NEW i \in 1..k PROVE g[i] = g[i-1] + S(i)
        OBVIOUS
      <4>1. CASE i = k
        BY <2>3, <3>4, <4>1
      <4>2. CASE i # k
        <5>1. i \in 1..(k-1) /\ i \in 0..(k-1) /\ i - 1 \in 0..(k-1)
          BY <2>3, <4>2
        <5>2. g[i] = f[i] /\ g[i-1] = f[i-1]
          BY <3>4, <5>1
        <5>3. f[i] = f[i-1] + S(i)
          BY <3>1, <5>1, Zenon
        <5> QED BY <5>2, <5>3, Zenon
      <4> QED BY <4>1, <4>2
    <3> QED BY <3>3, <3>5, <3>6
  <2> QED BY <2>1, <2>5
<1>3. PICK f : Sums(n, f)
  <2>1. n \in 0..n
    BY <1>1
  <2> HIDE DEF Sums
  <2> QED BY <1>2, <2>1, Zenon
<1>4. f = [i \in 0..n |-> IF i = 0 THEN 0 ELSE f[i-1] + S(i)]
  BY <1>1, <1>3
<1> DEFINE g == StepsOf(q, unit)
<1>5. g = [i \in 0..n |-> IF i = 0 THEN 0 ELSE g[i-1] + S(i)]
  BY <1>4, Zenon DEF StepsOf, n, S
<1> HIDE DEF g
<1>6. /\ g \in [0..n -> Nat]
      /\ g[0] = 0
      /\ \A i \in 1..n : g[i] = g[i-1] + S(i)
  <2>1. /\ DOMAIN g = 0..n
        /\ \A i \in 0..n : g[i] = IF i = 0 THEN 0 ELSE g[i-1] + S(i)
    BY <1>5, Zenon
  <2>2. g[0] = 0 /\ \A i \in 1..n : g[i] = g[i-1] + S(i)
    BY <1>1, <2>1
  <2> DEFINE U == {k \in 0..n : g[k] \notin Nat}
  <2>3. U = {}
    <3> SUFFICES ASSUME U # {} PROVE FALSE
      OBVIOUS
    <3>1. PICK k \in U : \A j \in U : k <= j
      <4>1. U \subseteq Nat
        BY <1>1
      <4> QED BY <4>1, LeastNumber
    <3>2. k # 0
      BY <2>2, <3>1
    <3>3. k - 1 \in 0..n /\ k - 1 \notin U /\ k \in 1..n
      BY <1>1, <3>1, <3>2
    <3> QED BY <1>1, <2>2, <3>1, <3>3
  <2>4. g = [i \in 0..n |-> g[i]]
    BY <1>5, Zenon
  <2> QED BY <2>2, <2>3, <2>4
<1> QED BY <1>6 DEF n, S, g

\* More entries take more steps.
LEMMA StepsGrow ==
  ASSUME NEW q \in Seq(Nat), NEW unit \in Nat \ {0},
         NEW i \in 0..Len(q), NEW j \in 0..Len(q), i < j
  PROVE  StepsOf(q, unit)[i] < StepsOf(q, unit)[j]
<1> DEFINE n == Len(q)
           g == StepsOf(q, unit)
           T == {k \in (i+1)..n : ~(g[i] < g[k])}
<1>1. n \in Nat /\ g \in [0..n -> Nat]
  BY StepsOfIs
<1>2. \A k \in 1..n : g[k-1] < g[k]
  <2> SUFFICES ASSUME NEW k \in 1..n PROVE g[k-1] < g[k]
    OBVIOUS
  <2>1. g[k] = g[k-1] + Steps(q[k], unit)
    BY StepsOfIs
  <2>2. Steps(q[k], unit) \in Nat \ {0}
    <3>1. q[k] \in Nat
      OBVIOUS
    <3> QED BY <3>1, StepsPositive
  <2> HIDE DEF g
  <2>3. g[k-1] \in Nat
    <3>1. k - 1 \in 0..n
      BY <1>1
    <3> QED BY <1>1, <3>1
  <2> QED BY <2>1, <2>2, <2>3
<1> HIDE DEF g, n
<1>3. T = {}
  <2> SUFFICES ASSUME T # {} PROVE FALSE
    OBVIOUS
  <2>1. PICK k \in T : \A m \in T : k <= m
    <3>1. T \subseteq Nat
      BY <1>1 DEF n
    <3> QED BY <3>1, LeastNumber
  <2>2. k \in (i+1)..n /\ k \in 1..n /\ ~(g[i] < g[k]) /\ i \in 0..n
    BY <2>1 DEF n
  <2>3. g[k-1] < g[k] /\ g[k-1] \in Nat /\ g[k] \in Nat /\ g[i] \in Nat
    BY <1>1, <1>2, <2>2
  <2>4. ~(g[i] < g[k-1]) /\ g[i] # g[k-1]
    BY <2>2, <2>3
  <2>5. k - 1 \in (i+1)..n /\ k - 1 < k
    <3>1. k # i + 1
      BY <2>2, <2>4
    <3> QED BY <1>1, <2>2, <3>1
  <2>6. k - 1 \in T
    BY <2>4, <2>5
  <2> QED BY <1>1, <2>1, <2>2, <2>5, <2>6
<1>4. j \in (i+1)..n
  BY DEF n
<1> QED BY <1>3, <1>4 DEF g

\* The entries that time is enough for are the first ones, and none of the others
\* is: SucDmaCheck counts them.
LEMMA DoneIs ==
  ASSUME NEW q \in Seq(Nat), NEW unit \in Nat \ {0}, NEW time \in Nat
  PROVE  LET done == Cardinality({i \in 1..Len(q) : StepsOf(q, unit)[i] <= time}) IN
           /\ done \in 0..Len(q)
           /\ StepsOf(q, unit)[done] <= time
           /\ done < Len(q) => time < StepsOf(q, unit)[done + 1]
<1> DEFINE n == Len(q)
           g == StepsOf(q, unit)
           S == {i \in 1..n : g[i] <= time}
           T == {i \in 1..n : ~(g[i] <= time)}
<1>1. n \in Nat /\ g \in [0..n -> Nat] /\ g[0] = 0
  BY StepsOfIs
<1>2. \A i, j \in 0..n : i < j => g[i] < g[j]
  BY StepsGrow
<1> SUFFICES \E k \in 0..n : /\ S = 1..k /\ g[k] <= time
                             /\ k < n => time < g[k+1]
  <2>1. \A k \in 0..n : Cardinality(1..k) = k
    BY <1>1, FS_Interval
  <2> HIDE DEF n, g
  <2> QED BY <2>1, Zenon DEF n, g, S
<1> HIDE DEF g, n
<1>3. CASE T = {}
  <2>1. S = 1..n
    BY <1>3
  <2>2. g[n] <= time
    <3>1. CASE n = 0
      BY <1>1, <3>1
    <3>2. CASE n # 0
      <4>1. n \in 1..n
        BY <1>1, <3>2
      <4> QED BY <1>3, <4>1
    <3> QED BY <3>1, <3>2
  <2> QED BY <1>1, <2>1, <2>2
<1>4. CASE T # {}
  <2>1. PICK m \in T : \A j \in T : m <= j
    <3>1. T \subseteq Nat
      BY <1>1
    <3> QED BY <1>4, <3>1, LeastNumber
  <2>2. m \in 1..n /\ ~(g[m] <= time) /\ m - 1 \in 0..n /\ m \in 0..n
    BY <1>1, <2>1
  <2>3. time < g[m] /\ g[m] \in Nat
    BY <1>1, <2>2
  <2>4. ASSUME NEW i \in 1..n, i < m PROVE g[i] <= time
    <3>1. ~(m <= i)
      BY <1>1, <2>2, <2>4
    <3> QED BY <2>1, <3>1
  <2>5. ASSUME NEW i \in 1..n, ~(i < m) PROVE ~(g[i] <= time)
    <3>1. CASE i = m
      BY <3>1, <2>2
    <3>2. CASE i # m
      <4>1. m < i /\ i \in 0..n
        BY <1>1, <2>2, <2>5, <3>2
      <4>2. g[m] < g[i] /\ g[i] \in Nat
        BY <1>1, <1>2, <2>2, <4>1
      <4> QED BY <2>3, <4>2
    <3> QED BY <3>1, <3>2
  <2>6. \A i \in 1..n : g[i] <= time <=> i < m
    BY <2>4, <2>5, Zenon
  <2>7. S = 1..(m-1)
    <3>1. S = {i \in 1..n : i < m}
      BY <2>6
    <3> HIDE DEF S
    <3> QED BY <1>1, <2>2, <3>1
  <2>8. g[m-1] <= time
    <3>1. CASE m = 1
      BY <1>1, <3>1
    <3>2. CASE m # 1
      <4>1. m - 1 \in 1..n /\ m - 1 < m
        BY <1>1, <2>2, <3>2
      <4> QED BY <2>4, <4>1
    <3> QED BY <3>1, <3>2
  <2>9. time < g[(m-1)+1]
    BY <2>2, <2>3
  <2> QED BY <2>2, <2>7, <2>8, <2>9
<1> QED BY <1>3, <1>4

\* Division, by a number that is not a constant.
LEMMA DivIs ==
  ASSUME NEW x \in Nat, NEW u \in Nat \ {0}
  PROVE  /\ x \div u \in Nat
         /\ u * (x \div u) <= x /\ x < u * (x \div u) + u
         /\ \A c \in Int : u * c <= x /\ x < u * c + u => x \div u = c
<1>1. x \div u \in Nat /\ x % u \in 0..(u-1) /\ x = u * (x \div u) + (x % u)
  OBVIOUS
<1> DEFINE b == x \div u
<1>2. u * b <= x /\ x < u * b + u
  BY <1>1
<1>3. ASSUME NEW c \in Int, u * c <= x, x < u * c + u PROVE b = c
  <2>1. b \in Int /\ u \in Int
    BY <1>1
  <2> HIDE DEF b
  <2>2. CASE b < c
    <3>1. u * (c - b - 1) >= 0
      BY <2>1, <2>2
    <3>2. u * c - u * b - u >= 0
      BY <2>1, <3>1
    <3> QED BY <1>2, <1>3, <2>1, <3>2
  <2>3. CASE c < b
    <3>1. u * (b - c - 1) >= 0
      BY <2>1, <2>3
    <3>2. u * b - u * c - u >= 0
      BY <2>1, <3>1
    <3> QED BY <1>2, <1>3, <2>1, <3>2
  <2> QED BY <2>1, <2>2, <2>3
<1> QED BY <1>1, <1>2, <1>3

\* What is left of an entry after fewer steps than it takes: something, unless it
\* has the count 0, and the rest of its steps.
LEMMA LeftOfEntry ==
  ASSUME NEW n \in Nat, NEW u \in Nat \ {0}, NEW t \in Nat, t < Steps(n, u)
  PROVE  /\ n - t * u \in Nat
         /\ n # 0 => n - t * u > 0
         /\ n - t * u > 0 => Steps(n - t * u, u) = Steps(n, u) - t
<1>1. CASE n = 0
  <2>1. t = 0
    BY <1>1 DEF Steps
  <2> QED BY <1>1, <2>1
<1>2. CASE n # 0
  <2> DEFINE x == n + u - 1
             c == x \div u
             m == n - t * u
  <2>1. x \in Nat /\ Steps(n, u) = c /\ n > 0
    BY <1>2 DEF Steps
  <2>2. c \in Nat /\ u * c <= x /\ x < u * c + u
    BY <2>1, DivIs
  <2>3. t + 1 <= c
    BY <2>1, <2>2
  <2>4. t * u \in Nat /\ u * c \in Nat /\ t * u + u <= u * c
    <3> HIDE DEF c
    <3>1. u * (c - t - 1) >= 0
      BY <2>2, <2>3
    <3> QED BY <2>2, <3>1
  <2>5. m \in Nat /\ m > 0
    <3> HIDE DEF c
    <3> QED BY <2>1, <2>2, <2>4
  <2>6. Steps(m, u) = (m + u - 1) \div u
    BY <2>5 DEF Steps
  <2>7. m + u - 1 \in Nat /\ u * (c - t) <= m + u - 1 /\ m + u - 1 < u * (c - t) + u
    <3>1. u * (c - t) = u * c - t * u
      <4> HIDE DEF c
      <4> QED BY <2>2
    <3> HIDE DEF c
    <3> QED BY <2>2, <2>4, <2>5, <3>1
  <2>8. c - t \in Int
    BY <2>2
  <2> HIDE DEF c, m
  <2>9. Steps(m, u) = c - t
    BY <2>6, <2>7, <2>8, DivIs
  <2> QED BY <2>1, <2>5, <2>9 DEF m
<1> QED BY <1>1, <1>2

\* After all its steps nothing is left of an entry.
LEMMA EntryDone ==
  ASSUME NEW n \in Nat, NEW u \in Nat \ {0}
  PROVE  n - Steps(n, u) * u \in Int /\ n - Steps(n, u) * u <= 0
<1>1. CASE n = 0
  <2>1. Steps(n, u) = 1
    BY <1>1 DEF Steps
  <2> QED BY <1>1, <2>1
<1>2. CASE n # 0
  <2> DEFINE c == (n + u - 1) \div u
  <2>1. n + u - 1 \in Nat /\ Steps(n, u) = c
    BY <1>2 DEF Steps
  <2>2. c \in Nat /\ n + u - 1 < u * c + u
    BY <2>1, DivIs
  <2> HIDE DEF c
  <2>3. u * c \in Nat /\ c * u = u * c
    BY <2>2
  <2> QED BY <2>1, <2>2, <2>3
<1> QED BY <1>1, <1>2

\* What is begun takes as much less as the time that was given.
LEMMA Remaining ==
  ASSUME NEW q \in Seq(Nat), NEW u \in Nat \ {0}, NEW time \in Nat,
         NEW k \in 0..Len(q), k < Len(q),
         StepsOf(q, u)[k] <= time, time < StepsOf(q, u)[k+1],
         NEW left, left = q[k+1] - (time - StepsOf(q, u)[k]) * u, left > 0
  PROVE  LET r == <<left>> \o SubSeq(q, k+2, Len(q)) IN
           /\ StepsOf(r, u)[Len(r)] \in Nat
           /\ StepsOf(r, u)[Len(r)] <= StepsOf(q, u)[Len(q)]
<1> DEFINE n == Len(q)
           g == StepsOf(q, u)
           r == <<left>> \o SubSeq(q, k+2, Len(q))
           h == StepsOf(r, u)
<1>1. /\ n \in Nat /\ k \in 0..n /\ k < n /\ k + 1 \in 1..n
      /\ g \in [0..n -> Nat]
      /\ \A i \in 1..n : g[i] = g[i-1] + Steps(q[i], u)
      /\ \A i \in 1..n : q[i] \in Nat
  BY StepsOfIs
<1>2. g[k+1] = g[k] + Steps(q[k+1], u) /\ g[k] \in Nat /\ g[k+1] \in Nat
  <2>1. (k + 1) - 1 = k /\ k + 1 \in 1..n /\ k + 1 \in 0..n
    BY <1>1
  <2> HIDE DEF g, n
  <2>2. g[k+1] = g[(k+1)-1] + Steps(q[k+1], u)
    BY <1>1, <2>1, Zenon
  <2> QED BY <1>1, <2>1, <2>2
<1> HIDE DEF g
<1>3. q[k+1] \in Nat /\ time - g[k] \in Nat /\ time - g[k] < Steps(q[k+1], u)
  <2>1. g[k] <= time /\ time < g[k+1]
    BY DEF g
  <2>2. Steps(q[k+1], u) \in Nat
    BY <1>1, StepsPositive
  <2> QED BY <1>1, <1>2, <2>1, <2>2
<1>4. left = q[k+1] - (time - g[k]) * u
  BY DEF g
<1>5. left \in Nat /\ Steps(left, u) = Steps(q[k+1], u) - (time - g[k])
  BY <1>3, <1>4, LeftOfEntry
<1>6. r \in Seq(Nat) /\ Len(r) = n - k /\ r[1] = left
      /\ \A j \in 2..(n-k) : r[j] = q[k+j]
  <2> DEFINE w == SubSeq(q, k+2, n)
  <2>1. w \in Seq(Nat) /\ Len(w) = n - k - 1 /\ \A j \in 1..(n-k-1) : w[j] = q[k+1+j]
    BY <1>1
  <2>2. r = <<left>> \o w
    OBVIOUS
  <2> HIDE DEF w, r
  <2>3. r \in Seq(Nat) /\ Len(r) = 1 + Len(w) /\ r[1] = left
        /\ \A j \in 2..(1 + Len(w)) : r[j] = w[j-1]
    BY <1>5, <2>1, <2>2
  <2>4. ASSUME NEW j \in 2..(n-k) PROVE r[j] = q[k+j]
    <3>1. j - 1 \in 1..(n-k-1) /\ k + 1 + (j - 1) = k + j /\ j \in 2..(1 + Len(w))
      BY <1>1, <2>1, <2>4
    <3> QED BY <2>1, <2>3, <3>1
  <2> QED BY <1>1, <2>1, <2>3, <2>4
<1> HIDE DEF r
<1>7. /\ h \in [0..(n-k) -> Nat] /\ h[0] = 0
      /\ \A j \in 1..(n-k) : h[j] = h[j-1] + Steps(r[j], u)
  BY <1>6, StepsOfIs
<1> HIDE DEF h, n
<1> DEFINE T == {j \in 1..(n-k) : h[j] # g[k+j] - time}
<1>8. T = {}
  <2> SUFFICES ASSUME T # {} PROVE FALSE
    OBVIOUS
  <2>1. PICK j \in T : \A i \in T : j <= i
    <3>1. T \subseteq Nat
      BY <1>1
    <3> QED BY <3>1, LeastNumber
  <2>2. j \in 1..(n-k) /\ h[j] # g[k+j] - time
    BY <2>1
  <2>3. CASE j = 1
    <3>1. h[1] = 0 + Steps(left, u)
      <4>1. 1 \in 1..(n-k) /\ 1 - 1 = 0
        BY <1>1
      <4> QED BY <1>6, <1>7, <4>1
    <3>2. Steps(q[k+1], u) \in Nat
      BY <1>3, StepsPositive
    <3>3. Steps(left, u) = g[k+1] - time
      <4> DEFINE a == Steps(left, u)
                 b == Steps(q[k+1], u)
                 c == g[k]
                 d == g[k+1]
      <4>1. a = b - (time - c) /\ b \in Nat /\ c \in Nat /\ d = c + b
        BY <1>2, <1>5, <3>2, Zenon
      <4> HIDE DEF a, b, c, d
      <4>2. a = d - time
        BY <4>1
      <4> QED BY <4>2 DEF a, d
    <3>4. h[1] = g[k+1] - time
      BY <1>2, <3>1, <3>3
    <3> QED BY <2>2, <2>3, <3>4
  <2>4. CASE j # 1
    <3>1. j \in 2..(n-k) /\ j - 1 \in 1..(n-k) /\ k + j \in 1..n /\ (k + j) - 1 = k + (j-1)
          /\ ~(j <= j - 1) /\ k + (j-1) \in 0..n
      BY <1>1, <2>2, <2>4
    <3>2. j - 1 \notin T
      BY <2>1, <3>1
    <3>3. h[j-1] = g[k+(j-1)] - time
      BY <3>1, <3>2
    <3>4. h[j] = h[j-1] + Steps(q[k+j], u)
      BY <1>6, <1>7, <2>2, <3>1
    <3>5. g[k+j] = g[k+(j-1)] + Steps(q[k+j], u)
      BY <1>1, <3>1
    <3>6. Steps(q[k+j], u) \in Nat /\ g[k+(j-1)] \in Nat
      <4>1. q[k+j] \in Nat
        BY <1>1, <3>1
      <4> QED BY <1>1, <3>1, <4>1, StepsPositive
    <3> QED BY <2>2, <3>3, <3>4, <3>5, <3>6
  <2> QED BY <2>3, <2>4
<1>9. n - k \in 1..(n-k) /\ k + (n - k) = n /\ n \in 0..n
  BY <1>1
<1>10. h[n-k] = g[n] - time
  BY <1>8, <1>9
<1>11. g[n] \in Nat
  BY <1>1, <1>9
<1>12. h[n-k] <= g[n] /\ h[n-k] \in Nat
  <2>1. h[n-k] \in Nat
    BY <1>7, <1>9
  <2> QED BY <1>10, <1>11, <2>1
<1> QED BY <1>6, <1>12 DEF g, h, n, r

-----------------------------------------------------------------------------
(* One level. *)

\* the entries that time is enough for
Done(q, unit, time) == Cardinality({i \in 1..Len(q) : StepsOf(q, unit)[i] <= time})

\* A level that is at work has a list only if it is indirect, and no more to do
\* than can be done when it is flushed.
LevelOK(d) ==
  /\ d \in LevelStates
  /\ ~d.indirect => d.rest = <<>>
  /\ Busy(d) => Duration(d) <= FlushTime

\* a level of which the transfer has gone on
Going(d, a, r) == [d EXCEPT !.left = a, !.rest = r]

LEMMA SetLevel ==
  \A d \in LevelStates, a \in Int, r \in Seq(Nat) :
    /\ Going(d, a, r).left = a /\ Going(d, a, r).rest = r
    /\ Going(d, a, r).unit = d.unit /\ Going(d, a, r).indirect = d.indirect
    /\ Going(d, a, r) \in LevelStates
<1> DEFINE Q == Seq(Nat)
           U == Nat \ {0}
<1>1. LevelStates = [left : Int, rest : Q, unit : U, indirect : BOOLEAN]
  BY DEF LevelStates
<1> HIDE DEF Q, U
<1>2. \A d \in LevelStates, a \in Int, r \in Q :
        /\ Going(d, a, r).left = a /\ Going(d, a, r).rest = r
        /\ Going(d, a, r).unit = d.unit /\ Going(d, a, r).indirect = d.indirect
        /\ Going(d, a, r) \in LevelStates
  BY <1>1 DEF Going
<1> QED BY <1>2 DEF Q

\* A share of time leaves a level that is not at work alone.  One that is at work
\* is finished, or goes on or hangs; in the time of a flush it is finished.
LEMMA CheckedLevel ==
  ASSUME NEW d, LevelOK(d), NEW time \in Nat
  PROVE  /\ LevelOK(SucDmaCheck(d, time))
         /\ ~Busy(d) => SucDmaCheck(d, time) = d
         /\ Busy(d) => \/ Finished(SucDmaCheck(d, time))
                       \/ Busy(SucDmaCheck(d, time)) \/ Hung(SucDmaCheck(d, time))
         /\ Busy(d) /\ FlushTime <= time => Finished(SucDmaCheck(d, time))
<1>1. CASE ~Busy(d)
  BY <1>1 DEF SucDmaCheck
<1>2. CASE Busy(d)
  <2> DEFINE q == Entries(d)
             u == d.unit
             g == StepsOf(q, u)
             n == Len(q)
             k == Done(q, u, time)
             e == SucDmaCheck(d, time)
             left == q[k+1] - (time - g[k]) * u
             rest == SubSeq(q, k + 2, n)
             last == d.left - Steps(d.left, u) * u
  <2>1. /\ d.left \in Nat /\ d.left > 0 /\ d.rest \in Seq(Nat) /\ d.unit \in Nat \ {0}
        /\ d.indirect \in BOOLEAN /\ (~d.indirect => d.rest = <<>>)
        /\ g[n] <= FlushTime
    BY <1>2 DEF LevelOK, LevelStates, Busy, Duration
  <2>2. /\ q \in Seq(Nat) /\ n = 1 + Len(d.rest) /\ q[1] = d.left
        /\ ~d.indirect => n = 1
    BY <2>1 DEF Entries
  <2>3. k \in 0..n /\ g[k] <= time /\ (k < n => time < g[k+1])
    BY <2>1, <2>2, DoneIs, Zenon DEF Done
  <2>4. g \in [0..n -> Nat] /\ g[0] = 0
    BY <2>1, <2>2, StepsOfIs
  <2>5. CASE k < n
    <3>1. e = [d EXCEPT !.left = left, !.rest = rest]
      <4>1. e = [d EXCEPT !.left = q[Done(q, u, time) + 1] - (time - g[Done(q, u, time)]) * u,
                          !.rest = SubSeq(q, Done(q, u, time) + 2, n)]
        BY <1>2, <2>5 DEF SucDmaCheck, Done
      <4> QED BY <4>1, Zenon
    <3>2. k + 1 \in 1..n /\ n \in Nat /\ g[k] \in Nat /\ q[k+1] \in Nat
      BY <2>2, <2>3, <2>4, <2>5
    <3> HIDE DEF g, k, n, e
    <3>3. time - g[k] \in Nat /\ time - g[k] < Steps(q[k+1], u)
      <4> DEFINE b == Steps(q[k+1], u)
                 c == g[k]
                 f == g[k+1]
      <4>1. b \in Nat
        BY <2>1, <3>2, StepsPositive
      <4>2. f = c + b
        <5>1. g[k+1] = g[(k+1)-1] + Steps(q[k+1], u)
          BY <2>1, <2>2, <3>2, StepsOfIs DEF g, n
        <5>2. (k + 1) - 1 = k
          BY <2>3, <3>2
        <5> QED BY <5>1, <5>2
      <4>3. c \in Nat /\ c <= time /\ time < f
        BY <2>3, <2>5, <3>2
      <4> HIDE DEF b, c, f
      <4>4. time - c \in Nat /\ time - c < b
        BY <4>1, <4>2, <4>3
      <4> QED BY <4>4 DEF b, c
    <3>4. left \in Nat /\ (q[k+1] # 0 => left > 0)
      BY <2>1, <3>2, <3>3, LeftOfEntry
    <3>5. left = 0 => d.indirect
      <4> SUFFICES ASSUME ~d.indirect PROVE left > 0
        BY <3>4
      <4>1. k = 0
        BY <2>2, <2>3, <2>5, <3>2
      <4>2. q[k+1] = d.left
        BY <2>2, <4>1
      <4> QED BY <2>1, <3>4, <4>2
    <3>6. rest \in Seq(Nat) /\ (~d.indirect => rest = <<>>)
      <4>1. rest \in Seq(Nat)
        BY <2>2, <2>3, <3>2 DEF n
      <4>2. ASSUME ~d.indirect PROVE rest = <<>>
        BY <2>2, <2>3, <3>2, <4>2
      <4> QED BY <4>1, <4>2
    <3>7. ASSUME left > 0 PROVE  LET t == StepsOf(<<left>> \o rest, u)[Len(<<left>> \o rest)]
                               IN  t \in Nat /\ t <= g[n]
      <4>1. q \in Seq(Nat) /\ u \in Nat \ {0} /\ k \in 0..Len(q) /\ k < Len(q)
        BY <2>1, <2>2, <2>3, <2>5 DEF n
      <4>2. StepsOf(q, u)[k] <= time /\ time < StepsOf(q, u)[k+1]
        BY <2>3, <2>5 DEF g
      <4>3. left = q[k+1] - (time - StepsOf(q, u)[k]) * u
        BY DEF g
      <4> HIDE DEF left, q, u
      <4> QED BY <3>7, <4>1, <4>2, <4>3, Remaining DEF g, n
    <3>8. /\ e.left = left /\ e.rest = rest /\ e.unit = d.unit /\ e.indirect = d.indirect
          /\ e \in LevelStates
      <4>1. d \in LevelStates /\ left \in Int
        BY <3>4 DEF LevelOK
      <4> HIDE DEF left, rest
      <4>2. rest \in Seq(Nat) /\ left \in Int
        BY <3>6, <4>1
      <4>3. e = Going(d, left, rest)
        BY <3>1, Zenon DEF Going
      <4> QED BY <4>1, <4>2, <4>3, SetLevel, Zenon
    <3>9. Busy(e) => Duration(e) <= FlushTime
      <4> SUFFICES ASSUME left > 0 PROVE Duration(e) <= FlushTime
        BY <3>8 DEF Busy
      <4>1. Duration(e) <= g[n] /\ Duration(e) \in Nat
        <5>1. Entries(e) = <<left>> \o rest /\ e.unit = u
          BY <3>8, Zenon DEF Entries
        <5> HIDE DEF left, rest, u
        <5> QED BY <3>7, <5>1 DEF Duration
      <4>2. g[n] \in Nat
        BY <2>4, <3>2
      <4>3. ASSUME NEW a \in Nat, NEW b \in Nat, a <= b, b <= FlushTime
            PROVE  a <= FlushTime
        BY <4>3, TimeAssumption
      <4> QED BY <2>1, <4>1, <4>2, <4>3, Zenon
    <3>10. Busy(e) \/ Hung(e)
      <4> HIDE DEF left, rest
      <4> QED BY <2>1, <3>4, <3>5, <3>8 DEF Busy, Hung
    <3>11. ~(FlushTime <= time)
      <4> DEFINE a == g[k+1]
                 b == g[n]
      <4>1. a \in Nat /\ b \in Nat /\ a <= b
        <5>1. k + 1 \in 0..n /\ n \in 0..n
          BY <3>2
        <5>2. CASE k + 1 = n
          BY <2>4, <5>1, <5>2
        <5>3. CASE k + 1 # n
          <6>1. k + 1 < n
            BY <2>3, <3>2, <5>3
          <6>2. g[k+1] < g[n]
            BY <2>1, <2>2, <5>1, <6>1, StepsGrow DEF g, n
          <6> QED BY <2>4, <5>1, <6>2
        <5> QED BY <5>2, <5>3
      <4>2. b <= FlushTime /\ time < a
        BY <2>1, <2>3, <2>5
      <4> HIDE DEF a, b
      <4> QED BY <4>1, <4>2, TimeAssumption
    <3> QED BY <1>2, <3>6, <3>8, <3>9, <3>10, <3>11 DEF LevelOK, e
  <2>6. CASE ~(k < n)
    <3>1. e = [Idle EXCEPT !.left = IF d.indirect THEN 0 ELSE last]
      <4>1. ~(Done(q, u, time) < n)
        BY <2>6
      <4> QED BY <1>2, <4>1 DEF SucDmaCheck, Done
    <3>2. last \in Int /\ last <= 0
      BY <2>1, EntryDone
    <3> HIDE DEF e, last
    <3>3. /\ e.rest = <<>> /\ e.unit = 1 /\ e.indirect = FALSE
          /\ e.left \in Int /\ e.left <= 0 /\ e \in LevelStates
      <4> DEFINE a == IF d.indirect THEN 0 ELSE last
      <4>1. a \in Int /\ a <= 0
        BY <2>1, <3>2
      <4>2. e = [Idle EXCEPT !.left = a]
        BY <3>1
      <4> HIDE DEF a
      <4>3. e = [left |-> a, rest |-> <<>>, unit |-> 1, indirect |-> FALSE]
        BY <4>2 DEF Idle
      <4>4. <<>> \in Seq(Nat)
        OBVIOUS
      <4> QED BY <4>1, <4>3, <4>4 DEF LevelStates
    <3>4. ~Busy(e) /\ Finished(e)
      BY <3>3 DEF Busy, Finished
    <3> QED BY <3>3, <3>4, <1>2 DEF LevelOK, e
  <2> QED BY <2>5, <2>6
<1> QED BY <1>1, <1>2

-----------------------------------------------------------------------------
(* The blanks. *)

\* where the walk can be
WalkOK ==
  /\ line \in 0..(MaxLineCount - 1)
  /\ vbl \in BlankLines
  /\ blanks \in Int /\ extra \in Int

WalkInv == WalkOK /\ BlanksCounted

walk == <<line, vbl, blanks, extra>>

USE TimeAssumption, LinesAssumption

\* at the beginning of a frame the line is not in the blank
LEMMA BlankLater == \A v \in BlankLines : v \in Int /\ 0 < v /\ v # MaxLineCount
<1> QED  OBVIOUS

LEMMA InitWalk == Init => WalkInv
<1>1. ASSUME Init PROVE WalkInv
  <2>1. line = 0 /\ vbl = FirstBlankLine /\ blanks = 0 /\ extra = 0
    BY <1>1 DEF Init
  <2>2. FirstBlankLine \in Int /\ 0 < FirstBlankLine /\ MaxLineCount \in Nat
        /\ 1 < MaxLineCount
    OBVIOUS
  <2> QED BY <2>1, <2>2 DEF WalkInv, WalkOK, BlanksCounted, Visible
<1> QED BY <1>1

\* the end of a line reaches the blank, ends the frame, or neither
LEMMA EndLineWalk == WalkInv /\ EndLine => WalkInv'
<1> SUFFICES ASSUME WalkInv, EndLine PROVE WalkInv'
  OBVIOUS
<1>1. line \in 0..(MaxLineCount - 1) /\ vbl \in BlankLines /\ vbl \in Int /\ 0 < vbl
      /\ vbl # MaxLineCount /\ blanks \in Int /\ extra \in Int /\ vbl' = vbl
      /\ blanks = extra + (IF line < vbl THEN 0 ELSE 1)
  BY BlankLater DEF WalkInv, WalkOK, BlanksCounted, Visible, EndLine
<1>2. MaxLineCount \in Nat /\ 1 < MaxLineCount
  OBVIOUS
<1>3. CASE line + 1 = vbl
  <2>1. line' = line + 1 /\ blanks' = blanks + 1 /\ extra' = extra
    BY <1>3 DEF EndLine
  <2>2. line' \in 0..(MaxLineCount - 1)
    BY <1>1, <1>2, <1>3, <2>1
  <2> QED BY <1>1, <1>3, <2>1, <2>2 DEF WalkInv, WalkOK, BlanksCounted, Visible
<1>4. CASE line + 1 # vbl /\ line + 1 = MaxLineCount
  <2>1. line' = 0 /\ blanks' = 0 /\ extra' = 0
    BY <1>4 DEF EndLine
  <2> QED BY <1>1, <1>2, <2>1 DEF WalkInv, WalkOK, BlanksCounted, Visible
<1>5. CASE line + 1 # vbl /\ line + 1 # MaxLineCount
  <2>1. line' = line + 1 /\ blanks' = blanks /\ extra' = extra
    BY <1>5 DEF EndLine, ghosts
  <2>2. line' \in 0..(MaxLineCount - 1)
    BY <1>1, <1>2, <1>5, <2>1
  <2> QED BY <1>1, <1>5, <2>1, <2>2 DEF WalkInv, WalkOK, BlanksCounted, Visible
<1> QED BY <1>3, <1>4, <1>5

\* the blank, the line, or both are moved
LEMMA MoveWalk ==
  ASSUME NEW l \in 0..(MaxLineCount - 1), NEW v \in BlankLines, WalkInv,
         Move(l, v), line' = l, vbl' = v, blanks' = blanks
  PROVE  WalkInv'
<1>1. v \in Int /\ vbl \in Int /\ line \in Int /\ blanks \in Int /\ extra \in Int
      /\ blanks = extra + (IF line < vbl THEN 0 ELSE 1)
  BY BlankLater DEF WalkInv, WalkOK, BlanksCounted, Visible
<1>2. extra' = extra + (IF line < vbl THEN 0 ELSE 1) - (IF l < v THEN 0 ELSE 1)
  BY DEF Move
<1>3. l \in Int
  OBVIOUS
<1> QED BY <1>1, <1>2, <1>3 DEF WalkInv, WalkOK, BlanksCounted, Visible

\* a step that leaves the walk alone
LEMMA SameWalk == WalkInv /\ UNCHANGED walk => WalkInv'
BY DEF WalkInv, WalkOK, BlanksCounted, Visible, walk

LEMMA NextWalk == WalkInv /\ [Next]_vars => WalkInv'
<1> SUFFICES ASSUME WalkInv, [Next]_vars PROVE WalkInv'
  OBVIOUS
<1>0. line \in 0..(MaxLineCount - 1) /\ 0 \in 0..(MaxLineCount - 1)
  BY DEF WalkInv, WalkOK
<1>1. CASE InLine
  BY <1>1, SameWalk DEF InLine, walk, ghosts
<1>2. CASE EndLine
  BY <1>2, EndLineWalk
<1>3. CASE YabauseReset
  <2>1. Move(line, FirstBlankLine) /\ line' = line /\ vbl' = FirstBlankLine /\ blanks' = blanks
    BY <1>3 DEF YabauseReset
  <2> QED BY <1>0, <2>1, MoveWalk
<1>4. CASE ChangeClock
  <2>1. Move(0, FirstBlankLine) /\ line' = 0 /\ vbl' = FirstBlankLine /\ blanks' = blanks
    BY <1>4 DEF ChangeClock
  <2> QED BY <1>0, <2>1, MoveWalk
<1>5. ASSUME NEW l \in Levels, WriteWork(l) \/ WriteEN(l) PROVE WalkInv'
  BY <1>5, SameWalk DEF WriteWork, WriteEN, walk, frame, ghosts
<1>6. CASE WriteT0C \/ WriteT1S \/ WriteT1MD \/ OtherRequest
  BY <1>6, SameWalk DEF WriteT0C, WriteT1S, WriteT1MD, OtherRequest, walk, frame, ghosts
<1>7. CASE WriteTVMD
  <2>1. PICK v \in BlankLines : vbl' = v /\ Move(line, v)
    BY <1>7 DEF WriteTVMD
  <2>2. line' = line /\ blanks' = blanks
    BY <1>7 DEF WriteTVMD
  <2> QED BY <1>0, <2>1, <2>2, MoveWalk
<1>8. CASE UNCHANGED vars
  BY <1>8, SameWalk DEF vars, walk, frame, ghosts
<1> QED BY <1>1, <1>2, <1>3, <1>4, <1>5, <1>6, <1>7, <1>8 DEF Next, Slice

\* However the program moves the blank and whenever the clock is changed, a frame
\* has one VBlank-IN, and what it has more or less are exactly the moves across
\* the line (yabause.c:786-826, YabauseChangeTiming, the write to TVMD).
THEOREM BlanksAreCounted == Spec => []BlanksCounted
<1>1. WalkInv => BlanksCounted
  BY DEF WalkInv
<1> QED BY <1>1, InitWalk, NextWalk, PTL DEF Spec
-----------------------------------------------------------------------------
(* Timer 0.  The operators of the SCU leave it alone, but for the three that *)
(* count and clear it: for every record s with the fields of scu, whatever   *)
(* they hold.                                                                *)

Fields == {"dma", "owed", "en", "md", "work", "T0C", "T1on", "T1line", "timer0",
           "timer0_set", "timer1_set", "timer1_counter", "timer1_preset", "out"}
IsScu(s) == s = [f \in Fields |-> s[f]]
Keeps(s, t) == IsScu(t) /\ t.timer0 = s.timer0

LEMMA SetField ==
  ASSUME NEW s, IsScu(s), NEW f \in Fields, NEW e
  PROVE  /\ IsScu([s EXCEPT ![f] = e])
         /\ [s EXCEPT ![f] = e].timer0 = IF f = "timer0" THEN e ELSE s.timer0
<1>1. DOMAIN s = Fields
  BY Zenon DEF IsScu
<1> DEFINE t == [g \in Fields |-> IF g = f THEN e ELSE s[g]]
<1>2. [s EXCEPT ![f] = e] = t
  BY <1>1, Zenon
<1>3. "timer0" \in Fields
  BY DEF Fields
<1>4. t["timer0"] = IF f = "timer0" THEN e ELSE s["timer0"]
  BY <1>3, Zenon
<1>5. t = [g \in Fields |-> t[g]]
  BY Zenon
<1> HIDE DEF t
<1>6. IsScu(t)
  BY <1>5, Zenon DEF IsScu
<1> QED BY <1>2, <1>4, <1>6, Zenon

LEMMA SetOther ==
  \A s, f, e : IsScu(s) /\ f \in Fields \ {"timer0"} => Keeps(s, [s EXCEPT ![f] = e])
<1> SUFFICES ASSUME NEW s, NEW f, NEW e, IsScu(s), f \in Fields \ {"timer0"}
             PROVE  Keeps(s, [s EXCEPT ![f] = e])
  OBVIOUS
<1>1. f \in Fields /\ f # "timer0"
  OBVIOUS
<1>2. IsScu([s EXCEPT ![f] = e])
  BY <1>1, SetField
<1>3. [s EXCEPT ![f] = e].timer0 = s.timer0
  BY <1>1, SetField
<1> QED BY <1>2, <1>3, Zenon DEF Keeps

LEMMA KeepsTrans == \A s, t, u : Keeps(s, t) /\ Keeps(t, u) => Keeps(s, u)
BY Zenon DEF Keeps

LEMMA KeepsSame == \A s : IsScu(s) => Keeps(s, s)
BY Zenon DEF Keeps

LEMMA KeepsIs == \A s, t : Keeps(s, t) => IsScu(t)
BY Zenon DEF Keeps

LEMMA SetOut == \A s, e : IsScu(s) => Keeps(s, [s EXCEPT !.out = e])
<1>1. "out" \in Fields \ {"timer0"}
  BY DEF Fields
<1> QED BY <1>1, SetOther, Zenon

LEMMA OutKeeps ==
  \A s, v : IsScu(s) => /\ Keeps(s, SendInterrupt(s, v))
                        /\ Keeps(s, ScuRemoveTimer(s, v))
                        /\ Keeps(s, TakeBack(s, v))
BY SetOut, Zenon DEF SendInterrupt, ScuRemoveTimer, TakeBack

LEMMA DmaProcKeeps == \A s, time : IsScu(s) => Keeps(s, ScuDmaProc(s, time))
<1> SUFFICES ASSUME NEW s, NEW time, IsScu(s) PROVE Keeps(s, ScuDmaProc(s, time))
  OBVIOUS
<1>1. {"dma", "owed"} \subseteq Fields \ {"timer0"}
  BY DEF Fields
<1>2. ASSUME NEW a, NEW b, NEW c
      PROVE  Keeps(s, [s EXCEPT !.dma = a, !.owed = b, !.out = c])
  <2> DEFINE t == [s EXCEPT !.dma = a]
             u == [t EXCEPT !.owed = b]
  <2>1. Keeps(s, t)
    BY <1>1, SetOther, Zenon
  <2>2. IsScu(t)
    BY <2>1, KeepsIs, Zenon
  <2> HIDE DEF t
  <2>3. Keeps(t, u)
    BY <1>1, <2>2, SetOther, Zenon
  <2>4. IsScu(u)
    BY <2>3, KeepsIs, Zenon
  <2> HIDE DEF u
  <2>5. Keeps(u, [u EXCEPT !.out = c])
    BY <2>4, SetOut, Zenon
  <2>6. Keeps(s, [u EXCEPT !.out = c])
    BY <2>1, <2>3, <2>5, KeepsTrans, Zenon
  <2> QED BY <2>6, Zenon DEF u, t
<1> QED BY <1>2, Zenon DEF ScuDmaProc

LEMMA SetTwo ==
  ASSUME NEW s, IsScu(s), NEW f \in Fields \ {"timer0"}, NEW g \in Fields \ {"timer0"},
         NEW a, NEW b
  PROVE  Keeps(s, [s EXCEPT ![f] = a, ![g] = b])
<1> DEFINE t == [s EXCEPT ![f] = a]
<1>1. Keeps(s, t)
  BY SetOther, Zenon
<1>2. IsScu(t)
  BY <1>1, KeepsIs, Zenon
<1> HIDE DEF t
<1>3. Keeps(t, [t EXCEPT ![g] = b])
  BY <1>2, SetOther, Zenon
<1>4. Keeps(s, [t EXCEPT ![g] = b])
  BY <1>1, <1>3, KeepsTrans, Zenon
<1> QED BY <1>4, Zenon DEF t

LEMMA StartKeeps == \A s, l, flush : IsScu(s) => Keeps(s, StartDma(s, l, flush))
<1> SUFFICES ASSUME NEW s, NEW l, NEW flush, IsScu(s)
             PROVE  Keeps(s, StartDma(s, l, flush))
  OBVIOUS
<1> DEFINE f == IF flush THEN ScuDmaProc(s, FlushTime) ELSE s
<1>1. Keeps(s, f)
  BY DmaProcKeeps, KeepsSame, Zenon
<1>2. IsScu(f)
  BY <1>1, KeepsIs, Zenon
<1> HIDE DEF f
<1> DEFINE g == [f EXCEPT !.dma[l] = Load(l, f.work[l]),
                          !.owed[l] = IF Hung(f.dma[l]) THEN 1 ELSE @ + 1]
<1>3. "dma" \in Fields \ {"timer0"} /\ "owed" \in Fields \ {"timer0"}
  BY DEF Fields
<1>4. ASSUME NEW a, NEW b PROVE Keeps(f, [f EXCEPT !.dma = a, !.owed = b])
  BY <1>2, <1>3, SetTwo, Zenon
<1>5. Keeps(f, g)
  BY <1>4, Zenon
<1>6. IsScu(g)
  BY <1>5, KeepsIs, Zenon
<1> HIDE DEF g
<1>7. Keeps(g, ScuDmaProc(g, StartTime))
  BY <1>6, DmaProcKeeps, Zenon
<1>8. Keeps(s, ScuDmaProc(g, StartTime))
  BY <1>1, <1>5, <1>7, KeepsTrans, Zenon
<1> QED BY <1>8, Zenon DEF StartDma, f, g

LEMMA LevelKeeps == \A s, l, id : IsScu(s) => Keeps(s, CheckLevel(s, l, id))
<1> SUFFICES ASSUME NEW s, NEW l, NEW id, IsScu(s) PROVE Keeps(s, CheckLevel(s, l, id))
  OBVIOUS
<1> DEFINE t == StartDma(s, l, Busy(s.dma[l]))
<1>1. Keeps(s, t)
  BY StartKeeps, Zenon
<1>2. IsScu(t)
  BY <1>1, KeepsIs, Zenon
<1> HIDE DEF t
<1>3. "en" \in Fields \ {"timer0"}
  BY DEF Fields
<1>4. Keeps(t, [t EXCEPT !.en[l] = FALSE])
  BY <1>2, <1>3, SetOther, Zenon
<1>5. Keeps(s, [t EXCEPT !.en[l] = FALSE])
  BY <1>1, <1>4, KeepsTrans, Zenon
<1>6. Keeps(s, s)
  BY KeepsSame, Zenon
<1> QED BY <1>5, <1>6, Zenon DEF CheckLevel, t

LEMMA CheckKeeps == \A s, id : IsScu(s) => Keeps(s, ScuChekIntrruptDMA(s, id))
<1> SUFFICES ASSUME NEW s, NEW id, IsScu(s) PROVE Keeps(s, ScuChekIntrruptDMA(s, id))
  OBVIOUS
<1> DEFINE a == CheckLevel(s, 0, id)
           b == CheckLevel(a, 1, id)
<1>1. Keeps(s, a) /\ IsScu(a)
  BY LevelKeeps, KeepsIs, Zenon
<1> HIDE DEF a
<1>2. Keeps(a, b) /\ IsScu(b)
  BY <1>1, LevelKeeps, KeepsIs, Zenon
<1> HIDE DEF b
<1>3. Keeps(b, CheckLevel(b, 2, id))
  BY <1>2, LevelKeeps, Zenon
<1>4. Keeps(s, CheckLevel(b, 2, id))
  BY <1>1, <1>2, <1>3, KeepsTrans, Zenon
<1> QED BY <1>4, Zenon DEF ScuChekIntrruptDMA, a, b

LEMMA TimersKeep ==
  \A s : IsScu(s) => Keeps(s, ScuSendTimer0(s)) /\ Keeps(s, ScuSendTimer1(s))
<1> SUFFICES ASSUME NEW s, IsScu(s)
             PROVE  Keeps(s, ScuSendTimer0(s)) /\ Keeps(s, ScuSendTimer1(s))
  OBVIOUS
<1>1. ASSUME NEW v, NEW id
      PROVE  Keeps(s, ScuChekIntrruptDMA(SendInterrupt(s, v), id))
  <2>1. Keeps(s, SendInterrupt(s, v)) /\ IsScu(SendInterrupt(s, v))
    BY OutKeeps, KeepsIs, Zenon
  <2>2. Keeps(SendInterrupt(s, v), ScuChekIntrruptDMA(SendInterrupt(s, v), id))
    BY <2>1, CheckKeeps, Zenon
  <2> QED BY <2>1, <2>2, KeepsTrans, Zenon
<1> QED BY <1>1, Zenon DEF ScuSendTimer0, ScuSendTimer1

LEMMA CompareKeeps == \A s : IsScu(s) => Keeps(s, CompareTimer0(s))
<1> SUFFICES ASSUME NEW s, IsScu(s) PROVE Keeps(s, CompareTimer0(s))
  OBVIOUS
<1>1. "timer0_set" \in Fields \ {"timer0"}
  BY DEF Fields
<1>2. ASSUME NEW set
      PROVE  /\ Keeps(s, [s EXCEPT !.timer0_set = set])
             /\ IsScu([s EXCEPT !.timer0_set = set])
  BY <1>1, SetOther, KeepsIs, Zenon
<1>3. Keeps(s, ScuSendTimer0([s EXCEPT !.timer0_set = TRUE]))
  BY <1>2, TimersKeep, KeepsTrans, Zenon
<1>4. Keeps(s, ScuRemoveTimer([s EXCEPT !.timer0_set = FALSE], Timer0))
  BY <1>2, OutKeeps, KeepsTrans, Zenon
<1>5. Keeps(s, s)
  BY KeepsSame, Zenon
<1> QED BY <1>3, <1>4, <1>5, Zenon DEF CompareTimer0

LEMMA ReloadKeeps == \A s : IsScu(s) => Keeps(s, ReloadTimer1(s))
<1> SUFFICES ASSUME NEW s, IsScu(s) PROVE Keeps(s, ReloadTimer1(s))
  OBVIOUS
<1>1. "timer1_set" \in Fields \ {"timer0"} /\ "timer1_counter" \in Fields \ {"timer0"}
  BY DEF Fields
<1> DEFINE t == [s EXCEPT !.timer1_set = FALSE, !.timer1_counter = s.timer1_preset]
<1>2. Keeps(s, t)
  BY <1>1, SetTwo, Zenon
<1>3. IsScu(t)
  BY <1>2, KeepsIs, Zenon
<1> HIDE DEF t
<1>4. Keeps(s, ScuRemoveTimer(t, Timer1))
  BY <1>2, <1>3, OutKeeps, KeepsTrans, Zenon
<1>5. Keeps(s, s)
  BY KeepsSame, Zenon
<1> QED BY <1>4, <1>5, Zenon DEF ReloadTimer1, t

LEMMA Timer1Keeps == \A s : IsScu(s) => Keeps(s, ScuTimer1Exec(s))
<1> SUFFICES ASSUME NEW s, IsScu(s) PROVE Keeps(s, ScuTimer1Exec(s))
  OBVIOUS
<1>1. "timer1_set" \in Fields \ {"timer0"} /\ "timer1_counter" \in Fields \ {"timer0"}
  BY DEF Fields
<1> DEFINE c == [s EXCEPT !.timer1_counter = @ - 1]
           d == [c EXCEPT !.timer1_set = TRUE]
<1>2. Keeps(s, c)
  BY <1>1, SetOther, Zenon
<1>3. IsScu(c)
  BY <1>2, KeepsIs, Zenon
<1> HIDE DEF c
<1>4. Keeps(c, d)
  BY <1>1, <1>3, SetOther, Zenon
<1>5. Keeps(s, d) /\ IsScu(d)
  BY <1>2, <1>4, KeepsTrans, KeepsIs, Zenon
<1> HIDE DEF d
<1>6. Keeps(s, ScuSendTimer1(d))
  BY <1>5, TimersKeep, KeepsTrans, Zenon
<1>7. Keeps(s, s)
  BY KeepsSame, Zenon
<1>8. ScuTimer1Exec(s) \in {s, c, d, ScuSendTimer1(d)}
  BY Zenon DEF ScuTimer1Exec, c, d
<1> QED BY <1>2, <1>5, <1>6, <1>7, <1>8, Zenon

LEMMA ExecKeeps == \A s, l : IsScu(s) => Keeps(s, ScuExec(s, l))
<1> SUFFICES ASSUME NEW s, NEW l, IsScu(s) PROVE Keeps(s, ScuExec(s, l))
  OBVIOUS
<1>1. ASSUME NEW t, Keeps(s, t) PROVE Keeps(s, ScuDmaProc(t, SliceTime))
  BY <1>1, KeepsIs, DmaProcKeeps, KeepsTrans, Zenon
<1>2. Keeps(s, s) /\ Keeps(s, ScuTimer1Exec(s))
  BY KeepsSame, Timer1Keeps, Zenon
<1> QED BY <1>1, <1>2, Zenon DEF ScuExec

LEMMA VBlankINKeeps == \A s : IsScu(s) => Keeps(s, ScuSendVBlankIN(s))
<1> SUFFICES ASSUME NEW s, IsScu(s) PROVE Keeps(s, ScuSendVBlankIN(s))
  OBVIOUS
<1> DEFINE a == ScuRemoveTimer(s, Timer0)
           b == SendInterrupt(a, VBlankIN)
<1>1. Keeps(s, a) /\ IsScu(a)
  BY OutKeeps, KeepsIs, Zenon
<1> HIDE DEF a
<1>2. Keeps(a, b) /\ IsScu(b)
  BY <1>1, OutKeeps, KeepsIs, Zenon
<1> HIDE DEF b
<1>3. Keeps(b, ScuChekIntrruptDMA(b, ByVBlankIN))
  BY <1>2, CheckKeeps, Zenon
<1>4. Keeps(s, ScuChekIntrruptDMA(b, ByVBlankIN))
  BY <1>1, <1>2, <1>3, KeepsTrans, Zenon
<1> QED BY <1>4, Zenon DEF ScuSendVBlankIN, a, b

LEMMA SetTimer0 ==
  \A s, e : IsScu(s) => IsScu([s EXCEPT !.timer0 = e]) /\ [s EXCEPT !.timer0 = e].timer0 = e
<1>1. "timer0" \in Fields
  BY DEF Fields
<1> SUFFICES ASSUME NEW s, NEW e, IsScu(s)
             PROVE  IsScu([s EXCEPT !.timer0 = e]) /\ [s EXCEPT !.timer0 = e].timer0 = e
  OBVIOUS
<1>2. /\ IsScu([s EXCEPT !["timer0"] = e])
      /\ [s EXCEPT !["timer0"] = e].timer0 = IF "timer0" = "timer0" THEN e ELSE s.timer0
  BY <1>1, SetField
<1> QED BY <1>2, Zenon

LEMMA VBlankOUTClears ==
  \A s : IsScu(s) => IsScu(ScuSendVBlankOUT(s)) /\ ScuSendVBlankOUT(s).timer0 = 0
<1> SUFFICES ASSUME NEW s, IsScu(s)
             PROVE  IsScu(ScuSendVBlankOUT(s)) /\ ScuSendVBlankOUT(s).timer0 = 0
  OBVIOUS
<1> DEFINE a == SendInterrupt(s, VBlankOUT)
           b == TakeBack(a, VBlankIN)
           c == ScuRemoveTimer(b, Timer0)
           d == ScuRemoveTimer(c, Timer1)
           e == [d EXCEPT !.timer0 = 0]
           f == CompareTimer0(e)
<1>1. IsScu(a)
  BY OutKeeps, KeepsIs, Zenon
<1> HIDE DEF a
<1>2. IsScu(b)
  BY <1>1, OutKeeps, KeepsIs, Zenon
<1> HIDE DEF b
<1>3. IsScu(c)
  BY <1>2, OutKeeps, KeepsIs, Zenon
<1> HIDE DEF c
<1>4. IsScu(d)
  BY <1>3, OutKeeps, KeepsIs, Zenon
<1> HIDE DEF d
<1>5. IsScu(e) /\ e.timer0 = 0
  BY <1>4, SetTimer0, Zenon
<1> HIDE DEF e
<1>6. Keeps(e, f) /\ IsScu(f)
  BY <1>5, CompareKeeps, KeepsIs, Zenon
<1> HIDE DEF f
<1>7. Keeps(e, ScuChekIntrruptDMA(f, ByVBlankOUT))
  BY <1>6, CheckKeeps, KeepsTrans, Zenon
<1>8. ScuSendVBlankOUT(s) = ScuChekIntrruptDMA(f, ByVBlankOUT)
  BY Zenon DEF ScuSendVBlankOUT, a, b, c, d, e, f
<1> QED BY <1>5, <1>7, <1>8, Zenon DEF Keeps

LEMMA HBlankINCounts ==
  \A s : IsScu(s) => IsScu(ScuSendHBlankIN(s)) /\ ScuSendHBlankIN(s).timer0 = s.timer0 + 1
<1> SUFFICES ASSUME NEW s, IsScu(s)
             PROVE  /\ IsScu(ScuSendHBlankIN(s))
                    /\ ScuSendHBlankIN(s).timer0 = s.timer0 + 1
  OBVIOUS
<1> DEFINE a == SendInterrupt(s, HBlankIN)
           b == [a EXCEPT !.timer0 = a.timer0 + 1]
           c == CompareTimer0(b)
           d == ReloadTimer1(c)
<1>1. IsScu(a) /\ a.timer0 = s.timer0
  BY OutKeeps, Zenon DEF Keeps
<1> HIDE DEF a
<1>2. IsScu(b) /\ b.timer0 = a.timer0 + 1
  BY <1>1, SetTimer0, Zenon
<1>3. b = [a EXCEPT !.timer0 = @ + 1]
  OBVIOUS
<1> HIDE DEF b
<1>4. Keeps(b, c) /\ IsScu(c)
  BY <1>2, CompareKeeps, KeepsIs, Zenon
<1> HIDE DEF c
<1>5. Keeps(c, d) /\ IsScu(d)
  BY <1>4, ReloadKeeps, KeepsIs, Zenon
<1> HIDE DEF d
<1>6. Keeps(b, ScuChekIntrruptDMA(d, ByHBlankIN))
  BY <1>4, <1>5, CheckKeeps, KeepsTrans, Zenon
<1>7. ScuSendHBlankIN(s) = ScuChekIntrruptDMA(d, ByHBlankIN)
  BY <1>3, Zenon DEF ScuSendHBlankIN, a, c, d
<1> QED BY <1>1, <1>2, <1>6, <1>7, Zenon DEF Keeps

-----------------------------------------------------------------------------
TimerInv == WalkOK /\ slice \in 0..(Slices - 1) /\ IsScu(scu) /\ Timer0IsLine

LEMMA InitTimer == Init => TimerInv
<1> SUFFICES ASSUME Init PROVE TimerInv
  OBVIOUS
<1>1. WalkOK
  BY InitWalk DEF WalkInv
<1>2. slice \in 0..(Slices - 1)
  BY DEF Init
<1>3. IsScu(scu) /\ scu.timer0 = 0
  BY Zenon DEF Init, IsScu, Fields
<1>4. line = 0 /\ slice = 0 /\ vbl = FirstBlankLine
  BY DEF Init
<1>5. 0 < vbl /\ Slices \in Nat /\ 1 < Slices
  BY <1>4
<1>6. Timer0IsLine
  BY <1>3, <1>4, <1>5 DEF Timer0IsLine, Visible
<1> QED BY <1>1, <1>2, <1>3, <1>6 DEF TimerInv

\* what the invariant says of a state, with the numbers it is about
LEMMA TimerFacts ==
  TimerInv => /\ IsScu(scu)
              /\ line \in Int /\ 0 <= line /\ line < MaxLineCount
              /\ slice \in Int /\ 0 <= slice /\ slice < Slices
              /\ vbl \in BlankLines /\ vbl \in Int /\ 0 < vbl /\ vbl # MaxLineCount
              /\ MaxLineCount \in Int /\ Slices \in Int /\ 1 < Slices
              /\ blanks \in Int /\ extra \in Int
              /\ ~moved => scu.timer0 = IF ~(line < vbl) THEN vbl
                                        ELSE IF slice >= Slices - 1 THEN line + 1 ELSE line
BY BlankLater DEF TimerInv, WalkOK, Timer0IsLine, Visible

LEMMA InLineTimer == TimerInv /\ InLine => TimerInv'
<1> SUFFICES ASSUME TimerInv, InLine PROVE TimerInv'
  OBVIOUS
<1> DEFINE hblank == slice + 1 = Slices - 1 /\ line < vbl
           s == [scu EXCEPT !.out = <<>>]
           t == IF hblank THEN ScuSendHBlankIN(s) ELSE s
<1>1. /\ slice + 1 < Slices /\ slice' = slice + 1
      /\ line' = line /\ vbl' = vbl /\ blanks' = blanks /\ extra' = extra /\ moved' = moved
  BY DEF InLine, ghosts
<1>2. scu' = ScuExec(t, line)
  BY Zenon DEF InLine, Visible
<1>3. IsScu(s) /\ s.timer0 = scu.timer0
  BY SetOut, TimerFacts, Zenon DEF Keeps
<1> HIDE DEF s
<1>4. IsScu(t) /\ t.timer0 = IF hblank THEN scu.timer0 + 1 ELSE scu.timer0
  BY <1>3, HBlankINCounts, Zenon
<1> HIDE DEF t
<1>5. IsScu(scu') /\ scu'.timer0 = IF hblank THEN scu.timer0 + 1 ELSE scu.timer0
  BY <1>2, <1>4, ExecKeeps, Zenon DEF Keeps
<1>6. WalkOK' /\ slice' \in 0..(Slices - 1)
  BY <1>1, TimerFacts DEF WalkOK
<1>7. Timer0IsLine'
  BY <1>1, <1>5, TimerFacts DEF Timer0IsLine, Visible
<1> QED BY <1>5, <1>6, <1>7 DEF TimerInv

LEMMA EndLineTimer == TimerInv /\ EndLine => TimerInv'
<1> SUFFICES ASSUME TimerInv, EndLine PROVE TimerInv'
  OBVIOUS
<1> DEFINE s == [scu EXCEPT !.out = <<>>]
           out == IF line < vbl THEN ScuRemoveHBlankIN(s) ELSE s
<1>1. slice + 1 = Slices /\ slice' = 0 /\ vbl' = vbl
  BY DEF EndLine
<1>2. IsScu(s) /\ s.timer0 = scu.timer0
  BY SetOut, TimerFacts, Zenon DEF Keeps
<1>3. CASE line + 1 = vbl
  <2>1. line' = line + 1 /\ scu' = ScuExec(ScuSendVBlankIN(out), line + 1)
        /\ blanks' = blanks + 1 /\ extra' = extra /\ moved' = moved
    BY <1>3 DEF EndLine, Visible
  <2> HIDE DEF s
  <2>2. IsScu(out) /\ out.timer0 = scu.timer0
    BY <1>2, OutKeeps, Zenon DEF Keeps, ScuRemoveHBlankIN
  <2> HIDE DEF out
  <2>3. IsScu(scu') /\ scu'.timer0 = scu.timer0
    BY <2>1, <2>2, VBlankINKeeps, ExecKeeps, Zenon DEF Keeps
  <2>4. WalkOK' /\ slice' \in 0..(Slices - 1)
    BY <1>1, <1>3, <2>1, TimerFacts DEF WalkOK
  <2>5. Timer0IsLine'
    BY <1>1, <1>3, <2>1, <2>3, TimerFacts DEF Timer0IsLine, Visible
  <2> QED BY <2>3, <2>4, <2>5 DEF TimerInv
<1>4. CASE line + 1 # vbl /\ line + 1 = MaxLineCount
  <2>1. line' = 0 /\ scu' = ScuExec(ScuSendVBlankOUT(out), 0)
        /\ blanks' = 0 /\ extra' = 0 /\ moved' = FALSE
    BY <1>4 DEF EndLine, Visible
  <2> HIDE DEF s
  <2>2. IsScu(out)
    BY <1>2, OutKeeps, Zenon DEF Keeps, ScuRemoveHBlankIN
  <2> HIDE DEF out
  <2>3. IsScu(scu') /\ scu'.timer0 = 0
    BY <2>1, <2>2, VBlankOUTClears, ExecKeeps, Zenon DEF Keeps
  <2>4. WalkOK' /\ slice' \in 0..(Slices - 1)
    BY <1>1, <2>1, TimerFacts DEF WalkOK
  <2>5. Timer0IsLine'
    BY <1>1, <2>1, <2>3, TimerFacts DEF Timer0IsLine, Visible
  <2> QED BY <2>3, <2>4, <2>5 DEF TimerInv
<1>5. CASE line + 1 # vbl /\ line + 1 # MaxLineCount
  <2>1. line' = line + 1 /\ scu' = ScuExec(out, line + 1)
        /\ blanks' = blanks /\ extra' = extra /\ moved' = moved
    BY <1>5 DEF EndLine, Visible, ghosts
  <2> HIDE DEF s
  <2>2. IsScu(out) /\ out.timer0 = scu.timer0
    BY <1>2, OutKeeps, Zenon DEF Keeps, ScuRemoveHBlankIN
  <2> HIDE DEF out
  <2>3. IsScu(scu') /\ scu'.timer0 = scu.timer0
    BY <2>1, <2>2, ExecKeeps, Zenon DEF Keeps
  <2>4. WalkOK' /\ slice' \in 0..(Slices - 1)
    BY <1>1, <1>5, <2>1, TimerFacts DEF WalkOK
  <2>5. Timer0IsLine'
    BY <1>1, <1>5, <2>1, <2>3, TimerFacts DEF Timer0IsLine, Visible
  <2> QED BY <2>3, <2>4, <2>5 DEF TimerInv
<1> QED BY <1>3, <1>4, <1>5

LEMMA ResetClears == \A s : IsScu(s) => IsScu(ScuReset(s)) /\ ScuReset(s).timer0 = 0
<1> SUFFICES ASSUME NEW s, IsScu(s) PROVE IsScu(ScuReset(s)) /\ ScuReset(s).timer0 = 0
  OBVIOUS
<1>1. {"dma", "owed", "en", "md", "T1on", "T1line"} \subseteq Fields \ {"timer0"}
  BY DEF Fields
<1> DEFINE a == [s EXCEPT !.dma = [l \in Levels |-> Idle], !.owed = [l \in Levels |-> 0]]
           b == [a EXCEPT !.en = [l \in Levels |-> FALSE],
                          !.md = [l \in Levels |-> ByRegister]]
           c == [b EXCEPT !.T1on = FALSE, !.T1line = FALSE]
           d == [c EXCEPT !.timer0 = 0]
           e == [d EXCEPT !.out = <<>>]
<1>2. IsScu(a)
  BY <1>1, SetTwo, KeepsIs, Zenon
<1> HIDE DEF a
<1>3. IsScu(b)
  BY <1>1, <1>2, SetTwo, KeepsIs, Zenon
<1> HIDE DEF b
<1>4. IsScu(c)
  BY <1>1, <1>3, SetTwo, KeepsIs, Zenon
<1> HIDE DEF c
<1>5. IsScu(d) /\ d.timer0 = 0
  BY <1>4, SetTimer0, Zenon
<1> HIDE DEF d
<1>6. IsScu(e) /\ e.timer0 = 0
  BY <1>5, SetOut, Zenon DEF Keeps
<1>7. ScuReset(s) = e
  BY Zenon DEF ScuReset, a, b, c, d
<1> QED BY <1>6, <1>7, Zenon

LEMMA ResetTimer == TimerInv /\ (YabauseReset \/ ChangeClock) => TimerInv'
<1> SUFFICES ASSUME TimerInv, YabauseReset \/ ChangeClock PROVE TimerInv'
  OBVIOUS
<1>1. /\ line' = 0 /\ slice' = 0 /\ vbl' = FirstBlankLine /\ blanks' = blanks
      /\ scu' = ScuReset(scu)
  BY DEF YabauseReset, ChangeClock
<1>2. \E n, m \in {0, 1} : extra' = extra + n - m
  BY DEF YabauseReset, ChangeClock, Move
<1>3. extra' \in Int
  BY <1>2, TimerFacts
<1>4. IsScu(scu') /\ scu'.timer0 = 0
  BY <1>1, ResetClears, TimerFacts, Zenon
<1>5. vbl' \in BlankLines /\ vbl' \in Int /\ 0 < vbl'
  BY <1>1, BlankLater
<1>6. WalkOK' /\ slice' \in 0..(Slices - 1)
  BY <1>1, <1>3, <1>5, TimerFacts DEF WalkOK
<1>7. Timer0IsLine'
  BY <1>1, <1>4, <1>5, TimerFacts DEF Timer0IsLine, Visible
<1> QED BY <1>4, <1>6, <1>7 DEF TimerInv

\* a step of the program or of another device
LEMMA KeepsTimer ==
  ASSUME TimerInv, Keeps(scu, scu'), UNCHANGED <<frame, ghosts>>
  PROVE  TimerInv'
<1>1. IsScu(scu') /\ scu'.timer0 = scu.timer0
  BY DEF Keeps
<1>2. line' = line /\ slice' = slice /\ vbl' = vbl /\ blanks' = blanks
      /\ extra' = extra /\ moved' = moved
  BY DEF frame, ghosts
<1> QED BY <1>1, <1>2 DEF TimerInv, WalkOK, Timer0IsLine, Visible

LEMMA WritesKeep ==
  ASSUME IsScu(scu),
         \/ \E l \in Levels : WriteWork(l) \/ WriteEN(l)
         \/ WriteT0C \/ WriteT1S \/ WriteT1MD \/ OtherRequest
  PROVE  Keeps(scu, scu') /\ UNCHANGED <<frame, ghosts>>
<1>1. {"work", "md", "en", "T0C", "timer1_set", "timer1_preset", "T1on", "T1line"}
        \subseteq Fields \ {"timer0"}
  BY DEF Fields
<1>2. ASSUME NEW f \in Fields \ {"timer0"}, NEW g \in Fields \ {"timer0"}, NEW a, NEW b
      PROVE  Keeps(scu, [scu EXCEPT ![f] = a, ![g] = b, !.out = <<>>])
  <2> DEFINE t == [scu EXCEPT ![f] = a, ![g] = b]
  <2>1. Keeps(scu, t) /\ IsScu(t)
    BY SetTwo, KeepsIs, Zenon
  <2> HIDE DEF t
  <2>2. Keeps(scu, [t EXCEPT !.out = <<>>])
    BY <2>1, SetOut, KeepsTrans, Zenon
  <2> QED BY <2>2, Zenon DEF t
<1>3. ASSUME NEW f \in Fields \ {"timer0"}, NEW a
      PROVE  Keeps(scu, [scu EXCEPT ![f] = a, !.out = <<>>])
  <2> DEFINE t == [scu EXCEPT ![f] = a]
  <2>1. Keeps(scu, t) /\ IsScu(t)
    BY SetOther, KeepsIs, Zenon
  <2> HIDE DEF t
  <2>2. Keeps(scu, [t EXCEPT !.out = <<>>])
    BY <2>1, SetOut, KeepsTrans, Zenon
  <2> QED BY <2>2, Zenon DEF t
<1>4. ASSUME NEW l \in Levels, WriteWork(l) PROVE Keeps(scu, scu')
  <2>1. PICK w \in Works[l], f \in Factors :
          scu' = [scu EXCEPT !.work[l] = w, !.md[l] = f, !.out = <<>>]
    BY <1>4, Zenon DEF WriteWork
  <2> QED BY <1>1, <1>2, <2>1, Zenon
<1>5. ASSUME NEW l \in Levels, WriteEN(l) PROVE Keeps(scu, scu')
  <2> DEFINE s == [scu EXCEPT !.out = <<>>]
  <2>1. PICK go \in BOOLEAN, enable \in BOOLEAN :
          LET started == IF go /\ s.md[l] = ByRegister
                           THEN StartDma(s, l, s.dma[l].left # 0) ELSE s
          IN scu' = [started EXCEPT !.en[l] = enable]
    BY <1>5, Zenon DEF WriteEN
  <2>2. Keeps(scu, s) /\ IsScu(s)
    BY SetOut, KeepsIs, Zenon
  <2> HIDE DEF s
  <2> DEFINE t == IF go /\ s.md[l] = ByRegister
                    THEN StartDma(s, l, s.dma[l].left # 0) ELSE s
  <2>3. Keeps(scu, t) /\ IsScu(t)
    BY <2>2, StartKeeps, KeepsTrans, KeepsIs, Zenon
  <2>4. scu' = [t EXCEPT !.en[l] = enable]
    BY <2>1, Zenon
  <2> HIDE DEF t
  <2>5. Keeps(t, scu')
    BY <1>1, <2>3, <2>4, SetOther, Zenon
  <2> QED BY <2>3, <2>5, KeepsTrans, Zenon
<1>6. ASSUME WriteT0C PROVE Keeps(scu, scu')
  <2>1. PICK n \in T0Cs : scu' = [scu EXCEPT !.T0C = n, !.out = <<>>]
    BY <1>6, Zenon DEF WriteT0C
  <2>2. "T0C" \in Fields \ {"timer0"}
    BY <1>1
  <2> QED BY <1>3, <2>1, <2>2, Zenon
<1>7. ASSUME WriteT1S PROVE Keeps(scu, scu')
  <2>1. PICK n \in T1Ss :
          scu' = [scu EXCEPT !.timer1_set = TRUE, !.timer1_preset = n, !.out = <<>>]
    BY <1>7, Zenon DEF WriteT1S
  <2>2. "timer1_set" \in Fields \ {"timer0"} /\ "timer1_preset" \in Fields \ {"timer0"}
    BY <1>1
  <2> QED BY <1>2, <2>1, <2>2, Zenon
<1>8. ASSUME WriteT1MD PROVE Keeps(scu, scu')
  <2>1. PICK on \in BOOLEAN, inLine \in BOOLEAN :
          scu' = [scu EXCEPT !.T1on = on, !.T1line = inLine, !.out = <<>>]
    BY <1>8, Zenon DEF WriteT1MD
  <2>2. "T1on" \in Fields \ {"timer0"} /\ "T1line" \in Fields \ {"timer0"}
    BY <1>1
  <2> QED BY <1>2, <2>1, <2>2, Zenon
<1>9. ASSUME OtherRequest PROVE Keeps(scu, scu')
  <2>1. PICK v, id : scu' = ScuChekIntrruptDMA(SendInterrupt([scu EXCEPT !.out = <<>>], v), id)
    BY <1>9, Zenon DEF OtherRequest
  <2>2. IsScu([scu EXCEPT !.out = <<>>]) /\ Keeps(scu, [scu EXCEPT !.out = <<>>])
    BY SetOut, KeepsIs, Zenon
  <2> DEFINE t == SendInterrupt([scu EXCEPT !.out = <<>>], v)
  <2>3. Keeps(scu, t) /\ IsScu(t)
    BY <2>2, OutKeeps, KeepsTrans, KeepsIs, Zenon
  <2>4. scu' = ScuChekIntrruptDMA(t, id)
    BY <2>1, Zenon
  <2> HIDE DEF t
  <2> QED BY <2>3, <2>4, CheckKeeps, KeepsTrans, Zenon
<1>10. UNCHANGED <<frame, ghosts>>
  BY Zenon DEF WriteWork, WriteEN, WriteT0C, WriteT1S, WriteT1MD, OtherRequest
<1> QED BY <1>4, <1>5, <1>6, <1>7, <1>8, <1>9, <1>10

LEMMA WriteTVMDTimer == TimerInv /\ WriteTVMD => TimerInv'
<1> SUFFICES ASSUME TimerInv, WriteTVMD PROVE TimerInv'
  OBVIOUS
<1>1. PICK v \in BlankLines : vbl' = v /\ Move(line, v)
                              /\ moved' = (moved \/ line >= vbl \/ line >= v)
  BY Zenon DEF WriteTVMD
<1>2. line' = line /\ slice' = slice /\ blanks' = blanks
      /\ scu' = [scu EXCEPT !.out = <<>>]
  BY Zenon DEF WriteTVMD
<1>3. IsScu(scu') /\ scu'.timer0 = scu.timer0
  BY <1>2, SetOut, TimerFacts, Zenon DEF Keeps
<1>4. \E n, m \in {0, 1} : extra' = extra + n - m
  BY <1>1 DEF Move
<1>5. extra' \in Int /\ v \in Int
  BY <1>4, TimerFacts, BlankLater
<1>6. WalkOK' /\ slice' \in 0..(Slices - 1)
  BY <1>1, <1>2, <1>5, TimerFacts DEF WalkOK
<1>7. ASSUME ~moved' PROVE scu'.timer0 = IF slice >= Slices - 1 THEN line + 1 ELSE line
  <2>1. ~moved /\ ~(line >= vbl) /\ ~(line >= v)
    BY <1>1, <1>7, Zenon
  <2>2. line < vbl
    BY <2>1, TimerFacts
  <2> QED BY <1>3, <2>1, <2>2, TimerFacts
<1>8. Timer0IsLine'
  <2>1. SUFFICES ASSUME ~moved'
                 PROVE  scu'.timer0 = IF ~(line < v) THEN v
                                      ELSE IF slice >= Slices - 1 THEN line + 1 ELSE line
    BY <1>1, <1>2 DEF Timer0IsLine, Visible
  <2>2. ~(line >= v)
    BY <1>1, <2>1, Zenon
  <2>3. line < v
    BY <1>5, <2>2, TimerFacts
  <2> QED BY <1>7, <2>1, <2>3
<1> QED BY <1>3, <1>6, <1>8 DEF TimerInv

LEMMA NextTimer == TimerInv /\ [Next]_vars => TimerInv'
<1> SUFFICES ASSUME TimerInv, [Next]_vars PROVE TimerInv'
  OBVIOUS
<1>1. CASE InLine
  BY <1>1, InLineTimer
<1>2. CASE EndLine
  BY <1>2, EndLineTimer
<1>3. CASE YabauseReset \/ ChangeClock
  BY <1>3, ResetTimer
<1>4. CASE \/ \E l \in Levels : WriteWork(l) \/ WriteEN(l)
           \/ WriteT0C \/ WriteT1S \/ WriteT1MD \/ OtherRequest
  BY <1>4, TimerFacts, WritesKeep, KeepsTimer
<1>5. CASE WriteTVMD
  BY <1>5, WriteTVMDTimer
<1>6. CASE UNCHANGED vars
  <2>1. Keeps(scu, scu')
    BY <1>6, TimerFacts, KeepsSame DEF vars
  <2> QED BY <1>6, <2>1, KeepsTimer DEF vars
<1> QED BY <1>1, <1>2, <1>3, <1>4, <1>5, <1>6 DEF Next, Slice

\* Timer 0, which is counted by HBlank-IN and cleared by VBlank-OUT and by a
\* reset, agrees with the line YabauseEmulate is in, whatever the program writes,
\* unless the blank was moved across the line in this frame.
THEOREM TimerFollowsLine == Spec => []Timer0IsLine
<1>1. TimerInv => Timer0IsLine
  BY DEF TimerInv
<1> QED BY <1>1, InitTimer, NextTimer, PTL DEF Spec

-----------------------------------------------------------------------------
(* What the SCU holds: the type of its fields, and what each level is owed. *)

\* what a field holds; the levels and what they are owed belong together
FieldOK(f, e) ==
  /\ f = "en" => e \in [Levels -> BOOLEAN]
  /\ f = "md" => e \in [Levels -> 0..7]
  /\ f = "work" => e = [l \in Levels |-> e[l]] /\ \A l \in Levels : e[l] \in Works[l]
  /\ f \in {"T0C", "timer0", "timer1_counter", "timer1_preset"} => e \in Nat
  /\ f \in {"T1on", "T1line", "timer0_set", "timer1_set"} => e \in BOOLEAN

Owing(dma, owed) ==
  /\ dma \in [Levels -> LevelStates] /\ owed \in [Levels -> Nat]
  /\ \A l \in Levels : /\ LevelOK(dma[l])
                       /\ owed[l] = IF Busy(dma[l]) \/ Hung(dma[l]) THEN 1 ELSE 0

ScuOK(s) == IsScu(s) /\ Owing(s.dma, s.owed) /\ \A f \in Fields : FieldOK(f, s[f])

Put(s, f, e) == [s EXCEPT ![f] = e]

LEMMA SetAny ==
  \A s, f, e : IsScu(s) /\ f \in Fields =>
    /\ IsScu(Put(s, f, e))
    /\ \A g \in Fields : Put(s, f, e)[g] = IF g = f THEN e ELSE s[g]
<1> SUFFICES ASSUME NEW s, NEW f \in Fields, NEW e, IsScu(s)
             PROVE  /\ IsScu(Put(s, f, e))
                    /\ \A g \in Fields : Put(s, f, e)[g] = IF g = f THEN e ELSE s[g]
  OBVIOUS
<1>1. DOMAIN s = Fields
  BY Zenon DEF IsScu
<1> DEFINE t == [g \in Fields |-> IF g = f THEN e ELSE s[g]]
<1>2. Put(s, f, e) = t
  BY <1>1, Zenon DEF Put
<1>3. \A g \in Fields : t[g] = IF g = f THEN e ELSE s[g]
  BY Zenon
<1>4. t = [g \in Fields |-> t[g]]
  BY Zenon
<1> HIDE DEF t
<1>5. IsScu(t)
  BY <1>4, Zenon DEF IsScu
<1> QED BY <1>2, <1>3, <1>5, Zenon

\* a field that has nothing to do with the levels is set
LEMMA SetOK ==
  \A s, f, e : ScuOK(s) /\ f \in Fields \ {"dma", "owed"} /\ FieldOK(f, e)
               => ScuOK([s EXCEPT ![f] = e])
<1> SUFFICES ASSUME NEW s, NEW f, NEW e, ScuOK(s), f \in Fields, f # "dma", f # "owed",
                    FieldOK(f, e)
             PROVE  ScuOK(Put(s, f, e))
  BY Zenon DEF Put
<1> DEFINE t == Put(s, f, e)
<1>1. IsScu(t) /\ \A g \in Fields : t[g] = IF g = f THEN e ELSE s[g]
  <2>1. IsScu(s)
    BY DEF ScuOK
  <2> QED BY <2>1, SetAny
<1> HIDE DEF t
<1>2. "dma" \in Fields /\ "owed" \in Fields
  BY DEF Fields
<1>3. t["dma"] = s["dma"] /\ t["owed"] = s["owed"]
  BY <1>1, <1>2
<1>4. Owing(t.dma, t.owed)
  BY <1>3, Zenon DEF ScuOK
<1>5. \A g \in Fields : FieldOK(g, t[g])
  BY <1>1, Zenon DEF ScuOK
<1>6. ScuOK(t)
  BY <1>1, <1>4, <1>5, Zenon DEF ScuOK
<1> QED BY <1>6 DEF t

\* the levels are set
PutLevels(s, a, b) == [s EXCEPT !.dma = a, !.owed = b]

LEMMA SetLevels ==
  \A s, a, b : ScuOK(s) /\ Owing(a, b) =>
    /\ ScuOK(PutLevels(s, a, b))
    /\ PutLevels(s, a, b).dma = a /\ PutLevels(s, a, b).owed = b
    /\ \A g \in Fields \ {"dma", "owed"} : PutLevels(s, a, b)[g] = s[g]
<1> SUFFICES ASSUME NEW s, NEW a, NEW b, ScuOK(s), Owing(a, b)
             PROVE  /\ ScuOK(PutLevels(s, a, b))
                    /\ PutLevels(s, a, b).dma = a /\ PutLevels(s, a, b).owed = b
                    /\ \A g \in Fields \ {"dma", "owed"} : PutLevels(s, a, b)[g] = s[g]
  OBVIOUS
<1> DEFINE t == Put(s, "dma", a)
           u == Put(t, "owed", b)
<1>0. PutLevels(s, a, b) = u
  BY Zenon DEF Put, PutLevels
<1>1. "dma" \in Fields /\ "owed" \in Fields
  BY DEF Fields
<1>2. IsScu(t) /\ \A g \in Fields : t[g] = IF g = "dma" THEN a ELSE s[g]
  <2>1. IsScu(s)
    BY DEF ScuOK
  <2> QED BY <1>1, <2>1, SetAny
<1> HIDE DEF t
<1>3. IsScu(u) /\ \A g \in Fields : u[g] = IF g = "owed" THEN b ELSE t[g]
  BY <1>1, <1>2, SetAny
<1> HIDE DEF u
<1>5. u["dma"] = a /\ u["owed"] = b
  BY <1>1, <1>2, <1>3
<1>6. \A g \in Fields : FieldOK(g, u[g])
  <2> SUFFICES ASSUME NEW g \in Fields PROVE FieldOK(g, u[g])
    OBVIOUS
  <2>1. CASE g \in {"dma", "owed"}
    BY <2>1 DEF FieldOK
  <2>2. CASE g \notin {"dma", "owed"}
    <3>1. u[g] = s[g]
      BY <1>2, <1>3, <2>2
    <3> QED BY <3>1, Zenon DEF ScuOK
  <2> QED BY <2>1, <2>2
<1>7. ScuOK(u)
  BY <1>3, <1>5, <1>6, Zenon DEF ScuOK
<1>8. \A g \in Fields \ {"dma", "owed"} : u[g] = s[g]
  BY <1>2, <1>3
<1> HIDE DEF u
<1> QED BY <1>0, <1>5, <1>7, <1>8

LEMMA OutOK ==
  \A s, e, v : ScuOK(s) => /\ ScuOK([s EXCEPT !.out = e])
                           /\ ScuOK(SendInterrupt(s, v)) /\ ScuOK(ScuRemoveTimer(s, v))
                           /\ ScuOK(TakeBack(s, v))
<1>1. "out" \in Fields \ {"dma", "owed"} /\ \A e : FieldOK("out", e)
  BY DEF Fields, FieldOK
<1>2. \A s, e : ScuOK(s) => ScuOK([s EXCEPT !.out = e])
  BY <1>1, SetOK, Zenon
<1> QED BY <1>2, Zenon DEF SendInterrupt, ScuRemoveTimer, TakeBack

\* What a level loads is at work or hangs, and does not go on for longer than a flush.
LEMMA Loaded ==
  ASSUME NEW l \in Levels, NEW w \in Works[l]
  PROVE  LevelOK(Load(l, w)) /\ (Busy(Load(l, w)) \/ Hung(Load(l, w)))
<1> DEFINE n == Head(w.counts)
           d == Load(l, w)
<1>1. /\ w.counts \in Seq(Nat) /\ w.counts # <<>> /\ w.unit \in Nat \ {0}
      /\ w.indirect \in BOOLEAN /\ (w.indirect \/ Len(w.counts) = 1)
  BY WritesAssumption
<1>2. n \in Nat /\ Tail(w.counts) \in Seq(Nat) /\ (~w.indirect => Tail(w.counts) = <<>>)
  <2> DEFINE c == w.counts
  <2>1. c \in Seq(Nat) /\ c # <<>> /\ (~w.indirect => Len(c) = 1)
    BY <1>1
  <2> HIDE DEF c
  <2>2. Head(c) \in Nat /\ Tail(c) \in Seq(Nat) /\ Len(Tail(c)) = Len(c) - 1
    BY <2>1
  <2>3. Len(c) = 1 => Tail(c) = <<>>
    <3> DEFINE r == Tail(c)
    <3>1. r \in Seq(Nat) /\ (Len(c) = 1 => Len(r) = 0)
      BY <2>2
    <3> HIDE DEF r
    <3>2. Len(r) = 0 => r = <<>>
      BY <3>1
    <3> QED BY <3>1, <3>2 DEF r
  <2> QED BY <2>1, <2>2, <2>3 DEF c
<1> HIDE DEF n
<1>3. d.left \in Nat /\ (d.left = 0 => w.indirect)
  <2>1. d.left = CASE w.indirect -> n
                   [] ~w.indirect /\ l = 0 -> IF n = 0 THEN HighCount ELSE n
                   [] OTHER -> IF n % LowCount = 0 THEN LowCount ELSE n % LowCount
    BY DEF Load, n
  <2>2. n % LowCount \in Nat
    BY <1>2, CountsAssumption
  <2> HIDE DEF d
  <2>3. CASE w.indirect
    BY <1>2, <2>1, <2>3
  <2>4. CASE ~w.indirect /\ l = 0
    BY <1>2, <2>1, <2>4, CountsAssumption
  <2>5. CASE ~w.indirect /\ l # 0
    <3>1. d.left = IF n % LowCount = 0 THEN LowCount ELSE n % LowCount
      BY <2>1, <2>5
    <3> DEFINE m == n % LowCount
    <3>2. m \in Nat /\ d.left = IF m = 0 THEN LowCount ELSE m
      BY <2>2, <3>1
    <3> HIDE DEF m
    <3> QED BY <3>2, CountsAssumption
  <2> QED BY <2>3, <2>4, <2>5
<1>4. d.rest = Tail(w.counts) /\ d.unit = w.unit /\ d.indirect = w.indirect
  BY DEF Load
<1>5. d \in LevelStates
  <2>1. d = [left |-> d.left, rest |-> d.rest, unit |-> d.unit, indirect |-> d.indirect]
    BY DEF Load
  <2> HIDE DEF d
  <2>2. d.left \in Int
    BY <1>3
  <2> DEFINE Q == Seq(Nat)
             U == Nat \ {0}
  <2>3. d.rest \in Q /\ d.unit \in U /\ d.indirect \in BOOLEAN
    BY <1>1, <1>2, <1>4
  <2> HIDE DEF Q, U
  <2>4. d \in [left : Int, rest : Q, unit : U, indirect : BOOLEAN]
    BY <2>1, <2>2, <2>3
  <2> QED BY <2>4 DEF LevelStates, Q, U
<1>6. Duration(d) <= FlushTime
  BY FlushAssumption
<1> HIDE DEF d
<1> QED BY <1>2, <1>3, <1>4, <1>5, <1>6 DEF LevelOK, Busy, Hung, d

\* what a share of time makes of the levels and of what they are owed
After(s, time) == [l \in Levels |-> SucDmaCheck(s.dma[l], time)]
OwedAfter(s, time) ==
  [l \in Levels |-> IF Busy(s.dma[l]) /\ Finished(After(s, time)[l])
                      THEN s.owed[l] - 1 ELSE s.owed[l]]

\* A share of time leaves every level with what it is owed: one that ends is owed
\* nothing any more.  In the time of a flush all of them end.
LEMMA AfterOwing ==
  ASSUME NEW s, Owing(s.dma, s.owed), NEW time \in Nat
  PROVE  /\ Owing(After(s, time), OwedAfter(s, time))
         /\ FlushTime <= time => \A l \in Levels : ~Busy(After(s, time)[l])
<1> DEFINE a == After(s, time)
           b == OwedAfter(s, time)
<1>1. ASSUME NEW l \in Levels
      PROVE  /\ LevelOK(a[l]) /\ b[l] \in Nat
             /\ b[l] = IF Busy(a[l]) \/ Hung(a[l]) THEN 1 ELSE 0
             /\ FlushTime <= time => ~Busy(a[l])
  <2> DEFINE d == s.dma[l]
             e == SucDmaCheck(d, time)
             o == s.owed[l]
  <2>1. a[l] = e
    BY DEF After
  <2>2. b[l] = IF Busy(d) /\ Finished(e) THEN o - 1 ELSE o
    BY <2>1 DEF OwedAfter
  <2>3. LevelOK(d) /\ o = IF Busy(d) \/ Hung(d) THEN 1 ELSE 0
    BY DEF Owing
  <2>4. /\ LevelOK(e) /\ (~Busy(d) => e = d)
        /\ Busy(d) => Finished(e) \/ Busy(e) \/ Hung(e)
        /\ Busy(d) /\ FlushTime <= time => Finished(e)
    BY <2>3, CheckedLevel
  <2> HIDE DEF a, b, d, e, o
  <2>5. Finished(e) => ~Busy(e) /\ ~Hung(e)
    <3>1. e.left \in Int
      BY <2>4 DEF LevelOK, LevelStates
    <3> QED BY <3>1 DEF Finished, Busy, Hung
  <2> QED BY <2>1, <2>2, <2>3, <2>4, <2>5
<1>2. a \in [Levels -> LevelStates] /\ b \in [Levels -> Nat]
  <2>1. a = [l \in Levels |-> a[l]] /\ b = [l \in Levels |-> b[l]]
    BY DEF After, OwedAfter
  <2> HIDE DEF a, b
  <2>2. \A l \in Levels : a[l] \in LevelStates /\ b[l] \in Nat
    BY <1>1 DEF LevelOK
  <2> QED BY <2>1, <2>2
<1> QED BY <1>1, <1>2 DEF Owing

LEMMA ProcOK ==
  \A s : \A time \in Nat : ScuOK(s) =>
    /\ ScuOK(ScuDmaProc(s, time))
    /\ FlushTime <= time => \A l \in Levels : ~Busy(ScuDmaProc(s, time).dma[l])
<1> SUFFICES ASSUME NEW s, NEW time \in Nat, ScuOK(s)
             PROVE  /\ ScuOK(ScuDmaProc(s, time))
                    /\ FlushTime <= time =>
                         \A l \in Levels : ~Busy(ScuDmaProc(s, time).dma[l])
  OBVIOUS
<1> DEFINE t == PutLevels(s, After(s, time), OwedAfter(s, time))
<1>1. /\ Owing(After(s, time), OwedAfter(s, time))
      /\ FlushTime <= time => \A l \in Levels : ~Busy(After(s, time)[l])
  BY AfterOwing DEF ScuOK
<1>2. ScuOK(t) /\ t.dma = After(s, time)
  BY <1>1, SetLevels
<1>3. PICK e : ScuDmaProc(s, time) = Put(t, "out", e)
  <2>1. \E e : ScuDmaProc(s, time)
                 = [s EXCEPT !.dma = After(s, time), !.owed = OwedAfter(s, time), !.out = e]
    BY Zenon DEF ScuDmaProc, After, OwedAfter
  <2> QED BY <2>1, Zenon DEF Put, PutLevels
<1> HIDE DEF t
<1>4. ScuOK(Put(t, "out", e))
  BY <1>2, OutOK, Zenon DEF Put
<1>5. Put(t, "out", e).dma = t.dma
  <2>1. "dma" \in Fields /\ "out" \in Fields /\ IsScu(t)
    BY <1>2 DEF Fields, ScuOK
  <2>2. Put(t, "out", e)["dma"] = t["dma"]
    BY <2>1, SetAny
  <2> QED BY <2>2
<1> QED BY <1>1, <1>2, <1>3, <1>4, <1>5

\* A level that is not at work, because it had nothing to do or was flushed, is
\* loaded, and from then on is owed one end.
LEMMA StartOK ==
  \A s, flush : \A l \in Levels :
    ScuOK(s) /\ (~flush => ~Busy(s.dma[l])) => ScuOK(StartDma(s, l, flush))
<1> SUFFICES ASSUME NEW s, NEW flush, NEW l \in Levels,
                    ScuOK(s), ~flush => ~Busy(s.dma[l])
             PROVE  ScuOK(StartDma(s, l, flush))
  OBVIOUS
<1> DEFINE f == IF flush THEN ScuDmaProc(s, FlushTime) ELSE s
<1>1. FlushTime \in Nat /\ StartTime \in Nat
  BY TimeAssumption
<1>2. ScuOK(f) /\ ~Busy(f.dma[l])
  <2>1. CASE flush
    <3>1. ScuOK(ScuDmaProc(s, FlushTime)) /\ ~Busy(ScuDmaProc(s, FlushTime).dma[l])
      <4>1. FlushTime <= FlushTime
        BY <1>1
      <4> QED BY <1>1, <4>1, ProcOK, Zenon
    <3> QED BY <2>1, <3>1, Zenon
  <2>2. CASE ~flush
    BY <2>2, Zenon
  <2> QED BY <2>1, <2>2
<1> HIDE DEF f
<1> DEFINE d == Load(l, f.work[l])
           o == IF Hung(f.dma[l]) THEN 1 ELSE f.owed[l] + 1
           a == [f.dma EXCEPT ![l] = d]
           b == [f.owed EXCEPT ![l] = o]
<1>3. LevelOK(d) /\ (Busy(d) \/ Hung(d))
  <2>1. f.work[l] \in Works[l]
    BY <1>2 DEF ScuOK, FieldOK, Fields
  <2> QED BY <2>1, Loaded
<1>4. o = 1
  <2> DEFINE p == f.owed[l]
             h == Hung(f.dma[l])
  <2>1. p = IF Busy(f.dma[l]) \/ h THEN 1 ELSE 0
    BY <1>2, Zenon DEF ScuOK, Owing
  <2>2. o = IF h THEN 1 ELSE p + 1
    OBVIOUS
  <2>3. ~h => p = 0
    BY <1>2, <2>1, Zenon
  <2> HIDE DEF o, p, h
  <2> QED BY <2>2, <2>3
<1> HIDE DEF d, o
<1>5. Owing(a, b)
  <2>1. Owing(f.dma, f.owed)
    BY <1>2 DEF ScuOK
  <2>2. a \in [Levels -> LevelStates] /\ b \in [Levels -> Nat]
    <3>1. d \in LevelStates
      BY <1>3 DEF LevelOK
    <3> QED BY <1>4, <2>1, <3>1 DEF Owing
  <2>3. ASSUME NEW m \in Levels
        PROVE  /\ LevelOK(a[m])
               /\ b[m] = IF Busy(a[m]) \/ Hung(a[m]) THEN 1 ELSE 0
    <3>1. CASE m = l
      <4>1. a[m] = d /\ b[m] = o
        BY <2>1, <3>1 DEF Owing
      <4> HIDE DEF a, b
      <4> QED BY <1>3, <1>4, <4>1
    <3>2. CASE m # l
      <4>1. a[m] = f.dma[m] /\ b[m] = f.owed[m]
        BY <2>1, <3>2 DEF Owing
      <4> HIDE DEF a, b
      <4> QED BY <2>1, <4>1 DEF Owing
    <3> QED BY <3>1, <3>2
  <2> QED BY <2>2, <2>3 DEF Owing
<1>6. StartDma(s, l, flush) = ScuDmaProc(PutLevels(f, a, b), StartTime)
  BY Zenon DEF StartDma, PutLevels, f, d, o
<1> HIDE DEF a, b
<1>7. ScuOK(PutLevels(f, a, b))
  BY <1>2, <1>5, SetLevels
<1> QED BY <1>1, <1>6, <1>7, ProcOK, Zenon

LEMMA CheckLevelOK == \A s, l, id : ScuOK(s) => ScuOK(CheckLevel(s, l, id))
<1> SUFFICES ASSUME NEW s, NEW l, NEW id, ScuOK(s) PROVE ScuOK(CheckLevel(s, l, id))
  OBVIOUS
<1> DEFINE t == StartDma(s, l, Busy(s.dma[l]))
<1>1. CASE l \in Levels /\ s.en[l] /\ s.md[l] = id
  <2>1. ScuOK(t)
    BY <1>1, StartOK, Zenon
  <2>2. CheckLevel(s, l, id) = [t EXCEPT !.en = [t.en EXCEPT ![l] = FALSE]]
    BY <1>1, Zenon DEF CheckLevel
  <2> HIDE DEF t
  <2> DEFINE e == [t.en EXCEPT ![l] = FALSE]
  <2>3. "en" \in Fields \ {"dma", "owed"}
    BY DEF Fields
  <2>4. FieldOK("en", e)
    <3>1. t.en \in [Levels -> BOOLEAN]
      BY <2>1, <2>3 DEF ScuOK, FieldOK
    <3>2. e \in [Levels -> BOOLEAN]
      BY <3>1
    <3> QED BY <3>2 DEF FieldOK
  <2> HIDE DEF e
  <2>5. ScuOK([t EXCEPT !["en"] = e])
    BY <2>1, <2>3, <2>4, SetOK, Zenon
  <2> QED BY <2>2, <2>5, Zenon DEF e
<1>2. CASE ~(l \in Levels /\ s.en[l] /\ s.md[l] = id)
  <2>1. CheckLevel(s, l, id) = s
    BY <1>2, Zenon DEF CheckLevel
  <2> QED BY <2>1
<1> QED BY <1>1, <1>2, Zenon

LEMMA ChekOK == \A s, id : ScuOK(s) => ScuOK(ScuChekIntrruptDMA(s, id))
BY CheckLevelOK, Zenon DEF ScuChekIntrruptDMA

LEMMA SendTimersOK ==
  \A s : ScuOK(s) => ScuOK(ScuSendTimer0(s)) /\ ScuOK(ScuSendTimer1(s))
BY ChekOK, OutOK, Zenon DEF ScuSendTimer0, ScuSendTimer1

\* the fields of the timers
LEMMA SetTimers ==
  \A s : ScuOK(s) =>
    /\ \A e \in Nat : /\ ScuOK([s EXCEPT !.timer0 = e])
                      /\ ScuOK([s EXCEPT !.timer1_counter = e])
                      /\ ScuOK([s EXCEPT !.timer1_preset = e])
                      /\ ScuOK([s EXCEPT !.T0C = e])
    /\ \A e \in BOOLEAN : /\ ScuOK([s EXCEPT !.timer0_set = e])
                          /\ ScuOK([s EXCEPT !.timer1_set = e])
                          /\ ScuOK([s EXCEPT !.T1on = e])
                          /\ ScuOK([s EXCEPT !.T1line = e])
    /\ {s.timer0, s.timer1_counter, s.timer1_preset, s.T0C} \subseteq Nat
    /\ {s.timer0_set, s.timer1_set, s.T1on, s.T1line} \subseteq BOOLEAN
<1> DEFINE N == {"T0C", "timer0", "timer1_counter", "timer1_preset"}
           B == {"T1on", "T1line", "timer0_set", "timer1_set"}
<1>1. N \subseteq Fields \ {"dma", "owed"} /\ B \subseteq Fields \ {"dma", "owed"}
  BY DEF Fields
<1>2. \A f \in N : \A e : FieldOK(f, e) <=> e \in Nat
  BY DEF FieldOK
<1>3. \A f \in B : \A e : FieldOK(f, e) <=> e \in BOOLEAN
  BY DEF FieldOK
<1>4. \A s : ScuOK(s) => /\ \A f \in N : s[f] \in Nat
                         /\ \A f \in B : s[f] \in BOOLEAN
  BY <1>1, <1>2, <1>3, Zenon DEF ScuOK
<1>5. \A s : ScuOK(s) => \A f \in N : \A e \in Nat : ScuOK([s EXCEPT ![f] = e])
  BY <1>1, <1>2, SetOK, Zenon
<1>6. \A s : ScuOK(s) => \A f \in B : \A e \in BOOLEAN : ScuOK([s EXCEPT ![f] = e])
  BY <1>1, <1>3, SetOK, Zenon
<1>7. /\ "T0C" \in N /\ "timer0" \in N /\ "timer1_counter" \in N /\ "timer1_preset" \in N
      /\ "T1on" \in B /\ "T1line" \in B /\ "timer0_set" \in B /\ "timer1_set" \in B
  OBVIOUS
<1> HIDE DEF N, B
<1> SUFFICES ASSUME NEW s, ScuOK(s)
    PROVE
    /\ \A e \in Nat : /\ ScuOK([s EXCEPT !.timer0 = e])
                      /\ ScuOK([s EXCEPT !.timer1_counter = e])
                      /\ ScuOK([s EXCEPT !.timer1_preset = e])
                      /\ ScuOK([s EXCEPT !.T0C = e])
    /\ \A e \in BOOLEAN : /\ ScuOK([s EXCEPT !.timer0_set = e])
                          /\ ScuOK([s EXCEPT !.timer1_set = e])
                          /\ ScuOK([s EXCEPT !.T1on = e])
                          /\ ScuOK([s EXCEPT !.T1line = e])
    /\ {s.timer0, s.timer1_counter, s.timer1_preset, s.T0C} \subseteq Nat
    /\ {s.timer0_set, s.timer1_set, s.T1on, s.T1line} \subseteq BOOLEAN
  OBVIOUS
<1>8. \A e \in Nat : /\ ScuOK([s EXCEPT !.timer0 = e])
                      /\ ScuOK([s EXCEPT !.timer1_counter = e])
                      /\ ScuOK([s EXCEPT !.timer1_preset = e])
                      /\ ScuOK([s EXCEPT !.T0C = e])
  BY <1>5, <1>7, Zenon
<1>9. \A e \in BOOLEAN : /\ ScuOK([s EXCEPT !.timer0_set = e])
                          /\ ScuOK([s EXCEPT !.timer1_set = e])
                          /\ ScuOK([s EXCEPT !.T1on = e])
                          /\ ScuOK([s EXCEPT !.T1line = e])
  BY <1>6, <1>7, Zenon
<1>10. /\ s["timer0"] \in Nat /\ s["timer1_counter"] \in Nat
       /\ s["timer1_preset"] \in Nat /\ s["T0C"] \in Nat
  BY <1>4, <1>7, Zenon
<1>11. /\ s["timer0_set"] \in BOOLEAN /\ s["timer1_set"] \in BOOLEAN
       /\ s["T1on"] \in BOOLEAN /\ s["T1line"] \in BOOLEAN
  BY <1>4, <1>7, Zenon
<1> QED BY <1>8, <1>9, <1>10, <1>11

LEMMA CompareOK == \A s : ScuOK(s) => ScuOK(CompareTimer0(s))
<1> SUFFICES ASSUME NEW s, ScuOK(s) PROVE ScuOK(CompareTimer0(s))
  OBVIOUS
<1>1. ScuOK([s EXCEPT !.timer0_set = TRUE]) /\ ScuOK([s EXCEPT !.timer0_set = FALSE])
  BY SetTimers, Zenon
<1> QED BY <1>1, SendTimersOK, OutOK, Zenon DEF CompareTimer0

LEMMA ReloadOK == \A s : ScuOK(s) => ScuOK(ReloadTimer1(s))
<1> SUFFICES ASSUME NEW s, ScuOK(s) PROVE ScuOK(ReloadTimer1(s))
  OBVIOUS
<1> DEFINE p == s.timer1_preset
           t == [s EXCEPT !.timer1_set = FALSE]
           u == [t EXCEPT !.timer1_counter = p]
<1>1. ScuOK(t)
  BY SetTimers, Zenon
<1>2. p \in Nat
  BY SetTimers
<1> HIDE DEF t, p
<1>3. ScuOK(u)
  BY <1>1, <1>2, SetTimers, Zenon
<1>4. ScuOK(ScuRemoveTimer(u, Timer1))
  BY <1>3, OutOK, Zenon
<1>5. ReloadTimer1(s) = IF s.T1on /\ s.timer1_set THEN ScuRemoveTimer(u, Timer1) ELSE s
  BY Zenon DEF ReloadTimer1, t, p
<1> HIDE DEF u
<1> QED BY <1>4, <1>5, Zenon

LEMMA Timer1ExecOK == \A s : ScuOK(s) => ScuOK(ScuTimer1Exec(s))
<1> SUFFICES ASSUME NEW s, ScuOK(s) PROVE ScuOK(ScuTimer1Exec(s))
  OBVIOUS
<1>1. CASE s.timer1_counter <= 0
  BY <1>1 DEF ScuTimer1Exec
<1>2. CASE ~(s.timer1_counter <= 0)
  <2> DEFINE n == s.timer1_counter - 1
             c == [s EXCEPT !.timer1_counter = n]
             u == [c EXCEPT !.timer1_set = TRUE]
  <2>1. n \in Nat
    <3>1. s.timer1_counter \in Nat
      BY SetTimers
    <3> QED BY <1>2, <3>1
  <2>2. ScuTimer1Exec(s) = IF c.timer1_counter > 0 THEN c
                           ELSE IF c.T1line /\ ~c.timer0_set THEN u ELSE ScuSendTimer1(u)
    BY <1>2, Zenon DEF ScuTimer1Exec
  <2> HIDE DEF n
  <2>3. ScuOK(c)
    BY <2>1, SetTimers, Zenon
  <2> HIDE DEF c
  <2>4. ScuOK(u)
    BY <2>3, SetTimers, Zenon
  <2> HIDE DEF u
  <2>5. ScuOK(ScuSendTimer1(u))
    BY <2>4, SendTimersOK, Zenon
  <2> QED BY <2>2, <2>3, <2>4, <2>5, Zenon
<1> QED BY <1>1, <1>2

LEMMA ExecOK == \A s, l : ScuOK(s) => ScuOK(ScuExec(s, l))
<1> SUFFICES ASSUME NEW s, NEW l, ScuOK(s) PROVE ScuOK(ScuExec(s, l))
  OBVIOUS
<1> DEFINE t == IF s.T1on /\ (s.T1line => l = s.T0C \/ s.T0C > NoLine)
                  THEN ScuTimer1Exec(s) ELSE s
<1>1. ScuOK(t)
  BY Timer1ExecOK, Zenon
<1>2. ScuExec(s, l) = ScuDmaProc(t, SliceTime)
  BY Zenon DEF ScuExec
<1>3. SliceTime \in Nat
  BY TimeAssumption
<1> HIDE DEF t
<1> QED BY <1>1, <1>2, <1>3, ProcOK, Zenon

LEMMA VBlankINOK == \A s : ScuOK(s) => ScuOK(ScuSendVBlankIN(s))
BY OutOK, ChekOK, Zenon DEF ScuSendVBlankIN

LEMMA VBlankOUTOK == \A s : ScuOK(s) => ScuOK(ScuSendVBlankOUT(s))
<1> SUFFICES ASSUME NEW s, ScuOK(s) PROVE ScuOK(ScuSendVBlankOUT(s))
  OBVIOUS
<1> DEFINE sent == TakeBack(SendInterrupt(s, VBlankOUT), VBlankIN)
           off == ScuRemoveTimer(ScuRemoveTimer(sent, Timer0), Timer1)
           n == 0
           t == [off EXCEPT !.timer0 = n]
<1>1. ScuOK(off)
  BY OutOK, Zenon
<1>2. n \in Nat
  OBVIOUS
<1>3. ScuSendVBlankOUT(s) = ScuChekIntrruptDMA(CompareTimer0(t), ByVBlankOUT)
  BY Zenon DEF ScuSendVBlankOUT
<1> HIDE DEF off, n
<1>4. ScuOK(t)
  BY <1>1, <1>2, SetTimers, Zenon
<1> HIDE DEF t
<1> QED BY <1>3, <1>4, CompareOK, ChekOK, Zenon

LEMMA HBlankINOK == \A s : ScuOK(s) => ScuOK(ScuSendHBlankIN(s))
<1> SUFFICES ASSUME NEW s, ScuOK(s) PROVE ScuOK(ScuSendHBlankIN(s))
  OBVIOUS
<1> DEFINE r == SendInterrupt(s, HBlankIN)
           n == r.timer0 + 1
           t == [r EXCEPT !.timer0 = n]
<1>1. ScuOK(r)
  BY OutOK, Zenon
<1>2. ScuSendHBlankIN(s) = ScuChekIntrruptDMA(ReloadTimer1(CompareTimer0(t)), ByHBlankIN)
  BY Zenon DEF ScuSendHBlankIN
<1> HIDE DEF r
<1>3. n \in Nat
  <2>1. r.timer0 \in Nat
    BY <1>1, SetTimers
  <2> QED BY <2>1
<1> HIDE DEF n
<1>4. ScuOK(t)
  BY <1>1, <1>3, SetTimers, Zenon
<1> HIDE DEF t
<1> QED BY <1>2, <1>4, CompareOK, ReloadOK, ChekOK, Zenon

\* A level without anything to do is owed nothing.
LEMMA IdleOwing == Owing([l \in Levels |-> Idle], [l \in Levels |-> 0])
<1> DEFINE a == [l \in Levels |-> Idle]
           b == [l \in Levels |-> 0]
<1>1. Idle \in LevelStates /\ ~Busy(Idle) /\ ~Hung(Idle) /\ Idle.rest = <<>>
  <2>1. <<>> \in Seq(Nat)
    OBVIOUS
  <2> QED BY <2>1 DEF Idle, LevelStates, Busy, Hung
<1>2. LevelOK(Idle)
  BY <1>1 DEF LevelOK
<1>3. \A l \in Levels : a[l] = Idle /\ b[l] = 0
  OBVIOUS
<1>4. a \in [Levels -> LevelStates] /\ b \in [Levels -> Nat]
  <2>1. Idle \in LevelStates /\ 0 \in Nat
    BY <1>1
  <2> QED BY <2>1
<1> HIDE DEF a, b
<1>5. Owing(a, b)
  BY <1>1, <1>2, <1>3, <1>4 DEF Owing
<1> QED BY <1>5 DEF a, b

LEMMA ResetOK == \A s : ScuOK(s) => ScuOK(ScuReset(s))
<1> SUFFICES ASSUME NEW s, ScuOK(s) PROVE ScuOK(ScuReset(s))
  OBVIOUS
<1> DEFINE n == 0
           f == FALSE
           en == [l \in Levels |-> f]
           md == [l \in Levels |-> ByRegister]
           a == PutLevels(s, [l \in Levels |-> Idle], [l \in Levels |-> 0])
           b == [a EXCEPT !.en = en]
           c == [b EXCEPT !.md = md]
           d == [c EXCEPT !.T1on = f]
           e == [d EXCEPT !.T1line = f]
           g == [e EXCEPT !.timer0 = n]
<1>1. ScuReset(s) = [g EXCEPT !.out = <<>>]
  BY Zenon DEF ScuReset, PutLevels
<1>2. "en" \in Fields \ {"dma", "owed"} /\ "md" \in Fields \ {"dma", "owed"}
  BY DEF Fields
<1>3. FieldOK("en", en) /\ FieldOK("md", md)
  <2>1. en \in [Levels -> BOOLEAN] /\ md \in [Levels -> 0..7]
    BY DEF ByRegister
  <2> HIDE DEF en, md
  <2> QED BY <2>1 DEF FieldOK
<1>4. n \in Nat /\ f \in BOOLEAN
  OBVIOUS
<1> HIDE DEF n, f, en, md
<1>5. ScuOK(a)
  BY IdleOwing, SetLevels
<1> HIDE DEF a
<1>6. ScuOK(b)
  BY <1>2, <1>3, <1>5, SetOK, Zenon
<1> HIDE DEF b
<1>7. ScuOK(c)
  BY <1>2, <1>3, <1>6, SetOK, Zenon
<1> HIDE DEF c
<1>8. ScuOK(d)
  BY <1>4, <1>7, SetTimers, Zenon
<1> HIDE DEF d
<1>9. ScuOK(e)
  BY <1>4, <1>8, SetTimers, Zenon
<1> HIDE DEF e
<1>10. ScuOK(g)
  BY <1>4, <1>9, SetTimers, Zenon
<1> HIDE DEF g
<1>11. ScuOK([g EXCEPT !.out = <<>>])
  BY <1>10, OutOK, Zenon
<1> QED BY <1>1, <1>11, Zenon

\* Every step leaves the SCU as it should be.
LEMMA ScuStep == ScuOK(scu) /\ [Next]_vars => ScuOK(scu')
<1> SUFFICES ASSUME ScuOK(scu), [Next]_vars PROVE ScuOK(scu')
  OBVIOUS
<1> DEFINE s == [scu EXCEPT !.out = <<>>]
<1>0. ScuOK(s)
  BY OutOK, Zenon
<1>1. ASSUME InLine PROVE ScuOK(scu')
  <2>1. scu' = ScuExec(ScuSendHBlankIN(s), line) \/ scu' = ScuExec(s, line)
    BY <1>1, Zenon DEF InLine
  <2> HIDE DEF s
  <2> QED BY <1>0, <2>1, HBlankINOK, ExecOK, Zenon
<1>2. ASSUME EndLine PROVE ScuOK(scu')
  <2> DEFINE out == IF Visible THEN ScuRemoveHBlankIN(s) ELSE s
  <2>1. \/ scu' = ScuExec(ScuSendVBlankIN(out), line + 1)
        \/ scu' = ScuExec(ScuSendVBlankOUT(out), 0)
        \/ scu' = ScuExec(out, line + 1)
    <3>1. CASE line + 1 = vbl
      BY <1>2, <3>1 DEF EndLine
    <3>2. CASE line + 1 # vbl /\ line + 1 = MaxLineCount
      BY <1>2, <3>2 DEF EndLine
    <3>3. CASE line + 1 # vbl /\ line + 1 # MaxLineCount
      BY <1>2, <3>3 DEF EndLine
    <3> QED BY <3>1, <3>2, <3>3
  <2> HIDE DEF s
  <2>2. ScuOK(out)
    BY <1>0, OutOK, Zenon DEF ScuRemoveHBlankIN
  <2> HIDE DEF out
  <2> QED BY <2>1, <2>2, VBlankINOK, VBlankOUTOK, ExecOK, Zenon
<1>3. ASSUME YabauseReset \/ ChangeClock PROVE ScuOK(scu')
  <2>1. scu' = ScuReset(scu)
    BY <1>3 DEF YabauseReset, ChangeClock
  <2> QED BY <2>1, ResetOK, Zenon
<1>4. ASSUME NEW l \in Levels, WriteWork(l) PROVE ScuOK(scu')
  <2>1. PICK w \in Works[l], f \in Factors :
          scu' = [scu EXCEPT !.work[l] = w, !.md[l] = f, !.out = <<>>]
    BY <1>4, Zenon DEF WriteWork
  <2> DEFINE a == [scu.work EXCEPT ![l] = w]
             b == [scu.md EXCEPT ![l] = f]
             t == [scu EXCEPT !["work"] = a]
             u == [t EXCEPT !["md"] = b]
  <2>2. "work" \in Fields \ {"dma", "owed"} /\ "md" \in Fields \ {"dma", "owed"}
    BY DEF Fields
  <2>3. FieldOK("work", scu.work) /\ FieldOK("md", scu.md)
    BY <2>2, Zenon DEF ScuOK
  <2>4. FieldOK("work", a)
    <3>1. scu.work = [m \in Levels |-> scu.work[m]]
          /\ \A m \in Levels : scu.work[m] \in Works[m]
      BY <2>3 DEF FieldOK
    <3>2. a = [m \in Levels |-> a[m]]
      <4>1. DOMAIN scu.work = Levels
        BY <3>1, Zenon
      <4> QED BY <4>1, Zenon
    <3>3. \A m \in Levels : a[m] = IF m = l THEN w ELSE scu.work[m]
      <4>1. DOMAIN scu.work = Levels
        BY <3>1, Zenon
      <4> QED BY <4>1
    <3> HIDE DEF a
    <3>4. \A m \in Levels : a[m] \in Works[m]
      BY <3>1, <3>3
    <3> QED BY <3>2, <3>4 DEF FieldOK
  <2>5. FieldOK("md", b)
    <3>1. scu.md \in [Levels -> 0..7] /\ f \in 0..7
      BY <2>3, WritesAssumption DEF FieldOK
    <3>2. b \in [Levels -> 0..7]
      BY <3>1
    <3> HIDE DEF b
    <3> QED BY <3>2 DEF FieldOK
  <2>6. scu' = [u EXCEPT !.out = <<>>]
    BY <2>1, Zenon
  <2> HIDE DEF a, b
  <2>7. ScuOK(t)
    BY <2>2, <2>4, SetOK, Zenon
  <2> HIDE DEF t
  <2>8. ScuOK(u)
    BY <2>2, <2>5, <2>7, SetOK, Zenon
  <2> HIDE DEF u
  <2> QED BY <2>6, <2>8, OutOK, Zenon
<1>5. ASSUME NEW l \in Levels, WriteEN(l) PROVE ScuOK(scu')
  <2>1. PICK go \in BOOLEAN, enable \in BOOLEAN :
          LET started == IF go /\ s.md[l] = ByRegister
                           THEN StartDma(s, l, s.dma[l].left # 0) ELSE s
          IN scu' = [started EXCEPT !.en[l] = enable]
    BY <1>5, Zenon DEF WriteEN
  <2> HIDE DEF s
  <2> DEFINE t == IF go /\ s.md[l] = ByRegister
                    THEN StartDma(s, l, s.dma[l].left # 0) ELSE s
             e == [t.en EXCEPT ![l] = enable]
  <2>2. ScuOK(t)
    <3>1. ~(s.dma[l].left # 0) => ~Busy(s.dma[l])
      <4> DEFINE n == s.dma[l].left
      <4>1. n = 0 => ~(n > 0)
        OBVIOUS
      <4> QED BY <4>1, Zenon DEF Busy
    <3> QED BY <1>0, <3>1, StartOK, Zenon
  <2>3. scu' = [t EXCEPT !["en"] = e]
    BY <2>1, Zenon
  <2> HIDE DEF t
  <2>4. "en" \in Fields \ {"dma", "owed"}
    BY DEF Fields
  <2>5. FieldOK("en", e)
    <3>1. t.en \in [Levels -> BOOLEAN]
      BY <2>2, <2>4 DEF ScuOK, FieldOK
    <3>2. e \in [Levels -> BOOLEAN]
      BY <3>1
    <3> HIDE DEF e
    <3> QED BY <3>2 DEF FieldOK
  <2> HIDE DEF e
  <2> QED BY <2>2, <2>3, <2>4, <2>5, SetOK, Zenon
<1>6. ASSUME WriteT0C PROVE ScuOK(scu')
  <2>1. PICK n \in T0Cs : scu' = [scu EXCEPT !.T0C = n, !.out = <<>>]
    BY <1>6, Zenon DEF WriteT0C
  <2> DEFINE t == [scu EXCEPT !.T0C = n]
  <2>2. n \in Nat
    BY WritesAssumption
  <2>3. ScuOK(t) /\ scu' = [t EXCEPT !.out = <<>>]
    BY <2>1, <2>2, SetTimers, Zenon
  <2> HIDE DEF t
  <2> QED BY <2>3, OutOK, Zenon
<1>7. ASSUME WriteT1S PROVE ScuOK(scu')
  <2>1. PICK n \in T1Ss :
          scu' = [scu EXCEPT !.timer1_set = TRUE, !.timer1_preset = n, !.out = <<>>]
    BY <1>7, Zenon DEF WriteT1S
  <2> DEFINE t == [scu EXCEPT !.timer1_set = TRUE]
             u == [t EXCEPT !.timer1_preset = n]
  <2>2. n \in Nat
    BY WritesAssumption
  <2>3. ScuOK(t) /\ scu' = [u EXCEPT !.out = <<>>]
    BY <2>1, SetTimers, Zenon
  <2> HIDE DEF t
  <2>4. ScuOK(u)
    BY <2>2, <2>3, SetTimers, Zenon
  <2> HIDE DEF u
  <2> QED BY <2>3, <2>4, OutOK, Zenon
<1>8. ASSUME WriteT1MD PROVE ScuOK(scu')
  <2>1. PICK on \in BOOLEAN, inLine \in BOOLEAN :
          scu' = [scu EXCEPT !.T1on = on, !.T1line = inLine, !.out = <<>>]
    BY <1>8, Zenon DEF WriteT1MD
  <2> DEFINE t == [scu EXCEPT !.T1on = on]
             u == [t EXCEPT !.T1line = inLine]
  <2>2. ScuOK(t) /\ scu' = [u EXCEPT !.out = <<>>]
    BY <2>1, SetTimers, Zenon
  <2> HIDE DEF t
  <2>3. ScuOK(u)
    BY <2>2, SetTimers, Zenon
  <2> HIDE DEF u
  <2> QED BY <2>2, <2>3, OutOK, Zenon
<1>9. ASSUME WriteTVMD PROVE ScuOK(scu')
  <2>1. scu' = s
    BY <1>9, Zenon DEF WriteTVMD
  <2> HIDE DEF s
  <2> QED BY <1>0, <2>1, Zenon
<1>10. ASSUME OtherRequest PROVE ScuOK(scu')
  <2>1. PICK v, id : scu' = ScuChekIntrruptDMA(SendInterrupt(s, v), id)
    BY <1>10, Zenon DEF OtherRequest
  <2> HIDE DEF s
  <2> QED BY <1>0, <2>1, OutOK, ChekOK, Zenon
<1>11. ASSUME UNCHANGED vars PROVE ScuOK(scu')
  <2>1. scu' = scu
    BY <1>11 DEF vars
  <2> QED BY <2>1, Zenon
<1> QED BY <1>1, <1>2, <1>3, <1>4, <1>5, <1>6, <1>7, <1>8, <1>9, <1>10, <1>11
        DEF Next, Slice

\* At first no level has anything to do.
LEMMA ScuInit == Init => ScuOK(scu)
<1> SUFFICES ASSUME Init PROVE ScuOK(scu)
  OBVIOUS
<1>1. IsScu(scu)
  BY Zenon DEF Init, IsScu, Fields
<1>2. Owing(scu.dma, scu.owed)
  <2>1. scu.dma = [l \in Levels |-> Idle] /\ scu.owed = [l \in Levels |-> 0]
    BY Zenon DEF Init
  <2> QED BY <2>1, IdleOwing, Zenon
<1>3. \A f \in Fields : FieldOK(f, scu[f])
  <2>1. scu.work = [l \in Levels |-> CHOOSE w \in Works[l] : TRUE]
    BY Zenon DEF Init
  <2>2. scu.work = [l \in Levels |-> scu.work[l]]
    BY <2>1, Zenon
  <2>3. \A l \in Levels : scu.work[l] \in Works[l]
    <3>1. \A l \in Levels : Works[l] # {}
      BY WritesAssumption
    <3>2. \A l \in Levels : scu.work[l] = CHOOSE w \in Works[l] : TRUE
      BY <2>1, Zenon
    <3> QED BY <3>1, <3>2
  <2>4. scu.en = [l \in Levels |-> FALSE] /\ scu.md = [l \in Levels |-> ByRegister]
    BY Zenon DEF Init
  <2>5. scu.en \in [Levels -> BOOLEAN] /\ scu.md \in [Levels -> 0..7]
    BY <2>4 DEF ByRegister
  <2>6. /\ scu.T0C = 0 /\ scu.timer0 = 0 /\ scu.timer1_counter = 0
        /\ scu.timer1_preset = 0
        /\ scu.T1on = FALSE /\ scu.T1line = FALSE /\ scu.timer0_set = FALSE
        /\ scu.timer1_set = FALSE
    BY Zenon DEF Init
  <2>7. \A f \in {"T0C", "timer0", "timer1_counter", "timer1_preset"} : scu[f] \in Nat
    BY <2>6
  <2>8. \A f \in {"T1on", "T1line", "timer0_set", "timer1_set"} : scu[f] \in BOOLEAN
    BY <2>6
  <2> QED BY <2>2, <2>3, <2>5, <2>7, <2>8 DEF FieldOK
<1> QED BY <1>1, <1>2, <1>3, Zenon DEF ScuOK

ScuInv == ScuOK(scu)

\* Each transfer that is started ends once, so far as a step can tell: a level is
\* owed one end while it is at work or hangs and none otherwise, whatever else is
\* started and however the time is shared, for all transfers that the time of a
\* flush is enough for.
THEOREM EndsAreOwed == Spec => [](\A l \in Levels : OwesItsEnd(l))
<1>1. ScuInv => \A l \in Levels : OwesItsEnd(l)
  BY Zenon DEF ScuInv, ScuOK, Owing, OwesItsEnd
<1>2. Init => ScuInv
  BY ScuInit DEF ScuInv
<1>3. ScuInv /\ [Next]_vars => ScuInv'
  BY ScuStep DEF ScuInv
<1> QED BY <1>1, <1>2, <1>3, PTL DEF Spec

-----------------------------------------------------------------------------
(* The type of the state. *)

\* The walk, the bounds of the program and of the resets, and timer 0: it has not
\* been counted more often than there were lines since VBlank-OUT, wherever the
\* blank was moved to.
WalkType ==
  /\ line \in 0..(MaxLineCount - 1) /\ slice \in 0..(Slices - 1)
  /\ vbl \in BlankLines
  /\ blanks \in Nat /\ extra \in Int /\ moved \in BOOLEAN
  /\ writes \in 0..MaxWrites /\ resets \in 0..MaxResets
  /\ scu.timer0 <= IF slice >= Slices - 1 THEN line + 1 ELSE line

TypeInv == ScuInv /\ WalkType

LEMMA InitType == Init => TypeInv
<1> SUFFICES ASSUME Init PROVE TypeInv
  OBVIOUS
<1>1. scu.timer0 = 0
  BY Zenon DEF Init
<1>2. /\ line = 0 /\ slice = 0 /\ vbl = FirstBlankLine
      /\ blanks = 0 /\ extra = 0 /\ moved = FALSE /\ writes = 0 /\ resets = 0
  BY DEF Init
<1>3. MaxWrites \in Nat /\ MaxResets \in Nat
  BY WritesAssumption
<1>4. WalkType
  <2>1. 0 \in 0..(MaxLineCount - 1) /\ 0 \in 0..(Slices - 1) /\ FirstBlankLine \in BlankLines
    OBVIOUS
  <2>2. 0 \in 0..MaxWrites /\ 0 \in 0..MaxResets /\ 0 \in Nat /\ 0 \in Int
    BY <1>3
  <2>3. 0 <= IF 0 >= Slices - 1 THEN 0 + 1 ELSE 0
    OBVIOUS
  <2>4. scu.timer0 <= IF slice >= Slices - 1 THEN line + 1 ELSE line
    BY <1>1, <1>2, <2>3
  <2> QED BY <1>2, <2>1, <2>2, <2>4 DEF WalkType
<1> QED BY <1>4, ScuInit DEF TypeInv, ScuInv

\* what a step makes of timer 0 and of the line
LEMMA TimerMoves ==
  ASSUME IsScu(scu), [Next]_vars
  PROVE  \/ /\ line' = line /\ slice' = slice + 1 /\ slice + 1 < Slices
            /\ \/ scu'.timer0 = scu.timer0
               \/ slice + 1 = Slices - 1 /\ scu'.timer0 = scu.timer0 + 1
         \/ /\ slice + 1 = Slices /\ slice' = 0 /\ line' = line + 1
            /\ line + 1 # MaxLineCount \/ vbl = MaxLineCount
            /\ scu'.timer0 = scu.timer0
         \/ slice' = 0 /\ line' = 0 /\ scu'.timer0 = 0
         \/ line' = line /\ slice' = slice /\ scu'.timer0 = scu.timer0
<1> DEFINE s == [scu EXCEPT !.out = <<>>]
<1>0. IsScu(s) /\ s.timer0 = scu.timer0
  BY SetOut, Zenon DEF Keeps
<1>1. ASSUME InLine
      PROVE  /\ line' = line /\ slice' = slice + 1 /\ slice + 1 < Slices
             /\ \/ scu'.timer0 = scu.timer0
                \/ slice + 1 = Slices - 1 /\ scu'.timer0 = scu.timer0 + 1
  <2>1. line' = line /\ slice' = slice + 1 /\ slice + 1 < Slices
    BY <1>1 DEF InLine
  <2>2. \/ slice + 1 = Slices - 1 /\ scu' = ScuExec(ScuSendHBlankIN(s), line)
        \/ scu' = ScuExec(s, line)
    BY <1>1, Zenon DEF InLine
  <2> HIDE DEF s
  <2>3. scu' = ScuExec(ScuSendHBlankIN(s), line) => scu'.timer0 = scu.timer0 + 1
    BY <1>0, HBlankINCounts, ExecKeeps, Zenon DEF Keeps
  <2>4. scu' = ScuExec(s, line) => scu'.timer0 = scu.timer0
    BY <1>0, ExecKeeps, Zenon DEF Keeps
  <2> QED BY <2>1, <2>2, <2>3, <2>4, Zenon
<1>2. ASSUME EndLine
      PROVE  \/ /\ slice + 1 = Slices /\ slice' = 0 /\ line' = line + 1
                /\ line + 1 # MaxLineCount \/ vbl = MaxLineCount
                /\ scu'.timer0 = scu.timer0
             \/ slice' = 0 /\ line' = 0 /\ scu'.timer0 = 0
  <2> DEFINE out == IF Visible THEN ScuRemoveHBlankIN(s) ELSE s
  <2>1. slice + 1 = Slices /\ slice' = 0
    BY <1>2 DEF EndLine
  <2>2. \/ /\ line' = line + 1 /\ (line + 1 # MaxLineCount \/ vbl = MaxLineCount)
           /\ scu' = ScuExec(ScuSendVBlankIN(out), line + 1) \/ scu' = ScuExec(out, line + 1)
        \/ line' = 0 /\ scu' = ScuExec(ScuSendVBlankOUT(out), 0)
    <3>1. CASE line + 1 = vbl
      BY <1>2, <3>1 DEF EndLine
    <3>2. CASE line + 1 # vbl /\ line + 1 = MaxLineCount
      BY <1>2, <3>2 DEF EndLine
    <3>3. CASE line + 1 # vbl /\ line + 1 # MaxLineCount
      BY <1>2, <3>3 DEF EndLine
    <3> QED BY <3>1, <3>2, <3>3
  <2> HIDE DEF s
  <2>3. IsScu(out) /\ out.timer0 = scu.timer0
    BY <1>0, OutKeeps, Zenon DEF Keeps, ScuRemoveHBlankIN
  <2> HIDE DEF out
  <2>4. scu' = ScuExec(ScuSendVBlankIN(out), line + 1) => scu'.timer0 = scu.timer0
    BY <2>3, VBlankINKeeps, ExecKeeps, Zenon DEF Keeps
  <2>5. scu' = ScuExec(out, line + 1) => scu'.timer0 = scu.timer0
    BY <2>3, ExecKeeps, Zenon DEF Keeps
  <2>6. ASSUME scu' = ScuExec(ScuSendVBlankOUT(out), 0) PROVE scu'.timer0 = 0
    <3>1. IsScu(ScuSendVBlankOUT(out)) /\ ScuSendVBlankOUT(out).timer0 = 0
      BY <2>3, VBlankOUTClears, Zenon
    <3>2. ScuExec(ScuSendVBlankOUT(out), 0).timer0 = ScuSendVBlankOUT(out).timer0
      BY <3>1, ExecKeeps, Zenon DEF Keeps
    <3> QED BY <2>6, <3>1, <3>2, Zenon
  <2> QED BY <2>1, <2>2, <2>4, <2>5, <2>6, Zenon
<1>3. ASSUME YabauseReset \/ ChangeClock
      PROVE  slice' = 0 /\ line' = 0 /\ scu'.timer0 = 0
  <2>1. scu' = ScuReset(scu) /\ line' = 0 /\ slice' = 0
    BY <1>3 DEF YabauseReset, ChangeClock
  <2> QED BY <2>1, ResetClears, Zenon
<1>4. ASSUME \/ \E l \in Levels : WriteWork(l) \/ WriteEN(l)
             \/ WriteT0C \/ WriteT1S \/ WriteT1MD \/ OtherRequest
      PROVE  line' = line /\ slice' = slice /\ scu'.timer0 = scu.timer0
  <2>1. Keeps(scu, scu') /\ UNCHANGED <<frame, ghosts>>
    BY <1>4, WritesKeep
  <2> QED BY <2>1 DEF Keeps, frame
<1>5. ASSUME WriteTVMD
      PROVE  line' = line /\ slice' = slice /\ scu'.timer0 = scu.timer0
  <2>1. line' = line /\ slice' = slice /\ scu' = s
    BY <1>5, Zenon DEF WriteTVMD
  <2> QED BY <1>0, <2>1, Zenon
<1>6. ASSUME UNCHANGED vars
      PROVE  line' = line /\ slice' = slice /\ scu'.timer0 = scu.timer0
  BY <1>6 DEF vars, frame
<1> HIDE DEF s
<1> QED BY <1>1, <1>2, <1>3, <1>4, <1>5, <1>6 DEF Next, Slice

\* what a step makes of the rest of the walk
LEMMA WalkMoves ==
  ASSUME WalkType, [Next]_vars
  PROVE  /\ vbl' \in BlankLines
         /\ blanks' \in Nat /\ extra' \in Int /\ moved' \in BOOLEAN
         /\ writes' \in 0..MaxWrites /\ resets' \in 0..MaxResets
<1>0. /\ vbl \in BlankLines /\ vbl \in Int
      /\ blanks \in Nat /\ extra \in Int /\ moved \in BOOLEAN
      /\ writes \in 0..MaxWrites /\ resets \in 0..MaxResets
      /\ line \in Int
      /\ MaxWrites \in Nat /\ MaxResets \in Nat
  BY BlankLater, WritesAssumption DEF WalkType
<1>1. ASSUME NEW l, NEW v, Move(l, v) PROVE extra' \in Int
  <2>1. \E n, m \in {0, 1} : extra' = extra + n - m
    BY <1>1 DEF Move
  <2> QED BY <1>0, <2>1
<1>2. ASSUME Write PROVE writes' \in 0..MaxWrites /\ resets' = resets
  BY <1>0, <1>2 DEF Write
<1>3. ASSUME Slice
      PROVE  /\ vbl' = vbl /\ writes' = writes /\ resets' = resets
             /\ blanks' \in Nat /\ extra' \in Int /\ moved' \in BOOLEAN
  <2>1. CASE InLine
    BY <1>0, <2>1 DEF InLine, ghosts
  <2>2. CASE EndLine
    <3>1. vbl' = vbl /\ writes' = writes /\ resets' = resets
      BY <2>2 DEF EndLine
    <3>2. CASE line + 1 = vbl
      <4>1. blanks' = blanks + 1 /\ UNCHANGED <<extra, moved>>
        BY <2>2, <3>2 DEF EndLine
      <4> QED BY <1>0, <3>1, <4>1
    <3>3. CASE line + 1 # vbl /\ line + 1 = MaxLineCount
      <4>1. blanks' = 0 /\ extra' = 0 /\ moved' = FALSE
        BY <2>2, <3>3 DEF EndLine
      <4>2. 0 \in Nat /\ 0 \in Int /\ FALSE \in BOOLEAN
        OBVIOUS
      <4> QED BY <3>1, <4>1, <4>2, Zenon
    <3>4. CASE line + 1 # vbl /\ line + 1 # MaxLineCount
      <4>1. UNCHANGED ghosts
        BY <2>2, <3>4 DEF EndLine
      <4> QED BY <1>0, <3>1, <4>1 DEF ghosts
    <3> QED BY <3>1, <3>2, <3>3, <3>4
  <2> QED BY <1>3, <2>1, <2>2 DEF Slice
<1>4. ASSUME YabauseReset \/ ChangeClock
      PROVE  /\ vbl' = FirstBlankLine /\ writes' = writes /\ resets' \in 0..MaxResets
             /\ blanks' = blanks /\ extra' \in Int /\ moved' \in BOOLEAN
  <2>1. /\ vbl' = FirstBlankLine /\ writes' = writes /\ resets' = resets + 1
        /\ resets < MaxResets /\ blanks' = blanks
        /\ Move(line, FirstBlankLine) \/ Move(0, FirstBlankLine)
        /\ moved' = moved \/ moved' = FALSE
    BY <1>4 DEF YabauseReset, ChangeClock
  <2>2. extra' \in Int
    BY <1>1, <2>1
  <2>3. resets' \in 0..MaxResets
    BY <1>0, <2>1
  <2> QED BY <1>0, <2>1, <2>2, <2>3
<1>5. ASSUME \/ \E l \in Levels : WriteWork(l) \/ WriteEN(l)
             \/ WriteT0C \/ WriteT1S \/ WriteT1MD
      PROVE  Write /\ UNCHANGED <<frame, ghosts>>
  BY <1>5, Zenon DEF WriteWork, WriteEN, WriteT0C, WriteT1S, WriteT1MD
<1>6. ASSUME WriteTVMD
      PROVE  Write /\ vbl' \in BlankLines /\ blanks' = blanks /\ extra' \in Int
             /\ moved' \in BOOLEAN
  <2>1. PICK v \in BlankLines : vbl' = v /\ Move(line, v)
                                /\ moved' = (moved \/ line >= vbl \/ line >= v)
    BY <1>6, Zenon DEF WriteTVMD
  <2>2. Write /\ blanks' = blanks
    BY <1>6, Zenon DEF WriteTVMD
  <2>3. moved' \in BOOLEAN
    BY <2>1, Zenon
  <2> QED BY <1>1, <2>1, <2>2, <2>3
<1>7. ASSUME OtherRequest PROVE UNCHANGED <<frame, ghosts, writes, resets>>
  BY <1>7, Zenon DEF OtherRequest
<1>8. CASE Slice
  BY <1>0, <1>3, <1>8
<1>9. CASE YabauseReset \/ ChangeClock
  BY <1>0, <1>4, <1>9, LinesAssumption
<1>10. CASE \/ \E l \in Levels : WriteWork(l) \/ WriteEN(l)
            \/ WriteT0C \/ WriteT1S \/ WriteT1MD
  <2>1. Write /\ UNCHANGED <<frame, ghosts>>
    BY <1>5, <1>10
  <2> QED BY <1>0, <1>2, <2>1 DEF frame, ghosts
<1>11. CASE WriteTVMD
  BY <1>0, <1>2, <1>6, <1>11
<1>12. CASE OtherRequest
  BY <1>0, <1>7, <1>12 DEF frame, ghosts
<1>13. CASE UNCHANGED vars
  BY <1>0, <1>13 DEF vars, frame, ghosts
<1> QED BY <1>8, <1>9, <1>10, <1>11, <1>12, <1>13 DEF Next

LEMMA NextType == TypeInv /\ [Next]_vars => TypeInv'
<1> SUFFICES ASSUME TypeInv, [Next]_vars PROVE TypeInv'
  OBVIOUS
<1>1. ScuOK(scu) /\ WalkType
  BY DEF TypeInv, ScuInv
<1>2. ScuOK(scu')
  BY <1>1, ScuStep
<1> DEFINE t == scu.timer0
           u == scu'.timer0
<1>3. IsScu(scu) /\ t \in Nat /\ u \in Nat
  <2>1. \A s : ScuOK(s) => IsScu(s) /\ s.timer0 \in Nat
    BY SetTimers DEF ScuOK
  <2> QED BY <1>1, <1>2, <2>1, Zenon
<1>4. /\ line \in 0..(MaxLineCount - 1) /\ slice \in 0..(Slices - 1)
      /\ vbl \in BlankLines /\ vbl # MaxLineCount
      /\ t <= IF slice >= Slices - 1 THEN line + 1 ELSE line
  BY <1>1, BlankLater DEF WalkType
<1>5. \/ /\ line' = line /\ slice' = slice + 1 /\ slice + 1 < Slices
         /\ \/ u = t
            \/ slice + 1 = Slices - 1 /\ u = t + 1
      \/ /\ slice + 1 = Slices /\ slice' = 0 /\ line' = line + 1
         /\ line + 1 # MaxLineCount \/ vbl = MaxLineCount
         /\ u = t
      \/ slice' = 0 /\ line' = 0 /\ u = 0
      \/ line' = line /\ slice' = slice /\ u = t
  BY <1>3, TimerMoves, Zenon
<1> HIDE DEF t, u
<1>6. /\ line' \in 0..(MaxLineCount - 1) /\ slice' \in 0..(Slices - 1)
      /\ u <= IF slice' >= Slices - 1 THEN line' + 1 ELSE line'
  BY <1>3, <1>4, <1>5, TimeAssumption
<1>7. WalkType'
  BY <1>1, <1>6, WalkMoves DEF WalkType, u
<1> QED BY <1>2, <1>7 DEF TypeInv, ScuInv

\* The state keeps its type, wherever the blank and the line are moved to: the
\* timers and the lines stay in their ranges, and a level holds what it can hold.
THEOREM TypeCorrect == Spec => []TypeOK
<1>1. TypeInv => TypeOK
  <2> SUFFICES ASSUME TypeInv PROVE TypeOK
    OBVIOUS
  <2>1. ScuOK(scu) /\ WalkType
    BY DEF TypeInv, ScuInv
  <2>2. scu.dma \in [Levels -> LevelStates] /\ scu.owed \in [Levels -> Nat]
    BY <2>1 DEF ScuOK, Owing
  <2>3. /\ scu.en \in [Levels -> BOOLEAN] /\ scu.md \in [Levels -> 0..7]
        /\ \A l \in Levels : scu.work[l] \in Works[l]
    <3>1. "en" \in Fields /\ "md" \in Fields /\ "work" \in Fields
      BY DEF Fields
    <3> QED BY <2>1, <3>1 DEF ScuOK, FieldOK
  <2>4. /\ {scu.timer0, scu.timer1_counter, scu.timer1_preset, scu.T0C} \subseteq Nat
        /\ {scu.timer0_set, scu.timer1_set, scu.T1on, scu.T1line} \subseteq BOOLEAN
    BY <2>1, SetTimers, Zenon
  <2>5. scu.timer0 \in 0..MaxLineCount
    <3> DEFINE t == scu.timer0
    <3>1. t \in Nat /\ line \in 0..(MaxLineCount - 1)
          /\ t <= IF slice >= Slices - 1 THEN line + 1 ELSE line
      BY <2>1, <2>4 DEF WalkType
    <3> HIDE DEF t
    <3>2. t \in 0..MaxLineCount
      BY <3>1, TimeAssumption
    <3> QED BY <3>2 DEF t
  <2> QED BY <2>1, <2>2, <2>3, <2>4, <2>5 DEF TypeOK, WalkType
<1> QED BY <1>1, InitType, NextType, PTL DEF Spec
=============================================================================
