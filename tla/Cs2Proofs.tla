------------------------------ MODULE Cs2Proofs -------------------------------
(***************************************************************************)
(* Theorems about Cs2: no block of the pool is lost or held twice, a       *)
(* transfer reads the sectors it asked for, partitions keep their order    *)
(* and no sector that is played is lost, for every size of the buffer and  *)
(* every filter.                                                           *)
(***************************************************************************)
EXTENDS Cs2, FiniteSetTheorems, TLAPS

-----------------------------------------------------------------------------
(* The n-th member of a set of numbers. *)

Below(S, b) == {c \in S : c < b}

\* More members are below a greater one.
LEMMA MoreBelow ==
  ASSUME NEW S, IsFiniteSet(S), S \subseteq Int, NEW a \in S, NEW b \in S, a < b
  PROVE  /\ Cardinality(Below(S, a)) \in Nat /\ Cardinality(Below(S, b)) \in Nat
         /\ Cardinality(Below(S, a)) < Cardinality(Below(S, b))
         /\ Cardinality(Below(S, a)) # Cardinality(Below(S, b))
<1>1. Below(S, a) \in SUBSET S /\ Below(S, b) \in SUBSET S
  BY DEF Below
<1>2. IsFiniteSet(Below(S, a)) /\ IsFiniteSet(Below(S, b))
  BY <1>1, FS_Subset
<1>3. Below(S, a) \subseteq Below(S, b)
  <2>1. \A c \in S : c < a => c < b
    <3> SUFFICES ASSUME NEW c \in S, c < a PROVE c < b
      OBVIOUS
    <3>1. a \in Int /\ b \in Int /\ c \in Int
      OBVIOUS
    <3> QED BY <3>1
  <2> QED BY <2>1 DEF Below
<1>4. a \in Below(S, b) /\ a \notin Below(S, a)
  <2>1. ~(a < a)
    BY a \in Int
  <2> QED BY <2>1 DEF Below
<1>5. Cardinality(Below(S, a)) \in Nat /\ Cardinality(Below(S, b)) \in Nat
  BY <1>2, FS_CardinalityType
<1>6. Cardinality(Below(S, a)) <= Cardinality(Below(S, b))
  BY <1>2, <1>3, FS_Subset
<1>7. Cardinality(Below(S, a)) # Cardinality(Below(S, b))
  BY <1>2, <1>3, <1>4, FS_Subset
<1> QED BY <1>5, <1>6, <1>7

\* A member with n - 1 others below it is the n-th.
LEMMA NthUnique ==
  ASSUME NEW S, IsFiniteSet(S), S \subseteq Int, NEW n \in Int, NEW k \in S,
         Cardinality(Below(S, k)) = n - 1
  PROVE  Nth(S, n) = k
<1>1. \A b \in S : Cardinality(Below(S, b)) = n - 1 => b = k
  <2> SUFFICES ASSUME NEW b \in S, Cardinality(Below(S, b)) = n - 1, b # k
               PROVE  FALSE
    OBVIOUS
  <2>1. b \in Int /\ k \in Int
    OBVIOUS
  <2>2. b < k \/ k < b
    BY <2>1
  <2>3. CASE b < k
    BY <2>3, MoreBelow, Zenon
  <2>4. CASE k < b
    BY <2>4, MoreBelow, Zenon
  <2> QED BY <2>2, <2>3, <2>4
<1> QED BY <1>1 DEF Nth, Below

\* There is an n-th member for each n up to the size of the set.
LEMMA NthIs ==
  ASSUME NEW S, IsFiniteSet(S), S \subseteq Int, NEW n \in 1..Cardinality(S)
  PROVE  Nth(S, n) \in S /\ Cardinality(Below(S, Nth(S, n))) = n - 1
<1> DEFINE m == Cardinality(S)
           f == [b \in S |-> Cardinality(Below(S, b)) + 1]
<1>1. m \in Nat
  BY FS_CardinalityType
<1>2. \A b \in S : Cardinality(Below(S, b)) \in Nat /\ Cardinality(Below(S, b)) < m
  <2> TAKE b \in S
  <2>1. Below(S, b) \subseteq S /\ b \notin Below(S, b)
    BY DEF Below
  <2>2. IsFiniteSet(Below(S, b)) /\ Cardinality(Below(S, b)) <= m
        /\ Cardinality(Below(S, b)) # m
    BY <2>1, FS_Subset
  <2>3. Cardinality(Below(S, b)) \in Nat
    BY <2>2, FS_CardinalityType
  <2> QED BY <1>1, <2>2, <2>3
<1>3. f \in [S -> 1..m]
  BY <1>1, <1>2
<1>4. \A a, b \in S : f[a] = f[b] => a = b
  <2> SUFFICES ASSUME NEW a \in S, NEW b \in S, f[a] = f[b], a # b
               PROVE  FALSE
    OBVIOUS
  <2>1. Cardinality(Below(S, a)) = Cardinality(Below(S, b))
    BY <1>2
  <2>2. a \in Int /\ b \in Int
    OBVIOUS
  <2>3. a < b \/ b < a
    BY <2>2
  <2> HIDE DEF f
  <2>4. CASE a < b
    BY <2>1, <2>4, MoreBelow, Zenon
  <2>5. CASE b < a
    BY <2>1, <2>5, MoreBelow, Zenon
  <2> QED BY <2>3, <2>4, <2>5
<1>5. f \in Injection(S, 1..m)
  BY <1>3, <1>4 DEF Injection, IsInjective
<1>6. IsFiniteSet(1..m) /\ Cardinality(1..m) = m
  BY <1>1, FS_Interval
<1>7. f \in Surjection(S, 1..m)
  BY <1>5, <1>6, FS_Injection
<1>8. PICK b \in S : f[b] = n
  BY <1>7 DEF Surjection
<1>9. Cardinality(Below(S, b)) = n - 1
  BY <1>1, <1>2, <1>8
<1>10. n \in Int
  BY <1>1
<1>11. Nth(S, n) = b
  BY <1>9, <1>10, NthUnique
<1> QED BY <1>9, <1>11

\* Different numbers name different members.
LEMMA NthDiffer ==
  ASSUME NEW S, IsFiniteSet(S), S \subseteq Int,
         NEW m \in 1..Cardinality(S), NEW n \in 1..Cardinality(S), m # n
  PROVE  Nth(S, m) # Nth(S, n)
<1>1. Cardinality(S) \in Nat
  BY FS_CardinalityType
<1>2. m - 1 # n - 1
  BY <1>1
<1> QED BY <1>2, NthIs

\* The blocks that calls of Cs2AllocateBlock take are free, and differ.
LEMMA FirstFreeIs ==
  ASSUME free \subseteq Blocks, NEW n \in 0..Cardinality(free)
  PROVE  /\ IsFiniteSet(free) /\ Cardinality(free) \in Nat
         /\ FirstFree(n) \in [1..n -> free]
         /\ FirstFree(n) \in Seq(Blocks) /\ Len(FirstFree(n)) = n
         /\ \A i, j \in 1..n : FirstFree(n)[i] = FirstFree(n)[j] => i = j
         /\ Elements(FirstFree(n)) = {FirstFree(n)[i] : i \in 1..n}
         /\ Cardinality(free \ Elements(FirstFree(n))) = Cardinality(free) - n
<1> DEFINE f == FirstFree(n)
<1>1. IsFiniteSet(Blocks)
  BY BlocksAssumption, FS_Interval DEF Blocks
<1>2. IsFiniteSet(free) /\ Cardinality(free) \in Nat
  BY <1>1, FS_Subset, FS_CardinalityType
<1>3. free \subseteq Int
  BY BlocksAssumption DEF Blocks
<1>4. n \in Nat /\ \A i \in 1..n : i \in 1..Cardinality(free)
  BY <1>2
<1>5. \A i \in 1..n : f[i] = Nth(free, i) /\ Nth(free, i) \in free
  BY <1>2, <1>3, <1>4, NthIs DEF FirstFree
<1>6. f \in [1..n -> free]
  BY <1>5 DEF FirstFree
<1>7. f \in Seq(Blocks) /\ Len(f) = n /\ DOMAIN f = 1..n
  BY <1>4, <1>6
<1>8. \A i, j \in 1..n : f[i] = f[j] => i = j
  BY <1>2, <1>3, <1>4, <1>5, NthDiffer
<1>9. Elements(f) = {f[i] : i \in 1..n}
  BY <1>7 DEF Elements
<1> HIDE DEF f
<1>10. Elements(f) \subseteq free
  BY <1>6, <1>9
<1>11. f \in Bijection(1..n, Elements(f))
  BY <1>6, <1>8, <1>9 DEF Bijection, Injection, Surjection, IsInjective
<1>12. IsFiniteSet(1..n) /\ Cardinality(1..n) = n
  BY <1>4, FS_Interval
<1>13. Cardinality(Elements(f)) = n
  BY <1>11, <1>12, FS_Bijection DEF ExistsBijection
<1>14. free \cap Elements(f) = Elements(f)
  BY <1>10
<1>15. Cardinality(free \ Elements(f)) = Cardinality(free) - n
  BY <1>2, <1>13, <1>14, FS_Difference
<1> QED BY <1>2, <1>6, <1>7, <1>8, <1>9, <1>15 DEF f

-----------------------------------------------------------------------------
(* What happens to a partition. *)

Part == [block : [Slots -> Blocks \cup {NoBlock}], numblocks : 0..MaxBlocks,
         size : Int]

\* the blocks are in the first slots
Packed(pt) == \A i \in Slots : pt.block[i] # NoBlock <=> i <= pt.numblocks

\* bs are put behind
Grown(old, new, bs) ==
  /\ new.numblocks = old.numblocks + Len(bs)
  /\ \A i \in Slots :
       new.block[i] = IF i - old.numblocks \in 1..Len(bs)
                        THEN bs[i - old.numblocks] ELSE old.block[i]

\* the blocks of n slots are taken out, and the others close up
Shrunk(old, new, lo, n) ==
  /\ new.numblocks = old.numblocks - n
  /\ \A i \in Slots :
       new.block[i] = IF i <= lo THEN old.block[i]
                      ELSE IF i <= old.numblocks - n THEN old.block[i + n]
                      ELSE NoBlock

LEMMA WithBlocksIs ==
  ASSUME NEW pt \in Part, NEW bs \in Seq(Blocks), NEW x \in Int,
         pt.numblocks + Len(bs) <= MaxBlocks
  PROVE  LET d == [WithBlocks(pt, bs) EXCEPT !.size = x]
         IN  d \in Part /\ Grown(pt, d, bs)
<1> DEFINE d == [WithBlocks(pt, bs) EXCEPT !.size = x]
           blk == [i \in Slots |-> IF i - pt.numblocks \in DOMAIN bs
                                     THEN bs[i - pt.numblocks] ELSE pt.block[i]]
<1>1. DOMAIN bs = 1..Len(bs) /\ Len(bs) \in Nat
      /\ \A i \in 1..Len(bs) : bs[i] \in Blocks
  OBVIOUS
<1>2. blk \in [Slots -> Blocks \cup {NoBlock}]
  BY <1>1 DEF Part
<1>3. pt.numblocks + Len(bs) \in 0..MaxBlocks
  BY <1>1, BlocksAssumption DEF Part
<1>4. d = [block |-> blk, numblocks |-> pt.numblocks + Len(bs), size |-> x]
  <2> HIDE DEF blk
  <2>1. WithBlocks(pt, bs) = [pt EXCEPT !.block = blk, !.numblocks = @ + Len(bs)]
    BY Zenon DEF WithBlocks, blk
  <2> DEFINE w == WithBlocks(pt, bs)
  <2>2. w \in [block : [Slots -> Blocks \cup {NoBlock}], numblocks : 0..MaxBlocks,
               size : Int]
    BY <1>2, <1>3, <2>1 DEF Part
  <2>3. w.block = blk /\ w.numblocks = pt.numblocks + Len(bs)
    BY <2>1 DEF Part
  <2> HIDE DEF w
  <2>4. [w EXCEPT !.size = x]
          = [block |-> w.block, numblocks |-> w.numblocks, size |-> x]
    BY <2>2
  <2> QED BY <2>3, <2>4 DEF w
<1>5. d \in Part
  BY <1>2, <1>3, <1>4 DEF Part
<1>6. Grown(pt, d, bs)
  BY <1>1, <1>4 DEF Grown
<1> QED BY <1>5, <1>6

\* the slots that are kept when n of m are taken out
Left(lo, n, m) == (1..lo) \cup (lo+n+1..m)

\* They come in this order.
LEMMA KeptSlots ==
  ASSUME NEW lo \in Nat, NEW n \in Nat, NEW m \in Nat, lo + n <= m
  PROVE  /\ Cardinality(Left(lo, n, m)) = m - n
         /\ \A i \in 1..m-n : Nth(Left(lo, n, m), i) = IF i <= lo THEN i ELSE i + n
<1> DEFINE K == (1..lo) \cup (lo+n+1..m)
<1>1. \A h \in Int : lo + n <= h =>
        /\ IsFiniteSet((1..lo) \cup (lo+n+1..h))
        /\ Cardinality((1..lo) \cup (lo+n+1..h)) = h - n
  <2> TAKE h \in Int
  <2> HAVE lo + n <= h
  <2>1. IsFiniteSet(1..lo) /\ IsFiniteSet(lo+n+1..h) /\ Cardinality(1..lo) = lo
    BY FS_Interval
  <2>2. Cardinality(lo+n+1..h) = h - (lo + n)
    <3>1. lo + n + 1 \in Int
      OBVIOUS
    <3>2. Cardinality(lo+n+1..h) = IF lo + n + 1 > h THEN 0 ELSE h - (lo + n + 1) + 1
      BY <3>1, FS_Interval
    <3> QED BY <3>2
  <2>3. (1..lo) \cap (lo+n+1..h) = {}
    OBVIOUS
  <2>4. /\ IsFiniteSet((1..lo) \cup (lo+n+1..h))
        /\ Cardinality((1..lo) \cup (lo+n+1..h))
             = Cardinality(1..lo) + Cardinality(lo+n+1..h)
                 - Cardinality((1..lo) \cap (lo+n+1..h))
    BY <2>1, FS_Union
  <2>5. Cardinality((1..lo) \cap (lo+n+1..h)) = 0
    BY <2>3, FS_EmptySet
  <2>6. lo + (h - (lo + n)) - 0 = h - n
    OBVIOUS
  <2> QED BY <2>1, <2>2, <2>4, <2>5, <2>6
<1>2. IsFiniteSet(K) /\ Cardinality(K) = m - n /\ K \subseteq Int
  <2>1. m \in Int /\ K \subseteq Int
    OBVIOUS
  <2> QED BY <1>1, <2>1, Zenon
<1>3. ASSUME NEW i \in 1..m-n, i <= lo PROVE Nth(K, i) = i
  <2>1. Below(K, i) = 1..i-1
    BY <1>3 DEF Below
  <2>2. Cardinality(1..i-1) = i - 1
    <3>1. i - 1 \in Int
      OBVIOUS
    <3>2. Cardinality(1..i-1) = IF 1 > i - 1 THEN 0 ELSE i - 1 - 1 + 1
      BY <3>1, FS_Interval
    <3> QED BY <3>2
  <2>3. i \in K /\ i \in Int
    BY <1>3
  <2> HIDE DEF K
  <2> QED BY <1>2, <2>1, <2>2, <2>3, NthUnique
<1>4. ASSUME NEW i \in 1..m-n, ~(i <= lo) PROVE Nth(K, i) = i + n
  <2> DEFINE h == i + n - 1
  <2>1. Below(K, i + n) = (1..lo) \cup (lo+n+1..h)
    BY <1>4 DEF Below
  <2>2. h \in Int /\ lo + n <= h /\ h - n = i - 1
    BY <1>4
  <2>3. Cardinality(Below(K, i + n)) = i - 1
    BY <1>1, <2>1, <2>2
  <2>4. i + n \in K /\ i \in Int
    BY <1>4
  <2> HIDE DEF K
  <2> QED BY <1>2, <2>3, <2>4, NthUnique
<1> HIDE DEF K
<1>5. Left(lo, n, m) = K
  BY DEF Left, K
<1> QED BY <1>2, <1>3, <1>4, <1>5

LEMMA WithoutSlotsIs ==
  ASSUME NEW pt \in Part, Packed(pt), NEW lo \in Nat, NEW n \in Nat, NEW x \in Int,
         lo + n <= pt.numblocks
  PROVE  LET d == [WithoutSlots(pt, lo, n) EXCEPT !.size = x]
         IN  d \in Part /\ Shrunk(pt, d, lo, n)
<1> DEFINE m == pt.numblocks
           gap == [i \in Slots |-> IF i \in (lo+1)..(lo+n) THEN NoBlock
                                                           ELSE pt.block[i]]
           kept == {i \in Slots : gap[i] # NoBlock}
           blk == SortBlocks(gap)
           w == WithoutSlots(pt, lo, n)
<1>1. m \in Nat /\ m <= MaxBlocks /\ MaxBlocks <= 255 /\ MaxBlocks \in Nat
  BY BlocksAssumption DEF Part
<1>2. kept = (1..lo) \cup (lo+n+1..m)
  BY <1>1 DEF Packed, Slots
<1>3. /\ Cardinality(kept) = m - n
      /\ \A i \in 1..m-n : Nth(kept, i) = IF i <= lo THEN i ELSE i + n
  <2> DEFINE K == Left(lo, n, m)
  <2>1. m \in Nat /\ lo + n <= m
    BY <1>1
  <2>2. /\ Cardinality(K) = m - n
        /\ \A i \in 1..m-n : Nth(K, i) = IF i <= lo THEN i ELSE i + n
    <3> HIDE DEF m
    <3> QED BY <2>1, KeptSlots
  <2> HIDE DEF m, kept, K
  <2>3. kept = K
    BY <1>2 DEF K, Left
  <2> QED BY <2>2, <2>3
<1>4. blk = [i \in Slots |-> IF i <= Cardinality(kept) THEN gap[Nth(kept, i)]
                                                     ELSE NoBlock]
  BY DEF SortBlocks
<1>5. blk = [i \in Slots |-> IF i <= lo THEN pt.block[i]
                             ELSE IF i <= m - n THEN pt.block[i + n] ELSE NoBlock]
  <2>1. ASSUME NEW i \in Slots
        PROVE  (IF i <= Cardinality(kept) THEN gap[Nth(kept, i)] ELSE NoBlock)
                 = IF i <= lo THEN pt.block[i]
                   ELSE IF i <= m - n THEN pt.block[i + n] ELSE NoBlock
    <3> HIDE DEF kept
    <3>1. CASE i <= lo
      BY <1>1, <1>3, <3>1 DEF Slots
    <3>2. CASE ~(i <= lo) /\ i <= m - n
      BY <1>1, <1>3, <3>2 DEF Slots
    <3>3. CASE ~(i <= lo) /\ ~(i <= m - n)
      BY <1>3, <3>3
    <3> QED BY <3>1, <3>2, <3>3
  <2> HIDE DEF kept, gap, blk
  <2> QED BY <1>4, <2>1
<1>6. blk \in [Slots -> Blocks \cup {NoBlock}]
  <2> HIDE DEF blk
  <2> QED BY <1>1, <1>5 DEF Part, Slots
<1>7. (m - n) % 256 = m - n /\ m - n \in 0..MaxBlocks
  BY <1>1
<1>8. w = [pt EXCEPT !.block = blk, !.numblocks = m - n]
  <2> HIDE DEF blk
  <2>1. w = [pt EXCEPT !.block = blk, !.numblocks = (@ - n) % 256]
    BY Zenon DEF WithoutSlots, blk, w
  <2> QED BY <1>7, <2>1
<1> HIDE DEF blk, w
<1>9. w \in Part /\ w.block = blk /\ w.numblocks = m - n
  BY <1>6, <1>7, <1>8 DEF Part
<1> DEFINE d == [w EXCEPT !.size = x]
<1>10. d \in Part /\ d.block = blk /\ d.numblocks = m - n
  BY <1>9 DEF Part
<1>11. Shrunk(pt, d, lo, n)
  BY <1>5, <1>10 DEF Shrunk
<1> QED BY <1>10, <1>11 DEF w

\* no block is in two of its slots
Distinct(pt) ==
  \A i, j \in Slots : pt.block[i] # NoBlock /\ pt.block[i] = pt.block[j] => i = j

\* the sectors that stay in a partition keep their order
Ordered(old, new) ==
  \A i, j \in Slots : i < j /\ old[j] # NoBlock =>
    \A k, l \in Slots : new[k] = old[i] /\ new[l] = old[j] => k < l

\* Blocks that are put behind do not change the order of the others.
LEMMA GrownOrder ==
  ASSUME NEW old \in Part, NEW new \in Part, Packed(old), Distinct(old),
         NEW bs, Len(bs) \in Nat, Grown(old, new, bs),
         \A k \in 1..Len(bs), i \in Slots : bs[k] # old.block[i]
  PROVE  Ordered(old.block, new.block)
<1> SUFFICES ASSUME NEW i \in Slots, NEW j \in Slots, i < j, old.block[j] # NoBlock,
                    NEW k \in Slots, NEW l \in Slots,
                    new.block[k] = old.block[i], new.block[l] = old.block[j]
             PROVE  k < l
  BY DEF Ordered
<1>1. old.block[k] = old.block[i] /\ old.block[l] = old.block[j]
  <2>1. \A h, g \in Slots : new.block[h] = old.block[g] => old.block[h] = old.block[g]
    BY DEF Grown
  <2> QED BY <2>1
<1>2. old.block[i] # NoBlock
  <2>1. old.numblocks \in Int /\ i \in Int /\ j \in Int
    BY BlocksAssumption DEF Part, Slots
  <2> QED BY <2>1 DEF Packed
<1>3. k = i /\ l = j
  BY <1>1, <1>2 DEF Distinct
<1> QED BY <1>3

\* Neither do blocks that are taken out.
LEMMA ShrunkOrder ==
  ASSUME NEW old \in Part, NEW new \in Part, Packed(old), Distinct(old),
         NEW lo \in Nat, NEW n \in Nat, lo + n <= old.numblocks,
         Shrunk(old, new, lo, n)
  PROVE  Ordered(old.block, new.block)
<1> SUFFICES ASSUME NEW i \in Slots, NEW j \in Slots, i < j, old.block[j] # NoBlock,
                    NEW k \in Slots, NEW l \in Slots,
                    new.block[k] = old.block[i], new.block[l] = old.block[j]
             PROVE  k < l
  BY DEF Ordered
<1> DEFINE m == old.numblocks
<1>1. m \in Int /\ m <= MaxBlocks /\ MaxBlocks \in Int /\ Slots = 1..MaxBlocks
  BY BlocksAssumption DEF Part, Slots
<1>2. old.block[i] # NoBlock
  BY <1>1 DEF Packed
<1>3. \A h, g \in Slots :
        new.block[h] = old.block[g] /\ old.block[g] # NoBlock =>
          \/ h <= lo /\ h = g
          \/ lo < h /\ h <= m - n /\ h + n = g
  <2> TAKE h, g \in Slots
  <2> HAVE new.block[h] = old.block[g] /\ old.block[g] # NoBlock
  <2>1. CASE h <= lo
    BY <2>1 DEF Shrunk, Distinct
  <2>2. CASE ~(h <= lo) /\ h <= m - n
    <3>1. new.block[h] = old.block[h + n]
      BY <2>2 DEF Shrunk
    <3>2. h + n \in Slots
      BY <1>1, <2>2
    <3>3. h + n = g
      BY <3>1, <3>2 DEF Distinct
    <3> QED BY <1>1, <2>2, <3>3
  <2>3. CASE ~(h <= lo) /\ ~(h <= m - n)
    BY <2>3 DEF Shrunk
  <2> QED BY <2>1, <2>2, <2>3
<1>4. \/ k <= lo /\ k = i
      \/ lo < k /\ k <= m - n /\ k + n = i
  BY <1>2, <1>3
<1>5. \/ l <= lo /\ l = j
      \/ lo < l /\ l <= m - n /\ l + n = j
  BY <1>3
<1> HIDE DEF m
<1> QED BY <1>1, <1>4, <1>5

-----------------------------------------------------------------------------
(* The pool: every block is free or in one slot. *)

Typed == free \subseteq Blocks /\ partition \in [Partitions -> Part]

Blk(p, i) == partition[p].block[i]

OneSlot == \A p, q \in Partitions, i, j \in Slots :
             Blk(p, i) # NoBlock /\ Blk(p, i) = Blk(q, j) => p = q /\ i = j

HeldOrFree ==
  /\ \A p \in Partitions, i \in Slots : Blk(p, i) \notin free
  /\ \A b \in Blocks : b \in free \/ \E p \in Partitions, i \in Slots : Blk(p, i) = b

PoolInv ==
  /\ Typed
  /\ blockfreespace = Cardinality(free)
  /\ \A p \in Partitions : Packed(partition[p])
  /\ OneSlot
  /\ HeldOrFree

LEMMA BlocksFinite ==
  /\ IsFiniteSet(Blocks) /\ Cardinality(Blocks) = MaxBlocks /\ MaxBlocks \in Nat
  /\ MaxBlocks <= 255
<1>1. MaxBlocks \in Nat /\ MaxBlocks <= 255
  BY BlocksAssumption
<1>2. /\ IsFiniteSet(0..MaxBlocks-1)
      /\ Cardinality(0..MaxBlocks-1) = IF 0 > MaxBlocks-1 THEN 0 ELSE MaxBlocks-1-0+1
  BY <1>1, FS_Interval
<1>3. (IF 0 > MaxBlocks-1 THEN 0 ELSE MaxBlocks-1-0+1) = MaxBlocks
  BY <1>1, BlocksAssumption
<1> QED BY <1>1, <1>2, <1>3 DEF Blocks

\* the blocks in n slots of p behind the first lo
HeldBlocks(p, lo, n) == {Blk(p, i) : i \in lo+1..lo+n}

\* n slots that hold blocks hold n different ones.
LEMMA SlotsHold ==
  ASSUME PoolInv, NEW p \in Partitions, NEW lo \in Nat, NEW n \in Nat,
         lo + n <= partition[p].numblocks
  PROVE  /\ IsFiniteSet(HeldBlocks(p, lo, n)) /\ Cardinality(HeldBlocks(p, lo, n)) = n
         /\ HeldBlocks(p, lo, n) \subseteq Blocks /\ HeldBlocks(p, lo, n) \cap free = {}
         /\ IsFiniteSet(lo+1..lo+n) /\ Cardinality(lo+1..lo+n) = n
<1> DEFINE X == {Blk(p, i) : i \in lo+1..lo+n}
           f == [i \in lo+1..lo+n |-> Blk(p, i)]
<1>1. partition[p] \in Part
  BY DEF PoolInv, Typed
<1>2. \A i \in lo+1..lo+n : i \in Slots /\ i <= partition[p].numblocks
  BY <1>1, BlocksFinite DEF Part, Slots
<1>3. \A i \in lo+1..lo+n : Blk(p, i) \in Blocks /\ Blk(p, i) # NoBlock
  BY <1>1, <1>2 DEF PoolInv, Packed, Part, Blk
<1>4. f \in Bijection(lo+1..lo+n, X)
  <2>1. f \in [lo+1..lo+n -> X] /\ \A b \in X : \E i \in lo+1..lo+n : f[i] = b
    OBVIOUS
  <2>2. \A i, j \in lo+1..lo+n : f[i] = f[j] => i = j
    BY <1>2, <1>3 DEF PoolInv, OneSlot
  <2> HIDE DEF f, X
  <2> QED BY <2>1, <2>2 DEF Bijection, Injection, Surjection, IsInjective
<1>5. IsFiniteSet(lo+1..lo+n) /\ Cardinality(lo+1..lo+n) = n
  <2>1. lo + 1 \in Int /\ lo + n \in Int
    OBVIOUS
  <2>2. /\ IsFiniteSet(lo+1..lo+n)
        /\ Cardinality(lo+1..lo+n) = IF lo+1 > lo+n THEN 0 ELSE lo+n-(lo+1)+1
    BY <2>1, FS_Interval
  <2>3. (IF lo+1 > lo+n THEN 0 ELSE lo+n-(lo+1)+1) = n
    OBVIOUS
  <2> QED BY <2>2, <2>3
<1>6. X \subseteq Blocks /\ X \cap free = {}
  BY <1>2, <1>3 DEF PoolInv, HeldOrFree
<1> HIDE DEF X, f
<1>7. IsFiniteSet(X) /\ Cardinality(X) = n
  BY <1>4, <1>5, FS_Bijection DEF ExistsBijection
<1>8. HeldBlocks(p, lo, n) = X
  BY DEF X, HeldBlocks
<1> QED BY <1>5, <1>6, <1>7, <1>8

\* The sectors of two partitions and the free blocks fit in the pool.
LEMMA TwoFit ==
  ASSUME PoolInv, NEW p \in Partitions, NEW q \in Partitions, p # q
  PROVE  partition[p].numblocks + partition[q].numblocks <= MaxBlocks
<1> DEFINE m == partition[p].numblocks
           n == partition[q].numblocks
           X == HeldBlocks(p, 0, m)
           Y == HeldBlocks(q, 0, n)
<1>1. m \in Nat /\ n \in Nat /\ m <= MaxBlocks /\ n <= MaxBlocks
  BY BlocksFinite DEF PoolInv, Typed, Part
<1>2. 0 \in Nat /\ 0 + m <= partition[p].numblocks /\ 0 + n <= partition[q].numblocks
  BY <1>1
<1>3. IsFiniteSet(X) /\ Cardinality(X) = m /\ X \subseteq Blocks
  BY <1>1, <1>2, SlotsHold
<1>4. IsFiniteSet(Y) /\ Cardinality(Y) = n /\ Y \subseteq Blocks
  BY <1>1, <1>2, SlotsHold
<1>5. X \cap Y = {}
  <2> SUFFICES ASSUME NEW i \in 1..m, NEW j \in 1..n, Blk(p, i) = Blk(q, j)
               PROVE  FALSE
    BY <1>1 DEF HeldBlocks
  <2>1. i \in Slots /\ j \in Slots /\ i <= m
    BY <1>1, BlocksFinite DEF Slots
  <2>2. Blk(p, i) # NoBlock
    BY <2>1 DEF PoolInv, Packed, Blk
  <2> QED BY <2>1, <2>2 DEF PoolInv, OneSlot
<1> HIDE DEF X, Y, m, n
<1>6. Cardinality(X \cup Y) = m + n - Cardinality(X \cap Y)
  BY <1>3, <1>4, FS_Union
<1>7. Cardinality(X \cap Y) = 0
  BY <1>5, FS_EmptySet
<1>8. Cardinality(X \cup Y) <= MaxBlocks
  <2>1. X \cup Y \in SUBSET Blocks
    BY <1>3, <1>4
  <2> QED BY <2>1, BlocksFinite, FS_Subset
<1>9. m + n <= MaxBlocks
  BY <1>1, <1>6, <1>7, <1>8
<1> QED BY <1>9 DEF m, n

\* So do those of one.
LEMMA OneFits ==
  ASSUME PoolInv, NEW p \in Partitions
  PROVE  /\ Cardinality(free) \in Nat
         /\ partition[p].numblocks + Cardinality(free) <= MaxBlocks
<1> DEFINE m == partition[p].numblocks
           X == HeldBlocks(p, 0, m)
<1>1. m \in Nat
  BY BlocksFinite DEF PoolInv, Typed, Part
<1>2. 0 \in Nat /\ 0 + m <= partition[p].numblocks
  BY <1>1
<1>3. IsFiniteSet(X) /\ Cardinality(X) = m /\ X \subseteq Blocks /\ X \cap free = {}
  BY <1>1, <1>2, SlotsHold
<1>4. IsFiniteSet(free) /\ Cardinality(free) \in Nat
  <2>1. free \in SUBSET Blocks
    BY DEF PoolInv, Typed
  <2> QED BY <2>1, BlocksFinite, FS_Subset, FS_CardinalityType
<1> HIDE DEF X, m
<1>5. Cardinality(X \cup free) = m + Cardinality(free) - Cardinality(X \cap free)
  BY <1>3, <1>4, FS_Union
<1>6. Cardinality(X \cap free) = 0
  BY <1>3, FS_EmptySet
<1>7. Cardinality(X \cup free) <= MaxBlocks
  <2>1. X \cup free \in SUBSET Blocks
    BY <1>3 DEF PoolInv, Typed
  <2> QED BY <2>1, BlocksFinite, FS_Subset
<1>8. m + Cardinality(free) <= MaxBlocks
  BY <1>1, <1>4, <1>5, <1>6, <1>7
<1> QED BY <1>4, <1>8 DEF m

-----------------------------------------------------------------------------
(* What a step does to the pool. *)

Others(S) == \A r \in Partitions \ S : partition'[r] = partition[r]

\* n blocks are taken and put behind those of p
Adding ==
  \E p \in Partitions, n \in 1..Cardinality(free) :
    /\ Take(n)
    /\ Grown(partition[p], partition'[p], FirstFree(n)) /\ Others({p})

\* n of p's sectors are freed
Removing ==
  \E p \in Partitions, lo \in 0..MaxBlocks, n \in 0..MaxBlocks :
    /\ lo + n <= partition[p].numblocks
    /\ Free(partition[p], lo, n)
    /\ Shrunk(partition[p], partition'[p], lo, n) /\ Others({p})

\* n of p's sectors go behind those of q
Moving ==
  \E p, q \in Partitions, lo \in 0..MaxBlocks, n \in 0..MaxBlocks :
    /\ p # q /\ lo + n <= partition[p].numblocks
    /\ UNCHANGED pool
    /\ Shrunk(partition[p], partition'[p], lo, n)
    /\ Grown(partition[q], partition'[q], Sectors(partition[p], lo, n))
    /\ Others({p, q})

\* all are freed
Emptying ==
  /\ free' = Blocks /\ blockfreespace' = MaxBlocks /\ isbufferfull' = FALSE
  /\ partition' = [p \in Partitions |-> Empty]

\* none moves
Sitting ==
  /\ UNCHANGED <<free, blockfreespace, partition>>
  /\ isbufferfull' \in BOOLEAN /\ (isbufferfull => isbufferfull' \/ SoftInit)

Shape ==
  /\ partition' \in [Partitions -> Part]
  /\ Adding \/ Removing \/ Moving \/ Emptying \/ Sitting

\* Adding keeps the pool.
LEMMA AddingPool == PoolInv /\ partition' \in [Partitions -> Part] /\ Adding => PoolInv'
<1> SUFFICES ASSUME PoolInv, partition' \in [Partitions -> Part],
                    NEW p \in Partitions, NEW n \in 1..Cardinality(free), Take(n),
                    Grown(partition[p], partition'[p], FirstFree(n)), Others({p})
             PROVE  PoolInv'
  BY DEF Adding
<1> DEFINE bs == FirstFree(n)
           m == partition[p].numblocks
           new(r, i) == partition'[r].block[i]
<1>1. Cardinality(free) \in Nat /\ m + Cardinality(free) <= MaxBlocks
      /\ free \subseteq Blocks /\ m \in Nat /\ MaxBlocks \in Nat /\ Slots = 1..MaxBlocks
  BY OneFits, BlocksFinite DEF PoolInv, Typed, Part, Slots
<1>2. /\ bs \in [1..n -> free] /\ Len(bs) = n
      /\ \A i, j \in 1..n : bs[i] = bs[j] => i = j
      /\ Elements(bs) = {bs[i] : i \in 1..n}
      /\ Cardinality(free \ Elements(bs)) = Cardinality(free) - n
  <2>1. n \in 0..Cardinality(free)
    BY <1>1
  <2> QED BY <1>1, <2>1, FirstFreeIs
<1>3. free' = free \ Elements(bs) /\ blockfreespace' = blockfreespace - n
  BY DEF Take
<1>4. Typed'
  BY <1>1, <1>3 DEF Typed
<1>5. (blockfreespace = Cardinality(free))'
  BY <1>2, <1>3 DEF PoolInv
<1>6. \A i \in Slots : /\ i - m \in 1..n => new(p, i) = bs[i - m]
                       /\ i - m \notin 1..n => new(p, i) = Blk(p, i)
  BY <1>2 DEF Grown, Blk
<1>7. \A r \in Partitions, i \in Slots : r # p => new(r, i) = Blk(r, i)
  BY DEF Others, Blk
<1>8. NoBlock \notin free
  BY <1>1 DEF Blocks, NoBlock
<1> HIDE DEF bs
<1>9. (\A r \in Partitions : Packed(partition[r]))'
  <2> SUFFICES ASSUME NEW r \in Partitions
               PROVE  Packed(partition'[r])
    OBVIOUS
  <2>1. CASE r # p
    BY <2>1 DEF Others, PoolInv
  <2>2. CASE r = p
    <3>1. partition'[p].numblocks = m + n
      BY <1>2 DEF Grown, bs
    <3> SUFFICES ASSUME NEW i \in Slots
                 PROVE  new(p, i) # NoBlock <=> i <= m + n
      BY <2>2, <3>1 DEF Packed
    <3>2. Blk(p, i) # NoBlock <=> i <= m
      BY DEF PoolInv, Packed, Blk
    <3>3. CASE i - m \in 1..n
      <4>1. new(p, i) \in free
        BY <1>2, <1>6, <3>3
      <4> QED BY <1>1, <1>8, <3>3, <4>1
    <3>4. CASE i - m \notin 1..n
      BY <1>1, <1>6, <3>2, <3>4
    <3> QED BY <3>3, <3>4
  <2> QED BY <2>1, <2>2
<1>10. \A r \in Partitions, i \in Slots :
         \/ new(r, i) = Blk(r, i)
         \/ r = p /\ i - m \in 1..n /\ new(r, i) = bs[i - m] /\ new(r, i) \in free
  BY <1>2, <1>6, <1>7
<1>11. OneSlot'
  <2> SUFFICES ASSUME NEW q \in Partitions, NEW r \in Partitions,
                      NEW i \in Slots, NEW j \in Slots,
                      new(q, i) # NoBlock, new(q, i) = new(r, j)
               PROVE  q = r /\ i = j
    BY DEF OneSlot, Blk
  <2> HIDE DEF new
  <2>1. CASE new(q, i) = Blk(q, i) /\ new(r, j) = Blk(r, j)
    <3>1. Blk(q, i) # NoBlock /\ Blk(q, i) = Blk(r, j)
      BY <2>1
    <3> HIDE DEF m
    <3> QED BY <3>1 DEF PoolInv, OneSlot
  <2>2. CASE new(q, i) \in free /\ new(r, j) = Blk(r, j)
    BY <2>2 DEF PoolInv, HeldOrFree
  <2>3. CASE new(q, i) = Blk(q, i) /\ new(r, j) \in free
    BY <2>3 DEF PoolInv, HeldOrFree
  <2>4. CASE /\ q = p /\ i - m \in 1..n /\ new(q, i) = bs[i - m]
             /\ r = p /\ j - m \in 1..n /\ new(r, j) = bs[j - m]
    <3>1. i - m = j - m
      BY <1>2, <2>4
    <3> QED BY <1>1, <2>4, <3>1
  <2> QED BY <1>10, <2>1, <2>2, <2>3, <2>4
<1>12. HeldOrFree'
  <2>1. \A r \in Partitions, i \in Slots : new(r, i) \notin free'
    BY <1>2, <1>3, <1>10 DEF PoolInv, HeldOrFree
  <2>2. ASSUME NEW b \in Blocks, b \notin free'
        PROVE  \E r \in Partitions, i \in Slots : new(r, i) = b
    <3>1. CASE b \in free
      <4>1. PICK k \in 1..n : bs[k] = b
        BY <1>2, <1>3, <2>2, <3>1
      <4> DEFINE i == m + k
      <4>2. i \in Slots /\ i - m = k
        BY <1>1
      <4> HIDE DEF i, m, new
      <4>3. new(p, i) = b
        BY <1>6, <4>1, <4>2
      <4> QED BY <4>2, <4>3
    <3>2. CASE b \notin free
      <4>1. PICK r \in Partitions, i \in Slots : Blk(r, i) = b
        BY <3>2 DEF PoolInv, HeldOrFree
      <4>2. r = p => i <= m
        <5>1. b # NoBlock
          BY BlocksFinite DEF Blocks, NoBlock
        <5> QED BY <4>1, <5>1 DEF PoolInv, Packed, Blk
      <4>3. r = p => i - m \notin 1..n
        BY <1>1, <4>2
      <4>4. new(r, i) = b
        BY <1>6, <1>7, <4>1, <4>3
      <4> QED BY <4>4
    <3> QED BY <3>1, <3>2
  <2> QED BY <2>1, <2>2 DEF HeldOrFree, Blk
<1> QED BY <1>4, <1>5, <1>9, <1>11, <1>12 DEF PoolInv

\* What Cs2FreeBlock frees, for n of p's sectors.
LEMMA FreeIs ==
  ASSUME PoolInv, NEW p \in Partitions, NEW lo \in Nat, NEW n \in Nat,
         lo + n <= partition[p].numblocks, Free(partition[p], lo, n)
  PROVE  /\ free' = free \cup HeldBlocks(p, lo, n)
         /\ blockfreespace' = blockfreespace + n
         /\ isbufferfull' = (isbufferfull /\ n = 0)
         /\ Cardinality(free') = Cardinality(free) + n
         /\ free' \subseteq Blocks
<1> DEFINE H == Held(partition[p], lo, n)
<1>1. partition[p] \in Part /\ MaxBlocks \in Nat /\ free \subseteq Blocks
  BY BlocksFinite DEF PoolInv, Typed
<1>2. H = lo+1..lo+n
  <2>1. \A i \in lo+1..lo+n : i \in Slots /\ i <= partition[p].numblocks
    BY <1>1 DEF Part, Slots
  <2>2. \A i \in lo+1..lo+n : i \in Slots /\ partition[p].block[i] # NoBlock
    BY <2>1 DEF PoolInv, Packed
  <2> QED BY <2>2 DEF Held
<1>3. /\ IsFiniteSet(HeldBlocks(p, lo, n)) /\ Cardinality(HeldBlocks(p, lo, n)) = n
      /\ HeldBlocks(p, lo, n) \subseteq Blocks /\ HeldBlocks(p, lo, n) \cap free = {}
      /\ Cardinality(lo+1..lo+n) = n
  BY SlotsHold
<1>4. H = {} <=> n = 0
  <2>1. lo+1..lo+n = {} <=> n = 0
    <3>1. n # 0 => lo + 1 \in lo+1..lo+n
      OBVIOUS
    <3>2. n = 0 => lo+1..lo+n = {}
      OBVIOUS
    <3> QED BY <3>1, <3>2
  <2> QED BY <1>2, <2>1
<1>5. free' = free \cup HeldBlocks(p, lo, n)
  <2>1. {partition[p].block[i] : i \in H} = HeldBlocks(p, lo, n)
    BY <1>2 DEF HeldBlocks, Blk
  <2> QED BY <2>1 DEF Free
<1>6. blockfreespace' = blockfreespace + n
  BY <1>2, <1>3 DEF Free
<1>7. isbufferfull' = (isbufferfull /\ n = 0)
  BY <1>4 DEF Free
<1>8. Cardinality(free') = Cardinality(free) + n
  <2>1. IsFiniteSet(free) /\ Cardinality(free) \in Nat
    <3>1. free \in SUBSET Blocks
      BY <1>1
    <3> QED BY <3>1, BlocksFinite, FS_Subset, FS_CardinalityType
  <2> DEFINE X == HeldBlocks(p, lo, n)
  <2>2. IsFiniteSet(X) /\ Cardinality(X) = n /\ free \cap X = {}
    BY <1>3
  <2> HIDE DEF X
  <2>3. Cardinality(free \cup X) = Cardinality(free) + n - Cardinality(free \cap X)
    BY <2>1, <2>2, FS_Union
  <2>4. Cardinality(free \cap X) = 0
    BY <2>2, FS_EmptySet
  <2>5. Cardinality(free \cup X) = Cardinality(free) + n
    BY <2>1, <2>3, <2>4
  <2> QED BY <1>5, <2>5 DEF X
<1>9. free' \subseteq Blocks
  BY <1>1, <1>3, <1>5
<1> QED BY <1>5, <1>6, <1>7, <1>8, <1>9

\* Removing keeps the pool.
LEMMA RemovingPool == PoolInv /\ partition' \in [Partitions -> Part] /\ Removing => PoolInv'
<1> SUFFICES ASSUME PoolInv, partition' \in [Partitions -> Part],
                    NEW p \in Partitions, NEW lo \in 0..MaxBlocks,
                    NEW n \in 0..MaxBlocks,
                    lo + n <= partition[p].numblocks, Free(partition[p], lo, n),
                    Shrunk(partition[p], partition'[p], lo, n), Others({p})
             PROVE  PoolInv'
  BY DEF Removing
<1> DEFINE m == partition[p].numblocks
           new(r, i) == partition'[r].block[i]
<1>1. /\ m \in Nat /\ m <= MaxBlocks /\ MaxBlocks \in Nat /\ Slots = 1..MaxBlocks
      /\ lo \in Nat /\ n \in Nat
  BY BlocksFinite DEF PoolInv, Typed, Part, Slots
<1>2. /\ free' = free \cup HeldBlocks(p, lo, n)
      /\ blockfreespace' = blockfreespace + n
      /\ Cardinality(free') = Cardinality(free) + n
      /\ free' \subseteq Blocks
  BY <1>1, FreeIs
<1>3. Typed' /\ (blockfreespace = Cardinality(free))'
  BY <1>2 DEF Typed, PoolInv
<1>4. \A r \in Partitions, i \in Slots : r # p => new(r, i) = Blk(r, i)
  BY DEF Others, Blk
<1>5. \A i \in Slots :
        /\ i <= lo => new(p, i) = Blk(p, i)
        /\ lo < i /\ i <= m - n => i + n \in Slots /\ new(p, i) = Blk(p, i + n)
        /\ lo < i /\ m - n < i => new(p, i) = NoBlock
  BY <1>1 DEF Shrunk, Blk
<1>6. \A i \in Slots : Blk(p, i) # NoBlock <=> i <= m
  BY DEF PoolInv, Packed, Blk
<1>7. (\A r \in Partitions : Packed(partition[r]))'
  <2> SUFFICES ASSUME NEW r \in Partitions
               PROVE  Packed(partition'[r])
    OBVIOUS
  <2>1. CASE r # p
    BY <2>1 DEF Others, PoolInv
  <2>2. CASE r = p
    <3>1. partition'[p].numblocks = m - n
      BY DEF Shrunk
    <3> SUFFICES ASSUME NEW i \in Slots
                 PROVE  new(p, i) # NoBlock <=> i <= m - n
      BY <2>2, <3>1 DEF Packed
    <3> QED BY <1>1, <1>5, <1>6
  <2> QED BY <2>1, <2>2
<1>8. \A r \in Partitions, i \in Slots : new(r, i) # NoBlock =>
        \E j \in Slots :
          /\ new(r, i) = Blk(r, j)
          /\ r = p => \/ i <= lo /\ j = i
                      \/ lo < i /\ j = i + n
          /\ r # p => j = i
  <2> TAKE r \in Partitions, i \in Slots
  <2> HIDE DEF new, m
  <2>1. CASE r # p
    BY <1>4, <2>1
  <2>2. CASE r = p /\ i <= lo
    BY <1>5, <2>2
  <2>3. CASE r = p /\ ~(i <= lo)
    <3>1. lo < i /\ i \in Int
      BY <1>1, <2>3
    <3>2. m - n < i \/ i <= m - n
      BY <1>1, <3>1
    <3> HAVE new(r, i) # NoBlock
    <3>3. i + n \in Slots /\ new(p, i) = Blk(p, i + n)
      BY <1>5, <2>3, <3>1, <3>2
    <3> QED BY <2>3, <3>1, <3>3
  <2> QED BY <2>1, <2>2, <2>3
<1> HIDE DEF new, m
<1>9. OneSlot'
  <2> SUFFICES ASSUME NEW q \in Partitions, NEW r \in Partitions,
                      NEW i \in Slots, NEW j \in Slots,
                      new(q, i) # NoBlock, new(q, i) = new(r, j)
               PROVE  q = r /\ i = j
    BY DEF OneSlot, Blk, new
  <2>1. PICK k \in Slots :
          /\ new(q, i) = Blk(q, k)
          /\ q = p => (i <= lo /\ k = i) \/ (lo < i /\ k = i + n)
          /\ q # p => k = i
    BY <1>8
  <2>2. PICK l \in Slots :
          /\ new(r, j) = Blk(r, l)
          /\ r = p => (j <= lo /\ l = j) \/ (lo < j /\ l = j + n)
          /\ r # p => l = j
    BY <1>8
  <2>3. Blk(q, k) # NoBlock /\ Blk(q, k) = Blk(r, l)
    BY <2>1, <2>2
  <2>4. q = r /\ k = l
    BY <2>3 DEF PoolInv, OneSlot
  <2>5. i \in Int /\ j \in Int
    BY <1>1
  <2> QED BY <1>1, <2>1, <2>2, <2>4, <2>5
<1>10. HeldOrFree'
  <2>1. ASSUME NEW r \in Partitions, NEW i \in Slots
        PROVE  new(r, i) \notin free'
    <3>1. NoBlock \notin free'
      BY <1>1, <1>2 DEF Blocks, NoBlock
    <3> SUFFICES ASSUME new(r, i) # NoBlock, new(r, i) \in free'
                 PROVE  FALSE
      BY <3>1
    <3>2. PICK k \in Slots :
            /\ new(r, i) = Blk(r, k)
            /\ r = p => (i <= lo /\ k = i) \/ (lo < i /\ k = i + n)
      BY <1>8
    <3>3. Blk(r, k) \notin free
      BY DEF PoolInv, HeldOrFree
    <3>4. Blk(r, k) \in HeldBlocks(p, lo, n)
      BY <1>2, <3>2, <3>3
    <3>5. PICK h \in lo+1..lo+n : Blk(r, k) = Blk(p, h)
      BY <3>4 DEF HeldBlocks
    <3>6. h \in Slots
      BY <1>1 DEF m
    <3>7. Blk(r, k) # NoBlock
      BY <3>2
    <3>8. r = p /\ k = h
      BY <3>5, <3>6, <3>7 DEF PoolInv, OneSlot
    <3>9. i \in Int /\ h \in Int
      BY <1>1
    <3> QED BY <1>1, <3>2, <3>8, <3>9
  <2>2. ASSUME NEW b \in Blocks, b \notin free'
        PROVE  \E r \in Partitions, i \in Slots : new(r, i) = b
    <3>1. PICK r \in Partitions, j \in Slots : Blk(r, j) = b
      BY <1>2, <2>2 DEF PoolInv, HeldOrFree
    <3>2. b # NoBlock
      BY <1>1 DEF Blocks, NoBlock
    <3>3. CASE r # p
      BY <1>4, <3>1, <3>3
    <3>4. CASE r = p
      <4>1. j <= m
        BY <1>6, <3>1, <3>2, <3>4
      <4>2. j \notin lo+1..lo+n
        BY <1>2, <2>2, <3>1, <3>4 DEF HeldBlocks
      <4>3. CASE j <= lo
        BY <1>5, <3>1, <3>4, <4>3
      <4>4. CASE ~(j <= lo)
        <5> DEFINE i == j - n
        <5>1. i \in Slots /\ lo < i /\ i <= m - n /\ i + n = j
          BY <1>1, <4>1, <4>2, <4>4
        <5> HIDE DEF i
        <5>2. new(p, i) = Blk(p, i + n)
          BY <1>5, <5>1
        <5> QED BY <3>1, <3>4, <5>1, <5>2
      <4> QED BY <4>3, <4>4
    <3> QED BY <3>3, <3>4
  <2> QED BY <2>1, <2>2 DEF HeldOrFree, Blk, new
<1> QED BY <1>3, <1>7, <1>9, <1>10 DEF PoolInv

\* Moving keeps the pool.
LEMMA MovingPool == PoolInv /\ partition' \in [Partitions -> Part] /\ Moving => PoolInv'
<1> SUFFICES ASSUME PoolInv, partition' \in [Partitions -> Part],
                    NEW p \in Partitions, NEW q \in Partitions, p # q,
                    NEW lo \in 0..MaxBlocks, NEW n \in 0..MaxBlocks,
                    lo + n <= partition[p].numblocks, UNCHANGED pool,
                    Shrunk(partition[p], partition'[p], lo, n),
                    Grown(partition[q], partition'[q], Sectors(partition[p], lo, n)),
                    Others({p, q})
             PROVE  PoolInv'
  BY DEF Moving
<1> DEFINE m == partition[p].numblocks
           h == partition[q].numblocks
           new(r, i) == partition'[r].block[i]
<1>1. /\ m \in Nat /\ m <= MaxBlocks /\ MaxBlocks \in Nat /\ Slots = 1..MaxBlocks
      /\ h \in Nat /\ m + h <= MaxBlocks /\ lo \in Nat /\ n \in Nat
  BY BlocksFinite, TwoFit DEF PoolInv, Typed, Part, Slots
<1>2. free' = free /\ Typed' /\ (blockfreespace = Cardinality(free))'
  BY DEF Typed, PoolInv, pool
<1>3. \A r \in Partitions, i \in Slots : r # p /\ r # q => new(r, i) = Blk(r, i)
  BY DEF Others, Blk
<1>4. \A i \in Slots :
        /\ i <= lo => new(p, i) = Blk(p, i)
        /\ lo < i /\ i <= m - n => i + n \in Slots /\ new(p, i) = Blk(p, i + n)
        /\ lo < i /\ m - n < i => new(p, i) = NoBlock
  BY <1>1 DEF Shrunk, Blk
<1>5. \A i \in Slots :
        /\ i - h \notin 1..n => new(q, i) = Blk(q, i)
        /\ i - h \in 1..n => lo + (i - h) \in Slots /\ new(q, i) = Blk(p, lo + (i - h))
  <2>1. Len(Sectors(partition[p], lo, n)) = n
    BY <1>1 DEF Sectors
  <2>2. \A i \in 1..n : Sectors(partition[p], lo, n)[i] = Blk(p, lo + i)
    BY DEF Sectors, Blk
  <2>3. \A i \in 1..n : lo + i \in Slots
    BY <1>1
  <2> DEFINE bs == Sectors(partition[p], lo, n)
  <2> HIDE DEF bs
  <2>4. \A i \in Slots : new(q, i) = IF i - h \in 1..n THEN bs[i - h] ELSE Blk(q, i)
    BY <2>1 DEF Grown, Blk, bs
  <2>5. \A i \in 1..n : bs[i] = Blk(p, lo + i) /\ lo + i \in Slots
    BY <2>2, <2>3 DEF bs
  <2> HIDE DEF h, new
  <2> QED BY <2>4, <2>5
<1>6. /\ \A i \in Slots : Blk(p, i) # NoBlock <=> i <= m
      /\ \A i \in Slots : Blk(q, i) # NoBlock <=> i <= h
  BY DEF PoolInv, Packed, Blk
<1>7. (\A r \in Partitions : Packed(partition[r]))'
  <2> SUFFICES ASSUME NEW r \in Partitions
               PROVE  Packed(partition'[r])
    OBVIOUS
  <2>1. CASE r # p /\ r # q
    BY <2>1 DEF Others, PoolInv
  <2>2. CASE r = p
    <3>1. partition'[p].numblocks = m - n
      BY DEF Shrunk
    <3> SUFFICES ASSUME NEW i \in Slots
                 PROVE  new(p, i) # NoBlock <=> i <= m - n
      BY <2>2, <3>1 DEF Packed
    <3> QED BY <1>1, <1>4, <1>6
  <2>3. CASE r = q
    <3>1. partition'[q].numblocks = h + n
      BY <1>1 DEF Grown, Sectors
    <3> SUFFICES ASSUME NEW i \in Slots
                 PROVE  new(q, i) # NoBlock <=> i <= h + n
      BY <2>3, <3>1 DEF Packed
    <3> HIDE DEF new
    <3>2. CASE i - h \in 1..n
      <4>1. lo + (i - h) <= m
        BY <1>1, <3>2
      <4>2. new(q, i) # NoBlock
        BY <1>5, <1>6, <3>2, <4>1
      <4> QED BY <1>1, <3>2, <4>2
    <3>3. CASE i - h \notin 1..n
      BY <1>1, <1>5, <1>6, <3>3
    <3> QED BY <3>2, <3>3
  <2> QED BY <2>1, <2>2, <2>3
<1> DEFINE From(r, i, s, j) ==
             \/ r # p /\ r # q /\ s = r /\ j = i
             \/ r = p /\ s = p /\ i <= lo /\ j = i
             \/ r = p /\ s = p /\ lo < i /\ j = i + n
             \/ r = q /\ s = q /\ i - h \notin 1..n /\ j = i
             \/ r = q /\ s = p /\ i - h \in 1..n /\ j = lo + (i - h)
<1>8. \A r \in Partitions, i \in Slots : new(r, i) # NoBlock =>
        \E s \in Partitions, j \in Slots : new(r, i) = Blk(s, j) /\ From(r, i, s, j)
  <2> TAKE r \in Partitions, i \in Slots
  <2> HIDE DEF new, m, h
  <2>1. CASE r # p /\ r # q
    BY <1>3, <2>1
  <2>2. CASE r = p /\ i <= lo
    BY <1>4, <2>2
  <2>3. CASE r = p /\ ~(i <= lo)
    <3>1. lo < i /\ i \in Int
      BY <1>1, <2>3
    <3>2. m - n < i \/ i <= m - n
      BY <1>1, <3>1
    <3> HAVE new(r, i) # NoBlock
    <3>3. i + n \in Slots /\ new(p, i) = Blk(p, i + n)
      BY <1>4, <2>3, <3>1, <3>2
    <3> QED BY <2>3, <3>1, <3>3
  <2>4. CASE r = q /\ i - h \notin 1..n
    BY <1>5, <2>4
  <2>5. CASE r = q /\ i - h \in 1..n
    BY <1>5, <2>5
  <2> QED BY <2>1, <2>2, <2>3, <2>4, <2>5
<1> HIDE DEF new, m, h
<1>9. OneSlot'
  <2> SUFFICES ASSUME NEW r \in Partitions, NEW s \in Partitions,
                      NEW i \in Slots, NEW j \in Slots,
                      new(r, i) # NoBlock, new(r, i) = new(s, j)
               PROVE  r = s /\ i = j
    BY DEF OneSlot, Blk, new
  <2>1. PICK u \in Partitions, k \in Slots : new(r, i) = Blk(u, k) /\ From(r, i, u, k)
    BY <1>8
  <2>2. PICK v \in Partitions, l \in Slots : new(s, j) = Blk(v, l) /\ From(s, j, v, l)
    BY <1>8
  <2>3. Blk(u, k) # NoBlock /\ Blk(u, k) = Blk(v, l)
    BY <2>1, <2>2
  <2>4. u = v /\ k = l
    BY <2>3 DEF PoolInv, OneSlot
  <2>5. i \in Int /\ j \in Int
    BY <1>1
  <2> QED BY <1>1, <2>1, <2>2, <2>4, <2>5
<1>10. HeldOrFree'
  <2>1. ASSUME NEW r \in Partitions, NEW i \in Slots
        PROVE  new(r, i) \notin free'
    <3>1. NoBlock \notin free'
      BY <1>1, <1>2 DEF Blocks, NoBlock, PoolInv, Typed
    <3>2. CASE new(r, i) = NoBlock
      BY <3>1, <3>2
    <3>3. CASE new(r, i) # NoBlock
      <4>1. PICK s \in Partitions, j \in Slots : new(r, i) = Blk(s, j)
        BY <1>8, <3>3
      <4> QED BY <1>2, <4>1 DEF PoolInv, HeldOrFree
    <3> QED BY <3>2, <3>3
  <2>2. ASSUME NEW b \in Blocks, b \notin free'
        PROVE  \E r \in Partitions, i \in Slots : new(r, i) = b
    <3>1. PICK r \in Partitions, j \in Slots : Blk(r, j) = b
      BY <1>2, <2>2 DEF PoolInv, HeldOrFree
    <3>2. b # NoBlock
      BY <1>1 DEF Blocks, NoBlock
    <3>3. CASE r # p /\ r # q
      BY <1>3, <3>1, <3>3
    <3>4. CASE r = q
      <4>1. j <= h /\ j - h \notin 1..n
        BY <1>1, <1>6, <3>1, <3>2, <3>4
      <4> QED BY <1>5, <3>1, <3>4, <4>1
    <3>5. CASE r = p
      <4>1. j <= m
        BY <1>6, <3>1, <3>2, <3>5
      <4>2. CASE j <= lo
        BY <1>4, <3>1, <3>5, <4>2
      <4>3. CASE lo + n < j
        <5> DEFINE i == j - n
        <5>1. i \in Slots /\ lo < i /\ i <= m - n /\ i + n = j
          BY <1>1, <4>1, <4>3
        <5> HIDE DEF i
        <5>2. new(p, i) = Blk(p, i + n)
          BY <1>4, <5>1
        <5> QED BY <3>1, <3>5, <5>1, <5>2
      <4>4. CASE lo < j /\ j <= lo + n
        <5> DEFINE i == h + (j - lo)
        <5>1. i \in Slots /\ i - h \in 1..n /\ lo + (i - h) = j
          BY <1>1, <4>1, <4>4
        <5> HIDE DEF i
        <5>2. new(q, i) = Blk(p, lo + (i - h))
          BY <1>5, <5>1
        <5> QED BY <3>1, <3>5, <5>1, <5>2
      <4> QED BY <1>1, <4>2, <4>3, <4>4
    <3> QED BY <3>3, <3>4, <3>5
  <2> QED BY <2>1, <2>2 DEF HeldOrFree, Blk, new
<1> QED BY <1>2, <1>7, <1>9, <1>10 DEF PoolInv

LEMMA EmptyIs == Empty \in Part /\ Packed(Empty) /\ \A i \in Slots : Empty.block[i] = NoBlock
BY BlocksFinite DEF Empty, Part, Packed, Slots

\* However a step uses the pool, every block is in one place.
LEMMA ShapePool == PoolInv /\ Shape => PoolInv'
<1>1. CASE Adding
  BY <1>1, AddingPool DEF Shape
<1>2. CASE Removing
  BY <1>2, RemovingPool DEF Shape
<1>3. CASE Moving
  BY <1>3, MovingPool DEF Shape
<1>4. CASE Sitting
  BY <1>4 DEF Sitting, PoolInv, Typed, OneSlot, HeldOrFree, Blk
<1>5. CASE Emptying
  <2>1. \A p \in Partitions : partition'[p] = Empty
    BY <1>5 DEF Emptying
  <2>2. NoBlock \notin Blocks
    BY BlocksFinite DEF Blocks, NoBlock
  <2>3. free' = Blocks /\ blockfreespace' = MaxBlocks
    BY <1>5 DEF Emptying
  <2>4. Typed'
    BY <1>5, <2>3, EmptyIs DEF Typed, Emptying
  <2>5. (\A p \in Partitions : Packed(partition[p]))'
    BY <2>1, EmptyIs
  <2>6. OneSlot' /\ HeldOrFree'
    BY <2>1, <2>2, <2>3, EmptyIs DEF OneSlot, HeldOrFree, Blk
  <2> QED BY <2>3, <2>4, <2>5, <2>6, BlocksFinite DEF PoolInv
<1> QED BY <1>1, <1>2, <1>3, <1>4, <1>5 DEF Shape

LEMMA InitPool == Init => PoolInv
<1> SUFFICES ASSUME Init PROVE PoolInv
  OBVIOUS
<1>1. \A p \in Partitions : partition[p] = Empty
  BY DEF Init
<1>2. NoBlock \notin Blocks
  BY BlocksFinite DEF Blocks, NoBlock
<1>3. Typed /\ free = Blocks /\ blockfreespace = Cardinality(free)
  BY EmptyIs, BlocksFinite DEF Init, Typed
<1>4. \A p \in Partitions : Packed(partition[p])
  BY <1>1, EmptyIs
<1>5. OneSlot /\ HeldOrFree
  BY <1>1, <1>2, <1>3, EmptyIs DEF OneSlot, HeldOrFree, Blk
<1> QED BY <1>3, <1>4, <1>5 DEF PoolInv

-----------------------------------------------------------------------------
(* The transfer that is open. *)

Transfers == [type : {"invalid", "get", "getdel", "put"},
              part : Partitions \cup {NoPartition}, num : Partitions \cup {0},
              pos : 0..MaxBlocks, at : 0..MaxBlocks, upto : 0..MaxBlocks,
              cdwnum : Nat]

Open == asked # << >> /\ xfer.type # "invalid"

\* The sectors asked for are in the partition: all those of the transfer, or the
\* last ones of a put.  The number that a reset looks at is the partition's, but for
\* a get-then-delete.
TransferInv ==
  /\ xfer \in Transfers /\ asked \in Seq(Blocks)
  /\ Open =>
       /\ xfer.part \in Partitions /\ xfer.at <= xfer.upto
       /\ xfer.type = "getdel" \/ xfer.num = xfer.part
       /\ xfer.pos + xfer.upto <= partition[xfer.part].numblocks
       /\ IF xfer.type = "put"
            THEN /\ xfer.pos = 0 /\ Len(asked) <= xfer.upto
                 /\ asked = Sectors(partition[xfer.part], xfer.upto - Len(asked),
                                    Len(asked))
            ELSE /\ Len(asked) = xfer.upto
                 /\ asked = Sectors(partition[xfer.part], xfer.pos, xfer.upto)

\* p keeps the sectors it has, and may get more
KeepsFirst(p) ==
  /\ partition'[p].numblocks >= partition[p].numblocks
  /\ \A i \in Slots : i <= partition[p].numblocks =>
       partition'[p].block[i] = partition[p].block[i]

LEMMA NoTransferIs ==
  ASSUME TransferInv, xfer' = NoTransfer(xfer.num), asked' \in {asked, << >>}
  PROVE  TransferInv'
<1>1. xfer.num \in Partitions \cup {0}
  BY DEF TransferInv, Transfers
<1>2. NoTransfer(xfer.num) \in Transfers
  BY <1>1, BlocksFinite DEF NoTransfer, Transfers
<1>3. xfer' \in Transfers /\ xfer'.type = "invalid"
  BY <1>2 DEF NoTransfer
<1>4. asked \in Seq(Blocks) /\ << >> \in Seq(Blocks)
  BY DEF TransferInv
<1>5. asked' \in Seq(Blocks)
  BY <1>4, Zenon
<1> QED BY <1>3, <1>5 DEF TransferInv, Open

\* Sectors that stay are read as before.
LEMMA SameSectors ==
  ASSUME PoolInv, NEW p \in Partitions, KeepsFirst(p), NEW lo \in Nat, NEW n \in Nat,
         lo + n <= partition[p].numblocks
  PROVE  Sectors(partition'[p], lo, n) = Sectors(partition[p], lo, n)
<1>1. \A i \in 1..n : lo + i \in Slots /\ lo + i <= partition[p].numblocks
  BY BlocksFinite DEF PoolInv, Typed, Part, Slots
<1>2. \A i \in 1..n : partition'[p].block[lo + i] = partition[p].block[lo + i]
  BY <1>1 DEF KeepsFirst
<1> QED BY <1>2 DEF Sectors

\* A transfer goes on, a sector further or not.
LEMMA TransferStays ==
  ASSUME TransferInv, PoolInv, partition' \in [Partitions -> Part], asked' = asked,
         Open => KeepsFirst(xfer.part),
         \/ xfer' = xfer
         \/ xfer' = NextSector /\ xfer.at < xfer.upto
  PROVE  TransferInv'
<1>1. xfer \in Transfers
  BY DEF TransferInv
<1>2. xfer' \in Transfers /\ asked' \in Seq(Blocks)
  <2>1. CASE xfer' = NextSector /\ xfer.at < xfer.upto
    <3>1. xfer.at + 1 \in 0..MaxBlocks /\ xfer.cdwnum + 1 \in Nat
      BY <1>1, <2>1, BlocksFinite DEF Transfers
    <3> QED BY <1>1, <2>1, <3>1 DEF NextSector, Transfers, TransferInv
  <2>2. CASE xfer' = xfer
    BY <1>1, <2>2 DEF TransferInv
  <2> QED BY <2>1, <2>2
<1> SUFFICES ASSUME Open'
             PROVE  /\ xfer'.part \in Partitions /\ xfer'.at <= xfer'.upto
                    /\ xfer'.type = "getdel" \/ xfer'.num = xfer'.part
                    /\ xfer'.pos + xfer'.upto <= partition'[xfer'.part].numblocks
                    /\ IF xfer'.type = "put"
                         THEN /\ xfer'.pos = 0 /\ Len(asked') <= xfer'.upto
                              /\ asked' = Sectors(partition'[xfer'.part],
                                                  xfer'.upto - Len(asked'),
                                                  Len(asked'))
                         ELSE /\ Len(asked') = xfer'.upto
                              /\ asked' = Sectors(partition'[xfer'.part],
                                                  xfer'.pos, xfer'.upto)
  BY <1>2 DEF TransferInv
<1>3. /\ xfer'.type = xfer.type /\ xfer'.part = xfer.part /\ xfer'.pos = xfer.pos
      /\ xfer'.upto = xfer.upto /\ xfer'.num = xfer.num /\ xfer.type # "invalid"
      /\ xfer.at <= xfer.upto => xfer'.at <= xfer'.upto
  <2>1. xfer'.type # "invalid"
    BY DEF Open
  <2>2. CASE xfer' = xfer
    BY <2>1, <2>2
  <2>3. CASE xfer' = NextSector /\ xfer.at < xfer.upto
    BY <1>1, <2>1, <2>3 DEF NextSector, Transfers
  <2> QED BY <2>2, <2>3
<1>4. Open
  BY <1>3 DEF Open
<1> DEFINE p == xfer.part
<1>5. /\ p \in Partitions /\ KeepsFirst(p) /\ xfer.at <= xfer.upto
      /\ xfer.pos \in Nat /\ xfer.upto \in Nat /\ Len(asked) \in Nat
      /\ xfer.pos + xfer.upto <= partition[p].numblocks
      /\ xfer.type = "getdel" \/ xfer.num = p
  BY <1>1, <1>4 DEF TransferInv, Transfers
<1>6. xfer.pos + xfer.upto <= partition'[p].numblocks
  <2>1. partition[p] \in Part /\ partition'[p] \in Part
    BY <1>5 DEF PoolInv, Typed
  <2>2. /\ partition[p].numblocks \in Int /\ partition'[p].numblocks \in Int
        /\ partition'[p].numblocks >= partition[p].numblocks
    BY <1>5, <2>1 DEF Part, KeepsFirst
  <2> HIDE DEF p
  <2> QED BY <1>5, <2>2
<1>7. CASE xfer.type = "put"
  <2>1. xfer.pos = 0 /\ Len(asked) <= xfer.upto
        /\ asked = Sectors(partition[p], xfer.upto - Len(asked), Len(asked))
    BY <1>4, <1>7 DEF TransferInv
  <2>2. /\ xfer.upto - Len(asked) \in Nat
        /\ xfer.upto - Len(asked) + Len(asked) <= partition[p].numblocks
    BY <1>5, <2>1
  <2>3. Sectors(partition'[p], xfer.upto - Len(asked), Len(asked))
          = Sectors(partition[p], xfer.upto - Len(asked), Len(asked))
    BY <1>5, <2>2, SameSectors
  <2> QED BY <1>3, <1>5, <1>6, <1>7, <2>1, <2>3
<1>8. CASE xfer.type # "put"
  <2>1. Len(asked) = xfer.upto /\ asked = Sectors(partition[p], xfer.pos, xfer.upto)
    BY <1>4, <1>8 DEF TransferInv
  <2>2. Sectors(partition'[p], xfer.pos, xfer.upto)
          = Sectors(partition[p], xfer.pos, xfer.upto)
    BY <1>5, SameSectors
  <2> QED BY <1>3, <1>5, <1>6, <1>8, <2>1, <2>2
<1> QED BY <1>7, <1>8

-----------------------------------------------------------------------------
(* The operations, one by one. *)

\* The sectors a command names are in the partition.
LEMMA ExistIs ==
  ASSUME NEW pt \in Part, NEW offset \in Offsets, NEW num \in Counts,
         Exist(pt, offset, num)
  PROVE  /\ Offset(pt, offset) \in 0..MaxBlocks
         /\ Count(pt, offset, num) \in 1..MaxBlocks
         /\ Offset(pt, offset) + Count(pt, offset, num) <= pt.numblocks
         /\ num # NoCount => Count(pt, offset, num) = num
<1>1. pt.numblocks \in 0..MaxBlocks /\ MaxBlocks \in Nat
  BY BlocksFinite DEF Part
<1>2. Offset(pt, offset) \in 0..MaxBlocks
  BY <1>1, BlocksFinite DEF Exist, Offset, Offsets, NoCount
<1>3. Count(pt, offset, num) \in 1..(pt.numblocks - Offset(pt, offset))
  BY DEF Exist
<1>4. num # NoCount => Count(pt, offset, num) = num
  BY DEF Count
<1> QED BY <1>1, <1>2, <1>3, <1>4

LEMMA SectorsIs ==
  ASSUME PoolInv, NEW p \in Partitions, NEW lo \in Nat, NEW n \in Nat,
         lo + n <= partition[p].numblocks
  PROVE  /\ Sectors(partition[p], lo, n) \in Seq(Blocks)
         /\ Len(Sectors(partition[p], lo, n)) = n
<1>1. \A i \in 1..n : lo + i \in Slots /\ lo + i <= partition[p].numblocks
  BY BlocksFinite DEF PoolInv, Typed, Part, Slots
<1>2. partition[p] \in Part /\ Packed(partition[p])
  BY DEF PoolInv, Typed
<1>3. \A i \in 1..n : partition[p].block[lo + i] \in Blocks
  BY <1>1, <1>2 DEF Packed, Part
<1>4. Sectors(partition[p], lo, n) \in [1..n -> Blocks]
  BY <1>3 DEF Sectors
<1> QED BY <1>4

LEMMA Unchanged ==
  ASSUME PoolInv, isbufferfull \in BOOLEAN, UNCHANGED <<pool, partition>>
  PROVE  Shape /\ \A p \in Partitions : KeepsFirst(p)
<1>1. Shape
  BY DEF PoolInv, Typed, pool, Sitting, Shape
<1>2. \A p \in Partitions : partition[p].numblocks \in Int
  BY DEF PoolInv, Typed, Part
<1> QED BY <1>1, <1>2 DEF KeepsFirst

\* A get, with or without a deletion to come.
LEMMA GetStep ==
  ASSUME PoolInv, TransferInv, isbufferfull \in BOOLEAN,
         NEW p \in Partitions, NEW o \in Offsets, NEW n \in Counts,
         GetSectorData(p, o, n) \/ GetThenDeleteSectorData(p, o, n)
  PROVE  Shape /\ TransferInv'
<1> DEFINE lo == Offset(partition[p], o)
           k == Count(partition[p], o, n)
<1>1. \E type \in {"get", "getdel"} :
        xfer' = [type |-> type, part |-> p,
                 num |-> IF type = "getdel" THEN xfer.num ELSE p,
                 pos |-> lo, at |-> 0, upto |-> k, cdwnum |-> 0]
  BY DEF GetSectorData, GetThenDeleteSectorData, Transfer
<1>2. /\ asked' = Sectors(partition[p], lo, k) /\ UNCHANGED <<pool, partition>>
      /\ Exist(partition[p], o, n)
  BY DEF GetSectorData, GetThenDeleteSectorData
<1>3. partition[p] \in Part /\ MaxBlocks \in Nat
  BY BlocksFinite DEF PoolInv, Typed
<1>4. lo \in 0..MaxBlocks /\ k \in 1..MaxBlocks /\ lo + k <= partition[p].numblocks
  BY <1>2, <1>3, ExistIs
<1>5. asked' \in Seq(Blocks) /\ Len(asked') = k
  BY <1>2, <1>3, <1>4, SectorsIs
<1> HIDE DEF lo, k
<1>6. xfer' \in Transfers
  <2>1. xfer.num \in Partitions \cup {0}
    BY DEF TransferInv, Transfers
  <2> QED BY <1>1, <1>3, <1>4, <2>1 DEF Transfers
<1>7. /\ xfer'.part = p /\ xfer'.pos = lo /\ xfer'.at = 0 /\ xfer'.upto = k
      /\ xfer'.type # "put" /\ (xfer'.type = "getdel" \/ xfer'.num = p)
  BY <1>1
<1>8. partition' = partition /\ 0 <= k
  BY <1>2, <1>4
<1>9. TransferInv'
  BY <1>2, <1>4, <1>5, <1>6, <1>7, <1>8 DEF TransferInv
<1> QED BY <1>2, <1>9, Unchanged

\* n sectors of p are freed, and its size shrinks by x.
LEMMA TakenOut ==
  ASSUME PoolInv, NEW p \in Partitions, NEW lo \in 0..MaxBlocks,
         NEW n \in 0..MaxBlocks, lo + n <= partition[p].numblocks, NEW x \in Int,
         Free(partition[p], lo, n),
         partition' = [partition EXCEPT ![p] =
           [WithoutSlots(partition[p], lo, n) EXCEPT !.size = @ - x]]
  PROVE  Shape
<1> DEFINE z == partition[p].size - x
           d == [WithoutSlots(partition[p], lo, n) EXCEPT !.size = z]
<1>1. /\ partition[p] \in Part /\ Packed(partition[p])
      /\ partition \in [Partitions -> Part] /\ lo \in Nat /\ n \in Nat
  BY BlocksFinite DEF PoolInv, Typed
<1>2. z \in Int
  BY <1>1 DEF Part
<1>3. [WithoutSlots(partition[p], lo, n) EXCEPT !.size = @ - x] = d
  <2>1. WithoutSlots(partition[p], lo, n).size = partition[p].size
    BY <1>1 DEF WithoutSlots, Part
  <2> QED BY <2>1
<1>4. partition' = [partition EXCEPT ![p] = d]
  BY <1>3, Zenon
<1>5. d \in Part /\ Shrunk(partition[p], d, lo, n)
  BY <1>1, <1>2, WithoutSlotsIs
<1> HIDE DEF d
<1>6. partition' \in [Partitions -> Part] /\ partition'[p] = d /\ Others({p})
  BY <1>1, <1>4, <1>5 DEF Others
<1> QED BY <1>5, <1>6 DEF Shape, Removing

LEMMA DeleteStep ==
  ASSUME PoolInv, TransferInv,
         NEW p \in Partitions, NEW o \in Offsets, NEW n \in Counts,
         DeleteSectorData(p, o, n)
  PROVE  Shape /\ TransferInv'
<1> DEFINE lo == Offset(partition[p], o)
           k == Count(partition[p], o, n)
<1>1. partition[p] \in Part /\ MaxBlocks \in Nat
  BY BlocksFinite DEF PoolInv, Typed
<1>2. /\ Free(partition[p], lo, k) /\ Exist(partition[p], o, n)
      /\ asked = << >> /\ xfer' = xfer /\ asked' = asked
      /\ partition' = [partition EXCEPT ![p] =
           [WithoutSlots(partition[p], lo, k) EXCEPT !.size = @ - k]]
  BY DEF DeleteSectorData
<1>3. lo \in 0..MaxBlocks /\ k \in 0..MaxBlocks /\ lo + k <= partition[p].numblocks
      /\ k \in Int
  BY <1>1, <1>2, ExistIs
<1> HIDE DEF lo, k
<1>4. Shape
  BY <1>2, <1>3, TakenOut
<1>5. TransferInv'
  BY <1>2, <1>4, TransferStays DEF Open, Shape
<1> QED BY <1>4, <1>5

\* n blocks are taken and put behind those of p.
LEMMA PutIn ==
  ASSUME PoolInv, NEW p \in Partitions, NEW n \in 1..Cardinality(free), Take(n),
         NEW x \in Int,
         partition' = [partition EXCEPT ![p] =
           [WithBlocks(partition[p], FirstFree(n)) EXCEPT !.size = x]]
  PROVE  /\ Shape /\ \A r \in Partitions : KeepsFirst(r)
         /\ partition[p].numblocks + n <= MaxBlocks
         /\ partition'[p].numblocks = partition[p].numblocks + n
         /\ Sectors(partition'[p], partition[p].numblocks, n) = FirstFree(n)
         /\ FirstFree(n) \in Seq(Blocks) /\ Len(FirstFree(n)) = n
<1> DEFINE bs == FirstFree(n)
           m == partition[p].numblocks
           d == [WithBlocks(partition[p], bs) EXCEPT !.size = x]
<1>1. /\ partition[p] \in Part /\ partition \in [Partitions -> Part]
      /\ m \in Nat /\ MaxBlocks \in Nat /\ free \subseteq Blocks
  BY BlocksFinite DEF PoolInv, Typed, Part
<1>2. m + n <= MaxBlocks /\ n \in 0..Cardinality(free) /\ n \in Nat
  BY <1>1, OneFits
<1>3. /\ bs \in Seq(Blocks) /\ Len(bs) = n /\ bs \in [1..n -> free]
  BY <1>1, <1>2, FirstFreeIs
<1> HIDE DEF bs
<1>4. d \in Part /\ Grown(partition[p], d, bs)
  BY <1>1, <1>2, <1>3, WithBlocksIs
<1>5. partition' = [partition EXCEPT ![p] = d]
  BY Zenon DEF d, bs
<1> HIDE DEF d
<1>6. partition' \in [Partitions -> Part] /\ partition'[p] = d /\ Others({p})
  BY <1>1, <1>4, <1>5 DEF Others
<1>7. Shape
  BY <1>4, <1>6 DEF Shape, Adding, bs
<1>8. ASSUME NEW r \in Partitions PROVE KeepsFirst(r)
  <2>1. CASE r = p
    <3>1. d.numblocks = m + n /\ m + n >= m
      BY <1>1, <1>2, <1>3, <1>4 DEF Grown
    <3>2. ASSUME NEW i \in Slots, i <= m
          PROVE  d.block[i] = partition[p].block[i]
      <4>1. i - m \notin 1..Len(bs)
        BY <1>1, <3>2 DEF Slots
      <4> QED BY <1>4, <4>1 DEF Grown
    <3> QED BY <1>6, <2>1, <3>1, <3>2 DEF KeepsFirst
  <2>2. CASE r # p
    <3>1. partition[r].numblocks \in Int
      BY <1>1 DEF Part
    <3> QED BY <1>6, <2>2, <3>1 DEF KeepsFirst, Others
  <2> QED BY <2>1, <2>2
<1>9. d.numblocks = m + n
  BY <1>3, <1>4 DEF Grown
<1>10. Sectors(d, m, n) = bs
  <2>1. ASSUME NEW i \in 1..n PROVE d.block[m + i] = bs[i]
    <3> DEFINE j == m + i
    <3>1. j \in Slots /\ j - m = i /\ i \in 1..Len(bs)
      BY <1>1, <1>2, <1>3 DEF Slots
    <3> HIDE DEF j
    <3>2. d.block[j] = bs[j - m]
      BY <1>4, <3>1 DEF Grown
    <3> QED BY <3>1, <3>2 DEF j
  <2>2. bs = [i \in 1..n |-> bs[i]]
    BY <1>3
  <2> QED BY <2>1, <2>2 DEF Sectors
<1> QED BY <1>2, <1>3, <1>6, <1>7, <1>8, <1>9, <1>10 DEF bs

LEMMA PutStep ==
  ASSUME PoolInv, TransferInv, NEW p \in Partitions, NEW n \in 1..MaxBlocks,
         PutSectorData(p, n)
  PROVE  Shape /\ TransferInv'
<1> DEFINE m == partition[p].numblocks
<1>1. m \in Nat /\ MaxBlocks \in Nat /\ blockfreespace = Cardinality(free)
      /\ Cardinality(free) \in Nat
  BY BlocksFinite, OneFits DEF PoolInv, Typed, Part
<1>2. /\ n <= blockfreespace /\ Take(n) /\ asked' = FirstFree(n)
      /\ xfer' = [type |-> "put", part |-> p, num |-> p, pos |-> 0, at |-> m,
                  upto |-> m + n, cdwnum |-> 0]
      /\ partition' = [partition EXCEPT ![p] =
           [WithBlocks(partition[p], FirstFree(n)) EXCEPT !.size = n]]
  BY DEF PutSectorData, Transfer
<1>3. n \in 1..Cardinality(free) /\ n \in Int /\ n \in Nat
  BY <1>1, <1>2
<1>4. /\ Shape /\ m + n <= MaxBlocks /\ partition'[p].numblocks = m + n
      /\ Sectors(partition'[p], m, n) = FirstFree(n)
      /\ FirstFree(n) \in Seq(Blocks) /\ Len(FirstFree(n)) = n
  BY <1>2, <1>3, PutIn
<1> HIDE DEF m
<1>5. xfer' \in Transfers
  BY <1>1, <1>2, <1>3, <1>4 DEF Transfers
<1>6. /\ xfer'.part = p /\ xfer'.pos = 0 /\ xfer'.at = m /\ xfer'.upto = m + n
      /\ xfer'.type = "put" /\ xfer'.num = p
  BY <1>2
<1>7. /\ Len(asked') = n /\ m + n - n = m /\ n <= m + n /\ m <= m + n
      /\ 0 + (m + n) <= m + n
  BY <1>1, <1>2, <1>3, <1>4
<1>8. TransferInv'
  <2>1. asked' \in Seq(Blocks) /\ asked' = Sectors(partition'[p], m, n)
    BY <1>2, <1>4
  <2>2. xfer'.upto - Len(asked') = m
    <3> DEFINE u == xfer'.upto
               k == Len(asked')
    <3>1. u = m + n /\ k = n
      BY <1>6, <1>7
    <3> HIDE DEF u, k
    <3>2. u - k = m
      BY <1>1, <1>3, <3>1
    <3> QED BY <3>2 DEF u, k
  <2>3. asked' = Sectors(partition'[xfer'.part], xfer'.upto - Len(asked'), Len(asked'))
    BY <1>6, <1>7, <2>1, <2>2
  <2>4. /\ xfer'.part \in Partitions /\ xfer'.at <= xfer'.upto
        /\ xfer'.pos + xfer'.upto <= partition'[xfer'.part].numblocks
        /\ xfer'.pos = 0 /\ Len(asked') <= xfer'.upto
    BY <1>4, <1>6, <1>7, Zenon
  <2> QED BY <1>5, <1>6, <2>1, <2>3, <2>4 DEF TransferInv
<1> QED BY <1>4, <1>8

LEMMA CopyStep ==
  ASSUME PoolInv, TransferInv, NEW p \in Partitions, NEW dest \in Partitions,
         NEW o \in Offsets, NEW n \in Counts, CopySectorData(p, o, n, dest)
  PROVE  Shape /\ TransferInv'
<1> DEFINE x == partition[dest].size + n
<1>1. /\ partition[p] \in Part /\ partition[dest] \in Part /\ MaxBlocks \in Nat
      /\ blockfreespace = Cardinality(free) /\ Cardinality(free) \in Nat
  BY BlocksFinite, OneFits DEF PoolInv, Typed
<1>2. /\ n <= blockfreespace /\ n # NoCount /\ Take(n)
      /\ asked = << >> /\ asked' = asked /\ xfer' = xfer
      /\ partition' = [partition EXCEPT ![dest] =
           [WithBlocks(partition[dest], FirstFree(n)) EXCEPT !.size = @ + n]]
  BY DEF CopySectorData
<1>3. n \in 1..Cardinality(free) /\ x \in Int
  BY <1>1, <1>2 DEF Counts, Part
<1>4. [WithBlocks(partition[dest], FirstFree(n)) EXCEPT !.size = @ + n]
        = [WithBlocks(partition[dest], FirstFree(n)) EXCEPT !.size = x]
  <2>1. WithBlocks(partition[dest], FirstFree(n)).size = partition[dest].size
    BY <1>1 DEF WithBlocks, Part
  <2> QED BY <2>1
<1> HIDE DEF x
<1>5. partition' = [partition EXCEPT ![dest] =
        [WithBlocks(partition[dest], FirstFree(n)) EXCEPT !.size = x]]
  BY <1>2, <1>4, Zenon
<1>6. Shape
  BY <1>2, <1>3, <1>5, PutIn
<1>7. TransferInv'
  BY <1>2, <1>6, TransferStays DEF Open, Shape
<1> QED BY <1>6, <1>7

LEMMA MoveStep ==
  ASSUME PoolInv, TransferInv, NEW p \in Partitions, NEW dest \in Partitions,
         NEW o \in Offsets, NEW n \in Counts, MoveSectorData(p, o, n, dest)
  PROVE  Shape /\ TransferInv'
<1> DEFINE lo == Offset(partition[p], o)
           bs == Sectors(partition[p], lo, n)
           x == partition[p].size - n
           y == partition[dest].size + n
           d == [WithoutSlots(partition[p], lo, n) EXCEPT !.size = x]
           e == [WithBlocks(partition[dest], bs) EXCEPT !.size = y]
<1>1. /\ partition \in [Partitions -> Part] /\ partition[p] \in Part
      /\ partition[dest] \in Part /\ Packed(partition[p])
      /\ MaxBlocks \in Nat /\ isbufferfull' = isbufferfull
  BY BlocksFinite DEF PoolInv, Typed, MoveSectorData, pool
<1>2. /\ Exist(partition[p], o, n) /\ n # NoCount /\ p # dest /\ asked = << >>
      /\ asked' = asked /\ xfer' = xfer /\ UNCHANGED pool
  BY DEF MoveSectorData
<1>3. /\ lo \in 0..MaxBlocks /\ n \in 0..MaxBlocks /\ n \in Nat /\ lo \in Nat
      /\ lo + n <= partition[p].numblocks
  BY <1>1, <1>2, ExistIs
<1>4. x \in Int /\ y \in Int
  BY <1>1, <1>3 DEF Part
<1>5. /\ WithoutSlots(partition[p], lo, n).size = partition[p].size
      /\ WithBlocks(partition[dest], bs).size = partition[dest].size
  BY <1>1 DEF WithoutSlots, WithBlocks, Part
<1>6. /\ d = [WithoutSlots(partition[p], lo, n) EXCEPT !.size = @ - n]
      /\ e = [WithBlocks(partition[dest], bs) EXCEPT !.size = @ + n]
  BY <1>5
<1>7. partition' = [partition EXCEPT ![p] = d, ![dest] = e]
  <2> HIDE DEF d, e
  <2>1. partition' = [partition EXCEPT
          ![p]    = [WithoutSlots(partition[p], lo, n) EXCEPT !.size = @ - n],
          ![dest] = [WithBlocks(partition[dest], bs) EXCEPT !.size = @ + n]]
    BY Zenon DEF MoveSectorData
  <2> QED BY <1>6, <2>1, Zenon
<1>8. bs \in Seq(Blocks) /\ Len(bs) = n
  BY <1>3, SectorsIs
<1>9. partition[p].numblocks + partition[dest].numblocks <= MaxBlocks
  BY <1>2, TwoFit
<1>10. partition[dest].numblocks + Len(bs) <= MaxBlocks
  <2>1. partition[p].numblocks \in Int /\ partition[dest].numblocks \in Int
    BY <1>1 DEF Part
  <2> QED BY <1>1, <1>3, <1>8, <1>9, <2>1
<1> HIDE DEF bs, lo, x, y
<1>11. d \in Part /\ Shrunk(partition[p], d, lo, n)
  BY <1>1, <1>3, <1>4, WithoutSlotsIs
<1>12. e \in Part /\ Grown(partition[dest], e, bs)
  BY <1>1, <1>4, <1>8, <1>10, WithBlocksIs
<1> HIDE DEF d, e
<1>13. /\ partition' \in [Partitions -> Part] /\ partition'[p] = d
       /\ partition'[dest] = e /\ Others({p, dest})
  BY <1>1, <1>2, <1>7, <1>11, <1>12 DEF Others
<1>14. Moving
  <2>1. /\ p # dest /\ lo + n <= partition[p].numblocks /\ UNCHANGED pool
        /\ Shrunk(partition[p], partition'[p], lo, n)
        /\ Grown(partition[dest], partition'[dest], Sectors(partition[p], lo, n))
        /\ Others({p, dest})
    BY <1>2, <1>3, <1>11, <1>12, <1>13 DEF bs
  <2> QED BY <1>3, <2>1 DEF Moving
<1>15. TransferInv'
  BY <1>2, <1>13, TransferStays DEF Open
<1> QED BY <1>13, <1>14, <1>15 DEF Shape

\* A transfer of p ends: a get and a put by their number, and the program that opened
\* a get-then-delete leaves its partition alone.
LEMMA ResetStep ==
  ASSUME ~ResetOpen, PoolInv, TransferInv, NEW p \in Partitions, ResetPartition(p)
  PROVE  Shape /\ TransferInv'
<1> DEFINE m == partition[p].numblocks
           d == [block |-> [i \in Slots |-> IF i <= m THEN NoBlock
                                                      ELSE partition[p].block[i]],
                 numblocks |-> 0, size |-> 0]
<1>1. /\ partition \in [Partitions -> Part] /\ Packed(partition[p])
      /\ partition[p] \in Part /\ MaxBlocks \in Nat /\ m \in 0..MaxBlocks
  BY BlocksFinite DEF PoolInv, Typed, Part
<1>2. Free(partition[p], 0, m) /\ partition' = [partition EXCEPT ![p] = d]
  BY Zenon DEF ResetPartition
<1>3. d \in Part
  BY <1>1 DEF Part
<1>4. Shrunk(partition[p], d, 0, m)
  <2>1. \A i \in Slots : d.block[i] = NoBlock /\ ~(i <= 0) /\ ~(i <= m - m)
    BY <1>1 DEF Packed, Slots
  <2>2. d.numblocks = m - m
    BY <1>1
  <2> HIDE DEF d
  <2> QED BY <2>1, <2>2 DEF Shrunk
<1> HIDE DEF d
<1>5. partition' \in [Partitions -> Part] /\ partition'[p] = d /\ Others({p})
  BY <1>1, <1>2, <1>3 DEF Others
<1>6. 0 + m <= m /\ 0 \in 0..MaxBlocks
  BY <1>1
<1>7. Shape
  BY <1>1, <1>2, <1>4, <1>5, <1>6 DEF Shape, Removing
<1>8. asked' = asked /\ xfer' = IF EndsTransfer(p) THEN NoTransfer(xfer.num) ELSE xfer
  BY DEF ResetPartition
<1>9. CASE EndsTransfer(p)
  BY <1>7, <1>8, <1>9, NoTransferIs
<1>10. CASE ~EndsTransfer(p)
  <2>1. ASSUME Open PROVE KeepsFirst(xfer.part)
    <3>1. xfer.part \in Partitions /\ (xfer.type = "getdel" \/ xfer.num = xfer.part)
      BY <2>1 DEF TransferInv
    <3>2. xfer.part # p
      BY <1>10, <2>1, <3>1 DEF ResetPartition, EndsTransfer, Open
    <3>3. partition'[xfer.part] = partition[xfer.part]
          /\ partition[xfer.part].numblocks \in Int
      BY <1>1, <1>5, <3>1, <3>2 DEF Others, Part
    <3> QED BY <3>3 DEF KeepsFirst
  <2>2. xfer' = xfer
    BY <1>8, <1>10
  <2> QED BY <1>5, <1>7, <1>8, <2>1, <2>2, TransferStays
<1> QED BY <1>9, <1>10

\* The end of a get-then-delete takes out what it was of.
LEMMA DeleteTransferredStep ==
  ASSUME PoolInv, TransferInv, Open, xfer.type # "put", DeleteTransferred
  PROVE  Shape
<1> DEFINE p == xfer.part
<1>1. /\ p \in Partitions /\ xfer.pos \in 0..MaxBlocks /\ xfer.upto \in 0..MaxBlocks
      /\ xfer.pos + xfer.upto <= partition[p].numblocks /\ xfer.cdwnum \in Int
  BY DEF TransferInv, Transfers
<1>2. /\ Free(partition[p], xfer.pos, xfer.upto)
      /\ partition' = [partition EXCEPT ![p] =
           [WithoutSlots(partition[p], xfer.pos, xfer.upto) EXCEPT
              !.size = @ - xfer.cdwnum]]
  BY DEF DeleteTransferred
<1> HIDE DEF p
<1> QED BY <1>1, <1>2, TakenOut

LEMMA PortStep ==
  ASSUME PoolInv, TransferInv, isbufferfull \in BOOLEAN, Port \/ EndDataTransfer
  PROVE  Shape /\ TransferInv'
<1>1. CASE ReadPort \/ WritePort
  <2>1. /\ UNCHANGED <<pool, partition>> /\ asked' = asked /\ xfer' = NextSector
        /\ xfer.at < xfer.upto
    BY <1>1 DEF ReadPort, WritePort
  <2>2. Shape /\ \A p \in Partitions : KeepsFirst(p)
    BY <2>1, Unchanged
  <2>3. Open => xfer.part \in Partitions
    BY DEF TransferInv
  <2> QED BY <2>1, <2>2, <2>3, TransferStays DEF Shape
<1>2. CASE ReadBeyond
  <2>1. Open /\ xfer.type # "put" /\ DeleteTransferred
    BY <1>2 DEF ReadBeyond, Open
  <2>2. Shape
    BY <2>1, DeleteTransferredStep
  <2>3. asked' = asked /\ xfer' = NoTransfer(xfer.num)
    BY <1>2 DEF ReadBeyond
  <2> QED BY <2>2, <2>3, NoTransferIs
<1>3. CASE EndDataTransfer
  <2>1. TransferInv'
    BY <1>3, NoTransferIs DEF EndDataTransfer
  <2>2. CASE xfer.type = "getdel" /\ partition[xfer.part].size > 0
    <3>1. Open /\ xfer.type # "put" /\ DeleteTransferred
      BY <1>3, <2>2 DEF EndDataTransfer, Open
    <3> QED BY <2>1, <3>1, DeleteTransferredStep
  <2>3. CASE ~(xfer.type = "getdel" /\ partition[xfer.part].size > 0)
    <3>1. UNCHANGED <<pool, partition>>
      BY <1>3, <2>3 DEF EndDataTransfer
    <3> QED BY <2>1, <3>1, Unchanged
  <2> QED BY <2>2, <2>3
<1> QED BY <1>1, <1>2, <1>3 DEF Port

\* The drive puts a sector behind the others of its partition.
LEMMA PlayStep ==
  ASSUME PoolInv, TransferInv, PlaySector
  PROVE  Shape /\ TransferInv'
<1> DEFINE q == Destination(FAD)
<1>1. asked' = asked /\ xfer' = xfer /\ ~isbufferfull /\ Store
  BY DEF PlaySector
<1>2. CASE Stored
  <2>1. q \in Partitions /\ free # {}
    BY <1>2, DiscAssumption DEF Stored, Destination
  <2>2. 1 \in 1..Cardinality(free)
    <3>1. IsFiniteSet(free)
      <4>1. free \in SUBSET Blocks
        BY DEF PoolInv, Typed
      <4> QED BY <4>1, BlocksFinite, FS_Subset
    <3>2. Cardinality(free) \in Nat /\ Cardinality(free) # 0
      BY <2>1, <3>1, FS_EmptySet, FS_CardinalityType
    <3> QED BY <3>2
  <2> DEFINE pt == partition[q]
             x == pt.size + 1
  <2>3. Take(1) /\ partition' = [partition EXCEPT ![q] =
                     [WithBlocks(pt, FirstFree(1)) EXCEPT !.size = @ + 1]]
    BY <1>1, <1>2 DEF Store
  <2>4. x \in Int /\ WithBlocks(pt, FirstFree(1)).size = pt.size
    <3>1. pt \in Part
      BY <2>1 DEF PoolInv, Typed
    <3> QED BY <3>1 DEF WithBlocks, Part
  <2>5. partition' = [partition EXCEPT ![q] =
                       [WithBlocks(pt, FirstFree(1)) EXCEPT !.size = x]]
    BY <2>3, <2>4
  <2> DEFINE n == 1
  <2> HIDE DEF q, x
  <2>6. Shape /\ \A r \in Partitions : KeepsFirst(r)
    <3>1. /\ n \in 1..Cardinality(free) /\ Take(n)
          /\ partition' = [partition EXCEPT ![q] =
                             [WithBlocks(partition[q], FirstFree(n)) EXCEPT !.size = x]]
      BY <2>2, <2>3, <2>5
    <3> HIDE DEF n
    <3> QED BY <2>1, <2>4, <3>1, PutIn
  <2>7. Open => xfer.part \in Partitions
    BY DEF TransferInv
  <2> QED BY <1>1, <2>6, <2>7, TransferStays DEF Shape
<1>3. CASE ~Stored
  <2>1. /\ isbufferfull' \in BOOLEAN
        /\ UNCHANGED <<free, blockfreespace, partition>>
    BY <1>1, <1>3 DEF Store
  <2>2. Shape
    BY <1>1, <2>1 DEF Shape, Sitting, PoolInv, Typed
  <2>3. ASSUME NEW r \in Partitions PROVE KeepsFirst(r)
    <3>1. partition[r].numblocks \in Int
      BY DEF PoolInv, Typed, Part
    <3> QED BY <2>1, <3>1 DEF KeepsFirst
  <2>4. Open => xfer.part \in Partitions
    BY DEF TransferInv
  <2> QED BY <1>1, <2>2, <2>3, <2>4, TransferStays DEF Shape
<1> QED BY <1>2, <1>3

\* A reset empties the buffer.
LEMMA EmptyStep == ASSUME TransferInv, EmptyAll PROVE Shape /\ TransferInv'
<1>1. Shape
  BY EmptyIs DEF EmptyAll, Shape, Emptying
<1> QED BY <1>1, NoTransferIs DEF EmptyAll

\* The commands that move the drive leave the buffer alone, but for a soft reset.
DriveCommand ==
  \/ Restart \/ Connect \/ Disconnect
  \/ Resume \/ StopDisc \/ MakeBusy("pause") \/ OpenTray \/ AbortFile
  \/ \E reset \in {TRUE, ~SoftInit} : InitializeCDSystem(reset)

LEMMA DriveCommandStep ==
  ASSUME PoolInv, TransferInv, isbufferfull \in BOOLEAN, DriveCommand
  PROVE  Shape /\ TransferInv'
<1>1. CASE UNCHANGED <<pool, partition, xfer, asked>>
  <2>1. Shape /\ \A p \in Partitions : KeepsFirst(p)
    BY <1>1, Unchanged
  <2>2. Open => xfer.part \in Partitions
    BY DEF TransferInv
  <2> QED BY <1>1, <2>1, <2>2, TransferStays DEF Shape
<1>2. CASE AbortFile
  <2>1. /\ UNCHANGED <<pool, partition>>
        /\ xfer' = NoTransfer(xfer.num) /\ asked' = << >>
    BY <1>2 DEF AbortFile
  <2> QED BY <2>1, Unchanged, NoTransferIs
<1>3. ASSUME NEW reset \in {TRUE, ~SoftInit}, InitializeCDSystem(reset)
      PROVE  Shape /\ TransferInv'
  <2>1. CASE reset
    BY <1>3, <2>1, EmptyStep DEF InitializeCDSystem
  <2>2. CASE ~reset
    <3>1. /\ isbufferfull' = FALSE
          /\ UNCHANGED <<free, blockfreespace, partition, xfer, asked>>
      BY <1>3, <2>2 DEF InitializeCDSystem
    <3>2. SoftInit
      BY <2>2
    <3>3. Shape
      BY <3>1, <3>2 DEF Shape, Sitting, PoolInv, Typed
    <3>4. ASSUME NEW r \in Partitions PROVE KeepsFirst(r)
      <4>1. partition[r].numblocks \in Int
        BY DEF PoolInv, Typed, Part
      <4> QED BY <3>1, <4>1 DEF KeepsFirst
    <3>5. Open => xfer.part \in Partitions
      BY DEF TransferInv
    <3> QED BY <3>1, <3>3, <3>4, <3>5, TransferStays DEF Shape
  <2> QED BY <2>1, <2>2
<1>4. Restart => UNCHANGED <<pool, partition, xfer, asked>>
  BY DEF Restart, PlayDisc, ReadFile, SeekDisc
<1>5. (Connect \/ Disconnect \/ Resume \/ StopDisc \/ MakeBusy("pause") \/ OpenTray)
        => UNCHANGED <<pool, partition, xfer, asked>>
  BY DEF Connect, Disconnect, SetCDDeviceConnection, Resume, StopDisc, MakeBusy, OpenTray
<1> QED BY <1>1, <1>2, <1>3, <1>4, <1>5 DEF DriveCommand

\* Each step uses the pool in one of these ways and keeps the transfer.
LEMMA NextShape ==
  ASSUME ~ResetOpen, PoolInv, TransferInv, isbufferfull \in BOOLEAN, [Next]_vars
  PROVE  Shape /\ TransferInv'
<1>1. CASE Command
  <2>1. CASE DriveCommand
    BY <2>1, DriveCommandStep
  <2>2. ASSUME NEW p \in Partitions, NEW o \in Offsets, NEW n \in Counts,
               \/ GetSectorData(p, o, n) \/ GetThenDeleteSectorData(p, o, n)
               \/ DeleteSectorData(p, o, n)
               \/ \E dest \in Partitions :
                    CopySectorData(p, o, n, dest) \/ MoveSectorData(p, o, n, dest)
        PROVE  Shape /\ TransferInv'
    BY <2>2, GetStep, DeleteStep, CopyStep, MoveStep
  <2>3. ASSUME NEW p \in Partitions, ResetPartition(p) PROVE Shape /\ TransferInv'
    BY <2>3, ResetStep
  <2>4. ASSUME NEW p \in Partitions, NEW n \in 1..MaxBlocks, PutSectorData(p, n)
        PROVE  Shape /\ TransferInv'
    BY <2>4, PutStep
  <2>5. ASSUME NEW data \in BOOLEAN, ResetSelector(data) PROVE Shape /\ TransferInv'
    <3>1. CASE data
      BY <2>5, <3>1, EmptyStep DEF ResetSelector
    <3>2. CASE ~data
      <4>1. UNCHANGED <<pool, partition, xfer, asked>>
        BY <2>5, <3>2 DEF ResetSelector
      <4>2. Shape /\ \A p \in Partitions : KeepsFirst(p)
        BY <4>1, Unchanged
      <4>3. Open => xfer.part \in Partitions
        BY DEF TransferInv
      <4> QED BY <4>1, <4>2, <4>3, TransferStays DEF Shape
    <3> QED BY <3>1, <3>2
  <2>6. CASE EndDataTransfer
    BY <2>6, PortStep
  <2> QED BY <1>1, <2>1, <2>2, <2>3, <2>4, <2>5, <2>6, Zenon DEF Command, DriveCommand
<1>2. CASE Port
  BY <1>2, PortStep
<1>3. CASE PlaySector
  BY <1>3, PlayStep
<1>4. CASE UNCHANGED <<pool, partition, xfer, asked>>
  <2>1. Shape /\ \A p \in Partitions : KeepsFirst(p)
    BY <1>4, Unchanged
  <2>2. Open => xfer.part \in Partitions
    BY DEF TransferInv
  <2> QED BY <1>4, <2>1, <2>2, TransferStays DEF Shape
<1>5. (Periodic \/ \E disc \in {"in", "out", "open"} : DriveStatus(disc))
        => UNCHANGED <<pool, partition, xfer, asked>>
  BY DEF Periodic, DriveStatus
<1>6. ASSUME NEW state \in {"pause", "nodisc", "open"}, Reset(state)
      PROVE  Shape /\ TransferInv'
  BY <1>6, EmptyStep DEF Reset
<1>7. UNCHANGED vars => UNCHANGED <<pool, partition, xfer, asked>>
  BY DEF vars, pool
<1> QED BY <1>1, <1>2, <1>3, <1>4, <1>5, <1>6, <1>7, Zenon DEF Next, Drive

-----------------------------------------------------------------------------
(* The drive, and the room it has. *)

Plays == [from : Int, end : Int, repcnt : 0..255, maxrepeat : 0..14]

\* What the drive becomes is known while it is busy.
DriveInv ==
  /\ status \in Statuses /\ nextStatus \in {"none", "pause", "standby"}
  /\ status = "busy" => nextStatus # "none"
  /\ FAD \in Int /\ play \in Plays /\ connected \in BOOLEAN

\* A buffer without a free block is known to be full, unless a soft initialisation
\* has said otherwise.
RoomInv ==
  isbufferfull \in BOOLEAN /\ (~SoftInit /\ free = {} => isbufferfull)

IInv == PoolInv /\ TransferInv /\ DriveInv /\ RoomInv

LEMMA RangesIs ==
  ASSUME NEW range \in Ranges
  PROVE  range[1] \in Int /\ range[2] \in Int
<1>1. range \in FADs \X (Nat \ {0}) /\ FADs \subseteq Nat
  BY DiscAssumption
<1>2. range[1] \in FADs /\ range[2] \in Nat \ {0}
  BY <1>1
<1>3. range[1] \in Nat /\ range[2] \in Nat
  BY <1>1, <1>2, Zenon
<1> QED BY <1>3

\* The commands that move the drive leave it in a state that is defined.
LEMMA DriveCommandDrive == ASSUME DriveInv, DriveCommand PROVE DriveInv'
<1> USE DEF Statuses
<1>1. CASE Restart
  <2>1. PICK range \in Ranges :
          \/ \E repeats \in MaxRepeats : PlayDisc(range[1], range[2], repeats)
          \/ ReadFile(range[1], range[2]) \/ SeekDisc(range[1])
    BY <1>1 DEF Restart
  <2>2. range[1] \in Int /\ range[1] + range[2] \in Int
    BY RangesIs
  <2>3. ASSUME NEW repeats \in MaxRepeats, PlayDisc(range[1], range[2], repeats)
        PROVE  DriveInv'
    <3>1. repeats \in 0..14
      BY DiscAssumption
    <3> QED BY <2>2, <2>3, <3>1 DEF PlayDisc, DriveInv, Plays
  <2>4. CASE ReadFile(range[1], range[2])
    BY <2>2, <2>4 DEF ReadFile, Becomes, DriveInv, Plays
  <2>5. CASE SeekDisc(range[1])
    BY <2>2, <2>5 DEF SeekDisc, DriveInv, Plays
  <2> QED BY <2>1, <2>3, <2>4, <2>5
<1>2. CASE Resume
  BY <1>2 DEF Resume, DriveInv
<1>8. CASE Connect \/ Disconnect
  BY <1>8 DEF Connect, Disconnect, SetCDDeviceConnection, DriveInv
<1>3. CASE StopDisc
  BY <1>3 DEF StopDisc, DriveInv, Plays
<1>4. CASE MakeBusy("pause")
  BY <1>4 DEF MakeBusy, DriveInv
<1>5. CASE OpenTray
  BY <1>5 DEF OpenTray, Becomes, DriveInv
<1>6. CASE AbortFile
  BY <1>6 DEF AbortFile, DriveInv
<1>7. ASSUME NEW reset \in {TRUE, ~SoftInit}, InitializeCDSystem(reset)
      PROVE  DriveInv'
  <2>1. NoPlay \in Plays
    BY DEF NoPlay, Plays
  <2>2. play' \in Plays
    BY <1>7, <2>1 DEF InitializeCDSystem, DriveInv
  <2>3. CASE Loaded
    BY <1>7, <2>2, <2>3 DEF InitializeCDSystem, DriveInv
  <2>4. CASE ~Loaded
    BY <1>7, <2>2, <2>4 DEF InitializeCDSystem, DriveInv, Loaded
  <2> QED BY <2>3, <2>4
<1> QED BY <1>1, <1>2, <1>3, <1>4, <1>5, <1>6, <1>7, <1>8 DEF DriveCommand

\* So does every step.
LEMMA NextDrive == ASSUME DriveInv, [Next]_vars PROVE DriveInv'
<1> USE DEF Statuses
<1>1. CASE UNCHANGED drive
  BY <1>1 DEF DriveInv, drive
<1>2. CASE Command
  <2>1. CASE DriveCommand
    BY <2>1, DriveCommandDrive
  <2>2. ASSUME NEW p \in Partitions, NEW o \in Offsets, NEW n \in Counts,
               \/ GetSectorData(p, o, n) \/ GetThenDeleteSectorData(p, o, n)
               \/ DeleteSectorData(p, o, n)
               \/ \E dest \in Partitions :
                    CopySectorData(p, o, n, dest) \/ MoveSectorData(p, o, n, dest)
        PROVE  UNCHANGED drive
    BY <2>2, Zenon DEF GetSectorData, GetThenDeleteSectorData, DeleteSectorData,
                       CopySectorData, MoveSectorData
  <2>3. ASSUME NEW p \in Partitions, ResetPartition(p) PROVE UNCHANGED drive
    BY <2>3, Zenon DEF ResetPartition
  <2>4. ASSUME NEW p \in Partitions, NEW n \in 1..MaxBlocks, PutSectorData(p, n)
        PROVE  UNCHANGED drive
    BY <2>4, Zenon DEF PutSectorData
  <2>5. ASSUME NEW data \in BOOLEAN, ResetSelector(data) PROVE DriveInv'
    BY <2>5 DEF ResetSelector, Becomes, DriveInv
  <2>6. CASE EndDataTransfer
    BY <1>1, <2>6, Zenon DEF EndDataTransfer
  <2> QED BY <1>1, <1>2, <2>1, <2>2, <2>3, <2>4, <2>5, <2>6, Zenon
          DEF Command, DriveCommand
<1>3. CASE Port
  BY <1>1, <1>3, Zenon DEF Port, ReadPort, WritePort, ReadBeyond
<1>4. CASE PlaySector
  <2>1. AfterSector /\ status = "play"
    BY <1>4 DEF PlaySector
  <2>2. play' \in Plays
    <3>1. [play EXCEPT !.repcnt = IF @ < 14 THEN @ + 1 ELSE @] \in Plays
      BY DEF DriveInv, Plays
    <3> QED BY <2>1, <3>1 DEF AfterSector, DriveInv
  <2>3. FAD' \in Int
    BY <2>1 DEF AfterSector, DriveInv, Plays
  <2>4. status' \in {"pause", "seek", "play"}
        /\ nextStatus' \in {"none", "pause", "standby"}
    BY <2>1 DEF AfterSector, DriveInv
  <2>5. connected' = connected
    BY <1>4 DEF PlaySector
  <2> QED BY <2>2, <2>3, <2>4, <2>5 DEF DriveInv
<1>5. CASE Periodic
  BY <1>5 DEF Periodic, DriveInv
<1>6. ASSUME NEW disc \in {"in", "out", "open"}, DriveStatus(disc) PROVE DriveInv'
  <2>1. status' \in {"pause", "nodisc", "open"} /\ nextStatus' = "none"
        /\ FAD' = FAD /\ play' = play /\ connected' = connected
    BY <1>6 DEF DriveStatus, Becomes
  <2> QED BY <2>1 DEF DriveInv
<1>7. ASSUME NEW state \in {"pause", "nodisc", "open"}, Reset(state)
      PROVE  DriveInv'
  <2>1. NoPlay \in Plays
    BY DEF NoPlay, Plays
  <2> QED BY <1>7, <2>1 DEF Reset, Becomes, DriveInv
<1>8. UNCHANGED vars => UNCHANGED drive
  BY DEF vars
<1> QED BY <1>1, <1>2, <1>3, <1>4, <1>5, <1>6, <1>7, <1>8, Zenon DEF Next, Drive

\* However a step uses the pool, the drive knows when it is full.
LEMMA ShapeRoom == ASSUME PoolInv, RoomInv, Shape PROVE RoomInv'
<1>1. CASE Adding
  <2>1. PICK n \in 1..Cardinality(free) : Take(n)
    BY <1>1 DEF Adding
  <2>2. isbufferfull' \in BOOLEAN
    BY <2>1 DEF Take, RoomInv
  <2>3. ASSUME free' = {} PROVE isbufferfull'
    <3>1. IsFiniteSet(free) /\ Cardinality(free) \in Nat /\ free \subseteq Blocks
      <4>1. free \in SUBSET Blocks
        BY DEF PoolInv, Typed
      <4> QED BY <4>1, BlocksFinite, FS_Subset, FS_CardinalityType
    <3>2. n \in 0..Cardinality(free) /\ n > 0
      BY <3>1
    <3>3. Cardinality(free') = Cardinality(free) - n
      BY <2>1, <3>1, <3>2, FirstFreeIs DEF Take
    <3>4. Cardinality(free') = 0
      BY <2>3, FS_EmptySet
    <3>5. blockfreespace - n <= 0
      BY <3>1, <3>2, <3>3, <3>4 DEF PoolInv
    <3> QED BY <2>1, <3>2, <3>5 DEF Take
  <2> QED BY <2>2, <2>3 DEF RoomInv
<1>2. CASE Removing
  <2>1. PICK p \in Partitions, lo \in 0..MaxBlocks, n \in 0..MaxBlocks :
          lo + n <= partition[p].numblocks /\ Free(partition[p], lo, n)
    BY <1>2 DEF Removing
  <2>2. lo \in Nat /\ n \in Nat
    BY BlocksFinite
  <2>3. /\ free' = free \cup HeldBlocks(p, lo, n)
        /\ isbufferfull' = (isbufferfull /\ n = 0)
        /\ IsFiniteSet(HeldBlocks(p, lo, n)) /\ Cardinality(HeldBlocks(p, lo, n)) = n
    BY <2>1, <2>2, FreeIs, SlotsHold
  <2>4. isbufferfull' \in BOOLEAN
    BY <2>3
  <2>5. ASSUME ~SoftInit, free' = {} PROVE isbufferfull'
    <3>1. free = {} /\ HeldBlocks(p, lo, n) = {}
      BY <2>3, <2>5
    <3>2. n = 0
      BY <2>3, <3>1, FS_EmptySet
    <3> QED BY <2>3, <2>5, <3>1, <3>2 DEF RoomInv
  <2> QED BY <2>4, <2>5 DEF RoomInv
<1>3. CASE Moving
  BY <1>3 DEF Moving, RoomInv, pool
<1>4. CASE Emptying
  <2>1. 0 \in Blocks
    BY BlocksAssumption DEF Blocks
  <2> QED BY <1>4, <2>1 DEF Emptying, RoomInv
<1>5. CASE Sitting
  BY <1>5 DEF Sitting, RoomInv
<1> QED BY <1>1, <1>2, <1>3, <1>4, <1>5 DEF Shape

-----------------------------------------------------------------------------
(* The theorems. *)

LEMMA Inductive == ASSUME ~ResetOpen PROVE IInv /\ [Next]_vars => IInv'
BY NextShape, ShapePool, ShapeRoom, NextDrive DEF IInv, RoomInv

LEMMA Initially == Init => IInv
<1> SUFFICES ASSUME Init PROVE IInv
  OBVIOUS
<1>1. NoTransfer(0) \in Transfers /\ << >> \in Seq(Blocks)
  BY BlocksFinite DEF NoTransfer, Transfers
<1>2. TransferInv
  BY <1>1 DEF Init, TransferInv, Open
<1>3. DriveInv
  BY DEF Init, DriveInv, NoPlay, Plays, Statuses
<1>4. 0 \in Blocks
  BY BlocksAssumption DEF Blocks
<1>5. RoomInv
  BY <1>4 DEF Init, RoomInv
<1> QED BY <1>2, <1>3, <1>5, InitPool DEF IInv

\* The pool, the transfer, the drive and its room are as they should be in every
\* state, if the program does not reset the partition of a get-then-delete that it
\* has open: the code goes on to delete what such a partition holds then
\* (cs2.c:2273), and the blocks are no longer counted.
THEOREM Invariance == ASSUME ~ResetOpen PROVE Spec => []IInv
<1>1. IInv /\ [Next]_vars => IInv'
  BY Inductive
<1> QED BY Initially, <1>1, PTL DEF Spec

\* Type correctness: every variable keeps its type, and the state of the drive is
\* one of those that are defined, with such a program.
THEOREM TypeCorrect == ASSUME ~ResetOpen PROVE Spec => []TypeOK
<1>1. IInv => TypeOK
  <2> SUFFICES ASSUME IInv PROVE TypeOK
    OBVIOUS
  <2>1. free \subseteq Blocks /\ partition \in [Partitions -> Part]
    BY DEF IInv, PoolInv, Typed
  <2>2. blockfreespace \in 0..MaxBlocks
    <3>1. free \in SUBSET Blocks
      BY <2>1
    <3>2. IsFiniteSet(free) /\ Cardinality(free) <= MaxBlocks
      BY <3>1, BlocksFinite, FS_Subset
    <3>3. Cardinality(free) \in Nat
      BY <3>2, FS_CardinalityType
    <3> QED BY <3>2, <3>3, BlocksFinite DEF IInv, PoolInv
  <2>3. isbufferfull \in BOOLEAN
    BY DEF IInv, RoomInv
  <2>4. xfer \in Transfers /\ asked \in Seq(Blocks)
    BY DEF IInv, TransferInv
  <2>5. /\ status \in Statuses /\ nextStatus \in {"none", "pause", "standby"}
        /\ FAD \in Int /\ play \in Plays /\ connected \in BOOLEAN
    BY DEF IInv, DriveInv
  <2> QED BY <2>1, <2>2, <2>3, <2>4, <2>5 DEF TypeOK, Part, Transfers, Plays
<1> QED BY <1>1, Invariance, PTL

\* Every block is free or in one slot of one partition, and the free ones are
\* counted, for every size of the buffer, with a program that resets no partition of
\* a get-then-delete that it has open.
THEOREM BlocksAreConserved == ASSUME ~ResetOpen PROVE Spec => []PoolConserved
<1>1. PoolInv => PoolConserved
  <2> SUFFICES ASSUME PoolInv PROVE PoolConserved
    OBVIOUS
  <2>1. ASSUME NEW b \in Blocks
        PROVE  Cardinality({pi \in Partitions \X Slots :
                              partition[pi[1]].block[pi[2]] = b})
                 = (IF b \in free THEN 0 ELSE 1)
    <3> DEFINE X == {pi \in Partitions \X Slots :
                       partition[pi[1]].block[pi[2]] = b}
    <3>1. b # NoBlock
      BY BlocksFinite DEF Blocks, NoBlock
    <3>2. CASE b \in free
      <4>1. X = {}
        BY <3>2 DEF PoolInv, HeldOrFree, Blk
      <4> QED BY <3>2, <4>1, FS_EmptySet
    <3>3. CASE b \notin free
      <4>1. PICK p \in Partitions, i \in Slots : Blk(p, i) = b
        BY <3>3 DEF PoolInv, HeldOrFree
      <4>2. ASSUME NEW pi \in X PROVE pi = <<p, i>>
        <5>1. pi \in Partitions \X Slots /\ Blk(pi[1], pi[2]) = b
          BY DEF Blk
        <5>2. pi[1] \in Partitions /\ pi[2] \in Slots /\ pi = <<pi[1], pi[2]>>
          BY <5>1
        <5>3. pi[1] = p /\ pi[2] = i
          BY <3>1, <4>1, <5>1, <5>2 DEF PoolInv, OneSlot
        <5> QED BY <5>2, <5>3
      <4>3. <<p, i>> \in X
        BY <4>1 DEF Blk
      <4>4. X = {<<p, i>>}
        BY <4>2, <4>3
      <4>5. Cardinality({<<p, i>>}) = 1
        BY FS_Singleton
      <4> QED BY <3>3, <4>4, <4>5
    <3> QED BY <3>2, <3>3
  <2>2. \A p \in Partitions, i \in Slots :
          partition[p].block[i] # NoBlock <=> i <= partition[p].numblocks
    BY DEF PoolInv, Packed
  <2> QED BY <2>1, <2>2 DEF PoolConserved, PoolInv
<1> QED BY <1>1, Invariance, PTL DEF IInv

\* A transfer that is open is of the sectors that were asked for, whatever the
\* drive stores meanwhile and the program resets, but for that partition.
THEOREM TransfersReadWhatWasAsked == ASSUME ~ResetOpen PROVE Spec => []ReadsWhatItAsked
<1>1. TransferInv => ReadsWhatItAsked
  BY DEF TransferInv, ReadsWhatItAsked, Open
<1> QED BY <1>1, Invariance, PTL DEF IInv

\* Whatever a step does with a partition, the sectors that stay keep their order.
LEMMA ShapeOrder ==
  ASSUME PoolInv, Shape, NEW r \in Partitions
  PROVE  partition'[r].block # partition[r].block
           => Ordered(partition[r].block, partition'[r].block)
<1> DEFINE old == partition[r]
           new == partition'[r]
<1>1. old \in Part /\ new \in Part /\ Packed(old)
  BY DEF PoolInv, Typed, Shape
<1>2. Distinct(old)
  BY DEF PoolInv, OneSlot, Blk, Distinct
<1>3. CASE Adding
  <2>1. PICK p \in Partitions, n \in 1..Cardinality(free) :
          Grown(partition[p], partition'[p], FirstFree(n)) /\ Others({p})
    BY <1>3 DEF Adding
  <2>2. CASE r # p
    BY <2>1, <2>2 DEF Others
  <2>3. CASE r = p
    <3>1. free \subseteq Blocks /\ Cardinality(free) \in Nat
      BY OneFits DEF PoolInv, Typed
    <3>2. n \in 0..Cardinality(free) /\ n \in Nat
      BY <3>1
    <3>3. FirstFree(n) \in [1..n -> free] /\ Len(FirstFree(n)) = n
      BY <3>1, <3>2, FirstFreeIs
    <3>4. \A k \in 1..n, i \in Slots : FirstFree(n)[k] # old.block[i]
      BY <3>3 DEF PoolInv, HeldOrFree, Blk
    <3> QED BY <1>1, <1>2, <2>1, <2>3, <3>2, <3>3, <3>4, GrownOrder
  <2> QED BY <2>2, <2>3
<1>4. CASE Removing
  <2>1. PICK p \in Partitions, lo \in 0..MaxBlocks, n \in 0..MaxBlocks :
          /\ lo + n <= partition[p].numblocks
          /\ Shrunk(partition[p], partition'[p], lo, n) /\ Others({p})
    BY <1>4 DEF Removing
  <2>2. lo \in Nat /\ n \in Nat
    BY BlocksFinite
  <2>3. CASE r # p
    BY <2>1, <2>3 DEF Others
  <2>4. CASE r = p
    BY <1>1, <1>2, <2>1, <2>2, <2>4, ShrunkOrder
  <2> QED BY <2>3, <2>4
<1>5. CASE Moving
  <2>1. PICK p \in Partitions, q \in Partitions, lo \in 0..MaxBlocks,
             n \in 0..MaxBlocks :
          /\ p # q /\ lo + n <= partition[p].numblocks
          /\ Shrunk(partition[p], partition'[p], lo, n)
          /\ Grown(partition[q], partition'[q], Sectors(partition[p], lo, n))
          /\ Others({p, q})
    BY <1>5 DEF Moving
  <2>2. lo \in Nat /\ n \in Nat
    BY BlocksFinite
  <2>3. CASE r # p /\ r # q
    BY <2>1, <2>3 DEF Others
  <2>4. CASE r = p
    BY <1>1, <1>2, <2>1, <2>2, <2>4, ShrunkOrder
  <2>5. CASE r = q
    <3> DEFINE bs == Sectors(partition[p], lo, n)
    <3>1. Len(bs) = n
      BY <2>1, <2>2, SectorsIs
    <3>2. ASSUME NEW k \in 1..n, NEW i \in Slots PROVE bs[k] # old.block[i]
      <4>1. bs[k] = Blk(p, lo + k)
        BY DEF Sectors, Blk
      <4>2. lo + k \in Slots /\ lo + k <= partition[p].numblocks
        BY <2>1, <2>2, BlocksFinite DEF PoolInv, Typed, Part, Slots
      <4>3. Blk(p, lo + k) # NoBlock
        BY <4>2 DEF PoolInv, Packed, Blk
      <4>4. Blk(p, lo + k) # Blk(q, i)
        BY <2>1, <4>2, <4>3 DEF PoolInv, OneSlot
      <4> QED BY <2>5, <4>1, <4>4 DEF Blk
    <3> HIDE DEF bs
    <3>3. Grown(old, new, bs) /\ Len(bs) \in Nat
      BY <2>1, <2>2, <2>5, <3>1 DEF bs
    <3> QED BY <1>1, <1>2, <3>1, <3>2, <3>3, GrownOrder
  <2> QED BY <2>3, <2>4, <2>5
<1>6. CASE Emptying
  <2>1. \A i \in Slots : new.block[i] = NoBlock
    BY <1>6, EmptyIs DEF Emptying
  <2> QED BY <2>1 DEF Ordered
<1>7. CASE Sitting
  BY <1>7 DEF Sitting
<1> QED BY <1>3, <1>4, <1>5, <1>6, <1>7 DEF Shape

\* The sectors of a partition keep their order: those that a step takes out leave
\* no other out of place, and new ones go behind, with the same program.
THEOREM SectorsKeepTheirOrder == ASSUME ~ResetOpen PROVE Spec => KeepsOrder
<1> DEFINE A == \A p \in Partitions :
                  partition'[p].block # partition[p].block =>
                    Ordered(partition[p].block, partition'[p].block)
<1>1. IInv /\ [Next]_vars => A
  BY NextShape, ShapeOrder DEF IInv, RoomInv
<1>2. Spec => [][A]_vars
  BY <1>1, Invariance, PTL DEF Spec
<1> QED BY <1>2 DEF KeepsOrder, Ordered

\* With neither a soft initialisation nor such a reset, the drive never passes a
\* sector that the filters send to a partition without storing it there.
THEOREM NoSectorIsLost == ASSUME ~SoftInit, ~ResetOpen PROVE Spec => NoSectorLost
<1> DEFINE q == Destination(FAD)
           A == PlaySector /\ q # NoPartition =>
                  partition'[q].numblocks = partition[q].numblocks + 1
<1>1. IInv => A
  <2> SUFFICES ASSUME IInv, PlaySector, q # NoPartition
               PROVE  partition'[q].numblocks = partition[q].numblocks + 1
    OBVIOUS
  <2>1. PoolInv /\ RoomInv /\ ~isbufferfull /\ Store
    BY DEF IInv, PlaySector
  <2>2. free # {} /\ Stored
    BY <2>1 DEF RoomInv, Stored
  <2>3. q \in Partitions
    BY DiscAssumption DEF Destination
  <2>4. partition' = [partition EXCEPT ![q] =
                       [WithBlocks(partition[q], FirstFree(1)) EXCEPT !.size = @ + 1]]
    BY <2>1, <2>2 DEF Store
  <2>5. partition \in [Partitions -> Part] /\ partition[q] \in Part
    BY <2>1, <2>3 DEF PoolInv, Typed
  <2>6. Len(FirstFree(1)) = 1
    BY DEF FirstFree
  <2>7. WithBlocks(partition[q], FirstFree(1)).numblocks = partition[q].numblocks + 1
    BY <2>5, <2>6 DEF WithBlocks, Part
  <2> HIDE DEF q
  <2> QED BY <2>3, <2>4, <2>5, <2>7
<1>2. Spec => [][A]_vars
  BY <1>1, Invariance, PTL DEF Spec
<1> QED BY <1>2 DEF NoSectorLost

===============================================================================
