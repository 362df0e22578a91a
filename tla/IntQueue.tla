------------------------------ MODULE IntQueue ------------------------------
(***************************************************************************)
(* The level-ordered interrupt queue the emulator keeps in three places:   *)
(* the SCU's list of masked requests (scu.c, ScuQueueInterrupt) and the    *)
(* pending list of each SH-2 (sh2int.c, SH2InterpreterSendInterrupt).      *)
(* All three refuse a vector that is already there, append, and sort by    *)
(* exchange; the last entry is the one that is served first.               *)
(***************************************************************************)
EXTENDS Integers, Sequences, FiniteSets

\* an entry of the queue
Entry == [vector : Nat, level : Nat]

\* the vector v is queued
Holds(q, v) == \E i \in 1..Len(q) : q[i].vector = v

\* the vectors of a queue
VectorsOf(q) == {q[i].vector : i \in 1..Len(q)}

\* how many entries of an ordered queue are at or below a level
Below(q, level) == Cardinality({i \in 1..Len(q) : q[i].level <= level})

\* the first position with the level of position p
GroupHead(q, p) ==
  CHOOSE j \in 1..Len(q) : /\ q[j].level = q[p].level
                           /\ \A i \in 1..(j-1) : q[i].level # q[p].level

(***************************************************************************)
(* The queue after an append and the exchange sort, when q was in order.   *)
(* The new entry goes above its equals, and each group of equal levels     *)
(* above it is rotated by one: the exchange sort is not stable.  ScuIntcMC *)
(* compares this with the loops.                                           *)
(***************************************************************************)
SortIn(q, e) ==
  LET k == Below(q, e.level)
      n == Len(q)
  IN  [i \in 1..(n+1) |->
        IF i <= k THEN q[i]
        ELSE IF i = k+1 THEN e
        ELSE IF i <= n /\ q[i].level = q[i-1].level THEN q[i]
        ELSE q[GroupHead(q, i-1)]]

\* mutant: no look for the vector first
MutEnqueue(q, e) == SortIn(q, e)

\* queue an interrupt, unless its vector is there
Enqueue(q, e) == IF Holds(q, e.vector) THEN q ELSE SortIn(q, e)

\* the queue without position p
Drop(q, p) == [i \in 1..(Len(q)-1) |-> IF i < p THEN q[i] ELSE q[i+1]]

\* the first position of a queued vector
Find(q, v) == CHOOSE p \in 1..Len(q) : /\ q[p].vector = v
                                       /\ \A i \in 1..(p-1) : q[i].vector # v

\* withdraw a vector, if it is there
Withdraw(q, v) == IF Holds(q, v) THEN Drop(q, Find(q, v)) ELSE q

-----------------------------------------------------------------------------
\* lower levels first
Ordered(q) == \A i, j \in 1..Len(q) : i < j => q[i].level <= q[j].level

\* no vector twice
Distinct(q) == \A i, j \in 1..Len(q) : q[i].vector = q[j].vector => i = j

=============================================================================
