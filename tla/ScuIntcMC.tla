----------------------------- MODULE ScuIntcMC ------------------------------
(***************************************************************************)
(* ScuIntc on a few sources, and the loops of the sort as a reference for  *)
(* IntQueue!SortIn.                                                        *)
(***************************************************************************)
EXTENDS ScuIntc, SequencesExt

\* the pairs of positions the two nested loops compare, in their order
SortPairs(n) ==
  FlattenSeq([i \in 1..(n-1) |-> [k \in 1..(n-i) |-> <<i, i+k>>]])

ExchangeSort(q) ==
  FoldLeft(LAMBDA s, p : IF s[p[1]].level > s[p[2]].level
                           THEN [s EXCEPT ![p[1]] = s[p[2]], ![p[2]] = s[p[1]]]
                           ELSE s,
           q, SortPairs(Len(q)))

\* the queues of n entries, whose vectors are their positions
QueuesOf(n, levels) ==
  {[i \in 1..n |-> [vector |-> i, level |-> f[i]]] : f \in [1..n -> levels]}

\* The closed form of the sorted insertion is what the exchange sort of
\* ScuQueueInterrupt and SH2InterpreterSendInterrupt leaves of an ordered
\* queue, ties included: all queues of up to five entries on four levels.
ASSUME SortInIsExchangeSort ==
  \A n \in 0..5, level \in 1..4 :
    \A q \in {x \in QueuesOf(n, 1..4) : Ordered(x)} :
      LET e == [vector |-> n + 1, level |-> level]
      IN  SortIn(q, e) = ExchangeSort(Append(q, e))
=============================================================================
