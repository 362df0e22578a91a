------------------------------- MODULE ScuDma -------------------------------
(***************************************************************************)
(* One level of the SCU's DMA: what is left of its transfer and what a     *)
(* share of time does to it.  A direct transfer has one count; an indirect *)
(* one has a list of them, read entry by entry from memory.  Counts are in *)
(* bytes; a step moves 2 or 4 of them, whichever the addresses ask for,    *)
(* so that the last one may go below 0.  Addresses and data are left out.  *)
(***************************************************************************)
EXTENDS Integers, Sequences, FiniteSets

CONSTANTS
  HighCount,     \* 2^20: a count of 0 on level 0
  LowCount       \* 2^12: a count of 0 on levels 1 and 2, which take 12 bits

ASSUME CountsAssumption == HighCount \in Nat \ {0} /\ LowCount \in Nat \ {0}

Idle == [left |-> 0, rest |-> <<>>, unit |-> 1, indirect |-> FALSE]

\* ScuSetAddValue: what the registers of level l ask for is loaded.  The first
\* entry of a list is taken as it is.
Load(l, w) ==
  LET n == Head(w.counts) IN
  [left |-> CASE w.indirect -> n
              [] ~w.indirect /\ l = 0 -> IF n = 0 THEN HighCount ELSE n
              [] OTHER -> IF n % LowCount = 0 THEN LowCount ELSE n % LowCount,
   rest |-> Tail(w.counts),
   unit |-> w.unit,
   indirect |-> w.indirect]

\* a transfer that time is given to
Busy(d) == d.left > 0

\* an entry with the count 0 was loaded when there was no time left for it:
\* from then on the level looks like one that has nothing to do
Hung(d) == d.indirect /\ d.left = 0

\* what a finished transfer leaves: a list 0, a single count what is below 0
Finished(d) == d.rest = <<>> /\ ~d.indirect /\ d.left <= 0

\* the steps an entry takes; one that was loaded with the count 0 takes one
Steps(n, unit) == IF n <= 0 THEN 1 ELSE (n + unit - 1) \div unit

\* the steps that the first entries of a list take, for each number of them
StepsOf(entries, unit) ==
  LET total[i \in 0..Len(entries)] ==
        IF i = 0 THEN 0 ELSE total[i-1] + Steps(entries[i], unit)
  IN total

\* what a level has to do, and the steps it takes
Entries(d) == <<d.left>> \o d.rest
Duration(d) == StepsOf(Entries(d), d.unit)[Len(Entries(d))]

\* SucDmaCheck, with the steps of SucDmaExec: the entries that time is enough for
\* are done, and the next one is begun, be there time left for it or not.  Only
\* before the first step does the code look whether there is anything to do.
SucDmaCheck(d, time) ==
  LET entries == Entries(d)
      total == StepsOf(entries, d.unit)
      done == Cardinality({i \in 1..Len(entries) : total[i] <= time})
      left == entries[done+1] - (time - total[done]) * d.unit
      last == d.left - Steps(d.left, d.unit) * d.unit
  IN CASE ~Busy(d) -> d
       [] Busy(d) /\ done < Len(entries) ->
            [d EXCEPT !.left = left, !.rest = SubSeq(entries, done + 2, Len(entries))]
       [] OTHER -> [Idle EXCEPT !.left = IF d.indirect THEN 0 ELSE last]
=============================================================================
