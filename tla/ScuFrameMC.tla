----------------------------- MODULE ScuFrameMC -----------------------------
(***************************************************************************)
(* ScuFrame for TLC: two levels of DMA, the one with the long counts and   *)
(* one with the short ones.  Each has a transfer that goes over several    *)
(* slices, or that leaves a count below 0, and a list; one list has an     *)
(* entry 0.                                                                *)
(***************************************************************************)
EXTENDS ScuFrame

Direct(n) == [counts |-> <<n>>, unit |-> 2, indirect |-> FALSE]
List(q) == [counts |-> q, unit |-> 1, indirect |-> TRUE]

MCWorks == [l \in Levels |-> IF l = 0 THEN {Direct(0), List(<<1, 0>>)}
                             ELSE {Direct(3), List(<<1, 2>>)}]
=============================================================================
