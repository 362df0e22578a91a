-------------------------------- MODULE Cs2MC ---------------------------------
(* An instance of Cs2 for TLC. *)
EXTENDS Cs2

\* two partitions, and a sector that the filters reject
DiscRoute == [fad \in FADs |-> CASE fad = 152 -> NoPartition
                                 [] fad = 153 -> 1
                                 [] OTHER     -> 0]

\* one play of two sectors
DiscRanges == {<<151, 2>>}
=============================================================================
