--------------------------------- MODULE Cs2 ----------------------------------
(***************************************************************************)
(* The sector buffer of the CD block: a pool of blocks, the partitions     *)
(* that hold them, the playing drive that fills them, and the data         *)
(* transfers by which the program reads, writes and deletes sectors.       *)
(*                                                                         *)
(* A command is one step, made when Cs2Execute runs it; Cs2Exec (the drive)*)
(* and the accesses to the data port come between commands.  What a sector *)
(* holds is left out, and the chain of filters is a constant that says     *)
(* which partition a sector goes to.  All sectors hold data and are 2352   *)
(* bytes long, as CopySectorData and MoveSectorData take for granted: sizes*)
(* are counted in sectors (-1, an empty partition's, is 0), and the program*)
(* accesses the data port a sector at a time.                              *)
(*                                                                         *)
(* The program is polite: it names sectors that exist, ends a transfer     *)
(* before it changes the buffer again, but for a reset (of another         *)
(* partition, if the transfer is a get-then-delete), reads what it is to   *)
(* delete to its end, copies only into free space while the drive stores   *)
(* nothing, and resumes a play only before its end.                        *)
(***************************************************************************)
EXTENDS Integers, Sequences, FiniteSets

CONSTANTS
  MaxBlocks,     \* MAX_BLOCKS, 200
  Partitions,    \* the partitions in use, of MAX_SELECTORS
  FADs,          \* the sectors of the disc that are played
  Route,         \* the partition the filters send a sector to, or none
  Ranges,        \* the first sector and the sectors of the plays it asks for
  MaxRepeats,    \* and their repeat counts
  SoftInit,      \* whether it also initialises the CD block without a reset
  PutBehind,     \* whether it also puts sectors behind others in a partition
  ResetOpen      \* whether it also resets the partition of a get-then-delete it
                 \* has open: the code may go on to delete what is there at its end

NoPartition == -1
NoBlock     == -1

ASSUME BlocksAssumption == MaxBlocks \in 1..255
ASSUME DiscAssumption ==
  /\ FADs \subseteq Nat /\ Ranges \subseteq FADs \X (Nat \ {0})
  /\ Route \in [FADs -> Partitions \cup {NoPartition}]
  /\ Partitions \subseteq 0..23
  /\ MaxRepeats \subseteq 0..14 /\ {SoftInit, PutBehind, ResetOpen} \subseteq BOOLEAN

Blocks == 0..MaxBlocks-1
Slots  == 1..MaxBlocks

VARIABLES
  free,             \* the blocks whose size is -1
  blockfreespace,
  isbufferfull,
  partition,        \* each partition: its slots, numblocks and size
  xfer,             \* the data transfer (the datatrans fields)
  asked,            \* the program: the blocks of the transfer it has open
  status,           \* the low nibble of status, 15 in a state that is none
  nextStatus,       \* 0xFF: none
  FAD,              \* the sector the drive reads next
  play,             \* playFAD, playendFAD, repcnt and maxrepeat
  connected         \* the drive has a filter: outconcddev is not NULL

pool  == <<free, blockfreespace, isbufferfull>>
drive == <<status, nextStatus, FAD, play, connected>>
vars  == <<pool, partition, xfer, asked, drive>>

Empty == [block |-> [i \in Slots |-> NoBlock], numblocks |-> 0, size |-> 0]

\* No transfer is open.  EndDataTransfer and InitializeCDSystem leave the fields as
\* they are, but until they are set again a polite program uses none of them but
\* num, datatranspartitionnum, which outlives its transfer.
NoTransfer(num) == [type |-> "invalid", part |-> NoPartition, num |-> num,
                    pos |-> 0, at |-> 0, upto |-> 0, cdwnum |-> 0]

\* no play: its repcnt may be anything, for a new play or seek clears it
NoPlay == [from |-> -1, end |-> -1, repcnt |-> 0, maxrepeat |-> 0]

Init ==
  /\ free = Blocks /\ blockfreespace = MaxBlocks /\ isbufferfull = FALSE
  /\ partition = [p \in Partitions |-> Empty]
  /\ xfer = NoTransfer(0) /\ asked = << >>
  /\ status = "pause" /\ nextStatus = "none"
  /\ FAD = 150 /\ play = NoPlay /\ connected = TRUE

-----------------------------------------------------------------------------
(* Blocks. *)

Nth(S, n) == CHOOSE b \in S : Cardinality({c \in S : c < b}) = n - 1

\* Cs2AllocateBlock takes the first free block: the n that n calls take
FirstFree(n) == [i \in 1..n |-> Nth(free, i)]

Elements(s) == {s[i] : i \in DOMAIN s}

\* mutant: the buffer counts as full one block late
MutTake(n) ==
  /\ free' = free \ Elements(FirstFree(n))
  /\ blockfreespace' = blockfreespace - n
  /\ isbufferfull' = (isbufferfull \/ (n > 0 /\ blockfreespace - n < 0))

\* n blocks are taken.  The last free block makes the buffer full
Take(n) ==
  /\ free' = free \ Elements(FirstFree(n))
  /\ blockfreespace' = blockfreespace - n
  /\ isbufferfull' = (isbufferfull \/ (n > 0 /\ blockfreespace - n <= 0))

\* the slots lo+1 .. lo+n that hold a block
Held(pt, lo, n) == {i \in Slots \cap (lo+1)..(lo+n) : pt.block[i] # NoBlock}

\* mutant: the buffer stays full
MutFree(pt, lo, n) ==
  /\ free' = free \cup {pt.block[i] : i \in Held(pt, lo, n)}
  /\ blockfreespace' = blockfreespace + Cardinality(Held(pt, lo, n))
  /\ isbufferfull' = (isbufferfull /\ Cardinality(Held(pt, lo, n)) < 2)

\* Cs2FreeBlock, for each of them
Free(pt, lo, n) ==
  /\ free' = free \cup {pt.block[i] : i \in Held(pt, lo, n)}
  /\ blockfreespace' = blockfreespace + Cardinality(Held(pt, lo, n))
  /\ isbufferfull' = (isbufferfull /\ Held(pt, lo, n) = {})

\* mutant: the last block fills the first hole
MutSortBlocks(block) ==
  LET kept == {i \in Slots : block[i] # NoBlock}
      hole == {i \in Slots : block[i] = NoBlock /\ \E j \in kept : i < j}
  IN  IF hole = {} THEN block
      ELSE LET h == CHOOSE i \in hole : \A j \in hole : i <= j
               l == CHOOSE i \in kept : \A j \in kept : j <= i
           IN  [block EXCEPT ![h] = block[l], ![l] = NoBlock]

\* Cs2SortBlocks: the blocks that are left close up
SortBlocks(block) ==
  LET kept == {i \in Slots : block[i] # NoBlock}
  IN  [i \in Slots |-> IF i <= Cardinality(kept) THEN block[Nth(kept, i)]
                                                ELSE NoBlock]

\* a partition without the blocks in n of its slots; numblocks is a byte
WithoutSlots(pt, lo, n) ==
  [pt EXCEPT
    !.block = SortBlocks([i \in Slots |->
                IF i \in (lo+1)..(lo+n) THEN NoBlock ELSE pt.block[i]]),
    !.numblocks = (@ - n) % 256]

\* mutant: the last block is not counted
MutWithBlocks(pt, bs) ==
  [pt EXCEPT
    !.block = [i \in Slots |-> IF i - pt.numblocks \in DOMAIN bs
                                 THEN bs[i - pt.numblocks] ELSE pt.block[i]],
    !.numblocks = @ + (IF Len(bs) > 1 THEN Len(bs) - 1 ELSE Len(bs))]

\* a partition with blocks put behind its last one
WithBlocks(pt, bs) ==
  [pt EXCEPT
    !.block = [i \in Slots |-> IF i - pt.numblocks \in DOMAIN bs
                                 THEN bs[i - pt.numblocks] ELSE pt.block[i]],
    !.numblocks = @ + Len(bs)]

\* the blocks in n slots behind the first pos
Sectors(pt, pos, n) == [i \in 1..n |-> pt.block[pos + i]]


-----------------------------------------------------------------------------
(* The commands that change the buffer. *)

NoCount == 65535     \* 0xFFFF: the last sector, or all that follow
Offsets == 0..MaxBlocks-1 \cup {NoCount}
Counts  == 1..MaxBlocks \cup {NoCount}

Offset(pt, offset) == IF offset = NoCount THEN pt.numblocks - 1 ELSE offset

\* CalcSectorOffsetNumber: a count that is left open, but not of the last sector
Count(pt, offset, num) ==
  IF offset # NoCount /\ num = NoCount THEN pt.numblocks - offset ELSE num

Exist(pt, offset, num) ==
  /\ pt.numblocks > 0
  /\ Count(pt, offset, num) \in 1..(pt.numblocks - Offset(pt, offset))

\* a data transfer is set up; a get-then-delete leaves datatranspartitionnum alone
Transfer(type, p, pos, at, upto) ==
  xfer' = [type |-> type, part |-> p, num |-> IF type = "getdel" THEN xfer.num ELSE p,
           pos |-> pos, at |-> at, upto |-> upto, cdwnum |-> 0]

GetSectorData(p, offset, num) ==
  LET pt == partition[p]  n == Count(pt, offset, num)  o == Offset(pt, offset) IN
  /\ asked = << >> /\ Exist(pt, offset, num)
  /\ Transfer("get", p, o, 0, n)
  /\ asked' = Sectors(pt, o, n)
  /\ UNCHANGED <<pool, partition, drive>>

GetThenDeleteSectorData(p, offset, num) ==
  LET pt == partition[p]  n == Count(pt, offset, num)  o == Offset(pt, offset) IN
  /\ asked = << >> /\ Exist(pt, offset, num)
  /\ Transfer("getdel", p, o, 0, n)
  /\ asked' = Sectors(pt, o, n)
  /\ UNCHANGED <<pool, partition, drive>>

DeleteSectorData(p, offset, num) ==
  LET pt == partition[p]  n == Count(pt, offset, num)  o == Offset(pt, offset) IN
  /\ asked = << >> /\ Exist(pt, offset, num)
  /\ Free(pt, o, n)
  /\ partition' = [partition EXCEPT ![p] =
       [WithoutSlots(pt, o, n) EXCEPT !.size = @ - n]]
  /\ UNCHANGED <<xfer, asked, drive>>

\* the size of the partition starts again from 0
PutSectorData(p, n) ==
  LET pt == partition[p] IN
  /\ asked = << >> /\ n <= blockfreespace /\ (pt.numblocks = 0 \/ PutBehind)
  /\ Take(n)
  /\ partition' = [partition EXCEPT ![p] =
       [WithBlocks(pt, FirstFree(n)) EXCEPT !.size = n]]
  /\ Transfer("put", p, 0, pt.numblocks, pt.numblocks + n)
  /\ asked' = FirstFree(n)
  /\ UNCHANGED drive

\* CopySectorData and MoveSectorData know no open count
CopySectorData(p, offset, n, dest) ==
  LET pt == partition[dest] IN
  /\ asked = << >> /\ Exist(partition[p], offset, n) /\ n # NoCount
  /\ n <= blockfreespace /\ status \notin {"play", "seek"}
  /\ Take(n)
  /\ partition' = [partition EXCEPT ![dest] =
       [WithBlocks(pt, FirstFree(n)) EXCEPT !.size = @ + n]]
  /\ UNCHANGED <<xfer, asked, drive>>

MoveSectorData(p, offset, n, dest) ==
  LET pt == partition[p]  o == Offset(pt, offset) IN
  /\ asked = << >> /\ Exist(pt, offset, n) /\ n # NoCount /\ p # dest
  /\ partition' = [partition EXCEPT
       ![p]    = [WithoutSlots(pt, o, n) EXCEPT !.size = @ - n],
       ![dest] = [WithBlocks(partition[dest], Sectors(pt, o, n)) EXCEPT
                    !.size = @ + n]]
  /\ UNCHANGED <<pool, xfer, asked, drive>>

\* mutant: the transfer is not looked at
MutEndsTransfer(p) == blockfreespace' = MaxBlocks

\* what makes a reset of p end the transfer: the buffer is empty, or the last get or
\* put was of p.  So it ends a get-then-delete of another partition, and may not end
\* that of its own.
EndsTransfer(p) == blockfreespace' = MaxBlocks \/ xfer.num = p

\* one partition is emptied; the program still has to end its transfer
ResetPartition(p) ==
  LET pt == partition[p] IN
  /\ asked # << >> /\ xfer.type = "getdel" /\ xfer.part = p => ResetOpen
  /\ Free(pt, 0, pt.numblocks)
  /\ partition' = [partition EXCEPT ![p] =
       [block     |-> [i \in Slots |-> IF i <= pt.numblocks THEN NoBlock
                                                          ELSE pt.block[i]],
        numblocks |-> 0, size |-> 0]]
  /\ xfer' = IF EndsTransfer(p) THEN NoTransfer(xfer.num) ELSE xfer
  /\ UNCHANGED <<asked, drive>>

\* The drive comes into a state of its own.  The code leaves nextStatus as it is,
\* but whatever makes the drive busy or seek sets it before it is looked at again,
\* so it is cleared here.
Becomes(state) == status' = state /\ nextStatus' = "none"

EmptyAll ==
  /\ free' = Blocks /\ blockfreespace' = MaxBlocks /\ isbufferfull' = FALSE
  /\ partition' = [p \in Partitions |-> Empty]
  /\ xfer' = NoTransfer(xfer.num) /\ asked' = << >>

\* the flags of ResetSelector: the drive pauses whatever they are
ResetSelector(data) ==
  /\ IF data THEN EmptyAll
             ELSE UNCHANGED <<pool, partition, xfer, asked>>
  /\ Becomes("pause")
  /\ UNCHANGED <<FAD, play, connected>>

-----------------------------------------------------------------------------
(* The data port and the end of a transfer. *)

\* the blocks of a get-then-delete go, and the size shrinks by what was read
DeleteTransferred ==
  LET pt == partition[xfer.part] IN
  /\ Free(pt, xfer.pos, xfer.upto)
  /\ partition' = [partition EXCEPT ![xfer.part] =
       [WithoutSlots(pt, xfer.pos, xfer.upto) EXCEPT !.size = @ - xfer.cdwnum]]

\* the long words of one sector; the next one is at the next sector
NextSector == [xfer EXCEPT !.cdwnum = @ + 1, !.at = @ + 1]

ReadPort ==
  /\ asked # << >> /\ xfer.type \in {"get", "getdel"} /\ xfer.at < xfer.upto
  /\ partition[xfer.part].block[xfer.pos + xfer.at + 1] # NoBlock
  /\ xfer' = NextSector
  /\ UNCHANGED <<pool, partition, asked, drive>>

\* a read after the last long word deletes what was read
ReadBeyond ==
  /\ asked # << >> /\ xfer.type = "getdel" /\ xfer.at >= xfer.upto
  /\ DeleteTransferred
  /\ xfer' = NoTransfer(xfer.num)
  /\ UNCHANGED <<asked, drive>>

WritePort ==
  /\ asked # << >> /\ xfer.type = "put" /\ xfer.at < xfer.upto
  /\ partition[xfer.part].block[xfer.at + 1] # NoBlock
  /\ xfer' = NextSector
  /\ UNCHANGED <<pool, partition, asked, drive>>

EndDataTransfer ==
  /\ asked # << >> /\ (xfer.type = "getdel" => xfer.at = xfer.upto)
  /\ IF xfer.type = "getdel" /\ partition[xfer.part].size > 0
       THEN DeleteTransferred
       ELSE UNCHANGED <<pool, partition>>
  /\ xfer' = NoTransfer(xfer.num) /\ asked' = << >>
  /\ UNCHANGED drive

-----------------------------------------------------------------------------
(* The commands that move the drive. *)

Loaded == status \notin {"open", "nodisc"}

\* SetupDefaultPlayStats clears the repeat count
PlayDisc(start, count, repeats) ==
  /\ FAD' = start
  /\ play' = [from |-> start, end |-> start + count, repcnt |-> 0,
              maxrepeat |-> repeats]
  /\ status' = "seek" /\ nextStatus' = "none"
  /\ UNCHANGED <<pool, partition, xfer, asked, connected>>

\* a PlayDisc that changes nothing goes on where the drive is
Resume ==
  /\ play.end # -1 /\ FAD # -1 /\ FAD < play.end
  /\ status' = "seek" /\ nextStatus' = "none"
  /\ UNCHANGED <<pool, partition, xfer, asked, FAD, play, connected>>

ReadFile(start, count) ==
  /\ FAD' = start
  /\ play' = [from |-> start, end |-> start + count, repcnt |-> 0, maxrepeat |-> 0]
  /\ Becomes("play") /\ connected' = TRUE
  /\ UNCHANGED <<pool, partition, xfer, asked>>

\* the drive is given a filter (which of them is part of Route), or none
SetCDDeviceConnection(filter) ==
  /\ connected' = filter
  /\ UNCHANGED <<pool, partition, xfer, asked, status, nextStatus, FAD, play>>

SeekDisc(fad) ==
  /\ FAD' = fad
  /\ play' = [play EXCEPT !.repcnt = 0]
  /\ status' = "seek" /\ nextStatus' = "pause"
  /\ UNCHANGED <<pool, partition, xfer, asked, connected>>

StopDisc ==
  /\ status' = "busy" /\ nextStatus' = "standby"
  /\ FAD' = -1 /\ play' = [play EXCEPT !.repcnt = 255]
  /\ UNCHANGED <<pool, partition, xfer, asked, connected>>

\* mutant: what comes after is not set
MutMakeBusy(next) ==
  /\ status' = "busy"
  /\ UNCHANGED <<pool, partition, xfer, asked, nextStatus, FAD, play, connected>>

\* a pause, GetToc and GetSessionInfo make the drive busy
MakeBusy(next) ==
  /\ status' = "busy" /\ nextStatus' = next
  /\ UNCHANGED <<pool, partition, xfer, asked, FAD, play, connected>>

OpenTray ==
  /\ Becomes("open")
  /\ UNCHANGED <<pool, partition, xfer, asked, FAD, play, connected>>

AbortFile ==
  /\ IF Loaded THEN status' = "busy" /\ nextStatus' = "pause"
               ELSE UNCHANGED <<status, nextStatus>>
  /\ xfer' = NoTransfer(xfer.num) /\ asked' = << >>
  /\ UNCHANGED <<pool, partition, FAD, play, connected>>

\* with a reset of the buffer, or without one; either way the buffer counts as
\* not full
InitializeCDSystem(reset) ==
  /\ IF Loaded THEN status' = "busy" /\ nextStatus' = "pause" /\ FAD' = 150
               ELSE UNCHANGED <<status, FAD>> /\ nextStatus' = "none"
  /\ IF reset
       THEN EmptyAll /\ play' = NoPlay
       ELSE /\ isbufferfull' = FALSE
            /\ UNCHANGED <<free, blockfreespace, partition, xfer, asked, play>>
  /\ UNCHANGED connected

\* Cs2Reset, with or without a disc in the drive
Reset(state) ==
  /\ EmptyAll
  /\ Becomes(state)
  /\ FAD' = IF state = "pause" THEN 150 ELSE -1
  /\ play' = NoPlay
  /\ UNCHANGED connected

-----------------------------------------------------------------------------
(* Cs2Exec. *)

\* the drive's own status, which is looked at less often than the rest
DriveStatus(disc) ==
  /\ CASE disc = "in"   -> ~Loaded /\ Becomes("pause")
       [] disc = "out"  -> status # "nodisc" /\ Becomes("nodisc")
       [] disc = "open" -> status # "open" /\ Becomes("open")
  /\ UNCHANGED <<pool, partition, xfer, asked, FAD, play, connected>>

Destination(fad) == IF fad \in FADs THEN Route[fad] ELSE NoPartition

\* Cs2FilterData puts the sector away; without a free block it is as if no
\* partition wanted it
Stored == Destination(FAD) # NoPartition /\ free # {}

Store ==
  IF Stored
    THEN /\ Take(1)
         /\ LET pt == partition[Destination(FAD)] IN
              partition' = [partition EXCEPT ![Destination(FAD)] =
                [WithBlocks(pt, FirstFree(1)) EXCEPT !.size = @ + 1]]
    ELSE /\ isbufferfull' = (Destination(FAD) # NoPartition)
         /\ UNCHANGED <<free, blockfreespace, partition>>

\* the end of the range: another round, or a pause.  A full buffer makes the
\* drive seek until there is room
AfterSector ==
  LET full == Stored /\ isbufferfull'
      over == FAD + 1 >= play.end
      done == over /\ play.repcnt >= play.maxrepeat
  IN  /\ status' = IF done THEN "pause" ELSE IF full THEN "seek" ELSE status
      /\ nextStatus' = IF full THEN "none" ELSE nextStatus
      /\ FAD' = IF over /\ ~done THEN play.from ELSE FAD + 1
      /\ play' = IF over /\ ~done
                   THEN [play EXCEPT !.repcnt = IF @ < 14 THEN @ + 1 ELSE @]
                   ELSE play

\* a sector is read while there is room and a filter for it.  Else, and when the disc
\* gives no sector, Cs2ReadFilteredSector returns -1 or -2 and nothing is done: the
\* drive stays where it is and tries again after the next period.
PlaySector ==
  /\ status = "play" /\ ~isbufferfull /\ connected
  /\ Store
  /\ AfterSector
  /\ UNCHANGED <<xfer, asked, connected>>

\* the other states of the drive, at the end of a period
Periodic ==
  /\ \/ /\ status = "seek"
        /\ status' = IF nextStatus # "none" THEN nextStatus
                     ELSE IF isbufferfull THEN status ELSE "play"
     \/ /\ status = "busy"
        /\ status' = IF nextStatus # "none" THEN nextStatus ELSE "reject"
  /\ nextStatus' = "none"
  /\ UNCHANGED <<pool, partition, xfer, asked, FAD, play, connected>>

-----------------------------------------------------------------------------
\* the program takes all the sectors out of a partition
EmptyPartition == \E p \in Partitions : DeleteSectorData(p, 0, NoCount)

\* the commands that begin another play, or seek
Restart ==
  \E range \in Ranges :
    \/ \E repeats \in MaxRepeats : PlayDisc(range[1], range[2], repeats)
    \/ ReadFile(range[1], range[2]) \/ SeekDisc(range[1])

Connect    == ~connected /\ SetCDDeviceConnection(TRUE)
Disconnect == SetCDDeviceConnection(FALSE)

Command ==
  \/ Restart \/ Connect \/ Disconnect
  \/ \E p \in Partitions, o \in Offsets, n \in Counts :
       \/ GetSectorData(p, o, n) \/ GetThenDeleteSectorData(p, o, n)
       \/ DeleteSectorData(p, o, n)
       \/ \E dest \in Partitions :
            CopySectorData(p, o, n, dest) \/ MoveSectorData(p, o, n, dest)
  \/ \E p \in Partitions : ResetPartition(p)
  \/ \E p \in Partitions, n \in 1..MaxBlocks : PutSectorData(p, n)
  \/ \E data \in BOOLEAN : ResetSelector(data)
  \/ EndDataTransfer
  \/ Resume \/ StopDisc \/ MakeBusy("pause") \/ OpenTray \/ AbortFile
  \/ \E reset \in {TRUE, ~SoftInit} : InitializeCDSystem(reset)

Port  == ReadPort \/ ReadBeyond \/ WritePort
Drive == PlaySector \/ Periodic
           \/ \E disc \in {"in", "out", "open"} : DriveStatus(disc)

Next == Command \/ Port \/ Drive
          \/ \E state \in {"pause", "nodisc", "open"} : Reset(state)

Spec == Init /\ [][Next]_vars

\* The drive turns whatever the program does, and a sector that is tried again and
\* again is read in the end: SF of PlaySector is an assumption on the disc, too.  The
\* program reads and ends its transfers, keeps emptying partitions that have sectors,
\* and at last lets a play go on without a new one.
FairSpec ==
  /\ Spec /\ SF_vars(PlaySector) /\ SF_vars(Periodic)
  /\ SF_vars(EmptyPartition) /\ WF_vars(ReadPort) /\ WF_vars(EndDataTransfer)
  /\ <>[][~Restart]_vars

-----------------------------------------------------------------------------
(* Properties. *)

Statuses == {"busy", "pause", "standby", "play", "seek", "open", "nodisc"}

(* Type correctness; the state of the drive is one of those that are defined. *)
TypeOK ==
  /\ free \subseteq Blocks /\ blockfreespace \in 0..MaxBlocks
  /\ isbufferfull \in BOOLEAN
  /\ partition \in [Partitions -> [block : [Slots -> Blocks \cup {NoBlock}],
                                   numblocks : 0..MaxBlocks, size : Int]]
  /\ xfer \in [type : {"invalid", "get", "getdel", "put"},
               part : Partitions \cup {NoPartition}, num : Partitions \cup {0},
               pos : 0..MaxBlocks, at : 0..MaxBlocks, upto : 0..MaxBlocks,
               cdwnum : Nat]
  /\ asked \in Seq(Blocks)
  /\ status \in Statuses
  /\ nextStatus \in {"none", "pause", "standby"}
  /\ FAD \in Int
  /\ play \in [from : Int, end : Int, repcnt : 0..255, maxrepeat : 0..14]
  /\ connected \in BOOLEAN

(* Every block is free or in one slot of one partition, the blocks of a
   partition are in its first numblocks slots, and the free ones are counted:
   whatever was played, put, copied, moved, read and deleted. *)
PoolConserved ==
  /\ blockfreespace = Cardinality(free)
  /\ \A p \in Partitions, i \in Slots :
       partition[p].block[i] # NoBlock <=> i <= partition[p].numblocks
  /\ \A b \in Blocks :
       Cardinality({pi \in Partitions \X Slots :
                      partition[pi[1]].block[pi[2]] = b})
         = (IF b \in free THEN 0 ELSE 1)

(* A transfer that is open is of the sectors that were asked for, though the
   drive goes on storing, until it is over. *)
ReadsWhatItAsked ==
  asked # << >> /\ xfer.type # "invalid" =>
    LET n == Len(asked)  pt == partition[xfer.part] IN
      /\ asked = IF xfer.type = "put" THEN Sectors(pt, xfer.upto - n, n)
                                      ELSE Sectors(pt, xfer.pos, n)
      /\ xfer.at <= xfer.upto
      /\ xfer.pos + xfer.upto <= pt.numblocks

(* The sectors of a partition keep their order: a step takes sectors out or
   puts new ones behind, in each partition. *)
KeepsOrder ==
  [][\A p \in Partitions :
       LET old == partition[p].block  new == partition'[p].block IN
         new # old =>
           \A i, j \in Slots : i < j /\ old[j] # NoBlock =>
             \A k, l \in Slots : new[k] = old[i] /\ new[l] = old[j] => k < l]_vars

(* No sector is lost: when the drive passes a sector that the filters send to
   a partition, it is there, however full the buffer is. *)
NoSectorLost ==
  [][PlaySector /\ Destination(FAD) # NoPartition =>
       partition'[Destination(FAD)].numblocks
         = partition[Destination(FAD)].numblocks + 1]_vars

(* A play comes to its end, though the buffer fills up on the way, unless the program
   takes the drive's filter away: without one the drive waits and reads nothing. *)
PlayEnds ==
  status \in {"play", "seek"} ~> status \notin {"play", "seek"} \/ ~connected

(* The end of a get-then-delete frees its sectors: it is left out only when
   there is nothing to free ("Make sure we actually have to free something"). *)
EndFrees ==
  [][EndDataTransfer /\ xfer.type = "getdel" => Elements(asked) \subseteq free']_vars

=============================================================================
