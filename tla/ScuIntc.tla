------------------------------ MODULE ScuIntc -------------------------------
(***************************************************************************)
(* The interrupt path of the emulated Saturn: the SCU interrupt controller *)
(* (IMS, IST, AIACK and the queue of masked requests) in front of the      *)
(* pending queues of the two SH-2 CPUs.                                    *)
(*                                                                         *)
(* A request is named by its vector.  A status bit is its number, so that  *)
(* IST is the set of the bits that are 1; IMS is the set of the mask bits  *)
(* that are 1.  The state of the controller and of both pending queues is  *)
(* one record, so that a handler of another component is a composition of  *)
(* the operators below.                                                    *)
(***************************************************************************)
EXTENDS IntQueue

CONSTANTS
  Sources,      \* the vectors that occur, a subset of AllVectors
  MaskLevels    \* the values a program loads into SR.I

VBlankIN  == 64   \* 0x40
VBlankOUT == 65   \* 0x41
HBlankIN  == 66   \* 0x42
Timer0    == 67   \* 0x43
Timer1    == 68   \* 0x44
NMI       == 11   \* 0x0B, sent straight to the master

MaskableVectors == 64..77
ABusVectors     == 80..95
AllVectors      == MaskableVectors \cup ABusVectors

\* the level each ScuSend function passes
Level == [v \in AllVectors |->
  CASE v = 64 -> 15 [] v = 65 -> 14 [] v = 66 -> 13 [] v = 67 -> 12
    [] v = 68 -> 11 [] v = 69 -> 10 [] v = 70 -> 9  [] v \in {71, 72} -> 8
    [] v \in {73, 74} -> 6 [] v = 75 -> 5 [] v = 76 -> 3 [] v = 77 -> 2
    [] v \in 80..83 -> 7 [] v \in 84..87 -> 4 [] OTHER -> 1]

\* the status bit and the mask bit each ScuSend function passes
StatusBit(v) == v - 64
MaskBit(v)   == IF v \in ABusVectors THEN 15 ELSE v - 64

StatusBits == {StatusBit(v) : v \in Sources \cap MaskableVectors}
MaskBits   == {MaskBit(v) : v \in Sources}

ASSUME SourcesAssumption == Sources \subseteq AllVectors
ASSUME MaskLevelsAssumption == MaskLevels \subseteq 0..15

VARIABLES
  intc,      \* the controller and both pending queues
  mI,        \* SR.I of the master
  sI         \* SR.I of the slave

vars == <<intc, mI, sI>>

-----------------------------------------------------------------------------
(* The queue of masked requests.  The code keeps it in the first
   NumberOfInterrupts slots of an array, and one function reads a slot beyond
   them: "left" is the set of the status bits b for which slot b, beyond the
   queue, still holds the entry of status bit b. *)

Request(v) == [vector |-> v, level |-> Level[v]]

WithQueue(c, q) ==
  [c EXCEPT !.queue = q,
            !.left  = {b \in StatusBits :
                         /\ b >= Len(q)
                         /\ IF b < Len(c.queue)
                              THEN StatusBit(c.queue[Len(c.queue)].vector) = b
                              ELSE b \in c.left}]

\* slot b of the array holds the entry of status bit b
SlotHolds(c, b) ==
  IF b < Len(c.queue) THEN StatusBit(c.queue[b+1].vector) = b ELSE b \in c.left

\* hand a vector to the CPUs: HBlankIN and VBlankIN also go to a running slave
ToCpus(c, v) ==
  [c EXCEPT
    !.msh2 = Enqueue(c.msh2, Request(v)),
    !.ssh2 = CASE c.IsSSH2Running /\ v = HBlankIN ->
                    Enqueue(c.ssh2, [vector |-> 65, level |-> 1])
               [] c.IsSSH2Running /\ v = VBlankIN ->
                    Enqueue(c.ssh2, [vector |-> 67, level |-> 2])
               [] OTHER -> c.ssh2]

\* a source asks for its interrupt
SendInterrupt(c, v) ==
  IF v \in ABusVectors
    THEN IF ~c.AIACK THEN c
         ELSE IF 15 \in c.IMS THEN [c EXCEPT !.AIACK = FALSE]
         ELSE [c EXCEPT !.AIACK = FALSE, !.msh2 = Enqueue(c.msh2, Request(v))]
  ELSE IF MaskBit(v) \notin c.IMS
    THEN ToCpus([c EXCEPT !.IST = c.IST \cup {StatusBit(v)}], v)
  ELSE WithQueue([c EXCEPT !.IST = c.IST \cup {StatusBit(v)}],
                Enqueue(c.queue, Request(v)))

\* withdraw a request from the controller
ScuRemoveInterrupt(c, v) ==
  WithQueue([c EXCEPT !.IST = c.IST \ {StatusBit(v)}], Withdraw(c.queue, v))

\* withdraw a timer's request from the controller and from the master
ScuRemoveTimer(c, v) ==
  [ScuRemoveInterrupt(c, v) EXCEPT !.msh2 = Withdraw(c.msh2, v)]

\* take VBlankIN back from the CPUs; the controller keeps its own request
ScuRemoveVBlankIN(c) ==
  [c EXCEPT !.msh2 = Withdraw(c.msh2, VBlankIN),
            !.ssh2 = Withdraw(c.ssh2, 67)]

\* the queued requests that are unmasked and whose status bit still stands
Ready(c) ==
  {i \in 1..Len(c.queue) :
     /\ MaskBit(c.queue[i].vector) \notin c.IMS
     /\ StatusBit(c.queue[i].vector) \in c.IST}

\* mutant: the scan starts at the lowest request
MutTestLowest(c) ==
  IF Ready(c) = {} THEN c
  ELSE LET low == CHOOSE i \in Ready(c) : \A j \in Ready(c) : i <= j
           v   == c.queue[low].vector
       IN  WithQueue([ToCpus(c, v) EXCEPT !.IST = c.IST \ {StatusBit(v)}],
                     Drop(c.queue, low))

\* serve the highest ready request, and only that one.  The branch of the
\* code for queued A-bus requests is dead: QueuesInOrder.
ScuTestInterruptMask(c) ==
  IF Ready(c) = {} THEN c
  ELSE LET top == CHOOSE i \in Ready(c) : \A j \in Ready(c) : j <= i
           v   == c.queue[top].vector
       IN  WithQueue([ToCpus(c, v) EXCEPT !.IST = c.IST \ {StatusBit(v)}],
                    Drop(c.queue, top))

\* the h lowest requests dropped, one by one
DropLowest(c, h) ==
  WithQueue(c, [i \in 1..(Len(c.queue) - h) |-> c.queue[i+h]])

(***************************************************************************)
(* The loop of ScuRemoveInterruptByCPU over the status bits that the CPU   *)
(* clears, from 0 up.  It tests slot i, for status bit i, where it means   *)
(* the slot it is scanning, and so hits at the first one or not at all: a  *)
(* hit drops the lowest request.  hits is the set of bits that hit.        *)
(***************************************************************************)
HitsOf(c, cleared, hits) ==
  \A i \in cleared :
    LET k == Cardinality({b \in hits : b < i})
    IN  i \in hits <=> k < Len(c.queue) /\ SlotHolds(DropLowest(c, k), i)

ScuReset(c) ==
  [c EXCEPT !.IMS = MaskBits \ {14}, !.AIACK = FALSE,
            !.queue = << >>, !.left = {}]

\* SH2HandleInterrupts: enter the last pending entry if it beats SR.I
Accepts(q, I) == Len(q) > 0 /\ q[Len(q)].level > I
AfterAccept(q, I) == IF Accepts(q, I) THEN Drop(q, Len(q)) ELSE q

\* mutant: the level of an NMI goes into the mask as it is
MutMaskAfter(q, I) == IF Accepts(q, I) THEN q[Len(q)].level ELSE I

\* mutant: the mask takes the level of the first entry
MutMaskLowest(q, I) == IF Accepts(q, I) /\ q[1].level <= 15 THEN q[1].level ELSE I

MaskAfter(q, I) ==
  IF Accepts(q, I)
    THEN IF q[Len(q)].level = 16 THEN 15 ELSE q[Len(q)].level
    ELSE I

-----------------------------------------------------------------------------
Init ==
  /\ intc = [IMS |-> MaskBits \ {14}, IST |-> {}, AIACK |-> FALSE,
             queue |-> << >>, left |-> {}, msh2 |-> << >>, ssh2 |-> << >>,
             IsSSH2Running |-> FALSE]
  /\ mI = 15
  /\ sI = 15

\* one of the ScuSend functions
Raise(v) == /\ intc' = SendInterrupt(intc, v)
            /\ UNCHANGED <<mI, sI>>

\* the timers withdraw a request that was not served in its line
RemoveTimer(v) == /\ intc' = ScuRemoveTimer(intc, v)
                  /\ UNCHANGED <<mI, sI>>

RemoveVBlankIN == /\ intc' = ScuRemoveVBlankIN(intc)
                  /\ UNCHANGED <<mI, sI>>

\* ScuWriteLong, 0xA0
WriteIMS(val) ==
  /\ intc' = ScuTestInterruptMask([intc EXCEPT !.IMS = val])
  /\ UNCHANGED <<mI, sI>>

\* ScuWriteLong, 0xA4, and ScuWriteByte, 0xA7: val is ANDed into IST
WriteIST(val) ==
  LET cleared == intc.IST \ val
  IN  /\ \E hits \in SUBSET cleared :
           /\ Cardinality(hits) <= Len(intc.queue)
           /\ HitsOf(intc, cleared, hits)
           /\ intc' = ScuTestInterruptMask(
                        [DropLowest(intc, Cardinality(hits))
                           EXCEPT !.IST = intc.IST \cap val])
      /\ UNCHANGED <<mI, sI>>

\* ScuWriteLong, 0xA8
WriteAIACK(val) ==
  /\ intc' = ScuTestInterruptMask([intc EXCEPT !.AIACK = val])
  /\ UNCHANGED <<mI, sI>>

\* the master, at the start of a slice of SH2InterpreterExec
HandleMaster ==
  /\ intc' = [intc EXCEPT !.msh2 = AfterAccept(intc.msh2, mI)]
  /\ mI' = MaskAfter(intc.msh2, mI)
  /\ UNCHANGED sI

HandleSlave ==
  /\ intc.IsSSH2Running
  /\ intc' = [intc EXCEPT !.ssh2 = AfterAccept(intc.ssh2, sI)]
  /\ sI' = MaskAfter(intc.ssh2, sI)
  /\ UNCHANGED mI

\* LDC Rm,SR on the master: the new mask, then the interrupts it lets in
LdcSRMaster(l) ==
  /\ intc' = [intc EXCEPT !.msh2 = AfterAccept(intc.msh2, l)]
  /\ mI' = MaskAfter(intc.msh2, l)
  /\ UNCHANGED sI

LdcSRSlave(l) ==
  /\ intc.IsSSH2Running
  /\ intc' = [intc EXCEPT !.ssh2 = AfterAccept(intc.ssh2, l)]
  /\ sI' = MaskAfter(intc.ssh2, l)
  /\ UNCHANGED mI

\* SSHON; the HLE BIOS also opens the slave's mask and lets one interrupt in
StartSlave(emulatebios) ==
  /\ IF emulatebios
       THEN /\ intc' = [intc EXCEPT !.IsSSH2Running = TRUE,
                                    !.ssh2 = AfterAccept(intc.ssh2, 0)]
            /\ sI' = MaskAfter(intc.ssh2, 0)
       ELSE /\ intc' = [intc EXCEPT !.IsSSH2Running = TRUE]
            /\ UNCHANGED sI
  /\ UNCHANGED mI

\* SSHOFF
StopSlave ==
  /\ intc' = [intc EXCEPT !.IsSSH2Running = FALSE, !.ssh2 = << >>]
  /\ sI' = 15
  /\ UNCHANGED mI

\* NMIREQ and the reset button
SendNMI ==
  /\ intc' = [intc EXCEPT !.msh2 = Enqueue(@, [vector |-> NMI, level |-> 16])]
  /\ UNCHANGED <<mI, sI>>

\* CKCHG352 and CKCHG320: reset the SCU, stop the slave, NMI to the master
ClockChange ==
  /\ intc' = [ScuReset(intc) EXCEPT
                !.IsSSH2Running = FALSE, !.ssh2 = << >>,
                !.msh2 = Enqueue(intc.msh2, [vector |-> NMI, level |-> 16])]
  /\ sI' = 15
  /\ UNCHANGED mI

Next ==
  \/ \E v \in Sources : Raise(v)
  \/ \E v \in Sources \cap {Timer0, Timer1} : RemoveTimer(v)
  \/ RemoveVBlankIN
  \/ \E val \in SUBSET MaskBits : WriteIMS(val)
  \/ \E val \in SUBSET StatusBits : WriteIST(val)
  \/ \E val \in BOOLEAN : WriteAIACK(val)
  \/ HandleMaster
  \/ HandleSlave
  \/ \E l \in MaskLevels : LdcSRMaster(l) \/ LdcSRSlave(l)
  \/ \E emulatebios \in BOOLEAN : StartSlave(emulatebios)
  \/ StopSlave
  \/ SendNMI
  \/ ClockChange

Spec == Init /\ [][Next]_vars

-----------------------------------------------------------------------------
(* Properties *)

IntcType ==
  [IMS : SUBSET MaskBits, IST : SUBSET StatusBits, AIACK : BOOLEAN,
   queue : Seq(Entry), left : SUBSET StatusBits,
   msh2 : Seq(Entry), ssh2 : Seq(Entry), IsSSH2Running : BOOLEAN]

\* the type of the state
TypeOK == intc \in IntcType /\ mI \in 0..15 /\ sI \in 0..15

\* All three queues are in the order of their levels and hold a vector at most
\* once: the scan from the top in ScuTestInterruptMask and the single look at
\* the last entry in SH2HandleInterrupts serve the highest level only if so.
\* Only requests that IMS can mask wait in the controller, each with its own level:
\* an A-bus request that finds no acknowledge is dropped, never queued, so the
\* A-bus branch of ScuTestInterruptMask (which would go on scanning a list it
\* shortened) is dead.
QueuesInOrder ==
  /\ \A q \in {intc.queue, intc.msh2, intc.ssh2} : Ordered(q) /\ Distinct(q)
  /\ \A i \in 1..Len(intc.queue) :
       /\ intc.queue[i].vector \in Sources \cap MaskableVectors
       /\ intc.queue[i].level = Level[intc.queue[i].vector]

\* Whatever a register write moves from the controller to the master is the
\* most urgent of the requests that were ready: nothing that stays behind,
\* unmasked and still flagged in IST, has a higher level.  It is one request only,
\* also when the write unmasks several.
ServesHighestFirst ==
  [][/\ \A v \in VectorsOf(intc.queue) \ VectorsOf(intc'.queue) :
         Holds(intc'.msh2, v) /\ ~Holds(intc.msh2, v) =>
           \A i \in Ready(intc') : intc'.queue[i].level <= Level[v]
     /\ Cardinality(VectorsOf(intc'.msh2) \ VectorsOf(intc.msh2)) <= 1]_vars

\* Once the master has looked at its pending interrupts, none that is left
\* beats its new mask, though it looked at one entry only and an NMI (level 16)
\* raises the mask to 15.
NothingBeatsMask ==
  [][HandleMaster \/ (\E l \in MaskLevels : LdcSRMaster(l)) =>
       \A i \in 1..Len(intc'.msh2) : intc'.msh2[i].level <= mI']_vars

\* Clearing status bits withdraws the requests of those bits and no others: a
\* request whose bit the program leaves alone is still queued, or was served.
AckKeepsOthers ==
  [][\A val \in SUBSET StatusBits : WriteIST(val) =>
       \A v \in VectorsOf(intc.queue) :
         StatusBit(v) \in val =>
           Holds(intc'.queue, v) \/ Holds(intc'.msh2, v)]_vars
=============================================================================
