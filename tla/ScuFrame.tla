------------------------------ MODULE ScuFrame ------------------------------
(***************************************************************************)
(* The walk of YabauseEmulate over the slices and lines of a frame, and    *)
(* what follows from it in the SCU: the blanks, both timers, and the three *)
(* levels of DMA, which a register or one of those events starts.  A slice *)
(* is the tenth of a line.  The program writes between slices; so do a     *)
(* change of the clock, which the SMPC makes at the end of a slice, and    *)
(* the requests of other devices.                                          *)
(*                                                                         *)
(* What the interrupt controller does with a request is in ScuIntc: here   *)
(* "out" is what the last step asks of it, in order.  VBlank-IN is sent by *)
(* the VDP thread while the emulation thread waits (VBlankINIsAlone of     *)
(* VdpSync), and is a part of the slice.                                   *)
(***************************************************************************)
EXTENDS ScuDma

CONSTANTS
  Levels,         \* 0..2: the levels of DMA
  Slices,         \* 10: slices of a line; HBlank-IN comes in the last but one
  MaxLineCount,   \* 263 or 313: lines of a frame
  FirstBlankLine, \* 225: the first line of the vertical blank after a reset
  NoLine,         \* 500: a T0C beyond it is no line
  SliceTime,      \* the steps of DMA in a slice
  StartTime,      \* 128: the steps a transfer gets when it is started
  FlushTime,      \* 2^31 - 1: longer than any transfer
  Works,          \* what the program asks of a level: counts, unit, indirect
  Factors,        \* what it writes to DnMD
  BlankLines,     \* the first lines of the blank that TVMD can choose
  T0Cs, T1Ss,     \* what it writes to T0C and, in slices, to T1S
  MaxWrites,      \* bound: writes of the program
  MaxResets       \* bound: resets and changes of the clock

ASSUME TimeAssumption ==
  /\ Levels \subseteq 0..2
  /\ Slices \in Nat \ {0, 1} /\ MaxLineCount \in Nat \ {0, 1} /\ NoLine \in Nat
  /\ {SliceTime, StartTime, FlushTime} \subseteq Nat \ {0}
ASSUME LinesAssumption ==
  /\ FirstBlankLine \in 1..(MaxLineCount - 1) /\ FirstBlankLine \in BlankLines
  /\ BlankLines \subseteq Nat \ {0, MaxLineCount}
ASSUME WritesAssumption ==
  /\ Levels \subseteq DOMAIN Works /\ \A l \in Levels : Works[l] # {}
  /\ \A l \in DOMAIN Works : \A w \in Works[l] :
       w.counts \in Seq(Nat) /\ w.counts # <<>> /\ w.unit \in Nat \ {0}
       /\ w.indirect \in BOOLEAN /\ (w.indirect \/ Len(w.counts) = 1)
  /\ Factors \subseteq 0..7 /\ T0Cs \subseteq Nat /\ T1Ss \subseteq Nat
  /\ {MaxWrites, MaxResets} \subseteq Nat

ASSUME FlushAssumption ==
  \A l \in Levels : \A w \in Works[l] : Duration(Load(l, w)) <= FlushTime

\* the vectors, by name
VBlankIN == 64
VBlankOUT == 65
HBlankIN == 66
Timer0 == 67
Timer1 == 68
SoundRequest == 70
DrawEnd == 77
DMAEnd(l) == 75 - l

\* what starts a level: the low three bits of DnMD
ByVBlankIN == 0
ByVBlankOUT == 1
ByHBlankIN == 2
ByTimer0 == 3
ByTimer1 == 4
BySound == 5
ByDrawEnd == 6
ByRegister == 7

VARIABLES
  scu,     \* the SCU: see ScuState
  line,    \* LineCount
  slice,   \* DecilineCount
  vbl,     \* VBlankLineCount
  blanks,  \* VBlank-INs since the last VBlank-OUT
  extra,   \* of these, what a move of the blank or of the line made more or less
  moved,   \* such a move keeps timer 0 from being the line until VBlank-OUT
  writes, resets

frame == <<line, slice, vbl>>
ghosts == <<blanks, extra, moved>>
vars == <<scu, frame, ghosts, writes, resets>>

\* The SCU.  en is bit 8 of DnEN, md the factor in DnMD, work the other
\* registers of a level; T1on and T1line are bits 0 and 7 of T1MD.  owed counts
\* the transfers of a level that have been started and have not ended.
Init ==
  /\ scu = [dma |-> [l \in Levels |-> Idle],
            owed |-> [l \in Levels |-> 0],
            en |-> [l \in Levels |-> FALSE],
            md |-> [l \in Levels |-> ByRegister],
            work |-> [l \in Levels |-> CHOOSE w \in Works[l] : TRUE],
            T0C |-> 0, T1on |-> FALSE, T1line |-> FALSE,
            timer0 |-> 0, timer0_set |-> FALSE,
            timer1_set |-> FALSE, timer1_counter |-> 0, timer1_preset |-> 0,
            out |-> <<>>]
  /\ line = 0 /\ slice = 0 /\ vbl = FirstBlankLine
  /\ blanks = 0 /\ extra = 0 /\ moved = FALSE
  /\ writes = 0 /\ resets = 0

-----------------------------------------------------------------------------
(* What the SCU asks of the interrupt controller *)

SendInterrupt(s, v) == [s EXCEPT !.out = Append(@, <<"send", v>>)]

\* from the controller and the master's pending list
ScuRemoveTimer(s, v) == [s EXCEPT !.out = Append(@, <<"remove", v>>)]

\* from the CPUs' pending lists only
TakeBack(s, v) == [s EXCEPT !.out = Append(@, <<"take back", v>>)]

-----------------------------------------------------------------------------
(* DMA *)

\* every level gets the whole time; those that end say so
ScuDmaProc(s, time) ==
  LET after == [l \in Levels |-> SucDmaCheck(s.dma[l], time)]
      Ends(l) == l \in Levels /\ Busy(s.dma[l]) /\ Finished(after[l])
      ended == SelectSeq(<<0, 1, 2>>, Ends)
  IN [s EXCEPT !.dma = after,
               !.owed = [l \in Levels |-> IF Ends(l) THEN s.owed[l] - 1 ELSE s.owed[l]],
               !.out = @ \o [i \in DOMAIN ended |-> <<"send", DMAEnd(ended[i])>>]]

\* mutant: a transfer is loaded over the one that is still going on
MutStartDma(s, l, flush) ==
  ScuDmaProc([s EXCEPT !.dma[l] = Load(l, s.work[l]),
                       !.owed[l] = IF Hung(s.dma[l]) THEN 1 ELSE @ + 1], StartTime)

\* A level is started: first all of them end what they are at, if the level's
\* count says that it has something to do; then it gets the first share of time,
\* and so do the others.  Over a transfer that hangs another one is loaded.
StartDma(s, l, flush) ==
  LET f == IF flush THEN ScuDmaProc(s, FlushTime) ELSE s
  IN ScuDmaProc([f EXCEPT !.dma[l] = Load(l, f.work[l]),
                          !.owed[l] = IF Hung(f.dma[l]) THEN 1 ELSE @ + 1], StartTime)

\* a factor starts an enabled level, once
CheckLevel(s, l, id) ==
  IF l \in Levels /\ s.en[l] /\ s.md[l] = id
    THEN [StartDma(s, l, Busy(s.dma[l])) EXCEPT !.en[l] = FALSE]
    ELSE s

ScuChekIntrruptDMA(s, id) == CheckLevel(CheckLevel(CheckLevel(s, 0, id), 1, id), 2, id)

-----------------------------------------------------------------------------
(* The timers *)

ScuSendTimer0(s) == ScuChekIntrruptDMA(SendInterrupt(s, Timer0), ByTimer0)
ScuSendTimer1(s) == ScuChekIntrruptDMA(SendInterrupt(s, Timer1), ByTimer1)

\* timer 0 has been set or counted: it is compared if the timers are on
CompareTimer0(s) ==
  IF ~s.T1on THEN s
  ELSE IF s.timer0 = s.T0C THEN ScuSendTimer0([s EXCEPT !.timer0_set = TRUE])
  ELSE ScuRemoveTimer([s EXCEPT !.timer0_set = FALSE], Timer0)

\* timer 1 begins to count at the HBlank-IN after it was set or ran out
ReloadTimer1(s) ==
  IF s.T1on /\ s.timer1_set
    THEN ScuRemoveTimer([s EXCEPT !.timer1_set = FALSE,
                                  !.timer1_counter = s.timer1_preset], Timer1)
    ELSE s

\* mutant: timer 1 is not set again when it runs out
MutScuTimer1Exec(s) ==
  IF s.timer1_counter <= 0 THEN s
  ELSE LET c == [s EXCEPT !.timer1_counter = @ - 1]
       IN IF c.timer1_counter = 0 /\ (c.T1line => c.timer0_set)
            THEN ScuSendTimer1(c) ELSE c

ScuTimer1Exec(s) ==
  IF s.timer1_counter <= 0 THEN s
  ELSE LET c == [s EXCEPT !.timer1_counter = @ - 1]
       IN IF c.timer1_counter > 0 THEN c
          ELSE IF c.T1line /\ ~c.timer0_set THEN [c EXCEPT !.timer1_set = TRUE]
          ELSE ScuSendTimer1([c EXCEPT !.timer1_set = TRUE])

\* the share of a slice, in line l
ScuExec(s, l) ==
  ScuDmaProc(IF s.T1on /\ (s.T1line => l = s.T0C \/ s.T0C > NoLine)
               THEN ScuTimer1Exec(s) ELSE s, SliceTime)

-----------------------------------------------------------------------------
(* The blanks *)

ScuSendVBlankIN(s) ==
  ScuChekIntrruptDMA(SendInterrupt(ScuRemoveTimer(s, Timer0), VBlankIN), ByVBlankIN)

\* mutant: timer 0 goes on in the next frame
MutScuSendVBlankOUT(s) ==
  LET sent == TakeBack(SendInterrupt(s, VBlankOUT), VBlankIN)
      off == ScuRemoveTimer(ScuRemoveTimer(sent, Timer0), Timer1)
  IN ScuChekIntrruptDMA(CompareTimer0(off), ByVBlankOUT)

ScuSendVBlankOUT(s) ==
  LET sent == TakeBack(SendInterrupt(s, VBlankOUT), VBlankIN)
      off == ScuRemoveTimer(ScuRemoveTimer(sent, Timer0), Timer1)
  IN ScuChekIntrruptDMA(CompareTimer0([off EXCEPT !.timer0 = 0]), ByVBlankOUT)

ScuSendHBlankIN(s) ==
  LET sent == [SendInterrupt(s, HBlankIN) EXCEPT !.timer0 = @ + 1]
  IN ScuChekIntrruptDMA(ReloadTimer1(CompareTimer0(sent)), ByHBlankIN)

ScuRemoveHBlankIN(s) == TakeBack(s, HBlankIN)

-----------------------------------------------------------------------------
(* YabauseEmulate *)

\* what of a line belongs to the picture
Visible == line < vbl

\* a slice in the middle of a line; HBlank-IN in the last but one
InLine ==
  LET hblank == slice + 1 = Slices - 1 /\ Visible
      s == [scu EXCEPT !.out = <<>>]
  IN /\ slice + 1 < Slices
     /\ slice' = slice + 1
     /\ scu' = ScuExec(IF hblank THEN ScuSendHBlankIN(s) ELSE s, line)
     /\ UNCHANGED <<line, vbl, ghosts, writes, resets>>

\* mutant: every line of the blank begins one
MutEndLine ==
  LET next == line + 1
      s == [scu EXCEPT !.out = <<>>]
      out == IF Visible THEN ScuRemoveHBlankIN(s) ELSE s
  IN /\ slice + 1 = Slices
     /\ slice' = 0
     /\ CASE next # MaxLineCount /\ next >= vbl ->
               /\ line' = next
               /\ scu' = ScuExec(ScuSendVBlankIN(out), next)
               /\ blanks' = blanks + 1
               /\ UNCHANGED <<extra, moved>>
          [] next = MaxLineCount ->
               /\ line' = 0
               /\ scu' = ScuExec(ScuSendVBlankOUT(out), 0)
               /\ blanks' = 0 /\ extra' = 0 /\ moved' = FALSE
          [] OTHER ->
               /\ line' = next
               /\ scu' = ScuExec(out, next)
               /\ UNCHANGED ghosts
     /\ UNCHANGED <<vbl, writes, resets>>

\* the last slice of a line: HBlank-OUT, and VBlank-IN or VBlank-OUT
EndLine ==
  LET next == line + 1
      s == [scu EXCEPT !.out = <<>>]
      out == IF Visible THEN ScuRemoveHBlankIN(s) ELSE s
  IN /\ slice + 1 = Slices
     /\ slice' = 0
     /\ CASE next = vbl ->
               /\ line' = next
               /\ scu' = ScuExec(ScuSendVBlankIN(out), next)
               /\ blanks' = blanks + 1
               /\ UNCHANGED <<extra, moved>>
          [] next # vbl /\ next = MaxLineCount ->
               /\ line' = 0
               /\ scu' = ScuExec(ScuSendVBlankOUT(out), 0)
               /\ blanks' = 0 /\ extra' = 0 /\ moved' = FALSE
          [] OTHER ->
               /\ line' = next
               /\ scu' = ScuExec(out, next)
               /\ UNCHANGED ghosts
     /\ UNCHANGED <<vbl, writes, resets>>

\* ScuReset: the transfers that are going on are dropped.  What is left alone are
\* the flags and the counter of the timers and the registers that say how much.
ScuReset(s) ==
  [s EXCEPT !.dma = [l \in Levels |-> Idle], !.owed = [l \in Levels |-> 0],
            !.en = [l \in Levels |-> FALSE], !.md = [l \in Levels |-> ByRegister],
            !.T1on = FALSE, !.T1line = FALSE, !.timer0 = 0, !.out = <<>>]

\* the beginning of the blank, the line, or both are moved: the picture may begin
\* again after VBlank-IN, or the line of VBlank-IN be passed over
Move(l, v) ==
  extra' = extra + (IF line < vbl THEN 0 ELSE 1) - (IF l < v THEN 0 ELSE 1)

\* a reset, between two frames
YabauseReset ==
  /\ line = 0 /\ slice = 0 /\ resets < MaxResets
  /\ scu' = ScuReset(scu)
  /\ vbl' = FirstBlankLine
  /\ Move(line, FirstBlankLine)
  /\ resets' = resets + 1
  /\ UNCHANGED <<line, slice, blanks, moved, writes>>

\* SmpcCKCHG352 and SmpcCKCHG320: the line begins again, in the middle of a frame
ChangeClock ==
  /\ resets < MaxResets
  /\ scu' = ScuReset(scu)
  /\ line' = 0 /\ slice' = 0 /\ vbl' = FirstBlankLine
  /\ Move(0, FirstBlankLine)
  /\ moved' = FALSE
  /\ resets' = resets + 1
  /\ UNCHANGED <<blanks, writes>>

-----------------------------------------------------------------------------
(* The program and the other devices *)

Write ==
  /\ writes < MaxWrites /\ writes' = writes + 1
  /\ UNCHANGED resets

\* the registers of a level that only say what it is to do
WriteWork(l) ==
  /\ Write
  /\ \E w \in Works[l], f \in Factors :
       scu' = [scu EXCEPT !.work[l] = w, !.md[l] = f, !.out = <<>>]
  /\ UNCHANGED <<frame, ghosts>>

\* DnEN: bit 0 starts a level that waits for no factor
WriteEN(l) ==
  /\ Write
  /\ \E go, enable \in BOOLEAN :
       LET s == [scu EXCEPT !.out = <<>>]
           started == IF go /\ s.md[l] = ByRegister
                        THEN StartDma(s, l, s.dma[l].left # 0) ELSE s
       IN scu' = [started EXCEPT !.en[l] = enable]
  /\ UNCHANGED <<frame, ghosts>>

WriteT0C ==
  /\ Write
  /\ \E n \in T0Cs : scu' = [scu EXCEPT !.T0C = n, !.out = <<>>]
  /\ UNCHANGED <<frame, ghosts>>

WriteT1S ==
  /\ Write
  /\ \E n \in T1Ss :
       scu' = [scu EXCEPT !.timer1_set = TRUE, !.timer1_preset = n, !.out = <<>>]
  /\ UNCHANGED <<frame, ghosts>>

WriteT1MD ==
  /\ Write
  /\ \E on, inLine \in BOOLEAN :
       scu' = [scu EXCEPT !.T1on = on, !.T1line = inLine, !.out = <<>>]
  /\ UNCHANGED <<frame, ghosts>>

\* TVMD moves the beginning of the blank
WriteTVMD ==
  /\ Write
  /\ \E v \in BlankLines :
       /\ vbl' = v
       /\ Move(line, v)
       /\ moved' = (moved \/ line >= vbl \/ line >= v)
  /\ scu' = [scu EXCEPT !.out = <<>>]
  /\ UNCHANGED <<line, slice, blanks>>

\* the SCSP and VDP1
OtherRequest ==
  /\ \E r \in {<<SoundRequest, BySound>>, <<DrawEnd, ByDrawEnd>>} :
       /\ \E l \in Levels : scu.en[l] /\ scu.md[l] = r[2]
       /\ scu' = ScuChekIntrruptDMA(SendInterrupt([scu EXCEPT !.out = <<>>], r[1]), r[2])
  /\ UNCHANGED <<frame, ghosts, writes, resets>>

-----------------------------------------------------------------------------
Slice == InLine \/ EndLine

Next ==
  \/ Slice
  \/ YabauseReset \/ ChangeClock
  \/ \E l \in Levels : WriteWork(l) \/ WriteEN(l)
  \/ WriteT0C \/ WriteT1S \/ WriteT1MD \/ WriteTVMD
  \/ OtherRequest

Spec == Init /\ [][Next]_vars

\* The loop of YabauseEmulate goes on; nothing else need happen.  Fairness is
\* stated of DecilineCount alone: but for a change of the clock, of which there
\* are finitely many, only Slice makes the next one of it.
NextSlice == slice' = (slice + 1) % Slices
FairSpec == Spec /\ WF_slice(NextSlice)

-----------------------------------------------------------------------------
(* Properties *)

LevelStates ==
  [left : Int, rest : Seq(Nat), unit : Nat \ {0}, indirect : BOOLEAN]

\* the type of the state
TypeOK ==
  /\ scu.dma \in [Levels -> LevelStates]
  /\ scu.owed \in [Levels -> Nat]
  /\ scu.en \in [Levels -> BOOLEAN] /\ scu.md \in [Levels -> 0..7]
  /\ \A l \in Levels : scu.work[l] \in Works[l]
  /\ scu.T0C \in Nat /\ scu.timer0 \in 0..MaxLineCount
  /\ scu.timer1_counter \in Nat /\ scu.timer1_preset \in Nat
  /\ {scu.T1on, scu.T1line, scu.timer0_set, scu.timer1_set} \subseteq BOOLEAN
  /\ line \in 0..(MaxLineCount - 1) /\ slice \in 0..(Slices - 1)
  /\ vbl \in BlankLines
  /\ blanks \in Nat /\ extra \in Int /\ moved \in BOOLEAN
  /\ writes \in 0..MaxWrites /\ resets \in 0..MaxResets

\* a level is owed one end as long as it is at work or hangs, and none otherwise
OwesItsEnd(l) ==
  scu.owed[l] = IF Busy(scu.dma[l]) \/ Hung(scu.dma[l]) THEN 1 ELSE 0

\* Every transfer that is started ends once, whatever starts the other levels
\* and whatever share of its time a start or a slice takes: it is owed its end as
\* long as it is at work, and it does come to an end, unless a reset drops it or
\* an entry of its list with the count 0 makes it hang.
OneEndPerStart ==
  /\ [](\A l \in Levels : OwesItsEnd(l))
  /\ \A l \in Levels : Busy(scu.dma[l]) ~> ~Busy(scu.dma[l])

\* A frame has one VBlank-IN, when its line is reached, and VBlank-OUT ends it:
\* one more follows for each time the program or a change of the clock takes the
\* picture back before the blank, and one is lost when the line of VBlank-IN is
\* passed over.
BlanksCounted == blanks = extra + (IF Visible THEN 0 ELSE 1)

\* Timer 0 is the line, which the comparison of timer 1 in its line mode relies
\* on: it is one ahead from HBlank-IN on and stands still in the blank.
Timer0IsLine ==
  ~moved => scu.timer0 = IF ~Visible THEN vbl
                         ELSE IF slice >= Slices - 1 THEN line + 1 ELSE line

\* Timer 1 is set up for a line that the frame has, and does not run out in the
\* last slice of it, when timer 0 has already gone on.
Timer1InLine ==
  /\ scu.T1on /\ scu.T1line
  /\ scu.T0C <= vbl /\ scu.T0C < MaxLineCount
  /\ scu.timer1_preset > 0 /\ scu.timer1_preset % Slices # 0

\* In its line mode timer 1, which is set again at HBlank-IN and counts only in
\* one line of a frame, goes on to make its interrupt for as long as it is set up
\* for a line.
Timer1Comes ==
  <>[]Timer1InLine => []<>(<<"send", Timer1>> \in {scu.out[i] : i \in DOMAIN scu.out})
=============================================================================
