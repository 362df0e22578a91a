-------------------------------- MODULE Smpc ---------------------------------
(***************************************************************************)
(* The SMPC, the system manager of the Saturn: a command register that the *)
(* program writes, a busy flag SF that it polls, and a countdown after     *)
(* which the command runs.  INTBACK is a conversation: a status report,    *)
(* then peripheral reports that the program asks for one by one with       *)
(* Continue, until it says Break or the vertical blank ends them.          *)
(*                                                                         *)
(* The bytes that are reported (OREG, SMEM, the clock) are left out, and   *)
(* so is the direct mode of the ports (PDR, DDR).  Of IREG0 the values a   *)
(* program uses are kept, of IREG1 bit 3, of SR the high nibble.           *)
(***************************************************************************)
EXTENDS Integers

CONSTANTS
  Commands,         \* the values a program writes to COMREG
  PortSizes,        \* the bytes a port can have to report
  ReportSize,       \* the output registers, 32
  StatusTime,       \* the countdown of a status report, 250
  LongTime,         \* the countdown of a peripheral report, 16000
  DecilinesPerLine, \* calls of SmpcExec in a line, 10
  WaitLine,         \* the line that ends a countdown early, 207
  VBlankLineCount,  \* the first line of the vertical blank, 224
  MaxLineCount,     \* the lines of a frame, 263
  Polite            \* whether the program polls SF before it writes

ASSUME TimesAssumption ==
  /\ {ReportSize, StatusTime, LongTime, DecilinesPerLine} \subseteq Nat \ {0}
  /\ {WaitLine, VBlankLineCount, MaxLineCount} \subseteq Nat
  /\ WaitLine < VBlankLineCount /\ VBlankLineCount < MaxLineCount
  /\ Polite \in BOOLEAN
ASSUME PortsAssumption == PortSizes \subseteq Nat \ {0}
ASSUME CommandsAssumption == Commands \subseteq 0..255

VARIABLES
  s,         \* the registers and the internal variables of the SMPC
  line,      \* yabsys.LineCount
  dec,       \* yabsys.DecilineCount
  claimed    \* a polite program has set SF and not yet written COMREG

vars == <<s, line, dec, claimed>>

SSHON == 2     SSHOFF == 3    SNDON == 6      SNDOFF == 7
CKCHG352 == 14 CKCHG320 == 15 INTBACK == 16
NMIREQ == 24   RESENAB == 25  RESDISA == 26

\* the commands SmpcSetTiming gives the shortest countdown; MSHON, CDON, CDOFF,
\* SYSRES do nothing when they run and SETSMEM only moves data
ShortCommands == {0, SSHON, SSHOFF, SNDON, SNDOFF, 8, 9, 13, CKCHG352,
                  CKCHG320, 23, NMIREQ, RESENAB, RESDISA}

\* IREG0 as an INTBACK command: status, and status with the break bit set
Status == 1
StatusBreak == 65
Continue == 128
Break == 64
IREG0Values == {0, Status, StatusBreak, Continue, Break}
WantsStatus(c) == c.IREG0 \in {Status, StatusBreak}   \* IREG0 & 1

NoData == [size |-> 0, offset |-> 0]

-----------------------------------------------------------------------------
(* Reports *)

\* mutant: the rest of a port is not told from its size
MutAfterTurn(p, room) ==
  IF p.size = 0 \/ room = 0 THEN p
  ELSE IF p.size < room THEN [p EXCEPT !.size = 0]
  ELSE [p EXCEPT !.offset = @ + room]

\* a port hands over what it has left, or fills the room there is.  A port
\* whose rest fits exactly is not yet done: its next turn hands over nothing.
AfterTurn(p, room) ==
  IF p.size = 0 \/ room = 0 THEN p
  ELSE IF p.size - p.offset < room THEN [p EXCEPT !.size = 0]
  ELSE [p EXCEPT !.offset = @ + room]

Rest(p) == IF p.size = 0 THEN 0 ELSE p.size - p.offset

\* mutant: port 2 also gets a whole report's room
MutPeripheral(c, n1, n2) ==
  LET fresh == c.port1.size = 0 /\ c.port2.size = 0
      q1 == IF fresh THEN [size |-> n1, offset |-> 0] ELSE c.port1
      q2 == IF fresh THEN [size |-> n2, offset |-> 0] ELSE c.port2
      room == IF Rest(q1) < ReportSize THEN ReportSize - Rest(q1) ELSE 0
  IN  [c EXCEPT !.SR = IF c.firstPeri THEN 12 ELSE 8,
                !.firstPeri = FALSE,
                !.port1 = AfterTurn(q1, ReportSize),
                !.port2 = IF room > 0 THEN AfterTurn(q2, ReportSize) ELSE q2]

\* one peripheral report; n1 and n2 are what the ports have now, taken only
\* when both reports before are used up
SmpcINTBACKPeripheral(c, n1, n2) ==
  LET fresh == c.port1.size = 0 /\ c.port2.size = 0
      q1 == IF fresh THEN [size |-> n1, offset |-> 0] ELSE c.port1
      q2 == IF fresh THEN [size |-> n2, offset |-> 0] ELSE c.port2
      room == IF Rest(q1) < ReportSize THEN ReportSize - Rest(q1) ELSE 0
  IN  [c EXCEPT !.SR = IF c.firstPeri THEN 12 ELSE 8,
                !.firstPeri = FALSE,
                !.port1 = AfterTurn(q1, ReportSize),
                !.port2 = AfterTurn(q2, room)]

\* the registers decide again, when the command runs, what it is
SmpcINTBACK(c, n1, n2) ==
  IF c.intback
    THEN [SmpcINTBACKPeripheral(c, n1, n2) EXCEPT !.sysman = TRUE]
  ELSE IF WantsStatus(c)
    THEN [c EXCEPT !.firstPeri = TRUE, !.intback = c.IREG1bit3,
                   !.SR = IF c.IREG1bit3 THEN 6 ELSE 4, !.sysman = TRUE]
  ELSE IF c.IREG1bit3
    THEN [SmpcINTBACKPeripheral([c EXCEPT !.firstPeri = TRUE, !.intback = TRUE],
                                n1, n2) EXCEPT !.sysman = TRUE]
  ELSE c

\* the command in COMREG runs
Run(c, n1, n2) ==
  CASE c.COMREG = SSHON   -> [c EXCEPT !.slave = TRUE]
    [] c.COMREG = SSHOFF  -> [c EXCEPT !.slave = FALSE]
    [] c.COMREG = SNDON   -> [c EXCEPT !.sound = TRUE]
    [] c.COMREG = SNDOFF  -> [c EXCEPT !.sound = FALSE]
    [] c.COMREG = CKCHG352 -> [c EXCEPT !.slave = FALSE, !.dotsel = 1, !.nmi = TRUE]
    [] c.COMREG = CKCHG320 -> [c EXCEPT !.slave = FALSE, !.dotsel = 0, !.nmi = TRUE]
    [] c.COMREG = INTBACK -> SmpcINTBACK(c, n1, n2)
    [] c.COMREG = NMIREQ  -> [c EXCEPT !.nmi = TRUE]
    [] c.COMREG = RESENAB -> [c EXCEPT !.resd = FALSE]
    [] c.COMREG = RESDISA -> [c EXCEPT !.resd = TRUE]
    [] OTHER -> c

\* the countdown after t more microseconds, line l: line WaitLine ends it for a
\* report that waits for it
Countdown(c, l, t) == (IF c.wait /\ l = WaitLine THEN -1 ELSE c.timing) - t

\* called in every slice: the command runs when its countdown is over
SmpcExec(c, l, t, n1, n2) ==
  LET left == Countdown(c, l, t)
      d == [c EXCEPT !.timing = left, !.wait = @ /\ l # WaitLine]
  IN  IF c.timing <= 0 THEN c
      ELSE IF left > 0 THEN d
      ELSE [Run(d, n1, n2) EXCEPT !.SF = 0]

\* mutant: Continue does not wait for the line
MutSetTimingWait(c) ==
  IF c.COMREG \in ShortCommands THEN [c EXCEPT !.timing = 1]
  ELSE IF c.COMREG = INTBACK
    THEN IF c.intback \/ (c.IREG0 = 0 /\ c.IREG1bit3)
           THEN [c EXCEPT !.timing = LongTime, !.wait = ~c.intback]
         ELSE IF c.IREG0 = Status THEN [c EXCEPT !.timing = StatusTime]
         ELSE [c EXCEPT !.SF = 0]
  ELSE [c EXCEPT !.SF = 0]

\* mutant: every INTBACK is accepted
MutSetTiming(c) ==
  IF c.COMREG \in ShortCommands THEN [c EXCEPT !.timing = 1]
  ELSE IF c.COMREG = INTBACK
    THEN IF c.intback \/ (c.IREG0 = 0 /\ c.IREG1bit3)
           THEN [c EXCEPT !.timing = LongTime, !.wait = TRUE]
         ELSE [c EXCEPT !.timing = StatusTime]
  ELSE [c EXCEPT !.SF = 0]

\* mutant: an unknown command leaves the flag set
MutSetTimingBusy(c) ==
  IF c.COMREG \in ShortCommands THEN [c EXCEPT !.timing = 1]
  ELSE IF c.COMREG = INTBACK
    THEN IF c.intback \/ (c.IREG0 = 0 /\ c.IREG1bit3)
           THEN [c EXCEPT !.timing = LongTime, !.wait = TRUE]
         ELSE IF c.IREG0 = Status THEN [c EXCEPT !.timing = StatusTime]
         ELSE c
  ELSE c

\* what a write to COMREG starts; a command that is not known clears the flag
\* and leaves the countdown of the command before it running
SmpcSetTiming(c) ==
  IF c.COMREG \in ShortCommands THEN [c EXCEPT !.timing = 1]
  ELSE IF c.COMREG = INTBACK
    THEN IF c.intback \/ (c.IREG0 = 0 /\ c.IREG1bit3)
           THEN [c EXCEPT !.timing = LongTime, !.wait = TRUE]
         ELSE IF c.IREG0 = Status THEN [c EXCEPT !.timing = StatusTime]
         ELSE [c EXCEPT !.SF = 0]
  ELSE [c EXCEPT !.SF = 0]

\* SmpcReset
PowerOn ==
  [COMREG |-> 0, IREG0 |-> 0, IREG1bit3 |-> FALSE, SR |-> 0, SF |-> 0,
   intback |-> FALSE, firstPeri |-> FALSE, timing |-> 0, wait |-> FALSE,
   resd |-> TRUE, dotsel |-> 0, port1 |-> NoData, port2 |-> NoData,
   slave |-> FALSE, sound |-> FALSE, nmi |-> FALSE, sysman |-> FALSE]

-----------------------------------------------------------------------------
Init ==
  /\ s = PowerOn
  /\ line = 0
  /\ dec = 0
  /\ claimed = FALSE

(* What the program does.  A polite program sets SF, prepares and writes its *)
(* command only while SF is clear and no INTBACK conversation is open, and   *)
(* says Continue or Break only while SF is clear and one is.                 *)

\* address 0x63
WriteSF(val) ==
  /\ Polite => val = 1 /\ s.SF = 0 /\ ~s.intback /\ ~claimed
  /\ s' = [s EXCEPT !.SF = val]
  /\ claimed' = Polite
  /\ UNCHANGED <<line, dec>>

\* mutant: Continue leaves the busy flag alone
MutWriteIREG0(val) ==
  /\ Polite => IF val \in {Continue, Break}
                 THEN ~claimed /\ s.SF = 0 /\ s.intback
                 ELSE claimed
  /\ LET c == [s EXCEPT !.IREG0 = val]
     IN  s' = IF ~s.intback THEN c
              ELSE IF val \in {Break, StatusBreak}
                THEN [c EXCEPT !.intback = FALSE, !.SR = 0]
              ELSE IF val = Continue THEN SmpcSetTiming([c EXCEPT !.COMREG = INTBACK])
              ELSE c
  /\ UNCHANGED <<line, dec, claimed>>

\* address 0x01: inside a conversation, Break ends it and Continue asks for
\* the next report
WriteIREG0(val) ==
  /\ Polite => IF val \in {Continue, Break}
                 THEN ~claimed /\ s.SF = 0 /\ s.intback
                 ELSE claimed
  /\ LET c == [s EXCEPT !.IREG0 = val]
     IN  s' = IF ~s.intback THEN c
              ELSE IF val \in {Break, StatusBreak}
                THEN [c EXCEPT !.intback = FALSE, !.SR = 0]
              ELSE IF val = Continue
                THEN [SmpcSetTiming([c EXCEPT !.COMREG = INTBACK]) EXCEPT !.SF = 1]
              ELSE c
  /\ UNCHANGED <<line, dec, claimed>>

WriteIREG1(bit3) ==
  /\ Polite => claimed
  /\ s' = [s EXCEPT !.IREG1bit3 = bit3]
  /\ UNCHANGED <<line, dec, claimed>>

\* address 0x1F
WriteCOMREG(com) ==
  /\ Polite => claimed
  /\ s' = SmpcSetTiming([s EXCEPT !.COMREG = com])
  /\ claimed' = FALSE
  /\ UNCHANGED <<line, dec>>

\* the master takes the System Manager interrupt or the NMI
TakeInterrupts ==
  /\ s.sysman \/ s.nmi
  /\ s' = [s EXCEPT !.sysman = FALSE, !.nmi = FALSE]
  /\ UNCHANGED <<line, dec, claimed>>

(* What the emulator does. *)

\* the line after one more slice
LineOn == IF dec + 1 < DecilinesPerLine THEN line
          ELSE IF line + 1 = MaxLineCount THEN 0 ELSE line + 1

\* a change of the clock runs in this step: YabauseChangeTiming begins the frame anew
ClockChanges ==
  s.COMREG \in {CKCHG352, CKCHG320} /\ s.timing > 0 /\ s'.timing <= 0

\* one turn of the loop of YabauseEmulate: the line moves on, the vertical
\* blank ends an INTBACK, and the SMPC runs for one unit of time
Slice ==
  LET c == IF line # LineOn /\ LineOn = VBlankLineCount
             THEN [s EXCEPT !.intback = FALSE] ELSE s
  IN  /\ \E n1, n2 \in PortSizes : s' = SmpcExec(c, LineOn, 1, n1, n2)
      /\ line' = IF ClockChanges THEN 0 ELSE LineOn
      /\ dec' = IF ClockChanges THEN 0 ELSE (dec + 1) % DecilinesPerLine
      /\ UNCHANGED claimed

\* YabauseReset: everything but the wait for the line, which no reset touches
Reset ==
  /\ s' = [PowerOn EXCEPT !.wait = s.wait]
  /\ claimed' = FALSE
  /\ UNCHANGED <<line, dec>>

\* the reset button of the console
SmpcResetButton ==
  /\ ~s.resd
  /\ s' = [s EXCEPT !.nmi = TRUE]
  /\ UNCHANGED <<line, dec, claimed>>

Next ==
  \/ \E val \in {0, 1} : WriteSF(val)
  \/ \E val \in IREG0Values : WriteIREG0(val)
  \/ \E bit3 \in BOOLEAN : WriteIREG1(bit3)
  \/ \E com \in Commands : WriteCOMREG(com)
  \/ TakeInterrupts
  \/ Slice
  \/ Reset
  \/ SmpcResetButton

Spec == Init /\ [][Next]_vars

\* the loop of YabauseEmulate goes on, and a polite program that claimed the
\* SMPC writes its command
FairSpec == Spec /\ WF_vars(Slice) /\ WF_vars(\E com \in Commands : WriteCOMREG(com))

-----------------------------------------------------------------------------
(* Properties *)

Port == {p \in [size : PortSizes \cup {0}, offset : Nat] :
           p.size > 0 => p.offset <= p.size}

\* the type of the state; a port never reports beyond its data
TypeOK ==
  /\ s \in [COMREG : Commands \cup {0, INTBACK}, IREG0 : IREG0Values,
            IREG1bit3 : BOOLEAN, SR : {0, 4, 6, 8, 12}, SF : {0, 1},
            intback : BOOLEAN, firstPeri : BOOLEAN, timing : Int,
            wait : BOOLEAN, resd : BOOLEAN, dotsel : {0, 1},
            port1 : Port, port2 : Port, slave : BOOLEAN, sound : BOOLEAN,
            nmi : BOOLEAN, sysman : BOOLEAN]
  /\ line \in 0..(MaxLineCount - 1)
  /\ dec \in 0..(DecilinesPerLine - 1)
  /\ claimed \in BOOLEAN

\* For a polite program a clear SF means that nothing is in flight: also after
\* Continue, Break, an unknown command, and a vertical blank that ended the
\* conversation under a report that was still to come.
IdleMeansDone == Polite /\ s.SF = 0 => s.timing <= 0

\* the countdown of a command ends in this step
Runs(com) == s.COMREG = com /\ s.timing > 0 /\ s'.timing <= 0 /\ Slice

\* What SmpcSetTiming accepted from a polite program, SmpcINTBACK answers: the
\* registers it reads again at the end of the countdown still ask for a report,
\* and one that asked for the status gets it.
AcceptedIsAnswered ==
  [][Runs(INTBACK) => /\ s'.sysman
                      /\ s.IREG0 = Status => s'.SR \in {4, 6}]_vars

\* A report leaves data behind only if it is full: the rest of both ports
\* shrinks by a whole report, unless it is used up.  This is about the lengths
\* that SmpcINTBACKPeripheral keeps; which bytes it copies is not modelled.
ReportsFull ==
  [][/\ Runs(INTBACK) /\ ~s.sysman /\ s'.sysman /\ s'.SR \in {8, 12}
     /\ s.port1.size > 0 \/ s.port2.size > 0
     /\ Rest(s'.port1) + Rest(s'.port2) > 0
     => Rest(s.port1) + Rest(s.port2)
          = ReportSize + Rest(s'.port1) + Rest(s'.port2)]_vars

\* A Continue is served before the vertical blank that would end the
\* conversation, unless it was written after line WaitLine: whatever is still
\* pending there has counted down for less than the lines between.
ContinueBeatsVBlank ==
  [][/\ Slice /\ line # line' /\ line' = VBlankLineCount
     /\ s.intback /\ s.COMREG = INTBACK /\ s.timing > 0
     => s.timing > LongTime - DecilinesPerLine * (VBlankLineCount - WaitLine)]_vars

\* A program that polls never hangs: whatever it wrote, SF becomes clear.
CommandEnds == (s.SF = 1 /\ ~claimed) ~> (s.SF = 0)
=============================================================================
