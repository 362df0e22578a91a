------------------------------ MODULE SmpcProofs -----------------------------
(***************************************************************************)
(* What a polite program may rely on: a clear SF means that nothing is in  *)
(* flight, an INTBACK that was accepted is answered, and a command counts  *)
(* down to its end undisturbed but by a reset.  For any program:           *)
(* the type of the state, a Continue that is in time for the vertical      *)
(* blank, and reports that leave data behind only when they are full.      *)
(***************************************************************************)
EXTENDS Smpc, TLAPS

State ==
  [COMREG : 0..255, IREG0 : IREG0Values, IREG1bit3 : BOOLEAN,
   SR : {0, 4, 6, 8, 12}, SF : {0, 1}, intback : BOOLEAN,
   firstPeri : BOOLEAN, timing : Int, wait : BOOLEAN, resd : BOOLEAN,
   dotsel : {0, 1}, port1 : [size : Int, offset : Int],
   port2 : [size : Int, offset : Int], slave : BOOLEAN,
   sound : BOOLEAN, nmi : BOOLEAN, sysman : BOOLEAN]

Fields == s \in State /\ claimed \in BOOLEAN

\* while a polite program prepares a command the SMPC is idle
ClaimedIsIdle == claimed => s.SF = 1 /\ ~s.intback /\ s.timing <= 0

\* a conversation can go on: IREG1 still asks for peripheral reports
OpenAsks == s.intback => s.IREG1bit3

\* an INTBACK that is counting down will find what it was accepted for
PendingAsks ==
  s.COMREG = INTBACK /\ s.timing > 0 =>
    \/ s.IREG0 = Status /\ ~s.intback
    \/ s.IREG0 # Status /\ s.IREG1bit3

PoliteInv == IdleMeansDone /\ ClaimedIsIdle /\ OpenAsks /\ PendingAsks

\* the inductive invariant
IInv == Fields /\ (Polite => PoliteInv)

-----------------------------------------------------------------------------
(* What the operators change *)

LEMMA TurnType ==
  ASSUME NEW p \in [size : Int, offset : Int], NEW room \in Int
  PROVE  AfterTurn(p, room) \in [size : Int, offset : Int]
BY DEF AfterTurn

LEMMA SetTimingFields ==
  ASSUME NEW c \in State
  PROVE  /\ SmpcSetTiming(c) \in State
         /\ SmpcSetTiming(c).COMREG = c.COMREG
         /\ SmpcSetTiming(c).IREG0 = c.IREG0
         /\ SmpcSetTiming(c).IREG1bit3 = c.IREG1bit3
         /\ SmpcSetTiming(c).intback = c.intback
         /\ SmpcSetTiming(c).timing # c.timing => SmpcSetTiming(c).SF = c.SF
         /\ SmpcSetTiming(c).timing > 0 /\ c.timing <= 0 /\ c.COMREG = INTBACK
              => \/ c.intback
                 \/ c.IREG0 = 0 /\ c.IREG1bit3
                 \/ c.IREG0 = Status
<1> DEFINE d == SmpcSetTiming(c)
<1>1. \/ d = [c EXCEPT !.timing = 1] /\ c.COMREG # INTBACK
      \/ /\ d = [c EXCEPT !.timing = LongTime, !.wait = TRUE]
         /\ c.intback \/ (c.IREG0 = 0 /\ c.IREG1bit3)
      \/ d = [c EXCEPT !.timing = StatusTime] /\ c.IREG0 = Status
      \/ d = [c EXCEPT !.SF = 0]
  BY DEF SmpcSetTiming, ShortCommands, INTBACK, SSHON, SSHOFF, SNDON, SNDOFF,
         CKCHG352, CKCHG320, NMIREQ, RESENAB, RESDISA
<1>2. LongTime \in Int /\ StatusTime \in Int
  BY TimesAssumption
<1> HIDE DEF d
<1>3. d \in State
  <2>1. CASE d = [c EXCEPT !.timing = 1]
    BY <2>1 DEF State
  <2>2. CASE d = [c EXCEPT !.timing = LongTime, !.wait = TRUE]
    BY <2>2, <1>2, ZenonT(60) DEF State
  <2>3. CASE d = [c EXCEPT !.timing = StatusTime]
    BY <2>3, <1>2 DEF State
  <2>4. CASE d = [c EXCEPT !.SF = 0]
    BY <2>4 DEF State
  <2> QED BY <1>1, <2>1, <2>2, <2>3, <2>4
<1>4. /\ d.COMREG = c.COMREG /\ d.IREG0 = c.IREG0
      /\ d.IREG1bit3 = c.IREG1bit3 /\ d.intback = c.intback
      /\ d.timing # c.timing => d.SF = c.SF
  BY <1>1, ZenonT(60) DEF State
<1>5. d.timing > 0 /\ c.timing <= 0 /\ c.COMREG = INTBACK
        => c.intback \/ (c.IREG0 = 0 /\ c.IREG1bit3) \/ c.IREG0 = Status
  BY <1>1, <1>2 DEF State
<1> QED BY <1>3, <1>4, <1>5 DEF d

LEMMA PeripheralFields ==
  ASSUME NEW c \in State, NEW n1 \in Int, NEW n2 \in Int
  PROVE  LET d == SmpcINTBACKPeripheral(c, n1, n2)
         IN  /\ d \in State
             /\ d.COMREG = c.COMREG /\ d.IREG0 = c.IREG0
             /\ d.IREG1bit3 = c.IREG1bit3 /\ d.intback = c.intback
             /\ d.timing = c.timing /\ d.SF = c.SF
<1> DEFINE q1 == IF c.port1.size = 0 /\ c.port2.size = 0
                   THEN [size |-> n1, offset |-> 0] ELSE c.port1
           q2 == IF c.port1.size = 0 /\ c.port2.size = 0
                   THEN [size |-> n2, offset |-> 0] ELSE c.port2
           room == IF Rest(q1) < ReportSize THEN ReportSize - Rest(q1) ELSE 0
<1>1. q1 \in [size : Int, offset : Int] /\ q2 \in [size : Int, offset : Int]
  BY DEF State
<1>2. ReportSize \in Int /\ room \in Int
  BY <1>1, TimesAssumption DEF Rest
<1> HIDE DEF q1, q2, room
<1>3. AfterTurn(q1, ReportSize) \in [size : Int, offset : Int]
  BY <1>1, <1>2, TurnType
<1>4. AfterTurn(q2, room) \in [size : Int, offset : Int]
  BY <1>1, <1>2, TurnType
<1>5. SmpcINTBACKPeripheral(c, n1, n2)
        = [c EXCEPT !.SR = IF c.firstPeri THEN 12 ELSE 8, !.firstPeri = FALSE,
                    !.port1 = AfterTurn(q1, ReportSize),
                    !.port2 = AfterTurn(q2, room)]
  BY DEF SmpcINTBACKPeripheral, q1, q2, room
<1> QED BY <1>3, <1>4, <1>5, ZenonT(60) DEF State

\* what every command leaves alone, and the conversations that can go on
Kept(c, d) ==
  /\ d \in State
  /\ d.COMREG = c.COMREG /\ d.IREG0 = c.IREG0 /\ d.IREG1bit3 = c.IREG1bit3
  /\ d.timing = c.timing
  /\ (c.intback => c.IREG1bit3) => (d.intback => d.IREG1bit3)

\* an INTBACK whose registers still ask for a report is answered
Answers(c, d) ==
  /\ c.intback \/ WantsStatus(c) \/ c.IREG1bit3 => d.sysman
  /\ ~c.intback /\ c.IREG0 = Status => d.SR \in {4, 6}

LEMMA SysmanKept ==
  ASSUME NEW e \in State
  PROVE  LET d == [e EXCEPT !.sysman = TRUE]
         IN  /\ d \in State
             /\ d.COMREG = e.COMREG /\ d.IREG0 = e.IREG0 /\ d.timing = e.timing
             /\ d.IREG1bit3 = e.IREG1bit3 /\ d.intback = e.intback
             /\ d.sysman
BY ZenonT(60) DEF State

LEMMA IntbackFields ==
  ASSUME NEW c \in State, NEW n1 \in Int, NEW n2 \in Int
  PROVE  Kept(c, SmpcINTBACK(c, n1, n2)) /\ Answers(c, SmpcINTBACK(c, n1, n2))
<1> DEFINE P(e) == SmpcINTBACKPeripheral(e, n1, n2)
           o == [c EXCEPT !.firstPeri = TRUE, !.intback = TRUE]
           d == SmpcINTBACK(c, n1, n2)
<1>1. CASE c.intback
  <2>1. /\ P(c) \in State
        /\ P(c).COMREG = c.COMREG /\ P(c).IREG0 = c.IREG0
        /\ P(c).IREG1bit3 = c.IREG1bit3 /\ P(c).intback = c.intback
        /\ P(c).timing = c.timing /\ P(c).SF = c.SF
    BY PeripheralFields
  <2>2. d = [P(c) EXCEPT !.sysman = TRUE]
    BY <1>1 DEF SmpcINTBACK
  <2> HIDE DEF P, d
  <2> DEFINE e == P(c)
  <2> HIDE DEF e
  <2>3. Kept(c, d)
    <3>1. d = [e EXCEPT !.sysman = TRUE]
      BY <2>2 DEF e
    <3>2. /\ e \in State /\ e.COMREG = c.COMREG /\ e.IREG0 = c.IREG0
          /\ e.IREG1bit3 = c.IREG1bit3 /\ e.intback = c.intback
          /\ e.timing = c.timing
      BY <2>1 DEF e
    <3>3. /\ d \in State
          /\ d.COMREG = e.COMREG /\ d.IREG0 = e.IREG0 /\ d.timing = e.timing
          /\ d.IREG1bit3 = e.IREG1bit3 /\ d.intback = e.intback
      BY <3>1, <3>2, SysmanKept
    <3> QED BY <3>2, <3>3 DEF Kept
  <2>4. d.sysman
    BY <2>1, <2>2, SysmanKept
  <2>5. Answers(c, d)
    BY <1>1, <2>4 DEF Answers
  <2> QED BY <2>3, <2>5 DEF d
<1>2. CASE ~c.intback /\ WantsStatus(c)
  <2>1. d = [c EXCEPT !.firstPeri = TRUE, !.intback = c.IREG1bit3,
                      !.SR = IF c.IREG1bit3 THEN 6 ELSE 4, !.sysman = TRUE]
    BY <1>2 DEF SmpcINTBACK
  <2> HIDE DEF d
  <2>2. /\ d.COMREG = c.COMREG /\ d.IREG0 = c.IREG0 /\ d.timing = c.timing
        /\ d.IREG1bit3 = c.IREG1bit3 /\ d.intback = c.IREG1bit3
    BY <2>1 DEF State
  <2>3. d.sysman /\ d.SR \in {4, 6}
    BY <2>1 DEF State
  <2>5. d \in State
    BY <2>1, ZenonT(60) DEF State
  <2>6. Kept(c, d)
    BY <2>2, <2>5 DEF Kept
  <2>4. Answers(c, d)
    BY <2>3 DEF Answers
  <2> QED BY <2>4, <2>6 DEF d
<1>3. CASE ~c.intback /\ ~WantsStatus(c) /\ c.IREG1bit3
  <2>1. /\ o \in State
        /\ o.COMREG = c.COMREG /\ o.IREG0 = c.IREG0
        /\ o.IREG1bit3 = c.IREG1bit3 /\ o.timing = c.timing /\ o.SF = c.SF
    BY ZenonT(60) DEF State
  <2> HIDE DEF o
  <2>2. /\ P(o) \in State
        /\ P(o).COMREG = o.COMREG /\ P(o).IREG0 = o.IREG0
        /\ P(o).IREG1bit3 = o.IREG1bit3
        /\ P(o).timing = o.timing /\ P(o).SF = o.SF
    BY <2>1, PeripheralFields
  <2>3. d = [P(o) EXCEPT !.sysman = TRUE]
    BY <1>3 DEF SmpcINTBACK, o
  <2>4. c.IREG0 # Status
    BY <1>3 DEF WantsStatus
  <2> HIDE DEF P, d
  <2> DEFINE e == P(o)
  <2> HIDE DEF e
  <2>5. Kept(c, d)
    <3>1. d = [e EXCEPT !.sysman = TRUE]
      BY <2>3 DEF e
    <3>2. /\ e \in State /\ e.COMREG = c.COMREG /\ e.IREG0 = c.IREG0
          /\ e.IREG1bit3 = c.IREG1bit3 /\ e.timing = c.timing
      BY <2>1, <2>2 DEF e
    <3>3. /\ d \in State
          /\ d.COMREG = e.COMREG /\ d.IREG0 = e.IREG0 /\ d.timing = e.timing
          /\ d.IREG1bit3 = e.IREG1bit3
      BY <3>1, <3>2, SysmanKept
    <3> QED BY <1>3, <3>2, <3>3 DEF Kept
  <2>6. d.sysman
    BY <2>2, <2>3, SysmanKept
  <2>7. Answers(c, d)
    BY <2>4, <2>6 DEF Answers
  <2> QED BY <2>5, <2>7 DEF d
<1>4. CASE ~c.intback /\ ~WantsStatus(c) /\ ~c.IREG1bit3
  <2>1. d = c
    BY <1>4 DEF SmpcINTBACK
  <2> HIDE DEF d
  <2>2. Kept(c, d)
    BY <2>1 DEF Kept
  <2>3. Answers(c, d)
    BY <1>4 DEF Answers, WantsStatus
  <2> QED BY <2>2, <2>3 DEF d
<1> QED BY <1>1, <1>2, <1>3, <1>4

LEMMA RunFields ==
  ASSUME NEW c \in State, NEW n1 \in Int, NEW n2 \in Int
  PROVE  /\ Kept(c, Run(c, n1, n2))
         /\ c.COMREG = INTBACK => Answers(c, Run(c, n1, n2))
<1> USE DEF SSHON, SSHOFF, SNDON, SNDOFF, CKCHG352, CKCHG320, INTBACK, NMIREQ,
            RESENAB, RESDISA
<1>1. CASE c.COMREG = INTBACK
  <2>1. Run(c, n1, n2) = SmpcINTBACK(c, n1, n2)
    BY <1>1 DEF Run
  <2> QED BY <2>1, IntbackFields
<1>2. CASE c.COMREG # INTBACK
  <2> DEFINE d == Run(c, n1, n2)
  <2>1. CASE c.COMREG = SSHON
    <3>1. d = [c EXCEPT !.slave = TRUE]
      BY <2>1 DEF Run
    <3> QED BY <1>2, <3>1, ZenonT(60) DEF State, Kept
  <2>2. CASE c.COMREG = SSHOFF
    <3>1. d = [c EXCEPT !.slave = FALSE]
      BY <2>2 DEF Run
    <3> QED BY <1>2, <3>1, ZenonT(60) DEF State, Kept
  <2>3. CASE c.COMREG = SNDON
    <3>1. d = [c EXCEPT !.sound = TRUE]
      BY <2>3 DEF Run
    <3> QED BY <1>2, <3>1, ZenonT(60) DEF State, Kept
  <2>4. CASE c.COMREG = SNDOFF
    <3>1. d = [c EXCEPT !.sound = FALSE]
      BY <2>4 DEF Run
    <3> QED BY <1>2, <3>1, ZenonT(60) DEF State, Kept
  <2>5. CASE c.COMREG = CKCHG352
    <3>1. d = [c EXCEPT !.slave = FALSE, !.dotsel = 1, !.nmi = TRUE]
      BY <2>5 DEF Run
    <3> QED BY <1>2, <3>1, ZenonT(60) DEF State, Kept
  <2>6. CASE c.COMREG = CKCHG320
    <3>1. d = [c EXCEPT !.slave = FALSE, !.dotsel = 0, !.nmi = TRUE]
      BY <2>6 DEF Run
    <3> QED BY <1>2, <3>1, ZenonT(60) DEF State, Kept
  <2>7. CASE c.COMREG = NMIREQ
    <3>1. d = [c EXCEPT !.nmi = TRUE]
      BY <2>7 DEF Run
    <3> QED BY <1>2, <3>1, ZenonT(60) DEF State, Kept
  <2>8. CASE c.COMREG = RESENAB
    <3>1. d = [c EXCEPT !.resd = FALSE]
      BY <2>8 DEF Run
    <3> QED BY <1>2, <3>1, ZenonT(60) DEF State, Kept
  <2>9. CASE c.COMREG = RESDISA
    <3>1. d = [c EXCEPT !.resd = TRUE]
      BY <2>9 DEF Run
    <3> QED BY <1>2, <3>1, ZenonT(60) DEF State, Kept
  <2>10. CASE c.COMREG \notin {SSHON, SSHOFF, SNDON, SNDOFF, CKCHG352, CKCHG320,
                               NMIREQ, RESENAB, RESDISA}
    <3>1. d = c
      BY <1>2, <2>10 DEF Run
    <3> QED BY <1>2, <3>1 DEF Kept
  <2> HIDE DEF d
  <2> QED BY <2>1, <2>2, <2>3, <2>4, <2>5, <2>6, <2>7, <2>8, <2>9, <2>10
<1> QED BY <1>1, <1>2

\* what a slice leaves alone, and what the end of a countdown means
Executed(c, e) ==
  /\ e \in State
  /\ e.COMREG = c.COMREG /\ e.IREG0 = c.IREG0 /\ e.IREG1bit3 = c.IREG1bit3
  /\ (c.intback => c.IREG1bit3) => (e.intback => e.IREG1bit3)
  /\ c.timing <= 0 => e = c
  /\ e.timing > 0 => c.timing > 0 /\ e.SF = c.SF /\ e.intback = c.intback
  /\ c.timing > 0 /\ e.timing <= 0 =>
       e.SF = 0 /\ (c.COMREG = INTBACK => Answers(c, e))

LEMMA ExecFields ==
  ASSUME NEW c \in State, NEW l, NEW n1 \in Int, NEW n2 \in Int
  PROVE  Executed(c, SmpcExec(c, l, 1, n1, n2))
<1> DEFINE left == Countdown(c, l, 1)
           w == c.wait /\ l # WaitLine
           d == [c EXCEPT !.timing = left, !.wait = w]
           r == Run(d, n1, n2)
           e == SmpcExec(c, l, 1, n1, n2)
<1>1. left \in Int /\ c.timing \in Int
  BY DEF Countdown, State
<1>2. w \in BOOLEAN
  OBVIOUS
<1>3. e = IF c.timing <= 0 THEN c ELSE IF left > 0 THEN d ELSE [r EXCEPT !.SF = 0]
  BY DEF SmpcExec
<1> HIDE DEF left, w, e
<1>4. /\ d \in State /\ d.timing = left /\ d.SF = c.SF
      /\ d.COMREG = c.COMREG /\ d.IREG0 = c.IREG0 /\ d.intback = c.intback
      /\ d.IREG1bit3 = c.IREG1bit3
  BY <1>1, <1>2, ZenonT(60) DEF State
<1> HIDE DEF d
<1>5. CASE c.timing <= 0
  <2>1. e = c /\ ~(c.timing > 0)
    BY <1>1, <1>3, <1>5
  <2> QED BY <2>1 DEF Executed, e
<1>6. CASE c.timing > 0 /\ left > 0
  <2>1. e = d /\ ~(c.timing <= 0) /\ ~(left <= 0)
    BY <1>1, <1>3, <1>6
  <2> QED BY <1>4, <1>6, <2>1 DEF Executed, e
<1>7. CASE c.timing > 0 /\ left <= 0
  <2>1. e = [r EXCEPT !.SF = 0] /\ ~(c.timing <= 0) /\ ~(left > 0)
    BY <1>1, <1>3, <1>7
  <2>2. Kept(d, r) /\ (d.COMREG = INTBACK => Answers(d, r))
    BY <1>4, RunFields
  <2> HIDE DEF r
  <2>3. r \in State
    BY <2>2 DEF Kept
  <2>4. /\ e \in State /\ e.SF = 0 /\ e.sysman = r.sysman /\ e.SR = r.SR
        /\ e.COMREG = r.COMREG /\ e.IREG0 = r.IREG0 /\ e.timing = r.timing
        /\ e.IREG1bit3 = r.IREG1bit3 /\ e.intback = r.intback
    BY <2>1, <2>3 DEF State
  <2>5. /\ r.COMREG = c.COMREG /\ r.IREG0 = c.IREG0 /\ r.IREG1bit3 = c.IREG1bit3
        /\ r.timing = left
        /\ (c.intback => c.IREG1bit3) => (r.intback => r.IREG1bit3)
    BY <1>4, <2>2 DEF Kept
  <2>6. c.COMREG = INTBACK => Answers(c, e)
    BY <1>4, <2>2, <2>4 DEF Answers, WantsStatus
  <2> QED BY <2>1, <2>4, <2>5, <2>6 DEF Executed, e
<1> QED BY <1>1, <1>5, <1>6, <1>7

-----------------------------------------------------------------------------
(* The inductive invariant *)

LEMMA PowerOnFields ==
  PowerOn \in State /\ PowerOn.timing = 0 /\ PowerOn.intback = FALSE
BY DEF PowerOn, State, IREG0Values, NoData

LEMMA InitInv == Init => IInv
<1> SUFFICES ASSUME Init PROVE IInv
  OBVIOUS
<1>1. s \in State
  BY PowerOnFields DEF Init
<1>2. s.timing = 0 /\ s.intback = FALSE /\ claimed = FALSE
  BY PowerOnFields DEF Init
<1>3. s.timing <= 0 /\ ~(s.timing > 0)
  BY <1>2
<1> HIDE DEF Init
<1>4. IdleMeansDone /\ PendingAsks
  BY <1>3 DEF IdleMeansDone, PendingAsks
<1>5. ClaimedIsIdle /\ OpenAsks
  BY <1>2 DEF ClaimedIsIdle, OpenAsks
<1>6. Fields
  BY <1>1, <1>2 DEF Fields
<1> QED BY <1>4, <1>5, <1>6 DEF IInv, PoliteInv

LEMMA WriteSFInv ==
  ASSUME IInv, NEW val \in {0, 1}, WriteSF(val)
  PROVE  IInv'
<1>1. s \in State /\ s' = [s EXCEPT !.SF = val] /\ claimed' = Polite
  BY DEF IInv, Fields, WriteSF
<1>2. s' \in State
  BY <1>1 DEF State
<1>3. /\ s'.SF = val /\ s'.timing = s.timing /\ s'.intback = s.intback
      /\ s'.COMREG = s.COMREG /\ s'.IREG0 = s.IREG0
      /\ s'.IREG1bit3 = s.IREG1bit3
  BY <1>1 DEF State
<1>4. Polite => PoliteInv'
  <2> SUFFICES ASSUME Polite PROVE PoliteInv'
    OBVIOUS
  <2>1. val = 1 /\ s.SF = 0 /\ ~s.intback
    BY DEF WriteSF
  <2>2. PoliteInv
    BY DEF IInv
  <2>3. s.timing <= 0
    BY <2>1, <2>2 DEF PoliteInv, IdleMeansDone
  <2> QED BY <1>3, <2>1, <2>2, <2>3
        DEF PoliteInv, IdleMeansDone, ClaimedIsIdle, OpenAsks, PendingAsks
<1>5. claimed' \in BOOLEAN
  BY <1>1, TimesAssumption
<1> QED BY <1>2, <1>4, <1>5 DEF IInv, Fields

LEMMA WriteIREG1Inv ==
  ASSUME IInv, NEW bit3 \in BOOLEAN, WriteIREG1(bit3)
  PROVE  IInv'
<1>1. s \in State /\ s' = [s EXCEPT !.IREG1bit3 = bit3] /\ claimed' = claimed
  BY DEF IInv, Fields, WriteIREG1
<1>2. s' \in State
  BY <1>1 DEF State
<1>3. /\ s'.SF = s.SF /\ s'.timing = s.timing /\ s'.intback = s.intback
      /\ s'.COMREG = s.COMREG /\ s'.IREG0 = s.IREG0
  BY <1>1 DEF State
<1>4. Polite => PoliteInv'
  <2> SUFFICES ASSUME Polite PROVE PoliteInv'
    OBVIOUS
  <2>1. claimed /\ PoliteInv
    BY DEF WriteIREG1, IInv
  <2>2. s.timing \in Int
    BY <1>1 DEF State
  <2> QED BY <1>1, <1>3, <2>1, <2>2
        DEF PoliteInv, IdleMeansDone, ClaimedIsIdle, OpenAsks, PendingAsks
<1> QED BY <1>1, <1>2, <1>4 DEF IInv, Fields

LEMMA WriteIREG0Inv ==
  ASSUME IInv, NEW val \in IREG0Values, WriteIREG0(val)
  PROVE  IInv'
<1> DEFINE c == [s EXCEPT !.IREG0 = val]
           b == [c EXCEPT !.intback = FALSE, !.SR = 0]
           o == [c EXCEPT !.COMREG = INTBACK]
           p == SmpcSetTiming(o)
<1>1. s \in State /\ claimed' = claimed /\ claimed \in BOOLEAN
  BY DEF IInv, Fields, WriteIREG0
<1>2. \/ s' = c /\ (s.intback => val \notin {Break, Continue})
      \/ s' = b /\ s.intback /\ val \in {Break, StatusBreak}
      \/ s' = [p EXCEPT !.SF = 1] /\ s.intback /\ val = Continue
  BY DEF WriteIREG0, IREG0Values
<1>3. /\ c \in State /\ c.IREG0 = val /\ c.SF = s.SF /\ c.timing = s.timing
      /\ c.intback = s.intback /\ c.COMREG = s.COMREG
      /\ c.IREG1bit3 = s.IREG1bit3
  BY <1>1 DEF State
<1>4. Polite => IF val \in {Continue, Break}
                  THEN ~claimed /\ s.SF = 0 /\ s.intback ELSE claimed
  BY DEF WriteIREG0
<1> HIDE DEF c
<1>5. CASE s' = c /\ (s.intback => val \notin {Break, Continue})
  <2>1. Polite => PoliteInv'
    <3> SUFFICES ASSUME Polite PROVE PoliteInv'
      OBVIOUS
    <3>1. PoliteInv /\ claimed
      BY <1>4, <1>5 DEF IInv
    <3>2. s.SF = 1 /\ ~s.intback /\ s.timing <= 0 /\ ~(s.timing > 0)
      BY <1>1, <3>1 DEF PoliteInv, ClaimedIsIdle, State
    <3>3. s'.SF = 1 /\ ~s'.intback /\ s'.timing <= 0 /\ ~(s'.timing > 0)
      BY <1>3, <1>5, <3>2
    <3> QED BY <3>3 DEF PoliteInv, IdleMeansDone, ClaimedIsIdle, OpenAsks, PendingAsks
  <2> QED BY <1>1, <1>3, <1>5, <2>1 DEF IInv, Fields
<1>6. CASE s' = b /\ s.intback /\ val \in {Break, StatusBreak}
  <2>1. /\ b \in State /\ b.SF = s.SF /\ b.timing = s.timing /\ ~b.intback
    BY <1>3, ZenonT(60) DEF State
  <2> HIDE DEF b
  <2>2. Polite => PoliteInv'
    <3> SUFFICES ASSUME Polite PROVE PoliteInv'
      OBVIOUS
    <3>1. PoliteInv
      BY DEF IInv
    <3>2. ~claimed
      BY <1>6, <3>1 DEF PoliteInv, ClaimedIsIdle
    <3>3. s.SF = 0
      BY <1>4, <3>2
    <3>4. s.timing <= 0 /\ ~(s.timing > 0)
      BY <1>1, <3>1, <3>3 DEF PoliteInv, IdleMeansDone, State
    <3>5. ~s'.intback /\ s'.timing <= 0 /\ ~(s'.timing > 0) /\ ~claimed'
      BY <1>1, <1>6, <2>1, <3>2, <3>4
    <3> QED BY <3>5 DEF PoliteInv, IdleMeansDone, ClaimedIsIdle, OpenAsks, PendingAsks
  <2> QED BY <1>1, <1>6, <2>1, <2>2 DEF IInv, Fields
<1>7. CASE s' = [p EXCEPT !.SF = 1] /\ s.intback /\ val = Continue
  <2>1. /\ o \in State /\ o.IREG0 = val /\ o.intback = s.intback
        /\ o.IREG1bit3 = s.IREG1bit3
    BY <1>3 DEF State, INTBACK
  <2> HIDE DEF o
  <2>2. /\ p \in State /\ p.IREG0 = val /\ p.intback = s.intback
        /\ p.IREG1bit3 = s.IREG1bit3
    BY <2>1, SetTimingFields
  <2> HIDE DEF p
  <2>3. /\ s' \in State /\ s'.SF = 1 /\ s'.IREG0 = val /\ s'.intback = s.intback
        /\ s'.IREG1bit3 = s.IREG1bit3
    BY <1>7, <2>2, ZenonT(60) DEF State
  <2>4. Polite => PoliteInv'
    <3> SUFFICES ASSUME Polite PROVE PoliteInv'
      OBVIOUS
    <3>1. PoliteInv
      BY DEF IInv
    <3>2. ~claimed' /\ s.IREG1bit3
      BY <1>1, <1>7, <3>1 DEF PoliteInv, ClaimedIsIdle, OpenAsks
    <3>3. s'.IREG0 # Status
      BY <1>7, <2>3 DEF Continue, Status
    <3> QED BY <2>3, <3>2, <3>3
            DEF PoliteInv, IdleMeansDone, ClaimedIsIdle, OpenAsks, PendingAsks
  <2> QED BY <1>1, <2>3, <2>4 DEF IInv, Fields
<1> QED BY <1>2, <1>5, <1>6, <1>7

LEMMA WriteCOMREGInv ==
  ASSUME IInv, NEW com \in Commands, WriteCOMREG(com)
  PROVE  IInv'
<1> DEFINE c == [s EXCEPT !.COMREG = com]
<1>1. s \in State /\ s' = SmpcSetTiming(c) /\ claimed' = FALSE
  BY DEF IInv, Fields, WriteCOMREG
<1>2. /\ c \in State /\ c.IREG0 = s.IREG0 /\ c.SF = s.SF /\ c.timing = s.timing
      /\ c.intback = s.intback /\ c.COMREG = com /\ c.IREG1bit3 = s.IREG1bit3
  BY <1>1, CommandsAssumption DEF State
<1> HIDE DEF c
<1>3. /\ s' \in State /\ s'.COMREG = com /\ s'.IREG0 = s.IREG0
      /\ s'.IREG1bit3 = s.IREG1bit3 /\ s'.intback = s.intback
      /\ s'.timing # s.timing => s'.SF = s.SF
      /\ s'.timing > 0 /\ s.timing <= 0 /\ com = INTBACK
           => \/ s.intback
              \/ s.IREG0 = 0 /\ s.IREG1bit3
              \/ s.IREG0 = Status
  BY <1>1, <1>2, SetTimingFields
<1>4. Polite => PoliteInv'
  <2> SUFFICES ASSUME Polite PROVE PoliteInv'
    OBVIOUS
  <2>1. PoliteInv /\ claimed
    BY DEF IInv, WriteCOMREG
  <2>2. s.SF = 1 /\ ~s.intback /\ s.timing <= 0
    BY <2>1 DEF PoliteInv, ClaimedIsIdle
  <2>3. s.timing \in Int /\ s'.timing \in Int
    BY <1>1, <1>3 DEF State
  <2>4. IdleMeansDone'
    BY <1>3, <2>2, <2>3 DEF IdleMeansDone
  <2>5. ClaimedIsIdle' /\ OpenAsks'
    BY <1>1, <1>3, <2>2 DEF ClaimedIsIdle, OpenAsks
  <2>6. PendingAsks'
    BY <1>3, <2>2 DEF PendingAsks, Status
  <2> QED BY <2>4, <2>5, <2>6 DEF PoliteInv
<1> QED BY <1>1, <1>3, <1>4 DEF IInv, Fields

\* the fields the invariant reads are untouched
LEMMA SameFieldsInv ==
  ASSUME IInv, s' \in State, claimed' = claimed,
         s'.SF = s.SF, s'.timing = s.timing, s'.intback = s.intback,
         s'.COMREG = s.COMREG, s'.IREG0 = s.IREG0, s'.IREG1bit3 = s.IREG1bit3
  PROVE  IInv'
BY DEF IInv, Fields, PoliteInv, IdleMeansDone, ClaimedIsIdle, OpenAsks, PendingAsks

LEMMA TakenFields ==
  ASSUME NEW c \in State
  PROVE  LET d == [c EXCEPT !.sysman = FALSE, !.nmi = FALSE]
         IN  /\ d \in State
             /\ d.SF = c.SF /\ d.timing = c.timing /\ d.intback = c.intback
             /\ d.COMREG = c.COMREG /\ d.IREG0 = c.IREG0
             /\ d.IREG1bit3 = c.IREG1bit3
BY ZenonT(60) DEF State

LEMMA TakeInterruptsInv == ASSUME IInv, TakeInterrupts PROVE IInv'
<1>1. /\ s \in State /\ claimed' = claimed
      /\ s' = [s EXCEPT !.sysman = FALSE, !.nmi = FALSE]
  BY DEF IInv, Fields, TakeInterrupts
<1>2. /\ s' \in State
      /\ s'.SF = s.SF /\ s'.timing = s.timing /\ s'.intback = s.intback
      /\ s'.COMREG = s.COMREG /\ s'.IREG0 = s.IREG0
      /\ s'.IREG1bit3 = s.IREG1bit3
  BY <1>1, TakenFields
<1> QED BY <1>1, <1>2, SameFieldsInv

LEMMA ResetButtonInv == ASSUME IInv, SmpcResetButton PROVE IInv'
<1>1. s \in State /\ claimed' = claimed /\ s' = [s EXCEPT !.nmi = TRUE]
  BY DEF IInv, Fields, SmpcResetButton
<1>2. /\ s' \in State
      /\ s'.SF = s.SF /\ s'.timing = s.timing /\ s'.intback = s.intback
      /\ s'.COMREG = s.COMREG /\ s'.IREG0 = s.IREG0
      /\ s'.IREG1bit3 = s.IREG1bit3
  BY <1>1, ZenonT(60) DEF State
<1> QED BY <1>1, <1>2, SameFieldsInv

LEMMA BlankFields ==
  ASSUME NEW c \in State
  PROVE  LET d == [c EXCEPT !.intback = FALSE]
         IN  /\ d \in State /\ d.intback = FALSE
             /\ d.SF = c.SF /\ d.timing = c.timing /\ d.COMREG = c.COMREG
             /\ d.IREG0 = c.IREG0 /\ d.IREG1bit3 = c.IREG1bit3
BY ZenonT(60) DEF State

LEMMA ResetInv == ASSUME IInv, Reset PROVE IInv'
<1>1. /\ s \in State /\ claimed' = FALSE
      /\ s' = [PowerOn EXCEPT !.wait = s.wait]
  BY DEF IInv, Fields, Reset
<1>2. s.wait \in BOOLEAN
  BY <1>1 DEF State
<1>3. s' \in State /\ s'.timing = 0 /\ s'.intback = FALSE
  BY <1>1, <1>2, PowerOnFields DEF State
<1>4. s'.timing <= 0 /\ ~(s'.timing > 0) /\ ~s'.intback /\ ~claimed'
  BY <1>1, <1>3
<1>5. PoliteInv'
  BY <1>4 DEF PoliteInv, IdleMeansDone, ClaimedIsIdle, OpenAsks, PendingAsks
<1> QED BY <1>1, <1>3, <1>5 DEF IInv, Fields

\* the state a slice hands to SmpcExec: the vertical blank may end INTBACK
LEMMA SliceStep ==
  ASSUME IInv, Slice
  PROVE  \E c \in State :
           /\ c = s \/ c = [s EXCEPT !.intback = FALSE]
           /\ Executed(c, s')
<1> DEFINE l == LineOn
           c == IF line # l /\ l = VBlankLineCount
                  THEN [s EXCEPT !.intback = FALSE] ELSE s
<1>1. s \in State
  BY DEF IInv, Fields
<1>2. PICK n1 \in PortSizes, n2 \in PortSizes : s' = SmpcExec(c, l, 1, n1, n2)
  BY DEF Slice
<1>3. n1 \in Int /\ n2 \in Int
  BY PortsAssumption
<1> HIDE DEF l
<1>4. c \in State
  BY <1>1, BlankFields
<1>5. c = s \/ c = [s EXCEPT !.intback = FALSE]
  OBVIOUS
<1> HIDE DEF c
<1>6. Executed(c, s')
  BY <1>2, <1>3, <1>4, ExecFields
<1> QED BY <1>4, <1>5, <1>6

LEMMA SliceInv == ASSUME IInv, Slice PROVE IInv'
<1>1. PICK c \in State : /\ c = s \/ c = [s EXCEPT !.intback = FALSE]
                         /\ Executed(c, s')
  BY SliceStep
<1>2. s \in State /\ claimed' = claimed /\ claimed \in BOOLEAN
  BY DEF IInv, Fields, Slice
<1>3. /\ c.SF = s.SF /\ c.timing = s.timing /\ c.COMREG = s.COMREG
      /\ c.IREG0 = s.IREG0 /\ c.IREG1bit3 = s.IREG1bit3
      /\ c.intback => s.intback
  BY <1>1, <1>2, BlankFields
<1>4. /\ s' \in State
      /\ s'.COMREG = s.COMREG /\ s'.IREG0 = s.IREG0
      /\ s'.IREG1bit3 = s.IREG1bit3
      /\ (c.intback => s.IREG1bit3) => (s'.intback => s.IREG1bit3)
      /\ s.timing <= 0 => s' = c
      /\ s'.timing > 0 =>
           s.timing > 0 /\ s'.SF = s.SF /\ s'.intback = c.intback
      /\ s.timing > 0 /\ s'.timing <= 0 => s'.SF = 0
  BY <1>1, <1>3 DEF Executed
<1>5. s.timing \in Int /\ s'.timing \in Int
  BY <1>2, <1>4 DEF State
<1>6. Polite => PoliteInv'
  <2> SUFFICES ASSUME Polite PROVE PoliteInv'
    OBVIOUS
  <2>1. PoliteInv
    BY DEF IInv
  <2>2. IdleMeansDone'
    BY <1>4, <1>5, <2>1 DEF PoliteInv, IdleMeansDone
  <2>3. OpenAsks'
    BY <1>3, <1>4, <2>1 DEF PoliteInv, OpenAsks
  <2>4. ClaimedIsIdle'
    <3> SUFFICES ASSUME claimed PROVE s'.SF = 1 /\ ~s'.intback /\ s'.timing <= 0
      BY <1>2 DEF ClaimedIsIdle
    <3>1. s.SF = 1 /\ ~s.intback /\ s.timing <= 0
      BY <2>1 DEF PoliteInv, ClaimedIsIdle
    <3> QED BY <1>3, <1>4, <3>1
  <2>5. PendingAsks'
    <3> SUFFICES ASSUME s'.COMREG = INTBACK, s'.timing > 0
                 PROVE  \/ s'.IREG0 = Status /\ ~s'.intback
                        \/ s'.IREG0 # Status /\ s'.IREG1bit3
      BY DEF PendingAsks
    <3> QED BY <1>3, <1>4, <2>1 DEF PoliteInv, PendingAsks
  <2> QED BY <2>1, <2>2, <2>3, <2>4, <2>5 DEF PoliteInv
<1> QED BY <1>2, <1>4, <1>6 DEF IInv, Fields

LEMMA NextInv == ASSUME IInv, [Next]_vars PROVE IInv'
<1>1. CASE \E val \in {0, 1} : WriteSF(val)
  BY <1>1, WriteSFInv
<1>2. CASE \E val \in IREG0Values : WriteIREG0(val)
  BY <1>2, WriteIREG0Inv
<1>3. CASE \E bit3 \in BOOLEAN : WriteIREG1(bit3)
  BY <1>3, WriteIREG1Inv
<1>4. CASE \E com \in Commands : WriteCOMREG(com)
  BY <1>4, WriteCOMREGInv
<1>5. CASE TakeInterrupts
  BY <1>5, TakeInterruptsInv
<1>6. CASE Slice
  BY <1>6, SliceInv
<1>7. CASE Reset
  BY <1>7, ResetInv
<1>8. CASE SmpcResetButton
  BY <1>8, ResetButtonInv
<1>9. CASE UNCHANGED vars
  BY <1>9 DEF vars, IInv, Fields, PoliteInv, IdleMeansDone, ClaimedIsIdle,
              OpenAsks, PendingAsks
<1> QED BY <1>1, <1>2, <1>3, <1>4, <1>5, <1>6, <1>7, <1>8, <1>9 DEF Next

\* the inductive invariant holds in every reachable state
THEOREM Invariance == Spec => []IInv
BY InitInv, NextInv, PTL DEF Spec

(***************************************************************************)
(* For a program that polls SF before it writes, a clear SF means that the *)
(* command it wrote has run: no countdown survives Continue, Break, an     *)
(* unknown command or the end of the conversation at the vertical blank.   *)
(***************************************************************************)
THEOREM ClearMeansDone == Spec => []IdleMeansDone
<1>1. IInv => IdleMeansDone
  BY DEF IInv, PoliteInv, IdleMeansDone
<1> QED BY <1>1, Invariance, PTL

(***************************************************************************)
(* For such a program an INTBACK that SmpcSetTiming accepted is answered,  *)
(* with the status if that was asked, though SmpcINTBACK decides from      *)
(* registers that Continue, Break and the vertical blank change meanwhile. *)
(***************************************************************************)
THEOREM AcceptedIntbackIsAnswered ==
  ASSUME Polite
  PROVE  Spec => AcceptedIsAnswered
<1> DEFINE A == Runs(INTBACK) =>
                  s'.sysman /\ (s.IREG0 = Status => s'.SR \in {4, 6})
<1>1. IInv /\ [Next]_vars => A
  <2> SUFFICES ASSUME IInv, Runs(INTBACK)
               PROVE  s'.sysman /\ (s.IREG0 = Status => s'.SR \in {4, 6})
    OBVIOUS
  <2>1. PICK c \in State : /\ c = s \/ c = [s EXCEPT !.intback = FALSE]
                           /\ Executed(c, s')
    BY SliceStep DEF Runs
  <2>2. s \in State
    BY DEF IInv, Fields
  <2>3. /\ c.timing = s.timing /\ c.COMREG = s.COMREG /\ c.IREG0 = s.IREG0
        /\ c.IREG1bit3 = s.IREG1bit3
        /\ c.intback => s.intback
    BY <2>1, <2>2, BlankFields
  <2>4. Answers(c, s')
    BY <2>1, <2>3 DEF Executed, Runs
  <2>5. \/ s.IREG0 = Status /\ ~s.intback
        \/ s.IREG0 # Status /\ s.IREG1bit3
    BY DEF IInv, PoliteInv, PendingAsks, Runs
  <2>6. CASE s.IREG0 = Status /\ ~s.intback
    <3>1. WantsStatus(c) /\ ~c.intback /\ c.IREG0 = Status
      BY <2>3, <2>6 DEF WantsStatus
    <3> QED BY <2>4, <3>1 DEF Answers
  <2>7. CASE s.IREG0 # Status /\ s.IREG1bit3
    <3>1. c.IREG1bit3
      BY <2>3, <2>7
    <3> QED BY <2>4, <2>7, <3>1 DEF Answers
  <2> QED BY <2>5, <2>6, <2>7
<1> QED BY <1>1, Invariance, PTL DEF AcceptedIsAnswered, Spec

-----------------------------------------------------------------------------
(* The ports, the wait for the line, and the lines *)

\* what TypeOK asks of the state beyond State
Typed(c) ==
  /\ c.COMREG \in Commands \cup {0, INTBACK}
  /\ c.port1 \in Port /\ c.port2 \in Port

\* the registers Typed reads
SameTyped(c, d) == d.COMREG = c.COMREG /\ d.port1 = c.port1 /\ d.port2 = c.port2

LEMMA PortFields ==
  ASSUME NEW p \in Port
  PROVE  /\ p.size \in PortSizes \cup {0} /\ p.offset \in Nat /\ p.size \in Nat
         /\ p.size > 0 => p.offset <= p.size
         /\ p = [size |-> p.size, offset |-> p.offset]
<1>1. p \in [size : PortSizes \cup {0}, offset : Nat]
  BY DEF Port
<1>2. p.size > 0 => p.offset <= p.size
  BY DEF Port
<1>3. /\ p.size \in PortSizes \cup {0} /\ p.offset \in Nat
      /\ p = [size |-> p.size, offset |-> p.offset]
  BY <1>1
<1>4. p.size \in Nat
  BY <1>3, PortsAssumption
<1> QED BY <1>2, <1>3, <1>4

LEMMA TurnPort ==
  ASSUME NEW p \in Port, NEW room \in Nat
  PROVE  AfterTurn(p, room) \in Port
<1>1. /\ p.size \in PortSizes \cup {0} /\ p.offset \in Nat /\ p.size \in Nat
      /\ p.size > 0 => p.offset <= p.size
      /\ p = [size |-> p.size, offset |-> p.offset]
  BY PortFields
<1>2. CASE p.size = 0 \/ room = 0
  BY <1>2 DEF AfterTurn
<1>3. CASE ~(p.size = 0 \/ room = 0) /\ p.size - p.offset < room
  <2>1. AfterTurn(p, room) = [size |-> 0, offset |-> p.offset]
    BY <1>1, <1>3 DEF AfterTurn
  <2> QED BY <1>1, <2>1 DEF Port
<1>4. CASE ~(p.size = 0 \/ room = 0) /\ ~(p.size - p.offset < room)
  <2>1. AfterTurn(p, room) = [size |-> p.size, offset |-> p.offset + room]
    BY <1>1, <1>4 DEF AfterTurn
  <2>2. p.offset + room \in Nat /\ p.offset + room <= p.size
    BY <1>1, <1>4
  <2> QED BY <1>1, <2>1, <2>2 DEF Port
<1> QED BY <1>2, <1>3, <1>4

LEMMA PeripheralTyped ==
  ASSUME NEW c \in State, Typed(c), NEW n1 \in PortSizes, NEW n2 \in PortSizes
  PROVE  Typed([SmpcINTBACKPeripheral(c, n1, n2) EXCEPT !.sysman = TRUE])
<1> DEFINE q1 == IF c.port1.size = 0 /\ c.port2.size = 0
                   THEN [size |-> n1, offset |-> 0] ELSE c.port1
           q2 == IF c.port1.size = 0 /\ c.port2.size = 0
                   THEN [size |-> n2, offset |-> 0] ELSE c.port2
           room == IF Rest(q1) < ReportSize THEN ReportSize - Rest(q1) ELSE 0
           d == [SmpcINTBACKPeripheral(c, n1, n2) EXCEPT !.sysman = TRUE]
<1>1. \A n \in PortSizes : [size |-> n, offset |-> 0] \in Port
  BY PortsAssumption DEF Port
<1>2. q1 \in Port /\ q2 \in Port
  BY <1>1 DEF Typed
<1> HIDE DEF q1, q2
<1>3. Rest(q1) \in Int
  BY <1>2, PortFields DEF Rest
<1>4. ReportSize \in Nat /\ room \in Nat
  BY <1>3, TimesAssumption
<1>5. SmpcINTBACKPeripheral(c, n1, n2)
        = [c EXCEPT !.SR = IF c.firstPeri THEN 12 ELSE 8, !.firstPeri = FALSE,
                    !.port1 = AfterTurn(q1, ReportSize),
                    !.port2 = AfterTurn(q2, room)]
  BY DEF SmpcINTBACKPeripheral, q1, q2, room
<1> HIDE DEF room
<1>6. /\ d.COMREG = c.COMREG /\ d.port1 = AfterTurn(q1, ReportSize)
      /\ d.port2 = AfterTurn(q2, room)
  BY <1>5 DEF State
<1>7. d.port1 \in Port /\ d.port2 \in Port
  BY <1>2, <1>4, <1>6, TurnPort
<1> QED BY <1>6, <1>7 DEF Typed

LEMMA SameIsTyped == \A c, d : Typed(c) /\ SameTyped(c, d) => Typed(d)
BY DEF Typed, SameTyped

LEMMA IntbackTyped ==
  ASSUME NEW c \in State, Typed(c), NEW n1 \in PortSizes, NEW n2 \in PortSizes
  PROVE  Typed(SmpcINTBACK(c, n1, n2))
<1> DEFINE o == [c EXCEPT !.firstPeri = TRUE, !.intback = TRUE]
<1>1. o \in State /\ Typed(o)
  <2>1. SameTyped(c, o)
    BY DEF SameTyped, State
  <2>2. o \in State
    BY ZenonT(60) DEF State
  <2> QED BY <2>1, <2>2, SameIsTyped
<1> HIDE DEF o
<1>2. CASE c.intback
  BY <1>2, PeripheralTyped DEF SmpcINTBACK
<1>3. CASE ~c.intback /\ WantsStatus(c)
  <2> DEFINE d == [c EXCEPT !.firstPeri = TRUE, !.intback = c.IREG1bit3,
                            !.SR = IF c.IREG1bit3 THEN 6 ELSE 4, !.sysman = TRUE]
  <2>1. SameTyped(c, d)
    BY DEF SameTyped, State
  <2>2. SmpcINTBACK(c, n1, n2) = d
    BY <1>3 DEF SmpcINTBACK
  <2> HIDE DEF d
  <2> QED BY <2>1, <2>2, SameIsTyped
<1>4. CASE ~c.intback /\ ~WantsStatus(c) /\ c.IREG1bit3
  <2>1. SmpcINTBACK(c, n1, n2) = [SmpcINTBACKPeripheral(o, n1, n2) EXCEPT !.sysman = TRUE]
    BY <1>4 DEF SmpcINTBACK, o
  <2> QED BY <1>1, <2>1, PeripheralTyped
<1>5. CASE ~c.intback /\ ~WantsStatus(c) /\ ~c.IREG1bit3
  BY <1>5 DEF SmpcINTBACK
<1> QED BY <1>2, <1>3, <1>4, <1>5

LEMMA RunTyped ==
  ASSUME NEW c \in State, Typed(c), NEW n1 \in PortSizes, NEW n2 \in PortSizes
  PROVE  Typed(Run(c, n1, n2))
<1> USE DEF SSHON, SSHOFF, SNDON, SNDOFF, CKCHG352, CKCHG320, INTBACK, NMIREQ,
            RESENAB, RESDISA
<1> DEFINE d == Run(c, n1, n2)
<1>1. CASE c.COMREG = INTBACK
  BY <1>1, IntbackTyped DEF Run
<1>2. CASE c.COMREG # INTBACK
  <2>1. \/ d = [c EXCEPT !.slave = TRUE] \/ d = [c EXCEPT !.slave = FALSE]
        \/ d = [c EXCEPT !.sound = TRUE] \/ d = [c EXCEPT !.sound = FALSE]
        \/ d = [c EXCEPT !.slave = FALSE, !.dotsel = 1, !.nmi = TRUE]
        \/ d = [c EXCEPT !.slave = FALSE, !.dotsel = 0, !.nmi = TRUE]
        \/ d = [c EXCEPT !.nmi = TRUE]
        \/ d = [c EXCEPT !.resd = FALSE] \/ d = [c EXCEPT !.resd = TRUE] \/ d = c
    <3>1. CASE c.COMREG = SSHON
      <4>1. d = [c EXCEPT !.slave = TRUE]
        BY <3>1 DEF Run
      <4> QED BY <4>1
    <3>2. CASE c.COMREG = SSHOFF
      <4>1. d = [c EXCEPT !.slave = FALSE]
        BY <3>2 DEF Run
      <4> QED BY <4>1
    <3>3. CASE c.COMREG = SNDON
      <4>1. d = [c EXCEPT !.sound = TRUE]
        BY <3>3 DEF Run
      <4> QED BY <4>1
    <3>4. CASE c.COMREG = SNDOFF
      <4>1. d = [c EXCEPT !.sound = FALSE]
        BY <3>4 DEF Run
      <4> QED BY <4>1
    <3>5. CASE c.COMREG = CKCHG352
      <4>1. d = [c EXCEPT !.slave = FALSE, !.dotsel = 1, !.nmi = TRUE]
        BY <3>5 DEF Run
      <4> QED BY <4>1
    <3>6. CASE c.COMREG = CKCHG320
      <4>1. d = [c EXCEPT !.slave = FALSE, !.dotsel = 0, !.nmi = TRUE]
        BY <3>6 DEF Run
      <4> QED BY <4>1
    <3>7. CASE c.COMREG = NMIREQ
      <4>1. d = [c EXCEPT !.nmi = TRUE]
        BY <3>7 DEF Run
      <4> QED BY <4>1
    <3>8. CASE c.COMREG = RESENAB
      <4>1. d = [c EXCEPT !.resd = FALSE]
        BY <3>8 DEF Run
      <4> QED BY <4>1
    <3>9. CASE c.COMREG = RESDISA
      <4>1. d = [c EXCEPT !.resd = TRUE]
        BY <3>9 DEF Run
      <4> QED BY <4>1
    <3>10. CASE c.COMREG \notin {SSHON, SSHOFF, SNDON, SNDOFF, CKCHG352, CKCHG320,
                               NMIREQ, RESENAB, RESDISA}
      BY <1>2, <3>10 DEF Run
    <3> HIDE DEF d
    <3> QED BY <3>1, <3>2, <3>3, <3>4, <3>5, <3>6, <3>7, <3>8, <3>9, <3>10
  <2> HIDE DEF d
  <2>2. SameTyped(c, d)
    BY <2>1 DEF SameTyped, State
  <2> QED BY <2>2, SameIsTyped DEF d
<1> QED BY <1>1, <1>2

\* a slice keeps the ports, and a countdown that goes on has not reached the line
LEMMA ExecTyped ==
  ASSUME NEW c \in State, Typed(c), NEW l, NEW n1 \in PortSizes, NEW n2 \in PortSizes
  PROVE  LET e == SmpcExec(c, l, 1, n1, n2)
         IN  /\ Typed(e)
             /\ e.timing > 0 /\ c.wait =>
                  l # WaitLine /\ e.timing = c.timing - 1 /\ e.wait
<1> DEFINE left == Countdown(c, l, 1)
           w == c.wait /\ l # WaitLine
           d == [c EXCEPT !.timing = left, !.wait = w]
           r == Run(d, n1, n2)
           e == SmpcExec(c, l, 1, n1, n2)
<1>1. left \in Int /\ c.timing \in Int
  BY DEF Countdown, State
<1>2. w \in BOOLEAN
  OBVIOUS
<1>3. e = IF c.timing <= 0 THEN c ELSE IF left > 0 THEN d ELSE [r EXCEPT !.SF = 0]
  BY DEF SmpcExec
<1>4. c.wait => left = (IF l = WaitLine THEN -2 ELSE c.timing - 1)
  BY DEF Countdown
<1> HIDE DEF left, e
<1>5. d.timing = left /\ SameTyped(c, d)
  BY DEF SameTyped, State
<1>6. c.wait /\ l # WaitLine => d.wait
  BY DEF State
<1> HIDE DEF w
<1>7. d \in State
  BY <1>1, <1>2, ZenonT(60) DEF State
<1> HIDE DEF d
<1>8. Typed(d) /\ Typed(r)
  BY <1>5, <1>7, SameIsTyped, RunTyped
<1>9. r \in State /\ r.timing = left
  <2>1. n1 \in Int /\ n2 \in Int
    BY PortsAssumption
  <2> QED BY <1>5, <1>7, <2>1, RunFields DEF Kept
<1> HIDE DEF r
<1>10. CASE c.timing <= 0
  BY <1>1, <1>3, <1>10 DEF e
<1>11. CASE ~(c.timing <= 0) /\ left > 0
  BY <1>1, <1>3, <1>4, <1>5, <1>6, <1>8, <1>11 DEF e
<1>12. CASE ~(c.timing <= 0) /\ ~(left > 0)
  <2>1. e = [r EXCEPT !.SF = 0]
    BY <1>3, <1>12
  <2>2. SameTyped(r, e) /\ e.timing = left
    BY <1>9, <2>1 DEF SameTyped, State
  <2> QED BY <1>8, <1>12, <2>2, SameIsTyped DEF e
<1> QED BY <1>10, <1>11, <1>12

\* the calls of SmpcExec since line WaitLine was over
Since(l, d) == DecilinesPerLine * (l - WaitLine - 1) + d + 1

\* A peripheral report that counts down waits for the line; if the line is over, it
\* has counted down for no longer than that.
OnTime ==
  s.intback /\ s.COMREG = INTBACK /\ s.timing > 0 =>
    /\ s.wait
    /\ line = WaitLine => s.timing >= LongTime
    /\ WaitLine < line /\ line < VBlankLineCount => s.timing >= LongTime - Since(line, dec)

\* what IInv does not say: the ports, the place in the frame, the report on its way
TypeInv ==
  /\ Typed(s)
  /\ line \in 0..(MaxLineCount - 1) /\ dec \in 0..(DecilinesPerLine - 1)
  /\ OnTime

LEMMA LineFacts ==
  /\ DecilinesPerLine \in Nat /\ 0 < DecilinesPerLine
  /\ LongTime \in Int /\ WaitLine \in Nat /\ VBlankLineCount \in Nat
  /\ MaxLineCount \in Nat
  /\ WaitLine < VBlankLineCount /\ VBlankLineCount < MaxLineCount
BY TimesAssumption

LEMMA Distributes == \A a, x \in Int : a * (x + 1) = a * x + a
OBVIOUS

LEMMA SinceFacts ==
  ASSUME NEW l \in Int, NEW d \in Int
  PROVE  /\ Since(l, d) \in Int
         /\ Since(l, d+1) = Since(l, d) + 1
         /\ Since(l+1, 0) = Since(l, DecilinesPerLine - 1) + 1
         /\ Since(WaitLine + 1, 0) = 1
         /\ Since(l, DecilinesPerLine - 1) = DecilinesPerLine * (l - WaitLine)
<1> DEFINE a == DecilinesPerLine
           x == l - WaitLine - 1
           m(i) == a * i
<1>1. a \in Int /\ x \in Int
  BY LineFacts
<1>2. m(x) \in Int /\ m(x + 1) = m(x) + a /\ m(0) = 0
  BY <1>1, Distributes
<1>3. x + 1 = l - WaitLine /\ (l + 1) - WaitLine - 1 = x + 1
      /\ (WaitLine + 1) - WaitLine - 1 = 0
  BY LineFacts
<1>4. /\ Since(l, d) = m(x) + d + 1 /\ Since(l, d+1) = m(x) + (d + 1) + 1
      /\ Since(l+1, 0) = m(x+1) + 0 + 1
      /\ Since(l, a - 1) = m(x) + (a - 1) + 1
      /\ Since(WaitLine + 1, 0) = m(0) + 0 + 1
      /\ DecilinesPerLine * (l - WaitLine) = m(x + 1)
  BY <1>3 DEF Since
<1> HIDE DEF a, x, m
<1> QED BY <1>1, <1>2, <1>4 DEF a

\* the slice and the line a turn of the loop moves to
LEMMA TurnOfLine ==
  ASSUME NEW l \in 0..(MaxLineCount - 1), NEW d \in 0..(DecilinesPerLine - 1)
  PROVE  /\ (d + 1) % DecilinesPerLine
              = IF d + 1 < DecilinesPerLine THEN d + 1 ELSE 0
         /\ (d + 1) % DecilinesPerLine \in 0..(DecilinesPerLine - 1)
         /\ d + 1 < DecilinesPerLine \/ d = DecilinesPerLine - 1
<1>1. \A a \in Nat \ {0} : \A x \in 0..(a-1) :
        (x + 1) % a = IF x + 1 < a THEN x + 1 ELSE 0
  OBVIOUS
<1>2. DecilinesPerLine \in Nat \ {0}
  BY LineFacts
<1>3. (d + 1) % DecilinesPerLine = IF d + 1 < DecilinesPerLine THEN d + 1 ELSE 0
  BY <1>1, <1>2
<1> QED BY <1>2, <1>3

LEMMA InitType == Init => TypeInv
<1> SUFFICES ASSUME Init PROVE TypeInv
  OBVIOUS
<1>1. Typed(s)
  <2>1. NoData \in Port
    BY DEF NoData, Port
  <2> QED BY <2>1 DEF Init, PowerOn, Typed
<1>2. ~s.intback
  BY PowerOnFields DEF Init
<1> QED BY <1>1, <1>2, LineFacts DEF Init, TypeInv, OnTime

\* writes that leave the command, its countdown and the ports alone
LEMMA SameClockType ==
  ASSUME TypeInv, SameTyped(s, s'), UNCHANGED <<line, dec>>,
         s'.intback = s.intback \/ ~s'.intback,
         s'.timing = s.timing, s'.wait = s.wait
  PROVE  TypeInv'
<1>1. Typed(s')
  BY SameIsTyped DEF TypeInv
<1>2. OnTime'
  BY DEF TypeInv, OnTime, SameTyped, Since
<1> QED BY <1>1, <1>2 DEF TypeInv

LEMMA SetTimingType ==
  ASSUME NEW c \in State, Typed(c)
  PROVE  LET d == SmpcSetTiming(c)
         IN  /\ d \in State /\ Typed(d) /\ d.COMREG = c.COMREG
             /\ d.intback = c.intback
             /\ c.intback /\ c.COMREG = INTBACK => d.timing = LongTime /\ d.wait
<1> DEFINE d == SmpcSetTiming(c)
<1>1. \/ d = [c EXCEPT !.timing = 1] /\ c.COMREG # INTBACK
      \/ d = [c EXCEPT !.timing = LongTime, !.wait = TRUE]
      \/ d = [c EXCEPT !.timing = StatusTime] /\ ~c.intback
      \/ d = [c EXCEPT !.SF = 0] /\ ~(c.intback /\ c.COMREG = INTBACK)
  BY DEF SmpcSetTiming, ShortCommands, INTBACK, SSHON, SSHOFF, SNDON, SNDOFF,
         CKCHG352, CKCHG320, NMIREQ, RESENAB, RESDISA
<1>2. SameTyped(c, d)
  <2> HIDE DEF d
  <2> QED BY <1>1 DEF SameTyped, State
<1>3. Typed(d)
  BY <1>2, SameIsTyped
<1>4. c.intback /\ c.COMREG = INTBACK => d.timing = LongTime /\ d.wait
  <2> SUFFICES ASSUME c.intback, c.COMREG = INTBACK PROVE d.timing = LongTime /\ d.wait
    OBVIOUS
  <2>1. d = [c EXCEPT !.timing = LongTime, !.wait = TRUE]
    BY <1>1
  <2> HIDE DEF d
  <2> QED BY <2>1 DEF State
<1> QED BY <1>3, <1>4, SetTimingFields

\* a command or a Continue begins its countdown
LEMMA BeginsType ==
  ASSUME TypeInv, Typed(s'), UNCHANGED <<line, dec>>,
         s'.intback /\ s'.COMREG = INTBACK => s'.timing = LongTime /\ s'.wait
  PROVE  TypeInv'
<1>1. OnTime'
  <2> SUFFICES ASSUME s'.intback, s'.COMREG = INTBACK
               PROVE  /\ s'.wait
                      /\ line = WaitLine => s'.timing >= LongTime
                      /\ WaitLine < line /\ line < VBlankLineCount =>
                           s'.timing >= LongTime - Since(line, dec)
    BY DEF OnTime, Since
  <2>1. s'.timing = LongTime /\ s'.wait /\ LongTime \in Int
    BY LineFacts
  <2>2. WaitLine < line => Since(line, dec) >= 0
    <3> SUFFICES ASSUME WaitLine < line PROVE Since(line, dec) >= 0
      OBVIOUS
    <3>1. line - WaitLine - 1 \in Nat /\ dec \in Nat /\ DecilinesPerLine \in Nat
      BY LineFacts DEF TypeInv
    <3>2. \A a, b \in Nat : a * b \in Nat
      OBVIOUS
    <3>3. DecilinesPerLine * (line - WaitLine - 1) \in Nat
      BY <3>1, <3>2
    <3> QED BY <3>1, <3>3 DEF Since
  <2>3. Since(line, dec) \in Int
    BY SinceFacts DEF TypeInv
  <2> QED BY <2>1, <2>2, <2>3
<1> QED BY <1>1 DEF TypeInv

LEMMA WriteIREG0Type ==
  ASSUME IInv, TypeInv, NEW val \in IREG0Values, WriteIREG0(val)
  PROVE  TypeInv'
<1> DEFINE c == [s EXCEPT !.IREG0 = val]
           b == [c EXCEPT !.intback = FALSE, !.SR = 0]
           o == [c EXCEPT !.COMREG = INTBACK]
           p == SmpcSetTiming(o)
<1>1. s \in State /\ UNCHANGED <<line, dec>> /\ Typed(s)
  BY DEF IInv, Fields, TypeInv, WriteIREG0
<1>2. s' = c \/ s' = b \/ (s' = [p EXCEPT !.SF = 1] /\ s.intback)
  BY DEF WriteIREG0
<1>3. /\ c \in State /\ SameTyped(s, c) /\ c.intback = s.intback
      /\ c.timing = s.timing /\ c.wait = s.wait
  BY <1>1 DEF State, SameTyped
<1> HIDE DEF c
<1>4. CASE s' = c
  BY <1>1, <1>3, <1>4, SameClockType
<1>5. CASE s' = b
  <2>1. /\ SameTyped(c, b) /\ ~b.intback /\ b.timing = c.timing /\ b.wait = c.wait
    BY <1>3 DEF State, SameTyped
  <2> HIDE DEF b
  <2> QED BY <1>1, <1>3, <1>5, <2>1, SameClockType DEF SameTyped
<1>6. CASE s' = [p EXCEPT !.SF = 1] /\ s.intback
  <2>1. o \in State /\ o.COMREG = INTBACK /\ o.intback
        /\ o.port1 = s.port1 /\ o.port2 = s.port2
    <3>1. INTBACK \in 0..255
      BY DEF INTBACK
    <3>2. o \in State /\ o.COMREG = INTBACK /\ o.intback = c.intback
          /\ o.port1 = c.port1 /\ o.port2 = c.port2
      BY <1>3, <3>1 DEF State
    <3> QED BY <1>3, <1>6, <3>2 DEF SameTyped
  <2> HIDE DEF o
  <2>2. Typed(o)
    BY <1>1, <2>1 DEF Typed
  <2>3. /\ p \in State /\ Typed(p) /\ p.timing = LongTime /\ p.wait
    BY <2>1, <2>2, SetTimingType
  <2> HIDE DEF p
  <2>4. SameTyped(p, s') /\ s'.timing = p.timing /\ s'.wait = p.wait
    BY <1>6, <2>3 DEF State, SameTyped
  <2> QED BY <1>1, <2>3, <2>4, SameIsTyped, BeginsType
<1> QED BY <1>2, <1>4, <1>5, <1>6

LEMMA WriteCOMREGType ==
  ASSUME IInv, TypeInv, NEW com \in Commands, WriteCOMREG(com)
  PROVE  TypeInv'
<1> DEFINE c == [s EXCEPT !.COMREG = com]
<1>1. /\ s \in State /\ s' = SmpcSetTiming(c) /\ Typed(s)
      /\ UNCHANGED <<line, dec>>
  BY DEF IInv, Fields, TypeInv, WriteCOMREG
<1>2. /\ c \in State /\ c.COMREG = com
      /\ c.port1 = s.port1 /\ c.port2 = s.port2
  BY <1>1, CommandsAssumption DEF State
<1> HIDE DEF c
<1>3. Typed(c)
  BY <1>1, <1>2 DEF Typed
<1>4. Typed(s') /\ (s'.intback /\ s'.COMREG = INTBACK => s'.timing = LongTime /\ s'.wait)
  BY <1>1, <1>2, <1>3, SetTimingType
<1> QED BY <1>1, <1>4, BeginsType

LEMMA ResetType == ASSUME IInv, TypeInv, Reset PROVE TypeInv'
<1>1. /\ s' = [PowerOn EXCEPT !.wait = s.wait] /\ UNCHANGED <<line, dec>>
  BY DEF Reset
<1>2. Typed(s') /\ ~s'.intback
  <2>1. NoData \in Port
    BY DEF NoData, Port
  <2> QED BY <1>1, <2>1 DEF PowerOn, Typed
<1> QED BY <1>1, <1>2 DEF TypeInv, OnTime

\* The report that still counts down after a slice was on its way before it, and
\* the slice was not one of line WaitLine.
LEMMA SliceType == ASSUME IInv, TypeInv, Slice PROVE TypeInv'
<1> DEFINE l == LineOn
           c == IF line # l /\ l = VBlankLineCount
                  THEN [s EXCEPT !.intback = FALSE] ELSE s
<1>1. /\ s \in State /\ Typed(s) /\ OnTime
      /\ line \in 0..(MaxLineCount - 1) /\ dec \in 0..(DecilinesPerLine - 1)
  BY DEF IInv, Fields, TypeInv
<1>2. PICK n1 \in PortSizes, n2 \in PortSizes : s' = SmpcExec(c, l, 1, n1, n2)
  BY DEF Slice
<1> DEFINE k == (dec + 1) % DecilinesPerLine
<1>3. /\ line' = IF ClockChanges THEN 0 ELSE l
      /\ dec' = IF ClockChanges THEN 0 ELSE k
  BY DEF Slice
<1>4. /\ l \in 0..(MaxLineCount - 1) /\ k \in 0..(DecilinesPerLine - 1)
      /\ \/ l = line /\ k = dec + 1
         \/ /\ l = 0 \/ l = line + 1
            /\ k = 0 /\ dec = DecilinesPerLine - 1
  BY <1>1, LineFacts, TurnOfLine DEF LineOn
<1> HIDE DEF l, k
<1>c. line' \in 0..(MaxLineCount - 1) /\ dec' \in 0..(DecilinesPerLine - 1)
  BY <1>3, <1>4, LineFacts
<1>5. /\ c \in State /\ SameTyped(s, c) /\ c.timing = s.timing /\ c.wait = s.wait
      /\ c.intback => s.intback
  <2>1. [s EXCEPT !.intback = FALSE] \in State
    BY <1>1, BlankFields
  <2> QED BY <1>1, <2>1 DEF State, SameTyped
<1> HIDE DEF c
<1>6. Typed(c)
  BY <1>1, <1>5, SameIsTyped
<1>7. /\ Typed(s')
      /\ s'.timing > 0 /\ c.wait => l # WaitLine /\ s'.timing = c.timing - 1 /\ s'.wait
  BY <1>2, <1>5, <1>6, ExecTyped
<1>8. /\ s'.COMREG = c.COMREG
      /\ s'.timing > 0 => c.timing > 0 /\ s'.intback = c.intback
  <2>1. n1 \in Int /\ n2 \in Int
    BY PortsAssumption
  <2> QED BY <1>2, <1>5, <2>1, ExecFields DEF Executed
<1>9. OnTime'
  <2> SUFFICES ASSUME s'.intback, s'.COMREG = INTBACK, s'.timing > 0
               PROVE  /\ s'.wait
                      /\ l = WaitLine => s'.timing >= LongTime
                      /\ WaitLine < l /\ l < VBlankLineCount =>
                           s'.timing >= LongTime - Since(l, k)
    <3>1. s'.timing > 0 => ~ClockChanges
      <4>1. s'.timing \in Int
        BY SliceInv DEF IInv, Fields, State
      <4> QED BY <4>1 DEF ClockChanges
    <3> QED BY <1>3, <3>1 DEF OnTime, Since
  <2>1. s.intback /\ s.COMREG = INTBACK /\ s.timing > 0
    BY <1>5, <1>8 DEF SameTyped
  <2>2. /\ s.wait
        /\ line = WaitLine => s.timing >= LongTime
        /\ WaitLine < line /\ line < VBlankLineCount =>
             s.timing >= LongTime - Since(line, dec)
    BY <1>1, <2>1 DEF OnTime
  <2>3. l # WaitLine /\ s'.timing = s.timing - 1 /\ s'.wait
    BY <1>5, <1>7, <2>2
  <2>4. ASSUME WaitLine < l, l < VBlankLineCount
        PROVE  s'.timing >= LongTime - Since(l, k)
    <3>1. s.timing \in Int /\ LongTime \in Int /\ WaitLine \in Nat /\ line \in Int
          /\ VBlankLineCount \in Nat
      BY <1>1, LineFacts DEF State
    <3>2. CASE l = line /\ k = dec + 1
      <4>1. Since(l, k) = Since(line, dec) + 1 /\ Since(line, dec) \in Int
        BY <1>1, <3>2, SinceFacts
      <4> QED BY <2>2, <2>3, <2>4, <3>1, <3>2, <4>1
    <3>3. CASE l = line + 1 /\ k = 0 /\ dec = DecilinesPerLine - 1
      <4>1. CASE line = WaitLine
        <5>1. Since(l, k) = 1
          BY <3>1, <3>3, <4>1, SinceFacts
        <5> QED BY <2>2, <2>3, <3>1, <4>1, <5>1
      <4>2. CASE line # WaitLine
        <5>1. Since(l, k) = Since(line, dec) + 1 /\ Since(line, dec) \in Int
          BY <1>1, <3>1, <3>3, SinceFacts
        <5>2. WaitLine < line /\ line < VBlankLineCount
          BY <2>4, <3>1, <3>3, <4>2
        <5> QED BY <2>2, <2>3, <3>1, <5>1, <5>2
      <4> QED BY <4>1, <4>2
    <3>4. l # 0
      BY <2>4, <3>1
    <3> QED BY <1>4, <3>2, <3>3, <3>4
  <2> QED BY <2>3, <2>4
<1> QED BY <1>c, <1>7, <1>9 DEF TypeInv

LEMMA NextType == IInv /\ TypeInv /\ [Next]_vars => TypeInv'
<1> SUFFICES ASSUME IInv, TypeInv, [Next]_vars PROVE TypeInv'
  OBVIOUS
<1>0. s \in State
  BY DEF IInv, Fields
<1>1. ASSUME NEW val \in {0, 1}, WriteSF(val) PROVE TypeInv'
  <2>1. s' = [s EXCEPT !.SF = val] /\ UNCHANGED <<line, dec>>
    BY <1>1 DEF WriteSF
  <2>2. /\ SameTyped(s, s') /\ s'.intback = s.intback /\ s'.timing = s.timing
        /\ s'.wait = s.wait
    BY <1>0, <2>1 DEF State, SameTyped
  <2> QED BY <2>1, <2>2, SameClockType
<1>2. ASSUME NEW bit3 \in BOOLEAN, WriteIREG1(bit3) PROVE TypeInv'
  <2>1. s' = [s EXCEPT !.IREG1bit3 = bit3] /\ UNCHANGED <<line, dec>>
    BY <1>2 DEF WriteIREG1
  <2>2. /\ SameTyped(s, s') /\ s'.intback = s.intback /\ s'.timing = s.timing
        /\ s'.wait = s.wait
    BY <1>0, <2>1 DEF State, SameTyped
  <2> QED BY <2>1, <2>2, SameClockType
<1>3. CASE TakeInterrupts
  <2>1. s' = [s EXCEPT !.sysman = FALSE, !.nmi = FALSE] /\ UNCHANGED <<line, dec>>
    BY <1>3 DEF TakeInterrupts
  <2>2. /\ SameTyped(s, s') /\ s'.intback = s.intback /\ s'.timing = s.timing
        /\ s'.wait = s.wait
    BY <1>0, <2>1 DEF State, SameTyped
  <2> QED BY <2>1, <2>2, SameClockType
<1>4. CASE SmpcResetButton
  <2>1. s' = [s EXCEPT !.nmi = TRUE] /\ UNCHANGED <<line, dec>>
    BY <1>4 DEF SmpcResetButton
  <2>2. /\ SameTyped(s, s') /\ s'.intback = s.intback /\ s'.timing = s.timing
        /\ s'.wait = s.wait
    BY <1>0, <2>1 DEF State, SameTyped
  <2> QED BY <2>1, <2>2, SameClockType
<1>5. CASE UNCHANGED vars
  BY <1>5 DEF vars, TypeInv, Typed, OnTime, Since
<1> QED BY <1>1, <1>2, <1>3, <1>4, <1>5, WriteIREG0Type, WriteCOMREGType, SliceType,
           ResetType DEF Next

\* the ports, the place in the frame and the report on its way keep their invariant
THEOREM TypeInvariance == Spec => [](IInv /\ TypeInv)
BY InitInv, NextInv, InitType, NextType, PTL DEF Spec

\* The state keeps its type for any program, polite or not, and a port is never
\* told to report beyond its data.
THEOREM TypeCorrect == Spec => []TypeOK
<1>1. IInv /\ TypeInv => TypeOK
  <2> SUFFICES ASSUME IInv, TypeInv PROVE TypeOK
    OBVIOUS
  <2>1. s \in State /\ claimed \in BOOLEAN
    BY DEF IInv, Fields
  <2>2. Typed(s)
    BY DEF TypeInv
  <2>3. s = [COMREG |-> s.COMREG, IREG0 |-> s.IREG0, IREG1bit3 |-> s.IREG1bit3,
             SR |-> s.SR, SF |-> s.SF, intback |-> s.intback,
             firstPeri |-> s.firstPeri, timing |-> s.timing, wait |-> s.wait,
             resd |-> s.resd, dotsel |-> s.dotsel, port1 |-> s.port1,
             port2 |-> s.port2, slave |-> s.slave, sound |-> s.sound,
             nmi |-> s.nmi, sysman |-> s.sysman]
    BY <2>1 DEF State
  <2> QED BY <2>1, <2>2, <2>3 DEF TypeOK, TypeInv, Typed, State
<1> QED BY <1>1, TypeInvariance, PTL

\* Whatever the program writes and when, a Continue written before line WaitLine is
\* over is served before the vertical blank ends the conversation.
THEOREM ContinueIsInTime == Spec => ContinueBeatsVBlank
<1> DEFINE A == /\ Slice /\ line # line' /\ line' = VBlankLineCount
                /\ s.intback /\ s.COMREG = INTBACK /\ s.timing > 0
                => s.timing > LongTime
                      - DecilinesPerLine * (VBlankLineCount - WaitLine)
<1>1. IInv /\ TypeInv => A
  <2> SUFFICES ASSUME IInv, TypeInv, Slice, line # line', line' = VBlankLineCount,
                      s.intback, s.COMREG = INTBACK, s.timing > 0
               PROVE  s.timing > LongTime
                         - DecilinesPerLine * (VBlankLineCount - WaitLine)
    OBVIOUS
  <2>1. /\ line \in Int /\ dec \in Int /\ s.timing \in Int
        /\ line \in 0..(MaxLineCount - 1) /\ dec \in 0..(DecilinesPerLine - 1)
    BY DEF IInv, Fields, State, TypeInv
  <2>2. line + 1 = VBlankLineCount /\ dec = DecilinesPerLine - 1
    <3>1. line' = LineOn \/ line' = 0
      BY DEF Slice
    <3> QED BY <2>1, <3>1, LineFacts DEF LineOn
  <2>3. /\ line = WaitLine => s.timing >= LongTime
        /\ WaitLine < line /\ line < VBlankLineCount =>
             s.timing >= LongTime - Since(line, dec)
    BY DEF TypeInv, OnTime
  <2> DEFINE m == DecilinesPerLine * (line - WaitLine)
             n == DecilinesPerLine * (VBlankLineCount - WaitLine)
  <2>4. Since(line, dec) = m
    BY <2>1, <2>2, SinceFacts
  <2>5. m \in Int /\ n = m + DecilinesPerLine /\ (line = WaitLine => m = 0)
    <3>1. line - WaitLine \in Int /\ DecilinesPerLine \in Int
      BY <2>1, LineFacts
    <3>2. n = DecilinesPerLine * ((line - WaitLine) + 1)
      <4>1. VBlankLineCount - WaitLine = (line - WaitLine) + 1
        BY <2>1, <2>2, LineFacts
      <4> QED BY <4>1, Zenon
    <3>3. \A a, x \in Int : a * x \in Int /\ a * 0 = 0
      OBVIOUS
    <3>4. line = WaitLine => line - WaitLine = 0
      BY <2>1, LineFacts
    <3> QED BY <3>1, <3>2, <3>3, <3>4, Distributes
  <2>6. WaitLine <= line
    BY <2>1, <2>2, LineFacts
  <2>7. s.timing >= LongTime - m
    <3>1. CASE line = WaitLine
      BY <2>3, <2>5, <3>1, LineFacts
    <3>2. CASE line # WaitLine
      BY <2>1, <2>2, <2>3, <2>4, <2>6, <3>2, LineFacts
    <3> QED BY <3>1, <3>2
  <2> HIDE DEF m, n
  <2>8. s.timing > LongTime - n
    BY <2>1, <2>5, <2>7, LineFacts
  <2> QED BY <2>8 DEF n
<1>2. Spec => [][A]_vars
  BY <1>1, TypeInvariance, PTL DEF Spec
<1> QED BY <1>2 DEF ContinueBeatsVBlank

-----------------------------------------------------------------------------
(* Reports are full *)

\* what both ports have left
RestOf(c) == Rest(c.port1) + Rest(c.port2)

\* Of two ports that had data, what is left over is the rest without one report.
Full(c, d) ==
  (c.port1.size > 0 \/ c.port2.size > 0) /\ RestOf(d) > 0 =>
    RestOf(c) = ReportSize + RestOf(d)

LEMMA TurnRest ==
  ASSUME NEW p \in Port, NEW room \in Nat
  PROVE  /\ Rest(p) \in Nat
         /\ Rest(AfterTurn(p, room)) =
              IF p.size = 0 \/ room = 0 THEN Rest(p)
              ELSE IF Rest(p) < room THEN 0 ELSE Rest(p) - room
<1>1. /\ p.offset \in Nat /\ p.size \in Nat
      /\ p.size > 0 => p.offset <= p.size
      /\ p = [size |-> p.size, offset |-> p.offset]
  BY PortFields
<1>2. CASE p.size = 0 \/ room = 0
  BY <1>1, <1>2 DEF AfterTurn, Rest
<1>3. CASE ~(p.size = 0 \/ room = 0) /\ p.size - p.offset < room
  <2>1. AfterTurn(p, room) = [size |-> 0, offset |-> p.offset]
    BY <1>1, <1>3 DEF AfterTurn
  <2> QED BY <1>1, <1>3, <2>1 DEF Rest
<1>4. CASE ~(p.size = 0 \/ room = 0) /\ ~(p.size - p.offset < room)
  <2>1. AfterTurn(p, room) = [size |-> p.size, offset |-> p.offset + room]
    BY <1>1, <1>4 DEF AfterTurn
  <2> QED BY <1>1, <1>4, <2>1 DEF Rest
<1> QED BY <1>2, <1>3, <1>4

LEMMA PeripheralFull ==
  ASSUME NEW c \in State, Typed(c), NEW n1, NEW n2
  PROVE  Full(c, [SmpcINTBACKPeripheral(c, n1, n2) EXCEPT !.sysman = TRUE])
<1> DEFINE d == [SmpcINTBACKPeripheral(c, n1, n2) EXCEPT !.sysman = TRUE]
           p == c.port1
           q == c.port2
           room == IF Rest(p) < ReportSize THEN ReportSize - Rest(p) ELSE 0
<1> SUFFICES ASSUME p.size > 0 \/ q.size > 0, RestOf(d) > 0
             PROVE  RestOf(c) = ReportSize + RestOf(d)
  BY DEF Full
<1>1. p \in Port /\ q \in Port
  BY DEF Typed
<1>2. p.size \in Nat /\ q.size \in Nat /\ Rest(p) \in Nat /\ Rest(q) \in Nat
  BY <1>1, PortFields, TurnRest
<1>3. ~(c.port1.size = 0 /\ c.port2.size = 0)
  BY <1>2
<1>4. SmpcINTBACKPeripheral(c, n1, n2)
        = [c EXCEPT !.SR = IF c.firstPeri THEN 12 ELSE 8, !.firstPeri = FALSE,
                    !.port1 = AfterTurn(p, ReportSize),
                    !.port2 = AfterTurn(q, room)]
  BY <1>3 DEF SmpcINTBACKPeripheral
<1>5. d.port1 = AfterTurn(p, ReportSize) /\ d.port2 = AfterTurn(q, room)
  <2> HIDE DEF room
  <2> QED BY <1>4 DEF State
<1>6. ReportSize \in Nat /\ ReportSize > 0 /\ room \in Nat
  BY <1>2, TimesAssumption
<1>7. /\ Rest(d.port1) = IF p.size = 0 \/ ReportSize = 0 THEN Rest(p)
                         ELSE IF Rest(p) < ReportSize THEN 0 ELSE Rest(p) - ReportSize
      /\ Rest(d.port2) = IF q.size = 0 \/ room = 0 THEN Rest(q)
                         ELSE IF Rest(q) < room THEN 0 ELSE Rest(q) - room
  <2> HIDE DEF room
  <2> QED BY <1>1, <1>5, <1>6, TurnRest
<1>8. /\ p.size = 0 => Rest(p) = 0
      /\ q.size = 0 => Rest(q) = 0
  BY DEF Rest
<1> HIDE DEF d, p, q
<1>9. RestOf(d) = Rest(d.port1) + Rest(d.port2) /\ RestOf(c) = Rest(p) + Rest(q)
  BY DEF RestOf, p, q
<1>10. CASE Rest(p) < ReportSize
  BY <1>2, <1>6, <1>7, <1>8, <1>9, <1>10
<1>11. CASE ~(Rest(p) < ReportSize)
  BY <1>2, <1>6, <1>7, <1>8, <1>9, <1>11
<1> QED BY <1>10, <1>11

LEMMA IntbackFull ==
  ASSUME NEW c \in State, Typed(c), NEW n1 \in PortSizes, NEW n2 \in PortSizes,
         ~c.sysman, SmpcINTBACK(c, n1, n2).sysman,
         SmpcINTBACK(c, n1, n2).SR \in {8, 12}
  PROVE  Full(c, SmpcINTBACK(c, n1, n2))
<1> DEFINE o == [c EXCEPT !.firstPeri = TRUE, !.intback = TRUE]
           d == SmpcINTBACK(c, n1, n2)
<1>1. o \in State /\ SameTyped(c, o)
  <2>1. SameTyped(c, o)
    BY DEF SameTyped, State
  <2>2. o \in State
    BY ZenonT(60) DEF State
  <2> QED BY <2>1, <2>2
<1> HIDE DEF o
<1>2. CASE c.intback
  BY <1>2, PeripheralFull DEF SmpcINTBACK
<1>3. CASE ~c.intback /\ WantsStatus(c)
  <2>1. d = [c EXCEPT !.firstPeri = TRUE, !.intback = c.IREG1bit3,
                      !.SR = IF c.IREG1bit3 THEN 6 ELSE 4, !.sysman = TRUE]
    BY <1>3 DEF SmpcINTBACK
  <2> HIDE DEF d
  <2>2. d.SR \in {4, 6}
    BY <2>1 DEF State
  <2> QED BY <2>2 DEF d
<1>4. CASE ~c.intback /\ ~WantsStatus(c) /\ c.IREG1bit3
  <2>1. d = [SmpcINTBACKPeripheral(o, n1, n2) EXCEPT !.sysman = TRUE]
    BY <1>4 DEF SmpcINTBACK, o
  <2>2. Full(o, d)
    BY <1>1, <2>1, SameIsTyped, PeripheralFull
  <2> HIDE DEF d
  <2>3. Full(c, d)
    BY <1>1, <2>2 DEF Full, RestOf, SameTyped
  <2> QED BY <2>3 DEF d
<1>5. CASE ~c.intback /\ ~WantsStatus(c) /\ ~c.IREG1bit3
  BY <1>5 DEF SmpcINTBACK
<1> QED BY <1>2, <1>3, <1>4, <1>5

\* INTBACK is run by the handler of its own.
LEMMA RunIntback ==
  ASSUME NEW c \in State, c.COMREG = INTBACK, NEW n1 \in Int, NEW n2 \in Int
  PROVE  Run(c, n1, n2) = SmpcINTBACK(c, n1, n2)
<1> USE DEF SSHON, SSHOFF, SNDON, SNDOFF, CKCHG352, CKCHG320, INTBACK, NMIREQ,
            RESENAB, RESDISA
<1> QED BY DEF Run

LEMMA ExecFull ==
  ASSUME NEW c \in State, Typed(c), NEW l, NEW n1 \in PortSizes, NEW n2 \in PortSizes,
         c.COMREG = INTBACK, c.timing > 0, ~c.sysman,
         SmpcExec(c, l, 1, n1, n2).timing <= 0,
         SmpcExec(c, l, 1, n1, n2).sysman,
         SmpcExec(c, l, 1, n1, n2).SR \in {8, 12}
  PROVE  Full(c, SmpcExec(c, l, 1, n1, n2))
<1> DEFINE left == Countdown(c, l, 1)
           w == c.wait /\ l # WaitLine
           d == [c EXCEPT !.timing = left, !.wait = w]
           r == SmpcINTBACK(d, n1, n2)
           e == SmpcExec(c, l, 1, n1, n2)
<1>1. left \in Int /\ c.timing \in Int
  BY DEF Countdown, State
<1>2. w \in BOOLEAN
  OBVIOUS
<1>3. e = IF c.timing <= 0 THEN c ELSE IF left > 0 THEN d
          ELSE [Run(d, n1, n2) EXCEPT !.SF = 0]
  BY DEF SmpcExec
<1> HIDE DEF left, e, w
<1>4. /\ d.timing = left /\ SameTyped(c, d) /\ d.COMREG = INTBACK
      /\ d.sysman = c.sysman
  BY DEF SameTyped, State
<1>5. d \in State
  BY <1>1, <1>2, ZenonT(60) DEF State
<1> HIDE DEF d
<1>6. e = [r EXCEPT !.SF = 0]
  <2>1. ~(c.timing <= 0)
    BY <1>1
  <2>2. ~(left > 0)
    <3> SUFFICES ASSUME left > 0 PROVE FALSE
      OBVIOUS
    <3>1. e.timing = left
      BY <1>3, <1>4, <2>1
    <3> QED BY <1>1, <3>1 DEF e
  <2>3. n1 \in Int /\ n2 \in Int
    BY PortsAssumption
  <2>4. Run(d, n1, n2) = r
    BY <1>4, <1>5, <2>3, RunIntback DEF r
  <2> QED BY <1>3, <2>1, <2>2, <2>4
<1>7. r \in State
  <2>1. n1 \in Int /\ n2 \in Int
    BY PortsAssumption
  <2> QED BY <1>5, <2>1, IntbackFields DEF Kept
<1>8. Typed(d)
  BY <1>4, SameIsTyped
<1> DEFINE f == r
<1> HIDE DEF f
<1>9. /\ e.sysman = f.sysman /\ e.SR = f.SR /\ e.port1 = f.port1 /\ e.port2 = f.port2
  BY <1>6, <1>7 DEF State, f
<1>10. Full(d, f)
  <2>1. f.sysman /\ f.SR \in {8, 12} /\ ~d.sysman
    BY <1>4, <1>9 DEF e
  <2> QED BY <1>5, <1>8, <2>1, IntbackFull DEF f
<1>11. Full(c, e)
  BY <1>4, <1>9, <1>10 DEF Full, RestOf, SameTyped
<1> QED BY <1>11 DEF e

\* However long the data of the ports is, and however the reports share it, a report
\* that leaves some behind is full.  Only the lengths are modelled: which bytes are
\* copied is not part of it.
THEOREM ReportsAreFull == Spec => ReportsFull
<1> DEFINE A == /\ Runs(INTBACK) /\ ~s.sysman /\ s'.sysman /\ s'.SR \in {8, 12}
                /\ s.port1.size > 0 \/ s.port2.size > 0
                /\ Rest(s'.port1) + Rest(s'.port2) > 0
                => Rest(s.port1) + Rest(s.port2)
                     = ReportSize + Rest(s'.port1) + Rest(s'.port2)
<1>1. IInv /\ TypeInv => A
  <2> SUFFICES ASSUME IInv, TypeInv, Runs(INTBACK), ~s.sysman, s'.sysman,
                      s'.SR \in {8, 12},
                      s.port1.size > 0 \/ s.port2.size > 0,
                      Rest(s'.port1) + Rest(s'.port2) > 0
               PROVE  Rest(s.port1) + Rest(s.port2)
                        = ReportSize + Rest(s'.port1) + Rest(s'.port2)
    OBVIOUS
  <2> DEFINE l == LineOn
             c == IF line # l /\ l = VBlankLineCount
                    THEN [s EXCEPT !.intback = FALSE] ELSE s
  <2>1. s \in State /\ Typed(s)
    BY DEF IInv, Fields, TypeInv
  <2>2. PICK n1 \in PortSizes, n2 \in PortSizes : s' = SmpcExec(c, l, 1, n1, n2)
    BY DEF Runs, Slice
  <2> HIDE DEF l
  <2>3. /\ c \in State /\ SameTyped(s, c) /\ c.timing = s.timing
        /\ c.sysman = s.sysman
    <3>1. [s EXCEPT !.intback = FALSE] \in State
      BY <2>1, BlankFields
    <3> QED BY <2>1, <3>1 DEF State, SameTyped
  <2> HIDE DEF c
  <2>4. Full(c, s')
    <3>1. Typed(c)
      BY <2>1, <2>3, SameIsTyped
    <3>2. c.COMREG = INTBACK /\ c.timing > 0 /\ ~c.sysman /\ s'.timing <= 0
      BY <2>3 DEF Runs, SameTyped
    <3> QED BY <2>2, <2>3, <3>1, <3>2, ExecFull
  <2>5. RestOf(c) = ReportSize + RestOf(s')
    BY <2>3, <2>4 DEF Full, RestOf, SameTyped
  <2>6. Typed(s')
    <3>1. Typed(c)
      BY <2>1, <2>3, SameIsTyped
    <3> QED BY <2>2, <2>3, <3>1, ExecTyped
  <2>7. Rest(s'.port1) \in Nat /\ Rest(s'.port2) \in Nat /\ ReportSize \in Nat
    BY <2>6, TurnRest, TimesAssumption DEF Typed
  <2> QED BY <2>3, <2>5, <2>7 DEF RestOf, SameTyped
<1>2. Spec => [][A]_vars
  BY <1>1, TypeInvariance, PTL DEF Spec
<1> QED BY <1>2 DEF ReportsFull

-----------------------------------------------------------------------------
(* A command comes to its end. *)

\* for a polite program: a command is at work
Working == Polite /\ s.SF = 1 /\ ~claimed

\* a command that is at work counts down
WorkingCounts == Working => s.timing > 0

\* one step of a command at work: its end, or nothing but time passes for it
CountsDown ==
  Working => \/ s'.SF = 0
             \/ /\ ~claimed' /\ s'.timing <= s.timing
                /\ Slice => s'.timing < s.timing

\* A write of a command or of Continue starts a countdown or clears the flag.
LEMMA SetTimingCounts ==
  ASSUME NEW c \in State
  PROVE  SmpcSetTiming(c).timing > 0 \/ SmpcSetTiming(c).SF = 0
<1> DEFINE d == SmpcSetTiming(c)
<1>1. \/ d = [c EXCEPT !.timing = 1]
      \/ d = [c EXCEPT !.timing = LongTime, !.wait = TRUE]
      \/ d = [c EXCEPT !.timing = StatusTime]
      \/ d = [c EXCEPT !.SF = 0]
  BY Zenon DEF SmpcSetTiming
<1>2. LongTime \in Nat \ {0} /\ StatusTime \in Nat \ {0}
  BY TimesAssumption
<1> HIDE DEF d
<1>3. d = [c EXCEPT !.timing = 1] => d.timing > 0
  BY DEF State
<1>4. d = [c EXCEPT !.timing = LongTime, !.wait = TRUE] => d.timing > 0
  BY <1>2 DEF State
<1>5. d = [c EXCEPT !.timing = StatusTime] => d.timing > 0
  BY <1>2 DEF State
<1>6. d = [c EXCEPT !.SF = 0] => d.SF = 0
  BY DEF State
<1>7. d.timing > 0 \/ d.SF = 0
  BY <1>1, <1>3, <1>4, <1>5, <1>6
<1> QED BY <1>7 DEF d

\* A slice takes its time off the countdown, or clears the flag.
LEMMA ExecCounts ==
  ASSUME NEW c \in State, NEW l, NEW n1 \in Int, NEW n2 \in Int, c.timing > 0
  PROVE  LET e == SmpcExec(c, l, 1, n1, n2)
         IN  e.SF = 0 \/ (e.timing < c.timing /\ e.timing > 0)
<1> DEFINE left == Countdown(c, l, 1)
           w == c.wait /\ l # WaitLine
           d == [c EXCEPT !.timing = left, !.wait = w]
           r == Run(d, n1, n2)
           e == SmpcExec(c, l, 1, n1, n2)
<1>1. left \in Int /\ c.timing \in Int /\ left < c.timing /\ w \in BOOLEAN
  BY DEF Countdown, State
<1>2. e = IF c.timing <= 0 THEN c ELSE IF left > 0 THEN d ELSE [r EXCEPT !.SF = 0]
  BY DEF SmpcExec
<1> HIDE DEF left, w, e
<1>3. d \in State /\ d.timing = left
  BY <1>1, ZenonT(60) DEF State
<1> HIDE DEF d
<1>4. r \in State
  BY <1>3, RunFields DEF Kept
<1> HIDE DEF r
<1>5. CASE left > 0
  <2>1. e = d
    BY <1>1, <1>2, <1>5
  <2> QED BY <1>1, <1>3, <1>5, <2>1 DEF e
<1>6. CASE ~(left > 0)
  <2>1. e = [r EXCEPT !.SF = 0]
    BY <1>1, <1>2, <1>6
  <2>2. e.SF = 0
    BY <1>4, <2>1 DEF State
  <2> QED BY <2>2 DEF e
<1> QED BY <1>5, <1>6

\* A slice of a command that is at work.
LEMMA WorkingSlice ==
  ASSUME IInv, WorkingCounts, Working, Slice
  PROVE  s'.SF = 0 \/ (~claimed' /\ s'.timing < s.timing /\ s'.timing > 0)
<1> DEFINE l == LineOn
           c == IF line # l /\ l = VBlankLineCount
                  THEN [s EXCEPT !.intback = FALSE] ELSE s
<1>1. s \in State /\ s.timing > 0 /\ ~claimed
  BY DEF IInv, Fields, WorkingCounts, Working
<1>2. PICK n1 \in PortSizes, n2 \in PortSizes : s' = SmpcExec(c, l, 1, n1, n2)
  BY DEF Slice
<1>3. claimed' = claimed /\ n1 \in Int /\ n2 \in Int
  BY PortsAssumption DEF Slice
<1> HIDE DEF l
<1>4. c \in State /\ c.timing = s.timing
  <2>1. [s EXCEPT !.intback = FALSE] \in State
    BY <1>1, BlankFields
  <2> QED BY <1>1, <2>1 DEF State
<1> HIDE DEF c
<1> QED BY <1>1, <1>2, <1>3, <1>4, ExecCounts

\* What a polite program and the buttons do while a command is at work, and what makes
\* a command be at work.
LEMMA WorkingStep ==
  ASSUME IInv, WorkingCounts, [Next]_vars
  PROVE  WorkingCounts' /\ CountsDown
<1>s. s \in State /\ s.timing \in Int /\ claimed \in BOOLEAN /\ s.SF \in {0, 1}
  BY DEF IInv, Fields, State
<1>0. ASSUME Slice PROVE WorkingCounts' /\ CountsDown
  <2>1. CASE Working
    <3>1. s'.SF = 0 \/ (~claimed' /\ s'.timing < s.timing /\ s'.timing > 0)
      BY <1>0, <2>1, WorkingSlice
    <3>2. s' \in State
      BY <1>0, SliceInv DEF IInv, Fields
    <3>3. s'.timing \in Int
      BY <3>2 DEF State
    <3> QED BY <1>s, <3>1, <3>3 DEF WorkingCounts, CountsDown, Working
  <2>2. CASE ~Working
    <3>1. PICK c \in State : /\ c = s \/ c = [s EXCEPT !.intback = FALSE]
                             /\ Executed(c, s')
      BY <1>0, SliceStep
    <3>2. c.SF = s.SF /\ c.timing \in Int
      BY <1>s, <3>1 DEF State
    <3>3. s' \in State /\ (c.timing <= 0 => s' = c)
      BY <3>1 DEF Executed
    <3>4. s'.timing \in Int
      BY <3>3 DEF State
    <3>5. /\ s'.timing > 0 => s'.SF = c.SF
          /\ c.timing > 0 /\ s'.timing <= 0 => s'.SF = 0
      BY <3>1 DEF Executed
    <3>6. s'.SF = 1 => s.SF = 1
      <4>1. CASE c.timing <= 0
        BY <3>2, <3>3, <4>1
      <4>2. CASE c.timing > 0
        BY <3>2, <3>4, <3>5, <4>2
      <4> QED BY <3>2, <4>1, <4>2
    <3>7. claimed' = claimed
      BY <1>0 DEF Slice
    <3> QED BY <2>2, <3>6, <3>7 DEF WorkingCounts, CountsDown, Working
  <2> QED BY <2>1, <2>2
<1>1. ASSUME NEW val \in {0, 1}, WriteSF(val), ~Slice
      PROVE  WorkingCounts' /\ CountsDown
  <2>1. Polite => s.SF = 0 /\ claimed'
    BY <1>1 DEF WriteSF
  <2> QED BY <2>1 DEF WorkingCounts, CountsDown, Working
<1>2. ASSUME NEW val \in IREG0Values, WriteIREG0(val), ~Slice
      PROVE  WorkingCounts' /\ CountsDown
  <2>1. CASE val = Continue /\ s.intback /\ Polite
    <3> DEFINE b == [s EXCEPT !.IREG0 = val]
               c == [b EXCEPT !.COMREG = INTBACK]
               d == SmpcSetTiming(c)
    <3>0. b \in State /\ b.intback = s.intback
      BY <1>s, <1>2, ZenonT(60) DEF State
    <3>1. s.SF = 0 /\ s' = [d EXCEPT !.SF = 1]
      BY <1>2, <2>1 DEF WriteIREG0, Continue, Break, StatusBreak
    <3>2. c \in State /\ c.intback = s.intback /\ c.COMREG = INTBACK
      <4> HIDE DEF b
      <4>1. INTBACK \in 0..255
        BY DEF INTBACK
      <4> QED BY <3>0, <4>1, ZenonT(60) DEF State
    <3> HIDE DEF c
    <3>3. d \in State
      BY <3>2, SetTimingFields
    <3>4. d = [c EXCEPT !.timing = LongTime, !.wait = TRUE]
      BY <3>2, <2>1 DEF SmpcSetTiming, INTBACK, ShortCommands, SSHON, SSHOFF, SNDON,
                       SNDOFF, CKCHG352, CKCHG320, NMIREQ, RESENAB, RESDISA
    <3>5. d.timing = LongTime
      BY <3>2, <3>4 DEF State
    <3> HIDE DEF d
    <3>6. s'.timing > 0
      BY <3>1, <3>3, <3>5, TimesAssumption DEF State
    <3> QED BY <3>1, <3>6 DEF WorkingCounts, CountsDown, Working
  <2>2. CASE ~(val = Continue /\ s.intback) /\ Polite
    <3>1. /\ claimed' = claimed
          /\ claimed \/ s.SF = 0
          /\ \/ s' = [s EXCEPT !.IREG0 = val]
             \/ s' = [[s EXCEPT !.IREG0 = val] EXCEPT !.intback = FALSE, !.SR = 0]
      BY <1>2, <2>2 DEF WriteIREG0, Continue, Break, StatusBreak
    <3>2. s'.SF = s.SF
      BY <1>s, <3>1 DEF State
    <3> QED BY <3>1, <3>2 DEF WorkingCounts, CountsDown, Working
  <2> QED BY <2>1, <2>2 DEF WorkingCounts, CountsDown, Working
<1>3. ASSUME NEW bit3 \in BOOLEAN, WriteIREG1(bit3)
      PROVE  WorkingCounts' /\ CountsDown
  <2>1. Polite => claimed /\ claimed'
    BY <1>3 DEF WriteIREG1
  <2> QED BY <2>1 DEF WorkingCounts, CountsDown, Working
<1>4. ASSUME NEW com \in Commands, WriteCOMREG(com)
      PROVE  WorkingCounts' /\ CountsDown
  <2>1. (Polite => claimed) /\ s' = SmpcSetTiming([s EXCEPT !.COMREG = com])
    BY <1>4 DEF WriteCOMREG
  <2>2. [s EXCEPT !.COMREG = com] \in State
    BY <1>s, CommandsAssumption DEF State
  <2>3. s'.timing > 0 \/ s'.SF = 0
    BY <2>1, <2>2, SetTimingCounts
  <2> QED BY <2>1, <2>3 DEF WorkingCounts, CountsDown, Working
<1>5. ASSUME TakeInterrupts \/ SmpcResetButton, ~Slice
      PROVE  WorkingCounts' /\ CountsDown
  <2>1. s'.SF = s.SF /\ s'.timing = s.timing /\ claimed' = claimed
    BY <1>5, <1>s DEF TakeInterrupts, SmpcResetButton, State
  <2> QED BY <1>5, <1>s, <2>1 DEF WorkingCounts, CountsDown, Working
<1>6. ASSUME Reset
      PROVE  WorkingCounts' /\ CountsDown
  <2>1. s'.SF = 0
    BY <1>6 DEF Reset, PowerOn
  <2> QED BY <2>1 DEF WorkingCounts, CountsDown, Working
<1>7. ASSUME UNCHANGED vars, ~Slice
      PROVE  WorkingCounts' /\ CountsDown
  BY <1>7, <1>s DEF vars, WorkingCounts, CountsDown, Working
<1> QED BY <1>0, <1>1, <1>2, <1>3, <1>4, <1>5, <1>6, <1>7 DEF Next

\* What can be said of CommandEnds without fairness, for a program that polls:
\* while a command is at work nothing but its end or a reset disturbs its
\* countdown, every slice takes time off it, and it is never at its end with SF
\* still set.  So SF is clear after at most as many slices as the countdown had.
THEOREM CommandsCountDown ==
  Spec => []WorkingCounts /\ [][CountsDown]_vars
<1>1. Init => WorkingCounts
  BY DEF Init, PowerOn, WorkingCounts, Working
<1>2. IInv /\ WorkingCounts /\ [Next]_vars => WorkingCounts' /\ CountsDown
  BY WorkingStep
<1> QED BY <1>1, <1>2, Invariance, PTL DEF Spec

===============================================================================
