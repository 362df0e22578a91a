---------------------------- MODULE ScspSyncProofs ----------------------------
(***************************************************************************)
(* Proofs about ScspSync: for every rate, length of a frame and number of  *)
(* resets, the frames of the two threads meet and no cycle of a sound      *)
(* frame is lost or counted twice.                                         *)
(*                                                                         *)
(* The inductive invariant has three parts besides the type: where the two *)
(* threads and the two queues are to each other (Meeting), how far the     *)
(* counter has come (Counting), and what the SCSP thread has made of it    *)
(* (Sampling).                                                             *)
(***************************************************************************)
EXTENDS ScspSync, TLAPS

\* While the thread runs, it waits at the end of its frame exactly when a code is
\* under way or the emulation thread stands between taking one and giving the
\* other.  A thread that does not run is over, or is being ended.
Meeting ==
  /\ running =>
       /\ spc # "off" /\ epc \notin {"quit", "join", "stopped"}
       /\ spc # "await" => finish = 0 /\ start = 0 /\ epc # "go"
       /\ spc = "await" => /\ finish = 1 => start = 0
                           /\ epc = "go" <=> finish = 0 /\ start = 0
  /\ ~running =>
       \/ epc \in {"line", "sleep", "reset"} /\ spc = "off" /\ finish = 0 /\ start = 0
       \/ /\ epc \in {"quit", "join", "stopped"}
          /\ finish = 1 => spc \in {"await", "top", "off"}
          /\ epc = "stopped" => spc = "off"

\* the most a line may add, by WidthAssumption
MaxRate == (One * W - 1) \div (MaxLineCount * (MaxResets + 1))

\* the resets that are over, and how many lines of this frame are counted at most
Turns == IF epc \in {"sleep", "reset"} THEN resets - 1 ELSE resets
Lines ==
  IF epc \in {"vblank", "wait"} THEN MaxLineCount
  ELSE IF line >= VBlankLineCount THEN line - VBlankLineCount + 1
  ELSE line + MaxLineCount - VBlankLineCount + 1

\* The counter is behind what is saved only after the emulator was set up again.
\* What is saved is a rate for each line since the last meeting, and a reset
\* can make that a frame more.
Counting ==
  /\ counter < One * W
  /\ epc \in {"line", "sleep", "reset"} => counter <= saved
  /\ resets <= MaxResets /\ (epc \in {"sleep", "reset"} => resets > 0)
  /\ saved <= (MaxLineCount * Turns + Lines) * MaxRate
  /\ epc = "go" => saved = 0
  /\ epc \in {"vblank", "wait", "go"} => line = VBlankLineCount
  /\ epc \in {"quit", "join", "stopped"} => line = 0

\* the counts of which a sound frame is made
Aligned == {k * SampleCycles : k \in Nat}

\* The thread is in a sound frame: it has counted what it has read.  It ends a
\* slice with less than a sample left, and so short of a frame; the count goes
\* back below what it has read only at the end of the frame.
Sampling ==
  /\ frame \in Aligned
  /\ spc \in {"finish", "await"} => frame = 0
  /\ spc = "await" => pre = 0 /\ inc = 0
  /\ spc \in {"top", "lock", "spin"} => inc < SampleCycles
  /\ spc \in {"top", "lock", "spin", "slice"} => frame + inc \in {pre, pre + W}
  /\ spc \in {"top", "lock", "spin", "slice"} /\ running /\ epc # "wait" =>
       pre <= Whole(counter) \/ (spc = "slice" /\ FrameCycles <= pre /\ epc = "vblank")

\* the inductive invariant
IInv == TypeOK /\ Meeting /\ Counting /\ Sampling

-----------------------------------------------------------------------------
(* Arithmetic *)

\* The constants are integers and in their order.
LEMMA Constants ==
  /\ SampleCycles \in Nat /\ FrameCycles \in Nat /\ W \in Nat
  /\ 0 < SampleCycles /\ SampleCycles <= FrameCycles /\ FrameCycles < W
  /\ One \in Nat /\ One > 1 /\ PerLineRates \subseteq Nat
  /\ MaxResets \in Nat /\ MaxMutes \in Nat /\ MaxRestarts \in Nat
  /\ VBlankLineCount \in Nat /\ 0 < VBlankLineCount
  /\ MaxLineCount \in Nat /\ VBlankLineCount < MaxLineCount
  BY CyclesAssumption, LinesAssumption

\* Products keep the order of their factors, and quotients are what they are.
LEMMA Products ==
  /\ \A a, b \in Int, c \in Nat : a <= b => a * c <= b * c /\ c * a <= c * b
  /\ \A a, c \in Int : (a + 1) * c = a * c + c /\ c * (a + 1) = c * a + c
  /\ \A a, c \in Int : c * (a - 1) = c * a - c
  /\ \A a, b \in Int : a * b = b * a
  OBVIOUS

LEMMA Quotients ==
  ASSUME NEW a \in Nat, NEW b \in Nat, b > 0
  PROVE  /\ a \div b \in Nat /\ b * (a \div b) <= a /\ a < b * (a \div b) + b
         /\ \A q \in Nat : b * q <= a => q <= a \div b
         /\ \A q \in Nat : a < b * q + b => a \div b <= q
  <1>1. a \div b \in Nat /\ b * (a \div b) <= a /\ a < b * (a \div b) + b
    OBVIOUS
  <1>2. ASSUME NEW q \in Nat, b * q <= a PROVE q <= a \div b
    <2>1. CASE a \div b + 1 <= q
      <3>1. b * (a \div b + 1) <= b * q
        BY <1>1, <2>1, Products
      <3>2. b * (a \div b + 1) = b * (a \div b) + b
        BY <1>1, Products
      <3>. QED BY <1>1, <1>2, <3>1, <3>2
    <2>. QED BY <1>1, <2>1
  <1>3. ASSUME NEW q \in Nat, a < b * q + b PROVE a \div b <= q
    <2>1. CASE q + 1 <= a \div b
      <3>1. b * (q + 1) <= b * (a \div b)
        BY <1>1, <2>1, Products
      <3>2. b * (q + 1) = b * q + b
        BY Products
      <3>. QED BY <1>1, <1>3, <3>1, <3>2
    <2>. QED BY <1>1, <2>1
  <1>. QED BY <1>1, <1>2, <1>3

\* What Whole makes of the counts that occur.
LEMMA Wholes ==
  /\ \A a \in Nat : Whole(a) \in Nat
  /\ \A a, b \in Nat : a <= b => Whole(a) <= Whole(b)
  /\ \A a \in Nat : a < One * W => Whole(a) < W
  /\ FrameCycles * One \in Nat /\ FrameCycles * One < One * W
  /\ Whole(FrameCycles * One) = FrameCycles
  /\ Whole(1) = 0 /\ 1 < One * W /\ Whole(0) = 0
  <1>c. /\ One \in Nat /\ One > 0 /\ One > 1 /\ W \in Nat /\ W > 1
        /\ FrameCycles \in Nat /\ FrameCycles < W
    BY Constants
  <1>1. \A a \in Nat : Whole(a) \in Nat
    BY <1>c, Quotients DEF Whole
  <1>2. ASSUME NEW a \in Nat, NEW b \in Nat, a <= b PROVE Whole(a) <= Whole(b)
    <2>1. b \div One \in Nat /\ b < One * (b \div One) + One
      BY <1>c, Quotients
    <2>2. a < One * (b \div One) + One
      BY <1>2, <2>1, <1>c
    <2>3. a \div One <= b \div One
      BY <2>1, <2>2, <1>c, Quotients
    <2>. QED BY <2>3 DEF Whole
  <1>3. ASSUME NEW a \in Nat, a < One * W PROVE Whole(a) < W
    <2>1. W - 1 \in Nat /\ One * (W - 1) = One * W - One
      BY <1>c, Products
    <2>2. a < One * (W - 1) + One
      BY <1>3, <2>1, <1>c
    <2>3. a \div One \in Nat /\ a \div One <= W - 1
      BY <2>1, <2>2, <1>c, Quotients
    <2>. QED BY <2>3, <1>c DEF Whole
  <1>4. /\ FrameCycles * One \in Nat /\ FrameCycles * One < One * W
        /\ Whole(FrameCycles * One) = FrameCycles
    <2>1. /\ FrameCycles * One = One * FrameCycles
          /\ One * (FrameCycles + 1) = One * FrameCycles + One
          /\ One * (FrameCycles + 1) <= One * W
      BY <1>c, Products
    <2>2. One * FrameCycles \in Nat /\ One * W \in Nat
      BY <1>c
    <2>3. /\ FrameCycles <= (One * FrameCycles) \div One
          /\ (One * FrameCycles) \div One <= FrameCycles
      <3> DEFINE P == One * FrameCycles
      <3>1. P \in Nat /\ One * FrameCycles <= P /\ P < One * FrameCycles + One
        BY <2>2, <1>c
      <3>. HIDE DEF P
      <3>2. FrameCycles <= P \div One /\ P \div One <= FrameCycles
        BY <3>1, <1>c, Quotients
      <3>. QED BY <3>2 DEF P
    <2>4. (One * FrameCycles) \div One \in Nat
      BY <1>c, <2>2, Quotients
    <2>5. (One * FrameCycles) \div One = FrameCycles
      BY <2>3, <2>4, <1>c
    <2>6. FrameCycles * One < One * W
      BY <2>1, <2>2, <1>c
    <2>. QED BY <2>1, <2>2, <2>5, <2>6 DEF Whole
  <1>5. Whole(1) = 0 /\ 1 < One * W /\ Whole(0) = 0
    <2>1. One * 0 = 0
      BY <1>c
    <2>2. 1 \div One <= 0 /\ 1 \div One \in Nat /\ 0 \div One <= 0 /\ 0 \div One \in Nat
      BY <2>1, <1>c, Quotients
    <2>3. One * 1 <= One * W /\ One * 1 = One
      BY <1>c, Products
    <2>. QED BY <2>2, <2>3, <1>c DEF Whole
  <1>. QED BY <1>1, <1>2, <1>3, <1>4, <1>5

\* No line adds more than MaxRate, and as many of them as lie between two meetings
\* stay below the width of the counter.
LEMMA Rates ==
  /\ MaxRate \in Nat
  /\ \A r \in PerLineRates : r \in Nat /\ r <= MaxRate
  /\ \A k \in Int : k <= MaxLineCount * (MaxResets + 1) => k * MaxRate < One * W
  <1> DEFINE D == MaxLineCount * (MaxResets + 1)
  <1>c. /\ One \in Nat /\ One > 0 /\ W \in Nat /\ W > 0 /\ MaxLineCount \in Nat
        /\ MaxLineCount > 0 /\ MaxResets \in Nat /\ PerLineRates \subseteq Nat
    BY Constants
  <1>1. D \in Nat /\ D > 0
    <2>1. MaxResets + 1 \in Nat /\ 1 <= MaxResets + 1
      BY <1>c
    <2>2. MaxLineCount * 1 <= MaxLineCount * (MaxResets + 1)
      BY <2>1, <1>c, Products
    <2>. QED BY <2>1, <2>2, <1>c
  <1>2. One * W - 1 \in Nat
    <2>1. One * 1 <= One * W
      BY <1>c, Products
    <2>. QED BY <2>1, <1>c
  <1>3. \A r \in PerLineRates : D * r < One * W
    BY WidthAssumption
  <1>h. HIDE DEF D
  <1>4. MaxRate = (One * W - 1) \div D
    BY DEF MaxRate, D
  <1>5. MaxRate \in Nat /\ D * MaxRate <= One * W - 1
    BY <1>1, <1>2, <1>4, Quotients
  <1>6. ASSUME NEW r \in PerLineRates PROVE r \in Nat /\ r <= MaxRate
    <2>1. r \in Nat /\ D * r <= One * W - 1
      BY <1>1, <1>2, <1>3, <1>c
    <2>. QED BY <2>1, <1>1, <1>2, <1>4, Quotients
  <1>7. ASSUME NEW k \in Int, k <= D PROVE k * MaxRate < One * W
    <2>1. k * MaxRate <= D * MaxRate
      BY <1>1, <1>5, <1>7, Products
    <2>2. k * MaxRate \in Int
      BY <1>5
    <2>3. k * MaxRate <= One * W - 1
      BY <2>1, <2>2, <1>1, <1>2, <1>5
    <2>. QED BY <2>2, <2>3, <1>2, <1>c
  <1>. QED BY <1>5, <1>6, <1>7 DEF D

\* Samples fit a sound frame: short of its end there is room for one.
LEMMA Samples ==
  /\ 0 \in Aligned
  /\ \A f \in Aligned : f \in Nat /\ f + SampleCycles \in Aligned
  /\ \A f \in Aligned : f < FrameCycles => f + SampleCycles <= FrameCycles
  <1>c. SampleCycles \in Nat /\ SampleCycles > 0
    BY Constants
  <1>1. 0 \in Aligned
    <2>1. 0 = 0 * SampleCycles
      BY <1>c
    <2>. QED BY <2>1 DEF Aligned
  <1>2. ASSUME NEW f \in Aligned
        PROVE  /\ f \in Nat /\ f + SampleCycles \in Aligned
               /\ f < FrameCycles => f + SampleCycles <= FrameCycles
    <2>1. PICK k \in Nat : f = k * SampleCycles
      BY DEF Aligned
    <2>2. PICK n \in 1..FrameCycles : FrameCycles = n * SampleCycles
      BY CyclesAssumption
    <2>3. k + 1 \in Nat /\ (k + 1) * SampleCycles = f + SampleCycles /\ f \in Nat
      BY <2>1, <1>c, Products
    <2>4. f + SampleCycles \in Aligned
      BY <2>3 DEF Aligned
    <2>5. ASSUME f < FrameCycles PROVE f + SampleCycles <= FrameCycles
      <3>1. n \in Int
        BY Constants
      <3>2. CASE n <= k
        <4>1. n * SampleCycles <= k * SampleCycles
          BY <3>1, <3>2, <1>c, Products
        <4>. QED BY <4>1, <2>1, <2>2, <2>5, <2>3, Constants
      <3>3. CASE k + 1 <= n
        <4>1. (k + 1) * SampleCycles <= n * SampleCycles
          BY <3>1, <3>3, <1>c, Products
        <4>. QED BY <4>1, <2>2, <2>3
      <3>. QED BY <3>1, <3>2, <3>3
    <2>. QED BY <2>3, <2>4, <2>5
  <1>. QED BY <1>1, <1>2

\* Read keeps the count: what is made and what is to be made is what is read, up to
\* the width.
LEMMA ReadCounts ==
  ASSUME NEW f \in Nat, f < FrameCycles, NEW i \in 0..(W - 1), NEW p \in 0..(W - 1),
         NEW c \in 0..(W - 1), f + i \in {p, p + W}
  PROVE  /\ Plus(i, Minus(c, p)) \in 0..(W - 1)
         /\ f + Plus(i, Minus(c, p)) \in {c, c + W}
  BY Constants DEF Plus, Minus

-----------------------------------------------------------------------------
(* The steps *)

\* The threads keep meeting.
LEMMA MeetingStep == IInv /\ [Next]_vars => Meeting'
  <1> SUFFICES ASSUME IInv, [Next]_vars PROVE Meeting'
    OBVIOUS
  <1>t. TypeOK /\ Meeting
    BY DEF IInv
  <1>1. CASE EndLine
    BY <1>1, <1>t DEF EndLine, scsp, queues, flag, Count, ScspExec, TypeOK, Meeting
  <1>2. CASE VBlankIN
    BY <1>2, <1>t DEF VBlankIN, scsp, queues, flag, ScspExec, TypeOK, Meeting
  <1>3. CASE SyncCPUtoSCSP
    BY <1>3, <1>t DEF SyncCPUtoSCSP, scsp, queues, flag, TypeOK, Meeting
  <1>4. CASE TakeFinish
    BY <1>4, <1>t DEF TakeFinish, scsp, flag, TypeOK, Meeting
  <1>5. CASE AddStart
    BY <1>5, <1>t DEF AddStart, scsp, flag, Count, TypeOK, Meeting
  <1>6. CASE SleepOver
    BY <1>6, <1>t DEF SleepOver, scsp, queues, flag, TypeOK, Meeting
  <1>7. CASE ResetOver
    BY <1>7, <1>t DEF ResetOver, scsp, queues, TypeOK, Meeting
  <1>8. CASE AddQuit
    BY <1>8, <1>t DEF AddQuit, scsp, flag, TypeOK, Meeting
  <1>9. CASE Join
    BY <1>9, <1>t DEF Join, scsp, queues, flag, TypeOK, Meeting
  <1>10. CASE Top
    BY <1>10, <1>t DEF Top, emu, queues, flag, TypeOK, Meeting
  <1>11. CASE Unlocked
    BY <1>11, <1>t DEF Unlocked, emu, queues, flag, TypeOK, Meeting
  <1>12. CASE Read
    BY <1>12, <1>t DEF Read, emu, queues, flag, TypeOK, Meeting
  <1>13. CASE Sample
    BY <1>13, <1>t DEF Sample, emu, queues, flag, TypeOK, Meeting
  <1>14. CASE EndSlice
    BY <1>14, <1>t DEF EndSlice, emu, queues, flag, TypeOK, Meeting
  <1>15. CASE AddFinish
    BY <1>15, <1>t DEF AddFinish, emu, flag, TypeOK, Meeting
  <1>16. CASE TakeStart
    BY <1>16, <1>t DEF TakeStart, emu, flag, TypeOK, Meeting
  <1>17. CASE Reset
    BY <1>17, <1>t DEF Reset, scsp, queues, TypeOK, Meeting
  <1>18. CASE ScspDeInit
    BY <1>18, <1>t DEF ScspDeInit, scsp, queues, TypeOK, Meeting
  <1>19. CASE Restart
    BY <1>19, <1>t DEF Restart, scsp, TypeOK, Meeting
  <1>20. CASE ScspMuteAudio
    BY <1>20, <1>t DEF ScspMuteAudio, emu, scsp, queues, TypeOK, Meeting
  <1>21. CASE ScspUnMuteAudio
    BY <1>21, <1>t DEF ScspUnMuteAudio, emu, scsp, queues, TypeOK, Meeting
  <1>22. CASE UNCHANGED vars
    BY <1>22, <1>t DEF vars, emu, scsp, queues, flag, TypeOK, Meeting
  <1>. QED BY <1>1, <1>2, <1>3, <1>4, <1>5, <1>6, <1>7, <1>8, <1>9, <1>10, <1>11,
           <1>12, <1>13, <1>14, <1>15, <1>16, <1>17, <1>18, <1>19, <1>20, <1>21,
           <1>22
           DEF Next, EmuNext, ScspNext

\* Every step keeps the type.
LEMMA TypeStep == IInv /\ [Next]_vars => TypeOK'
  <1> SUFFICES ASSUME IInv, [Next]_vars PROVE TypeOK'
    OBVIOUS
  <1>t. TypeOK
    BY DEF IInv
  <1>c. /\ PerLineRates \subseteq Nat /\ MaxLineCount \in Nat
        /\ VBlankLineCount \in Nat /\ VBlankLineCount < MaxLineCount
        /\ W \in Nat /\ 0 < W /\ FrameCycles \in Nat /\ 0 < FrameCycles
        /\ SampleCycles \in Nat /\ 0 < SampleCycles /\ SampleCycles <= FrameCycles
    BY Constants
  <1>e. ScspExec => /\ running' \in BOOLEAN
                    /\ spc' \in {"off", "top", "lock", "spin", "slice", "finish", "await"}
                    /\ pre' \in 0..(W - 1) /\ inc' \in 0..(W - 1)
                    /\ frame' \in 0..(FrameCycles - 1)
    <2>1. 0 \in 0..(W - 1) /\ 0 \in 0..(FrameCycles - 1)
      BY <1>c
    <2>2. CASE running
      BY <2>2, <1>t DEF ScspExec, scsp, TypeOK
    <2>3. CASE ~running
      BY <2>1, <2>3 DEF ScspExec
    <2>. QED BY <2>2, <2>3
  <1>1. CASE EndLine
    <2>1. line' \in 0..(MaxLineCount - 1)
      BY <1>1, <1>t, <1>c DEF EndLine, TypeOK
    <2>2. saved' \in Nat /\ counter' \in Nat
      BY <1>1, <1>t, <1>c DEF EndLine, Count, TypeOK
    <2>. QED BY <1>1, <1>t, <1>e, <2>1, <2>2 DEF EndLine, TypeOK, queues, flag
  <1>2. CASE VBlankIN
    <2>1. line' \in 0..(MaxLineCount - 1)
      BY <1>2, <1>t, <1>c DEF VBlankIN, TypeOK
    <2>2. counter' \in Nat
      BY <1>2, Wholes DEF VBlankIN
    <2>. QED BY <1>2, <1>t, <1>e, <2>1, <2>2 DEF VBlankIN, TypeOK, queues, flag
  <1>3. CASE SyncCPUtoSCSP
    BY <1>3, <1>t, <1>c DEF SyncCPUtoSCSP, scsp, queues, flag, TypeOK
  <1>4. CASE TakeFinish
    BY <1>4, <1>t, <1>c DEF TakeFinish, scsp, flag, TypeOK
  <1>5. CASE AddStart
    BY <1>5, <1>t, <1>c DEF AddStart, scsp, flag, Count, TypeOK
  <1>6. CASE SleepOver
    BY <1>6, <1>t, <1>c DEF SleepOver, scsp, queues, flag, TypeOK
  <1>7. CASE ResetOver
    BY <1>7, <1>t, <1>c DEF ResetOver, scsp, queues, TypeOK
  <1>8. CASE AddQuit
    BY <1>8, <1>t, <1>c DEF AddQuit, scsp, flag, TypeOK
  <1>9. CASE Join
    BY <1>9, <1>t, <1>c DEF Join, scsp, queues, flag, TypeOK
  <1>10. CASE Top
    BY <1>10, <1>t, <1>c DEF Top, emu, queues, flag, TypeOK
  <1>11. CASE Unlocked
    BY <1>11, <1>t, <1>c DEF Unlocked, emu, queues, flag, TypeOK
  <1>12. CASE Read
    <2>1. Whole(counter) \in 0..(W - 1)
      <3>1. counter \in Nat /\ counter < One * W
        BY DEF IInv, TypeOK, Counting
      <3>. QED BY <3>1, <1>c, Wholes
    <2>2. inc' \in 0..(W - 1)
      <3>1. /\ frame \in Nat /\ frame < FrameCycles
            /\ inc \in 0..(W - 1) /\ pre \in 0..(W - 1)
        BY <1>t, <1>c DEF TypeOK
      <3>2. frame + inc \in {pre, pre + W}
        BY <1>12 DEF IInv, Sampling, Read
      <3>. QED BY <1>12, <2>1, <3>1, <3>2, ReadCounts DEF Read
    <2>. QED BY <1>12, <1>t, <2>1, <2>2 DEF Read, TypeOK, emu, queues, flag
  <1>13. CASE Sample
    BY <1>13, <1>t, <1>c DEF Sample, emu, queues, flag, TypeOK
  <1>14. CASE EndSlice
    BY <1>14, <1>t, <1>c DEF EndSlice, emu, queues, flag, TypeOK
  <1>15. CASE AddFinish
    BY <1>15, <1>t, <1>c DEF AddFinish, emu, flag, TypeOK
  <1>16. CASE TakeStart
    BY <1>16, <1>t, <1>c DEF TakeStart, emu, flag, TypeOK
  <1>17. CASE Reset
    <2>1. resets' \in Nat
      BY <1>17, <1>t DEF Reset, TypeOK
    <2>. QED BY <1>17, <1>t, <2>1 DEF Reset, TypeOK, scsp, queues
  <1>18. CASE ScspDeInit
    BY <1>18, <1>t, <1>c DEF ScspDeInit, scsp, queues, TypeOK
  <1>19. CASE Restart
    <2>1. restarts' \in Nat /\ 0 \in 0..(MaxLineCount - 1)
      BY <1>19, <1>t, <1>c DEF Restart, TypeOK
    <2>. QED BY <1>19, <1>t, <2>1 DEF Restart, TypeOK, scsp
  <1>20. CASE ScspMuteAudio
    BY <1>20, <1>t, <1>c DEF ScspMuteAudio, emu, scsp, queues, TypeOK
  <1>21. CASE ScspUnMuteAudio
    BY <1>21, <1>t, <1>c DEF ScspUnMuteAudio, emu, scsp, queues, TypeOK
  <1>22. CASE UNCHANGED vars
    BY <1>22, <1>t, <1>c DEF vars, emu, scsp, queues, flag, TypeOK
  <1>. QED BY <1>1, <1>2, <1>3, <1>4, <1>5, <1>6, <1>7, <1>8, <1>9, <1>10, <1>11,
           <1>12, <1>13, <1>14, <1>15, <1>16, <1>17, <1>18, <1>19, <1>20, <1>21,
           <1>22
           DEF Next, EmuNext, ScspNext

\* Lines that are counted fit the width, and a line more fits what it may add.
LEMMA LinesFit ==
  /\ \A t, l \in Int : t <= MaxResets /\ l <= MaxLineCount =>
       (MaxLineCount * t + l) * MaxRate < One * W
  /\ \A t, l, m \in Int, x, r \in Nat :
       /\ l + 1 <= m /\ r <= MaxRate /\ x <= (MaxLineCount * t + l) * MaxRate
       => x + r <= (MaxLineCount * t + m) * MaxRate
  /\ \A t, l, m \in Int, x \in Nat :
       /\ l <= MaxLineCount /\ 0 <= m /\ x <= (MaxLineCount * (t - 1) + l) * MaxRate
       => x <= (MaxLineCount * t + m) * MaxRate
  /\ \A t, l \in Nat : 0 <= (MaxLineCount * t + l) * MaxRate
  <1>c. MaxLineCount \in Nat /\ MaxResets \in Nat /\ MaxRate \in Nat
    BY Constants, Rates
  <1>1. ASSUME NEW t \in Int, NEW l \in Int, t <= MaxResets, l <= MaxLineCount
        PROVE  (MaxLineCount * t + l) * MaxRate < One * W
    <2>1. /\ MaxLineCount * t <= MaxLineCount * MaxResets
          /\ MaxLineCount * (MaxResets + 1) = MaxLineCount * MaxResets + MaxLineCount
      BY <1>1, <1>c, Products
    <2>2. MaxLineCount * t + l \in Int
      BY <1>c
    <2>3. MaxLineCount * t + l <= MaxLineCount * (MaxResets + 1)
      BY <2>1, <1>1, <1>c
    <2>. QED BY <2>2, <2>3, Rates
  <1>2. ASSUME NEW t \in Int, NEW l \in Int, NEW m \in Int, NEW x \in Nat, NEW r \in Nat,
               l + 1 <= m, r <= MaxRate, x <= (MaxLineCount * t + l) * MaxRate
        PROVE  x + r <= (MaxLineCount * t + m) * MaxRate
    <2> DEFINE k == MaxLineCount * t + l
    <2>1. k \in Int /\ k + 1 <= MaxLineCount * t + m /\ MaxLineCount * t + m \in Int
      BY <1>2, <1>c
    <2>2. x <= k * MaxRate
      BY <1>2
    <2>. HIDE DEF k
    <2>3. (k + 1) * MaxRate = k * MaxRate + MaxRate /\ k * MaxRate \in Int
      BY <2>1, <1>c, Products
    <2>4. (k + 1) * MaxRate <= (MaxLineCount * t + m) * MaxRate
      BY <2>1, <1>c, Products
    <2>5. x + r <= (k + 1) * MaxRate
      BY <2>2, <2>3, <1>2, <1>c
    <2>6. (k + 1) * MaxRate \in Int /\ (MaxLineCount * t + m) * MaxRate \in Int
      BY <2>1, <1>c
    <2>. QED BY <2>4, <2>5, <2>6
  <1>3. ASSUME NEW t \in Int, NEW l \in Int, NEW m \in Int, NEW x \in Nat,
               l <= MaxLineCount, 0 <= m, x <= (MaxLineCount * (t - 1) + l) * MaxRate
        PROVE  x <= (MaxLineCount * t + m) * MaxRate
    <2>1. MaxLineCount * (t - 1) = MaxLineCount * t - MaxLineCount
      BY <1>c, Products
    <2>2. MaxLineCount * (t - 1) + l <= MaxLineCount * t + m
      BY <2>1, <1>3, <1>c
    <2>3. (MaxLineCount * (t - 1) + l) * MaxRate <= (MaxLineCount * t + m) * MaxRate
      BY <2>2, <1>c, Products
    <2>4. /\ (MaxLineCount * (t - 1) + l) * MaxRate \in Int
          /\ (MaxLineCount * t + m) * MaxRate \in Int
      BY <1>c
    <2>. QED BY <2>3, <2>4, <1>3
  <1>4. ASSUME NEW t \in Nat, NEW l \in Nat PROVE 0 <= (MaxLineCount * t + l) * MaxRate
    <2>1. MaxLineCount * t + l \in Nat
      BY <1>c
    <2>2. 0 * MaxRate <= (MaxLineCount * t + l) * MaxRate
      BY <2>1, <1>c, Products
    <2>. QED BY <2>2, <1>c
  <1>. QED BY <1>1, <1>2, <1>3, <1>4

\* The counter keeps within its width.
LEMMA CountingStep == IInv /\ [Next]_vars => Counting'
  <1> SUFFICES ASSUME IInv, [Next]_vars PROVE Counting'
    OBVIOUS
  <1>t. TypeOK /\ Counting
    BY DEF IInv
  <1>k. /\ saved \in Nat /\ resets \in Nat /\ line \in 0..(MaxLineCount - 1)
        /\ rate \in Nat /\ rate <= MaxRate
    BY <1>t, Rates DEF TypeOK
  <1>c. /\ MaxLineCount \in Nat /\ VBlankLineCount \in Nat /\ 0 < VBlankLineCount
        /\ VBlankLineCount < MaxLineCount /\ MaxResets \in Nat
    BY Constants
  <1>1. CASE EndLine
    <2>1. /\ epc = "line" /\ epc' = "line" /\ resets' = resets
          /\ line + 1 # VBlankLineCount /\ resets <= MaxResets
      BY <1>1, <1>t DEF EndLine, Counting
    <2>2. Turns' = resets /\ Turns = resets
      BY <2>1 DEF Turns
    <2>3. /\ Lines \in Int /\ Lines' \in Int /\ Lines + 1 <= Lines'
          /\ Lines' <= MaxLineCount
      <3>1. line' = IF line + 1 < MaxLineCount THEN line + 1 ELSE 0
        BY <1>1, <1>k, <1>c DEF EndLine
      <3>. QED BY <2>1, <3>1, <1>k, <1>c DEF Lines
    <2>4. saved' = saved + rate /\ counter' = saved' /\ saved' \in Nat
      BY <1>1, <1>k DEF EndLine, Count
    <2>5. saved' <= (MaxLineCount * Turns' + Lines') * MaxRate
      <3>1. saved <= (MaxLineCount * resets + Lines) * MaxRate
        BY <2>2, <1>t DEF Counting
      <3>2. saved + rate <= (MaxLineCount * resets + Lines') * MaxRate
        BY <2>3, <3>1, <1>k, LinesFit
      <3>. QED BY <3>2, <2>2, <2>4
    <2>6. counter' < One * W
      <3>1. (MaxLineCount * Turns' + Lines') * MaxRate < One * W
        BY <2>1, <2>2, <2>3, <1>k, LinesFit
      <3>2. (MaxLineCount * Turns' + Lines') * MaxRate \in Int /\ One * W \in Int
        BY <2>2, <2>3, <1>k, Constants, Rates
      <3>. QED BY <2>4, <2>5, <3>1, <3>2
    <2>7. counter' <= saved'
      BY <2>4
    <2>. QED BY <2>1, <2>5, <2>6, <2>7 DEF Counting
  <1>2. CASE VBlankIN
    BY <1>2, <1>t, Constants
       DEF VBlankIN, scsp, queues, flag, ScspExec, TypeOK, Counting, Turns, Lines
  <1>3. CASE SyncCPUtoSCSP
    BY <1>3, <1>t, Constants
       DEF SyncCPUtoSCSP, scsp, queues, flag, TypeOK, Counting, Turns, Lines
  <1>4. CASE TakeFinish
    <2>1. /\ epc = "wait" /\ epc' = "go" /\ UNCHANGED <<line, resets>>
          /\ saved' = 0 /\ counter' = 0 /\ line = VBlankLineCount /\ resets <= MaxResets
      BY <1>4, <1>t DEF TakeFinish, Counting
    <2>2. Turns' = resets /\ Lines' = 1
      BY <2>1, <1>c DEF Turns, Lines
    <2>3. saved' <= (MaxLineCount * Turns' + Lines') * MaxRate
      BY <2>1, <2>2, <1>k, LinesFit
    <2>4. 0 < One * W
      BY Wholes, Constants
    <2>. QED BY <2>1, <2>3, <2>4 DEF Counting
  <1>5. CASE AddStart
    <2>1. /\ epc = "go" /\ epc' = "line" /\ UNCHANGED <<line, resets>> /\ saved = 0
          /\ saved' = saved + rate /\ counter' = saved'
          /\ line = VBlankLineCount /\ resets <= MaxResets
      BY <1>5, <1>t DEF AddStart, Count, Counting
    <2>2. Turns' = resets /\ Lines' = 1
      BY <2>1, <1>c DEF Turns, Lines
    <2>3. saved' <= (MaxLineCount * Turns' + Lines') * MaxRate
      <3>1. 0 <= (MaxLineCount * resets + 0) * MaxRate
        BY <1>k, LinesFit
      <3>2. saved + rate <= (MaxLineCount * resets + 1) * MaxRate
        BY <2>1, <3>1, <1>k, LinesFit
      <3>. QED BY <2>1, <2>2, <3>2
    <2>4. counter' < One * W
      <3>1. (MaxLineCount * Turns' + Lines') * MaxRate < One * W
        <4>1. (MaxLineCount * resets + 1) * MaxRate < One * W
          <5>1. 1 \in Int /\ 1 <= MaxLineCount /\ resets \in Int /\ resets <= MaxResets
            BY <2>1, <1>k, <1>c
          <5>. QED BY <5>1, LinesFit
        <4>. QED BY <4>1, <2>2
      <3>2. (MaxLineCount * Turns' + Lines') * MaxRate \in Int /\ One * W \in Int
        BY <2>2, <1>k, Constants, Rates
      <3>. QED BY <2>1, <2>3, <3>1, <3>2, <1>k
    <2>. QED BY <2>1, <2>3, <2>4, <1>k DEF Counting
  <1>6. CASE SleepOver
    BY <1>6, <1>t, Constants
       DEF SleepOver, scsp, queues, flag, TypeOK, Counting, Turns, Lines
  <1>7. CASE ResetOver
    <2>1. /\ epc = "reset" /\ epc' = "line" /\ UNCHANGED <<resets, saved, counter>>
          /\ line' \in {line, 0} /\ resets <= MaxResets
      BY <1>7, <1>t DEF ResetOver, Counting
    <2>2. Turns' = resets /\ Turns = resets - 1
      BY <2>1 DEF Turns
    <2>3. Lines \in Int /\ Lines' \in Int /\ Lines <= MaxLineCount /\ 0 <= Lines'
      <3>1. line \in Nat /\ line < MaxLineCount
        BY <1>k, <1>c
      <3>2. Lines \in Int /\ Lines <= MaxLineCount /\ 0 <= Lines
        BY <2>1, <3>1, <1>c DEF Lines
      <3>3. CASE line' = line
        BY <2>1, <3>2, <3>3 DEF Lines
      <3>4. CASE line' = 0
        <4>1. Lines' = MaxLineCount - VBlankLineCount + 1
          BY <2>1, <3>4, <1>c DEF Lines
        <4>. QED BY <4>1, <3>2, <1>c
      <3>. QED BY <2>1, <3>2, <3>3, <3>4
    <2>4. saved <= (MaxLineCount * (resets - 1) + Lines) * MaxRate
      BY <2>2, <1>t DEF Counting
    <2>5. saved' <= (MaxLineCount * Turns' + Lines') * MaxRate
      BY <2>1, <2>2, <2>3, <2>4, <1>k, LinesFit
    <2>. QED BY <2>1, <2>5, <1>t DEF Counting
  <1>8. CASE AddQuit
    BY <1>8, <1>t, Constants DEF AddQuit, scsp, flag, TypeOK, Counting, Turns, Lines
  <1>9. CASE Join
    BY <1>9, <1>t, Constants
       DEF Join, scsp, queues, flag, TypeOK, Counting, Turns, Lines
  <1>10. CASE Top
    BY <1>10, <1>t, Constants
       DEF Top, emu, queues, flag, TypeOK, Counting, Turns, Lines
  <1>11. CASE Unlocked
    BY <1>11, <1>t, Constants
       DEF Unlocked, emu, queues, flag, TypeOK, Counting, Turns, Lines
  <1>12. CASE Read
    BY <1>12, <1>t, Constants
       DEF Read, emu, queues, flag, TypeOK, Counting, Turns, Lines
  <1>13. CASE Sample
    BY <1>13, <1>t, Constants
       DEF Sample, emu, queues, flag, TypeOK, Counting, Turns, Lines
  <1>14. CASE EndSlice
    BY <1>14, <1>t, Constants
       DEF EndSlice, emu, queues, flag, TypeOK, Counting, Turns, Lines
  <1>15. CASE AddFinish
    BY <1>15, <1>t, Constants DEF AddFinish, emu, flag, TypeOK, Counting, Turns, Lines
  <1>16. CASE TakeStart
    BY <1>16, <1>t, Constants DEF TakeStart, emu, flag, TypeOK, Counting, Turns, Lines
  <1>17. CASE Reset
    BY <1>17, <1>t, Constants DEF Reset, scsp, queues, TypeOK, Counting, Turns, Lines
  <1>18. CASE ScspDeInit
    BY <1>18, <1>t, Constants
       DEF ScspDeInit, scsp, queues, TypeOK, Counting, Turns, Lines
  <1>19. CASE Restart
    BY <1>19, <1>t, Constants DEF Restart, scsp, TypeOK, Counting, Turns, Lines
  <1>20. CASE ScspMuteAudio
    BY <1>20, <1>t, Constants
       DEF ScspMuteAudio, emu, scsp, queues, TypeOK, Counting, Turns, Lines
  <1>21. CASE ScspUnMuteAudio
    BY <1>21, <1>t, Constants
       DEF ScspUnMuteAudio, emu, scsp, queues, TypeOK, Counting, Turns, Lines
  <1>22. CASE UNCHANGED vars
    BY <1>22, <1>t, Constants
       DEF vars, emu, scsp, queues, flag, TypeOK, Counting, Turns, Lines
  <1>. QED BY <1>1, <1>2, <1>3, <1>4, <1>5, <1>6, <1>7, <1>8, <1>9, <1>10, <1>11,
           <1>12, <1>13, <1>14, <1>15, <1>16, <1>17, <1>18, <1>19, <1>20, <1>21,
           <1>22
           DEF Next, EmuNext, ScspNext

\* The thread keeps the count.
LEMMA SamplingStep == IInv /\ [Next]_vars => Sampling'
  <1> SUFFICES ASSUME IInv, [Next]_vars PROVE Sampling'
    OBVIOUS
  <1>t. TypeOK /\ Meeting /\ Sampling
    BY DEF IInv
  <1>k. /\ frame \in Aligned /\ frame \in Nat /\ frame + SampleCycles \in Aligned
        /\ frame < FrameCycles /\ frame + SampleCycles <= FrameCycles /\ inc \in 0..(W - 1)
        /\ pre \in 0..(W - 1) /\ counter \in Nat /\ saved \in Nat /\ rate \in Nat
        /\ Whole(counter) \in Nat /\ Whole(counter) < W
    <2>1. /\ frame \in Aligned /\ frame < FrameCycles /\ inc \in 0..(W - 1)
          /\ pre \in 0..(W - 1) /\ counter \in Nat /\ saved \in Nat /\ rate \in PerLineRates
      BY <1>t, Constants DEF TypeOK, Sampling
    <2>2. counter < One * W
      BY DEF IInv, Counting
    <2>. QED BY <2>1, <2>2, Samples, Wholes, Constants
  <1>c. /\ SampleCycles \in Nat /\ 0 < SampleCycles /\ FrameCycles \in Nat
        /\ W \in Nat /\ FrameCycles < W
    BY Constants
  <1>1. CASE EndLine
    <2>1. /\ epc = "line" /\ ScspExec /\ counter' = saved + rate
          /\ counter <= saved /\ epc' = "line"
      BY <1>1 DEF IInv, Counting, EndLine, Count
    <2>2. Whole(counter) <= Whole(counter') /\ Whole(counter') \in Nat
      BY <2>1, <1>k, Wholes
    <2>3. CASE running
      BY <2>1, <2>2, <2>3, <1>t, <1>k DEF ScspExec, scsp, Sampling
    <2>4. CASE ~running
      BY <2>1, <2>2, <2>4, <1>c, Samples DEF ScspExec, Sampling
    <2>. QED BY <2>3, <2>4
  <1>2. CASE VBlankIN
    <2>1. epc = "line" /\ ScspExec /\ Whole(counter') = FrameCycles /\ epc' = "vblank"
      BY <1>2, Wholes DEF VBlankIN
    <2>2. CASE running
      <3>1. UNCHANGED <<spc, pre, inc, frame, running>>
        BY <2>1, <2>2 DEF ScspExec, scsp
      <3>2. spc \in {"top", "lock", "spin"} => pre <= FrameCycles
        BY <1>t, <1>k, <1>c DEF Sampling
      <3>. QED BY <2>1, <3>1, <3>2, <1>t, <1>k, <1>c DEF Sampling
    <2>3. CASE ~running
      BY <2>1, <2>3, <1>c, Samples DEF ScspExec, Sampling
    <2>. QED BY <2>2, <2>3
  <1>3. CASE SyncCPUtoSCSP
    BY <1>3, <1>t, <1>c
       DEF SyncCPUtoSCSP, scsp, queues, flag, TypeOK, Meeting, Sampling
  <1>4. CASE TakeFinish
    BY <1>4, <1>t, <1>c DEF TakeFinish, scsp, flag, TypeOK, Meeting, Sampling
  <1>5. CASE AddStart
    BY <1>5, <1>t, <1>c DEF AddStart, scsp, flag, Count, TypeOK, Meeting, Sampling
  <1>6. CASE SleepOver
    BY <1>6, <1>t, <1>c DEF SleepOver, scsp, queues, flag, TypeOK, Meeting, Sampling
  <1>7. CASE ResetOver
    BY <1>7, <1>t, <1>c DEF ResetOver, scsp, queues, TypeOK, Meeting, Sampling
  <1>8. CASE AddQuit
    BY <1>8, <1>t, <1>c DEF AddQuit, scsp, flag, TypeOK, Meeting, Sampling
  <1>9. CASE Join
    BY <1>9, <1>t, <1>c DEF Join, scsp, queues, flag, TypeOK, Meeting, Sampling
  <1>10. CASE Top
    BY <1>10, <1>t, <1>c DEF Top, emu, queues, flag, TypeOK, Meeting, Sampling
  <1>11. CASE Unlocked
    BY <1>11, <1>t, <1>c DEF Unlocked, emu, queues, flag, TypeOK, Meeting, Sampling
  <1>12. CASE Read
    <2>1. /\ spc = "spin" /\ spc' = "slice" /\ UNCHANGED <<frame, epc, running, counter>>
          /\ inc' = Plus(inc, Minus(Whole(counter), pre)) /\ pre' = Whole(counter)
      BY <1>12 DEF Read, emu
    <2>2. frame + inc \in {pre, pre + W}
      BY <2>1, <1>t DEF Sampling
    <2>3. frame + inc' \in {pre', pre' + W}
      BY <2>1, <2>2, <1>k, <1>c, ReadCounts
    <2>4. Whole(counter') = Whole(counter)
      BY <2>1
    <2>. QED BY <2>1, <2>3, <2>4, <1>k DEF Sampling
  <1>13. CASE Sample
    <2>1. /\ spc = "slice" /\ inc' = inc - SampleCycles /\ UNCHANGED <<pre, epc, running>>
          /\ Whole(counter') = Whole(counter) /\ frame + inc \in {pre, pre + W}
      BY <1>13, <1>t DEF Sample, emu, Sampling
    <2>2. CASE frame + SampleCycles = FrameCycles
      <3>1. frame' = 0 /\ spc' = "finish"
        BY <1>13, <2>2, <1>k, <1>c DEF Sample
      <3>. QED BY <3>1, Samples DEF Sampling
    <2>3. CASE frame + SampleCycles < FrameCycles
      <3>1. frame' = frame + SampleCycles /\ spc' = "slice"
        BY <1>13, <2>3, <1>k, <1>c DEF Sample
      <3>2. frame' + inc' = frame + inc
        BY <2>1, <3>1, <1>k, <1>c
      <3>. QED BY <2>1, <3>1, <3>2, <1>t, <1>k DEF Sampling
    <2>. QED BY <2>2, <2>3, <1>k, <1>c
  <1>14. CASE EndSlice
    <2>1. /\ spc = "slice" /\ inc < SampleCycles /\ spc' = "top"
          /\ UNCHANGED <<pre, inc, frame, epc, running>>
          /\ Whole(counter') = Whole(counter) /\ frame + inc \in {pre, pre + W}
      BY <1>14, <1>t DEF EndSlice, emu, Sampling
    <2>2. ~(FrameCycles <= pre)
      BY <2>1, <1>k, <1>c
    <2>. QED BY <2>1, <2>2, <1>t DEF Sampling
  <1>15. CASE AddFinish
    BY <1>15, <1>t, <1>c DEF AddFinish, emu, flag, TypeOK, Meeting, Sampling
  <1>16. CASE TakeStart
    <2>1. /\ spc = "await" /\ spc' = "top" /\ UNCHANGED <<pre, inc, frame, counter>>
          /\ frame = 0 /\ pre = 0 /\ inc = 0
      BY <1>16, <1>t DEF TakeStart, Sampling
    <2>2. Whole(counter') \in Nat
      BY <2>1, <1>k
    <2>. QED BY <2>1, <2>2, <1>k, <1>c DEF Sampling
  <1>17. CASE Reset
    BY <1>17, <1>t, <1>c DEF Reset, scsp, queues, TypeOK, Meeting, Sampling
  <1>18. CASE ScspDeInit
    BY <1>18, <1>t, <1>c DEF ScspDeInit, scsp, queues, TypeOK, Meeting, Sampling
  <1>19. CASE Restart
    BY <1>19, <1>t, <1>c DEF Restart, scsp, TypeOK, Meeting, Sampling
  <1>20. CASE ScspMuteAudio
    BY <1>20, <1>t, <1>c
       DEF ScspMuteAudio, emu, scsp, queues, TypeOK, Meeting, Sampling
  <1>21. CASE ScspUnMuteAudio
    BY <1>21, <1>t, <1>c
       DEF ScspUnMuteAudio, emu, scsp, queues, TypeOK, Meeting, Sampling
  <1>22. CASE UNCHANGED vars
    BY <1>22, <1>t, <1>c DEF vars, emu, scsp, queues, flag, TypeOK, Meeting, Sampling
  <1>. QED BY <1>1, <1>2, <1>3, <1>4, <1>5, <1>6, <1>7, <1>8, <1>9, <1>10, <1>11,
           <1>12, <1>13, <1>14, <1>15, <1>16, <1>17, <1>18, <1>19, <1>20, <1>21,
           <1>22
           DEF Next, EmuNext, ScspNext

\* The first state.
LEMMA InitIInv == Init => IInv
  <1> SUFFICES ASSUME Init PROVE IInv
    OBVIOUS
  <1>c. /\ MaxLineCount \in Nat /\ VBlankLineCount \in Nat /\ 0 < VBlankLineCount
        /\ VBlankLineCount < MaxLineCount /\ MaxResets \in Nat /\ W \in Nat /\ 0 < W
        /\ FrameCycles \in Nat /\ 0 < FrameCycles
    BY Constants
  <1>1. TypeOK
    <2>1. /\ 0 \in 0..(MaxLineCount - 1) /\ 0 \in 0..(W - 1)
          /\ 0 \in 0..(FrameCycles - 1) /\ 0 \in Nat
      BY <1>c
    <2>. QED BY <2>1 DEF Init, TypeOK
  <1>2. Meeting
    BY DEF Init, Meeting
  <1>3. Counting
    <2>1. Turns = 0 /\ Lines \in Nat
      BY <1>c DEF Init, Turns, Lines
    <2>2. 0 <= (MaxLineCount * Turns + Lines) * MaxRate
      BY <2>1, LinesFit
    <2>3. 0 < One * W
      BY Constants
    <2>. QED BY <2>2, <2>3, <1>c DEF Init, Counting
  <1>4. Sampling
    BY Samples DEF Init, Sampling
  <1>. QED BY <1>1, <1>2, <1>3, <1>4 DEF IInv

\* The inductive invariant holds.
THEOREM Invariance == Spec => []IInv
  <1>1. IInv /\ [Next]_vars => IInv'
    BY TypeStep, MeetingStep, CountingStep, SamplingStep DEF IInv
  <1>. QED BY <1>1, InitIInv, PTL DEF Spec

\* TypeOK for every rate, frame and number of resets: in particular what the thread
\* has read and what it still has to make stay within the width of the
\* differences of scsp_update_thread.
THEOREM TypeCorrect == Spec => []TypeOK
  <1>1. IInv => TypeOK
    BY DEF IInv
  <1>. QED BY <1>1, Invariance, PTL

\* FramesMeet: the codes of q_scsp_finish and q_scsp_frame_start are there only for a
\* thread that has not gone on, also over a reset, a mute and a ScspDeInit, so
\* that a queue of one place always takes the code that is added.
THEOREM FramesAlwaysMeet == Spec => []FramesMeet
  <1>1. IInv => FramesMeet
    BY DEF IInv, TypeOK, Meeting, FramesMeet
  <1>. QED BY <1>1, Invariance, PTL

\* CyclesCounted: m68k_inc is what is between the count last read and the samples
\* made, up to 2^64, and the difference wraps around only at the end of a frame.
THEOREM CyclesAreCounted == Spec => []CyclesCounted
  <1>1. ASSUME IInv PROVE CyclesCounted
    <2>1. counter \in Nat /\ Whole(counter) \in Nat /\ pre \in Nat
      <3>1. counter \in Nat /\ pre \in 0..(W - 1)
        BY <1>1 DEF IInv, TypeOK
      <3>. QED BY <3>1, Wholes, Constants
    <2>2. Sampling
      BY <1>1 DEF IInv
    <2>3. spc = "spin" /\ Whole(counter) < pre /\ running => epc = "wait"
      BY <2>1, <2>2 DEF Sampling
    <2>4. spc \in {"top", "lock", "spin", "slice"} => frame + inc \in {pre, pre + W}
      BY <2>2 DEF Sampling
    <2>. QED BY <2>3, <2>4 DEF CyclesCounted
  <1>. QED BY <1>1, Invariance, PTL

=============================================================================
