------------------------------ MODULE ScspSync ------------------------------
(***************************************************************************)
(* The emulation thread and the SCSP thread in the synchronous sound mode  *)
(* (g_scsp_main_mode 0).  The emulation thread counts cycles up in a       *)
(* shared counter; the SCSP thread takes differences of that counter and   *)
(* makes a sample for every SampleCycles of them.  At VBlank-IN the two    *)
(* meet: the emulation thread waits on q_scsp_finish for the end of the    *)
(* sound frame and starts the next one over q_scsp_frame_start.  Both      *)
(* queues hold one code (EventQueue shows that they are queues).           *)
(*                                                                         *)
(* g_scsp_lock is a flag that the SCSP thread looks at between its slices. *)
(* Three parties write it: a reset, the mute button of the user interface, *)
(* and ScspDeInit.  The samples themselves, the real-time mode and saved   *)
(* states are left out; the ten slices of a line are taken as one.         *)
(***************************************************************************)
EXTENDS Integers

CONSTANTS
  SampleCycles,  \* 256: cycles for a sample
  FrameCycles,   \* 188160: cycles for a sound frame, a 60th of a second
  One,           \* 2^20: the counter has SCSP_FRACTIONAL_BITS binary places
  W,             \* 2^64: the width of the differences
  PerLineRates,  \* what the counter gains in a line: NTSC, PAL, and 0 when the
                 \* old sound core is used
  MaxLineCount,  \* 263: the lines of a frame
  VBlankLineCount, \* 225: the line of VBlank-IN
  MaxResets,     \* bound: resets, a change of the clock included
  MaxMutes,      \* bound: times the mute button is pressed
  MaxRestarts    \* bound: times the emulator is set up again

ASSUME CyclesAssumption ==
  /\ {SampleCycles, FrameCycles, W, MaxResets, MaxMutes, MaxRestarts} \subseteq Nat
  /\ One \in Nat \ {0, 1}
  /\ PerLineRates \subseteq Nat
  /\ 0 < SampleCycles /\ SampleCycles <= FrameCycles /\ FrameCycles < W
  /\ \E n \in 1..FrameCycles : FrameCycles = n * SampleCycles
ASSUME LinesAssumption ==
  /\ VBlankLineCount \in Nat \ {0} /\ MaxLineCount \in Nat
  /\ VBlankLineCount < MaxLineCount
\* What the lines between two meetings add, a frame of them and one more for each
\* reset, is within the width: a frame adds some 2^38 to a counter of 2^64.
ASSUME WidthAssumption ==
  \A r \in PerLineRates : MaxLineCount * (MaxResets + 1) * r < One * W

VARIABLES
  epc,      \* where the emulation thread is
  line,     \* LineCount
  rate,     \* what the counter gains in a line
  saved,    \* saved_m68k_cycles
  counter,  \* m68k_counter
  finish,   \* codes in q_scsp_finish
  start,    \* codes in q_scsp_frame_start
  running,  \* thread_running
  lock,     \* g_scsp_lock
  spc,      \* where the SCSP thread is
  pre,      \* pre_m68k_cycle: the count the thread has read last
  inc,      \* m68k_inc: cycles it has still to make samples for
  frame,    \* cycles of the sound frame it has made samples for
  resets, mutes, restarts

emu == <<epc, line, rate, saved, resets, restarts>>
scsp == <<spc, pre, inc, frame>>
queues == <<finish, start>>
flag == <<lock, mutes>>
vars == <<emu, scsp, queues, flag, counter, running>>

Whole(c) == c \div One     \* the integer part of the counter

Init ==
  /\ epc = "line" /\ line = 0 /\ rate \in PerLineRates
  /\ saved = 0 /\ counter = 0
  /\ finish = 0 /\ start = 0
  /\ running = FALSE /\ lock = 0
  /\ spc = "off" /\ pre = 0 /\ inc = 0 /\ frame = 0
  /\ resets = 0 /\ mutes = 0 /\ restarts = 0

-----------------------------------------------------------------------------
(* The emulation thread *)

\* ScspExec at each HBlank-OUT: the thread is started when it does not run
ScspExec ==
  IF running THEN UNCHANGED <<running, scsp>>
  ELSE /\ running' = TRUE
       /\ spc' = "top" /\ pre' = 0 /\ inc' = 0 /\ frame' = 0

\* the end of a slice of YabauseEmulate: the counter goes on
Count ==
  /\ saved' = saved + rate
  /\ counter' = saved'

\* a line ends without a blank that begins
EndLine ==
  /\ epc = "line" /\ line + 1 # VBlankLineCount
  /\ line' = (line + 1) % MaxLineCount
  /\ ScspExec
  /\ Count
  /\ UNCHANGED <<epc, rate, resets, restarts, queues, flag>>

\* the line of VBlank-IN: the counter shows a whole frame
VBlankIN ==
  /\ epc = "line" /\ line + 1 = VBlankLineCount
  /\ line' = line + 1
  /\ ScspExec
  /\ counter' = FrameCycles * One
  /\ epc' = "vblank"
  /\ UNCHANGED <<rate, saved, resets, restarts, queues, flag>>

\* SyncCPUtoSCSP: the counter shows next to nothing, and the thread waits
SyncCPUtoSCSP ==
  /\ epc = "vblank"
  /\ counter' = 1
  /\ epc' = "wait"
  /\ UNCHANGED <<line, rate, saved, resets, restarts, scsp, queues, flag, running>>

TakeFinish ==
  /\ epc = "wait" /\ finish = 1
  /\ finish' = 0
  /\ saved' = 0
  /\ counter' = 0
  /\ epc' = "go"
  /\ UNCHANGED <<line, rate, resets, restarts, scsp, start, flag, running>>

\* the next sound frame is started, and the slice of VBlank-IN counts too
AddStart ==
  /\ epc = "go" /\ start = 0
  /\ start' = 1
  /\ Count
  /\ epc' = "line"
  /\ UNCHANGED <<line, rate, resets, restarts, scsp, finish, flag, running>>

\* ScspReset, from a reset or a change of the clock: the flag, a sleep, the
\* reset of the state the SCSP thread works on, the flag again
Reset ==
  /\ epc = "line" /\ resets < MaxResets
  /\ resets' = resets + 1
  /\ lock' = 1
  /\ epc' = "sleep"
  /\ UNCHANGED <<line, rate, saved, restarts, scsp, queues, mutes, counter, running>>

\* the thread cannot go on by itself: it waits for the flag, for the counter,
\* or for a code
AtRest ==
  \/ spc = "off"
  \/ spc = "lock" /\ lock = 1
  \/ spc = "spin" /\ Whole(counter) = pre /\ running
  \/ spc = "await" /\ start = 0

\* timing: the sleep of 100 ms is longer than what the thread has left to do
SleepOver ==
  /\ epc = "sleep"
  /\ AtRest
  /\ epc' = "reset"
  /\ UNCHANGED <<line, rate, saved, resets, restarts, scsp, queues, flag, counter, running>>

\* a change of the clock also begins the frame again
ResetOver ==
  /\ epc = "reset"
  /\ lock' = 0
  /\ line' \in {line, 0}
  /\ epc' = "line"
  /\ UNCHANGED <<rate, saved, resets, restarts, scsp, queues, mutes, counter, running>>

\* mutant: the thread is not told
MutScspDeInit ==
  /\ epc = "line" /\ line = 0 /\ restarts < MaxRestarts
  /\ lock' = 0
  /\ running' = FALSE
  /\ epc' = "join"
  /\ UNCHANGED <<line, rate, saved, resets, restarts, scsp, queues, mutes, counter>>

\* ScspDeInit, between two frames
ScspDeInit ==
  /\ epc = "line" /\ line = 0 /\ restarts < MaxRestarts
  /\ lock' = 0
  /\ running' = FALSE
  /\ epc' = "quit"
  /\ UNCHANGED <<line, rate, saved, resets, restarts, scsp, queues, mutes, counter>>

AddQuit ==
  /\ epc = "quit" /\ start = 0
  /\ start' = 1
  /\ epc' = "join"
  /\ UNCHANGED <<line, rate, saved, resets, restarts, scsp, finish, flag, counter, running>>

\* YabThreadWait returns when the thread is over or was never started
Join ==
  /\ epc = "join" /\ spc = "off"
  /\ epc' = "stopped"
  /\ UNCHANGED <<line, rate, saved, resets, restarts, scsp, queues, flag, counter, running>>

\* YabauseInit: new queues and a new counter; saved_m68k_cycles stays
Restart ==
  /\ epc = "stopped"
  /\ restarts' = restarts + 1
  /\ finish' = 0 /\ start' = 0
  /\ counter' = 0
  /\ lock' = 0 /\ running' = FALSE
  /\ rate' \in PerLineRates
  /\ line' = 0
  /\ epc' = "line"
  /\ UNCHANGED <<saved, resets, scsp, mutes>>

-----------------------------------------------------------------------------
(* The user interface *)

ScspMuteAudio ==
  /\ mutes < MaxMutes
  /\ mutes' = mutes + 1
  /\ lock' = 1
  /\ UNCHANGED <<emu, scsp, queues, counter, running>>

ScspUnMuteAudio ==
  /\ mutes > 0 /\ lock = 1
  /\ lock' = 0
  /\ UNCHANGED <<emu, scsp, queues, mutes, counter, running>>

-----------------------------------------------------------------------------
(* The SCSP thread *)

Top ==
  /\ spc = "top"
  /\ spc' = IF running THEN "lock" ELSE "off"
  /\ UNCHANGED <<emu, pre, inc, frame, queues, flag, counter, running>>

\* while (g_scsp_lock) sleep
Unlocked ==
  /\ spc = "lock" /\ lock = 0
  /\ spc' = "spin"
  /\ UNCHANGED <<emu, pre, inc, frame, queues, flag, counter, running>>

\* mutant: a count that is behind adds nothing
MutMinus(a, b) == IF a >= b THEN a - b ELSE 0

\* a difference of two counts, and a sum, in W values
Minus(a, b) == IF a >= b THEN a - b ELSE a - b + W
Plus(a, b) == IF a + b < W THEN a + b ELSE a + b - W

\* the thread reads the counter until it has changed or the end is near
Read ==
  /\ spc = "spin"
  /\ Whole(counter) # pre \/ ~running
  /\ inc' = Plus(inc, Minus(Whole(counter), pre))
  /\ pre' = Whole(counter)
  /\ spc' = "slice"
  /\ UNCHANGED <<emu, frame, queues, flag, counter, running>>

\* mutant: the frame ends one sample late
MutSample ==
  /\ spc = "slice" /\ inc >= SampleCycles
  /\ inc' = inc - SampleCycles
  /\ IF frame + SampleCycles > FrameCycles
       THEN frame' = frame + SampleCycles - FrameCycles /\ spc' = "finish"
       ELSE frame' = frame + SampleCycles /\ spc' = "slice"
  /\ UNCHANGED <<emu, pre, queues, flag, counter, running>>

\* a sample; the last one of a frame ends the slice
Sample ==
  /\ spc = "slice" /\ inc >= SampleCycles
  /\ inc' = inc - SampleCycles
  /\ IF frame + SampleCycles >= FrameCycles
       THEN frame' = frame + SampleCycles - FrameCycles /\ spc' = "finish"
       ELSE frame' = frame + SampleCycles /\ spc' = "slice"
  /\ UNCHANGED <<emu, pre, queues, flag, counter, running>>

EndSlice ==
  /\ spc = "slice" /\ inc < SampleCycles
  /\ spc' = "top"
  /\ UNCHANGED <<emu, pre, inc, frame, queues, flag, counter, running>>

\* mutant: the count read last goes into the next frame
MutAddFinishPre ==
  /\ spc = "finish" /\ finish = 0
  /\ finish' = 1
  /\ pre' = pre /\ inc' = 0
  /\ spc' = "await"
  /\ UNCHANGED <<emu, frame, start, flag, counter, running>>

\* mutant: the thread goes on without a start
MutAddFinishOn ==
  /\ spc = "finish" /\ finish = 0
  /\ finish' = 1
  /\ pre' = 0 /\ inc' = 0
  /\ spc' = "top"
  /\ UNCHANGED <<emu, frame, start, flag, counter, running>>

\* the end of a sound frame: what is left of the cycles is dropped
AddFinish ==
  /\ spc = "finish" /\ finish = 0
  /\ finish' = 1
  /\ pre' = 0 /\ inc' = 0
  /\ spc' = "await"
  /\ UNCHANGED <<emu, frame, start, flag, counter, running>>

TakeStart ==
  /\ spc = "await" /\ start = 1
  /\ start' = 0
  /\ spc' = "top"
  /\ UNCHANGED <<emu, pre, inc, frame, finish, flag, counter, running>>

-----------------------------------------------------------------------------
EmuNext ==
  \/ EndLine \/ VBlankIN \/ SyncCPUtoSCSP \/ TakeFinish \/ AddStart
  \/ SleepOver \/ ResetOver \/ AddQuit \/ Join

ScspNext ==
  \/ Top \/ Unlocked \/ Read \/ Sample \/ EndSlice \/ AddFinish \/ TakeStart

Next ==
  \/ EmuNext \/ ScspNext
  \/ Reset \/ ScspDeInit \/ Restart
  \/ ScspMuteAudio \/ ScspUnMuteAudio

Spec == Init /\ [][Next]_vars

\* both threads run; the user need not press a button
FairSpec == Spec /\ WF_vars(EmuNext) /\ WF_vars(ScspNext)

-----------------------------------------------------------------------------
(* Properties *)

\* the type of the state
TypeOK ==
  /\ epc \in {"line", "vblank", "wait", "go", "sleep", "reset", "quit", "join",
              "stopped"}
  /\ line \in 0..(MaxLineCount - 1) /\ rate \in PerLineRates
  /\ saved \in Nat /\ counter \in Nat
  /\ finish \in {0, 1} /\ start \in {0, 1}
  /\ running \in BOOLEAN /\ lock \in {0, 1}
  /\ spc \in {"off", "top", "lock", "spin", "slice", "finish", "await"}
  /\ pre \in 0..(W - 1) /\ inc \in 0..(W - 1) /\ frame \in 0..(FrameCycles - 1)
  /\ resets \in Nat /\ mutes \in Nat /\ restarts \in Nat

\* No cycle is lost or counted twice within a sound frame, in whatever steps the
\* thread reads the counter and also when the difference wraps around: what it
\* has made samples for and what it still has to make is the count it has read,
\* up to the width of the differences.  A difference wraps around only to end a
\* sound frame: the counter is behind what the thread has read only when the
\* emulation thread already waits for that frame.
CyclesCounted ==
  /\ spc \in {"top", "lock", "spin", "slice"} => frame + inc \in {pre, pre + W}
  /\ spc = "spin" /\ Whole(counter) < pre /\ running => epc = "wait"

\* A frame of one thread is a frame of the other: a code that says finished is
\* there only while the thread has not gone on, and one that says start only
\* while it has not begun, so that neither queue of one place is ever full when
\* a code is added.
FramesMeet ==
  /\ finish = 1 /\ running => spc = "await" /\ start = 0
  /\ start = 1 /\ running => spc = "await" /\ epc # "go"
  /\ spc = "finish" => finish = 0
  /\ epc = "go" => start = 0

\* the thread has seen no cycle of this frame, and the count it waits to see
\* change does not change any more
Missed == spc = "spin" /\ pre = 0 /\ inc = 0 /\ frame = 0

\* Frames follow each other: the emulation thread that waits for the sound frame
\* gets it, unless sound is muted for good or the thread saw not one sample's
\* cycles of that frame in time.
FramesGoOn == <>[](lock = 1) \/ (epc = "wait" ~> epc # "wait" \/ Missed)

\* ScspDeInit comes back, wherever the thread is when it is called.
DeInitEnds == <>[](lock = 1) \/ (epc \in {"quit", "join"} ~> epc = "stopped")
=============================================================================
