------------------------------ MODULE VdpSync -------------------------------
(***************************************************************************)
(* The emulation thread and the VDP thread of an asynchronous build        *)
(* (YAB_ASYNC_RENDERING).  The emulation thread walks the lines of a       *)
(* frame, tells the VDP thread over evqueue to draw and to end the frame,  *)
(* and waits for it: once at VBlank-IN, and at wait_line_count, the line   *)
(* where the drawing of the sprites is to be over.                         *)
(*                                                                         *)
(* The queues are bounded first-in first-out queues (EventQueue shows that *)
(* they are).  rcv, drawn and command only ever hold the code 0: each is   *)
(* the number of codes it holds.                                           *)
(***************************************************************************)
EXTENDS Integers, Sequences

CONSTANTS
  VBlankLineCount,   \* 225: the line of VBlank-IN
  MaxLineCount,      \* 263: the number of lines
  PlotDelay,         \* 45: lines for a drawing that starts with the frame
  DirectDelay,       \* 50: lines for a drawing the program starts
  AvoidLine,         \* 5: moved one line up when a DirectDelay ends there
  EvCapacity,        \* 32: capacity of evqueue
  RcvCapacity,       \* 8: capacity of rcv and of drawn
  PTMRValues,        \* the values the program writes to PTMR
  RamLines,          \* the lines on which it writes to the memory of VDP1
  MaxDirect,         \* bound: drawings the program has started that are not over
  MaxPauses,         \* bound: drawings cut off because their list is too long
  MaxStops,          \* bound: writes to ENDR
  MaxResets          \* bound: resets

ASSUME LinesAssumption ==
  /\ VBlankLineCount \in Nat \ {0}
  /\ MaxLineCount \in Nat /\ VBlankLineCount < MaxLineCount
  /\ PlotDelay \in Nat \ {0} /\ DirectDelay \in Nat /\ AvoidLine \in Nat \ {0}
ASSUME QueuesAssumption ==
  EvCapacity \in Nat \ {0} /\ RcvCapacity \in Nat \ {0}
ASSUME ProgramAssumption ==
  /\ PTMRValues \subseteq 0..2 /\ RamLines \subseteq Nat
  /\ MaxDirect \in Nat /\ MaxStops \in Nat /\ MaxResets \in Nat
  /\ MaxPauses \in Nat

Lines == 0..MaxLineCount-1

VARIABLES
  epc,        \* where the emulation thread is
  line,       \* LineCount
  wait,       \* wait_line_count, -1 when there is none
  load,       \* what the emulation thread read of it, on its way to add to it
  rendered,   \* frame_render_flg
  clock,      \* vdp1_clock > 0
  fbcr,       \* the frame change mode
  ptmr,       \* the plot trigger mode
  manual,     \* manualchange
  stops,      \* the number of writes to ENDR
  resets,     \* the number of resets
  pauses,     \* the number of drawings cut off
  swap,       \* swap_frame_buffer
  plot,       \* frame_change_plot
  drawing,    \* status is VDP1_STATUS_RUNNING
  cef,        \* the current-end flag of EDSR
  evqueue,    \* the events for the VDP thread
  rcv,        \* rcv_evqueue: VBlank-IN is done
  drawn,      \* vdp1_rcv_evqueue: a drawing is done
  command,    \* command_: the context is handed over
  vpc,        \* where the VDP thread is
  cause,      \* why it draws
  seen        \* what it read of wait_line_count

bounds    == <<stops, resets, pauses>>
emulation == <<line, wait, load, rendered, clock, fbcr, ptmr, manual, bounds>>
flags     == <<swap, plot, drawing, cef>>
queues    == <<evqueue, rcv, drawn, command>>
vdp       == <<vpc, cause, seen>>
vars      == <<epc, emulation, flags, queues, vdp>>

Start ==
  /\ epc = "run" /\ line = 0 /\ wait = -1 /\ load = -1
  /\ rendered = FALSE /\ clock = FALSE
  /\ fbcr = "cycle" /\ ptmr = 0 /\ manual = FALSE
  /\ stops = 0 /\ resets = 0 /\ pauses = 0
  /\ swap = FALSE /\ plot = FALSE /\ drawing = FALSE
  /\ evqueue = << >> /\ rcv = 0 /\ drawn = 0 /\ command = 0
  /\ vpc = "wait" /\ cause = "none" /\ seen = -1

\* nothing clears EDSR before the first drawing: the memset of Vdp1Init stops
\* short of it
Init == Start /\ cef \in BOOLEAN

\* mutant: the wait is not brought back into the frame
MutDirect(l) == l + DirectDelay

Defer(l)  == (l + PlotDelay) % VBlankLineCount
Direct(l) ==
  LET w == (l + DirectDelay) % MaxLineCount
  IN  IF w = AvoidLine THEN AvoidLine - 1 ELSE w

Send(e) == Len(evqueue) < EvCapacity /\ evqueue' = Append(evqueue, e)

-----------------------------------------------------------------------------
(* The emulation thread: the program writes to VDP1. *)

WriteFBCR(m) ==
  /\ epc = "run"
  /\ fbcr' = m
  /\ manual' = (manual \/ m = "change")
  /\ UNCHANGED <<epc, line, wait, load, rendered, clock, ptmr, bounds, flags,
                 queues, vdp>>

WritePTMR(v) ==
  /\ epc = "run" /\ v # 1
  /\ ptmr' = v
  /\ UNCHANGED <<epc, line, wait, load, rendered, clock, fbcr, manual, bounds,
                 flags, queues, vdp>>

\* the drawings the program has started that are not over
InFlight ==
  Len(SelectSeq(evqueue, LAMBDA e : e = "DIRECT_DRAW"))
    + (IF cause = "direct" THEN 1 ELSE 0)

\* PTMR = 1 starts a drawing; codes of earlier ones are thrown away first
WritePTMR1 ==
  /\ epc = "run" /\ InFlight < MaxDirect
  /\ ptmr' = 1
  /\ IF drawn > 0 THEN wait' = -1 /\ epc' = "drain"
                  ELSE wait' = wait /\ epc' = "trigger"
  /\ UNCHANGED <<line, load, rendered, clock, fbcr, manual, bounds, flags,
                 queues, vdp>>

Drain ==
  /\ epc = "drain" /\ drawn > 0
  /\ drawn' = drawn - 1
  /\ epc' = IF drawn = 1 THEN "trigger" ELSE "drain"
  /\ UNCHANGED <<emulation, flags, evqueue, rcv, command, vdp>>

Trigger ==
  /\ epc = "trigger"
  /\ Send("DIRECT_DRAW")
  /\ cef' = FALSE
  /\ wait' = Direct(line)
  /\ epc' = "run"
  /\ UNCHANGED <<line, load, rendered, clock, fbcr, ptmr, manual, bounds, swap,
                 plot, drawing, rcv, drawn, command, vdp>>

\* a forced end; the code of a drawing that is over stays in the queue
WriteENDR ==
  /\ epc = "run" /\ stops < MaxStops
  /\ stops' = stops + 1
  /\ drawing' = FALSE
  /\ wait' = -1
  /\ UNCHANGED <<epc, line, load, rendered, clock, fbcr, ptmr, manual, resets,
                 pauses, swap, plot, cef, queues, vdp>>

\* a write to the memory of VDP1 delays the frame change
WriteRam ==
  /\ epc = "run" /\ line \in RamLines
  /\ clock' = FALSE
  /\ UNCHANGED <<epc, line, wait, load, rendered, fbcr, ptmr, manual, bounds,
                 flags, queues, vdp>>

\* an access to the frame buffer takes the lock of the video memory
TouchFrameBuffer ==
  /\ epc = "run" /\ epc' = "lockVram"
  /\ UNCHANGED <<emulation, flags, queues, vdp>>

VramLocked == vpc # "wait" /\ cause \in {"frame", "continue"}

LockVram ==
  /\ epc = "lockVram" /\ ~VramLocked
  /\ epc' = "late"
  /\ UNCHANGED <<emulation, flags, queues, vdp>>

\* Vdp1Reset and Vdp2Reset, of a clock change or of the reset button; the queue
\* that is destroyed is waited for until it has room.  The frame starts again
Reset ==
  /\ epc = "run" /\ drawn < RcvCapacity /\ resets < MaxResets
  /\ resets' = resets + 1
  /\ ptmr' = 0
  /\ clock' = FALSE
  /\ wait' = -1
  /\ rcv' = 0 /\ drawn' = 0
  /\ line' = 0
  /\ UNCHANGED <<epc, load, rendered, fbcr, manual, stops, pauses, flags,
                 evqueue, command, vdp>>

-----------------------------------------------------------------------------
(* The emulation thread: the end of a line. *)

FrameBegins == ~(line # 1 /\ rendered) /\ clock

\* the first part of Vdp2HBlankOUT decides what the frame change will do
HBlankOUT ==
  /\ epc \in {"run", "late"}
  /\ rendered' = ((line # 1 /\ rendered) \/ FrameBegins)
  /\ IF FrameBegins
       THEN /\ swap' = (swap \/ manual \/ fbcr = "cycle")
            /\ manual' = FALSE
            /\ plot' = (ptmr = 2)
            /\ epc' = "change"
       ELSE /\ UNCHANGED <<swap, manual, plot>>
            /\ epc' = "line"
  /\ UNCHANGED <<line, wait, load, clock, fbcr, ptmr, bounds, drawing, cef,
                 queues, vdp>>

\* the frame change shifts EDSR, and a drawing that starts with it is waited for
Change ==
  /\ epc = "change"
  /\ cef' = (cef /\ ~swap)
  /\ IF swap /\ plot THEN load' = wait /\ epc' = "defer"
                     ELSE load' = load /\ epc' = "vout"
  /\ UNCHANGED <<line, wait, rendered, clock, fbcr, ptmr, manual, bounds, swap,
                 plot, drawing, queues, vdp>>

DeferWait ==
  /\ epc = "defer"
  /\ wait' = Defer(load)
  /\ epc' = "vout"
  /\ UNCHANGED <<line, load, rendered, clock, fbcr, ptmr, manual, bounds,
                 flags, queues, vdp>>

SendVBlankOUT ==
  /\ epc = "vout"
  /\ Send("VBLANK_OUT")
  /\ epc' = "line"
  /\ UNCHANGED <<emulation, flags, rcv, drawn, command, vdp>>

\* the line ends; VBlank-IN or the next frame may follow
EndLine ==
  /\ clock' = TRUE
  /\ line'  = (line + 1) % MaxLineCount
  /\ epc'   = IF line + 1 = VBlankLineCount THEN "vin" ELSE "run"

\* mutant: the line of VBlank-IN is not counted
MutPassLine ==
  /\ epc = "line"
  /\ IF wait = line THEN epc' = "waitDrawn" /\ UNCHANGED <<clock, line>>
     ELSE IF line + 1 = VBlankLineCount
       THEN epc' = "vin" /\ clock' = TRUE /\ line' = line
       ELSE EndLine
  /\ UNCHANGED <<wait, load, rendered, fbcr, ptmr, manual, bounds, flags,
                 queues, vdp>>

PassLine ==
  /\ epc = "line"
  /\ IF wait = line
       THEN epc' = "waitDrawn" /\ UNCHANGED <<clock, line>>
       ELSE EndLine
  /\ UNCHANGED <<wait, load, rendered, fbcr, ptmr, manual, bounds, flags,
                 queues, vdp>>

WaitDrawn ==
  /\ epc = "waitDrawn" /\ drawn > 0
  /\ drawn' = drawn - 1
  /\ epc' = "clear"
  /\ UNCHANGED <<emulation, flags, evqueue, rcv, command, vdp>>

ClearDrawn ==
  /\ epc = "clear"
  /\ drawn' = 0
  /\ wait' = -1
  /\ cef' = (cef \/ ~drawing)
  /\ EndLine
  /\ UNCHANGED <<load, rendered, fbcr, ptmr, manual, bounds, swap, plot,
                 drawing, evqueue, rcv, command, vdp>>

\* mutant: the emulation thread does not wait for the answer
MutSendVBlankIN ==
  /\ epc = "vin"
  /\ Send("VBLANK_IN")
  /\ epc' = "run"
  /\ UNCHANGED <<emulation, flags, rcv, drawn, command, vdp>>

SendVBlankIN ==
  /\ epc = "vin"
  /\ Send("VBLANK_IN")
  /\ epc' = "waitRcv"
  /\ UNCHANGED <<emulation, flags, rcv, drawn, command, vdp>>

WaitRcv ==
  /\ epc = "waitRcv" /\ rcv > 0
  /\ rcv' = rcv - 1
  /\ epc' = "run"
  /\ UNCHANGED <<emulation, flags, evqueue, drawn, command, vdp>>

-----------------------------------------------------------------------------
(* The emulation thread, between two frames: VdpResume and VdpRevoke hand the
   graphics context over, Vdp2DeInit and Vdp2Init end and start the thread. *)

HandOver ==
  /\ epc = "run" /\ line = 0
  /\ Send("CONTEXT")
  /\ epc' = "waitCommand"
  /\ UNCHANGED <<emulation, flags, rcv, drawn, command, vdp>>

WaitCommand ==
  /\ epc = "waitCommand" /\ command > 0
  /\ command' = command - 1
  /\ epc' = "late"
  /\ UNCHANGED <<emulation, flags, evqueue, rcv, drawn, vdp>>

DeInit ==
  /\ epc = "run" /\ line = 0
  /\ Send("FINSH")
  /\ epc' = "join"
  /\ UNCHANGED <<emulation, flags, rcv, drawn, command, vdp>>

\* Vdp2Reset, which Vdp2Init calls, waits for room in the queue it destroys; what
\* is static in the program survives
Restart ==
  /\ epc = "join" /\ vpc = "stopped" /\ drawn < RcvCapacity
  /\ epc' = "run" /\ line' = 0 /\ wait' = -1
  /\ clock' = FALSE /\ fbcr' = "cycle" /\ ptmr' = 0
  /\ drawing' = FALSE /\ cef' \in BOOLEAN
  /\ evqueue' = << >> /\ rcv' = 0 /\ drawn' = 0 /\ command' = 0
  /\ vpc' = "wait" /\ cause' = "none" /\ seen' = -1
  /\ UNCHANGED <<load, rendered, manual, bounds, swap, plot>>

-----------------------------------------------------------------------------
(* The VDP thread. *)

\* VdpProc takes the next event
Receive ==
  /\ vpc = "wait" /\ evqueue # << >>
  /\ LET e == Head(evqueue) IN
       /\ vpc' = CASE e = "VBLANK_IN"   -> "vin"
                   [] e = "VBLANK_OUT"  -> "vout"
                   [] e = "DIRECT_DRAW" -> "draw"
                   [] e = "CONTEXT"     -> "context"
                   [] e = "FINSH"       -> "stopped"
       /\ cause' = CASE e = "VBLANK_OUT"  -> "frame"
                     [] e = "DIRECT_DRAW" -> "direct"
                     [] OTHER             -> "none"
  /\ evqueue' = Tail(evqueue)
  /\ UNCHANGED <<epc, emulation, flags, rcv, drawn, command, seen>>

\* vdp2VBlankIN: the picture is shown, VBlank-IN goes to the SCU
VBlankIN ==
  /\ vpc = "vin" /\ rcv < RcvCapacity
  /\ rcv' = rcv + 1
  /\ vpc' = "wait"
  /\ UNCHANGED <<epc, emulation, flags, evqueue, drawn, command, cause, seen>>

HandedOver ==
  /\ vpc = "context" /\ command < 1
  /\ command' = command + 1
  /\ vpc' = "wait"
  /\ UNCHANGED <<epc, emulation, flags, evqueue, rcv, drawn, cause, seen>>

\* vdp2VBlankOUT: the frame buffers are swapped, or a drawing goes on
\* mutant: the frame change stays asked for
MutVBlankOUT ==
  /\ vpc = "vout"
  /\ \/ swap /\ vpc' = "decide" /\ cause' = cause
     \/ ~swap /\ drawing /\ vpc' = "draw" /\ cause' = "continue"
     \/ ~swap /\ ~drawing /\ vpc' = "screens" /\ cause' = cause
  /\ UNCHANGED <<epc, emulation, flags, queues, seen>>

VBlankOUT ==
  /\ vpc = "vout"
  /\ swap' = FALSE
  /\ \/ swap /\ vpc' = "decide" /\ cause' = cause
     \/ ~swap /\ drawing /\ vpc' = "draw" /\ cause' = "continue"
     \/ ~swap /\ ~drawing /\ vpc' = "screens" /\ cause' = cause
  /\ UNCHANGED <<epc, emulation, plot, drawing, cef, queues, seen>>

Decide ==
  /\ vpc = "decide"
  /\ vpc' = IF plot \/ drawing THEN "draw" ELSE "screens"
  /\ UNCHANGED <<epc, emulation, flags, queues, cause, seen>>

Vdp1Draw ==
  /\ vpc = "draw"
  /\ drawing' = TRUE
  /\ vpc' = "drawing"
  /\ UNCHANGED <<epc, emulation, swap, plot, cef, queues, cause, seen>>

AfterDrawing ==
  vpc' = CASE cause = "direct"   -> "plotted"
           [] cause = "frame"    -> "tell"
           [] cause = "continue" -> "read"

\* the command list ends, is bad, or is cut off because EDSR says it is over
DrawingEnds ==
  /\ vpc = "drawing"
  /\ drawing' = FALSE
  /\ cef' \in {cef, TRUE}
  /\ AfterDrawing
  /\ UNCHANGED <<epc, emulation, swap, plot, queues, cause, seen>>

\* it is longer than a frame draws: the status is left as it is
DrawingPauses ==
  /\ vpc = "drawing" /\ pauses < MaxPauses /\ ~cef
  /\ pauses' = pauses + 1
  /\ AfterDrawing
  /\ UNCHANGED <<epc, line, wait, load, rendered, clock, fbcr, ptmr, manual,
                 stops, resets, flags, queues, cause, seen>>

Plotted ==
  /\ vpc = "plotted"
  /\ plot' = FALSE
  /\ vpc' = "tell"
  /\ UNCHANGED <<epc, emulation, swap, drawing, cef, queues, cause, seen>>

\* a drawing that goes on is waited for later: read, add, write
ReadWait ==
  /\ vpc = "read"
  /\ seen' = wait
  /\ vpc' = "write"
  /\ UNCHANGED <<epc, emulation, flags, queues, cause>>

WriteWait ==
  /\ vpc = "write"
  /\ wait' = Defer(seen)
  /\ seen' = -1
  /\ vpc' = "tell"
  /\ UNCHANGED <<epc, line, load, rendered, clock, fbcr, ptmr, manual, bounds,
                 flags, queues, cause>>

\* mutant: the code is left out
MutTell ==
  /\ vpc = "tell"
  /\ IF cause = "direct" THEN vpc' = "wait" /\ cause' = "none"
                         ELSE vpc' = "screens" /\ cause' = cause
  /\ UNCHANGED <<epc, emulation, flags, queues, seen>>

Tell ==
  /\ vpc = "tell" /\ drawn < RcvCapacity
  /\ drawn' = drawn + 1
  /\ IF cause = "direct" THEN vpc' = "wait" /\ cause' = "none"
                         ELSE vpc' = "screens" /\ cause' = cause
  /\ UNCHANGED <<epc, emulation, flags, evqueue, rcv, command, seen>>

\* the screens are drawn and the lock of the video memory is given back
DrawScreens ==
  /\ vpc = "screens"
  /\ vpc' = "wait" /\ cause' = "none"
  /\ UNCHANGED <<epc, emulation, flags, queues, seen>>

-----------------------------------------------------------------------------
Program ==
  \/ \E m \in {"cycle", "erase", "change"} : WriteFBCR(m)
  \/ \E v \in PTMRValues : WritePTMR(v)
  \/ 1 \in PTMRValues /\ WritePTMR1
  \/ WriteENDR \/ WriteRam \/ TouchFrameBuffer
  \/ Reset \/ HandOver \/ DeInit

Emulate ==
  \/ Drain \/ Trigger \/ LockVram
  \/ HBlankOUT \/ Change \/ DeferWait \/ SendVBlankOUT
  \/ PassLine \/ WaitDrawn \/ ClearDrawn \/ SendVBlankIN \/ WaitRcv
  \/ WaitCommand \/ Restart

Render ==
  \/ Receive \/ VBlankIN \/ HandedOver \/ VBlankOUT \/ Decide \/ Vdp1Draw
  \/ DrawingEnds \/ DrawingPauses \/ Plotted \/ ReadWait \/ WriteWait
  \/ Tell \/ DrawScreens

Next == Program \/ Emulate \/ Render

Spec == Init /\ [][Next]_vars

\* the operating system schedules both threads, and the CPU has a fixed number
\* of cycles on a line, whatever the program does on it
FairSpec ==
  Spec /\ WF_vars(Emulate) /\ SF_vars(HBlankOUT) /\ WF_vars(Render)

-----------------------------------------------------------------------------
(* Properties. *)

Waits == -1..MaxLineCount-1

(* Type correctness: a wait is for a line of the frame, and the queues hold
   no more than they can. *)
TypeOK ==
  /\ epc \in {"run", "late", "drain", "trigger", "lockVram", "change", "defer",
              "vout", "line", "waitDrawn", "clear", "vin", "waitRcv",
              "waitCommand", "join"}
  /\ line \in Lines /\ wait \in Waits /\ load \in Waits /\ seen \in Waits
  /\ {rendered, clock, manual, swap, plot, drawing, cef} \subseteq BOOLEAN
  /\ fbcr \in {"cycle", "erase", "change"} /\ ptmr \in 0..2
  /\ stops \in 0..MaxStops /\ resets \in 0..MaxResets
  /\ pauses \in 0..MaxPauses
  /\ Len(evqueue) <= EvCapacity
  /\ rcv \in 0..RcvCapacity /\ drawn \in 0..RcvCapacity /\ command \in 0..1
  /\ vpc \in {"wait", "vin", "context", "vout", "decide", "draw", "drawing",
              "plotted", "read", "write", "tell", "screens", "stopped"}
  /\ cause \in {"none", "frame", "continue", "direct"}

Sent(e) == \E i \in DOMAIN evqueue : evqueue[i] = e

(* The VDP thread sends VBlank-IN to the SCU, whose state the emulation
   thread owns: it does so only while the emulation thread is blocked, and
   the emulation thread goes on only when it is done. *)
VBlankINIsAlone ==
  (vpc = "vin" \/ rcv > 0 \/ Sent("VBLANK_IN")) => epc = "waitRcv"

(* A frame change that was asked for is on its way: the flag is up only while
   the event is being prepared, is in the queue, or is being handled. *)
SwapIsOnItsWay ==
  swap => epc \in {"change", "defer", "vout"} \/ Sent("VBLANK_OUT")
                                              \/ vpc = "vout"

\* the frame change that is under way will draw
WillDraw ==
  \/ (Sent("VBLANK_OUT") \/ vpc = "vout") /\ ((swap /\ plot) \/ drawing)
  \/ vpc = "decide" /\ (plot \/ drawing)

(* The wait at wait_line_count is for something: a code is there, or a
   drawing that will send one. *)
WaitIsAnswered ==
  epc = "waitDrawn" =>
    \/ drawn > 0 \/ Sent("DIRECT_DRAW") \/ WillDraw
    \/ vpc \in {"draw", "drawing", "plotted", "read", "write", "tell"}

(* Frame follows frame: no wait of one thread for the other is for ever. *)
FramesGoOn == []<>(line = 0) /\ (epc = "join" ~> epc = "run")

=============================================================================
