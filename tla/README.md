# Yabause (YabaSanshiro): a verification development

This directory models the core of the Sega Saturn emulator under
`src/yabause/src` in TLA+, checks the models with TLC on small instances and
proves the main results with TLAPS for every value of the constants. Paths below
are relative to `src/yabause/src` unless they start with `src/`.

## 1. Inventory

The emulator is one process. The *emulation thread* runs `YabauseEmulate`
(`yabause.c:663`): a loop over tenths of a scan line ("decilines") that gives
each device its slice in a fixed order. Other threads are the SCSP thread
(sound CPU and DSP, `scsp.cpp`), the VDP1 thread (`vdp1.cpp`), the CPU-affine
video threads, and the application's UI thread. Threads talk through the bounded event queue of
`thr-linux.cpp` and through shared memory.

| component | files | state it keeps | operations | talks to |
|---|---|---|---|---|
| SCU interrupt controller | `scu.c` | IMS, IST, AIACK, a sorted list of masked requests | one send function per source, register writes, withdrawals | every device (requests), both SH-2 (pending lists) |
| SCU DMA | `scu.c` | three channels, their factor, direct and indirect lists | start by register or by an interrupt factor, slices, end interrupt | memory bus, interrupt controller |
| SCU timers | `scu.c` | timer 0 counter, timer 1 preset and counter | HBlank, VBlank-OUT, `ScuExec` | interrupt controller |
| SCU DSP | `scu.c` | program and data RAM, ports | an instruction set | DMA, interrupt controller |
| SH-2 interrupt intake | `sh2int.c`, `sh2core.c`, `sh2_dynarec_devmiyax/DynarecSh2.cpp` | the pending list, SR.I | send, remove, accept | SCU, on-chip units |
| SH-2 on-chip units | `sh2core.c`, `sh2cache.c` | free-running timer, watchdog, two DMA channels, divider, cache | register access, a slice per `SH2Exec`, input capture | the other SH-2 |
| SH-2 instruction set | `sh2int.c`, `sh2_dynarec*`, `sh2trace.c` | registers | one function per opcode | memory |
| SMPC | `smpc.c` | command register, SF, SR, the INTBACK handshake, a command timer | register writes, `SmpcExec`, VBlank-IN, reset button | SH-2 master (NMI), slave start and stop, interrupt controller, peripherals |
| CD block | `cs2.c` | 200 blocks, 24 partitions, 24 filters, HIRQ, the data-transfer and play state machines | about 80 commands, data port, `Cs2Exec` | A-bus interrupt, CD drive back end, NetLink, MPEG card |
| Event queue | `thr-linux.cpp` | ring buffer, mutex, two condition variables | add, wait, clear, size, destroy | every thread |
| SCSP thread sync | `yabause.c`, `scsp.cpp`, `scsp2.c` | frame-start and frame-end queues, 68k cycle counter | `SyncCPUtoSCSP`, `ScspAsynMain*` | emulation thread |
| SCSP synthesis, 68k cores | `scsp.cpp`, `scsp2.c`, `m68k*`, `musashi/`, `c68k/`, `q68/` | slots, timers, registers | register access, sample generation | sound CPU |
| VDP1 | `vdp1.cpp` | frame buffers, plot trigger, erase and change modes, EDSR | register writes, command list, HBlank and VBlank | VDP1 thread, interrupt controller |
| VDP2 | `vdp2.cpp` | registers, TVSTAT, HV counters, blank flags | register access, blanking | renderers |
| Renderers | `vidsoft.c`, `vidogl.c`, `ygl*.c`, `vulkan/`, `titan/` | textures, priorities | drawing | GPU |
| Main loop, set-up, saved states | `yabause.c`, `memory.c` | clock ratios, the deciline, memory map | init, reset, emulate, save, load | everything |
| BIOS emulation | `bios.c`, `BackupManager.cpp` | backup RAM files | system calls, backup directory and block lists | SH-2, UI |
| Cheats | `cheat.c` | the cheat list | add, remove, enable, apply, save, load | UI thread, main loop |
| Movie and play recorder | `movie.c`, `PlayRecorder.cpp` | the frame counter, the pad log | record, play, seek | peripherals |
| Peripherals | `peripheral.c` | ports, pads, key table | key events, port data | SMPC |
| Cartridges | `cs0.c`, `cs1.c`, `japmodem.c`, `netlink.c` | flash, backup and RAM cartridges, modem buffers | bus access | A-bus, sockets |
| CD access | `cdbase.c`, `cd*.c` | track list, current image | read a sector, status | CD block |
| Frame pacing | `frame_limit.h` | target time | wait for the next frame | main loop |
| Ports and applications | `android/`, `ios/`, `qt/`, `gtk/`, `retro_arena/`, `libretro/` and others | UI state | menus, files, accounts | the core |

### What is hard here

* A request that finds its mask closed is stored and replayed later: order and
  loss of requests depend on register writes long after (`scu.c:3057`).
* A register write can overtake a command that has been accepted but not run yet
  (`smpc.c`, `SmpcSetTiming` to `SmpcExec`), and VBlank-IN ends a handshake that a
  program is in the middle of.
* Blocks, partitions and filters of the CD block are three views of one pool;
  a block has to be in exactly one place after any sequence of commands, also
  when a transfer is in progress.
* The threads meet in blocking queues: a wake-up that is lost stops the emulator.
* The sound thread takes differences of a counter that the emulation thread winds
  back for each frame, and a reset relies on a flag and a fixed sleep.
* A DMA level is started from inside other handlers and first runs all three to
  their end; the blanks and both timers hang on one line counter that the program
  and a change of the clock can move under them.
* The drive of the CD block writes its reports into the registers through which a
  program talks to it.

### What makes each component correct

| component | correctness |
|---|---|
| SCU interrupt controller, SH-2 intake | queues ordered by level and without repeats; the most urgent ready request is served first and once; after a look at its queue no CPU leaves a request above its mask; an acknowledge touches its own request only |
| SMPC | a clear SF means that nothing is in flight; what was accepted is answered; a Continue beats the vertical blank or came too late for it; every command ends |
| Event queue | a bounded FIFO between threads: nothing lost, repeated or overtaken, and no consumer left asleep |
| VDP synchronisation | state of one thread is touched by the other only while its owner is blocked; each wait has its answer under way; no frame change is forgotten; frames follow each other |
| CD block buffer and drive | each block is in one place and counted; a transfer reads what was asked for; partitions keep their order; no played sector is lost and a play ends while the drive has a filter |
| CD block commands | every command is answered, also behind one that goes on after its answer; a report never gets into a conversation |
| SCU DMA | every transfer that is started ends once, whatever starts the other levels |
| SCU timers, main loop | each frame has one VBlank-IN and one VBlank-OUT, timer 0 is the line, timer 1 comes in its line |
| SH-2 on-chip units | no overflow or compare match is lost between slices; a captured edge synchronises the two CPUs |
| SCSP synchronisation | cycles are counted once, also when the difference wraps round; a frame of one thread is a frame of the other; the thread stops when it is told to |
| Backup RAM, flash, cheats | directory and block lists agree after any sequence of calls |

## 2. The modules and the code

States are records with the names of the C variables where a variable of the
code is kept, and each action is a whole handler of the code. `PROJECT.json`
("map") names the lines behind each definition. Definitions whose name starts
with `Mut` are deliberate faults that the properties are tried on; no
specification uses them.

### Interrupts: `IntQueue`, `ScuIntc`, `ScuIntcMC`

`IntQueue` is the list that the emulator keeps three times: the SCU's masked
requests and the pending list of each SH-2 interpreter. All three refuse a
vector that is there, append it, and sort with the same two nested loops, which
are not stable. `SortIn` is the closed form of append and sort for an ordered
queue; `ScuIntcMC` compares it with the loops for every queue of up to five
entries on four levels (an `ASSUME`, which TLC evaluates).

`ScuIntc` keeps IMS, IST, AIACK, the queue and both pending lists in one record
`intc`, and SR.I of both CPUs. Its operators (`SendInterrupt`,
`ScuTestInterruptMask`, ...) are functions on that record, so that handlers of
other components can be composed from them.

| action | code |
|---|---|
| `Raise(v)` | every `ScuSend...` function, through `SendInterrupt` (`scu.c`) |
| `RemoveTimer`, `RemoveVBlankIN` | `ScuRemoveTimer0`, `ScuRemoveTimer1`, `ScuRemoveVBlankIN` |
| `WriteIMS`, `WriteIST`, `WriteAIACK` | `ScuWriteLong` and `ScuWriteByte`, each with the replay of `ScuTestInterruptMask` that ends it |
| `HandleMaster`, `HandleSlave` | `SH2HandleInterrupts` at the start of a slice |
| `LdcSRMaster`, `LdcSRSlave` | an instruction that loads SR, which looks at the queue too |
| `StartSlave`, `StopSlave` | `YabauseStartSlave`, `YabauseStopSlave` |
| `SendNMI`, `ClockChange` | NMIREQ, CKCHG352 and CKCHG320 of the SMPC |

One detail needs a word. `ScuRemoveInterruptByCPU` reads slots of the array
beyond the queue, where old entries lie. The model keeps of them the only fact
the function can see (`left`), and `WriteIST` finds the set of hits that the
loop makes.

### SMPC: `Smpc`

The registers and the internal variables are the record `s`; `line` and `dec`
are the line and the deciline of the main loop, and `claimed` is the program's
(it has set SF and not yet written its command). `WriteSF`, `WriteIREG0`,
`WriteIREG1` and `WriteCOMREG` are the cases of `SmpcWriteByte`, with
`SmpcSetTiming`. `Slice` is one turn of the loop of `YabauseEmulate`: the
vertical blank, when the turn reaches it (`SmpcINTBACKEnd`), then `SmpcExec`,
which runs the command when its countdown ends; a change of the clock begins the
frame anew (`ClockChanges`). `Reset` leaves
`intback_wait_for_line`, which no reset touches. The bytes that are reported
are left out; how much of each port has been reported is kept, as the length and
the offset that `SmpcINTBACKPeripheral` works with.

A *polite* program (constant `Polite`) is one that follows the manual: it sets
SF, prepares and writes its command only while SF is clear and no INTBACK is
open, and writes Continue and Break only while SF is clear and one is.

### Threads: `EventFifo`, `EventQueue`, `VdpSync`

`EventQueue` is `thr-linux.cpp`: what a thread does between taking the mutex
and giving it back, or going to sleep, is one step; the broadcast, which comes
after the mutex is given back, is another; a sleeper may wake unasked.
`SleepFull`, `Add`, `BroadcastEmpty` are `YabAddEventQueue`; `SleepEmpty`,
`Get`, `BroadcastFull` are `YabWaitEventQueue`; `Clear` is
`YabClearEventQueue`; `Destroy` and `Create` are the two thread-queue functions.

`EventFifo` is what the queue promises: a sequence of at most `Capacity` codes,
to which an open call adds or from which it takes in one step.
`EventQueue!IsFifo` and `IsLiveFifo` are the refinement
(`q <- Held, call <- Open, item <- value`).

`VdpSync` builds on that: its queues are FIFOs (those that only carry the code
0 are counters). The emulation thread (`epc`) walks the lines of the frame:
`HBlankOUT` and `Change` are the two parts of `Vdp2HBlankOUT` and the frame
change in it, `DeferWait` is split from `Change` because the VDP thread adds to
the same variable, `PassLine`, `WaitDrawn` and `ClearDrawn` are the wait at
`wait_line_count`, `SendVBlankIN` and `WaitRcv` are `Vdp2VBlankIN`. The program
writes FBCR, PTMR, ENDR and the memory of VDP1 between them. The VDP thread
(`vpc`) is `VdpProc`: `VBlankIN`, `VBlankOUT`, `Decide`, `Vdp1Draw`, the two
ends of a drawing (`DrawingEnds`, `DrawingPauses`: cut off at 4096 commands),
`ReadWait` and `WriteWait` (the addition at `vdp2.cpp:1338`, which is not
atomic) and `Tell`. `HandOver`, `DeInit` and `Restart` are the hand-over of the
graphics context and the end and start of the thread.

### Sound thread: `ScspSync`

The synchronous sound mode (`g_scsp_main_mode` 0). The emulation thread (`epc`)
is `ScspExec`, which counts the cycles of each line into the shared counter;
`VBlankIN`, `SyncCPUtoSCSP`, `TakeFinish` and `AddStart`, the meeting of the two
threads at VBlank-IN; `Reset`, `SleepOver` and `ResetOver`, which are `ScspReset`
with its flag and its sleep of 100 ms; and `ScspDeInit`, `AddQuit`, `Join` and
`Restart`. The SCSP thread (`spc`) is `ScspAsynMainCpuTime`: it passes the lock
(`Top`, `Unlocked`), waits for the count to change (`Read`), makes samples
(`Sample`), and at the end of the sound frame adds its code and takes the next
(`AddFinish`, `TakeStart`). Both queues hold one code and are counters here.
`ScspMuteAudio` and `ScspUnMuteAudio` are the mute button, which writes the same
flag from the user interface's thread.

Differences of the counter are in unsigned arithmetic of width `W`. `SleepOver`
waits for `AtRest`: that the sleep outlasts what the thread has left of its slice
is a timing assumption of the code, and a guard of the model; so nothing is claimed
about who is alone with the state during a reset. A load of a state takes the same steps as a reset.

### Frame, timers and DMA: `ScuDma`, `ScuFrame`, `ScuFrameMC`

`ScuDma` is one level: `Load` takes what the registers say and sets up a direct
transfer or the first entry of a list, and `SucDmaCheck(d, time)` is a share of
time given to it: `StepsOf` counts the steps of what is loaded and of its list, and
`Duration` the time until its end. `ScuFrame` is the walk of `YabauseEmulate` over slices
(decilines) and lines with what it does in the SCU. `InLine` and `EndLine` are the
turns of the loop with HBlank-IN, VBlank-IN, VBlank-OUT, `ScuTimer1Exec` and the
DMA's share; `StartDma` flushes all levels and then gives each a share;
`CheckLevel` and `ScuChekIntrruptDMA` are the factors. The program writes the DMA
registers, T0C, T1S, T1MD and TVMD; `OtherRequest` is a request of the SCSP or the
end of a drawing, which may start a level; `YabauseReset` and `ChangeClock` are
those two.

The SCU's part is the record `scu`, and its operators are functions on it. What
the interrupt controller does with a request is `ScuIntc`'s: here `scu.out` lists
what the step asks of it, in order. VBlank-IN is really sent by the VDP thread
while the emulation thread is blocked (`VBlankINIsAlone` of `VdpSync`), and is part
of the slice. `blanks`, `extra` and `moved` count for the properties. Addresses,
data and the DSP are left out; level 2 is the same code as level 1.

### CD block: `Cs2`, `Cs2MC`

A command is a step, made when `Cs2Execute` runs it; the drive (`Cs2Exec`) and
the data port come between commands. Blocks are numbers, `free` is the set of
those with size -1, `partition` has the slots of each partition, `numblocks` and
`size`, `xfer` the `datatrans` fields, and `status`, `nextStatus`, `FAD`, `play` and
`connected` (`outconcddev` is not NULL) are the drive's. `asked` is the program's: the blocks of the transfer it
has open.

Abstracted: what a sector holds; sizes are counted in whole sectors of 2352
bytes, so that an empty partition's -1 is 0; audio sectors; ScanDisc, which the
code calls unfinished; and the filter chain, which is a constant `Route` from
sectors to partitions. Fields that nothing reads before they are set again
(`nextStatus` of a state that is entered directly, the transfer fields after a
transfer, `repcnt` without a play) are cleared, which makes the model smaller
and changes no behaviour. `datatranspartitionnum` is kept (`xfer.num`), for it outlives
its transfer and a get-then-delete does not set it: `ResetPartition` ends a transfer
when the whole pool is free or that number names the partition (`EndsTransfer`), and
otherwise leaves it open. `Cs2RapidCopyT1` and `Cs2RapidCopyT2` (`cs2.c:509`) are
left out: nothing in the repository calls them.

`PlaySector` is a period in which a sector is read. Without a filter
(`Cs2ReadFilteredSector` returns -1) and for a sector that cannot be read (-2) the
period changes nothing, and the next one tries again: the first is the guard
`connected`, the second a stutter.

The program keeps to the rules of the commands: it names sectors that exist,
ends a transfer before it changes the buffer again, reads what a
get-then-delete is to delete to its end, copies only into free space and while
the drive stores nothing, puts only into an empty partition (unless
`PutBehind`), resumes a play before its end, and does not reset the partition of a
get-then-delete it has open (unless `ResetOpen`). With `ResetOpen` the code can leave
such a transfer open on a partition that is emptied or filled again: its end then frees
slots that hold nothing, or other sectors. TLC shows it: `TypeOK` (a `numblocks` of 255),
`PoolConserved` and `ReadsWhatItAsked` all fail on the instance of `cs2` with that
constant TRUE.

### CD block commands: `Cs2Command`

CR1 to CR4, HIRQ, HIRQMASK, the lock `_command`, `_commandtiming` and
`_command_execlock`. Of each CR the model keeps whose value it is: the program's
argument, an answer, a report, a reset's, or an answer to something nobody asked.
Of a command it keeps how it ends: with a report and an interrupt; silently
(`GetStatus`, `cs2.c:1509`); without touching CR1 to CR4 (ScanDisc, GetFadSearchResults,
MpegSetLSI, PutSectorData), or touching CR1 only (GetSectorInfo of a sector that
is not there); or going on behind its answer (ResetSelector, CalculateActualSize,
DeleteSectorData). What it does to the buffer is in `Cs2`.

`Begin`, `WriteCR`, `SeeCMOK`, `Wake`, `ReadCR`, `Leave`, `ReadReport` and
`WriteMask` are a program that keeps to the order of the registers: it clears CMOK, writes
CR1 to CR4, asks for CMOK or sleeps until the interrupt, and reads CR1 to CR4 or
leaves the answer. `Cs2Exec` is a slice: `Wait` or `Execute`, and `Periodic`, the
report that comes at any slice but not in a conversation. `Tray` is the user's, with
`Cs2Reset`. `upset` marks a conversation that the tray has cut.

## 3. What is checked

A passing run explores every state of its instance. Deadlock is checked in all passing
runs but `scsp_sync`: there the system stops when the emulator is shut down for the last
time, when sound is muted for good, and in the state `Missed` (section 5).

| run | instance | what it shows |
|---|---|---|
| `scu_intc` | VBlankIN, timer 0 and one A-bus source, both CPUs | `QueuesInOrder`: the lists stay sorted, without repeats and without A-bus requests. `ServesHighestFirst`: a register write replays the most urgent ready request and only that. `NothingBeatsMask`: after a look at its queue the master leaves nothing above its mask |
| `scu_intc_ack` | VBlankIN, VBlankOUT, Level-0 DMA end | finding: an acknowledge drops another source's request |
| `smpc_any` | a program that writes the registers in any order and changes the clock, ports with 4 or 6 bytes for reports of 4 | `ReportsFull`: a report leaves data behind only when it is full, by the lengths and offsets that are kept. `ContinueBeatsVBlank`: a Continue is answered before the vertical blank unless it came after line 207 |
| `smpc_polite` | a polite program with a status, a change of the clock, RESENAB and an unknown command | `IdleMeansDone`, `AcceptedIsAnswered` and, with fairness, `CommandEnds` |
| `event_queue` | two producers, two consumers (one also clears), a ring of two, two codes | `NoSleepingTaker`, and the refinement of `EventFifo` with its fairness (`IsLiveFifo`) |
| `vdp_sync` | three lines, a drawing started by the frame and one by the program, one forced end, one drawing that is cut off, one reset | `VBlankINIsAlone`, `WaitIsAnswered`, `SwapIsOnItsWay`, and `FramesGoOn` |
| `vdp_long` | drawings that are cut off, a queue of two | finding: codes nobody takes stop both threads |
| `scsp_sync` | both cores and both frame rates, two resets, two presses of the mute button, one new set-up | `CyclesCounted`: no cycle is lost or counted twice in a sound frame. `FramesMeet`; with fairness `FramesGoOn` and `DeInitEnds` |
| `scu_frame` | four lines of three slices, two levels with a long and a short transfer and a list each, both timers, three writes, one reset or change of the clock | `OneEndPerStart`: every transfer that is started ends once. `BlanksCounted`: a frame has one VBlank-IN, but for the moves that are counted. `Timer0IsLine`; with fairness `Timer1Comes` |
| `cs2` | three blocks, two partitions, a play of two sectors of which the filters keep the first, one repeat; the program takes the drive's filter away and gives it back | `PoolConserved`: a block is in one place and counted. `ReadsWhatItAsked`: a transfer finds the blocks it was opened for. `KeepsOrder`, `NoSectorLost`; with fairness `PlayEnds`: a play ends, or the drive has lost its filter |
| `cs2_command` | commands of every ending, a time of 1 or 3 slices, 0 or 4 slices behind the answer, the tray moved twice | `AnswerIsWhole`: what a program reads after CMOK is the answer to its own command in all four registers. With fairness `CommandAnswered`: a command that is begun is answered, also behind one that goes on, and this one's bit is raised at its end |
| `cs2_end` | the same as `cs2`, with a program that puts behind other sectors | finding: the end of a get-then-delete frees nothing |

### Bounds

* `ScuIntc` has no bound but the sources: nothing counts. Three sources give a
  source that goes to both CPUs, one that can be withdrawn, and one on the A-bus
  with its acknowledge; the queue order is by level, and three levels make every
  relative order.
* `Smpc`: the countdowns (2 and 9 slices for 250 and 16000 microseconds), two
  decilines to a line and four or five lines to a frame keep the order of the real ones:
  a status report takes less than a line, a peripheral report more than the lines
  between `WaitLine` and the vertical blank and less than a frame. The countdown
  goes below 0 but never further than one slice, so the state is finite.
* `EventQueue`: two threads on each side make every merge and race of two
  broadcasts, and a ring of two wraps round and is full, empty and neither.
* `VdpSync`: `MaxDirect`, `MaxPauses`, `MaxStops` and `MaxResets` bound what the
  program does; the delays are longer than the part of the frame that is left,
  so that a wait can go to the next frame. `RamLines` is the lines on which the
  program writes to VDP1's memory. `vdp_sync` lets it do so on the first line
  only; with later writes the frame change moves into the blank and the wait set
  for it can stay without a code, as the hazard at `vdp2.cpp:988` says. `WaitsAreAnswered` (section 4) says which
  writes are harmless: all that leave one line of the picture free.
* `ScspSync`: a sample is two cycles and a sound frame three samples (256 cycles and
  735 samples), 16 times in the width of the differences; a frame of five lines gains
  less than a sound frame at one rate and more at the other, and nothing with the old
  core, so that the thread is behind, ahead and blind when VBlank-IN comes.
* `ScuFrame`: lines of three slices (HBlank-IN in the last but one), frames of four
  lines, a blank that TVMD can set before the line, after it, or beyond the frame.
  `FlushTime` is longer than any transfer of the instance, as 2^31 - 1 is. Three writes
  set up one level and start it in the middle of another's, or set up timer 1.
* `Cs2Command`: times of 1 and 3 slices and locks of 0 and 4 let a command be written
  before, while and after the one before it ends; after two moves of the tray every
  conversation can be cut, and the one after it.
* `Cs2`: nothing counts without end. Three blocks are what it takes for a delete
  in the middle of two others, and to fill the buffer while a transfer is open.

### Fairness

* `Smpc`: `WF(Slice)`: `YabauseEmulate` goes on. `WF` of the write of a command:
  a polite program that has claimed the SMPC writes its command. The program is
  under no other obligation.
* `EventQueue`: `WF(Step(t))` of each thread: the operating system schedules a
  thread that can run. A program need not make a call.
* `VdpSync`: `WF(Emulate)` and `WF(Render)` for the two threads, and
  `SF(HBlankOUT)`: a line has a fixed number of CPU cycles, so the program
  cannot stay on a line by writing registers.
* `ScspSync`: `WF` of the emulation thread and of the SCSP thread: both are scheduled.
  The user need not press a button: `FramesGoOn` and `DeInitEnds` except a mute that
  lasts for ever, and `FramesGoOn` the thread that saw nothing of a frame (below).
* `ScuFrame`: `WF` of a change of `slice` alone: the loop of `YabauseEmulate` goes on.
  The program is under no obligation.
* `Cs2Command`: `WF(Cs2Exec)`: the main loop gives the CD block its slices. `WF` of the
  program's writes and looks: it goes on with the command it has begun. It need not
  read the answer, nor begin another.
* `Cs2`: `SF` of the drive's steps, which come with the time of the main loop
  whatever the program does. For `PlaySector` this also assumes that a sector which is
  tried again and again is read in the end: with one that never is, the code tries for
  ever and the play does not end. `PlayEnds` excepts a drive that has lost its filter,
  for which the same is true. The program reads and ends its transfers, empties
  partitions again and again, and from some time on begins no new play
  (`<>[][~Restart]_vars`), for a play that is replaced need not end.

## 4. What is proved

TLAPS checks these for every value of the constants that satisfies the named
assumptions, with no step left open. Every invariant and every action property that a
passing run checks has its theorem; some of them need a hypothesis, which is stated
with them. The properties are those of the runs; two of the inductive invariants were
checked with TLC on other instances as well: the one of `Cs2` with soft initialisations
(906,476 states), and the one of the waits of `VdpSync` with writes to VDP1's memory on every
line but one of the picture (6,800,291 states).

* `ScuIntcProofs` (`SourcesAssumption`, `MaskLevelsAssumption`): the invariant
  `IInv` says of each of the three queues that it is ordered, distinct and made
  of requests at their own level, and that the masks are in range. It is
  inductive because every operator of the controller is a composition of
  `Enqueue`, `Drop` and `Withdraw`; the first lemmas are about these three operators
  of `IntQueue`, and the one for `SortIn` follows the rotation of the groups of equal
  level. From it: `TypeCorrect`, `QueuesStayInOrder` and `MaskCoversPending` (in an ordered queue the last entry bounds
  the others). `HighestIsServedFirst` follows from what the replay takes out of
  the queue: one request at a time, and none that is ready and stays is above it.
* `SmpcProofs` (`TimesAssumption`, `PortsAssumption`, `CommandsAssumption`):
  `IInv` adds to the invariant of the run what makes it inductive for a polite
  program: a claimed SMPC is idle (`ClaimedIsIdle`), an open INTBACK still asks
  for the report it counts down for (`OpenAsks`, `PendingAsks`), also after a
  vertical blank closed the conversation. From it: `ClearMeansDone`,
  `AcceptedIntbackIsAnswered` and `CommandsCountDown`, which is the part of `CommandEnds`
  that needs no fairness: a command at work (SF set, not claimed) has time left, every
  slice takes some of it, and nothing but the clearing of SF stops it, so SF is clear
  after at most as many slices as its countdown is long. `TypeInv` is for any program:
  the type with what has been reported of each port, and that a peripheral report has
  counted down for no longer than since `WaitLine` was over (`OnTime`). From it:
  `TypeCorrect`, `ContinueIsInTime` and `ReportsAreFull` (lengths and offsets; which bytes
  are copied is not in the model).
* `EventQueueProofs` (`CapacityAssumption`): `IInv` is the type, the agreement of
  the counters, and that a sleeping consumer has a broadcast coming,
  with no thread inside a queue that is gone and only clearers clearing.
  From it: `TypeCorrect`, `RingStaysConsistent`, `TakersAreWoken`; `PuttersAreWoken`
  for a queue that nobody clears; and `RingIsFifo`, the refinement of the safety
  part of `EventFifo`, for every capacity and every number of threads.
* `VdpSyncProofs` (`LinesAssumption`, `QueuesAssumption`, `ProgramAssumption`): `IInv` adds
  to the type the order of `evqueue`: one VBLANK_IN is under way exactly while the
  emulation thread waits for its answer (`Blocked`), nothing comes behind FINSH
  (`Ending`), the event of a frame change that is asked for is prepared, sent or handled
  (`Swapping`). From it: `TypeCorrect`, `VBlankINsAreAlone` and `SwapsAreOnTheirWay`.
  `WaitsAreAnswered` has the hypothesis `LeavesRoom`: on one line of the picture at least
  the program does not write to VDP1's memory. Without it the property is false (the hazard
  at `vdp2.cpp:988`). `WInv` says why it is enough: the frame is changed on that line at the
  latest (`Begun`), so the two threads meet at VBlank-IN with nothing left in the queue
  (`Meeting`), and until the next change a wait can only be for a drawing that no longer
  depends on `frame_change_plot` (`Answering`). With it, `ThreadsNeverBothWait`: the two
  threads are never both blocked unless `vdp1_rcv_evqueue` is full, which is the
  finding of `vdp_long`.
* `ScspSyncProofs` (`CyclesAssumption`, `LinesAssumption`, `WidthAssumption`): `IInv` is the
  type, where the two threads and the two queues are to each other (`Meeting`), how far
  the counter has come in the frame (`Counting`), and what the SCSP thread has made of
  it (`Sampling`). From it: `TypeCorrect`, `FramesAlwaysMeet` and `CyclesAreCounted`.
  `WidthAssumption`: what the lines between two meetings add, a frame of them and one more for
  each reset, is within the width (some 2^38 a frame, of 2^64).
* `Cs2Proofs` (`BlocksAssumption`, `DiscAssumption`): `IInv` is `PoolInv` (a partition's
  blocks are packed, no block is in two slots, and a block is held or free),
  `TransferInv` (an open transfer lies inside its partition, at the blocks it was asked
  for), `DriveInv` and `RoomInv` (a buffer without a free block is marked full).
  The count of the free blocks is followed by cardinalities: n slots that hold blocks hold
  n different ones. From it: `TypeCorrect`, `BlocksAreConserved`,
  `TransfersReadWhatWasAsked`, and with what `Cs2SortBlocks` does to the slots
  `SectorsKeepTheirOrder` and `NoSectorIsLost`. All five have the hypothesis `~ResetOpen`,
  without which the first three are false (section 2); `PutBehind` is free.
  `NoSectorIsLost` has `~SoftInit` as well: a soft initialisation marks
  a full buffer as not full (`cs2.c:1682`), so `RoomInv` does not hold with it;
  the run `cs2` has no soft initialisation either. The rest of `IInv` holds with and without.
* `Cs2CommandProofs` (`CommandAssumption`): `AnswerIsWhole` speaks of what has been read.
  `IInv` says what holds at every place of the conversation before that: which
  registers the program has filled, that the lock keeps reports out, that CMOK is down until
  the command has run, and that no command is left over; all of it up to a move of the
  tray. From it: `TypeCorrect` and `AnswerWhole`.
* `ScuFrameProofs` (`TimeAssumption`, `LinesAssumption`, `WritesAssumption`,
  `CountsAssumption`, `FlushAssumption`): `BlanksAreCounted`, by `WalkInv`,
  which adds to `BlanksCounted` where the walk can be; `TimerFollowsLine`, by
  `TimerInv`, which adds the range of the slice and the shape of the record; and
  `TypeCorrect`. No operator of the SCU, DMA included, touches timer 0 but for
  HBlank-IN, VBlank-OUT and the reset: one lemma for each operator, and one step for each
  action. `EndsAreOwed` is the first half of `OneEndPerStart`: a level owes one end while it is
  at work or hangs, and none otherwise. Its argument: the number of steps of a list is a
  recursive function, which exists (by a least counterexample); the time a level is
  given pays for a first part of its entries, and what is left never takes longer
  than the whole; a flush, which has time for every transfer (`FlushAssumption`; in the
  code 2^31 - 1), finishes all levels before a new one is loaded; so every operator of the
  SCU keeps what is owed (`ScuOK`).

Only model-checked, because the prover has no rule for it:

* every liveness property: `CommandEnds`, `FramesGoOn` (of `VdpSync` and of `ScspSync`),
  `PlayEnds`, `DeInitEnds`, `Timer1Comes`, `CommandAnswered`, the fairness of `IsLiveFifo`,
  and the second half of `OneEndPerStart` (a level at work comes to its end);
* the agreement of `SortIn` with the loops of the code, which is an induction over the
  loops and is checked for queues of up to five entries;
* what the three runs that end with a counterexample show.

## 5. Findings

Each is a run that ends with a counterexample.

1. `scu.c:3036`: `ScuRemoveInterruptByCPU` tests `interrupts[i]`, with the number
   of the status bit, where it scans slot `ii`. An acknowledge either does
   nothing or drops the lowest request, whosever it is (`scu_intc_ack`).
2. `vdp2.cpp:1346`: each frame of a list that goes on over several frames can
   leave a code in `vdp1_rcv_evqueue` that no wait takes; when it is full, the
   VDP thread blocks with the lock of the video memory and the emulation thread
   waits for it (`vdp_long`).
3. `cs2.c:2704`: PutSectorData starts the size of a partition again from 0 though
   it may hold sectors; the get-then-delete of what is left later frees nothing
   (`cs2_end`).

### Observations

Behaviour the models have and that a reader may want to know of. No document or
test of the repository says otherwise, so they are not findings.

* `smpc.c:419` and `smpc.c:434`: a port with more data than one report holds is copied
  from its start again when its rest fills another report, whatever the offset is.
* `smpc.c:692`: a status INTBACK is taken only with IREG0 exactly 1. With the break bit
  set, which the comment at `smpc.c:463` expects, no report is run.
* `vdp1.cpp:488`: a forced end drops the wait at `wait_line_count` but not the code of
  the drawing it stops, so the next wait may return on the old code, before the new
  drawing is made.
* Sound: when the SCSP thread has not seen one sample's cycles of a frame before
  VBlank-IN sets the counter to 1, it waits for a count that does not change any more,
  and the emulation thread for it (`Missed` in `FramesGoOn`). With the old sound core,
  which leaves the counter alone, the only chance to see cycles is at VBlank-IN
  itself. A muted SCSP thread (`UIYabause.cpp:1775`) stops the emulation thread at
  VBlank-IN. `SoundSaveState` clears the flag before it is done
  (`scsp.cpp:6354`). A PAL frame is longer than a sound frame, which ends at 83 percent of it.
* DMA: a reset drops the transfers in flight without an end. An entry of a list with
  the count 0 that is loaded without time left, or first, makes the level look idle: it does not
  end, and the next start is loaded over it. A direct transfer whose unit does not divide its
  count ends with a count below 0, which makes the next start flush all levels.
* Timers: in its line mode timer 1 counts in line T0C only, and a preset that runs out in
  the last slice of that line is lost (`Timer1InLine` excepts it): a preset of a multiple of the
  slices of a line may never come, nor does a preset of 0.
* Blanks: a change of the clock sets `LineCount` to 0, so that a frame has a second
  VBlank-IN without a VBlank-OUT; TVMD can do the same, or take the line of VBlank-IN
  back behind the current one or, with both of its VRESO bits set in a frame of 263
  lines, beyond the end, and the frame has none.
* CD block: a Reset Selector of the partition of an open get-then-delete does not end it
  (`cs2.c:2267-2274`): `datatranspartitionnum` is that of an earlier transfer. The end of
  the transfer then takes blocks away from an empty partition, whose count becomes 255. A
  drive without a filter, and a disc with a sector that cannot be read, try the same sector
  for ever (`cs2.c:1096`), without an error or the end of the play.
* CD block: a write to HIRQMASK with bits pending raises nothing. A command that a move of
  the tray cuts off leaves the handshake one off: the reset sets all of HIRQ, so the
  program finds CMOK at once and the registers of the reset. A program that sleeps for
  GetStatus is not woken. CalculateActualSize and DeleteSectorData of no sectors never
  raise the bit of their end (`cs2.c:2426`). A report that the lock keeps out takes the
  slice of NetLink and the modem with it (`cs2.c:1136`).

## 6. What is not modelled

* Data: the instruction sets of the SH-2, the 68000 and the DSPs, sound
  synthesis, drawing, sector contents, directory records. These are functions
  without a protocol, and better compared with the hardware.
* User interfaces, image formats, file and socket I/O, frame pacing.
* The requests of an SH-2's own units (free-running timer, watchdog, DMA, divider), whose
  vectors the program chooses. They go into the same pending list, which has room for
  50: nothing here says that it is enough.
* The pending list of the dynamic recompiler, which differs from the
  interpreter's (sorted and made unique in another way, under a lock).
* In `Smpc`: the direct mode of the ports, the clock, the bytes of the reports and so which part of
  a port's data each of them carries.
* In `VdpSync`: frame skipping, `disptoggle`, and the reset of `manualchange`
  inside the software renderer (`vidsoft.c:4118`).
* In `Cs2`: sizes below a sector, audio sectors, the filter chain but for its first link, and what a
  program that breaks the rules of the commands (section 2) makes of the buffer.
* In `Cs2Command`: commands that the code does not know, which get no answer; a program
  that reads CR4 before its answer or looks at reports without the lock, to which
  mixed registers are what it asked for.
* In `ScspSync`: the real-time mode (the default of `yabause.c:132`), which has no queues, and the race of the
  requests that the SCSP thread raises in the SCU (`scsp.cpp:4910`).
* In `ScuFrame`: the DSP, addresses and data, and the shares of the CPUs.
* The registers of VDP1 and VDP2, backup RAM, cartridges, cheats and recorders: table code
  of one thread, where a unit test reaches what a model would.
* Saved states everywhere: the fields they leave out are listed as hazards.

## 7. Plan

Done, in this order: `ScuIntc` with its proofs, `Smpc` with its proofs,
`EventQueue` with its refinement, `VdpSync` on top of it, `Cs2`, `ScspSync`,
`ScuDma` and `ScuFrame` with its proofs, `Cs2Command`; then the proofs of `VdpSync`, `ScspSync`,
`Cs2` and `Cs2Command`, and of what was left of `ScuIntc`, `Smpc` and `ScuFrame`.

Next:

1. Proofs: see below.
2. The recompiler's list as a second implementation of the pending queue, with
   `IntQueue` as what both should be; `Sh2Onchip` (free-running timer, watchdog, DMA,
   input capture).
3. Backup RAM directory, flash cartridge.

Abstract specifications worth stating: `EventFifo` (done); a pending set of which
the highest is served, for the interpreter's queue and the recompiler's list; a
pool of blocks in which each has one owner, for `Cs2`.

Theorems next: a pending set of which the highest is served, refined by the three queues of
`ScuIntc`; a bound of `drawn` without forced ends and cut-off drawings, which would free
`ThreadsNeverBothWait` of its exception; the exception of `BlanksCounted` (`moved`, `extra`)
as a relation of two frames.
