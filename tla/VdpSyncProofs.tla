----------------------------- MODULE VdpSyncProofs -----------------------------
(***************************************************************************)
(* Proofs about VdpSync: for every number of lines, delay, capacity and    *)
(* behaviour of the program the state keeps its type, VBlank-IN is sent to *)
(* the SCU only while the emulation thread is blocked, and a frame change  *)
(* that was asked for is on its way.                                       *)
(*                                                                         *)
(* What makes them inductive is the order of evqueue: an emulation thread  *)
(* that waits has sent one VBLANK_IN and sends nothing behind it, and      *)
(* nothing is sent behind FINSH, so that the queue is empty when the VDP   *)
(* thread is over and started again.                                       *)
(*                                                                         *)
(* For a program that leaves VDP1's memory alone on a line of the picture, *)
(* the wait for a drawing is answered, and the two threads never wait for  *)
(* each other unless the queue of finished drawings is full.               *)
(***************************************************************************)
EXTENDS VdpSync, SequenceTheorems, TLAPS

Events == {"VBLANK_IN", "VBLANK_OUT", "DIRECT_DRAW", "CONTEXT", "FINSH"}

\* e is in the queue q, at one place at most, and as its last event at most
Has(q, e)    == \E i \in DOMAIN q : q[i] = e
Single(q, e) == \A i, j \in DOMAIN q : q[i] = e /\ q[j] = e => i = j
Final(q, e)  == \A i \in DOMAIN q : q[i] = e => i = Len(q)

\* One VBLANK_IN is under way while the emulation thread waits for its answer, as an
\* event, as the event that is handled or as the code; none is otherwise.
Blocked ==
  /\ Single(evqueue, "VBLANK_IN")
  /\ epc # "waitRcv" => vpc # "vin" /\ rcv = 0 /\ ~Has(evqueue, "VBLANK_IN")
  /\ epc = "waitRcv" => /\ rcv \in {0, 1}
                        /\ rcv = 1 => vpc # "vin" /\ ~Has(evqueue, "VBLANK_IN")
                        /\ vpc = "vin" => ~Has(evqueue, "VBLANK_IN")

\* FINSH is the last event, and the emulation thread waits for the VDP thread to end
Ending ==
  /\ Final(evqueue, "FINSH")
  /\ Has(evqueue, "FINSH") \/ vpc = "stopped" => epc = "join"
  /\ vpc = "stopped" => evqueue = << >>

\* a VDP thread that draws knows why
Caused ==
  vpc \in {"vout", "decide", "draw", "drawing", "plotted", "read", "write",
           "tell", "screens"} => cause # "none"

\* the event of a frame change that is asked for is prepared, sent or handled
Swapping ==
  swap => \/ epc \in {"change", "defer", "vout"}
          \/ Has(evqueue, "VBLANK_OUT") \/ vpc = "vout"

\* the inductive invariant
IInv ==
  /\ TypeOK /\ evqueue \in Seq(Events)
  /\ Blocked /\ Ending /\ Caused /\ Swapping

-----------------------------------------------------------------------------
(* The queue *)

\* An event that is added is the last one, and the others stay where they are.
LEMMA AppendHas ==
  ASSUME NEW q \in Seq(Events), NEW e \in Events
  PROVE  /\ Append(q, e) \in Seq(Events) /\ Len(Append(q, e)) = Len(q) + 1
         /\ \A x : Has(Append(q, e), x) <=> Has(q, x) \/ x = e
         /\ \A x : Single(q, x) /\ ~Has(q, e) => Single(Append(q, e), x)
         /\ \A x : Single(q, x) /\ x # e => Single(Append(q, e), x)
         /\ \A x : ~Has(q, x) => Final(Append(q, e), x)
  <1> DEFINE p == Append(q, e)
  <1>1. /\ p \in Seq(Events) /\ Len(p) = Len(q) + 1 /\ Len(q) \in Nat
        /\ DOMAIN q = 1..Len(q) /\ DOMAIN p = 1..(Len(q) + 1)
        /\ \A i \in 1..Len(q) : p[i] = q[i]
        /\ p[Len(q) + 1] = e
    BY AppendProperties, LenProperties
  <1>. HIDE DEF p
  <1>2. \A x : Has(p, x) <=> Has(q, x) \/ x = e
    BY <1>1 DEF Has
  <1>3. ASSUME NEW x, Single(q, x), ~Has(q, e) \/ x # e PROVE Single(p, x)
    BY <1>1, <1>3 DEF Single, Has
  <1>4. ASSUME NEW x, ~Has(q, x) PROVE Final(p, x)
    BY <1>1, <1>4 DEF Final, Has
  <1>. QED BY <1>1, <1>2, <1>3, <1>4 DEF p

\* The event that is taken is the first one, and the others keep their order.
LEMMA TailHas ==
  ASSUME NEW q \in Seq(Events), q # << >>
  PROVE  /\ Tail(q) \in Seq(Events) /\ Len(Tail(q)) <= Len(q)
         /\ Head(q) \in Events /\ Has(q, Head(q))
         /\ \A x : Has(Tail(q), x) => Has(q, x)
         /\ \A x : Has(q, x) /\ x # Head(q) => Has(Tail(q), x)
         /\ \A x : Single(q, x) => Single(Tail(q), x)
         /\ Single(q, Head(q)) => ~Has(Tail(q), Head(q))
         /\ \A x : Final(q, x) => Final(Tail(q), x)
         /\ Final(q, Head(q)) => Tail(q) = << >>
  <1> DEFINE t == Tail(q)  h == Head(q)
  <1>1. /\ t \in Seq(Events) /\ Len(t) = Len(q) - 1 /\ Len(q) \in Nat /\ Len(q) > 0
        /\ DOMAIN q = 1..Len(q) /\ DOMAIN t = 1..(Len(q) - 1)
        /\ \A i \in 1..(Len(q) - 1) : t[i] = q[i + 1]
        /\ h = q[1] /\ h \in Events
    <2>1. h = q[1] /\ Len(q) \in Nat /\ Len(q) > 0
      BY EmptySeq, LenProperties
    <2>. QED BY <2>1, HeadTailProperties, LenProperties
  <1>2. Len(t) = 0 => t = << >>
    BY <1>1, EmptySeq
  <1>. HIDE DEF t, h
  <1>3. Has(q, h)
    BY <1>1 DEF Has
  <1>4. ASSUME NEW x, Has(t, x) PROVE Has(q, x)
    BY <1>1, <1>4 DEF Has
  <1>5. ASSUME NEW x, Has(q, x), x # h PROVE Has(t, x)
    <2>1. PICK i \in 1..Len(q) : q[i] = x
      BY <1>1, <1>5 DEF Has
    <2>2. i # 1
      BY <2>1, <1>1, <1>5
    <2>3. i - 1 \in 1..(Len(q) - 1) /\ t[i - 1] = q[(i - 1) + 1] /\ (i - 1) + 1 = i
      BY <2>2, <1>1
    <2>. QED BY <2>1, <2>3, <1>1 DEF Has
  <1>6. ASSUME NEW x, Single(q, x) PROVE Single(t, x)
    BY <1>1, <1>6 DEF Single
  <1>7. ASSUME Single(q, h), Has(t, h) PROVE FALSE
    <2>1. PICK i \in 1..(Len(q) - 1) : t[i] = h
      BY <1>1, <1>7 DEF Has
    <2>2. i + 1 \in DOMAIN q /\ 1 \in DOMAIN q /\ q[i + 1] = h /\ q[1] = h
      BY <1>1, <2>1
    <2>3. i + 1 = 1
      BY <2>2, <1>7 DEF Single
    <2>. QED BY <2>1, <2>3, <1>1
  <1>8. ASSUME NEW x, Final(q, x) PROVE Final(t, x)
    BY <1>1, <1>8 DEF Final
  <1>9. ASSUME Final(q, h) PROVE t = << >>
    BY <1>1, <1>2, <1>9 DEF Final
  <1>. QED BY <1>1, <1>3, <1>4, <1>5, <1>6, <1>7, <1>8, <1>9 DEF t, h

\* The empty queue has nothing.
LEMMA EmptyHas ==
  \A x : ~Has(<< >>, x) /\ Single(<< >>, x) /\ Final(<< >>, x)
  BY DEF Has, Single, Final

\* Send as the steps see it.
LEMMA Sending ==
  ASSUME evqueue \in Seq(Events), NEW e \in Events, Send(e)
  PROVE  /\ evqueue' \in Seq(Events) /\ Len(evqueue') <= EvCapacity
         /\ \A x : Has(evqueue', x) <=> Has(evqueue, x) \/ x = e
         /\ \A x : Single(evqueue, x) /\ ~Has(evqueue, e) => Single(evqueue', x)
         /\ \A x : Single(evqueue, x) /\ x # e => Single(evqueue', x)
         /\ \A x : ~Has(evqueue, x) => Final(evqueue', x)
  <1>1. Len(evqueue) < EvCapacity /\ evqueue' = Append(evqueue, e) /\ Len(evqueue) \in Nat
    BY LenProperties DEF Send
  <1>2. EvCapacity \in Nat
    BY QueuesAssumption
  <1>. QED BY <1>1, <1>2, AppendHas

-----------------------------------------------------------------------------
(* The steps *)

\* What follows a drawing.
LEMMA AfterDraw ==
  ASSUME IInv, vpc = "drawing", AfterDrawing
  PROVE  vpc' \in {"plotted", "tell", "read"}
  <1>1. cause \in {"none", "frame", "continue", "direct"} /\ cause # "none"
    BY DEF IInv, TypeOK, Caused
  <1>. QED BY <1>1 DEF AfterDrawing

\* The emulation thread stays blocked while VBlank-IN is under way.
LEMMA BlockedStep == IInv /\ [Next]_vars => Blocked'
  <1> SUFFICES ASSUME IInv, [Next]_vars PROVE Blocked'
    OBVIOUS
  <1>t. evqueue \in Seq(Events) /\ Blocked
    BY DEF IInv
  <1>1. CASE \E m \in {"cycle", "erase", "change"} : WriteFBCR(m)
    BY <1>1, <1>t DEF WriteFBCR, bounds, flags, queues, vdp, Blocked
  <1>2. CASE \E v \in PTMRValues : WritePTMR(v)
    BY <1>2, <1>t DEF WritePTMR, bounds, flags, queues, vdp, Blocked
  <1>3. CASE WritePTMR1
    BY <1>3, <1>t DEF WritePTMR1, bounds, flags, queues, vdp, Blocked
  <1>4. CASE WriteENDR
    BY <1>4, <1>t DEF WriteENDR, queues, vdp, Blocked
  <1>5. CASE WriteRam
    BY <1>5, <1>t DEF WriteRam, bounds, flags, queues, vdp, Blocked
  <1>6. CASE TouchFrameBuffer
    BY <1>6, <1>t DEF TouchFrameBuffer, bounds, emulation, flags, queues, vdp, Blocked
  <1>7. CASE Reset
    BY <1>7, <1>t DEF Reset, flags, vdp, Blocked
  <1>8. CASE HandOver
    BY <1>8, <1>t, Sending
       DEF HandOver, bounds, emulation, flags, vdp, Blocked, Events
  <1>9. CASE DeInit
    BY <1>9, <1>t, Sending DEF DeInit, bounds, emulation, flags, vdp, Blocked, Events
  <1>10. CASE Drain
    BY <1>10, <1>t DEF Drain, bounds, emulation, flags, vdp, Blocked
  <1>11. CASE Trigger
    BY <1>11, <1>t, Sending DEF Trigger, bounds, vdp, Blocked, Events
  <1>12. CASE LockVram
    BY <1>12, <1>t DEF LockVram, bounds, emulation, flags, queues, vdp, Blocked
  <1>13. CASE HBlankOUT
    BY <1>13, <1>t DEF HBlankOUT, bounds, queues, vdp, Blocked
  <1>14. CASE Change
    BY <1>14, <1>t DEF Change, bounds, queues, vdp, Blocked
  <1>15. CASE DeferWait
    BY <1>15, <1>t DEF DeferWait, bounds, flags, queues, vdp, Blocked
  <1>16. CASE SendVBlankOUT
    BY <1>16, <1>t, Sending
       DEF SendVBlankOUT, bounds, emulation, flags, vdp, Blocked, Events
  <1>17. CASE PassLine
    BY <1>17, <1>t DEF PassLine, bounds, flags, queues, vdp, EndLine, Blocked
  <1>18. CASE WaitDrawn
    BY <1>18, <1>t DEF WaitDrawn, bounds, emulation, flags, vdp, Blocked
  <1>19. CASE ClearDrawn
    BY <1>19, <1>t DEF ClearDrawn, bounds, vdp, EndLine, Blocked
  <1>20. CASE SendVBlankIN
    BY <1>20, <1>t, Sending
       DEF SendVBlankIN, bounds, emulation, flags, vdp, Blocked, Events
  <1>21. CASE WaitRcv
    BY <1>21, <1>t DEF WaitRcv, bounds, emulation, flags, vdp, Blocked
  <1>22. CASE WaitCommand
    BY <1>22, <1>t DEF WaitCommand, bounds, emulation, flags, vdp, Blocked
  <1>23. CASE Restart
    BY <1>23, <1>t, EmptyHas DEF Restart, bounds, Blocked
  <1>24. CASE Receive
    BY <1>24, <1>t, TailHas DEF Receive, bounds, emulation, flags, Blocked, Events
  <1>25. CASE VBlankIN
    BY <1>25, <1>t DEF VBlankIN, bounds, emulation, flags, Blocked
  <1>26. CASE HandedOver
    BY <1>26, <1>t DEF HandedOver, bounds, emulation, flags, Blocked
  <1>27. CASE VBlankOUT
    BY <1>27, <1>t DEF VBlankOUT, bounds, emulation, queues, Blocked
  <1>28. CASE Decide
    BY <1>28, <1>t DEF Decide, bounds, emulation, flags, queues, Blocked
  <1>29. CASE Vdp1Draw
    BY <1>29, <1>t DEF Vdp1Draw, bounds, emulation, queues, Blocked
  <1>30. CASE DrawingEnds
    BY <1>30, <1>t, AfterDraw DEF DrawingEnds, bounds, emulation, queues, Blocked
  <1>31. CASE DrawingPauses
    BY <1>31, <1>t, AfterDraw DEF DrawingPauses, flags, queues, Blocked
  <1>32. CASE Plotted
    BY <1>32, <1>t DEF Plotted, bounds, emulation, queues, Blocked
  <1>33. CASE ReadWait
    BY <1>33, <1>t DEF ReadWait, bounds, emulation, flags, queues, Blocked
  <1>34. CASE WriteWait
    BY <1>34, <1>t DEF WriteWait, bounds, flags, queues, Blocked
  <1>35. CASE Tell
    BY <1>35, <1>t DEF Tell, bounds, emulation, flags, Blocked
  <1>36. CASE DrawScreens
    BY <1>36, <1>t DEF DrawScreens, bounds, emulation, flags, queues, Blocked
  <1>37. CASE UNCHANGED vars
    BY <1>37, <1>t DEF vars, bounds, emulation, flags, queues, vdp, EndLine, Blocked
  <1>. QED BY <1>1, <1>2, <1>3, <1>4, <1>5, <1>6, <1>7, <1>8, <1>9, <1>10, <1>11,
           <1>12, <1>13, <1>14, <1>15, <1>16, <1>17, <1>18, <1>19, <1>20, <1>21,
           <1>22, <1>23, <1>24, <1>25, <1>26, <1>27, <1>28, <1>29, <1>30, <1>31,
           <1>32, <1>33, <1>34, <1>35, <1>36, <1>37 DEF Next, Program, Emulate,
           Render

\* Nothing comes behind FINSH.
LEMMA EndingStep == IInv /\ [Next]_vars => Ending'
  <1> SUFFICES ASSUME IInv, [Next]_vars PROVE Ending'
    OBVIOUS
  <1>t. evqueue \in Seq(Events) /\ Ending
    BY DEF IInv
  <1>1. CASE \E m \in {"cycle", "erase", "change"} : WriteFBCR(m)
    BY <1>1, <1>t DEF WriteFBCR, bounds, flags, queues, vdp, Ending
  <1>2. CASE \E v \in PTMRValues : WritePTMR(v)
    BY <1>2, <1>t DEF WritePTMR, bounds, flags, queues, vdp, Ending
  <1>3. CASE WritePTMR1
    BY <1>3, <1>t DEF WritePTMR1, bounds, flags, queues, vdp, Ending
  <1>4. CASE WriteENDR
    BY <1>4, <1>t DEF WriteENDR, queues, vdp, Ending
  <1>5. CASE WriteRam
    BY <1>5, <1>t DEF WriteRam, bounds, flags, queues, vdp, Ending
  <1>6. CASE TouchFrameBuffer
    BY <1>6, <1>t DEF TouchFrameBuffer, bounds, emulation, flags, queues, vdp, Ending
  <1>7. CASE Reset
    BY <1>7, <1>t DEF Reset, flags, vdp, Ending
  <1>8. CASE HandOver
    BY <1>8, <1>t, Sending DEF HandOver, bounds, emulation, flags, vdp, Ending, Events
  <1>9. CASE DeInit
    BY <1>9, <1>t, Sending DEF DeInit, bounds, emulation, flags, vdp, Ending, Events
  <1>10. CASE Drain
    BY <1>10, <1>t DEF Drain, bounds, emulation, flags, vdp, Ending
  <1>11. CASE Trigger
    BY <1>11, <1>t, Sending DEF Trigger, bounds, vdp, Ending, Events
  <1>12. CASE LockVram
    BY <1>12, <1>t DEF LockVram, bounds, emulation, flags, queues, vdp, Ending
  <1>13. CASE HBlankOUT
    BY <1>13, <1>t DEF HBlankOUT, bounds, queues, vdp, Ending
  <1>14. CASE Change
    BY <1>14, <1>t DEF Change, bounds, queues, vdp, Ending
  <1>15. CASE DeferWait
    BY <1>15, <1>t DEF DeferWait, bounds, flags, queues, vdp, Ending
  <1>16. CASE SendVBlankOUT
    BY <1>16, <1>t, Sending
       DEF SendVBlankOUT, bounds, emulation, flags, vdp, Ending, Events
  <1>17. CASE PassLine
    BY <1>17, <1>t DEF PassLine, bounds, flags, queues, vdp, EndLine, Ending
  <1>18. CASE WaitDrawn
    BY <1>18, <1>t DEF WaitDrawn, bounds, emulation, flags, vdp, Ending
  <1>19. CASE ClearDrawn
    BY <1>19, <1>t DEF ClearDrawn, bounds, vdp, EndLine, Ending
  <1>20. CASE SendVBlankIN
    BY <1>20, <1>t, Sending
       DEF SendVBlankIN, bounds, emulation, flags, vdp, Ending, Events
  <1>21. CASE WaitRcv
    BY <1>21, <1>t DEF WaitRcv, bounds, emulation, flags, vdp, Ending
  <1>22. CASE WaitCommand
    BY <1>22, <1>t DEF WaitCommand, bounds, emulation, flags, vdp, Ending
  <1>23. CASE Restart
    BY <1>23, <1>t, EmptyHas DEF Restart, bounds, Ending
  <1>24. CASE Receive
    BY <1>24, <1>t, TailHas DEF Receive, bounds, emulation, flags, Ending, Events
  <1>25. CASE VBlankIN
    BY <1>25, <1>t DEF VBlankIN, bounds, emulation, flags, Ending
  <1>26. CASE HandedOver
    BY <1>26, <1>t DEF HandedOver, bounds, emulation, flags, Ending
  <1>27. CASE VBlankOUT
    BY <1>27, <1>t DEF VBlankOUT, bounds, emulation, queues, Ending
  <1>28. CASE Decide
    BY <1>28, <1>t DEF Decide, bounds, emulation, flags, queues, Ending
  <1>29. CASE Vdp1Draw
    BY <1>29, <1>t DEF Vdp1Draw, bounds, emulation, queues, Ending
  <1>30. CASE DrawingEnds
    BY <1>30, <1>t, AfterDraw DEF DrawingEnds, bounds, emulation, queues, Ending
  <1>31. CASE DrawingPauses
    BY <1>31, <1>t, AfterDraw DEF DrawingPauses, flags, queues, Ending
  <1>32. CASE Plotted
    BY <1>32, <1>t DEF Plotted, bounds, emulation, queues, Ending
  <1>33. CASE ReadWait
    BY <1>33, <1>t DEF ReadWait, bounds, emulation, flags, queues, Ending
  <1>34. CASE WriteWait
    BY <1>34, <1>t DEF WriteWait, bounds, flags, queues, Ending
  <1>35. CASE Tell
    BY <1>35, <1>t DEF Tell, bounds, emulation, flags, Ending
  <1>36. CASE DrawScreens
    BY <1>36, <1>t DEF DrawScreens, bounds, emulation, flags, queues, Ending
  <1>37. CASE UNCHANGED vars
    BY <1>37, <1>t DEF vars, bounds, emulation, flags, queues, vdp, EndLine, Ending
  <1>. QED BY <1>1, <1>2, <1>3, <1>4, <1>5, <1>6, <1>7, <1>8, <1>9, <1>10, <1>11,
           <1>12, <1>13, <1>14, <1>15, <1>16, <1>17, <1>18, <1>19, <1>20, <1>21,
           <1>22, <1>23, <1>24, <1>25, <1>26, <1>27, <1>28, <1>29, <1>30, <1>31,
           <1>32, <1>33, <1>34, <1>35, <1>36, <1>37 DEF Next, Program, Emulate,
           Render

\* A frame change stays on its way.
LEMMA SwappingStep == IInv /\ [Next]_vars => Swapping'
  <1> SUFFICES ASSUME IInv, [Next]_vars PROVE Swapping'
    OBVIOUS
  <1>t. evqueue \in Seq(Events) /\ Ending /\ Swapping /\ swap \in BOOLEAN
    <2>1. {swap} \subseteq BOOLEAN
      BY DEF IInv, TypeOK
    <2>. QED BY <2>1 DEF IInv
  <1>1. CASE \E m \in {"cycle", "erase", "change"} : WriteFBCR(m)
    BY <1>1, <1>t DEF WriteFBCR, bounds, flags, queues, vdp, Swapping
  <1>2. CASE \E v \in PTMRValues : WritePTMR(v)
    BY <1>2, <1>t DEF WritePTMR, bounds, flags, queues, vdp, Swapping
  <1>3. CASE WritePTMR1
    BY <1>3, <1>t DEF WritePTMR1, bounds, flags, queues, vdp, Swapping
  <1>4. CASE WriteENDR
    BY <1>4, <1>t DEF WriteENDR, queues, vdp, Swapping
  <1>5. CASE WriteRam
    BY <1>5, <1>t DEF WriteRam, bounds, flags, queues, vdp, Swapping
  <1>6. CASE TouchFrameBuffer
    BY <1>6, <1>t
       DEF TouchFrameBuffer, bounds, emulation, flags, queues, vdp, Swapping
  <1>7. CASE Reset
    BY <1>7, <1>t DEF Reset, flags, vdp, Swapping
  <1>8. CASE HandOver
    BY <1>8, <1>t, Sending
       DEF HandOver, bounds, emulation, flags, vdp, Swapping, Events
  <1>9. CASE DeInit
    BY <1>9, <1>t, Sending DEF DeInit, bounds, emulation, flags, vdp, Swapping, Events
  <1>10. CASE Drain
    BY <1>10, <1>t DEF Drain, bounds, emulation, flags, vdp, Swapping
  <1>11. CASE Trigger
    BY <1>11, <1>t, Sending DEF Trigger, bounds, vdp, Swapping, Events
  <1>12. CASE LockVram
    BY <1>12, <1>t DEF LockVram, bounds, emulation, flags, queues, vdp, Swapping
  <1>13. CASE HBlankOUT
    BY <1>13, <1>t DEF HBlankOUT, bounds, queues, vdp, Swapping
  <1>14. CASE Change
    BY <1>14, <1>t DEF Change, bounds, queues, vdp, Swapping
  <1>15. CASE DeferWait
    BY <1>15, <1>t DEF DeferWait, bounds, flags, queues, vdp, Swapping
  <1>16. CASE SendVBlankOUT
    BY <1>16, <1>t, Sending
       DEF SendVBlankOUT, bounds, emulation, flags, vdp, Swapping, Events
  <1>17. CASE PassLine
    BY <1>17, <1>t DEF PassLine, bounds, flags, queues, vdp, EndLine, Swapping
  <1>18. CASE WaitDrawn
    BY <1>18, <1>t DEF WaitDrawn, bounds, emulation, flags, vdp, Swapping
  <1>19. CASE ClearDrawn
    BY <1>19, <1>t DEF ClearDrawn, bounds, vdp, EndLine, Swapping
  <1>20. CASE SendVBlankIN
    BY <1>20, <1>t, Sending
       DEF SendVBlankIN, bounds, emulation, flags, vdp, Swapping, Events
  <1>21. CASE WaitRcv
    BY <1>21, <1>t DEF WaitRcv, bounds, emulation, flags, vdp, Swapping
  <1>22. CASE WaitCommand
    BY <1>22, <1>t DEF WaitCommand, bounds, emulation, flags, vdp, Swapping
  <1>23. CASE Restart
    BY <1>23, <1>t, EmptyHas DEF Restart, bounds, Swapping, Ending
  <1>24. CASE Receive
    BY <1>24, <1>t, TailHas DEF Receive, bounds, emulation, flags, Swapping, Events
  <1>25. CASE VBlankIN
    BY <1>25, <1>t DEF VBlankIN, bounds, emulation, flags, Swapping
  <1>26. CASE HandedOver
    BY <1>26, <1>t DEF HandedOver, bounds, emulation, flags, Swapping
  <1>27. CASE VBlankOUT
    BY <1>27, <1>t DEF VBlankOUT, bounds, emulation, queues, Swapping
  <1>28. CASE Decide
    BY <1>28, <1>t DEF Decide, bounds, emulation, flags, queues, Swapping
  <1>29. CASE Vdp1Draw
    BY <1>29, <1>t DEF Vdp1Draw, bounds, emulation, queues, Swapping
  <1>30. CASE DrawingEnds
    BY <1>30, <1>t, AfterDraw DEF DrawingEnds, bounds, emulation, queues, Swapping
  <1>31. CASE DrawingPauses
    BY <1>31, <1>t, AfterDraw DEF DrawingPauses, flags, queues, Swapping
  <1>32. CASE Plotted
    BY <1>32, <1>t DEF Plotted, bounds, emulation, queues, Swapping
  <1>33. CASE ReadWait
    BY <1>33, <1>t DEF ReadWait, bounds, emulation, flags, queues, Swapping
  <1>34. CASE WriteWait
    BY <1>34, <1>t DEF WriteWait, bounds, flags, queues, Swapping
  <1>35. CASE Tell
    BY <1>35, <1>t DEF Tell, bounds, emulation, flags, Swapping
  <1>36. CASE DrawScreens
    BY <1>36, <1>t DEF DrawScreens, bounds, emulation, flags, queues, Swapping
  <1>37. CASE UNCHANGED vars
    BY <1>37, <1>t DEF vars, bounds, emulation, flags, queues, vdp, EndLine, Swapping
  <1>. QED BY <1>1, <1>2, <1>3, <1>4, <1>5, <1>6, <1>7, <1>8, <1>9, <1>10, <1>11,
           <1>12, <1>13, <1>14, <1>15, <1>16, <1>17, <1>18, <1>19, <1>20, <1>21,
           <1>22, <1>23, <1>24, <1>25, <1>26, <1>27, <1>28, <1>29, <1>30, <1>31,
           <1>32, <1>33, <1>34, <1>35, <1>36, <1>37 DEF Next, Program, Emulate,
           Render

\* Why it draws stays known.
LEMMA CausedStep == IInv /\ [Next]_vars => Caused'
  <1> SUFFICES ASSUME IInv, [Next]_vars PROVE Caused'
    OBVIOUS
  <1>t. evqueue \in Seq(Events) /\ Caused
    BY DEF IInv
  <1>1. CASE \E m \in {"cycle", "erase", "change"} : WriteFBCR(m)
    BY <1>1, <1>t DEF WriteFBCR, bounds, flags, queues, vdp, Caused
  <1>2. CASE \E v \in PTMRValues : WritePTMR(v)
    BY <1>2, <1>t DEF WritePTMR, bounds, flags, queues, vdp, Caused
  <1>3. CASE WritePTMR1
    BY <1>3, <1>t DEF WritePTMR1, bounds, flags, queues, vdp, Caused
  <1>4. CASE WriteENDR
    BY <1>4, <1>t DEF WriteENDR, queues, vdp, Caused
  <1>5. CASE WriteRam
    BY <1>5, <1>t DEF WriteRam, bounds, flags, queues, vdp, Caused
  <1>6. CASE TouchFrameBuffer
    BY <1>6, <1>t DEF TouchFrameBuffer, bounds, emulation, flags, queues, vdp, Caused
  <1>7. CASE Reset
    BY <1>7, <1>t DEF Reset, flags, vdp, Caused
  <1>8. CASE HandOver
    BY <1>8, <1>t DEF HandOver, bounds, emulation, flags, vdp, Caused
  <1>9. CASE DeInit
    BY <1>9, <1>t DEF DeInit, bounds, emulation, flags, vdp, Caused
  <1>10. CASE Drain
    BY <1>10, <1>t DEF Drain, bounds, emulation, flags, vdp, Caused
  <1>11. CASE Trigger
    BY <1>11, <1>t DEF Trigger, bounds, vdp, Caused
  <1>12. CASE LockVram
    BY <1>12, <1>t DEF LockVram, bounds, emulation, flags, queues, vdp, Caused
  <1>13. CASE HBlankOUT
    BY <1>13, <1>t DEF HBlankOUT, bounds, queues, vdp, Caused
  <1>14. CASE Change
    BY <1>14, <1>t DEF Change, bounds, queues, vdp, Caused
  <1>15. CASE DeferWait
    BY <1>15, <1>t DEF DeferWait, bounds, flags, queues, vdp, Caused
  <1>16. CASE SendVBlankOUT
    BY <1>16, <1>t DEF SendVBlankOUT, bounds, emulation, flags, vdp, Caused
  <1>17. CASE PassLine
    BY <1>17, <1>t DEF PassLine, bounds, flags, queues, vdp, EndLine, Caused
  <1>18. CASE WaitDrawn
    BY <1>18, <1>t DEF WaitDrawn, bounds, emulation, flags, vdp, Caused
  <1>19. CASE ClearDrawn
    BY <1>19, <1>t DEF ClearDrawn, bounds, vdp, EndLine, Caused
  <1>20. CASE SendVBlankIN
    BY <1>20, <1>t DEF SendVBlankIN, bounds, emulation, flags, vdp, Caused
  <1>21. CASE WaitRcv
    BY <1>21, <1>t DEF WaitRcv, bounds, emulation, flags, vdp, Caused
  <1>22. CASE WaitCommand
    BY <1>22, <1>t DEF WaitCommand, bounds, emulation, flags, vdp, Caused
  <1>23. CASE Restart
    BY <1>23, <1>t DEF Restart, bounds, Caused
  <1>24. CASE Receive
    BY <1>24, <1>t, TailHas DEF Receive, bounds, emulation, flags, Caused, Events
  <1>25. CASE VBlankIN
    BY <1>25, <1>t DEF VBlankIN, bounds, emulation, flags, Caused
  <1>26. CASE HandedOver
    BY <1>26, <1>t DEF HandedOver, bounds, emulation, flags, Caused
  <1>27. CASE VBlankOUT
    BY <1>27, <1>t DEF VBlankOUT, bounds, emulation, queues, Caused
  <1>28. CASE Decide
    BY <1>28, <1>t DEF Decide, bounds, emulation, flags, queues, Caused
  <1>29. CASE Vdp1Draw
    BY <1>29, <1>t DEF Vdp1Draw, bounds, emulation, queues, Caused
  <1>30. CASE DrawingEnds
    BY <1>30, <1>t, AfterDraw DEF DrawingEnds, bounds, emulation, queues, Caused
  <1>31. CASE DrawingPauses
    BY <1>31, <1>t, AfterDraw DEF DrawingPauses, flags, queues, Caused
  <1>32. CASE Plotted
    BY <1>32, <1>t DEF Plotted, bounds, emulation, queues, Caused
  <1>33. CASE ReadWait
    BY <1>33, <1>t DEF ReadWait, bounds, emulation, flags, queues, Caused
  <1>34. CASE WriteWait
    BY <1>34, <1>t DEF WriteWait, bounds, flags, queues, Caused
  <1>35. CASE Tell
    BY <1>35, <1>t DEF Tell, bounds, emulation, flags, Caused
  <1>36. CASE DrawScreens
    BY <1>36, <1>t DEF DrawScreens, bounds, emulation, flags, queues, Caused
  <1>37. CASE UNCHANGED vars
    BY <1>37, <1>t DEF vars, bounds, emulation, flags, queues, vdp, EndLine, Caused
  <1>. QED BY <1>1, <1>2, <1>3, <1>4, <1>5, <1>6, <1>7, <1>8, <1>9, <1>10, <1>11,
           <1>12, <1>13, <1>14, <1>15, <1>16, <1>17, <1>18, <1>19, <1>20, <1>21,
           <1>22, <1>23, <1>24, <1>25, <1>26, <1>27, <1>28, <1>29, <1>30, <1>31,
           <1>32, <1>33, <1>34, <1>35, <1>36, <1>37 DEF Next, Program, Emulate,
           Render

\* The type of the state, its Boolean variables one by one.
Booleans ==
  /\ rendered \in BOOLEAN /\ clock \in BOOLEAN /\ manual \in BOOLEAN
  /\ swap \in BOOLEAN /\ plot \in BOOLEAN /\ drawing \in BOOLEAN /\ cef \in BOOLEAN

Typed ==
  /\ epc \in {"run", "late", "drain", "trigger", "lockVram", "change", "defer",
              "vout", "line", "waitDrawn", "clear", "vin", "waitRcv",
              "waitCommand", "join"}
  /\ line \in Lines /\ wait \in Waits /\ load \in Waits /\ seen \in Waits
  /\ fbcr \in {"cycle", "erase", "change"} /\ ptmr \in 0..2
  /\ stops \in 0..MaxStops /\ resets \in 0..MaxResets /\ pauses \in 0..MaxPauses
  /\ Len(evqueue) <= EvCapacity
  /\ rcv \in 0..RcvCapacity /\ drawn \in 0..RcvCapacity /\ command \in 0..1
  /\ vpc \in {"wait", "vin", "context", "vout", "decide", "draw", "drawing",
              "plotted", "read", "write", "tell", "screens", "stopped"}
  /\ cause \in {"none", "frame", "continue", "direct"}

LEMMA TypedIsType == TypeOK => Booleans /\ Typed
  <1>1. TypeOK => {rendered, clock, manual, swap, plot, drawing, cef} \subseteq BOOLEAN
    BY DEF TypeOK
  <1>2. TypeOK => Booleans
    BY <1>1, Zenon DEF Booleans
  <1>. QED BY <1>2 DEF TypeOK, Typed

\* The lines that are computed are lines of the frame.
LEMMA LinesInFrame ==
  /\ -1 \in Waits /\ 0 \in Lines /\ 0 \in Waits
  /\ \A l \in Lines : Direct(l) \in Waits /\ (l + 1) % MaxLineCount \in Lines
  /\ \A w \in Waits : Defer(w) \in Waits
  <1>1. /\ MaxLineCount \in Nat /\ VBlankLineCount \in Nat /\ 0 < VBlankLineCount
        /\ VBlankLineCount < MaxLineCount /\ PlotDelay \in Nat /\ 0 < PlotDelay
        /\ DirectDelay \in Nat /\ AvoidLine \in Nat /\ 0 < AvoidLine
    BY LinesAssumption
  <1>2. ASSUME NEW l \in Lines
        PROVE  Direct(l) \in Waits /\ (l + 1) % MaxLineCount \in Lines
    <2>1. l \in Nat
      BY <1>1 DEF Lines
    <2>2. /\ (l + DirectDelay) % MaxLineCount \in 0..(MaxLineCount - 1)
          /\ (l + 1) % MaxLineCount \in 0..(MaxLineCount - 1)
      BY <1>1, <2>1
    <2>. QED BY <1>1, <2>2 DEF Direct, Waits, Lines
  <1>3. ASSUME NEW w \in Waits PROVE Defer(w) \in Waits
    <2>1. w + PlotDelay \in Nat
      BY <1>1 DEF Waits
    <2>2. (w + PlotDelay) % VBlankLineCount \in 0..(VBlankLineCount - 1)
      BY <1>1, <2>1
    <2>. QED BY <1>1, <2>2 DEF Defer, Waits
  <1>. QED BY <1>1, <1>2, <1>3 DEF Waits, Lines

\* Every step keeps them Boolean.
LEMMA BooleansStep == IInv /\ [Next]_vars => Booleans'
  <1> SUFFICES ASSUME IInv, [Next]_vars PROVE Booleans'
    OBVIOUS
  <1>t. Booleans
    BY TypedIsType DEF IInv
  <1>1. CASE \E m \in {"cycle", "erase", "change"} : WriteFBCR(m)
    BY <1>1, <1>t DEF WriteFBCR, bounds, flags, queues, vdp, Booleans
  <1>2. CASE \E v \in PTMRValues : WritePTMR(v)
    BY <1>2, <1>t DEF WritePTMR, bounds, flags, queues, vdp, Booleans
  <1>3. CASE WritePTMR1
    BY <1>3, <1>t DEF WritePTMR1, bounds, flags, queues, vdp, Booleans
  <1>4. CASE WriteENDR
    BY <1>4, <1>t DEF WriteENDR, queues, vdp, Booleans
  <1>5. CASE WriteRam
    BY <1>5, <1>t DEF WriteRam, bounds, flags, queues, vdp, Booleans
  <1>6. CASE TouchFrameBuffer
    BY <1>6, <1>t
       DEF TouchFrameBuffer, bounds, emulation, flags, queues, vdp, Booleans
  <1>7. CASE Reset
    BY <1>7, <1>t DEF Reset, flags, vdp, Booleans
  <1>8. CASE HandOver
    BY <1>8, <1>t DEF HandOver, bounds, emulation, flags, vdp, Booleans
  <1>9. CASE DeInit
    BY <1>9, <1>t DEF DeInit, bounds, emulation, flags, vdp, Booleans
  <1>10. CASE Drain
    BY <1>10, <1>t DEF Drain, bounds, emulation, flags, vdp, Booleans
  <1>11. CASE Trigger
    BY <1>11, <1>t DEF Trigger, bounds, vdp, Booleans
  <1>12. CASE LockVram
    BY <1>12, <1>t DEF LockVram, bounds, emulation, flags, queues, vdp, Booleans
  <1>13. CASE HBlankOUT
    BY <1>13, <1>t DEF HBlankOUT, bounds, queues, vdp, Booleans
  <1>14. CASE Change
    BY <1>14, <1>t DEF Change, bounds, queues, vdp, Booleans
  <1>15. CASE DeferWait
    BY <1>15, <1>t DEF DeferWait, bounds, flags, queues, vdp, Booleans
  <1>16. CASE SendVBlankOUT
    BY <1>16, <1>t DEF SendVBlankOUT, bounds, emulation, flags, vdp, Booleans
  <1>17. CASE PassLine
    BY <1>17, <1>t DEF PassLine, bounds, flags, queues, vdp, EndLine, Booleans
  <1>18. CASE WaitDrawn
    BY <1>18, <1>t DEF WaitDrawn, bounds, emulation, flags, vdp, Booleans
  <1>19. CASE ClearDrawn
    BY <1>19, <1>t DEF ClearDrawn, bounds, vdp, EndLine, Booleans
  <1>20. CASE SendVBlankIN
    BY <1>20, <1>t DEF SendVBlankIN, bounds, emulation, flags, vdp, Booleans
  <1>21. CASE WaitRcv
    BY <1>21, <1>t DEF WaitRcv, bounds, emulation, flags, vdp, Booleans
  <1>22. CASE WaitCommand
    BY <1>22, <1>t DEF WaitCommand, bounds, emulation, flags, vdp, Booleans
  <1>23. CASE Restart
    BY <1>23, <1>t DEF Restart, bounds, Booleans
  <1>24. CASE Receive
    BY <1>24, <1>t DEF Receive, bounds, emulation, flags, Booleans
  <1>25. CASE VBlankIN
    BY <1>25, <1>t DEF VBlankIN, bounds, emulation, flags, Booleans
  <1>26. CASE HandedOver
    BY <1>26, <1>t DEF HandedOver, bounds, emulation, flags, Booleans
  <1>27. CASE VBlankOUT
    BY <1>27, <1>t DEF VBlankOUT, bounds, emulation, queues, Booleans
  <1>28. CASE Decide
    BY <1>28, <1>t DEF Decide, bounds, emulation, flags, queues, Booleans
  <1>29. CASE Vdp1Draw
    BY <1>29, <1>t DEF Vdp1Draw, bounds, emulation, queues, Booleans
  <1>30. CASE DrawingEnds
    BY <1>30, <1>t DEF DrawingEnds, bounds, emulation, queues, Booleans
  <1>31. CASE DrawingPauses
    BY <1>31, <1>t DEF DrawingPauses, flags, queues, Booleans
  <1>32. CASE Plotted
    BY <1>32, <1>t DEF Plotted, bounds, emulation, queues, Booleans
  <1>33. CASE ReadWait
    BY <1>33, <1>t DEF ReadWait, bounds, emulation, flags, queues, Booleans
  <1>34. CASE WriteWait
    BY <1>34, <1>t DEF WriteWait, bounds, flags, queues, Booleans
  <1>35. CASE Tell
    BY <1>35, <1>t DEF Tell, bounds, emulation, flags, Booleans
  <1>36. CASE DrawScreens
    BY <1>36, <1>t DEF DrawScreens, bounds, emulation, flags, queues, Booleans
  <1>37. CASE UNCHANGED vars
    BY <1>37, <1>t DEF vars, bounds, emulation, flags, queues, vdp, EndLine, Booleans
  <1>. QED BY <1>1, <1>2, <1>3, <1>4, <1>5, <1>6, <1>7, <1>8, <1>9, <1>10, <1>11,
           <1>12, <1>13, <1>14, <1>15, <1>16, <1>17, <1>18, <1>19, <1>20, <1>21,
           <1>22, <1>23, <1>24, <1>25, <1>26, <1>27, <1>28, <1>29, <1>30, <1>31,
           <1>32, <1>33, <1>34, <1>35, <1>36, <1>37 DEF Next, Program, Emulate,
           Render

\* Every step keeps the type.
LEMMA TypedStep == IInv /\ [Next]_vars => Typed'
  <1> SUFFICES ASSUME IInv, [Next]_vars PROVE Typed'
    OBVIOUS
  <1>t. Typed /\ evqueue \in Seq(Events)
    BY TypedIsType DEF IInv
  <1>c. /\ PTMRValues \subseteq 0..2 /\ MaxStops \in Nat /\ MaxResets \in Nat
        /\ MaxPauses \in Nat /\ RcvCapacity \in Nat /\ EvCapacity \in Nat
    BY ProgramAssumption, QueuesAssumption
  <1>1. CASE \E m \in {"cycle", "erase", "change"} : WriteFBCR(m)
    BY <1>1, <1>t, <1>c DEF WriteFBCR, bounds, flags, queues, vdp, Typed
  <1>2. CASE \E v \in PTMRValues : WritePTMR(v)
    BY <1>2, <1>t, <1>c DEF WritePTMR, bounds, flags, queues, vdp, Typed
  <1>3. CASE WritePTMR1
    BY <1>3, <1>t, <1>c, LinesInFrame
       DEF WritePTMR1, bounds, flags, queues, vdp, Typed
  <1>4. CASE WriteENDR
    BY <1>4, <1>t, <1>c, LinesInFrame DEF WriteENDR, queues, vdp, Typed
  <1>5. CASE WriteRam
    BY <1>5, <1>t, <1>c DEF WriteRam, bounds, flags, queues, vdp, Typed
  <1>6. CASE TouchFrameBuffer
    BY <1>6, <1>t, <1>c
       DEF TouchFrameBuffer, bounds, emulation, flags, queues, vdp, Typed
  <1>7. CASE Reset
    BY <1>7, <1>t, <1>c, LinesInFrame DEF Reset, flags, vdp, Typed
  <1>8. CASE HandOver
    BY <1>8, <1>t, <1>c, Sending, LinesInFrame
       DEF HandOver, bounds, emulation, flags, vdp, Typed, Events
  <1>9. CASE DeInit
    BY <1>9, <1>t, <1>c, Sending, LinesInFrame
       DEF DeInit, bounds, emulation, flags, vdp, Typed, Events
  <1>10. CASE Drain
    BY <1>10, <1>t, <1>c DEF Drain, bounds, emulation, flags, vdp, Typed
  <1>11. CASE Trigger
    BY <1>11, <1>t, <1>c, Sending, LinesInFrame
       DEF Trigger, bounds, vdp, Typed, Events
  <1>12. CASE LockVram
    BY <1>12, <1>t, <1>c DEF LockVram, bounds, emulation, flags, queues, vdp, Typed
  <1>13. CASE HBlankOUT
    BY <1>13, <1>t, <1>c DEF HBlankOUT, bounds, queues, vdp, Typed
  <1>14. CASE Change
    BY <1>14, <1>t, <1>c DEF Change, bounds, queues, vdp, Typed
  <1>15. CASE DeferWait
    BY <1>15, <1>t, <1>c, LinesInFrame
       DEF DeferWait, bounds, flags, queues, vdp, Typed
  <1>16. CASE SendVBlankOUT
    BY <1>16, <1>t, <1>c, Sending, LinesInFrame
       DEF SendVBlankOUT, bounds, emulation, flags, vdp, Typed, Events
  <1>17. CASE PassLine
    BY <1>17, <1>t, <1>c, LinesInFrame
       DEF PassLine, bounds, flags, queues, vdp, EndLine, Typed
  <1>18. CASE WaitDrawn
    BY <1>18, <1>t, <1>c DEF WaitDrawn, bounds, emulation, flags, vdp, Typed
  <1>19. CASE ClearDrawn
    BY <1>19, <1>t, <1>c, LinesInFrame DEF ClearDrawn, bounds, vdp, EndLine, Typed
  <1>20. CASE SendVBlankIN
    BY <1>20, <1>t, <1>c, Sending, LinesInFrame
       DEF SendVBlankIN, bounds, emulation, flags, vdp, Typed, Events
  <1>21. CASE WaitRcv
    BY <1>21, <1>t, <1>c DEF WaitRcv, bounds, emulation, flags, vdp, Typed
  <1>22. CASE WaitCommand
    BY <1>22, <1>t, <1>c DEF WaitCommand, bounds, emulation, flags, vdp, Typed
  <1>23. CASE Restart
    BY <1>23, <1>t, <1>c, LinesInFrame DEF Restart, bounds, Typed
  <1>24. CASE Receive
    BY <1>24, <1>t, <1>c, TailHas DEF Receive, bounds, emulation, flags, Typed, Events
  <1>25. CASE VBlankIN
    BY <1>25, <1>t, <1>c DEF VBlankIN, bounds, emulation, flags, Typed
  <1>26. CASE HandedOver
    BY <1>26, <1>t, <1>c DEF HandedOver, bounds, emulation, flags, Typed
  <1>27. CASE VBlankOUT
    BY <1>27, <1>t, <1>c DEF VBlankOUT, bounds, emulation, queues, Typed
  <1>28. CASE Decide
    BY <1>28, <1>t, <1>c DEF Decide, bounds, emulation, flags, queues, Typed
  <1>29. CASE Vdp1Draw
    BY <1>29, <1>t, <1>c DEF Vdp1Draw, bounds, emulation, queues, Typed
  <1>30. CASE DrawingEnds
    BY <1>30, <1>t, <1>c, AfterDraw DEF DrawingEnds, bounds, emulation, queues, Typed
  <1>31. CASE DrawingPauses
    BY <1>31, <1>t, <1>c, AfterDraw DEF DrawingPauses, flags, queues, Typed
  <1>32. CASE Plotted
    BY <1>32, <1>t, <1>c DEF Plotted, bounds, emulation, queues, Typed
  <1>33. CASE ReadWait
    BY <1>33, <1>t, <1>c DEF ReadWait, bounds, emulation, flags, queues, Typed
  <1>34. CASE WriteWait
    BY <1>34, <1>t, <1>c, LinesInFrame DEF WriteWait, bounds, flags, queues, Typed
  <1>35. CASE Tell
    BY <1>35, <1>t, <1>c DEF Tell, bounds, emulation, flags, Typed
  <1>36. CASE DrawScreens
    BY <1>36, <1>t, <1>c DEF DrawScreens, bounds, emulation, flags, queues, Typed
  <1>37. CASE UNCHANGED vars
    BY <1>37, <1>t, <1>c
       DEF vars, bounds, emulation, flags, queues, vdp, EndLine, Typed
  <1>. QED BY <1>1, <1>2, <1>3, <1>4, <1>5, <1>6, <1>7, <1>8, <1>9, <1>10, <1>11,
           <1>12, <1>13, <1>14, <1>15, <1>16, <1>17, <1>18, <1>19, <1>20, <1>21,
           <1>22, <1>23, <1>24, <1>25, <1>26, <1>27, <1>28, <1>29, <1>30, <1>31,
           <1>32, <1>33, <1>34, <1>35, <1>36, <1>37 DEF Next, Program, Emulate,
           Render

\* The queue holds events.
LEMMA QueueStep == IInv /\ [Next]_vars => evqueue' \in Seq(Events)
  <1> SUFFICES ASSUME IInv, [Next]_vars PROVE evqueue' \in Seq(Events)
    OBVIOUS
  <1>t. evqueue \in Seq(Events)
    BY DEF IInv
  <1>1. CASE \E m \in {"cycle", "erase", "change"} : WriteFBCR(m)
    BY <1>1, <1>t DEF WriteFBCR, bounds, flags, queues, vdp
  <1>2. CASE \E v \in PTMRValues : WritePTMR(v)
    BY <1>2, <1>t DEF WritePTMR, bounds, flags, queues, vdp
  <1>3. CASE WritePTMR1
    BY <1>3, <1>t DEF WritePTMR1, bounds, flags, queues, vdp
  <1>4. CASE WriteENDR
    BY <1>4, <1>t DEF WriteENDR, queues, vdp
  <1>5. CASE WriteRam
    BY <1>5, <1>t DEF WriteRam, bounds, flags, queues, vdp
  <1>6. CASE TouchFrameBuffer
    BY <1>6, <1>t DEF TouchFrameBuffer, bounds, emulation, flags, queues, vdp
  <1>7. CASE Reset
    BY <1>7, <1>t DEF Reset, flags, vdp
  <1>8. CASE HandOver
    BY <1>8, <1>t, Sending DEF HandOver, Events
  <1>9. CASE DeInit
    BY <1>9, <1>t, Sending DEF DeInit, Events
  <1>10. CASE Drain
    BY <1>10, <1>t DEF Drain, bounds, emulation, flags, vdp
  <1>11. CASE Trigger
    BY <1>11, <1>t, Sending DEF Trigger, Events
  <1>12. CASE LockVram
    BY <1>12, <1>t DEF LockVram, bounds, emulation, flags, queues, vdp
  <1>13. CASE HBlankOUT
    BY <1>13, <1>t DEF HBlankOUT, bounds, queues, vdp
  <1>14. CASE Change
    BY <1>14, <1>t DEF Change, bounds, queues, vdp
  <1>15. CASE DeferWait
    BY <1>15, <1>t DEF DeferWait, bounds, flags, queues, vdp
  <1>16. CASE SendVBlankOUT
    BY <1>16, <1>t, Sending DEF SendVBlankOUT, Events
  <1>17. CASE PassLine
    BY <1>17, <1>t DEF PassLine, bounds, flags, queues, vdp, EndLine
  <1>18. CASE WaitDrawn
    BY <1>18, <1>t DEF WaitDrawn, bounds, emulation, flags, vdp
  <1>19. CASE ClearDrawn
    BY <1>19, <1>t DEF ClearDrawn, bounds, vdp, EndLine
  <1>20. CASE SendVBlankIN
    BY <1>20, <1>t, Sending DEF SendVBlankIN, Events
  <1>21. CASE WaitRcv
    BY <1>21, <1>t DEF WaitRcv, bounds, emulation, flags, vdp
  <1>22. CASE WaitCommand
    BY <1>22, <1>t DEF WaitCommand, bounds, emulation, flags, vdp
  <1>23. CASE Restart
    BY <1>23, <1>t DEF Restart, bounds
  <1>24. CASE Receive
    BY <1>24, <1>t, TailHas DEF Receive
  <1>25. CASE VBlankIN
    BY <1>25, <1>t DEF VBlankIN, bounds, emulation, flags
  <1>26. CASE HandedOver
    BY <1>26, <1>t DEF HandedOver, bounds, emulation, flags
  <1>27. CASE VBlankOUT
    BY <1>27, <1>t DEF VBlankOUT, bounds, emulation, queues
  <1>28. CASE Decide
    BY <1>28, <1>t DEF Decide, bounds, emulation, flags, queues
  <1>29. CASE Vdp1Draw
    BY <1>29, <1>t DEF Vdp1Draw, bounds, emulation, queues
  <1>30. CASE DrawingEnds
    BY <1>30, <1>t DEF DrawingEnds, bounds, emulation, queues
  <1>31. CASE DrawingPauses
    BY <1>31, <1>t DEF DrawingPauses, flags, queues
  <1>32. CASE Plotted
    BY <1>32, <1>t DEF Plotted, bounds, emulation, queues
  <1>33. CASE ReadWait
    BY <1>33, <1>t DEF ReadWait, bounds, emulation, flags, queues
  <1>34. CASE WriteWait
    BY <1>34, <1>t DEF WriteWait, bounds, flags, queues
  <1>35. CASE Tell
    BY <1>35, <1>t DEF Tell, bounds, emulation, flags
  <1>36. CASE DrawScreens
    BY <1>36, <1>t DEF DrawScreens, bounds, emulation, flags, queues
  <1>37. CASE UNCHANGED vars
    BY <1>37, <1>t DEF vars, bounds, emulation, flags, queues, vdp, EndLine
  <1>. QED BY <1>1, <1>2, <1>3, <1>4, <1>5, <1>6, <1>7, <1>8, <1>9, <1>10, <1>11,
           <1>12, <1>13, <1>14, <1>15, <1>16, <1>17, <1>18, <1>19, <1>20, <1>21,
           <1>22, <1>23, <1>24, <1>25, <1>26, <1>27, <1>28, <1>29, <1>30, <1>31,
           <1>32, <1>33, <1>34, <1>35, <1>36, <1>37 DEF Next, Program, Emulate,
           Render

\* The inductive invariant holds.
THEOREM Invariance == Spec => []IInv
  <1>1. Init => IInv
    <2> SUFFICES ASSUME Init PROVE IInv
      OBVIOUS
    <2>1. Typed
      BY LinesInFrame, QueuesAssumption, ProgramAssumption DEF Init, Start, Typed
    <2>2. evqueue \in Seq(Events) /\ evqueue = << >>
      BY EmptySeq DEF Init, Start
    <2>3. Blocked /\ Ending
      BY <2>2, EmptyHas DEF Init, Start, Blocked, Ending
    <2>4. Caused /\ Swapping
      BY DEF Init, Start, Caused, Swapping
    <2>7. Booleans
      BY DEF Init, Start, Booleans
    <2>5. {rendered, clock, manual, swap, plot, drawing, cef} \subseteq BOOLEAN
      BY <2>7, Zenon DEF Booleans
    <2>6. TypeOK
      BY <2>1, <2>5 DEF Typed, TypeOK
    <2>. QED BY <2>2, <2>3, <2>4, <2>6 DEF IInv
  <1>2. IInv /\ [Next]_vars => IInv'
    <2> SUFFICES ASSUME IInv, [Next]_vars PROVE IInv'
      OBVIOUS
    <2>1. Typed' /\ Booleans'
      BY TypedStep, BooleansStep
    <2>2. {rendered, clock, manual, swap, plot, drawing, cef}' \subseteq BOOLEAN
      BY <2>1, Zenon DEF Booleans
    <2>3. TypeOK'
      BY <2>1, <2>2 DEF Typed, TypeOK
    <2>. QED BY <2>3, QueueStep, BlockedStep, EndingStep, CausedStep, SwappingStep
             DEF IInv
  <1>. QED BY <1>1, <1>2, PTL DEF Spec

\* TypeOK for every number of lines, delay and capacity: the lines that are waited for
\* lie in the frame, and no queue holds more than it can.
THEOREM TypeCorrect == Spec => []TypeOK
  <1>1. IInv => TypeOK
    BY DEF IInv
  <1>. QED BY <1>1, Invariance, PTL

\* VBlankINIsAlone: the VDP thread touches the state of the SCU, which has no lock, only
\* between the VBLANK_IN of the emulation thread and the answer it waits for,
\* over resets, restarts and a context that is handed over too.
THEOREM VBlankINsAreAlone == Spec => []VBlankINIsAlone
  <1>1. IInv => VBlankINIsAlone
    <2> SUFFICES ASSUME IInv PROVE VBlankINIsAlone
      OBVIOUS
    <2>1. Blocked /\ rcv \in 0..RcvCapacity
      BY DEF IInv, TypeOK
    <2>2. Sent("VBLANK_IN") => Has(evqueue, "VBLANK_IN")
      BY DEF Sent, Has
    <2>. QED BY <2>1, <2>2 DEF Blocked, VBlankINIsAlone
  <1>. QED BY <1>1, Invariance, PTL

\* SwapIsOnItsWay: swap_frame_buffer never stays up without the VBLANK_OUT that will
\* swap the frame buffers, so that no frame change is lost or done twice.
THEOREM SwapsAreOnTheirWay == Spec => []SwapIsOnItsWay
  <1>1. IInv => SwapIsOnItsWay
    <2> SUFFICES ASSUME IInv PROVE SwapIsOnItsWay
      OBVIOUS
    <2>1. Has(evqueue, "VBLANK_OUT") => Sent("VBLANK_OUT")
      BY DEF Sent, Has
    <2>. QED BY <2>1 DEF IInv, Swapping, SwapIsOnItsWay
  <1>. QED BY <1>1, Invariance, PTL

-----------------------------------------------------------------------------
(* The wait for a drawing.  It is answered if the frame change is made before
   VBlank-IN, when the two threads meet: then no frame change is on its way when
   the next one sets frame_change_plot again.  A program that writes to VDP1's
   memory on every line of the picture moves the frame change into the blank. *)

\* there is a line of the picture on which the program leaves VDP1's memory alone
LeavesRoom == \E l \in 1..(VBlankLineCount - 1) : l \notin RamLines

\* the line on which the frame is changed at the latest
ChangeLine == CHOOSE l \in 1..(VBlankLineCount - 1) : l \notin RamLines

\* in the line, before its end; and in the frame change at its end
Inside   == epc \in {"run", "late", "drain", "trigger", "lockVram"}
Changing == epc \in {"change", "defer", "vout"}

\* the frame is changed in the picture, at ChangeLine at the latest
Begun ==
  /\ line = 0 => rendered \/ ~clock
  /\ line = ChangeLine /\ Inside => clock
  /\ line = ChangeLine /\ ~Inside => rendered
  /\ line > ChangeLine => rendered
  /\ Changing => rendered /\ line \in 1..ChangeLine
  /\ epc \in {"vin", "waitRcv"} => line = VBlankLineCount
  /\ epc = "waitCommand" => line = 0

\* when VBlank-IN is handled, and until the emulation thread goes on, the queue is
\* empty and the VDP thread has nothing else to do
Meeting ==
  /\ Final(evqueue, "VBLANK_IN")
  /\ vpc = "vin" => evqueue = << >>
  /\ epc = "waitRcv" /\ rcv > 0 => evqueue = << >> /\ vpc = "wait"

\* the frame change of this frame is still to come, or the one of the last is over
Early ==
  /\ epc \notin {"vin", "waitRcv"}
  /\ \/ line >= VBlankLineCount \/ line = 0 \/ ~rendered
     \/ line = 1 /\ Inside

\* a code is there, or a drawing that sends one whatever becomes of the flags
CodeComes ==
  \/ drawn > 0 \/ Has(evqueue, "DIRECT_DRAW")
  \/ vpc \in {"draw", "drawing", "plotted", "read", "write", "tell"}

\* the emulation thread is about to set wait_line_count itself
Replaced == epc \in {"drain", "trigger", "clear"}

\* the frame change that is prepared, sent or handled draws
Draws ==
  \/ epc \in {"defer", "vout"} /\ swap /\ plot
  \/ (Has(evqueue, "VBLANK_OUT") \/ vpc = "vout") /\ ((swap /\ plot) \/ drawing)
  \/ vpc = "decide" /\ (plot \/ drawing)

\* what is waited for comes, or is no longer waited for
Answering ==
  /\ epc = "waitDrawn" => wait # -1
  /\ Early /\ wait # -1 => CodeComes \/ Replaced
  /\ wait # -1 \/ epc = "defer" => CodeComes \/ Replaced \/ Draws

\* what the wait for a drawing needs beside IInv
WInv == Begun /\ Meeting /\ Answering

\* The line at which the frame is changed is in the picture, and the lines follow
\* each other.
LEMMA ChangeInPicture ==
  ASSUME LeavesRoom
  PROVE  /\ ChangeLine \in Nat /\ 0 < ChangeLine /\ ChangeLine < VBlankLineCount
         /\ ChangeLine \notin RamLines
         /\ VBlankLineCount \in Nat /\ VBlankLineCount < MaxLineCount
         /\ MaxLineCount \in Nat
  <1>1. ChangeLine \in 1..(VBlankLineCount - 1) /\ ChangeLine \notin RamLines
    BY Zenon DEF LeavesRoom, ChangeLine
  <1>2. VBlankLineCount \in Nat /\ MaxLineCount \in Nat /\ VBlankLineCount < MaxLineCount
    BY LinesAssumption
  <1>. QED BY <1>1, <1>2

\* A line is followed by the next one, and the last one by line 0.
LEMMA NextLine ==
  ASSUME line \in Lines
  PROVE  /\ line \in Nat /\ line < MaxLineCount
         /\ (line + 1) % MaxLineCount = IF line + 1 = MaxLineCount THEN 0 ELSE line + 1
  <1>1. line \in Nat /\ MaxLineCount \in Nat /\ line < MaxLineCount
    BY LinesAssumption DEF Lines
  <1>2. CASE line + 1 = MaxLineCount
    BY <1>1, <1>2
  <1>3. CASE line + 1 < MaxLineCount
    BY <1>1, <1>3
  <1>. QED BY <1>1, <1>2, <1>3

\* A drawing that is deferred is waited for on a line.
LEMMA DeferIsLine == ASSUME NEW w \in Waits PROVE Defer(w) # -1
  <1>1. w + PlotDelay \in Nat /\ VBlankLineCount \in Nat \ {0}
    BY LinesAssumption DEF Waits
  <1>2. (w + PlotDelay) % VBlankLineCount \in 0..(VBlankLineCount - 1)
    BY <1>1
  <1>. QED BY <1>1, <1>2 DEF Defer

\* The frame is changed in the picture.
LEMMA BegunStep == ASSUME LeavesRoom PROVE IInv /\ WInv /\ [Next]_vars => Begun'
  <1> SUFFICES ASSUME IInv, WInv, [Next]_vars PROVE Begun'
    OBVIOUS
  <1>t. Begun /\ line \in Lines
    BY DEF IInv, TypeOK, WInv
  <1>1. CASE \E m \in {"cycle", "erase", "change"} : WriteFBCR(m)
    BY <1>1, <1>t DEF WriteFBCR, bounds, flags, queues, vdp, Begun, Inside, Changing
  <1>2. CASE \E v \in PTMRValues : WritePTMR(v)
    BY <1>2, <1>t DEF WritePTMR, bounds, flags, queues, vdp, Begun, Inside, Changing
  <1>3. CASE WritePTMR1
    BY <1>3, <1>t
       DEF WritePTMR1, bounds, flags, queues, vdp, Begun, Inside, Changing
  <1>4. CASE WriteENDR
    BY <1>4, <1>t DEF WriteENDR, queues, vdp, Begun, Inside, Changing
  <1>5. CASE WriteRam
    BY <1>5, <1>t, ChangeInPicture
       DEF WriteRam, bounds, flags, queues, vdp, Begun, Inside, Changing
  <1>6. CASE TouchFrameBuffer
    BY <1>6, <1>t
       DEF TouchFrameBuffer, bounds, emulation, flags, queues, vdp, Begun, Inside,
           Changing
  <1>7. CASE Reset
    BY <1>7, <1>t, ChangeInPicture DEF Reset, flags, vdp, Begun, Inside, Changing
  <1>8. CASE HandOver
    BY <1>8, <1>t, Sending, ChangeInPicture
       DEF HandOver, bounds, emulation, flags, vdp, Events, Begun, Inside, Changing
  <1>9. CASE DeInit
    BY <1>9, <1>t, Sending
       DEF DeInit, bounds, emulation, flags, vdp, Events, Begun, Inside, Changing
  <1>10. CASE Drain
    BY <1>10, <1>t DEF Drain, bounds, emulation, flags, vdp, Begun, Inside, Changing
  <1>11. CASE Trigger
    BY <1>11, <1>t, Sending
       DEF Trigger, bounds, vdp, Events, Begun, Inside, Changing
  <1>12. CASE LockVram
    BY <1>12, <1>t
       DEF LockVram, bounds, emulation, flags, queues, vdp, Begun, Inside, Changing
  <1>13. CASE HBlankOUT
    <2>1. CASE FrameBegins
      <3>1. epc' = "change" /\ rendered' /\ line' = line /\ clock' = clock
        BY <1>13, <2>1, Zenon DEF HBlankOUT
      <3>2. clock /\ epc \in {"run", "late"}
        BY <1>13, <2>1 DEF HBlankOUT, FrameBegins
      <3>3. line # 0 /\ ~(line > ChangeLine)
        <4>1. ~(line # 1 /\ rendered) /\ clock
          BY <2>1, Zenon DEF FrameBegins
        <4>. QED BY <4>1, <1>t, ChangeInPicture DEF Begun
      <3>. QED BY <3>1, <3>2, <3>3, <1>t, ChangeInPicture, NextLine
               DEF Begun, Inside, Changing
    <2>2. CASE ~FrameBegins
      <3>1. epc' = "line" /\ line' = line /\ clock' = clock
            /\ (line # 1 /\ rendered => rendered') /\ epc \in {"run", "late"}
        BY <1>13, <2>2, Zenon DEF HBlankOUT
      <3>2. (line # 1 /\ rendered) \/ ~clock
        BY <2>2, Zenon DEF FrameBegins
      <3>. QED BY <3>1, <3>2, <1>t, ChangeInPicture, NextLine
               DEF Begun, Inside, Changing
    <2>. QED BY <2>1, <2>2
  <1>14. CASE Change
    BY <1>14, <1>t DEF Change, bounds, queues, vdp, Begun, Inside, Changing
  <1>15. CASE DeferWait
    BY <1>15, <1>t
       DEF DeferWait, bounds, flags, queues, vdp, Begun, Inside, Changing
  <1>16. CASE SendVBlankOUT
    BY <1>16, <1>t, Sending
       DEF SendVBlankOUT, bounds, emulation, flags, vdp, Events, Begun, Inside,
           Changing
  <1>17. CASE PassLine
    BY <1>17, <1>t, ChangeInPicture, NextLine
       DEF PassLine, bounds, flags, queues, vdp, EndLine, Begun, Inside, Changing
  <1>18. CASE WaitDrawn
    BY <1>18, <1>t
       DEF WaitDrawn, bounds, emulation, flags, vdp, Begun, Inside, Changing
  <1>19. CASE ClearDrawn
    BY <1>19, <1>t, ChangeInPicture, NextLine
       DEF ClearDrawn, bounds, vdp, EndLine, Begun, Inside, Changing
  <1>20. CASE SendVBlankIN
    BY <1>20, <1>t, Sending, ChangeInPicture
       DEF SendVBlankIN, bounds, emulation, flags, vdp, Events, Begun, Inside,
           Changing
  <1>21. CASE WaitRcv
    BY <1>21, <1>t, ChangeInPicture
       DEF WaitRcv, bounds, emulation, flags, vdp, Begun, Inside, Changing
  <1>22. CASE WaitCommand
    BY <1>22, <1>t, ChangeInPicture
       DEF WaitCommand, bounds, emulation, flags, vdp, Begun, Inside, Changing
  <1>23. CASE Restart
    BY <1>23, <1>t, EmptyHas, ChangeInPicture
       DEF Restart, bounds, Begun, Inside, Changing
  <1>24. CASE Receive
    BY <1>24, <1>t, TailHas
       DEF Receive, bounds, emulation, flags, Events, Begun, Inside, Changing
  <1>25. CASE VBlankIN
    BY <1>25, <1>t DEF VBlankIN, bounds, emulation, flags, Begun, Inside, Changing
  <1>26. CASE HandedOver
    BY <1>26, <1>t DEF HandedOver, bounds, emulation, flags, Begun, Inside, Changing
  <1>27. CASE VBlankOUT
    BY <1>27, <1>t DEF VBlankOUT, bounds, emulation, queues, Begun, Inside, Changing
  <1>28. CASE Decide
    BY <1>28, <1>t
       DEF Decide, bounds, emulation, flags, queues, Begun, Inside, Changing
  <1>29. CASE Vdp1Draw
    BY <1>29, <1>t DEF Vdp1Draw, bounds, emulation, queues, Begun, Inside, Changing
  <1>30. CASE DrawingEnds
    BY <1>30, <1>t, AfterDraw
       DEF DrawingEnds, bounds, emulation, queues, Begun, Inside, Changing
  <1>31. CASE DrawingPauses
    BY <1>31, <1>t, AfterDraw
       DEF DrawingPauses, flags, queues, Begun, Inside, Changing
  <1>32. CASE Plotted
    BY <1>32, <1>t DEF Plotted, bounds, emulation, queues, Begun, Inside, Changing
  <1>33. CASE ReadWait
    BY <1>33, <1>t
       DEF ReadWait, bounds, emulation, flags, queues, Begun, Inside, Changing
  <1>34. CASE WriteWait
    BY <1>34, <1>t DEF WriteWait, bounds, flags, queues, Begun, Inside, Changing
  <1>35. CASE Tell
    BY <1>35, <1>t DEF Tell, bounds, emulation, flags, Begun, Inside, Changing
  <1>36. CASE DrawScreens
    BY <1>36, <1>t
       DEF DrawScreens, bounds, emulation, flags, queues, Begun, Inside, Changing
  <1>37. CASE UNCHANGED vars
    BY <1>37, <1>t
       DEF vars, bounds, emulation, flags, queues, vdp, EndLine, Begun, Inside,
           Changing
  <1>. QED BY <1>1, <1>2, <1>3, <1>4, <1>5, <1>6, <1>7, <1>8, <1>9, <1>10, <1>11,
           <1>12, <1>13, <1>14, <1>15, <1>16, <1>17, <1>18, <1>19, <1>20, <1>21,
           <1>22, <1>23, <1>24, <1>25, <1>26, <1>27, <1>28, <1>29, <1>30, <1>31,
           <1>32, <1>33, <1>34, <1>35, <1>36, <1>37 DEF Next, Program, Emulate,
           Render

\* The threads meet at VBlank-IN with nothing left in the queue.
LEMMA MeetingStep == IInv /\ WInv /\ [Next]_vars => Meeting'
  <1> SUFFICES ASSUME IInv, WInv, [Next]_vars PROVE Meeting'
    OBVIOUS
  <1>t. /\ evqueue \in Seq(Events) /\ Meeting /\ Blocked
        /\ evqueue = << >> => ~Has(evqueue, "FINSH")
    BY EmptyHas DEF IInv, WInv
  <1>1. CASE \E m \in {"cycle", "erase", "change"} : WriteFBCR(m)
    BY <1>1, <1>t DEF WriteFBCR, bounds, flags, queues, vdp, Meeting
  <1>2. CASE \E v \in PTMRValues : WritePTMR(v)
    BY <1>2, <1>t DEF WritePTMR, bounds, flags, queues, vdp, Meeting
  <1>3. CASE WritePTMR1
    BY <1>3, <1>t DEF WritePTMR1, bounds, flags, queues, vdp, Meeting
  <1>4. CASE WriteENDR
    BY <1>4, <1>t DEF WriteENDR, queues, vdp, Meeting
  <1>5. CASE WriteRam
    BY <1>5, <1>t DEF WriteRam, bounds, flags, queues, vdp, Meeting
  <1>6. CASE TouchFrameBuffer
    BY <1>6, <1>t
       DEF TouchFrameBuffer, bounds, emulation, flags, queues, vdp, Meeting, Blocked
  <1>7. CASE Reset
    BY <1>7, <1>t DEF Reset, flags, vdp, Meeting
  <1>8. CASE HandOver
    BY <1>8, <1>t, Sending
       DEF HandOver, bounds, emulation, flags, vdp, Events, Meeting, Blocked
  <1>9. CASE DeInit
    BY <1>9, <1>t, Sending
       DEF DeInit, bounds, emulation, flags, vdp, Events, Meeting, Blocked
  <1>10. CASE Drain
    BY <1>10, <1>t DEF Drain, bounds, emulation, flags, vdp, Meeting, Blocked
  <1>11. CASE Trigger
    BY <1>11, <1>t, Sending DEF Trigger, bounds, vdp, Events, Meeting, Blocked
  <1>12. CASE LockVram
    BY <1>12, <1>t DEF LockVram, bounds, emulation, flags, queues, vdp, Meeting
  <1>13. CASE HBlankOUT
    BY <1>13, <1>t DEF HBlankOUT, bounds, queues, vdp, Meeting
  <1>14. CASE Change
    BY <1>14, <1>t DEF Change, bounds, queues, vdp, Meeting
  <1>15. CASE DeferWait
    BY <1>15, <1>t DEF DeferWait, bounds, flags, queues, vdp, Meeting
  <1>16. CASE SendVBlankOUT
    BY <1>16, <1>t, Sending
       DEF SendVBlankOUT, bounds, emulation, flags, vdp, Events, Meeting, Blocked
  <1>17. CASE PassLine
    BY <1>17, <1>t DEF PassLine, bounds, flags, queues, vdp, EndLine, Meeting
  <1>18. CASE WaitDrawn
    BY <1>18, <1>t DEF WaitDrawn, bounds, emulation, flags, vdp, Meeting
  <1>19. CASE ClearDrawn
    BY <1>19, <1>t DEF ClearDrawn, bounds, vdp, EndLine, Meeting
  <1>20. CASE SendVBlankIN
    BY <1>20, <1>t, Sending
       DEF SendVBlankIN, bounds, emulation, flags, vdp, Events, Meeting, Blocked
  <1>21. CASE WaitRcv
    BY <1>21, <1>t DEF WaitRcv, bounds, emulation, flags, vdp, Meeting, Blocked
  <1>22. CASE WaitCommand
    BY <1>22, <1>t DEF WaitCommand, bounds, emulation, flags, vdp, Meeting
  <1>23. CASE Restart
    BY <1>23, <1>t, EmptyHas DEF Restart, bounds, Meeting
  <1>24. CASE Receive
    BY <1>24, <1>t, TailHas
       DEF Receive, bounds, emulation, flags, Events, Meeting, Blocked
  <1>25. CASE VBlankIN
    BY <1>25, <1>t DEF VBlankIN, bounds, emulation, flags, Meeting, Blocked
  <1>26. CASE HandedOver
    BY <1>26, <1>t DEF HandedOver, bounds, emulation, flags, Meeting, Blocked
  <1>27. CASE VBlankOUT
    BY <1>27, <1>t DEF VBlankOUT, bounds, emulation, queues, Meeting
  <1>28. CASE Decide
    BY <1>28, <1>t DEF Decide, bounds, emulation, flags, queues, Meeting
  <1>29. CASE Vdp1Draw
    BY <1>29, <1>t DEF Vdp1Draw, bounds, emulation, queues, Meeting
  <1>30. CASE DrawingEnds
    BY <1>30, <1>t, AfterDraw DEF DrawingEnds, bounds, emulation, queues, Meeting
  <1>31. CASE DrawingPauses
    BY <1>31, <1>t, AfterDraw DEF DrawingPauses, flags, queues, Meeting
  <1>32. CASE Plotted
    BY <1>32, <1>t DEF Plotted, bounds, emulation, queues, Meeting
  <1>33. CASE ReadWait
    BY <1>33, <1>t DEF ReadWait, bounds, emulation, flags, queues, Meeting
  <1>34. CASE WriteWait
    BY <1>34, <1>t DEF WriteWait, bounds, flags, queues, Meeting
  <1>35. CASE Tell
    BY <1>35, <1>t DEF Tell, bounds, emulation, flags, Meeting
  <1>36. CASE DrawScreens
    BY <1>36, <1>t DEF DrawScreens, bounds, emulation, flags, queues, Meeting
  <1>37. CASE UNCHANGED vars
    BY <1>37, <1>t DEF vars, bounds, emulation, flags, queues, vdp, EndLine, Meeting
  <1>. QED BY <1>1, <1>2, <1>3, <1>4, <1>5, <1>6, <1>7, <1>8, <1>9, <1>10, <1>11,
           <1>12, <1>13, <1>14, <1>15, <1>16, <1>17, <1>18, <1>19, <1>20, <1>21,
           <1>22, <1>23, <1>24, <1>25, <1>26, <1>27, <1>28, <1>29, <1>30, <1>31,
           <1>32, <1>33, <1>34, <1>35, <1>36, <1>37 DEF Next, Program, Emulate,
           Render

\* A line that is waited for has its code under way.
LEMMA AnsweringStep == ASSUME LeavesRoom PROVE IInv /\ WInv /\ [Next]_vars => Answering'
  <1> SUFFICES ASSUME IInv, WInv, [Next]_vars PROVE Answering'
    OBVIOUS
  <1>t. /\ evqueue \in Seq(Events) /\ Answering /\ Begun /\ Caused /\ Meeting
        /\ line \in Lines /\ wait \in Waits /\ seen \in Waits /\ drawn \in 0..RcvCapacity
        /\ RcvCapacity \in Nat
    BY QueuesAssumption DEF IInv, TypeOK, WInv
  <1>1. CASE \E m \in {"cycle", "erase", "change"} : WriteFBCR(m)
    BY <1>1, <1>t
       DEF WriteFBCR, bounds, flags, queues, vdp, Answering, Early, CodeComes,
           Replaced, Draws, Inside
  <1>2. CASE \E v \in PTMRValues : WritePTMR(v)
    BY <1>2, <1>t
       DEF WritePTMR, bounds, flags, queues, vdp, Answering, Early, CodeComes,
           Replaced, Draws, Inside
  <1>3. CASE WritePTMR1
    BY <1>3, <1>t
       DEF WritePTMR1, bounds, flags, queues, vdp, Answering, Early, CodeComes,
           Replaced, Draws, Inside
  <1>4. CASE WriteENDR
    BY <1>4, <1>t
       DEF WriteENDR, queues, vdp, Answering, Early, CodeComes, Replaced, Draws,
           Inside
  <1>5. CASE WriteRam
    BY <1>5, <1>t
       DEF WriteRam, bounds, flags, queues, vdp, Answering, Early, CodeComes,
           Replaced, Draws, Inside
  <1>6. CASE TouchFrameBuffer
    BY <1>6, <1>t
       DEF TouchFrameBuffer, bounds, emulation, flags, queues, vdp, Answering,
           Early, CodeComes, Replaced, Draws, Inside
  <1>7. CASE Reset
    BY <1>7, <1>t
       DEF Reset, flags, vdp, Answering, Early, CodeComes, Replaced, Draws, Inside
  <1>8. CASE HandOver
    BY <1>8, <1>t, Sending
       DEF HandOver, bounds, emulation, flags, vdp, Events, Answering, Early,
           CodeComes, Replaced, Draws, Inside
  <1>9. CASE DeInit
    BY <1>9, <1>t, Sending
       DEF DeInit, bounds, emulation, flags, vdp, Events, Answering, Early,
           CodeComes, Replaced, Draws, Inside
  <1>10. CASE Drain
    BY <1>10, <1>t
       DEF Drain, bounds, emulation, flags, vdp, Answering, Early, CodeComes,
           Replaced, Draws, Inside
  <1>11. CASE Trigger
    BY <1>11, <1>t, Sending
       DEF Trigger, bounds, vdp, Events, Answering, Early, CodeComes, Replaced,
           Draws, Inside
  <1>12. CASE LockVram
    BY <1>12, <1>t
       DEF LockVram, bounds, emulation, flags, queues, vdp, Answering, Early,
           CodeComes, Replaced, Draws, Inside
  <1>13. CASE HBlankOUT
    BY <1>13, <1>t, ChangeInPicture
       DEF HBlankOUT, bounds, queues, vdp, Answering, Early, CodeComes, Replaced,
           Draws, Inside, FrameBegins, Begun
  <1>14. CASE Change
    BY <1>14, <1>t, ChangeInPicture
       DEF Change, bounds, queues, vdp, Answering, Early, CodeComes, Replaced,
           Draws, Inside, Begun, Changing
  <1>15. CASE DeferWait
    BY <1>15, <1>t, ChangeInPicture
       DEF DeferWait, bounds, flags, queues, vdp, Answering, Early, CodeComes,
           Replaced, Draws, Inside, Begun, Changing
  <1>16. CASE SendVBlankOUT
    BY <1>16, <1>t, Sending, ChangeInPicture
       DEF SendVBlankOUT, bounds, emulation, flags, vdp, Events, Answering, Early,
           CodeComes, Replaced, Draws, Inside, Begun, Changing
  <1>17. CASE PassLine
    <2>1. CASE wait = line
      <3>1. epc' = "waitDrawn" /\ UNCHANGED <<clock, line, wait, rendered, flags, queues, vdp>>
        BY <1>17, <2>1, Zenon DEF PassLine
      <3>. QED BY <3>1, <2>1, <1>17, <1>t, NextLine
               DEF PassLine, flags, queues, vdp, Answering, Early, CodeComes, Replaced,
                   Draws, Inside
    <2>2. CASE wait # line
      <3>1. EndLine /\ epc = "line" /\ UNCHANGED <<wait, rendered, flags, queues, vdp>>
        BY <1>17, <2>2, Zenon DEF PassLine
      <3>2. Early' => Early
        BY <3>1, NextLine, ChangeInPicture, <1>t DEF EndLine, Early, Inside
      <3>3. epc' \in {"vin", "run"}
        BY <3>1 DEF EndLine
      <3>4. (CodeComes => CodeComes') /\ (Draws => Draws') /\ ~Replaced
        BY <3>1 DEF flags, queues, vdp, CodeComes, Draws, Replaced
      <3>. QED BY <3>1, <3>2, <3>3, <3>4, <1>t DEF Answering
    <2>. QED BY <2>1, <2>2
  <1>18. CASE WaitDrawn
    BY <1>18, <1>t
       DEF WaitDrawn, bounds, emulation, flags, vdp, Answering, Early, CodeComes,
           Replaced, Draws, Inside
  <1>19. CASE ClearDrawn
    BY <1>19, <1>t, ChangeInPicture, NextLine
       DEF ClearDrawn, bounds, vdp, EndLine, Answering, Early, CodeComes, Replaced,
           Draws, Inside
  <1>20. CASE SendVBlankIN
    BY <1>20, <1>t, Sending
       DEF SendVBlankIN, bounds, emulation, flags, vdp, Events, Answering, Early,
           CodeComes, Replaced, Draws, Inside
  <1>21. CASE WaitRcv
    BY <1>21, <1>t, EmptyHas
       DEF WaitRcv, bounds, emulation, flags, vdp, Answering, Early, CodeComes,
           Replaced, Draws, Inside, Meeting
  <1>22. CASE WaitCommand
    BY <1>22, <1>t
       DEF WaitCommand, bounds, emulation, flags, vdp, Answering, Early, CodeComes,
           Replaced, Draws, Inside, Begun
  <1>23. CASE Restart
    BY <1>23, <1>t, EmptyHas
       DEF Restart, bounds, Answering, Early, CodeComes, Replaced, Draws, Inside
  <1>24. CASE Receive
    BY <1>24, <1>t, TailHas
       DEF Receive, bounds, emulation, flags, Events, Answering, Early, CodeComes,
           Replaced, Draws, Inside, Caused
  <1>25. CASE VBlankIN
    BY <1>25, <1>t
       DEF VBlankIN, bounds, emulation, flags, Answering, Early, CodeComes,
           Replaced, Draws, Inside
  <1>26. CASE HandedOver
    BY <1>26, <1>t
       DEF HandedOver, bounds, emulation, flags, Answering, Early, CodeComes,
           Replaced, Draws, Inside
  <1>27. CASE VBlankOUT
    BY <1>27, <1>t
       DEF VBlankOUT, bounds, emulation, queues, Answering, Early, CodeComes,
           Replaced, Draws, Inside
  <1>28. CASE Decide
    BY <1>28, <1>t
       DEF Decide, bounds, emulation, flags, queues, Answering, Early, CodeComes,
           Replaced, Draws, Inside
  <1>29. CASE Vdp1Draw
    BY <1>29, <1>t
       DEF Vdp1Draw, bounds, emulation, queues, Answering, Early, CodeComes,
           Replaced, Draws, Inside
  <1>30. CASE DrawingEnds
    BY <1>30, <1>t, AfterDraw
       DEF DrawingEnds, bounds, emulation, queues, Answering, Early, CodeComes,
           Replaced, Draws, Inside
  <1>31. CASE DrawingPauses
    BY <1>31, <1>t, AfterDraw
       DEF DrawingPauses, flags, queues, Answering, Early, CodeComes, Replaced,
           Draws, Inside
  <1>32. CASE Plotted
    BY <1>32, <1>t
       DEF Plotted, bounds, emulation, queues, Answering, Early, CodeComes,
           Replaced, Draws, Inside
  <1>33. CASE ReadWait
    BY <1>33, <1>t
       DEF ReadWait, bounds, emulation, flags, queues, Answering, Early, CodeComes,
           Replaced, Draws, Inside
  <1>34. CASE WriteWait
    BY <1>34, <1>t, DeferIsLine
       DEF WriteWait, bounds, flags, queues, Answering, Early, CodeComes, Replaced,
           Draws, Inside
  <1>35. CASE Tell
    BY <1>35, <1>t
       DEF Tell, bounds, emulation, flags, Answering, Early, CodeComes, Replaced,
           Draws, Inside
  <1>36. CASE DrawScreens
    BY <1>36, <1>t
       DEF DrawScreens, bounds, emulation, flags, queues, Answering, Early,
           CodeComes, Replaced, Draws, Inside
  <1>37. CASE UNCHANGED vars
    BY <1>37, <1>t
       DEF vars, bounds, emulation, flags, queues, vdp, EndLine, Answering, Early,
           CodeComes, Replaced, Draws, Inside
  <1>. QED BY <1>1, <1>2, <1>3, <1>4, <1>5, <1>6, <1>7, <1>8, <1>9, <1>10, <1>11,
           <1>12, <1>13, <1>14, <1>15, <1>16, <1>17, <1>18, <1>19, <1>20, <1>21,
           <1>22, <1>23, <1>24, <1>25, <1>26, <1>27, <1>28, <1>29, <1>30, <1>31,
           <1>32, <1>33, <1>34, <1>35, <1>36, <1>37 DEF Next, Program, Emulate,
           Render

\* WaitIsAnswered, for a program that leaves VDP1's memory alone on one line of the
\* picture at least: the emulation thread never waits for a code that no drawing is
\* going to send, whatever is stopped, reset, plotted or handed over.
THEOREM WaitsAreAnswered == ASSUME LeavesRoom PROVE Spec => []WaitIsAnswered
  <1>1. Init => WInv
    <2> SUFFICES ASSUME Init PROVE WInv
      OBVIOUS
    <2>1. evqueue = << >> /\ line = 0 /\ wait = -1 /\ epc = "run" /\ vpc = "wait"
          /\ clock = FALSE /\ rcv = 0
      BY DEF Init, Start
    <2>2. Begun
      BY <2>1, ChangeInPicture DEF Begun, Inside, Changing
    <2>3. Meeting
      BY <2>1, EmptyHas DEF Meeting
    <2>4. Answering
      BY <2>1 DEF Answering
    <2>. QED BY <2>2, <2>3, <2>4 DEF WInv
  <1>2. IInv /\ WInv /\ [Next]_vars => WInv'
    BY BegunStep, MeetingStep, AnsweringStep DEF WInv
  <1>3. IInv /\ WInv => WaitIsAnswered
    <2> SUFFICES ASSUME IInv, WInv, epc = "waitDrawn"
                 PROVE  \/ drawn > 0 \/ Sent("DIRECT_DRAW") \/ WillDraw
                        \/ vpc \in {"draw", "drawing", "plotted", "read", "write",
                                     "tell"}
      BY DEF WaitIsAnswered
    <2>1. CodeComes \/ Draws
      BY DEF WInv, Answering, Replaced
    <2>2. \A e : Has(evqueue, e) => Sent(e)
      BY DEF Has, Sent
    <2>. QED BY <2>1, <2>2 DEF CodeComes, Draws, WillDraw
  <1>. QED BY <1>1, <1>2, <1>3, Invariance, PTL DEF Spec

-----------------------------------------------------------------------------
(* The two threads never wait for each other. *)

\* One CONTEXT is under way while the emulation thread hands its context over, and
\* FINSH while it waits for the VDP thread to end.
Answerable ==
  /\ Single(evqueue, "CONTEXT")
  /\ epc # "waitCommand" =>
       vpc # "context" /\ command = 0 /\ ~Has(evqueue, "CONTEXT")
  /\ epc = "waitCommand" =>
       /\ command = 1 \/ vpc = "context" \/ Has(evqueue, "CONTEXT")
       /\ command = 1 => vpc # "context" /\ ~Has(evqueue, "CONTEXT")
       /\ vpc = "context" => ~Has(evqueue, "CONTEXT")
  /\ epc = "waitRcv" => rcv = 1 \/ vpc = "vin" \/ Has(evqueue, "VBLANK_IN")
  /\ epc = "join" => vpc = "stopped" \/ Has(evqueue, "FINSH")

\* The VDP thread blocks on a full queue only when it tells of a drawing, and when it
\* has nothing to do or is over, what the emulation thread waits for is there.
NeverBothWait ==
  /\ vpc = "vin" => rcv < RcvCapacity
  /\ vpc = "context" => command < 1
  /\ vpc = "stopped" => epc = "join"
  /\ vpc = "wait" /\ evqueue = << >> =>
       /\ epc = "waitRcv" => rcv > 0
       /\ epc = "waitCommand" => command > 0
       /\ epc = "waitDrawn" => drawn > 0
       /\ epc # "join" /\ ~VramLocked

\* What the emulation thread waits for stays under way.
LEMMA AnswerableStep == IInv /\ Answerable /\ [Next]_vars => Answerable'
  <1> SUFFICES ASSUME IInv, Answerable, [Next]_vars PROVE Answerable'
    OBVIOUS
  <1>t. /\ evqueue \in Seq(Events) /\ Answerable /\ Blocked /\ Ending
        /\ command \in 0..1 /\ rcv \in 0..RcvCapacity /\ RcvCapacity \in Nat
    BY QueuesAssumption DEF IInv, TypeOK
  <1>1. CASE \E m \in {"cycle", "erase", "change"} : WriteFBCR(m)
    BY <1>1, <1>t DEF WriteFBCR, bounds, flags, queues, vdp, Answerable
  <1>2. CASE \E v \in PTMRValues : WritePTMR(v)
    BY <1>2, <1>t DEF WritePTMR, bounds, flags, queues, vdp, Answerable
  <1>3. CASE WritePTMR1
    BY <1>3, <1>t DEF WritePTMR1, bounds, flags, queues, vdp, Answerable
  <1>4. CASE WriteENDR
    BY <1>4, <1>t DEF WriteENDR, queues, vdp, Answerable
  <1>5. CASE WriteRam
    BY <1>5, <1>t DEF WriteRam, bounds, flags, queues, vdp, Answerable
  <1>6. CASE TouchFrameBuffer
    BY <1>6, <1>t
       DEF TouchFrameBuffer, bounds, emulation, flags, queues, vdp, Answerable
  <1>7. CASE Reset
    BY <1>7, <1>t DEF Reset, flags, vdp, Answerable
  <1>8. CASE HandOver
    BY <1>8, <1>t, Sending
       DEF HandOver, bounds, emulation, flags, vdp, Events, Answerable
  <1>9. CASE DeInit
    BY <1>9, <1>t, Sending
       DEF DeInit, bounds, emulation, flags, vdp, Events, Answerable
  <1>10. CASE Drain
    BY <1>10, <1>t DEF Drain, bounds, emulation, flags, vdp, Answerable
  <1>11. CASE Trigger
    BY <1>11, <1>t, Sending DEF Trigger, bounds, vdp, Events, Answerable
  <1>12. CASE LockVram
    BY <1>12, <1>t DEF LockVram, bounds, emulation, flags, queues, vdp, Answerable
  <1>13. CASE HBlankOUT
    BY <1>13, <1>t DEF HBlankOUT, bounds, queues, vdp, Answerable
  <1>14. CASE Change
    BY <1>14, <1>t DEF Change, bounds, queues, vdp, Answerable
  <1>15. CASE DeferWait
    BY <1>15, <1>t DEF DeferWait, bounds, flags, queues, vdp, Answerable
  <1>16. CASE SendVBlankOUT
    BY <1>16, <1>t, Sending
       DEF SendVBlankOUT, bounds, emulation, flags, vdp, Events, Answerable
  <1>17. CASE PassLine
    BY <1>17, <1>t DEF PassLine, bounds, flags, queues, vdp, EndLine, Answerable
  <1>18. CASE WaitDrawn
    BY <1>18, <1>t DEF WaitDrawn, bounds, emulation, flags, vdp, Answerable
  <1>19. CASE ClearDrawn
    BY <1>19, <1>t DEF ClearDrawn, bounds, vdp, EndLine, Answerable
  <1>20. CASE SendVBlankIN
    BY <1>20, <1>t, Sending
       DEF SendVBlankIN, bounds, emulation, flags, vdp, Events, Answerable
  <1>21. CASE WaitRcv
    BY <1>21, <1>t DEF WaitRcv, bounds, emulation, flags, vdp, Answerable, Blocked
  <1>22. CASE WaitCommand
    BY <1>22, <1>t DEF WaitCommand, bounds, emulation, flags, vdp, Answerable
  <1>23. CASE Restart
    BY <1>23, <1>t, EmptyHas DEF Restart, bounds, Answerable, Ending
  <1>24. CASE Receive
    BY <1>24, <1>t, TailHas
       DEF Receive, bounds, emulation, flags, Events, Answerable, Ending, Blocked
  <1>25. CASE VBlankIN
    BY <1>25, <1>t DEF VBlankIN, bounds, emulation, flags, Answerable, Blocked
  <1>26. CASE HandedOver
    BY <1>26, <1>t DEF HandedOver, bounds, emulation, flags, Answerable
  <1>27. CASE VBlankOUT
    BY <1>27, <1>t DEF VBlankOUT, bounds, emulation, queues, Answerable
  <1>28. CASE Decide
    BY <1>28, <1>t DEF Decide, bounds, emulation, flags, queues, Answerable
  <1>29. CASE Vdp1Draw
    BY <1>29, <1>t DEF Vdp1Draw, bounds, emulation, queues, Answerable
  <1>30. CASE DrawingEnds
    BY <1>30, <1>t, AfterDraw DEF DrawingEnds, bounds, emulation, queues, Answerable
  <1>31. CASE DrawingPauses
    BY <1>31, <1>t, AfterDraw DEF DrawingPauses, flags, queues, Answerable
  <1>32. CASE Plotted
    BY <1>32, <1>t DEF Plotted, bounds, emulation, queues, Answerable
  <1>33. CASE ReadWait
    BY <1>33, <1>t DEF ReadWait, bounds, emulation, flags, queues, Answerable
  <1>34. CASE WriteWait
    BY <1>34, <1>t DEF WriteWait, bounds, flags, queues, Answerable
  <1>35. CASE Tell
    BY <1>35, <1>t DEF Tell, bounds, emulation, flags, Answerable
  <1>36. CASE DrawScreens
    BY <1>36, <1>t DEF DrawScreens, bounds, emulation, flags, queues, Answerable
  <1>37. CASE UNCHANGED vars
    BY <1>37, <1>t
       DEF vars, bounds, emulation, flags, queues, vdp, EndLine, Answerable
  <1>. QED BY <1>1, <1>2, <1>3, <1>4, <1>5, <1>6, <1>7, <1>8, <1>9, <1>10, <1>11,
           <1>12, <1>13, <1>14, <1>15, <1>16, <1>17, <1>18, <1>19, <1>20, <1>21,
           <1>22, <1>23, <1>24, <1>25, <1>26, <1>27, <1>28, <1>29, <1>30, <1>31,
           <1>32, <1>33, <1>34, <1>35, <1>36, <1>37 DEF Next, Program, Emulate,
           Render

\* Deadlock: whatever the constants, the two threads are never both blocked, if VDP1's
\* memory is left alone on one line of the picture and unless the queue of the
\* finished drawings is full (which it can be, see the run vdp_long): one of them
\* has a step to make.
THEOREM ThreadsNeverBothWait == ASSUME LeavesRoom PROVE Spec => []NeverBothWait
  <1>1. Init => Answerable
    BY EmptyHas DEF Init, Start, Answerable
  <1>2. IInv /\ Answerable /\ [Next]_vars => Answerable'
    BY AnswerableStep
  <1>3. IInv /\ Answerable /\ WaitIsAnswered => NeverBothWait
    <2> SUFFICES ASSUME IInv, Answerable, WaitIsAnswered PROVE NeverBothWait
      OBVIOUS
    <2>1. /\ Blocked /\ Ending /\ rcv \in 0..RcvCapacity /\ command \in 0..1
          /\ RcvCapacity \in Nat \ {0} /\ drawn \in 0..RcvCapacity
      BY QueuesAssumption DEF IInv, TypeOK
    <2>2. (vpc = "vin" => rcv < RcvCapacity) /\ (vpc = "context" => command < 1)
      BY <2>1 DEF Blocked, Answerable
    <2>3. vpc = "stopped" => epc = "join"
      BY <2>1 DEF Ending
    <2>4. ASSUME vpc = "wait", evqueue = << >>
          PROVE  /\ epc = "waitRcv" => rcv > 0
                 /\ epc = "waitCommand" => command > 0
                 /\ epc = "waitDrawn" => drawn > 0
                 /\ epc # "join" /\ ~VramLocked
      <3>1. \A e : ~Has(evqueue, e) /\ ~Sent(e)
        BY <2>4, EmptyHas DEF Sent
      <3>2. epc = "waitDrawn" => drawn > 0
        BY <2>4, <3>1 DEF WaitIsAnswered, WillDraw
      <3>. QED BY <2>4, <3>1, <3>2 DEF Answerable, VramLocked
    <2>. QED BY <2>2, <2>3, <2>4 DEF NeverBothWait
  <1>. QED BY <1>1, <1>2, <1>3, Invariance, WaitsAreAnswered, PTL DEF Spec
================================================================================
