-------------------------- MODULE EventQueueProofs --------------------------
(***************************************************************************)
(* The event queue is type correct, its ring is consistent, it loses no    *)
(* wakeup, and it implements a bounded first-in first-out queue, for every *)
(* number of threads, every set of codes and every capacity.               *)
(***************************************************************************)
EXTENDS EventQueue, SequenceTheorems, TLAPS

-----------------------------------------------------------------------------
(* Arithmetic of the ring. *)

(* The slot after i is i + 1, and slot 0 after the last. *)
LEMMA NextSlot ==
  ASSUME NEW i \in Slots
  PROVE  (i + 1) % Capacity = IF i + 1 = Capacity THEN 0 ELSE i + 1
BY CapacityAssumption DEF Slots

(* The slot k places after i, for k up to a whole turn. *)
LEMMA SlotAt ==
  ASSUME NEW i \in Slots, NEW k \in 0..Capacity
  PROVE  /\ (i + k) % Capacity = IF i + k < Capacity THEN i + k
                                                     ELSE i + k - Capacity
         /\ (i + k) % Capacity \in Slots
BY CapacityAssumption DEF Slots

-----------------------------------------------------------------------------
(* The inductive invariant.  A queue that does not exist has nobody inside,
   and only a clearer clears. *)
DeadIsIdle == ~alive => pc = [t \in Threads |-> "idle"]

OnlyClearersClear == \A t \in Threads : pc[t] = "clear" => t \in Clearers

IInv ==
  /\ TypeOK /\ RingConsistent /\ NoSleepingTaker
  /\ DeadIsIdle /\ OnlyClearersClear

LEMMA InitInv == Init => IInv
<1> SUFFICES ASSUME Init PROVE IInv
  OBVIOUS
<1>1. TypeOK
  BY CapacityAssumption DEF Init, TypeOK, Inside, Slots
<1>2. RingConsistent
  BY CapacityAssumption DEF Init, RingConsistent
<1>3. NoSleepingTaker
  BY DEF Init, NoSleepingTaker, At
<1>4. OnlyClearersClear /\ DeadIsIdle
  BY DEF Init, OnlyClearersClear, DeadIsIdle
<1> QED
  BY <1>1, <1>2, <1>3, <1>4 DEF IInv

(* The calls of one thread keep the invariant. *)
LEMMA CallsKeepInv ==
  ASSUME IInv, NEW t \in Threads,
         (\E c \in Codes : CallAdd(t, c)) \/ CallWait(t) \/ CallClear(t)
  PROVE  IInv'
<1>1. TypeOK'
  BY DEF IInv, TypeOK, CallAdd, CallWait, CallClear, Goto, ring, Inside
<1>2. RingConsistent'
  BY DEF IInv, RingConsistent, CallAdd, CallWait, CallClear, ring
<1>3. NoSleepingTaker'
  BY DEF IInv, TypeOK, NoSleepingTaker, At, CallAdd, CallWait, CallClear,
         Goto, ring
<1>4. OnlyClearersClear'
  BY DEF IInv, TypeOK, OnlyClearersClear, CallAdd, CallWait, CallClear, Goto
<1>5. alive' = TRUE
  BY DEF IInv, TypeOK, CallAdd, CallWait, CallClear, ring
<1> QED
  BY <1>1, <1>2, <1>3, <1>4, <1>5 DEF IInv, DeadIsIdle

(* A thread that is inside finds the queue alive. *)
LEMMA InsideAlive ==
  ASSUME IInv, NEW t \in Threads, pc[t] # "idle"
  PROVE  alive = TRUE
BY DEF IInv, TypeOK, DeadIsIdle

(* An add fills the next slot. *)
LEMMA AddKeepsInv ==
  ASSUME IInv, NEW t \in Threads, Add(t)
  PROVE  IInv'
<1> USE CapacityAssumption
<1>1. size \in 0..Capacity-1 /\ size' = size + 1
  BY DEF IInv, TypeOK, Add
<1>2. TypeOK'
  <2>1. in' \in Slots
    BY NextSlot DEF IInv, TypeOK, Add, Slots
  <2> QED
    BY <1>1, <2>1 DEF IInv, TypeOK, Add, Goto, Inside, Slots
<1>3. RingConsistent'
  <2>1. in = (out + size) % Capacity /\ in \in Slots /\ out \in Slots
    BY DEF IInv, TypeOK, RingConsistent
  <2>2. (in + 1) % Capacity = (out + (size + 1)) % Capacity
    <3>1. (out + size) % Capacity = IF out + size < Capacity
            THEN out + size ELSE out + size - Capacity
      <4>1. size \in 0..Capacity
        BY <1>1
      <4> QED
        BY <2>1, <4>1, SlotAt
    <3>2. (out + (size + 1)) % Capacity = IF out + (size + 1) < Capacity
            THEN out + (size + 1) ELSE out + (size + 1) - Capacity
      <4>1. size + 1 \in 0..Capacity
        BY <1>1
      <4> QED
        BY <2>1, <4>1, SlotAt
    <3>3. (in + 1) % Capacity = IF in + 1 = Capacity THEN 0 ELSE in + 1
      BY <2>1, NextSlot
    <3>4. /\ in = IF out + size < Capacity
                    THEN out + size ELSE out + size - Capacity
          /\ in \in Slots /\ out \in Slots
      BY <2>1, <3>1
    <3>5. (IF in + 1 = Capacity THEN 0 ELSE in + 1)
            = IF out + (size + 1) < Capacity
                THEN out + (size + 1) ELSE out + (size + 1) - Capacity
      BY <1>1, <3>4 DEF Slots
    <3> QED
      BY <3>2, <3>3, <3>5
  <2> QED
    BY <1>1, <2>2 DEF RingConsistent, Add
<1>4. NoSleepingTaker'
  BY DEF IInv, TypeOK, NoSleepingTaker, At, Add, Goto
<1>5. OnlyClearersClear'
  BY DEF IInv, TypeOK, OnlyClearersClear, Add, Goto
<1>6. alive' = TRUE
  BY InsideAlive DEF Add
<1> QED
  BY <1>2, <1>3, <1>4, <1>5, <1>6 DEF IInv, DeadIsIdle

(* A get moves to the next slot. *)
LEMMA GetKeepsInv ==
  ASSUME IInv, NEW t \in Threads, Get(t)
  PROVE  IInv'
<1> USE CapacityAssumption
<1>1. size \in 1..Capacity /\ size' = size - 1
  BY DEF IInv, TypeOK, Get
<1>2. TypeOK'
  <2>1. out' \in Slots
    BY NextSlot DEF IInv, TypeOK, Get, Slots
  <2>2. buffer[out] \in Codes
    BY DEF IInv, TypeOK
  <2> QED
    BY <1>1, <2>1, <2>2 DEF IInv, TypeOK, Get, Goto, Inside, Slots
<1>3. RingConsistent'
  <2>1. in = (out + size) % Capacity /\ in \in Slots /\ out \in Slots
    BY DEF IInv, TypeOK, RingConsistent
  <2>2. out' = IF out + 1 = Capacity THEN 0 ELSE out + 1
    BY <2>1, NextSlot DEF Get
  <2>3. in = (out' + (size - 1)) % Capacity
    <3>1. out' \in Slots /\ size - 1 \in 0..Capacity
      BY <1>1, <2>1, <2>2 DEF Slots
    <3> QED
      <4>1. (out + size) % Capacity = IF out + size < Capacity
              THEN out + size ELSE out + size - Capacity
        <5>1. size \in 0..Capacity
          BY <1>1
        <5> QED
          BY <2>1, <5>1, SlotAt
      <4>2. (out' + (size - 1)) % Capacity = IF out' + (size - 1) < Capacity
              THEN out' + (size - 1) ELSE out' + (size - 1) - Capacity
        BY <3>1, SlotAt
      <4>3. /\ in = IF out + size < Capacity
                      THEN out + size ELSE out + size - Capacity
            /\ in \in Slots /\ out \in Slots
        BY <2>1, <4>1
      <4>4. in = IF out' + (size - 1) < Capacity
                   THEN out' + (size - 1) ELSE out' + (size - 1) - Capacity
        BY <1>1, <2>2, <4>3 DEF Slots
      <4> QED
        BY <4>2, <4>4
  <2> QED
    BY <1>1, <2>3 DEF RingConsistent, Get
<1>4. NoSleepingTaker'
  BY <1>1 DEF IInv, TypeOK, NoSleepingTaker, At, Get, Goto
<1>5. OnlyClearersClear'
  BY DEF IInv, TypeOK, OnlyClearersClear, Get, Goto
<1>6. alive' = TRUE
  BY InsideAlive DEF Get
<1> QED
  BY <1>2, <1>3, <1>4, <1>5, <1>6 DEF IInv, DeadIsIdle

(* A clear moves to where the next code will go. *)
LEMMA ClearKeepsInv ==
  ASSUME IInv, NEW t \in Threads, Clear(t)
  PROVE  IInv'
<1> USE CapacityAssumption
<1>1. in = (out + size) % Capacity /\ in \in Slots /\ out' = in /\ size' = 0
  BY DEF IInv, TypeOK, RingConsistent, Clear
<1>2. TypeOK'
  BY <1>1 DEF IInv, TypeOK, Clear, Goto, Inside, Slots
<1>3. RingConsistent'
  <2>1. (in + 0) % Capacity = in
    BY <1>1, SlotAt DEF Slots
  <2> QED
    BY <1>1, <2>1 DEF RingConsistent, Clear
<1>4. NoSleepingTaker'
  BY <1>1 DEF NoSleepingTaker
<1>5. OnlyClearersClear'
  BY DEF IInv, TypeOK, OnlyClearersClear, Clear, Goto
<1>6. alive' = TRUE
  BY InsideAlive DEF Clear
<1> QED
  BY <1>2, <1>3, <1>4, <1>5, <1>6 DEF IInv, DeadIsIdle

(* Falling asleep, being woken and broadcasting leave the ring alone. *)
LEMMA WaitingKeepsInv ==
  ASSUME IInv, NEW t \in Threads,
         \/ SleepFull(t) \/ SleepEmpty(t) \/ WakeUnasked(t)
         \/ BroadcastEmpty(t) \/ BroadcastFull(t)
  PROVE  IInv'
<1>0. UNCHANGED <<ring, value>>
  BY DEF SleepFull, SleepEmpty, WakeUnasked, BroadcastEmpty, BroadcastFull
<1>1. pc' \in [Threads -> Inside \cup {"idle"}]
  BY DEF IInv, TypeOK, SleepFull, SleepEmpty, WakeUnasked, BroadcastEmpty,
         BroadcastFull, Woken, Goto, Inside
<1>2. TypeOK'
  BY <1>0, <1>1 DEF IInv, TypeOK, ring
<1>3. RingConsistent'
  BY <1>0 DEF IInv, RingConsistent, ring
<1>4. NoSleepingTaker'
  <2>1. CASE SleepFull(t) \/ SleepEmpty(t)
    BY <1>0, <2>1 DEF IInv, TypeOK, NoSleepingTaker, At, SleepFull,
       SleepEmpty, Goto, ring
  <2>2. CASE WakeUnasked(t)
    BY <1>0, <2>2 DEF IInv, TypeOK, NoSleepingTaker, At, WakeUnasked, Goto,
       ring
  <2>3. CASE BroadcastEmpty(t)
    <3>1. At("waitEmpty")' = {}
      BY <2>3 DEF IInv, TypeOK, At, BroadcastEmpty, Woken
    <3> QED
      BY <3>1 DEF NoSleepingTaker
  <2>4. CASE BroadcastFull(t)
    BY <1>0, <2>4 DEF IInv, TypeOK, NoSleepingTaker, At, BroadcastFull, Woken,
       ring
  <2> QED
    BY <2>1, <2>2, <2>3, <2>4
<1>5. OnlyClearersClear'
  BY DEF IInv, TypeOK, OnlyClearersClear, SleepFull, SleepEmpty, WakeUnasked,
         BroadcastEmpty, BroadcastFull, Woken, Goto
<1>6. alive' = TRUE
  <2>1. pc[t] # "idle"
    BY DEF SleepFull, SleepEmpty, WakeUnasked, BroadcastEmpty, BroadcastFull
  <2> QED
    BY <1>0, <2>1, InsideAlive DEF ring
<1> QED
  BY <1>2, <1>3, <1>4, <1>5, <1>6 DEF IInv, DeadIsIdle

(* A queue is replaced by an empty one while every thread is outside. *)
LEMMA RenewalKeepsInv ==
  ASSUME IInv, Destroy \/ Create
  PROVE  IInv'
<1> USE CapacityAssumption
<1>1. TypeOK'
  <2>1. CASE Destroy
    BY <2>1 DEF IInv, TypeOK, Destroy
  <2>2. CASE Create
    BY <2>2 DEF IInv, TypeOK, Create, Slots
  <2> QED
    BY <2>1, <2>2
<1>2. RingConsistent'
  BY DEF IInv, RingConsistent, Destroy, Create
<1>3. NoSleepingTaker'
  BY DEF IInv, NoSleepingTaker, At, Destroy, Create
<1>4. OnlyClearersClear'
  BY DEF IInv, OnlyClearersClear, Destroy, Create
<1>5. DeadIsIdle'
  <2>1. CASE Destroy
    BY <2>1 DEF DeadIsIdle, Destroy
  <2>2. CASE Create
    BY <2>2 DEF DeadIsIdle, Create
  <2> QED
    BY <2>1, <2>2
<1> QED
  BY <1>1, <1>2, <1>3, <1>4, <1>5 DEF IInv

LEMMA StepInv == IInv /\ [Next]_vars => IInv'
<1> SUFFICES ASSUME IInv, [Next]_vars PROVE IInv'
  OBVIOUS
<1>1. ASSUME NEW t \in Threads,
             \/ \E c \in Codes : CallAdd(t, c)
             \/ CallWait(t) \/ CallClear(t) \/ Step(t) \/ WakeUnasked(t)
      PROVE  IInv'
  BY <1>1, CallsKeepInv, AddKeepsInv, GetKeepsInv, ClearKeepsInv,
     WaitingKeepsInv DEF Step
<1>2. CASE Destroy \/ Create
  BY <1>2, RenewalKeepsInv
<1>3. CASE UNCHANGED vars
  BY <1>3 DEF IInv, TypeOK, RingConsistent, NoSleepingTaker, At,
              DeadIsIdle, OnlyClearersClear, vars
<1> QED
  BY <1>1, <1>2, <1>3 DEF Next

THEOREM Invariance == Spec => []IInv
BY InitInv, StepInv, PTL DEF Spec

(* Type correctness of the queue: the indices stay inside the ring. *)
THEOREM TypeCorrect == Spec => []TypeOK
<1>1. IInv => TypeOK
  BY DEF IInv
<1> QED
  BY <1>1, Invariance, PTL

(* The counters of the ring agree at every moment. *)
THEOREM RingStaysConsistent == Spec => []RingConsistent
<1>1. IInv => RingConsistent
  BY DEF IInv
<1> QED
  BY <1>1, Invariance, PTL

(* No consumer sleeps through a code, whoever clears the queue. *)
THEOREM TakersAreWoken == Spec => []NoSleepingTaker
<1>1. IInv => NoSleepingTaker
  BY DEF IInv
<1> QED
  BY <1>1, Invariance, PTL

(* Where nobody clears, no producer sleeps while there is room. *)
LEMMA PutterStep ==
  ASSUME Clearers = {}, IInv, NoSleepingPutter, [Next]_vars
  PROVE  NoSleepingPutter'
<1>0. \A t \in Threads : ~Clear(t) /\ ~CallClear(t)
  BY DEF IInv, OnlyClearersClear, Clear, CallClear
<1>1. ASSUME NEW t \in Threads,
             (\E c \in Codes : CallAdd(t, c)) \/ CallWait(t)
      PROVE  NoSleepingPutter'
  BY <1>1 DEF IInv, TypeOK, NoSleepingPutter, At, CallAdd, CallWait, Goto,
     ring
<1>2. ASSUME NEW t \in Threads, SleepFull(t) \/ SleepEmpty(t)
      PROVE  NoSleepingPutter'
  BY <1>2 DEF IInv, TypeOK, NoSleepingPutter, At, SleepFull, SleepEmpty,
     Goto, ring
<1>3. ASSUME NEW t \in Threads, WakeUnasked(t)
      PROVE  NoSleepingPutter'
  BY <1>3 DEF IInv, TypeOK, NoSleepingPutter, At, WakeUnasked, Goto, ring
<1>4. ASSUME NEW t \in Threads, BroadcastFull(t)
      PROVE  NoSleepingPutter'
  <2>1. At("waitFull")' = {}
    BY <1>4 DEF IInv, TypeOK, At, BroadcastFull, Woken
  <2> QED
    BY <2>1 DEF NoSleepingPutter
<1>5. ASSUME NEW t \in Threads, BroadcastEmpty(t)
      PROVE  NoSleepingPutter'
  BY <1>5 DEF IInv, TypeOK, NoSleepingPutter, At, BroadcastEmpty, Woken, ring
<1>6. ASSUME NEW t \in Threads, Add(t)
      PROVE  NoSleepingPutter'
  BY <1>6, CapacityAssumption
     DEF IInv, TypeOK, NoSleepingPutter, At, Add, Goto
<1>7. ASSUME NEW t \in Threads, Get(t)
      PROVE  NoSleepingPutter'
  <2>1. t \in At("signalFull")'
    BY <1>7 DEF IInv, TypeOK, At, Get, Goto
  <2> QED
    BY <2>1 DEF NoSleepingPutter
<1>8. CASE Destroy \/ Create
  <2>1. At("waitFull")' = {}
    BY <1>8 DEF IInv, DeadIsIdle, At, Destroy, Create
  <2> QED
    BY <2>1 DEF NoSleepingPutter
<1>9. CASE UNCHANGED vars
  BY <1>9 DEF NoSleepingPutter, At, vars
<1> QED
  BY <1>0, <1>1, <1>2, <1>3, <1>4, <1>5, <1>6, <1>7, <1>8, <1>9
     DEF Next, Step

(* No producer sleeps while there is room, in a queue that nobody clears. *)
THEOREM PuttersAreWoken ==
  ASSUME Clearers = {}
  PROVE  Spec => []NoSleepingPutter
<1>1. Init => NoSleepingPutter
  BY DEF Init, NoSleepingPutter, At
<1>2. IInv /\ NoSleepingPutter /\ [Next]_vars => NoSleepingPutter'
  BY PutterStep
<1> QED
  BY <1>1, <1>2, Invariance, PTL DEF Spec

-----------------------------------------------------------------------------
(* The ring implements the first-in first-out queue. *)

(* The codes held, slot by slot. *)
HeldIs ==
  /\ Held \in Seq(Codes)
  /\ Len(Held) = IF alive THEN size ELSE 0
  /\ \A i \in 1..Len(Held) : Held[i] = buffer[(out + i - 1) % Capacity]

LEMMA HeldSeq == TypeOK => HeldIs
<1> SUFFICES ASSUME TypeOK PROVE HeldIs
  OBVIOUS
<1> DEFINE n == IF alive THEN size ELSE 0
<1>1. n \in Nat /\ n <= Capacity
  BY CapacityAssumption DEF TypeOK
<1>2. \A i \in 1..n : buffer[(out + i - 1) % Capacity] \in Codes
  <2>1. TAKE i \in 1..n
  <2>2. i - 1 \in 0..Capacity /\ out \in Slots /\ out + i - 1 = out + (i - 1)
    BY <1>1, <2>1, CapacityAssumption DEF TypeOK, Slots
  <2>3. (out + (i - 1)) % Capacity \in Slots
    BY <2>2, SlotAt
  <2> QED
    BY <2>2, <2>3 DEF TypeOK
<1>3. Held \in [1..n -> Codes]
  BY <1>2 DEF Held
<1>4. Held \in Seq(Codes) /\ Len(Held) = n
  BY <1>1, <1>3
<1> QED
  BY <1>4 DEF Held, HeldIs

LEMMA HeldSeqNext == TypeOK' => HeldIs'
BY HeldSeq, PTL

LEMMA InitRefines == Init => Fifo!Init
<1> SUFFICES ASSUME Init PROVE Fifo!Init
  OBVIOUS
<1>1. Held = << >>
  BY DEF Init, Held
<1>2. Open = [t \in Threads |-> "idle"]
  BY DEF Init, Open
<1> QED
  BY <1>1, <1>2 DEF Init, Fifo!Init

(* A step that leaves the ring alone leaves the codes held alone. *)
LEMMA HeldKept == UNCHANGED ring => Held' = Held
BY DEF ring, Held

(* The calls are the calls of the queue. *)
LEMMA CallsRefine ==
  ASSUME IInv, NEW t \in Threads,
         (\E c \in Codes : CallAdd(t, c)) \/ CallWait(t) \/ CallClear(t)
  PROVE  Fifo!Next
<1>1. Held' = Held /\ Open[t] = "idle"
  BY HeldKept DEF CallAdd, CallWait, CallClear, Open
<1>2. ASSUME NEW c \in Codes, CallAdd(t, c) PROVE Fifo!CallPut(t, c)
  <2>1. Open' = [Open EXCEPT ![t] = "put"]
    BY <1>2 DEF IInv, TypeOK, CallAdd, Goto, Open
  <2> QED
    BY <1>1, <1>2, <2>1 DEF CallAdd, Fifo!CallPut
<1>3. ASSUME CallWait(t) PROVE Fifo!CallOther(t, "take")
  <2>1. Open' = [Open EXCEPT ![t] = "take"]
    BY <1>3 DEF IInv, TypeOK, CallWait, Goto, Open
  <2> QED
    BY <1>1, <1>3, <2>1 DEF CallWait, Fifo!CallOther
<1>4. ASSUME CallClear(t) PROVE Fifo!CallOther(t, "clear")
  <2>1. Open' = [Open EXCEPT ![t] = "clear"]
    BY <1>4 DEF IInv, TypeOK, CallClear, Goto, Open
  <2> QED
    BY <1>1, <1>4, <2>1 DEF CallClear, Fifo!CallOther
<1> QED
  BY <1>2, <1>3, <1>4 DEF Fifo!Next

(* Sleeping, waking and broadcasting are no steps of the queue. *)
LEMMA WaitingRefines ==
  ASSUME IInv, NEW t \in Threads,
         \/ SleepFull(t) \/ SleepEmpty(t) \/ WakeUnasked(t)
         \/ BroadcastEmpty(t) \/ BroadcastFull(t)
  PROVE  UNCHANGED Fifo!vars
<1>1. Held' = Held /\ value' = value
  BY HeldKept DEF SleepFull, SleepEmpty, WakeUnasked, BroadcastEmpty,
                  BroadcastFull
<1>2. Open' = Open
  BY DEF IInv, TypeOK, SleepFull, SleepEmpty, WakeUnasked, BroadcastEmpty,
         BroadcastFull, Woken, Goto, Open
<1> QED
  BY <1>1, <1>2 DEF Fifo!vars

(* An add appends its code. *)
LEMMA AddRefines ==
  ASSUME IInv, NEW t \in Threads, Add(t)
  PROVE  Fifo!Put(t)
<1> USE CapacityAssumption
<1>1. /\ TypeOK /\ TypeOK' /\ alive = TRUE /\ alive' = TRUE
      /\ size \in 0..Capacity-1 /\ size' = size + 1 /\ out' = out
      /\ value' = value /\ value[t] \in Codes
      /\ in = (out + size) % Capacity
      /\ buffer' = [buffer EXCEPT ![in] = value[t]]
  <2>1. alive = TRUE
    BY InsideAlive DEF Add
  <2>2. TypeOK'
    BY AddKeepsInv DEF IInv
  <2> QED
    BY <2>1, <2>2 DEF IInv, TypeOK, RingConsistent, Add
<1>2. /\ Held \in Seq(Codes) /\ Len(Held) = size
      /\ Held' \in Seq(Codes) /\ Len(Held') = size + 1
  BY <1>1, HeldSeq, HeldSeqNext DEF HeldIs
<1>3. ASSUME NEW i \in 1..size PROVE Held'[i] = Held[i]
  <2>1. /\ i - 1 \in 0..Capacity /\ size \in 0..Capacity /\ out \in Slots
        /\ out + i - 1 = out + (i - 1)
    BY <1>1 DEF TypeOK, Slots
  <2>2. /\ (out + (i - 1)) % Capacity \in Slots
        /\ (out + (i - 1)) % Capacity
             = IF out + (i - 1) < Capacity THEN out + (i - 1)
                                           ELSE out + (i - 1) - Capacity
    BY <2>1, SlotAt
  <2>3. in = IF out + size < Capacity THEN out + size
                                      ELSE out + size - Capacity
    BY <1>1, <2>1, SlotAt
  <2>4. (out + (i - 1)) % Capacity # in
    <3> DEFINE s == (out + (i - 1)) % Capacity
    <3>1. s = IF out + (i - 1) < Capacity THEN out + (i - 1)
                                          ELSE out + (i - 1) - Capacity
      BY <2>2
    <3> HIDE DEF s
    <3>2. s # in
      BY <1>1, <2>1, <2>3, <3>1 DEF Slots
    <3> QED
      BY <3>2 DEF s
  <2>5. Held[i] = buffer[(out + (i - 1)) % Capacity]
    BY <1>1, <1>2, <2>1, HeldSeq DEF HeldIs
  <2>6. Held'[i] = buffer'[(out + (i - 1)) % Capacity]
    <3>1. \A j \in 1..Len(Held') : Held'[j] = buffer'[(out' + j - 1) % Capacity]
      BY <1>1, HeldSeqNext DEF HeldIs
    <3> QED
      BY <1>1, <1>2, <2>1, <3>1
  <2> QED
    BY <1>1, <2>2, <2>4, <2>5, <2>6 DEF TypeOK
<1>4. Held'[size + 1] = value[t]
  <2>1. \A j \in 1..Len(Held') : Held'[j] = buffer'[(out' + j - 1) % Capacity]
    BY <1>1, HeldSeqNext DEF HeldIs
  <2>2. out' + (size + 1) - 1 = out + size /\ size + 1 \in 1..Len(Held')
    BY <1>1, <1>2 DEF TypeOK, Slots
  <2>3. Held'[size + 1] = buffer'[in]
    BY <1>1, <2>1, <2>2
  <2> QED
    BY <1>1, <2>3 DEF TypeOK
<1>5. Held' = Append(Held, value[t])
  <2>1. /\ Append(Held, value[t]) \in Seq(Codes)
        /\ Len(Append(Held, value[t])) = size + 1
        /\ \A i \in 1..size : Append(Held, value[t])[i] = Held[i]
        /\ Append(Held, value[t])[size + 1] = value[t]
    BY <1>1, <1>2, AppendProperties
  <2>2. \A i \in 1..size+1 : Held'[i] = Append(Held, value[t])[i]
    BY <1>1, <1>3, <1>4, <2>1
  <2> QED
    BY <1>2, <2>1, <2>2, SeqEqual
<1>6. Open' = [Open EXCEPT ![t] = "idle"] /\ Open[t] = "put"
  BY DEF IInv, TypeOK, Add, Goto, Open
<1>7. Len(Held) < Capacity
  BY <1>1, <1>2
<1> QED
  BY <1>1, <1>5, <1>6, <1>7 DEF Fifo!Put

(* A get takes the oldest code. *)
LEMMA GetRefines ==
  ASSUME IInv, NEW t \in Threads, Get(t)
  PROVE  Fifo!Take(t)
<1> USE CapacityAssumption
<1>1. /\ TypeOK /\ TypeOK' /\ alive = TRUE /\ alive' = TRUE
      /\ size \in 1..Capacity /\ size' = size - 1 /\ buffer' = buffer
      /\ out \in Slots /\ out' = (out + 1) % Capacity
  <2>1. alive = TRUE
    BY InsideAlive DEF Get
  <2>2. TypeOK'
    BY GetKeepsInv DEF IInv
  <2> QED
    BY <2>1, <2>2 DEF IInv, TypeOK, Get
<1>2. /\ Held \in Seq(Codes) /\ Len(Held) = size
      /\ Held' \in Seq(Codes) /\ Len(Held') = size - 1
      /\ Held # << >>
  BY <1>1, HeldSeq, HeldSeqNext DEF HeldIs
<1>3. Head(Held) = buffer[out]
  <2>1. Held[1] = buffer[(out + 1 - 1) % Capacity]
    BY <1>1, <1>2, HeldSeq DEF HeldIs
  <2>2. (out + 0) % Capacity = out
    <3>1. 0 \in 0..Capacity
      OBVIOUS
    <3>2. (out + 0) % Capacity = IF out + 0 < Capacity THEN out + 0
                                 ELSE out + 0 - Capacity
      BY <1>1, <3>1, SlotAt
    <3> QED
      BY <1>1, <3>2 DEF Slots
  <2>3. out + 1 - 1 = out + 0
    BY <1>1 DEF Slots
  <2> QED
    BY <1>2, <2>1, <2>2, <2>3
<1>4. ASSUME NEW i \in 1..size-1 PROVE Held'[i] = Held[i + 1]
  <2>1. /\ i - 1 \in 0..Capacity /\ i \in 0..Capacity
        /\ out' \in Slots
        /\ out + (i + 1) - 1 = out + i /\ out' + i - 1 = out' + (i - 1)
    BY <1>1 DEF TypeOK, Slots
  <2>2. out' = IF out + 1 = Capacity THEN 0 ELSE out + 1
    BY <1>1, NextSlot
  <2>3. (out + i) % Capacity = IF out + i < Capacity THEN out + i
                               ELSE out + i - Capacity
    BY <1>1, <2>1, SlotAt
  <2>4. (out' + (i - 1)) % Capacity
          = IF out' + (i - 1) < Capacity THEN out' + (i - 1)
                                         ELSE out' + (i - 1) - Capacity
    BY <2>1, SlotAt
  <2>5. (IF out + i < Capacity THEN out + i ELSE out + i - Capacity)
          = IF out' + (i - 1) < Capacity THEN out' + (i - 1)
                                         ELSE out' + (i - 1) - Capacity
    <3>1. out \in Slots /\ out' \in Slots /\ i \in 1..Capacity
      BY <1>1, <2>1
    <3> QED
      BY <2>2, <3>1 DEF Slots
  <2>6. Held[i + 1] = buffer[(out + (i + 1) - 1) % Capacity]
    <3>1. i + 1 \in 1..Len(Held)
      BY <1>1, <1>2
    <3> QED
      BY <1>1, <3>1, HeldSeq DEF HeldIs
  <2>7. Held'[i] = buffer'[(out' + i - 1) % Capacity]
    <3>1. \A j \in 1..Len(Held') : Held'[j] = buffer'[(out' + j - 1) % Capacity]
      BY <1>1, HeldSeqNext DEF HeldIs
    <3> QED
      BY <1>2, <3>1
  <2> QED
    BY <1>1, <2>1, <2>3, <2>4, <2>5, <2>6, <2>7
<1>5. Held' = Tail(Held)
  <2>1. /\ Tail(Held) \in Seq(Codes)
        /\ Len(Tail(Held)) = size - 1
        /\ \A i \in 1..size-1 : Tail(Held)[i] = Held[i + 1]
    BY <1>1, <1>2, HeadTailProperties
  <2>2. \A i \in 1..size-1 : Held'[i] = Tail(Held)[i]
    BY <1>4, <2>1
  <2> QED
    BY <1>2, <2>1, <2>2, SeqEqual
<1>6. Open' = [Open EXCEPT ![t] = "idle"] /\ Open[t] = "take"
  BY DEF IInv, TypeOK, Get, Goto, Open
<1>7. value' = [value EXCEPT ![t] = buffer[out]]
  BY DEF Get
<1> QED
  BY <1>2, <1>3, <1>5, <1>6, <1>7 DEF Fifo!Take

(* A clear drops every code. *)
LEMMA ClearRefines ==
  ASSUME IInv, NEW t \in Threads, Clear(t)
  PROVE  Fifo!Clear(t)
<1>1. Held' = << >>
  BY DEF Clear, Held
<1>2. Open' = [Open EXCEPT ![t] = "idle"] /\ Open[t] = "clear"
  BY DEF IInv, TypeOK, Clear, Goto, Open
<1> QED
  BY <1>1, <1>2 DEF Clear, Fifo!Clear

(* Replacing the queue is a renewal; making the new one changes nothing. *)
LEMMA RenewalRefines ==
  ASSUME IInv, Destroy \/ Create
  PROVE  Fifo!Renew
<1>1. Open = [t \in Threads |-> "idle"] /\ Open' = Open /\ value' = value
  BY DEF IInv, DeadIsIdle, Destroy, Create, Open
<1>2. Held' = << >>
  BY DEF Destroy, Create, Held
<1> QED
  BY <1>1, <1>2 DEF Fifo!Renew

(* The ring with its lock and its condition variables is a bounded
   first-in first-out queue. *)
THEOREM RingIsFifo == Spec => IsFifo
<1>1. IInv /\ [Next]_vars => [Fifo!Next]_(Fifo!vars)
  <2> SUFFICES ASSUME IInv, [Next]_vars PROVE [Fifo!Next]_(Fifo!vars)
    OBVIOUS
  <2>1. ASSUME NEW t \in Threads, (\E c \in Codes : CallAdd(t, c))
                                    \/ CallWait(t) \/ CallClear(t)
        PROVE  Fifo!Next
    BY <2>1, CallsRefine
  <2>2. ASSUME NEW t \in Threads, Add(t) \/ Get(t) \/ Clear(t)
        PROVE  Fifo!Next
    BY <2>2, AddRefines, GetRefines, ClearRefines DEF Fifo!Next
  <2>3. ASSUME NEW t \in Threads,
               \/ SleepFull(t) \/ SleepEmpty(t) \/ WakeUnasked(t)
               \/ BroadcastEmpty(t) \/ BroadcastFull(t)
        PROVE  UNCHANGED Fifo!vars
    BY <2>3, WaitingRefines
  <2>4. CASE Destroy \/ Create
    BY <2>4, RenewalRefines DEF Fifo!Next
  <2>5. CASE UNCHANGED vars
    BY <2>5 DEF vars, Fifo!vars, Held, Open
  <2> QED
    BY <2>1, <2>2, <2>3, <2>4, <2>5 DEF Next, Step
<1> QED
  BY <1>1, InitRefines, Invariance, PTL DEF Spec, IsFifo, Fifo!Spec

=============================================================================
