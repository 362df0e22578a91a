----------------------------- MODULE EventQueue -----------------------------
(***************************************************************************)
(* The event queue of thr-linux.cpp: a ring of event codes under a mutex   *)
(* with two condition variables.  It carries every message between the     *)
(* emulation thread, the VDP thread and the SCSP thread.                   *)
(*                                                                         *)
(* What a thread does between taking the mutex and giving it back (or      *)
(* going to sleep on a condition variable) is one step.  The broadcast     *)
(* comes after the mutex is given back and is a step of its own.           *)
(***************************************************************************)
EXTENDS Naturals, Sequences

CONSTANTS
  Producers,    \* the threads that call YabAddEventQueue
  Consumers,    \* the threads that call YabWaitEventQueue
  Clearers,     \* the threads that call YabClearEventQueue
  Codes,        \* the event codes
  Capacity      \* qsize of YabThreadCreateQueue

ASSUME CapacityAssumption == Capacity \in Nat \ {0}

Threads == Producers \cup Consumers \cup Clearers
Slots   == 0..Capacity-1

VARIABLES
  alive,     \* the queue exists
  buffer,    \* the ring; a fresh one holds whatever malloc left there
  size,      \* the number of codes in it
  in,        \* the slot the next code goes to
  out,       \* the slot of the oldest code
  pc,        \* where each thread is
  value      \* the code each thread is adding, or got last

vars == <<alive, buffer, size, in, out, pc, value>>
ring == <<alive, buffer, size, in, out>>

Inside == {"add", "waitFull", "signalEmpty",
           "get", "waitEmpty", "signalFull", "clear"}

Init ==
  /\ alive = TRUE
  /\ buffer \in [Slots -> Codes]
  /\ size = 0 /\ in = 0 /\ out = 0
  /\ pc = [t \in Threads |-> "idle"]
  /\ value \in [Threads -> Codes]

Goto(t, l) == pc' = [pc EXCEPT ![t] = l]

-----------------------------------------------------------------------------
(* The calls. *)

CallAdd(t, c) ==
  /\ alive /\ pc[t] = "idle" /\ t \in Producers
  /\ Goto(t, "add")
  /\ value' = [value EXCEPT ![t] = c]
  /\ UNCHANGED ring

CallWait(t) ==
  /\ alive /\ pc[t] = "idle" /\ t \in Consumers
  /\ Goto(t, "get")
  /\ UNCHANGED <<ring, value>>

CallClear(t) ==
  /\ alive /\ pc[t] = "idle" /\ t \in Clearers
  /\ Goto(t, "clear")
  /\ UNCHANGED <<ring, value>>

-----------------------------------------------------------------------------
(* YabAddEventQueue. *)

SleepFull(t) ==
  /\ pc[t] = "add" /\ size = Capacity
  /\ Goto(t, "waitFull")
  /\ UNCHANGED <<ring, value>>

\* mutant: the test for a full ring is left out
MutAddAnyway(t) ==
  /\ pc[t] = "add"
  /\ buffer' = [buffer EXCEPT ![in] = value[t]]
  /\ size' = size + 1
  /\ in' = (in + 1) % Capacity
  /\ Goto(t, "signalEmpty")
  /\ UNCHANGED <<alive, out, value>>

Add(t) ==
  /\ pc[t] = "add" /\ size # Capacity
  /\ buffer' = [buffer EXCEPT ![in] = value[t]]
  /\ size' = size + 1
  /\ in' = (in + 1) % Capacity
  /\ Goto(t, "signalEmpty")
  /\ UNCHANGED <<alive, out, value>>

Woken(from, to) == [t \in Threads |-> IF pc[t] = from THEN to ELSE pc[t]]

\* mutant: the broadcast is made only when the ring holds one code
MutBroadcastEmpty(t) ==
  /\ pc[t] = "signalEmpty"
  /\ pc' = [IF size = 1 THEN Woken("waitEmpty", "get") ELSE pc
              EXCEPT ![t] = "idle"]
  /\ UNCHANGED <<ring, value>>

\* pthread_cond_broadcast(cond_empty)
BroadcastEmpty(t) ==
  /\ pc[t] = "signalEmpty"
  /\ pc' = [Woken("waitEmpty", "get") EXCEPT ![t] = "idle"]
  /\ UNCHANGED <<ring, value>>

-----------------------------------------------------------------------------
(* YabWaitEventQueue. *)

SleepEmpty(t) ==
  /\ pc[t] = "get" /\ size = 0
  /\ Goto(t, "waitEmpty")
  /\ UNCHANGED <<ring, value>>

\* mutant: the newest code is taken
MutGet(t) ==
  /\ pc[t] = "get" /\ size # 0
  /\ value' = [value EXCEPT ![t] = buffer[(in + Capacity - 1) % Capacity]]
  /\ size' = size - 1
  /\ out' = (out + 1) % Capacity
  /\ Goto(t, "signalFull")
  /\ UNCHANGED <<alive, buffer, in>>

Get(t) ==
  /\ pc[t] = "get" /\ size # 0
  /\ value' = [value EXCEPT ![t] = buffer[out]]
  /\ size' = size - 1
  /\ out' = (out + 1) % Capacity
  /\ Goto(t, "signalFull")
  /\ UNCHANGED <<alive, buffer, in>>

\* pthread_cond_broadcast(cond_full)
BroadcastFull(t) ==
  /\ pc[t] = "signalFull"
  /\ pc' = [Woken("waitFull", "add") EXCEPT ![t] = "idle"]
  /\ UNCHANGED <<ring, value>>

\* a sleeper wakes up unasked and tests its condition again
WakeUnasked(t) ==
  /\ \/ pc[t] = "waitFull"  /\ Goto(t, "add")
     \/ pc[t] = "waitEmpty" /\ Goto(t, "get")
  /\ UNCHANGED <<ring, value>>

-----------------------------------------------------------------------------
(* YabClearEventQueue: nothing is broadcast. *)

Clear(t) ==
  /\ pc[t] = "clear"
  /\ size' = 0
  /\ out' = (out + size) % Capacity
  /\ Goto(t, "idle")
  /\ UNCHANGED <<alive, buffer, in, value>>

-----------------------------------------------------------------------------
(* YabThreadDestoryQueue, called when the threads have been joined, waits
   for ever on a full queue.  YabThreadCreateQueue makes a new one. *)

Destroy ==
  /\ alive /\ pc = [t \in Threads |-> "idle"]
  /\ size # Capacity
  /\ alive' = FALSE
  /\ UNCHANGED <<buffer, size, in, out, pc, value>>

Create ==
  /\ ~alive
  /\ alive' = TRUE
  /\ buffer' \in [Slots -> Codes]
  /\ size' = 0 /\ in' = 0 /\ out' = 0
  /\ UNCHANGED <<pc, value>>

\* what a thread goes on with inside a call, once it is scheduled
Step(t) ==
  \/ SleepFull(t) \/ Add(t) \/ BroadcastEmpty(t)
  \/ SleepEmpty(t) \/ Get(t) \/ BroadcastFull(t)
  \/ Clear(t)

Next ==
  \/ \E t \in Threads :
       \/ \E c \in Codes : CallAdd(t, c)
       \/ CallWait(t) \/ CallClear(t)
       \/ Step(t) \/ WakeUnasked(t)
  \/ Destroy \/ Create

Spec == Init /\ [][Next]_vars

\* the operating system schedules every thread that can run
FairSpec == Spec /\ \A t \in Threads : WF_vars(Step(t))

-----------------------------------------------------------------------------
(* Properties. *)

(* Type correctness: the sizes and the indices that index the ring. *)
TypeOK ==
  /\ alive \in BOOLEAN
  /\ buffer \in [Slots -> Codes]
  /\ size \in 0..Capacity
  /\ in \in Slots
  /\ out \in Slots
  /\ pc \in [Threads -> Inside \cup {"idle"}]
  /\ value \in [Threads -> Codes]

(* The three counters of the ring agree, whatever adds, gets and clears
   have gone round it. *)
RingConsistent == in = (out + size) % Capacity

At(l) == {t \in Threads : pc[t] = l}

(* No lost wakeup of a consumer: one that sleeps while there is a code has
   a broadcast coming.  The broadcast is made after the mutex is given back,
   so that a consumer can test, find the ring empty and fall asleep between
   another thread's add and its broadcast. *)
NoSleepingTaker ==
  At("waitEmpty") # {} /\ size > 0 => At("signalEmpty") # {}

(* No lost wakeup of a producer: one that sleeps while there is room has a
   broadcast coming.  It holds of the queues nobody clears (a theorem of
   EventQueueProofs): a clear makes room and tells nobody. *)
NoSleepingPutter ==
  At("waitFull") # {} /\ size < Capacity => At("signalFull") # {}

(* The codes held, oldest first. *)
Held ==
  [i \in 1..(IF alive THEN size ELSE 0) |-> buffer[(out + i - 1) % Capacity]]

Open == [t \in Threads |->
  CASE pc[t] \in {"add", "waitFull"}  -> "put"
    [] pc[t] \in {"get", "waitEmpty"} -> "take"
    [] pc[t] = "clear"                -> "clear"
    [] OTHER                          -> "idle"]

Fifo == INSTANCE EventFifo WITH q <- Held, call <- Open, item <- value

(* The ring and its locks are a bounded first-in first-out queue: no code is
   lost, repeated, invented or overtaken, whatever the threads interleave. *)
IsFifo == Fifo!Spec

(* And one that does not stop its consumers: while there is a code some open
   wait goes on, whatever broadcasts are merged, late or wake in vain. *)
IsLiveFifo == Fifo!FairSpec

=============================================================================
