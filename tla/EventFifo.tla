----------------------------- MODULE EventFifo ------------------------------
(***************************************************************************)
(* What the threads of the emulator expect of an event queue: a bounded    *)
(* first-in first-out queue.  A call is made, then takes effect in one     *)
(* step; a put has no effect while the queue is full, a take none while it *)
(* is empty.                                                               *)
(***************************************************************************)
EXTENDS Naturals, Sequences

CONSTANTS
  Threads,    \* the threads that share the queue
  Codes,      \* the event codes
  Capacity    \* the number of codes it holds

VARIABLES
  q,       \* the codes held, oldest first
  call,    \* the call each thread has open
  item     \* the code each thread is putting, or took last

vars == <<q, call, item>>

Calls == {"idle", "put", "take", "clear"}

Init ==
  /\ q = << >>
  /\ call = [t \in Threads |-> "idle"]
  /\ item \in [Threads -> Codes]

CallPut(t, c) ==
  /\ call[t] = "idle"
  /\ call' = [call EXCEPT ![t] = "put"]
  /\ item' = [item EXCEPT ![t] = c]
  /\ q' = q

CallOther(t, k) ==
  /\ call[t] = "idle"
  /\ call' = [call EXCEPT ![t] = k]
  /\ UNCHANGED <<q, item>>

Put(t) ==
  /\ call[t] = "put"
  /\ Len(q) < Capacity
  /\ q' = Append(q, item[t])
  /\ call' = [call EXCEPT ![t] = "idle"]
  /\ item' = item

Take(t) ==
  /\ call[t] = "take"
  /\ q # << >>
  /\ q' = Tail(q)
  /\ item' = [item EXCEPT ![t] = Head(q)]
  /\ call' = [call EXCEPT ![t] = "idle"]

Clear(t) ==
  /\ call[t] = "clear"
  /\ q' = << >>
  /\ call' = [call EXCEPT ![t] = "idle"]
  /\ item' = item

\* the queue is replaced by a new one while no call is open
Renew ==
  /\ call = [t \in Threads |-> "idle"]
  /\ q' = << >>
  /\ UNCHANGED <<call, item>>

Next ==
  \/ \E t \in Threads, c \in Codes : CallPut(t, c)
  \/ \E t \in Threads, k \in {"take", "clear"} : CallOther(t, k)
  \/ \E t \in Threads : Put(t) \/ Take(t) \/ Clear(t)
  \/ Renew

Spec == Init /\ [][Next]_vars

\* while there is a code, some take goes on; no such thing is promised of puts,
\* because a clear makes room and tells nobody
FairSpec == Spec /\ WF_vars(\E t \in Threads : Take(t))

=============================================================================
