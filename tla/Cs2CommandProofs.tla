--------------------------- MODULE Cs2CommandProofs ---------------------------
(***************************************************************************)
(* Proofs about Cs2Command: for every time a command and a lock may take   *)
(* and however often the tray is moved, the state keeps its type and an    *)
(* answer that is read is whole.                                           *)
(*                                                                         *)
(* AnswerIsWhole speaks of what has been read.  It is inductive only with  *)
(* what holds at every place of the conversation before: which registers   *)
(* the program has filled, that the lock keeps the reports out of them,    *)
(* that CMOK is down until the command has run, and that no command is     *)
(* left over from the conversation before.  All of that is void once the   *)
(* tray is moved in a conversation, until no command is left.              *)
(***************************************************************************)
EXTENDS Cs2Command, TLAPS

\* what the program is to read of register i after its command
Expected(i) == IF i \in Untouched(kind) THEN "asked" ELSE "answer"

\* no register is written yet, or the ones below reg are
Writing ==
  pc = "write" =>
    /\ timing = 0 /\ "CMOK" \notin HIRQ
    /\ \A i \in Registers : got[i] = "none" /\ (i < reg => cr[i] = "asked")
    /\ reg > 1 => command /\ ~peri

\* the command is to run, or has run and its answer is there
Waiting ==
  pc \in {"wait", "asleep"} =>
    /\ reg = 1 /\ command /\ ~peri
    /\ \A i \in Registers : got[i] = "none"
    /\ \/ timing > 0 /\ "CMOK" \notin HIRQ /\ \A i \in Registers : cr[i] = "asked"
       \/ timing = 0 /\ \A i \in Registers : cr[i] = Expected(i)

\* the answer stays while it is read
Reading ==
  pc = "read" =>
    /\ timing = 0 /\ command
    /\ \A i \in Registers :
         /\ cr[i] = Expected(i)
         /\ got[i] = IF i < reg THEN Expected(i) ELSE "none"

\* nothing is left of the conversation but what was read
Between ==
  pc = "idle" =>
    /\ timing = 0
    /\ \A i \in Registers : got[i] \in {"none", Expected(i)}

\* the inductive invariant
IInv ==
  /\ TypeOK
  /\ ~upset => Writing /\ Waiting /\ Reading /\ Between

-----------------------------------------------------------------------------
(* The type of the state *)

\* what CR1 to CR4 may hold
Holdings == {"reset", "asked", "answer", "report", "other"}

\* the values of a time that starts at one of S and counts down
Times(S) == {0} \cup UNION {1..t : t \in S}

\* A countdown stays within its values, and so does a new start.
LEMMA Countdown ==
  ASSUME NEW S, S \subseteq Nat
  PROVE  /\ \A x \in Times(S) : x \in Nat /\ (x > 0 => x - 1 \in Times(S))
         /\ \A t \in S : t \in Times(S)
  <1>1. ASSUME NEW x \in Times(S) PROVE x \in Nat /\ (x > 0 => x - 1 \in Times(S))
    <2>1. CASE x = 0
      BY <2>1
    <2>2. CASE x # 0
      <3>1. PICK t \in S : x \in 1..t
        BY <1>1, <2>2 DEF Times
      <3>2. t \in Nat /\ x \in Nat
        BY <3>1
      <3>3. x - 1 = 0 \/ x - 1 \in 1..t
        BY <3>1, <3>2
      <3>4. x - 1 \in Times(S)
        BY <3>1, <3>3 DEF Times
      <3>. QED BY <3>2, <3>4
    <2>. QED BY <2>1, <2>2
  <1>2. ASSUME NEW t \in S PROVE t \in Times(S)
    <2>1. t \in Nat
      OBVIOUS
    <2>2. t = 0 \/ t \in 1..t
      BY <2>1
    <2>. QED BY <2>2 DEF Times
  <1>. QED BY <1>1, <1>2

\* The type of the state with its Boolean variables one by one.
LEMMA TypeParts ==
  TypeOK <=>
    /\ cr \in [Registers -> Holdings]
    /\ HIRQ \subseteq Bits /\ mask \subseteq Bits
    /\ peri \in BOOLEAN /\ command \in BOOLEAN
    /\ woken \in BOOLEAN /\ upset \in BOOLEAN
    /\ timing \in Times(CommandTimes) /\ execlock \in Times(LockTimes)
    /\ pc \in {"idle", "write", "wait", "asleep", "read"}
    /\ kind \in Kinds /\ reg \in Registers
    /\ got \in [Registers -> Holdings \cup {"none"}]
    /\ trays \in 0..MaxTrays
  <1>1. Holdings \cup {"none"} = {"none", "reset", "asked", "answer", "report", "other"}
    BY DEF Holdings
  <1>2. {peri, command, woken, upset} \subseteq BOOLEAN <=>
          /\ peri \in BOOLEAN /\ command \in BOOLEAN
          /\ woken \in BOOLEAN /\ upset \in BOOLEAN
    BY Zenon
  <1>. QED BY <1>1, <1>2 DEF TypeOK, Holdings, Times

\* The end of a slice leaves the type of what it writes.
LEMMA PeriodicType ==
  ASSUME TypeOK, NEW tick \in BOOLEAN, NEW answered \in [Registers -> Holdings],
         NEW raised \in SUBSET Bits, NEW silent \in SUBSET Bits,
         Periodic(tick, answered, raised, silent)
  PROVE  /\ cr' \in [Registers -> Holdings] /\ HIRQ' \subseteq Bits
         /\ peri' \in BOOLEAN /\ woken' \in BOOLEAN
  <1>1. HIRQ \subseteq Bits /\ peri \in BOOLEAN /\ woken \in BOOLEAN
    BY TypeParts
  <1>2. All("report") \in [Registers -> Holdings]
    BY DEF All, Holdings
  <1>3. cr' \in [Registers -> Holdings]
    BY <1>2 DEF Periodic
  <1>4. HIRQ' \subseteq Bits
    BY <1>1 DEF Periodic, Bits
  <1>5. peri' \in BOOLEAN /\ woken' \in BOOLEAN
    BY <1>1 DEF Periodic
  <1>. QED BY <1>3, <1>4, <1>5

\* An answer has the type of the registers.
LEMMA AnswerType ==
  ASSUME TypeOK, NEW k \in Kinds
  PROVE  Answer(k) \in [Registers -> Holdings]
  BY TypeParts DEF Answer, Holdings

\* Every step keeps the type.
LEMMA TypeStep == TypeOK /\ [Next]_vars => TypeOK'
  <1> SUFFICES ASSUME TypeOK, [Next]_vars PROVE TypeOK'
    OBVIOUS
  <1>t. /\ cr \in [Registers -> Holdings]
        /\ HIRQ \subseteq Bits /\ mask \subseteq Bits
        /\ peri \in BOOLEAN /\ command \in BOOLEAN
        /\ woken \in BOOLEAN /\ upset \in BOOLEAN
        /\ timing \in Times(CommandTimes) /\ execlock \in Times(LockTimes)
        /\ pc \in {"idle", "write", "wait", "asleep", "read"}
        /\ kind \in Kinds /\ reg \in Registers
        /\ got \in [Registers -> Holdings \cup {"none"}]
        /\ trays \in 0..MaxTrays
    BY TypeParts
  <1>c. CommandTimes \subseteq Nat /\ LockTimes \subseteq Nat /\ MaxTrays \in Nat
    BY CommandAssumption
  <1>n. /\ \A x \in Times(CommandTimes) : x > 0 => x - 1 \in Times(CommandTimes)
        /\ \A x \in Times(LockTimes) : x > 0 => x - 1 \in Times(LockTimes)
        /\ \A x \in CommandTimes : x \in Times(CommandTimes)
        /\ \A x \in LockTimes : x \in Times(LockTimes)
        /\ timing \in Nat /\ execlock \in Nat
        /\ 0 \in Times(CommandTimes) /\ 0 \in Times(LockTimes)
    <2>1. 0 \in Times(CommandTimes) /\ 0 \in Times(LockTimes)
      BY DEF Times
    <2>. QED BY <2>1, <1>c, <1>t, Countdown
  <1>s. /\ cr' \in [Registers -> Holdings]
        /\ HIRQ' \subseteq Bits /\ mask' \subseteq Bits
        /\ peri' \in BOOLEAN /\ command' \in BOOLEAN
        /\ woken' \in BOOLEAN /\ upset' \in BOOLEAN
        /\ timing' \in Times(CommandTimes) /\ execlock' \in Times(LockTimes)
        /\ pc' \in {"idle", "write", "wait", "asleep", "read"}
        /\ kind' \in Kinds /\ reg' \in Registers
        /\ got' \in [Registers -> Holdings \cup {"none"}]
        /\ trays' \in 0..MaxTrays
    <2>1. CASE Begin
      <3>1. (timing > 0) \in BOOLEAN
        OBVIOUS
      <3>2. upset' \in BOOLEAN /\ woken' \in BOOLEAN
        BY <2>1, <1>t DEF Begin
      <3>3. HIRQ' \subseteq Bits /\ got' \in [Registers -> Holdings \cup {"none"}]
        BY <2>1, <1>t DEF Begin, All
      <3>4. reg' \in Registers /\ kind' \in Kinds /\ pc' = "write"
        BY <2>1 DEF Begin, Registers
      <3>. QED BY <2>1, <3>2, <3>3, <3>4, <1>t DEF Begin
    <2>2. CASE WriteCR
      <3>1. cr' \in [Registers -> Holdings]
        BY <2>2, <1>t DEF WriteCR, Holdings
      <3>2. peri' \in BOOLEAN /\ command' \in BOOLEAN
        BY <2>2, <1>t DEF WriteCR
      <3>3. /\ timing' \in Times(CommandTimes) /\ reg' \in Registers
            /\ pc' \in {"idle", "write", "wait", "asleep", "read"}
        BY <2>2, <1>t, <1>n DEF WriteCR, Registers
      <3>. QED BY <2>2, <3>1, <3>2, <3>3, <1>t DEF WriteCR
    <2>3. CASE SeeCMOK
      BY <2>3, <1>t DEF SeeCMOK, cdblock
    <2>4. CASE Wake
      BY <2>4, <1>t DEF Wake, cdblock
    <2>5. CASE ReadCR
      <3>1. got' \in [Registers -> Holdings \cup {"none"}]
        BY <2>5, <1>t DEF ReadCR
      <3>2. command' \in BOOLEAN
        BY <2>5, <1>t DEF ReadCR
      <3>3. reg' \in Registers /\ pc' \in {"idle", "write", "wait", "asleep", "read"}
        BY <2>5, <1>t DEF ReadCR, Registers
      <3>. QED BY <2>5, <3>1, <3>2, <3>3, <1>t DEF ReadCR
    <2>6. CASE Leave
      BY <2>6, <1>t DEF Leave, cdblock
    <2>7. CASE ReadReport
      BY <2>7, <1>t DEF ReadReport, program
    <2>8. CASE WriteMask
      <3>1. mask' \subseteq Bits
        BY <2>8 DEF WriteMask, Bits
      <3>. QED BY <2>8, <3>1, <1>t DEF WriteMask, program
    <2>9. CASE Cs2Exec
      <3>1. PICK tick \in BOOLEAN, d \in SUBSET {"drive"} :
              Wait(tick, d) \/ Execute(tick, d)
        BY <2>9 DEF Cs2Exec
      <3>2. ASSUME Wait(tick, d)
            PROVE  /\ cr' \in [Registers -> Holdings] /\ HIRQ' \subseteq Bits
                   /\ peri' \in BOOLEAN /\ woken' \in BOOLEAN
                   /\ timing' \in Times(CommandTimes) /\ execlock' \in Times(LockTimes)
        <4>1. d \cup (IF execlock = 1 THEN {"end"} ELSE {}) \in SUBSET Bits
          BY DEF Bits
        <4>2. {} \in SUBSET Bits
          OBVIOUS
        <4>3. Periodic(tick, cr, d \cup (IF execlock = 1 THEN {"end"} ELSE {}), {})
          BY <3>2 DEF Wait
        <4>4. timing' \in Times(CommandTimes) /\ execlock' \in Times(LockTimes)
          BY <3>2, <1>t, <1>n DEF Wait
        <4>. QED BY <4>1, <4>2, <4>3, <4>4, <1>t, PeriodicType
      <3>3. ASSUME Execute(tick, d)
            PROVE  /\ cr' \in [Registers -> Holdings] /\ HIRQ' \subseteq Bits
                   /\ peri' \in BOOLEAN /\ woken' \in BOOLEAN
                   /\ timing' \in Times(CommandTimes) /\ execlock' \in Times(LockTimes)
        <4>1. PICK k \in Kinds :
                /\ IF k = "long" THEN execlock' \in LockTimes ELSE execlock' = 0
                /\ IF k = "status" THEN Periodic(tick, Answer(k), d, {"CMOK"})
                   ELSE Periodic(tick, Answer(k), d \cup {"CMOK"}, {})
          BY <3>3, <1>t DEF Execute
        <4>2. /\ d \in SUBSET Bits /\ d \cup {"CMOK"} \in SUBSET Bits
              /\ {"CMOK"} \in SUBSET Bits /\ {} \in SUBSET Bits
          BY DEF Bits
        <4>3. Answer(k) \in [Registers -> Holdings]
          BY AnswerType
        <4>4. timing' \in Times(CommandTimes) /\ execlock' \in Times(LockTimes)
          BY <3>3, <4>1, <1>n DEF Execute
        <4>. QED BY <4>1, <4>2, <4>3, <4>4, PeriodicType
      <3>. QED BY <2>9, <3>1, <3>2, <3>3, <1>t DEF Cs2Exec, program
    <2>10. CASE Tray
      <3>1. cr' \in [Registers -> Holdings]
        BY <2>10 DEF Tray, Cs2Reset, All, Holdings
      <3>2. upset' \in BOOLEAN
        BY <2>10, <1>t DEF Tray
      <3>3. trays' \in 0..MaxTrays
        BY <2>10, <1>t, <1>c DEF Tray
      <3>. QED BY <2>10, <3>1, <3>2, <3>3, <1>t, <1>n DEF Tray, Cs2Reset, program
    <2>11. CASE UNCHANGED vars
      BY <2>11, <1>t DEF vars, cdblock, program
    <2>. QED BY <2>1, <2>2, <2>3, <2>4, <2>5, <2>6, <2>7, <2>8, <2>9, <2>10, <2>11
             DEF Next, Program
  <1>u. {peri, command, woken, upset}' \subseteq BOOLEAN
    BY <1>s, Zenon
  <1>. QED BY <1>s, <1>u DEF TypeOK, Holdings, Times

\* The first state has the type.
LEMMA TypeInit == Init => TypeOK
  <1> SUFFICES ASSUME Init PROVE TypeOK
    OBVIOUS
  <1>1. cr \in [Registers -> Holdings] /\ got \in [Registers -> Holdings \cup {"none"}]
    BY DEF Init, All, Holdings
  <1>2. timing \in Times(CommandTimes) /\ execlock \in Times(LockTimes)
    BY DEF Init, Times
  <1>3. trays \in 0..MaxTrays
    BY CommandAssumption DEF Init
  <1>4. /\ HIRQ \subseteq Bits /\ mask \subseteq Bits /\ kind \in Kinds
        /\ reg \in Registers /\ pc = "idle"
    BY DEF Init, Registers, Kinds, Bits
  <1>5. /\ peri \in BOOLEAN /\ command \in BOOLEAN
        /\ woken \in BOOLEAN /\ upset \in BOOLEAN
    BY DEF Init
  <1>. QED BY <1>1, <1>2, <1>3, <1>4, <1>5, TypeParts

\* TypeOK holds of every time of a command and of a lock and every number of trays:
\* the counters of Cs2Exec never pass below 0, in whatever order a command, a
\* lock and a reset meet.
THEOREM TypeCorrect == Spec => []TypeOK
  BY TypeInit, TypeStep, PTL DEF Spec

-----------------------------------------------------------------------------
(* The answer *)

\* While the lock is held a slice leaves CR1 to CR4 to the command and PERI alone,
\* and raises CMOK only if a command raises it.
LEMMA LockedSlice ==
  ASSUME NEW tick \in BOOLEAN, NEW answered, NEW raised, NEW silent,
         Periodic(tick, answered, raised, silent),
         command \in BOOLEAN, peri \in BOOLEAN
  PROVE  /\ command => cr' = answered /\ peri' = peri
         /\ "CMOK" \notin raised \cup silent \cup HIRQ => "CMOK" \notin HIRQ'
  <1>1. ASSUME command PROVE cr' = answered /\ peri' = peri
    <2>1. ~(tick /\ ~command)
      BY <1>1, Zenon
    <2>2. cr' = answered
      BY <2>1 DEF Periodic
    <2>3. peri' = peri
      BY <2>1, Zenon DEF Periodic
    <2>. QED BY <2>2, <2>3
  <1>2. ASSUME "CMOK" \notin raised \cup silent \cup HIRQ PROVE "CMOK" \notin HIRQ'
    BY <1>2 DEF Periodic
  <1>. QED BY <1>1, <1>2

\* A slice in which no command runs raises no CMOK and does not bring the time to
\* 0, and one in which a command runs takes it from 1 to 0; under the lock only
\* the command writes CR1 to CR4.
LEMMA SliceSteps ==
  ASSUME TypeOK, Cs2Exec
  PROVE  /\ UNCHANGED <<mask, command, pc, kind, reg, got, upset, trays>>
         /\ \/ /\ timing > 0 <=> timing' > 0
               /\ command => cr' = cr /\ peri' = peri
               /\ "CMOK" \notin HIRQ => "CMOK" \notin HIRQ'
            \/ /\ timing = 1 /\ timing' = 0
               /\ command => peri' = peri
               /\ command /\ cr[1] = "asked" => cr' = Answer(kind)
  <1>1. UNCHANGED <<mask, command, pc, kind, reg, got, upset, trays>>
    BY DEF Cs2Exec, program
  <1>2. PICK tick \in BOOLEAN, d \in SUBSET {"drive"} :
          Wait(tick, d) \/ Execute(tick, d)
    BY DEF Cs2Exec
  <1>3. command \in BOOLEAN /\ peri \in BOOLEAN /\ timing \in Nat
    <2>1. CommandTimes \subseteq Nat
      BY CommandAssumption
    <2>2. command \in BOOLEAN /\ peri \in BOOLEAN /\ timing \in Times(CommandTimes)
      BY TypeParts
    <2>. QED BY <2>1, <2>2, Countdown
  <1>4. CASE Wait(tick, d)
    <2>1. Periodic(tick, cr, d \cup (IF execlock = 1 THEN {"end"} ELSE {}), {})
      BY <1>4 DEF Wait
    <2>2. timing > 0 <=> timing' > 0
      BY <1>3, <1>4 DEF Wait
    <2>3. command => cr' = cr /\ peri' = peri
      BY <2>1, <1>3, LockedSlice
    <2>4. "CMOK" \notin d \cup (IF execlock = 1 THEN {"end"} ELSE {}) \cup {}
      OBVIOUS
    <2>5. "CMOK" \notin HIRQ => "CMOK" \notin HIRQ'
      BY <2>1, <2>4 DEF Periodic
    <2>. QED BY <1>1, <2>2, <2>3, <2>5
  <1>5. CASE Execute(tick, d)
    <2>1. PICK k \in IF cr[1] = "asked" THEN {kind} ELSE Kinds :
            IF k = "status" THEN Periodic(tick, Answer(k), d, {"CMOK"})
            ELSE Periodic(tick, Answer(k), d \cup {"CMOK"}, {})
      BY <1>5 DEF Execute
    <2>2. command => cr' = Answer(k) /\ peri' = peri
      BY <2>1, <1>3, LockedSlice
    <2>3. cr[1] = "asked" => k = kind
      BY <2>1
    <2>. QED BY <1>1, <1>5, <2>2, <2>3 DEF Execute
  <1>. QED BY <1>2, <1>4, <1>5

\* The inductive step.
LEMMA AnswerStep == IInv /\ [Next]_vars => IInv'
  <1> SUFFICES ASSUME IInv, [Next]_vars, ~upset' 
               PROVE  Writing' /\ Waiting' /\ Reading' /\ Between'
    BY TypeStep DEF IInv
  <1>t. /\ TypeOK /\ cr \in [Registers -> Holdings]
        /\ command \in BOOLEAN /\ upset \in BOOLEAN /\ peri \in BOOLEAN
        /\ pc \in {"idle", "write", "wait", "asleep", "read"}
        /\ kind \in Kinds /\ reg \in {1, 2, 3, 4} /\ timing \in Nat
        /\ got \in [Registers -> Holdings \cup {"none"}]
    <2>1. CommandTimes \subseteq Nat
      BY CommandAssumption
    <2>2. timing \in Nat
      BY <2>1, TypeParts, Countdown DEF IInv
    <2>3. Registers = {1, 2, 3, 4}
      BY DEF Registers
    <2>. QED BY <2>2, <2>3, TypeParts DEF IInv
  <1>i. ~upset => Writing /\ Waiting /\ Reading /\ Between
    BY DEF IInv
  <1>r. Registers = {1, 2, 3, 4}
    BY DEF Registers
  <1>1. CASE Begin
    <2>1. timing' = 0
      <3>1. CASE upset
        <4>1. ~(timing > 0)
          BY <1>1, <3>1, Zenon DEF Begin
        <4>. QED BY <1>1, <4>1, <1>t DEF Begin
      <3>2. CASE ~upset
        BY <1>1, <3>2, <1>i DEF Begin, Between
      <3>. QED BY <3>1, <3>2
    <2>2. "CMOK" \notin HIRQ' /\ pc' = "write" /\ reg' = 1
      BY <1>1 DEF Begin
    <2>3. \A i \in Registers : got'[i] = "none"
      BY <1>1 DEF Begin, All
    <2>4. Writing'
      BY <2>1, <2>2, <2>3, <1>r DEF Writing
    <2>. QED BY <2>2, <2>4 DEF Waiting, Reading, Between
  <1>2. CASE WriteCR
    <2>0. ~upset /\ pc = "write" /\ Writing
      BY <1>2, <1>i DEF WriteCR
    <2>1. \A i \in Registers : got'[i] = "none" /\ (i <= reg => cr'[i] = "asked")
      BY <1>2, <2>0, <1>t, <1>r DEF WriteCR, Writing
    <2>2. command' /\ ~peri'
      <3>1. CASE reg = 1
        BY <1>2, <3>1 DEF WriteCR
      <3>2. CASE reg # 1
        BY <1>2, <3>2, <2>0, <1>t DEF WriteCR, Writing
      <3>. QED BY <3>1, <3>2
    <2>3. "CMOK" \notin HIRQ'
      BY <1>2, <2>0 DEF WriteCR, Writing
    <2>4. CASE reg = 4
      <3>1. timing' \in CommandTimes /\ pc' \in {"wait", "asleep"} /\ reg' = 1
        BY <1>2, <2>4 DEF WriteCR
      <3>2. timing' > 0
        BY <3>1, CommandAssumption
      <3>3. Waiting'
        BY <2>1, <2>2, <2>3, <3>1, <3>2, <2>4, <1>r DEF Waiting
      <3>. QED BY <3>1, <3>3 DEF Writing, Reading, Between
    <2>5. CASE reg # 4
      <3>1. timing' = 0 /\ pc' = "write" /\ reg' = reg + 1
        BY <1>2, <2>5, <2>0 DEF WriteCR, Writing
      <3>2. Writing'
        BY <2>1, <2>2, <2>3, <3>1, <1>t, <1>r DEF Writing
      <3>. QED BY <3>1, <3>2 DEF Waiting, Reading, Between
    <2>. QED BY <2>4, <2>5
  <1>3. ASSUME SeeCMOK \/ Wake
        PROVE  Writing' /\ Waiting' /\ Reading' /\ Between'
    <2>1. /\ pc \in {"wait", "asleep"} /\ ~upset /\ Waiting
          /\ (pc' = "read" /\ "CMOK" \in HIRQ) \/ pc' = pc
          /\ UNCHANGED <<cr, HIRQ, peri, command, timing, kind, reg, got>>
      BY <1>3, <1>i DEF SeeCMOK, Wake, cdblock
    <2>2. CASE pc' = pc
      <3>1. Waiting'
        BY <2>1, <2>2 DEF Waiting, Expected
      <3>. QED BY <3>1, <2>1, <2>2 DEF Writing, Reading, Between
    <2>3. CASE pc' = "read" /\ "CMOK" \in HIRQ
      <3>1. Reading'
        BY <2>1, <2>3, <1>r DEF Waiting, Reading, Expected
      <3>. QED BY <3>1, <2>3 DEF Writing, Waiting, Between
    <2>. QED BY <2>1, <2>2, <2>3
  <1>4. CASE ReadCR
    <2>0. ~upset /\ pc = "read" /\ Reading
      BY <1>4, <1>i DEF ReadCR
    <2>1. /\ timing' = 0 /\ UNCHANGED <<cr, kind>>
          /\ \A i \in Registers : cr[i] = Expected(i)
          /\ \A i \in Registers : got'[i] = IF i <= reg THEN Expected(i) ELSE "none"
      BY <1>4, <2>0, <1>t, <1>r DEF ReadCR, Reading
    <2>2. CASE reg = 4
      <3>1. pc' = "idle"
        BY <1>4, <2>2 DEF ReadCR
      <3>2. Between'
        BY <2>1, <2>2, <1>r DEF Between, Expected
      <3>. QED BY <3>1, <3>2 DEF Writing, Waiting, Reading
    <2>3. CASE reg # 4
      <3>1. pc' = "read" /\ reg' = reg + 1 /\ command' = command
        BY <1>4, <2>3, <2>0 DEF ReadCR
      <3>2. \A i \in Registers : i < reg' <=> i <= reg
        BY <3>1, <1>t, <1>r
      <3>3. Reading'
        BY <2>0, <2>1, <3>1, <3>2 DEF Reading, Expected
      <3>. QED BY <3>1, <3>3 DEF Writing, Waiting, Between
    <2>. QED BY <2>2, <2>3
  <1>5. CASE Leave
    <2>1. /\ ~upset /\ pc = "read" /\ reg = 1 /\ pc' = "idle" /\ Reading
          /\ UNCHANGED <<timing, kind, got>>
      BY <1>5, <1>i DEF Leave, cdblock
    <2>2. Between'
      BY <2>1, <1>r DEF Reading, Between
    <2>. QED BY <2>1, <2>2 DEF Writing, Waiting, Reading
  <1>6. ASSUME ReadReport \/ WriteMask
        PROVE  Writing' /\ Waiting' /\ Reading' /\ Between'
    <2>1. /\ ~upset /\ pc = "idle" /\ Between
          /\ UNCHANGED <<pc, timing, kind, got>>
      BY <1>6, <1>i DEF ReadReport, WriteMask, program
    <2>2. Between'
      BY <2>1 DEF Between, Expected
    <2>. QED BY <2>1, <2>2 DEF Writing, Waiting, Reading
  <1>7. CASE Cs2Exec
    <2>0. /\ ~upset /\ Writing /\ Waiting /\ Reading /\ Between
          /\ UNCHANGED <<command, pc, kind, reg, got>>
      BY <1>7, <1>t, <1>i, SliceSteps
    <2>1. CASE /\ timing > 0 <=> timing' > 0
               /\ command => cr' = cr /\ peri' = peri
               /\ "CMOK" \notin HIRQ => "CMOK" \notin HIRQ'
      <3>0. timing = 0 => timing' = 0
        <4>1. timing' \in Nat
          <5>1. TypeOK'
            BY TypeStep, <1>t
          <5>2. CommandTimes \subseteq Nat
            BY CommandAssumption
          <5>. QED BY <5>1, <5>2, Countdown DEF TypeOK, Times
        <4>. QED BY <4>1, <2>1
      <3>1. Writing'
        BY <2>0, <2>1, <3>0, <1>t, <1>r DEF Writing
      <3>2. Waiting'
        BY <2>0, <2>1, <3>0 DEF Waiting, Expected
      <3>3. Reading'
        BY <2>0, <2>1, <3>0 DEF Reading, Expected
      <3>4. Between'
        BY <2>0, <3>0 DEF Between, Expected
      <3>. QED BY <3>1, <3>2, <3>3, <3>4
    <2>2. CASE /\ timing = 1 /\ timing' = 0
               /\ command => peri' = peri
               /\ command /\ cr[1] = "asked" => cr' = Answer(kind)
      <3>1. pc \in {"wait", "asleep"}
        BY <2>0, <2>2, <1>t DEF Writing, Reading, Between
      <3>2. /\ command /\ ~peri /\ reg = 1
            /\ \A i \in Registers : got[i] = "none" /\ cr[i] = "asked"
        BY <2>0, <2>2, <3>1 DEF Waiting
      <3>3. cr' = Answer(kind)
        BY <2>2, <3>2, <1>r
      <3>4. \A i \in Registers : cr'[i] = Expected(i)
        BY <3>2, <3>3 DEF Answer, Expected
      <3>5. Waiting'
        BY <2>0, <2>2, <3>2, <3>4 DEF Waiting, Expected
      <3>. QED BY <3>1, <3>5, <2>0 DEF Writing, Reading, Between
    <2>. QED BY <1>7, <1>t, SliceSteps, <2>1, <2>2
  <1>8. CASE Tray
    <2>1. /\ ~upset /\ pc = "idle" /\ Between /\ timing' = 0
          /\ UNCHANGED <<pc, kind, got>>
      BY <1>8, <1>t, <1>i DEF Tray, Cs2Reset, program
    <2>2. Between'
      BY <2>1 DEF Between, Expected
    <2>. QED BY <2>1, <2>2 DEF Writing, Waiting, Reading
  <1>9. CASE UNCHANGED vars
    <2>1. ~upset /\ Writing /\ Waiting /\ Reading /\ Between
      BY <1>9, <1>i DEF vars
    <2>. QED BY <2>1, <1>9
             DEF vars, cdblock, program, Writing, Waiting, Reading, Between, Expected
  <1>. QED BY <1>1, <1>2, <1>3, <1>4, <1>5, <1>6, <1>7, <1>8, <1>9 DEF Next, Program

\* At the first state no conversation has begun.
LEMMA AnswerInit == Init => Writing /\ Waiting /\ Reading /\ Between
  BY DEF Init, All, Writing, Waiting, Reading, Between

\* What has been read of an answer is whole at every place of the conversation.
LEMMA AnswerRead ==
  ASSUME TypeOK, Writing, Waiting, Reading, Between
  PROVE  \A i \in Registers : got[i] \in {"none", Expected(i)}
  <1>1. pc \in {"idle", "write", "wait", "asleep", "read"}
    BY DEF TypeOK
  <1>. QED BY <1>1 DEF Writing, Waiting, Reading, Between

\* AnswerIsWhole holds for every time of a command and of a lock: a program that
\* keeps to the order of the registers reads its own command's answer whole and
\* never a report of the drive, wherever the slices of Cs2Exec fall.
THEOREM AnswerWhole == Spec => []AnswerIsWhole
  <1>1. Init => IInv
    <2>1. Init => TypeOK
      BY TypeInit
    <2>. QED BY <2>1, AnswerInit DEF IInv
  <1>2. IInv => AnswerIsWhole
    BY AnswerRead DEF IInv, AnswerIsWhole, Expected
  <1>. QED BY <1>1, <1>2, AnswerStep, PTL DEF Spec
=============================================================================
