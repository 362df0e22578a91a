------------------------------ MODULE Cs2Command ------------------------------
(***************************************************************************)
(* The registers through which a program gives the CD block a command and  *)
(* reads its answer: CR1 to CR4, HIRQ with its mask, and the lock that     *)
(* keeps the periodic reports, which the drive writes into the same CR1 to *)
(* CR4, out of a conversation.  What a command does to the sector buffer   *)
(* and the drive is in Cs2; here a command is known by how it ends.        *)
(*                                                                         *)
(* The program is polite: it clears CMOK, writes CR1 to CR4 in order, waits*)
(* for CMOK by asking for it or asleep until the interrupt, and reads CR1  *)
(* to CR4 in order, or leaves the answer.  The user may open and close the *)
(* tray, which resets the CD block, at any time.                           *)
(***************************************************************************)
EXTENDS Integers, FiniteSets

CONSTANTS
  CommandTimes,  \* 50 or 250: slices until a command runs
  LockTimes,     \* 450, or 30 for each sector: slices after it in which none runs
  MaxTrays       \* bound: times the tray is opened or closed

ASSUME CommandAssumption ==
  CommandTimes \subseteq Nat \ {0} /\ LockTimes \subseteq Nat /\ MaxTrays \in Nat

\* A command answers in CR1 to CR4 and raises CMOK with an interrupt; only
\* GetStatus raises it without one; and some go on behind their answer and raise
\* another bit at their end.
Kinds == {"report", "status", "unfinished", "refused", "long"}

\* ESEL or EHST is the bit that is raised at the end of a long command; "drive"
\* stands for CSCT, PEND and EFLS
Bits == {"CMOK", "end", "SCDQ", "drive"}

Registers == 1..4

\* What a command leaves of its own arguments: ScanDisc, GetFadSearchResults,
\* MpegSetLSI and PutSectorData all four of them, GetSectorInfo of a sector that is
\* not there all but CR1.
Untouched(k) == IF k = "unfinished" THEN Registers
                ELSE IF k = "refused" THEN 2..4 ELSE {}

VARIABLES
  cr,       \* CR1 to CR4: whose each of them is
  HIRQ,     \* the bits that are set
  mask,     \* HIRQMASK
  peri,     \* the PERI bit of status
  command,  \* _command, the lock
  timing,   \* _commandtiming, in slices
  execlock, \* _command_execlock, in slices
  pc,       \* the program: idle, write, wait, asleep, read
  kind,     \* the command it gives
  reg,      \* the register it writes or reads next
  got,      \* what it has read of each register
  woken,    \* an interrupt was raised since it began
  upset,    \* the tray was moved in this command, or an earlier one left a command
  trays

cdblock == <<cr, HIRQ, mask, peri, command, timing, execlock>>
program == <<pc, kind, reg, got>>
vars == <<cdblock, program, woken, upset, trays>>

All(x) == [i \in Registers |-> x]

Init ==
  /\ cr = All("reset") /\ HIRQ = Bits /\ mask = {}
  /\ peri = FALSE /\ command = FALSE /\ timing = 0 /\ execlock = 0
  /\ pc = "idle" /\ kind = "status" /\ reg = 1 /\ got = All("none")
  /\ woken = FALSE /\ upset = FALSE /\ trays = 0

-----------------------------------------------------------------------------
(* The program *)

\* A write to HIRQ clears bits.  If the mask lets one that is left through, the
\* interrupt is raised again.
Begin ==
  /\ pc = "idle"
  /\ HIRQ' = HIRQ \ {"CMOK", "end"}
  /\ woken' = (HIRQ' \cap mask # {})
  /\ kind' \in Kinds /\ reg' = 1 /\ got' = All("none")
  /\ pc' = "write"
  /\ upset' = (upset /\ timing > 0)
  /\ UNCHANGED <<cr, mask, peri, command, timing, execlock, trays>>

\* mutant: a write to CR1 does not keep the reports out
MutWriteCR ==
  /\ pc = "write"
  /\ cr' = [cr EXCEPT ![reg] = "asked"]
  /\ IF reg = 1 THEN peri' = FALSE ELSE UNCHANGED peri
  /\ IF reg = 4
       THEN /\ timing' \in CommandTimes
            /\ pc' \in {"wait"} \cup (IF "CMOK" \in mask THEN {"asleep"} ELSE {})
            /\ reg' = 1
       ELSE /\ UNCHANGED <<timing, pc>>
            /\ reg' = reg + 1
  /\ UNCHANGED <<HIRQ, mask, command, execlock, kind, got, woken, upset, trays>>

\* CR1 locks, and CR4 sets the time of the command
WriteCR ==
  /\ pc = "write"
  /\ cr' = [cr EXCEPT ![reg] = "asked"]
  /\ IF reg = 1 THEN peri' = FALSE /\ command' = TRUE ELSE UNCHANGED <<peri, command>>
  /\ IF reg = 4
       THEN /\ timing' \in CommandTimes
            /\ pc' \in {"wait"} \cup (IF "CMOK" \in mask THEN {"asleep"} ELSE {})
            /\ reg' = 1
       ELSE /\ UNCHANGED <<timing, pc>>
            /\ reg' = reg + 1
  /\ UNCHANGED <<HIRQ, mask, execlock, kind, got, woken, upset, trays>>

\* a program that waits asks again and again
SeeCMOK ==
  /\ pc = "wait" /\ "CMOK" \in HIRQ
  /\ pc' = "read"
  /\ UNCHANGED <<cdblock, kind, reg, got, woken, upset, trays>>

\* one that sleeps asks once for each interrupt
Wake ==
  /\ pc = "asleep" /\ woken
  /\ woken' = FALSE
  /\ pc' = IF "CMOK" \in HIRQ THEN "read" ELSE "asleep"
  /\ UNCHANGED <<cdblock, kind, reg, got, upset, trays>>

\* a read of CR4 ends the conversation
ReadCR ==
  /\ pc = "read"
  /\ got' = [got EXCEPT ![reg] = cr[reg]]
  /\ IF reg = 4 THEN command' = FALSE /\ reg' = 1 /\ pc' = "idle"
     ELSE reg' = reg + 1 /\ UNCHANGED <<command, pc>>
  /\ UNCHANGED <<cr, HIRQ, mask, peri, timing, execlock, kind, woken, upset, trays>>

\* the answer is of no interest: the lock stays
Leave ==
  /\ pc = "read" /\ reg = 1
  /\ pc' = "idle"
  /\ UNCHANGED <<cdblock, kind, reg, got, woken, upset, trays>>

\* between two commands it may look at the reports, and change the mask
ReadReport ==
  /\ pc = "idle" /\ command
  /\ command' = FALSE
  /\ UNCHANGED <<cr, HIRQ, mask, peri, timing, execlock, program, woken, upset, trays>>

WriteMask ==
  /\ pc = "idle"
  /\ mask' \in {{}, {"CMOK"}, {"CMOK", "drive"}} \ {mask}
  /\ UNCHANGED <<cr, HIRQ, peri, command, timing, execlock, program, woken, upset, trays>>

-----------------------------------------------------------------------------
(* The CD block *)

\* Cs2Execute.  What CR1 holds is taken for a command, and the rest for what it is
\* about; the answer is the program's only if all of them are.  Whatever the status
\* has of PERI goes into CR1 with it, and makes it look like a report.
Answer(k) ==
  [i \in Registers |->
     IF i \in Untouched(k) THEN cr[i]
     ELSE IF \E j \in Registers : cr[j] # "asked" THEN "other"
     ELSE IF i = 1 /\ peri THEN "report" ELSE "answer"]

\* mutant: a report comes in the middle of a conversation
MutPeriodic(tick, answered, raised, silent) ==
  /\ HIRQ' = HIRQ \cup raised \cup silent \cup (IF tick THEN {"SCDQ"} ELSE {})
  /\ cr' = IF tick /\ ~(command /\ pc = "write") THEN All("report") ELSE answered
  /\ peri' = (tick \/ peri)
  /\ woken' = (woken \/ ((raised # {} \/ tick) /\ HIRQ' \cap mask # {}))

\* The end of Cs2Exec: what is raised in this slice, and at its time the report of
\* the drive, unless a conversation is going on.  An interrupt is made whenever a
\* bit is raised and any bit is let through, but for the bits that are set
\* silently.
Periodic(tick, answered, raised, silent) ==
  LET report == tick /\ ~command IN
  /\ HIRQ' = HIRQ \cup raised \cup silent \cup (IF report THEN {"SCDQ"} ELSE {})
  /\ cr' = IF report THEN All("report") ELSE answered
  /\ peri' = (report \/ peri)
  /\ woken' = (woken \/ ((raised # {} \/ report) /\ HIRQ' \cap mask # {}))

\* mutant: the time of a command goes on while the one before it still runs
MutWait(tick, d) ==
  /\ execlock > 0 \/ timing # 1
  /\ execlock' = IF execlock > 0 THEN execlock - 1 ELSE 0
  /\ timing' = IF timing > 0 THEN timing - 1 ELSE timing
  /\ Periodic(tick, cr, d \cup (IF execlock = 1 THEN {"end"} ELSE {}), {})

\* mutant: the time is not tested for 0
MutWaitBelow(tick, d) ==
  /\ execlock > 0 \/ timing # 1
  /\ execlock' = IF execlock > 0 THEN execlock - 1 ELSE 0
  /\ timing' = IF execlock = 0 THEN timing - 1 ELSE timing
  /\ Periodic(tick, cr, d \cup (IF execlock = 1 THEN {"end"} ELSE {}), {})

\* a slice in which no command runs: the lock or the time goes on
Wait(tick, d) ==
  /\ execlock > 0 \/ timing # 1
  /\ execlock' = IF execlock > 0 THEN execlock - 1 ELSE 0
  /\ timing' = IF execlock = 0 /\ timing > 0 THEN timing - 1 ELSE timing
  /\ Periodic(tick, cr, d \cup (IF execlock = 1 THEN {"end"} ELSE {}), {})

Execute(tick, d) ==
  /\ execlock = 0 /\ timing = 1
  /\ timing' = 0
  /\ \E k \in IF cr[1] = "asked" THEN {kind} ELSE Kinds :
       /\ IF k = "long" THEN execlock' \in LockTimes ELSE execlock' = 0
       /\ IF k = "status" THEN Periodic(tick, Answer(k), d, {"CMOK"})
          ELSE Periodic(tick, Answer(k), d \cup {"CMOK"}, {})

\* with its time the drive may raise bits of its own
Cs2Exec ==
  /\ \E tick \in BOOLEAN : \E d \in {{}} \cup (IF tick THEN {{"drive"}} ELSE {}) :
       Wait(tick, d) \/ Execute(tick, d)
  /\ UNCHANGED <<mask, command, program, upset, trays>>

\* every bit of HIRQ is set, and no interrupt raised
Cs2Reset ==
  /\ cr' = All("reset") /\ HIRQ' = Bits /\ mask' = {}
  /\ peri' = FALSE /\ command' = FALSE /\ timing' = 0 /\ execlock' = 0

\* Cs2ForceOpenTray and Cs2ForceCloseTray
Tray ==
  /\ trays < MaxTrays
  /\ trays' = trays + 1
  /\ Cs2Reset
  /\ upset' = (upset \/ pc # "idle")
  /\ UNCHANGED <<program, woken>>

-----------------------------------------------------------------------------
Program ==
  \/ Begin \/ WriteCR \/ SeeCMOK \/ Wake \/ ReadCR \/ Leave \/ ReadReport \/ WriteMask

Next == Program \/ Cs2Exec \/ Tray

Spec == Init /\ [][Next]_vars

\* time goes on, and the program goes on with what it has begun
FairSpec ==
  /\ Spec
  /\ WF_vars(Cs2Exec)
  /\ WF_vars(WriteCR) /\ WF_vars(SeeCMOK) /\ WF_vars(Wake)

-----------------------------------------------------------------------------
(* Properties *)

\* the type of the state
TypeOK ==
  /\ cr \in [Registers -> {"reset", "asked", "answer", "report", "other"}]
  /\ HIRQ \subseteq Bits /\ mask \subseteq Bits
  /\ {peri, command, woken, upset} \subseteq BOOLEAN
  /\ timing \in {0} \cup UNION {1..t : t \in CommandTimes}
  /\ execlock \in {0} \cup UNION {1..t : t \in LockTimes}
  /\ pc \in {"idle", "write", "wait", "asleep", "read"}
  /\ kind \in Kinds /\ reg \in Registers
  /\ got \in [Registers -> {"none", "reset", "asked", "answer", "report", "other"}]
  /\ trays \in 0..MaxTrays

\* What a program reads after CMOK is the answer to its own command in all four
\* registers, however its reads, its writes and the answer lie between the drive's
\* reports, and also when the command had to wait for the end of a longer one.  In
\* the registers its command does not write it finds its own arguments.
AnswerIsWhole ==
  ~upset => \A i \in Registers :
              got[i] \in {"none", IF i \in Untouched(kind) THEN "asked" ELSE "answer"}

\* asleep, and the bit it sleeps for was or will be set without an interrupt
Deaf == pc = "asleep" /\ (kind = "status" \/ upset)

\* A command that is begun is answered, and one that goes on behind its answer
\* raises the bit of its end, whatever else is written in the meantime.
CommandAnswered ==
  /\ pc \in {"write", "wait", "asleep"} ~> pc \in {"read", "idle"} \/ Deaf
  /\ execlock > 0 ~> "end" \in HIRQ
=============================================================================
