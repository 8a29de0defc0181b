------------------------------- MODULE CpuIrq -------------------------------
(***************************************************************************)
(* How the processor takes interrupts, sleeps and is reset: pc_step,       *)
(* cpui386_step and the instructions that change the interrupt flag, with  *)
(* the interrupt controllers of I8259.  Between two steps devices drive    *)
(* their lines; a step runs a number of instructions and looks for an      *)
(* interrupt only before the first of them.                                *)
(***************************************************************************)
EXTENDS I8259

CONSTANT Steps      \* instructions of a step (PC_STEP_COUNT)

VARIABLES
  phase,          \* "top": pc_step begins; "devices"; "run": in cpu_exec1
  left,           \* stepcount
  iflag, halt,    \* the interrupt flag, and HLT
  reset_request,  \* of pc
  shadow,         \* the last instruction was an STI or loaded SS
  owed            \* when a request that waited for the flag must be taken

irqVars == <<pic, intr, aborted, phase, left, iflag, halt, reset_request, shadow, owed>>

IrqInit ==
  /\ Init
  /\ phase = "top" /\ left = 0
  /\ iflag = FALSE /\ halt = FALSE /\ reset_request = FALSE
  /\ shadow = FALSE /\ owed = "none"

-----------------------------------------------------------------------------
(* The step ends when its instructions are used up. *)
Goes(n) == left' = n /\ phase' = IF n = 0 THEN "top" ELSE "run"
Running == phase = "run"

(* Whether a request that the flag let through is due after this            *)
(* instruction, or only after the one that follows.                         *)
Owed == IF ~iflag' THEN "none" ELSE IF owed = "next" THEN "now" ELSE owed

(* Mutated: the registers and the flags only, the processor sleeps on. *)
cpui386_reset_asleep == iflag' = FALSE /\ UNCHANGED halt

(* The request survives. *)
cpui386_reset == iflag' = FALSE /\ halt' = FALSE

(* The beginning of pc_step. *)
pc_step ==
  /\ phase = "top"
  /\ phase' = "devices" /\ reset_request' = FALSE
  /\ IF reset_request
     THEN cpui386_reset /\ shadow' = FALSE /\ owed' = "none"
     ELSE UNCHANGED <<iflag, halt, shadow, owed>>
  /\ UNCHANGED <<vars, left>>

Device ==
  /\ phase = "devices"
  /\ \E irq \in DeviceIrqs, level \in BOOLEAN : SetIrq(irq, level)
  /\ UNCHANGED <<phase, left, iflag, halt, reset_request, shadow, owed>>

(* The handler is entered by a gate that clears the flag, or by a trap gate. *)
TakeInterrupt ==
  /\ phase = "devices" /\ iflag /\ intr
  /\ ReadIrq
  /\ halt' = FALSE /\ iflag' \in BOOLEAN
  /\ shadow' = FALSE /\ owed' = "none"
  /\ Goes(Steps)
  /\ UNCHANGED reset_request

Sleep ==
  /\ phase = "devices" /\ ~(iflag /\ intr) /\ halt
  /\ phase' = "top"
  /\ UNCHANGED <<vars, left, iflag, halt, reset_request, shadow, owed>>

Start ==
  /\ phase = "devices" /\ ~(iflag /\ intr) /\ ~halt
  /\ Goes(Steps)
  /\ UNCHANGED <<vars, iflag, halt, reset_request, shadow, owed>>

-----------------------------------------------------------------------------
(* Instructions.  Mutated: STI has no shadow, or does not end the step.     *)
StiNoShadow == left
StiLong == IF left < 2 THEN 2 ELSE left

(* stepcount after STI. *)
StiCount == IF intr \/ left < 2 THEN 2 ELSE left

STI ==
  /\ Running
  /\ iflag' = TRUE /\ shadow' = TRUE
  /\ owed' = IF intr THEN "next" ELSE owed
  /\ Goes(StiCount - 1)
  /\ UNCHANGED <<vars, halt, reset_request>>

(* MOV SS and POP SS. *)
LoadSS ==
  /\ Running
  /\ shadow' = TRUE
  /\ Goes(left)
  /\ UNCHANGED <<vars, iflag, halt, reset_request, owed>>

CLI ==
  /\ Running
  /\ iflag' = FALSE /\ shadow' = FALSE /\ owed' = "none"
  /\ Goes(left - 1)
  /\ UNCHANGED <<vars, halt, reset_request>>

(* POPF and IRET, and a far transfer through a gate when the flag is        *)
(* cleared.  They end the step when a request can be taken.                 *)
LoadFlags ==
  /\ Running
  /\ iflag' \in BOOLEAN
  /\ shadow' = FALSE
  /\ owed' = IF intr /\ iflag' THEN (IF iflag THEN Owed ELSE "now") ELSE Owed
  /\ Goes(IF intr /\ iflag' THEN 0 ELSE left - 1)
  /\ UNCHANGED <<vars, halt, reset_request>>

HLT ==
  /\ Running
  /\ halt' = TRUE /\ shadow' = FALSE
  /\ owed' = IF owed = "next" THEN "now" ELSE owed
  /\ Goes(0)
  /\ UNCHANGED <<vars, iflag, reset_request>>

(* A fault ends the step with its handler entered. *)
Fault ==
  /\ Running
  /\ iflag' \in {FALSE, iflag}
  /\ shadow' = FALSE /\ owed' = Owed
  /\ Goes(0)
  /\ UNCHANGED <<vars, halt, reset_request>>

(* A write to the controllers, to the port that resets, or anything else.   *)
Out ==
  /\ Running
  /\ \/ (\E k \in Chip : GuestWrite(k)) /\ UNCHANGED reset_request
     \/ reset_request' = TRUE /\ UNCHANGED vars
     \/ UNCHANGED <<vars, reset_request>>
  /\ shadow' = FALSE
  /\ owed' = IF owed = "next" THEN "now" ELSE owed
  /\ Goes(left - 1)
  /\ UNCHANGED <<iflag, halt>>

(* A step of the program's thread. *)
Thread ==
  \/ pc_step \/ TakeInterrupt \/ Sleep \/ Start
  \/ STI \/ LoadSS \/ CLI \/ LoadFlags \/ HLT \/ Fault \/ Out

IrqNext == Device \/ Thread

(* main() calls pc_step for as long as the program runs. *)
IrqSpec == IrqInit /\ [][IrqNext]_irqVars /\ WF_irqVars(Thread)

-----------------------------------------------------------------------------
(* No interrupt is taken between an STI, or a load of SS, and the           *)
(* instruction that follows: no step ends there, whatever was left of it.   *)
ShadowHeld == shadow => phase = "run"

(* A request that waits while the flag is clear is taken in the first       *)
(* window that opens it, after POPF or IRET at once and after STI with the  *)
(* one instruction that follows, so that even STI; NOP; CLI serves it.      *)
WindowServed == owed = "now" => phase # "run"

(* Interrupts are taken where the flag is found set, no instruction earlier *)
(* and none later.                                                          *)
WindowsServed == ShadowHeld /\ WindowServed

(* Asleep, it wakes up for a request if the flag lets it through, and for a *)
(* reset that was requested before, as in CLI; OUT 64h; HLT.                *)
WakesUp == halt /\ (reset_request \/ (iflag /\ Wants(pic, 0))) ~> ~halt
=============================================================================
