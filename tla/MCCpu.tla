------------------------------- MODULE MCCpu -------------------------------
(* The parts of the processor that do not share state.  A behaviour has one *)
(* of them, its world; the variables of the others stay as they are.        *)
EXTENDS CpuParts, Sequences

VARIABLES cc, flags, eager, ops      \* Flags

-----------------------------------------------------------------------------
(* Words of four bits and bytes of two, whose operands are all four bytes.  *)
Arith == INSTANCE Flags WITH
  Wide <- 4, Narrow <- 2, Nibble <- 1, Operands <- {1, 6, 8, 15}, MaxOps <- 2

(* Two slots for three pages; the first entry of each root is shared or     *)
(* not, for supervisors or read-only; the second root has one page absent.  *)
Entry(t, rw, us) == [p |-> t # 0, rw |-> rw, us |-> us, table |-> IF t = 0 THEN 1 ELSE t]
TwoDirs ==
  {<< [i \in {0, 1} |-> IF i = 0 THEN Entry(1, TRUE, FALSE) ELSE Entry(2, TRUE, TRUE)],
      [i \in {0, 1} |-> IF i = 0 THEN Entry(0, FALSE, FALSE) ELSE Entry(1, FALSE, TRUE)] >>}
TwoPtes ==
  {[p |-> FALSE, rw |-> FALSE, us |-> FALSE, frame |-> 1],
   [p |-> TRUE, rw |-> TRUE, us |-> TRUE, frame |-> 2]}

(* The interrupt controllers: all lines open but one, or all; plain ends.   *)
Masks == {{}, {1}}
Ends == {[cmd |-> 1, level |-> 0]}

-----------------------------------------------------------------------------
flagsVars  == <<cc, flags, eager, ops>>
stringVars == <<ins, stage, cx, si, di, ax, zf, smem, present, port, out>>
pagingVars == <<cr0, cr3, dirs, tables, tlb, ifetch, stale, written, edits>>
tasksVars  == <<tr, regs, segs, tip, nt, ldt, space, ts, tss, x87, areas, work, fwork>>
ringVars   == <<prot, kst, todo>>
irqVars    == <<pic, intr, aborted, phase, left, iflag, halt, reset_request, shadow, owed>>
mcVars     == <<world, flagsVars, stringVars, pagingVars, tasksVars, ringVars, irqVars>>

Init ==
  /\ world \in {"flags", "strings", "paging", "tasks", "rings", "irq"}
  /\ IF world = "flags" THEN Arith!Init
     ELSE cc = 0 /\ flags = {} /\ eager = 0 /\ ops = 0
  /\ IF world = "strings" THEN Str!Init
     ELSE /\ ins = 0 /\ stage = "done" /\ cx = 0 /\ si = 0 /\ di = 0 /\ ax = 0 /\ zf = FALSE
          /\ smem = 0 /\ present = {} /\ port = 0 /\ out = 0
  /\ IF world = "rings" THEN Ring!Init
     ELSE prot = (CHOOSE r \in Ring!Start(0) : TRUE) /\ kst = <<>> /\ todo = <<>>
  /\ Page!Init /\ Task!Init /\ Irq!IrqInit

(* What is not of this world stays. *)
Others(w) ==
  /\ UNCHANGED world
  /\ IF w = "flags" THEN TRUE ELSE UNCHANGED flagsVars
  /\ IF w = "strings" THEN TRUE ELSE UNCHANGED stringVars
  /\ IF w = "paging" THEN TRUE ELSE UNCHANGED pagingVars
  /\ IF w = "tasks" THEN TRUE ELSE UNCHANGED tasksVars
  /\ IF w = "rings" THEN TRUE ELSE UNCHANGED ringVars
  /\ IF w = "irq" THEN TRUE ELSE UNCHANGED irqVars

Next ==
  \/ world = "flags" /\ Arith!Next /\ Others("flags")
  \/ world = "strings" /\ Str!Next /\ Others("strings")
  \/ world = "paging" /\ Page!Next /\ Others("paging")
  \/ world = "tasks" /\ Task!Next /\ Others("tasks")
  \/ world = "rings" /\ Ring!Next /\ Others("rings")
  \/ world = "irq" /\ Irq!IrqNext /\ Others("irq")

Spec ==
  /\ Init /\ [][Next]_mcVars
  /\ WF_mcVars(world = "irq" /\ Irq!Thread /\ Others("irq"))

-----------------------------------------------------------------------------
(* The properties of the parts; the others are in CpuParts. *)
FlagsRight == world = "flags" => Arith!TypeOK /\ Arith!FlagsRight
WakesUp == Irq!WakesUp
=============================================================================
