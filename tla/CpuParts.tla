------------------------------ MODULE CpuParts ------------------------------
(* The parts of the processor whose steps are proved correct for all values *)
(* of their constants, and checked for the values of a cfg: five components *)
(* that share no state, each with what it promises.                         *)
EXTENDS Integers

VARIABLE world      \* the component that runs in a behaviour; the others stand still

-----------------------------------------------------------------------------
CONSTANTS Tasks, First, Nobody, TaskWord
VARIABLES tr, regs, segs, tip, nt, ldt, space, ts, tss, x87, areas, work, fwork
Task == INSTANCE Tasks WITH Word <- TaskWord

(* A task resumes with its own registers, tables and directory, and the     *)
(* busy ones are the current task and those that wait for it (task_switch). *)
TasksKept == world = "tasks" => Task!TasksKept

-----------------------------------------------------------------------------
CONSTANTS Steps, DeviceIrqs, Icw1Writes, Icw4Writes, VectorBases, MaskWrites, Ocw2Writes,
          Ocw3Writes
VARIABLES pic, intr, aborted, phase, left, iflag, halt, reset_request, shadow, owed
Irq == INSTANCE CpuIrq

(* No interrupt right after STI or a load of SS, and what waits is taken in *)
(* the first window, however short (cpui386_step).                          *)
WindowsServed == world = "irq" => Irq!WindowsServed

-----------------------------------------------------------------------------
CONSTANTS Slots, Dirs, Ptes, Cacheable, MaxEdits
VARIABLES cr0, cr3, dirs, tables, tlb, ifetch, stale, written, edits
Page == INSTANCE Paging

(* Accesses and fetches meet the tables as the guest has announced them     *)
(* (tlb_refill, translate_lpgno).                                             *)
CachesCurrent == world = "paging" => Page!CachesCurrent

-----------------------------------------------------------------------------
CONSTANTS Sp, MaxDepth
VARIABLES prot, kst, todo
Ring == INSTANCE Protect WITH c <- prot

(* Each step enters and leaves the kernel as its gates and frames say, and  *)
(* hands a program nothing of it (call_isr, pmcall, pmret).                 *)
GatesHold == [][world = "rings" => Ring!GatesHold]_Ring!protectVars

-----------------------------------------------------------------------------
CONSTANTS PageSize, Pages, MaxCount
VARIABLES ins, stage, cx, si, di, ax, zf, smem, present, port, out
Str == INSTANCE Strings WITH phase <- stage

(* String instructions come out right, in whatever pieces faults cut them   *)
(* (STOS_helper2, MOVS_helper2, INS_helper2, OUTS_helper2).                 *)
MovesExact == world = "strings" => Str!MovesExact
=============================================================================
