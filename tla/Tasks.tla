------------------------------- MODULE Tasks -------------------------------
(***************************************************************************)
(* Tasks switched by the processor (i386.c): jumps and calls to a task     *)
(* state segment, task gates, the IRET that ends a nested task, and the    *)
(* x87 registers, which a switch leaves alone behind the task-switched     *)
(* bit.                                                                    *)
(*                                                                         *)
(* The registers of a task are numbers that count its work; its arithmetic  *)
(* flags are in module Flags.  The guest                                    *)
(* jumps away only from a task that was not called, enters by a gate only  *)
(* tasks that are not busy (the code does not check it there), and saves   *)
(* and loads the x87 registers when it is told that they are not the       *)
(* task's.                                                                 *)
(***************************************************************************)
EXTENDS Integers, FiniteSets

CONSTANTS
  Tasks,        \* the task state segments
  First,        \* the one the guest begins with
  Nobody,       \* a link that is not set, and no task
  Word          \* work is counted modulo this

VARIABLES
  tr,           \* the task state segment of the task register
  regs, segs,   \* general registers, and segments: selectors and the tables they were loaded from
  tip, nt,      \* the instruction pointer, and the nested-task flag
  ldt, space,   \* whose descriptor table and whose page directory are loaded
  ts,           \* CR0.TS
  tss,          \* memory of the task state segments: link, busy and the saved registers
  x87, areas,   \* the x87 registers, and the areas the guest saves them in
  work, fwork   \* what every task has done, and what of it with the x87 registers

taskVars == <<tr, regs, segs, tip, nt, ldt, space, ts, tss, x87, areas, work, fwork>>

(* After LTR, which does not mark the segment it loads busy.                *)
Init ==
  /\ tr = First /\ regs = 0 /\ tip = 0 /\ nt = FALSE
  /\ segs = [sel |-> 0, table |-> First]
  /\ ldt = First /\ space = First
  /\ ts = FALSE
  /\ tss = [t \in Tasks |->
              [link |-> Nobody, busy |-> FALSE, regs |-> 0, sel |-> 0, ip |-> 0, nt |-> FALSE]]
  /\ x87 = [owner |-> First, value |-> 0]
  /\ areas = [t \in Tasks |-> 0]
  /\ work = [t \in Tasks |-> 0] /\ fwork = [t \in Tasks |-> 0]

-----------------------------------------------------------------------------
Save(how) == [tss[tr] EXCEPT !.regs = regs, !.sel = segs.sel, !.ip = tip,
                             !.nt = IF how = "IRET" THEN FALSE ELSE nt,
                             !.busy = IF how = "CALL" THEN @ ELSE FALSE]

(* Mutated: a task that ends remains busy. *)
LinkedStaysBusy(t, how) ==
  [tss EXCEPT ![tr] = [Save(how) EXCEPT !.busy = IF how = "IRET" THEN TRUE ELSE @],
              ![t].busy = IF how = "IRET" THEN @ ELSE TRUE,
              ![t].link = IF how = "CALL" THEN tr ELSE @]

(* The two segments after a switch: the one left, and the one entered       *)
(* (which may be the same: the first task is not marked).                   *)
Linked(t, how) ==
  LET left == [tss EXCEPT ![tr] = Save(how)]
  IN  [left EXCEPT ![t].busy = IF how = "IRET" THEN @ ELSE TRUE,
                   ![t].link = IF how = "CALL" THEN tr ELSE @]

Loaded(t) == segs' = [sel |-> tss'[t].sel, table |-> t]

SetTS(how) == ts' = TRUE

task_switch(t, how) ==
  /\ tss' = Linked(t, how)
  /\ tr' = t
  /\ SetTS(how)
  /\ ldt' = t /\ Loaded(t)
  /\ regs' = tss'[t].regs /\ tip' = tss'[t].ip
  /\ nt' = IF how = "CALL" THEN TRUE ELSE tss'[t].nt
  /\ space' = t
  /\ UNCHANGED <<x87, areas, work, fwork>>

(* pmcall with the selector of an available segment, or of a task gate.     *)
JmpTask(t) == ~nt /\ ~tss[t].busy /\ task_switch(t, "JMP")
CallTask(t) == ~tss[t].busy /\ task_switch(t, "CALL")

(* call_isr with a task gate: an interrupt, or INT n. *)
InterruptTask(t) == CallTask(t)

(* pmret with the nested-task flag; without a link it is a fault, and the   *)
(* guest goes on after it.                                                  *)
IretNested == nt /\ tss[tr].link # Nobody /\ task_switch(tss[tr].link, "IRET")

Work ==
  /\ regs' = (regs + 1) % Word
  /\ tip' = (tip + 1) % Word
  /\ segs' = [sel |-> (segs.sel + 1) % Word, table |-> ldt]
  /\ work' = [work EXCEPT ![tr] = (@ + 1) % Word]
  /\ UNCHANGED <<tr, nt, ldt, space, ts, tss, x87, areas, fwork>>

(* An x87 instruction. *)
ESC ==
  /\ ~ts
  /\ x87' = [x87 EXCEPT !.value = (@ + 1) % Word]
  /\ fwork' = [fwork EXCEPT ![tr] = (@ + 1) % Word]
  /\ UNCHANGED <<tr, regs, segs, tip, nt, ldt, space, ts, tss, areas, work>>

(* It is refused, and the guest's handler of exception 7 clears the bit,    *)
(* saves the registers of their owner and loads those of this task.         *)
NotAvailable ==
  /\ ts
  /\ ts' = FALSE
  /\ areas' = [areas EXCEPT ![x87.owner] = x87.value]
  /\ x87' = [owner |-> tr, value |-> areas'[tr]]
  /\ UNCHANGED <<tr, regs, segs, tip, nt, ldt, space, tss, work, fwork>>

Next ==
  \/ \E t \in Tasks : JmpTask(t) \/ InterruptTask(t)
  \/ IretNested
  \/ Work
  \/ ESC
  \/ NotAvailable

-----------------------------------------------------------------------------
(* Whether a task returns to the one that called it. *)
Nested(t) == IF t = tr THEN nt ELSE tss[t].nt
ClosedUnderLinks(S) == tr \in S /\ \A t \in S \cap Tasks : Nested(t) => tss[t].link \in S

(* The tasks from the current one back through those that wait for it: the  *)
(* least set of them that the links do not lead out of.                     *)
Chain ==
  {t \in Tasks \cup {Nobody} :
     \A S \in SUBSET (Tasks \cup {Nobody}) : ClosedUnderLinks(S) => t \in S}

(* The segments marked busy are the current task and the callers that wait  *)
(* for it, so that no task can be entered that has not ended, and none that *)
(* has ended is refused.  The exception is the task made current by LTR,    *)
(* which never marks it: until it has been left for good and entered again, *)
(* a callee may enter it a second time while it waits.                      *)
BusyIsChain ==
  LET busy == {t \in Tasks : tss[t].busy}
  IN  busy \subseteq Chain /\ Chain \subseteq busy \cup {First}

(* Whatever the order of jumps, calls, interrupts and returns, a task finds *)
(* its registers as its own work left them, its segments loaded from its    *)
(* own descriptor table, and its own page directory.                        *)
Resumes ==
  /\ regs = work[tr] /\ tip = work[tr]
  /\ segs = [sel |-> work[tr], table |-> tr]
  /\ ldt = tr /\ space = tr

(* No x87 instruction executes on registers of another task: while the      *)
(* task-switched bit is clear they hold what this task computed.            *)
X87IsMine == ~ts => x87 = [owner |-> tr, value |-> fwork[tr]]

(* Tasks keep what is theirs, and each but the first can be entered exactly *)
(* when it has ended.                                                       *)
TasksKept == BusyIsChain /\ Resumes /\ X87IsMine
=============================================================================
