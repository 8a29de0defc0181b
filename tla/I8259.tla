------------------------------- MODULE I8259 -------------------------------
(***************************************************************************)
(* The cascaded pair of 8259 interrupt controllers (i8259.c) and the one   *)
(* flag they drive in the processor: cpu->intr, set by raise_fn            *)
(* (cpui386_raise_irq) and cleared only when cpui386_step takes the        *)
(* interrupt.                                                              *)
(*                                                                         *)
(* The eight-bit registers are sets of lines.  Chip 0 is the master, chip  *)
(* 1 the slave; the slave is wired to line 2 of the master.  Handlers are  *)
(* operators from the state of the pair to the state of the pair, composed *)
(* in the order of the calls in the code.                                  *)
(***************************************************************************)
EXTENDS Integers, FiniteSets

CONSTANTS
  DeviceIrqs,   \* the lines 0..15 that devices of the machine drive
  Icw1Writes,   \* the initialisation words a guest writes to an even port
  Icw4Writes,   \* the fourth initialisation words it writes
  VectorBases,  \* the vector bases it programs with ICW2
  MaskWrites,   \* the masks it writes with OCW1
  Ocw2Writes,   \* the OCW2 commands (end of interrupt, rotation) it writes
  Ocw3Writes    \* the OCW3 commands (poll, special mask) it writes

Chip    == {0, 1}
Line    == 0..7
Cascade == 2

ASSUME IrqAssumption == DeviceIrqs \subseteq (0..15) \ {Cascade}
ASSUME WritesAssumption ==
  /\ Icw1Writes \subseteq [init4 : BOOLEAN, single : BOOLEAN, level : BOOLEAN]
  /\ Icw4Writes \subseteq [sfnm : BOOLEAN, auto_eoi : BOOLEAN]
  /\ VectorBases \subseteq Nat
  /\ MaskWrites \subseteq SUBSET Line
  /\ Ocw2Writes \subseteq [cmd : Line, level : Line]
  /\ Ocw3Writes \subseteq [poll : BOOLEAN, smm : {"keep", "set", "clear"}]

VARIABLES
  pic,      \* pic[k]: the registers of chip k
  intr,     \* cpu->intr
  aborted   \* hw_error() has called abort(): the process is gone

vars == <<pic, intr, aborted>>

PicState ==
  [ last_irr : SUBSET Line,  irr : SUBSET Line,  imr : SUBSET Line,
    isr : SUBSET Line,       priority_add : Line, irq_base : Nat,
    poll : BOOLEAN,          special_mask : BOOLEAN, init_state : 0..3,
    auto_eoi : BOOLEAN,      rotate_on_auto_eoi : BOOLEAN,
    special_fully_nested_mode : BOOLEAN,
    init4 : BOOLEAN,         single_mode : BOOLEAN ]

-----------------------------------------------------------------------------
(* Registers after pic_reset. *)
ResetChip ==
  [ last_irr |-> {}, irr |-> {}, imr |-> {}, isr |-> {},
    priority_add |-> 0, irq_base |-> 0, poll |-> FALSE,
    special_mask |-> FALSE, init_state |-> 0, auto_eoi |-> FALSE,
    rotate_on_auto_eoi |-> FALSE, special_fully_nested_mode |-> FALSE,
    init4 |-> FALSE, single_mode |-> FALSE ]

(* Edge detection: a request is latched only when the line was low. *)
SetIrq1(c, irq, level) ==
  IF level
  THEN [c EXCEPT !.irr = IF irq \in c.last_irr THEN @ ELSE @ \union {irq},
                 !.last_irr = @ \union {irq}]
  ELSE [c EXCEPT !.last_irr = @ \ {irq}]

(* The priority of a line: 0 is the highest, rotated by priority_add. *)
Priority(c, irq) == (irq + 8 - c.priority_add) % 8

(* The member of highest priority of a non-empty set of lines. *)
Highest(c, S) == CHOOSE i \in S : \A j \in S : Priority(c, i) <= Priority(c, j)

(* Lines in service that hold back requests of the same or lower priority. *)
Blocking(p, k) ==
  (p[k].isr \ (IF p[k].special_mask THEN p[k].imr ELSE {}))
    \ (IF p[k].special_fully_nested_mode /\ k = 0 THEN {Cascade} ELSE {})

(* Mutated forms, against which the properties are tested. *)
EligibleUnchecked(p, k) == p[k].irr \ p[k].imr
EligibleUnmasked(p, k) ==
  { i \in p[k].irr :
      \A j \in Blocking(p, k) : Priority(p[k], i) < Priority(p[k], j) }
EligibleUnrotated(p, k) ==
  { i \in p[k].irr \ p[k].imr : \A j \in Blocking(p, k) : i < j }

(* Requests that pass the mask and the lines in service. *)
Eligible(p, k) ==
  { i \in p[k].irr \ p[k].imr :
      \A j \in Blocking(p, k) : Priority(p[k], i) < Priority(p[k], j) }

Wants(p, k) == Eligible(p, k) # {}

(* The line chip k asks to be served, when it asks at all. *)
GetIrq(p, k) == Highest(p[k], Eligible(p, k))

(* Mutated: line 2 is raised and left high, so it has no second edge. *)
CascadedNoPulse(p) ==
  IF Wants(p, 1) THEN [p EXCEPT ![0] = SetIrq1(@, Cascade, TRUE)] ELSE p

(* pic_update_irq: the slave's request becomes a pulse on line 2 of the    *)
(* master, then the processor is signalled if the master wants it.         *)
Cascaded(p) ==
  IF Wants(p, 1)
  THEN [p EXCEPT ![0] = SetIrq1(SetIrq1(@, Cascade, TRUE), Cascade, FALSE)]
  ELSE p

UpdateIrq(p) ==
  /\ pic' = Cascaded(p)
  /\ intr' = (intr \/ Wants(Cascaded(p), 0))
  /\ UNCHANGED aborted

(* The pair with the registers of one chip replaced. *)
Put(k, c) == [pic EXCEPT ![k] = c]

(* A register write that does not call pic_update_irq. *)
Store(p) == pic' = p /\ UNCHANGED <<intr, aborted>>

-----------------------------------------------------------------------------
(* Mutated: the line number is not reduced to a line of its chip. *)
SetIrqUnreduced(irq, level) ==
  /\ ~aborted
  /\ UpdateIrq(Put(irq \div 8, SetIrq1(pic[irq \div 8], irq, level)))

(* A device drives its line. *)
SetIrq(irq, level) ==
  /\ ~aborted
  /\ UpdateIrq(Put(irq \div 8, SetIrq1(pic[irq \div 8], irq % 8, level)))

(* pic_intack *)
Acknowledged(c, irq) ==
  IF c.auto_eoi
  THEN [c EXCEPT !.priority_add =
                     IF c.rotate_on_auto_eoi THEN (irq + 1) % 8 ELSE @,
                 !.irr = @ \ {irq}]
  ELSE [c EXCEPT !.isr = @ \union {irq}, !.irr = @ \ {irq}]

(* The pair once the processor has read the request: what the master asks  *)
(* for is acknowledged, and for line 2 what the slave then asks for.       *)
AfterMaster(p) ==
  IF Wants(p, 0)
  THEN [p EXCEPT ![0] = Acknowledged(@, GetIrq(p, 0))]
  ELSE p

FromSlave(p) == Wants(p, 0) /\ GetIrq(p, 0) = Cascade

AfterAck(p) ==
  IF FromSlave(p) /\ Wants(AfterMaster(p), 1)
  THEN [AfterMaster(p) EXCEPT
          ![1] = Acknowledged(@, GetIrq(AfterMaster(p), 1))]
  ELSE AfterMaster(p)

(* The line and the vector i8259_read_irq answers with; a request that is  *)
(* gone by now is answered as line 7 of the chip (spurious).               *)
AckLine(p) ==
  IF ~Wants(p, 0) THEN 7
  ELSE IF ~FromSlave(p) THEN GetIrq(p, 0)
  ELSE 8 + (IF Wants(AfterMaster(p), 1) THEN GetIrq(AfterMaster(p), 1) ELSE 7)

AckVector(p) ==
  IF FromSlave(p) THEN p[1].irq_base + AckLine(p) - 8
                  ELSE p[0].irq_base + AckLine(p)

(* cpui386_step sees cpu->intr with interrupts enabled: it clears the flag *)
(* and calls i8259_read_irq, which ends in pic_update_irq.                 *)
ReadIrq ==
  /\ ~aborted
  /\ intr
  /\ LET p == AfterAck(pic) IN
       /\ pic' = Cascaded(p)
       /\ intr' = Wants(Cascaded(p), 0)
       /\ UNCHANGED aborted

-----------------------------------------------------------------------------
(* Writes to the even port. *)

(* Mutated: initialising one chip empties the latch of the other. *)
WriteIcw1Both(k, w) ==
  /\ ~aborted
  /\ pic' = [j \in Chip |-> [ResetChip EXCEPT !.init_state = 1,
                                              !.init4 = w.init4,
                                              !.single_mode = w.single]]
  /\ aborted' = w.level
  /\ UNCHANGED intr

WriteIcw1(k, w) ==
  /\ ~aborted
  /\ pic' = Put(k, [ResetChip EXCEPT !.init_state = 1,
                                     !.init4 = w.init4,
                                     !.single_mode = w.single])
  /\ aborted' = w.level      \* "level sensitive irq not supported"
  /\ UNCHANGED intr

WriteOcw3(k, w) ==
  /\ ~aborted
  /\ Store(Put(k, [pic[k] EXCEPT
              !.poll = @ \/ w.poll,
              !.special_mask = IF w.smm = "keep" THEN @ ELSE w.smm = "set"]))

(* The line a command ends: the one in service of highest priority, or the *)
(* one the command names.                                                  *)
EndLine(c, w) == IF w.cmd \in {1, 5} THEN Highest(c, c.isr) ELSE w.level

WriteOcw2(k, w) ==
  LET c == pic[k]
      irq == EndLine(c, w) IN
  /\ ~aborted
  /\ \/ /\ w.cmd \in {0, 4}
        /\ Store(Put(k, [c EXCEPT !.rotate_on_auto_eoi = (w.cmd = 4)]))
     \/ /\ \/ w.cmd \in {1, 5} /\ c.isr # {}
           \/ w.cmd \in {3, 7}
        /\ UpdateIrq(Put(k, [c EXCEPT
                        !.isr = @ \ {irq},
                        !.priority_add =
                           IF w.cmd \in {5, 7} THEN (irq + 1) % 8 ELSE @]))
     \/ /\ w.cmd = 6
        /\ UpdateIrq(Put(k, [c EXCEPT !.priority_add = (w.level + 1) % 8]))
     \/ /\ w.cmd = 2 \/ (w.cmd \in {1, 5} /\ c.isr = {})
        /\ UNCHANGED vars

(* Writes to the odd port, by the state of the initialisation sequence. *)

(* Mutated: unmasking does not call pic_update_irq. *)
WriteOcw1Silent(k, mask) ==
  /\ ~aborted
  /\ pic[k].init_state = 0
  /\ Store(Put(k, [pic[k] EXCEPT !.imr = mask]))

WriteOcw1(k, mask) ==
  /\ ~aborted
  /\ pic[k].init_state = 0
  /\ UpdateIrq(Put(k, [pic[k] EXCEPT !.imr = mask]))

WriteIcw2(k, base) ==
  /\ ~aborted
  /\ pic[k].init_state = 1
  /\ Store(Put(k, [pic[k] EXCEPT
              !.irq_base = base,
              !.init_state = IF ~pic[k].single_mode THEN 2
                             ELSE IF pic[k].init4 THEN 3 ELSE 0]))

WriteIcw3(k) ==
  /\ ~aborted
  /\ pic[k].init_state = 2
  /\ Store(Put(k, [pic[k] EXCEPT !.init_state = IF pic[k].init4 THEN 3 ELSE 0]))

WriteIcw4(k, w) ==
  /\ ~aborted
  /\ pic[k].init_state = 3
  /\ Store(Put(k, [pic[k] EXCEPT !.special_fully_nested_mode = w.sfnm,
                                 !.auto_eoi = w.auto_eoi,
                                 !.init_state = 0]))

(* A read while poll is set takes the request of the chip off the latch;   *)
(* from the slave it also takes the master's line 2.  Other reads change   *)
(* nothing.                                                                *)
Dropped(c, irq) == [c EXCEPT !.irr = @ \ {irq}, !.isr = @ \ {irq}]

Polled(p, k) ==
  IF k = 0 THEN [p EXCEPT ![0] = Dropped(@, GetIrq(p, 0))]
  ELSE [p EXCEPT ![0] = Dropped(@, Cascade), ![1] = Dropped(@, GetIrq(p, 1))]

PollRead(k) ==
  /\ ~aborted
  /\ pic[k].poll
  /\ LET p == Put(k, [pic[k] EXCEPT !.poll = FALSE]) IN
       IF ~Wants(p, k) THEN UpdateIrq(p)
       ELSE IF k = 1 \/ GetIrq(p, k) # Cascade THEN UpdateIrq(Polled(p, k))
       ELSE Store(Polled(p, k))

-----------------------------------------------------------------------------
Init ==
  /\ pic = [k \in Chip |-> ResetChip]
  /\ intr = FALSE
  /\ aborted = FALSE

GuestWrite(k) ==
  \/ \E w \in Icw1Writes : WriteIcw1(k, w)
  \/ \E w \in Ocw3Writes : WriteOcw3(k, w)
  \/ \E w \in Ocw2Writes : WriteOcw2(k, w)
  \/ \E m \in MaskWrites : WriteOcw1(k, m)
  \/ \E b \in VectorBases : WriteIcw2(k, b)
  \/ WriteIcw3(k)
  \/ \E w \in Icw4Writes : WriteIcw4(k, w)

Next ==
  \/ \E irq \in DeviceIrqs, level \in BOOLEAN : SetIrq(irq, level)
  \/ ReadIrq
  \/ \E k \in Chip : GuestWrite(k) \/ PollRead(k)

Spec == Init /\ [][Next]_vars
=============================================================================
