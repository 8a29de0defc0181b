------------------------------- MODULE Cmos --------------------------------
(***************************************************************************)
(* The clock's registers and its periodic interrupt (misc.c).  There is no *)
(* timer: at each step of the machine cmos_update_irq compares the 32-bit  *)
(* count of 1/32768 s with irq_timeout by the sign of their difference.    *)
(* Word stands for its 2^32, Rates for the rate codes that a guest writes; *)
(* the date is left out.                                                   *)
(***************************************************************************)
EXTENDS Integers

CONSTANTS
  Word,         \* the period of the clock, a power of two
  Rates,        \* rate codes in register A
  Shift,        \* what is added to codes 1 and 2
  Lag           \* bound: the emulation loop is never further behind

VARIABLES
  cmos,         \* index; rate and pie, the parts of registers A and B; flags of C
  irq_period, irq_timeout,
  ticks,        \* cmos_get_timer()
  owed          \* with a rate set, ends of periods less interrupts sent

cmosVars == <<cmos, irq_period, irq_timeout, ticks, owed>>

Code(rate) == IF rate <= 2 THEN rate + Shift ELSE rate
Power2[n \in Nat] == IF n = 0 THEN 1 ELSE 2 * Power2[n - 1]

Init ==
  /\ cmos = [index |-> "A", rate |-> 3, pie |-> FALSE, c |-> FALSE]
  /\ irq_period = 0 /\ irq_timeout = 0 /\ ticks = 0 /\ owed = 0

(* A multiple of the period, and so again after the clock wraps. *)
NextTimeout(period) == (ticks + period - ((ticks + period) % period)) % Word

(* cmos_update_timer, with the registers A and B of s. *)
UpdateTimer(s) ==
  IF s.pie /\ s.rate # 0
  THEN LET period == Power2[Code(s.rate) - 1]
       IN irq_period' = period /\ irq_timeout' = NextTimeout(period) /\ owed' = 0
  ELSE UNCHANGED <<irq_period, irq_timeout>> /\ owed' = 0

WriteIndex ==
  /\ \E r \in {"A", "B", "other"} : cmos' = [cmos EXCEPT !.index = r]
  /\ UNCHANGED <<irq_period, irq_timeout, ticks, owed>>

WriteData ==
  /\ \/ \E r \in Rates : cmos.index = "A" /\ cmos' = [cmos EXCEPT !.rate = r]
     \/ \E b \in BOOLEAN : cmos.index = "B" /\ cmos' = [cmos EXCEPT !.pie = b]
  /\ UpdateTimer(cmos')
  /\ UNCHANGED ticks

(* (int32_t)(now - timeout) >= 0. *)
Due == cmos.pie /\ (ticks - irq_timeout) % Word < Word \div 2

AfterThis == (irq_timeout + irq_period) % Word

(* cmos_update_irq: reading register C does not clear it. *)
UpdateIrq ==
  /\ Due
  /\ cmos' = [cmos EXCEPT !.c = TRUE]
  /\ irq_timeout' = AfterThis
  /\ owed' = IF cmos.rate = 0 THEN 0 ELSE owed - 1
  /\ UNCHANGED <<irq_period, ticks>>

(* One tick of the clock. *)
Tick ==
  /\ owed < Lag
  /\ ticks' = (ticks + 1) % Word
  /\ owed' = IF cmos.pie /\ cmos.rate # 0 /\ ticks' % irq_period = 0 THEN owed + 1 ELSE owed
  /\ UNCHANGED <<cmos, irq_period, irq_timeout>>

Next == WriteIndex \/ WriteData \/ UpdateIrq \/ Tick

-----------------------------------------------------------------------------
TypeOK ==
  /\ irq_timeout \in 0 .. Word - 1 /\ irq_period \in 0 .. Word \div 2
  /\ owed \in -1 .. Lag /\ ticks \in 0 .. Word - 1

(* While a rate is set, each end of a period owes one interrupt: one is due *)
(* exactly while one is owed, over the wrap of the clock, changes of rate   *)
(* and late calls.                                                          *)
DueIsOwed ==
  TypeOK /\ ((cmos.pie /\ cmos.rate # 0) => (Due <=> owed > 0))
=============================================================================
