------------------------------ MODULE I8254 --------------------------------
(***************************************************************************)
(* The interval timer (i8254.c): its counters are computed from the time   *)
(* since they were loaded, so nothing runs but the clock.  Byte is the 256 *)
(* of an 8-bit register and Word, the period of the 32-bit microsecond     *)
(* clock, its 2^32; Num \div Den stands for PIT_FREQ / 1000000.  A counter *)
(* is a record of the fields of PITChannelState.                           *)
(*                                                                         *)
(* The program that uses channel 0 keeps it in modes 2 and 3, outside      *)
(* which i8254_update_irq aborts, and the emulation loop calls that        *)
(* function often enough never to be a quarter of the clock's period behind. *)
(***************************************************************************)
EXTENDS Integers

CONSTANTS
  Channels,     \* the counters in use, of 0 .. 2
  Readers,      \* those that the guest latches and reads
  Modes,        \* modes that the guest programs
  Accesses,     \* access modes: 1 low byte, 2 high byte, 3 both
  Byte, Word, Num, Den,
  Steps         \* microseconds between two steps of the machine

VARIABLES
  pit,          \* the counters
  uticks,       \* get_uticks()
  elapsed,      \* microseconds since channel 0 was loaded, unlimited
  fired,        \* its interrupts since then
  latch_read    \* the low byte of a latched word that the guest has read, or -1

pitVars == <<pit, uticks, elapsed, fired, latch_read>>

FullCount == Byte * Byte

Since(t) == (uticks - t) % Word
Ticks(microseconds) == ((microseconds * Num) \div Den) % Word

(* pit_get_count. *)
GetCount(s) ==
  LET d == Ticks(Since(s.count_load_time))
  IN CASE s.mode \in {0, 1, 4, 5} -> (s.count - d) % FullCount
       [] s.mode = 3 -> s.count - ((2 * d) % s.count)
       [] OTHER -> s.count - (d % s.count)

(* pit_get_out1. *)
GetOut(s) ==
  LET d == Ticks(Since(s.count_load_time))
  IN CASE s.mode = 1 -> d < s.count
       [] s.mode = 2 -> d % s.count = 0 /\ d # 0
       [] s.mode = 3 -> d % s.count < (s.count + 1) \div 2
       [] s.mode \in {4, 5} -> d = s.count
       [] OTHER -> d >= s.count

LoadCount(s, val) ==
  [s EXCEPT !.count = IF val = 0 THEN FullCount ELSE val,
            !.count_load_time = uticks, !.last_irq_count = 0]

(* Mutated: a second latch command takes a new count. *)
LatchAgain(s) ==
  [s EXCEPT !.latched_count = GetCount(s) % FullCount, !.count_latched = s.rw_mode]

(* pit_latch_count: if already latched, do not latch again. *)
Latch(s) ==
  IF s.count_latched = 0
  THEN [s EXCEPT !.latched_count = GetCount(s) % FullCount, !.count_latched = s.rw_mode]
  ELSE s

Init ==
  /\ uticks = 0 /\ elapsed = 0 /\ fired = 0
  /\ pit = [c \in Channels |->
              [count |-> FullCount, latched_count |-> 0, count_latched |-> 0,
               status_latched |-> FALSE, status |-> FALSE,
               read_state |-> 0, write_state |-> 0, write_latch |-> 0,
               rw_mode |-> 0, mode |-> 3, gate |-> c # 2,
               count_load_time |-> 0, last_irq_count |-> 0]]
  /\ latch_read = [c \in Channels |-> -1]

Put(c, s) == pit' = [pit EXCEPT ![c] = s]
(* A write that loads channel 0 begins a new count of its interrupts. *)
Loaded(c) ==
  IF c = 0 THEN elapsed' = 0 /\ fired' = 0 ELSE UNCHANGED <<elapsed, fired>>
Unloaded == UNCHANGED <<elapsed, fired>>

-----------------------------------------------------------------------------
(* The control word: access and mode.  While the mode of channel 0 changes  *)
(* it keeps its count.                                                      *)
WriteControl ==
  \E c \in Channels, a \in Accesses, m \in Modes :
    /\ Put(c, [pit[c] EXCEPT !.rw_mode = a, !.read_state = a, !.write_state = a, !.mode = m])
    /\ Unloaded /\ UNCHANGED <<uticks, latch_read>>

LatchCommand ==
  \E c \in Readers : Put(c, Latch(pit[c])) /\ Unloaded /\ UNCHANGED <<uticks, latch_read>>

(* The read back command, for a set of channels; of the status byte, OUT. *)
LatchStatus(s) ==
  IF s.status_latched THEN s
  ELSE [s EXCEPT !.status = GetOut(s), !.status_latched = TRUE]

ReadBack ==
  /\ \E C \in SUBSET Readers, count \in BOOLEAN, status \in BOOLEAN :
       pit' = [c \in Channels |->
                 LET s == IF c \in C /\ count THEN Latch(pit[c]) ELSE pit[c]
                 IN IF c \in C /\ status THEN LatchStatus(s) ELSE s]
  /\ Unloaded /\ UNCHANGED <<uticks, latch_read>>

(* A byte to a counter: states 3 and 4 take the two bytes of a word; the    *)
(* first is forgotten with the second.                                      *)
WriteCounter ==
  /\ \E c \in Channels, val \in 0 .. Byte - 1 :
       LET s == pit[c]
       IN CASE s.write_state = 3 ->
                 Put(c, [s EXCEPT !.write_latch = val, !.write_state = 4]) /\ Unloaded
            [] s.write_state = 4 ->
                 /\ Put(c, [LoadCount(s, s.write_latch + Byte * val) EXCEPT !.write_state = 3, !.write_latch = 0])
                 /\ Loaded(c)
            [] s.write_state = 2 -> Put(c, LoadCount(s, Byte * val)) /\ Loaded(c)
            [] OTHER -> Put(c, LoadCount(s, val)) /\ Loaded(c)
  /\ UNCHANGED <<uticks, latch_read>>

(* A byte from a counter: the latched status first, then the latched count, *)
(* then the running one, whose state turns between the bytes.               *)
AfterLatch(s) == IF s.count_latched = 3 THEN 2 ELSE 0

ReadCounter ==
  /\ \E c \in Readers :
       LET s == pit[c]
       IN CASE s.status_latched ->
                 Put(c, [s EXCEPT !.status_latched = FALSE, !.status = FALSE]) /\ UNCHANGED latch_read
            [] ~s.status_latched /\ s.count_latched # 0 ->
                 /\ Put(c, [s EXCEPT !.count_latched = AfterLatch(s)])
                 /\ latch_read' = [latch_read EXCEPT ![c] =
                      IF s.count_latched = 3 THEN s.latched_count % Byte ELSE -1]
            [] OTHER ->
                 /\ Put(c, [s EXCEPT !.read_state = CASE @ = 3 -> 4 [] @ = 4 -> 3 [] OTHER -> @])
                 /\ UNCHANGED latch_read
  /\ Unloaded /\ UNCHANGED uticks

(* Port 61h opens the gate of channel 2: its rising edge restarts it. *)
SetGate ==
  /\ 2 \in Channels
  /\ \E val \in BOOLEAN :
       Put(2, [pit[2] EXCEPT !.gate = val,
                 !.count_load_time = IF pit[2].mode \in {1, 2, 3, 5} /\ val /\ ~pit[2].gate
                                     THEN uticks ELSE @])
  /\ Unloaded /\ UNCHANGED <<uticks, latch_read>>

-----------------------------------------------------------------------------
(* i8254_update_irq, once per step of the machine: one period is served,    *)
(* and a count loaded more than half a period of the clock ago is reloaded. *)
Due(s) == (s.last_irq_count + s.count - Ticks(Since(s.count_load_time))) % Word >= Word \div 2

(* Mutated: a late call serves all that is due with one interrupt. *)
ServedAll(s) == [s EXCEPT !.last_irq_count = Ticks(Since(s.count_load_time))]

Served(s) ==
  IF Since(s.count_load_time) > Word \div 2
  THEN LoadCount(s, s.count)
  ELSE [s EXCEPT !.last_irq_count = (@ + s.count) % Word]

UpdateIrq ==
  /\ 0 \in Channels /\ Due(pit[0])
  /\ Put(0, Served(pit[0]))
  /\ IF Served(pit[0]).last_irq_count = 0
     THEN elapsed' = 0 /\ fired' = 0
     ELSE fired' = fired + 1 /\ UNCHANGED elapsed
  /\ UNCHANGED <<uticks, latch_read>>

(* What the clock says of channel 0, and what has been served. *)
Total(microseconds) == (microseconds * Num) \div Den
Served0 == fired * pit[0].count

Pass ==
  \E n \in Steps :
    /\ 0 \in Channels => Total(elapsed + n) - Served0 < Word \div 4
    /\ uticks' = (uticks + n) % Word
    /\ elapsed' = IF 0 \in Channels THEN elapsed + n ELSE 0
    /\ UNCHANGED <<pit, fired, latch_read>>

Next ==
  \/ WriteControl \/ LatchCommand \/ ReadBack \/ WriteCounter \/ ReadCounter \/ SetGate
  \/ UpdateIrq \/ Pass

-----------------------------------------------------------------------------
TypeOK ==
  /\ uticks \in 0 .. Word - 1
  /\ \A c \in Channels :
       LET s == pit[c]
       IN /\ s.count \in 1 .. FullCount /\ GetCount(s) \in 0 .. FullCount
          /\ s.latched_count \in 0 .. FullCount - 1 /\ s.count_latched \in 0 .. 3
          /\ s.read_state \in 0 .. 4 /\ s.write_state \in 0 .. 4
          /\ s.last_irq_count \in 0 .. Word - 1

(* A count that the guest has latched is held until it is read, whatever    *)
(* else is latched, loaded or programmed (the comment on pit_latch_count).  *)
LatchHeld ==
  \A c \in DOMAIN pit :
    (pit[c].count_latched # 0 /\ pit'[c].count_latched # 0)
      => pit'[c].latched_count = pit[c].latched_count

(* Between the two bytes of a latched word the guest does not get the bytes *)
(* of two words.                                                            *)
WordWhole ==
  \A c \in Channels :
    latch_read[c] # -1 =>
      /\ pit[c].count_latched = 2
      /\ pit[c].latched_count % Byte = latch_read[c]

(* Channel 0 interrupts no earlier than its periods end, and when nothing   *)
(* is due no period that has ended is without its interrupt: calls that     *)
(* come late, and the wrap of the clock, lose none.                         *)
NoEarlyTick == 0 \in Channels => Served0 <= Total(elapsed)
NoTickLost == (0 \in Channels /\ ~Due(pit[0])) => Total(elapsed) - Served0 <= pit[0].count

(* Ticks are served and counts are read whole. *)
TimerRight == TypeOK /\ WordWhole /\ NoEarlyTick /\ NoTickLost
=============================================================================
