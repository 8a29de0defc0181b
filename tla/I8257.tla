------------------------------- MODULE I8257 -------------------------------
(***************************************************************************)
(* A DMA controller (i8257.c) as far as its one channel with a device is   *)
(* concerned; the machine has two, of bytes and of words.  Operators on a  *)
(* record of the controller's fields: base and now are the programmed and  *)
(* the current count, Byte stands for 256 and shift is dshift.  Addresses, *)
(* pages and the bytes moved are left out.                                 *)
(***************************************************************************)
EXTENDS Integers

CONSTANT Byte

Controller(shift) ==
  [dreq |-> FALSE, tc |-> FALSE, masked |-> FALSE, flip_flop |-> 0,
   base |-> 0, now |-> 0, shift |-> shift]

(* i8257_write_chan: the second of two bytes loads the current count. *)
WriteCount(d, data) ==
  IF d.flip_flop = 1
  THEN [d EXCEPT !.base = (@ % Byte) + (Byte * data), !.now = 0, !.flip_flop = 0]
  ELSE [d EXCEPT !.base = (@ - (@ % Byte)) + data, !.flip_flop = 1]

(* i8257_write_cont, but for the software request and the mode. *)
ClearFlipFlop(d) == [d EXCEPT !.flip_flop = 0]
SetMask(d, on) == [d EXCEPT !.masked = on]
MasterClear(d) == [d EXCEPT !.flip_flop = 0, !.masked = TRUE, !.dreq = FALSE, !.tc = FALSE]
(* i8257_read_cont. *)
ReadStatus(d) == [d EXCEPT !.tc = FALSE]

(* What the device is offered: i8257_channel_run. *)
BufferLength(d) == (d.base + 1) * (2 ^ d.shift)
Runs(d) == ~d.masked /\ d.dreq
AfterRun(d, n) == [d EXCEPT !.now = n, !.tc = @ \/ n = BufferLength(d)]
=============================================================================
