------------------------------- MODULE I8042 -------------------------------
(***************************************************************************)
(* The keyboard controller and the PS/2 keyboard (i8042.c), driven by two  *)
(* threads: the emulation thread runs the guest's port accesses and        *)
(* kbd_step, the user-interface thread calls ps2_put_keycode for every     *)
(* key (bridge.c, nativeKey).  The Android build has no THREAD_SAFE, so    *)
(* the queue is a ring of plain integers: its functions are cut here into  *)
(* the accesses that the other thread can come between.                    *)
(*                                                                         *)
(* The mouse is reduced to the number of bytes in its queue, which only    *)
(* the emulation thread touches, and the replies of the keyboard to their  *)
(* number.  kbd_update_irq and the interrupt controller behind it are one  *)
(* step.                                                                   *)
(***************************************************************************)
EXTENDS Integers, Sequences

CONSTANTS
  Keys,        \* key codes sent as one byte
  ExtKeys,     \* key codes sent as e0 and, later, a second byte
  Modes,       \* what the guest writes to the mode register
  QueueSize,   \* PS2_QUEUE_SIZE (256 in the code)
  Overlap      \* the two threads may be inside i8042.c at the same time

ASSUME SizeAssumption == QueueSize \in Nat \ {0}
ASSUME KeyAssumption ==
  Keys \cap ExtKeys = {} /\ {"e0", "reply", "nothing"} \cap (Keys \union ExtKeys) = {}
ASSUME ModeAssumption == Modes \subseteq SUBSET {"kbd_int", "mouse_int", "kbd_disabled"}
ASSUME OverlapAssumption == Overlap \in BOOLEAN

Thread == {"ui", "emu"}
Byte == Keys \union ExtKeys \union {"e0", "reply"}
Slot == 0 .. QueueSize - 1

VARIABLES
  data, rptr, wptr, count,       \* the keyboard's PS2Queue
  aux,                           \* bytes in the mouse's queue
  delay, delay_keycode,          \* the second byte of a key, waiting for its time
  write_cmd, mode, pending,      \* KBDState
  irq, latched,                  \* lines 1 and 12; edges the guest has not taken
  at, out, ext, reg              \* each thread: step, bytes to queue, key, register

queue == <<data, rptr, wptr, count>>
delayed == <<delay, delay_keycode>>
controller == <<write_cmd, mode, pending, irq, latched>>
thread == <<at, out, ext, reg>>
vars == <<queue, aux, delayed, controller, thread>>

Nothing == "nothing"      \* no key, no command

Init ==
  /\ data = [i \in Slot |-> "reply"] /\ rptr = 0 /\ wptr = 0 /\ count = 0
  /\ aux = 0
  /\ delay = FALSE /\ delay_keycode = Nothing
  /\ write_cmd = Nothing /\ mode = {"kbd_int", "mouse_int"} /\ pending = {}
  /\ irq = {} /\ latched = {}
  /\ at = [t \in Thread |-> "idle"] /\ out = [t \in Thread |-> << >>]
  /\ ext = [t \in Thread |-> Nothing] /\ reg = [t \in Thread |-> 0]

-----------------------------------------------------------------------------
(* kbd_update_irq: keyboard data hides mouse data, and each line is a      *)
(* level of which the interrupt controller latches the rising edge.        *)
IrqLines(pend, m) ==
  (IF "kbd" \in pend /\ "kbd_int" \in m /\ "kbd_disabled" \notin m THEN {1} ELSE {})
    \union (IF pend = {"aux"} /\ "mouse_int" \in m THEN {12} ELSE {})

UpdateIrq(pend, m) ==
  /\ pending' = pend
  /\ mode' = m
  /\ irq' = IrqLines(pend, m)
  /\ latched' = latched \union (IrqLines(pend, m) \ irq)

Pending(device, level) == IF level THEN pending \union {device} ELSE pending \ {device}

(* update_irq called twice, as a read does. *)
UpdateIrqTwice(pend0, pend1) ==
  /\ pending' = pend1
  /\ mode' = mode
  /\ irq' = IrqLines(pend1, mode)
  /\ latched' = latched \union (IrqLines(pend0, mode) \ irq)
                        \union (IrqLines(pend1, mode) \ IrqLines(pend0, mode))

(* A thread may enter i8042.c.  A guest's interrupt handler that has not    *)
(* read yet is outside.                                                    *)
Outside == {"idle", "handler"}
Alone(t) == Overlap \/ \A u \in Thread \ {t} : at[u] \in Outside
Free(t) == at[t] = "idle" /\ Alone(t)
Go(t, step) == at' = [at EXCEPT ![t] = step]

(* Where a thread goes on after a byte: to the next byte, or to arm the    *)
(* delay for the second byte of an extended key.                           *)
Then(t, bytes, key) ==
  /\ Go(t, IF bytes # << >> THEN "put" ELSE IF key # Nothing THEN "arm" ELSE "idle")
  /\ out' = [out EXCEPT ![t] = bytes]
  /\ ext' = [ext EXCEPT ![t] = key]

-----------------------------------------------------------------------------
(* ps2_queue, for the first byte in out[t]. *)

(* A full queue drops the byte. *)
QueueFull(t) ==
  /\ at[t] = "put" /\ count >= QueueSize
  /\ Then(t, Tail(out[t]), ext[t])
  /\ UNCHANGED <<queue, aux, delayed, controller, reg>>

(* Mutated: room is tested one byte late. *)
QueuePutFull(t) ==
  /\ at[t] = "put" /\ count <= QueueSize
  /\ data' = [data EXCEPT ![wptr] = Head(out[t])]
  /\ reg' = [reg EXCEPT ![t] = wptr]
  /\ Go(t, "advance")
  /\ UNCHANGED <<rptr, wptr, count, aux, delayed, controller, out, ext>>

QueuePut(t) ==
  /\ at[t] = "put" /\ count < QueueSize
  /\ data' = [data EXCEPT ![wptr] = Head(out[t])]
  /\ reg' = [reg EXCEPT ![t] = wptr]
  /\ Go(t, "advance")
  /\ UNCHANGED <<rptr, wptr, count, aux, delayed, controller, out, ext>>

(* Mutated: the write pointer wraps one slot late. *)
QueueAdvanceLate(t) ==
  /\ at[t] = "advance"
  /\ wptr' = IF reg[t] = QueueSize THEN 0 ELSE reg[t] + 1
  /\ Go(t, "load")
  /\ reg' = [reg EXCEPT ![t] = 0]
  /\ UNCHANGED <<data, rptr, count, aux, delayed, controller, out, ext>>

QueueAdvance(t) ==
  /\ at[t] = "advance"
  /\ wptr' = IF reg[t] + 1 = QueueSize THEN 0 ELSE reg[t] + 1
  /\ Go(t, "load")
  /\ reg' = [reg EXCEPT ![t] = 0]
  /\ UNCHANGED <<data, rptr, count, aux, delayed, controller, out, ext>>

QueueLoad(t) ==
  /\ at[t] = "load"
  /\ reg' = [reg EXCEPT ![t] = count]
  /\ Go(t, "count")
  /\ UNCHANGED <<queue, aux, delayed, controller, out, ext>>

QueueCount(t) ==
  /\ at[t] = "count"
  /\ count' = reg[t] + 1
  /\ Go(t, "irq")
  /\ reg' = [reg EXCEPT ![t] = 0]
  /\ UNCHANGED <<data, rptr, wptr, aux, delayed, controller, out, ext>>

QueueIrq(t) ==
  /\ at[t] = "irq"
  /\ UpdateIrq(Pending("kbd", TRUE), mode)
  /\ Then(t, Tail(out[t]), ext[t])
  /\ UNCHANGED <<queue, aux, delayed, write_cmd, reg>>

QueueSteps(t) ==
  QueueFull(t) \/ QueuePut(t) \/ QueueAdvance(t) \/ QueueLoad(t) \/ QueueCount(t) \/ QueueIrq(t)

-----------------------------------------------------------------------------
(* ps2_put_keycode on the user-interface thread.  A second byte still      *)
(* waiting is queued first.                                                *)
PutKeycode(k) ==
  /\ Free("ui")
  /\ Go("ui", IF delay THEN "flush" ELSE "put")
  /\ out' = [out EXCEPT !["ui"] = IF k \in ExtKeys THEN <<"e0">> ELSE <<k>>]
  /\ ext' = [ext EXCEPT !["ui"] = IF k \in ExtKeys THEN k ELSE Nothing]
  /\ UNCHANGED <<queue, aux, delayed, controller, reg>>

Flush(t) ==
  /\ at[t] = "flush"
  /\ delay' = FALSE
  /\ out' = [out EXCEPT ![t] = <<delay_keycode>> \o @]
  /\ Go(t, "put")
  /\ UNCHANGED <<queue, aux, delay_keycode, controller, ext, reg>>

(* delay is raised before get_uticks() is called for the time, and the     *)
(* byte is written after that.                                             *)
Arm ==
  /\ at["ui"] = "arm"
  /\ delay' = TRUE
  /\ Go("ui", "code")
  /\ UNCHANGED <<queue, aux, delay_keycode, controller, out, ext, reg>>

SetCode ==
  /\ at["ui"] = "code"
  /\ delay_keycode' = ext["ui"]
  /\ ext' = [ext EXCEPT !["ui"] = Nothing]
  /\ Go("ui", "idle")
  /\ UNCHANGED <<queue, aux, delay, controller, out, reg>>

(* Mutated: the byte waits for the guest to have read the prefix. *)
KbdStepDrained ==
  /\ Free("emu")
  /\ delay /\ count = 0
  /\ Go("emu", "flush")
  /\ UNCHANGED <<queue, aux, delayed, controller, out, ext, reg>>

(* kbd_step, when the time of the second byte has come: at any moment,     *)
(* since no bound is known on when the guest reads the prefix.             *)
KbdStep ==
  /\ Free("emu")
  /\ delay
  /\ Go("emu", "flush")
  /\ UNCHANGED <<queue, aux, delayed, controller, out, ext, reg>>

-----------------------------------------------------------------------------
(* kbd_read_data and ps2_read_data: the guest reads port 60h, from an      *)
(* interrupt handler or on its own.                                        *)
Reading == at["emu"] \in Outside /\ Alone("emu")

Interrupt(i) ==
  /\ Free("emu")
  /\ i \in latched
  /\ latched' = latched \ {i}
  /\ Go("emu", "handler")
  /\ UNCHANGED <<queue, aux, delayed, write_cmd, mode, pending, irq,
                 out, ext, reg>>

(* Only mouse data is pending. *)
ReadAux ==
  /\ Reading
  /\ pending = {"aux"} /\ aux > 0
  /\ aux' = aux - 1
  /\ UpdateIrqTwice({}, Pending("aux", aux > 1))
  /\ Go("emu", "idle")
  /\ UNCHANGED <<queue, delayed, write_cmd, out, ext, reg>>

(* Nothing is there: the byte before the read pointer is given again. *)
ReadAgain ==
  /\ Reading
  /\ IF pending = {"aux"} THEN aux = 0 ELSE count = 0
  /\ Go("emu", "idle")
  /\ UNCHANGED <<queue, aux, delayed, controller, out, ext, reg>>

ReadTake ==
  /\ Reading
  /\ pending # {"aux"} /\ count # 0
  /\ rptr' = IF rptr + 1 = QueueSize THEN 0 ELSE rptr + 1
  /\ reg' = [reg EXCEPT !["emu"] = count]
  /\ Go("emu", "taken")
  /\ UNCHANGED <<data, wptr, count, aux, delayed, controller, out, ext>>

ReadCount ==
  /\ at["emu"] = "taken"
  /\ count' = reg["emu"] - 1
  /\ Go("emu", "deassert")
  /\ reg' = [reg EXCEPT !["emu"] = 0]
  /\ UNCHANGED <<data, rptr, wptr, aux, delayed, controller, out, ext>>

(* Mutated: the line is not lowered between two bytes. *)
DeassertLast ==
  /\ at["emu"] = "deassert"
  /\ UpdateIrq(Pending("kbd", count # 0), mode)
  /\ Go("emu", "left")
  /\ UNCHANGED <<queue, aux, delayed, write_cmd, out, ext, reg>>

(* "reading deasserts IRQ" *)
Deassert ==
  /\ at["emu"] = "deassert"
  /\ UpdateIrq(Pending("kbd", FALSE), mode)
  /\ Go("emu", "left")
  /\ UNCHANGED <<queue, aux, delayed, write_cmd, out, ext, reg>>

(* "reassert IRQs if data left": the argument, then the call. *)
DataLeft ==
  /\ at["emu"] = "left"
  /\ reg' = [reg EXCEPT !["emu"] = count]
  /\ Go("emu", "reassert")
  /\ UNCHANGED <<queue, aux, delayed, controller, out, ext>>

(* Mutated: only more than one byte counts as data left. *)
ReassertMany ==
  /\ at["emu"] = "reassert"
  /\ UpdateIrq(Pending("kbd", reg["emu"] > 1), mode)
  /\ Go("emu", "idle")
  /\ reg' = [reg EXCEPT !["emu"] = 0]
  /\ UNCHANGED <<queue, aux, delayed, write_cmd, out, ext>>

Reassert ==
  /\ at["emu"] = "reassert"
  /\ UpdateIrq(Pending("kbd", reg["emu"] # 0), mode)
  /\ Go("emu", "idle")
  /\ reg' = [reg EXCEPT !["emu"] = 0]
  /\ UNCHANGED <<queue, aux, delayed, write_cmd, out, ext>>

GuestRead == ReadAux \/ ReadAgain \/ ReadTake
ReadSteps == ReadCount \/ Deassert \/ DataLeft \/ Reassert

-----------------------------------------------------------------------------
(* The guest writes.  Replies of the keyboard go through ps2_queue one     *)
(* after the other; those of the mouse are queued at once.                 *)
Reply(n) ==
  /\ out' = [out EXCEPT !["emu"] = [i \in 1..n |-> "reply"]]
  /\ Go("emu", "put")
  /\ UNCHANGED <<queue, aux, delayed, controller, ext, reg>>

QueueAux(n) ==
  /\ aux' = IF aux + n > QueueSize THEN QueueSize ELSE aux + n
  /\ IF aux < QueueSize THEN UpdateIrq(Pending("aux", TRUE), mode)
     ELSE UNCHANGED <<pending, mode, irq, latched>>

(* Port 64h.  Commands that change nothing here (the mouse interface bit,   *)
(* A20, the output port, a reset of the machine, which leaves this         *)
(* controller alone) are left out.                                         *)

(* The tests, and reading the input or output port. *)
CommandReply == Free("emu") /\ Reply(1)

(* KBD_CCMD_READ_MODE answers through the mouse's queue. *)
ReadMode ==
  /\ Free("emu")
  /\ QueueAux(1)
  /\ UNCHANGED <<queue, delayed, write_cmd, thread>>

ExpectByte ==
  /\ Free("emu")
  /\ write_cmd' \in {"mode", "obuf", "mouse"}
  /\ UNCHANGED <<queue, aux, delayed, mode, pending, irq, latched, thread>>

KbdInterface(on) ==
  /\ Free("emu")
  /\ UpdateIrq(pending, IF on THEN mode \ {"kbd_disabled"} ELSE mode \union {"kbd_disabled"})
  /\ UNCHANGED <<queue, aux, delayed, write_cmd, thread>>

WriteCommand == CommandReply \/ ReadMode \/ ExpectByte \/ \E on \in BOOLEAN : KbdInterface(on)

(* Port 60h, by the command that waits for a byte.  The keyboard answers   *)
(* one to three bytes; the argument of a command too is answered.          *)
WriteKeyboard ==
  /\ Free("emu")
  /\ write_cmd = Nothing
  /\ \E n \in 1..3 : Reply(n)

WriteMode ==
  /\ Free("emu")
  /\ write_cmd = "mode"
  /\ write_cmd' = Nothing
  /\ \E m \in Modes : UpdateIrq(pending, m)
  /\ UNCHANGED <<queue, aux, delayed, thread>>

(* Queued as if the keyboard had sent it. *)
WriteObuf ==
  /\ Free("emu")
  /\ write_cmd = "obuf"
  /\ write_cmd' = Nothing
  /\ out' = [out EXCEPT !["emu"] = <<"reply">>]
  /\ Go("emu", "put")
  /\ UNCHANGED <<queue, aux, delayed, mode, pending, irq, latched, ext, reg>>

(* For the mouse's queue (KBD_CCMD_WRITE_AUX_OBUF) or for the mouse, which  *)
(* answers nothing or up to four bytes.                                    *)
WriteMouse ==
  /\ Free("emu")
  /\ write_cmd = "mouse"
  /\ write_cmd' = Nothing
  /\ \/ UNCHANGED <<aux, mode, pending, irq, latched>>
     \/ \E n \in 1..4 : QueueAux(n)
  /\ UNCHANGED <<queue, delayed, thread>>

GuestWrite == WriteCommand \/ WriteKeyboard \/ WriteMode \/ WriteObuf \/ WriteMouse

-----------------------------------------------------------------------------
Steps(t) == QueueSteps(t) \/ Flush(t)

Next ==
  \/ \E k \in Keys \union ExtKeys : PutKeycode(k)
  \/ Arm \/ SetCode
  \/ KbdStep \/ GuestRead \/ ReadSteps \/ GuestWrite
  \/ \E i \in {1, 12} : Interrupt(i)
  \/ \E t \in Thread : Steps(t)

Spec == Init /\ [][Next]_vars

(* Both threads run; pc_step comes round again and again; the guest takes  *)
(* the keyboard interrupt when it can, and its handler reads.              *)
FairSpec ==
  /\ Spec
  /\ WF_vars(Steps("ui") \/ Arm \/ SetCode)
  /\ WF_vars(Steps("emu") \/ ReadSteps)
  /\ SF_vars(KbdStep) /\ SF_vars(Interrupt(1))
  /\ SF_vars(at["emu"] = "handler" /\ GuestRead)
=============================================================================
