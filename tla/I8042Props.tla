----------------------------- MODULE I8042Props -----------------------------
(***************************************************************************)
(* What the keyboard path owes the user and the guest.                     *)
(***************************************************************************)
EXTENDS I8042

Step == {"idle", "handler", "flush", "put", "advance", "load", "count", "irq",
         "arm", "code", "taken", "deassert", "left", "reassert"}

(* The variables have their types. *)
TypeOK ==
  /\ data \in [Slot -> Byte] /\ rptr \in Slot /\ wptr \in Slot /\ count \in 0..QueueSize
  /\ aux \in 0..QueueSize
  /\ delay \in BOOLEAN /\ delay_keycode \in ExtKeys \union {Nothing}
  /\ write_cmd \in {Nothing, "mode", "obuf", "mouse"}
  /\ mode \in SUBSET {"kbd_int", "mouse_int", "kbd_disabled"}
  /\ pending \in SUBSET {"kbd", "aux"}
  /\ irq \in SUBSET {1, 12} /\ latched \in SUBSET {1, 12}
  /\ at \in [Thread -> Step]
  /\ out \in [Thread -> Seq(Byte)]
  /\ ext \in [Thread -> ExtKeys \union {Nothing}]
  /\ reg \in [Thread -> 0..QueueSize]

Resting == \A t \in Thread : at[t] \in Outside

(* When no call is in progress, the controller says that a device has data *)
(* exactly when its queue holds some ("reassert IRQs if data left"): a      *)
(* byte is never queued without the guest being told of it.                *)
PendingIsQueue ==
  Resting =>
    /\ ("kbd" \in pending) <=> (count > 0)
    /\ ("aux" \in pending) <=> (aux > 0)
    /\ irq = IrqLines(pending, mode)

(* "reassert IRQs if data left" of the keyboard's queue alone. *)
DataLeftIsPending == Resting => (count > 0 => "kbd" \in pending)

Wrapped(i) == IF i >= QueueSize THEN i - QueueSize ELSE i

(* The ring between its two pointers; while a read has moved rptr and not  *)
(* yet counted down, one byte less.                                        *)
Held == IF at["emu"] = "taken" THEN count - 1 ELSE count
Contents == [i \in 1..Held |-> data[Wrapped(rptr + i - 1)]]

Fifo == INSTANCE ByteQueue WITH Bound <- QueueSize, q <- Contents

(* The ring with its pointers, wrap and count is a bounded queue of bytes. *)
ImplementsQueue == Fifo!QueueSpec

(* Every key is read, one interrupt per byte, by a guest that keeps the    *)
(* keyboard interrupt on: each read lowers the line and raises it again if *)
(* bytes are left, so the edge for the next byte is never missing.         *)
Listening == "kbd_int" \in mode /\ "kbd_disabled" \notin mode

KeysAreRead ==
  <>[]Listening => []<>(count = 0 \/ at["emu"] = "taken")

(* The second byte of an extended key does not wait for ever. *)
SecondByteIsSent == delay ~> ~delay
=============================================================================
