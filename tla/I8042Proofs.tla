---------------------------- MODULE I8042Proofs ----------------------------
(***************************************************************************)
(* If the two threads never meet inside i8042.c, the controller tells the  *)
(* guest of a byte exactly when one is queued, and the ring is a bounded   *)
(* queue, for a ring of any size and any set of keys.                      *)
(***************************************************************************)
EXTENDS I8042Props, SequenceTheorems, TLAPS

Device == {"kbd", "aux"}
Line == {1, 12}
Bit == {"kbd_int", "mouse_int", "kbd_disabled"}

(* Only one thread is inside. *)
Exclusive == at["ui"] \in Outside \/ at["emu"] \in Outside

(* A thread inside ps2_queue has a byte to queue, and room for it. *)
Queueing ==
  \A t \in Thread :
    /\ at[t] \in {"put", "advance", "load", "count", "irq"} => out[t] # << >>
    /\ at[t] \in {"advance", "load", "count"} => count < QueueSize
    /\ at[t] = "advance" => reg[t] \in Slot
    /\ at[t] = "count" => reg[t] = count
    /\ at[t] = "irq" => count > 0

(* What ps2_read_data holds in its register. *)
Taking ==
  /\ at["emu"] = "taken" => count > 0 /\ reg["emu"] = count
  /\ at["emu"] = "reassert" => reg["emu"] = count

(* A second byte that waits is there, unless it is being written. *)
Second ==
  /\ delay /\ at["ui"] # "code" => delay_keycode \in ExtKeys
  /\ \A t \in Thread : at[t] = "flush" => delay_keycode \in ExtKeys
  /\ at["ui"] \in {"arm", "code"} => ext["ui"] \in ExtKeys
  /\ ext["emu"] = Nothing /\ at["emu"] \notin {"arm", "code"}

(* Between the change of the count and the call of update_irq the two may  *)
(* differ.                                                                 *)
Between == {"irq", "taken", "deassert", "left", "reassert"}

Told ==
  /\ ("aux" \in pending) <=> (aux > 0)
  /\ irq = IrqLines(pending, mode)
  /\ (\A t \in Thread : at[t] \notin Between) => (("kbd" \in pending) <=> (count > 0))

(* The inductive invariant. *)
KInv == TypeOK /\ Exclusive /\ Queueing /\ Taking /\ Second /\ Told

-----------------------------------------------------------------------------
LEMMA IrqLinesType ==
  ASSUME NEW pend, NEW m
  PROVE  IrqLines(pend, m) \in SUBSET Line
BY DEF IrqLines, Line

(* A device's pending bit is set to the level given, the other's is kept. *)
LEMMA PendingOf ==
  ASSUME pending \in SUBSET Device, NEW d \in Device, NEW level \in BOOLEAN
  PROVE  /\ Pending(d, level) \in SUBSET Device
         /\ d \in Pending(d, level) <=> level
         /\ \A e \in Device \ {d} : e \in Pending(d, level) <=> e \in pending
BY DEF Pending, Device

LEMMA Updated ==
  ASSUME TypeOK, NEW p \in SUBSET Device, NEW m \in SUBSET Bit, UpdateIrq(p, m)
  PROVE  /\ pending' = p /\ mode' = m
         /\ irq' = IrqLines(pending', mode')
         /\ pending' \in SUBSET Device /\ mode' \in SUBSET Bit
         /\ irq' \in SUBSET Line /\ latched' \in SUBSET Line
<1>1. IrqLines(p, m) \in SUBSET Line
  BY IrqLinesType
<1>2. latched \in SUBSET Line
  BY DEF TypeOK, Line
<1> QED
  BY <1>1, <1>2 DEF UpdateIrq

LEMMA Went ==
  ASSUME TypeOK, NEW t \in Thread, NEW s \in Step, Go(t, s)
  PROVE  /\ at' \in [Thread -> Step]
         /\ at'[t] = s
         /\ \A u \in Thread \ {t} : at'[u] = at[u]
BY DEF TypeOK, Go

(* After a byte a thread has another to queue, or a second byte to delay,  *)
(* or is done.                                                             *)
LEMMA Went2 ==
  ASSUME TypeOK, NEW t \in Thread, NEW bytes \in Seq(Byte), NEW key \in ExtKeys \union {Nothing},
         Then(t, bytes, key)
  PROVE  /\ at' \in [Thread -> Step] /\ out' \in [Thread -> Seq(Byte)]
         /\ ext' \in [Thread -> ExtKeys \union {Nothing}]
         /\ at'[t] \in {"put", "arm", "idle"}
         /\ at'[t] = "put" => out'[t] # << >>
         /\ at'[t] = "arm" => key # Nothing
         /\ ext'[t] = key
         /\ \A u \in Thread \ {t} : at'[u] = at[u] /\ out'[u] = out[u] /\ ext'[u] = ext[u]
<1>1. (IF bytes # << >> THEN "put" ELSE IF key # Nothing THEN "arm" ELSE "idle") \in Step
  BY DEF Step
<1> QED
  BY <1>1 DEF TypeOK, Then, Go

LEMMA Inits == Init => KInv
<1> SUFFICES ASSUME Init PROVE KInv
  OBVIOUS
<1> USE DEF Init
<1>1. TypeOK
  <2>1. data \in [Slot -> Byte] /\ rptr \in Slot /\ wptr \in Slot /\ count \in 0..QueueSize
        /\ aux \in 0..QueueSize /\ reg \in [Thread -> 0..QueueSize]
    BY SizeAssumption DEF Slot, Byte
  <2>2. delay \in BOOLEAN
    BY Zenon
  <2>3. at \in [Thread -> Step] /\ out \in [Thread -> Seq(Byte)]
        /\ ext \in [Thread -> ExtKeys \union {Nothing}]
    BY DEF Step
  <2> QED
    BY <2>1, <2>2, <2>3 DEF TypeOK
<1>2. Exclusive /\ Queueing /\ Taking
  BY DEF Exclusive, Outside, Queueing, Taking, Thread
<1>3. Second
  BY DEF Second, Thread
<1>4. Told
  BY DEF Told, IrqLines
<1> QED
  BY <1>1, <1>2, <1>3, <1>4 DEF KInv

-----------------------------------------------------------------------------
(* ps2_queue. *)

LEMMA QueueFullInv ==
  ASSUME ~Overlap, KInv, NEW t \in Thread, QueueFull(t)
  PROVE  KInv'
<1>1. TypeOK /\ out[t] \in Seq(Byte) /\ out[t] # << >> /\ ext[t] \in ExtKeys \union {Nothing}
  BY DEF KInv, TypeOK, Queueing, QueueFull
<1>2. Tail(out[t]) \in Seq(Byte)
  BY <1>1
<1>3. /\ at' \in [Thread -> Step] /\ out' \in [Thread -> Seq(Byte)]
      /\ ext' \in [Thread -> ExtKeys \union {Nothing}]
      /\ at'[t] \in {"put", "arm", "idle"}
      /\ at'[t] = "put" => out'[t] # << >>
      /\ at'[t] = "arm" => ext[t] # Nothing
      /\ ext'[t] = ext[t]
      /\ \A u \in Thread \ {t} : at'[u] = at[u] /\ out'[u] = out[u] /\ ext'[u] = ext[u]
  BY <1>1, <1>2, Went2 DEF QueueFull
<1>4. TypeOK'
  BY <1>1, <1>3 DEF TypeOK, QueueFull, queue, delayed, controller
<1>5. (Exclusive /\ Queueing /\ Taking)'
  BY <1>1, <1>3 DEF KInv, Exclusive, Queueing, Taking, Outside, QueueFull, queue, Thread
<1>6. Second'
  BY <1>1, <1>3 DEF KInv, Exclusive, Second, Outside, QueueFull, delayed, Thread
<1>7. Told'
  BY <1>1, <1>3 DEF KInv, Exclusive, Told, Outside, Between, QueueFull, queue, controller, Thread
<1> QED
  BY <1>4, <1>5, <1>6, <1>7 DEF KInv

LEMMA QueuePutInv ==
  ASSUME ~Overlap, KInv, NEW t \in Thread, QueuePut(t)
  PROVE  KInv'
<1>1. TypeOK /\ out[t] \in Seq(Byte) /\ out[t] # << >>
  BY DEF KInv, TypeOK, Queueing, QueuePut
<1>2. Head(out[t]) \in Byte
  BY <1>1
<1>3. /\ at' \in [Thread -> Step] /\ at'[t] = "advance"
      /\ \A u \in Thread \ {t} : at'[u] = at[u]
  BY <1>1, Went DEF QueuePut, Step
<1>4. wptr \in Slot /\ reg' = [reg EXCEPT ![t] = wptr] /\ reg' \in [Thread -> 0..QueueSize]
  BY <1>1, SizeAssumption DEF TypeOK, QueuePut, Slot
<1>5. TypeOK'
  BY <1>1, <1>2, <1>3, <1>4 DEF TypeOK, QueuePut, delayed, controller
<1>6. (Exclusive /\ Queueing /\ Taking)'
  BY <1>1, <1>3, <1>4 DEF KInv, TypeOK, Exclusive, Queueing, Taking, Outside, QueuePut, Thread
<1>7. Second'
  BY <1>1, <1>3 DEF KInv, Exclusive, Second, Outside, QueuePut, delayed, Thread
<1>8. Told'
  BY <1>1, <1>3 DEF KInv, Exclusive, Told, Outside, Between, QueuePut, controller, Thread
<1> QED
  BY <1>5, <1>6, <1>7, <1>8 DEF KInv

LEMMA QueueAdvanceInv ==
  ASSUME ~Overlap, KInv, NEW t \in Thread, QueueAdvance(t)
  PROVE  KInv'
<1>1. TypeOK /\ reg[t] \in Slot
  BY DEF KInv, Queueing, QueueAdvance
<1>2. wptr' \in Slot
  BY <1>1, SizeAssumption DEF QueueAdvance, Slot
<1>3. /\ at' \in [Thread -> Step] /\ at'[t] = "load"
      /\ \A u \in Thread \ {t} : at'[u] = at[u]
  BY <1>1, Went DEF QueueAdvance, Step
<1>4. reg' = [reg EXCEPT ![t] = 0] /\ reg' \in [Thread -> 0..QueueSize]
  BY <1>1, SizeAssumption DEF TypeOK, QueueAdvance
<1>5. TypeOK'
  BY <1>1, <1>2, <1>3, <1>4 DEF TypeOK, QueueAdvance, delayed, controller
<1>6. (Exclusive /\ Queueing /\ Taking)'
  BY <1>1, <1>3, <1>4 DEF KInv, TypeOK, Exclusive, Queueing, Taking, Outside, QueueAdvance, Thread
<1>7. Second'
  BY <1>1, <1>3 DEF KInv, Exclusive, Second, Outside, QueueAdvance, delayed, Thread
<1>8. Told'
  BY <1>1, <1>3 DEF KInv, Exclusive, Told, Outside, Between, QueueAdvance, controller, Thread
<1> QED
  BY <1>5, <1>6, <1>7, <1>8 DEF KInv

LEMMA QueueLoadInv ==
  ASSUME ~Overlap, KInv, NEW t \in Thread, QueueLoad(t)
  PROVE  KInv'
<1>1. TypeOK
  BY DEF KInv
<1>3. /\ at' \in [Thread -> Step] /\ at'[t] = "count"
      /\ \A u \in Thread \ {t} : at'[u] = at[u]
  BY <1>1, Went DEF QueueLoad, Step
<1>4. reg' = [reg EXCEPT ![t] = count] /\ reg' \in [Thread -> 0..QueueSize]
  BY <1>1 DEF TypeOK, QueueLoad
<1>5. TypeOK'
  BY <1>1, <1>3, <1>4 DEF TypeOK, QueueLoad, queue, delayed, controller
<1>6. (Exclusive /\ Queueing /\ Taking)'
  BY <1>1, <1>3, <1>4 DEF KInv, TypeOK, Exclusive, Queueing, Taking, Outside, QueueLoad, queue, Thread
<1>7. Second'
  BY <1>1, <1>3 DEF KInv, Exclusive, Second, Outside, QueueLoad, delayed, Thread
<1>8. Told'
  BY <1>1, <1>3 DEF KInv, Exclusive, Told, Outside, Between, QueueLoad, queue, controller, Thread
<1> QED
  BY <1>5, <1>6, <1>7, <1>8 DEF KInv

LEMMA QueueCountInv ==
  ASSUME ~Overlap, KInv, NEW t \in Thread, QueueCount(t)
  PROVE  KInv'
<1>1. TypeOK /\ reg[t] = count /\ count < QueueSize
  BY DEF KInv, Queueing, QueueCount
<1>2. count' = count + 1 /\ count' \in 1..QueueSize
  BY <1>1, SizeAssumption DEF TypeOK, QueueCount
<1>3. /\ at' \in [Thread -> Step] /\ at'[t] = "irq"
      /\ \A u \in Thread \ {t} : at'[u] = at[u]
  BY <1>1, Went DEF QueueCount, Step
<1>4. reg' = [reg EXCEPT ![t] = 0] /\ reg' \in [Thread -> 0..QueueSize]
  BY <1>1, SizeAssumption DEF TypeOK, QueueCount
<1>5. TypeOK'
  BY <1>1, <1>2, <1>3, <1>4 DEF TypeOK, QueueCount, delayed, controller
<1>6. (Exclusive /\ Queueing /\ Taking)'
  BY <1>1, <1>2, <1>3, <1>4 DEF KInv, TypeOK, Exclusive, Queueing, Taking, Outside, QueueCount, Thread
<1>7. Second'
  BY <1>1, <1>3 DEF KInv, Exclusive, Second, Outside, QueueCount, delayed, Thread
<1>8. Told'
  BY <1>1, <1>3 DEF KInv, Told, Between, QueueCount, controller, Thread
<1> QED
  BY <1>5, <1>6, <1>7, <1>8 DEF KInv

LEMMA QueueIrqInv ==
  ASSUME ~Overlap, KInv, NEW t \in Thread, QueueIrq(t)
  PROVE  KInv'
<1>1. TypeOK /\ out[t] \in Seq(Byte) /\ out[t] # << >> /\ ext[t] \in ExtKeys \union {Nothing}
      /\ count > 0
  BY DEF KInv, TypeOK, Queueing, QueueIrq
<1>2. Tail(out[t]) \in Seq(Byte)
  BY <1>1
<1>3. /\ at' \in [Thread -> Step] /\ out' \in [Thread -> Seq(Byte)]
      /\ ext' \in [Thread -> ExtKeys \union {Nothing}]
      /\ at'[t] \in {"put", "arm", "idle"}
      /\ at'[t] = "put" => out'[t] # << >>
      /\ at'[t] = "arm" => ext[t] # Nothing
      /\ ext'[t] = ext[t]
      /\ \A u \in Thread \ {t} : at'[u] = at[u] /\ out'[u] = out[u] /\ ext'[u] = ext[u]
  BY <1>1, <1>2, Went2 DEF QueueIrq
<1>4. /\ Pending("kbd", TRUE) \in SUBSET Device
      /\ "kbd" \in Pending("kbd", TRUE)
      /\ "aux" \in Pending("kbd", TRUE) <=> "aux" \in pending
  BY <1>1, PendingOf DEF TypeOK, Device
<1>5. /\ pending' = Pending("kbd", TRUE) /\ irq' = IrqLines(pending', mode')
      /\ pending' \in SUBSET Device /\ mode' \in SUBSET Bit
      /\ irq' \in SUBSET Line /\ latched' \in SUBSET Line
  BY <1>1, <1>4, Updated DEF QueueIrq, TypeOK, Bit
<1>6. TypeOK'
  BY <1>1, <1>3, <1>5 DEF TypeOK, QueueIrq, queue, delayed, Device, Bit, Line
<1>7. (Exclusive /\ Queueing /\ Taking)'
  BY <1>1, <1>3 DEF KInv, Exclusive, Queueing, Taking, Outside, QueueIrq, queue, Thread
<1>8. Second'
  BY <1>1, <1>3 DEF KInv, Exclusive, Second, Outside, QueueIrq, delayed, Thread
<1>9. Told'
  BY <1>1, <1>4, <1>5 DEF KInv, Told, QueueIrq, queue
<1> QED
  BY <1>6, <1>7, <1>8, <1>9 DEF KInv

-----------------------------------------------------------------------------
(* The second byte of an extended key. *)

LEMMA PutKeycodeInv ==
  ASSUME ~Overlap, KInv, NEW k \in Keys \union ExtKeys, PutKeycode(k)
  PROVE  KInv'
<1>1. TypeOK /\ at["ui"] = "idle" /\ at["emu"] \in Outside /\ "ui" \in Thread
  BY DEF KInv, PutKeycode, Free, Alone, Thread
<1>2. /\ at' \in [Thread -> Step] /\ at'["ui"] = IF delay THEN "flush" ELSE "put"
      /\ at'["emu"] = at["emu"]
  BY <1>1, Went DEF PutKeycode, Step, Thread
<1>3. (IF k \in ExtKeys THEN <<"e0">> ELSE <<k>>) \in Seq(Byte) \ {<< >>}
  BY DEF Byte
<1>4. /\ out' \in [Thread -> Seq(Byte)] /\ out'["ui"] # << >> /\ out'["emu"] = out["emu"]
  BY <1>1, <1>3 DEF TypeOK, PutKeycode, Thread
<1>5. /\ ext' \in [Thread -> ExtKeys \union {Nothing}] /\ ext'["emu"] = ext["emu"]
  BY <1>1 DEF TypeOK, PutKeycode, Thread
<1>6. TypeOK'
  BY <1>1, <1>2, <1>4, <1>5 DEF TypeOK, PutKeycode, queue, delayed, controller
<1>7. (Exclusive /\ Queueing /\ Taking)'
  BY <1>1, <1>2, <1>4 DEF KInv, Exclusive, Queueing, Taking, Outside, PutKeycode, queue, Thread
<1>8. Second'
  BY <1>1, <1>2, <1>5 DEF KInv, Second, Outside, PutKeycode, delayed, Thread
<1>9. Told'
  BY <1>1, <1>2 DEF KInv, Told, Outside, Between, PutKeycode, queue, controller, Thread
<1> QED
  BY <1>6, <1>7, <1>8, <1>9 DEF KInv

LEMMA FlushInv ==
  ASSUME ~Overlap, KInv, NEW t \in Thread, Flush(t)
  PROVE  KInv'
<1>1. TypeOK /\ delay_keycode \in ExtKeys /\ out[t] \in Seq(Byte)
  BY DEF KInv, TypeOK, Second, Flush
<1>2. <<delay_keycode>> \o out[t] \in Seq(Byte) \ {<< >>}
  BY <1>1 DEF Byte
<1>3. /\ at' \in [Thread -> Step] /\ at'[t] = "put"
      /\ \A u \in Thread \ {t} : at'[u] = at[u]
  BY <1>1, Went DEF Flush, Step
<1>4. /\ out' \in [Thread -> Seq(Byte)] /\ out'[t] # << >>
      /\ \A u \in Thread \ {t} : out'[u] = out[u]
  BY <1>1, <1>2 DEF TypeOK, Flush
<1>5. delay' \in BOOLEAN /\ ~delay'
  BY Zenon DEF Flush
<1>6. TypeOK'
  BY <1>1, <1>3, <1>4, <1>5 DEF TypeOK, Flush, queue, controller
<1>7. (Exclusive /\ Queueing /\ Taking)'
  BY <1>1, <1>3, <1>4 DEF KInv, Exclusive, Queueing, Taking, Outside, Flush, queue, Thread
<1>8. Second'
  BY <1>1, <1>3, <1>5 DEF KInv, Second, Flush, Thread
<1>9. Told'
  BY <1>1, <1>3 DEF KInv, Exclusive, Outside, Told, Between, Flush, queue, controller, Thread
<1> QED
  BY <1>6, <1>7, <1>8, <1>9 DEF KInv

LEMMA ArmInv ==
  ASSUME ~Overlap, KInv, Arm
  PROVE  KInv'
<1>1. TypeOK /\ at["ui"] = "arm" /\ at["emu"] \in Outside /\ "ui" \in Thread
  BY DEF KInv, Arm, Exclusive, Outside, Thread
<1>2. /\ at' \in [Thread -> Step] /\ at'["ui"] = "code" /\ at'["emu"] = at["emu"]
  BY <1>1, Went DEF Arm, Step, Thread
<1>3. delay' \in BOOLEAN
  BY Zenon DEF Arm
<1>4. TypeOK'
  BY <1>1, <1>2, <1>3 DEF TypeOK, Arm, queue, controller
<1>5. (Exclusive /\ Queueing /\ Taking)'
  BY <1>1, <1>2 DEF KInv, Exclusive, Queueing, Taking, Outside, Arm, queue, Thread
<1>6. Second'
  BY <1>1, <1>2 DEF KInv, Second, Outside, Arm, Thread
<1>7. Told'
  BY <1>1, <1>2 DEF KInv, Told, Outside, Between, Arm, queue, controller, Thread
<1> QED
  BY <1>4, <1>5, <1>6, <1>7 DEF KInv

LEMMA SetCodeInv ==
  ASSUME ~Overlap, KInv, SetCode
  PROVE  KInv'
<1>1. /\ TypeOK /\ at["ui"] = "code" /\ at["emu"] \in Outside /\ "ui" \in Thread
      /\ ext["ui"] \in ExtKeys
  BY DEF KInv, SetCode, Exclusive, Outside, Second, Thread
<1>2. /\ at' \in [Thread -> Step] /\ at'["ui"] = "idle" /\ at'["emu"] = at["emu"]
  BY <1>1, Went DEF SetCode, Step, Thread
<1>3. delay_keycode' \in ExtKeys
  BY <1>1 DEF SetCode
<1>4. ext' \in [Thread -> ExtKeys \union {Nothing}] /\ ext'["emu"] = ext["emu"]
  BY <1>1 DEF TypeOK, SetCode, Thread
<1>5. TypeOK'
  BY <1>1, <1>2, <1>3, <1>4 DEF TypeOK, SetCode, queue, controller
<1>6. (Exclusive /\ Queueing /\ Taking)'
  BY <1>1, <1>2 DEF KInv, Exclusive, Queueing, Taking, Outside, SetCode, queue, Thread
<1>7. Second'
  BY <1>1, <1>2, <1>3, <1>4 DEF KInv, Second, Outside, Thread
<1>8. Told'
  BY <1>1, <1>2 DEF KInv, Told, Outside, Between, SetCode, queue, controller, Thread
<1> QED
  BY <1>5, <1>6, <1>7, <1>8 DEF KInv

LEMMA KbdStepInv ==
  ASSUME ~Overlap, KInv, KbdStep
  PROVE  KInv'
<1>1. /\ TypeOK /\ at["emu"] = "idle" /\ at["ui"] \in Outside /\ "emu" \in Thread
      /\ delay_keycode \in ExtKeys
  BY DEF KInv, KbdStep, Free, Alone, Outside, Second, Thread
<1>2. /\ at' \in [Thread -> Step] /\ at'["emu"] = "flush" /\ at'["ui"] = at["ui"]
  BY <1>1, Went DEF KbdStep, Step, Thread
<1>3. TypeOK'
  BY <1>1, <1>2 DEF TypeOK, KbdStep, queue, delayed, controller
<1>4. (Exclusive /\ Queueing /\ Taking)'
  BY <1>1, <1>2 DEF KInv, Exclusive, Queueing, Taking, Outside, KbdStep, queue, Thread
<1>5. Second'
  BY <1>1, <1>2 DEF KInv, Second, Outside, KbdStep, delayed, Thread
<1>6. Told'
  BY <1>1, <1>2 DEF KInv, Told, Outside, Between, KbdStep, queue, controller, Thread
<1> QED
  BY <1>3, <1>4, <1>5, <1>6 DEF KInv

-----------------------------------------------------------------------------
(* Reading port 60h. *)

(* At the start of a read, and of a write, nothing is under way. *)
LEMMA Settled ==
  ASSUME ~Overlap, KInv, at["emu"] \in Outside, Alone("emu")
  PROVE  /\ TypeOK /\ at["ui"] \in Outside /\ "emu" \in Thread
         /\ ("kbd" \in pending) <=> (count > 0)
         /\ ("aux" \in pending) <=> (aux > 0)
         /\ irq = IrqLines(pending, mode)
BY DEF KInv, Alone, Told, Outside, Between, Thread

LEMMA InterruptInv ==
  ASSUME ~Overlap, KInv, NEW i \in Line, Interrupt(i)
  PROVE  KInv'
<1>1. TypeOK /\ at["emu"] = "idle" /\ at["ui"] \in Outside /\ "emu" \in Thread
  BY Settled DEF Interrupt, Free, Outside
<1>2. /\ at' \in [Thread -> Step] /\ at'["emu"] = "handler" /\ at'["ui"] = at["ui"]
  BY <1>1, Went DEF Interrupt, Step, Thread
<1>3. TypeOK'
  BY <1>1, <1>2 DEF TypeOK, Interrupt, queue, delayed
<1>4. (Exclusive /\ Queueing /\ Taking)'
  BY <1>1, <1>2 DEF KInv, Exclusive, Queueing, Taking, Outside, Interrupt, queue, Thread
<1>5. Second'
  BY <1>1, <1>2 DEF KInv, Second, Outside, Interrupt, delayed, Thread
<1>6. Told'
  BY <1>1, <1>2 DEF KInv, Told, Outside, Between, Interrupt, queue, Thread
<1> QED
  BY <1>3, <1>4, <1>5, <1>6 DEF KInv

LEMMA ReadAuxInv ==
  ASSUME ~Overlap, KInv, ReadAux
  PROVE  KInv'
<1>1. /\ TypeOK /\ at["emu"] \in Outside /\ at["ui"] \in Outside /\ "emu" \in Thread
      /\ ("kbd" \in pending) <=> (count > 0)
      /\ pending = {"aux"} /\ aux > 0
  BY Settled DEF ReadAux, Reading
<1>2. /\ at' \in [Thread -> Step] /\ at'["emu"] = "idle" /\ at'["ui"] = at["ui"]
  BY <1>1, Went DEF ReadAux, Step, Thread
<1>3. aux' = aux - 1 /\ aux' \in 0..QueueSize /\ (aux > 1 <=> aux' > 0)
  BY <1>1, SizeAssumption DEF TypeOK, ReadAux
<1>4. /\ Pending("aux", aux > 1) \in SUBSET Device
      /\ "aux" \in Pending("aux", aux > 1) <=> aux > 1
      /\ "kbd" \in Pending("aux", aux > 1) <=> "kbd" \in pending
  <2>1. (aux > 1) \in BOOLEAN /\ pending \in SUBSET Device
    BY <1>1 DEF TypeOK, Device
  <2> QED
    BY <2>1, PendingOf DEF Device
<1>5. /\ pending' = Pending("aux", aux > 1) /\ mode' = mode
      /\ irq' = IrqLines(pending', mode') /\ irq' \in SUBSET Line /\ latched' \in SUBSET Line
  <2>1. IrqLines({}, mode) \in SUBSET Line /\ IrqLines(Pending("aux", aux > 1), mode) \in SUBSET Line
    BY IrqLinesType
  <2> QED
    BY <1>1, <2>1 DEF ReadAux, UpdateIrqTwice, TypeOK, Line
<1>6. TypeOK'
  BY <1>1, <1>2, <1>3, <1>4, <1>5 DEF TypeOK, ReadAux, queue, delayed, Device, Line
<1>7. (Exclusive /\ Queueing /\ Taking)'
  BY <1>1, <1>2 DEF KInv, Exclusive, Queueing, Taking, Outside, ReadAux, queue, Thread
<1>8. Second'
  BY <1>1, <1>2 DEF KInv, Second, Outside, ReadAux, delayed, Thread
<1>9. Told'
  BY <1>1, <1>3, <1>4, <1>5 DEF Told, ReadAux, queue
<1> QED
  BY <1>6, <1>7, <1>8, <1>9 DEF KInv

LEMMA ReadAgainInv ==
  ASSUME ~Overlap, KInv, ReadAgain
  PROVE  KInv'
<1>1. /\ TypeOK /\ at["emu"] \in Outside /\ at["ui"] \in Outside /\ "emu" \in Thread
      /\ ("kbd" \in pending) <=> (count > 0)
  BY Settled DEF ReadAgain, Reading
<1>2. /\ at' \in [Thread -> Step] /\ at'["emu"] = "idle" /\ at'["ui"] = at["ui"]
  BY <1>1, Went DEF ReadAgain, Step, Thread
<1>3. TypeOK'
  BY <1>1, <1>2 DEF TypeOK, ReadAgain, queue, delayed, controller
<1>4. (Exclusive /\ Queueing /\ Taking)'
  BY <1>1, <1>2 DEF KInv, Exclusive, Queueing, Taking, Outside, ReadAgain, queue, Thread
<1>5. Second'
  BY <1>1, <1>2 DEF KInv, Second, Outside, ReadAgain, delayed, Thread
<1>6. Told'
  BY <1>1 DEF KInv, Told, ReadAgain, queue, controller
<1> QED
  BY <1>3, <1>4, <1>5, <1>6 DEF KInv

LEMMA ReadTakeInv ==
  ASSUME ~Overlap, KInv, ReadTake
  PROVE  KInv'
<1>1. /\ TypeOK /\ at["emu"] \in Outside /\ at["ui"] \in Outside /\ "emu" \in Thread
      /\ count > 0
  BY Settled DEF ReadTake, Reading, TypeOK
<1>2. /\ at' \in [Thread -> Step] /\ at'["emu"] = "taken" /\ at'["ui"] = at["ui"]
  BY <1>1, Went DEF ReadTake, Step, Thread
<1>3. rptr' \in Slot
  BY <1>1, SizeAssumption DEF TypeOK, ReadTake, Slot
<1>4. reg' \in [Thread -> 0..QueueSize] /\ reg'["emu"] = count
  BY <1>1 DEF TypeOK, ReadTake
<1>5. TypeOK'
  BY <1>1, <1>2, <1>3, <1>4 DEF TypeOK, ReadTake, delayed, controller
<1>6. (Exclusive /\ Queueing /\ Taking)'
  BY <1>1, <1>2, <1>4 DEF KInv, Exclusive, Queueing, Taking, Outside, ReadTake, Thread
<1>7. Second'
  BY <1>1, <1>2 DEF KInv, Second, Outside, ReadTake, delayed, Thread
<1>8. Told'
  BY <1>1, <1>2 DEF KInv, Told, Between, ReadTake, controller, Thread
<1> QED
  BY <1>5, <1>6, <1>7, <1>8 DEF KInv

LEMMA ReadCountInv ==
  ASSUME ~Overlap, KInv, ReadCount
  PROVE  KInv'
<1>1. /\ TypeOK /\ at["emu"] = "taken" /\ at["ui"] \in Outside /\ "emu" \in Thread
      /\ count > 0 /\ reg["emu"] = count
  BY DEF KInv, ReadCount, Exclusive, Taking, Outside, Thread
<1>2. /\ at' \in [Thread -> Step] /\ at'["emu"] = "deassert" /\ at'["ui"] = at["ui"]
  BY <1>1, Went DEF ReadCount, Step, Thread
<1>3. count' \in 0..QueueSize
  BY <1>1, SizeAssumption DEF TypeOK, ReadCount
<1>4. reg' \in [Thread -> 0..QueueSize]
  BY <1>1, SizeAssumption DEF TypeOK, ReadCount
<1>5. TypeOK'
  BY <1>1, <1>2, <1>3, <1>4 DEF TypeOK, ReadCount, delayed, controller
<1>6. (Exclusive /\ Queueing /\ Taking)'
  BY <1>1, <1>2 DEF Exclusive, Queueing, Taking, Outside, ReadCount, Thread
<1>7. Second'
  BY <1>1, <1>2 DEF KInv, Second, Outside, ReadCount, delayed, Thread
<1>8. Told'
  BY <1>1, <1>2 DEF KInv, Told, Between, ReadCount, controller, Thread
<1> QED
  BY <1>5, <1>6, <1>7, <1>8 DEF KInv

LEMMA DeassertInv ==
  ASSUME ~Overlap, KInv, Deassert
  PROVE  KInv'
<1>1. TypeOK /\ at["emu"] = "deassert" /\ at["ui"] \in Outside /\ "emu" \in Thread
  BY DEF KInv, Deassert, Exclusive, Outside, Thread
<1>2. /\ at' \in [Thread -> Step] /\ at'["emu"] = "left" /\ at'["ui"] = at["ui"]
  BY <1>1, Went DEF Deassert, Step, Thread
<1>3. /\ Pending("kbd", FALSE) \in SUBSET Device
      /\ "aux" \in Pending("kbd", FALSE) <=> "aux" \in pending
  BY <1>1, PendingOf DEF TypeOK, Device
<1>4. /\ pending' = Pending("kbd", FALSE)
      /\ irq' = IrqLines(pending', mode')
      /\ pending' \in SUBSET Device /\ mode' \in SUBSET Bit
      /\ irq' \in SUBSET Line /\ latched' \in SUBSET Line
  BY <1>1, <1>3, Updated DEF Deassert, TypeOK, Bit
<1>5. TypeOK'
  BY <1>1, <1>2, <1>4 DEF TypeOK, Deassert, queue, delayed, Device, Bit, Line
<1>6. (Exclusive /\ Queueing /\ Taking)'
  BY <1>1, <1>2 DEF Exclusive, Queueing, Taking, Outside, Deassert, Thread
<1>7. Second'
  BY <1>1, <1>2 DEF KInv, Second, Outside, Deassert, delayed, Thread
<1>8. Told'
  BY <1>1, <1>2, <1>3, <1>4 DEF KInv, Told, Between, Deassert, Thread
<1> QED
  BY <1>5, <1>6, <1>7, <1>8 DEF KInv

LEMMA DataLeftInv ==
  ASSUME ~Overlap, KInv, DataLeft
  PROVE  KInv'
<1>1. TypeOK /\ at["emu"] = "left" /\ at["ui"] \in Outside /\ "emu" \in Thread
  BY DEF KInv, DataLeft, Exclusive, Outside, Thread
<1>2. /\ at' \in [Thread -> Step] /\ at'["emu"] = "reassert" /\ at'["ui"] = at["ui"]
  BY <1>1, Went DEF DataLeft, Step, Thread
<1>3. reg' \in [Thread -> 0..QueueSize] /\ reg'["emu"] = count
  BY <1>1 DEF TypeOK, DataLeft
<1>4. TypeOK'
  BY <1>1, <1>2, <1>3 DEF TypeOK, DataLeft, queue, delayed, controller
<1>5. (Exclusive /\ Queueing /\ Taking)'
  BY <1>1, <1>2, <1>3 DEF Exclusive, Queueing, Taking, Outside, DataLeft, queue, Thread
<1>6. Second'
  BY <1>1, <1>2 DEF KInv, Second, Outside, DataLeft, delayed, Thread
<1>7. Told'
  BY <1>1, <1>2 DEF KInv, Told, Between, DataLeft, controller, Thread
<1> QED
  BY <1>4, <1>5, <1>6, <1>7 DEF KInv

LEMMA ReassertInv ==
  ASSUME ~Overlap, KInv, Reassert
  PROVE  KInv'
<1>1. /\ TypeOK /\ at["emu"] = "reassert" /\ at["ui"] \in Outside /\ "emu" \in Thread
      /\ reg["emu"] = count
  BY DEF KInv, Reassert, Exclusive, Outside, Taking, Thread
<1>2. /\ at' \in [Thread -> Step] /\ at'["emu"] = "idle" /\ at'["ui"] = at["ui"]
  BY <1>1, Went DEF Reassert, Step, Thread
<1>3. /\ Pending("kbd", reg["emu"] # 0) \in SUBSET Device
      /\ "kbd" \in Pending("kbd", reg["emu"] # 0) <=> reg["emu"] # 0
      /\ "aux" \in Pending("kbd", reg["emu"] # 0) <=> "aux" \in pending
  BY <1>1, PendingOf DEF TypeOK, Device
<1>4. /\ pending' = Pending("kbd", reg["emu"] # 0)
      /\ irq' = IrqLines(pending', mode')
      /\ pending' \in SUBSET Device /\ mode' \in SUBSET Bit
      /\ irq' \in SUBSET Line /\ latched' \in SUBSET Line
  BY <1>1, <1>3, Updated DEF Reassert, TypeOK, Bit
<1>5. reg' \in [Thread -> 0..QueueSize]
  BY <1>1, SizeAssumption DEF TypeOK, Reassert
<1>6. TypeOK'
  BY <1>1, <1>2, <1>4, <1>5 DEF TypeOK, Reassert, queue, delayed, Device, Bit, Line
<1>7. (Exclusive /\ Queueing /\ Taking)'
  BY <1>1, <1>2 DEF Exclusive, Queueing, Taking, Outside, Reassert, Thread
<1>8. Second'
  BY <1>1, <1>2 DEF KInv, Second, Outside, Reassert, delayed, Thread
<1>9. Told'
  <2>1. count' = count /\ aux' = aux /\ (count > 0 <=> reg["emu"] # 0)
    BY <1>1 DEF Reassert, queue, TypeOK
  <2> QED
    BY <1>3, <1>4, <2>1 DEF KInv, Told
<1> QED
  BY <1>6, <1>7, <1>8, <1>9 DEF KInv

-----------------------------------------------------------------------------
(* The guest's writes.  None but a reply changes a thread's step, the      *)
(* queue or the second byte; they are summed up first.                     *)

(* What a write that the emulation thread finishes at once must show. *)
LEMMA Controlled ==
  ASSUME ~Overlap, KInv, Free("emu"),
         UNCHANGED <<queue, delayed, thread>>,
         aux' \in 0..QueueSize,
         write_cmd' \in {Nothing, "mode", "obuf", "mouse"},
         mode' \in SUBSET Bit, pending' \in SUBSET Device,
         irq' \in SUBSET Line, latched' \in SUBSET Line,
         ("kbd" \in pending') <=> ("kbd" \in pending),
         ("aux" \in pending') <=> (aux' > 0),
         irq' = IrqLines(pending', mode')
  PROVE  KInv'
<1>1. TypeOK'
  BY DEF KInv, TypeOK, queue, delayed, thread, Bit, Device, Line
<1>2. (Exclusive /\ Queueing /\ Taking /\ Second)'
  BY DEF KInv, Exclusive, Queueing, Taking, Second, queue, delayed, thread
<1>3. Told'
  BY DEF KInv, Told, queue, thread
<1> QED
  BY <1>1, <1>2, <1>3 DEF KInv

LEMMA ReplyInv ==
  ASSUME ~Overlap, KInv, Free("emu"), NEW bytes \in Seq(Byte) \ {<< >>},
         out' = [out EXCEPT !["emu"] = bytes], Go("emu", "put"),
         write_cmd' \in {Nothing, "mode", "obuf", "mouse"},
         UNCHANGED <<queue, aux, delayed, mode, pending, irq, latched, ext, reg>>
  PROVE  KInv'
<1>1. TypeOK /\ at["emu"] = "idle" /\ at["ui"] \in Outside /\ "emu" \in Thread
  BY Settled DEF Free, Outside
<1>2. /\ at' \in [Thread -> Step] /\ at'["emu"] = "put" /\ at'["ui"] = at["ui"]
  BY <1>1, Went DEF Step, Thread
<1>3. /\ out' \in [Thread -> Seq(Byte)] /\ out'["emu"] # << >> /\ out'["ui"] = out["ui"]
  BY <1>1 DEF TypeOK, Thread
<1>4. TypeOK'
  BY <1>1, <1>2, <1>3 DEF TypeOK, queue, delayed
<1>5. (Exclusive /\ Queueing /\ Taking)'
  BY <1>1, <1>2, <1>3 DEF KInv, Exclusive, Queueing, Taking, Outside, queue, Thread
<1>6. Second'
  BY <1>1, <1>2 DEF KInv, Second, Outside, delayed, Thread
<1>7. Told'
  BY <1>1, <1>2 DEF KInv, Told, Outside, Between, queue, Thread
<1> QED
  BY <1>4, <1>5, <1>6, <1>7 DEF KInv

LEMMA Replies ==
  ASSUME ~Overlap, KInv, Free("emu"), NEW n \in Nat \ {0}, Reply(n)
  PROVE  KInv'
<1>1. [i \in 1..n |-> "reply"] \in Seq(Byte) /\ [i \in 1..n |-> "reply"] # << >>
  BY DEF Byte
<1>2. write_cmd' \in {Nothing, "mode", "obuf", "mouse"}
  BY DEF KInv, TypeOK, Reply, controller
<1> QED
  BY <1>1, <1>2, ReplyInv DEF Reply, controller

(* The mouse's bytes are announced as they are queued. *)
LEMMA AuxQueued ==
  ASSUME ~Overlap, KInv, Free("emu"), NEW n \in Nat \ {0}, QueueAux(n)
  PROVE  /\ aux' \in 0..QueueSize /\ mode' \in SUBSET Bit /\ pending' \in SUBSET Device
         /\ irq' \in SUBSET Line /\ latched' \in SUBSET Line
         /\ ("kbd" \in pending') <=> ("kbd" \in pending)
         /\ ("aux" \in pending') <=> (aux' > 0)
         /\ irq' = IrqLines(pending', mode')
<1>1. TypeOK /\ (("aux" \in pending) <=> (aux > 0)) /\ irq = IrqLines(pending, mode)
  BY Settled DEF Free, Outside
<1>2. aux' \in 0..QueueSize /\ aux' > 0
  BY <1>1, SizeAssumption DEF TypeOK, QueueAux
<1>3. CASE aux < QueueSize
  <2>1. UpdateIrq(Pending("aux", TRUE), mode)
    BY <1>3 DEF QueueAux
  <2>2. /\ Pending("aux", TRUE) \in SUBSET Device
        /\ "aux" \in Pending("aux", TRUE)
        /\ "kbd" \in Pending("aux", TRUE) <=> "kbd" \in pending
    BY <1>1, PendingOf DEF TypeOK, Device
  <2>3. mode \in SUBSET Bit
    BY <1>1 DEF TypeOK, Bit
  <2> QED
    BY <1>1, <1>2, <2>1, <2>2, <2>3, Updated
<1>4. CASE ~(aux < QueueSize)
  <2>1. aux = QueueSize /\ aux > 0 /\ UNCHANGED <<pending, mode, irq, latched>>
    BY <1>1, <1>4, SizeAssumption DEF TypeOK, QueueAux
  <2> QED
    BY <1>1, <1>2, <2>1 DEF TypeOK, Device, Bit, Line
<1> QED
  BY <1>3, <1>4

LEMMA WriteCommandInv ==
  ASSUME ~Overlap, KInv, WriteCommand
  PROVE  KInv'
<1>1. CASE CommandReply
  BY <1>1, Replies DEF CommandReply
<1>2. CASE ReadMode
  <2>1. write_cmd' \in {Nothing, "mode", "obuf", "mouse"}
    BY <1>2 DEF ReadMode, KInv, TypeOK
  <2> QED
    BY <1>2, <2>1, AuxQueued, Controlled DEF ReadMode
<1>3. CASE ExpectByte
  <2>1. TypeOK /\ (("aux" \in pending) <=> (aux > 0)) /\ irq = IrqLines(pending, mode)
    BY <1>3, Settled DEF ExpectByte, Free, Outside
  <2> QED
    BY <1>3, <2>1, Controlled DEF ExpectByte, TypeOK, Bit, Device, Line
<1>4. CASE \E on \in BOOLEAN : KbdInterface(on)
  <2> PICK on \in BOOLEAN : KbdInterface(on)
    BY <1>4
  <2> DEFINE m == IF on THEN mode \ {"kbd_disabled"} ELSE mode \union {"kbd_disabled"}
  <2>1. TypeOK /\ (("aux" \in pending) <=> (aux > 0))
    BY Settled DEF KbdInterface, Free, Outside
  <2>2. m \in SUBSET Bit /\ pending \in SUBSET Device
    BY <2>1 DEF TypeOK, Bit, Device
  <2>3. UpdateIrq(pending, m)
    BY DEF KbdInterface
  <2> HIDE DEF m
  <2>4. /\ pending' = pending /\ mode' \in SUBSET Bit
        /\ irq' \in SUBSET Line /\ latched' \in SUBSET Line /\ irq' = IrqLines(pending', mode')
    BY <2>1, <2>2, <2>3, Updated
  <2> QED
    BY <2>1, <2>2, <2>4, Controlled DEF KbdInterface, TypeOK
<1> QED
  BY <1>1, <1>2, <1>3, <1>4 DEF WriteCommand

LEMMA GuestWriteInv ==
  ASSUME ~Overlap, KInv, GuestWrite
  PROVE  KInv'
<1>1. CASE WriteCommand
  BY <1>1, WriteCommandInv
<1>2. CASE WriteKeyboard
  <2>1. PICK n \in 1..3 : Reply(n)
    BY <1>2 DEF WriteKeyboard
  <2> QED
    BY <1>2, <2>1, Replies DEF WriteKeyboard
<1>3. CASE WriteMode
  <2>1. TypeOK /\ (("aux" \in pending) <=> (aux > 0))
    BY <1>3, Settled DEF WriteMode, Free, Outside
  <2>2. PICK m \in Modes : UpdateIrq(pending, m)
    BY <1>3 DEF WriteMode
  <2>3. m \in SUBSET Bit /\ pending \in SUBSET Device
    BY <2>1, ModeAssumption DEF TypeOK, Bit, Device
  <2>4. /\ pending' = pending /\ mode' \in SUBSET Bit
        /\ irq' \in SUBSET Line /\ latched' \in SUBSET Line /\ irq' = IrqLines(pending', mode')
    BY <2>1, <2>2, <2>3, Updated
  <2> QED
    BY <1>3, <2>1, <2>3, <2>4, Controlled DEF WriteMode, TypeOK
<1>4. CASE WriteObuf
  <2>1. <<"reply">> \in Seq(Byte) \ {<< >>}
    BY DEF Byte
  <2> QED
    BY <1>4, <2>1, ReplyInv DEF WriteObuf
<1>5. CASE WriteMouse
  <2>1. TypeOK /\ (("aux" \in pending) <=> (aux > 0)) /\ irq = IrqLines(pending, mode)
    BY <1>5, Settled DEF WriteMouse, Free, Outside
  <2>2. CASE UNCHANGED <<aux, mode, pending, irq, latched>>
    BY <1>5, <2>1, <2>2, Controlled DEF WriteMouse, TypeOK, Bit, Device, Line
  <2>3. CASE \E n \in 1..4 : QueueAux(n)
    <3> PICK n \in 1..4 : QueueAux(n)
      BY <2>3
    <3> QED
      BY <1>5, AuxQueued, Controlled DEF WriteMouse
  <2> QED
    BY <1>5, <2>2, <2>3 DEF WriteMouse
<1> QED
  BY <1>1, <1>2, <1>3, <1>4, <1>5 DEF GuestWrite

-----------------------------------------------------------------------------
LEMMA Nexts == ~Overlap /\ KInv /\ [Next]_vars => KInv'
<1> SUFFICES ASSUME ~Overlap, KInv, [Next]_vars PROVE KInv'
  OBVIOUS
<1>1. CASE \E k \in Keys \union ExtKeys : PutKeycode(k)
  BY <1>1, PutKeycodeInv
<1>2. CASE Arm \/ SetCode \/ KbdStep
  BY <1>2, ArmInv, SetCodeInv, KbdStepInv
<1>3. CASE GuestRead \/ ReadSteps
  BY <1>3, ReadAuxInv, ReadAgainInv, ReadTakeInv, ReadCountInv, DeassertInv, DataLeftInv,
     ReassertInv DEF GuestRead, ReadSteps
<1>4. CASE GuestWrite
  BY <1>4, GuestWriteInv
<1>5. CASE \E i \in {1, 12} : Interrupt(i)
  BY <1>5, InterruptInv DEF Line
<1>6. CASE \E t \in Thread : Steps(t)
  BY <1>6, QueueFullInv, QueuePutInv, QueueAdvanceInv, QueueLoadInv, QueueCountInv,
     QueueIrqInv, FlushInv DEF Steps, QueueSteps
<1>7. CASE UNCHANGED vars
  BY <1>7 DEF KInv, TypeOK, Exclusive, Queueing, Taking, Second, Told, vars, queue, delayed,
     controller, thread
<1> QED
  BY <1>1, <1>2, <1>3, <1>4, <1>5, <1>6, <1>7 DEF Next

LEMMA Invariance == ~Overlap => (Spec => []KInv)
<1> SUFFICES ASSUME ~Overlap PROVE Spec => []KInv
  OBVIOUS
<1>1. Init => KInv
  BY Inits
<1>2. KInv /\ [Next]_vars => KInv'
  BY Nexts
<1> QED
  BY <1>1, <1>2, PTL DEF Spec

(* If the two threads never meet inside i8042.c, the ring's pointers, its  *)
(* count and the controller's state have their types at every step, so     *)
(* ps2_queue never writes outside the ring.                                *)
THEOREM ApartTyped == ~Overlap => (Spec => []TypeOK)
<1> SUFFICES ASSUME ~Overlap PROVE Spec => []TypeOK
  OBVIOUS
<1>1. KInv => TypeOK
  BY DEF KInv
<1> QED
  BY <1>1, Invariance, PTL

(* Under the same assumption, whatever the guest and the user do, no call  *)
(* ends with a byte queued and the guest not told of it.                   *)
THEOREM ApartTold == ~Overlap => (Spec => []PendingIsQueue)
<1> SUFFICES ASSUME ~Overlap PROVE Spec => []PendingIsQueue
  OBVIOUS
<1>1. KInv => PendingIsQueue
  BY DEF KInv, Told, PendingIsQueue, Resting, Outside, Between
<1> QED
  BY <1>1, Invariance, PTL

-----------------------------------------------------------------------------
(* The refinement of the bounded queue.  The write pointer is where the    *)
(* next byte goes: behind the bytes held, and one further from the moment  *)
(* ps2_queue has moved it to the moment it has counted the byte.           *)
Ahead == IF \E t \in Thread : at[t] \in {"load", "count"} THEN 1 ELSE 0

Ring ==
  /\ wptr = Wrapped(rptr + Held + Ahead)
  /\ \A t \in Thread : at[t] = "advance" => reg[t] = wptr

LEMMA WrappedSlot ==
  ASSUME NEW r \in Slot, NEW n \in 0..QueueSize
  PROVE  Wrapped(r + n) \in Slot
BY SizeAssumption DEF Wrapped, Slot

(* Moving a pointer on by one slot, as the code writes it.                 *)
LEMMA WrappedNext ==
  ASSUME NEW r \in Slot, NEW n \in 0..QueueSize - 1
  PROVE  /\ (IF Wrapped(r + n) + 1 = QueueSize THEN 0 ELSE Wrapped(r + n) + 1)
              = Wrapped(r + n + 1)
         /\ Wrapped((IF r + 1 = QueueSize THEN 0 ELSE r + 1) + n) = Wrapped(r + 1 + n)
BY SizeAssumption DEF Wrapped, Slot

(* Two places of the ring less than its size apart are two slots.          *)
LEMMA WrappedApart ==
  ASSUME NEW r \in Slot, NEW n \in 0..QueueSize - 1, NEW i \in 0..n - 1
  PROVE  Wrapped(r + i) # Wrapped(r + n)
BY SizeAssumption DEF Wrapped, Slot

LEMMA HeldType ==
  ASSUME KInv
  PROVE  Held \in 0..QueueSize /\ (at["emu"] = "taken" => Held < QueueSize)
BY SizeAssumption DEF KInv, TypeOK, Taking, Held

QueueStep == [Fifo!Enter \/ Fifo!Leave]_Contents

(* A step that leaves the queue alone and neither begins nor ends the part *)
(* of a call in which count and pointers disagree.                         *)
LEMMA RingQuiet ==
  ASSUME KInv, Ring, UNCHANGED queue, NEW t \in Thread,
         \A u \in Thread \ {t} : at'[u] = at[u] /\ reg'[u] = reg[u],
         at'[t] # "advance",
         at[t] = "taken" <=> at'[t] = "taken",
         at[t] \in {"load", "count"} <=> at'[t] \in {"load", "count"}
  PROVE  Ring' /\ QueueStep
<1>1. Ahead' = Ahead
  <2>1. \A u \in Thread : at[u] \in {"load", "count"} <=> at'[u] \in {"load", "count"}
    OBVIOUS
  <2> QED
    BY <2>1 DEF Ahead
<1>2. Held' = Held
  BY DEF Held, queue, Thread
<1>3. Ring'
  BY <1>1, <1>2 DEF Ring, queue, Wrapped
<1>4. Contents' = Contents
  BY <1>2 DEF Contents, queue, Wrapped
<1> QED
  BY <1>3, <1>4 DEF QueueStep

(* The byte is written in the free slot.                                   *)
LEMMA RingPut ==
  ASSUME ~Overlap, KInv, Ring, NEW t \in Thread, QueuePut(t)
  PROVE  Ring' /\ QueueStep
<1>1. /\ at[t] = "put" /\ \A u \in Thread \ {t} : at[u] \in Outside
      /\ rptr \in Slot /\ count \in 0..QueueSize - 1 /\ DOMAIN data = Slot
  <2>1. at[t] = "put" /\ \A u \in Thread \ {t} : at[u] \in Outside
    BY DEF KInv, Exclusive, QueuePut, Outside, Thread
  <2>2. rptr \in Slot /\ count \in 0..QueueSize - 1 /\ DOMAIN data = Slot
    BY SizeAssumption DEF KInv, TypeOK, QueuePut
  <2> QED
    BY <2>1, <2>2
<1>2. /\ at'[t] = "advance" /\ \A u \in Thread \ {t} : at'[u] = at[u]
      /\ reg'[t] = wptr
  BY Went DEF KInv, TypeOK, QueuePut, Step
<1>3. Held = count /\ Held' = count /\ Ahead = 0 /\ Ahead' = 0
  BY <1>1, <1>2 DEF Held, Ahead, Outside, QueuePut, Thread
<1>4. Ring'
  <2>1. rptr' = rptr /\ wptr' = wptr
    BY DEF QueuePut
  <2>2. \A u \in Thread : at'[u] = "advance" => u = t
    BY <1>1, <1>2 DEF Outside
  <2> QED
    BY <1>2, <1>3, <2>1, <2>2 DEF Ring, Wrapped
<1>5. wptr = Wrapped(rptr + count)
  BY <1>1, <1>3 DEF Ring, Slot
<1>6. \A i \in 1..count : Wrapped(rptr + i - 1) # wptr
  <2> TAKE i \in 1..count
  <2>1. i - 1 \in 0..count - 1 /\ rptr + i - 1 = rptr + (i - 1)
    BY <1>1, SizeAssumption DEF Slot
  <2> QED
    BY <1>1, <1>5, <2>1, WrappedApart
<1>7. \A i \in 1..count : data'[Wrapped(rptr + i - 1)] = data[Wrapped(rptr + i - 1)]
  BY <1>6 DEF QueuePut, KInv, TypeOK
<1>8. Contents' = Contents
  <2>1. rptr' = rptr
    BY DEF QueuePut
  <2> QED
    BY <1>3, <1>7, <2>1 DEF Contents, Wrapped
<1> QED
  BY <1>4, <1>8 DEF QueueStep

LEMMA RingAdvance ==
  ASSUME ~Overlap, KInv, Ring, NEW t \in Thread, QueueAdvance(t)
  PROVE  Ring' /\ QueueStep
<1>1. /\ at[t] = "advance" /\ \A u \in Thread \ {t} : at[u] \in Outside
      /\ rptr \in Slot /\ count \in 0..QueueSize - 1 /\ reg[t] = wptr
  <2>1. at[t] = "advance" /\ \A u \in Thread \ {t} : at[u] \in Outside
    BY DEF KInv, Exclusive, QueueAdvance, Outside, Thread
  <2>2. rptr \in Slot /\ count \in 0..QueueSize - 1 /\ reg[t] = wptr
    BY <2>1, SizeAssumption DEF KInv, TypeOK, Queueing, Ring
  <2> QED
    BY <2>1, <2>2
<1>2. at'[t] = "load" /\ \A u \in Thread \ {t} : at'[u] = at[u]
  BY Went DEF KInv, QueueAdvance, Step
<1>3. Held = count /\ Held' = count /\ Ahead = 0 /\ Ahead' = 1
  BY <1>1, <1>2 DEF Held, Ahead, Outside, QueueAdvance, Thread
<1>4. wptr = Wrapped(rptr + count)
  BY <1>1, <1>3 DEF Ring, Slot
<1>5. wptr' = Wrapped(rptr + count + 1) /\ rptr' = rptr /\ data' = data
  BY <1>1, <1>4, WrappedNext DEF QueueAdvance
<1>6. Ring'
  BY <1>1, <1>2, <1>3, <1>5 DEF Ring, Wrapped, Outside
<1>7. Contents' = Contents
  BY <1>3, <1>5 DEF Contents, Wrapped
<1> QED
  BY <1>6, <1>7 DEF QueueStep

(* Counting the byte makes it part of the queue.                           *)
LEMMA RingCount ==
  ASSUME ~Overlap, KInv, Ring, NEW t \in Thread, QueueCount(t)
  PROVE  Ring' /\ QueueStep
<1>1. at[t] = "count" /\ \A u \in Thread \ {t} : at[u] \in Outside
  BY DEF KInv, Exclusive, QueueCount, Outside, Thread
<1>2. /\ rptr \in Slot /\ count \in 0..QueueSize - 1 /\ reg[t] = count
      /\ data \in [Slot -> Byte]
  BY <1>1, SizeAssumption DEF KInv, TypeOK, Queueing
<1>3. at'[t] = "irq" /\ \A u \in Thread \ {t} : at'[u] = at[u]
  BY Went DEF KInv, QueueCount, Step
<1>4. /\ count' = count + 1 /\ rptr' = rptr /\ wptr' = wptr /\ data' = data
  BY <1>2 DEF QueueCount
<1>5. Held = count /\ Held' = count + 1 /\ Ahead = 1 /\ Ahead' = 0
  BY <1>1, <1>3, <1>4 DEF Held, Ahead, Outside, Thread
<1>6. Ring'
  BY <1>1, <1>2, <1>3, <1>4, <1>5 DEF Ring, Wrapped, Outside, Slot
<1> DEFINE q == Contents
           b == data[Wrapped(rptr + count)]
<1>7. b \in Byte
  <2>1. count \in 0..QueueSize
    BY <1>2, SizeAssumption
  <2> QED
    BY <1>2, <2>1, WrappedSlot
<1>8. q \in Seq(Byte) /\ Len(q) = count
  <2>1. q = [i \in 1..count |-> data[Wrapped(rptr + i - 1)]]
    BY <1>5 DEF Contents
  <2>2. \A i \in 1..count : data[Wrapped(rptr + i - 1)] \in Byte
    <3> TAKE i \in 1..count
    <3>1. i - 1 \in 0..QueueSize /\ rptr + i - 1 = rptr + (i - 1)
      BY <1>2, SizeAssumption DEF Slot
    <3> QED
      BY <1>2, <3>1, WrappedSlot
  <2>3. count \in Nat
    BY <1>2
  <2> QED
    BY <2>1, <2>2, <2>3
<1>9. Contents' = [i \in 1..count + 1 |-> data[Wrapped(rptr + i - 1)]]
  BY <1>4, <1>5 DEF Contents, Wrapped
<1>10. Append(q, b) = [i \in 1..count + 1 |-> data[Wrapped(rptr + i - 1)]]
  <2>1. \A i \in 1..count : q[i] = data[Wrapped(rptr + i - 1)]
    BY <1>5 DEF Contents
  <2>2. b = data[Wrapped(rptr + (count + 1) - 1)]
    BY <1>2 DEF Slot
  <2> HIDE DEF q, b
  <2> QED
    BY <1>2, <1>7, <1>8, <2>1, <2>2
<1>11. Fifo!Enter
  <2>1. Contents' = Append(Contents, b) /\ Len(Contents) < QueueSize
    BY <1>2, <1>8, <1>9, <1>10, SizeAssumption
  <2> HIDE DEF b
  <2> QED
    BY <1>7, <2>1 DEF Fifo!Enter
<1> QED
  BY <1>6, <1>11 DEF QueueStep

(* A read takes the byte when it moves its pointer.                        *)
LEMMA RingTake ==
  ASSUME ~Overlap, KInv, Ring, ReadTake
  PROVE  Ring' /\ QueueStep
<1>1. at["ui"] \in Outside /\ at["emu"] \in Outside /\ "emu" \in Thread
  BY Settled DEF ReadTake, Reading
<1>2. /\ rptr \in Slot /\ count \in 1..QueueSize /\ data \in [Slot -> Byte]
  BY SizeAssumption DEF KInv, TypeOK, ReadTake
<1>3. at'["emu"] = "taken" /\ at'["ui"] = at["ui"]
  BY <1>1, Went DEF KInv, ReadTake, Step, Thread
<1>4. /\ count' = count /\ wptr' = wptr /\ data' = data
      /\ rptr' = IF rptr + 1 = QueueSize THEN 0 ELSE rptr + 1
  BY DEF ReadTake
<1>5. Held = count /\ Held' = count - 1 /\ Ahead = 0 /\ Ahead' = 0
  BY <1>1, <1>3, <1>4 DEF Held, Ahead, Outside, Thread
<1>6. \A n \in 0..QueueSize - 1 : Wrapped(rptr' + n) = Wrapped(rptr + 1 + n)
  BY <1>2, <1>4, WrappedNext
<1>7. Ring'
  <2>1. wptr = Wrapped(rptr + count)
    BY <1>2, <1>5 DEF Ring, Slot
  <2>2. Wrapped(rptr' + (count - 1)) = Wrapped(rptr + 1 + (count - 1))
    <3>1. count - 1 \in 0..QueueSize - 1
      BY <1>2, SizeAssumption
    <3> QED
      BY <1>6, <3>1
  <2>3. rptr + 1 + (count - 1) = rptr + count
    BY <1>2 DEF Slot
  <2>4. rptr' \in Int
    BY <1>2, <1>4 DEF Slot
  <2>5. wptr' = Wrapped(rptr' + Held' + Ahead')
    BY <1>2, <1>4, <1>5, <2>1, <2>2, <2>3, <2>4
  <2> QED
    BY <1>1, <1>3, <2>5 DEF Ring, Wrapped, Outside, Thread
<1> DEFINE q == Contents
<1>8. q = [i \in 1..count |-> data[Wrapped(rptr + i - 1)]]
  BY <1>5 DEF Contents
<1>9. \A i \in 1..count : data[Wrapped(rptr + i - 1)] \in Byte
  <2> TAKE i \in 1..count
  <2>1. i - 1 \in 0..QueueSize /\ rptr + i - 1 = rptr + (i - 1)
    BY <1>2, SizeAssumption DEF Slot
  <2> QED
    BY <1>2, <2>1, WrappedSlot
<1>10. q \in Seq(Byte) /\ Len(q) = count /\ q # << >>
  BY <1>2, <1>8, <1>9
<1>11. Contents' = [i \in 1..count - 1 |-> q[i + 1]]
  <2>1. Contents' = [i \in 1..count - 1 |-> data[Wrapped(rptr' + i - 1)]]
    BY <1>4, <1>5 DEF Contents, Wrapped
  <2>2. \A i \in 1..count - 1 : Wrapped(rptr' + i - 1) = Wrapped(rptr + (i + 1) - 1)
    <3> TAKE i \in 1..count - 1
    <3>1. i - 1 \in 0..QueueSize - 1 /\ rptr' \in Int /\ rptr \in Int
      BY <1>2, <1>4, SizeAssumption DEF Slot
    <3>2. Wrapped(rptr' + (i - 1)) = Wrapped(rptr + 1 + (i - 1))
      BY <1>6, <3>1
    <3>3. rptr' + (i - 1) = rptr' + i - 1 /\ rptr + 1 + (i - 1) = rptr + (i + 1) - 1
      BY <3>1
    <3> QED
      BY <3>2, <3>3
  <2>3. \A i \in 1..count - 1 : q[i + 1] = data[Wrapped(rptr + (i + 1) - 1)]
    BY <1>2, <1>8
  <2> HIDE DEF q
  <2> QED
    BY <2>1, <2>2, <2>3
<1>12. Contents' = Tail(q)
  <2> HIDE DEF q
  <2>1. count - 1 \in Nat
    BY <1>2
  <2>2. Tail(q) \in Seq(Byte) /\ Len(Tail(q)) = count - 1
    BY <1>2, <1>10
  <2>3. \A i \in 1..count - 1 : Tail(q)[i] = q[i + 1]
    BY <1>2, <1>10
  <2>4. Tail(q) = [i \in 1..count - 1 |-> Tail(q)[i]]
    BY <2>2, LenProperties
  <2> QED
    BY <1>11, <2>3, <2>4
<1>13. Fifo!Leave
  BY <1>10, <1>12 DEF Fifo!Leave
<1> QED
  BY <1>7, <1>13 DEF QueueStep

LEMMA RingReadCount ==
  ASSUME ~Overlap, KInv, Ring, ReadCount
  PROVE  Ring' /\ QueueStep
<1>1. /\ at["emu"] = "taken" /\ at["ui"] \in Outside /\ "emu" \in Thread
      /\ reg["emu"] = count /\ count \in 1..QueueSize
  BY SizeAssumption DEF KInv, TypeOK, ReadCount, Exclusive, Taking, Outside, Thread
<1>2. at'["emu"] = "deassert" /\ at'["ui"] = at["ui"]
  BY <1>1, Went DEF KInv, ReadCount, Step, Thread
<1>3. rptr' = rptr /\ wptr' = wptr /\ data' = data /\ count' = count - 1
  BY <1>1 DEF ReadCount
<1>4. Held' = Held /\ Ahead' = Ahead
  BY <1>1, <1>2, <1>3 DEF Held, Ahead, Outside, Thread
<1>5. Ring'
  BY <1>1, <1>2, <1>3, <1>4 DEF Ring, Wrapped, Outside, Thread
<1>6. Contents' = Contents
  BY <1>3, <1>4 DEF Contents, Wrapped
<1> QED
  BY <1>5, <1>6 DEF QueueStep

(* The other steps of ps2_queue and of a read, and the guest's writes,     *)
(* leave the queue alone.                                                  *)
LEMMA RingPlain ==
  ASSUME ~Overlap, KInv, Ring, UNCHANGED queue, NEW t \in Thread, NEW s \in Step,
         Go(t, s), s \notin {"advance", "load", "count", "taken"},
         at[t] \notin {"load", "count", "taken"},
         \A u \in Thread \ {t} : reg'[u] = reg[u]
  PROVE  Ring' /\ QueueStep
<1>1. at'[t] = s /\ \A u \in Thread \ {t} : at'[u] = at[u]
  BY Went DEF KInv
<1> QED
  BY <1>1, RingQuiet

LEMMA RingLoad ==
  ASSUME ~Overlap, KInv, Ring, NEW t \in Thread, QueueLoad(t)
  PROVE  Ring' /\ QueueStep
<1>1. at'[t] = "count" /\ \A u \in Thread \ {t} : at'[u] = at[u]
  BY Went DEF KInv, QueueLoad, Step
<1>2. \A u \in Thread \ {t} : reg'[u] = reg[u]
  BY DEF QueueLoad, KInv, TypeOK
<1> QED
  BY <1>1, <1>2, RingQuiet DEF QueueLoad

LEMMA RingNext ==
  ASSUME ~Overlap, KInv, Ring, [Next]_vars
  PROVE  Ring' /\ QueueStep
<1>1. reg \in [Thread -> 0..QueueSize] /\ "ui" \in Thread /\ "emu" \in Thread
  BY DEF KInv, TypeOK, Thread
<1>2. ASSUME NEW k \in Keys \union ExtKeys, PutKeycode(k) PROVE Ring' /\ QueueStep
  <2>1. (IF delay THEN "flush" ELSE "put") \in Step
    BY DEF Step
  <2> QED
    BY <1>1, <1>2, <2>1, RingPlain DEF PutKeycode, Free
<1>3. CASE Arm \/ SetCode \/ KbdStep
  <2>1. Arm => Ring' /\ QueueStep
    BY <1>1, RingPlain DEF Arm, Step
  <2>2. SetCode => Ring' /\ QueueStep
    BY <1>1, RingPlain DEF SetCode, Step
  <2>3. KbdStep => Ring' /\ QueueStep
    BY <1>1, RingPlain DEF KbdStep, Free, Step
  <2> QED
    BY <1>3, <2>1, <2>2, <2>3
<1>4. CASE GuestRead
  <2>1. ReadAux => Ring' /\ QueueStep
    BY <1>1, RingPlain DEF ReadAux, Reading, Outside, Step
  <2>2. ReadAgain => Ring' /\ QueueStep
    BY <1>1, RingPlain DEF ReadAgain, Reading, Outside, Step
  <2> QED
    BY <1>4, <2>1, <2>2, RingTake DEF GuestRead
<1>5. CASE ReadSteps
  <2>1. Deassert => Ring' /\ QueueStep
    BY <1>1, RingPlain DEF Deassert, Step
  <2>2. DataLeft => Ring' /\ QueueStep
    BY <1>1, RingPlain DEF DataLeft, Step, Thread
  <2>3. Reassert => Ring' /\ QueueStep
    BY <1>1, RingPlain DEF Reassert, Step, Thread
  <2> QED
    BY <1>5, <2>1, <2>2, <2>3, RingReadCount DEF ReadSteps
<1>6. ASSUME UNCHANGED <<queue, thread>> PROVE Ring' /\ QueueStep
  BY <1>6 DEF Ring, QueueStep, Contents, Held, Ahead, Wrapped, queue, thread
<1>7. ASSUME NEW n, Reply(n), Free("emu") PROVE Ring' /\ QueueStep
  BY <1>1, <1>7, RingPlain DEF Reply, Free, Step
<1>8. CASE GuestWrite
  <2>1. WriteCommand => Ring' /\ QueueStep
    BY <1>6, <1>7 DEF WriteCommand, CommandReply, ReadMode, ExpectByte, KbdInterface
  <2>2. WriteKeyboard => Ring' /\ QueueStep
    BY <1>7 DEF WriteKeyboard
  <2>3. WriteMode \/ WriteMouse => Ring' /\ QueueStep
    BY <1>6 DEF WriteMode, WriteMouse
  <2>4. WriteObuf => Ring' /\ QueueStep
    BY <1>1, RingPlain DEF WriteObuf, Free, Step
  <2> QED
    BY <1>8, <2>1, <2>2, <2>3, <2>4 DEF GuestWrite
<1>9. ASSUME NEW i \in {1, 12}, Interrupt(i) PROVE Ring' /\ QueueStep
  BY <1>1, <1>9, RingPlain DEF Interrupt, Free, Step
<1>10. ASSUME NEW t \in Thread, Steps(t) PROVE Ring' /\ QueueStep
  <2> DEFINE bytes == Tail(out[t])
             s == IF bytes # << >> THEN "put" ELSE IF ext[t] # Nothing THEN "arm" ELSE "idle"
  <2>1. s \in Step \ {"advance", "load", "count", "taken"}
    BY DEF Step
  <2>2. QueueFull(t) => Ring' /\ QueueStep
    <3> SUFFICES ASSUME QueueFull(t) PROVE Ring' /\ QueueStep
      OBVIOUS
    <3>1. Go(t, s) /\ at[t] = "put" /\ UNCHANGED <<queue, reg>>
      BY DEF QueueFull, Then
    <3> HIDE DEF s
    <3> QED
      BY <2>1, <3>1, RingPlain
  <2>3. QueueIrq(t) => Ring' /\ QueueStep
    <3> SUFFICES ASSUME QueueIrq(t) PROVE Ring' /\ QueueStep
      OBVIOUS
    <3>1. Go(t, s) /\ at[t] = "irq" /\ UNCHANGED <<queue, reg>>
      BY DEF QueueIrq, Then
    <3> HIDE DEF s
    <3> QED
      BY <2>1, <3>1, RingPlain
  <2>4. Flush(t) => Ring' /\ QueueStep
    BY RingPlain DEF Flush, Step
  <2> QED
    BY <1>10, <2>2, <2>3, <2>4, RingPut, RingAdvance, RingLoad, RingCount
       DEF Steps, QueueSteps
<1>11. CASE UNCHANGED vars
  BY <1>6, <1>11 DEF vars
<1> QED
  BY <1>2, <1>3, <1>4, <1>5, <1>8, <1>9, <1>10, <1>11 DEF Next

(* If the two threads never meet inside i8042.c, the ring with its         *)
(* pointers, its wrap and its count is a bounded queue: bytes enter at the *)
(* back, never more than there is room for, and leave at the front in the  *)
(* order in which they entered, whatever the size of the ring.             *)
THEOREM ApartQueue == ~Overlap => (Spec => ImplementsQueue)
<1> SUFFICES ASSUME ~Overlap PROVE Spec => ImplementsQueue
  OBVIOUS
<1>1. Init => Ring /\ Contents = << >>
  <2> SUFFICES ASSUME Init PROVE Ring /\ Contents = << >>
    OBVIOUS
  <2>1. Held = 0 /\ Ahead = 0
    BY DEF Init, Held, Ahead, Thread
  <2>2. Ring
    BY <2>1, SizeAssumption DEF Init, Ring, Wrapped, Thread
  <2>3. Contents = << >>
    BY <2>1 DEF Contents
  <2> QED
    BY <2>2, <2>3
<1>2. KInv /\ Ring /\ [Next]_vars => Ring' /\ [Fifo!Enter \/ Fifo!Leave]_Contents
  BY RingNext DEF QueueStep
<1> QED
  BY <1>1, <1>2, Invariance, PTL DEF Spec, ImplementsQueue, Fifo!QueueSpec
=============================================================================
