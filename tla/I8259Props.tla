----------------------------- MODULE I8259Props -----------------------------
(***************************************************************************)
(* What the interrupt controllers owe the machine.                         *)
(***************************************************************************)
EXTENDS I8259

(* The registers have their types. *)
TypeOK ==
  /\ pic \in [Chip -> PicState]
  /\ intr \in BOOLEAN
  /\ aborted \in BOOLEAN

(* Requests that count whatever special modes are set: unmasked, and of a   *)
(* higher priority than every line in service.                             *)
Plain(k) ==
  { i \in pic[k].irr \ pic[k].imr :
      \A j \in pic[k].isr : Priority(pic[k], i) < Priority(pic[k], j) }

(* No request is lost: whenever the master has such a request, the         *)
(* processor has been told.  "must be called every time the active irq may *)
(* change" (i8259.c, above pic_update_irq) asks for exactly this of the    *)
(* callers of pic_update_irq.                                              *)
NoLostInterrupt == Plain(0) # {} => intr

(* The comment to the letter, for a master outside the special fully       *)
(* nested mode: also of requests that only the special mask mode makes      *)
(* eligible, because the line in service that held them back is masked.     *)
EligibleIsAnnounced ==
  Wants(pic, 0) /\ ~pic[0].special_fully_nested_mode => intr

(* The words after which "the active irq may change" although the code does *)
(* not call pic_update_irq: setting the special mask mode (OCW3) and the    *)
(* special fully nested mode (ICW4).  A guest that never writes them.       *)
OrdinaryGuest ==
  /\ \A w \in Ocw3Writes : w.smm # "set"
  /\ \A w \in Icw4Writes : ~w.sfnm

(* The same across the cascade: a request of the slave that line 2 of the  *)
(* master lets through has reached the processor, although the master only *)
(* ever sees a pulse on that line and forgets it on each acknowledgement.  *)
SlaveRequestReachesCpu ==
  (/\ Plain(1) # {}
   /\ Cascade \notin pic[0].imr
   /\ \A j \in pic[0].isr : Priority(pic[0], Cascade) < Priority(pic[0], j))
  => intr

(* What runs in service when the processor takes a request preempts every  *)
(* line in service that still counts: an acknowledged line has a higher    *)
(* priority, in the rotation in force, than each of them.                  *)
Entered(k) == pic'[k].isr \ pic[k].isr

PreemptsLower ==
  [][\A k \in Chip, i \in Line :
        i \in Entered(k) => \A j \in Blocking(pic, k) :
             Priority(pic[k], i) < Priority(pic[k], j)]_vars

(* A masked request is never acknowledged: only an unmasked line leaves    *)
(* the latch by an acknowledgement, whatever was pending when the          *)
(* processor was told.                                                     *)
OnlyUnmaskedServed ==
  [][\A k \in Chip : Entered(k) \cap pic[k].imr = {}]_vars

Requested == (pic[0].irr \ {Cascade}) \union { 8 + i : i \in pic[1].irr }
Serving   == (pic[0].isr \ {Cascade}) \union { 8 + i : i \in pic[1].isr }

Ledger == INSTANCE IrqLedger WITH Irqs <- (0..15) \ {Cascade},
                                  requested <- Requested, serving <- Serving

(* The pair implements the ledger: latching, delivery, end of interrupt,   *)
(* polling and initialisation each act on one request (or on the requests  *)
(* of one chip) and on nothing else; the cascade is invisible.             *)
ImplementsLedger == Ledger!LedgerSpec
=============================================================================
