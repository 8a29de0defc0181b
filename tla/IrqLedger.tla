----------------------------- MODULE IrqLedger -----------------------------
(***************************************************************************)
(* What a pair of interrupt controllers promises to devices and guests,    *)
(* without chips, masks, priorities or the cascade: a request stays until  *)
(* it is delivered, is delivered once, and then is in service until it is  *)
(* retired.  Only a guest can drop requests: by initialising a chip, or by *)
(* polling it.                                                             *)
(***************************************************************************)
EXTENDS Naturals

CONSTANT Irqs        \* the lines devices drive, 0..7 master, 8..15 slave

VARIABLES requested, \* lines with a request not yet delivered
          serving    \* lines delivered and not yet retired

ledgerVars == <<requested, serving>>

OnChip(k) == { i \in Irqs : i \div 8 = k }

LedgerInit == requested = {} /\ serving = {}

Raise(i) == requested' = requested \union {i} /\ UNCHANGED serving

(* Automatic end of interrupt delivers without entering service. *)
Deliver(i) ==
  /\ i \in requested
  /\ requested' = requested \ {i}
  /\ serving' \in {serving, serving \union {i}}

Retire(i) == serving' = serving \ {i} /\ UNCHANGED requested

Poll(i) ==
  /\ i \in requested
  /\ requested' = requested \ {i}
  /\ serving' = serving \ {i}

Initialise(k) ==
  /\ requested' = requested \ OnChip(k)
  /\ serving' = serving \ OnChip(k)

LedgerNext ==
  \/ \E i \in Irqs : Raise(i) \/ Deliver(i) \/ Retire(i) \/ Poll(i)
  \/ \E k \in {0, 1} : Initialise(k)

LedgerSpec == LedgerInit /\ [][LedgerNext]_ledgerVars
=============================================================================
