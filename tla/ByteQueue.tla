----------------------------- MODULE ByteQueue -----------------------------
(***************************************************************************)
(* What a PS2Queue promises: a bounded queue.  Bytes enter at the back and *)
(* leave at the front; nothing in between is lost, repeated or changed.    *)
(***************************************************************************)
EXTENDS Naturals, Sequences

CONSTANTS Byte, Bound
VARIABLE q

Enter == Len(q) < Bound /\ \E b \in Byte : q' = Append(q, b)
Leave == q # << >> /\ q' = Tail(q)

QueueSpec == q = << >> /\ [][Enter \/ Leave]_q
=============================================================================
