------------------------------ MODULE Ne2000 -------------------------------
(***************************************************************************)
(* The network card (ne2000.c) between a network that may deliver a frame  *)
(* before any step of the guest, and a driver that programs the card as    *)
(* those of the 8390 do.  The unit of memory is a page: a frame of n pages *)
(* puts the pair <<frame, k>> into its k-th page and, as the header of its *)
(* first one, the page after its last.  MaxPages is what a frame of        *)
(* MAX_ETH_FRAME_SIZE takes, 6 in the code.                                *)
(***************************************************************************)
EXTENDS Integers, Sequences

CONSTANTS
  Tx, Start, Stop,      \* the transmit page and the ring, Tx < Start < Stop
  MaxPages,
  Sizes,                \* pages of the frames on this network
  Frames                \* names of frames

VARIABLES
  ne,           \* registers: stopped, boundary, curpag, rsar, rcnt, isr, imr
  net_line,     \* the level of its interrupt
  net_mem,      \* the memory of the card, by page
  unread,       \* frames received and not yet released by the driver
  drv,          \* the driver: doing, the page after the frame, the page it read
  sent,         \* the pages sent last
  overrun       \* history: since the last reset, a frame came into a full ring

ne2000Vars == <<ne, net_line, net_mem, unread, drv, sent, overrun>>

Idle == [doing |-> "idle", next |-> 0, page |-> <<>>]
Blank == <<"blank", 0, 0, 0>>
(* Pages are counted round the ring, in the driver and in its properties. *)
Wrapped(page) == IF page >= Stop THEN page - (Stop - Start) ELSE page
Before(page) == IF page = Start THEN Stop - 1 ELSE page - 1

Init ==
  /\ ne = [stopped |-> TRUE, boundary |-> 0, curpag |-> 0, rsar |-> 0, rcnt |-> 0,
           isr |-> {"reset"}, imr |-> FALSE]
  /\ net_line = FALSE /\ net_mem = [p \in Tx .. Stop - 1 |-> Blank]
  /\ unread = <<>> /\ drv = Idle /\ sent = <<>> /\ overrun = FALSE

(* ne2000_update_irq: all causes but the reset, as masked. *)
Announced(s) == s.imr /\ s.isr \ {"reset"} # {}
UpdateIrq(s) == net_line' = Announced(s)

(* ne2000_buffer_full, in pages. *)
(* Mutated: the room is counted to the end of the ring only. *)
AvailToEnd(s) ==
  IF s.curpag < s.boundary THEN s.boundary - s.curpag ELSE Stop - s.curpag + 1

Avail(s) ==
  IF s.curpag < s.boundary THEN s.boundary - s.curpag
  ELSE (Stop - Start) - (s.curpag - s.boundary)
BufferFull(s) == Avail(s) < MaxPages

(* ne2000_receive.  A ring that is filled to its last page has its current   *)
(* page at the boundary, as an empty one: the card takes all of it for room  *)
(* and overwrites frames that are not released.  The code does not notice;   *)
(* from then on the driver is owed no frame.                                 *)
Receive ==
  /\ ~ne.stopped /\ ~BufferFull(ne)
  /\ overrun' = (overrun \/ ne.curpag = ne.boundary)
  /\ \E n \in Sizes :
       LET kept == IF overrun' THEN <<>> ELSE unread
           f == CHOOSE g \in Frames : \A i \in DOMAIN kept : kept[i].frame # g
           first == ne.curpag
           next == Wrapped(first + n)
           page(k) == Wrapped(first + k - 1)
       IN /\ net_mem' = [p \in DOMAIN net_mem |->
               IF \E k \in 1 .. n : page(k) = p
               THEN <<f, CHOOSE k \in 1 .. n : page(k) = p, next, n>> ELSE net_mem[p]]
          /\ unread' = IF overrun' THEN <<>> ELSE Append(kept, [frame |-> f, pages |-> n])
          /\ LET s == [ne EXCEPT !.curpag = next, !.isr = @ \cup {"rx"}]
             IN ne' = s /\ UpdateIrq(s)
  /\ UNCHANGED <<drv, sent>>

(* ne2000_dma_update: one page of a remote transfer. *)
AfterPage(s) ==
  [s EXCEPT !.rsar = IF @ + 1 = Stop THEN Start ELSE @ + 1,
            !.rcnt = IF @ <= 1 THEN 0 ELSE @ - 1,
            !.isr = IF s.rcnt <= 1 THEN @ \cup {"rdc"} ELSE @]

-----------------------------------------------------------------------------
(* The driver. *)

(* The start: the ring, no causes, all of them enabled, the start command. *)
Setup ==
  /\ ne.stopped
  /\ ne' = [ne EXCEPT !.stopped = FALSE, !.boundary = Stop - 1, !.curpag = Start,
                      !.isr = {}, !.imr = TRUE]
  /\ UpdateIrq(ne')
  /\ UNCHANGED <<net_mem, unread, drv, sent, overrun>>

(* The read of the reset port, whose interrupt is not updated, and the stop. *)
ResetCard ==
  /\ ~ne.stopped
  /\ ne' = [ne EXCEPT !.stopped = TRUE, !.isr = {"reset"}]
  /\ unread' = <<>> /\ drv' = Idle /\ overrun' = FALSE
  /\ UNCHANGED <<net_line, net_mem, sent>>

(* The line after causes are cleared. *)
AfterAck(s) == Announced(s)

(* The interrupt status, written back to clear what the driver has seen. *)
AckIsr ==
  /\ ~ne.stopped
  /\ \E causes \in {{"rx"}, {"rdc"}, {"tx"}} :
       LET s == [ne EXCEPT !.isr = @ \ causes]
       IN ne' = s /\ net_line' = AfterAck(s)
  /\ UNCHANGED <<net_mem, unread, drv, sent, overrun>>

(* A command for a remote transfer of no bytes completes at once. *)
ZeroTransfer ==
  /\ ~ne.stopped /\ ne.rcnt = 0
  /\ LET s == [ne EXCEPT !.isr = @ \cup {"rdc"}]
     IN ne' = s /\ UpdateIrq(s)
  /\ UNCHANGED <<net_mem, unread, drv, sent, overrun>>

(* The next frame is after the boundary, unless that is the current page:   *)
(* its header is read, then all of it by a remote transfer.  A driver that   *)
(* finds no header there can only reset the card.                           *)
BeginRead ==
  LET this == Wrapped(ne.boundary + 1)
      header == net_mem[this]
  IN /\ ~ne.stopped /\ drv.doing = "idle" /\ this # ne.curpag /\ header[2] = 1
     /\ drv' = [doing |-> "reading", next |-> header[3], page |-> <<>>]
     /\ ne' = [ne EXCEPT !.rsar = this, !.rcnt = header[4]]
     /\ UNCHANGED <<net_line, net_mem, unread, sent, overrun>>

ReadPage ==
  /\ drv.doing = "reading" /\ ne.rcnt > 0
  /\ drv' = [drv EXCEPT !.page = SubSeq(net_mem[ne.rsar], 1, 2)]
  /\ LET s == AfterPage(ne) IN ne' = s /\ UpdateIrq(s)
  /\ UNCHANGED <<net_mem, unread, sent, overrun>>

Release ==
  /\ drv.doing = "reading" /\ ne.rcnt = 0
  /\ ne' = [ne EXCEPT !.boundary = Before(drv.next)]
  /\ drv' = Idle /\ unread' = IF overrun THEN <<>> ELSE Tail(unread)
  /\ UNCHANGED <<net_line, net_mem, sent, overrun>>

(* A frame to be sent: written into the transmit page, then the command. *)
BeginWrite ==
  /\ ~ne.stopped /\ drv.doing = "idle"
  /\ drv' = [Idle EXCEPT !.doing = "writing"]
  /\ ne' = [ne EXCEPT !.rsar = Tx, !.rcnt = Start - Tx]
  /\ UNCHANGED <<net_line, net_mem, unread, sent, overrun>>

WritePage ==
  /\ drv.doing = "writing" /\ ne.rcnt > 0
  /\ net_mem' = [net_mem EXCEPT ![ne.rsar] = <<"tx", ne.rsar - Tx + 1, 0, 0>>]
  /\ LET s == AfterPage(ne) IN ne' = s /\ UpdateIrq(s)
  /\ UNCHANGED <<unread, drv, sent, overrun>>

Transmit ==
  /\ drv.doing = "writing" /\ ne.rcnt = 0
  /\ sent' = [k \in 1 .. Start - Tx |-> SubSeq(net_mem[Tx + k - 1], 1, 2)]
  /\ drv' = Idle
  /\ LET s == [ne EXCEPT !.isr = @ \cup {"tx"}] IN ne' = s /\ UpdateIrq(s)
  /\ UNCHANGED <<net_mem, unread, overrun>>

Next ==
  \/ Receive \/ Setup \/ ResetCard \/ AckIsr \/ ZeroTransfer
  \/ BeginRead \/ ReadPage \/ Release \/ BeginWrite \/ WritePage \/ Transmit

-----------------------------------------------------------------------------
(* The driver reads the frames in the order in which they came, page by     *)
(* page round the ring, whatever the network delivers in between, also when *)
(* the ring is full to its last page: no frame is overwritten before it is  *)
(* released, unless one more comes into a ring that is full (ne2000_receive,*)
(* whose ne2000_buffer_full finds a full ring empty).                       *)
FramesIntact ==
  drv.doing = "reading" /\ ~overrun =>
    /\ unread # <<>>
    /\ drv.page = IF ne.rcnt = Head(unread).pages THEN <<>>
                  ELSE <<Head(unread).frame, Head(unread).pages - ne.rcnt>>

(* A frame that is sent is the one that was written. *)
SentIntact == \A k \in DOMAIN sent : sent[k] = <<"tx", k>>

(* A cause that the driver has enabled and not cleared keeps the line high. *)
CausesAnnounced == (ne.imr /\ ne.isr \ {"reset"} # {}) => net_line

(* The driver gets every frame as it came, sends what it wrote, and hears   *)
(* of both.                                                                 *)
TrafficIntact == FramesIntact /\ SentIntact /\ CausesAnnounced
=============================================================================
