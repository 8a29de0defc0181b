------------------------------- MODULE Uart --------------------------------
(***************************************************************************)
(* The serial port (misc.c), which pc_step polls when enable_serial is     *)
(* set.  A byte is its number in the order typed; dll and dlh, mcr and the *)
(* constant registers are left out.                                        *)
(***************************************************************************)
EXTENDS Integers

CONSTANT MaxBytes     \* bound: bytes typed

VARIABLES
  uart,         \* in, ier and ioready (sets of 1: received, 2: can send), dlab
  typed,        \* bytes typed so far
  uart_line,    \* the level of IRQ 4
  uart_got      \* the byte that the guest read last when one was ready

uartVars == <<uart, typed, uart_line, uart_got>>

Init ==
  /\ uart = [in |-> 0, ier |-> {}, ioready |-> {}, dlab |-> FALSE]
  /\ typed = 0 /\ uart_line = FALSE /\ uart_got = 0

UpdateInterrupts(s) == uart_line' = (s.ier \cap s.ioready # {})
Pending(s) == typed > s.in      \* IsKBHit: bytes not yet taken from the terminal

(* The receive buffer, or the divisor while DLAB is set. *)
ReadData ==
  /\ IF uart.dlab THEN UNCHANGED <<uart, uart_line, uart_got>>
     ELSE LET s == [uart EXCEPT !.ioready = @ \ {1}]
          IN /\ uart' = s /\ UpdateInterrupts(s)
             /\ uart_got' = IF 1 \in uart.ioready THEN uart.in ELSE uart_got
  /\ UNCHANGED typed

(* The interrupt enable register: "can send" is ready as long as enabled. *)
WriteIer ==
  /\ IF uart.dlab THEN UNCHANGED <<uart, uart_line>>
     ELSE \E val \in SUBSET {1, 2} :
            LET s == [uart EXCEPT !.ier = val,
                                  !.ioready = IF 2 \in val THEN @ \cup {2} ELSE @ \ {2}]
            IN uart' = s /\ UpdateInterrupts(s)
  /\ UNCHANGED <<typed, uart_got>>

WriteLcr ==
  /\ \E b \in BOOLEAN : uart' = [uart EXCEPT !.dlab = b]
  /\ UNCHANGED <<typed, uart_line, uart_got>>

Room(s) == 1 \notin s.ioready

(* u8250_update. *)
Update ==
  /\ Pending(uart) /\ Room(uart)
  /\ LET s == [uart EXCEPT !.in = @ + 1, !.ioready = @ \cup {1}]
     IN uart' = s /\ UpdateInterrupts(s)
  /\ UNCHANGED <<typed, uart_got>>

Type ==
  /\ typed < MaxBytes /\ typed' = typed + 1
  /\ UNCHANGED <<uart, uart_line, uart_got>>

Next == ReadData \/ WriteIer \/ WriteLcr \/ Update \/ Type

-----------------------------------------------------------------------------
(* Every byte typed reaches a guest that reads when one is ready: the byte  *)
(* in the buffer is the one after the last read.                            *)
NoByteLost == uart.in = uart_got + (IF 1 \in uart.ioready THEN 1 ELSE 0)
=============================================================================
