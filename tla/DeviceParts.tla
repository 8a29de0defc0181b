----------------------------- MODULE DeviceParts -----------------------------
(* The devices that are proved correct for all values of their constants,   *)
(* and checked for the values of a cfg: components that share no state,     *)
(* each with what it promises.                                              *)
EXTENDS Integers

VARIABLE world      \* the component that runs in a behaviour; the others stand still

-----------------------------------------------------------------------------
CONSTANTS Top, Hole, Window, RamSize, RegionSize, Bases
VARIABLES cf8, config, enabled, vga_addr, program
Bus == INSTANCE Pci WITH Size <- RegionSize

(* Counters that the guest reads, and channel 0, which interrupts.          *)
CONSTANTS Channels, Readers, Modes, Accesses, PitByte, Word, Num, Den, Steps
CONSTANTS ClockAccesses, ClockByte, ClockWord, ClockNum, ClockDen, ClockSteps
VARIABLES pit, uticks, elapsed, fired, latch_read
Pit == INSTANCE I8254 WITH Byte <- PitByte
Clock == INSTANCE I8254 WITH
  Channels <- {0}, Readers <- {}, Modes <- {2, 3}, Accesses <- ClockAccesses,
  Byte <- ClockByte, Word <- ClockWord, Num <- ClockNum, Den <- ClockDen, Steps <- ClockSteps

CONSTANTS RtcWord, Rates, Shift, Lag
VARIABLES cmos, irq_period, irq_timeout, ticks, owed
Rtc == INSTANCE Cmos WITH Word <- RtcWord

CONSTANT MaxBytes
VARIABLES uart, typed, uart_line, uart_got
Serial == INSTANCE Uart

CONSTANTS Sectors, Starts, Counts
VARIABLES emu, fpos, fsize, floppy_moved
Drive == INSTANCE Emulink WITH Size <- Sectors

CONSTANTS Tx, RingStart, RingStop, MaxPages, Sizes, Frames
VARIABLES ne, net_line, net_mem, unread, drv, sent, overrun
Net == INSTANCE Ne2000 WITH Start <- RingStart, Stop <- RingStop

CONSTANTS
  DspCommands, Formats, DmaByte, Lengths, DmaCounts, Frees, AudioLen, Limit, InSize, OutSize
VARIABLES sb, sb_line, audio, dma, sb_odd
Sound == INSTANCE Sb16 WITH Commands <- DspCommands, Byte <- DmaByte, Counts <- DmaCounts

CONSTANTS QueueSize, MouseRoom, Largest, Reach, Moves
VARIABLES mouse, mouse_queue, mouse_drv, mouse_owed, mouse_cut
Mouse == INSTANCE Ps2Mouse WITH
  Size <- QueueSize, Room <- MouseRoom, queue <- mouse_queue, drv <- mouse_drv, owed <- mouse_owed,
  cut <- mouse_cut

-----------------------------------------------------------------------------
(* An access reaches the frame buffer exactly where the guest has put it    *)
(* (pci_update_mappings).                                                   *)
DecodedAsProgrammed == world = "pci" => Bus!DecodedAsProgrammed

(* One interrupt for each period, over late calls, changes of rate and the  *)
(* wraps of clocks (i8254_update_irq, cmos_update_irq), and no count of two *)
(* halves (i8254_ioport_read).                                              *)
TimersRight ==
  /\ Rtc!DueIsOwed
  /\ world = "pit" => Clock!TimerRight
  /\ world = "latch" => Pit!TimerRight

(* A count that the guest has latched is held until it is read              *)
(* (pit_latch_count).                                                       *)
LatchHeld == [][Pit!LatchHeld]_Pit!pitVars

(* What passes a device is neither lost nor changed on its way: bytes typed *)
(* (u8250_update), sectors of the floppy (emulink_data_read_string), frames *)
(* of the network (ne2000_receive).                                         *)
DataIntact == Serial!NoByteLost /\ Drive!RightSectors /\ Net!TrafficIntact

(* A command of the floppy channel ends with all that was asked for moved,  *)
(* a single transfer of the sound card with its block (SB_read_DMA).        *)
TransfersComplete ==
  [][Drive!EndsComplete]_Drive!emuVars /\ [][Sound!SingleBlockOnce]_Sound!sb16Vars

(* The parser, the requests, the line and the blocks of the sound card      *)
(* (command, complete, control, SB_read_DMA).                               *)
SoundRight == Sound!SoundRight

(* The guest knows its mouse, and no motion is lost on the way to it        *)
(* (ps2_mouse_event, ps2_write_mouse).                                      *)
MouseRight == world = "mouse" => Mouse!MouseRight
=============================================================================
