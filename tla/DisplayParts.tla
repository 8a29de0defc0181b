----------------------------- MODULE DisplayParts ----------------------------
(* The refresh of the screen and the memory of the VGA, which are proved    *)
(* correct for all values of their constants, and checked for those of a    *)
(* cfg, with what they promise.                                             *)
EXTENDS Integers

VARIABLE world      \* the component that runs in a behaviour; the others stand still

CONSTANTS Cells, Places, Chars, Palettes, Sizes, Fits, CellAt, Compared, Modes
VARIABLES
  vram, dac, size, cursor, mode, graphic_mode, last_ch_attr, last_palette, last_size, last_cursor,
  retrace_phase, at, full, fb, lost, g_dirty, ui, took, bmp
Screen == INSTANCE Display WITH Colours <- Palettes

CONSTANTS MemBits, Quarter, Setups, Addresses, MemValues, MaxAccesses
VARIABLES regs, vga_vram, latch, last, accesses
Vram == INSTANCE VgaMem WITH Bits <- MemBits, Values <- MemValues, vram <- vga_vram

(* The cells that the next refresh would skip show what they should, until  *)
(* something happens to them that it does not notice (vga_text_refresh).    *)
SkippedCellsAreCurrent == Screen!TypeOK /\ Screen!SkippedCellsAreCurrent

(* What was drawn last, an abandoned refresh or a port write left behind is *)
(* known for what it is: one cursor, no foreign character, black around     *)
(* graphics (vga_text_refresh, vga_ioport_write, vbe_update_vgaregs).       *)
RedrawIsClean == Screen!RedrawIsClean

(* The window onto video memory is what the registers say (vga_mem_read,    *)
(* vga_mem_write).                                                          *)
MemoryAsDefined == world = "vgamem" => Vram!MemoryAsDefined
=============================================================================
