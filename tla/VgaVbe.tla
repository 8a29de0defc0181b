------------------------------- MODULE VgaVbe -------------------------------
(***************************************************************************)
(* The Bochs graphics extension (vga.c, vbe_write, vbe_fixup_regs and      *)
(* vbe_update_vgaregs) over the registers of the CRT controller, which the *)
(* guest writes too: a mode is a set of registers that the code adjusts    *)
(* and translates after each write of one of them.  Widths and heights     *)
(* are those of the code; bit counts are numbers.                          *)
(***************************************************************************)
EXTENDS Integers

CONSTANTS
  Choices,     \* register name -> the values that the guest writes to it
  Banks,       \* 64 KB banks of video memory
  CrChoices    \* index of the CRT controller -> the bytes that the guest writes

VARIABLES
  vbe,         \* vbe_regs, vbe_line_offset, vbe_start_addr and bank_offset (in banks)
  cr,          \* the CRT controller, for the indices of CrChoices
  planar,      \* sequencer and graphics controller: memory map, chain 4, planes, shift_control
  custom       \* the guest has programmed the registers itself since the last VBE write

vgaVbeVars == <<vbe, cr, planar, custom>>

Bit(v, i) == (v \div 2^i) % 2
Set(v, i, b) == v + 2^i * (b - Bit(v, i))

HDisp == 1   Overflow == 7   MaxScan == 9   Protect == 17   VDispEnd == 18   CrOffset == 19

(* The geometry that the refresh reads (vga_graphic_refresh). *)
Width == (cr[HDisp] + 1) * 8
Height == cr[VDispEnd] + 256 * Bit(cr[Overflow], 1) + 512 * Bit(cr[Overflow], 6) + 1

Init ==
  /\ vbe = [xres |-> 0, yres |-> 0, bpp |-> 0, on |-> FALSE, bank |-> 0, vw |-> 0, vh |-> 0,
            xo |-> 0, yo |-> 0, line |-> 0, start |-> 0, bank_offset |-> 0]
  /\ cr = [i \in {1, 7, 9, 17, 18, 19} |->
             CASE i = 1 -> 79 [] i = 7 -> 31 [] i = 9 -> 79 [] i = 17 -> 142 [] i = 18 -> 143
               [] OTHER -> 40]
  /\ planar = [map |-> 3, chain4 |-> FALSE, all |-> FALSE, shift |-> 0]
  /\ custom = TRUE

-----------------------------------------------------------------------------
Depth(r) == IF r.bpp \in {4, 8, 15, 16, 24, 32} THEN r.bpp ELSE 8
Bits(r) == IF Depth(r) = 15 THEN 16 ELSE Depth(r)
Down8(n) == n - (n % 8)
AtLeast(n, m) == IF n < m THEN m ELSE n

(* Mutated: the virtual width is not raised to the width. *)
FixedNarrow(r) ==
  LET xres == IF Down8(r.xres) = 0 THEN 8 ELSE Down8(r.xres)
      line == (Down8(r.vw) * Bits(r)) \div 8
  IN [r EXCEPT !.bpp = Depth(r), !.xres = xres, !.vw = Down8(r.vw), !.yres = AtLeast(r.yres, 1),
               !.line = line, !.start = ((r.xo * Bits(r)) \div 8 + r.yo * line) \div 4]

(* vbe_fixup_regs, while enabled. *)
Fixed(r) ==
  LET xres == AtLeast(Down8(r.xres), 8)
      vw   == AtLeast(Down8(r.vw), xres)
      line == (vw * Bits(r)) \div 8
  IN [r EXCEPT !.bpp = Depth(r), !.xres = xres, !.vw = vw, !.yres = AtLeast(r.yres, 1),
               !.line = line, !.start = ((r.xo * Bits(r)) \div 8 + r.yo * line) \div 4]

(* vbe_update_vgaregs, while enabled: even where the controller is locked. *)
CrOf(r) ==
  LET h == r.yres - 1
  IN [cr EXCEPT ![HDisp] = (r.xres \div 8 - 1) % 256,
                ![VDispEnd] = h % 256,
                ![Overflow] = Set(Set(Set(@, 1, Bit(h, 8)), 6, Bit(h, 9)), 4, 1),
                ![MaxScan] = 64 + 32 * Bit(@, 5),
                ![CrOffset] = (r.line \div 8) % 256]

PlanarOf(r) ==
  [map |-> 1, chain4 |-> planar.chain4 \/ r.bpp # 4, all |-> planar.all \/ r.bpp # 4,
   shift |-> IF r.bpp = 4 THEN 0 ELSE 2]

Settle(r) ==
  IF r.on THEN /\ vbe' = Fixed(r) /\ cr' = CrOf(Fixed(r)) /\ planar' = PlanarOf(Fixed(r))
               /\ custom' = FALSE
  ELSE vbe' = r /\ UNCHANGED <<cr, planar, custom>>

(* The registers of a mode. *)
WriteRegister(name, v) == Settle([vbe EXCEPT ![name] = v])

(* VBE_DISPI_INDEX_ENABLE; clearing the memory and dac_8bit are left out. *)
WriteEnable(on) ==
  LET r == IF on /\ ~vbe.on THEN [vbe EXCEPT !.vw = vbe.xres, !.vh = vbe.yres, !.xo = 0, !.yo = 0]
           ELSE [vbe EXCEPT !.bank_offset = 0]
  IN Settle([r EXCEPT !.on = on])

WriteBank(v) ==
  /\ vbe' = [vbe EXCEPT !.bank = v % Banks, !.bank_offset = v % Banks]
  /\ UNCHANGED <<cr, planar, custom>>

(* 3D5h: the first registers are protected, but for a bit of the seventh.   *)
WriteCr(i, v) ==
  /\ cr' = CASE Bit(cr[Protect], 7) = 1 /\ i = Overflow -> [cr EXCEPT ![i] = Set(@, 4, Bit(v, 4))]
             [] Bit(cr[Protect], 7) = 1 /\ i < Overflow -> cr
             [] OTHER -> [cr EXCEPT ![i] = v]
  /\ custom' = TRUE /\ UNCHANGED <<vbe, planar>>

(* The guest's own sequencer and graphics controller settings. *)
WritePlanar ==
  /\ planar' = [map |-> 3, chain4 |-> FALSE, all |-> FALSE, shift |-> 0]
  /\ custom' = TRUE /\ UNCHANGED <<vbe, cr>>

Next ==
  \/ \E name \in DOMAIN Choices : \E v \in Choices[name] : WriteRegister(name, v)
  \/ \E on \in BOOLEAN : WriteEnable(on)
  \/ \E v \in 0 .. Banks : WriteBank(v)
  \/ \E i \in DOMAIN CrChoices : \E v \in CrChoices[i] : WriteCr(i, v)
  \/ WritePlanar

-----------------------------------------------------------------------------
(* An enabled mode is one that can be drawn and the controller draws it,    *)
(* whatever registers were written, in whatever order, before and after it  *)
(* was enabled and though the controller is locked: the picture has its     *)
(* size, its lines lie within the virtual ones, and it starts at its        *)
(* offset; only a guest that programs the controller itself changes that.   *)
ModeIsDrawn ==
  vbe.on /\ ~custom =>
    LET pixel(x, y) == ((y * vbe.vw + x) * Bits(vbe)) \div 8
    IN /\ vbe.xres % 8 = 0 /\ vbe.vw >= vbe.xres
       /\ Width = vbe.xres /\ Height = vbe.yres
       /\ pixel(vbe.xres, 0) <= vbe.line /\ vbe.line = pixel(0, 1)
       /\ 4 * vbe.start \in pixel(vbe.xo, vbe.yo) - 3 .. pixel(vbe.xo, vbe.yo)

(* In a mode of whole bytes memory is linear behind the window, with all    *)
(* its planes open, and the refresh reads it so.                            *)
ModeIsLinear ==
  vbe.on /\ ~custom /\ vbe.bpp # 4 =>
    planar.chain4 /\ planar.all /\ planar.map = 1 /\ planar.shift = 2

(* What is drawn of an extended mode, and what its memory is, follow from   *)
(* how it was set.                                                          *)
ModeAsSet == ModeIsDrawn /\ ModeIsLinear
============================================================================
