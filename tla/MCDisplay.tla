------------------------------ MODULE MCDisplay ------------------------------
(* The VGA: its refresh down to the phone's screen, and what the guest does *)
(* to its memory and registers (VgaPorts, with the constants of the cfg).   *)
(* A behaviour has one of these, its world; the variables of the others     *)
(* stay as they are initially.                                              *)
EXTENDS VgaPorts, DisplayParts

-----------------------------------------------------------------------------
(* Two places of the screen: a wide text in both of them, a narrow one in   *)
(* one, the same one with other dots to a character in the other, and one   *)
(* that does not fit, of which graphics show what fits.                     *)
ScreenCells ==
  [wide   |-> [p1 |-> "c1", p2 |-> "c2"],   large |-> [p1 |-> "c2", p2 |-> "c1"],
   narrow |-> [p1 |-> "none", p2 |-> "c1"], dots  |-> [p1 |-> "c1", p2 |-> "none"]]
ScreenCompared == [wide |-> 2, narrow |-> 1, dots |-> 1, large |-> 3]

(* All modes and changes of palette, of one geometry.                       *)
Fitting == INSTANCE Display WITH Chars <- {"A"}, Colours <- {"red", "blue"},
                                 Sizes <- {"wide"}, Fits <- {"wide"}

(* Two characters, and all geometries. *)
Redraw == INSTANCE Display WITH Colours <- {"red"}, Modes <- {"text", "graphic"}

(* Bytes of four bits, and a window of sixteen bytes over memory of 32: all *)
(* the ways to address it, to write through the logic, and to compare.      *)
VgaBase ==
  [map |-> 0, bank |-> 0, chain4 |-> FALSE, odd_even |-> FALSE, planes |-> 0 .. 3,
   set_reset |-> {0, 3}, sr_enable |-> {}, rotate |-> 0, func |-> 0, write_mode |-> 0,
   bit_mask |-> 0 .. 3, read_mode |-> 0, read_plane |-> 0, compare |-> {1, 2}, care |-> 0 .. 3]
VgaAddressing ==
  {[VgaBase EXCEPT !.map = map, !.bank = bank, !.chain4 = chain4, !.odd_even = odd_even,
                   !.planes = planes, !.read_plane = read_plane] :
     map \in 0 .. 3, bank \in 0 .. 1, chain4, odd_even \in BOOLEAN,
     planes \in {0 .. 3, {0, 2}, {}}, read_plane \in {0, 3}}
VgaWriting ==
  {[VgaBase EXCEPT !.planes = {1, 3}, !.sr_enable = sr_enable, !.rotate = rotate, !.func = func,
                   !.write_mode = write_mode, !.bit_mask = bit_mask] :
     sr_enable \in {{}, {0, 1}}, rotate \in {0, 1, 3}, func, write_mode \in 0 .. 3,
     bit_mask \in {0 .. 3, {0, 2}}}
VgaComparing ==
  {[VgaBase EXCEPT !.read_mode = 1, !.compare = compare, !.care = care] :
     compare \in {{}, {1, 2}, {0, 3}}, care \in {0 .. 3, {1}}}
VgaSetups == VgaAddressing \cup VgaWriting \cup VgaComparing

(* Widths and depths that must be adjusted, and the lock of the controller. *)
VbeChoices == [xres |-> {0, 647}, yres |-> {600}, bpp |-> {4, 15}, vw |-> {1600}, yo |-> {3}]
VbeCrChoices == [i \in {1, 17} |-> IF i = 1 THEN {99} ELSE {0}]

-----------------------------------------------------------------------------
Worlds == {"screen", "redraw", "vgamem", "attr", "dac", "vbe"}

DisplayInit ==
  /\ Init /\ world \in Worlds
  /\ CASE world = "screen" -> Fitting!Init
       [] world = "redraw" -> Redraw!Init
       [] OTHER -> /\ Redraw!Init
                   /\ vram = [c \in {"c1", "c2"} |-> "A"] /\ cursor = "c1" /\ mode = "text"
                   /\ size = "wide"
  /\ Vram!Init /\ (world # "vgamem" => regs = VgaBase)
  /\ Vbe!Init

displayVars ==
  <<vram, dac, size, cursor, mode, graphic_mode, last_ch_attr, last_palette, last_size, last_cursor,
    retrace_phase, at, full, fb, lost, g_dirty, ui, took, bmp>>
vgaMemVars == <<regs, vga_vram, latch, last, accesses>>

displayWorlds == {"screen", "redraw"}
portWorlds    == {"attr", "dac"}

(* What is not of this world stays. *)
Others(w) ==
  /\ UNCHANGED world
  /\ IF w \in displayWorlds THEN TRUE ELSE UNCHANGED displayVars
  /\ IF w = "vgamem" THEN TRUE ELSE UNCHANGED vgaMemVars
  /\ IF w \in portWorlds THEN TRUE ELSE UNCHANGED <<vga, app>>
  /\ IF w = "vbe" THEN TRUE ELSE UNCHANGED <<vbe, cr, planar, custom>>

(* The properties of the abandoned refresh are about the frame buffer: the  *)
(* activity does not run in its world.                                      *)
DisplayNext ==
  \/ world = "screen" /\ Fitting!Next /\ Others("screen")
  \/ world = "redraw" /\ Others("redraw")
       /\ (Redraw!GuestWrites \/ Redraw!RetraceDue \/ Redraw!Refresh)
  \/ world = "vgamem" /\ Vram!Next /\ Others("vgamem")
  \/ world = "attr" /\ AttributePort /\ Others("attr")
  \/ world = "dac" /\ PalettePort /\ Others("dac")
  \/ world = "vbe" /\ Vbe!Next /\ Others("vbe")

mcVars ==
  <<world, displayVars, vgaMemVars, vga, app, vbe, cr, planar, custom>>

(* The retrace timer and both threads keep going. *)
DisplaySpec ==
  /\ DisplayInit /\ [][DisplayNext]_mcVars
  /\ WF_mcVars(world = "screen" /\ Fitting!RetraceDue /\ Others("screen"))
  /\ WF_mcVars(world = "screen" /\ Fitting!Refresh /\ Others("screen"))
  /\ WF_mcVars(world = "screen" /\ Fitting!OnDraw /\ Others("screen"))

-----------------------------------------------------------------------------
(* What the screen and the memory promise is in DisplayParts, what the      *)
(* ports and the extended modes do in VgaPorts.                             *)

(* What the guest leaves on its screen reaches the user (vga_refresh,       *)
(* nativeTakeDirty, onDraw).                                                *)
UserSeesScreen == world = "screen" => Fitting!UserSeesScreen
=============================================================================
