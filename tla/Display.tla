------------------------------- MODULE Display -------------------------------
(***************************************************************************)
(* From the guest's video memory to the bitmap on the phone: the refresh   *)
(* of vga.c, called by the emulation thread once per vertical retrace, the *)
(* g_dirty flag of bridge.c, and the onDraw loop of MainActivity on the    *)
(* user-interface thread.                                                  *)
(*                                                                         *)
(* A cell of video memory holds a character; a place of the screen shows   *)
(* the cell that the geometry puts there in a colour, perhaps as the cell  *)
(* of the cursor (which blinks; the phase is left out), or is a margin.    *)
(* The text refresh redraws only the cells it believes changed.            *)
(***************************************************************************)
EXTENDS Naturals

CONSTANTS
  Cells,     \* cells of video memory
  Places,    \* places of the frame buffer
  Chars,     \* what a cell of video memory may hold
  Colours,   \* what the palette may be
  Sizes,     \* geometries (width, height, start address) the guest may set
  Fits,      \* those of them that fit the frame buffer, at least one
  CellAt,    \* [Sizes -> [Places -> cells, or anything else for a margin]]
  Compared,   \* [Sizes -> what the text refresh compares: columns, rows, pitch, start]
  Modes      \* the modes the guest uses: "blank", "text", "graphic"

None == "none"          \* last_ch_attr = -1

VARIABLES
  vram, dac, size, cursor, mode,   \* what the guest has set
  graphic_mode,                    \* the mode of the last refresh
  last_ch_attr, last_palette, last_size, last_cursor,
  retrace_phase,
  at,                              \* where the emulation thread is
  full,                            \* full_update of this refresh
  fb,                              \* the frame buffer
  lost,                            \* history: what has happened to it unnoticed
  g_dirty,
  ui, took, bmp                    \* where onDraw is, its flag, its bitmap

guest == <<vram, dac, size, cursor, mode>>
cache == <<last_ch_attr, last_palette, last_size, last_cursor>>
view == <<ui, took, bmp>>
frame == <<fb, lost>>
vars == <<guest, graphic_mode, cache, retrace_phase, at, full, frame, g_dirty, view>>

Black == [ch |-> None, col |-> None, cur |-> FALSE]
Glyph(ch, col, cur) == [ch |-> ch, col |-> col, cur |-> cur]
Cleared == [p \in Places |-> Black]          \* simplefb_clear
Covered(s) == {p \in Places : CellAt[s][p] \in Cells}

Init ==
  /\ vram \in [Cells -> Chars] /\ dac \in Colours
  /\ size \in Fits /\ cursor \in Cells
  /\ mode \in Modes
  /\ graphic_mode = "blank"
  /\ last_ch_attr = [c \in Cells |-> None] /\ last_palette = None
  /\ last_size = None /\ last_cursor = None
  /\ retrace_phase = 0
  /\ at = "run" /\ full = FALSE
  /\ fb = Cleared /\ lost = "no"
  /\ g_dirty = TRUE
  /\ ui = "draw" /\ took = FALSE /\ bmp = Cleared

-----------------------------------------------------------------------------
(* The guest, inside pc_step: any access to video memory or registers.     *)
(* lost becomes "cells" when the picture of a text goes and the refresh    *)
(* does not know, and "places" when something is drawn in a layout other   *)
(* than that of what it is drawn among.                                    *)

(* Video memory, the palette, attributes and graphics registers. *)
PlainWrite ==
  /\ \/ /\ \E c \in Cells, ch \in Chars : vram' = [vram EXCEPT ![c] = ch]
        /\ UNCHANGED <<dac, mode>>
     \/ dac' \in Colours /\ UNCHANGED <<vram, mode>>
     \/ mode' \in Modes /\ UNCHANGED <<vram, dac>>
  /\ UNCHANGED <<size, cursor, frame>>

(* vga_ioport_write of the CRT controller clears what is drawn, when that   *)
(* is graphics.                                                            *)
CrtcWrite ==
  /\ \/ size' \in Sizes /\ UNCHANGED cursor
     \/ cursor' \in Cells /\ UNCHANGED size
  /\ IF graphic_mode = "graphic" THEN fb' = Cleared /\ lost' = "no" ELSE UNCHANGED frame
  /\ UNCHANGED <<vram, dac, mode>>

(* The dots of a character and of a pixel (SR1, GR5), and leaving the       *)
(* extension, move what is drawn; they are not compared, and nothing is    *)
(* cleared.                                                                *)
SequencerWrite ==
  /\ size' \in {s \in Sizes : Compared[s] = Compared[size]}
  /\ lost' = IF graphic_mode = "graphic" /\ size' # size THEN "places" ELSE lost
  /\ UNCHANGED <<vram, dac, cursor, mode, fb>>

(* vbe_write with the extension enabled, or enabling it: vbe_update_vgaregs *)
(* sets the mode to graphics and clears the frame buffer.  (What is cleared *)
(* of video memory are plain writes.)                                      *)
VbeWrite ==
  /\ "graphic" \in Modes
  /\ size' \in Sizes
  /\ mode' = IF mode = "blank" THEN "blank" ELSE "graphic"
  /\ fb' = Cleared
  /\ lost' = IF graphic_mode = "text" THEN "cells" ELSE "no"
  /\ UNCHANGED <<vram, dac, cursor>>

GuestWrites ==
  /\ at = "run"
  /\ PlainWrite \/ CrtcWrite \/ SequencerWrite \/ VbeWrite
  /\ UNCHANGED <<graphic_mode, cache, retrace_phase, at, full, g_dirty, view>>

-----------------------------------------------------------------------------
(* vga_step, when the next phase is due: display, disabled, retrace.  Only *)
(* the start of the retrace refreshes.                                     *)
RetraceDue ==
  /\ at = "run"
  /\ retrace_phase' = (retrace_phase + 1) % 3
  /\ at' = IF retrace_phase = 1 THEN "refresh" ELSE "run"
  /\ UNCHANGED <<guest, graphic_mode, cache, full, frame, g_dirty, view>>

(* Mutated: the frame buffer is not cleared. *)
VgaRefreshUncleared ==
  /\ at = "refresh"
  /\ graphic_mode' = mode
  /\ full' = (mode # graphic_mode /\ mode # "blank")
  /\ lost' = IF mode # graphic_mode THEN "no" ELSE lost
  /\ at' = IF mode = "blank" THEN "run" ELSE "draw"
  /\ UNCHANGED <<guest, cache, retrace_phase, fb, g_dirty, view>>

(* vga_refresh up to its call: a change of mode clears the frame buffer    *)
(* (simplefb_clear).  A blank screen is not drawn and not announced.       *)
VgaRefresh ==
  /\ at = "refresh"
  /\ graphic_mode' = mode
  /\ full' = (mode # graphic_mode /\ mode # "blank")
  /\ IF mode # graphic_mode THEN fb' = Cleared /\ lost' = "no" ELSE UNCHANGED frame
  /\ at' = IF mode = "blank" THEN "run" ELSE "draw"
  /\ UNCHANGED <<guest, cache, retrace_phase, g_dirty, view>>

(* vga_graphic_refresh draws all that the picture covers, from the palette *)
(* of the moment, and leaves its margins.                                  *)
VgaGraphicRefresh ==
  /\ at = "draw" /\ graphic_mode = "graphic"
  /\ fb' = [p \in Places |-> IF p \in Covered(size)
                              THEN Glyph(vram[CellAt[size][p]], dac, FALSE) ELSE fb[p]]
  /\ at' = "redraw"
  /\ UNCHANGED <<guest, graphic_mode, cache, retrace_phase, full, lost, g_dirty, view>>

(* full_update || update_palette16(...): a full update does not look at    *)
(* the palette, so the next refresh finds it changed and draws again.      *)
PaletteChanged == ~full /\ dac # last_palette

(* Mutated: the cell the cursor leaves is not invalidated. *)
InvalidatedOnlyNew == IF cursor # last_cursor THEN {cursor} ELSE {}

Invalidated == IF cursor # last_cursor THEN {cursor, last_cursor} ELSE {}

(* Cells that this refresh draws, where they are on the screen. *)
Stale(all) ==
  {c \in Cells : all \/ last_ch_attr[c] # vram[c] \/ c \in Invalidated \/ c = cursor}

(* The geometry is noted as its counts; last_size remembers all of it.     *)
SizeChanged == last_size = None \/ Compared[size] # Compared[last_size]

VgaTextRefresh ==
  /\ at = "draw" /\ graphic_mode = "text" /\ size \in Fits
  /\ LET palette == IF PaletteChanged THEN dac ELSE last_palette
         all == full \/ PaletteChanged \/ SizeChanged
         drawn == {p \in Covered(size) : CellAt[size][p] \in Stale(all)}
     IN  /\ last_palette' = palette
         /\ last_ch_attr' = [c \in Cells |->
                               IF \E p \in drawn : CellAt[size][p] = c THEN vram[c]
                               ELSE IF c \in Invalidated THEN None ELSE last_ch_attr[c]]
         /\ fb' = [p \in Places |->
                     IF p \in drawn
                     THEN Glyph(vram[CellAt[size][p]], palette, CellAt[size][p] = cursor)
                     ELSE fb[p]]
         /\ lost' = IF all THEN "no" ELSE IF size # last_size THEN "places" ELSE lost
  /\ last_size' = size /\ last_cursor' = cursor
  /\ at' = "redraw"
  /\ UNCHANGED <<guest, graphic_mode, retrace_phase, full, g_dirty, view>>

(* The text does not fit: the refresh returns, with the palette updated,   *)
(* and what it had to draw anew is not asked for again.                    *)
NotEnoughSpace ==
  /\ at = "draw" /\ graphic_mode = "text" /\ size \notin Fits
  /\ last_palette' = IF PaletteChanged THEN dac ELSE last_palette
  /\ lost' = IF lost = "no" /\ (full \/ PaletteChanged) THEN "cells" ELSE lost
  /\ at' = "run" /\ full' = FALSE
  /\ UNCHANGED <<guest, graphic_mode, last_ch_attr, last_size, last_cursor,
                 retrace_phase, fb, g_dirty, view>>

(* Mutated: a frame is announced only when a full update drew it. *)
RedrawCbOnFull ==
  /\ at = "redraw"
  /\ g_dirty' = (g_dirty \/ full)
  /\ at' = "run" /\ full' = FALSE
  /\ UNCHANGED <<guest, graphic_mode, cache, retrace_phase, frame, view>>

(* redraw_func is called at the end of every refresh that drew. *)
RedrawCb ==
  /\ at = "redraw"
  /\ g_dirty' = TRUE
  /\ at' = "run" /\ full' = FALSE
  /\ UNCHANGED <<guest, graphic_mode, cache, retrace_phase, frame, view>>

Refresh == VgaRefresh \/ VgaGraphicRefresh \/ VgaTextRefresh \/ NotEnoughSpace \/ RedrawCb

-----------------------------------------------------------------------------
(* onDraw, called again and again: nativeTakeDirty reads and then clears   *)
(* the flag, and a taken flag copies the frame buffer.                     *)

TakeRead ==
  /\ ui = "draw"
  /\ took' = g_dirty
  /\ ui' = "clear"
  /\ UNCHANGED <<guest, graphic_mode, cache, retrace_phase, at, full, frame, g_dirty, bmp>>

TakeClear ==
  /\ ui = "clear"
  /\ g_dirty' = FALSE
  /\ ui' = IF took THEN "copy" ELSE "draw"
  /\ took' = FALSE
  /\ UNCHANGED <<guest, graphic_mode, cache, retrace_phase, at, full, frame, bmp>>

CopyPixels ==
  /\ ui = "copy"
  /\ bmp' = fb
  /\ ui' = "draw"
  /\ UNCHANGED <<guest, graphic_mode, cache, retrace_phase, at, full, frame, g_dirty, took>>

OnDraw == TakeRead \/ TakeClear \/ CopyPixels

-----------------------------------------------------------------------------
Next == GuestWrites \/ RetraceDue \/ Refresh \/ OnDraw

(* The retrace timer and both threads keep going. *)
Spec == Init /\ [][Next]_vars /\ WF_vars(RetraceDue) /\ WF_vars(Refresh) /\ WF_vars(OnDraw)

-----------------------------------------------------------------------------
(* The variables have their types. *)
Picture == [Places -> [ch : Chars \union {None}, col : Colours \union {None}, cur : BOOLEAN]]

TypeOK ==
  /\ vram \in [Cells -> Chars] /\ dac \in Colours /\ size \in Sizes
  /\ cursor \in Cells /\ mode \in Modes
  /\ graphic_mode \in Modes \union {"blank"}
  /\ last_ch_attr \in [Cells -> Chars \union {None}]
  /\ last_palette \in Colours \union {None}
  /\ last_size \in Fits \union {None} /\ last_cursor \in Cells \union {None}
  /\ retrace_phase \in 0..2
  /\ at \in {"run", "refresh", "draw", "redraw"} /\ full \in BOOLEAN
  /\ fb \in Picture /\ bmp \in Picture /\ lost \in {"no", "cells", "places"}
  /\ g_dirty \in BOOLEAN /\ took \in BOOLEAN /\ ui \in {"draw", "clear", "copy"}

(* In text mode a cell that vga_text_refresh would skip, because its       *)
(* cached character and the palette and geometry are those of the guest,   *)
(* already shows them, and no cursor left over from an earlier position,   *)
(* whatever the guest did between refreshes.  Not so after three things    *)
(* that the refresh does not notice: an extended mode that was enabled and *)
(* left between two refreshes, a refresh abandoned because the text did    *)
(* not fit, and a change of the dots of a character.                       *)
SkippedCellsAreCurrent ==
  (graphic_mode = "text" /\ at = "run" /\ lost = "no" /\ size = last_size /\ dac = last_palette) =>
    \A p \in Covered(size) :
      LET c == CellAt[size][p]
      IN c \notin {cursor, last_cursor} /\ last_ch_attr[c] = vram[c] =>
           fb[p] = Glyph(vram[c], dac, FALSE)

(* Even where a refresh was abandoned or the frame buffer cleared, the      *)
(* text that was drawn last shows no character other than those that the   *)
(* refresh believes it shows.                                              *)
NoForeignCharacter ==
  (graphic_mode = "text" /\ at = "run" /\ last_size # None) =>
    \A p \in Covered(last_size) : fb[p].ch \in {last_ch_attr[CellAt[last_size][p]], None}

(* At most one cell of it shows the cursor, the one it was last drawn at,  *)
(* whatever the guest did to mode, geometry and cursor between refreshes.  *)
(* (Its margins are another matter: they keep what an earlier, wider text  *)
(* left there.)                                                            *)
OneCursor ==
  graphic_mode = "text" /\ last_size # None =>
    \A p \in Covered(last_size) : fb[p].cur => CellAt[last_size][p] = last_cursor

(* Around graphics nothing is left of earlier pictures. *)
BlackMargins ==
  graphic_mode = "graphic" => \A p \in Places \ Covered(size) : fb[p] = Black

(* What is drawn is clean, unless it lies among what was drawn in a layout *)
(* that the refresh takes for the same.                                    *)
RedrawIsClean == TypeOK /\ (lost # "places" => OneCursor /\ NoForeignCharacter /\ BlackMargins)

(* What the guest means the user to see. *)
Intended(p) ==
  LET c == CellAt[size][p] IN Glyph(vram[c], dac, mode = "text" /\ c = cursor)

(* From some time on it writes no register.  (A guest that only repeats a   *)
(* write to the CRT controller clears the screen each time.)               *)
GuestQuiet == <>[][~GuestWrites]_vars

(* nativeTakeDirty is not atomic: a frame announced between its read and   *)
(* its clear is not taken.  Not every frame falls there.                   *)
NotAlwaysLost == []<><<RedrawCb /\ ui # "clear">>_vars

(* If the guest leaves the screen alone, the user comes to see it and goes *)
(* on seeing it, although single frames are lost by nativeTakeDirty or     *)
(* copied half drawn: every refresh announces its frame again.  Graphics   *)
(* are always seen; text, when the refresh knows what it must draw.        *)
UserSeesScreen ==
  GuestQuiet /\ NotAlwaysLost =>
    <>[](mode = "graphic" \/ (mode = "text" /\ lost = "no")
           => \A p \in Covered(size) : bmp[p] = Intended(p))
=============================================================================
