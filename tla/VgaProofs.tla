------------------------------ MODULE VgaProofs ------------------------------
(***************************************************************************)
(* What is drawn, for any cells, characters and palettes; the attribute    *)
(* and palette ports, for any values, any indices and a palette of any     *)
(* size; the graphics extension, for any modes that the CRT controller can *)
(* count; and memory, for bytes of any width and any multiple of sixteen   *)
(* bytes in the window.                                                    *)
(***************************************************************************)
EXTENDS DisplayParts, VgaPorts, SequenceTheorems, TLAPS

-----------------------------------------------------------------------------
(* The refresh of the screen. *)
(* Geometries that fit are geometries. *)
Assumed == Fits \subseteq Sizes

(* Of the text that was drawn last: it holds of every state in text mode,   *)
(* not only between two refreshes.                                         *)
Characters ==
  graphic_mode = "text" /\ last_size # Screen!None =>
    \A p \in Screen!Covered(last_size) : fb[p].ch \in {last_ch_attr[CellAt[last_size][p]], Screen!None}

Tidy == lost # "places" => Screen!OneCursor /\ Characters /\ Screen!BlackMargins

(* The frame buffer shows what the caches say, unless a full update is     *)
(* still to be drawn.                                                      *)
Remembered ==
  graphic_mode = "text" /\ lost = "no" /\ ~(at = "draw" /\ full) =>
    \A p \in Screen!Covered(last_size) :
      LET c == CellAt[last_size][p]
      IN fb[p] = Screen!Glyph(last_ch_attr[c], last_palette, c = last_cursor)

-----------------------------------------------------------------------------
LEMMA GlyphType ==
  ASSUME NEW ch \in Chars \union {Screen!None}, NEW col \in Palettes \union {Screen!None},
         NEW cur \in BOOLEAN
  PROVE  Screen!Glyph(ch, col, cur) \in
            [ch : Chars \union {Screen!None}, col : Palettes \union {Screen!None}, cur : BOOLEAN]
BY DEF Screen!Glyph

LEMMA BlackType == Screen!Cleared \in Screen!Picture
BY DEF Screen!Black, Screen!Cleared, Screen!Picture

LEMMA CoveredIn ==
  ASSUME NEW s, NEW p \in Screen!Covered(s)
  PROVE  p \in Places /\ CellAt[s][p] \in Cells
BY DEF Screen!Covered

LEMMA InitType ==
  ASSUME Assumed, Screen!Init
  PROVE  Screen!TypeOK
<1>1. fb \in Screen!Picture /\ bmp \in Screen!Picture /\ lost \in {"no", "cells", "places"}
  BY BlackType DEF Screen!Init
<1>2. full \in BOOLEAN /\ took \in BOOLEAN /\ g_dirty \in BOOLEAN
  BY Zenon DEF Screen!Init
<1>3. /\ vram \in [Cells -> Chars] /\ dac \in Palettes /\ size \in Sizes
      /\ cursor \in Cells /\ mode \in Modes
      /\ graphic_mode \in Modes \union {"blank"}
      /\ last_ch_attr \in [Cells -> Chars \union {Screen!None}]
      /\ last_palette \in Palettes \union {Screen!None}
      /\ last_size \in Fits \union {Screen!None} /\ last_cursor \in Cells \union {Screen!None}
      /\ retrace_phase \in 0..2
      /\ at \in {"run", "refresh", "draw", "redraw"}
      /\ ui \in {"draw", "clear", "copy"}
  BY DEF Screen!Init, Assumed
<1> QED
  BY <1>1, <1>2, <1>3 DEF Screen!TypeOK

(* The places drawn and the places kept make a picture. *)
LEMMA TextRefreshEffect ==
  ASSUME Screen!TypeOK, Screen!VgaTextRefresh
  PROVE  /\ last_palette' \in {dac, last_palette}
         /\ last_ch_attr' \in [Cells -> Chars \union {Screen!None}]
         /\ fb' \in Screen!Picture /\ lost' \in {"no", "cells", "places"}
         /\ graphic_mode = "text" /\ graphic_mode' = "text"
         /\ last_cursor' = cursor /\ last_size' = size /\ size \in Fits
         /\ \A p \in Screen!Covered(size) :
              LET c == CellAt[size][p]
              IN \/ /\ last_ch_attr'[c] = vram[c]
                    /\ fb'[p] = Screen!Glyph(vram[c], last_palette', c = cursor)
                 \/ /\ last_ch_attr'[c] = last_ch_attr[c] /\ fb'[p] = fb[p]
                    /\ ~full /\ last_palette' = last_palette
                    /\ c # cursor /\ c # last_cursor
                    /\ lost' = IF size # last_size THEN "places" ELSE lost
                    /\ last_size # Screen!None
<1> DEFINE palette == IF Screen!PaletteChanged THEN dac ELSE last_palette
           all == full \/ Screen!PaletteChanged \/ Screen!SizeChanged
           At(p) == CellAt[size][p]
           drawn == {p \in Screen!Covered(size) : At(p) \in Screen!Stale(all)}
           Drawn(c) == \E p \in drawn : At(p) = c
<1>1. /\ last_palette' = palette
      /\ last_ch_attr' = [c \in Cells |-> IF Drawn(c) THEN vram[c]
                                         ELSE IF c \in Screen!Invalidated THEN Screen!None
                                         ELSE last_ch_attr[c]]
      /\ fb' = [p \in Places |->
                   IF p \in drawn THEN Screen!Glyph(vram[At(p)], palette, At(p) = cursor) ELSE fb[p]]
      /\ lost' = IF all THEN "no" ELSE IF size # last_size THEN "places" ELSE lost
      /\ graphic_mode = "text" /\ graphic_mode' = "text"
      /\ last_cursor' = cursor /\ last_size' = size /\ size \in Fits
  BY DEF Screen!VgaTextRefresh
<1>2. palette \in {dac, last_palette} /\ palette \in Palettes \union {Screen!None}
  BY DEF Screen!TypeOK
<1>0. \A p \in Screen!Covered(size) : p \in Places /\ At(p) \in Cells
  BY CoveredIn
<1>3. ASSUME NEW p \in Screen!Covered(size), At(p) \notin Screen!Stale(all)
      PROVE  /\ ~full /\ palette = last_palette /\ At(p) # cursor /\ At(p) # last_cursor
             /\ ~all /\ last_size # Screen!None /\ At(p) \notin Screen!Invalidated
  <2>1. At(p) \in Cells  BY <1>0
  <2>2. ~all /\ At(p) \notin Screen!Invalidated /\ At(p) # cursor
    BY <1>3, <2>1 DEF Screen!Stale
  <2>3. At(p) # last_cursor  BY <2>2 DEF Screen!Invalidated
  <2>4. last_size # Screen!None  BY <2>2 DEF Screen!SizeChanged
  <2> QED  BY <2>2, <2>3, <2>4
<1> HIDE DEF palette
<1>4. last_ch_attr' \in [Cells -> Chars \union {Screen!None}]
  <2>1. vram \in [Cells -> Chars] /\ last_ch_attr \in [Cells -> Chars \union {Screen!None}]
    BY DEF Screen!TypeOK
  <2> HIDE DEF Drawn
  <2> QED  BY <1>1, <2>1
<1>5. \A p \in drawn : Screen!Glyph(vram[At(p)], palette, At(p) = cursor)
         \in
            [ch : Chars \union {Screen!None}, col : Palettes \union {Screen!None}, cur : BOOLEAN]
  <2> TAKE p \in drawn
  <2>1. vram[At(p)] \in Chars \union {Screen!None}  BY <1>0 DEF Screen!TypeOK
  <2> QED  BY <1>2, <2>1, GlyphType
<1>6. fb' \in Screen!Picture
  <2> HIDE DEF drawn
  <2> QED  BY <1>1, <1>5 DEF Screen!TypeOK, Screen!Picture
<1>8. lost' \in {"no", "cells", "places"}  BY <1>1 DEF Screen!TypeOK
<1>7. ASSUME NEW p \in Screen!Covered(size)
      PROVE  LET c == At(p)
             IN \/ /\ last_ch_attr'[c] = vram[c]
                   /\ fb'[p] = Screen!Glyph(vram[c], last_palette', c = cursor)
                \/ /\ last_ch_attr'[c] = last_ch_attr[c] /\ fb'[p] = fb[p]
                   /\ ~full /\ last_palette' = last_palette
                   /\ c # cursor /\ c # last_cursor
                   /\ lost' = IF size # last_size THEN "places" ELSE lost
                   /\ last_size # Screen!None
  <2>0. p \in Places /\ At(p) \in Cells  BY <1>0
  <2>1. CASE At(p) \in Screen!Stale(all)
    <3>1. p \in drawn /\ Drawn(At(p))  BY <2>1
    <3>2. last_ch_attr'[At(p)] = vram[At(p)]  BY <1>1, <2>0, <3>1
    <3>3. fb'[p] = Screen!Glyph(vram[At(p)], palette, At(p) = cursor)  BY <1>1, <2>0, <3>1
    <3> QED  BY <1>1, <3>2, <3>3
  <2>2. CASE At(p) \notin Screen!Stale(all)
    <3>1. p \notin drawn /\ ~Drawn(At(p))  BY <2>2
    <3>2. /\ ~full /\ palette = last_palette /\ At(p) # cursor /\ At(p) # last_cursor
          /\ ~all /\ last_size # Screen!None /\ At(p) \notin Screen!Invalidated
      BY <1>3, <2>2
    <3> HIDE DEF all, drawn, Drawn, At
    <3>3. last_ch_attr'[At(p)] = last_ch_attr[At(p)] /\ fb'[p] = fb[p]
      BY <1>1, <2>0, <3>1, <3>2
    <3> QED  BY <1>1, <3>2, <3>3
  <2> QED  BY <2>1, <2>2
<1> QED
  BY <1>1, <1>2, <1>4, <1>6, <1>7, <1>8

LEMMA StepType ==
  ASSUME Screen!TypeOK, [Screen!Next]_Screen!vars
  PROVE  Screen!TypeOK'
<1>1. CASE UNCHANGED Screen!vars
  BY <1>1 DEF Screen!TypeOK, Screen!vars, Screen!guest, Screen!cache, Screen!view, Screen!frame
<1>2. CASE Screen!GuestWrites
  <2>1. /\ vram' \in [Cells -> Chars] /\ dac' \in Palettes /\ size' \in Sizes
        /\ cursor' \in Cells /\ mode' \in Modes
        /\ fb' \in Screen!Picture /\ lost' \in {"no", "cells", "places"}
    <3>1. CASE Screen!PlainWrite
      BY <3>1 DEF Screen!PlainWrite, Screen!frame, Screen!TypeOK
    <3>2. CASE Screen!CrtcWrite
      BY <3>2, BlackType DEF Screen!CrtcWrite, Screen!frame, Screen!TypeOK
    <3>3. CASE Screen!SequencerWrite
      BY <3>3 DEF Screen!SequencerWrite, Screen!TypeOK
    <3>4. CASE Screen!VbeWrite
      BY <3>4, BlackType DEF Screen!VbeWrite, Screen!TypeOK
    <3> QED  BY <1>2, <3>1, <3>2, <3>3, <3>4 DEF Screen!GuestWrites
  <2>2. UNCHANGED <<graphic_mode, Screen!cache, retrace_phase, at, full, g_dirty, Screen!view>>
    BY <1>2 DEF Screen!GuestWrites
  <2> QED
    BY <2>1, <2>2 DEF Screen!TypeOK, Screen!cache, Screen!view
<1>3. CASE Screen!RetraceDue
  <2>1. retrace_phase' \in 0..2
    BY <1>3 DEF Screen!RetraceDue, Screen!TypeOK
  <2> QED
    BY <1>3, <2>1
       DEF Screen!RetraceDue, Screen!TypeOK, Screen!guest, Screen!cache, Screen!view, Screen!frame
<1>4. CASE Screen!VgaRefresh
  <2>1. full' \in BOOLEAN /\ fb' \in Screen!Picture /\ lost' \in {"no", "cells", "places"}
    BY <1>4, BlackType DEF Screen!VgaRefresh, Screen!TypeOK, Screen!frame
  <2> QED
    BY <1>4, <2>1 DEF Screen!VgaRefresh, Screen!TypeOK, Screen!guest, Screen!cache, Screen!view
<1>5. CASE Screen!VgaGraphicRefresh
  <2> DEFINE no == FALSE
  <2>1. \A p \in Screen!Covered(size) : Screen!Glyph(vram[CellAt[size][p]], dac, no)
          \in
            [ch : Chars \union {Screen!None}, col : Palettes \union {Screen!None}, cur : BOOLEAN]
    BY GlyphType, CoveredIn DEF Screen!TypeOK
  <2>2. fb' \in Screen!Picture
    BY <1>5, <2>1 DEF Screen!VgaGraphicRefresh, Screen!Picture, Screen!TypeOK
  <2> QED
    BY <1>5, <2>2
       DEF Screen!VgaGraphicRefresh, Screen!TypeOK, Screen!guest, Screen!cache, Screen!view
<1>6. CASE Screen!VgaTextRefresh
  <2>1. /\ last_palette' \in {dac, last_palette}
        /\ last_ch_attr' \in [Cells -> Chars \union {Screen!None}]
        /\ fb' \in Screen!Picture /\ lost' \in {"no", "cells", "places"}
        /\ last_cursor' = cursor /\ last_size' = size /\ size \in Fits
    BY <1>6, TextRefreshEffect
  <2>2. /\ at' = "redraw"
        /\ UNCHANGED <<Screen!guest, graphic_mode, retrace_phase, full, g_dirty, Screen!view>>
    BY <1>6 DEF Screen!VgaTextRefresh
  <2> QED
    BY <2>1, <2>2 DEF Screen!TypeOK, Screen!guest, Screen!view
<1>7. CASE Screen!NotEnoughSpace
  <2>1. full' \in BOOLEAN /\ lost' \in {"no", "cells", "places"}
    <3>1. full' = FALSE /\ lost' \in {"cells", lost}  BY <1>7 DEF Screen!NotEnoughSpace
    <3> QED  BY <3>1 DEF Screen!TypeOK
  <2> QED
    BY <1>7, <2>1 DEF Screen!NotEnoughSpace, Screen!TypeOK, Screen!guest, Screen!view
<1>8. CASE Screen!RedrawCb
  <2>1. full' \in BOOLEAN /\ g_dirty' \in BOOLEAN
    BY <1>8, Zenon DEF Screen!RedrawCb
  <2> QED
    BY <1>8, <2>1
       DEF Screen!RedrawCb, Screen!TypeOK, Screen!guest, Screen!cache, Screen!view, Screen!frame
<1>9. CASE Screen!TakeRead
  BY <1>9 DEF Screen!TakeRead, Screen!TypeOK, Screen!guest, Screen!cache, Screen!frame
<1>10. CASE Screen!TakeClear
  <2>1. took' \in BOOLEAN /\ g_dirty' \in BOOLEAN
    BY <1>10, Zenon DEF Screen!TakeClear
  <2> QED
    BY <1>10, <2>1 DEF Screen!TakeClear, Screen!TypeOK, Screen!guest, Screen!cache, Screen!frame
<1>11. CASE Screen!CopyPixels
  BY <1>11 DEF Screen!CopyPixels, Screen!TypeOK, Screen!guest, Screen!cache, Screen!frame
<1> QED
  BY <1>1, <1>2, <1>3, <1>4, <1>5, <1>6, <1>7, <1>8, <1>9, <1>10, <1>11
     DEF Screen!Next, Screen!Refresh, Screen!OnDraw

(* What a port write of the guest does to the frame buffer: nothing, clear  *)
(* it, or, of another size, leave what is there.                           *)
LEMMA WriteEffect ==
  ASSUME Screen!GuestWrites
  PROVE  /\ UNCHANGED <<graphic_mode, last_ch_attr, last_palette, last_size, last_cursor, at, full>>
         /\ at = "run"
         /\ \/ fb' = Screen!Cleared
            \/ fb' = fb /\ lost' = lost /\ (size' = size \/ graphic_mode # "graphic")
            \/ fb' = fb /\ lost' = "places"
         /\ fb' # fb => lost' = IF graphic_mode = "text" THEN "cells" ELSE "no"
         /\ graphic_mode = "text" => lost' \in {lost, "cells"}
<1>1. UNCHANGED <<graphic_mode, last_ch_attr, last_palette, last_size, last_cursor, at, full>> /\ at = "run"
  BY DEF Screen!GuestWrites, Screen!cache
<1>2. CASE Screen!PlainWrite  BY <1>1, <1>2 DEF Screen!PlainWrite, Screen!frame
<1>3. CASE Screen!CrtcWrite  BY <1>1, <1>3 DEF Screen!CrtcWrite, Screen!frame
<1>4. CASE Screen!SequencerWrite  BY <1>1, <1>4 DEF Screen!SequencerWrite
<1>5. CASE Screen!VbeWrite  BY <1>1, <1>5 DEF Screen!VbeWrite
<1> QED  BY <1>1, <1>2, <1>3, <1>4, <1>5 DEF Screen!GuestWrites

(* Every other step leaves the frame buffer and what is remembered of it.  *)
LEMMA Elsewhere ==
  ASSUME Screen!Next, ~Screen!GuestWrites, ~Screen!VgaRefresh, ~Screen!VgaGraphicRefresh,
         ~Screen!VgaTextRefresh
  PROVE  /\ fb' = fb /\ graphic_mode' = graphic_mode /\ size' = size
         /\ last_ch_attr' = last_ch_attr /\ last_cursor' = last_cursor /\ last_size' = last_size
         /\ lost = "places" => lost' = "places"
         /\ \/ /\ at' # "draw" \/ (at' = at /\ full' = full)
               /\ at = "draw" => at' = at /\ full' = full
               /\ last_palette' = last_palette /\ lost' = lost
            \/ /\ at = "draw" /\ at' = "run" /\ lost' # "no"
               /\ lost' = "places" => lost = "places"
            \/ /\ at = "draw" /\ at' = "run" /\ ~full
               /\ last_palette' = last_palette /\ lost' = lost
<1>1. CASE Screen!RetraceDue
  BY <1>1 DEF Screen!RetraceDue, Screen!cache, Screen!guest, Screen!frame
<1>2. CASE Screen!NotEnoughSpace
  BY <1>2 DEF Screen!NotEnoughSpace, Screen!guest
<1>3. CASE Screen!RedrawCb
  BY <1>3 DEF Screen!RedrawCb, Screen!cache, Screen!guest, Screen!frame
<1>4. CASE Screen!OnDraw
  BY <1>4 DEF Screen!OnDraw, Screen!TakeRead, Screen!TakeClear, Screen!CopyPixels, Screen!cache,
              Screen!guest, Screen!frame
<1> QED
  BY <1>1, <1>2, <1>3, <1>4 DEF Screen!Next, Screen!Refresh

LEMMA ClearedFields ==
  ASSUME NEW p \in Places
  PROVE  /\ Screen!Cleared[p] = Screen!Black
         /\ Screen!Cleared[p].ch = Screen!None
         /\ Screen!Cleared[p].cur = FALSE
BY DEF Screen!Black, Screen!Cleared

(* What was cleared is tidy. *)
LEMMA ClearedTidy ==
  ASSUME fb' = Screen!Cleared
  PROVE  (Screen!OneCursor /\ Characters /\ Screen!BlackMargins)'
<1>1. \A s : \A p \in Screen!Covered(s) : p \in Places  BY CoveredIn
<1>2. \A p \in Places : fb'[p] = Screen!Black /\ fb'[p].ch = Screen!None /\ fb'[p].cur = FALSE
  BY ClearedFields
<1>3. Screen!OneCursor'  BY <1>1, <1>2 DEF Screen!OneCursor, Screen!Covered
<1>4. Characters'  BY <1>1, <1>2 DEF Characters, Screen!Covered
<1>5. Screen!BlackMargins'  BY <1>2 DEF Screen!BlackMargins
<1> QED  BY <1>3, <1>4, <1>5

LEMMA TidyStep ==
  ASSUME Screen!TypeOK, Tidy, [Screen!Next]_Screen!vars
  PROVE  Tidy'
<1>0. SUFFICES ASSUME lost' # "places"
               PROVE  (Screen!OneCursor /\ Characters /\ Screen!BlackMargins)'
  BY DEF Tidy
<1>1. CASE Screen!VgaRefresh
  <2>1. CASE mode = graphic_mode
    <3>1. UNCHANGED <<fb, lost, graphic_mode, size, last_size, last_ch_attr, last_cursor>>
      BY <1>1, <2>1 DEF Screen!VgaRefresh, Screen!frame, Screen!guest, Screen!cache
    <3> QED  BY <1>0, <3>1 DEF Tidy, Screen!OneCursor, Characters, Screen!BlackMargins, Screen!Covered
  <2>2. CASE mode # graphic_mode
    <3>1. fb' = Screen!Cleared  BY <1>1, <2>2 DEF Screen!VgaRefresh
    <3> QED  BY <3>1, ClearedTidy
  <2> QED
    BY <2>1, <2>2
<1>2. CASE Screen!VgaGraphicRefresh
  <2>1. /\ graphic_mode = "graphic" /\ graphic_mode' = "graphic" /\ size' = size /\ lost' = lost
        /\ \A p \in Places \ Screen!Covered(size) : fb'[p] = fb[p]
    BY <1>2 DEF Screen!VgaGraphicRefresh, Screen!guest
  <2>2. Screen!OneCursor' /\ Characters'  BY <2>1 DEF Screen!OneCursor, Characters
  <2>3. Screen!BlackMargins'
    BY <1>0, <2>1 DEF Tidy, Screen!BlackMargins, Screen!Covered
  <2> QED  BY <2>2, <2>3
<1>3. CASE Screen!VgaTextRefresh
  <2>0. graphic_mode = "text" /\ graphic_mode' = "text" /\ last_cursor' = cursor /\ last_size' = size
    BY <1>3, TextRefreshEffect
  <2>2. ASSUME NEW p \in Screen!Covered(size)
        PROVE  /\ fb'[p].cur => CellAt[size][p] = cursor
               /\ fb'[p].ch \in {last_ch_attr'[CellAt[size][p]], Screen!None}
    <3> DEFINE c == CellAt[size][p]
    <3>1. \/ /\ last_ch_attr'[c] = vram[c]
             /\ fb'[p] = Screen!Glyph(vram[c], last_palette', c = cursor)
          \/ /\ last_ch_attr'[c] = last_ch_attr[c] /\ fb'[p] = fb[p]
             /\ c # last_cursor /\ last_size # Screen!None
             /\ lost' = IF size # last_size THEN "places" ELSE lost
      BY <1>3, TextRefreshEffect
    <3> HIDE DEF c
    <3>2. CASE fb'[p] = Screen!Glyph(vram[c], last_palette', c = cursor) /\ last_ch_attr'[c] = vram[c]
      <4> DEFINE g == Screen!Glyph(vram[c], last_palette', c = cursor)
      <4>1. g.ch = vram[c] /\ (g.cur => c = cursor)
        BY DEF Screen!Glyph
      <4> HIDE DEF g
      <4>2. fb'[p].ch = last_ch_attr'[c] /\ (fb'[p].cur => c = cursor)
        BY <3>2, <4>1 DEF g
      <4> QED
        BY <4>2 DEF c
    <3>3. CASE /\ last_ch_attr'[c] = last_ch_attr[c] /\ fb'[p] = fb[p]
               /\ c # last_cursor /\ last_size # Screen!None
               /\ lost' = IF size # last_size THEN "places" ELSE lost
      <4>1. size = last_size /\ lost # "places"  BY <1>0, <3>3
      <4>2. Screen!OneCursor /\ Characters  BY <4>1 DEF Tidy
      <4> QED
        BY <2>0, <3>3, <4>1, <4>2 DEF Screen!OneCursor, Characters, c
    <3> QED
      BY <3>1, <3>2, <3>3
  <2>3. Screen!OneCursor'  BY <2>0, <2>2 DEF Screen!OneCursor, Screen!Covered
  <2>4. Characters'  BY <2>0, <2>2 DEF Characters, Screen!Covered
  <2>5. Screen!BlackMargins'  BY <2>0 DEF Screen!BlackMargins
  <2> QED
    BY <2>3, <2>4, <2>5
<1>4. CASE UNCHANGED Screen!vars
  <2>1. UNCHANGED <<fb, lost, graphic_mode, size, last_size, last_ch_attr, last_cursor>>
    BY <1>4 DEF Screen!vars, Screen!frame, Screen!guest, Screen!cache
  <2> QED  BY <1>0, <2>1 DEF Tidy, Screen!OneCursor, Characters, Screen!BlackMargins, Screen!Covered
<1>5. CASE Screen!GuestWrites
  <2>1. CASE fb' = Screen!Cleared  BY <2>1, ClearedTidy
  <2>2. CASE fb' # Screen!Cleared
    <3>1. /\ UNCHANGED <<fb, lost, graphic_mode, last_size, last_ch_attr, last_cursor>>
          /\ size' = size \/ graphic_mode # "graphic"
      BY <1>0, <1>5, <2>2, WriteEffect
    <3> QED  BY <1>0, <3>1 DEF Tidy, Screen!OneCursor, Characters, Screen!BlackMargins, Screen!Covered
  <2> QED  BY <2>1, <2>2
<1>6. CASE /\ Screen!Next /\ ~Screen!GuestWrites /\ ~Screen!VgaRefresh /\ ~Screen!VgaGraphicRefresh
           /\ ~Screen!VgaTextRefresh
  <2>1. UNCHANGED <<fb, graphic_mode, size, last_size, last_ch_attr, last_cursor>>
    BY <1>6, Elsewhere
  <2>2. lost # "places"
    BY <1>0, <1>6, Elsewhere
  <2> QED  BY <2>1, <2>2 DEF Tidy, Screen!OneCursor, Characters, Screen!BlackMargins, Screen!Covered
<1> QED
  BY <1>1, <1>2, <1>3, <1>4, <1>5, <1>6

LEMMA RememberedStep ==
  ASSUME Screen!TypeOK, Remembered, [Screen!Next]_Screen!vars
  PROVE  Remembered'
<1>1. CASE Screen!VgaRefresh
  <2>1. CASE mode = graphic_mode
    BY <1>1, <2>1 DEF Screen!VgaRefresh, Remembered, Screen!cache, Screen!frame, Screen!Covered
  <2>2. CASE mode # graphic_mode
    BY <1>1, <2>2 DEF Screen!VgaRefresh, Remembered
  <2> QED
    BY <2>1, <2>2
<1>2. CASE Screen!VgaGraphicRefresh
  BY <1>2 DEF Screen!VgaGraphicRefresh, Remembered
<1>3. CASE Screen!VgaTextRefresh
  <2>0. graphic_mode = "text" /\ last_cursor' = cursor /\ last_size' = size /\ size \in Fits
    BY <1>3, TextRefreshEffect
  <2> SUFFICES ASSUME lost' = "no"
               PROVE  \A p \in Screen!Covered(size) :
                        LET c == CellAt[size][p]
                        IN fb'[p] = Screen!Glyph(last_ch_attr'[c], last_palette', c = last_cursor')
    BY <2>0 DEF Remembered, Screen!Covered
  <2>2. ASSUME NEW p \in Screen!Covered(size)
        PROVE  LET c == CellAt[size][p]
               IN fb'[p] = Screen!Glyph(last_ch_attr'[c], last_palette', c = last_cursor')
    <3> DEFINE c == CellAt[size][p]
    <3>1. \/ /\ last_ch_attr'[c] = vram[c]
             /\ fb'[p] = Screen!Glyph(vram[c], last_palette', c = cursor)
          \/ /\ last_ch_attr'[c] = last_ch_attr[c] /\ fb'[p] = fb[p]
             /\ ~full /\ last_palette' = last_palette
             /\ c # cursor /\ c # last_cursor /\ last_size # Screen!None
             /\ lost' = IF size # last_size THEN "places" ELSE lost
      BY <1>3, TextRefreshEffect
    <3>2. CASE ~(last_ch_attr'[c] = vram[c] /\ fb'[p] = Screen!Glyph(vram[c], last_palette', c = cursor))
      <4>1. size = last_size /\ lost = "no" /\ ~full  BY <3>1, <3>2
      <4>2. fb[p] = Screen!Glyph(last_ch_attr[c], last_palette, c = last_cursor)
        BY <2>0, <4>1 DEF Remembered
      <4> HIDE DEF c
      <4>3. /\ last_ch_attr'[c] = last_ch_attr[c] /\ fb'[p] = fb[p] /\ last_palette' = last_palette
            /\ c # cursor /\ c # last_cursor
        BY <3>1, <3>2
      <4>4. (c = last_cursor) = (c = last_cursor')
        BY <2>0, <4>3, Zenon
      <4>5. fb'[p] = Screen!Glyph(last_ch_attr'[c], last_palette', c = last_cursor')
        BY <4>2, <4>3, <4>4
      <4> QED  BY <4>5 DEF c
    <3> QED  BY <2>0, <3>1, <3>2
  <2> QED
    BY <2>2
<1>4. CASE UNCHANGED Screen!vars
  BY <1>4 DEF Remembered, Screen!vars, Screen!cache, Screen!frame, Screen!Covered
<1>5. CASE Screen!GuestWrites
  <2>1. /\ UNCHANGED <<graphic_mode, last_ch_attr, last_palette, last_size, last_cursor, at, full>>
        /\ at = "run" /\ (graphic_mode = "text" => lost' \in {lost, "cells"})
        /\ fb' # fb => lost' = IF graphic_mode = "text" THEN "cells" ELSE "no"
    BY <1>5, WriteEffect
  <2> QED  BY <2>1 DEF Remembered, Screen!Covered
<1>6. CASE /\ Screen!Next /\ ~Screen!GuestWrites /\ ~Screen!VgaRefresh /\ ~Screen!VgaGraphicRefresh
           /\ ~Screen!VgaTextRefresh
  BY <1>6, Elsewhere DEF Remembered, Screen!Covered
<1> QED
  BY <1>1, <1>2, <1>3, <1>4, <1>5, <1>6

-----------------------------------------------------------------------------
(* Whatever the guest does to mode, geometry, cursor, memory and the        *)
(* extension, and also when a refresh is abandoned because the text does   *)
(* not fit, the places of the text drawn last show no cursor but the last  *)
(* and no character but the one they are believed to show, and nothing is  *)
(* left around graphics; until a text is drawn among another layout.       *)
THEOREM Clean == Assumed => (Screen!Spec => []RedrawIsClean)
<1> SUFFICES ASSUME Assumed PROVE Screen!Spec => []RedrawIsClean
  OBVIOUS
<1> DEFINE Inv == Screen!TypeOK /\ Tidy
<1>1. Screen!Init => Inv
  BY InitType DEF Screen!Init, Tidy, Screen!OneCursor, Characters, Screen!BlackMargins
<1>2. Inv /\ [Screen!Next]_Screen!vars => Inv'
  BY StepType, TidyStep
<1>3. Inv => RedrawIsClean
  BY DEF RedrawIsClean, Screen!RedrawIsClean, Tidy, Characters, Screen!NoForeignCharacter
<1> QED
  BY <1>1, <1>2, <1>3, PTL DEF Screen!Spec

(* The cells a refresh would skip already show what they should, so that   *)
(* skipping them is right, for geometries that fit and others, until a     *)
(* port write clears a text, a refresh is abandoned, or text is drawn      *)
(* among another layout, which the code does not notice.                   *)
THEOREM SkippingIsRight ==
  Assumed => (Screen!Spec => []SkippedCellsAreCurrent)
<1> SUFFICES ASSUME Assumed PROVE Screen!Spec => []SkippedCellsAreCurrent
  OBVIOUS
<1> DEFINE Inv == Screen!TypeOK /\ Remembered
<1>1. Screen!Init => Inv
  BY InitType DEF Screen!Init, Remembered
<1>2. Inv /\ [Screen!Next]_Screen!vars => Inv'
  BY StepType, RememberedStep
<1>3. Inv => SkippedCellsAreCurrent
  <2> SUFFICES ASSUME Inv, graphic_mode = "text", at = "run", lost = "no", size = last_size,
                      dac = last_palette, NEW p \in Screen!Covered(size),
                      CellAt[size][p] \notin {cursor, last_cursor},
                      last_ch_attr[CellAt[size][p]] = vram[CellAt[size][p]]
               PROVE  fb[p] = Screen!Glyph(vram[CellAt[size][p]], dac, FALSE)
    BY DEF SkippedCellsAreCurrent, Screen!SkippedCellsAreCurrent
  <2>1. fb[p] = Screen!Glyph(last_ch_attr[CellAt[size][p]], last_palette,
                             CellAt[size][p] = last_cursor)
    BY DEF Remembered
  <2> QED
    BY <2>1 DEF Screen!Glyph
<1> QED
  BY <1>1, <1>2, <1>3, PTL DEF Screen!Spec

-----------------------------------------------------------------------------
(* The ports. *)
Bytes == Colours \cup {{}}
PaletteBytes == [0 .. Entries - 1 -> [0 .. 2 -> Bytes]]

Registers ==
  [color : BOOLEAN, ar_flip_flop : {0, 1}, ar_index : Indices \cup {32},
   ar : [Attribute -> SUBSET (0 .. 7)],
   dac_sub_index : 0 .. 2, dac_read_index : 0 .. Entries - 1,
   dac_write_index : 0 .. Entries - 1, dac_cache : [0 .. 2 -> Bytes],
   palette : PaletteBytes]
Programs ==
  [attr : {"free", "synced", "index"}, index : Indices \cup {0},
   ar : [Attribute -> Values \cup {{}}],
   dac : {"none", "write", "read"}, entry : 0 .. Entries - 1,
   bytes : Seq(Bytes), palette : PaletteBytes, right : BOOLEAN]

VTypeOK == vga \in Registers /\ app \in Programs

(* Where the toggle stands while the guest counts on it. *)
ToggleKnown ==
  /\ app.attr = "synced" => vga.ar_flip_flop = 0
  /\ app.attr = "index" => vga.ar_flip_flop = 1 /\ vga.ar_index = app.index
AttributesKept == \A i \in Attribute : vga.ar[i] = app.ar[i] \cap KeptBits(i)

(* The counter and the cache hold what the guest has written of an entry.   *)
CounterKnown ==
  /\ app.dac # "none" => vga.dac_sub_index = Len(app.bytes)
  /\ app.dac = "read" => vga.dac_read_index = app.entry
  /\ app.dac = "write" => /\ vga.dac_write_index = app.entry
                          /\ \A k \in 0 .. 2 : k < Len(app.bytes) =>
                               vga.dac_cache[k] = app.bytes[k + 1]

SameColours(r) ==
  /\ r.dac_sub_index = vga.dac_sub_index /\ r.dac_read_index = vga.dac_read_index
  /\ r.dac_write_index = vga.dac_write_index /\ r.dac_cache = vga.dac_cache
  /\ r.palette = vga.palette

VInv == VTypeOK /\ ToggleKnown /\ AttributesKept /\ CounterKnown /\ PaletteAsWritten

-----------------------------------------------------------------------------
LEMMA InitHolds == Entries \in Nat \ {0} /\ Init => VInv
<1>. SUFFICES ASSUME Entries \in Nat \ {0}, Init PROVE VInv
  OBVIOUS
<1>1. <<>> \in Seq(Bytes) /\ {} \in Bytes /\ 0 \in 0 .. Entries - 1
  BY DEF Bytes
<1>2. /\ [i \in Attribute |-> {}] \in [Attribute -> SUBSET (0 .. 7)]
      /\ [i \in Attribute |-> {}] \in [Attribute -> Values \cup {{}}]
      /\ [i \in 0 .. Entries - 1 |-> [k \in 0 .. 2 |-> {}]] \in PaletteBytes
      /\ [k \in 0 .. 2 |-> {}] \in [0 .. 2 -> Bytes]
  BY <1>1 DEF PaletteBytes
<1>3. VTypeOK
  BY <1>1, <1>2 DEF VTypeOK, Registers, Programs, Init
<1>. QED
  BY <1>3 DEF VInv, Init, ToggleKnown, AttributesKept, CounterKnown, PaletteAsWritten

(* The attribute port leaves the palette alone. *)
LEMMA StatusPort ==
  ASSUME VInv, NEW color \in BOOLEAN,
         \/ WriteMisc(color) \/ StatusRead(color)
  PROVE  VInv'
<1>1. VTypeOK'
  <2>1. vga \in Registers /\ app \in Programs
    BY DEF VInv, VTypeOK
  <2>2. [vga EXCEPT !.color = color] \in Registers
    BY <2>1 DEF Registers
  <2>3. [vga EXCEPT !.ar_flip_flop = 0] \in Registers
    BY <2>1 DEF Registers
  <2>4. \A a \in {"free", "synced"} : [app EXCEPT !.attr = a] \in Programs
    BY <2>1 DEF Programs
  <2>5. CASE WriteMisc(color)
    BY <2>1, <2>2, <2>5 DEF VTypeOK, WriteMisc
  <2>6. CASE StatusRead(color)
    BY <2>1, <2>3, <2>4, <2>6 DEF VTypeOK, StatusRead
  <2>. QED
    BY <2>5, <2>6
<1>2. /\ ToggleKnown' /\ AttributesKept'
  BY SMTT(30) DEF VInv, VTypeOK, Registers, Programs, ToggleKnown, AttributesKept, WriteMisc, StatusRead, KeptBits
<1>3. CounterKnown' /\ PaletteAsWritten'
  BY SMTT(30) DEF VInv, VTypeOK, Registers, Programs, CounterKnown, PaletteAsWritten, WriteMisc, StatusRead
<1>. QED
  BY <1>1, <1>2, <1>3 DEF VInv

LEMMA IndexPort == ASSUME VInv, NEW i \in Indices, WriteIndex(i) PROVE VInv'
<1>1. vga \in Registers /\ app \in Programs /\ vga.ar_flip_flop = 0
  BY DEF VInv, VTypeOK, ToggleKnown, WriteIndex
<1>2. /\ vga' \in Registers /\ vga'.ar_flip_flop = 1 /\ vga'.ar_index = i
      /\ SameColours(vga') /\ vga'.ar = vga.ar
  <2>. DEFINE stored == [vga EXCEPT !.ar_index = i]
  <2>1. /\ stored \in Registers /\ stored.ar_index = i /\ stored.ar = vga.ar
        /\ stored.ar_flip_flop = 0 /\ SameColours(stored)
    BY <1>1 DEF Registers, SameColours
  <2>2. vga' = [stored EXCEPT !.ar_flip_flop = 1 - @]
    BY <1>1 DEF WriteIndex, WriteAttributePort
  <2>. HIDE DEF stored
  <2>. QED
    BY <2>1, <2>2 DEF Registers, SameColours
<1>4. PICK more \in {"index", "free"} : app' = [app EXCEPT !.attr = more, !.index = i]
  BY DEF WriteIndex
<1>5. VTypeOK'
  <2>1. [app EXCEPT !.attr = more, !.index = i] \in Programs
    BY <1>1 DEF Programs
  <2>. QED
    BY <1>2, <1>4, <2>1 DEF VTypeOK
<1>6. ToggleKnown'
  BY <1>1, <1>2, <1>4 DEF ToggleKnown, Programs
<1>7. AttributesKept' /\ CounterKnown' /\ PaletteAsWritten'
  BY <1>1, <1>2, <1>4 DEF VInv, AttributesKept, CounterKnown, PaletteAsWritten,
                         SameColours, Programs, KeptBits
<1>. QED
  BY <1>5, <1>6, <1>7 DEF VInv

LEMMA DataPort == ASSUME VInv, NEW v \in Values, WriteAttribute(v) PROVE VInv'
<1>. DEFINE index == vga.ar_index % 32
            kept == IF index \in Attribute THEN [vga.ar EXCEPT ![index] = v \cap KeptBits(index)]
                    ELSE vga.ar
            asked == IF index \in Attribute THEN [app.ar EXCEPT ![index] = v] ELSE app.ar
<1>1. /\ vga \in Registers /\ app \in Programs /\ app.attr = "index"
      /\ vga.ar_flip_flop = 1 /\ vga.ar_index = app.index
  BY DEF VInv, VTypeOK, ToggleKnown, WriteAttribute
<1>2. /\ kept \in [Attribute -> SUBSET (0 .. 7)]
      /\ asked \in [Attribute -> Values \cup {{}}]
  <2>1. \A i : KeptBits(i) \subseteq 0 .. 7
    BY DEF KeptBits
  <2>2. /\ vga.ar \in [Attribute -> SUBSET (0 .. 7)]
        /\ app.ar \in [Attribute -> Values \cup {{}}]
    BY <1>1 DEF Registers, Programs
  <2>3. v \cap KeptBits(index) \in SUBSET (0 .. 7)
    BY <2>1
  <2>. HIDE DEF index
  <2>. QED
    BY <2>2, <2>3
<1>3. \A i \in Attribute : kept[i] = asked[i] \cap KeptBits(i)
  <2>1. /\ \A i \in Attribute : vga.ar[i] = app.ar[i] \cap KeptBits(i)
        /\ DOMAIN vga.ar = Attribute /\ DOMAIN app.ar = Attribute
    BY <1>1 DEF VInv, AttributesKept, Registers, Programs
  <2>. HIDE DEF index
  <2>. QED
    BY <2>1
<1>4. /\ vga' \in Registers /\ vga'.ar = kept /\ vga'.ar_flip_flop = 0 /\ SameColours(vga')
  <2>. DEFINE stored == [vga EXCEPT !.ar = kept]
  <2>1. vga' = [stored EXCEPT !.ar_flip_flop = 1 - @]
    <3>3. vga.ar_flip_flop # 0 /\ WriteAttributePort(0, v)
      BY <1>1 DEF WriteAttribute
    <3>1. CASE index \in Attribute
      <4>1. [vga EXCEPT !.ar[index] = v \cap KeptBits(index)] = stored
        BY <1>1, <3>1 DEF Registers
      <4>2. vga' = [[vga EXCEPT !.ar[index] = v \cap KeptBits(index)] EXCEPT !.ar_flip_flop = 1 - @]
        BY <3>1, <3>3, Zenon DEF WriteAttributePort
      <4>. QED
        BY <4>1, <4>2, Zenon
    <3>2. CASE index \notin Attribute
      <4>1. vga = stored
        BY <1>1, <3>2 DEF Registers
      <4>2. vga' = [vga EXCEPT !.ar_flip_flop = 1 - @]
        BY <3>2, <3>3, Zenon DEF WriteAttributePort
      <4>. QED
        BY <4>1, <4>2, Zenon
    <3>. QED
      BY <3>1, <3>2
  <2>. HIDE DEF kept
  <2>2. /\ stored \in Registers /\ stored.ar = kept
        /\ stored.ar_flip_flop = 1 /\ SameColours(stored)
    BY <1>1, <1>2 DEF Registers, SameColours
  <2>. HIDE DEF stored
  <2>. QED
    BY <2>1, <2>2 DEF Registers, SameColours
<1>5. /\ app' \in Programs /\ app'.ar = asked /\ app'.attr = "free"
      /\ app'.dac = app.dac /\ app'.bytes = app.bytes /\ app'.entry = app.entry
      /\ app'.palette = app.palette /\ app'.right = app.right
  <2>1. app' = [app EXCEPT !.attr = "free", !.ar = asked]
    BY <1>1 DEF WriteAttribute, Programs
  <2>. HIDE DEF asked
  <2>. QED
    BY <1>1, <1>2, <2>1 DEF Programs
<1>. HIDE DEF kept, asked
<1>6. ToggleKnown' /\ AttributesKept'
  BY <1>3, <1>4, <1>5 DEF ToggleKnown, AttributesKept, KeptBits
<1>7. CounterKnown' /\ PaletteAsWritten'
  BY <1>4, <1>5 DEF VInv, CounterKnown, PaletteAsWritten, SameColours
<1>. QED
  BY <1>4, <1>5, <1>6, <1>7 DEF VInv, VTypeOK

LEMMA IndexColour ==
  ASSUME VInv, NEW i \in 0 .. Entries - 1, SetWriteIndex(i) \/ SetReadIndex(i)
  PROVE  VInv'
<1>1. vga \in Registers /\ app \in Programs
  BY DEF VInv, VTypeOK
<1>2. /\ \/ vga' = [vga EXCEPT !.dac_write_index = i, !.dac_sub_index = 0]
         \/ vga' = [vga EXCEPT !.dac_read_index = i, !.dac_sub_index = 0]
      /\ \E d \in {"write", "read"} :
           app' = [app EXCEPT !.dac = d, !.entry = i, !.bytes = <<>>]
  BY DEF SetWriteIndex, SetReadIndex
<1>3. VTypeOK'
  <2>. DEFINE counted == [vga EXCEPT !.dac_sub_index = 0]
  <2>0. counted \in Registers
    BY <1>1 DEF Registers
  <2>. HIDE DEF counted
  <2>1. [counted EXCEPT !.dac_write_index = i] \in Registers
    BY <2>0 DEF Registers
  <2>2. [counted EXCEPT !.dac_read_index = i] \in Registers
    BY <2>0 DEF Registers
  <2>5. \/ vga' = [counted EXCEPT !.dac_write_index = i]
        \/ vga' = [counted EXCEPT !.dac_read_index = i]
    BY <1>1, <1>2 DEF counted, Registers
  <2>3. <<>> \in Seq(Bytes)
    OBVIOUS
  <2>4. ASSUME NEW d \in {"write", "read"}
        PROVE  [app EXCEPT !.dac = d, !.entry = i, !.bytes = <<>>] \in Programs
    BY <1>1, <2>3 DEF Programs
  <2>. QED
    BY <1>2, <2>1, <2>2, <2>4, <2>5 DEF VTypeOK
<1>4. /\ vga'.ar_flip_flop = vga.ar_flip_flop /\ vga'.ar_index = vga.ar_index
      /\ vga'.ar = vga.ar /\ vga'.palette = vga.palette
      /\ app'.attr = app.attr /\ app'.index = app.index /\ app'.ar = app.ar
      /\ app'.palette = app.palette /\ app'.right = app.right
  <2>1. /\ app'.attr = app.attr /\ app'.index = app.index /\ app'.ar = app.ar
        /\ app'.palette = app.palette /\ app'.right = app.right
    BY <1>1, <1>2 DEF Programs
  <2>. QED
    BY <1>1, <1>2, <2>1 DEF Registers
<1>6. ToggleKnown' /\ AttributesKept' /\ PaletteAsWritten'
  BY <1>4 DEF VInv, ToggleKnown, AttributesKept, PaletteAsWritten, KeptBits
<1>5. CounterKnown'
  <2>1. CASE SetWriteIndex(i)
    BY <1>1, <2>1 DEF SetWriteIndex, CounterKnown, Registers, Programs
  <2>2. CASE SetReadIndex(i)
    BY <1>1, <2>2 DEF SetReadIndex, CounterKnown, Registers, Programs
  <2>. QED
    BY <2>1, <2>2
<1>. QED
  BY <1>3, <1>5, <1>6 DEF VInv

(* The program of the guest goes on by a byte, with the counter. *)
LEMMA WentOn ==
  ASSUME VInv, Entries \in Nat \ {0}, app.dac # "none", NEW v \in Bytes
  PROVE  /\ Went(v) \in Programs
         /\ Went(v).attr = app.attr /\ Went(v).index = app.index /\ Went(v).ar = app.ar
         /\ Went(v).dac = app.dac /\ Went(v).palette = app.palette /\ Went(v).right = app.right
         /\ vga.dac_sub_index < 2 =>
              Went(v).bytes = Append(app.bytes, v) /\ Went(v).entry = app.entry
         /\ vga.dac_sub_index = 2 =>
              Went(v).bytes = <<>> /\ Went(v).entry = (app.entry + 1) % Entries
<1>1. /\ app \in Programs /\ app.bytes \in Seq(Bytes)
      /\ Len(app.bytes) = vga.dac_sub_index /\ vga.dac_sub_index \in 0 .. 2
  BY DEF VInv, VTypeOK, CounterKnown, Registers, Programs
<1>2. Append(app.bytes, v) \in Seq(Bytes) /\ Len(Append(app.bytes, v)) = vga.dac_sub_index + 1
  BY <1>1, AppendProperties
<1>3. CASE vga.dac_sub_index < 2
  <2>. DEFINE longer == Append(app.bytes, v)
  <2>1. Len(longer) # 3 /\ longer \in Seq(Bytes)
    BY <1>1, <1>2, <1>3
  <2>2. Went(v) = [app EXCEPT !.bytes = longer]
    BY <2>1, Zenon DEF Went
  <2>. HIDE DEF longer
  <2>3. /\ Went(v) \in Programs
        /\ Went(v).attr = app.attr /\ Went(v).index = app.index /\ Went(v).ar = app.ar
        /\ Went(v).dac = app.dac /\ Went(v).palette = app.palette /\ Went(v).right = app.right
        /\ Went(v).bytes = longer /\ Went(v).entry = app.entry
    BY <1>1, <2>1, <2>2 DEF Programs
  <2>4. vga.dac_sub_index # 2
    BY <1>3
  <2>. QED
    BY <2>3, <2>4, Zenon DEF longer
<1>4. CASE vga.dac_sub_index = 2
  <2>1. Went(v) = [app EXCEPT !.bytes = <<>>, !.entry = (app.entry + 1) % Entries]
    BY <1>1, <1>2, <1>4 DEF Went
  <2>2. (app.entry + 1) % Entries \in 0 .. Entries - 1 /\ <<>> \in Seq(Bytes)
    <3>1. app.entry + 1 \in Int /\ Entries > 0
      BY <1>1 DEF Programs
    <3>. QED
      BY <3>1
  <2>3. [app EXCEPT !.bytes = <<>>, !.entry = (app.entry + 1) % Entries] \in Programs
    BY <1>1, <2>2 DEF Programs
  <2>. QED
    BY <1>1, <1>4, <2>1, <2>3 DEF Programs
<1>. QED
  BY <1>1, <1>3, <1>4

LEMMA ColourRead ==
  ASSUME VInv, Entries \in Nat \ {0}, ReadColour PROVE VInv'
<1>1. /\ vga \in Registers /\ app \in Programs /\ app.dac = "read"
      /\ vga.dac_sub_index = Len(app.bytes) /\ vga.dac_sub_index \in 0 .. 2
      /\ vga.dac_read_index = app.entry /\ vga.palette = app.palette /\ app.right
      /\ app.entry \in 0 .. Entries - 1
  BY DEF VInv, VTypeOK, CounterKnown, PaletteAsWritten, ReadColour, Registers, Programs
<1>0. vga.dac_sub_index \in Int /\ (vga.dac_sub_index < 2 \/ vga.dac_sub_index = 2)
      /\ 0 <= vga.dac_sub_index
  <2>1. vga.dac_sub_index \in 0 .. 2
    BY <1>1
  <2>. QED
    BY <2>1
<1>. DEFINE went == Went({})
<1>2. {} \in Bytes
  BY DEF Bytes
<1>3. /\ went \in Programs
      /\ went.attr = app.attr /\ went.index = app.index /\ went.ar = app.ar
      /\ went.dac = app.dac /\ went.palette = app.palette /\ went.right = app.right
      /\ vga.dac_sub_index < 2 =>
           went.bytes = Append(app.bytes, {}) /\ went.entry = app.entry
      /\ vga.dac_sub_index = 2 =>
           went.bytes = <<>> /\ went.entry = (app.entry + 1) % Entries
  BY <1>1, <1>2, WentOn
<1>4. app' = [went EXCEPT !.right = vga.palette[vga.dac_read_index][vga.dac_sub_index]
                                      = app.palette[app.entry][Len(app.bytes)]]
  BY DEF ReadColour
<1>. HIDE DEF went
<1>5. app' = [went EXCEPT !.right = TRUE]
  BY <1>1, <1>4
<1>6. /\ app' \in Programs
      /\ app'.attr = app.attr /\ app'.index = app.index /\ app'.ar = app.ar
      /\ app'.dac = "read" /\ app'.palette = app.palette /\ app'.right
      /\ app'.bytes = went.bytes /\ app'.entry = went.entry
  BY <1>1, <1>3, <1>5 DEF Programs
<1>7. /\ vga' \in Registers
      /\ vga'.ar_flip_flop = vga.ar_flip_flop /\ vga'.ar_index = vga.ar_index
      /\ vga'.ar = vga.ar /\ vga'.palette = vga.palette
      /\ vga.dac_sub_index < 2 =>
           vga'.dac_sub_index = vga.dac_sub_index + 1 /\ vga'.dac_read_index = app.entry
      /\ vga.dac_sub_index = 2 =>
           vga'.dac_sub_index = 0 /\ vga'.dac_read_index = (app.entry + 1) % Entries
  <2>1. CASE vga.dac_sub_index < 2
    <3>1. vga' = [vga EXCEPT !.dac_sub_index = vga.dac_sub_index + 1]
      BY <2>1 DEF ReadColour
    <3>. DEFINE n == vga.dac_sub_index + 1
    <3>2. n \in 0 .. 2 /\ vga.dac_sub_index # 2
      BY <1>0, <2>1
    <3>. HIDE DEF n
    <3>3. vga' = [vga EXCEPT !.dac_sub_index = n]
      BY <3>1 DEF n
    <3>4. /\ vga' \in Registers /\ vga'.dac_sub_index = n
          /\ vga'.ar_flip_flop = vga.ar_flip_flop /\ vga'.ar_index = vga.ar_index
          /\ vga'.ar = vga.ar /\ vga'.palette = vga.palette
          /\ vga'.dac_read_index = vga.dac_read_index
      BY <1>1, <3>2, <3>3 DEF Registers
    <3>. QED
      BY <1>1, <3>2, <3>4, Zenon DEF n
  <2>2. CASE vga.dac_sub_index = 2
    <3>. DEFINE counted == [vga EXCEPT !.dac_sub_index = 0]
                next == (vga.dac_read_index + 1) % Entries
    <3>1. vga' = [counted EXCEPT !.dac_read_index = next]
      BY <1>1, <2>2 DEF ReadColour, Registers
    <3>2. /\ counted \in Registers /\ counted.dac_sub_index = 0
          /\ counted.ar_flip_flop = vga.ar_flip_flop /\ counted.ar_index = vga.ar_index
          /\ counted.ar = vga.ar /\ counted.palette = vga.palette
      BY <1>1, SMTT(30) DEF Registers
    <3>3. next \in 0 .. Entries - 1 /\ next = (app.entry + 1) % Entries
      <4>1. app.entry + 1 \in Int /\ Entries > 0 /\ next = (app.entry + 1) % Entries
        BY <1>1
      <4>. QED
        BY <4>1
    <3>. HIDE DEF counted, next
    <3>4. /\ vga' \in Registers /\ vga'.dac_sub_index = 0 /\ vga'.dac_read_index = next
          /\ vga'.ar_flip_flop = vga.ar_flip_flop /\ vga'.ar_index = vga.ar_index
          /\ vga'.ar = vga.ar /\ vga'.palette = vga.palette
      BY <3>1, <3>2, <3>3 DEF Registers
    <3>5. ~(vga.dac_sub_index < 2)
      BY <1>0, <2>2
    <3>. QED
      BY <3>3, <3>4, <3>5, Zenon
  <2>. QED
    BY <1>0, <2>1, <2>2, Zenon
<1>8. CounterKnown'
  <2>3. Len(app'.bytes) = vga'.dac_sub_index /\ vga'.dac_read_index = app'.entry
    <3>1. Len(Append(app.bytes, {})) = Len(app.bytes) + 1
      BY <1>1, <1>2, AppendProperties DEF Programs
    <3>2. CASE vga.dac_sub_index < 2
      <4>1. app'.bytes = Append(app.bytes, {}) /\ app'.entry = app.entry
        BY <1>3, <1>6, <3>2, Zenon
      <4>2. vga'.dac_sub_index = Len(app.bytes) + 1 /\ vga'.dac_read_index = app.entry
        BY <1>1, <1>7, <3>2, Zenon
      <4>. QED
        BY <3>1, <4>1, <4>2, Zenon
    <3>3. CASE vga.dac_sub_index = 2
      <4>1. app'.bytes = <<>> /\ app'.entry = (app.entry + 1) % Entries
        BY <1>3, <1>6, <3>3, Zenon
      <4>2. vga'.dac_sub_index = 0 /\ vga'.dac_read_index = (app.entry + 1) % Entries
        BY <1>7, <3>3, Zenon
      <4>3. Len(<<>>) = 0
        OBVIOUS
      <4>. QED
        BY <4>1, <4>2, <4>3, Zenon
    <3>. QED
      BY <1>0, <3>2, <3>3, Zenon
  <2>. QED
    BY <1>6, <2>3 DEF CounterKnown
<1>9. ToggleKnown' /\ AttributesKept'
  <2>1. /\ vga'.ar_flip_flop = vga.ar_flip_flop /\ vga'.ar_index = vga.ar_index
        /\ vga'.ar = vga.ar /\ app'.attr = app.attr /\ app'.index = app.index /\ app'.ar = app.ar
    BY <1>6, <1>7, Zenon
  <2>. QED
    BY <2>1 DEF VInv, ToggleKnown, AttributesKept, KeptBits
<1>10. PaletteAsWritten'
  BY <1>1, <1>6, <1>7, Zenon DEF PaletteAsWritten
<1>. QED
  BY <1>6, <1>7, <1>8, <1>9, <1>10 DEF VInv, VTypeOK

(* The third byte stores three that were written in a row for the entry.   *)
LEMMA ColourWritten ==
  ASSUME VInv, Entries \in Nat \ {0}, NEW v \in Colours, WriteColour(v) PROVE VInv'
<1>. DEFINE n == vga.dac_sub_index
            bytes == Append(app.bytes, v)
            cache == [vga.dac_cache EXCEPT ![n] = v]
            went == Went(v)
            further == (app.entry + 1) % Entries
<1>1. /\ vga \in Registers /\ app \in Programs /\ app.dac = "write"
      /\ n = Len(app.bytes) /\ app.bytes \in Seq(Bytes) /\ v \in Bytes
      /\ vga.dac_cache \in [0 .. 2 -> Bytes]
      /\ app.entry \in 0 .. Entries - 1
      /\ \A k \in 0 .. 2 : k < Len(app.bytes) => vga.dac_cache[k] = app.bytes[k + 1]
  BY DEF VInv, VTypeOK, CounterKnown, WriteColour, Registers, Programs, Bytes
<1>2. n \in 0 .. 2 /\ (n < 2 \/ n = 2)
  <2>1. n \in 0 .. 2
    BY DEF VInv, VTypeOK, Registers
  <2>. QED
    BY <2>1
<1>3. vga.dac_write_index = app.entry /\ vga.palette = app.palette /\ app.palette \in PaletteBytes
  BY DEF VInv, VTypeOK, CounterKnown, PaletteAsWritten, WriteColour, Programs
<1>4. further \in 0 .. Entries - 1
  <2>1. app.entry + 1 \in Int /\ Entries > 0
    BY <1>1
  <2>. QED
    BY <2>1
<1>5. /\ bytes \in Seq(Bytes) /\ Len(bytes) = n + 1
      /\ \A k \in 0 .. 2 : k < n => bytes[k + 1] = app.bytes[k + 1]
      /\ bytes[n + 1] = v
  <2>1. /\ bytes \in Seq(Bytes) /\ Len(bytes) = Len(app.bytes) + 1
        /\ \A k \in 1 .. Len(app.bytes) : bytes[k] = app.bytes[k]
        /\ bytes[Len(app.bytes) + 1] = v
    BY <1>1, AppendProperties
  <2>2. \A k \in 0 .. 2 : k < n => k + 1 \in 1 .. n
    BY <1>2
  <2>. HIDE DEF bytes, n
  <2>. QED
    BY <1>1, <2>1, <2>2
<1>6. cache \in [0 .. 2 -> Bytes] /\ \A k \in 0 .. 2 : k < n + 1 => cache[k] = bytes[k + 1]
  <2>. HIDE DEF bytes, n
  <2>1. cache \in [0 .. 2 -> Bytes] /\ cache[n] = v
    BY <1>1, <1>2
  <2>2. ASSUME NEW k \in 0 .. 2, k < n PROVE cache[k] = bytes[k + 1]
    <3>1. k # n
      BY <1>2, <2>2
    <3>2. cache[k] = vga.dac_cache[k]
      BY <1>1, <3>1
    <3>3. vga.dac_cache[k] = app.bytes[k + 1]
      BY <1>1, <2>2
    <3>. QED
      BY <1>5, <2>2, <3>2, <3>3
  <2>3. \A k \in 0 .. 2 : k < n + 1 => k < n \/ k = n
    BY <1>2
  <2>. HIDE DEF cache
  <2>. QED
    BY <1>5, <2>1, <2>2, <2>3
<1>7. /\ went \in Programs
      /\ went.attr = app.attr /\ went.index = app.index /\ went.ar = app.ar
      /\ went.dac = app.dac /\ went.palette = app.palette /\ went.right = app.right
      /\ n < 2 => went.bytes = bytes /\ went.entry = app.entry
      /\ n = 2 => went.bytes = <<>> /\ went.entry = further
  BY <1>1, WentOn
<1>8. /\ n < 2 => vga' = [vga EXCEPT !.dac_cache = cache, !.dac_sub_index = n + 1] /\ app' = went
      /\ n = 2 => /\ vga' = [vga EXCEPT !.dac_cache = cache, !.dac_sub_index = 0,
                                   !.palette[vga.dac_write_index] = cache,
                                   !.dac_write_index = (@ + 1) % Entries]
                  /\ app' = [went EXCEPT !.palette[app.entry] = [k \in 0 .. 2 |-> bytes[k + 1]]]
  <2>1. n < 2 => Len(bytes) # 3
    BY <1>2, <1>5
  <2>2. n = 2 => Len(bytes) = 3 /\ ~(n < 2)
    BY <1>2, <1>5
  <2>. QED
    BY <2>1, <2>2, Zenon DEF WriteColour
<1>. HIDE DEF bytes, cache, went, further
<1>9. CASE n < 2
  <2>. DEFINE m == n + 1
  <2>1. m \in 0 .. 2
    BY <1>2, <1>9
  <2>2. Len(bytes) = m /\ (\A k \in 0 .. 2 : k < m => cache[k] = bytes[k + 1])
    BY <1>5, <1>6
  <2>3. vga' = [vga EXCEPT !.dac_cache = cache, !.dac_sub_index = m]
    BY <1>8, <1>9
  <2>. HIDE DEF m
  <2>4. /\ vga' \in Registers /\ vga'.dac_sub_index = m /\ vga'.dac_cache = cache
        /\ vga'.ar_flip_flop = vga.ar_flip_flop /\ vga'.ar_index = vga.ar_index
        /\ vga'.ar = vga.ar /\ vga'.palette = vga.palette
        /\ vga'.dac_write_index = vga.dac_write_index
    BY <1>1, <1>6, <2>1, <2>3 DEF Registers
  <2>5. /\ app' = went /\ went.bytes = bytes /\ went.entry = app.entry
    BY <1>7, <1>8, <1>9, Zenon
  <2>6. VTypeOK' /\ PaletteAsWritten'
    BY <1>3, <1>7, <2>4, <2>5, Zenon DEF VTypeOK, VInv, PaletteAsWritten
  <2>7. ToggleKnown' /\ AttributesKept'
    BY <1>7, <2>4, <2>5 DEF VInv, ToggleKnown, AttributesKept, KeptBits
  <2>8. CounterKnown'
    BY <1>1, <1>3, <1>7, <2>2, <2>4, <2>5 DEF CounterKnown
  <2>. QED
    BY <2>6, <2>7, <2>8 DEF VInv
<1>10. CASE n = 2
  <2>. DEFINE stored == [vga.palette EXCEPT ![app.entry] = cache]
  <2>1. cache = [k \in 0 .. 2 |-> bytes[k + 1]]
    <3>1. \A k \in 0 .. 2 : k < n + 1
      BY <1>10
    <3>2. \A k \in 0 .. 2 : cache[k] = bytes[k + 1]
      BY <1>6, <3>1
    <3>. QED
      BY <1>6, <3>2
  <2>2. stored \in PaletteBytes
    BY <1>1, <1>3, <1>6 DEF PaletteBytes
  <2>3. vga' = [vga EXCEPT !.dac_cache = cache, !.dac_sub_index = 0,
                          !.palette = stored, !.dac_write_index = further]
    BY <1>1, <1>3, <1>8, <1>10 DEF further, Registers
  <2>4. app' = [went EXCEPT !.palette = stored]
    BY <1>3, <1>7, <1>8, <1>10, <2>1 DEF Programs
  <2>. HIDE DEF stored
  <2>5. /\ vga' \in Registers /\ vga'.dac_sub_index = 0 /\ vga'.dac_cache = cache
        /\ vga'.ar_flip_flop = vga.ar_flip_flop /\ vga'.ar_index = vga.ar_index
        /\ vga'.ar = vga.ar /\ vga'.palette = stored /\ vga'.dac_write_index = further
    <3>. DEFINE cached == [vga EXCEPT !.dac_cache = cache]
                counted == [cached EXCEPT !.dac_sub_index = 0]
    <3>1. vga' = [counted EXCEPT !.palette = stored, !.dac_write_index = further]
      BY <1>1, <2>3 DEF Registers
    <3>3. /\ cached \in Registers /\ cached.dac_cache = cache
          /\ cached.ar_flip_flop = vga.ar_flip_flop /\ cached.ar_index = vga.ar_index
          /\ cached.ar = vga.ar
      BY <1>1, <1>6 DEF Registers
    <3>. HIDE DEF cached
    <3>2. /\ counted \in Registers /\ counted.dac_sub_index = 0 /\ counted.dac_cache = cache
          /\ counted.ar_flip_flop = vga.ar_flip_flop /\ counted.ar_index = vga.ar_index
          /\ counted.ar = vga.ar
      BY <3>3 DEF Registers
    <3>. HIDE DEF counted
    <3>. QED
      BY <1>4, <2>2, <3>1, <3>2 DEF Registers
  <2>6. /\ app' \in Programs
        /\ app'.attr = app.attr /\ app'.index = app.index /\ app'.ar = app.ar
        /\ app'.dac = app.dac /\ app'.palette = stored /\ app'.right = app.right
        /\ app'.bytes = <<>> /\ app'.entry = further
    BY <1>7, <1>10, <2>2, <2>4 DEF Programs
  <2>7. VTypeOK' /\ PaletteAsWritten'
    BY <2>5, <2>6, Zenon DEF VTypeOK, VInv, PaletteAsWritten
  <2>8. ToggleKnown' /\ AttributesKept'
    BY <2>5, <2>6 DEF VInv, ToggleKnown, AttributesKept, KeptBits
  <2>9. CounterKnown'
    BY <1>1, <2>5, <2>6 DEF CounterKnown
  <2>. QED
    BY <2>7, <2>8, <2>9 DEF VInv
<1>. QED
  BY <1>2, <1>9, <1>10

-----------------------------------------------------------------------------
LEMMA Inductive == Entries \in Nat \ {0} => (Spec => []VInv)
<1>. SUFFICES ASSUME Entries \in Nat \ {0} PROVE Spec => []VInv
  OBVIOUS
<1>1. Init => VInv
  BY InitHolds
<1>2. VInv /\ [Next]_vgaPortsVars => VInv'
  <2>. SUFFICES ASSUME VInv, [Next]_vgaPortsVars PROVE VInv'
    OBVIOUS
  <2>1. CASE UNCHANGED vgaPortsVars
    BY <2>1 DEF VInv, VTypeOK, ToggleKnown, AttributesKept, CounterKnown,
                PaletteAsWritten, KeptBits, vgaPortsVars
  <2>2. CASE Next
    BY <2>2, StatusPort, IndexPort, DataPort, IndexColour, ColourWritten, ColourRead
       DEF Next, AttributePort, PalettePort
  <2>. QED
    BY <2>1, <2>2
<1>. QED
  BY <1>1, <1>2, PTL DEF Spec

(* The toggle of port 3C0h is known to a guest that reads the status first: *)
(* the attributes are the ones that it wrote (vga_ioport_write).           *)
THEOREM AttributesHold ==
  ASSUME Entries \in Nat \ {0} PROVE Spec => []AttributesAsWritten
<1>1. VInv => AttributesAsWritten
  BY DEF VInv, AttributesKept, AttributesAsWritten
<1>. QED
  BY <1>1, Inductive, PTL

(* The palette is what was written, three bytes to an entry, and is read   *)
(* back so, though both directions share a counter (vga_ioport_read).      *)
THEOREM PaletteHolds ==
  ASSUME Entries \in Nat \ {0} PROVE Spec => []PaletteAsWritten
<1>1. VInv => PaletteAsWritten
  BY DEF VInv
<1>. QED
  BY <1>1, Inductive, PTL

(* Both ports together (vga_ioport_write).                                 *)
THEOREM PortsHold ==
  ASSUME Entries \in Nat \ {0} PROVE Spec => []PortsAsWritten
<1>1. VInv => PortsAsWritten
  BY DEF VInv, AttributesKept, AttributesAsWritten, PortsAsWritten
<1>. QED
  BY <1>1, Inductive, PTL

-----------------------------------------------------------------------------
(* The graphics extension. *)
VbeSpec == Vbe!Init /\ [][Vbe!Next]_Vbe!vgaVbeVars

(* Eight bits count the width in characters, ten the height in lines. *)
Widths == 0 .. 2048
Heights == 0 .. 1024
Depths == {4, 8, 15, 16, 24, 32}

VbeAssumed ==
  /\ DOMAIN Choices \subseteq {"xres", "yres", "bpp", "vw", "xo", "yo"}
  /\ \A name \in DOMAIN Choices : Choices[name] \subseteq Nat
  /\ "xres" \in DOMAIN Choices => Choices["xres"] \subseteq Widths
  /\ "yres" \in DOMAIN Choices => Choices["yres"] \subseteq Heights
  /\ Banks \in Nat \ {0}
  /\ \A i \in DOMAIN CrChoices : CrChoices[i] \subseteq 0 .. 255

VbeFields == {"xres", "yres", "bpp", "on", "bank", "vw", "vh", "xo", "yo", "line", "start", "bank_offset"}
HasFields(r) == r = [f \in VbeFields |-> r[f]]
IsVbe(r) ==
  /\ HasFields(r)
  /\ r.xres \in Widths /\ r.yres \in Heights /\ r.on \in BOOLEAN
  /\ r.bpp \in Nat /\ r.vw \in Nat /\ r.xo \in Nat /\ r.yo \in Nat

CrIndices == {1, 7, 9, 17, 18, 19}
HasIndices(c) == c = [i \in CrIndices |-> c[i]]
IsCr(c) == HasIndices(c) /\ \A i \in CrIndices : c[i] \in Int

Aligned(n) == n >= 8 /\ n % 8 = 0

(* A mode that needs no adjustment: what is drawn of it follows.            *)
Adjusted(r) ==
  /\ r.bpp \in Depths
  /\ Aligned(r.xres) /\ r.vw % 8 = 0 /\ r.vw >= r.xres /\ r.yres >= 1
  /\ r.line = (r.vw * Vbe!Bits(r)) \div 8
  /\ r.start = ((r.xo * Vbe!Bits(r)) \div 8 + r.yo * r.line) \div 4

Counted(r, c) ==
  /\ (c[1] + 1) * 8 = r.xres
  /\ c[18] + 256 * Vbe!Bit(c[7], 1) + 512 * Vbe!Bit(c[7], 6) + 1 = r.yres

VbeInv ==
  /\ IsVbe(vbe) /\ IsCr(cr)
  /\ (vbe.on /\ ~custom) => Adjusted(vbe) /\ Counted(vbe, cr) /\ Vbe!ModeIsLinear

(* The bits that the code sets, and those that it leaves. *)
LEMMA BitsSet ==
  ASSUME NEW v \in Int, NEW b \in {0, 1}, NEW c \in {0, 1},
         NEW w, w = Vbe!Set(Vbe!Set(Vbe!Set(v, 1, b), 6, c), 4, 1)
  PROVE  w \in Int /\ Vbe!Bit(w, 1) = b /\ Vbe!Bit(w, 6) = c
<1>1. 2^1 = 2 /\ 2^4 = 16 /\ 2^6 = 64  OBVIOUS
<1>2. \A n \in Int : Vbe!Bit(n, 1) = (n \div 2) % 2 /\ Vbe!Bit(n, 6) = (n \div 64) % 2
                     /\ Vbe!Bit(n, 4) = (n \div 16) % 2
  BY <1>1 DEF Vbe!Bit
<1>3. PICK v1 \in Int : v1 = v + 2 * (b - ((v \div 2) % 2))  OBVIOUS
<1>4. (v1 \div 2) % 2 = b  BY <1>3
<1>5. PICK v2 \in Int : v2 = v1 + 64 * (c - ((v1 \div 64) % 2))  OBVIOUS
<1>6. (v2 \div 2) % 2 = (v1 \div 2) % 2 /\ (v2 \div 64) % 2 = c  BY <1>5
<1>7. PICK v3 \in Int : v3 = v2 + 16 * (1 - ((v2 \div 16) % 2))  OBVIOUS
<1>8. (v3 \div 2) % 2 = (v2 \div 2) % 2 /\ (v3 \div 64) % 2 = (v2 \div 64) % 2  BY <1>7
<1>9. Vbe!Set(v, 1, b) = v1  BY <1>1, <1>2, <1>3 DEF Vbe!Set
<1>10. Vbe!Set(v1, 6, c) = v2  BY <1>1, <1>2, <1>5 DEF Vbe!Set
<1>11. Vbe!Set(v2, 4, 1) = v3  BY <1>1, <1>2, <1>7 DEF Vbe!Set
<1>12. w = v3  BY <1>9, <1>10, <1>11
<1> QED  BY <1>2, <1>4, <1>6, <1>8, <1>12

LEMMA HeightCounted ==
  ASSUME NEW h \in 0 .. 1023
  PROVE  /\ Vbe!Bit(h, 8) \in {0, 1} /\ Vbe!Bit(h, 9) \in {0, 1}
         /\ (h % 256) + 256 * Vbe!Bit(h, 8) + 512 * Vbe!Bit(h, 9) = h
<1>1. 2^8 = 256 /\ 2^9 = 512  OBVIOUS
<1>2. Vbe!Bit(h, 8) = (h \div 256) % 2 /\ Vbe!Bit(h, 9) = (h \div 512) % 2
  BY <1>1 DEF Vbe!Bit
<1>3. (h % 256) + 256 * ((h \div 256) % 2) + 512 * ((h \div 512) % 2) = h  OBVIOUS
<1>4. (h \div 256) % 2 \in {0, 1} /\ (h \div 512) % 2 \in {0, 1}  OBVIOUS
<1> QED  BY <1>2, <1>3, <1>4

LEMMA Down ==
  ASSUME NEW n \in Nat
  PROVE  /\ Vbe!Down8(n) \in Nat /\ Vbe!Down8(n) <= n /\ Vbe!Down8(n) % 8 = 0
BY DEF Vbe!Down8

(* vbe_fixup_regs leaves an adjusted mode. *)
LEMMA FixedIsAdjusted ==
  ASSUME NEW r, IsVbe(r), NEW q, q = Vbe!Fixed(r)
  PROVE  IsVbe(q) /\ Adjusted(q) /\ q.on = r.on
<1>0. HasFields(r)  BY DEF IsVbe
<1>1. PICK xres : xres \in Widths /\ xres = Vbe!AtLeast(Vbe!Down8(r.xres), 8) /\ Aligned(xres)
  <2>1. PICK x \in 0 .. 2048 : x = r.xres  BY DEF IsVbe, Widths
  <2>2. PICK n : n = Vbe!Down8(x)  OBVIOUS
  <2>3. n \in Nat /\ n <= x /\ n % 8 = 0  BY <2>2, Down, SMTT(30)
  <2>4. PICK m : m = Vbe!AtLeast(n, 8)  OBVIOUS
  <2>5. m \in 8 .. 2048 /\ m % 8 = 0
    <3>1. n \in 0 .. 2048  BY <2>3, SMTT(30)
    <3>2. m = IF n < 8 THEN 8 ELSE n  BY <2>4 DEF Vbe!AtLeast
    <3>3. 8 % 8 = 0  OBVIOUS
    <3> QED  BY <2>3, <3>1, <3>2, <3>3
  <2>6. m \in Widths /\ Aligned(m)  BY <2>5, SMTT(30) DEF Widths, Aligned
  <2> QED  BY <2>1, <2>2, <2>4, <2>6
<1>2. PICK vw : vw \in Nat /\ vw = Vbe!AtLeast(Vbe!Down8(r.vw), xres) /\ vw % 8 = 0 /\ vw >= xres
  <2>1. PICK n \in Nat : n = Vbe!Down8(r.vw) /\ n % 8 = 0  BY Down DEF IsVbe
  <2>2. PICK x \in Nat : x = xres /\ x % 8 = 0  BY <1>1 DEF Widths, Aligned
  <2>3. PICK m : m = Vbe!AtLeast(n, x)  OBVIOUS
  <2>4. m \in Nat /\ m % 8 = 0 /\ m >= x  BY <2>1, <2>2, <2>3 DEF Vbe!AtLeast
  <2> QED  BY <2>1, <2>2, <2>3, <2>4
<1>3. PICK yres : yres \in Heights /\ yres >= 1 /\ yres = Vbe!AtLeast(r.yres, 1)
  <2>1. PICK y \in 0 .. 1024 : y = r.yres  BY DEF IsVbe, Heights
  <2>2. PICK m : m = Vbe!AtLeast(y, 1)  OBVIOUS
  <2>3. m \in 1 .. 1024  BY <2>2 DEF Vbe!AtLeast
  <2> QED  BY <2>1, <2>2, <2>3 DEF Heights
<1>4. PICK bpp : bpp \in Depths /\ bpp = Vbe!Depth(r)  BY DEF Vbe!Depth, Depths
<1>5. PICK bits : bits = Vbe!Bits(r)  OBVIOUS
<1>6. PICK line : line = (vw * bits) \div 8  OBVIOUS
<1>7. PICK start : start = ((r.xo * bits) \div 8 + r.yo * line) \div 4  OBVIOUS
<1>8. q = [r EXCEPT !.bpp = bpp, !.xres = xres, !.vw = vw, !.yres = yres, !.line = line,
                    !.start = start]
  BY <1>1, <1>2, <1>3, <1>4, <1>5, <1>6, <1>7 DEF Vbe!Fixed
<1>9. /\ HasFields(q) /\ q.bpp = bpp /\ q.xres = xres /\ q.vw = vw
      /\ q.yres = yres /\ q.line = line /\ q.start = start
      /\ q.on = r.on /\ q.xo = r.xo /\ q.yo = r.yo
  BY <1>0, <1>8 DEF HasFields, VbeFields
<1>10. Vbe!Bits(q) = bits
  BY <1>4, <1>5, <1>9 DEF Vbe!Bits, Vbe!Depth, Depths
<1>11. Adjusted(q)
  <2>1. /\ Aligned(q.xres) /\ q.vw % 8 = 0 /\ q.vw >= q.xres /\ q.yres >= 1
        /\ q.bpp \in Depths
    BY <1>1, <1>2, <1>3, <1>4, <1>9, Zenon
  <2>4. q.line = (q.vw * Vbe!Bits(q)) \div 8  BY <1>6, <1>9, <1>10, Zenon
  <2>5. q.start = ((q.xo * Vbe!Bits(q)) \div 8 + q.yo * q.line) \div 4
    BY <1>7, <1>9, <1>10, Zenon
  <2> QED  BY <2>1, <2>4, <2>5, Zenon DEF Adjusted
<1>12. IsVbe(q)
  <2>1. xres \in Widths /\ yres \in Heights /\ bpp \in Nat  BY <1>1, <1>3, <1>4 DEF Depths
  <2>2. r.xo \in Nat /\ r.yo \in Nat /\ r.on \in BOOLEAN  BY DEF IsVbe
  <2>3. vw \in Nat  BY <1>2
  <2> QED  BY <1>9, <2>1, <2>2, <2>3, Zenon DEF IsVbe
<1> QED  BY <1>9, <1>11, <1>12

(* One register written. *)
OneChanged(c, i, v, d) ==
  HasIndices(d) /\ d[i] = v /\ \A j \in CrIndices \ {i} : d[j] = c[j]

LEMMA OneWritten ==
  ASSUME NEW c, HasIndices(c), NEW i \in CrIndices, NEW v, NEW d, d = [c EXCEPT ![i] = v]
  PROVE  OneChanged(c, i, v, d)
BY DEF HasIndices, OneChanged

(* vbe_update_vgaregs counts an adjusted mode. *)
LEMMA CrCounts ==
  ASSUME IsCr(cr), NEW q, IsVbe(q), Adjusted(q), NEW c, c = Vbe!CrOf(q)
  PROVE  IsCr(c) /\ Counted(q, c)
<1>0. HasIndices(cr)  BY DEF IsCr
<1>1. PICK h \in 0 .. 1023 : h = q.yres - 1 /\ h + 1 = q.yres
  <2>1. PICK y : y = q.yres  OBVIOUS
  <2>2. y \in 0 .. 1024 /\ y >= 1  BY <2>1 DEF IsVbe, Adjusted, Heights
  <2>3. y - 1 \in 0 .. 1023 /\ (y - 1) + 1 = y  BY <2>2
  <2> QED  BY <2>1, <2>3, SMTT(30)
<1>2. PICK wide : wide = (q.xres \div 8 - 1) % 256  OBVIOUS
<1>3. wide \in Int /\ (wide + 1) * 8 = q.xres
  <2>1. PICK x : x = q.xres  OBVIOUS
  <2>2. x \in 8 .. 2048 /\ x % 8 = 0  BY <2>1 DEF IsVbe, Adjusted, Widths, Aligned
  <2>3. x \div 8 \in 1 .. 256 /\ (x \div 8) * 8 = x  BY <2>2
  <2>4. (x \div 8 - 1) % 256 = x \div 8 - 1  BY <2>3
  <2>5. wide = x \div 8 - 1  BY <1>2, <2>1, <2>4
  <2>6. wide \in Int /\ (wide + 1) * 8 = x  BY <2>3, <2>5
  <2> QED  BY <2>1, <2>6
<1>4. PICK over : over = Vbe!Set(Vbe!Set(Vbe!Set(cr[7], 1, Vbe!Bit(h, 8)), 6, Vbe!Bit(h, 9)), 4, 1)
  OBVIOUS
<1>5. over \in Int /\ Vbe!Bit(over, 1) = Vbe!Bit(h, 8) /\ Vbe!Bit(over, 6) = Vbe!Bit(h, 9)
  <2>1. cr[7] \in Int  BY DEF IsCr, CrIndices
  <2>2. Vbe!Bit(h, 8) \in {0, 1} /\ Vbe!Bit(h, 9) \in {0, 1}  BY HeightCounted, SMTT(30)
  <2> QED  BY <1>4, <2>1, <2>2, BitsSet
<1>6. PICK scan : scan \in Int /\ scan = 64 + 32 * Vbe!Bit(cr[9], 5)
  <2>1. PICK n \in Int : n = cr[9]  BY DEF IsCr, CrIndices
  <2>2. 2^5 = 32  OBVIOUS
  <2>3. Vbe!Bit(n, 5) = (n \div 32) % 2  BY <2>2 DEF Vbe!Bit
  <2>4. 64 + 32 * ((n \div 32) % 2) \in Int  OBVIOUS
  <2> QED  BY <2>1, <2>3, <2>4
<1>7. PICK offset : offset \in Int /\ offset = (q.line \div 8) % 256
  <2>1. q.line \in Int
    <3>1. PICK vw \in Nat : vw = q.vw  BY DEF IsVbe
    <3>2. PICK bits \in Nat : bits = Vbe!Bits(q)  BY DEF Adjusted, Vbe!Bits, Vbe!Depth, Depths
    <3>3. vw * bits \in Int  OBVIOUS
    <3>4. (vw * bits) \div 8 \in Int  BY <3>3
    <3> QED  BY <3>1, <3>2, <3>4 DEF Adjusted
  <2>2. PICK line \in Int : line = q.line  BY <2>1
  <2>3. (line \div 8) % 256 \in Int  OBVIOUS
  <2> QED  BY <2>2, <2>3
<1>7a. PICK low : low = h % 256  OBVIOUS
<1>8. c = [cr EXCEPT ![1] = wide, ![18] = low, ![7] = over, ![9] = scan, ![19] = offset]
  BY <1>1, <1>2, <1>4, <1>6, <1>7, <1>7a
     DEF Vbe!CrOf, Vbe!HDisp, Vbe!VDispEnd, Vbe!Overflow, Vbe!MaxScan, Vbe!CrOffset
<1>9. /\ HasIndices(c) /\ c[1] = wide /\ c[18] = low /\ c[7] = over
      /\ c[9] = scan /\ c[19] = offset /\ c[17] = cr[17]
  <2>1. PICK c1 : c1 = [cr EXCEPT ![1] = wide]  OBVIOUS
  <2>2. PICK c2 : c2 = [c1 EXCEPT ![18] = low]  OBVIOUS
  <2>3. PICK c3 : c3 = [c2 EXCEPT ![7] = over]  OBVIOUS
  <2>4. PICK c4 : c4 = [c3 EXCEPT ![9] = scan]  OBVIOUS
  <2>5. c = [c4 EXCEPT ![19] = offset]  BY <1>8, <2>1, <2>2, <2>3, <2>4
  <2>6. {1, 18, 7, 9, 19} \subseteq CrIndices  BY DEF CrIndices
  <2>7. OneChanged(cr, 1, wide, c1)  BY <1>0, <2>1, <2>6, OneWritten
  <2>8. OneChanged(c1, 18, low, c2)
    <3>1. HasIndices(c1)  BY <2>7 DEF OneChanged
    <3> QED  BY <2>2, <2>6, <3>1, OneWritten
  <2>9. OneChanged(c2, 7, over, c3)
    <3>1. HasIndices(c2)  BY <2>8 DEF OneChanged
    <3> QED  BY <2>3, <2>6, <3>1, OneWritten
  <2>10. OneChanged(c3, 9, scan, c4)
    <3>1. HasIndices(c3)  BY <2>9 DEF OneChanged
    <3> QED  BY <2>4, <2>6, <3>1, OneWritten
  <2>11. OneChanged(c4, 19, offset, c)
    <3>1. HasIndices(c4)  BY <2>10 DEF OneChanged
    <3> QED  BY <2>5, <2>6, <3>1, OneWritten
  <2> QED  BY <2>7, <2>8, <2>9, <2>10, <2>11 DEF OneChanged, CrIndices
<1>10. low \in Int  BY <1>7a
<1>11. IsCr(c)
  <2>1. cr[17] \in Int  BY DEF IsCr, CrIndices
  <2>2. \A i \in CrIndices : c[i] \in Int
    BY <1>3, <1>5, <1>6, <1>7, <1>9, <1>10, <2>1 DEF CrIndices
  <2> QED  BY <1>9, <2>2 DEF IsCr
<1>12. (h % 256) + 256 * Vbe!Bit(h, 8) + 512 * Vbe!Bit(h, 9) = h  BY HeightCounted, SMTT(30)
<1> QED  BY <1>1, <1>3, <1>5, <1>7a, <1>9, <1>11, <1>12 DEF Counted

LEMMA Settles ==
  ASSUME VbeInv, NEW r, IsVbe(r), Vbe!Settle(r)
  PROVE  VbeInv'
<1>1. CASE r.on
  <2>1. PICK q : q = Vbe!Fixed(r)  OBVIOUS
  <2>2. vbe' = q /\ cr' = Vbe!CrOf(q) /\ planar' = Vbe!PlanarOf(q)
    BY <1>1, <2>1 DEF Vbe!Settle
  <2>3. IsVbe(q) /\ Adjusted(q)  BY <2>1, FixedIsAdjusted
  <2>4. IsCr(cr') /\ Counted(q, cr')  BY <2>2, <2>3, CrCounts DEF VbeInv
  <2>5. q.bpp # 4 => planar'.chain4 /\ planar'.all /\ planar'.map = 1 /\ planar'.shift = 2
    <3>1. planar' = [map |-> 1, chain4 |-> planar.chain4 \/ q.bpp # 4,
                     all |-> planar.all \/ q.bpp # 4, shift |-> IF q.bpp = 4 THEN 0 ELSE 2]
      BY <2>2 DEF Vbe!PlanarOf
    <3>2. /\ planar'.map = 1 /\ planar'.chain4 = (planar.chain4 \/ q.bpp # 4)
          /\ planar'.all = (planar.all \/ q.bpp # 4)
          /\ planar'.shift = IF q.bpp = 4 THEN 0 ELSE 2
      BY <3>1
    <3> QED  BY <3>2, Zenon
  <2>6. Adjusted(vbe') /\ Counted(vbe', cr')  BY <2>2, <2>3, <2>4
  <2>7. Vbe!ModeIsLinear'  BY <2>2, <2>5 DEF Vbe!ModeIsLinear
  <2> QED  BY <2>2, <2>3, <2>4, <2>6, <2>7 DEF VbeInv
<1>2. CASE ~r.on
  <2>1. vbe' = r /\ UNCHANGED <<cr, planar, custom>>  BY <1>2 DEF Vbe!Settle
  <2> QED  BY <1>2, <2>1 DEF VbeInv
<1> QED  BY <1>1, <1>2

LEMMA VbeSteps ==
  ASSUME VbeAssumed, VbeInv, [Vbe!Next]_Vbe!vgaVbeVars
  PROVE  VbeInv'
<1>0. IsVbe(vbe) /\ IsCr(cr) /\ HasFields(vbe) /\ HasIndices(cr)  BY DEF VbeInv, IsVbe, IsCr
<1>f. HasFields(vbe) /\ HasIndices(cr)  BY <1>0
<1>1. ASSUME NEW name \in DOMAIN Choices, NEW v \in Choices[name], Vbe!WriteRegister(name, v)
      PROVE  VbeInv'
  <2>1. PICK r : r = [vbe EXCEPT ![name] = v]  OBVIOUS
  <2>2. v \in Nat /\ name \in {"xres", "yres", "bpp", "vw", "xo", "yo"}  BY <1>1 DEF VbeAssumed
  <2>3. name = "xres" => v \in Widths  BY <1>1 DEF VbeAssumed
  <2>4. name = "yres" => v \in Heights  BY <1>1 DEF VbeAssumed
  <2>5. /\ HasFields(r)
        /\ \A f \in VbeFields : r[f] = IF f = name THEN v ELSE vbe[f]
    BY <1>f, <2>1, <2>2 DEF HasFields, VbeFields
  <2>6. r.on = vbe.on  BY <2>2, <2>5 DEF VbeFields
  <2>7. r.xres \in Widths  BY <1>0, <2>3, <2>5 DEF VbeFields, IsVbe
  <2>8. r.yres \in Heights  BY <1>0, <2>4, <2>5 DEF VbeFields, IsVbe
  <2>9. r.bpp \in Nat /\ r.vw \in Nat /\ r.xo \in Nat /\ r.yo \in Nat
    BY <1>0, <2>2, <2>5 DEF VbeFields, IsVbe
  <2>10. IsVbe(r)  BY <1>0, <2>5, <2>6, <2>7, <2>8, <2>9 DEF IsVbe
  <2>11. Vbe!Settle(r)  BY <1>1, <2>1 DEF Vbe!WriteRegister
  <2> QED  BY <2>10, <2>11, Settles
<1>2. ASSUME NEW on \in BOOLEAN, Vbe!WriteEnable(on)
      PROVE  VbeInv'
  <2>1. PICK r : r = IF on /\ ~vbe.on
                     THEN [vbe EXCEPT !.vw = vbe.xres, !.vh = vbe.yres, !.xo = 0, !.yo = 0]
                     ELSE [vbe EXCEPT !.bank_offset = 0]
    OBVIOUS
  <2>2. IsVbe(r)
    <3>1. CASE on /\ ~vbe.on
      <4>1. r = [vbe EXCEPT !.vw = vbe.xres, !.vh = vbe.yres, !.xo = 0, !.yo = 0]  BY <2>1, <3>1
      <4>2. /\ HasFields(r) /\ r.vw = vbe.xres /\ r.xo = 0 /\ r.yo = 0
            /\ r.xres = vbe.xres /\ r.yres = vbe.yres /\ r.on = vbe.on /\ r.bpp = vbe.bpp
        BY <1>f, <4>1 DEF HasFields, VbeFields
      <4>3. vbe.xres \in Nat /\ 0 \in Nat
        <5>1. PICK x \in 0 .. 2048 : x = vbe.xres  BY <1>0 DEF IsVbe, Widths
        <5> QED  BY <5>1, SMTT(30)
      <4> QED  BY <1>0, <4>2, <4>3, Zenon DEF IsVbe
    <3>2. CASE ~(on /\ ~vbe.on)
      <4>1. r = [vbe EXCEPT !.bank_offset = 0]  BY <2>1, <3>2
      <4>2. /\ HasFields(r) /\ r.vw = vbe.vw /\ r.xo = vbe.xo /\ r.yo = vbe.yo
            /\ r.xres = vbe.xres /\ r.yres = vbe.yres /\ r.on = vbe.on /\ r.bpp = vbe.bpp
        BY <1>f, <4>1 DEF HasFields, VbeFields
      <4> QED  BY <1>0, <4>2, Zenon DEF IsVbe
    <3> QED  BY <3>1, <3>2
  <2>3. PICK t : t = [r EXCEPT !.on = on]  OBVIOUS
  <2>4. /\ HasFields(t) /\ t.on = on /\ t.vw = r.vw /\ t.xo = r.xo /\ t.yo = r.yo
        /\ t.xres = r.xres /\ t.yres = r.yres /\ t.bpp = r.bpp
    <3>1. HasFields(r)  BY <2>2 DEF IsVbe
    <3> QED  BY <2>3, <3>1 DEF HasFields, VbeFields
  <2>5. IsVbe(t)  BY <2>2, <2>4, Zenon DEF IsVbe
  <2>6. Vbe!Settle(t)  BY <1>2, <2>1, <2>3 DEF Vbe!WriteEnable
  <2> QED  BY <2>5, <2>6, Settles
<1>3. ASSUME NEW v, Vbe!WriteBank(v)
      PROVE  VbeInv'
  <2>1. PICK b : b = v % Banks  OBVIOUS
  <2>2. vbe' = [vbe EXCEPT !.bank = b, !.bank_offset = b] /\ UNCHANGED <<cr, planar, custom>>
    BY <1>3, <2>1 DEF Vbe!WriteBank
  <2>3. /\ HasFields(vbe') /\ vbe'.vw = vbe.vw /\ vbe'.xo = vbe.xo
        /\ vbe'.yo = vbe.yo /\ vbe'.xres = vbe.xres /\ vbe'.yres = vbe.yres /\ vbe'.on = vbe.on
        /\ vbe'.bpp = vbe.bpp /\ vbe'.line = vbe.line /\ vbe'.start = vbe.start
    BY <1>f, <2>2 DEF HasFields, VbeFields
  <2>4. IsVbe(vbe')  BY <1>0, <2>3, Zenon DEF IsVbe
  <2>5. Vbe!Bits(vbe') = Vbe!Bits(vbe)  BY <2>3, Zenon DEF Vbe!Bits, Vbe!Depth
  <2>6. Adjusted(vbe) => Adjusted(vbe')  BY <2>3, <2>5, Zenon DEF Adjusted
  <2>7. Counted(vbe, cr) => Counted(vbe', cr')  BY <2>2, <2>3, Zenon DEF Counted
  <2>8. Vbe!ModeIsLinear => Vbe!ModeIsLinear'  BY <2>2, <2>3 DEF Vbe!ModeIsLinear
  <2> QED  BY <1>0, <2>2, <2>3, <2>4, <2>6, <2>7, <2>8 DEF VbeInv
<1>4. ASSUME NEW i \in DOMAIN CrChoices, NEW v \in CrChoices[i], Vbe!WriteCr(i, v)
      PROVE  VbeInv'
  <2>1. v \in Int  BY <1>4 DEF VbeAssumed
  <2>2. custom' = TRUE /\ vbe' = vbe  BY <1>4 DEF Vbe!WriteCr
  <2>3. PICK bit \in Int : bit = Vbe!Set(cr[7], 4, Vbe!Bit(v, 4))
    <3>1. PICK n \in Int : n = cr[7]  BY <1>0 DEF IsCr, CrIndices
    <3>2. 2^4 = 16  OBVIOUS
    <3>3. \A m \in Int : Vbe!Bit(m, 4) = (m \div 16) % 2  BY <3>2 DEF Vbe!Bit
    <3>4. Vbe!Set(n, 4, Vbe!Bit(v, 4)) = n + 16 * (((v \div 16) % 2) - ((n \div 16) % 2))
      BY <2>1, <3>2, <3>3 DEF Vbe!Set
    <3>5. n + 16 * (((v \div 16) % 2) - ((n \div 16) % 2)) \in Int  BY <2>1
    <3> QED  BY <3>1, <3>4, <3>5
  <2>4. \/ cr' = [cr EXCEPT ![7] = bit]
        \/ cr' = cr
        \/ cr' = [cr EXCEPT ![i] = v]
    <3>1. cr' = CASE Vbe!Bit(cr[17], 7) = 1 /\ i = 7 -> [cr EXCEPT ![7] = bit]
                  [] Vbe!Bit(cr[17], 7) = 1 /\ i < 7 -> cr
                  [] OTHER -> [cr EXCEPT ![i] = v]
      BY <1>4, <2>3 DEF Vbe!WriteCr, Vbe!Overflow, Vbe!Protect
    <3>2. CASE Vbe!Bit(cr[17], 7) = 1 /\ i = 7
      <4>1. cr' = [cr EXCEPT ![7] = bit]  BY <3>1, <3>2
      <4> QED  BY <4>1
    <3>3. CASE Vbe!Bit(cr[17], 7) = 1 /\ i # 7 /\ i < 7
      <4>1. cr' = cr  BY <3>1, <3>3
      <4> QED  BY <4>1
    <3>4. CASE ~(Vbe!Bit(cr[17], 7) = 1 /\ i = 7) /\ ~(Vbe!Bit(cr[17], 7) = 1 /\ i < 7)
      <4>1. cr' = [cr EXCEPT ![i] = v]  BY <3>1, <3>4
      <4> QED  BY <4>1
    <3> QED  BY <3>2, <3>3, <3>4
  <2>5. IsCr(cr')
    <3>1. \A j \in CrIndices : cr'[j] \in {bit, cr[j], v}
      BY <1>0, <2>4 DEF IsCr, HasIndices
    <3>2. HasIndices(cr')  BY <1>0, <2>4 DEF IsCr, HasIndices
    <3>3. \A j \in CrIndices : cr'[j] \in Int  BY <1>0, <2>1, <2>3, <3>1 DEF IsCr
    <3> QED  BY <3>2, <3>3 DEF IsCr
  <2> QED  BY <1>0, <2>2, <2>5 DEF VbeInv
<1>5. CASE Vbe!WritePlanar
  BY <1>0, <1>5 DEF Vbe!WritePlanar, VbeInv
<1>6. CASE UNCHANGED Vbe!vgaVbeVars
  <2>1. vbe' = vbe /\ cr' = cr /\ planar' = planar /\ custom' = custom
    BY <1>6 DEF Vbe!vgaVbeVars
  <2> QED  BY <2>1 DEF VbeInv, Vbe!ModeIsLinear
<1> QED  BY <1>1, <1>2, <1>3, <1>4, <1>5, <1>6 DEF Vbe!Next

LEMMA VbeStarts ==
  ASSUME VbeAssumed, Vbe!Init
  PROVE  VbeInv
<1>1. /\ HasFields(vbe) /\ vbe.xres = 0 /\ vbe.yres = 0 /\ vbe.on = FALSE /\ vbe.bpp = 0
      /\ vbe.vw = 0 /\ vbe.xo = 0 /\ vbe.yo = 0
  BY DEF Vbe!Init, HasFields, VbeFields
<1>2. IsVbe(vbe)
  <2>1. 0 \in Widths /\ 0 \in Heights /\ 0 \in Nat  BY DEF Widths, Heights
  <2> QED  BY <1>1, <2>1, Zenon DEF IsVbe
<1>3. IsCr(cr)
  <2>1. HasIndices(cr)  BY DEF Vbe!Init, HasIndices, CrIndices
  <2>2. \A i \in CrIndices : cr[i] \in {79, 31, 142, 143, 40}  BY DEF Vbe!Init, CrIndices
  <2>3. \A i \in CrIndices : cr[i] \in Int  BY <2>2
  <2> QED  BY <2>1, <2>3 DEF IsCr
<1> QED  BY <1>1, <1>2, <1>3 DEF VbeInv

(* Whole lines of pixels add up, whatever the depth. *)
LEMMA LinesAddUp ==
  ASSUME NEW k \in Nat, NEW bits \in {4, 8, 16, 24, 32}, NEW x \in Nat, NEW y \in Nat
  PROVE  /\ ((8 * k) * bits) \div 8 = k * bits
         /\ ((y * (8 * k) + x) * bits) \div 8 = (x * bits) \div 8 + y * (k * bits)
<1>1. PICK m \in Nat : m = k * bits
  <2>1. bits \in Nat  OBVIOUS
  <2> QED  BY <2>1
<1>2. PICK p \in Nat : p = y * m  OBVIOUS
<1>3. PICK n \in Nat : n = x * bits
  <2>1. bits \in Nat  OBVIOUS
  <2> QED  BY <2>1
<1>4. (8 * k) * bits = 8 * m  BY <1>1
<1>5. (8 * m) \div 8 = m  OBVIOUS
<1>6. (y * (8 * k) + x) * bits = 8 * p + n
  <2>1. (y * (8 * k) + x) * bits = 8 * (y * (k * bits)) + x * bits
    <3>1. PICK j \in Nat : j = y * k  OBVIOUS
    <3>2. y * (8 * k) = 8 * j  BY <3>1
    <3>3. (8 * j + x) * bits = 8 * (j * bits) + x * bits  BY <3>1
    <3>4. j * bits = y * (k * bits)  BY <3>1
    <3> QED  BY <3>2, <3>3, <3>4
  <2> QED  BY <1>1, <1>2, <1>3, <2>1
<1>7. (8 * p + n) \div 8 = n \div 8 + p  OBVIOUS
<1> QED  BY <1>1, <1>2, <1>3, <1>4, <1>5, <1>6, <1>7

LEMMA DrawnAsSet ==
  ASSUME IsVbe(vbe), Adjusted(vbe), Counted(vbe, cr)
  PROVE  LET pixel(x, y) == ((y * vbe.vw + x) * Vbe!Bits(vbe)) \div 8
         IN /\ vbe.xres % 8 = 0 /\ vbe.vw >= vbe.xres
            /\ Vbe!Width = vbe.xres /\ Vbe!Height = vbe.yres
            /\ pixel(vbe.xres, 0) <= vbe.line /\ vbe.line = pixel(0, 1)
            /\ 4 * vbe.start \in pixel(vbe.xo, vbe.yo) - 3 .. pixel(vbe.xo, vbe.yo)
<1> DEFINE pixel(x, y) == ((y * vbe.vw + x) * Vbe!Bits(vbe)) \div 8
<1>1. PICK bits \in {4, 8, 16, 24, 32} : bits = Vbe!Bits(vbe)
  BY DEF Adjusted, Depths, Vbe!Bits, Vbe!Depth
<1>2. PICK xres \in Nat, k \in Nat, xo \in Nat, yo \in Nat :
        xres = vbe.xres /\ 8 * k = vbe.vw /\ xres <= 8 * k /\ xo = vbe.xo /\ yo = vbe.yo
  <2>1. PICK xres \in Nat, vw \in Nat, xo \in Nat, yo \in Nat :
          xres = vbe.xres /\ vw = vbe.vw /\ xo = vbe.xo /\ yo = vbe.yo
    <3>1. vbe.vw \in Nat /\ vbe.xo \in Nat /\ vbe.yo \in Nat  BY DEF IsVbe
    <3>2. vbe.xres \in Nat
      <4>1. vbe.xres \in Widths  BY DEF IsVbe
      <4>2. Widths \subseteq Nat  BY DEF Widths
      <4> QED  BY <4>1, <4>2, Zenon
    <3> QED  BY <3>1, <3>2, Zenon
  <2>2. vw % 8 = 0 /\ xres <= vw  BY <2>1 DEF Adjusted
  <2>3. vw \div 8 \in Nat /\ 8 * (vw \div 8) = vw  BY <2>2
  <2> QED  BY <2>1, <2>2, <2>3
<1>3. vbe.line = k * bits
  <2>1. ((8 * k) * bits) \div 8 = k * bits  BY <1>1, <1>2, LinesAddUp
  <2> QED  BY <1>1, <1>2, <2>1 DEF Adjusted
<1>4. pixel(0, 1) = vbe.line
  <2>1. (1 * (8 * k) + 0) * bits = (8 * k) * bits  BY <1>1, <1>2
  <2> QED  BY <1>1, <1>2, <2>1 DEF Adjusted
<1>5. pixel(vbe.xres, 0) <= vbe.line
  <2>1. (0 * (8 * k) + xres) * bits = xres * bits  BY <1>1, <1>2
  <2>2. (xres * bits) \div 8 <= ((8 * k) * bits) \div 8
    <3>1. xres * bits <= (8 * k) * bits  BY <1>1, <1>2
    <3>2. PICK a \in Nat, b \in Nat : a = xres * bits /\ b = (8 * k) * bits
      <4>1. bits \in Nat  BY <1>1
      <4> QED  BY <1>2, <4>1
    <3>3. a <= b  BY <3>1, <3>2
    <3>4. a \div 8 <= b \div 8  BY <3>3
    <3> QED  BY <3>2, <3>4
  <2> QED  BY <1>1, <1>2, <2>1, <2>2 DEF Adjusted
<1>6. PICK from \in Int : from = pixel(vbe.xo, vbe.yo) /\ from = (xo * bits) \div 8 + yo * (k * bits)
  <2>1. ((yo * (8 * k) + xo) * bits) \div 8 = (xo * bits) \div 8 + yo * (k * bits)
    BY <1>1, <1>2, LinesAddUp, SMTT(30)
  <2>2. (xo * bits) \div 8 + yo * (k * bits) \in Int
    <3>1. PICK a \in Nat, b \in Nat : a = xo * bits /\ b = yo * (k * bits)
      <4>1. bits \in Nat  BY <1>1
      <4>2. k * bits \in Nat  BY <1>2, <4>1
      <4> QED  BY <1>2, <4>1, <4>2
    <3>2. a \div 8 + b \in Int  OBVIOUS
    <3> QED  BY <3>1, <3>2
  <2>3. pixel(vbe.xo, vbe.yo) = ((yo * (8 * k) + xo) * bits) \div 8  BY <1>1, <1>2
  <2> QED  BY <2>1, <2>2, <2>3
<1>7. vbe.start = from \div 4
  <2>1. vbe.start = ((vbe.xo * Vbe!Bits(vbe)) \div 8 + vbe.yo * vbe.line) \div 4  BY DEF Adjusted
  <2>2. vbe.start = ((xo * bits) \div 8 + yo * (k * bits)) \div 4  BY <1>1, <1>2, <1>3, <2>1
  <2> QED  BY <1>6, <2>2
<1>8. 4 * (from \div 4) \in from - 3 .. from  BY <1>6
<1>9. Vbe!Width = vbe.xres /\ Vbe!Height = vbe.yres
  BY DEF Counted, Vbe!Width, Vbe!Height, Vbe!HDisp, Vbe!VDispEnd, Vbe!Overflow
<1>10. vbe.xres % 8 = 0 /\ vbe.vw >= vbe.xres  BY DEF Adjusted, Aligned
<1> QED  BY <1>4, <1>5, <1>6, <1>7, <1>8, <1>9, <1>10

(* An enabled mode of the extension is drawn as it was set, and its memory  *)
(* is linear, whatever registers were written in whatever order, for every  *)
(* mode whose width and height the CRT controller can count                 *)
(* (vbe_fixup_regs, vbe_update_vgaregs).                                    *)
THEOREM ModesHold == VbeAssumed => (VbeSpec => []ModeAsSet)
<1> SUFFICES ASSUME VbeAssumed PROVE VbeSpec => []ModeAsSet
  OBVIOUS
<1>1. Vbe!Init => VbeInv  BY VbeStarts
<1>2. VbeInv /\ [Vbe!Next]_Vbe!vgaVbeVars => VbeInv'  BY VbeSteps
<1>3. VbeInv => ModeAsSet
  <2>1. VbeInv => Vbe!ModeIsDrawn  BY DrawnAsSet DEF VbeInv, Vbe!ModeIsDrawn
  <2>2. VbeInv => Vbe!ModeIsLinear  BY DEF VbeInv, Vbe!ModeIsLinear
  <2> QED  BY <2>1, <2>2 DEF ModeAsSet, Vbe!ModeAsSet
<1> QED  BY <1>1, <1>2, <1>3, PTL DEF VbeSpec

-----------------------------------------------------------------------------
(* The memory behind its window.                                            *)

(* What the registers can hold, in bytes of any width; the four quarters of *)
(* the window are a multiple of four bytes, as all the words of memory are. *)
MemAssumed ==
  /\ MemBits \in Nat \ {0} /\ MaxAccesses \in Nat
  /\ \E q \in Nat \ {0} : Quarter = 4 * q
  /\ Addresses \subseteq 0 .. 4 * Quarter - 1 /\ MemValues \subseteq SUBSET (0 .. MemBits - 1)
  /\ Setups \subseteq
       [map : 0 .. 3, bank : 0 .. 1, chain4 : BOOLEAN, odd_even : BOOLEAN, planes : SUBSET (0 .. 3),
        set_reset : SUBSET (0 .. 3), sr_enable : SUBSET (0 .. 3), rotate : 0 .. MemBits - 1, func : 0 .. 3,
        write_mode : 0 .. 3, bit_mask : SUBSET (0 .. MemBits - 1), read_mode : 0 .. 1,
        read_plane : 0 .. 3, compare : SUBSET (0 .. 3), care : SUBSET (0 .. 3)]

Memory == [0 .. (8 * Quarter) \div 4 - 1 -> SUBSET Vram!Word]

(* The bit of a plane, and the plane of a bit. *)
LEMMA PlaneOfBit ==
  ASSUME NEW b \in Nat \ {0}, NEW p \in 0 .. 3, NEW j \in 0 .. b - 1
  PROVE  /\ (p * b + j) \div b = p /\ (p * b + j) % b = j /\ p * b + j \in 0 .. 4 * b - 1
<1>1. CASE p = 0  BY <1>1
<1>2. CASE p = 1  BY <1>2
<1>3. CASE p = 2  BY <1>3
<1>4. CASE p = 3  BY <1>4
<1> QED  BY <1>1, <1>2, <1>3, <1>4

LEMMA BitOfPlane ==
  ASSUME NEW b \in Nat \ {0}, NEW i \in 0 .. 4 * b - 1
  PROVE  /\ i \div b \in 0 .. 3 /\ i % b \in 0 .. b - 1 /\ i = (i \div b) * b + (i % b)
  OBVIOUS

LEMMA MaskBits ==
  ASSUME MemBits \in Nat \ {0}, NEW planes, NEW p \in 0 .. 3, NEW j \in 0 .. MemBits - 1
  PROVE  p * MemBits + j \in Vram!Mask16(planes) <=> p \in planes
BY PlaneOfBit DEF Vram!Mask16, Vram!Word

(* A byte in each of the planes. *)
LEMMA SpreadBits ==
  ASSUME MemBits \in Nat \ {0}, NEW v \in SUBSET (0 .. MemBits - 1),
         NEW p \in 0 .. 3, NEW j \in 0 .. MemBits - 1
  PROVE  p * MemBits + j \in Vram!Spread(v) <=> j \in v
<1> DEFINE w == v \cup Vram!ShiftedLeft(v, MemBits)
<1>1. \A i \in Int : i \in w <=> i \in v \/ (i - MemBits \in v /\ i \in Vram!Word)
  <2> SUFFICES ASSUME NEW i \in Int PROVE i \in w <=> i \in v \/ (i - MemBits \in v /\ i \in Vram!Word)
    OBVIOUS
  <2>1. ASSUME i \in Vram!ShiftedLeft(v, MemBits) PROVE i - MemBits \in v /\ i \in Vram!Word
    <3>1. PICK k \in v : i = k + MemBits  BY <2>1 DEF Vram!ShiftedLeft
    <3>2. i - MemBits = k  BY <3>1
    <3> QED  BY <2>1, <3>1, <3>2 DEF Vram!ShiftedLeft
  <2>2. ASSUME i - MemBits \in v, i \in Vram!Word PROVE i \in Vram!ShiftedLeft(v, MemBits)
    <3>1. i = (i - MemBits) + MemBits  OBVIOUS
    <3> QED  BY <2>2, <3>1 DEF Vram!ShiftedLeft
  <2> QED  BY <2>1, <2>2
<1>2. \A i \in Int : i \in Vram!Spread(v) <=> i \in w \/ (i - (2 * MemBits) \in w /\ i \in Vram!Word)
  <2> HIDE DEF w
  <2> SUFFICES ASSUME NEW i \in Int
               PROVE  i \in Vram!ShiftedLeft(w, 2 * MemBits) <=> i - (2 * MemBits) \in w /\ i \in Vram!Word
    BY DEF Vram!Spread, w
  <2>0. w \subseteq Int
    <3>1. Vram!ShiftedLeft(v, MemBits) \subseteq Vram!Word  BY Zenon DEF Vram!ShiftedLeft
    <3>2. Vram!Word \subseteq Int  BY DEF Vram!Word
    <3>3. v \subseteq Int  OBVIOUS
    <3> QED  BY <3>1, <3>2, <3>3 DEF w
  <2>1. ASSUME i \in Vram!ShiftedLeft(w, 2 * MemBits) PROVE i - (2 * MemBits) \in w /\ i \in Vram!Word
    <3>1. PICK k \in w : i = k + 2 * MemBits  BY <2>1 DEF Vram!ShiftedLeft
    <3>2. i - (2 * MemBits) = k  BY <2>0, <3>1
    <3> QED  BY <2>1, <3>1, <3>2 DEF Vram!ShiftedLeft
  <2>2. ASSUME i - (2 * MemBits) \in w, i \in Vram!Word PROVE i \in Vram!ShiftedLeft(w, 2 * MemBits)
    <3>1. i = (i - (2 * MemBits)) + 2 * MemBits  OBVIOUS
    <3> QED  BY <2>2, <3>1 DEF Vram!ShiftedLeft
  <2> QED  BY <2>1, <2>2
<1> HIDE DEF w
<1> QED
  <2>1. CASE p = 0  BY <1>1, <1>2, <2>1 DEF Vram!Word
  <2>2. CASE p = 1  BY <1>1, <1>2, <2>2 DEF Vram!Word
  <2>3. CASE p = 2  BY <1>1, <1>2, <2>3 DEF Vram!Word
  <2>4. CASE p = 3  BY <1>1, <1>2, <2>4 DEF Vram!Word
  <2> QED  BY <2>1, <2>2, <2>3, <2>4

MemTyped == MemAssumed /\ regs \in Setups /\ latch \in SUBSET Vram!Word

LEMMA WrapsOnce ==
  ASSUME NEW b \in Nat \ {0}, NEW n \in 0 .. 2 * b - 1
  PROVE  n % b = IF n < b THEN n ELSE n - b
<1>1. CASE n < b  BY <1>1
<1>2. CASE n >= b
  <2>1. PICK k \in 0 .. b - 1 : n = b + k
    <3>1. n - b \in 0 .. b - 1 /\ n = b + (n - b)  BY <1>2
    <3> QED  BY <3>1
  <2> QED  BY <2>1
<1> QED  BY <1>1, <1>2

LEMMA RotatedBits ==
  ASSUME MemTyped, NEW v \in SUBSET (0 .. MemBits - 1), NEW j \in 0 .. MemBits - 1
  PROVE  j \in Vram!Rotated(v) <=> (j + regs.rotate) % MemBits \in v
<1>1. MemBits \in Nat \ {0} /\ regs.rotate \in 0 .. MemBits - 1  BY DEF MemTyped, MemAssumed
<1>2. PICK r \in 0 .. MemBits - 1 : r = regs.rotate  BY <1>1
<1>3. PICK b \in Nat \ {0} : b = MemBits  BY <1>1
<1>4. (j + r) % b = IF j + r < b THEN j + r ELSE (j + r) - b
  <2>1. PICK n \in 0 .. 2 * b - 1 : n = j + r
    <3>1. j + r \in 0 .. 2 * b - 1  BY <1>1, <1>2, <1>3
    <3> QED  BY <3>1
  <2> QED  BY <2>1, WrapsOnce
<1>5. j \in Vram!ShiftedRight(v, r) <=> j + r \in v
  <2>1. ASSUME j \in Vram!ShiftedRight(v, r) PROVE j + r \in v
    <3>1. PICK k \in v : j = k - r  BY <2>1 DEF Vram!ShiftedRight
    <3>2. j + r = k  BY <1>1, <3>1
    <3> QED  BY <3>1, <3>2
  <2>2. ASSUME j + r \in v PROVE j \in Vram!ShiftedRight(v, r)
    <3>1. j = (j + r) - r /\ j \in Vram!Word  BY <1>1 DEF Vram!Word
    <3> QED  BY <2>2, <3>1 DEF Vram!ShiftedRight
  <2> QED  BY <2>1, <2>2
<1>6. j \in Vram!ShiftedLeft(v, b - r) <=> (j + r) - b \in v
  <2>1. ASSUME j \in Vram!ShiftedLeft(v, b - r) PROVE (j + r) - b \in v
    <3>1. PICK k \in v : j = k + (b - r)  BY <2>1 DEF Vram!ShiftedLeft
    <3>2. (j + r) - b = k  BY <1>1, <1>3, <3>1
    <3> QED  BY <3>1, <3>2
  <2>2. ASSUME (j + r) - b \in v PROVE j \in Vram!ShiftedLeft(v, b - r)
    <3>1. j = ((j + r) - b) + (b - r) /\ j \in Vram!Word  BY <1>1, <1>3 DEF Vram!Word
    <3> QED  BY <2>2, <3>1 DEF Vram!ShiftedLeft
  <2> QED  BY <2>1, <2>2
<1>7. j \in Vram!Rotated(v) <=> j + r \in v \/ (j + r) - b \in v
  BY <1>2, <1>3, <1>5, <1>6 DEF Vram!Rotated
<1>8. CASE j + r < b
  <2>1. (j + r) - b \notin v  BY <1>1, <1>3, <1>8
  <2> QED  BY <1>2, <1>3, <1>4, <1>7, <1>8, <2>1
<1>9. CASE ~(j + r < b)
  <2>1. j + r \notin v  BY <1>1, <1>3, <1>9
  <2> QED  BY <1>2, <1>3, <1>4, <1>7, <1>9, <2>1
<1> QED  BY <1>8, <1>9

(* What the byte makes of a bit, before the logic. *)
LEMMA ExpandedBits ==
  ASSUME MemTyped, NEW v \in SUBSET (0 .. MemBits - 1), NEW p \in 0 .. 3, NEW j \in 0 .. MemBits - 1
  PROVE  p * MemBits + j \in Vram!Expanded(v) <=>
           CASE regs.write_mode = 2 -> p \in v
             [] regs.write_mode = 3 -> p \in regs.set_reset
             [] OTHER -> IF p \in regs.sr_enable THEN p \in regs.set_reset
                         ELSE (j + regs.rotate) % MemBits \in v
<1> DEFINE i == p * MemBits + j
<1>1. MemBits \in Nat \ {0}  BY DEF MemTyped, MemAssumed
<1>2. \A planes : i \in Vram!Mask16(planes) <=> p \in planes  BY <1>1, MaskBits
<1>3. i \in Vram!Spread(Vram!Rotated(v) \cap Vram!Ff) <=> (j + regs.rotate) % MemBits \in v
  <2>1. Vram!Rotated(v) \cap Vram!Ff \in SUBSET (0 .. MemBits - 1)  BY DEF Vram!Ff
  <2>2. i \in Vram!Spread(Vram!Rotated(v) \cap Vram!Ff) <=> j \in Vram!Rotated(v) \cap Vram!Ff
    BY <1>1, <2>1, SpreadBits
  <2> QED  BY <2>2, RotatedBits DEF Vram!Ff
<1>4. p \in v \cap Vram!Plane <=> p \in v  BY DEF Vram!Plane
<1> HIDE DEF i
<1>5. i \in Vram!Expanded(v) <=>
        CASE regs.write_mode = 2 -> p \in v
          [] regs.write_mode = 3 -> p \in regs.set_reset
          [] OTHER -> IF p \in regs.sr_enable THEN p \in regs.set_reset
                      ELSE (j + regs.rotate) % MemBits \in v
  <2>1. CASE regs.write_mode = 2  BY <1>2, <1>4, <2>1 DEF Vram!Expanded
  <2>2. CASE regs.write_mode = 3  BY <1>2, <2>2 DEF Vram!Expanded
  <2>3. CASE regs.write_mode # 2 /\ regs.write_mode # 3
    BY <1>2, <1>3, <2>3 DEF Vram!Expanded
  <2> QED  BY <2>1, <2>2, <2>3
<1> QED  BY <1>5 DEF i

(* Which bits are written. *)
LEMMA MaskedBits ==
  ASSUME MemTyped, NEW v \in SUBSET (0 .. MemBits - 1), NEW p \in 0 .. 3, NEW j \in 0 .. MemBits - 1
  PROVE  p * MemBits + j \in Vram!BitMask(v) <=>
           j \in regs.bit_mask /\ (regs.write_mode = 3 => (j + regs.rotate) % MemBits \in v)
<1>1. MemBits \in Nat \ {0} /\ regs.bit_mask \in SUBSET (0 .. MemBits - 1)  BY DEF MemTyped, MemAssumed
<1>2. CASE regs.write_mode = 3
  <2>1. regs.bit_mask \cap Vram!Rotated(v) \in SUBSET (0 .. MemBits - 1)  BY <1>1
  <2>2. p * MemBits + j \in Vram!Spread(regs.bit_mask \cap Vram!Rotated(v))
          <=> j \in regs.bit_mask \cap Vram!Rotated(v)  BY <1>1, <2>1, SpreadBits
  <2> QED  BY <1>2, <2>2, RotatedBits DEF Vram!BitMask
<1>3. CASE regs.write_mode # 3
  <2>1. p * MemBits + j \in Vram!Spread(regs.bit_mask) <=> j \in regs.bit_mask  BY <1>1, SpreadBits
  <2> QED  BY <1>3, <2>1 DEF Vram!BitMask
<1> QED  BY <1>2, <1>3

(* The logic on whole words does what is defined for each bit. *)
LEMMA LatchedBits ==
  ASSUME MemTyped, NEW v \in SUBSET (0 .. MemBits - 1), NEW p \in 0 .. 3, NEW j \in 0 .. MemBits - 1
  PROVE  p * MemBits + j \in Vram!Latched(v) <=> Vram!DefinedBit(p, j, v)
<1> DEFINE i == p * MemBits + j
           turned == (j + regs.rotate) % MemBits \in v
           data == CASE regs.write_mode = 2 -> p \in v
                     [] regs.write_mode = 3 -> p \in regs.set_reset
                     [] OTHER -> IF p \in regs.sr_enable THEN p \in regs.set_reset ELSE turned
           open == j \in regs.bit_mask /\ (regs.write_mode = 3 => turned)
<1>1. i \in Vram!Expanded(v) <=> data  BY ExpandedBits
<1>2. i \in Vram!BitMask(v) <=> open  BY MaskedBits
<1>3. Vram!DefinedBit(p, j, v) <=>
        IF regs.write_mode = 1 \/ ~open THEN i \in latch
        ELSE CASE regs.func = 1 -> data /\ i \in latch
               [] regs.func = 2 -> data \/ i \in latch
               [] regs.func = 3 -> data # (i \in latch)
               [] OTHER -> data
  BY DEF Vram!DefinedBit
<1> HIDE DEF i, data, open
<1>4. i \in Vram!Latched(v) <=> Vram!DefinedBit(p, j, v)
  <2>1. CASE regs.write_mode = 1 \/ ~open
    <3>1. i \in Vram!Latched(v) <=> i \in latch  BY <1>2, <2>1 DEF Vram!Latched
    <3>2. Vram!DefinedBit(p, j, v) <=> i \in latch  BY <1>3, <2>1
    <3> QED  BY <3>1, <3>2
  <2>2. CASE regs.write_mode # 1 /\ open
    <3> DEFINE e == Vram!Expanded(v)
    <3>1. i \in Vram!Latched(v) <=> i \in Vram!Logic(e)
      BY <1>2, <2>2 DEF Vram!Latched
    <3>2. i \in e <=> data  BY <1>1
    <3> DEFINE held == i \in latch
    <3>3. ~(regs.write_mode = 1 \/ ~open)  BY <2>2
    <3>4. Vram!DefinedBit(p, j, v) <=>
            CASE regs.func = 1 -> data /\ held
              [] regs.func = 2 -> data \/ held
              [] regs.func = 3 -> data # held
              [] OTHER -> data
      BY <1>3, <3>3
    <3>5. i \in Vram!Logic(e) <=>
            CASE regs.func = 1 -> i \in e /\ held
              [] regs.func = 2 -> i \in e \/ held
              [] regs.func = 3 -> ~(i \in e <=> held)
              [] OTHER -> i \in e
      BY DEF Vram!Logic
    <3>6. (data # held) <=> ~(data <=> held)  BY DEF data
    <3> HIDE DEF e, held
    <3> QED  BY <3>1, <3>2, <3>4, <3>5, <3>6
  <2> QED  BY <2>1, <2>2
<1> QED  BY <1>4 DEF i

(* The bits of a byte that is written. *)
LEMMA PutByteBits ==
  ASSUME MemAssumed, NEW m \in Memory, NEW x \in 0 .. 8 * Quarter - 1,
         NEW v \in SUBSET (0 .. MemBits - 1)
  PROVE  Vram!PutByte(m, x, v) =
           [a \in DOMAIN m |-> {i \in Vram!Word :
                IF a = x \div 4 /\ i \div MemBits = x % 4 THEN i % MemBits \in v ELSE i \in m[a]}]
<1>1. PICK q \in Nat \ {0} : Quarter = 4 * q  BY DEF MemAssumed
<1>2. MemBits \in Nat \ {0}  BY DEF MemAssumed
<1>3. DOMAIN m = 0 .. 8 * q - 1 /\ x \div 4 \in DOMAIN m /\ x % 4 \in 0 .. 3
  BY <1>1 DEF Memory
<1> PICK d \in DOMAIN m : d = x \div 4  BY <1>3
<1> PICK p \in 0 .. 3 : p = x % 4  BY <1>3
<1>4. Vram!PutByte(m, x, v) =
        [m EXCEPT ![d] = {i \in m[d] : i \div MemBits # p} \cup {p * MemBits + j : j \in v}]
  BY DEF Vram!PutByte
<1> DEFINE new == {i \in m[d] : i \div MemBits # p} \cup {p * MemBits + j : j \in v}
<1>5. m[d] \in SUBSET Vram!Word  BY DEF Memory
<1>6. new = {i \in Vram!Word : IF i \div MemBits = p THEN i % MemBits \in v ELSE i \in m[d]}
  <2>1. ASSUME NEW i \in new
        PROVE  i \in Vram!Word /\ IF i \div MemBits = p THEN i % MemBits \in v ELSE i \in m[d]
    <3>1. CASE i \in m[d] /\ i \div MemBits # p  BY <1>5, <3>1
    <3>2. ASSUME NEW j \in v, i = p * MemBits + j
          PROVE  i \in Vram!Word /\ i \div MemBits = p /\ i % MemBits \in v
      <4>1. PICK b \in Nat \ {0} : b = MemBits  BY <1>2
      <4>2. j \in 0 .. b - 1  BY <4>1
      <4>3. (p * b + j) \div b = p /\ (p * b + j) % b = j /\ p * b + j \in 0 .. 4 * b - 1
        BY ONLY <4>2, PlaneOfBit, Zenon
      <4>4. i = p * b + j  BY <3>2, <4>1
      <4> QED  BY <4>1, <4>3, <4>4 DEF Vram!Word
    <3> QED  BY <2>1, <3>1, <3>2
  <2>2. ASSUME NEW i \in Vram!Word, IF i \div MemBits = p THEN i % MemBits \in v ELSE i \in m[d]
        PROVE  i \in new
    <3>1. CASE i \div MemBits = p
      <4>1. i = p * MemBits + (i % MemBits)  BY <1>2, <3>1, BitOfPlane DEF Vram!Word
      <4> QED  BY <2>2, <3>1, <4>1
    <3>2. CASE i \div MemBits # p  BY <2>2, <3>2
    <3> QED  BY <3>1, <3>2
  <2> HIDE DEF new
  <2> QED  BY <2>1, <2>2
<1> HIDE DEF new
<1>7. Vram!PutByte(m, x, v) = [m EXCEPT ![d] = new]  BY <1>4 DEF new
<1>8. \A a \in DOMAIN m : a # d =>
         m[a] = {i \in Vram!Word : IF a = d /\ i \div MemBits = p THEN i % MemBits \in v ELSE i \in m[a]}
  BY DEF Memory
<1>9. Vram!PutByte(m, x, v) =
           [a \in DOMAIN m |-> {i \in Vram!Word :
                IF a = d /\ i \div MemBits = p THEN i % MemBits \in v ELSE i \in m[a]}]
  BY <1>6, <1>7, <1>8 DEF Memory
<1> QED  BY <1>9

LEMMA OffsetRange ==
  ASSUME MemTyped, NEW addr \in 0 .. 4 * Quarter - 1
  PROVE  Vram!Offset(addr) = -1 \/ Vram!Offset(addr) \in 0 .. 4 * Quarter - 1
BY DEF MemTyped, MemAssumed, Vram!Offset

(* Where odd and even bytes are. *)
LEMMA OddEvenParts ==
  ASSUME MemTyped, NEW x \in 0 .. 4 * Quarter - 1
  PROVE  \E o \in {0, 1}, p \in 0 .. 3, y \in 0 .. 8 * Quarter - 1 :
           /\ o = x % 2 /\ p = 2 * (regs.read_plane \div 2) + o
           /\ p = Vram!OddEvenPlane(x) /\ y = Vram!OddEvenByte(x)
           /\ y \div 4 = x \div 2 /\ y % 4 = p
<1>1. PICK q \in Nat \ {0} : Quarter = 4 * q  BY DEF MemTyped, MemAssumed
<1>2. PICK r \in 0 .. 3 : r = regs.read_plane  BY DEF MemTyped, MemAssumed
<1>3. x \in 0 .. 16 * q - 1  BY <1>1
<1>4. PICK o \in {0, 1}, h \in 0 .. 8 * q - 1 : o = x % 2 /\ h = x \div 2 /\ x = 2 * h + o  BY <1>3
<1>5. PICK p \in 0 .. 3 : p = Vram!OddEvenPlane(x) /\ p = 2 * (r \div 2) + o
  BY <1>2, <1>4 DEF Vram!OddEvenPlane
<1>6. PICK y \in 0 .. 32 * q - 1 : y = Vram!OddEvenByte(x) /\ y = 4 * h + p
  <2>1. (x - o) * 2 + p = 4 * h + p /\ 4 * h + p \in 0 .. 32 * q - 1  BY <1>4, <1>5
  <2>2. Vram!OddEvenByte(x) = (x - o) * 2 + p  BY <1>4, <1>5 DEF Vram!OddEvenByte
  <2> QED  BY <2>1, <2>2
<1>7. y \div 4 = h /\ y % 4 = p  BY <1>6
<1> QED  BY <1>1, <1>2, <1>4, <1>5, <1>6, <1>7

(* A byte written is what is defined for each bit.                          *)
LEMMA WrittenAsDefined ==
  ASSUME MemTyped, NEW m \in Memory, NEW addr \in 0 .. 4 * Quarter - 1, NEW v \in SUBSET (0 .. MemBits - 1)
  PROVE  Vram!Written(m, addr, v) = Vram!DefinedBits(m, addr, v) /\ Vram!Written(m, addr, v) \in Memory
<1> DEFINE x == Vram!Offset(addr)
           D == DOMAIN m
           new(i) == IF regs.chain4 \/ regs.odd_even THEN i % MemBits \in v
                     ELSE Vram!DefinedBit(i \div MemBits, i % MemBits, v)
           written(a, i) == x # -1 /\ a = Vram!DefinedWord(x) /\ i \div MemBits \in Vram!DefinedPlanes(x)
           bits == [a \in D |-> {i \in Vram!Word : IF written(a, i) THEN new(i) ELSE i \in m[a]}]
<1>1. PICK q \in Nat \ {0} : Quarter = 4 * q  BY DEF MemTyped, MemAssumed
<1>2. MemBits \in Nat \ {0} /\ MemAssumed /\ regs.planes \in SUBSET (0 .. 3) /\ regs.read_plane \in 0 .. 3
      /\ regs.chain4 \in BOOLEAN /\ regs.odd_even \in BOOLEAN
  BY DEF MemTyped, MemAssumed
<1>3. D = 0 .. 8 * q - 1 /\ m = [a \in D |-> m[a]] /\ \A a \in D : m[a] \in SUBSET Vram!Word
  BY <1>1 DEF Memory
<1>4. Vram!DefinedBits(m, addr, v) = bits  BY DEF Vram!DefinedBits
<1>5. bits \in Memory  BY <1>3 DEF Memory
<1>6. x = -1 \/ x \in 0 .. 16 * q - 1  BY <1>1, OffsetRange
<1>7. ASSUME \A a \in D, i \in Vram!Word : ~written(a, i) PROVE m = bits
  <2>1. \A a \in D : m[a] = {i \in Vram!Word : IF written(a, i) THEN new(i) ELSE i \in m[a]}
    BY <1>3, <1>7
  <2> QED  BY <1>3, <2>1
<1> HIDE DEF x, D
<1>8. CASE x = -1
  <2>1. Vram!Written(m, addr, v) = m  BY <1>8 DEF Vram!Written, x
  <2> QED  BY <1>4, <1>5, <1>7, <1>8, <2>1
<1>9. CASE x # -1 /\ regs.chain4
  <2>1. Vram!DefinedPlanes(x) = regs.planes \cap {x % 4} /\ Vram!DefinedWord(x) = x \div 4
    BY <1>9 DEF Vram!DefinedPlanes, Vram!DefinedWord
  <2>2. CASE x % 4 \in regs.planes
    <3>1. Vram!Written(m, addr, v) = Vram!PutByte(m, x, v)  BY <1>9, <2>2 DEF Vram!Written, x
    <3>2. Vram!PutByte(m, x, v) =
            [a \in D |-> {i \in Vram!Word :
               IF a = x \div 4 /\ i \div MemBits = x % 4 THEN i % MemBits \in v ELSE i \in m[a]}]
      <4>1. x \in 0 .. 8 * Quarter - 1  BY <1>1, <1>6, <1>9
      <4> QED  BY <1>2, <4>1, PutByteBits DEF D
    <3>3. \A a \in D, i \in Vram!Word : written(a, i) <=> a = x \div 4 /\ i \div MemBits = x % 4
      BY <1>9, <2>1, <2>2
    <3>4. \A i \in Vram!Word : new(i) <=> i % MemBits \in v  BY <1>9
    <3> HIDE DEF written, new
    <3>5. Vram!PutByte(m, x, v) = bits  BY <3>2, <3>3, <3>4
    <3> QED  BY <1>4, <1>5, <3>1, <3>5
  <2>3. CASE x % 4 \notin regs.planes
    <3>1. Vram!Written(m, addr, v) = m  BY <1>9, <2>3 DEF Vram!Written, x
    <3>2. \A a \in D, i \in Vram!Word : ~written(a, i)  BY <2>1, <2>3
    <3> QED  BY <1>4, <1>5, <1>7, <3>1, <3>2
  <2> QED  BY <2>2, <2>3
<1>10. CASE x # -1 /\ ~regs.chain4 /\ regs.odd_even
  <2>0. x \in 0 .. 4 * Quarter - 1  BY <1>1, <1>6, <1>10
  <2> PICK o \in {0, 1}, p \in 0 .. 3, y \in 0 .. 8 * Quarter - 1 :
         /\ o = x % 2 /\ p = 2 * (regs.read_plane \div 2) + o
         /\ p = Vram!OddEvenPlane(x) /\ y = Vram!OddEvenByte(x)
         /\ y \div 4 = x \div 2 /\ y % 4 = p
    BY <2>0, OddEvenParts
  <2>1. y \div 4 = x \div 2 /\ y % 4 = p /\ y \in 0 .. 32 * q - 1  BY <1>1
  <2>2. Vram!DefinedPlanes(x) = regs.planes \cap {p} /\ Vram!DefinedWord(x) = x \div 2
    <3>1. \A k \in 0 .. 3 : (k % 2 = o /\ k \div 2 = regs.read_plane \div 2) <=> k = p
      <4>1. PICK h \in {0, 1} : h = regs.read_plane \div 2  BY <1>2
      <4>2. p = 2 * h + o  BY <4>1
      <4>3. ASSUME NEW k \in 0 .. 3 PROVE (k % 2 = o /\ k \div 2 = h) <=> k = 2 * h + o
        BY SMT
      <4> QED  BY <4>1, <4>2, <4>3
    <3> QED  BY <1>10, <3>1 DEF Vram!DefinedPlanes, Vram!DefinedWord, Vram!Plane
  <2>3. y < Vram!RamSize  BY <1>1, <2>1 DEF Vram!RamSize
  <2>4. CASE p \in regs.planes
    <3>1. Vram!Written(m, addr, v) = Vram!PutByte(m, y, v)  BY <1>10, <2>3, <2>4 DEF Vram!Written, x
    <3>2. Vram!PutByte(m, y, v) =
            [a \in D |-> {i \in Vram!Word :
               IF a = y \div 4 /\ i \div MemBits = y % 4 THEN i % MemBits \in v ELSE i \in m[a]}]
      <4>1. y \in 0 .. 8 * Quarter - 1  BY <1>1, <2>1
      <4> QED  BY <1>2, <4>1, PutByteBits DEF D
    <3>3. \A a \in D, i \in Vram!Word : written(a, i) <=> a = y \div 4 /\ i \div MemBits = y % 4
      BY <1>10, <2>1, <2>2, <2>4
    <3>4. \A i \in Vram!Word : new(i) <=> i % MemBits \in v  BY <1>10
    <3> HIDE DEF written, new
    <3>5. Vram!PutByte(m, y, v) = bits  BY <3>2, <3>3, <3>4
    <3> QED  BY <1>4, <1>5, <3>1, <3>5
  <2>5. CASE p \notin regs.planes
    <3>1. Vram!Written(m, addr, v) = m  BY <1>10, <2>5 DEF Vram!Written, x
    <3>2. \A a \in D, i \in Vram!Word : ~written(a, i)  BY <2>2, <2>5
    <3> QED  BY <1>4, <1>5, <1>7, <3>1, <3>2
  <2> QED  BY <2>4, <2>5
<1>11. CASE x # -1 /\ ~regs.chain4 /\ ~regs.odd_even
  <2>1. Vram!DefinedPlanes(x) = regs.planes /\ Vram!DefinedWord(x) = x
    BY <1>2, <1>11 DEF Vram!DefinedPlanes, Vram!DefinedWord, Vram!Plane
  <2>2. CASE x \in D
    <3> DEFINE mask == Vram!Mask16(regs.planes)
               word == (m[x] \ mask) \cup (Vram!Latched(v) \cap mask)
    <3>1. Vram!Written(m, addr, v) = [m EXCEPT ![x] = word]
      <4>1. ~(4 * x >= Vram!RamSize)  BY <1>1, <1>3, <2>2 DEF Vram!RamSize
      <4> QED  BY <1>11, <4>1 DEF Vram!Written, x
    <3>2. word = {i \in Vram!Word : IF written(x, i) THEN new(i) ELSE i \in m[x]}
      <4>1. word \in SUBSET Vram!Word  BY <1>3, <2>2 DEF Vram!Mask16
      <4>2. ASSUME NEW i \in Vram!Word PROVE i \in word <=> IF written(x, i) THEN new(i) ELSE i \in m[x]
        <5>1. PICK p \in 0 .. 3, j \in 0 .. MemBits - 1 :
                 p = i \div MemBits /\ j = i % MemBits /\ i = p * MemBits + j
          BY <1>2, BitOfPlane DEF Vram!Word
        <5>2. i \in mask <=> p \in regs.planes
          <6>1. p * MemBits + j \in mask <=> p \in regs.planes  BY <1>2, MaskBits
          <6>2. i = p * MemBits + j  BY <5>1
          <6> QED  BY <6>1, <6>2, Zenon
        <5>3. i \in Vram!Latched(v) <=> Vram!DefinedBit(p, j, v)  BY <5>1, LatchedBits
        <5>4. written(x, i) <=> p \in regs.planes
          <6>1. i \div MemBits = p  BY <5>1
          <6>2. written(x, i) <=> i \div MemBits \in regs.planes  BY <1>11, <2>1, Zenon
          <6> QED  BY <6>1, <6>2, Zenon
        <5>5. new(i) <=> Vram!DefinedBit(p, j, v)
          <6>1. i \div MemBits = p /\ i % MemBits = j  BY <5>1
          <6>2. ~(regs.chain4 \/ regs.odd_even)  BY <1>11
          <6>3. new(i) <=> Vram!DefinedBit(i \div MemBits, i % MemBits, v)  BY <6>2, Zenon
          <6> QED  BY <6>1, <6>3, Zenon
        <5> HIDE DEF mask, written, new
        <5> QED  BY <5>2, <5>3, <5>4, <5>5
      <4> HIDE DEF word, written, new
      <4> QED  BY <4>1, <4>2
    <3> HIDE DEF word, new
    <3>3. \A a \in D : a # x => m[a] = {i \in Vram!Word : IF written(a, i) THEN new(i) ELSE i \in m[a]}
      BY <1>3, <2>1
    <3> HIDE DEF written
    <3>4. [m EXCEPT ![x] = word] = bits  BY <1>3, <2>2, <3>2, <3>3
    <3> QED  BY <1>4, <1>5, <3>1, <3>4
  <2>3. CASE x \notin D
    <3>1. 4 * x >= Vram!RamSize  BY <1>1, <1>3, <1>6, <1>11, <2>3 DEF Vram!RamSize
    <3>2. Vram!Written(m, addr, v) = m  BY <1>11, <3>1 DEF Vram!Written, x
    <3>3. \A a \in D, i \in Vram!Word : ~written(a, i)  BY <2>1, <2>3
    <3> QED  BY <1>4, <1>5, <1>7, <3>2, <3>3
  <2> QED  BY <2>2, <2>3
<1> QED  BY <1>2, <1>8, <1>9, <1>10, <1>11

(* Several bytes, one after the other. *)
Placed(n) ==
  LET put(m, k) == Vram!DefinedBits(m, last.addr + k - 1, last.bytes[k])
  IN CASE n = 1 -> put(last.vram, 1)
       [] n = 2 -> put(put(last.vram, 1), 2)
       [] OTHER -> put(put(put(put(last.vram, 1), 2), 3), 4)

LEMMA WritesExplicit ==
  Len(last.bytes) \in {1, 2, 4} =>
    (Vram!WritesAsDefined <=>
       (last.what = "write" /\ (Len(last.bytes) = 1 \/ ~regs.chain4 \/ regs.planes \in {{}, Vram!Plane})
          => vga_vram = Placed(Len(last.bytes))))
<1>0. SUFFICES ASSUME Len(last.bytes) \in {1, 2, 4}
               PROVE  Vram!WritesAsDefined <=>
                        (last.what = "write"
                           /\ (Len(last.bytes) = 1 \/ ~regs.chain4 \/ regs.planes \in {{}, Vram!Plane})
                           => vga_vram = Placed(Len(last.bytes)))
  OBVIOUS
<1> DEFINE n == Len(last.bytes)
           put[k \in 0 .. n] == IF k = 0 THEN last.vram
                                ELSE Vram!DefinedBits(put[k - 1], last.addr + k - 1, last.bytes[k])
<1>1. Vram!WritesAsDefined <=>
           (last.what = "write" /\ (n = 1 \/ ~regs.chain4 \/ regs.planes \in {{}, Vram!Plane})
              => vga_vram = put[n])
  BY Zenon DEF Vram!WritesAsDefined
<1> DEFINE D(m, k) == Vram!DefinedBits(m, last.addr + k - 1, last.bytes[k])
           m1 == D(last.vram, 1)
           m2 == D(m1, 2)
           m3 == D(m2, 3)
           m4 == D(m3, 4)
           f == [k \in 0 .. n |-> CASE k = 0 -> last.vram [] k = 1 -> m1 [] k = 2 -> m2
                                    [] k = 3 -> m3 [] OTHER -> m4]
           P(g) == g = [k \in 0 .. n |-> IF k = 0 THEN last.vram ELSE D(g[k - 1], k)]
<1>2. n \in {1, 2, 4}  BY <1>0
<1> HIDE DEF n
<1>3. P(f)
  <2> HIDE DEF D
  <2> SUFFICES ASSUME NEW k \in 0 .. n PROVE f[k] = IF k = 0 THEN last.vram ELSE D(f[k - 1], k)
    OBVIOUS
  <2>1. k \in 0 .. 4  BY <1>2
  <2>2. CASE k = 0  BY <2>2
  <2>3. CASE k = 1  BY <2>3, <1>2
  <2>4. CASE k = 2  BY <2>4, <1>2
  <2>5. CASE k = 3  BY <2>5, <1>2
  <2>6. CASE k = 4  BY <2>6, <1>2
  <2> QED  BY <2>1, <2>2, <2>3, <2>4, <2>5, <2>6
<1>4. put = CHOOSE g : P(g)  BY Zenon
<1> HIDE DEF put, f
<1>5. P(put)  BY <1>3, <1>4, Zenon
<1>6. put[n] = Placed(n)
  <2> HIDE DEF D
  <2>1. put[0] = last.vram  BY <1>2, <1>5
  <2>2. put[1] = D(put[0], 1)  BY <1>2, <1>5
  <2>3. n # 1 => put[2] = D(put[1], 2)  BY <1>2, <1>5
  <2>4. n = 4 => put[3] = D(put[2], 3) /\ put[4] = D(put[3], 4)  BY <1>2, <1>5
  <2>5. Placed(n) = CASE n = 1 -> m1 [] n = 2 -> m2 [] OTHER -> m4  BY Zenon DEF Placed, D
  <2>6. CASE n = 1  BY <2>1, <2>2, <2>5, <2>6
  <2>7. CASE n = 2  BY <2>1, <2>2, <2>3, <2>5, <2>7
  <2>8. CASE n = 4  BY <2>1, <2>2, <2>3, <2>4, <2>5, <2>8
  <2> QED  BY <1>2, <2>6, <2>7, <2>8
<1> QED  BY <1>1, <1>6 DEF n

OneByOne(m, addr, vs) ==
  LET put(u, k) == Vram!Written(u, addr + k - 1, vs[k])
  IN IF Len(vs) = 2 THEN put(put(m, 1), 2) ELSE put(put(put(put(m, 1), 2), 3), 4)

LEMMA BytesExplicit ==
  ASSUME NEW m, NEW addr, NEW vs, Len(vs) \in {2, 4}
  PROVE  Vram!ByBytes(m, addr, vs) = OneByOne(m, addr, vs)
<1> DEFINE n == Len(vs)
           put[k \in 0 .. n] == IF k = 0 THEN m ELSE Vram!Written(put[k - 1], addr + k - 1, vs[k])
           D(u, k) == Vram!Written(u, addr + k - 1, vs[k])
           m1 == D(m, 1)
           m2 == D(m1, 2)
           m3 == D(m2, 3)
           m4 == D(m3, 4)
           f == [k \in 0 .. n |-> CASE k = 0 -> m [] k = 1 -> m1 [] k = 2 -> m2
                                    [] k = 3 -> m3 [] OTHER -> m4]
           P(g) == g = [k \in 0 .. n |-> IF k = 0 THEN m ELSE D(g[k - 1], k)]
<1>1. Vram!ByBytes(m, addr, vs) = put[n]  BY Zenon DEF Vram!ByBytes
<1>2. n \in {2, 4}  OBVIOUS
<1> HIDE DEF n
<1>3. P(f)
  <2> HIDE DEF D
  <2> SUFFICES ASSUME NEW k \in 0 .. n PROVE f[k] = IF k = 0 THEN m ELSE D(f[k - 1], k)
    OBVIOUS
  <2>1. k \in 0 .. 4  BY <1>2
  <2>2. CASE k = 0  BY <2>2
  <2>3. CASE k = 1  BY <2>3, <1>2
  <2>4. CASE k = 2  BY <2>4, <1>2
  <2>5. CASE k = 3  BY <2>5, <1>2
  <2>6. CASE k = 4  BY <2>6, <1>2
  <2> QED  BY <2>1, <2>2, <2>3, <2>4, <2>5, <2>6
<1>4. put = CHOOSE g : P(g)  BY Zenon
<1> HIDE DEF put, f
<1>5. P(put)  BY <1>3, <1>4, Zenon
<1>6. put[n] = IF n = 2 THEN m2 ELSE m4
  <2> HIDE DEF D
  <2>1. put[0] = m /\ put[1] = D(put[0], 1) /\ put[2] = D(put[1], 2)  BY <1>2, <1>5
  <2>2. n = 4 => put[3] = D(put[2], 3) /\ put[4] = D(put[3], 4)  BY <1>2, <1>5
  <2> QED  BY <1>2, <2>1, <2>2
<1> QED  BY <1>1, <1>6, Zenon DEF n, OneByOne

Chained(m, addr, vs) ==
  LET x == Vram!Offset(addr)
      put(u, k) == Vram!PutByte(u, x + k - 1, vs[k])
  IN IF x = -1 \/ x % 4 \notin regs.planes THEN m
     ELSE IF Len(vs) = 2 THEN put(put(m, 1), 2) ELSE put(put(put(put(m, 1), 2), 3), 4)

LEMMA ChunkExplicit ==
  ASSUME NEW m, NEW addr, NEW vs, Len(vs) \in {2, 4}
  PROVE  Vram!Chunk(m, addr, vs) = Chained(m, addr, vs)
<1> DEFINE n == Len(vs)
           x == Vram!Offset(addr)
           put[k \in 0 .. n] == IF k = 0 THEN m ELSE Vram!PutByte(put[k - 1], x + k - 1, vs[k])
           D(u, k) == Vram!PutByte(u, x + k - 1, vs[k])
           m1 == D(m, 1)
           m2 == D(m1, 2)
           m3 == D(m2, 3)
           m4 == D(m3, 4)
           f == [k \in 0 .. n |-> CASE k = 0 -> m [] k = 1 -> m1 [] k = 2 -> m2
                                    [] k = 3 -> m3 [] OTHER -> m4]
           P(g) == g = [k \in 0 .. n |-> IF k = 0 THEN m ELSE D(g[k - 1], k)]
<1>1. Vram!Chunk(m, addr, vs) = IF x = -1 \/ x % 4 \notin regs.planes THEN m ELSE put[n]
  BY Zenon DEF Vram!Chunk
<1>2. n \in {2, 4}  OBVIOUS
<1> HIDE DEF n, x
<1>3. P(f)
  <2> HIDE DEF D
  <2> SUFFICES ASSUME NEW k \in 0 .. n PROVE f[k] = IF k = 0 THEN m ELSE D(f[k - 1], k)
    OBVIOUS
  <2>1. k \in 0 .. 4  BY <1>2
  <2>2. CASE k = 0  BY <2>2
  <2>3. CASE k = 1  BY <2>3, <1>2
  <2>4. CASE k = 2  BY <2>4, <1>2
  <2>5. CASE k = 3  BY <2>5, <1>2
  <2>6. CASE k = 4  BY <2>6, <1>2
  <2> QED  BY <2>1, <2>2, <2>3, <2>4, <2>5, <2>6
<1>4. put = CHOOSE g : P(g)  BY Zenon
<1> HIDE DEF put, f
<1>5. P(put)  BY <1>3, <1>4, Zenon
<1>6. put[n] = IF n = 2 THEN m2 ELSE m4
  <2> HIDE DEF D
  <2>1. put[0] = m /\ put[1] = D(put[0], 1) /\ put[2] = D(put[1], 2)  BY <1>2, <1>5
  <2>2. n = 4 => put[3] = D(put[2], 3) /\ put[4] = D(put[3], 4)  BY <1>2, <1>5
  <2> QED  BY <1>2, <2>1, <2>2
<1> QED  BY <1>1, <1>6, Zenon DEF n, x, Chained

(* An aligned access is all in one piece of the window. *)
InWindow(addr, n) ==
  addr \in 0 .. 4 * Quarter - 1 /\ addr \div Quarter = (addr + (n - 1)) \div Quarter

LEMMA QuarterOf ==
  ASSUME NEW b \in Nat \ {0}, NEW addr \in 0 .. 4 * b - 1
  PROVE  addr \div b \in 0 .. 3 /\ b * (addr \div b) <= addr /\ addr < b * (addr \div b) + b
OBVIOUS

LEMMA QuarterAfter ==
  ASSUME NEW b \in Nat \ {0}, NEW n \in Nat
  PROVE  n < b * (n \div b) + b
OBVIOUS

LEMMA InOnePiece ==
  ASSUME MemTyped, NEW n \in {2, 4}, NEW addr, InWindow(addr, n), NEW k \in 1 .. n
  PROVE  /\ addr + (k - 1) \in 0 .. 4 * Quarter - 1
         /\ Vram!Offset(addr + (k - 1)) =
              IF Vram!Offset(addr) = -1 THEN -1 ELSE Vram!Offset(addr) + (k - 1)
         /\ Vram!Offset(addr) # -1 => Vram!Offset(addr) + (k - 1) \in 0 .. 4 * Quarter - 1
<1>1. PICK q \in Nat \ {0} : Quarter = 4 * q  BY DEF MemTyped, MemAssumed
<1>2. regs.map \in 0 .. 3 /\ regs.bank \in 0 .. 1  BY DEF MemTyped, MemAssumed
<1>0. addr \in 0 .. 4 * Quarter - 1 /\ addr \div Quarter = (addr + (n - 1)) \div Quarter
  BY DEF InWindow
<1>4. regs.bank = 0 \/ regs.bank = 1  BY <1>2
<1> DEFINE next == addr + (k - 1)
<1>5. next \in Nat /\ k \in Int
      /\ (addr < 2 * Quarter <=> next < 2 * Quarter) /\ (addr < 3 * Quarter <=> next < 3 * Quarter)
      /\ (addr < 4 * Quarter <=> next < 4 * Quarter)
  <2>1. PICK b \in Nat \ {0} : b = Quarter  BY <1>1
  <2>2. PICK e \in 0 .. 3 : e = addr \div b  BY <1>0, <2>1, QuarterOf
  <2>3. b * e <= addr /\ addr < b * e + b  BY <1>0, <2>1, <2>2, QuarterOf
  <2>4. PICK end \in Nat : end = addr + (n - 1)  BY <1>0, <1>1
  <2>5. end < b * e + b  BY <1>0, <2>1, <2>2, <2>4, QuarterAfter
  <2>6. next \in addr .. end  BY <1>0, <1>1, <2>4
  <2>7. e = 0 \/ e = 1 \/ e = 2 \/ e = 3  OBVIOUS
  <2> HIDE DEF next
  <2> QED  BY <1>0, <1>1, <2>1, <2>3, <2>5, <2>6, <2>7
<1>6. /\ addr < 2 * Quarter <=> next < 2 * Quarter
      /\ addr < 3 * Quarter <=> next < 3 * Quarter
      /\ addr < 4 * Quarter <=> next < 4 * Quarter
  BY <1>5
<1>7. next = addr + (k - 1)  OBVIOUS
<1> HIDE DEF next
<1>8. next \in 0 .. 4 * Quarter - 1  BY <1>0, <1>1, <1>5, <1>6
<1>9. Vram!Offset(next) = IF Vram!Offset(addr) = -1 THEN -1 ELSE Vram!Offset(addr) + (k - 1)
  <2>1. CASE regs.map = 0  BY <1>0, <1>1, <1>5, <1>6, <1>7, <1>8, <2>1 DEF Vram!Offset
  <2>2. CASE regs.map = 1
    <3>1. PICK b \in 0 .. 1 : b = regs.bank  BY <1>2
    <3>2. b * 2 * Quarter \in Nat  BY <1>1
    <3> QED  BY <1>0, <1>1, <1>5, <1>6, <1>7, <1>8, <2>2, <3>1, <3>2 DEF Vram!Offset
  <2>3. CASE regs.map = 2  BY <1>0, <1>1, <1>5, <1>6, <1>7, <1>8, <2>3 DEF Vram!Offset
  <2>4. CASE regs.map = 3  BY <1>0, <1>1, <1>5, <1>6, <1>7, <1>8, <2>4 DEF Vram!Offset
  <2> QED  BY <1>2, <2>1, <2>2, <2>3, <2>4
<1>10. Vram!Offset(next) = -1 \/ Vram!Offset(next) \in 0 .. 4 * Quarter - 1  BY <1>8, OffsetRange
<1>11. Vram!Offset(addr) = -1 \/ Vram!Offset(addr) \in 0 .. 4 * Quarter - 1  BY <1>0, OffsetRange
<1>12. Vram!Offset(addr) # -1 => Vram!Offset(addr) + (k - 1) \in 0 .. 4 * Quarter - 1
  BY <1>1, <1>5, <1>9, <1>10, <1>11
<1> QED  BY <1>8, <1>9, <1>12 DEF next

MemBytes == SUBSET (0 .. MemBits - 1)
AreBytes(vs, n) == Len(vs) = n /\ \A k \in 1 .. n : vs[k] \in MemBytes

(* MemBytes that are written one by one, as defined.                           *)
LEMMA BytesAsDefined ==
  ASSUME MemTyped, NEW m \in Memory, NEW n \in {2, 4}, NEW vs, AreBytes(vs, n),
         NEW addr, InWindow(addr, n)
  PROVE  LET put(u, k) == Vram!DefinedBits(u, addr + k - 1, vs[k])
         IN /\ Vram!ByBytes(m, addr, vs) =
                 IF n = 2 THEN put(put(m, 1), 2) ELSE put(put(put(put(m, 1), 2), 3), 4)
            /\ Vram!ByBytes(m, addr, vs) \in Memory
<1> DEFINE W(u, k) == Vram!Written(u, addr + k - 1, vs[k])
           D(u, k) == Vram!DefinedBits(u, addr + k - 1, vs[k])
<1>1. Vram!ByBytes(m, addr, vs) = IF n = 2 THEN W(W(m, 1), 2) ELSE W(W(W(W(m, 1), 2), 3), 4)
  <2>1. Len(vs) = n /\ Len(vs) \in {2, 4}  BY DEF AreBytes
  <2>2. Vram!ByBytes(m, addr, vs) = OneByOne(m, addr, vs)
    <3> HIDE DEF W, D
    <3>1. Len(vs) \in {2, 4}  BY <2>1
    <3> QED  BY <3>1, BytesExplicit
  <2>3. OneByOne(m, addr, vs) = IF n = 2 THEN W(W(m, 1), 2) ELSE W(W(W(W(m, 1), 2), 3), 4)
    BY <2>1, Zenon DEF OneByOne
  <2> QED  BY <2>2, <2>3, Zenon
<1>2. \A u \in Memory, k \in 1 .. n : W(u, k) = D(u, k) /\ W(u, k) \in Memory
  <2> TAKE u \in Memory, k \in 1 .. n
  <2>1. addr + (k - 1) \in 0 .. 4 * Quarter - 1  BY InOnePiece
  <2>2. vs[k] \in SUBSET (0 .. MemBits - 1)  BY DEF MemBytes, AreBytes
  <2> QED  BY <2>1, <2>2, WrittenAsDefined
<1> HIDE DEF W, D
<1>3. Vram!ByBytes(m, addr, vs) = (IF n = 2 THEN D(D(m, 1), 2) ELSE D(D(D(D(m, 1), 2), 3), 4))
      /\ Vram!ByBytes(m, addr, vs) \in Memory
  <2>1. CASE n = 2
    <3>1. 1 \in 1 .. n /\ 2 \in 1 .. n  BY <2>1
    <3>2. W(m, 1) = D(m, 1) /\ W(m, 1) \in Memory  BY <1>2, <3>1
    <3>3. W(W(m, 1), 2) = D(W(m, 1), 2) /\ W(W(m, 1), 2) \in Memory  BY <1>2, <3>1, <3>2
    <3> QED  BY <1>1, <2>1, <3>2, <3>3
  <2>2. CASE n = 4
    <3>1. 1 \in 1 .. n /\ 2 \in 1 .. n /\ 3 \in 1 .. n /\ 4 \in 1 .. n  BY <2>2
    <3>2. W(m, 1) = D(m, 1) /\ W(m, 1) \in Memory  BY <1>2, <3>1
    <3>3. W(W(m, 1), 2) = D(W(m, 1), 2) /\ W(W(m, 1), 2) \in Memory  BY <1>2, <3>1, <3>2
    <3>4. W(W(W(m, 1), 2), 3) = D(W(W(m, 1), 2), 3) /\ W(W(W(m, 1), 2), 3) \in Memory
      BY <1>2, <3>1, <3>3
    <3>5. W(W(W(W(m, 1), 2), 3), 4) = D(W(W(W(m, 1), 2), 3), 4) /\ W(W(W(W(m, 1), 2), 3), 4) \in Memory
      BY <1>2, <3>1, <3>4
    <3> QED  BY <1>1, <2>2, <3>2, <3>3, <3>4, <3>5
  <2> QED  BY <2>1, <2>2
<1> QED  BY <1>3 DEF D

(* A byte of a chained access, which has the planes of the first one.       *)
LEMMA ChainedByte ==
  ASSUME MemTyped, NEW m \in Memory, NEW x \in 0 .. 4 * Quarter - 1, NEW v \in MemBytes
  PROVE  /\ Vram!PutByte(m, x, v) \in Memory
         /\ \A a \in 0 .. 4 * Quarter - 1 :
              regs.chain4 /\ regs.planes = Vram!Plane /\ Vram!Offset(a) = x
                => Vram!PutByte(m, x, v) = Vram!DefinedBits(m, a, v)
<1>1. PICK q \in Nat \ {0} : Quarter = 4 * q  BY DEF MemTyped, MemAssumed
<1>2. v \in SUBSET (0 .. MemBits - 1) /\ x \in 0 .. 8 * Quarter - 1 /\ MemAssumed
  BY <1>1 DEF MemBytes, MemTyped
<1>3. Vram!PutByte(m, x, v) =
        [a \in DOMAIN m |-> {i \in Vram!Word :
            IF a = x \div 4 /\ i \div MemBits = x % 4 THEN i % MemBits \in v ELSE i \in m[a]}]
  BY <1>2, PutByteBits
<1>4. ASSUME NEW a \in 0 .. 4 * Quarter - 1, regs.chain4, regs.planes = Vram!Plane, Vram!Offset(a) = x
      PROVE  Vram!PutByte(m, x, v) = Vram!DefinedBits(m, a, v)
  <2>1. Vram!Written(m, a, v) = Vram!DefinedBits(m, a, v)  BY <1>2, WrittenAsDefined
  <2>2. x # -1 /\ x % 4 \in Vram!Plane  BY <1>1 DEF Vram!Plane
  <2> QED  BY <1>4, <2>1, <2>2 DEF Vram!Written
<1>5. DOMAIN m = 0 .. (8 * Quarter) \div 4 - 1  BY DEF Memory
<1>6. Vram!PutByte(m, x, v) \in Memory  BY <1>3, <1>5 DEF Memory
<1> QED  BY <1>4, <1>6

LEMMA NothingDefined ==
  ASSUME MemTyped, NEW m \in Memory, NEW addr \in 0 .. 4 * Quarter - 1, NEW v \in MemBytes,
         regs.planes = {} \/ Vram!Offset(addr) = -1
  PROVE  Vram!DefinedBits(m, addr, v) = m
<1>1. v \in SUBSET (0 .. MemBits - 1)  BY DEF MemBytes
<1>2. Vram!Written(m, addr, v) = Vram!DefinedBits(m, addr, v)  BY <1>1, WrittenAsDefined
<1>3. CASE Vram!Offset(addr) = -1  BY <1>2, <1>3 DEF Vram!Written
<1>4. CASE regs.planes = {}
  <2> DEFINE x == Vram!Offset(addr)
  <2>1. Vram!DefinedBits(m, addr, v) = [a \in DOMAIN m |-> {i \in Vram!Word : i \in m[a]}]
    <3>1. Vram!DefinedPlanes(x) = {}  BY <1>4 DEF Vram!DefinedPlanes
    <3> HIDE DEF x
    <3> QED  BY <3>1 DEF Vram!DefinedBits, x
  <2>2. \A a \in DOMAIN m : m[a] = {i \in Vram!Word : i \in m[a]}  BY DEF Memory
  <2>3. m = [a \in DOMAIN m |-> m[a]]  BY DEF Memory
  <2> QED  BY <2>1, <2>2, <2>3
<1> QED  BY <1>3, <1>4

(* MemBytes that are chained, as defined if all planes or none are written.    *)
LEMMA ChainAsDefined ==
  ASSUME MemTyped, regs.chain4, NEW m \in Memory, NEW n \in {2, 4}, NEW vs, AreBytes(vs, n),
         NEW addr, InWindow(addr, n)
  PROVE  LET put(u, k) == Vram!DefinedBits(u, addr + k - 1, vs[k])
         IN /\ regs.planes \in {{}, Vram!Plane} => Vram!Chunk(m, addr, vs) =
                 IF n = 2 THEN put(put(m, 1), 2) ELSE put(put(put(put(m, 1), 2), 3), 4)
            /\ Vram!Chunk(m, addr, vs) \in Memory
<1> DEFINE x == Vram!Offset(addr)
           W(u, k) == Vram!PutByte(u, x + k - 1, vs[k])
           D(u, k) == Vram!DefinedBits(u, addr + k - 1, vs[k])
           all == IF n = 2 THEN D(D(m, 1), 2) ELSE D(D(D(D(m, 1), 2), 3), 4)
<1>1. Vram!Chunk(m, addr, vs) =
        IF x = -1 \/ x % 4 \notin regs.planes THEN m
        ELSE IF n = 2 THEN W(W(m, 1), 2) ELSE W(W(W(W(m, 1), 2), 3), 4)
  <2>1. Len(vs) = n /\ Len(vs) \in {2, 4}  BY DEF AreBytes
  <2>2. Vram!Chunk(m, addr, vs) = Chained(m, addr, vs)
    <3> HIDE DEF W, D
    <3>1. Len(vs) \in {2, 4}  BY <2>1
    <3> QED  BY <3>1, ChunkExplicit
  <2>3. Chained(m, addr, vs) =
        IF x = -1 \/ x % 4 \notin regs.planes THEN m
        ELSE IF n = 2 THEN W(W(m, 1), 2) ELSE W(W(W(W(m, 1), 2), 3), 4)
    BY <2>1, Zenon DEF Chained
  <2> QED  BY <2>2, <2>3, Zenon
<1>2. ASSUME NEW k \in 1 .. n
      PROVE  /\ vs[k] \in MemBytes /\ addr + (k - 1) \in 0 .. 4 * Quarter - 1
             /\ Vram!Offset(addr + (k - 1)) = IF x = -1 THEN -1 ELSE x + (k - 1)
             /\ x # -1 => x + (k - 1) \in 0 .. 4 * Quarter - 1
  <2>1. vs[k] \in MemBytes  BY DEF AreBytes
  <2>2. /\ addr + (k - 1) \in 0 .. 4 * Quarter - 1
        /\ Vram!Offset(addr + (k - 1)) = IF x = -1 THEN -1 ELSE x + (k - 1)
        /\ x # -1 => x + (k - 1) \in 0 .. 4 * Quarter - 1
    <3> HIDE DEF W, D, x
    <3>1. addr + (k - 1) \in 0 .. 4 * Quarter - 1  BY InOnePiece
    <3>2. Vram!Offset(addr + (k - 1)) =
             IF Vram!Offset(addr) = -1 THEN -1 ELSE Vram!Offset(addr) + (k - 1)
      BY InOnePiece
    <3>3. Vram!Offset(addr) # -1 => Vram!Offset(addr) + (k - 1) \in 0 .. 4 * Quarter - 1
      BY InOnePiece
    <3> QED  BY <3>1, <3>2, <3>3, Zenon DEF x
  <2> QED  BY <2>1, <2>2
<1>3. ASSUME NEW u \in Memory, NEW k \in 1 .. n, x # -1
      PROVE  W(u, k) \in Memory /\ (regs.planes = Vram!Plane => W(u, k) = D(u, k))
  <2>1. vs[k] \in MemBytes /\ addr + (k - 1) \in 0 .. 4 * Quarter - 1 /\ x + (k - 1) \in 0 .. 4 * Quarter - 1
        /\ Vram!Offset(addr + (k - 1)) = x + (k - 1)
    BY <1>2, <1>3
  <2> HIDE DEF x
  <2>2. PICK y \in 0 .. 4 * Quarter - 1 : y = x + (k - 1)  BY <2>1
  <2>3. PICK a \in 0 .. 4 * Quarter - 1 : a = addr + (k - 1)  BY <2>1
  <2>4. PICK v \in MemBytes : v = vs[k]  BY <2>1
  <2>5. Vram!PutByte(u, y, v) \in Memory
        /\ (regs.planes = Vram!Plane => Vram!PutByte(u, y, v) = Vram!DefinedBits(u, a, v))
    <3>1. Vram!Offset(a) = y  BY <2>1, <2>2, <2>3
    <3> QED  BY <3>1, ChainedByte
  <2>6. W(u, k) = Vram!PutByte(u, y, v)  BY <2>2, <2>4, Zenon
  <2>7. D(u, k) = Vram!DefinedBits(u, a, v)  BY <2>3, <2>4, Zenon
  <2> HIDE DEF W, D
  <2> QED  BY <2>5, <2>6, <2>7
<1>4. ASSUME NEW u \in Memory, NEW k \in 1 .. n, regs.planes = {} \/ x = -1
      PROVE  D(u, k) = u
  <2>1. vs[k] \in MemBytes /\ addr + (k - 1) \in 0 .. 4 * Quarter - 1
        /\ (x = -1 => Vram!Offset(addr + (k - 1)) = -1)
    BY <1>2
  <2> HIDE DEF x
  <2> QED  BY <1>4, <2>1, NothingDefined
<1> HIDE DEF W, D, x
<1>5. CASE x = -1
  <2>1. Vram!Chunk(m, addr, vs) = m  BY <1>1, <1>5
  <2>2. all = m
    <3>1. CASE n = 2
      <4>1. 1 \in 1 .. n /\ 2 \in 1 .. n  BY <3>1
      <4>2. D(m, 1) = m /\ D(m, 2) = m  BY <1>4, <1>5, <4>1
      <4> QED  BY <3>1, <4>2
    <3>2. CASE n = 4
      <4>1. 1 \in 1 .. n /\ 2 \in 1 .. n /\ 3 \in 1 .. n /\ 4 \in 1 .. n  BY <3>2
      <4>2. D(m, 1) = m /\ D(m, 2) = m /\ D(m, 3) = m /\ D(m, 4) = m  BY <1>4, <1>5, <4>1
      <4> QED  BY <3>2, <4>2
    <3> QED  BY <3>1, <3>2
  <2> QED  BY <2>1, <2>2 DEF D
<1>6. CASE regs.planes = {}
  <2>1. Vram!Chunk(m, addr, vs) = m  BY <1>1, <1>6
  <2>2. all = m
    <3>1. CASE n = 2
      <4>1. 1 \in 1 .. n /\ 2 \in 1 .. n  BY <3>1
      <4>2. D(m, 1) = m /\ D(m, 2) = m  BY <1>4, <1>6, <4>1
      <4> QED  BY <3>1, <4>2
    <3>2. CASE n = 4
      <4>1. 1 \in 1 .. n /\ 2 \in 1 .. n /\ 3 \in 1 .. n /\ 4 \in 1 .. n  BY <3>2
      <4>2. D(m, 1) = m /\ D(m, 2) = m /\ D(m, 3) = m /\ D(m, 4) = m  BY <1>4, <1>6, <4>1
      <4> QED  BY <3>2, <4>2
    <3> QED  BY <3>1, <3>2
  <2> QED  BY <2>1, <2>2 DEF D
<1>7. CASE x # -1 /\ regs.planes # {}
  <2>0. x \in Int  BY <1>7, OffsetRange DEF x, InWindow
  <2>1. regs.planes = Vram!Plane => x % 4 \in regs.planes  BY <2>0 DEF Vram!Plane
  <2> DEFINE put == IF n = 2 THEN W(W(m, 1), 2) ELSE W(W(W(W(m, 1), 2), 3), 4)
  <2>2. put \in Memory /\ (regs.planes = Vram!Plane => put = all)
    <3>1. CASE n = 2
      <4>1. 1 \in 1 .. n /\ 2 \in 1 .. n  BY <3>1
      <4> DEFINE m1 == W(m, 1)
      <4>2. m1 \in Memory /\ (regs.planes = Vram!Plane => m1 = D(m, 1))  BY <1>3, <1>7, <4>1
      <4> HIDE DEF m1
      <4>3. W(m1, 2) \in Memory /\ (regs.planes = Vram!Plane => W(m1, 2) = D(m1, 2))
        BY <1>3, <1>7, <4>1, <4>2
      <4> QED  BY <3>1, <4>2, <4>3 DEF m1
    <3>2. CASE n = 4
      <4>1. 1 \in 1 .. n /\ 2 \in 1 .. n /\ 3 \in 1 .. n /\ 4 \in 1 .. n  BY <3>2
      <4> DEFINE m1 == W(m, 1)
                 m2 == W(m1, 2)
                 m3 == W(m2, 3)
      <4>2. m1 \in Memory /\ (regs.planes = Vram!Plane => m1 = D(m, 1))  BY <1>3, <1>7, <4>1
      <4> HIDE DEF m1
      <4>3. m2 \in Memory /\ (regs.planes = Vram!Plane => m2 = D(m1, 2))
        BY <1>3, <1>7, <4>1, <4>2
      <4> HIDE DEF m2
      <4>4. m3 \in Memory /\ (regs.planes = Vram!Plane => m3 = D(m2, 3))
        BY <1>3, <1>7, <4>1, <4>3
      <4> HIDE DEF m3
      <4>5. W(m3, 4) \in Memory /\ (regs.planes = Vram!Plane => W(m3, 4) = D(m3, 4))
        BY <1>3, <1>7, <4>1, <4>4
      <4> QED  BY <3>2, <4>2, <4>3, <4>4, <4>5 DEF m1, m2, m3
    <3> QED  BY <3>1, <3>2
  <2>3. CASE x % 4 \in regs.planes
    <3>1. Vram!Chunk(m, addr, vs) = put  BY <1>1, <1>7, <2>3
    <3> HIDE DEF put, all
    <3>2. regs.planes \in {{}, Vram!Plane} => Vram!Chunk(m, addr, vs) = all  BY <1>7, <2>2, <3>1
    <3> QED  BY <2>2, <3>1, <3>2 DEF all, D
  <2>4. CASE x % 4 \notin regs.planes
    <3>1. Vram!Chunk(m, addr, vs) = m  BY <1>1, <1>7, <2>4
    <3> QED  BY <1>7, <2>1, <2>4, <3>1
  <2> QED  BY <2>3, <2>4
<1> QED  BY <1>5, <1>6, <1>7

(* The definition depends on the registers and the latch only.              *)
LEMMA SameDefinition ==
  ASSUME UNCHANGED <<regs, latch>>, NEW m, NEW addr, NEW v
  PROVE  Vram!DefinedBits(m, addr, v)' = Vram!DefinedBits(m, addr, v)
<1>1. regs' = regs /\ latch' = latch  OBVIOUS
<1>2. Vram!Offset(addr)' = Vram!Offset(addr)  BY <1>1 DEF Vram!Offset
<1>3. \A x : Vram!DefinedPlanes(x)' = Vram!DefinedPlanes(x)  BY <1>1 DEF Vram!DefinedPlanes
<1>4. \A x : Vram!DefinedWord(x)' = Vram!DefinedWord(x)  BY <1>1 DEF Vram!DefinedWord
<1>5. \A p, j : Vram!DefinedBit(p, j, v)' = Vram!DefinedBit(p, j, v)  BY <1>1 DEF Vram!DefinedBit
<1> QED  BY <1>1, <1>2, <1>3, <1>4, <1>5 DEF Vram!DefinedBits

(* A write that puts what is defined.                                       *)
LEMMA WriteKeeps ==
  ASSUME NEW addr, NEW vs, Len(vs) \in {1, 2, 4},
         last' = [what |-> "write", addr |-> addr, bytes |-> vs, vram |-> vga_vram],
         UNCHANGED <<regs, latch>>,
         LET put(u, k) == Vram!DefinedBits(u, addr + k - 1, vs[k])
         IN Len(vs) = 1 \/ ~regs.chain4 \/ regs.planes \in {{}, Vram!Plane} =>
              vga_vram' = IF Len(vs) = 1 THEN put(vga_vram, 1)
                          ELSE IF Len(vs) = 2 THEN put(put(vga_vram, 1), 2)
                          ELSE put(put(put(put(vga_vram, 1), 2), 3), 4)
  PROVE  Vram!WritesAsDefined'
<1>1. (Len(last.bytes) \in {1, 2, 4} =>
         (Vram!WritesAsDefined <=>
            (last.what = "write" /\ (Len(last.bytes) = 1 \/ ~regs.chain4 \/ regs.planes \in {{}, Vram!Plane})
               => vga_vram = Placed(Len(last.bytes)))))'
  BY WritesExplicit, PTL
<1>2. last'.bytes = vs /\ last'.addr = addr /\ last'.vram = vga_vram /\ regs' = regs  OBVIOUS
<1>3. \A m, a, v : Vram!DefinedBits(m, a, v)' = Vram!DefinedBits(m, a, v)  BY SameDefinition
<1>4. Placed(Len(last.bytes))' =
        LET put(u, k) == Vram!DefinedBits(u, addr + k - 1, vs[k])
        IN IF Len(vs) = 1 THEN put(vga_vram, 1)
           ELSE IF Len(vs) = 2 THEN put(put(vga_vram, 1), 2)
           ELSE put(put(put(put(vga_vram, 1), 2), 3), 4)
  BY <1>2, <1>3 DEF Placed
<1> QED  BY <1>1, <1>2, <1>4

LEMMA MemoryType ==
  Vram!TypeOK <=> regs \in Setups /\ vga_vram \in Memory /\ latch \in SUBSET Vram!Word
                    /\ accesses \in 0 .. MaxAccesses
BY DEF Vram!TypeOK, Memory, Vram!RamSize

LEMMA CountsOn ==
  ASSUME MemAssumed, Vram!TypeOK, Vram!Counted PROVE accesses' \in 0 .. MaxAccesses
<1>1. accesses \in 0 .. MaxAccesses /\ accesses < MaxAccesses /\ accesses' = accesses + 1
  BY DEF Vram!TypeOK, Vram!Counted
<1>2. MaxAccesses \in Nat  BY DEF MemAssumed
<1> QED  BY <1>1, <1>2

(* One byte. *)
LEMMA ByteKeeps ==
  ASSUME MemAssumed, Vram!TypeOK, NEW addr \in Addresses, NEW v \in MemValues, Vram!Write(addr, v)
  PROVE  Vram!MemoryAsDefined'
<1>1. MemTyped /\ vga_vram \in Memory  BY MemoryType DEF MemTyped
<1>2. addr \in 0 .. 4 * Quarter - 1 /\ v \in SUBSET (0 .. MemBits - 1)  BY DEF MemAssumed
<1>3. /\ last' = [what |-> "write", addr |-> addr, bytes |-> <<v>>, vram |-> vga_vram]
      /\ UNCHANGED <<regs, latch>> /\ vga_vram' = Vram!Written(vga_vram, addr, v)
  BY DEF Vram!Write
<1>4. vga_vram' = Vram!DefinedBits(vga_vram, addr, v) /\ vga_vram' \in Memory
  BY <1>1, <1>2, <1>3, WrittenAsDefined
<1>5. Vram!TypeOK'
  <2>1. accesses' \in 0 .. MaxAccesses  BY CountsOn DEF Vram!Write
  <2>2. (Vram!TypeOK <=> regs \in Setups /\ vga_vram \in Memory /\ latch \in SUBSET Vram!Word
                    /\ accesses \in 0 .. MaxAccesses)'
    BY MemoryType, PTL
  <2>3. Memory' = Memory /\ (Vram!Word)' = Vram!Word  BY DEF Memory, Vram!Word
  <2> QED  BY <1>1, <1>3, <1>4, <2>1, <2>2, <2>3 DEF MemTyped
<1>6. Vram!WritesAsDefined'
  <2> PICK vs : vs = <<v>>  OBVIOUS
  <2>1. Len(vs) = 1 /\ vs[1] = v  OBVIOUS
  <2>2. addr + (1 - 1) = addr  BY <1>2
  <2>3. vga_vram' = Vram!DefinedBits(vga_vram, addr + (1 - 1), vs[1])  BY <1>4, <2>1, <2>2
  <2>4. last' = [what |-> "write", addr |-> addr, bytes |-> vs, vram |-> vga_vram]  BY <1>3
  <2> QED  BY <1>3, <2>1, <2>3, <2>4, WriteKeeps
<1>7. Vram!ReadsAsDefined'
  <2>1. last'.what # "read"  BY <1>3
  <2> QED  BY <2>1, Zenon DEF Vram!ReadsAsDefined
<1> QED  BY <1>5, <1>6, <1>7 DEF Vram!MemoryAsDefined

(* Several bytes. *)
LEMMA WideKeeps ==
  ASSUME MemAssumed, Vram!TypeOK, NEW n \in {2, 4}, NEW vs, AreBytes(vs, n),
         NEW addr \in Addresses, Vram!WriteWide(addr, vs)
  PROVE  Vram!MemoryAsDefined'
<1>1. MemTyped /\ vga_vram \in Memory /\ regs.chain4 \in BOOLEAN
  BY MemoryType DEF MemTyped, MemAssumed
<1>2. InWindow(addr, n)
  <2>1. Len(vs) = n  BY DEF AreBytes
  <2>2. addr \div Quarter = (addr + (Len(vs) - 1)) \div Quarter  BY Zenon DEF Vram!WriteWide
  <2> QED  BY <2>1, <2>2 DEF MemAssumed, InWindow
<1>3. /\ last' = [what |-> "write", addr |-> addr, bytes |-> vs, vram |-> vga_vram]
      /\ UNCHANGED <<regs, latch>>
      /\ vga_vram' = IF regs.chain4 THEN Vram!Chunk(vga_vram, addr, vs) ELSE Vram!ByBytes(vga_vram, addr, vs)
  BY DEF Vram!WriteWide
<1> DEFINE D(u, k) == Vram!DefinedBits(u, addr + k - 1, vs[k])
           all == IF n = 2 THEN D(D(vga_vram, 1), 2)
                  ELSE D(D(D(D(vga_vram, 1), 2), 3), 4)
<1>4. vga_vram' \in Memory /\ (~regs.chain4 \/ regs.planes \in {{}, Vram!Plane} => vga_vram' = all)
  <2>1. CASE regs.chain4
    <3>1. vga_vram' = Vram!Chunk(vga_vram, addr, vs)  BY <1>3, <2>1
    <3>2. Vram!Chunk(vga_vram, addr, vs) \in Memory
          /\ (regs.planes \in {{}, Vram!Plane} => Vram!Chunk(vga_vram, addr, vs) = all)
      BY <1>1, <1>2, <2>1, ChainAsDefined
    <3> HIDE DEF all
    <3> QED  BY <2>1, <3>1, <3>2
  <2>2. CASE ~regs.chain4
    <3>1. vga_vram' = Vram!ByBytes(vga_vram, addr, vs)  BY <1>3, <2>2
    <3>2. Vram!ByBytes(vga_vram, addr, vs) \in Memory /\ Vram!ByBytes(vga_vram, addr, vs) = all
      BY <1>1, <1>2, BytesAsDefined
    <3> HIDE DEF all
    <3> QED  BY <3>1, <3>2
  <2> QED  BY <1>1, <2>1, <2>2
<1>5. Vram!TypeOK'
  <2>1. accesses' \in 0 .. MaxAccesses  BY CountsOn DEF Vram!WriteWide
  <2>2. (Vram!TypeOK <=> regs \in Setups /\ vga_vram \in Memory /\ latch \in SUBSET Vram!Word
                    /\ accesses \in 0 .. MaxAccesses)'
    BY MemoryType, PTL
  <2>3. Memory' = Memory /\ (Vram!Word)' = Vram!Word  BY DEF Memory, Vram!Word
  <2> QED  BY <1>1, <1>3, <1>4, <2>1, <2>2, <2>3 DEF MemTyped
<1>6. Vram!WritesAsDefined'
  <2>1. Len(vs) = n  BY DEF AreBytes
  <2>2. n # 1  OBVIOUS
  <2> HIDE DEF D
  <2>3. Len(vs) = 1 \/ ~regs.chain4 \/ regs.planes \in {{}, Vram!Plane} =>
          vga_vram' = IF Len(vs) = 1 THEN D(vga_vram, 1)
                      ELSE IF Len(vs) = 2 THEN D(D(vga_vram, 1), 2)
                      ELSE D(D(D(D(vga_vram, 1), 2), 3), 4)
    BY <1>4, <2>1, <2>2
  <2>4. Len(vs) \in {1, 2, 4}  BY <2>1
  <2> QED  BY <1>3, <2>3, <2>4, WriteKeeps DEF D
<1>7. Vram!ReadsAsDefined'
  <2>1. last'.what # "read"  BY <1>3
  <2> QED  BY <2>1, Zenon DEF Vram!ReadsAsDefined
<1> QED  BY <1>5, <1>6, <1>7 DEF Vram!MemoryAsDefined

(* The planes that count, compared in one go as they are one by one.        *)
Unlike(word) ==
  ((word \ Vram!Mask16(regs.compare)) \cup (Vram!Mask16(regs.compare) \ word)) \cap Vram!Mask16(regs.care)
Differing(word) ==
  LET halves == Unlike(word) \cup Vram!ShiftedRight(Unlike(word), 2 * MemBits)
  IN halves \cup Vram!ShiftedRight(halves, MemBits)
Alike(word, j) == \A p \in regs.care : (p \in regs.compare) = (p * MemBits + j \in word)

LEMMA ComparedBits ==
  ASSUME MemTyped, NEW word \in SUBSET Vram!Word, NEW j \in 0 .. MemBits - 1
  PROVE  j \notin Differing(word) <=> Alike(word, j)
<1> DEFINE unlike == Unlike(word)
           halves == unlike \cup Vram!ShiftedRight(unlike, 2 * MemBits)
<1>1. MemBits \in Nat \ {0} /\ regs.care \in SUBSET (0 .. 3)  BY DEF MemTyped, MemAssumed
<1>2. unlike \in SUBSET Vram!Word
  <2>1. Vram!Mask16(regs.care) \in SUBSET Vram!Word  BY DEF Vram!Mask16
  <2> QED  BY <2>1 DEF Unlike
<1>3. \A p \in 0 .. 3 : p * MemBits + j \in unlike <=>
          p \in regs.care /\ ~((p \in regs.compare) <=> (p * MemBits + j \in word))
  <2> TAKE p \in 0 .. 3
  <2>1. p * MemBits + j \in Vram!Mask16(regs.compare) <=> p \in regs.compare  BY <1>1, MaskBits
  <2>2. p * MemBits + j \in Vram!Mask16(regs.care) <=> p \in regs.care  BY <1>1, MaskBits
  <2> QED  BY <2>1, <2>2 DEF Unlike
<1> HIDE DEF unlike
<1>4. \A i \in Vram!Word : i \in halves <=> i \in unlike \/ i + 2 * MemBits \in unlike
  <2> TAKE i \in Vram!Word
  <2>0. i \in Int /\ unlike \subseteq Int  BY <1>2 DEF Vram!Word
  <2>1. ASSUME i \in Vram!ShiftedRight(unlike, 2 * MemBits) PROVE i + 2 * MemBits \in unlike
    <3>1. PICK k \in unlike : i = k - 2 * MemBits  BY <2>1 DEF Vram!ShiftedRight
    <3>2. i + 2 * MemBits = k  BY <1>1, <2>0, <3>1
    <3> QED  BY <3>1, <3>2
  <2>2. ASSUME i + 2 * MemBits \in unlike PROVE i \in Vram!ShiftedRight(unlike, 2 * MemBits)
    <3>1. i = (i + 2 * MemBits) - 2 * MemBits  BY <1>1, <2>0
    <3> QED  BY <2>2, <3>1 DEF Vram!ShiftedRight
  <2> QED  BY <2>1, <2>2
<1>5. halves \in SUBSET Vram!Word  BY <1>2 DEF Vram!ShiftedRight
<1> HIDE DEF halves
<1>6. j \in Vram!ShiftedRight(halves, MemBits) <=> j + MemBits \in halves
  <2>0. j \in Vram!Word /\ halves \subseteq Int  BY <1>1, <1>5 DEF Vram!Word
  <2>1. ASSUME j \in Vram!ShiftedRight(halves, MemBits) PROVE j + MemBits \in halves
    <3>1. PICK k \in halves : j = k - MemBits  BY <2>1 DEF Vram!ShiftedRight
    <3>2. j + MemBits = k  BY <1>1, <2>0, <3>1
    <3> QED  BY <3>1, <3>2
  <2>2. ASSUME j + MemBits \in halves PROVE j \in Vram!ShiftedRight(halves, MemBits)
    <3>1. j = (j + MemBits) - MemBits  BY <1>1
    <3> QED  BY <2>0, <2>2, <3>1 DEF Vram!ShiftedRight
  <2> QED  BY <2>1, <2>2
<1>7. (j \in halves \/ j + MemBits \in halves) <=> \E p \in 0 .. 3 : p * MemBits + j \in unlike
  <2>1. j \in Vram!Word /\ j + MemBits \in Vram!Word  BY <1>1 DEF Vram!Word
  <2>2. /\ j \in halves <=> j \in unlike \/ j + 2 * MemBits \in unlike
        /\ j + MemBits \in halves <=> j + MemBits \in unlike \/ (j + MemBits) + 2 * MemBits \in unlike
    BY <1>4, <2>1
  <2>3. 0 * MemBits + j = j /\ 1 * MemBits + j = j + MemBits /\ 2 * MemBits + j = j + 2 * MemBits
        /\ 3 * MemBits + j = (j + MemBits) + 2 * MemBits
    BY <1>1
  <2>4. 0 .. 3 = {0, 1, 2, 3}  OBVIOUS
  <2> QED  BY <2>2, <2>3, <2>4
<1>8. j \notin halves \cup Vram!ShiftedRight(halves, MemBits)
        <=> \A p \in 0 .. 3 : p * MemBits + j \notin unlike
  BY <1>6, <1>7
<1>9. (\A p \in 0 .. 3 : p * MemBits + j \notin unlike)
        <=> \A p \in regs.care : (p \in regs.compare) = (p * MemBits + j \in word)
  <2>1. ASSUME \A p \in 0 .. 3 : p * MemBits + j \notin unlike, NEW p \in regs.care
        PROVE  (p \in regs.compare) = (p * MemBits + j \in word)
    <3>1. p \in 0 .. 3  BY <1>1
    <3>2. (p \in regs.compare) <=> (p * MemBits + j \in word)  BY <1>3, <2>1, <3>1
    <3> QED  BY <3>2
  <2>2. ASSUME \A p \in regs.care : (p \in regs.compare) = (p * MemBits + j \in word), NEW p \in 0 .. 3
        PROVE  p * MemBits + j \notin unlike
    BY <1>3, <2>2
  <2> QED  BY <2>1, <2>2
<1> QED  BY <1>8, <1>9, Zenon DEF unlike, halves, Differing, Alike

(* The byte that a read returns. *)
Defined(x) ==
  LET a == Vram!DefinedWord(x)
      there == x # -1 /\ a \in DOMAIN vga_vram
      fourPlanes == ~regs.chain4 /\ ~regs.odd_even
      plane == CASE regs.chain4 -> x % 4
                 [] ~regs.chain4 /\ regs.odd_even -> 2 * (regs.read_plane \div 2) + (x % 2)
                 [] OTHER -> regs.read_plane
      alike(j) == \A p \in regs.care : (p \in regs.compare) = (p * MemBits + j \in vga_vram[a])
  IN CASE ~there -> Vram!Ff
       [] there /\ fourPlanes /\ regs.read_mode = 1 -> {j \in Vram!Ff : alike(j)}
       [] OTHER -> {j \in Vram!Ff : plane * MemBits + j \in vga_vram[a]}

LEMMA GotAsDefined ==
  ASSUME MemTyped, vga_vram \in Memory, NEW x \in {-1} \cup (0 .. 4 * Quarter - 1)
  PROVE  Vram!Got(x) = Defined(x)
<1> DEFINE a == Vram!DefinedWord(x)
           D == DOMAIN vga_vram
<1>1. PICK q \in Nat \ {0} : Quarter = 4 * q  BY DEF MemTyped, MemAssumed
<1>2. /\ MemBits \in Nat \ {0} /\ regs.read_plane \in 0 .. 3 /\ regs.read_mode \in 0 .. 1
      /\ regs.chain4 \in BOOLEAN /\ regs.odd_even \in BOOLEAN
  BY DEF MemTyped, MemAssumed
<1>3. D = 0 .. 8 * q - 1 /\ \A d \in D : vga_vram[d] \in SUBSET Vram!Word  BY <1>1 DEF Memory
<1>4. x = -1 \/ x \in 0 .. 16 * q - 1  BY <1>1
<1>5. CASE x = -1
  <2>1. Vram!Got(x) = Vram!Ff  BY <1>5 DEF Vram!Got
  <2>2. Defined(x) = Vram!Ff  BY <1>5 DEF Defined
  <2> QED  BY <2>1, <2>2
<1>6. CASE x # -1 /\ regs.chain4
  <2>1. a = x \div 4 /\ x \div 4 \in D  BY <1>3, <1>4, <1>6 DEF Vram!DefinedWord
  <2>2. Vram!Got(x) = {j \in Vram!Ff : (x % 4) * MemBits + j \in vga_vram[x \div 4]}
    BY <1>6 DEF Vram!Got, Vram!ByteAt
  <2>3. Defined(x) = {j \in Vram!Ff : (x % 4) * MemBits + j \in vga_vram[a]}
    BY <1>6, <2>1 DEF Defined
  <2> QED  BY <2>1, <2>2, <2>3
<1>7. CASE x # -1 /\ ~regs.chain4 /\ regs.odd_even
  <2>0. x \in 0 .. 4 * Quarter - 1  BY <1>7
  <2> PICK o \in {0, 1}, p \in 0 .. 3, y \in 0 .. 8 * Quarter - 1 :
         /\ o = x % 2 /\ p = 2 * (regs.read_plane \div 2) + o
         /\ p = Vram!OddEvenPlane(x) /\ y = Vram!OddEvenByte(x)
         /\ y \div 4 = x \div 2 /\ y % 4 = p
    BY <2>0, OddEvenParts
  <2>1. y \div 4 = x \div 2 /\ y % 4 = p /\ y \in 0 .. 32 * q - 1  BY <1>1
  <2>7. x \div 2 \in 0 .. 8 * q - 1  BY <1>1, <2>0
  <2>2. a = x \div 2 /\ a \in D  BY <1>3, <1>7, <2>7 DEF Vram!DefinedWord
  <2>3. ~(y >= Vram!RamSize)  BY <1>1, <2>1 DEF Vram!RamSize
  <2>4. Vram!Got(x) = Vram!ByteAt(vga_vram, y)  BY <1>7, <2>3 DEF Vram!Got
  <2>5. Vram!ByteAt(vga_vram, y) = {j \in Vram!Ff : p * MemBits + j \in vga_vram[a]}
    BY <2>1, <2>2 DEF Vram!ByteAt
  <2>6. Defined(x) = {j \in Vram!Ff : p * MemBits + j \in vga_vram[a]}
    BY <1>7, <2>2 DEF Defined
  <2> QED  BY <2>4, <2>5, <2>6
<1>8. CASE x # -1 /\ ~regs.chain4 /\ ~regs.odd_even
  <2>1. a = x  BY <1>8 DEF Vram!DefinedWord
  <2>7. x \in 0 .. 16 * q - 1  BY <1>4, <1>8
  <2>8. 4 * x >= Vram!RamSize <=> x >= 8 * q  BY <1>1, <2>7 DEF Vram!RamSize
  <2>2. 4 * x >= Vram!RamSize <=> x \notin D  BY <1>3, <2>7, <2>8
  <2>3. CASE x \notin D
    <3>1. Vram!Got(x) = Vram!Ff  BY <1>8, <2>2, <2>3 DEF Vram!Got
    <3>2. Defined(x) = Vram!Ff  BY <1>8, <2>1, <2>3 DEF Defined
    <3> QED  BY <3>1, <3>2
  <2>4. CASE x \in D /\ regs.read_mode = 0
    <3>1. Vram!Got(x) = {j \in Vram!Ff : regs.read_plane * MemBits + j \in vga_vram[x]}
      BY <1>8, <2>2, <2>4 DEF Vram!Got
    <3>2. Defined(x) = {j \in Vram!Ff : regs.read_plane * MemBits + j \in vga_vram[a]}
      BY <1>8, <2>1, <2>4 DEF Defined
    <3> QED  BY <2>1, <3>1, <3>2
  <2>5. CASE x \in D /\ regs.read_mode = 1
    <3>1. regs.read_mode # 0 /\ ~(4 * x >= Vram!RamSize)  BY <2>2, <2>5
    <3>2. Vram!Got(x) = Vram!Ff \ Differing(vga_vram[x])
      BY <1>8, <3>1, Zenon DEF Vram!Got, Differing, Unlike
    <3>3. Defined(x) = {j \in Vram!Ff : Alike(vga_vram[x], j)}
      BY <1>8, <2>1, <2>5 DEF Defined, Alike
    <3>4. ASSUME NEW j \in Vram!Ff PROVE j \notin Differing(vga_vram[x]) <=> Alike(vga_vram[x], j)
      <4>1. vga_vram[x] \in SUBSET Vram!Word /\ j \in 0 .. MemBits - 1  BY <1>3, <2>5 DEF Vram!Ff
      <4> QED  BY <4>1, ComparedBits
    <3> QED  BY <3>2, <3>3, <3>4
  <2> QED  BY <1>2, <2>3, <2>4, <2>5
<1> QED  BY <1>2, <1>5, <1>6, <1>7, <1>8

(* Which word a read leaves in the latches.                                 *)
Loaded(x) ==
  ~regs.chain4 /\ ~regs.odd_even /\ x # -1 /\ Vram!DefinedWord(x) \in DOMAIN vga_vram

LEMMA ReadsExplicit ==
  last.what = "read" =>
    (Vram!ReadsAsDefined <=>
       LET x == Vram!Offset(last.addr)
       IN /\ latch = IF Loaded(x) THEN vga_vram[Vram!DefinedWord(x)] ELSE last.latch
          /\ last.got = Defined(x))
<1>1. SUFFICES ASSUME last.what = "read"
               PROVE  Vram!ReadsAsDefined <=>
                         LET x == Vram!Offset(last.addr)
                         IN /\ latch = IF Loaded(x) THEN vga_vram[Vram!DefinedWord(x)] ELSE last.latch
                            /\ last.got = Defined(x)
  OBVIOUS
<1> DEFINE x == Vram!Offset(last.addr)
           a == Vram!DefinedWord(x)
           there == x # -1 /\ a \in DOMAIN vga_vram
           fourPlanes == ~regs.chain4 /\ ~regs.odd_even
           plane == CASE regs.chain4 -> x % 4
                      [] ~regs.chain4 /\ regs.odd_even -> 2 * (regs.read_plane \div 2) + (x % 2)
                      [] OTHER -> regs.read_plane
           alike(j) == \A p \in regs.care : (p \in regs.compare) = (p * MemBits + j \in vga_vram[a])
           got == CASE ~there -> Vram!Ff
                    [] there /\ fourPlanes /\ regs.read_mode = 1 -> {j \in Vram!Ff : alike(j)}
                    [] OTHER -> {j \in Vram!Ff : plane * MemBits + j \in vga_vram[a]}
<1>2. Vram!ReadsAsDefined <=>
        /\ latch = IF fourPlanes /\ there THEN vga_vram[a] ELSE last.latch
        /\ last.got = got
  BY <1>1, Zenon DEF Vram!ReadsAsDefined
<1>3. got = Defined(x)  BY Zenon DEF Defined
<1>4. Loaded(x) <=> fourPlanes /\ there  BY DEF Loaded
<1> HIDE DEF got
<1> QED  BY <1>2, <1>3, <1>4

LEMMA ReadKeeps ==
  ASSUME MemAssumed, Vram!TypeOK, NEW addr \in Addresses, Vram!Read(addr)
  PROVE  Vram!MemoryAsDefined'
<1> DEFINE x == Vram!Offset(addr)
<1>1. MemTyped /\ vga_vram \in Memory  BY MemoryType DEF MemTyped
<1>2. addr \in 0 .. 4 * Quarter - 1  BY DEF MemAssumed
<1>3. x \in {-1} \cup (0 .. 4 * Quarter - 1)  BY <1>1, <1>2, OffsetRange
<1>4. /\ latch' = IF Vram!Loads(x) THEN vga_vram[x] ELSE latch
      /\ last' = [what |-> "read", addr |-> addr, got |-> Vram!Got(x), latch |-> latch]
      /\ regs' = regs /\ vga_vram' = vga_vram
  BY DEF Vram!Read
<1>5. Vram!Got(x) = Defined(x)  BY <1>1, <1>3, GotAsDefined
<1>6. /\ Vram!Loads(x) <=> Loaded(x)
      /\ Loaded(x) => vga_vram[x] = vga_vram[Vram!DefinedWord(x)] /\ x \in DOMAIN vga_vram
  <2> HIDE DEF x
  <2>1. PICK q \in Nat \ {0} : Quarter = 4 * q  BY <1>1 DEF MemTyped, MemAssumed
  <2>2. DOMAIN vga_vram = 0 .. 8 * q - 1  BY <1>1, <2>1 DEF Memory
  <2>3. x = -1 \/ x \in 0 .. 16 * q - 1  BY <1>3, <2>1
  <2>4. ~regs.chain4 /\ ~regs.odd_even => Vram!DefinedWord(x) = x  BY DEF Vram!DefinedWord
  <2>5. 4 * x < Vram!RamSize <=> x < 8 * q  BY <2>1, <2>3 DEF Vram!RamSize
  <2> QED  BY <2>2, <2>3, <2>4, <2>5 DEF Vram!Loads, Loaded
<1>7. Vram!TypeOK'
  <2>1. accesses' \in 0 .. MaxAccesses  BY CountsOn DEF Vram!Read
  <2>2. (Vram!TypeOK <=> regs \in Setups /\ vga_vram \in Memory /\ latch \in SUBSET Vram!Word
                    /\ accesses \in 0 .. MaxAccesses)'
    BY MemoryType, PTL
  <2>3. Memory' = Memory /\ (Vram!Word)' = Vram!Word  BY DEF Memory, Vram!Word
  <2> HIDE DEF x
  <2>4. latch' \in SUBSET Vram!Word  BY <1>1, <1>4, <1>6 DEF Memory, MemTyped
  <2> QED  BY <1>1, <1>4, <2>1, <2>2, <2>3, <2>4 DEF MemTyped
<1>8. Vram!WritesAsDefined'
  <2>1. last'.what # "write"  BY <1>4
  <2> QED  BY <2>1, Zenon DEF Vram!WritesAsDefined
<1>9. Vram!ReadsAsDefined'
  <2>1. (last.what = "read" =>
          (Vram!ReadsAsDefined <=>
             LET z == Vram!Offset(last.addr)
             IN /\ latch = IF Loaded(z) THEN vga_vram[Vram!DefinedWord(z)] ELSE last.latch
                /\ last.got = Defined(z)))'
    BY ReadsExplicit, PTL
  <2>2. last'.what = "read" /\ last'.addr = addr /\ last'.latch = latch /\ last'.got = Vram!Got(x)
    BY <1>4
  <2>3. Vram!Offset(addr)' = Vram!Offset(addr)  BY <1>4 DEF Vram!Offset
  <2>4. \A z : Vram!DefinedWord(z)' = Vram!DefinedWord(z)  BY <1>4 DEF Vram!DefinedWord
  <2>5. \A z : Loaded(z)' <=> Loaded(z)  BY <1>4, <2>4 DEF Loaded
  <2>6. \A z : Defined(z)' = Defined(z)  BY <1>4, <2>4 DEF Defined
  <2>7. Vram!ReadsAsDefined' <=>
          /\ latch' = IF Loaded(x) THEN vga_vram[Vram!DefinedWord(x)] ELSE latch
          /\ Vram!Got(x) = Defined(x)
    BY <1>4, <2>1, <2>2, <2>3, <2>4, <2>5, <2>6
  <2> QED  BY <1>4, <1>5, <1>6, <2>7
<1> QED  BY <1>7, <1>8, <1>9 DEF Vram!MemoryAsDefined

VramSpec == Vram!Init /\ [][Vram!Next]_Vram!vgaMemVars

LEMMA MemoryStarts == MemAssumed /\ Vram!Init => Vram!MemoryAsDefined
<1> SUFFICES ASSUME MemAssumed, Vram!Init PROVE Vram!MemoryAsDefined
  OBVIOUS
<1>1. vga_vram \in Memory  BY DEF Vram!Init, Memory, Vram!RamSize
<1>2. Vram!TypeOK
  <2>1. 0 \in 0 .. MaxAccesses  BY DEF MemAssumed
  <2> QED  BY <1>1, <2>1, MemoryType DEF Vram!Init
<1>3. last.what = "none"  BY DEF Vram!Init
<1>4. Vram!WritesAsDefined
  <2>1. last.what # "write"  BY <1>3
  <2> QED  BY <2>1, Zenon DEF Vram!WritesAsDefined
<1>5. Vram!ReadsAsDefined
  <2>1. last.what # "read"  BY <1>3
  <2> QED  BY <2>1, Zenon DEF Vram!ReadsAsDefined
<1> QED  BY <1>2, <1>4, <1>5 DEF Vram!MemoryAsDefined

(* Writes are of one, two or four bytes.                                    *)
Sized == last.what = "write" => Len(last.bytes) \in {1, 2, 4}

LEMMA NoWrite == last.what # "write" => Vram!WritesAsDefined
BY Zenon DEF Vram!WritesAsDefined

LEMMA NoRead == last.what # "read" => Vram!ReadsAsDefined
BY Zenon DEF Vram!ReadsAsDefined

(* Nothing written: what was defined stays so.                              *)
LEMMA StutterKeeps ==
  ASSUME Vram!MemoryAsDefined, Sized, UNCHANGED Vram!vgaMemVars
  PROVE  Vram!MemoryAsDefined' /\ Sized'
<1>1. /\ regs' = regs /\ vga_vram' = vga_vram /\ latch' = latch /\ last' = last
      /\ accesses' = accesses
  BY DEF Vram!vgaMemVars
<1>2. Vram!TypeOK'  BY <1>1 DEF Vram!MemoryAsDefined, Vram!TypeOK, Vram!Word
<1>3. Sized'  BY <1>1 DEF Sized
<1>4. \A m, addr, v : Vram!DefinedBits(m, addr, v)' = Vram!DefinedBits(m, addr, v)
  BY <1>1, SameDefinition
<1>5. Vram!WritesAsDefined'
  <2>1. CASE last.what # "write"
    <3>1. (last.what # "write" => Vram!WritesAsDefined)'  BY NoWrite, PTL
    <3> QED  BY <1>1, <2>1, <3>1
  <2>2. CASE last.what = "write"
    <3>1. Placed(Len(last.bytes))' = Placed(Len(last.bytes))  BY <1>1, <1>4 DEF Placed
    <3>2. (Len(last.bytes) \in {1, 2, 4} =>
             (Vram!WritesAsDefined <=>
                (last.what = "write" /\ (Len(last.bytes) = 1 \/ ~regs.chain4 \/ regs.planes \in {{}, Vram!Plane})
                   => vga_vram = Placed(Len(last.bytes)))))'
      BY WritesExplicit, PTL
    <3> QED  BY <1>1, <2>2, <3>1, <3>2, WritesExplicit DEF Sized, Vram!MemoryAsDefined, Vram!Plane
  <2> QED  BY <2>1, <2>2
<1>6. Vram!ReadsAsDefined'
  <2>1. CASE last.what # "read"
    <3>1. (last.what # "read" => Vram!ReadsAsDefined)'  BY NoRead, PTL
    <3> QED  BY <1>1, <2>1, <3>1
  <2>2. CASE last.what = "read"
    <3>1. Vram!Offset(last.addr)' = Vram!Offset(last.addr)  BY <1>1 DEF Vram!Offset
    <3>2. \A x : Vram!DefinedWord(x)' = Vram!DefinedWord(x)  BY <1>1 DEF Vram!DefinedWord
    <3>3. \A x : Loaded(x)' = Loaded(x)  BY <1>1, <3>2 DEF Loaded
    <3>4. \A x : Defined(x)' = Defined(x)  BY <1>1, <3>2 DEF Defined, Alike, Vram!Ff
    <3>5. (last.what = "read" =>
             (Vram!ReadsAsDefined <=>
                LET x == Vram!Offset(last.addr)
                IN /\ latch = IF Loaded(x) THEN vga_vram[Vram!DefinedWord(x)] ELSE last.latch
                   /\ last.got = Defined(x)))'
      BY ReadsExplicit, PTL
    <3> QED  BY <1>1, <2>2, <3>1, <3>2, <3>3, <3>4, <3>5, ReadsExplicit DEF Vram!MemoryAsDefined
  <2> QED  BY <2>1, <2>2
<1> QED  BY <1>2, <1>3, <1>5, <1>6 DEF Vram!MemoryAsDefined

LEMMA MemorySteps ==
  MemAssumed /\ Vram!MemoryAsDefined /\ Sized /\ [Vram!Next]_Vram!vgaMemVars
    => Vram!MemoryAsDefined' /\ Sized'
<1> SUFFICES ASSUME MemAssumed, Vram!MemoryAsDefined, Sized, [Vram!Next]_Vram!vgaMemVars
             PROVE  Vram!MemoryAsDefined' /\ Sized'
  OBVIOUS
<1>0. Vram!TypeOK  BY DEF Vram!MemoryAsDefined
<1>1. ASSUME NEW a \in Addresses, NEW v \in MemValues, Vram!Write(a, v)
      PROVE  Vram!MemoryAsDefined' /\ Sized'
  <2>1. last'.what = "write" /\ last'.bytes = <<v>>  BY <1>1 DEF Vram!Write
  <2>2. Len(<<v>>) = 1  OBVIOUS
  <2> QED  BY <1>0, <1>1, <2>1, <2>2, ByteKeeps DEF Sized
<1>2. ASSUME NEW a \in Addresses, NEW v \in MemValues, Vram!WriteWide(a, <<v, Vram!Ff \ v>>)
      PROVE  Vram!MemoryAsDefined' /\ Sized'
  <2> PICK vs : vs = <<v, Vram!Ff \ v>>  OBVIOUS
  <2> PICK n \in {2, 4} : n = 2  OBVIOUS
  <2>1. AreBytes(vs, n)
    <3>1. v \in MemBytes /\ Vram!Ff \ v \in MemBytes  BY DEF MemAssumed, MemBytes, Vram!Ff
    <3>2. Len(vs) = 2 /\ vs[1] \in MemBytes /\ vs[2] \in MemBytes  BY <3>1
    <3> QED  BY <3>2 DEF AreBytes
  <2>2. last'.bytes = vs  BY <1>2 DEF Vram!WriteWide
  <2>3. Sized'  BY <2>1, <2>2 DEF Sized, AreBytes
  <2> QED  BY <1>0, <1>2, <2>1, <2>3, WideKeeps
<1>3. ASSUME NEW a \in Addresses, NEW v \in MemValues, Vram!WriteWide(a, <<v, Vram!Ff \ v, v, v>>)
      PROVE  Vram!MemoryAsDefined' /\ Sized'
  <2> PICK vs : vs = <<v, Vram!Ff \ v, v, v>>  OBVIOUS
  <2> PICK n \in {2, 4} : n = 4  OBVIOUS
  <2>1. AreBytes(vs, n)
    <3>1. v \in MemBytes /\ Vram!Ff \ v \in MemBytes  BY DEF MemAssumed, MemBytes, Vram!Ff
    <3>2. Len(vs) = 4 /\ vs[1] \in MemBytes /\ vs[2] \in MemBytes /\ vs[3] \in MemBytes /\ vs[4] \in MemBytes  BY <3>1
    <3> QED  BY <3>2 DEF AreBytes
  <2>2. last'.bytes = vs  BY <1>3 DEF Vram!WriteWide
  <2>3. Sized'  BY <2>1, <2>2 DEF Sized, AreBytes
  <2> QED  BY <1>0, <1>3, <2>1, <2>3, WideKeeps
<1>4. ASSUME NEW a \in Addresses, Vram!Read(a) PROVE Vram!MemoryAsDefined' /\ Sized'
  <2>1. last'.what = "read"  BY <1>4 DEF Vram!Read
  <2> QED  BY <1>0, <1>4, <2>1, ReadKeeps DEF Sized
<1>5. CASE UNCHANGED Vram!vgaMemVars  BY <1>5, StutterKeeps
<1> QED  BY <1>1, <1>2, <1>3, <1>4, <1>5 DEF Vram!Next

(* The window onto video memory is, bit by bit, what the registers define:  *)
(* a byte, a word or a long word written changes the bits of the open       *)
(* planes that the definition of the VGA names and no other (several bytes  *)
(* chained at once, when the planes are all open or all closed), and a byte *)
(* read is the one that it names, with the latches loaded by a read of the  *)
(* four planes alone.  For bytes of any number of bits, a window of any     *)
(* multiple of sixteen bytes, any settings of the registers, any values and *)
(* any addresses, where an access does not cross a quarter of the window    *)
(* (vga_mem_read, vga_mem_write, vga_mem_write16, vga_mem_write32).         *)
THEOREM MemoryHolds == MemAssumed => (VramSpec => []MemoryAsDefined)
<1> SUFFICES ASSUME MemAssumed PROVE VramSpec => []MemoryAsDefined
  OBVIOUS
<1>1. Vram!Init => Vram!MemoryAsDefined /\ Sized  BY MemoryStarts DEF Vram!Init, Sized
<1>2. Vram!MemoryAsDefined /\ Sized /\ [Vram!Next]_Vram!vgaMemVars => Vram!MemoryAsDefined' /\ Sized'
  BY MemorySteps
<1>3. Vram!MemoryAsDefined => MemoryAsDefined  BY DEF MemoryAsDefined
<1> QED  BY <1>1, <1>2, <1>3, PTL DEF VramSpec
=============================================================================
