------------------------------ MODULE VgaPorts ------------------------------
(***************************************************************************)
(* The attribute and palette ports of the VGA (vga.c, vga_ioport_read and  *)
(* vga_ioport_write): several registers behind one port, in the order of a *)
(* toggle that another port resets, and colours of three bytes behind      *)
(* another, in the order of a counter that reads and writes share.         *)
(* A byte is the set of its bits.                                          *)
(***************************************************************************)
EXTENDS Integers, Sequences

CONSTANTS
  Indices,    \* what the guest writes as an index of attributes, below 64
  Entries,    \* the palette has as many (the code's 256)
  Values,     \* data of attributes
  Colours     \* bytes of the palette

VARIABLES
  vga,        \* the registers
  app         \* what the guest is doing with the ports, and what it should find

vgaPortsVars == <<vga, app>>

Attribute == 0 .. 20

(* The bits that an attribute register keeps. *)
KeptBits(i) ==
  CASE i <= 15 -> 0 .. 5 [] i = 16 -> (0 .. 7) \ {4} [] i = 17 -> 0 .. 7
    [] i = 18 -> 0 .. 5  [] OTHER -> 0 .. 3

Init ==
  /\ vga = [color |-> TRUE, ar_flip_flop |-> 0, ar_index |-> 32, ar |-> [i \in Attribute |-> {}],
            dac_sub_index |-> 0, dac_read_index |-> 0, dac_write_index |-> 0,
            dac_cache |-> [k \in 0 .. 2 |-> {}],
            palette |-> [i \in 0 .. Entries - 1 |-> [k \in 0 .. 2 |-> {}]]]
  /\ app = [attr |-> "free", index |-> 0, ar |-> [i \in Attribute |-> {}],
            dac |-> "none", entry |-> 0, bytes |-> <<>>,
            palette |-> [i \in 0 .. Entries - 1 |-> [k \in 0 .. 2 |-> {}]],
            right |-> TRUE]

-----------------------------------------------------------------------------
(* 3C2h: which of 3Bxh and 3Dxh answer. *)
WriteMisc(color) == vga' = [vga EXCEPT !.color = color] /\ UNCHANGED app

(* Mutated: the status does not reset the toggle. *)
StatusReadPlain(color) ==
  /\ app.attr = "free"
  /\ app' = [app EXCEPT !.attr = IF color = vga.color THEN "synced" ELSE "free"]
  /\ UNCHANGED vga

(* 3BAh or 3DAh; the guest always asks for it before it uses the toggle. *)
StatusRead(color) ==
  /\ app.attr = "free"
  /\ app' = [app EXCEPT !.attr = IF color = vga.color THEN "synced" ELSE "free"]
  /\ vga' = IF color = vga.color THEN [vga EXCEPT !.ar_flip_flop = 0] ELSE vga

(* 3C0h. *)
WriteAttributePort(byte, bits) ==
  LET index == vga.ar_index % 32
      stored == IF vga.ar_flip_flop = 0 THEN [vga EXCEPT !.ar_index = byte]
                ELSE IF index \in Attribute THEN [vga EXCEPT !.ar[index] = bits \cap KeptBits(index)]
                ELSE vga
  IN vga' = [stored EXCEPT !.ar_flip_flop = 1 - @]

(* The guest writes an index, and then its data; or only the index, to turn *)
(* the picture on.                                                          *)
WriteIndex(i) ==
  /\ app.attr = "synced"
  /\ WriteAttributePort(i, {})
  /\ \E more \in {"index", "free"} : app' = [app EXCEPT !.attr = more, !.index = i]

WriteAttribute(v) ==
  /\ app.attr = "index"
  /\ WriteAttributePort(0, v)
  /\ app' = [app EXCEPT !.attr = "free",
                        !.ar = IF app.index % 32 \in Attribute
                               THEN [@ EXCEPT ![app.index % 32] = v] ELSE @]

-----------------------------------------------------------------------------
(* 3C8h *)
SetWriteIndex(i) ==
  /\ vga' = [vga EXCEPT !.dac_write_index = i, !.dac_sub_index = 0]
  /\ app' = [app EXCEPT !.dac = "write", !.entry = i, !.bytes = <<>>]

(* 3C7h *)
SetReadIndex(i) ==
  /\ vga' = [vga EXCEPT !.dac_read_index = i, !.dac_sub_index = 0]
  /\ app' = [app EXCEPT !.dac = "read", !.entry = i, !.bytes = <<>>]

(* The next byte of the guest, and the entry after its third one.           *)
Went(v) ==
  LET bytes == Append(app.bytes, v) IN
  IF Len(bytes) = 3 THEN [app EXCEPT !.bytes = <<>>, !.entry = (@ + 1) % Entries]
  ELSE [app EXCEPT !.bytes = bytes]

(* 3C9h written: the third byte stores all three. *)
WriteColour(v) ==
  LET cache == [vga.dac_cache EXCEPT ![vga.dac_sub_index] = v]
      bytes == Append(app.bytes, v)
  IN /\ app.dac = "write"
     /\ vga' = IF vga.dac_sub_index < 2
               THEN [vga EXCEPT !.dac_cache = cache, !.dac_sub_index = @ + 1]
               ELSE [vga EXCEPT !.dac_cache = cache, !.dac_sub_index = 0,
                                !.palette[vga.dac_write_index] = cache,
                                !.dac_write_index = (@ + 1) % Entries]
     /\ app' = IF Len(bytes) = 3
               THEN [Went(v) EXCEPT !.palette[app.entry] = [k \in 0 .. 2 |-> bytes[k + 1]]]
               ELSE Went(v)

(* 3C9h read. *)
ReadColour ==
  /\ app.dac = "read"
  /\ vga' = IF vga.dac_sub_index < 2 THEN [vga EXCEPT !.dac_sub_index = @ + 1]
            ELSE [vga EXCEPT !.dac_sub_index = 0, !.dac_read_index = (@ + 1) % Entries]
  /\ app' = [Went({}) EXCEPT
               !.right = vga.palette[vga.dac_read_index][vga.dac_sub_index]
                           = app.palette[app.entry][Len(app.bytes)]]

AttributePort ==
  \/ \E color \in BOOLEAN : WriteMisc(color)
  \/ \E color \in BOOLEAN : StatusRead(color)
  \/ \E i \in Indices : WriteIndex(i)
  \/ \E v \in Values : WriteAttribute(v)

PalettePort ==
  \/ \E i \in 0 .. Entries - 1 : SetWriteIndex(i)
  \/ \E i \in 0 .. Entries - 1 : SetReadIndex(i)
  \/ \E v \in Colours : WriteColour(v)
  \/ ReadColour

Next == AttributePort \/ PalettePort

Spec == Init /\ [][Next]_vgaPortsVars

-----------------------------------------------------------------------------
(* An attribute written after the status was read is the one that the guest *)
(* named, whatever earlier lone writes did to the toggle and whichever      *)
(* status port answers: no index is taken for data, nor data for an index.  *)
AttributesAsWritten ==
  app.attr = "free" => \A i \in Attribute : vga.ar[i] = app.ar[i] \cap KeptBits(i)

(* An entry of the palette is three bytes that the guest wrote in a row for *)
(* it, and reading returns them in order, though reads and writes share the *)
(* counter and either may be abandoned in the middle of an entry.           *)
PaletteAsWritten == vga.palette = app.palette /\ app.right

(* Attributes and palette are what the guest wrote, through both ports.     *)
PortsAsWritten == AttributesAsWritten /\ PaletteAsWritten

-----------------------------------------------------------------------------
(* The ports of the graphics extension, as VgaVbe has them.                 *)
CONSTANTS Choices, Banks, CrChoices
VARIABLES vbe, cr, planar, custom
Vbe == INSTANCE VgaVbe

(* An extended mode is drawn as it was set, and its memory is linear        *)
(* (vbe_fixup_regs, vbe_update_vgaregs).                                    *)
ModeAsSet == Vbe!ModeAsSet
=============================================================================
