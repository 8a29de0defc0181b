------------------------------ MODULE VgaMem -------------------------------
(***************************************************************************)
(* The memory of the VGA behind its window (vga.c, vga_mem_write and its   *)
(* kin): four planes, addressed one byte at a time, in pairs or in one     *)
(* piece, and written through the logic of the graphics controller.        *)
(*                                                                         *)
(* A byte has Bits bits (the code's 8) and a word of memory one byte of    *)
(* each plane; both are sets of bit numbers, so that the bits of plane p   *)
(* are p * Bits and those after it.  The window is four Quarters (0x8000   *)
(* bytes in the code), and memory twice the window.                        *)
(***************************************************************************)
EXTENDS Integers, Sequences

CONSTANTS
  Bits, Quarter,
  Setups,       \* settings of the registers
  Addresses,    \* offsets into the window that the guest uses
  Values,       \* bytes that it writes, as sets of bits
  MaxAccesses

VARIABLES
  regs,         \* the registers of the sequencer and of the graphics controller
  vram,         \* word -> set of bits
  latch,        \* the word read last
  last,         \* the access before this state, with the memory before it
  accesses

vgaMemVars == <<regs, vram, latch, last, accesses>>

Plane == 0 .. 3
Word == 0 .. (4 * Bits) - 1
RamSize == 8 * Quarter
Ff == 0 .. Bits - 1

(* A byte of memory, by its address. *)
ByteAt(m, x) == {j \in Ff : (x % 4) * Bits + j \in m[x \div 4]}
PutByte(m, x, v) ==
  [m EXCEPT ![x \div 4] = {i \in @ : i \div Bits # x % 4} \cup {(x % 4) * Bits + j : j \in v}]

-----------------------------------------------------------------------------
(* Shifts of words, as sets of bits. *)
ShiftedLeft(v, n) == {i + n : i \in v} \cap Word
ShiftedRight(v, n) == {i - n : i \in v} \cap Word

(* val |= val << 8; val |= val << 16. *)
Spread(v) == LET w == v \cup ShiftedLeft(v, Bits) IN w \cup ShiftedLeft(w, 2 * Bits)

(* mask16: the whole bytes of some planes. *)
Mask16(planes) == {i \in Word : i \div Bits \in planes}

(* Where in memory an offset is, by the memory map; nowhere is -1. *)
Offset(addr) ==
  CASE regs.map = 0 -> addr
    [] regs.map = 1 -> IF addr >= 2 * Quarter THEN -1 ELSE addr + regs.bank * 2 * Quarter
    [] regs.map = 2 -> IF addr \in 2 * Quarter .. (3 * Quarter) - 1 THEN addr - 2 * Quarter ELSE -1
    [] OTHER        -> IF addr >= 3 * Quarter THEN addr - 3 * Quarter ELSE -1

(* Odd and even bytes go to odd and even planes. *)
OddEvenPlane(addr) == (IF regs.read_plane >= 2 THEN 2 ELSE 0) + (addr % 2)
OddEvenByte(addr) == (addr - (addr % 2)) * 2 + OddEvenPlane(addr)

Rotated(v) == ShiftedRight(v, regs.rotate) \cup ShiftedLeft(v, Bits - regs.rotate)

(* What the processor's byte becomes in the four planes, and which of its   *)
(* bits are written: write modes 0, 2 and 3.                                *)
Expanded(v) ==
  CASE regs.write_mode = 2 -> Mask16(v \cap Plane)
    [] regs.write_mode = 3 -> Mask16(regs.set_reset)
    [] OTHER -> (Spread(Rotated(v) \cap Ff) \ Mask16(regs.sr_enable))
                  \cup (Mask16(regs.set_reset) \cap Mask16(regs.sr_enable))
BitMask(v) == Spread(IF regs.write_mode = 3 THEN regs.bit_mask \cap Rotated(v) ELSE regs.bit_mask)

Logic(v) ==
  CASE regs.func = 1 -> v \cap latch
    [] regs.func = 2 -> v \cup latch
    [] regs.func = 3 -> (v \ latch) \cup (latch \ v)
    [] OTHER -> v

(* Mutated: the bits that are not written come from memory. *)
LatchedUnmasked(v) == IF regs.write_mode = 1 THEN latch ELSE Logic(Expanded(v)) \cap BitMask(v)

Latched(v) ==
  IF regs.write_mode = 1 THEN latch
  ELSE (Logic(Expanded(v)) \cap BitMask(v)) \cup (latch \ BitMask(v))

(* vga_mem_write: memory after a byte at an offset. *)
Written(m, addr, v) ==
  LET x == Offset(addr)
      mask == Mask16(regs.planes)
  IN IF x = -1 THEN m
     ELSE IF regs.chain4
     THEN IF x % 4 \in regs.planes THEN PutByte(m, x, v) ELSE m
     ELSE IF regs.odd_even
     THEN IF OddEvenPlane(x) \in regs.planes /\ OddEvenByte(x) < RamSize
          THEN PutByte(m, OddEvenByte(x), v) ELSE m
     ELSE IF 4 * x >= RamSize THEN m
     ELSE [m EXCEPT ![x] = (@ \ mask) \cup (Latched(v) \cap mask)]

(* Several bytes at once in chain 4 mode: the plane of the first one says   *)
(* whether any is written.                                                  *)
Chunk(m, addr, vs) ==
  LET n == Len(vs)
      x == Offset(addr)
      put[k \in 0 .. n] == IF k = 0 THEN m ELSE PutByte(put[k - 1], x + k - 1, vs[k])
  IN IF x = -1 \/ x % 4 \notin regs.planes THEN m ELSE put[n]

(* One by one in the other modes. *)
ByBytes(m, addr, vs) ==
  LET n == Len(vs)
      put[k \in 0 .. n] == IF k = 0 THEN m ELSE Written(put[k - 1], addr + k - 1, vs[k])
  IN put[n]

-----------------------------------------------------------------------------
(* Memory that no two words have alike. *)
Init ==
  /\ regs \in Setups
  /\ vram = [a \in 0 .. (RamSize \div 4) - 1 |-> {i \in Word : (i * (a + 3) + a) % 7 < 3}]
  /\ latch = {} /\ last = [what |-> "none"] /\ accesses = 0

Counted == accesses < MaxAccesses /\ accesses' = accesses + 1

Write(addr, v) ==
  /\ Counted
  /\ vram' = Written(vram, addr, v)
  /\ last' = [what |-> "write", addr |-> addr, bytes |-> <<v>>, vram |-> vram]
  /\ UNCHANGED <<regs, latch>>

(* vga_mem_write16, vga_mem_write32, and vga_mem_write_string with the      *)
(* processor's fallback to single bytes, aligned or not; within a quarter.  *)
WriteWide(addr, vs) ==
  /\ addr \div Quarter = (addr + (Len(vs) - 1)) \div Quarter
  /\ Counted
  /\ vram' = IF regs.chain4 THEN Chunk(vram, addr, vs) ELSE ByBytes(vram, addr, vs)
  /\ last' = [what |-> "write", addr |-> addr, bytes |-> vs, vram |-> vram]
  /\ UNCHANGED <<regs, latch>>

(* Whether a read loads the latches. *)
Loads(x) == x # -1 /\ ~regs.chain4 /\ ~regs.odd_even /\ 4 * x < RamSize

(* vga_mem_read: the byte that the processor gets. *)
Got(x) ==
  LET word == vram[x]
      unlike == ((word \ Mask16(regs.compare)) \cup (Mask16(regs.compare) \ word)) \cap Mask16(regs.care)
      halves == unlike \cup ShiftedRight(unlike, 2 * Bits)
  IN IF x = -1 THEN Ff
     ELSE IF regs.chain4 THEN ByteAt(vram, x)
     ELSE IF regs.odd_even
     THEN IF OddEvenByte(x) >= RamSize THEN Ff ELSE ByteAt(vram, OddEvenByte(x))
     ELSE IF 4 * x >= RamSize THEN Ff
     ELSE IF regs.read_mode = 0 THEN {j \in Ff : regs.read_plane * Bits + j \in word}
     ELSE Ff \ (halves \cup ShiftedRight(halves, Bits))

Read(addr) ==
  LET x == Offset(addr)
  IN /\ Counted
     /\ latch' = IF Loads(x) THEN vram[x] ELSE latch
     /\ last' = [what |-> "read", addr |-> addr, got |-> Got(x), latch |-> latch]
     /\ UNCHANGED <<regs, vram>>

Next ==
  \/ \E a \in Addresses, v \in Values : Write(a, v)
  \/ \E a \in Addresses, v \in Values : WriteWide(a, <<v, Ff \ v>>)
  \/ \E a \in Addresses, v \in Values : WriteWide(a, <<v, Ff \ v, v, v>>)
  \/ \E a \in Addresses : Read(a)

-----------------------------------------------------------------------------
(* The definition of the VGA, bit by bit.                                   *)

(* The bit of plane p that a byte v puts at position j, over the latch.     *)
DefinedBit(p, j, v) ==
  LET turned == (j + regs.rotate) % Bits \in v
      data == CASE regs.write_mode = 2 -> p \in v
                [] regs.write_mode = 3 -> p \in regs.set_reset
                [] OTHER -> IF p \in regs.sr_enable THEN p \in regs.set_reset ELSE turned
      held == p * Bits + j \in latch
      open == j \in regs.bit_mask /\ (regs.write_mode = 3 => turned)
  IN IF regs.write_mode = 1 \/ ~open THEN held
     ELSE CASE regs.func = 1 -> data /\ held
            [] regs.func = 2 -> data \/ held
            [] regs.func = 3 -> data # held
            [] OTHER -> data

(* The planes and the word that a byte goes to. *)
DefinedPlanes(x) ==
  regs.planes \cap CASE regs.chain4 -> {x % 4}
                     [] ~regs.chain4 /\ regs.odd_even ->
                          {p \in Plane : p % 2 = x % 2 /\ p \div 2 = regs.read_plane \div 2}
                     [] OTHER -> Plane
DefinedWord(x) ==
  CASE regs.chain4 -> x \div 4 [] ~regs.chain4 /\ regs.odd_even -> x \div 2 [] OTHER -> x

DefinedBits(m, addr, v) ==
  LET x == Offset(addr)
      written(a, i) == x # -1 /\ a = DefinedWord(x) /\ i \div Bits \in DefinedPlanes(x)
      new(i) == IF regs.chain4 \/ regs.odd_even THEN i % Bits \in v
                ELSE DefinedBit(i \div Bits, i % Bits, v)
  IN [a \in DOMAIN m |-> {i \in Word : IF written(a, i) THEN new(i) ELSE i \in m[a]}]

(* Every write changes the bits that the definition of the VGA names and no *)
(* other: the planes, the mask, the latches and the logic, which the code   *)
(* applies to whole words, do it bit by bit; and several bytes at once do   *)
(* what they would do one after the other, unless they are chained with     *)
(* some of their planes closed, which the code tests for the first alone.   *)
WritesAsDefined ==
  last.what = "write" /\ (Len(last.bytes) = 1 \/ ~regs.chain4 \/ regs.planes \in {{}, Plane}) =>
    LET n == Len(last.bytes)
        put[k \in 0 .. n] == IF k = 0 THEN last.vram
                             ELSE DefinedBits(put[k - 1], last.addr + k - 1, last.bytes[k])
    IN vram = put[n]

(* A read returns the byte of its plane, or where all the planes that count *)
(* have the colour compared; and only a read of the four planes changes     *)
(* the latches, to the word read, so that text and chained accesses between *)
(* such a read and the write that uses it change nothing.                   *)
ReadsAsDefined ==
  last.what = "read" =>
    LET x == Offset(last.addr)
        a == DefinedWord(x)
        there == x # -1 /\ a \in DOMAIN vram
        planar == ~regs.chain4 /\ ~regs.odd_even
        plane == CASE regs.chain4 -> x % 4
                   [] ~regs.chain4 /\ regs.odd_even -> 2 * (regs.read_plane \div 2) + (x % 2)
                   [] OTHER -> regs.read_plane
        alike(j) == \A p \in regs.care : (p \in regs.compare) = (p * Bits + j \in vram[a])
    IN /\ latch = IF planar /\ there THEN vram[a] ELSE last.latch
       /\ last.got = CASE ~there -> Ff
                       [] there /\ planar /\ regs.read_mode = 1 -> {j \in Ff : alike(j)}
                       [] OTHER -> {j \in Ff : plane * Bits + j \in vram[a]}

(* The memory stays words of the four planes, the latches one of them.      *)
TypeOK ==
  /\ regs \in Setups
  /\ vram \in [0 .. (RamSize \div 4) - 1 -> SUBSET Word] /\ latch \in SUBSET Word
  /\ accesses \in 0 .. MaxAccesses

(* The memory behind its window is that of a VGA. *)
MemoryAsDefined == TypeOK /\ WritesAsDefined /\ ReadsAsDefined
============================================================================
