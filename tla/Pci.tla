-------------------------------- MODULE Pci ---------------------------------
(***************************************************************************)
(* The configuration space of the VGA on the PCI bus (pci.c), and what the *)
(* processor reaches at an address by it (in_iomem of i386.c, iomem_* and  *)
(* set_pci_vga_bar of pc.c).  The registers are COMMAND, of which one bit  *)
(* counts, the base address, and those that nothing depends on.  Addresses *)
(* are scaled: RAM from 0, the VGA window in it, and a hole at the top.    *)
(***************************************************************************)
EXTENDS Integers

CONSTANTS
  Top,          \* addresses are below it (the code's 2^32)
  Hole,         \* device memory begins here (0xe0000000)
  Window,       \* the addresses of the VGA window (0xa0000 .. 0xbffff)
  RamSize,
  Size,         \* of the frame buffer, a power of two
  Bases         \* values that the guest writes to the base address

Command == 4   Base == 16   Other == 60
None == Top - 1                          \* pci_vga_ram_addr = -1

VARIABLES
  cf8,          \* config_reg: enabled, for the VGA or another function, which register
  config,       \* [mem |-> bit 1 of COMMAND, base |-> the base address]
  enabled,      \* of the region
  vga_addr,     \* pci_vga_ram_addr
  program       \* what the guest programmed: decoding, and the base

pciVars == <<cf8, config, enabled, vga_addr, program>>

Aligned(a) == a - (a % Size)

Init ==
  /\ cf8 = [on |-> FALSE, vga |-> FALSE, reg |-> 0]
  /\ config = [mem |-> FALSE, base |-> 0]
  /\ enabled = FALSE /\ vga_addr = None
  /\ program = [mem |-> FALSE, base |-> 0]

-----------------------------------------------------------------------------
(* Mutated: what was mapped stays until something else is. *)
UpdateMappingsOnce(c) ==
  IF c.mem THEN vga_addr' = Aligned(c.base) /\ enabled' = TRUE
  ELSE UNCHANGED <<vga_addr, enabled>>

(* pci_update_mappings *)
UpdateMappings(c) ==
  IF c.mem THEN vga_addr' = Aligned(c.base) /\ enabled' = TRUE
  ELSE IF enabled THEN vga_addr' = None /\ enabled' = FALSE
  ELSE UNCHANGED <<vga_addr, enabled>>

WriteAddress(on, vga, reg) ==
  /\ cf8' = [on |-> on, vga |-> vga, reg |-> reg]
  /\ UNCHANGED <<config, enabled, vga_addr, program>>

(* A write of size bytes to CFCh + offset, with the bit of COMMAND or the   *)
(* base in it: bases take whole words only.                                 *)
WriteData(size, offset, mem, base) ==
  LET addr == IF size = 4 THEN cf8.reg ELSE cf8.reg + offset
      command == Command \in addr .. addr + size - 1
      c == CASE addr = Base /\ size = 4 -> [config EXCEPT !.base = Aligned(base)]
             [] command -> [config EXCEPT !.mem = mem]
             [] OTHER -> config
  IN IF cf8.on /\ cf8.vga
     THEN /\ config' = c
          /\ IF command \/ (addr = Base /\ size = 4) THEN UpdateMappings(c)
             ELSE UNCHANGED <<enabled, vga_addr>>
          /\ program' = [mem |-> IF command THEN mem ELSE program.mem,
                         base |-> IF addr = Base /\ size = 4 THEN base ELSE program.base]
          /\ UNCHANGED cf8
     ELSE UNCHANGED pciVars

Next ==
  \/ \E on, vga \in BOOLEAN, reg \in {Command, Base, Other} : WriteAddress(on, vga, reg)
  \/ \E mem \in BOOLEAN, base \in Bases : WriteData(4, 0, mem, base)
  \/ \E offset \in {0, 2}, mem \in BOOLEAN, base \in Bases : WriteData(2, offset, mem, base)
  \/ \E offset \in 0 .. 3, mem \in BOOLEAN, base \in Bases : WriteData(1, offset, mem, base)

-----------------------------------------------------------------------------
InIomem(addr) == addr \in Window \/ addr >= Hole

(* load8, store32 and iomem_write16 and their kin: what a write of size      *)
(* bytes reaches.                                                           *)
Reaches(addr, size) ==
  CASE InIomem(addr) /\ addr >= vga_addr ->
         IF addr - vga_addr + size - 1 < Size THEN [what |-> "frame", at |-> addr - vga_addr]
         ELSE [what |-> "nothing", at |-> 0]
    [] InIomem(addr) /\ addr < vga_addr -> [what |-> "window", at |-> addr]
    [] ~InIomem(addr) /\ addr < RamSize -> [what |-> "ram", at |-> addr]
    [] OTHER -> [what |-> "nothing", at |-> 0]

(* Whatever order the guest programs base and decoding in, finds the size   *)
(* of the region by writing ones, or turns decoding off and on: the frame   *)
(* buffer is where it was programmed, to its last byte and by accesses of   *)
(* every width, nowhere else, and it never hides the window or the RAM.     *)
(* (A base below the hole does, and the guest programs none; and the last    *)
(* byte of all addresses, at which no base stands for none, is left out.)    *)
DecodedAsProgrammed ==
  program.base >= Hole \/ ~program.mem =>
    \A size \in {1, 2, 4} : \A addr \in 0 .. Top - 1 - size :
      LET got == Reaches(addr, size)
          offset == addr - Aligned(program.base)
      IN CASE addr \in Window -> got = [what |-> "window", at |-> addr]
           [] addr < RamSize /\ addr \notin Window -> got = [what |-> "ram", at |-> addr]
           [] addr >= Hole /\ program.mem /\ offset \in 0 .. Size - size ->
                got = [what |-> "frame", at |-> offset]
           [] OTHER -> got.what # "frame"
============================================================================
