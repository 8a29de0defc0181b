----------------------------- MODULE MCDevices -----------------------------
(* The devices that do not share state, each with the part of the guest     *)
(* that drives it, and the manager of machines with its user (VmStore, with *)
(* the constants of the cfg).  A behaviour has one of them, its world; the  *)
(* variables of the others stay as they are initially.                      *)
EXTENDS VmStore, DeviceParts

-----------------------------------------------------------------------------
(* The sound card: its parser, and its transfers.                           *)
Dsp == INSTANCE Sb16 WITH
  Commands <- {"plain", "reply", "silence", "adpcm"},
  Formats <- {[wide |-> FALSE, stereo |-> FALSE]},
  Byte <- 2, Lengths <- {0}, Counts <- {2}, Frees <- {2}
Blaster == INSTANCE Sb16 WITH
  Commands <- {"block", "single8", "dma"},
  Formats <- {[wide |-> b, stereo |-> FALSE] : b \in BOOLEAN},
  Byte <- 2, Lengths <- {2}, Counts <- {2}, Frees <- {4}, OutSize <- 0

(* Constants of the cfg that it cannot write.                               *)
DriveStarts == {-1, 0, 2}
SoundCommands == {"plain", "reply", "block", "single8", "dma", "silence", "adpcm"}
SoundFormats == {[wide |-> w, stereo |-> s] : w, s \in BOOLEAN}
SoundLimits == [wide \in BOOLEAN |-> IF wide THEN 4 ELSE 2]
Addresses == 8 .. 15
MouseMoves == {<<2, 0>>, <<-1, 1>>}

-----------------------------------------------------------------------------
Worlds == {"pit", "latch", "rtc", "serial", "floppy", "dsp", "sound", "net",
           "pci", "mouse", "vms"}

DevicesInit ==
  /\ VmInit /\ world \in Worlds
  /\ IF world = "latch" THEN Pit!Init ELSE Clock!Init
  /\ Rtc!Init /\ Serial!Init /\ Drive!Init /\ Dsp!Init /\ Net!Init
  /\ Bus!Init /\ Mouse!Init

pitWorlds   == {"pit", "latch"}
soundWorlds == {"dsp", "sound"}

(* What is not of this world stays. *)
Others(w) ==
  /\ UNCHANGED world
  /\ IF w \in pitWorlds THEN TRUE ELSE UNCHANGED <<pit, uticks, elapsed, fired, latch_read>>
  /\ IF w = "rtc" THEN TRUE ELSE UNCHANGED <<cmos, irq_period, irq_timeout, ticks, owed>>
  /\ IF w = "serial" THEN TRUE ELSE UNCHANGED <<uart, typed, uart_line, uart_got>>
  /\ IF w = "floppy" THEN TRUE ELSE UNCHANGED <<emu, fpos, fsize, floppy_moved>>
  /\ IF w \in soundWorlds THEN TRUE ELSE UNCHANGED <<sb, sb_line, audio, dma, sb_odd>>
  /\ IF w = "net" THEN TRUE ELSE UNCHANGED <<ne, net_line, net_mem, unread, drv, sent, overrun>>
  /\ IF w = "pci" THEN TRUE ELSE UNCHANGED <<cf8, config, enabled, vga_addr, program>>
  /\ IF w = "mouse" THEN TRUE ELSE UNCHANGED <<mouse, mouse_queue, mouse_drv, mouse_owed, mouse_cut>>
  /\ IF w = "vms" THEN TRUE
     ELSE UNCHANGED vmVars

DevicesNext ==
  \/ world = "pit" /\ Clock!Next /\ Others("pit")
  \/ world = "latch" /\ Pit!Next /\ Others("latch")
  \/ world = "rtc" /\ Rtc!Next /\ Others("rtc")
  \/ world = "serial" /\ Serial!Next /\ Others("serial")
  \/ world = "floppy" /\ Drive!Next /\ Others("floppy")
  \/ world = "dsp" /\ Dsp!Next /\ Others("dsp")
  \/ world = "sound" /\ Blaster!Next /\ Others("sound")
  \/ world = "net" /\ Net!Next /\ Others("net")
  \/ world = "pci" /\ Bus!Next /\ Others("pci")
  \/ world = "mouse" /\ Mouse!Next /\ Others("mouse")
  \/ world = "vms" /\ VmNext /\ Others("vms")

mcVars ==
  <<world, pit, uticks, elapsed, fired, latch_read, cmos, irq_period, irq_timeout, ticks, owed,
    uart, typed, uart_line, uart_got, emu, fpos, fsize, floppy_moved,
    sb, sb_line, audio, dma, sb_odd, ne, net_line, net_mem, unread, drv, sent, overrun,
    cf8, config, enabled, vga_addr, program, mouse, mouse_queue, mouse_drv, mouse_owed, mouse_cut,
    vmVars>>

DevicesSpec == DevicesInit /\ [][DevicesNext]_mcVars

=============================================================================
