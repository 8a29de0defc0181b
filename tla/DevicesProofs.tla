---------------------------- MODULE DevicesProofs ---------------------------
(***************************************************************************)
(* The devices, each for every value of its constants.                     *)
(***************************************************************************)
EXTENDS DeviceParts, Sequences, SequenceTheorems, TLAPS

-----------------------------------------------------------------------------
(* What arithmetic modulo a number needs.                                   *)
Rem(a, m) == a % m

LEMMA Quotient ==
  ASSUME NEW m \in Nat \ {0}, NEW a \in Int
  PROVE  \E q \in Int : a = m * q + Rem(a, m) /\ Rem(a, m) \in 0 .. m - 1
<1>1. a \div m \in Int /\ a = (m * (a \div m)) + (a % m) /\ a % m \in 0 .. m - 1  OBVIOUS
<1> QED  BY <1>1 DEF Rem

LEMMA InRange == ASSUME NEW m \in Nat \ {0}, NEW a \in Int PROVE Rem(a, m) \in 0 .. m - 1
BY Quotient

LEMMA OnlyZero ==
  ASSUME NEW m \in Nat \ {0}, NEW k \in Int, NEW d \in Int, d = m * k, -m < d, d < m
  PROVE  d = 0
<1>1. CASE k >= 1
  <2>1. m * k >= m  BY <1>1
  <2> QED  BY <2>1
<1>2. CASE k <= -1
  <2>1. m * k <= -m  BY <1>2
  <2> QED  BY <2>1
<1>3. CASE k = 0  BY <1>3
<1> QED  BY <1>1, <1>2, <1>3

LEMMA Modulo ==
  ASSUME NEW m \in Nat \ {0}, NEW a \in Int, NEW b \in Int, NEW k \in Int
  PROVE  a = b + m * k => Rem(a, m) = Rem(b, m)
<1>0. SUFFICES ASSUME a = b + m * k PROVE Rem(a, m) = Rem(b, m)  OBVIOUS
<1>1. PICK p \in Int : a = m * p + Rem(a, m) /\ Rem(a, m) \in 0 .. m - 1  BY Quotient
<1>2. PICK q \in Int : b = m * q + Rem(b, m) /\ Rem(b, m) \in 0 .. m - 1  BY Quotient
<1>3. PICK r \in 0 .. m - 1 : r = Rem(a, m)  BY <1>1
<1>4. PICK t \in 0 .. m - 1 : t = Rem(b, m)  BY <1>2
<1> PICK j \in Int : j = (q + k) - p  OBVIOUS
<1>5. PICK d \in Int : d = r - t  OBVIOUS
<1>6. d = m * j
  <2>1. PICK x \in Int : x = m * q  OBVIOUS
  <2>2. PICK y \in Int : y = m * k  OBVIOUS
  <2>3. PICK z \in Int : z = m * p  OBVIOUS
  <2>4. m * j = (x + y) - z  BY <2>1, <2>2, <2>3
  <2>5. a = z + r /\ b = x + t /\ a = b + y
    <3>1. m * p + Rem(a, m) = z + r  BY <1>3, <2>3
    <3>2. m * q + Rem(b, m) = x + t  BY <1>4, <2>1
    <3>3. b + m * k = b + y  BY <2>2
    <3> QED  BY <1>0, <1>1, <1>2, <3>1, <3>2, <3>3
  <2>6. r - t = (x + y) - z  BY <2>5
  <2> QED  BY <1>5, <2>4, <2>6
<1>7. -m < d /\ d < m  BY <1>5
<1>8. d = 0  BY <1>6, <1>7, OnlyZero, Zenon
<1> QED  BY <1>3, <1>4, <1>5, <1>8

LEMMA Small == ASSUME NEW m \in Nat \ {0}, NEW a \in 0 .. m - 1 PROVE Rem(a, m) = a
<1>0. a \in Int  OBVIOUS
<1>1. PICK q \in Int : a = m * q + Rem(a, m) /\ Rem(a, m) \in 0 .. m - 1  BY <1>0, Quotient
<1> PICK r \in 0 .. m - 1 : r = Rem(a, m)  BY <1>1
<1> PICK d \in Int : d = a - r  OBVIOUS
<1>2. d = m * q  BY <1>1
<1>3. -m < d /\ d < m  OBVIOUS
<1>4. d = 0  BY <1>2, <1>3, OnlyZero, Zenon
<1> QED  BY <1>4

LEMMA Whole == ASSUME NEW m \in Nat \ {0} PROVE Rem(m, m) = 0
<1> PICK o \in Int : o = 1  OBVIOUS
<1> PICK z \in 0 .. m - 1 : z = 0  OBVIOUS
<1>1. m \in Int /\ z \in Int /\ m = z + m * o  OBVIOUS
<1>2. Rem(m, m) = Rem(z, m)  BY <1>1, Modulo, Zenon
<1> QED  BY <1>2, Small

(* A remainder may be taken early.                                          *)
LEMMA Early ==
  ASSUME NEW m \in Nat \ {0}, NEW a \in Int, NEW b \in Int
  PROVE  Rem(Rem(a, m) + b, m) = Rem(a + b, m)
<1>1. PICK q \in Int : a = m * q + Rem(a, m) /\ Rem(a, m) \in 0 .. m - 1  BY Quotient
<1>2. PICK r \in Int : r = Rem(a, m)  BY <1>1
<1>3. PICK u \in Int : u = a + b  OBVIOUS
<1>4. PICK v \in Int : v = r + b  OBVIOUS
<1>5. u = v + m * q
  <2>1. PICK x \in Int : x = m * q  OBVIOUS
  <2>2. a = x + r  BY <1>1, <1>2, <2>1
  <2>3. u = v + x  BY <1>3, <1>4, <2>2
  <2> QED  BY <2>1, <2>3
<1>6. Rem(u, m) = Rem(v, m)  BY <1>5, Modulo
<1> QED  BY <1>2, <1>3, <1>4, <1>6

LEMMA EarlyLess ==
  ASSUME NEW m \in Nat \ {0}, NEW a \in Int, NEW b \in Int
  PROVE  Rem(Rem(a, m) - b, m) = Rem(a - b, m)
<1>1. PICK c \in Int : c = -b  OBVIOUS
<1>2. Rem(Rem(a, m) + c, m) = Rem(a + c, m)  BY Early
<1>3. PICK r \in Int : r = Rem(a, m)  BY Quotient
<1>4. r + c = r - b /\ a + c = a - b  BY <1>1
<1> QED  BY <1>2, <1>3, <1>4

LEMMA EarlyFrom ==
  ASSUME NEW m \in Nat \ {0}, NEW a \in Int, NEW b \in Int
  PROVE  Rem(b - Rem(a, m), m) = Rem(b - a, m)
<1>1. PICK q \in Int : a = m * q + Rem(a, m) /\ Rem(a, m) \in 0 .. m - 1  BY Quotient
<1>2. PICK r \in Int : r = Rem(a, m)  BY <1>1
<1>3. PICK u \in Int : u = b - a  OBVIOUS
<1>4. PICK v \in Int : v = b - r  OBVIOUS
<1>5. v = u + m * q
  <2>1. PICK x \in Int : x = m * q  OBVIOUS
  <2>2. a = x + r  BY <1>1, <1>2, <2>1
  <2>3. v = u + x  BY <1>3, <1>4, <2>2
  <2> QED  BY <2>1, <2>3
<1>6. Rem(v, m) = Rem(u, m)  BY <1>5, Modulo
<1> QED  BY <1>2, <1>3, <1>4, <1>6

(* The remainder of a remainder, for a divisor.                             *)
LEMMA RemainderTwice ==
  ASSUME NEW m \in Nat \ {0}, NEW p \in Nat \ {0}, Rem(m, p) = 0, NEW a \in Int
  PROVE  Rem(Rem(a, m), p) = Rem(a, p)
<1>1. PICK q \in Int : a = m * q + Rem(a, m) /\ Rem(a, m) \in 0 .. m - 1  BY Quotient
<1>0. m \in Int  OBVIOUS
<1>2. PICK k \in Int : m = p * k + Rem(m, p)  BY <1>0, Quotient
<1>7. PICK r \in Int : r = Rem(a, m)  BY <1>1
<1>3. m * q = p * (k * q)
  <2>1. m = p * k  BY <1>2
  <2>2. (p * k) * q = p * (k * q)  OBVIOUS
  <2> QED  BY <2>1, <2>2
<1>4. PICK j \in Int : j = k * q  OBVIOUS
<1>5. a = r + p * j
  <2>1. a = m * q + r  BY <1>1, <1>7
  <2>2. m * q = p * j  BY <1>3, <1>4
  <2>3. p * j \in Int  OBVIOUS
  <2>4. a = p * j + r  BY <2>1, <2>2
  <2> QED  BY <2>3, <2>4
<1>6. Rem(a, p) = Rem(r, p)  BY ONLY <1>5, Modulo, Zenon
<1> QED  BY <1>6, <1>7

(* What comparing quotients needs.                                          *)
LEMMA SmallerQuotient ==
  ASSUME NEW d \in Nat \ {0}, NEW a \in Int, NEW b \in Int
  PROVE  d * a < d * b + d => a <= b
<1>0. SUFFICES ASSUME d * a < d * b + d, a >= b + 1 PROVE FALSE  OBVIOUS
<1>1. d * a >= d * (b + 1)  BY <1>0
<1>2. d * (b + 1) = d * b + d  OBVIOUS
<1>3. d * a \in Int /\ d * b \in Int  OBVIOUS
<1> QED  BY <1>0, <1>1, <1>2, <1>3

-----------------------------------------------------------------------------
(* The configuration space of the PCI bus. *)
BusSpec == Bus!Init /\ [][Bus!Next]_Bus!pciVars

(* RAM and window are below the hole, which begins at a multiple of the     *)
(* size of the region, and bases are addresses.                             *)
BusAssumed ==
  /\ RegionSize \in Nat \ {0} /\ Top \in Nat /\ RamSize \in Nat
  /\ Hole \in Nat /\ Hole % RegionSize = 0 /\ Hole < Top
  /\ RamSize <= Hole /\ Window \subseteq 0 .. Hole - 1
  /\ Bases \subseteq 0 .. Top - 1

(* What is decoded follows what the guest has programmed.                   *)
BusInv ==
  /\ program \in [mem : BOOLEAN, base : Nat]
  /\ config \in [mem : BOOLEAN, base : Nat]
  /\ config.mem = program.mem /\ config.base = Bus!Aligned(program.base)
  /\ enabled = config.mem
  /\ vga_addr = IF config.mem THEN config.base ELSE Bus!None

(* Multiples are aligned, and alignment leads across no multiple.           *)
LEMMA AlignedMultiple ==
  ASSUME NEW s \in Nat \ {0}, NEW a \in Nat
  PROVE  /\ a - (a % s) \in Nat
         /\ (a - (a % s)) % s = 0
         /\ \A h \in Nat : h % s = 0 /\ h <= a => h <= a - (a % s)
<1> DEFINE q == a \div s
           r == a % s
<1>1. q \in Int /\ r \in 0 .. s - 1 /\ a = s * q + r  OBVIOUS
<1>2. q >= 0
  <2> SUFFICES ASSUME q <= -1 PROVE FALSE  BY <1>1
  <2>1. s * q <= -s  BY <1>1
  <2> QED  BY <1>1, <2>1
<1>3. a - r = s * q /\ s * q >= 0  BY <1>1, <1>2
<1>4. (s * q) % s = 0
  <2> PICK n \in Int : n = s * q  BY <1>1
  <2> DEFINE p == n \div s
             t == n % s
  <2>1. p \in Int /\ t \in 0 .. s - 1 /\ n = s * p + t  OBVIOUS
  <2> HIDE DEF p, t, q
  <2>2. s * (q - p) = s * q - s * p  BY <1>1, <2>1
  <2>3. t = s * (q - p)  BY <1>1, <2>1, <2>2
  <2>4. CASE q - p >= 1
    <3>1. s * (q - p) >= s  BY <1>1, <2>1, <2>4
    <3> QED  BY <2>1, <2>3, <3>1
  <2>5. CASE q - p <= 0
    <3>1. s * (q - p) <= 0  BY <1>1, <2>1, <2>5
    <3> QED  BY <2>1, <2>3, <3>1 DEF t
  <2> QED  BY <1>1, <2>1, <2>4, <2>5
<1>5. ASSUME NEW h \in Nat, h % s = 0, h <= a PROVE h <= s * q
  <2> DEFINE k == h \div s
  <2>1. k \in Int /\ h = s * k  BY <1>5
  <2>2. CASE k <= q  BY <1>1, <2>1, <2>2
  <2>3. CASE k >= q + 1
    <3>1. s * k >= s * (q + 1)  BY <1>1, <2>1, <2>3
    <3>2. s * (q + 1) = s * q + s  BY <1>1
    <3> QED  BY <1>1, <1>5, <2>1, <3>1, <3>2
  <2> QED  BY <1>1, <2>1, <2>2, <2>3
<1> QED  BY <1>3, <1>4, <1>5, SMTT(30)
LEMMA BusStep ==
  ASSUME BusAssumed, BusInv, [Bus!Next]_Bus!pciVars
  PROVE  BusInv'
<1>1. CASE \E on, vga \in BOOLEAN, reg \in {Bus!Command, Bus!Base, Bus!Other} :
             Bus!WriteAddress(on, vga, reg)
  <2>1. UNCHANGED <<config, enabled, vga_addr, program>>  BY <1>1 DEF Bus!WriteAddress
  <2> QED  BY <2>1 DEF BusInv, Bus!Aligned, Bus!None
<1>2. ASSUME NEW size \in {1, 2, 4}, NEW offset \in 0 .. 3, NEW mem \in BOOLEAN, NEW base \in Bases,
             Bus!WriteData(size, offset, mem, base)
      PROVE  BusInv'
  <2> DEFINE addr == IF size = 4 THEN cf8.reg ELSE cf8.reg + offset
             isBase == addr = Bus!Base /\ size = 4
             command == Bus!Command \in addr .. addr + size - 1
             c == CASE isBase -> [config EXCEPT !.base = Bus!Aligned(base)]
                    [] command -> [config EXCEPT !.mem = mem]
                    [] OTHER -> config
  <2>0. base \in Nat /\ RegionSize \in Nat \ {0}  BY DEF BusAssumed
  <2>1. isBase => ~command  BY DEF Bus!Base, Bus!Command
  <2>2. Bus!Aligned(base) \in Nat /\ Bus!Aligned(base) % RegionSize = 0
        /\ Bus!Aligned(program.base) \in Nat /\ Bus!Aligned(program.base) % RegionSize = 0
    BY <2>0, AlignedMultiple DEF Bus!Aligned, BusInv
  <2>3. CASE ~(cf8.on /\ cf8.vga)
    <3>1. UNCHANGED Bus!pciVars  BY <1>2, <2>3 DEF Bus!WriteData
    <3> QED  BY <3>1 DEF BusInv, Bus!Aligned, Bus!None, Bus!pciVars
  <2>4. CASE cf8.on /\ cf8.vga
    <3>1. /\ config' = c
          /\ IF command \/ isBase THEN Bus!UpdateMappings(c) ELSE UNCHANGED <<enabled, vga_addr>>
          /\ program' = [mem |-> IF command THEN mem ELSE program.mem,
                         base |-> IF isBase THEN base ELSE program.base]
      BY <1>2, <2>4 DEF Bus!WriteData
    <3> HIDE DEF command, isBase
    <3>2. /\ program'.mem = (IF command THEN mem ELSE program.mem)
          /\ program'.base = (IF isBase THEN base ELSE program.base)
          /\ program' \in [mem : BOOLEAN, base : Nat]
      <4> DEFINE m == IF command THEN mem ELSE program.mem
                 b == IF isBase THEN base ELSE program.base
      <4>1. m \in BOOLEAN /\ b \in Nat  BY <2>0 DEF BusInv
      <4>2. program' = [mem |-> m, base |-> b]  BY <3>1
      <4> HIDE DEF m, b
      <4>3. program' \in [mem : BOOLEAN, base : Nat] /\ program'.mem = m /\ program'.base = b
        BY <4>1, <4>2
      <4> QED  BY <4>3 DEF m, b
    <3>3. /\ c \in [mem : BOOLEAN, base : Nat]
          /\ c.mem = (IF command THEN mem ELSE config.mem)
          /\ c.base = (IF isBase THEN Bus!Aligned(base) ELSE config.base)
      <4>1. CASE isBase  BY <2>1, <2>2, <4>1 DEF BusInv
      <4>2. CASE ~isBase /\ command  BY <4>2 DEF BusInv
      <4>3. CASE ~isBase /\ ~command  BY <4>3 DEF BusInv
      <4> QED  BY <4>1, <4>2, <4>3
    <3> HIDE DEF c
    <3>4. /\ c.mem = program'.mem
          /\ c.base = Bus!Aligned(program.base)'
      BY <3>2, <3>3, <2>1 DEF BusInv, Bus!Aligned
    <3>5. c.base % RegionSize = 0
      BY <3>3, <2>2 DEF BusInv
    <3>6. Bus!Aligned(c.base) = c.base
      BY <3>3, <3>5 DEF Bus!Aligned
    <3>7. CASE command \/ isBase
      <4>1. Bus!UpdateMappings(c)  BY <3>1, <3>7
      <4>2. CASE c.mem
        <5>1. vga_addr' = c.base /\ enabled' = TRUE  BY <4>1, <4>2, <3>6 DEF Bus!UpdateMappings
        <5> QED  BY <5>1, <4>2, <3>1, <3>2, <3>3, <3>4 DEF BusInv
      <4>3. CASE ~c.mem
        <5>1. vga_addr' = Bus!None /\ enabled' = FALSE
          BY <4>1, <4>3 DEF Bus!UpdateMappings, BusInv
        <5> QED  BY <5>1, <4>3, <3>1, <3>2, <3>3, <3>4 DEF BusInv, Bus!None
      <4> QED  BY <4>2, <4>3
    <3>8. CASE ~(command \/ isBase)
      BY <3>1, <3>2, <3>3, <3>4, <3>8 DEF BusInv, Bus!None
    <3> QED  BY <3>7, <3>8
  <2> QED  BY <2>3, <2>4
<1>3. CASE UNCHANGED Bus!pciVars
  BY <1>3 DEF BusInv, Bus!Aligned, Bus!None, Bus!pciVars
<1> QED  BY <1>1, <1>2, <1>3 DEF Bus!Next

LEMMA BusReaches == BusAssumed /\ BusInv => Bus!DecodedAsProgrammed
<1> SUFFICES ASSUME BusAssumed, BusInv, program.base >= Hole \/ ~program.mem,
                    NEW size \in {1, 2, 4}, NEW addr \in 0 .. Top - 1 - size
             PROVE  LET got == Bus!Reaches(addr, size)
                        offset == addr - Bus!Aligned(program.base)
                    IN CASE addr \in Window -> got = [what |-> "window", at |-> addr]
                         [] addr < RamSize /\ addr \notin Window ->
                              got = [what |-> "ram", at |-> addr]
                         [] addr >= Hole /\ program.mem /\ offset \in 0 .. RegionSize - size ->
                              got = [what |-> "frame", at |-> offset]
                         [] OTHER -> got.what # "frame"
  BY DEF Bus!DecodedAsProgrammed
<1> DEFINE base == Bus!Aligned(program.base)
<1>1. /\ RegionSize \in Nat \ {0} /\ Top \in Nat /\ RamSize \in Nat /\ Hole \in Nat
      /\ RamSize <= Hole /\ (addr \in Window => addr < Hole)
  BY DEF BusAssumed
<1>2. base \in Nat /\ (program.mem => base >= Hole /\ vga_addr = base)
      /\ (~program.mem => vga_addr = Top - 1)
  BY AlignedMultiple DEF BusAssumed, BusInv, Bus!Aligned, Bus!None
<1>3. vga_addr \in Int /\ (addr \in Window => addr < vga_addr)
  BY <1>1, <1>2 DEF BusInv
<1> HIDE DEF base
<1>4. CASE addr \in Window
  BY <1>1, <1>2, <1>3, <1>4 DEF Bus!Reaches, Bus!InIomem
<1>5. CASE addr < RamSize /\ addr \notin Window
  BY <1>1, <1>2, <1>3, <1>5 DEF Bus!Reaches, Bus!InIomem
<1>6. CASE addr >= RamSize /\ addr \notin Window
  BY <1>1, <1>2, <1>3, <1>6 DEF Bus!Reaches, Bus!InIomem, base
<1> QED  BY <1>1, <1>4, <1>5, <1>6

(* For a region of any size and any sequence of writes of any width to the  *)
(* configuration space: the frame buffer is decoded where the guest has     *)
(* programmed it, window and RAM where they are (pci_update_mappings).      *)
THEOREM Decoded == BusAssumed => (BusSpec => []DecodedAsProgrammed)
<1> SUFFICES ASSUME BusAssumed PROVE BusSpec => []DecodedAsProgrammed  OBVIOUS
<1>1. Bus!Init => BusInv
  <2> SUFFICES ASSUME Bus!Init PROVE BusInv  OBVIOUS
  <2> DEFINE off == FALSE
  <2>1. /\ config = [mem |-> off, base |-> 0] /\ program = [mem |-> off, base |-> 0]
        /\ enabled = off /\ vga_addr = Bus!None /\ off \in BOOLEAN /\ ~off
    BY DEF Bus!Init
  <2>2. Bus!Aligned(0) = 0  BY AlignedMultiple DEF BusAssumed, Bus!Aligned
  <2> HIDE DEF off
  <2> QED  BY <2>1, <2>2 DEF BusInv
<1>2. BusInv /\ [Bus!Next]_Bus!pciVars => BusInv'  BY BusStep
<1>3. BusInv => DecodedAsProgrammed  BY BusReaches DEF DecodedAsProgrammed
<1> QED  BY <1>1, <1>2, <1>3, PTL DEF BusSpec

-----------------------------------------------------------------------------
(* The timer: any counters, guest and clock. *)
PitSpec == Pit!Init /\ [][Pit!Next]_Pit!pitVars

PitAssumed == Readers \subseteq Channels /\ PitByte \in Nat \ {0}

Fields == {"count", "latched_count", "count_latched", "status_latched", "status", "read_state",
           "write_state", "write_latch", "rw_mode", "mode", "gate", "count_load_time",
           "last_irq_count"}
IsCounter(s) == s = [f \in Fields |-> s[f]]

PitInv ==
  /\ pit = [c \in Channels |-> pit[c]] /\ \A c \in Channels : IsCounter(pit[c])
  /\ latch_read = [c \in Channels |-> latch_read[c]]
  /\ Pit!WordWhole

(* A step of a counter that leaves what is latched alone, or latches anew.  *)
LeavesLatch(s, t) ==
  /\ IsCounter(t)
  /\ \/ t.latched_count = s.latched_count /\ t.count_latched = s.count_latched
     \/ s.count_latched = 0

LEMMA LeavesLatches ==
  ASSUME PitInv, pit' = [c \in Channels |-> pit'[c]], UNCHANGED latch_read,
         \A c \in Channels : LeavesLatch(pit[c], pit'[c])
  PROVE  PitInv' /\ Pit!LatchHeld
<1>1. Pit!WordWhole'
  BY DEF PitInv, Pit!WordWhole, LeavesLatch
<1>2. Pit!LatchHeld
  BY DEF PitInv, Pit!LatchHeld, LeavesLatch
<1> QED  BY <1>1, <1>2 DEF PitInv, LeavesLatch

LEMMA CounterKept == ASSUME NEW s, IsCounter(s) PROVE LeavesLatch(s, s)
BY DEF LeavesLatch

LEMMA PutLeaves ==
  ASSUME PitInv, NEW c \in Channels, NEW t, Pit!Put(c, t), LeavesLatch(pit[c], t), UNCHANGED latch_read
  PROVE  PitInv' /\ Pit!LatchHeld
<1>1. pit' = [pit EXCEPT ![c] = t] /\ pit = [d \in Channels |-> pit[d]]  BY DEF Pit!Put, PitInv
<1>2. pit' = [d \in Channels |-> pit'[d]]  BY <1>1
<1>3. \A d \in Channels : LeavesLatch(pit[d], pit'[d])
  BY <1>1, CounterKept DEF PitInv
<1> QED  BY <1>2, <1>3, LeavesLatches

LEMMA LoadLeaves ==
  ASSUME NEW s, IsCounter(s), NEW val
  PROVE  LeavesLatch(s, Pit!LoadCount(s, val))
BY DEF IsCounter, LeavesLatch, Pit!LoadCount, Fields

LEMMA LatchLeaves ==
  ASSUME NEW s, IsCounter(s)
  PROVE  LeavesLatch(s, Pit!Latch(s))
<1>1. CASE s.count_latched = 0
  <2> PICK n : n = Pit!GetCount(s) % Pit!FullCount  OBVIOUS
  <2>1. Pit!Latch(s) = [s EXCEPT !.latched_count = n, !.count_latched = s.rw_mode]
    BY <1>1 DEF Pit!Latch
  <2> QED  BY <1>1, <2>1 DEF IsCounter, LeavesLatch, Fields
<1>2. CASE s.count_latched # 0
  BY <1>2 DEF Pit!Latch, LeavesLatch
<1> QED  BY <1>1, <1>2

LEMMA ReadBackLeaves ==
  ASSUME NEW s, IsCounter(s), NEW held \in BOOLEAN, NEW told \in BOOLEAN
  PROVE  LET t == IF held THEN Pit!Latch(s) ELSE s
         IN LeavesLatch(s, IF told THEN Pit!LatchStatus(t) ELSE t)
<1> DEFINE t == IF held THEN Pit!Latch(s) ELSE s
<1>1. LeavesLatch(s, t)
  BY LatchLeaves, CounterKept
<1> HIDE DEF t
<1>2. LeavesLatch(s, Pit!LatchStatus(t))
  <2> PICK out : out = Pit!GetOut(t)  OBVIOUS
  <2>1. Pit!LatchStatus(t) = IF t.status_latched THEN t
                             ELSE [t EXCEPT !.status = out, !.status_latched = TRUE]
    BY DEF Pit!LatchStatus
  <2> QED  BY <1>1, <2>1 DEF IsCounter, LeavesLatch, Fields
<1> QED  BY <1>1, <1>2 DEF t

LEMMA PitWriteControl ==
  ASSUME PitInv, Pit!WriteControl
  PROVE  PitInv' /\ Pit!LatchHeld
<1> PICK c \in Channels, a \in Accesses, m \in Modes :
      /\ Pit!Put(c, [pit[c] EXCEPT !.rw_mode = a, !.read_state = a, !.write_state = a, !.mode = m])
      /\ UNCHANGED latch_read
  BY DEF Pit!WriteControl
<1> DEFINE t == [pit[c] EXCEPT !.rw_mode = a, !.read_state = a, !.write_state = a, !.mode = m]
<1>1. LeavesLatch(pit[c], t)
  BY DEF PitInv, IsCounter, LeavesLatch, Fields
<1> QED  BY <1>1, PutLeaves

LEMMA PitLatchCommand ==
  ASSUME PitAssumed, PitInv, Pit!LatchCommand
  PROVE  PitInv' /\ Pit!LatchHeld
<1> PICK c \in Readers : Pit!Put(c, Pit!Latch(pit[c])) /\ UNCHANGED latch_read
  BY DEF Pit!LatchCommand
<1>1. c \in Channels  BY DEF PitAssumed
<1>2. LeavesLatch(pit[c], Pit!Latch(pit[c]))
  BY <1>1, LatchLeaves DEF PitInv
<1> QED  BY <1>1, <1>2, PutLeaves

LEMMA PitReadBack ==
  ASSUME PitInv, Pit!ReadBack
  PROVE  PitInv' /\ Pit!LatchHeld
<1> PICK C \in SUBSET Readers, count \in BOOLEAN, status \in BOOLEAN :
      pit' = [c \in Channels |->
                LET s == IF c \in C /\ count THEN Pit!Latch(pit[c]) ELSE pit[c]
                IN IF c \in C /\ status THEN Pit!LatchStatus(s) ELSE s]
  BY DEF Pit!ReadBack
<1>1. UNCHANGED latch_read  BY DEF Pit!ReadBack
<1>2. pit' = [c \in Channels |-> pit'[c]]  OBVIOUS
<1>3. ASSUME NEW c \in Channels PROVE LeavesLatch(pit[c], pit'[c])
  <2> PICK held \in BOOLEAN, told \in BOOLEAN :
        held = (c \in C /\ count) /\ told = (c \in C /\ status)
    OBVIOUS
  <2>1. pit'[c] = LET s == IF held THEN Pit!Latch(pit[c]) ELSE pit[c]
                  IN IF told THEN Pit!LatchStatus(s) ELSE s
    OBVIOUS
  <2>2. IsCounter(pit[c])  BY DEF PitInv
  <2> QED  BY <2>1, <2>2, ReadBackLeaves
<1> QED  BY <1>1, <1>2, <1>3, LeavesLatches

LEMMA PitWriteCounter ==
  ASSUME PitInv, Pit!WriteCounter
  PROVE  PitInv' /\ Pit!LatchHeld
<1> PICK c \in Channels, val \in 0 .. PitByte - 1 :
      LET s == pit[c]
      IN CASE s.write_state = 3 ->
                Pit!Put(c, [s EXCEPT !.write_latch = val, !.write_state = 4]) /\ Pit!Unloaded
           [] s.write_state = 4 ->
                /\ Pit!Put(c, [Pit!LoadCount(s, s.write_latch + PitByte * val)
                                 EXCEPT !.write_state = 3, !.write_latch = 0])
                /\ Pit!Loaded(c)
           [] s.write_state = 2 -> Pit!Put(c, Pit!LoadCount(s, PitByte * val)) /\ Pit!Loaded(c)
           [] OTHER -> Pit!Put(c, Pit!LoadCount(s, val)) /\ Pit!Loaded(c)
  BY DEF Pit!WriteCounter
<1> UNCHANGED latch_read  BY DEF Pit!WriteCounter
<1> DEFINE s == pit[c]
<1>0. IsCounter(s)  BY DEF PitInv
<1>1. CASE s.write_state = 3
  <2>1. Pit!Put(c, [s EXCEPT !.write_latch = val, !.write_state = 4])  BY <1>1
  <2>2. LeavesLatch(s, [s EXCEPT !.write_latch = val, !.write_state = 4])
    BY <1>0 DEF IsCounter, LeavesLatch, Fields
  <2> QED  BY <2>1, <2>2, PutLeaves
<1>2. CASE s.write_state = 4
  <2> PICK n : n = s.write_latch + PitByte * val  OBVIOUS
  <2> DEFINE l == Pit!LoadCount(s, n)
             t == [l EXCEPT !.write_state = 3, !.write_latch = 0]
  <2>1. Pit!Put(c, t)  BY <1>2
  <2>2. LeavesLatch(s, l)  BY <1>0, LoadLeaves
  <2>3. LeavesLatch(s, t)
    <3> HIDE DEF l
    <3> QED  BY <2>2 DEF IsCounter, LeavesLatch, Fields
  <2> HIDE DEF t
  <2> QED  BY <2>1, <2>3, PutLeaves
<1>3. CASE s.write_state = 2
  <2> PICK n : n = PitByte * val  OBVIOUS
  <2>1. Pit!Put(c, Pit!LoadCount(s, n))  BY <1>3
  <2> QED  BY <1>0, <2>1, LoadLeaves, PutLeaves
<1>4. CASE s.write_state \notin {2, 3, 4}
  <2>1. Pit!Put(c, Pit!LoadCount(s, val))  BY <1>4
  <2> QED  BY <1>0, <2>1, LoadLeaves, PutLeaves
<1> QED  BY <1>1, <1>2, <1>3, <1>4

(* A read is the one step that takes a latch away: of a word its low byte,  *)
(* which the guest then holds against the high byte.                        *)
LEMMA PitReadCounter ==
  ASSUME PitAssumed, PitInv, Pit!ReadCounter
  PROVE  PitInv' /\ Pit!LatchHeld
<1> PICK c \in Readers :
      LET s == pit[c]
      IN CASE s.status_latched ->
                /\ Pit!Put(c, [s EXCEPT !.status_latched = FALSE, !.status = FALSE])
                /\ UNCHANGED latch_read
           [] ~s.status_latched /\ s.count_latched # 0 ->
                /\ Pit!Put(c, [s EXCEPT !.count_latched = Pit!AfterLatch(s)])
                /\ latch_read' = [latch_read EXCEPT ![c] =
                     IF s.count_latched = 3 THEN s.latched_count % PitByte ELSE -1]
           [] OTHER ->
                /\ Pit!Put(c, [s EXCEPT !.read_state = CASE @ = 3 -> 4 [] @ = 4 -> 3 [] OTHER -> @])
                /\ UNCHANGED latch_read
  BY DEF Pit!ReadCounter
<1> DEFINE s == pit[c]
<1> c \in Channels  BY DEF PitAssumed
<1>0. IsCounter(s)  BY DEF PitInv
<1>1. CASE s.status_latched
  <2>1. Pit!Put(c, [s EXCEPT !.status_latched = FALSE, !.status = FALSE]) /\ UNCHANGED latch_read
    BY <1>1
  <2>2. LeavesLatch(s, [s EXCEPT !.status_latched = FALSE, !.status = FALSE])
    BY <1>0 DEF IsCounter, LeavesLatch, Fields
  <2> QED  BY <2>1, <2>2, PutLeaves
<1>2. CASE ~s.status_latched /\ s.count_latched # 0
  <2> PICK a : a = Pit!AfterLatch(s)  OBVIOUS
  <2> PICK b : b = s.latched_count % PitByte  OBVIOUS
  <2> DEFINE t == [s EXCEPT !.count_latched = a]
  <2>1. /\ Pit!Put(c, t)
        /\ latch_read' = [latch_read EXCEPT ![c] = IF s.count_latched = 3 THEN b ELSE -1]
    BY <1>2
  <2>2. IsCounter(t) /\ t.latched_count = s.latched_count /\ t.count_latched = a
    BY <1>0 DEF IsCounter, Fields
  <2> HIDE DEF t
  <2>3. pit' = [pit EXCEPT ![c] = t] /\ pit = [d \in Channels |-> pit[d]]
    BY <2>1 DEF Pit!Put, PitInv
  <2>4. /\ pit' = [d \in Channels |-> pit'[d]] /\ pit'[c] = t
        /\ \A d \in Channels : d # c => pit'[d] = pit[d]
    BY <2>3
  <2>5. /\ latch_read' = [d \in Channels |-> latch_read'[d]]
        /\ latch_read'[c] = IF s.count_latched = 3 THEN b ELSE -1
        /\ \A d \in Channels : d # c => latch_read'[d] = latch_read[d]
    BY <2>1 DEF PitInv
  <2>6. s.count_latched = 3 => a = 2
    BY DEF Pit!AfterLatch
  <2>7. t.latched_count % PitByte = b
    BY <2>2
  <2>8. Pit!WordWhole'
    BY <2>2, <2>4, <2>5, <2>6, <2>7 DEF Pit!WordWhole, PitInv
  <2>9. Pit!LatchHeld
    BY <2>2, <2>3, <2>4 DEF Pit!LatchHeld
  <2> QED  BY <2>2, <2>4, <2>5, <2>8, <2>9 DEF PitInv
<1>3. CASE ~s.status_latched /\ s.count_latched = 0
  <2> PICK r : r = CASE s.read_state = 3 -> 4 [] s.read_state = 4 -> 3 [] OTHER -> s.read_state
    OBVIOUS
  <2>1. Pit!Put(c, [s EXCEPT !.read_state = r]) /\ UNCHANGED latch_read
    BY <1>3
  <2>2. LeavesLatch(s, [s EXCEPT !.read_state = r])
    BY <1>0 DEF IsCounter, LeavesLatch, Fields
  <2> QED  BY <2>1, <2>2, PutLeaves
<1> QED  BY <1>1, <1>2, <1>3

LEMMA PitSetGate ==
  ASSUME PitInv, Pit!SetGate
  PROVE  PitInv' /\ Pit!LatchHeld
<1> PICK val \in BOOLEAN :
      Pit!Put(2, [pit[2] EXCEPT !.gate = val,
                    !.count_load_time = IF pit[2].mode \in {1, 2, 3, 5} /\ val /\ ~pit[2].gate
                                        THEN uticks ELSE @])
  BY DEF Pit!SetGate
<1> 2 \in Channels /\ UNCHANGED latch_read  BY DEF Pit!SetGate
<1> PICK n : n = IF pit[2].mode \in {1, 2, 3, 5} /\ val /\ ~pit[2].gate
                 THEN uticks ELSE pit[2].count_load_time
  OBVIOUS
<1>1. Pit!Put(2, [pit[2] EXCEPT !.gate = val, !.count_load_time = n])
  OBVIOUS
<1>2. LeavesLatch(pit[2], [pit[2] EXCEPT !.gate = val, !.count_load_time = n])
  <2>1. IsCounter(pit[2])  BY DEF PitInv
  <2> QED  BY <2>1 DEF IsCounter, LeavesLatch, Fields
<1> QED  BY <1>1, <1>2, PutLeaves

LEMMA PitUpdateIrq ==
  ASSUME PitInv, Pit!UpdateIrq
  PROVE  PitInv' /\ Pit!LatchHeld
<1> 0 \in Channels /\ Pit!Put(0, Pit!Served(pit[0])) /\ UNCHANGED latch_read
  BY DEF Pit!UpdateIrq
<1> DEFINE s == pit[0]
<1>0. IsCounter(s)  BY DEF PitInv
<1> PICK n : n = (s.last_irq_count + s.count) % Word  OBVIOUS
<1> PICK late \in BOOLEAN : late <=> Pit!Since(s.count_load_time) > Word \div 2
  <2>1. CASE Pit!Since(s.count_load_time) > Word \div 2  BY <2>1, Zenon
  <2>2. CASE ~(Pit!Since(s.count_load_time) > Word \div 2)  BY <2>2, Zenon
  <2> QED  BY <2>1, <2>2
<1>1. Pit!Served(s) = IF late THEN Pit!LoadCount(s, s.count) ELSE [s EXCEPT !.last_irq_count = n]
  BY DEF Pit!Served
<1>2. LeavesLatch(s, [s EXCEPT !.last_irq_count = n])
  BY <1>0 DEF IsCounter, LeavesLatch, Fields
<1>3. LeavesLatch(s, Pit!LoadCount(s, s.count))
  BY <1>0, LoadLeaves
<1>4. LeavesLatch(s, Pit!Served(s))
  BY <1>1, <1>2, <1>3
<1> QED  BY <1>4, PutLeaves

LEMMA PitKept ==
  ASSUME UNCHANGED pit, UNCHANGED latch_read, PitInv
  PROVE  PitInv' /\ Pit!LatchHeld
BY DEF PitInv, Pit!LatchHeld, Pit!WordWhole, IsCounter

LEMMA PitStarts ==
  ASSUME Pit!Init
  PROVE  PitInv
<1> PICK n : n = Pit!FullCount  OBVIOUS
<1> DEFINE counter(open) ==
      [count |-> n, latched_count |-> 0, count_latched |-> 0,
       status_latched |-> FALSE, status |-> FALSE,
       read_state |-> 0, write_state |-> 0, write_latch |-> 0,
       rw_mode |-> 0, mode |-> 3, gate |-> open,
       count_load_time |-> 0, last_irq_count |-> 0]
<1>1. \A open \in BOOLEAN : IsCounter(counter(open))
  BY DEF IsCounter, Fields
<1>2. pit = [c \in Channels |-> counter(c # 2)]
  BY DEF Pit!Init
<1>3. latch_read = [c \in Channels |-> -1]
  BY DEF Pit!Init
<1> HIDE DEF counter
<1>4. \A c \in Channels : IsCounter(pit[c])
  BY <1>1, <1>2
<1> QED  BY <1>2, <1>3, <1>4 DEF PitInv, Pit!WordWhole

LEMMA PitSteps ==
  ASSUME PitAssumed, PitInv, [Pit!Next]_Pit!pitVars
  PROVE  PitInv' /\ Pit!LatchHeld
<1>1. CASE Pit!Pass  BY <1>1, PitKept DEF Pit!Pass
<1>2. CASE UNCHANGED Pit!pitVars  BY <1>2, PitKept DEF Pit!pitVars
<1> QED  BY <1>1, <1>2, PitWriteControl, PitLatchCommand, PitReadBack, PitWriteCounter,
            PitReadCounter, PitSetGate, PitUpdateIrq DEF Pit!Next

(* What a guest has latched of a counter is held until it is read, whatever *)
(* else it programs, latches or loads, and between the two bytes of a       *)
(* latched word the byte it holds is that of the word whose other byte it   *)
(* reads next (pit_latch_count, pit_ioport_read), for any modes, accesses   *)
(* and periods of the clock.                                                *)
THEOREM Latches == PitAssumed => (PitSpec => LatchHeld /\ []Pit!WordWhole)
<1> SUFFICES ASSUME PitAssumed PROVE PitSpec => LatchHeld /\ []Pit!WordWhole
  OBVIOUS
<1>1. Pit!Init => PitInv  BY PitStarts
<1>2. PitInv /\ [Pit!Next]_Pit!pitVars => PitInv' /\ Pit!LatchHeld  BY PitSteps
<1>3. PitInv => Pit!WordWhole  BY DEF PitInv
<1> QED  BY <1>1, <1>2, <1>3, PTL DEF PitSpec, LatchHeld

(* Counters other than channel 0: what their fields hold.                   *)
PitNumbers ==
  /\ 0 \notin Channels /\ Accesses \subseteq 1 .. 3 /\ Steps \subseteq Int
  /\ Word \in Nat \ {0} /\ Num \in Int /\ Den \in Nat \ {0}

Fits(s) ==
  /\ s.count \in 1 .. PitByte * PitByte /\ s.latched_count \in 0 .. PitByte * PitByte - 1
  /\ s.count_latched \in 0 .. 3 /\ s.rw_mode \in 0 .. 3
  /\ s.read_state \in 0 .. 4 /\ s.write_state \in 0 .. 4 /\ s.write_latch \in 0 .. PitByte - 1
  /\ s.count_load_time \in Int /\ s.last_irq_count \in 0 .. Word - 1

PitFits == uticks \in 0 .. Word - 1 /\ \A c \in Channels : Fits(pit[c])

LEMMA PitFull == PitAssumed => PitByte * PitByte \in Nat \ {0} /\ PitByte <= PitByte * PitByte
<1> SUFFICES ASSUME PitAssumed PROVE PitByte * PitByte \in Nat \ {0} /\ PitByte <= PitByte * PitByte
  OBVIOUS
<1> PICK b \in Nat \ {0} : b = PitByte  BY DEF PitAssumed
<1>1. b * b \in Nat \ {0} /\ b <= b * b
  <2>1. b * b \in Nat /\ b * b >= b  OBVIOUS
  <2> QED  BY <2>1
<1> QED  BY <1>1

LEMMA PitTicks ==
  ASSUME PitNumbers, NEW m \in Int
  PROVE  Pit!Ticks(m) \in Int
<1>1. PICK w \in Nat \ {0} : w = Word  BY DEF PitNumbers
<1>2. PICK d \in Nat \ {0} : d = Den  BY DEF PitNumbers
<1>3. PICK x \in Int : x = m * Num  BY DEF PitNumbers
<1>4. x \div d \in Int  OBVIOUS
<1>5. PICK y \in Int : y = x \div d  BY <1>4
<1>6. y % w \in Int  OBVIOUS
<1> QED  BY <1>1, <1>2, <1>3, <1>5, <1>6 DEF Pit!Ticks

(* In each mode a count is between nothing and the largest.                 *)
LEMMA PitCount ==
  ASSUME PitAssumed, PitNumbers, uticks \in 0 .. Word - 1, NEW s, Fits(s)
  PROVE  Pit!GetCount(s) \in 0 .. PitByte * PitByte
<1>1. PICK f \in Nat \ {0} : f = PitByte * PitByte  BY PitFull
<1>2. PICK w \in Nat \ {0} : w = Word  BY DEF PitNumbers
<1>3. PICK count \in 1 .. f : count = s.count  BY <1>1 DEF Fits
<1>4. Pit!Since(s.count_load_time) \in Int
  <2>1. PICK t \in Int : t = s.count_load_time  BY DEF Fits
  <2>2. PICK x \in Int : x = uticks - t  BY <1>2
  <2>3. x % w \in Int  OBVIOUS
  <2> QED  BY <1>2, <2>1, <2>2, <2>3 DEF Pit!Since
<1>5. PICK d \in Int : d = Pit!Ticks(Pit!Since(s.count_load_time))  BY <1>4, PitTicks
<1>6. Pit!GetCount(s) \in {(count - d) % f, count - ((2 * d) % count), count - (d % count)}
  BY <1>1, <1>3, <1>5 DEF Pit!GetCount, Pit!FullCount
<1>7. (count - d) % f \in 0 .. f
  <2>1. PICK x \in Int : x = count - d  OBVIOUS
  <2>2. x % f \in 0 .. f - 1  OBVIOUS
  <2> QED  BY <2>1, <2>2
<1>8. count - ((2 * d) % count) \in 0 .. f /\ count - (d % count) \in 0 .. f
  <2>1. (2 * d) % count \in 0 .. count - 1 /\ d % count \in 0 .. count - 1  OBVIOUS
  <2>2. \A x \in 0 .. count - 1 : count - x \in 0 .. f  OBVIOUS
  <2> QED  BY <2>1, <2>2
<1> QED  BY <1>1, <1>6, <1>7, <1>8

LEMMA FitsPut ==
  ASSUME PitInv, PitFits, NEW c \in Channels, NEW t, Pit!Put(c, t), Fits(t), UNCHANGED uticks
  PROVE  PitFits'
<1>1. pit' = [pit EXCEPT ![c] = t] /\ pit = [d \in Channels |-> pit[d]]  BY DEF Pit!Put, PitInv
<1>2. \A d \in Channels : pit'[d] = IF d = c THEN t ELSE pit[d]  BY <1>1
<1> QED  BY <1>2 DEF PitFits, Fits

LEMMA FitsLoaded ==
  ASSUME PitAssumed, PitNumbers, PitFits, NEW s, IsCounter(s), Fits(s),
         NEW val \in 0 .. PitByte * PitByte
  PROVE  Fits(Pit!LoadCount(s, val)) /\ IsCounter(Pit!LoadCount(s, val))
<1>1. PICK f \in Nat \ {0} : f = PitByte * PitByte  BY PitFull
<1>2. PICK n \in 1 .. f : n = IF val = 0 THEN f ELSE val  BY <1>1
<1>3. Pit!LoadCount(s, val) = [s EXCEPT !.count = n, !.count_load_time = uticks, !.last_irq_count = 0]
  BY <1>1, <1>2 DEF Pit!LoadCount, Pit!FullCount
<1>4. 0 \in 0 .. Word - 1 /\ uticks \in Int  BY DEF PitNumbers, PitFits
<1> QED  BY <1>1, <1>3, <1>4 DEF IsCounter, Fits, Fields

LEMMA FitsLatched ==
  ASSUME PitAssumed, PitNumbers, PitFits, NEW s, IsCounter(s), Fits(s)
  PROVE  Fits(Pit!Latch(s)) /\ IsCounter(Pit!Latch(s))
<1>1. PICK f \in Nat \ {0} : f = PitByte * PitByte  BY PitFull
<1>2. PICK n \in 0 .. f - 1 : n = Pit!GetCount(s) % Pit!FullCount
  <2>1. Pit!GetCount(s) \in 0 .. f  BY <1>1, PitCount DEF PitFits
  <2> PICK x \in 0 .. f : x = Pit!GetCount(s)  BY <2>1
  <2>2. x % f \in 0 .. f - 1  OBVIOUS
  <2> QED  BY <1>1, <2>2 DEF Pit!FullCount
<1>3. CASE s.count_latched = 0
  <2>1. Pit!Latch(s) = [s EXCEPT !.latched_count = n, !.count_latched = s.rw_mode]
    BY <1>2, <1>3 DEF Pit!Latch
  <2> QED  BY <1>1, <2>1 DEF IsCounter, Fits, Fields
<1>4. CASE s.count_latched # 0  BY <1>4 DEF Pit!Latch
<1> QED  BY <1>3, <1>4

LEMMA FitsTold ==
  ASSUME NEW s, IsCounter(s), Fits(s)
  PROVE  Fits(Pit!LatchStatus(s))
<1>1. PICK out : out = Pit!GetOut(s)  OBVIOUS
<1>2. Pit!LatchStatus(s) = IF s.status_latched THEN s
                           ELSE [s EXCEPT !.status = out, !.status_latched = TRUE]
  BY <1>1 DEF Pit!LatchStatus
<1>3. CASE s.status_latched  BY <1>2, <1>3
<1>4. CASE ~s.status_latched
  <2>1. Pit!LatchStatus(s) = [s EXCEPT !.status = out, !.status_latched = TRUE]  BY <1>2, <1>4
  <2> QED  BY <2>1 DEF IsCounter, Fits, Fields
<1> QED  BY <1>3, <1>4

LEMMA FitsReadBack ==
  ASSUME PitAssumed, PitNumbers, PitInv, PitFits, Pit!ReadBack
  PROVE  PitFits'
<1>1. PICK C \in SUBSET Readers, count \in BOOLEAN, status \in BOOLEAN :
      pit' = [c \in Channels |->
                LET s == IF c \in C /\ count THEN Pit!Latch(pit[c]) ELSE pit[c]
                IN IF c \in C /\ status THEN Pit!LatchStatus(s) ELSE s]
  BY DEF Pit!ReadBack
<1>2. uticks' = uticks  BY DEF Pit!ReadBack
<1>3. ASSUME NEW c \in Channels PROVE Fits(pit'[c])
  <2>1. PICK held \in BOOLEAN, told \in BOOLEAN :
          held = (c \in C /\ count) /\ told = (c \in C /\ status)
    OBVIOUS
  <2> DEFINE s == IF held THEN Pit!Latch(pit[c]) ELSE pit[c]
  <2>2. pit'[c] = IF told THEN Pit!LatchStatus(s) ELSE s  BY <1>1, <2>1
  <2>3. IsCounter(pit[c]) /\ Fits(pit[c])  BY DEF PitInv, PitFits
  <2>4. IsCounter(s) /\ Fits(s)  BY <2>3, FitsLatched
  <2> HIDE DEF s
  <2> QED  BY <2>2, <2>4, FitsTold
<1> QED  BY <1>2, <1>3 DEF PitFits, Fits

LEMMA FitsWriteCounter ==
  ASSUME PitAssumed, PitNumbers, PitInv, PitFits, Pit!WriteCounter
  PROVE  PitFits'
<1>1. PICK c \in Channels, val \in 0 .. PitByte - 1 :
      CASE pit[c].write_state = 3 ->
                Pit!Put(c, [pit[c] EXCEPT !.write_latch = val, !.write_state = 4]) /\ Pit!Unloaded
           [] pit[c].write_state = 4 ->
                /\ Pit!Put(c, [Pit!LoadCount(pit[c], pit[c].write_latch + PitByte * val)
                                 EXCEPT !.write_state = 3, !.write_latch = 0])
                /\ Pit!Loaded(c)
           [] pit[c].write_state = 2 ->
                Pit!Put(c, Pit!LoadCount(pit[c], PitByte * val)) /\ Pit!Loaded(c)
           [] OTHER -> Pit!Put(c, Pit!LoadCount(pit[c], val)) /\ Pit!Loaded(c)
  BY DEF Pit!WriteCounter
<1>2. uticks' = uticks  BY DEF Pit!WriteCounter
<1>3. PICK s : s = pit[c]  OBVIOUS
<1>4. IsCounter(s) /\ Fits(s)  BY <1>3 DEF PitInv, PitFits
<1>5. PICK b \in Nat \ {0} : b = PitByte  BY DEF PitAssumed
<1>6. PICK latch \in 0 .. b - 1 : latch = s.write_latch  BY <1>4, <1>5 DEF Fits
<1>7. b * b \in Nat \ {0} /\ b * b >= 1  OBVIOUS
<1>8. latch + b * val \in 0 .. b * b /\ b * val \in 0 .. b * b /\ val \in 0 .. b * b
  <2>1. val \in 0 .. b - 1  BY <1>5
  <2>2. b * val <= b * (b - 1) /\ b * val \in Nat /\ b * (b - 1) = b * b - b  BY <2>1
  <2>3. val <= b * b  BY <2>1
  <2> QED  BY <1>7, <2>1, <2>2, <2>3
<1>9. CASE s.write_state = 3
  <2>1. Pit!Put(c, [s EXCEPT !.write_latch = val, !.write_state = 4])  BY <1>1, <1>3, <1>9
  <2>2. Fits([s EXCEPT !.write_latch = val, !.write_state = 4])  BY <1>4 DEF IsCounter, Fits, Fields
  <2> QED  BY <1>2, <2>1, <2>2, FitsPut
<1>10. CASE s.write_state = 4
  <2>1. PICK n \in 0 .. b * b : n = latch + b * val  BY <1>8
  <2> DEFINE l == Pit!LoadCount(s, n)
             t == [l EXCEPT !.write_state = 3, !.write_latch = 0]
  <2>2. Pit!Put(c, t)  BY <1>1, <1>3, <1>5, <1>6, <1>10, <2>1
  <2>3. Fits(l) /\ IsCounter(l)  BY <1>4, <1>5, FitsLoaded
  <2>4. 0 \in 0 .. b - 1  OBVIOUS
  <2>5. Fits(t)
    <3> HIDE DEF l
    <3> QED  BY <1>5, <2>3, <2>4 DEF IsCounter, Fits, Fields
  <2> HIDE DEF t
  <2> QED  BY <1>2, <2>2, <2>5, FitsPut
<1>11. CASE s.write_state = 2
  <2>1. PICK n \in 0 .. b * b : n = b * val  BY <1>8
  <2>2. Pit!Put(c, Pit!LoadCount(s, n))  BY <1>1, <1>3, <1>5, <1>11, <2>1
  <2>3. Fits(Pit!LoadCount(s, n))  BY <1>4, <1>5, FitsLoaded
  <2> QED  BY <1>2, <2>2, <2>3, FitsPut
<1>12. CASE s.write_state \notin {2, 3, 4}
  <2>1. Pit!Put(c, Pit!LoadCount(s, val))  BY <1>1, <1>3, <1>12
  <2>2. Fits(Pit!LoadCount(s, val))  BY <1>4, <1>5, <1>8, FitsLoaded
  <2> QED  BY <1>2, <2>1, <2>2, FitsPut
<1> QED  BY <1>9, <1>10, <1>11, <1>12

LEMMA FitsReadCounter ==
  ASSUME PitAssumed, PitNumbers, PitInv, PitFits, Pit!ReadCounter
  PROVE  PitFits'
<1>1. PICK c \in Readers :
        CASE pit[c].status_latched ->
                Pit!Put(c, [pit[c] EXCEPT !.status_latched = FALSE, !.status = FALSE])
                /\ UNCHANGED latch_read
           [] ~pit[c].status_latched /\ pit[c].count_latched # 0 ->
                /\ Pit!Put(c, [pit[c] EXCEPT !.count_latched = Pit!AfterLatch(pit[c])])
                /\ latch_read' = [latch_read EXCEPT ![c] =
                     IF pit[c].count_latched = 3 THEN pit[c].latched_count % PitByte ELSE -1]
           [] OTHER ->
                /\ Pit!Put(c, [pit[c] EXCEPT !.read_state = CASE @ = 3 -> 4 [] @ = 4 -> 3 [] OTHER -> @])
                /\ UNCHANGED latch_read
  BY DEF Pit!ReadCounter
<1>2. c \in Channels /\ uticks' = uticks  BY DEF PitAssumed, Pit!ReadCounter
<1>3. PICK s : s = pit[c]  OBVIOUS
<1>4. IsCounter(s) /\ Fits(s)  BY <1>2, <1>3 DEF PitInv, PitFits
<1>5. CASE s.status_latched
  <2>1. Pit!Put(c, [s EXCEPT !.status_latched = FALSE, !.status = FALSE])  BY <1>1, <1>3, <1>5
  <2>2. Fits([s EXCEPT !.status_latched = FALSE, !.status = FALSE])
    BY <1>4 DEF IsCounter, Fits, Fields
  <2> QED  BY <1>2, <2>1, <2>2, FitsPut
<1>6. CASE ~s.status_latched /\ s.count_latched # 0
  <2>1. PICK a \in 0 .. 3 : a = Pit!AfterLatch(s)  BY DEF Pit!AfterLatch
  <2>2. Pit!Put(c, [s EXCEPT !.count_latched = a])  BY <1>1, <1>3, <1>6, <2>1
  <2>3. Fits([s EXCEPT !.count_latched = a])  BY <1>4 DEF IsCounter, Fits, Fields
  <2> QED  BY <1>2, <2>2, <2>3, FitsPut
<1>7. CASE ~s.status_latched /\ s.count_latched = 0
  <2>1. PICK r \in 0 .. 4 :
          r = CASE s.read_state = 3 -> 4 [] s.read_state = 4 -> 3 [] OTHER -> s.read_state
    BY <1>4 DEF Fits
  <2>2. Pit!Put(c, [s EXCEPT !.read_state = r])  BY <1>1, <1>3, <1>7, <2>1
  <2>3. Fits([s EXCEPT !.read_state = r])  BY <1>4 DEF IsCounter, Fits, Fields
  <2> QED  BY <1>2, <2>2, <2>3, FitsPut
<1> QED  BY <1>5, <1>6, <1>7

LEMMA FitsStarts == ASSUME PitAssumed, PitNumbers, Pit!Init PROVE PitFits
<1>1. PICK f \in Nat \ {0} : f = PitByte * PitByte  BY PitFull
<1>2. \A c \in Channels : /\ pit[c].count = f /\ pit[c].latched_count = 0 /\ pit[c].count_latched = 0
                          /\ pit[c].rw_mode = 0 /\ pit[c].read_state = 0 /\ pit[c].write_state = 0
                          /\ pit[c].write_latch = 0 /\ pit[c].count_load_time = 0
                          /\ pit[c].last_irq_count = 0
  BY <1>1 DEF Pit!Init, Pit!FullCount
<1>3. PICK b \in Nat \ {0} : b = PitByte  BY DEF PitAssumed
<1>4. PICK w \in Nat \ {0} : w = Word  BY DEF PitNumbers
<1>5. 0 \in 0 .. b - 1 /\ 0 \in 0 .. w - 1 /\ 0 \in 0 .. f - 1 /\ f \in 1 .. f  OBVIOUS
<1>6. uticks = 0  BY DEF Pit!Init
<1> QED  BY <1>1, <1>2, <1>3, <1>4, <1>5, <1>6 DEF PitFits, Fits

LEMMA FitsSteps ==
  ASSUME PitAssumed, PitNumbers, PitInv, PitFits, [Pit!Next]_Pit!pitVars
  PROVE  PitFits'
<1>1. ASSUME Pit!WriteControl PROVE PitFits'
  <2>1. PICK c \in Channels, a \in Accesses, m \in Modes :
          /\ Pit!Put(c, [pit[c] EXCEPT !.rw_mode = a, !.read_state = a, !.write_state = a, !.mode = m])
          /\ UNCHANGED uticks
    BY <1>1 DEF Pit!WriteControl
  <2>2. a \in 1 .. 3  BY DEF PitNumbers
  <2>3. PICK s : s = pit[c]  OBVIOUS
  <2>4. Fits([s EXCEPT !.rw_mode = a, !.read_state = a, !.write_state = a, !.mode = m])
    BY <2>2, <2>3 DEF PitInv, PitFits, IsCounter, Fits, Fields
  <2> QED  BY <2>1, <2>3, <2>4, FitsPut
<1>2. ASSUME Pit!LatchCommand PROVE PitFits'
  <2>1. PICK c \in Readers : Pit!Put(c, Pit!Latch(pit[c])) /\ UNCHANGED uticks
    BY <1>2 DEF Pit!LatchCommand
  <2>2. c \in Channels  BY DEF PitAssumed
  <2>3. Fits(Pit!Latch(pit[c]))  BY <2>2, FitsLatched DEF PitInv, PitFits
  <2> QED  BY <2>1, <2>2, <2>3, FitsPut
<1>3. ASSUME Pit!SetGate PROVE PitFits'
  <2>1. PICK val \in BOOLEAN :
      Pit!Put(2, [pit[2] EXCEPT !.gate = val,
                    !.count_load_time = IF pit[2].mode \in {1, 2, 3, 5} /\ val /\ ~pit[2].gate
                                        THEN uticks ELSE @])
    BY <1>3 DEF Pit!SetGate
  <2>2. 2 \in Channels /\ UNCHANGED uticks  BY <1>3 DEF Pit!SetGate
  <2>3. PICK s : s = pit[2]  OBVIOUS
  <2>4. IsCounter(s) /\ Fits(s)  BY <2>2, <2>3 DEF PitInv, PitFits
  <2>5. PICK n \in Int : n = IF s.mode \in {1, 2, 3, 5} /\ val /\ ~s.gate
                             THEN uticks ELSE s.count_load_time
    BY <2>4 DEF Fits, PitFits, PitNumbers
  <2>6. Pit!Put(2, [s EXCEPT !.gate = val, !.count_load_time = n])  BY <2>1, <2>3, <2>5
  <2>7. Fits([s EXCEPT !.gate = val, !.count_load_time = n])  BY <2>4 DEF IsCounter, Fits, Fields
  <2> QED  BY <2>2, <2>6, <2>7, FitsPut
<1>4. ~Pit!UpdateIrq  BY DEF Pit!UpdateIrq, PitNumbers
<1>5. ASSUME Pit!Pass PROVE PitFits'
  <2>1. PICK n \in Int : uticks' = (uticks + n) % Word  BY <1>5 DEF Pit!Pass, PitNumbers
  <2>2. PICK w \in Nat \ {0} : w = Word  BY DEF PitNumbers
  <2>3. PICK u \in Int : u = uticks + n  BY <2>2 DEF PitFits
  <2>4. u % w \in 0 .. w - 1  OBVIOUS
  <2>5. uticks' \in 0 .. Word - 1  BY <2>1, <2>2, <2>3, <2>4
  <2> QED  BY <1>5, <2>5 DEF PitFits, Fits, Pit!Pass
<1>6. ASSUME UNCHANGED Pit!pitVars PROVE PitFits'  BY <1>6 DEF Pit!pitVars, PitFits, Fits
<1> QED  BY <1>1, <1>2, <1>3, <1>4, <1>5, <1>6, FitsReadBack, FitsWriteCounter, FitsReadCounter
         DEF Pit!Next

(* Of counters other than channel 0 the guest reads whole words, in all     *)
(* modes, accesses and orders of commands (i8254_ioport_read).              *)
THEOREM CountersRead == PitAssumed /\ PitNumbers => (PitSpec => []Pit!TimerRight)
<1> SUFFICES ASSUME PitAssumed, PitNumbers PROVE PitSpec => []Pit!TimerRight  OBVIOUS
<1>1. Pit!Init => PitInv /\ PitFits  BY PitStarts, FitsStarts
<1>2. PitInv /\ PitFits /\ [Pit!Next]_Pit!pitVars => (PitInv /\ PitFits)'  BY PitSteps, FitsSteps
<1>3. PitInv /\ PitFits => Pit!TimerRight
  <2> SUFFICES ASSUME PitInv, PitFits PROVE Pit!TimerRight  OBVIOUS
  <2>1. Pit!NoEarlyTick /\ Pit!NoTickLost  BY DEF Pit!NoEarlyTick, Pit!NoTickLost, PitNumbers
  <2>2. Pit!WordWhole  BY DEF PitInv
  <2>3. ASSUME NEW c \in Channels
        PROVE  /\ Fits(pit[c]) /\ Pit!GetCount(pit[c]) \in 0 .. PitByte * PitByte
    BY PitCount DEF PitFits
  <2>4. Pit!TypeOK  BY <2>3 DEF Pit!TypeOK, Pit!FullCount, PitFits, Fits
  <2> QED  BY <2>1, <2>2, <2>4 DEF Pit!TimerRight
<1> QED  BY <1>1, <1>2, <1>3, PTL DEF PitSpec

-----------------------------------------------------------------------------
(* Channel 0 of the timer, whose program keeps it in modes 2 and 3.         *)
ClockSpec == Clock!Init /\ [][Clock!Next]_Clock!pitVars

(* A count is at most a quarter of the period of the clock; of ticks there  *)
(* are as many as microseconds, and not half as many again.                 *)
ClockAssumed ==
  /\ ClockByte \in Nat \ {0} /\ ClockWord \in Nat \ {0} /\ ClockWord % 4 = 0
  /\ 4 * (ClockByte * ClockByte) <= ClockWord
  /\ ClockNum \in Nat /\ ClockDen \in Nat \ {0}
  /\ ClockDen <= ClockNum /\ 2 * ClockNum <= 3 * ClockDen
  /\ ClockAccesses \subseteq 1 .. 3 /\ ClockSteps \subseteq Nat

ClockCounters ==
  [count : 1 .. ClockByte * ClockByte, latched_count : {0}, count_latched : {0},
   status_latched : BOOLEAN, status : BOOLEAN, read_state : 0 .. 4, write_state : 0 .. 4,
   write_latch : 0 .. ClockByte - 1, rw_mode : 0 .. 3, mode : {2, 3}, gate : BOOLEAN,
   count_load_time : 0 .. ClockWord - 1, last_irq_count : 0 .. ClockWord - 1]

(* The counter's own clock says how long ago it was loaded, its interrupts  *)
(* are counted by last_irq_count, and they are less than a quarter of the   *)
(* clock's period behind.                                                   *)
ClockTyped ==
  /\ pit \in [{0} -> ClockCounters]
  /\ uticks \in 0 .. ClockWord - 1 /\ elapsed \in Nat /\ fired \in Nat
  /\ latch_read = [c \in {0} |-> -1]

Steady(s, now, since, done) ==
  LET total == Clock!Total(since)
  IN /\ Rem(now - s.count_load_time, ClockWord) = since
     /\ done * s.count = s.last_irq_count
     /\ 4 * s.last_irq_count <= 3 * ClockWord
     /\ s.last_irq_count <= total /\ 4 * total < 4 * s.last_irq_count + ClockWord

ClockInv == ClockTyped /\ Steady(pit[0], uticks, elapsed, fired)

LEMMA ClockQuarter ==
  ClockAssumed => \E q \in Nat \ {0} : /\ ClockWord = 4 * q /\ ClockWord \div 4 = q
                                       /\ ClockWord \div 2 = 2 * q
                                       /\ ClockByte * ClockByte \in 1 .. q
<1> SUFFICES ASSUME ClockAssumed PROVE \E q \in Nat \ {0} :
      /\ ClockWord = 4 * q /\ ClockWord \div 4 = q
      /\ ClockWord \div 2 = 2 * q
      /\ ClockByte * ClockByte \in 1 .. q  OBVIOUS
<1>1. PICK w \in Nat \ {0} : w = ClockWord  BY DEF ClockAssumed
<1>2. w % 4 = 0  BY <1>1 DEF ClockAssumed
<1> PICK q \in Int : q = w \div 4  OBVIOUS
<1>3. w = 4 * q /\ q \in Nat \ {0} /\ w \div 2 = 2 * q /\ w \div 4 = q  BY <1>2
<1>4. PICK b \in Nat \ {0} : b = ClockByte  BY DEF ClockAssumed
<1>5. b * b \in Nat /\ b * b >= 1  OBVIOUS
<1>6. 4 * (b * b) <= w  BY <1>1, <1>4 DEF ClockAssumed
<1>7. b * b \in 1 .. q  BY <1>3, <1>5, <1>6
<1> QED  BY <1>1, <1>3, <1>4, <1>7

(* Ticks are as many as microseconds and up to half as many more.           *)
LEMMA ClockTotal ==
  ASSUME ClockAssumed, NEW m \in Nat
  PROVE  /\ Clock!Total(m) \in Nat /\ m <= Clock!Total(m) /\ 2 * Clock!Total(m) <= 3 * m
         /\ \A n \in Nat : m <= n => Clock!Total(m) <= Clock!Total(n)
<1>1. PICK d \in Nat \ {0} : d = ClockDen  BY DEF ClockAssumed
<1>2. PICK u \in Nat : u = ClockNum  BY DEF ClockAssumed
<1>3. d <= u /\ 2 * u <= 3 * d  BY <1>1, <1>2 DEF ClockAssumed
<1>4. ASSUME NEW n \in Nat
      PROVE  /\ Clock!Total(n) \in Int
             /\ d * Clock!Total(n) <= n * u /\ n * u < d * Clock!Total(n) + d
  <2> PICK x \in Int : x = n * u  OBVIOUS
  <2>1. PICK q \in Int : q = x \div d  OBVIOUS
  <2>2. x \div d \in Int /\ x = (d * (x \div d)) + (x % d) /\ x % d \in 0 .. d - 1  OBVIOUS
  <2>3. d * q <= x /\ x < d * q + d
    <3> PICK r \in 0 .. d - 1 : r = x % d  BY <2>2
    <3>1. x = d * q + r  BY <2>1, <2>2
    <3>2. d * q \in Int  OBVIOUS
    <3> QED  BY <3>1, <3>2
  <2>4. Clock!Total(n) = q  BY <1>1, <1>2, <2>1 DEF Clock!Total
  <2> QED  BY <2>3, <2>4
<1>5. PICK t \in Int : t = Clock!Total(m)  BY <1>4
<1>6. d * t <= m * u /\ m * u < d * t + d  BY <1>4, <1>5
<1>7. m <= t
  <2>1. m * d <= m * u  BY <1>3
  <2>2. d * m = m * d /\ m * d \in Int /\ m * u \in Int /\ d * t \in Int  OBVIOUS
  <2>3. d * m < d * t + d  BY <1>6, <2>1, <2>2
  <2>4. m \in Int  OBVIOUS
  <2> QED  BY <2>3, <2>4, SmallerQuotient
<1>8. 2 * t <= 3 * m
  <2>1. m * (2 * u) <= m * (3 * d)  BY <1>3
  <2>2. m * (2 * u) = 2 * (m * u) /\ m * (3 * d) = d * (3 * m) /\ d * (2 * t) = 2 * (d * t)  OBVIOUS
  <2>3. m * u \in Int /\ d * t \in Int /\ d * (3 * m) \in Int /\ d * (2 * t) \in Int  OBVIOUS
  <2>4. d * (2 * t) < d * (3 * m) + d  BY <1>6, <2>1, <2>2, <2>3
  <2>5. 2 * t \in Int /\ 3 * m \in Int  OBVIOUS
  <2> QED  BY <2>4, <2>5, SmallerQuotient, Zenon
<1>9. ASSUME NEW n \in Nat, m <= n PROVE t <= Clock!Total(n)
  <2>1. PICK z \in Int : z = Clock!Total(n)  BY <1>4
  <2>2. n * u < d * z + d  BY <1>4, <2>1
  <2>3. m * u <= n * u /\ m * u \in Int /\ n * u \in Int /\ d * t \in Int /\ d * z \in Int  BY <1>9
  <2>4. d * t < d * z + d  BY <1>6, <2>2, <2>3
  <2> QED  BY <2>1, <2>4, SmallerQuotient
<1> QED  BY <1>5, <1>7, <1>8, <1>9

LEMMA ClockZero == ClockAssumed => Clock!Total(0) = 0
<1> SUFFICES ASSUME ClockAssumed PROVE Clock!Total(0) = 0  OBVIOUS
<1>1. 0 \in Nat  OBVIOUS
<1>2. Clock!Total(0) \in Nat /\ 2 * Clock!Total(0) <= 3 * 0  BY <1>1, ClockTotal
<1> QED  BY <1>2

(* A counter just loaded is steady.                                         *)
LEMMA ClockFresh ==
  ASSUME ClockAssumed, NEW s \in ClockCounters, NEW now \in 0 .. ClockWord - 1,
         s.count_load_time = now, s.last_irq_count = 0
  PROVE  Steady(s, now, 0, 0)
<1>1. PICK q \in Nat \ {0} : ClockWord = 4 * q  BY ClockQuarter
<1> PICK w \in Nat \ {0} : w = ClockWord  BY <1>1
<1>2. now - s.count_load_time = 0 /\ 0 \in 0 .. w - 1  OBVIOUS
<1>3. Rem(0, w) = 0  BY <1>2, Small
<1>4. Rem(now - s.count_load_time, ClockWord) = 0  BY <1>2, <1>3
<1>5. 0 * s.count = 0  BY ClockQuarter DEF ClockCounters, ClockAssumed
<1>6. Clock!Total(0) = 0  BY ClockZero
<1> QED  BY <1>1, <1>4, <1>5, <1>6 DEF Steady

LEMMA ClockStarts == ClockAssumed /\ Clock!Init => ClockInv
<1> SUFFICES ASSUME ClockAssumed, Clock!Init PROVE ClockInv  OBVIOUS
<1>1. PICK q \in Nat \ {0} : ClockWord = 4 * q /\ ClockByte * ClockByte \in 1 .. q
  BY ClockQuarter
<1>2. PICK f \in 1 .. q : f = ClockByte * ClockByte  BY <1>1
<1> DEFINE s == [count |-> f, latched_count |-> 0, count_latched |-> 0,
                 status_latched |-> FALSE, status |-> FALSE,
                 read_state |-> 0, write_state |-> 0, write_latch |-> 0,
                 rw_mode |-> 0, mode |-> 3, gate |-> TRUE,
                 count_load_time |-> 0, last_irq_count |-> 0]
<1>3. pit = [c \in {0} |-> s]
  <2>1. f = Clock!FullCount  BY <1>2 DEF Clock!FullCount
  <2>2. pit = [c \in {0} |-> [count |-> f, latched_count |-> 0, count_latched |-> 0,
                 status_latched |-> FALSE, status |-> FALSE,
                 read_state |-> 0, write_state |-> 0, write_latch |-> 0,
                 rw_mode |-> 0, mode |-> 3, gate |-> c # 2,
                 count_load_time |-> 0, last_irq_count |-> 0]]
    BY <2>1 DEF Clock!Init
  <2>3. \A c \in {0} : (c # 2) = TRUE  OBVIOUS
  <2> QED  BY <2>2, <2>3
<1>4. ClockByte \in Nat \ {0}  BY DEF ClockAssumed
<1>5. 0 \in 0 .. ClockByte - 1 /\ 0 \in 0 .. ClockWord - 1 /\ f \in 1 .. ClockByte * ClockByte
  <2> PICK b \in Nat \ {0} : b = ClockByte  BY <1>4
  <2> PICK w \in Nat \ {0} : w = ClockWord  BY <1>1
  <2>1. 0 \in 0 .. b - 1 /\ 0 \in 0 .. w - 1  OBVIOUS
  <2> QED  BY <1>2, <2>1
<1>6. s \in ClockCounters  BY <1>5 DEF ClockCounters
<1>7. s.count_load_time = 0 /\ s.last_irq_count = 0  OBVIOUS
<1> HIDE DEF s
<1>8. /\ uticks = 0 /\ elapsed = 0 /\ fired = 0 /\ latch_read = [c \in {0} |-> -1]
  BY DEF Clock!Init
<1>9. pit[0] = s /\ pit \in [{0} -> ClockCounters]  BY <1>3, <1>6
<1>10. Steady(s, 0, 0, 0)  BY <1>5, <1>6, <1>7, ClockFresh
<1> QED  BY <1>5, <1>8, <1>9, <1>10 DEF ClockInv, ClockTyped

(* A counter is due when a period and more has passed since its last        *)
(* interrupt: ticks and interrupts are small enough for the sign of their   *)
(* difference.                                                              *)
LEMMA ClockDue ==
  ASSUME ClockAssumed, ClockInv
  PROVE  /\ Clock!Since(pit[0].count_load_time) = elapsed
         /\ Clock!Due(pit[0]) <=> pit[0].last_irq_count + pit[0].count < Clock!Total(elapsed)
         /\ Clock!Total(elapsed) < ClockWord /\ elapsed < ClockWord
<1>1. PICK q \in Nat \ {0} : /\ ClockWord = 4 * q /\ ClockWord \div 2 = 2 * q
                             /\ ClockByte * ClockByte \in 1 .. q
  BY ClockQuarter
<1>2. PICK w \in Nat \ {0} : w = ClockWord  BY <1>1
<1>3. pit[0] \in ClockCounters /\ elapsed \in Nat /\ uticks \in Int  BY <1>1 DEF ClockInv, ClockTyped
<1>4. PICK s \in ClockCounters : s = pit[0]  BY <1>3
<1>5. /\ s.count \in 1 .. q /\ s.last_irq_count \in Nat /\ s.count_load_time \in Int
  BY <1>1 DEF ClockCounters
<1>6. PICK count \in 1 .. q : count = s.count  BY <1>5
<1>7. PICK last \in Nat : last = s.last_irq_count  BY <1>5
<1>8. PICK total \in Nat : total = Clock!Total(elapsed)  BY <1>3, ClockTotal
<1>9. elapsed <= total  BY <1>3, <1>8, ClockTotal
<1>10. /\ Rem(uticks - s.count_load_time, w) = elapsed
       /\ 4 * last <= 3 * w /\ last <= total /\ 4 * total < 4 * last + w
  BY <1>2, <1>4, <1>7, <1>8 DEF ClockInv, Steady
<1>11. total < w /\ elapsed < w /\ w = 4 * q  BY <1>1, <1>2, <1>3, <1>9, <1>10
<1>12. Clock!Since(s.count_load_time) = elapsed  BY <1>2, <1>10 DEF Clock!Since, Rem
<1>13. Clock!Ticks(elapsed) = total
  <2>1. Clock!Ticks(elapsed) = Rem(Clock!Total(elapsed), w)
    BY <1>2 DEF Clock!Ticks, Clock!Total, Rem
  <2>2. total \in 0 .. w - 1  BY <1>11
  <2> QED  BY <2>1, <2>2, <1>8, Small
<1>14. PICK x \in Int : x = last + count - total  OBVIOUS
<1>15. Clock!Due(s) <=> Rem(x, w) >= 2 * q
  <2>1. Clock!Due(s) <=> (last + count - total) % w >= 2 * q
    BY <1>1, <1>2, <1>6, <1>7, <1>12, <1>13 DEF Clock!Due
  <2> QED  BY <2>1, <1>14 DEF Rem
<1>16. CASE x >= 0
  <2>1. x \in 0 .. w - 1 /\ x < 2 * q  BY <1>10, <1>11, <1>14, <1>16
  <2>2. Rem(x, w) = x  BY <2>1, Small
  <2> QED  BY <1>2, <1>4, <1>6, <1>7, <1>8, <1>11, <1>12, <1>14, <1>15, <1>16, <2>1, <2>2
<1>17. CASE x < 0
  <2>1. PICK y \in Int : y = x + w  OBVIOUS
  <2>2. y \in 0 .. w - 1 /\ y >= 2 * q  BY <1>10, <1>11, <1>14, <1>17, <2>1
  <2>3. PICK one \in Int : one = 1  OBVIOUS
  <2>4. y = x + w * one  BY <2>1, <2>3
  <2>5. Rem(y, w) = Rem(x, w)  BY <2>4, Modulo, Zenon
  <2>6. Rem(x, w) = y  BY <2>2, <2>5, Small
  <2> QED  BY <1>2, <1>4, <1>6, <1>7, <1>8, <1>11, <1>12, <1>14, <1>15, <1>17, <2>2, <2>6
<1> QED  BY <1>14, <1>16, <1>17

LEMMA ClockPut ==
  ASSUME ClockInv, NEW t \in ClockCounters, Clock!Put(0, t), UNCHANGED latch_read,
         uticks' \in 0 .. ClockWord - 1, elapsed' \in Nat, fired' \in Nat,
         Steady(t, uticks', elapsed', fired')
  PROVE  ClockInv'
<1>1. pit' = [pit EXCEPT ![0] = t]  BY DEF Clock!Put
<1>2. pit' \in [{0} -> ClockCounters] /\ pit'[0] = t  BY <1>1 DEF ClockInv, ClockTyped
<1>3. Steady(pit[0], uticks, elapsed, fired)' <=> Steady(pit'[0], uticks', elapsed', fired')
  BY DEF Steady, Clock!Total
<1> QED  BY <1>2, <1>3 DEF ClockInv, ClockTyped

(* A counter that goes on as it was. *)
Alike(s, t) ==
  /\ t \in ClockCounters /\ t.count = s.count
  /\ t.count_load_time = s.count_load_time /\ t.last_irq_count = s.last_irq_count

LEMMA ClockWriteControl == ASSUME ClockAssumed, ClockInv, Clock!WriteControl PROVE ClockInv'
<1>1. PICK a \in ClockAccesses, m \in {2, 3} :
        /\ Clock!Put(0, [pit[0] EXCEPT !.rw_mode = a, !.read_state = a, !.write_state = a, !.mode = m])
        /\ UNCHANGED <<uticks, latch_read, elapsed, fired>>
  BY DEF Clock!WriteControl, Clock!Unloaded
<1>2. PICK s \in ClockCounters : s = pit[0]  BY DEF ClockInv, ClockTyped
<1> DEFINE t == [s EXCEPT !.rw_mode = a, !.read_state = a, !.write_state = a, !.mode = m]
<1>3. a \in 1 .. 3  BY DEF ClockAssumed
<1>4. /\ t \in ClockCounters /\ t.count = s.count
      /\ t.count_load_time = s.count_load_time /\ t.last_irq_count = s.last_irq_count
  <2> DEFINE s1 == [s EXCEPT !.rw_mode = a]
             s2 == [s1 EXCEPT !.read_state = a]
             s3 == [s2 EXCEPT !.write_state = a]
             s4 == [s3 EXCEPT !.mode = m]
  <2>1. Alike(s, s1)  BY <1>3 DEF ClockCounters, Alike
  <2> HIDE DEF s1
  <2>2. Alike(s, s2)  BY <1>3, <2>1 DEF ClockCounters, Alike
  <2> HIDE DEF s2
  <2>3. Alike(s, s3)  BY <1>3, <2>2 DEF ClockCounters, Alike
  <2> HIDE DEF s3
  <2>4. Alike(s, s4)  BY <2>3 DEF ClockCounters, Alike
  <2>5. t = s4  BY DEF s1, s2, s3, Zenon
  <2> QED  BY <2>4, <2>5 DEF Alike
<1>5. Clock!Put(0, t)  BY <1>1, <1>2
<1> HIDE DEF t
<1>6. Steady(t, uticks, elapsed, fired)  BY <1>2, <1>4 DEF ClockInv, Steady
<1>7. uticks \in 0 .. ClockWord - 1 /\ elapsed \in Nat /\ fired \in Nat  BY DEF ClockInv, ClockTyped
<1> QED  BY <1>1, <1>4, <1>5, <1>6, <1>7, ClockPut

LEMMA ClockLoaded ==
  ASSUME ClockAssumed, ClockInv, NEW t \in ClockCounters,
         t.count_load_time = uticks, t.last_irq_count = 0,
         Clock!Put(0, t), Clock!Loaded(0), UNCHANGED <<uticks, latch_read>>
  PROVE  ClockInv'
<1>1. uticks \in 0 .. ClockWord - 1  BY DEF ClockInv, ClockTyped
<1>2. elapsed' = 0 /\ fired' = 0 /\ uticks' = uticks  BY DEF Clock!Loaded
<1>3. Steady(t, uticks, 0, 0)  BY <1>1, ClockFresh
<1> QED  BY <1>1, <1>2, <1>3, ClockPut

(* What a counter is when loaded. *)
LEMMA ClockLoad ==
  ASSUME ClockAssumed, ClockInv, NEW s \in ClockCounters, NEW val \in 0 .. ClockByte * ClockByte
  PROVE  LET t == Clock!LoadCount(s, val)
         IN t \in ClockCounters /\ t.count_load_time = uticks /\ t.last_irq_count = 0
<1>1. PICK q \in Nat \ {0} : ClockWord = 4 * q /\ ClockByte * ClockByte \in 1 .. q  BY ClockQuarter
<1>2. PICK f \in 1 .. q : f = ClockByte * ClockByte  BY <1>1
<1>3. uticks \in 0 .. ClockWord - 1  BY DEF ClockInv, ClockTyped
<1>4. PICK c \in 1 .. f : c = IF val = 0 THEN f ELSE val  BY <1>2
<1>5. Clock!LoadCount(s, val) = [s EXCEPT !.count = c, !.count_load_time = uticks, !.last_irq_count = 0]
  BY <1>2, <1>4 DEF Clock!LoadCount, Clock!FullCount
<1>6. 0 \in 0 .. ClockWord - 1  BY <1>1
<1> QED  BY <1>2, <1>3, <1>5, <1>6 DEF ClockCounters

LEMMA ClockWriteCounter == ASSUME ClockAssumed, ClockInv, Clock!WriteCounter PROVE ClockInv'
<1>1. PICK s \in ClockCounters : s = pit[0]  BY DEF ClockInv, ClockTyped
<1>2. PICK b \in Nat \ {0} : b = ClockByte  BY DEF ClockAssumed
<1>3. PICK val \in 0 .. b - 1 :
        CASE s.write_state = 3 ->
               Clock!Put(0, [s EXCEPT !.write_latch = val, !.write_state = 4]) /\ Clock!Unloaded
          [] s.write_state = 4 ->
               /\ Clock!Put(0, [Clock!LoadCount(s, s.write_latch + ClockByte * val)
                                  EXCEPT !.write_state = 3, !.write_latch = 0])
               /\ Clock!Loaded(0)
          [] s.write_state = 2 -> Clock!Put(0, Clock!LoadCount(s, ClockByte * val)) /\ Clock!Loaded(0)
          [] OTHER -> Clock!Put(0, Clock!LoadCount(s, val)) /\ Clock!Loaded(0)
  <2>1. PICK c \in {0}, val \in 0 .. ClockByte - 1 :
          CASE pit[c].write_state = 3 ->
                 Clock!Put(c, [pit[c] EXCEPT !.write_latch = val, !.write_state = 4]) /\ Clock!Unloaded
            [] pit[c].write_state = 4 ->
                 /\ Clock!Put(c, [Clock!LoadCount(pit[c], pit[c].write_latch + ClockByte * val)
                                    EXCEPT !.write_state = 3, !.write_latch = 0])
                 /\ Clock!Loaded(c)
            [] pit[c].write_state = 2 ->
                 Clock!Put(c, Clock!LoadCount(pit[c], ClockByte * val)) /\ Clock!Loaded(c)
            [] OTHER -> Clock!Put(c, Clock!LoadCount(pit[c], val)) /\ Clock!Loaded(c)
    BY DEF Clock!WriteCounter
  <2>2. c = 0 /\ val \in 0 .. b - 1  BY <1>2
  <2> QED  BY <1>1, <2>1, <2>2, Zenon
<1>4. UNCHANGED <<uticks, latch_read>>  BY DEF Clock!WriteCounter
<1>5. s.write_latch \in 0 .. b - 1  BY <1>2 DEF ClockCounters
<1>6. PICK latch \in 0 .. b - 1 : latch = s.write_latch  BY <1>5
<1>7. b * b \in Nat /\ b * b >= 1  OBVIOUS
<1>8. latch + b * val \in 0 .. b * b /\ b * val \in 0 .. b * b /\ val \in 0 .. b * b
  <2>1. b * val <= b * (b - 1) /\ b * val \in Nat /\ b * (b - 1) = b * b - b  OBVIOUS
  <2>2. val <= b * b  OBVIOUS
  <2> QED  BY <1>7, <2>1, <2>2
<1>9. ASSUME NEW v \in 0 .. b * b, Clock!Put(0, Clock!LoadCount(s, v)), Clock!Loaded(0) PROVE ClockInv'
  <2> DEFINE t == Clock!LoadCount(s, v)
  <2>1. t \in ClockCounters /\ t.count_load_time = uticks /\ t.last_irq_count = 0
    BY <1>2, ClockLoad
  <2>2. Clock!Put(0, t)  BY <1>9
  <2> HIDE DEF t
  <2> QED  BY <1>4, <1>9, <2>1, <2>2, ClockLoaded
<1>10. CASE s.write_state = 3
  <2> DEFINE t == [s EXCEPT !.write_latch = val, !.write_state = 4]
  <2>1. Clock!Put(0, t) /\ Clock!Unloaded  BY <1>3, <1>10
  <2>2. /\ t \in ClockCounters /\ t.count = s.count
        /\ t.count_load_time = s.count_load_time /\ t.last_irq_count = s.last_irq_count
    <3> DEFINE s1 == [s EXCEPT !.write_latch = val]
               s2 == [s1 EXCEPT !.write_state = 4]
    <3>1. Alike(s, s1)  BY <1>2 DEF ClockCounters, Alike
    <3> HIDE DEF s1
    <3>2. Alike(s, s2)  BY <3>1 DEF ClockCounters, Alike
    <3>3. t = s2  BY DEF s1, Zenon
    <3> QED  BY <3>2, <3>3 DEF Alike
  <2> HIDE DEF t
  <2>3. Steady(t, uticks, elapsed, fired)  BY <1>1, <2>2 DEF ClockInv, Steady
  <2>4. uticks \in 0 .. ClockWord - 1 /\ elapsed \in Nat /\ fired \in Nat
        /\ UNCHANGED <<elapsed, fired>>
    BY <2>1 DEF ClockInv, ClockTyped, Clock!Unloaded
  <2> QED  BY <1>4, <2>1, <2>2, <2>3, <2>4, ClockPut
<1>11. CASE s.write_state = 4
  <2>1. PICK v \in 0 .. b * b : v = latch + b * val  BY <1>8
  <2> DEFINE u == Clock!LoadCount(s, v)
             t == [u EXCEPT !.write_state = 3, !.write_latch = 0]
  <2>2. Clock!Put(0, t) /\ Clock!Loaded(0)  BY <1>2, <1>3, <1>6, <1>11, <2>1
  <2>3. u \in ClockCounters /\ u.count_load_time = uticks /\ u.last_irq_count = 0
    BY <1>2, ClockLoad
  <2> HIDE DEF u
  <2>4. 0 \in 0 .. b - 1  OBVIOUS
  <2>5. t \in ClockCounters /\ t.count_load_time = uticks /\ t.last_irq_count = 0
    <3> DEFINE u1 == [u EXCEPT !.write_state = 3]
               u2 == [u1 EXCEPT !.write_latch = 0]
    <3>1. Alike(u, u1)  BY <2>3 DEF ClockCounters, Alike
    <3> HIDE DEF u1
    <3>2. Alike(u, u2)  BY <1>2, <2>4, <3>1 DEF ClockCounters, Alike
    <3>3. t = u2  BY DEF u1, Zenon
    <3> QED  BY <2>3, <3>2, <3>3 DEF Alike
  <2> HIDE DEF t
  <2> QED  BY <1>4, <2>2, <2>5, ClockLoaded
<1>12. CASE s.write_state = 2
  <2>1. PICK v \in 0 .. b * b : v = b * val  BY <1>8
  <2>2. Clock!Put(0, Clock!LoadCount(s, v)) /\ Clock!Loaded(0)  BY <1>2, <1>3, <1>12, <2>1
  <2> QED  BY <2>2, <1>9
<1>13. CASE s.write_state \notin {2, 3, 4}
  <2>1. Clock!Put(0, Clock!LoadCount(s, val)) /\ Clock!Loaded(0)  BY <1>3, <1>13
  <2> QED  BY <2>1, <1>8, <1>9
<1> QED  BY <1>10, <1>11, <1>12, <1>13

(* A period is served: its end is past.  A count loaded more than half a    *)
(* period of the clock ago begins again.                                    *)
LEMMA ClockUpdateIrq == ASSUME ClockAssumed, ClockInv, Clock!UpdateIrq PROVE ClockInv'
<1>1. PICK q \in Nat \ {0} : /\ ClockWord = 4 * q /\ ClockWord \div 2 = 2 * q
                             /\ ClockByte * ClockByte \in 1 .. q
  BY ClockQuarter
<1>2. PICK w \in Nat \ {0} : w = ClockWord  BY <1>1
<1>3. PICK s \in ClockCounters : s = pit[0]  BY DEF ClockInv, ClockTyped
<1>4. s.count \in 1 .. q /\ s.last_irq_count \in 0 .. w - 1  BY <1>1, <1>2 DEF ClockCounters
<1>5. PICK count \in 1 .. q : count = s.count  BY <1>4
<1>6. PICK last \in 0 .. w - 1 : last = s.last_irq_count  BY <1>4
<1>7. elapsed \in Nat /\ fired \in Nat /\ uticks \in 0 .. ClockWord - 1  BY DEF ClockInv, ClockTyped
<1>8. PICK total \in Nat : total = Clock!Total(elapsed)  BY <1>7, ClockTotal
<1>9. 2 * total <= 3 * elapsed  BY <1>7, <1>8, ClockTotal
<1>10. /\ Clock!Since(s.count_load_time) = elapsed /\ last + count < total /\ total < w
       /\ Clock!Put(0, Clock!Served(s)) /\ UNCHANGED <<uticks, latch_read>>
       /\ IF Clock!Served(s).last_irq_count = 0 THEN elapsed' = 0 /\ fired' = 0
          ELSE fired' = fired + 1 /\ UNCHANGED elapsed
  BY <1>2, <1>3, <1>5, <1>6, <1>8, ClockDue DEF Clock!UpdateIrq
<1>11. CASE elapsed > 2 * q
  <2> DEFINE t == Clock!LoadCount(s, s.count)
  <2>1. t = Clock!Served(s)  BY <1>1, <1>10, <1>11 DEF Clock!Served
  <2>2. PICK f \in 1 .. q : f = ClockByte * ClockByte  BY <1>1
  <2>3. s.count \in 0 .. ClockByte * ClockByte  BY <2>2 DEF ClockCounters
  <2>4. t \in ClockCounters /\ t.count_load_time = uticks /\ t.last_irq_count = 0
    BY <2>3, ClockLoad
  <2> HIDE DEF t
  <2>5. Clock!Put(0, t) /\ Clock!Loaded(0)  BY <1>10, <2>1, <2>4 DEF Clock!Loaded
  <2> QED  BY <1>10, <2>4, <2>5, ClockLoaded
<1>12. CASE ~(elapsed > 2 * q)
  <2>1. PICK n \in 1 .. w - 1 : n = last + count  BY <1>5, <1>6, <1>10
  <2>2. (last + count) % w = n
    <3>1. n \in 0 .. w - 1  OBVIOUS
    <3>2. Rem(n, w) = n  BY <3>1, Small
    <3> QED  BY <2>1, <3>2 DEF Rem
  <2> DEFINE t == [s EXCEPT !.last_irq_count = n]
  <2>3. t = Clock!Served(s)
    <3>1. ~(Clock!Since(s.count_load_time) > ClockWord \div 2)  BY <1>1, <1>10, <1>12
    <3>2. Clock!Served(s) = [s EXCEPT !.last_irq_count = (s.last_irq_count + s.count) % ClockWord]
      BY <3>1 DEF Clock!Served
    <3>3. (s.last_irq_count + s.count) % ClockWord = n  BY <1>2, <1>5, <1>6, <2>2
    <3> QED  BY <3>2, <3>3
  <2>4. /\ t \in ClockCounters /\ t.count = s.count
        /\ t.count_load_time = s.count_load_time /\ t.last_irq_count = n
    BY <1>2 DEF ClockCounters
  <2> HIDE DEF t
  <2>5. fired' = fired + 1 /\ elapsed' = elapsed /\ fired' \in Nat  BY <1>7, <1>10, <2>3, <2>4
  <2>6. fired' * t.count = n
    <3>1. (fired + 1) * count = fired * count + count  BY <1>7
    <3>2. fired * count = last  BY <1>3, <1>5, <1>6 DEF ClockInv, Steady
    <3> QED  BY <1>5, <2>1, <2>4, <2>5, <3>1, <3>2
  <2>7. 4 * n <= 3 * w /\ n <= total /\ 4 * total < 4 * n + w
    <3>1. 4 * total < 4 * last + w
      BY <1>2, <1>3, <1>6, <1>8 DEF ClockInv, Steady
    <3> QED  BY <1>1, <1>2, <1>7, <1>9, <1>10, <1>12, <2>1, <3>1
  <2>8. Rem(uticks - t.count_load_time, ClockWord) = elapsed
    BY <1>3, <2>4 DEF ClockInv, Steady
  <2>9. Steady(t, uticks', elapsed', fired')
    BY <1>2, <1>8, <1>10, <2>4, <2>5, <2>6, <2>7, <2>8 DEF Steady
  <2>10. Clock!Put(0, t)  BY <1>10, <2>3
  <2> QED  BY <1>7, <1>10, <2>4, <2>5, <2>9, <2>10, ClockPut
<1> QED  BY <1>11, <1>12

LEMMA ClockPass == ASSUME ClockAssumed, ClockInv, Clock!Pass PROVE ClockInv'
<1>1. PICK q \in Nat \ {0} : ClockWord = 4 * q /\ ClockWord \div 4 = q  BY ClockQuarter
<1>2. PICK w \in Nat \ {0} : w = ClockWord  BY <1>1
<1>3. PICK n \in ClockSteps :
        /\ Clock!Total(elapsed + n) - Clock!Served0 < ClockWord \div 4
        /\ uticks' = (uticks + n) % ClockWord /\ elapsed' = elapsed + n
        /\ UNCHANGED <<pit, fired, latch_read>>
  BY DEF Clock!Pass
<1>4. n \in Nat  BY DEF ClockAssumed
<1>5. PICK s \in ClockCounters : s = pit[0]  BY DEF ClockInv, ClockTyped
<1>6. elapsed \in Nat /\ fired \in Nat /\ uticks \in Int
      /\ s.last_irq_count \in 0 .. w - 1 /\ s.count_load_time \in Int
  BY <1>2 DEF ClockInv, ClockTyped, ClockCounters
<1>7. PICK last \in 0 .. w - 1 : last = s.last_irq_count  BY <1>6
<1>8. PICK e \in Nat : e = elapsed + n  BY <1>4, <1>6
<1>9. PICK total \in Nat : total = Clock!Total(e)  BY ClockTotal
<1>10. /\ Rem(uticks - s.count_load_time, w) = elapsed /\ fired * s.count = last
       /\ 4 * last <= 3 * w /\ last <= Clock!Total(elapsed)
  BY <1>2, <1>5, <1>7 DEF ClockInv, Steady
<1>11. total - last < q
  <2>1. Clock!Served0 = last  BY <1>5, <1>10 DEF Clock!Served0
  <2> QED  BY <1>1, <1>3, <1>8, <1>9, <2>1
<1>12. last <= total
  <2>1. PICK old \in Nat : old = Clock!Total(elapsed)  BY <1>6, ClockTotal
  <2>2. elapsed <= e  BY <1>4, <1>6, <1>8
  <2>3. old <= total  BY <1>6, <1>9, <2>1, <2>2, ClockTotal
  <2> QED  BY <1>10, <2>1, <2>3
<1>13. e <= total  BY <1>9, ClockTotal
<1>14. e \in 0 .. w - 1  BY <1>1, <1>2, <1>10, <1>11, <1>13
<1>15. Rem(uticks' - s.count_load_time, w) = e
  <2>1. PICK u \in Int : u = uticks + n  BY <1>4, <1>6
  <2>2. PICK t \in Int : t = s.count_load_time  BY <1>6
  <2>3. uticks' = Rem(u, w)  BY <1>2, <1>3, <2>1 DEF Rem
  <2>4. Rem(Rem(u, w) - t, w) = Rem(u - t, w)  BY EarlyLess
  <2>5. PICK d \in Int : d = uticks - t  BY <1>6
  <2>6. u - t = d + n  BY <1>4, <1>6, <2>1, <2>5
  <2>7. Rem(Rem(d, w) + n, w) = Rem(d + n, w)
    <3>1. n \in Int  BY <1>4
    <3> QED  BY <3>1, Early
  <2>8. Rem(d, w) = elapsed  BY <1>10, <2>2, <2>5
  <2>9. Rem(e, w) = e  BY <1>14, Small
  <2> QED  BY <1>8, <2>2, <2>3, <2>4, <2>6, <2>7, <2>8, <2>9
<1>16. uticks' \in 0 .. ClockWord - 1
  <2>1. PICK u \in Int : u = uticks + n  BY <1>4, <1>6
  <2>2. uticks' = Rem(u, w)  BY <1>2, <1>3, <2>1 DEF Rem
  <2> QED  BY <1>2, <2>2, InRange
<1>17. Steady(s, uticks', e, fired)
  BY <1>1, <1>2, <1>7, <1>9, <1>10, <1>11, <1>12, <1>15 DEF Steady
<1>18. Clock!Put(0, s)
  <2>1. pit = [pit EXCEPT ![0] = s]  BY <1>5 DEF ClockInv, ClockTyped
  <2> QED  BY <1>3, <2>1 DEF Clock!Put
<1> QED  BY <1>3, <1>6, <1>8, <1>16, <1>17, <1>18, ClockPut

LEMMA ClockKept ==
  ASSUME ClockInv, UNCHANGED <<pit, uticks, elapsed, fired, latch_read>>
  PROVE  ClockInv'
BY DEF ClockInv, ClockTyped, Steady, Clock!Total

LEMMA ClockKeeps ==
  ASSUME ClockAssumed, ClockInv, [Clock!Next]_Clock!pitVars
  PROVE  ClockInv'
<1>1. ~Clock!LatchCommand /\ ~Clock!ReadCounter /\ ~Clock!SetGate
  BY DEF Clock!LatchCommand, Clock!ReadCounter, Clock!SetGate
<1>2. CASE Clock!ReadBack
  <2>1. pit' = [c \in {0} |-> pit[c]]  BY <1>2 DEF Clock!ReadBack
  <2>2. pit' = pit  BY <2>1 DEF ClockInv, ClockTyped
  <2> QED  BY <1>2, <2>2, ClockKept DEF Clock!ReadBack, Clock!Unloaded
<1>3. CASE UNCHANGED Clock!pitVars  BY <1>3, ClockKept DEF Clock!pitVars
<1> QED  BY <1>1, <1>2, <1>3, ClockWriteControl, ClockWriteCounter, ClockUpdateIrq, ClockPass
         DEF Clock!Next

LEMMA ClockServes == ClockAssumed /\ ClockInv => Clock!TimerRight
<1> SUFFICES ASSUME ClockAssumed, ClockInv PROVE Clock!TimerRight  OBVIOUS
<1>1. PICK q \in Nat \ {0} : /\ ClockWord = 4 * q /\ ClockByte * ClockByte \in 1 .. q
  BY ClockQuarter
<1>2. PICK s \in ClockCounters : s = pit[0]  BY DEF ClockInv, ClockTyped
<1>3. PICK f \in 1 .. q : f = ClockByte * ClockByte  BY <1>1
<1>4. s.count \in 1 .. f /\ s.mode \in {2, 3} /\ s.last_irq_count \in Nat
  BY <1>1, <1>3 DEF ClockCounters
<1>5. PICK count \in 1 .. f : count = s.count  BY <1>4
<1>6. elapsed \in Nat  BY DEF ClockInv, ClockTyped
<1>7. PICK total \in Nat : total = Clock!Total(elapsed)  BY <1>6, ClockTotal
<1>8. Clock!GetCount(s) \in 0 .. f
  <2>1. Clock!Since(s.count_load_time) = elapsed  BY <1>2, ClockDue
  <2>2. PICK d \in Int : d = Clock!Ticks(elapsed)
    <3>1. PICK w \in Nat \ {0} : w = ClockWord  BY <1>1
    <3>2. Clock!Ticks(elapsed) = Rem(total, w)  BY <1>7, <3>1 DEF Clock!Ticks, Clock!Total, Rem
    <3>3. Rem(total, w) \in Int  BY InRange
    <3> QED  BY <3>2, <3>3
  <2>3. Clock!GetCount(s) \in {count - ((2 * d) % count), count - (d % count)}
    BY <1>4, <1>5, <2>1, <2>2 DEF Clock!GetCount
  <2>4. (2 * d) % count \in 0 .. count - 1 /\ d % count \in 0 .. count - 1  OBVIOUS
  <2>5. count - ((2 * d) % count) \in 0 .. f /\ count - (d % count) \in 0 .. f
    <3>1. \A x \in 0 .. count - 1 : count - x \in 0 .. f  OBVIOUS
    <3> QED  BY <2>4, <3>1
  <2> QED  BY <2>3, <2>5
<1>9. Clock!TypeOK
  <2>1. 0 \in 0 .. f - 1 /\ 0 \in 0 .. 3  OBVIOUS
  <2>2. /\ s.count \in 1 .. f /\ s.latched_count = 0 /\ s.count_latched = 0
        /\ s.read_state \in 0 .. 4 /\ s.write_state \in 0 .. 4
        /\ s.last_irq_count \in 0 .. ClockWord - 1
    BY <1>4 DEF ClockCounters
  <2>3. uticks \in 0 .. ClockWord - 1  BY DEF ClockInv, ClockTyped
  <2> QED  BY <1>2, <1>3, <1>8, <2>1, <2>2, <2>3 DEF Clock!TypeOK, Clock!FullCount
<1>10. Clock!WordWhole  BY DEF Clock!WordWhole, ClockInv, ClockTyped
<1>11. Clock!NoEarlyTick /\ Clock!NoTickLost
  <2>1. PICK last \in Nat : last = s.last_irq_count  BY <1>4
  <2>2. Clock!Served0 = last /\ last <= total
    BY <1>2, <1>7, <2>1 DEF Clock!Served0, ClockInv, Steady
  <2>3. Clock!Due(s) <=> last + count < total  BY <1>2, <1>5, <1>7, <2>1, ClockDue
  <2>4. ~Clock!Due(s) => total - last <= count  BY <2>3
  <2> QED  BY <1>2, <1>5, <1>7, <2>2, <2>4 DEF Clock!NoEarlyTick, Clock!NoTickLost
<1> QED  BY <1>9, <1>10, <1>11 DEF Clock!TimerRight

(* Each period of channel 0 has its interrupt, and none comes early, however*)
(* late i8254_update_irq is called and wherever the clock wraps.            *)
THEOREM ClockTicks == ClockAssumed => (ClockSpec => []Clock!TimerRight)
<1> SUFFICES ASSUME ClockAssumed PROVE ClockSpec => []Clock!TimerRight  OBVIOUS
<1>1. Clock!Init => ClockInv  BY ClockStarts
<1>2. ClockInv /\ [Clock!Next]_Clock!pitVars => ClockInv'  BY ClockKeeps
<1>3. ClockInv => Clock!TimerRight  BY ClockServes
<1> QED  BY <1>1, <1>2, <1>3, PTL DEF ClockSpec

-----------------------------------------------------------------------------
(* The periodic interrupt of the CMOS clock. *)
RtcSpec == Rtc!Init /\ [][Rtc!Next]_Rtc!cmosVars

PeriodOf(rate) == Rtc!Power2[Rtc!Code(rate) - 1]

(* The clock has an even period, which that of each rate divides, and the   *)
(* emulation loop is not half of it behind.                                 *)
RtcAssumed ==
  /\ RtcWord \in Nat \ {0} /\ RtcWord % 2 = 0 /\ Lag \in Nat
  /\ \A rate \in (Rates \cup {3}) \ {0} :
       /\ PeriodOf(rate) \in Nat \ {0} /\ Rem(RtcWord, PeriodOf(rate)) = 0
       /\ 2 * PeriodOf(rate) <= RtcWord /\ 2 * Lag * PeriodOf(rate) <= RtcWord

(* The clock is past the end of a period by as many periods as interrupts   *)
(* are owed after the first.                                                *)
RtcInv ==
  /\ cmos \in [index : {"A", "B", "other"}, rate : Rates \cup {3}, pie : BOOLEAN, c : BOOLEAN]
  /\ ticks \in 0 .. RtcWord - 1 /\ irq_timeout \in 0 .. RtcWord - 1
  /\ irq_period \in 0 .. RtcWord \div 2 /\ owed \in 0 .. Lag
  /\ (cmos.pie /\ cmos.rate # 0) =>
       LET p == PeriodOf(cmos.rate)
       IN irq_period = p
          /\ Rem(ticks - irq_timeout, RtcWord) = Rem((owed - 1) * p + Rem(ticks, p), RtcWord)

LEMMA RtcHalf == RtcAssumed => RtcWord \div 2 \in Nat /\ RtcWord = 2 * (RtcWord \div 2)
BY DEF RtcAssumed

LEMMA RtcStarts == RtcAssumed /\ Rtc!Init => RtcInv
BY RtcHalf DEF RtcAssumed, Rtc!Init, RtcInv

(* The next end of a period is less than a period away.                     *)
LEMMA RtcReload ==
  ASSUME NEW m \in Nat \ {0}, NEW p \in Nat \ {0}, NEW t \in Int
  PROVE  LET next == Rem(t + p - (Rem(t + p, p)), m)
         IN next \in 0 .. m - 1 /\ Rem(t - next, m) = Rem((0 - 1) * p + Rem(t, p), m)
<1> DEFINE a == t + p - (Rem(t + p, p))
<1>1. Rem(t + p, p) = Rem(t, p)
  <2>1. t + p = t + p * 1 /\ t + p \in Int /\ 1 \in Int  OBVIOUS
  <2> QED  BY <2>1, Modulo, Zenon
<1>2. Rem(t, p) \in Int  BY Quotient
<1> PICK r \in Int : r = Rem(t, p)  BY <1>2
<1>3. a \in Int /\ t - a = (0 - 1) * p + r  BY <1>1
<1> HIDE DEF a
<1>4. Rem(t - Rem(a, m), m) = Rem(t - a, m)  BY <1>3, EarlyFrom
<1>5. Rem(a, m) \in 0 .. m - 1  BY <1>3, Quotient
<1> QED  BY <1>3, <1>4, <1>5 DEF a

LEMMA RtcWriteData == ASSUME RtcAssumed, RtcInv, Rtc!WriteData PROVE RtcInv'
<1>1. /\ cmos' \in [index : {"A", "B", "other"}, rate : Rates \cup {3}, pie : BOOLEAN, c : BOOLEAN]
      /\ Rtc!UpdateTimer(cmos') /\ ticks' = ticks
  BY DEF Rtc!WriteData, RtcInv
<1>2. CASE cmos'.pie /\ cmos'.rate # 0
  <2> DEFINE p == PeriodOf(cmos'.rate)
  <2>1. /\ RtcWord \in Nat \ {0} /\ p \in Nat \ {0} /\ p <= RtcWord \div 2
        /\ RtcWord \div 2 \in Nat /\ Lag \in Nat
    BY <1>1, <1>2, RtcHalf DEF RtcAssumed
  <2>2. irq_period' = p /\ irq_timeout' = Rtc!NextTimeout(p) /\ owed' = 0
    BY <1>1, <1>2 DEF Rtc!UpdateTimer, PeriodOf
  <2> HIDE DEF p
  <2>3. ticks \in Int  BY DEF RtcInv, RtcAssumed
  <2>4. /\ irq_timeout' \in 0 .. RtcWord - 1
        /\ Rem(ticks - irq_timeout', RtcWord) = Rem((0 - 1) * p + Rem(ticks, p), RtcWord)
    BY <2>1, <2>2, <2>3, RtcReload DEF Rtc!NextTimeout, Rem
  <2>5. Rem(ticks' - irq_timeout', RtcWord) = Rem((owed' - 1) * p + (Rem(ticks', p)), RtcWord)
    BY <2>2, <2>4, <1>1
  <2>6. /\ ticks' \in 0 .. RtcWord - 1 /\ irq_period' \in 0 .. RtcWord \div 2 /\ owed' \in 0 .. Lag
    BY <1>1, <2>1, <2>2 DEF RtcInv
  <2> QED  BY <1>1, <2>2, <2>4, <2>5, <2>6 DEF RtcInv, p
<1>3. CASE ~(cmos'.pie /\ cmos'.rate # 0)
  <2>1. UNCHANGED <<irq_period, irq_timeout>> /\ owed' = 0  BY <1>1, <1>3 DEF Rtc!UpdateTimer
  <2> QED  BY <1>1, <1>3, <2>1 DEF RtcInv, RtcAssumed
<1> QED  BY <1>2, <1>3

(* With a rate set, an interrupt is due exactly while one is owed.          *)
LEMMA RtcDue ==
  ASSUME RtcAssumed, RtcInv, cmos.pie, cmos.rate # 0
  PROVE  Rtc!Due <=> owed > 0
<1> DEFINE p == PeriodOf(cmos.rate)
           h == RtcWord \div 2
<1>0. Rtc!Due <=> Rem(ticks - irq_timeout, RtcWord) < h  BY DEF Rtc!Due, Rem
<1>1. /\ p \in Nat \ {0} /\ 2 * p <= RtcWord /\ 2 * Lag * p <= RtcWord /\ Lag \in Nat
  BY DEF RtcAssumed, RtcInv
<1>2. /\ ticks \in Int /\ owed \in 0 .. Lag /\ RtcWord \in Nat \ {0} /\ h \in Nat /\ RtcWord = 2 * h
      /\ Rem(ticks - irq_timeout, RtcWord) = Rem((owed - 1) * p + Rem(ticks, p), RtcWord)
  BY RtcHalf DEF RtcInv, RtcAssumed
<1> HIDE DEF p, h
<1>3. Rem(ticks, p) \in 0 .. p - 1  BY <1>1, <1>2, Quotient
<1>9. PICK r \in 0 .. p - 1 : r = Rem(ticks, p)  BY <1>3
<1>4. CASE owed = 0
  <2>0. -1 \in Int /\ (owed - 1) * p + r \in Int /\ RtcWord - p + r \in Int  BY <1>1, <1>2
  <2>1. (owed - 1) * p + r = (RtcWord - p + r) + RtcWord * (-1)  BY <1>1, <1>2, <1>4
  <2>2. RtcWord - p + r \in 0 .. RtcWord - 1  BY <1>1, <1>2
  <2>3. Rem((owed - 1) * p + r, RtcWord) = Rem(RtcWord - p + r, RtcWord)
    <3> PICK x \in Int : x = (owed - 1) * p + r  BY <2>0
    <3> PICK y \in Int : y = RtcWord - p + r  BY <2>0
    <3> PICK o \in Int : o = -1  OBVIOUS
    <3>1. x = y + RtcWord * o /\ RtcWord \in Nat \ {0}  BY <1>2, <2>1
    <3>2. Rem(x, RtcWord) = Rem(y, RtcWord)  BY <3>1, Modulo, Zenon
    <3> QED  BY <3>2
  <2>4. Rem(RtcWord - p + r, RtcWord) = RtcWord - p + r  BY <1>2, <2>2, Small
  <2>5. Rem(ticks - irq_timeout, RtcWord) = RtcWord - p + r
    <3>1. Rem(ticks - irq_timeout, RtcWord) = Rem((owed - 1) * p + r, RtcWord)  BY <1>2, <1>9
    <3> QED  BY <3>1, <2>3, <2>4
  <2>6. ~(Rem(ticks - irq_timeout, RtcWord) < h)  BY <1>1, <1>2, <2>5
  <2> QED  BY <1>0, <1>4, <2>6
<1>5. CASE owed >= 1
  <2>1. (owed - 1) * p + r < Lag * p /\ (owed - 1) * p >= 0
    <3>1. (owed - 1) * p = owed * p - p  BY <1>1, <1>2
    <3>2. owed * p <= Lag * p  BY <1>1, <1>2
    <3>3. (owed - 1) * p >= 0  BY <1>1, <1>2, <1>5
    <3>4. owed * p \in Int /\ Lag * p \in Int  BY <1>1, <1>2
    <3> HIDE DEF p
    <3> QED  BY <1>1, <3>1, <3>2, <3>3, <3>4
  <2>2. 2 * Lag * p = 2 * (Lag * p) /\ Lag * p \in Int  BY <1>1
  <2>3. (owed - 1) * p \in Int  BY <1>1, <1>2
  <2> PICK n \in Int : n = (owed - 1) * p + r  BY <2>3
  <2>4. n \in 0 .. h - 1  BY <1>1, <1>2, <2>1, <2>2, <2>3
  <2>5. n \in 0 .. RtcWord - 1  BY <2>4, <1>2
  <2>6. Rem(ticks - irq_timeout, RtcWord) = n  BY <1>2, <1>9, <2>5, Small
  <2> QED  BY <1>0, <1>2, <1>5, <2>4, <2>6
<1> QED  BY <1>2, <1>4, <1>5

LEMMA RtcUpdateIrq == ASSUME RtcAssumed, RtcInv, Rtc!UpdateIrq PROVE RtcInv'
<1>1. /\ Rtc!Due /\ irq_timeout' = Rem(irq_timeout + irq_period, RtcWord)
      /\ owed' = (IF cmos.rate = 0 THEN 0 ELSE owed - 1)
      /\ irq_period' = irq_period /\ ticks' = ticks
      /\ cmos' = [cmos EXCEPT !.c = TRUE] /\ cmos.pie
  BY DEF Rtc!UpdateIrq, Rtc!AfterThis, Rtc!Due, Rem
<1>2. /\ cmos' \in [index : {"A", "B", "other"}, rate : Rates \cup {3}, pie : BOOLEAN, c : BOOLEAN]
      /\ cmos'.pie = cmos.pie /\ cmos'.rate = cmos.rate
  BY <1>1 DEF RtcInv
<1>3. RtcWord \in Nat \ {0} /\ irq_timeout \in Int /\ irq_period \in Int /\ ticks \in Int /\ owed \in Int
  BY RtcHalf DEF RtcAssumed, RtcInv
<1>4. irq_timeout' \in 0 .. RtcWord - 1
  <2> PICK n \in Int : n = irq_timeout + irq_period  BY <1>3
  <2>1. Rem(n, RtcWord) \in 0 .. RtcWord - 1  BY <1>3, Quotient
  <2> QED  BY <2>1, <1>1
<1>5. CASE cmos.rate = 0  BY <1>1, <1>2, <1>4, <1>5 DEF RtcInv, RtcAssumed
<1>6. CASE cmos.rate # 0
  <2> DEFINE p == PeriodOf(cmos.rate)
  <2>0. ticks \in Int /\ RtcWord \in Nat \ {0}  BY <1>3
  <2>1. owed > 0  BY <1>1, <1>6, RtcDue
  <2>2. p \in Nat \ {0} /\ irq_period = p
        /\ Rem(ticks - irq_timeout, RtcWord) = Rem((owed - 1) * p + Rem(ticks, p), RtcWord)
    BY <1>1, <1>6 DEF RtcInv, RtcAssumed
  <2> HIDE DEF p
  <2>3. Rem(ticks, p) \in Int  BY <1>3, <2>2, Quotient
  <2> PICK r \in Int : r = Rem(ticks, p)  BY <2>3
  <2> PICK n \in Int : n = (owed - 1) * p + r  BY <1>3, <2>2
  <2>4. n - p = (owed' - 1) * p + r  BY <1>1, <1>3, <1>6, <2>2
  <2>5. Rem(ticks - irq_timeout', RtcWord) = Rem(ticks - (irq_timeout + p), RtcWord)
    <3> PICK u \in Int : u = irq_timeout + p  BY <1>3, <2>2
    <3>1. irq_timeout' = Rem(u, RtcWord)  BY <1>1, <2>2
    <3>2. Rem(ticks - Rem(u, RtcWord), RtcWord) = Rem(ticks - u, RtcWord)  BY <2>0, EarlyFrom
    <3> QED  BY <3>1, <3>2
  <2>6. Rem(ticks - (irq_timeout + p), RtcWord) = Rem(Rem(ticks - irq_timeout, RtcWord) - p, RtcWord)
    <3> PICK a \in Int : a = ticks - irq_timeout  BY <1>3
    <3>1. p \in Int /\ RtcWord \in Nat \ {0}  BY <1>3, <2>2
    <3>2. Rem(Rem(a, RtcWord) - p, RtcWord) = Rem(a - p, RtcWord)  BY <3>1, EarlyLess
    <3>3. a - p = ticks - (irq_timeout + p)  BY <1>3, <2>2
    <3> QED  BY <3>2, <3>3
  <2>7. Rem(Rem(n, RtcWord) - p, RtcWord) = Rem(n - p, RtcWord)
    <3>1. p \in Int  BY <2>2
    <3> QED  BY <2>0, <3>1, EarlyLess
  <2>8. Rem(ticks - irq_timeout', RtcWord) = Rem((owed' - 1) * p + r, RtcWord)
    BY <2>2, <2>4, <2>5, <2>6, <2>7
  <2>9. Rem(ticks' - irq_timeout', RtcWord) = Rem((owed' - 1) * p + (Rem(ticks', p)), RtcWord)
    BY <2>8, <1>1
  <2>10. owed' \in 0 .. Lag  BY <1>1, <1>6, <2>1 DEF RtcInv, RtcAssumed
  <2>11. PeriodOf(cmos.rate)' = p  BY <1>2 DEF p, PeriodOf, Rtc!Power2, Rtc!Code
  <2> QED  BY <1>1, <1>2, <1>4, <2>2, <2>9, <2>10, <2>11 DEF RtcInv
<1> QED  BY <1>5, <1>6

LEMMA RtcTick == ASSUME RtcAssumed, RtcInv, Rtc!Tick PROVE RtcInv'
<1>1. /\ owed < Lag /\ ticks' = Rem(ticks + 1, RtcWord)
      /\ owed' = (IF cmos.pie /\ cmos.rate # 0 /\ Rem(ticks', irq_period) = 0 THEN owed + 1 ELSE owed)
      /\ cmos' = cmos /\ irq_period' = irq_period /\ irq_timeout' = irq_timeout
  BY DEF Rtc!Tick, Rem
<1>2. RtcWord \in Nat \ {0} /\ irq_timeout \in Int /\ ticks \in Int /\ owed \in 0 .. Lag /\ Lag \in Nat
  BY DEF RtcAssumed, RtcInv
<1>3. ticks' \in 0 .. RtcWord - 1 /\ owed' \in 0 .. Lag
  <2> PICK n \in Int : n = ticks + 1  BY <1>2
  <2>1. Rem(n, RtcWord) \in 0 .. RtcWord - 1  BY <1>2, Quotient
  <2> QED  BY <1>1, <1>2, <2>1
<1>4. CASE ~(cmos.pie /\ cmos.rate # 0)  BY <1>1, <1>3, <1>4 DEF RtcInv
<1>5. CASE cmos.pie /\ cmos.rate # 0
  <2> DEFINE p == PeriodOf(cmos.rate)
  <2>1. p \in Nat \ {0} /\ irq_period = p /\ Rem(RtcWord, p) = 0
        /\ Rem(ticks - irq_timeout, RtcWord) = Rem((owed - 1) * p + Rem(ticks, p), RtcWord)
    BY <1>5 DEF RtcInv, RtcAssumed
  <2> HIDE DEF p
  <2>2. Rem(ticks', p) = Rem(ticks + 1, p)
    <3> PICK n \in Int : n = ticks + 1  BY <1>2
    <3>1. Rem(Rem(n, RtcWord), p) = Rem(n, p)  BY <1>2, <2>1, RemainderTwice
    <3> QED  BY <3>1, <1>1
  <2>3. Rem(ticks, p) \in 0 .. p - 1  BY <1>2, <2>1, Quotient
  <2>10. PICK r \in 0 .. p - 1 : r = Rem(ticks, p)  BY <2>3
  <2>4. Rem(ticks + 1, p) = Rem(r + 1, p)
    <3>1. 1 \in Int  OBVIOUS
    <3>2. Rem(Rem(ticks, p) + 1, p) = Rem(ticks + 1, p)  BY <1>2, <2>1, <3>1, Early
    <3> QED  BY <2>10, <3>2
  <2> PICK n \in Int : n = (owed - 1) * p + r  BY <1>2, <2>1
  <2>5. n + 1 = (owed' - 1) * p + (Rem(ticks', p))
    <3>1. CASE r + 1 = p
      <4>1. Rem(r + 1, p) = 0
        <5>3. Rem(p, p) = 0  BY <2>1, Whole
        <5> QED  BY <3>1, <5>3
      <4>2. Rem(ticks', p) = 0 /\ owed' = owed + 1  BY <1>1, <1>5, <2>1, <2>2, <2>4, <4>1
      <4>3. (owed' - 1) * p = (owed - 1) * p + p  BY <4>2, <1>2, <2>1
      <4>4. (owed - 1) * p \in Int  BY <1>2, <2>1
      <4> QED  BY <3>1, <4>2, <4>3, <4>4, <2>1
    <3>2. CASE r + 1 < p
      <4>1. Rem(r + 1, p) = r + 1  BY <2>1, <3>2, Small
      <4>2. Rem(ticks', p) = r + 1 /\ owed' = owed  BY <1>1, <2>1, <2>2, <2>4, <4>1
      <4>3. (owed - 1) * p \in Int  BY <1>2, <2>1
      <4> QED  BY <4>2, <4>3
    <3> QED  BY <3>1, <3>2, <2>1
  <2>6. Rem(ticks' - irq_timeout, RtcWord) = Rem(n + 1, RtcWord)
    <3> PICK u \in Int : u = ticks + 1  BY <1>2
    <3>1. Rem(Rem(u, RtcWord) - irq_timeout, RtcWord) = Rem(u - irq_timeout, RtcWord)
      BY <1>2, EarlyLess
    <3>2. ticks' = Rem(u, RtcWord)  BY <1>1
    <3> PICK a \in Int : a = ticks - irq_timeout  BY <1>2
    <3>4. u - irq_timeout = a + 1  BY <1>2
    <3>0. 1 \in Int  OBVIOUS
    <3>5. Rem(a + 1, RtcWord) = Rem(Rem(a, RtcWord) + 1, RtcWord)  BY <3>0, <1>2, Early
    <3>6. Rem(Rem(n, RtcWord) + 1, RtcWord) = Rem(n + 1, RtcWord)  BY <3>0, <1>2, Early
    <3>7. Rem(a, RtcWord) = Rem(n, RtcWord)  BY <2>1, <2>10
    <3> QED  BY <3>1, <3>2, <3>4, <3>5, <3>6, <3>7
  <2>7. Rem(ticks' - irq_timeout', RtcWord) = Rem((owed' - 1) * p + (Rem(ticks', p)), RtcWord)
    BY <2>5, <2>6, <1>1
  <2>8. PeriodOf(cmos.rate)' = p  BY <1>1 DEF p, PeriodOf, Rtc!Power2, Rtc!Code
  <2> QED  BY <1>1, <1>3, <2>1, <2>7, <2>8 DEF RtcInv
<1> QED  BY <1>4, <1>5

LEMMA RtcSteps == ASSUME RtcAssumed, RtcInv, [Rtc!Next]_Rtc!cmosVars PROVE RtcInv'
<1>1. CASE Rtc!WriteIndex
  <2>1. /\ cmos' \in [index : {"A", "B", "other"}, rate : Rates \cup {3}, pie : BOOLEAN, c : BOOLEAN]
        /\ cmos'.pie = cmos.pie /\ cmos'.rate = cmos.rate
        /\ UNCHANGED <<irq_period, irq_timeout, ticks, owed>>
    BY <1>1 DEF Rtc!WriteIndex, RtcInv
  <2> QED  BY <2>1 DEF RtcInv, PeriodOf, Rtc!Power2, Rtc!Code
<1>2. CASE Rtc!WriteData  BY <1>2, RtcWriteData
<1>3. CASE Rtc!UpdateIrq  BY <1>3, RtcUpdateIrq
<1>4. CASE Rtc!Tick  BY <1>4, RtcTick
<1>5. CASE UNCHANGED Rtc!cmosVars
  BY <1>5 DEF Rtc!cmosVars, RtcInv, PeriodOf, Rtc!Power2, Rtc!Code
<1> QED  BY <1>1, <1>2, <1>3, <1>4, <1>5 DEF Rtc!Next

LEMMA RtcOwes == RtcAssumed /\ RtcInv => Rtc!DueIsOwed
BY RtcDue DEF RtcInv, RtcAssumed, Rtc!DueIsOwed, Rtc!TypeOK

(* An interrupt of the CMOS clock is due exactly while the end of a period  *)
(* has none, over late calls, changes of rate and the wrap of the clock     *)
(* (cmos_update_timer, cmos_update_irq).                                    *)
THEOREM Periods == RtcAssumed => (RtcSpec => []Rtc!DueIsOwed)
<1> SUFFICES ASSUME RtcAssumed PROVE RtcSpec => []Rtc!DueIsOwed  OBVIOUS
<1>1. Rtc!Init => RtcInv  BY RtcStarts
<1>2. RtcInv /\ [Rtc!Next]_Rtc!cmosVars => RtcInv'  BY RtcSteps
<1>3. RtcInv => Rtc!DueIsOwed  BY RtcOwes
<1> QED  BY <1>1, <1>2, <1>3, PTL DEF RtcSpec

(* The clocks of a machine, the counters that its guest reads or channel 0, *)
(* which interrupts, and the CMOS clock: one interrupt for each period, over*)
(* late calls, changes of rate and the wraps of clocks, and no count of two *)
(* halves (i8254_update_irq, i8254_ioport_read, cmos_update_irq).           *)
THEOREM Timers ==
  ASSUME PitAssumed, PitNumbers, ClockAssumed, RtcAssumed
  PROVE  RtcSpec /\ (\/ [](world = "pit") /\ ClockSpec
                     \/ [](world = "latch") /\ PitSpec) => []TimersRight
<1>1. RtcSpec => []Rtc!DueIsOwed  BY Periods
<1>2. ClockSpec => []Clock!TimerRight  BY ClockTicks
<1>3. PitSpec => []Pit!TimerRight  BY CountersRead
<1>4. Rtc!DueIsOwed /\ world = "pit" /\ Clock!TimerRight => TimersRight  BY DEF TimersRight
<1>5. Rtc!DueIsOwed /\ world = "latch" /\ Pit!TimerRight => TimersRight  BY DEF TimersRight
<1> QED  BY <1>1, <1>2, <1>3, <1>4, <1>5, PTL

-----------------------------------------------------------------------------
(* The serial port. *)
SerialSpec == Serial!Init /\ [][Serial!Next]_Serial!uartVars

(* The byte in the buffer is the one after the last read.                   *)
SerialInv ==
  /\ uart = [f \in {"in", "ier", "ioready", "dlab"} |-> uart[f]]
  /\ uart.in \in Int /\ uart_got \in Int
  /\ Serial!NoByteLost

LEMMA SerialStarts == Serial!Init => SerialInv
BY DEF Serial!Init, SerialInv, Serial!NoByteLost

LEMMA SerialSteps ==
  ASSUME SerialInv, [Serial!Next]_Serial!uartVars
  PROVE  SerialInv'
<1>1. CASE Serial!ReadData
  <2>1. CASE uart.dlab
    BY <1>1, <2>1 DEF Serial!ReadData, SerialInv, Serial!NoByteLost
  <2>2. CASE ~uart.dlab
    <3>1. /\ uart' = [uart EXCEPT !.ioready = @ \ {1}]
          /\ uart_got' = IF 1 \in uart.ioready THEN uart.in ELSE uart_got
      BY <1>1, <2>2 DEF Serial!ReadData
    <3> QED  BY <3>1 DEF SerialInv, Serial!NoByteLost
  <2> QED  BY <2>1, <2>2
<1>2. CASE Serial!WriteIer
  <2>1. CASE uart.dlab
    BY <1>2, <2>1 DEF Serial!WriteIer, SerialInv, Serial!NoByteLost
  <2>2. CASE ~uart.dlab
    <3> PICK val \in SUBSET {1, 2} :
          uart' = [uart EXCEPT !.ier = val,
                     !.ioready = IF 2 \in val THEN @ \cup {2} ELSE @ \ {2}]
      BY <1>2, <2>2 DEF Serial!WriteIer
    <3> PICK ready : ready = IF 2 \in val THEN uart.ioready \cup {2} ELSE uart.ioready \ {2}
      OBVIOUS
    <3>1. 1 \in ready <=> 1 \in uart.ioready  OBVIOUS
    <3>2. uart' = [uart EXCEPT !.ier = val, !.ioready = ready]  OBVIOUS
    <3>3. uart_got' = uart_got  BY <1>2 DEF Serial!WriteIer
    <3> QED  BY <3>1, <3>2, <3>3 DEF SerialInv, Serial!NoByteLost
  <2> QED  BY <2>1, <2>2
<1>3. CASE Serial!WriteLcr
  BY <1>3 DEF Serial!WriteLcr, SerialInv, Serial!NoByteLost
<1>4. CASE Serial!Update
  <2>1. 1 \notin uart.ioready  BY <1>4 DEF Serial!Update, Serial!Room
  <2> PICK ready : ready = uart.ioready \cup {1}  OBVIOUS
  <2>2. uart' = [uart EXCEPT !.in = @ + 1, !.ioready = ready] /\ uart_got' = uart_got
    BY <1>4 DEF Serial!Update
  <2>3. 1 \in ready  OBVIOUS
  <2>4. /\ uart' = [f \in {"in", "ier", "ioready", "dlab"} |-> uart'[f]]
        /\ uart'.in = uart.in + 1 /\ uart'.ioready = ready
    BY <2>2 DEF SerialInv
  <2> QED  BY <2>1, <2>2, <2>3, <2>4 DEF SerialInv, Serial!NoByteLost
<1>5. CASE Serial!Type
  BY <1>5 DEF Serial!Type, SerialInv, Serial!NoByteLost
<1>6. CASE UNCHANGED Serial!uartVars
  BY <1>6 DEF Serial!uartVars, SerialInv, Serial!NoByteLost
<1> QED  BY <1>1, <1>2, <1>3, <1>4, <1>5, <1>6 DEF Serial!Next

(* No byte typed is lost between the terminal and the guest (u8250_update,  *)
(* u8250_reg_read), however many are typed.                                 *)
THEOREM Bytes == SerialSpec => []Serial!NoByteLost
<1>1. SerialInv /\ [Serial!Next]_Serial!uartVars => SerialInv'  BY SerialSteps
<1>2. SerialInv => Serial!NoByteLost  BY DEF SerialInv
<1> QED  BY SerialStarts, <1>1, <1>2, PTL DEF SerialSpec

-----------------------------------------------------------------------------
(* The floppy channel. *)
DriveSpec == Drive!Init /\ [][Drive!Next]_Drive!emuVars

DriveAssumed == Starts \subseteq Int /\ Counts \subseteq Nat

EmuFields == {"cmd", "args", "status", "dataleft"}

(* A command that has its arguments is under way: what is left and what has *)
(* moved make what was asked, and the file is after the last sector moved.  *)
UnderWay(s, pos, moved) ==
  /\ s.args[1] = 0
  /\ s.dataleft \in Nat /\ s.dataleft + Len(moved) = s.args[3]
  /\ pos = s.args[2] + Len(moved)

DriveInv ==
  /\ emu = [f \in EmuFields |-> emu[f]]
  /\ emu.args \in Seq(Int) /\ floppy_moved \in Seq(Int)
  /\ Len(emu.args) < 3 => floppy_moved = <<>>
  /\ Len(emu.args) >= 3 => emu.args[3] \in Nat
  /\ Drive!RightSectors
  /\ Drive!Served => UnderWay(emu, fpos, floppy_moved)

LEMMA DriveStarts == Drive!Init => DriveInv
BY DEF Drive!Init, DriveInv, Drive!Idle, EmuFields, Drive!Served, Drive!RightSectors

LEMMA DriveCommand ==
  ASSUME DriveInv, Drive!Command
  PROVE  DriveInv' /\ Drive!EndsComplete
<1>1. emu.cmd = "none" /\ floppy_moved' = <<>>  BY DEF Drive!Command
<1>2. \/ \E c \in {"read", "write"} : emu' = [emu EXCEPT !.cmd = c, !.args = <<>>]
      \/ emu' = [emu EXCEPT !.args = <<>>, !.status = "id"]
  BY DEF Drive!Command
<1>3. emu' = [f \in EmuFields |-> emu'[f]] /\ emu'.args = <<>>
  BY <1>2 DEF DriveInv, EmuFields
<1> QED  BY <1>1, <1>3 DEF DriveInv, Drive!Served, Drive!RightSectors, Drive!EndsComplete

LEMMA DriveArgument ==
  ASSUME DriveAssumed, DriveInv, Drive!Argument
  PROVE  DriveInv' /\ Drive!EndsComplete
<1>p. PICK val :
      /\ val \in CASE Len(emu.args) = 0 -> {0, 1}
                   [] Len(emu.args) = 1 -> Starts
                   [] OTHER -> Counts
      /\ LET s == [emu EXCEPT !.args = Append(@, val)]
         IN IF s.cmd # "none" /\ Len(s.args) = 3 THEN Drive!Exec(s) ELSE emu' = s /\ UNCHANGED fpos
  BY DEF Drive!Argument
<1> DEFINE s == [emu EXCEPT !.args = Append(@, val)]
<1>0. Len(emu.args) < 4 /\ floppy_moved' = floppy_moved  BY DEF Drive!Argument
<1>1. emu.args \in Seq(Int)  BY DEF DriveInv
<1>m. PICK m \in Nat : m = Len(emu.args)  BY <1>1, LenProperties
<1>2. val \in Int /\ (m >= 2 => val \in Nat)
  <2>1. Starts \subseteq Int /\ Counts \subseteq Nat  BY DEF DriveAssumed
  <2>2. CASE m = 0
    <3>1. val \in {0, 1}  BY <1>m, <1>p, <2>2
    <3> QED  BY <2>2, <3>1
  <2>3. CASE m = 1
    <3>1. val \in Starts  BY <1>m, <1>p, <2>3
    <3> QED  BY <2>1, <2>3, <3>1
  <2>4. CASE m >= 2
    <3>0. m # 0 /\ m # 1  BY <2>4
    <3>1. val \in Counts  BY <1>m, <1>p, <3>0
    <3> QED  BY <2>1, <3>1
  <2> QED  BY <2>2, <2>3, <2>4
<1>3. /\ s = [f \in EmuFields |-> s[f]] /\ s.args = Append(emu.args, val)
      /\ s.cmd = emu.cmd /\ s.dataleft = emu.dataleft
  BY DEF DriveInv, EmuFields
<1>4. /\ s.args \in Seq(Int) /\ Len(s.args) = m + 1 /\ Len(emu.args) = m
      /\ \A i \in 1 .. m : s.args[i] = emu.args[i]
      /\ s.args[m + 1] = val
  BY <1>m, <1>1, <1>2, <1>3
<1>5. Len(s.args) >= 3 => s.args[3] \in Nat
  BY <1>m, <1>1, <1>2, <1>4 DEF DriveInv
<1>6. Len(s.args) = 3 => floppy_moved = <<>>
  BY <1>4, <1>m, <1>1 DEF DriveInv
<1>q. IF s.cmd # "none" /\ Len(s.args) = 3 THEN Drive!Exec(s) ELSE emu' = s /\ UNCHANGED fpos
  BY <1>m, <1>p
<1> HIDE DEF s
<1>7. ASSUME emu'.args = s.args PROVE Drive!RightSectors'
  <2>1. CASE Len(s.args) <= 3
    <3>1. floppy_moved' = <<>>  BY <1>0, <1>m, <1>1, <1>4, <2>1 DEF DriveInv
    <3> QED  BY <1>5, <1>7, <3>1 DEF Drive!RightSectors, Drive!Asked
  <2>2. CASE Len(s.args) = 4
    <3>z. m + 1 = 4  BY <1>4, <2>2
    <3>0. m = 3  BY <3>z
    <3>1. Len(emu.args) = 3 /\ s.args[2] = emu.args[2] /\ s.args[3] = emu.args[3]
      BY <1>m, <1>4, <3>0
    <3> QED  BY <1>0, <1>7, <3>1 DEF DriveInv, Drive!RightSectors, Drive!Asked
  <2> QED  BY <1>0, <1>m, <1>1, <1>4, <2>1, <2>2
<1>8. CASE s.cmd # "none" /\ Len(s.args) = 3
  <2>0. Drive!Exec(s)  BY <1>q, <1>8
  <2>1. CASE s.args[1] # 0 \/ s.args[2] < 0
    <3>1. emu' = [s EXCEPT !.status = "error", !.cmd = "none"]
      BY <2>0, <2>1 DEF Drive!Exec
    <3>2. emu' = [f \in EmuFields |-> emu'[f]] /\ emu'.args = s.args /\ emu'.cmd = "none"
          /\ emu'.status = "error"
      BY <1>3, <3>1 DEF EmuFields
    <3> QED  BY <1>0, <1>4, <1>5, <1>6, <1>7, <1>8, <3>2 DEF DriveInv, Drive!Served, Drive!EndsComplete
  <2>2. CASE ~(s.args[1] # 0 \/ s.args[2] < 0)
    <3>1. emu' = [s EXCEPT !.status = "ok", !.dataleft = s.args[3]] /\ fpos' = s.args[2]
      BY <2>0, <2>2 DEF Drive!Exec
    <3>2. emu' = [f \in EmuFields |-> emu'[f]] /\ emu'.args = s.args /\ emu'.cmd = s.cmd
          /\ emu'.dataleft = s.args[3]
      BY <1>3, <3>1 DEF EmuFields
    <3>3. floppy_moved' = <<>> /\ s.args[2] \in Int
      <4>1. 2 \in 1 .. Len(s.args)  BY <1>8
      <4>2. s.args[2] \in Int  BY <1>4, <4>1, ElementOfSeq
      <4> QED  BY <1>0, <1>6, <1>8, <4>2
    <3>4. UnderWay(emu', fpos', floppy_moved')
      BY <1>5, <1>8, <2>2, <3>1, <3>2, <3>3 DEF UnderWay
    <3> QED  BY <1>0, <1>4, <1>5, <1>7, <1>8, <3>2, <3>3, <3>4 DEF DriveInv, Drive!Served, Drive!EndsComplete
  <2> QED  BY <2>1, <2>2
<1>9. CASE ~(s.cmd # "none" /\ Len(s.args) = 3)
  <2>1. emu' = s  BY <1>q, <1>9
  <2>2. ~Drive!Served'  BY <1>9, <2>1 DEF Drive!Served
  <2>3. Drive!EndsComplete
    BY <1>3, <2>1 DEF Drive!EndsComplete, Drive!Served
  <2>4. Len(s.args) < 3 => floppy_moved' = <<>>
    BY <1>0, <1>m, <1>1, <1>4 DEF DriveInv
  <2> QED  BY <1>0, <1>3, <1>4, <1>5, <1>7, <2>1, <2>2, <2>3, <2>4 DEF DriveInv
<1> QED  BY <1>8, <1>9

LEMMA DriveString ==
  ASSUME DriveAssumed, DriveInv, Drive!String
  PROVE  DriveInv' /\ Drive!EndsComplete
<1>p. PICK c, n :
      /\ c \in {"read", "write"} /\ n \in Counts
      /\ LET short == emu.cmd = "read" /\ fpos + n > fsize
             served == emu.cmd = c /\ Len(emu.args) = 3 /\ emu.args[1] = 0 /\ Drive!Fits(emu, n)
         IN /\ emu' = IF served /\ ~short THEN Drive!AfterPiece(emu, n)
                      ELSE [emu EXCEPT !.cmd = "none", !.status = "error"]
            /\ fpos' = IF served THEN (IF short THEN fsize ELSE fpos + n) ELSE fpos
            /\ floppy_moved' = IF served /\ ~short
                               THEN floppy_moved \o [i \in 1 .. n |-> fpos + i - 1]
                               ELSE floppy_moved
  BY DEF Drive!String
<1>s. PICK short \in BOOLEAN : short <=> (emu.cmd = "read" /\ fpos + n > fsize)
  <2>1. CASE emu.cmd = "read" /\ fpos + n > fsize  BY <2>1, Zenon
  <2>2. CASE ~(emu.cmd = "read" /\ fpos + n > fsize)  BY <2>2, Zenon
  <2> QED  BY <2>1, <2>2
<1> DEFINE served == emu.cmd = c /\ Len(emu.args) = 3 /\ emu.args[1] = 0 /\ Drive!Fits(emu, n)
<1>0. n \in Nat /\ c # "none"  BY <1>p DEF DriveAssumed
<1>1. CASE served /\ ~short
  <2>1. /\ emu' = Drive!AfterPiece(emu, n) /\ fpos' = fpos + n
        /\ floppy_moved' = floppy_moved \o [i \in 1 .. n |-> fpos + i - 1]
    BY <1>p, <1>s, <1>1
  <2> HIDE DEF served
  <2>2. emu.cmd # "none" /\ Len(emu.args) = 3  BY <1>0, <1>1 DEF served
  <2>3. UnderWay(emu, fpos, floppy_moved)  BY <2>2 DEF DriveInv, Drive!Served
  <2>4. n <= emu.dataleft  BY <1>1 DEF served, Drive!Fits
  <2>5. emu.args \in Seq(Int) /\ emu.args[2] \in Int /\ emu.args[3] \in Nat
    <3>1. emu.args \in Seq(Int)  BY DEF DriveInv
    <3>2. 2 \in 1 .. Len(emu.args)  BY <2>2
    <3>3. emu.args[3] \in Nat  BY <2>2 DEF DriveInv
    <3> QED  BY <3>1, <3>2, <3>3, ElementOfSeq
  <2>6. floppy_moved \in Seq(Int) /\ Len(floppy_moved) \in Nat  BY DEF DriveInv
  <2> PICK pos \in Int : pos = fpos  BY <2>3, <2>5, <2>6 DEF UnderWay
  <2> DEFINE piece == [i \in 1 .. n |-> pos + i - 1]
  <2>7. /\ piece \in Seq(Int) /\ Len(piece) = n
        /\ \A i \in 1 .. n : piece[i] = pos + i - 1
    BY <1>0
  <2> HIDE DEF piece
  <2>8. /\ floppy_moved' \in Seq(Int) /\ Len(floppy_moved') = Len(floppy_moved) + n
        /\ \A i \in 1 .. Len(floppy_moved) + n :
             floppy_moved'[i] = IF i <= Len(floppy_moved) THEN floppy_moved[i]
                                ELSE piece[i - Len(floppy_moved)]
    <3>1. floppy_moved' = floppy_moved \o piece  BY <2>1 DEF piece
    <3> PICK a \in Seq(Int) : a = floppy_moved  BY <2>6
    <3>2. a \o piece \in Seq(Int) /\ Len(a \o piece) = Len(a) + n
      BY <2>7, SMTT(30)
    <3>3. \A i \in 1 .. Len(a) + n :
            (a \o piece)[i] = IF i <= Len(a) THEN a[i] ELSE piece[i - Len(a)]
      BY <2>7
    <3> QED  BY <3>1, <3>2, <3>3
  <2> DEFINE t == [emu EXCEPT !.dataleft = emu.dataleft - n]
  <2>9. t = [f \in EmuFields |-> t[f]] /\ t.args = emu.args /\ t.dataleft = emu.dataleft - n
        /\ t.cmd = emu.cmd
    BY DEF DriveInv, EmuFields
  <2>10. emu' = IF t.dataleft = 0 THEN [t EXCEPT !.cmd = "none", !.status = "ok"] ELSE t
    BY <2>1 DEF Drive!AfterPiece
  <2> HIDE DEF t
  <2>17. emu.dataleft \in Nat /\ emu.dataleft + Len(floppy_moved) = emu.args[3]
         /\ fpos = emu.args[2] + Len(floppy_moved) /\ emu.args[1] = 0
    BY <2>3 DEF UnderWay
  <2>a. PICK left \in Nat, m \in Nat, asked \in Nat, from \in Int :
        left = emu.dataleft /\ m = Len(floppy_moved) /\ asked = emu.args[3] /\ from = emu.args[2]
    BY <2>5, <2>6, <2>17
  <2>11. /\ emu' = [f \in EmuFields |-> emu'[f]] /\ emu'.args = emu.args
         /\ emu'.dataleft = emu.dataleft - n
         /\ IF emu.dataleft = n THEN emu'.cmd = "none" ELSE emu'.cmd = emu.cmd
    <3>1. t.dataleft = 0 <=> left = n  BY <1>0, <2>9, <2>a
    <3> QED  BY <2>9, <2>10, <2>a, <3>1 DEF EmuFields
  <2>12. /\ Len(floppy_moved') <= emu.args[3]
         /\ emu.dataleft = n => Len(floppy_moved') = emu.args[3]
    <3>1. left + m = asked /\ n <= left /\ Len(floppy_moved') = m + n  BY <2>4, <2>8, <2>17, <2>a
    <3> PICK b \in Nat : b = n  BY <1>0
    <3>2. left + m = asked /\ b <= left  BY <3>1
    <3>3. m + b <= asked /\ (left = b => m + b = asked)  BY <3>2
    <3> QED  BY <2>a, <3>1, <3>3
  <2>13. ASSUME NEW i \in DOMAIN floppy_moved' PROVE floppy_moved'[i] = emu.args[2] + i - 1
    <3>1. i \in 1 .. Len(floppy_moved) + n  BY <2>8
    <3>2. CASE i <= Len(floppy_moved)
      <4>1. i \in DOMAIN floppy_moved /\ Len(emu.args) >= 3  BY <2>2, <2>6, <3>1, <3>2
      <4>2. floppy_moved[i] = emu.args[2] + i - 1
        BY <4>1 DEF DriveInv, Drive!RightSectors
      <4> QED  BY <2>8, <3>1, <3>2, <4>2
    <3>3. CASE i > Len(floppy_moved)
      <4> PICK b \in Nat : b = n  BY <1>0
      <4>0. i \in 1 .. m + b /\ i > m  BY <2>a, <3>1, <3>3
      <4>1. i - m \in 1 .. b  BY <4>0
      <4>2. floppy_moved'[i] = pos + (i - Len(floppy_moved)) - 1  BY <2>6, <2>7, <2>8, <2>a, <3>1, <3>3, <4>1
      <4>3. pos = from + m  BY <2>17, <2>a
      <4>4. pos + (i - m) - 1 = from + i - 1  BY <4>0, <4>3
      <4> QED  BY <2>a, <4>2, <4>4
    <3> QED  BY <2>6, <3>1, <3>2, <3>3
  <2>14. Drive!RightSectors'
    BY <2>11, <2>12, <2>13 DEF Drive!RightSectors, Drive!Asked
  <2>15. UnderWay(emu', fpos', floppy_moved')
    <3>1. left + m = asked /\ n <= left /\ Len(floppy_moved') = m + n /\ fpos' = (from + m) + n
      BY <2>1, <2>4, <2>8, <2>17, <2>a
    <3> PICK b \in Nat : b = n  BY <1>0
    <3>0. left + m = asked /\ b <= left  BY <3>1
    <3>2. left - b \in Nat /\ (left - b) + (m + b) = asked /\ (from + m) + b = from + (m + b)
      BY <3>0
    <3>3. emu'.args = emu.args /\ emu'.dataleft = left - n  BY <2>11, <2>a
    <3> QED  BY <2>17, <2>a, <3>1, <3>2, <3>3 DEF UnderWay
  <2>16. Drive!EndsComplete
    BY <2>2, <2>11, <2>12 DEF Drive!EndsComplete, Drive!Asked
  <2> QED  BY <2>2, <2>5, <2>8, <2>11, <2>14, <2>15, <2>16 DEF DriveInv
<1>2. CASE ~(served /\ ~short)
  <2>1. emu' = [emu EXCEPT !.cmd = "none", !.status = "error"] /\ floppy_moved' = floppy_moved
    BY <1>p, <1>s, <1>2
  <2>2. /\ emu' = [f \in EmuFields |-> emu'[f]] /\ emu'.args = emu.args
        /\ emu'.cmd = "none" /\ emu'.status = "error"
    BY <2>1 DEF DriveInv, EmuFields
  <2> QED  BY <2>1, <2>2 DEF DriveInv, Drive!RightSectors, Drive!Asked, Drive!Served, Drive!EndsComplete
<1> QED  BY <1>1, <1>2

LEMMA DriveSteps ==
  ASSUME DriveAssumed, DriveInv, [Drive!Next]_Drive!emuVars
  PROVE  DriveInv' /\ (Drive!Next => Drive!EndsComplete)
<1>1. CASE UNCHANGED Drive!emuVars
  <2>1. DriveInv'
    BY <1>1 DEF DriveInv, Drive!emuVars, Drive!RightSectors, Drive!Asked, Drive!Served
  <2>2. Drive!EndsComplete
    BY <1>1 DEF Drive!emuVars, Drive!EndsComplete, Drive!Served
  <2> QED  BY <2>1, <2>2
<1>2. CASE Drive!Next
  BY <1>2, DriveCommand, DriveArgument, DriveString DEF Drive!Next
<1> QED  BY <1>1, <1>2

(* The sectors that the BIOS gets of the floppy are those it asked for, in  *)
(* order and no more (exec_cmd, emulink_data_read_string,                   *)
(* emulink_data_write_string), and a transfer ends with success only when   *)
(* all of them have moved, for a floppy and requests of any size.           *)
THEOREM SectorsServed ==
  DriveAssumed => (DriveSpec => []Drive!RightSectors /\ [][Drive!EndsComplete]_Drive!emuVars)
<1> SUFFICES ASSUME DriveAssumed
             PROVE DriveSpec => []Drive!RightSectors /\ [][Drive!EndsComplete]_Drive!emuVars
  OBVIOUS
<1>1. DriveInv /\ [Drive!Next]_Drive!emuVars => DriveInv' /\ (Drive!Next => Drive!EndsComplete)
  BY DriveSteps
<1>2. DriveInv => Drive!RightSectors  BY DEF DriveInv
<1> QED  BY DriveStarts, <1>1, <1>2, PTL DEF DriveSpec

-----------------------------------------------------------------------------
(* The network card. *)
NetSpec == Net!Init /\ [][Net!Next]_Net!ne2000Vars

(* Frames of all sizes up to the largest, for which the ring has room.       *)
NetAssumed ==
  /\ Tx \in Nat /\ RingStart \in Nat /\ RingStop \in Nat /\ Tx < RingStart /\ RingStart + 1 < RingStop
  /\ MaxPages \in 0 .. RingStop - RingStart /\ Sizes \subseteq 1 .. MaxPages

Round == RingStop - RingStart

(* From its first page on, the ring holds the frames of a queue, the i-th   *)
(* off[i] pages on, then comes the current page; one page stays free.       *)
Held(first, off, current, mem, queue) ==
  LET count == Len(queue)
  IN /\ off[1] = 0 /\ off[count + 1] \in 0 .. Round - 1
     /\ \A i, j \in 1 .. count + 1 : i <= j => off[i] \in Nat /\ off[i] <= off[j]
     /\ \A i \in 1 .. count :
          queue[i].pages \in Sizes /\ off[i + 1] = off[i] + queue[i].pages
     /\ current = Net!Wrapped(first + off[count + 1])
     /\ \A i \in 1 .. count : \A k \in 1 .. queue[i].pages :
          mem[Net!Wrapped(first + off[i] + k - 1)] =
            <<queue[i].frame, k, Net!Wrapped(first + off[i + 1]), queue[i].pages>>

(* Pages round the ring. *)
LEMMA RoundTheRing ==
  ASSUME NetAssumed, NEW first \in RingStart .. RingStop - 1,
         NEW a \in 0 .. Round - 1, NEW b \in 0 .. Round - 1
  PROVE  /\ Net!Wrapped(first + a) \in RingStart .. RingStop - 1
         /\ Net!Wrapped(first + a) = Net!Wrapped(first + b) => a = b
         /\ a + b <= Round
              => Net!Wrapped(Net!Wrapped(first + a) + b) = Net!Wrapped(first + a + b)
BY DEF NetAssumed, Round, Net!Wrapped

(* The pages of a frame are pages of the ring. *)
LEMMA InTheRing ==
  ASSUME NetAssumed, NEW first \in RingStart .. RingStop - 1, NEW o \in Nat, NEW n \in Sizes,
         NEW t \in 0 .. Round - 1, o + n <= t, NEW k \in 1 .. n
  PROVE  /\ n \in Nat /\ o + k - 1 \in 0 .. t - 1 /\ o + k - 1 \in 0 .. Round - 1
         /\ first + (o + k - 1) = first + o + k - 1
         /\ Net!Wrapped(first + o + k - 1) \in RingStart .. RingStop - 1
<1>1. n \in Nat /\ Round \in Nat /\ first \in Nat  BY DEF NetAssumed, Round
<1>2. o + k - 1 \in 0 .. t - 1 /\ o + k - 1 \in 0 .. Round - 1  BY <1>1
<1>3. first + (o + k - 1) = first + o + k - 1  BY <1>1
<1>4. Net!Wrapped(first + (o + k - 1)) \in RingStart .. RingStop - 1  BY <1>2, RoundTheRing
<1> QED  BY <1>1, <1>2, <1>3, <1>4

(* The room that the card counts. *)
LEMMA Room ==
  ASSUME NetAssumed, NEW s, s.boundary \in RingStart .. RingStop - 1, NEW used \in 0 .. Round - 2,
         s.curpag = Net!Wrapped(Net!Wrapped(s.boundary + 1) + used)
  PROVE  Net!Avail(s) = Round - 1 - used
<1> PICK b \in RingStart .. RingStop - 1 : b = s.boundary  OBVIOUS
<1> PICK c : c = s.curpag  OBVIOUS
<1>1. c = Net!Wrapped(Net!Wrapped(b + 1) + used)  OBVIOUS
<1>2. Net!Avail(s) = IF c < b THEN b - c ELSE (RingStop - RingStart) - (c - b)
  BY DEF Net!Avail
<1> QED  BY <1>1, <1>2 DEF NetAssumed, Round, Net!Wrapped

(* A ring that is full to its last page has its current page at the boundary. *)
LEMMA NotFull ==
  ASSUME NetAssumed, NEW b \in RingStart .. RingStop - 1, NEW used \in 0 .. Round - 1,
         Net!Wrapped(Net!Wrapped(b + 1) + used) # b
  PROVE  used \in 0 .. Round - 2
BY DEF NetAssumed, Round, Net!Wrapped

LEMMA HeldEmpty ==
  ASSUME NetAssumed, NEW first \in RingStart .. RingStop - 1, NEW mem
  PROVE  \E off : Held(first, off, first, mem, <<>>)
<1> DEFINE off == [i \in {1} |-> 0]
<1>1. Net!Wrapped(first + 0) = first  BY DEF NetAssumed, Net!Wrapped
<1>2. Held(first, off, first, mem, <<>>)
  BY <1>1 DEF Held, NetAssumed, Round
<1> QED  BY <1>2

(* A frame is within what is in use. *)
LEMMA HeldWithin ==
  ASSUME NEW first, NEW off, NEW current, NEW mem, NEW queue, Len(queue) \in Nat,
         Held(first, off, current, mem, queue), NEW i \in 1 .. Len(queue)
  PROVE  /\ off[i] \in Nat /\ queue[i].pages \in Sizes
         /\ off[i + 1] = off[i] + queue[i].pages /\ off[i + 1] <= off[Len(queue) + 1]
         /\ off[i] + queue[i].pages <= off[Len(queue) + 1]
         /\ off[Len(queue) + 1] \in 0 .. Round - 1
<1> PICK c \in Nat : c = Len(queue)  OBVIOUS
<1>1. i \in 1 .. c + 1 /\ i + 1 \in 1 .. c + 1 /\ c + 1 \in 1 .. c + 1 /\ i <= i + 1 /\ i + 1 <= c + 1
  OBVIOUS
<1> QED  BY <1>1 DEF Held

(* Memory outside the ring does not matter. *)
LEMMA HeldElsewhere ==
  ASSUME NetAssumed, NEW first \in RingStart .. RingStop - 1, NEW off, NEW current, NEW queue,
         NEW mem, NEW other, Len(queue) \in Nat, \A p \in RingStart .. RingStop - 1 : other[p] = mem[p],
         Held(first, off, current, mem, queue)
  PROVE  Held(first, off, current, other, queue)
<1>1. ASSUME NEW i \in 1 .. Len(queue), NEW k \in 1 .. queue[i].pages
      PROVE  other[Net!Wrapped(first + off[i] + k - 1)] = mem[Net!Wrapped(first + off[i] + k - 1)]
  <2>1. /\ off[i] \in Nat /\ off[i] + queue[i].pages <= off[Len(queue) + 1]
        /\ off[Len(queue) + 1] \in 0 .. Round - 1 /\ queue[i].pages \in Sizes
    BY HeldWithin
  <2>2. Net!Wrapped(first + off[i] + k - 1) \in RingStart .. RingStop - 1
    BY <2>1, InTheRing
  <2> QED  BY <2>2
<1> QED  BY <1>1 DEF Held

(* The pages after those in use. *)
LEMMA AfterTheLast ==
  ASSUME NetAssumed, NEW first \in RingStart .. RingStop - 1, NEW n \in Sizes, NEW t \in 0 .. Round - 1,
         t + n <= Round - 1, NEW current, current = Net!Wrapped(first + t)
  PROVE  /\ Net!Wrapped(current + n) = Net!Wrapped(first + (t + n))
         /\ \A k \in 1 .. n : /\ Net!Wrapped(current + k - 1) = Net!Wrapped(first + t + k - 1)
                              /\ t + k - 1 \in t .. Round - 1
                              /\ first + t + k - 1 = first + (t + k - 1)
<1>1. n \in Nat /\ n > 0 /\ n < Round /\ Round \in Nat /\ first \in Nat
  BY DEF NetAssumed, Round
<1>2. ASSUME NEW b \in 0 .. n PROVE Net!Wrapped(current + b) = Net!Wrapped(first + (t + b))
  <2>1. b \in 0 .. Round - 1 /\ t \in 0 .. Round - 1 /\ t + b <= Round  BY <1>1
  <2>2. first + t + b = first + (t + b)  BY <1>1
  <2> QED  BY <2>1, <2>2, RoundTheRing
<1>3. ASSUME NEW k \in 1 .. n
      PROVE  /\ Net!Wrapped(current + k - 1) = Net!Wrapped(first + t + k - 1)
             /\ t + k - 1 \in t .. Round - 1 /\ first + t + k - 1 = first + (t + k - 1)
  <2>1. k - 1 \in 0 .. n  BY <1>1
  <2>2. current \in Int  BY <1>1 DEF Net!Wrapped, NetAssumed
  <2>3. current + k - 1 = current + (k - 1) /\ first + t + k - 1 = first + (t + (k - 1))
        /\ first + t + k - 1 = first + (t + k - 1)
    BY <1>1, <2>2
  <2>4. t + k - 1 \in t .. Round - 1  BY <1>1
  <2> QED  BY <1>2, <2>1, <2>3, <2>4
<1>4. n \in 0 .. n  BY <1>1
<1> QED  BY <1>2, <1>3, <1>4

(* What a frame that is received leaves in the ring. *)
Stored(current, mem, new, r) ==
  \A p \in RingStart .. RingStop - 1 :
    IF \E k \in 1 .. r.pages : Net!Wrapped(current + k - 1) = p
    THEN \E k \in 1 .. r.pages :
           /\ Net!Wrapped(current + k - 1) = p
           /\ new[p] = <<r.frame, k, Net!Wrapped(current + r.pages), r.pages>>
    ELSE new[p] = mem[p]

LEMMA HeldAppend ==
  ASSUME NetAssumed, NEW first \in RingStart .. RingStop - 1, NEW off, NEW current, NEW mem, NEW new,
         NEW S, NEW queue \in Seq(S), NEW r, r.pages \in Sizes,
         Held(first, off, current, mem, queue), off[Len(queue) + 1] + r.pages <= Round - 1,
         Stored(current, mem, new, r)
  PROVE  \E off2 : Held(first, off2, Net!Wrapped(current + r.pages), new, Append(queue, r))
<1>d. PICK f, n : n \in Sizes /\ f = r.frame /\ n = r.pages  OBVIOUS
<1>e. \A p \in RingStart .. RingStop - 1 :
        IF \E k \in 1 .. n : Net!Wrapped(current + k - 1) = p
        THEN \E k \in 1 .. n : /\ Net!Wrapped(current + k - 1) = p
                               /\ new[p] = <<f, k, Net!Wrapped(current + n), n>>
        ELSE new[p] = mem[p]
  BY <1>d DEF Stored
<1> DEFINE c == Len(queue)
           t == off[c + 1]
           off2 == [i \in 1 .. c + 2 |-> IF i = c + 2 THEN t + n ELSE off[i]]
           q2 == Append(queue, r)
<1>1. c \in Nat  BY LenProperties
<1>2. off[1] = 0 /\ t \in 0 .. Round - 1 /\ current = Net!Wrapped(first + t) /\ t + n <= Round - 1
  BY <1>d DEF Held
<1>a. \A i \in 1 .. c : /\ off[i] \in Nat /\ queue[i].pages \in Sizes
                        /\ off[i + 1] = off[i] + queue[i].pages /\ off[i + 1] <= t
  BY <1>1, HeldWithin
<1>b. \A i \in 1 .. c : \A k \in 1 .. queue[i].pages :
        mem[Net!Wrapped(first + off[i] + k - 1)] =
          <<queue[i].frame, k, Net!Wrapped(first + off[i + 1]), queue[i].pages>>
  BY DEF Held
<1>c. n \in Sizes /\ \A m \in Sizes : m \in Nat  BY <1>d DEF NetAssumed
<1>3. Len(q2) = c + 1 /\ q2[c + 1] = r /\ \A i \in 1 .. c : q2[i] = queue[i]
  <2>1. queue \in Seq(S \cup {r}) /\ r \in S \cup {r}  OBVIOUS
  <2> QED  BY <2>1, AppendProperties
<1>4. n \in Nat /\ n > 0
  <2>1. Sizes \subseteq 1 .. MaxPages /\ MaxPages \in Nat  BY DEF NetAssumed
  <2> QED  BY <1>c, <2>1
<1> HIDE DEF q2
<1> HIDE DEF c
<1>5. /\ \A i \in 1 .. c + 1 : off2[i] = off[i]
      /\ off2[c + 2] = t + n
  BY <1>1
<1> HIDE DEF t, off2
<1>6. off2[1] = 0 /\ off2[c + 1] = t /\ \A i \in 1 .. c : off2[i] = off[i] /\ off2[i + 1] = off[i + 1]
  <2>1. 1 \in 1 .. c + 1 /\ c + 1 \in 1 .. c + 1
        /\ \A i \in 1 .. c : i \in 1 .. c + 1 /\ i + 1 \in 1 .. c + 1
    BY <1>1
  <2> QED  BY <1>2, <1>5, <2>1 DEF t
<1>7. /\ Net!Wrapped(current + n) = Net!Wrapped(first + (t + n))
      /\ \A k \in 1 .. n : /\ Net!Wrapped(current + k - 1) = Net!Wrapped(first + t + k - 1)
                           /\ t + k - 1 \in t .. Round - 1
                           /\ first + t + k - 1 = first + (t + k - 1)
  BY <1>2, <1>c, AfterTheLast
<1>8. t \in Nat /\ t + n \in 0 .. Round - 1
  BY <1>2, <1>4
<1>9. ASSUME NEW i \in 1 .. c + 1
      PROVE  /\ off2[i] \in Nat /\ q2[i].pages \in Sizes
             /\ off2[i + 1] = off2[i] + q2[i].pages /\ off2[i + 1] <= t + n
  <2>1. CASE i \in 1 .. c
    <3>1. off[i + 1] = off[i] + queue[i].pages /\ off[i + 1] <= t /\ off[i] \in Nat
          /\ queue[i].pages \in Sizes
      BY <1>a, <2>1
    <3>2. queue[i].pages \in Nat  BY <3>1, <1>c
    <3> PICK o \in Nat : o = off[i + 1]  BY <3>1, <3>2
    <3>3. o <= t + n  BY <1>4, <1>8, <3>1
    <3> QED  BY <1>3, <1>6, <2>1, <3>1, <3>3
  <2>2. CASE i = c + 1
    <3>1. i + 1 = c + 2  BY <1>1, <2>2
    <3>2. t + n <= t + n  BY <1>4, <1>8
    <3> QED  BY <1>d, <1>3, <1>5, <1>6, <1>8, <2>2, <3>1, <3>2
  <2> QED  BY <1>1, <2>1, <2>2
<1>10. ASSUME NEW i \in 1 .. c, NEW k \in 1 .. queue[i].pages
       PROVE  new[Net!Wrapped(first + off[i] + k - 1)] = mem[Net!Wrapped(first + off[i] + k - 1)]
  <2>1. off[i] \in Nat /\ queue[i].pages \in Sizes /\ off[i] + queue[i].pages <= t
    BY <1>a
  <2>3. PICK o \in Nat, m \in Sizes : o = off[i] /\ m = queue[i].pages  BY <2>1
  <2>4. k \in 1 .. m /\ o + m <= t  BY <2>1, <2>3
  <2>6. t \in 0 .. Round - 1  BY <1>2
  <2>5. /\ o + k - 1 \in 0 .. t - 1 /\ o + k - 1 \in 0 .. Round - 1
        /\ first + (o + k - 1) = first + o + k - 1
        /\ Net!Wrapped(first + o + k - 1) \in RingStart .. RingStop - 1
    BY <2>4, <2>6, InTheRing
  <2>2. /\ off[i] + k - 1 \in 0 .. t - 1 /\ off[i] + k - 1 \in 0 .. Round - 1
        /\ first + (off[i] + k - 1) = first + off[i] + k - 1
        /\ Net!Wrapped(first + off[i] + k - 1) \in RingStart .. RingStop - 1
    BY <2>3, <2>5
  <2>7. ASSUME NEW l \in 1 .. n, Net!Wrapped(current + l - 1) = Net!Wrapped(first + off[i] + k - 1)
        PROVE  FALSE
    <3> PICK a, b : a = off[i] + k - 1 /\ b = t + l - 1  OBVIOUS
    <3>1. a \in 0 .. t - 1 /\ a \in 0 .. Round - 1 /\ b \in t .. Round - 1
      BY <1>7, <2>2
    <3>2. Net!Wrapped(first + a) = Net!Wrapped(first + b)
      BY <1>7, <2>2, <2>7
    <3>3. b \in 0 .. Round - 1  BY <1>8, <3>1
    <3>4. a = b  BY <3>1, <3>2, <3>3, RoundTheRing
    <3> QED  BY <1>8, <3>1, <3>4
  <2> QED  BY <1>e, <2>2, <2>7
<1>11. ASSUME NEW k \in 1 .. n
       PROVE  new[Net!Wrapped(first + t + k - 1)] = <<f, k, Net!Wrapped(first + (t + n)), n>>
  <2> DEFINE p == Net!Wrapped(current + k - 1)
  <2>1. p = Net!Wrapped(first + t + k - 1) /\ p = Net!Wrapped(first + (t + k - 1))
        /\ t + k - 1 \in 0 .. Round - 1
    BY <1>7, <1>8
  <2>2. p \in RingStart .. RingStop - 1  BY <2>1, RoundTheRing
  <2>3. ASSUME NEW l \in 1 .. n, Net!Wrapped(current + l - 1) = p PROVE l = k
    <3>1. t + l - 1 \in 0 .. Round - 1 /\ Net!Wrapped(first + (t + l - 1)) = p
      BY <1>7, <1>8, <2>3
    <3>2. t + l - 1 = t + k - 1  BY <2>1, <3>1, RoundTheRing
    <3> QED  BY <1>8, <3>2
  <2>4. PICK l \in 1 .. n : /\ Net!Wrapped(current + l - 1) = p
                            /\ new[p] = <<f, l, Net!Wrapped(current + n), n>>
    BY <1>e, <2>2
  <2>5. l = k  BY <2>3, <2>4
  <2> QED  BY <1>7, <2>1, <2>4, <2>5
<1>12. ASSUME NEW i \in 1 .. c + 1, NEW k \in 1 .. q2[i].pages
       PROVE  new[Net!Wrapped(first + off2[i] + k - 1)] =
                <<q2[i].frame, k, Net!Wrapped(first + off2[i + 1]), q2[i].pages>>
  <2>1. CASE i \in 1 .. c
    <3>1. q2[i] = queue[i] /\ off2[i] = off[i] /\ off2[i + 1] = off[i + 1]  BY <1>3, <1>6, <2>1
    <3>2. k \in 1 .. queue[i].pages  BY <3>1
    <3>3. new[Net!Wrapped(first + off[i] + k - 1)] =
            <<queue[i].frame, k, Net!Wrapped(first + off[i + 1]), queue[i].pages>>
      BY <1>b, <1>10, <2>1, <3>2
    <3> QED  BY <3>1, <3>3
  <2>2. CASE i = c + 1
    <3>1. q2[i] = r /\ off2[i] = t /\ off2[i + 1] = t + n
      <4>1. i + 1 = c + 2  BY <1>1, <2>2
      <4> QED  BY <1>3, <1>5, <1>6, <2>2, <4>1
    <3>2. k \in 1 .. n  BY <1>d, <3>1
    <3> QED  BY <1>d, <1>11, <3>1, <3>2
  <2> QED  BY <1>1, <2>1, <2>2
<1>13. Len(q2) = c + 1 /\ Len(q2) + 1 = c + 2  BY <1>1, <1>3
<1>14. off2[1] = 0 /\ off2[Len(q2) + 1] = t + n /\ t + n \in 0 .. Round - 1
       /\ Net!Wrapped(current + n) = Net!Wrapped(first + off2[Len(q2) + 1])
  BY <1>5, <1>6, <1>7, <1>8, <1>13
<1>15. \A i \in 1 .. Len(q2) :
         q2[i].pages \in Sizes /\ off2[i + 1] = off2[i] + q2[i].pages
  BY <1>9, <1>13
<1>18. ASSUME NEW i \in 1 .. Len(q2) + 1, NEW j \in 1 .. Len(q2) + 1, i <= j
       PROVE  off2[i] \in Nat /\ off2[i] <= off2[j]
  <2>1. i \in 1 .. c + 2 /\ j \in 1 .. c + 2  BY <1>13
  <2>2. \A k, l \in 1 .. c + 1 : k <= l => off[k] \in Nat /\ off[k] <= off[l]
    BY DEF Held, c
  <2>3. CASE j \in 1 .. c + 1
    <3>1. i \in 1 .. c + 1  BY <1>1, <1>18, <2>1, <2>3
    <3> QED  BY <1>5, <1>18, <2>2, <2>3, <3>1
  <2>4. CASE j = c + 2 /\ i \in 1 .. c + 1
    <3>1. c + 1 \in 1 .. c + 1 /\ i <= c + 1  BY <1>1, <2>4
    <3>2. off[i] \in Nat /\ off[i] <= t  BY <2>2, <2>4, <3>1 DEF t
    <3>3. off2[j] = t + n /\ off2[i] = off[i]  BY <1>5, <2>4
    <3> QED  BY <1>4, <1>8, <3>2, <3>3
  <2>5. CASE j = c + 2 /\ i = c + 2
    BY <1>5, <1>8, <2>5
  <2> QED  BY <1>1, <2>1, <2>3, <2>4, <2>5
<1>16. \A i \in 1 .. Len(q2) : \A k \in 1 .. q2[i].pages :
         new[Net!Wrapped(first + off2[i] + k - 1)] =
           <<q2[i].frame, k, Net!Wrapped(first + off2[i + 1]), q2[i].pages>>
  BY <1>12, <1>13
<1>17. Held(first, off2, Net!Wrapped(current + n), new, q2)
  BY <1>14, <1>15, <1>16, <1>18 DEF Held
<1> QED  BY <1>d, <1>17 DEF q2

LEMMA HeldTail ==
  ASSUME NetAssumed, NEW first \in RingStart .. RingStop - 1, NEW off, NEW current, NEW mem,
         NEW S, NEW queue \in Seq(S), queue # <<>>,
         Held(first, off, current, mem, queue)
  PROVE  /\ Net!Wrapped(first + queue[1].pages) \in RingStart .. RingStop - 1
         /\ \E off2 : Held(Net!Wrapped(first + queue[1].pages), off2, current, mem, Tail(queue))
<1> DEFINE c == Len(queue)
           m == queue[1].pages
           off2 == [i \in 1 .. c |-> off[i + 1] - m]
           next == Net!Wrapped(first + m)
           q2 == Tail(queue)
<1>1. c \in Nat /\ c >= 1  BY LenProperties, EmptySeq
<1>2. Len(q2) = c - 1 /\ \A i \in 1 .. c - 1 : q2[i] = queue[i + 1]
  BY HeadTailProperties
<1> HIDE DEF q2, c
<1>3. off[1] = 0 /\ off[c + 1] \in 0 .. Round - 1 /\ current = Net!Wrapped(first + off[c + 1])
  BY DEF Held, c
<1>4. \A i, j \in 1 .. c + 1 : i <= j => off[i] \in Nat /\ off[i] <= off[j]
  BY DEF Held, c
<1>5. \A i \in 1 .. c : queue[i].pages \in Sizes /\ off[i + 1] = off[i] + queue[i].pages
  BY DEF Held, c
<1>6. \A i \in 1 .. c : \A k \in 1 .. queue[i].pages :
        mem[Net!Wrapped(first + off[i] + k - 1)] =
          <<queue[i].frame, k, Net!Wrapped(first + off[i + 1]), queue[i].pages>>
  BY DEF Held, c
<1>7. 1 \in 1 .. c /\ 1 + 1 = 2 /\ 2 \in 1 .. c + 1 /\ c + 1 \in 1 .. c + 1  BY <1>1
<1>8. m \in Sizes /\ m \in Nat /\ off[2] = m
  <2>1. m \in Sizes /\ off[2] = off[1] + m  BY <1>5, <1>7
  <2>2. \A n \in Sizes : n \in Nat  BY DEF NetAssumed
  <2>3. m \in Nat  BY <2>1, <2>2
  <2> QED  BY <1>3, <2>1, <2>3
<1> HIDE DEF m
<1>9. \A i \in 1 .. c : off[i + 1] \in Nat /\ m <= off[i + 1]
  <2> TAKE i \in 1 .. c
  <2>1. i + 1 \in 1 .. c + 1 /\ 2 <= i + 1 /\ i + 1 <= i + 1  BY <1>1
  <2> QED  BY <1>4, <1>7, <1>8, <2>1
<1>10. m <= off[c + 1] /\ off[c + 1] \in Nat
  BY <1>1, <1>9
<1>11. \A i \in 1 .. c : off2[i] = off[i + 1] - m /\ off2[i] \in Nat
  BY <1>8, <1>9
<1> HIDE DEF off2
<1>12. m \in 0 .. Round - 1 /\ 0 \in 0 .. Round - 1
  BY <1>3, <1>8, <1>10 DEF Round, NetAssumed
<1>13. next \in RingStart .. RingStop - 1
  BY <1>12, RoundTheRing
<1>14. ASSUME NEW a \in Nat, m <= a, a <= Round
       PROVE  Net!Wrapped(next + (a - m)) = Net!Wrapped(first + a)
  <2>0. Round \in Nat /\ first \in Nat  BY DEF Round, NetAssumed
  <2>1. CASE a - m \in 0 .. Round - 1
    <3>1. m + (a - m) <= Round /\ first + m + (a - m) = first + a  BY <1>8, <1>14, <2>0
    <3> QED  BY <1>12, <2>1, <3>1, RoundTheRing
  <2>2. CASE a - m = Round
    <3>1. m = 0  BY <1>8, <1>14, <2>0, <2>2
    <3> QED  BY <1>8, <3>1 DEF NetAssumed
  <2> QED  BY <1>8, <1>14, <2>0, <2>1, <2>2
<1> HIDE DEF next
<1>15. Len(q2) + 1 = c /\ c \in 1 .. c /\ 1 \in 1 .. c  BY <1>1, <1>2
<1>16. off2[1] = 0 /\ off2[Len(q2) + 1] \in 0 .. Round - 1
  <2>1. off2[1] = off[2] - m /\ off2[c] = off[c + 1] - m  BY <1>7, <1>11, <1>15
  <2> PICK t \in 0 .. Round - 1 : t = off[c + 1]  BY <1>3
  <2>2. t - m \in 0 .. Round - 1  BY <1>8, <1>10 DEF Round, NetAssumed
  <2> QED  BY <1>8, <1>15, <2>1, <2>2
<1>17. current = Net!Wrapped(next + off2[Len(q2) + 1])
  <2>1. off2[c] = off[c + 1] - m  BY <1>11, <1>15
  <2>2. off[c + 1] <= Round  BY <1>3 DEF Round, NetAssumed
  <2> QED  BY <1>3, <1>10, <1>14, <1>15, <2>1, <2>2
<1>18. ASSUME NEW i \in 1 .. c, NEW j \in 1 .. c, i <= j
       PROVE  off2[i] \in Nat /\ off2[i] <= off2[j]
  <2>1. i + 1 \in 1 .. c + 1 /\ j + 1 \in 1 .. c + 1 /\ i + 1 <= j + 1  BY <1>1, <1>18
  <2>2. off[i + 1] <= off[j + 1] /\ off[i + 1] \in Nat /\ off[j + 1] \in Nat  BY <1>4, <1>9, <2>1
  <2> QED  BY <1>8, <1>11, <2>2
<1>19. ASSUME NEW i \in 1 .. Len(q2)
       PROVE  /\ q2[i].pages \in Sizes /\ off2[i + 1] = off2[i] + q2[i].pages
              /\ \A k \in 1 .. q2[i].pages :
                   mem[Net!Wrapped(next + off2[i] + k - 1)] =
                     <<q2[i].frame, k, Net!Wrapped(next + off2[i + 1]), q2[i].pages>>
  <2>1. i \in 1 .. c - 1 /\ i + 1 \in 1 .. c /\ i \in 1 .. c /\ q2[i] = queue[i + 1]
    BY <1>1, <1>2
  <2> DEFINE l == i + 1
  <2>2. /\ q2[i].pages \in Sizes /\ off[l + 1] = off[l] + q2[i].pages
        /\ off[l] \in Nat /\ m <= off[l] /\ off[l + 1] \in Nat /\ m <= off[l + 1]
        /\ off2[i] = off[l] - m /\ off2[i + 1] = off[l + 1] - m
    BY <1>5, <1>9, <1>11, <2>1
  <2>3. off[l + 1] <= off[c + 1]
    <3>1. l + 1 \in 1 .. c + 1 /\ l + 1 <= c + 1  BY <1>1, <2>1
    <3> QED  BY <1>4, <1>7, <3>1
  <2>4. PICK a \in Nat, b \in Nat, p \in Sizes, t \in 0 .. Round - 1 :
          a = off[l] /\ b = off[l + 1] /\ p = q2[i].pages /\ t = off[c + 1]
    BY <1>3, <2>2
  <2>5. /\ p \in Nat /\ b = a + p /\ m <= a /\ m <= b /\ b <= t
        /\ off2[i] = a - m /\ off2[i + 1] = b - m
    <3>1. p \in Nat  BY DEF NetAssumed
    <3> QED  BY <2>2, <2>3, <2>4, <3>1
  <2>6. b - m = (a - m) + p  BY <1>8, <2>5
  <2>7. Net!Wrapped(next + (b - m)) = Net!Wrapped(first + b)
    <3>1. b <= Round  BY <2>5 DEF Round, NetAssumed
    <3> QED  BY <1>14, <2>5, <3>1
  <2>8. ASSUME NEW k \in 1 .. p
        PROVE  Net!Wrapped(next + (a - m) + k - 1) = Net!Wrapped(first + a + k - 1)
    <3>1. a + p <= t  BY <2>5
    <3>2. /\ a + k - 1 \in 0 .. t - 1 /\ a + k - 1 \in 0 .. Round - 1
          /\ first + (a + k - 1) = first + a + k - 1
      BY <3>1, InTheRing
    <3>3. m <= a + k - 1 /\ a + k - 1 \in Nat /\ a + k - 1 <= Round
      BY <1>8, <2>5, <3>2 DEF Round, NetAssumed
    <3>4. next + ((a + k - 1) - m) = next + (a - m) + k - 1
      <4>1. next \in Int  BY <1>13 DEF NetAssumed
      <4> QED  BY <1>8, <2>5, <4>1
    <3> QED  BY <1>14, <3>2, <3>3, <3>4
  <2>9. \A k \in 1 .. queue[l].pages :
          mem[Net!Wrapped(first + off[l] + k - 1)] =
            <<queue[l].frame, k, Net!Wrapped(first + off[l + 1]), queue[l].pages>>
    BY <1>6, <2>1
  <2>10. ASSUME NEW k \in 1 .. p
         PROVE  mem[Net!Wrapped(next + (a - m) + k - 1)] =
                  <<q2[i].frame, k, Net!Wrapped(next + (b - m)), p>>
    <3>1. mem[Net!Wrapped(first + a + k - 1)] = <<q2[i].frame, k, Net!Wrapped(first + b), p>>
      BY <2>1, <2>4, <2>9
    <3> QED  BY <2>7, <2>8, <3>1
  <2> QED  BY <2>2, <2>4, <2>5, <2>6, <2>10
<1>20. Held(next, off2, current, mem, q2)
  BY <1>15, <1>16, <1>17, <1>18, <1>19 DEF Held
<1> QED  BY <1>13, <1>20 DEF next, q2, m

-----------------------------------------------------------------------------
(* The card and its driver: what the ring holds, where a read and a write   *)
(* have got, and what has been sent.                                        *)
NeFields == {"stopped", "boundary", "curpag", "rsar", "rcnt", "isr", "imr"}
IsCard(s) == s = [f \in NeFields |-> s[f]]
First == Net!Wrapped(ne.boundary + 1)

NetShape ==
  /\ IsCard(ne) /\ drv = [f \in {"doing", "next", "page"} |-> drv[f]]
  /\ drv.doing \in {"idle", "reading", "writing"}
  /\ net_mem = [p \in Tx .. RingStop - 1 |-> net_mem[p]]
  /\ \E S : unread \in Seq(S)
  /\ ne.stopped => unread = <<>> /\ drv.doing = "idle"

Ring ==
  ~ne.stopped /\ ~overrun =>
    /\ ne.boundary \in RingStart .. RingStop - 1
    /\ \E off : Held(First, off, ne.curpag, net_mem, unread)

(* What an overrun leaves: the card keeps to its ring.                      *)
OnRing == ~ne.stopped => ne.curpag \in RingStart .. RingStop - 1

(* A read that has still to read some pages of the first frame is at the    *)
(* first of them.                                                           *)
Reading(s, d, queue) ==
  LET n == queue[1].pages
  IN /\ queue # <<>> /\ n \in Sizes /\ s.rcnt \in 0 .. n
     /\ d.next = Net!Wrapped(Net!Wrapped(s.boundary + 1) + n)
     /\ s.rsar = Net!Wrapped(Net!Wrapped(s.boundary + 1) + (n - s.rcnt))
     /\ d.page = IF s.rcnt = n THEN <<>> ELSE <<queue[1].frame, n - s.rcnt>>

Writing(s, mem) ==
  /\ s.rcnt \in 0 .. RingStart - Tx /\ s.rsar = RingStart - s.rcnt
  /\ \A k \in 1 .. RingStart - Tx - s.rcnt : mem[Tx + k - 1] = <<"tx", k, 0, 0>>

NetTraffic ==
  /\ NetShape /\ Ring /\ OnRing
  /\ drv.doing = "reading" /\ ~overrun => Reading(ne, drv, unread)
  /\ drv.doing = "writing" => Writing(ne, net_mem)
  /\ Net!SentIntact

NetInv == NetTraffic /\ Net!CausesAnnounced

LEMMA NetIntact ==
  ASSUME NetInv
  PROVE  Net!TrafficIntact
<1>1. Net!FramesIntact
  <2> SUFFICES ASSUME drv.doing = "reading", ~overrun
               PROVE  /\ unread # <<>>
                      /\ drv.page = IF ne.rcnt = Head(unread).pages THEN <<>>
                                    ELSE <<Head(unread).frame, Head(unread).pages - ne.rcnt>>
    BY DEF Net!FramesIntact
  <2>1. Reading(ne, drv, unread)  BY DEF NetInv, NetTraffic
  <2>2. Head(unread) = unread[1]  OBVIOUS
  <2> QED  BY <2>1, <2>2 DEF Reading
<1> QED  BY <1>1 DEF NetInv, NetTraffic, Net!TrafficIntact

LEMMA NetStarts ==
  ASSUME Net!Init
  PROVE  NetInv
<1> DEFINE s == [stopped |-> TRUE, boundary |-> 0, curpag |-> 0, rsar |-> 0, rcnt |-> 0,
                 isr |-> {"reset"}, imr |-> FALSE]
<1>1. ne = s /\ net_mem = [p \in Tx .. RingStop - 1 |-> Net!Blank] /\ unread = <<>>
      /\ drv = Net!Idle /\ sent = <<>>
  BY DEF Net!Init
<1>2. IsCard(s) /\ s.stopped /\ ~s.imr
  BY DEF IsCard, NeFields
<1> HIDE DEF s
<1>3. Net!Idle = [f \in {"doing", "next", "page"} |-> Net!Idle[f]] /\ Net!Idle.doing = "idle"
  BY DEF Net!Idle
<1>4. unread \in Seq({})  BY <1>1
<1>5. NetShape
  BY <1>1, <1>2, <1>3, <1>4 DEF NetShape
<1> QED  BY <1>1, <1>2, <1>3, <1>5 DEF NetInv, NetTraffic, Ring, OnRing, Net!SentIntact, Net!CausesAnnounced

(* Every step that can raise or drop a cause that is announced sets the     *)
(* line; the reset drops them all.                                          *)
LEMMA NetAnnounced ==
  ASSUME NetInv, Net!Next
  PROVE  Net!CausesAnnounced'
<1>1. ASSUME NEW s, ne' = s, net_line' = Net!Announced(s)
      PROVE  Net!CausesAnnounced'
  BY <1>1 DEF Net!CausesAnnounced, Net!Announced
<1>2. ASSUME ne'.isr = ne.isr, ne'.imr = ne.imr, net_line' = net_line
      PROVE  Net!CausesAnnounced'
  BY <1>2 DEF Net!CausesAnnounced, NetInv
<1>3. CASE Net!Receive
  <2> PICK n \in Sizes : 
        LET s == [ne EXCEPT !.curpag = Net!Wrapped(ne.curpag + n), !.isr = @ \cup {"rx"}]
        IN ne' = s /\ Net!UpdateIrq(s)
    BY <1>3 DEF Net!Receive
  <2> QED  BY <1>1 DEF Net!UpdateIrq
<1>4. CASE Net!Setup
  BY <1>1, <1>4 DEF Net!Setup, Net!UpdateIrq
<1>5. CASE Net!ResetCard
  <2>1. ne' = [ne EXCEPT !.stopped = TRUE, !.isr = {"reset"}]  BY <1>5 DEF Net!ResetCard
  <2>2. ne'.isr = {"reset"}  BY <2>1 DEF NetInv, NetTraffic, NetShape, IsCard, NeFields
  <2> QED  BY <2>2 DEF Net!CausesAnnounced
<1>6. CASE Net!AckIsr
  BY <1>1, <1>6 DEF Net!AckIsr, Net!AfterAck
<1>7. CASE Net!ZeroTransfer
  BY <1>1, <1>7 DEF Net!ZeroTransfer, Net!UpdateIrq
<1>8. CASE Net!BeginRead
  <2>1. PICK a, b : ne' = [ne EXCEPT !.rsar = a, !.rcnt = b]  BY <1>8 DEF Net!BeginRead
  <2>2. net_line' = net_line  BY <1>8 DEF Net!BeginRead
  <2> QED  BY <1>2, <2>1, <2>2 DEF NetInv, NetTraffic, NetShape, IsCard, NeFields
<1>9. CASE Net!ReadPage
  BY <1>1, <1>9 DEF Net!ReadPage, Net!UpdateIrq
<1>10. CASE Net!Release
  <2>1. PICK a : ne' = [ne EXCEPT !.boundary = a]  BY <1>10 DEF Net!Release
  <2>2. net_line' = net_line  BY <1>10 DEF Net!Release
  <2> QED  BY <1>2, <2>1, <2>2 DEF NetInv, NetTraffic, NetShape, IsCard, NeFields
<1>11. CASE Net!BeginWrite
  <2>1. PICK a, b : ne' = [ne EXCEPT !.rsar = a, !.rcnt = b]  BY <1>11 DEF Net!BeginWrite
  <2>2. net_line' = net_line  BY <1>11 DEF Net!BeginWrite
  <2> QED  BY <1>2, <2>1, <2>2 DEF NetInv, NetTraffic, NetShape, IsCard, NeFields
<1>12. CASE Net!WritePage
  BY <1>1, <1>12 DEF Net!WritePage, Net!UpdateIrq
<1>13. CASE Net!Transmit
  BY <1>1, <1>13 DEF Net!Transmit, Net!UpdateIrq
<1> QED  BY <1>3, <1>4, <1>5, <1>6, <1>7, <1>8, <1>9, <1>10, <1>11, <1>12, <1>13 DEF Net!Next

(* The first frame, if any, begins with the first page. *)
LEMMA HeldHead ==
  ASSUME NetAssumed, NEW first \in RingStart .. RingStop - 1, NEW off, NEW current, NEW mem,
         NEW S, NEW queue \in Seq(S), Held(first, off, current, mem, queue)
  PROVE  /\ queue = <<>> => current = first
         /\ queue # <<>> =>
              /\ queue[1].pages \in Sizes /\ queue[1].pages \in 1 .. Round - 1
              /\ \A k \in 1 .. queue[1].pages :
                   mem[Net!Wrapped(first + (k - 1))] =
                     <<queue[1].frame, k, Net!Wrapped(first + queue[1].pages), queue[1].pages>>
<1>0. first \in Nat /\ Net!Wrapped(first + 0) = first /\ \A n \in Sizes : n \in Nat /\ n >= 1
  BY DEF NetAssumed, Net!Wrapped
<1>1. ASSUME queue = <<>> PROVE current = first
  <2>1. Len(queue) + 1 = 1  BY <1>1
  <2>2. off[1] = 0 /\ current = Net!Wrapped(first + off[1])  BY <2>1 DEF Held
  <2> QED  BY <1>0, <2>2
<1>2. ASSUME queue # <<>>
      PROVE  /\ queue[1].pages \in Sizes /\ queue[1].pages \in 1 .. Round - 1
             /\ \A k \in 1 .. queue[1].pages :
                  mem[Net!Wrapped(first + (k - 1))] =
                    <<queue[1].frame, k, Net!Wrapped(first + queue[1].pages), queue[1].pages>>
  <2>1. Len(queue) \in Nat /\ 1 \in 1 .. Len(queue) /\ 1 + 1 = 2
    BY <1>2, LenProperties, EmptySeq
  <2>2. /\ off[1] = 0 /\ queue[1].pages \in Sizes /\ off[2] = off[1] + queue[1].pages
        /\ off[2] <= off[Len(queue) + 1] /\ off[Len(queue) + 1] \in 0 .. Round - 1
    <3>1. off[1] = 0  BY DEF Held
    <3> QED  BY <2>1, <3>1, HeldWithin
  <2>3. PICK m \in Sizes, t \in 0 .. Round - 1 : m = queue[1].pages /\ t = off[Len(queue) + 1]
    BY <2>2
  <2>4. m \in Nat /\ m >= 1 /\ off[2] = 0 + m /\ m <= t  BY <1>0, <2>2, <2>3
  <2>5. off[2] = m  BY <2>4
  <2>6. Round \in Nat  BY DEF Round, NetAssumed
  <2>7. m \in 1 .. Round - 1  BY <2>4, <2>6
  <2>8. ASSUME NEW k \in 1 .. m PROVE first + off[1] + k - 1 = first + (k - 1)
    BY <1>0, <2>2, <2>4
  <2>9. \A k \in 1 .. queue[1].pages :
          mem[Net!Wrapped(first + off[1] + k - 1)] =
            <<queue[1].frame, k, Net!Wrapped(first + off[2]), queue[1].pages>>
    BY <2>1 DEF Held
  <2> QED  BY <2>2, <2>3, <2>5, <2>7, <2>8, <2>9
<1> QED  BY <1>1, <1>2

LEMMA FirstTwo ==
  ASSUME NEW a, NEW b, NEW c, NEW d
  PROVE  SubSeq(<<a, b, c, d>>, 1, 2) = <<a, b>>
<1> DEFINE s == SubSeq(<<a, b, c, d>>, 1, 2)
<1>1. <<a, b, c, d>> \in Seq({a, b, c, d}) /\ Len(<<a, b, c, d>>) = 4  OBVIOUS
<1>2. s \in Seq({a, b, c, d}) /\ Len(s) = 2 /\ s[1] = a /\ s[2] = b
  OBVIOUS
<1>3. <<a, b>> \in Seq({a, b, c, d}) /\ Len(<<a, b>>) = 2  OBVIOUS
<1> HIDE DEF s
<1>4. \A i \in 1 .. 2 : s[i] = <<a, b>>[i]  BY <1>2
<1>5. s = <<a, b>>  BY <1>2, <1>3, <1>4, SeqEqual
<1> QED  BY <1>5 DEF s

(* A step that leaves what the ring, the read and the write depend on.      *)
LEMMA NetSame ==
  ASSUME NetTraffic, IsCard(ne'), ne'.stopped = ne.stopped, ne'.boundary = ne.boundary,
         ne'.curpag = ne.curpag, ne'.rsar = ne.rsar, ne'.rcnt = ne.rcnt,
         UNCHANGED <<net_mem, unread, drv, sent, overrun>>
  PROVE  NetTraffic'
<1>1. NetShape'  BY DEF NetTraffic, NetShape
<1>2. First' = First  BY DEF First
<1>3. Ring'  BY <1>2 DEF NetTraffic, Ring
<1>4. (drv.doing = "reading" /\ ~overrun)' => Reading(ne, drv, unread)'
  BY DEF NetTraffic, Reading
<1>7. OnRing'  BY DEF NetTraffic, OnRing
<1>5. (drv.doing = "writing")' => Writing(ne, net_mem)'
  BY DEF NetTraffic, Writing
<1>6. Net!SentIntact'  BY DEF NetTraffic, Net!SentIntact
<1> QED  BY <1>1, <1>3, <1>4, <1>5, <1>6, <1>7 DEF NetTraffic

LEMMA NetSetup ==
  ASSUME NetAssumed, NetTraffic, Net!Setup
  PROVE  NetTraffic'
<1>1. ne.stopped /\ unread = <<>> /\ drv.doing = "idle" /\ UNCHANGED <<net_mem, unread, drv, sent, overrun>>
  BY DEF Net!Setup, NetTraffic, NetShape
<1>2. ne' = [ne EXCEPT !.stopped = FALSE, !.boundary = RingStop - 1, !.curpag = RingStart,
                       !.isr = {}, !.imr = TRUE]
  BY DEF Net!Setup
<1>3. IsCard(ne') /\ ~ne'.stopped /\ ne'.boundary = RingStop - 1 /\ ne'.curpag = RingStart
  BY <1>2 DEF NetTraffic, NetShape, IsCard, NeFields
<1>4. RingStop - 1 \in RingStart .. RingStop - 1 /\ RingStart \in RingStart .. RingStop - 1
      /\ Net!Wrapped(RingStop - 1 + 1) = RingStart
  BY DEF NetAssumed, Net!Wrapped
<1>5. \E off : Held(RingStart, off, RingStart, net_mem, <<>>)
  BY <1>4, HeldEmpty
<1>6. First' = RingStart  BY <1>3, <1>4 DEF First
<1>7. Ring'  BY <1>1, <1>3, <1>4, <1>5, <1>6 DEF Ring
<1>8. NetShape'  BY <1>1, <1>3 DEF NetTraffic, NetShape
<1>9. Net!SentIntact'  BY <1>1 DEF NetTraffic, Net!SentIntact
<1>10. OnRing'  BY <1>3, <1>4 DEF OnRing
<1> QED  BY <1>1, <1>7, <1>8, <1>9, <1>10 DEF NetTraffic

LEMMA NetReset ==
  ASSUME NetTraffic, Net!ResetCard
  PROVE  NetTraffic'
<1>1. ne' = [ne EXCEPT !.stopped = TRUE, !.isr = {"reset"}] /\ unread' = <<>> /\ drv' = Net!Idle
      /\ UNCHANGED <<net_mem, sent>>
  BY DEF Net!ResetCard
<1>2. IsCard(ne') /\ ne'.stopped
  BY <1>1 DEF NetTraffic, NetShape, IsCard, NeFields
<1>3. drv' = [f \in {"doing", "next", "page"} |-> drv'[f]] /\ drv'.doing = "idle"
  BY <1>1 DEF Net!Idle
<1>4. unread' \in Seq({})  BY <1>1
<1>5. NetShape'  BY <1>1, <1>2, <1>3, <1>4 DEF NetTraffic, NetShape
<1>6. Net!SentIntact'  BY <1>1 DEF NetTraffic, Net!SentIntact
<1> QED  BY <1>2, <1>3, <1>5, <1>6 DEF NetTraffic, Ring, OnRing

LEMMA NetBeginRead ==
  ASSUME NetAssumed, NetTraffic, Net!BeginRead, ~overrun
  PROVE  NetTraffic'
<1>1. /\ ~ne.stopped /\ drv.doing = "idle" /\ First # ne.curpag
      /\ drv' = [doing |-> "reading", next |-> net_mem[First][3], page |-> <<>>]
      /\ ne' = [ne EXCEPT !.rsar = First, !.rcnt = net_mem[First][4]]
      /\ UNCHANGED <<net_mem, unread, sent, overrun>>
  BY DEF Net!BeginRead, First
<1>2. ne.boundary \in RingStart .. RingStop - 1  BY <1>1 DEF NetTraffic, Ring
<1>3. First \in RingStart .. RingStop - 1  BY <1>2 DEF First, NetAssumed, Net!Wrapped
<1>4. PICK off : Held(First, off, ne.curpag, net_mem, unread)  BY <1>1 DEF NetTraffic, Ring
<1>5. PICK S : unread \in Seq(S)  BY DEF NetTraffic, NetShape
<1>6. PICK first \in RingStart .. RingStop - 1 : first = First  BY <1>3
<1>7. unread # <<>>
  BY <1>1, <1>4, <1>5, <1>6, HeldHead
<1>8. PICK n : n = unread[1].pages  OBVIOUS
<1>9. /\ n \in Sizes /\ n \in 1 .. Round - 1
      /\ \A k \in 1 .. n : net_mem[Net!Wrapped(first + (k - 1))] =
                             <<unread[1].frame, k, Net!Wrapped(first + n), n>>
  <2>1. Held(first, off, ne.curpag, net_mem, unread)  BY <1>4, <1>6
  <2>2. unread[1].pages \in Sizes  BY <1>5, <1>7, <2>1, HeldHead
  <2>3. /\ unread[1].pages \in 1 .. Round - 1
        /\ \A k \in 1 .. unread[1].pages :
             net_mem[Net!Wrapped(first + (k - 1))] =
               <<unread[1].frame, k, Net!Wrapped(first + unread[1].pages), unread[1].pages>>
    BY <1>5, <1>7, <2>1, HeldHead
  <2> QED  BY <1>8, <2>2, <2>3
<1>10. Net!Wrapped(first + 0) = first /\ n - n = 0 /\ n \in 0 .. n /\ 1 \in 1 .. n /\ 1 - 1 = 0
  BY <1>9 DEF NetAssumed, Net!Wrapped, Round
<1>11. net_mem[first] = <<unread[1].frame, 1, Net!Wrapped(first + n), n>>
  BY <1>9, <1>10
<1>12. net_mem[first][3] = Net!Wrapped(first + n) /\ net_mem[first][4] = n
  BY <1>11
<1>13. /\ IsCard(ne') /\ ne'.stopped = ne.stopped /\ ne'.boundary = ne.boundary
       /\ ne'.curpag = ne.curpag /\ ne'.rsar = first /\ ne'.rcnt = n
  <2> PICK m : m = net_mem[First][4]  OBVIOUS
  <2>1. ne' = [ne EXCEPT !.rsar = First, !.rcnt = m]  BY <1>1
  <2>2. m = n  BY <1>6, <1>12
  <2> QED  BY <1>6, <2>1, <2>2 DEF NetTraffic, NetShape, IsCard, NeFields
<1>14. /\ drv' = [f \in {"doing", "next", "page"} |-> drv'[f]] /\ drv'.doing = "reading"
       /\ drv'.next = Net!Wrapped(first + n) /\ drv'.page = <<>>
  <2> PICK m : m = net_mem[First][3]  OBVIOUS
  <2>1. drv' = [doing |-> "reading", next |-> m, page |-> <<>>]  BY <1>1
  <2>2. m = Net!Wrapped(first + n)  BY <1>6, <1>12
  <2> QED  BY <2>1, <2>2
<1>15. First' = First  BY <1>13 DEF First
<1>16. NetShape'  BY <1>1, <1>13, <1>14 DEF NetTraffic, NetShape
<1>17. Ring'  BY <1>1, <1>13, <1>15 DEF NetTraffic, Ring
<1>18. Reading(ne, drv, unread)'
  <2>1. Net!Wrapped(ne'.boundary + 1) = first  BY <1>6, <1>13 DEF First
  <2> QED  BY <1>1, <1>7, <1>8, <1>9, <1>10, <1>13, <1>14, <2>1 DEF Reading
<1>19. Net!SentIntact'  BY <1>1 DEF NetTraffic, Net!SentIntact
<1>20. OnRing'  BY <1>13 DEF NetTraffic, OnRing
<1> QED  BY <1>14, <1>16, <1>17, <1>18, <1>19, <1>20 DEF NetTraffic

LEMMA NetReadPage ==
  ASSUME NetAssumed, NetTraffic, Net!ReadPage, ~overrun
  PROVE  NetTraffic'
<1>1. /\ drv.doing = "reading" /\ ne.rcnt > 0 /\ ne' = Net!AfterPage(ne)
      /\ drv' = [drv EXCEPT !.page = SubSeq(net_mem[ne.rsar], 1, 2)]
      /\ UNCHANGED <<net_mem, unread, sent, overrun>>
  BY DEF Net!ReadPage
<1>2. ~ne.stopped /\ Reading(ne, drv, unread)  BY <1>1 DEF NetTraffic, NetShape
<1>3. First \in RingStart .. RingStop - 1  BY <1>2 DEF NetTraffic, Ring, First, NetAssumed, Net!Wrapped
<1>4. PICK off : Held(First, off, ne.curpag, net_mem, unread)  BY <1>2 DEF NetTraffic, Ring
<1>5. PICK S : unread \in Seq(S)  BY DEF NetTraffic, NetShape
<1>6. PICK first \in RingStart .. RingStop - 1 : first = First  BY <1>3
<1>7. PICK n, left, at : n = unread[1].pages /\ left = ne.rcnt /\ at = ne.rsar  OBVIOUS
<1>8. /\ n \in Sizes /\ left \in 0 .. n /\ unread # <<>> /\ at = Net!Wrapped(first + (n - left))
      /\ drv.next = Net!Wrapped(first + n)
  BY <1>2, <1>6, <1>7 DEF Reading, First
<1>9. /\ n \in 1 .. Round - 1
      /\ \A k \in 1 .. n : net_mem[Net!Wrapped(first + (k - 1))] =
                             <<unread[1].frame, k, Net!Wrapped(first + n), n>>
  <2>1. unread # <<>> /\ Held(first, off, ne.curpag, net_mem, unread)
    BY <1>4, <1>6, <1>8
  <2>2. /\ unread[1].pages \in 1 .. Round - 1
        /\ \A k \in 1 .. unread[1].pages :
             net_mem[Net!Wrapped(first + (k - 1))] =
               <<unread[1].frame, k, Net!Wrapped(first + unread[1].pages), unread[1].pages>>
    BY <1>5, <2>1, HeldHead
  <2> QED  BY <1>7, <2>2
<1>10. left \in 1 .. n  BY <1>1, <1>7, <1>8
<1>11. PICK k \in 1 .. n : k = n - left + 1  BY <1>9, <1>10
<1>12. n - left = k - 1 /\ n - (left - 1) = k /\ left - 1 \in 0 .. n /\ left - 1 # n
  BY <1>9, <1>10, <1>11
<1>13. net_mem[at] = <<unread[1].frame, k, Net!Wrapped(first + n), n>>
  BY <1>8, <1>9, <1>12
<1>14. SubSeq(net_mem[at], 1, 2) = <<unread[1].frame, k>>
  BY <1>13, FirstTwo
<1>15. (IF at + 1 = RingStop THEN RingStart ELSE at + 1) = Net!Wrapped(first + k)
  <2>1. k \in 1 .. Round - 1 /\ n - left = k - 1  BY <1>9, <1>12 DEF Round, NetAssumed
  <2>2. at = Net!Wrapped(first + (k - 1))  BY <1>8, <2>1
  <2> QED  BY <2>1, <2>2 DEF Round, NetAssumed, Net!Wrapped
<1>16. /\ IsCard(ne') /\ ne'.stopped = ne.stopped /\ ne'.boundary = ne.boundary
       /\ ne'.curpag = ne.curpag /\ ne'.rsar = Net!Wrapped(first + k) /\ ne'.rcnt = left - 1
  <2> PICK a, b, c : /\ a = IF ne.rsar + 1 = RingStop THEN RingStart ELSE ne.rsar + 1
                     /\ b = IF ne.rcnt <= 1 THEN 0 ELSE ne.rcnt - 1
                     /\ c = IF ne.rcnt <= 1 THEN ne.isr \cup {"rdc"} ELSE ne.isr
    OBVIOUS
  <2>1. ne' = [ne EXCEPT !.rsar = a, !.rcnt = b, !.isr = c]  BY <1>1 DEF Net!AfterPage
  <2>2. a = Net!Wrapped(first + k)  BY <1>7, <1>15
  <2>3. b = IF left <= 1 THEN 0 ELSE left - 1  BY <1>7
  <2>4. (IF left <= 1 THEN 0 ELSE left - 1) = left - 1  BY <1>9, <1>10
  <2> QED  BY <2>1, <2>2, <2>3, <2>4 DEF NetTraffic, NetShape, IsCard, NeFields
<1>17. /\ drv' = [f \in {"doing", "next", "page"} |-> drv'[f]] /\ drv'.doing = "reading"
       /\ drv'.next = drv.next /\ drv'.page = <<unread[1].frame, k>>
  <2> PICK p : p = <<unread[1].frame, k>>  OBVIOUS
  <2>1. drv' = [drv EXCEPT !.page = p]  BY <1>1, <1>7, <1>14
  <2> QED  BY <1>1, <2>1 DEF NetTraffic, NetShape
<1>18. First' = First  BY <1>16 DEF First
<1>19. NetShape'  BY <1>1, <1>2, <1>16, <1>17 DEF NetTraffic, NetShape
<1>20. Ring'  BY <1>1, <1>16, <1>18 DEF NetTraffic, Ring
<1>21. Reading(ne, drv, unread)'
  <2>1. Net!Wrapped(ne'.boundary + 1) = first  BY <1>6, <1>16 DEF First
  <2> QED  BY <1>1, <1>7, <1>8, <1>12, <1>16, <1>17, <2>1 DEF Reading
<1>22. Net!SentIntact'  BY <1>1 DEF NetTraffic, Net!SentIntact
<1>23. OnRing'  BY <1>16 DEF NetTraffic, OnRing
<1> QED  BY <1>17, <1>19, <1>20, <1>21, <1>22, <1>23 DEF NetTraffic

LEMMA NetRelease ==
  ASSUME NetAssumed, NetTraffic, Net!Release, ~overrun
  PROVE  NetTraffic'
<1>1. /\ drv.doing = "reading" /\ ne' = [ne EXCEPT !.boundary = Net!Before(drv.next)]
      /\ drv' = Net!Idle /\ unread' = Tail(unread) /\ UNCHANGED <<net_mem, sent, overrun>>
  BY DEF Net!Release
<1>2. ~ne.stopped /\ Reading(ne, drv, unread)  BY <1>1 DEF NetTraffic, NetShape
<1>3. First \in RingStart .. RingStop - 1  BY <1>2 DEF NetTraffic, Ring, First, NetAssumed, Net!Wrapped
<1>4. PICK off : Held(First, off, ne.curpag, net_mem, unread)  BY <1>2 DEF NetTraffic, Ring
<1>5. PICK S : unread \in Seq(S)  BY DEF NetTraffic, NetShape
<1>6. PICK first \in RingStart .. RingStop - 1 : first = First  BY <1>3
<1>7. PICK next : next = Net!Wrapped(first + unread[1].pages)  OBVIOUS
<1>8. unread # <<>> /\ drv.next = next
  BY <1>2, <1>6, <1>7 DEF Reading, First
<1>9. next \in RingStart .. RingStop - 1 /\ \E off2 : Held(next, off2, ne.curpag, net_mem, Tail(unread))
  BY <1>4, <1>5, <1>6, <1>7, <1>8, HeldTail
<1>10. Net!Before(next) \in RingStart .. RingStop - 1 /\ Net!Wrapped(Net!Before(next) + 1) = next
  BY <1>9 DEF NetAssumed, Net!Before, Net!Wrapped
<1>11. /\ IsCard(ne') /\ ne'.stopped = ne.stopped /\ ne'.boundary = Net!Before(next)
       /\ ne'.curpag = ne.curpag
  BY <1>1, <1>8 DEF NetTraffic, NetShape, IsCard, NeFields
<1>12. drv' = [f \in {"doing", "next", "page"} |-> drv'[f]] /\ drv'.doing = "idle"
  BY <1>1 DEF Net!Idle
<1>13. unread' \in Seq(S)  BY <1>1, <1>5, <1>8
<1>14. NetShape'  BY <1>1, <1>2, <1>11, <1>12, <1>13 DEF NetTraffic, NetShape
<1>15. First' = next  BY <1>10, <1>11 DEF First
<1>16. Ring'  BY <1>1, <1>9, <1>10, <1>11, <1>15 DEF Ring
<1>17. Net!SentIntact'  BY <1>1 DEF NetTraffic, Net!SentIntact
<1>18. OnRing'  BY <1>11 DEF NetTraffic, OnRing
<1> QED  BY <1>12, <1>14, <1>16, <1>17, <1>18 DEF NetTraffic

(* The reads of a ring that has been overrun. *)
LEMMA NetReadOver ==
  ASSUME NetTraffic, overrun, Net!BeginRead \/ Net!ReadPage \/ Net!Release
  PROVE  NetTraffic'
<1>1. UNCHANGED <<net_mem, sent, overrun>>
  BY DEF Net!BeginRead, Net!ReadPage, Net!Release
<1>2. IsCard(ne') /\ ne'.stopped = ne.stopped /\ ne'.curpag = ne.curpag
  <2>1. ASSUME NEW a, NEW b, NEW c, NEW d, ne' = [ne EXCEPT !.rsar = a, !.rcnt = b, !.isr = c, !.boundary = d]
        PROVE  IsCard(ne') /\ ne'.stopped = ne.stopped /\ ne'.curpag = ne.curpag
    BY <2>1 DEF NetTraffic, NetShape, IsCard, NeFields
  <2>2. CASE Net!BeginRead
    <3>1. PICK a, b : ne' = [ne EXCEPT !.rsar = a, !.rcnt = b]  BY <2>2 DEF Net!BeginRead
    <3> QED  BY <3>1 DEF NetTraffic, NetShape, IsCard, NeFields
  <2>3. CASE Net!ReadPage
    <3>1. PICK a, b, c : ne' = [ne EXCEPT !.rsar = a, !.rcnt = b, !.isr = c]
      BY <2>3 DEF Net!ReadPage, Net!AfterPage
    <3> QED  BY <3>1 DEF NetTraffic, NetShape, IsCard, NeFields
  <2>4. CASE Net!Release
    <3>1. PICK a : ne' = [ne EXCEPT !.boundary = a]  BY <2>4 DEF Net!Release
    <3> QED  BY <3>1 DEF NetTraffic, NetShape, IsCard, NeFields
  <2> QED  BY <2>2, <2>3, <2>4
<1>3. /\ ~ne.stopped /\ drv' = [f \in {"doing", "next", "page"} |-> drv'[f]]
      /\ drv'.doing \in {"idle", "reading"}
  <2>1. CASE Net!BeginRead
    <3>1. ~ne.stopped /\ \E a : drv' = [doing |-> "reading", next |-> a, page |-> <<>>]
      BY <2>1 DEF Net!BeginRead
    <3> QED  BY <3>1
  <2>2. CASE Net!ReadPage
    <3>1. drv.doing = "reading" /\ \E a : drv' = [drv EXCEPT !.page = a]
      BY <2>2 DEF Net!ReadPage
    <3> QED  BY <3>1 DEF NetTraffic, NetShape
  <2>3. CASE Net!Release
    <3>1. drv.doing = "reading" /\ drv' = Net!Idle  BY <2>3 DEF Net!Release
    <3> QED  BY <3>1 DEF Net!Idle, NetTraffic, NetShape
  <2> QED  BY <2>1, <2>2, <2>3
<1>4. \E S : unread' \in Seq(S)
  <2>1. CASE unread' = unread  BY <2>1 DEF NetTraffic, NetShape
  <2>2. CASE unread' = <<>>
    <3>1. unread' \in Seq({})  BY <2>2
    <3> QED  BY <3>1
  <2> QED  BY <2>1, <2>2 DEF Net!BeginRead, Net!ReadPage, Net!Release
<1>5. NetShape'  BY <1>1, <1>2, <1>3, <1>4 DEF NetTraffic, NetShape
<1>6. Ring' /\ OnRing'  BY <1>1, <1>2 DEF NetTraffic, Ring, OnRing
<1>7. Net!SentIntact'  BY <1>1 DEF NetTraffic, Net!SentIntact
<1> QED  BY <1>1, <1>3, <1>5, <1>6, <1>7 DEF NetTraffic

LEMMA NetReceive ==
  ASSUME NetAssumed, NetTraffic, Net!Receive
  PROVE  NetTraffic'
<1>a. PICK n \in Sizes :
        LET kept == IF overrun' THEN <<>> ELSE unread
            f == CHOOSE g \in Frames : \A i \in DOMAIN kept : kept[i].frame # g
            first == ne.curpag
            next == Net!Wrapped(first + n)
            page(k) == Net!Wrapped(first + k - 1)
        IN /\ net_mem' = [p \in DOMAIN net_mem |->
                IF \E k \in 1 .. n : page(k) = p
                THEN <<f, CHOOSE k \in 1 .. n : page(k) = p, next, n>> ELSE net_mem[p]]
           /\ unread' = IF overrun' THEN <<>> ELSE Append(kept, [frame |-> f, pages |-> n])
           /\ LET s == [ne EXCEPT !.curpag = next, !.isr = @ \cup {"rx"}]
              IN ne' = s /\ Net!UpdateIrq(s)
  BY Zenon DEF Net!Receive
<1>b. PICK f : f = LET kept == IF overrun' THEN <<>> ELSE unread
                   IN CHOOSE g \in Frames : \A i \in DOMAIN kept : kept[i].frame # g
  OBVIOUS
<1>1. /\ unread' = IF overrun' THEN <<>> ELSE Append(unread, [frame |-> f, pages |-> n])
      /\ ne' = [ne EXCEPT !.curpag = Net!Wrapped(ne.curpag + n), !.isr = @ \cup {"rx"}]
  BY <1>a, <1>b
<1>d. PICK last : last = Net!Wrapped(ne.curpag + n)  OBVIOUS
<1>e. /\ DOMAIN net_mem' = DOMAIN net_mem /\ net_mem' = [p \in DOMAIN net_mem |-> net_mem'[p]]
      /\ \A p \in DOMAIN net_mem :
           net_mem'[p] = IF \E k \in 1 .. n : Net!Wrapped(ne.curpag + k - 1) = p
                         THEN <<f, CHOOSE k \in 1 .. n : Net!Wrapped(ne.curpag + k - 1) = p, last, n>>
                         ELSE net_mem[p]
  BY <1>a, <1>b, <1>d
<1>f. ASSUME NEW p \in DOMAIN net_mem
      PROVE  IF \E k \in 1 .. n : Net!Wrapped(ne.curpag + k - 1) = p
             THEN \E k \in 1 .. n : /\ Net!Wrapped(ne.curpag + k - 1) = p
                                    /\ net_mem'[p] = <<f, k, last, n>>
             ELSE net_mem'[p] = net_mem[p]
  <2> DEFINE chosen == CHOOSE k \in 1 .. n : Net!Wrapped(ne.curpag + k - 1) = p
  <2>1. (\E k \in 1 .. n : Net!Wrapped(ne.curpag + k - 1) = p)
           => chosen \in 1 .. n /\ Net!Wrapped(ne.curpag + chosen - 1) = p
    OBVIOUS
  <2>2. net_mem'[p] = IF \E k \in 1 .. n : Net!Wrapped(ne.curpag + k - 1) = p
                      THEN <<f, chosen, last, n>> ELSE net_mem[p]
    BY <1>e
  <2> HIDE DEF chosen
  <2> QED  BY <2>1, <2>2
<1>2. /\ ~ne.stopped /\ ~Net!BufferFull(ne) /\ UNCHANGED <<drv, sent>>
      /\ overrun' = (overrun \/ ne.curpag = ne.boundary)
  BY DEF Net!Receive
<1>3. PICK cur, mem, queue : cur = ne.curpag /\ mem = net_mem /\ queue = unread  OBVIOUS
<1>4. cur \in RingStart .. RingStop - 1 /\ n \in 1 .. Round
  BY <1>2, <1>3 DEF NetTraffic, OnRing, NetAssumed, Round
<1>5. /\ Net!Wrapped(cur + n) \in RingStart .. RingStop - 1
      /\ \A k \in 1 .. n : Net!Wrapped(cur + k - 1) \in RingStart .. RingStop - 1
  BY <1>4 DEF NetAssumed, Round, Net!Wrapped
<1>6. mem = [p \in Tx .. RingStop - 1 |-> mem[p]] /\ DOMAIN mem = Tx .. RingStop - 1
  BY <1>3 DEF NetTraffic, NetShape
<1>7. /\ net_mem' = [p \in Tx .. RingStop - 1 |-> net_mem'[p]]
      /\ \A p \in Tx .. RingStop - 1 :
           IF \E k \in 1 .. n : Net!Wrapped(cur + k - 1) = p
           THEN \E k \in 1 .. n : /\ Net!Wrapped(cur + k - 1) = p
                                  /\ net_mem'[p] = <<f, k, Net!Wrapped(cur + n), n>>
           ELSE net_mem'[p] = mem[p]
  BY <1>d, <1>e, <1>f, <1>3, <1>6
<1>8. /\ IsCard(ne') /\ ne'.stopped = ne.stopped /\ ne'.boundary = ne.boundary
      /\ ne'.curpag = Net!Wrapped(cur + n) /\ ne'.rsar = ne.rsar /\ ne'.rcnt = ne.rcnt
  BY <1>1, <1>3 DEF NetTraffic, NetShape, IsCard, NeFields
<1>9. OnRing'  BY <1>5, <1>8 DEF OnRing
<1>10. ASSUME Writing(ne, net_mem) PROVE Writing(ne, net_mem)'
  <2>1. ASSUME NEW p \in Tx .. RingStart - 1 PROVE net_mem'[p] = net_mem[p]
    <3>1. p \in Tx .. RingStop - 1 /\ p \notin RingStart .. RingStop - 1  BY DEF NetAssumed
    <3> QED  BY <1>3, <1>5, <1>7, <3>1
  <2>2. PICK left \in 0 .. RingStart - Tx : left = ne.rcnt  BY <1>10 DEF Writing
  <2>3. \A k \in 1 .. RingStart - Tx - left : Tx + k - 1 \in Tx .. RingStart - 1
    BY DEF NetAssumed
  <2> QED  BY <1>8, <1>10, <2>1, <2>2, <2>3 DEF Writing
<1>11. Net!SentIntact'  BY <1>2 DEF NetTraffic, Net!SentIntact
<1>12. CASE overrun'
  <2>1. unread' \in Seq({})  BY <1>1, <1>12
  <2>2. NetShape'  BY <1>2, <1>7, <1>8, <2>1 DEF NetTraffic, NetShape
  <2> QED  BY <1>2, <1>9, <1>10, <1>11, <1>12, <2>2 DEF NetTraffic, Ring
<1>13. CASE ~overrun'
  <2>1. ~overrun /\ ne.curpag # ne.boundary  BY <1>2, <1>13
  <2>2. First \in RingStart .. RingStop - 1 /\ ne.boundary \in RingStart .. RingStop - 1
    BY <1>2, <2>1 DEF NetTraffic, Ring, First, NetAssumed, Net!Wrapped
  <2>3. PICK off : Held(First, off, ne.curpag, net_mem, unread)
    BY <1>2, <2>1 DEF NetTraffic, Ring
  <2>4. PICK S : unread \in Seq(S)  BY DEF NetTraffic, NetShape
  <2>5. PICK first \in RingStart .. RingStop - 1 : first = First  BY <2>2
  <2>6. PICK t : t = off[Len(queue) + 1]  OBVIOUS
  <2>7. Held(first, off, cur, mem, queue) /\ t \in 0 .. Round - 1 /\ cur = Net!Wrapped(first + t)
    BY <1>3, <2>3, <2>5, <2>6 DEF Held
  <2>8. t + n <= Round - 1
    <3>1. PICK b \in RingStart .. RingStop - 1 : b = ne.boundary  BY <2>2
    <3>2. Net!Wrapped(Net!Wrapped(b + 1) + t) # b
      BY <1>3, <2>1, <2>5, <2>7, <3>1 DEF First
    <3>3. t \in 0 .. Round - 2  BY <2>7, <3>2, NotFull
    <3>4. Net!Avail(ne) = Round - 1 - t
      BY <1>3, <2>2, <2>5, <2>7, <3>3, Room DEF First
    <3>5. ~(Round - 1 - t < MaxPages)  BY <1>2, <3>4 DEF Net!BufferFull
    <3> QED  BY <2>7, <3>5 DEF NetAssumed, Round
  <2>9. PICK new : new = net_mem'  OBVIOUS
  <2>10. PICK r : r = [frame |-> f, pages |-> n]  OBVIOUS
  <2>11. r.frame = f /\ r.pages = n  BY <2>10
  <2>12. RingStart .. RingStop - 1 \subseteq Tx .. RingStop - 1  BY DEF NetAssumed
  <2>13. queue \in Seq(S)  BY <1>3, <2>4
  <2>14. Stored(cur, mem, new, r)
    BY <1>7, <2>9, <2>11, <2>12 DEF Stored
  <2>15. \E off2 : Held(first, off2, Net!Wrapped(cur + n), new, Append(queue, r))
    <3>1. Held(first, off, cur, mem, queue) /\ off[Len(queue) + 1] + r.pages <= Round - 1
      BY <2>6, <2>7, <2>8, <2>11
    <3>2. r.pages \in Sizes  BY <2>11
    <3>3. \E off2 : Held(first, off2, Net!Wrapped(cur + r.pages), new, Append(queue, r))
      BY <2>13, <2>14, <3>1, <3>2, HeldAppend
    <3> QED  BY <2>11, <3>3
  <2>16. First' = First  BY <1>8 DEF First
  <2>17. unread' = Append(queue, r)  BY <1>1, <1>3, <1>13, <2>10
  <2>18. unread' \in Seq(S \cup {r})
    <3>1. queue \in Seq(S \cup {r}) /\ r \in S \cup {r}  BY <2>13
    <3> QED  BY <2>17, <3>1
  <2>19. NetShape'  BY <1>2, <1>7, <1>8, <2>18 DEF NetTraffic, NetShape
  <2>20. Ring'  BY <1>2, <1>8, <2>2, <2>5, <2>9, <2>15, <2>16, <2>17 DEF Ring
  <2>21. ASSUME Reading(ne, drv, unread) PROVE Reading(ne, drv, unread)'
    <3>1. queue # <<>>  BY <1>3, <2>21 DEF Reading
    <3>2. unread'[1] = unread[1] /\ unread' # <<>>
      <4>1. queue \in Seq(S \cup {r}) /\ r \in S \cup {r}  BY <2>13
      <4>2. 1 \in 1 .. Len(queue)  BY <2>13, <3>1, LenProperties, EmptySeq
      <4>3. Append(queue, r)[1] = queue[1] /\ Append(queue, r) # <<>>
        BY <4>1, <4>2, AppendProperties
      <4> QED  BY <1>3, <2>17, <4>3
    <3> QED  BY <1>2, <1>8, <2>21, <3>2 DEF Reading
  <2> QED  BY <1>2, <1>9, <1>10, <1>11, <2>1, <2>19, <2>20, <2>21 DEF NetTraffic
<1> QED  BY <1>12, <1>13

LEMMA NetBeginWrite ==
  ASSUME NetAssumed, NetTraffic, Net!BeginWrite
  PROVE  NetTraffic'
<1>1. /\ ~ne.stopped /\ drv' = [Net!Idle EXCEPT !.doing = "writing"]
      /\ ne' = [ne EXCEPT !.rsar = Tx, !.rcnt = RingStart - Tx]
      /\ UNCHANGED <<net_mem, unread, sent, overrun>>
  BY DEF Net!BeginWrite
<1>2. /\ IsCard(ne') /\ ne'.stopped = ne.stopped /\ ne'.boundary = ne.boundary
      /\ ne'.curpag = ne.curpag /\ ne'.rsar = Tx /\ ne'.rcnt = RingStart - Tx
  BY <1>1 DEF NetTraffic, NetShape, IsCard, NeFields
<1>3. drv' = [f \in {"doing", "next", "page"} |-> drv'[f]] /\ drv'.doing = "writing"
  BY <1>1 DEF Net!Idle
<1>4. First' = First  BY <1>2 DEF First
<1>5. NetShape'  BY <1>1, <1>2, <1>3 DEF NetTraffic, NetShape
<1>6. Ring'  BY <1>1, <1>2, <1>4 DEF NetTraffic, Ring
<1>7. Writing(ne, net_mem)'
  <2>1. /\ RingStart - Tx \in 0 .. RingStart - Tx /\ Tx = RingStart - (RingStart - Tx)
        /\ 1 .. RingStart - Tx - (RingStart - Tx) = {}
    BY DEF NetAssumed
  <2> QED  BY <1>2, <2>1 DEF Writing
<1>8. Net!SentIntact'  BY <1>1 DEF NetTraffic, Net!SentIntact
<1>9. OnRing'  BY <1>2 DEF NetTraffic, OnRing
<1> QED  BY <1>3, <1>5, <1>6, <1>7, <1>8, <1>9 DEF NetTraffic

LEMMA NetWritePage ==
  ASSUME NetAssumed, NetTraffic, Net!WritePage
  PROVE  NetTraffic'
<1>1. /\ drv.doing = "writing" /\ ne.rcnt > 0 /\ ne' = Net!AfterPage(ne)
      /\ net_mem' = [net_mem EXCEPT ![ne.rsar] = <<"tx", ne.rsar - Tx + 1, 0, 0>>]
      /\ UNCHANGED <<unread, drv, sent, overrun>>
  BY DEF Net!WritePage
<1>2. ~ne.stopped /\ Writing(ne, net_mem)  BY <1>1 DEF NetTraffic, NetShape
<1>3. PICK left, at : left = ne.rcnt /\ at = ne.rsar  OBVIOUS
<1>4. /\ left \in 0 .. RingStart - Tx /\ at = RingStart - left
      /\ \A k \in 1 .. RingStart - Tx - left : net_mem[Tx + k - 1] = <<"tx", k, 0, 0>>
  BY <1>2, <1>3 DEF Writing
<1>5. left > 0  BY <1>1, <1>3
<1>6. /\ left \in 1 .. RingStart - Tx /\ at \in Tx .. RingStart - 1 /\ at \in Tx .. RingStop - 1
      /\ at \notin RingStart .. RingStop - 1 /\ at + 1 # RingStop
      /\ left - 1 \in 0 .. RingStart - Tx /\ at + 1 = RingStart - (left - 1)
      /\ (IF left <= 1 THEN 0 ELSE left - 1) = left - 1
  BY <1>4, <1>5 DEF NetAssumed
<1>7. /\ IsCard(ne') /\ ne'.stopped = ne.stopped /\ ne'.boundary = ne.boundary
      /\ ne'.curpag = ne.curpag /\ ne'.rsar = at + 1 /\ ne'.rcnt = left - 1
  <2> PICK a, b, c : /\ a = IF ne.rsar + 1 = RingStop THEN RingStart ELSE ne.rsar + 1
                     /\ b = IF ne.rcnt <= 1 THEN 0 ELSE ne.rcnt - 1
                     /\ c = IF ne.rcnt <= 1 THEN ne.isr \cup {"rdc"} ELSE ne.isr
    OBVIOUS
  <2>1. ne' = [ne EXCEPT !.rsar = a, !.rcnt = b, !.isr = c]  BY <1>1 DEF Net!AfterPage
  <2>2. a = at + 1  BY <1>3, <1>6
  <2>3. b = left - 1  BY <1>3, <1>6
  <2> QED  BY <2>1, <2>2, <2>3 DEF NetTraffic, NetShape, IsCard, NeFields
<1>8. PICK page : page = <<"tx", at - Tx + 1, 0, 0>>  OBVIOUS
<1>9. /\ net_mem' = [p \in Tx .. RingStop - 1 |-> net_mem'[p]]
      /\ net_mem'[at] = page
      /\ \A p \in Tx .. RingStop - 1 : p # at => net_mem'[p] = net_mem[p]
  <2>1. net_mem' = [net_mem EXCEPT ![at] = page]  BY <1>1, <1>3, <1>8
  <2> QED  BY <1>6, <2>1 DEF NetTraffic, NetShape
<1>10. First' = First  BY <1>7 DEF First
<1>11. NetShape'  BY <1>1, <1>7, <1>9 DEF NetTraffic, NetShape
<1>12. Ring'
  <2> SUFFICES ASSUME ~overrun PROVE Ring'  BY <1>1 DEF Ring
  <2>1. First \in RingStart .. RingStop - 1 /\ ne.boundary \in RingStart .. RingStop - 1
    BY <1>2 DEF NetTraffic, Ring, First, NetAssumed, Net!Wrapped
  <2>2. PICK off : Held(First, off, ne.curpag, net_mem, unread)  BY <1>2 DEF NetTraffic, Ring
  <2>3. Len(unread) \in Nat  BY LenProperties DEF NetTraffic, NetShape
  <2>4. \A p \in RingStart .. RingStop - 1 : p \in Tx .. RingStop - 1 /\ p # at
    BY <1>6 DEF NetAssumed
  <2>5. PICK new, mem, first : new = net_mem' /\ mem = net_mem /\ first = First  OBVIOUS
  <2>6. \A p \in RingStart .. RingStop - 1 : new[p] = mem[p]  BY <1>9, <2>4, <2>5
  <2>7. Held(first, off, ne.curpag, new, unread)
    BY <2>1, <2>2, <2>3, <2>5, <2>6, HeldElsewhere
  <2> QED  BY <1>1, <1>7, <1>10, <2>1, <2>5, <2>7 DEF Ring
<1>13. Writing(ne, net_mem)'
  <2>1. ASSUME NEW k \in 1 .. RingStart - Tx - (left - 1) PROVE net_mem'[Tx + k - 1] = <<"tx", k, 0, 0>>
    <3>1. CASE k \in 1 .. RingStart - Tx - left
      <4>1. Tx + k - 1 \in Tx .. RingStop - 1 /\ Tx + k - 1 # at  BY <1>4, <1>6, <3>1 DEF NetAssumed
      <4> QED  BY <1>4, <1>9, <3>1, <4>1
    <3>2. CASE k = RingStart - Tx - (left - 1)
      <4>1. Tx + k - 1 = at /\ at - Tx + 1 = k  BY <1>4, <1>6, <3>2 DEF NetAssumed
      <4> QED  BY <1>8, <1>9, <4>1
    <3> QED  BY <1>6, <3>1, <3>2 DEF NetAssumed
  <2> QED  BY <1>6, <1>7, <2>1 DEF Writing
<1>14. Net!SentIntact'  BY <1>1 DEF NetTraffic, Net!SentIntact
<1>15. OnRing'  BY <1>7 DEF NetTraffic, OnRing
<1> QED  BY <1>1, <1>11, <1>12, <1>13, <1>14, <1>15 DEF NetTraffic

LEMMA NetTransmit ==
  ASSUME NetAssumed, NetTraffic, Net!Transmit
  PROVE  NetTraffic'
<1>1. /\ drv.doing = "writing" /\ ne.rcnt = 0 /\ drv' = Net!Idle
      /\ sent' = [k \in 1 .. RingStart - Tx |-> SubSeq(net_mem[Tx + k - 1], 1, 2)]
      /\ ne' = [ne EXCEPT !.isr = @ \cup {"tx"}] /\ UNCHANGED <<net_mem, unread, overrun>>
  BY DEF Net!Transmit
<1>2. ~ne.stopped /\ Writing(ne, net_mem)  BY <1>1 DEF NetTraffic, NetShape
<1>3. /\ IsCard(ne') /\ ne'.stopped = ne.stopped /\ ne'.boundary = ne.boundary
      /\ ne'.curpag = ne.curpag
  BY <1>1 DEF NetTraffic, NetShape, IsCard, NeFields
<1>4. drv' = [f \in {"doing", "next", "page"} |-> drv'[f]] /\ drv'.doing = "idle"
  BY <1>1 DEF Net!Idle
<1>5. First' = First  BY <1>3 DEF First
<1>6. NetShape'  BY <1>1, <1>2, <1>3, <1>4 DEF NetTraffic, NetShape
<1>7. Ring'  BY <1>1, <1>3, <1>5 DEF NetTraffic, Ring
<1>8. Net!SentIntact'
  <2>0. RingStart - Tx - 0 = RingStart - Tx  BY DEF NetAssumed
  <2>1. \A k \in 1 .. RingStart - Tx : net_mem[Tx + k - 1] = <<"tx", k, 0, 0>>
    BY <1>1, <1>2, <2>0 DEF Writing
  <2>2. \A k \in 1 .. RingStart - Tx : SubSeq(net_mem[Tx + k - 1], 1, 2) = <<"tx", k>>
    BY <2>1, FirstTwo
  <2>3. DOMAIN sent' = 1 .. RingStart - Tx /\ \A k \in 1 .. RingStart - Tx : sent'[k] = <<"tx", k>>
    BY <1>1, <2>2
  <2> QED  BY <2>3 DEF Net!SentIntact
<1>9. OnRing'  BY <1>3 DEF NetTraffic, OnRing
<1> QED  BY <1>4, <1>6, <1>7, <1>8, <1>9 DEF NetTraffic

LEMMA NetSteps ==
  ASSUME NetAssumed, NetInv, [Net!Next]_Net!ne2000Vars
  PROVE  NetInv'
<1>0. NetTraffic  BY DEF NetInv
<1>1. CASE Net!AckIsr
  <2>1. PICK causes : ne' = [ne EXCEPT !.isr = @ \ causes]  BY <1>1 DEF Net!AckIsr
  <2>2. /\ IsCard(ne') /\ ne'.stopped = ne.stopped /\ ne'.boundary = ne.boundary
        /\ ne'.curpag = ne.curpag /\ ne'.rsar = ne.rsar /\ ne'.rcnt = ne.rcnt
    BY <1>0, <2>1 DEF NetTraffic, NetShape, IsCard, NeFields
  <2>3. UNCHANGED <<net_mem, unread, drv, sent, overrun>>  BY <1>1 DEF Net!AckIsr
  <2>4. NetTraffic'  BY <1>0, <2>2, <2>3, NetSame
  <2> QED  BY <1>1, <2>4, NetAnnounced DEF NetInv, Net!Next
<1>2. CASE Net!ZeroTransfer
  <2>1. PICK causes : ne' = [ne EXCEPT !.isr = causes]  BY <1>2 DEF Net!ZeroTransfer
  <2>2. /\ IsCard(ne') /\ ne'.stopped = ne.stopped /\ ne'.boundary = ne.boundary
        /\ ne'.curpag = ne.curpag /\ ne'.rsar = ne.rsar /\ ne'.rcnt = ne.rcnt
    BY <1>0, <2>1 DEF NetTraffic, NetShape, IsCard, NeFields
  <2>3. UNCHANGED <<net_mem, unread, drv, sent, overrun>>  BY <1>2 DEF Net!ZeroTransfer
  <2>4. NetTraffic'  BY <1>0, <2>2, <2>3, NetSame
  <2> QED  BY <1>2, <2>4, NetAnnounced DEF NetInv, Net!Next
<1>3. CASE UNCHANGED Net!ne2000Vars
  <2>1. UNCHANGED <<ne, net_line, net_mem, unread, drv, sent, overrun>>  BY <1>3 DEF Net!ne2000Vars
  <2>2. IsCard(ne')  BY <1>0, <2>1 DEF NetTraffic, NetShape
  <2>3. NetTraffic'  BY <1>0, <2>1, <2>2, NetSame
  <2> QED  BY <2>1, <2>3 DEF NetInv, Net!CausesAnnounced
<1>4. CASE Net!Next /\ ~Net!AckIsr /\ ~Net!ZeroTransfer
  <2>1. NetTraffic'
    BY <1>0, <1>4, NetReceive, NetSetup, NetReset, NetBeginRead, NetReadPage, NetRelease,
       NetReadOver, NetBeginWrite, NetWritePage, NetTransmit DEF Net!Next
  <2> QED  BY <1>4, <2>1, NetAnnounced DEF NetInv
<1> QED  BY <1>1, <1>2, <1>3, <1>4

(* The driver of the network card gets every frame as it came and in the    *)
(* order in which it came, whatever is delivered while it reads             *)
(* (ne2000_receive, ne2000_buffer_full, ne2000_dma_update), until a frame   *)
(* comes into a ring that is full to its last page; it sends what it wrote, *)
(* and hears of both, always.  For a ring of any size and frames of all     *)
(* sizes that the card accepts.                                             *)
THEOREM Traffic == NetAssumed => (NetSpec => []Net!TrafficIntact)
<1> SUFFICES ASSUME NetAssumed PROVE NetSpec => []Net!TrafficIntact
  OBVIOUS
<1>1. Net!Init => NetInv  BY NetStarts
<1>2. NetInv /\ [Net!Next]_Net!ne2000Vars => NetInv'  BY NetSteps
<1>3. NetInv => Net!TrafficIntact  BY NetIntact
<1> QED  BY <1>1, <1>2, <1>3, PTL DEF NetSpec

(* What passes the serial port, the floppy channel and the network card is  *)
(* neither lost nor changed on its way, for devices of any size.            *)
THEOREM Intact ==
  (DriveAssumed /\ NetAssumed) => (SerialSpec /\ DriveSpec /\ NetSpec => []DataIntact)
<1> SUFFICES ASSUME DriveAssumed, NetAssumed
             PROVE  SerialSpec /\ DriveSpec /\ NetSpec => []DataIntact
  OBVIOUS
<1>1. DriveSpec => []Drive!RightSectors  BY SectorsServed, PTL
<1>2. NetSpec => []Net!TrafficIntact  BY Traffic
<1> QED  BY Bytes, <1>1, <1>2, PTL DEF DataIntact

-----------------------------------------------------------------------------
(* The sound card and its DMA controllers. *)
SoundSpec == Sound!Init /\ [][Sound!Next]_Sound!sb16Vars

SoundAssumed ==
  /\ DspCommands \subseteq {"plain", "reply", "block", "single8", "dma", "silence", "adpcm"}
  /\ Formats \subseteq [wide : BOOLEAN, stereo : BOOLEAN]
  /\ DmaByte \in Nat \ {0} /\ Lengths \subseteq Nat /\ DmaCounts \subseteq Nat /\ Frees \subseteq Nat
  /\ AudioLen \in Nat /\ OutSize \in Nat
  /\ Limit \in [BOOLEAN -> Nat] /\ Limit[FALSE] <= Limit[TRUE]

Starting == {"block", "single8", "dma"}

SbFields == {"needed", "in_index", "cmd", "out", "auto", "block", "left", "hdma", "unit", "running",
             "halted", "status", "moved"}
IsDsp(s) == s = [f \in SbFields |-> s[f]]

Dsp(s) ==
  /\ IsDsp(s)
  /\ s.needed \in Nat /\ s.in_index \in Int /\ s.out \in 0 .. OutSize
  /\ s.auto \in BOOLEAN /\ s.hdma \in BOOLEAN /\ s.running \in BOOLEAN /\ s.halted \in BOOLEAN
  /\ s.unit \in Nat \ {0} /\ s.block \in Int /\ s.left \in Int /\ s.moved \in Int

(* A command that waits for bytes knows how many, and none waits to start   *)
(* a transfer while there is one.                                           *)
Parser(s, odd) ==
  /\ s.needed > 0 =>
       /\ s.cmd \in DspCommands /\ s.needed = Sound!Needed[s.cmd]
       /\ s.cmd \in Starting => ~s.running /\ ~s.halted
  /\ ~odd.bytes => /\ s.needed = 0 => s.in_index = 0
                   /\ s.needed > 0 => s.in_index < s.needed

(* What has moved of a block and what is left of it make the block.         *)
Blocks(s) ==
  (s.running \/ s.halted) /\ s.block > 0 =>
    s.left \in 1 .. s.block /\ s.moved \in 0 .. s.block - 1 /\ s.moved + s.left = s.block

DmaFields == {"dreq", "tc", "masked", "flip_flop", "base", "now", "shift"}
IsDma(d) ==
  /\ d = [f \in DmaFields |-> d[f]]
  /\ d.dreq \in BOOLEAN /\ d.tc \in BOOLEAN /\ d.masked \in BOOLEAN
  /\ d.base \in Nat /\ d.shift \in {0, 1} /\ d.now \in 0 .. Sound!BufferLength(d) - 1

Requests(s, ds) ==
  /\ ds = [high \in BOOLEAN |-> ds[high]]
  /\ \A high \in BOOLEAN :
       IsDma(ds[high]) /\ (ds[high].dreq <=> (s.running /\ s.hdma = high))

Line(s, line, odd) ==
  /\ odd = [f \in {"irq", "bytes"} |-> odd[f]] /\ odd.irq \in BOOLEAN /\ odd.bytes \in BOOLEAN
  /\ line \in BOOLEAN /\ ((s.status = {} /\ ~odd.irq) => ~line)

(* A callback at an odd position may give one byte back, to an even one.    *)
Buffer(a) ==
  /\ a = [f \in {"free", "fill", "odd"} |-> a[f]]
  /\ a.free \in Nat /\ a.odd \in BOOLEAN
  /\ a.fill \in 0 .. Limit[TRUE] + 1 /\ (a.odd => a.fill <= Limit[TRUE])

Card(s, line, a, ds, odd) ==
  Dsp(s) /\ Parser(s, odd) /\ Blocks(s) /\ Requests(s, ds) /\ Line(s, line, odd) /\ Buffer(a)

SoundInv == Card(sb, sb_line, audio, dma, sb_odd)

(* A rest is what is left of a whole number of blocks.                      *)
LEMMA RestOfBlocks ==
  ASSUME NEW b \in Nat \ {0}, NEW k \in Nat
  PROVE  (b + k) % b = k % b
<1> DEFINE q == k \div b
           r == k % b
           p == (b + k) \div b
           t == (b + k) % b
<1>1. q \in Int /\ r \in 0 .. b - 1 /\ k = b * q + r  OBVIOUS
<1>2. p \in Int /\ t \in 0 .. b - 1 /\ b + k = b * p + t  OBVIOUS
<1> HIDE DEF q, r, p, t
<1>3. b * (p - q - 1) = b * p - b * q - b  BY <1>1, <1>2
<1>4. b * (p - q - 1) = r - t  BY <1>1, <1>2, <1>3
<1>5. CASE p - q - 1 >= 1
  <2>1. b * (p - q - 1) >= b  BY <1>1, <1>2, <1>5
  <2> QED  BY <1>1, <1>2, <1>4, <2>1
<1>6. CASE p - q - 1 <= -1
  <2>1. b * (p - q - 1) <= -b  BY <1>1, <1>2, <1>6
  <2> QED  BY <1>1, <1>2, <1>4, <2>1
<1>7. CASE p - q - 1 = 0
  <2>1. b * (p - q - 1) = 0  BY <1>7
  <2> QED  BY <1>1, <1>2, <1>4, <2>1 DEF r, t
<1> QED  BY <1>1, <1>2, <1>5, <1>6, <1>7

(* A piece of a transfer keeps its blocks whole, and one that stops at the  *)
(* end of a block leaves none of it.                                        *)
LEMMA PieceOfBlock ==
  ASSUME NEW b \in Nat \ {0}, NEW l \in 1 .. b, NEW m \in 0 .. b - 1, m + l = b, NEW n \in Nat
  PROVE  LET rest == Sound!Again(l - n, b)
             done == (m + n) % b
         IN /\ rest \in 1 .. b /\ done \in 0 .. b - 1 /\ done + rest = b
            /\ l - n > 0 => rest = l - n
            /\ n = l => done = 0
<1>1. CASE n < l
  <2>1. m + n \in 0 .. b - 1 /\ l - n \in 1 .. b /\ l - n > 0  BY <1>1
  <2>2. (m + n) % b = m + n  BY <2>1
  <2>3. Sound!Again(l - n, b) = l - n  BY <2>1 DEF Sound!Again
  <2>4. (m + n) + (l - n) = b  OBVIOUS
  <2> QED  BY <1>1, <2>1, <2>2, <2>3, <2>4
<1>2. CASE n >= l
  <2> PICK k \in Nat : k = n - l  BY <1>2
  <2>1. m + n = b + k /\ -(l - n) = k /\ ~(l - n > 0)  BY <1>2
  <2>2. (m + n) % b = k % b  BY <2>1, RestOfBlocks
  <2>3. Sound!Again(l - n, b) = b - (k % b)  BY <2>1 DEF Sound!Again
  <2> PICK r \in 0 .. b - 1 : r = k % b  OBVIOUS
  <2>4. b - r \in 1 .. b /\ r + (b - r) = b  OBVIOUS
  <2>5. n = l => r = 0
    <3>1. n = l => k = 0  OBVIOUS
    <3>2. 0 % b = 0  OBVIOUS
    <3> QED  BY <3>1, <3>2
  <2> QED  BY <2>1, <2>2, <2>3, <2>4, <2>5
<1> QED  BY <1>1, <1>2

(* The length of what a controller offers.                                  *)
LEMMA Offered ==
  ASSUME NEW d, d.base \in Nat, d.shift \in {0, 1}
  PROVE  Sound!BufferLength(d) \in Nat \ {0}
<1>1. PICK base \in Nat : base = d.base  OBVIOUS
<1>2. 2 ^ 0 = 1 /\ 2 ^ 1 = 2  OBVIOUS
<1>3. Sound!BufferLength(d) = (base + 1) * (2 ^ d.shift)  BY <1>1 DEF Sound!BufferLength
<1>4. (base + 1) * 1 \in Nat \ {0} /\ (base + 1) * 2 \in Nat \ {0}  OBVIOUS
<1>5. CASE d.shift = 0  BY <1>2, <1>3, <1>4, <1>5
<1>6. CASE d.shift = 1  BY <1>2, <1>3, <1>4, <1>6
<1> QED  BY <1>5, <1>6

(* The limit of either size. *)
LEMMA Limited ==
  ASSUME SoundAssumed, NEW wide \in BOOLEAN
  PROVE  Limit[wide] \in Nat /\ Limit[wide] <= Limit[TRUE]
<1>0. \A m \in Nat : m <= m  OBVIOUS
<1>1. Limit[TRUE] \in Nat /\ Limit[FALSE] \in Nat /\ Limit[FALSE] <= Limit[TRUE]
  BY DEF SoundAssumed
<1>2. PICK low \in Nat, most \in Nat : low = Limit[FALSE] /\ most = Limit[TRUE] /\ low <= most
  BY <1>1
<1>3. CASE wide = TRUE
  <2>1. Limit[wide] = Limit[TRUE]  BY <1>3, Zenon
  <2> QED  BY <1>0, <1>2, <2>1, Zenon
<1>4. CASE wide = FALSE
  <2>1. Limit[wide] = low  BY <1>2, <1>4, Zenon
  <2> QED  BY <1>2, <2>1, Zenon
<1> QED  BY <1>3, <1>4

LEMMA WithinLimit ==
  ASSUME NEW fill \in Nat, NEW n \in Nat, NEW room \in Nat, NEW limit \in Nat, NEW most \in Nat,
         limit <= most, n <= room, room = 0 \/ fill + room <= limit
  PROVE  n = 0 \/ fill + n <= most
OBVIOUS

LEMMA FillAfter ==
  ASSUME NEW fill \in Nat, NEW n \in Nat, NEW most \in Nat, NEW odd,
         fill <= most + 1, odd => fill <= most, n = 0 \/ fill + n <= most
  PROVE  fill + n \in 0 .. most + 1 /\ (odd => fill + n <= most)
OBVIOUS

(* The buffer after a run has put n bytes into it. *)
LEMMA FilledBuffer ==
  ASSUME SoundAssumed, NEW a, Buffer(a), NEW n \in Nat, n = 0 \/ a.fill + n <= Limit[TRUE],
         NEW b, b = [a EXCEPT !.fill = @ + n]
  PROVE  Buffer(b)
<1>1. PICK most \in Nat : most = Limit[TRUE]  BY Limited
<1>2. PICK fill \in Nat : fill = a.fill /\ fill <= most + 1 /\ (a.odd => fill <= most)
  <2>1. a.fill \in 0 .. Limit[TRUE] + 1 /\ (a.odd => a.fill <= Limit[TRUE])  BY DEF Buffer
  <2>2. a.fill \in 0 .. most + 1 /\ (a.odd => a.fill <= most)  BY <1>1, <2>1, Zenon
  <2>3. PICK fill : fill = a.fill  OBVIOUS
  <2>4. fill \in 0 .. most + 1 /\ (a.odd => fill <= most)  BY <2>2, <2>3
  <2>5. fill \in 0 .. most + 1  BY <2>4
  <2>6. most \in Nat  BY <1>1, Zenon
  <2>7. fill \in Nat /\ fill <= most + 1  BY <2>5, <2>6
  <2> QED  BY <2>3, <2>4, <2>7, Zenon
<1>3. fill + n \in 0 .. most + 1 /\ (a.odd => fill + n <= most)
  <2>1. n = 0 \/ fill + n <= most  BY <1>1, <1>2
  <2> QED  BY <1>1, <1>2, <2>1, FillAfter
<1>4. b = [a EXCEPT !.fill = fill + n]  BY <1>2
<1>5. /\ b = [f \in {"free", "fill", "odd"} |-> b[f]]
      /\ b.free = a.free /\ b.odd = a.odd /\ b.fill = fill + n
  BY <1>4 DEF Buffer
<1> QED  BY <1>1, <1>3, <1>5 DEF Buffer

(* A piece that a run moves fits what the callback asked for, the block of  *)
(* a single transfer and the buffer.                                        *)
LEMMA Piece ==
  ASSUME SoundAssumed, NEW s, Dsp(s), Buffer(audio), s.block > 0, s.left \in 1 .. s.block,
         Sound!Free(s) > 0
  PROVE  /\ Sound!Written(s) \in Nat /\ Sound!Left(s) = s.left
         /\ ~s.auto => Sound!Written(s) <= s.left
         /\ Sound!Written(s) = 0 \/ audio.fill + Sound!Written(s) <= Limit[TRUE]
<1>1. Sound!Left(s) = s.left  BY DEF Sound!Left
<1>2. PICK free \in Nat, unit \in Nat \ {0}, fill \in Nat :
        free = audio.free /\ unit = s.unit /\ fill = audio.fill
  BY DEF Dsp, Buffer, SoundAssumed
<1>3. PICK f \in Nat : f = Sound!Free(s)
  <2>1. free % unit \in 0 .. unit - 1 /\ free - (free % unit) \in Int  BY Z3
  <2>2. Sound!Free(s) = free - (free % unit)  BY <1>2 DEF Sound!Free
  <2>3. Sound!Free(s) \in Int  BY <2>1, <2>2
  <2> PICK g \in Int : g = Sound!Free(s)  BY <2>3
  <2>4. g > 0  OBVIOUS
  <2> QED  BY <2>4
<1>4. f > 0  BY <1>3
<1>5. PICK left \in Nat : left = s.left  BY DEF Dsp
<1>6a. PICK most \in Nat : most = Limit[TRUE]  BY DEF SoundAssumed
<1>6. PICK limit \in Nat : limit = Limit[s.hdma] /\ limit <= most
  <2>1. s.hdma \in BOOLEAN  BY DEF Dsp
  <2> QED  BY <1>6a, <2>1, Limited
<1>7. PICK copy \in Nat : copy = Sound!Copy(s) /\ copy > 0 /\ (~s.auto => copy <= left)
  <2>1. left >= 1  BY <1>5
  <2>2. Sound!Copy(s) = IF ~s.auto /\ left <= f THEN left ELSE f  BY <1>1, <1>3, <1>5 DEF Sound!Copy
  <2> QED  BY <1>4, <2>1, <2>2
<1>8. PICK room \in Nat : room = Sound!Room(s) /\ (room = 0 \/ fill + room <= limit)
  <2>1. Sound!Room(s) = IF fill > limit THEN 0 ELSE limit - fill  BY <1>2, <1>6 DEF Sound!Room
  <2>2. (IF fill > limit THEN 0 ELSE limit - fill) \in Nat  OBVIOUS
  <2> QED  BY <2>1, <2>2
<1>9. Sound!Written(s) = IF copy < room THEN copy ELSE room
  BY <1>7, <1>8 DEF Sound!Written, Sound!Lower
<1>10. PICK n \in Nat : n = Sound!Written(s) /\ n <= copy /\ n <= room
  BY <1>9
<1>11. n = 0 \/ fill + n <= most
  <2>1. n <= room /\ n \in Nat  BY <1>10
  <2>2. limit \in Nat /\ limit <= most /\ most \in Nat  BY <1>6, <1>6a
  <2>3. fill \in Nat  BY <1>2
  <2>4. room \in Nat /\ (room = 0 \/ fill + room <= limit)  BY <1>8
  <2> QED  BY <2>1, <2>2, <2>3, <2>4, WithinLimit
<1>12. ~s.auto => n <= left  BY <1>7, <1>10
<1> QED  BY <1>1, <1>2, <1>5, <1>6a, <1>10, <1>11, <1>12

(* What a run leaves of the transfer. *)
AfterPart(s, t) ==
  /\ Dsp(t) /\ Blocks(t)
  /\ t.needed = s.needed /\ t.in_index = s.in_index /\ t.cmd = s.cmd /\ t.halted = s.halted
  /\ t.auto = s.auto /\ t.block = s.block /\ t.hdma = s.hdma
  /\ t.running => s.running
  /\ (s.running /\ ~t.running) => t.moved = 0

LEMMA PartKept ==
  ASSUME NEW s, Dsp(s), Blocks(s)
  PROVE  AfterPart(s, s)
BY DEF AfterPart, Dsp

LEMMA RunPart ==
  ASSUME SoundAssumed, NEW s, Dsp(s), Blocks(s), s.running, Sound!Valid(s), Sound!Free(s) > 0,
         Buffer(audio), NEW high \in BOOLEAN, NEW d
  PROVE  LET r == Sound!Run(high, s, d)
         IN /\ AfterPart(s, r.sb) /\ r.n = Sound!Written(s) /\ r.irq \in BOOLEAN
            /\ r.now = (d.now + Sound!Written(s)) % Sound!BufferLength(d)
            /\ r.sb.status = {} => s.status = {} /\ ~r.irq
<1> DEFINE n == Sound!Written(s)
           r == Sound!Run(high, s, d)
<1>1. s.block > 0 /\ s.left \in 1 .. s.block /\ s.moved \in 0 .. s.block - 1
      /\ s.moved + s.left = s.block
  BY DEF Sound!Valid, Blocks
<1>2. n \in Nat /\ Sound!Left(s) = s.left /\ (~s.auto => n <= s.left)
  BY <1>1, Piece
<1> HIDE DEF n
<1>b. PICK b \in Nat \ {0} : b = s.block  BY <1>1 DEF Dsp
<1>m. PICK l, m : l = s.left /\ m = s.moved  OBVIOUS
<1>3. b = s.block /\ l = s.left /\ m = s.moved  BY <1>b, <1>m
<1>4. l \in 1 .. b /\ m \in 0 .. b - 1 /\ m + l = b /\ l \in Nat  BY <1>1, <1>3
<1>5. PICK rest, done : rest = Sound!Again(l - n, b) /\ done = (m + n) % b  OBVIOUS
<1>6. /\ rest \in 1 .. b /\ done \in 0 .. b - 1 /\ done + rest = b
      /\ l - n > 0 => rest = l - n
      /\ n = l => done = 0
  BY <1>2, <1>4, <1>5, PieceOfBlock
<1>7. PICK left \in Int : left = l - n  BY <1>2, <1>4
<1> DEFINE t == [s EXCEPT !.left = left, !.moved = done]
<1>8. /\ IsDsp(t) /\ t.left = left /\ t.moved = done
      /\ \A f \in SbFields \ {"left", "moved"} : t[f] = s[f]
  BY DEF Dsp, IsDsp, SbFields
<1>9. t = [s EXCEPT !.left = Sound!Left(s) - n, !.moved = (@ + n) % s.block]
  BY <1>2, <1>3, <1>5, <1>7
<1> HIDE DEF t
<1>10. PICK ends \in BOOLEAN : ends <=> left <= 0  BY <1>7
<1>11. /\ r.n = n /\ r.now = (d.now + n) % Sound!BufferLength(d)
       /\ r.irq = (t.left <= 0)
       /\ r.sb = IF t.left <= 0 THEN [Sound!AfterBlock(t) EXCEPT !.status = @ \cup {high}] ELSE t
  BY <1>9 DEF n, Sound!Run
<1>12. CASE left > 0
  <2>0. ~(t.left <= 0)
    <3>1. t.left = left  BY <1>8
    <3>2. ~(left <= 0)  BY <1>7, <1>12
    <3> QED  BY <3>1, <3>2, Zenon
  <2>1. r.sb = t /\ r.irq \in BOOLEAN /\ ~r.irq
    <3>1. r.sb = t  BY <1>11, <2>0, Zenon
    <3>2. (t.left <= 0) = FALSE  BY <2>0
    <3> QED  BY <1>11, <3>1, <3>2, Zenon
  <2>2. /\ t.needed = s.needed /\ t.in_index = s.in_index /\ t.cmd = s.cmd /\ t.halted = s.halted
        /\ t.auto = s.auto /\ t.block = s.block /\ t.hdma = s.hdma /\ t.running = s.running
        /\ t.out = s.out /\ t.unit = s.unit /\ t.status = s.status
    BY <1>8 DEF SbFields
  <2>3. left = rest  BY <1>6, <1>7, <1>12
  <2>4. t.left \in 1 .. t.block /\ t.moved \in 0 .. t.block - 1 /\ t.moved + t.left = t.block
        /\ t.left \in Int /\ t.moved \in Int
    BY <1>3, <1>6, <1>8, <2>2, <2>3
  <2>5. Dsp(t) /\ Blocks(t)
    BY <1>8, <2>2, <2>4 DEF Dsp, Blocks
  <2>6. AfterPart(s, t)  BY <2>2, <2>5 DEF AfterPart
  <2> QED  BY <1>11, <2>1, <2>2, <2>6 DEF n
<1>13. CASE left <= 0
  <2> DEFINE on == t.running /\ s.auto
             u == [t EXCEPT !.left = rest, !.running = on]
             v == [u EXCEPT !.status = t.status \cup {high}]
  <2>0. t.auto = s.auto /\ t.block = b /\ t.running = s.running  BY <1>3, <1>8 DEF SbFields
  <2>1. Sound!AfterBlock(t) = u
    BY <1>5, <1>7, <1>8, <2>0 DEF Sound!AfterBlock
  <2>2. on \in BOOLEAN /\ (on <=> s.auto)  BY <2>0 DEF Dsp
  <2> HIDE DEF on
  <2>3. /\ IsDsp(u) /\ u.left = rest /\ u.running = on
        /\ \A f \in SbFields \ {"left", "running"} : u[f] = t[f]
    BY <1>8 DEF IsDsp, SbFields
  <2>4. /\ IsDsp(v) /\ v.status = t.status \cup {high}
        /\ \A f \in SbFields \ {"status"} : v[f] = u[f]
    <3> HIDE DEF u
    <3> QED  BY <2>3 DEF IsDsp, SbFields
  <2>5. v = [Sound!AfterBlock(t) EXCEPT !.status = @ \cup {high}]
    <3>1. u.status = t.status  BY <2>3 DEF SbFields
    <3> QED  BY <2>1, <3>1
  <2> HIDE DEF u, v
  <2>6. r.sb = v /\ r.irq = TRUE  BY <1>8, <1>11, <1>13, <2>5
  <2>7. /\ v.needed = s.needed /\ v.in_index = s.in_index /\ v.cmd = s.cmd /\ v.halted = s.halted
        /\ v.auto = s.auto /\ v.block = s.block /\ v.hdma = s.hdma /\ v.running = on
        /\ v.out = s.out /\ v.unit = s.unit /\ v.left = rest /\ v.moved = done
    BY <1>8, <2>3, <2>4 DEF SbFields
  <2>8. v.status # {}  BY <2>4
  <2>9. ~s.auto => v.moved = 0
    <3>1. ~s.auto => n <= l  BY <1>2, <1>3
    <3>2. n >= l  BY <1>2, <1>4, <1>7, <1>13
    <3>3. ~s.auto => n = l  BY <1>2, <1>4, <3>1, <3>2
    <3> QED  BY <1>6, <2>7, <3>3
  <2>10. v.left \in 1 .. v.block /\ v.moved \in 0 .. v.block - 1 /\ v.moved + v.left = v.block
         /\ v.left \in Int /\ v.moved \in Int
    BY <1>3, <1>6, <2>7
  <2>11. Dsp(v) /\ Blocks(v)
    BY <2>2, <2>4, <2>7, <2>10 DEF Dsp, Blocks
  <2>12. AfterPart(s, v)
    BY <2>2, <2>7, <2>9, <2>11 DEF AfterPart, Dsp
  <2> QED  BY <1>11, <2>6, <2>8, <2>12 DEF n
<1> QED  BY <1>7, <1>12, <1>13

(* A controller after a run, with the request held or released. *)
Ran(d, n, on, x) ==
  x = [Sound!AfterRun(d, n % Sound!BufferLength(d)) EXCEPT !.dreq = @ /\ on]

LEMMA ControllerRan ==
  ASSUME NEW d, IsDma(d), NEW n \in Nat, NEW on \in BOOLEAN, NEW x, Ran(d, n, on, x)
  PROVE  IsDma(x) /\ (x.dreq <=> (d.dreq /\ on))
<1>1. PICK length \in Nat \ {0} : length = Sound!BufferLength(d)
  BY Offered DEF IsDma
<1>2. PICK now \in 0 .. length - 1 : now = n % length  OBVIOUS
<1>3. PICK tc \in BOOLEAN : tc = (d.tc \/ now = length)  BY DEF IsDma
<1>4. PICK dreq \in BOOLEAN : dreq = (d.dreq /\ on)  BY DEF IsDma
<1> DEFINE y == [d EXCEPT !.now = now, !.tc = tc]
           z == [y EXCEPT !.dreq = dreq]
<1>5. y = Sound!AfterRun(d, n % Sound!BufferLength(d))
  BY <1>1, <1>2, <1>3 DEF Sound!AfterRun
<1>6. /\ y = [f \in DmaFields |-> y[f]] /\ y.now = now /\ y.tc = tc
      /\ \A f \in DmaFields \ {"now", "tc"} : y[f] = d[f]
  BY DEF IsDma, DmaFields
<1>7. y.dreq = d.dreq  BY <1>6 DEF DmaFields
<1> HIDE DEF y
<1>8. z = x  BY <1>4, <1>5, <1>7 DEF Ran
<1>9. /\ z = [f \in DmaFields |-> z[f]] /\ z.dreq = dreq
      /\ \A f \in DmaFields \ {"dreq"} : z[f] = y[f]
  BY <1>6 DEF DmaFields
<1> HIDE DEF z
<1>10. z.base = d.base /\ z.shift = d.shift /\ z.masked = d.masked /\ z.tc = tc /\ z.now = now
  BY <1>6, <1>9 DEF DmaFields
<1>11. Sound!BufferLength(z) = length  BY <1>1, <1>10 DEF Sound!BufferLength
<1>12. z.base \in Nat /\ z.shift \in {0, 1} /\ z.masked \in BOOLEAN  BY <1>10 DEF IsDma
<1>13. z.now \in 0 .. Sound!BufferLength(z) - 1  BY <1>1, <1>2, <1>10, <1>11
<1>14. IsDma(z)  BY <1>9, <1>10, <1>12, <1>13 DEF IsDma
<1> QED  BY <1>4, <1>8, <1>9, <1>14

(* A run of a controller keeps the card right, whatever the handler was     *)
(* about to do before.                                                      *)
LEMMA RunKeeps ==
  ASSUME SoundAssumed, NEW high \in BOOLEAN, NEW s, NEW ds,
         Card(s, sb_line, audio, ds, sb_odd), Sound!DmaRunWith(high, s, ds), UNCHANGED sb_odd
  PROVE  SoundInv' /\ AfterPart(s, sb')
<1>1. Dsp(s) /\ Parser(s, sb_odd) /\ Blocks(s) /\ Requests(s, ds) /\ Line(s, sb_line, sb_odd)
      /\ Buffer(audio)
  BY DEF Card
<1>2. CASE ~(Sound!Runs(ds[high]) /\ Sound!Valid(s) /\ Sound!Free(s) > 0)
  <2>1. sb' = s /\ dma' = ds /\ sb_line' = sb_line /\ audio' = audio /\ sb_odd' = sb_odd
    BY <1>2 DEF Sound!DmaRunWith
  <2> QED  BY <1>1, <2>1, PartKept DEF SoundInv, Card
<1>3. CASE Sound!Runs(ds[high]) /\ Sound!Valid(s) /\ Sound!Free(s) > 0
  <2> DEFINE n == Sound!Written(s)
  <2>1. PICK r : r = Sound!Run(high, s, ds[high])  OBVIOUS
  <2>2. PICK d : d = Sound!AfterRun(ds[high], r.now)  OBVIOUS
  <2>3. /\ sb' = r.sb /\ sb_line' = (sb_line \/ r.irq)
        /\ dma' = [[ds EXCEPT ![high] = d] EXCEPT ![s.hdma].dreq = @ /\ r.sb.running]
        /\ audio' = [audio EXCEPT !.fill = @ + r.n]
    BY <1>3, <2>1, <2>2 DEF Sound!DmaRunWith, Sound!Current
  <2>4. IsDma(ds[high]) /\ ds[high].dreq = TRUE
    BY <1>1, <1>3 DEF Requests, IsDma, Sound!Runs
  <2>5. s.running /\ s.hdma = high  BY <1>1, <2>4 DEF Requests
  <2>6. s.block > 0 /\ s.left \in 1 .. s.block  BY <1>1, <1>3, <2>5 DEF Sound!Valid, Blocks
  <2>7. /\ n \in Nat
        /\ n = 0 \/ audio.fill + n <= Limit[TRUE]
    BY <1>1, <1>3, <2>6, Piece
  <2> HIDE DEF n
  <2>8. /\ AfterPart(s, r.sb) /\ r.n = n /\ r.irq \in BOOLEAN
        /\ r.now = (ds[high].now + n) % Sound!BufferLength(ds[high])
        /\ r.sb.status = {} => s.status = {} /\ ~r.irq
    BY <1>1, <1>3, <2>1, <2>5, RunPart DEF n
  <2> PICK t : t = r.sb  OBVIOUS
  <2>9. AfterPart(s, t) /\ Dsp(t) /\ Blocks(t)  BY <2>8 DEF AfterPart
  <2>10. Parser(t, sb_odd)
    BY <1>1, <2>9 DEF Parser, AfterPart
  <2>11. Requests(t, dma')
    <3> DEFINE x == [d EXCEPT !.dreq = @ /\ t.running]
    <3>1. ds[high].now + n \in Nat
      <4>1. PICK length \in Nat \ {0} : length = Sound!BufferLength(ds[high])
        BY <2>4, Offered DEF IsDma
      <4> QED  BY <2>4, <2>7, <4>1 DEF IsDma
    <3>2. t.running \in BOOLEAN  BY <2>9 DEF Dsp
    <3>3. Ran(ds[high], ds[high].now + n, t.running, x)  BY <2>2, <2>8 DEF Ran
    <3> HIDE DEF x
    <3>4. IsDma(x) /\ (x.dreq <=> t.running)
      <4>1. IsDma(ds[high])  BY <2>4
      <4>2. IsDma(x) /\ (x.dreq <=> (ds[high].dreq /\ t.running))
        BY <3>1, <3>2, <3>3, <4>1, ControllerRan
      <4> QED  BY <2>4, <4>2
    <3>5. dma' = [ds EXCEPT ![high] = x]
      <4>1. ds = [h \in BOOLEAN |-> ds[h]]  BY <1>1 DEF Requests
      <4>2. dma' = [[ds EXCEPT ![high] = d] EXCEPT ![high] = [d EXCEPT !.dreq = @ /\ t.running]]
        BY <2>3, <2>5, <4>1
      <4> QED  BY <4>1, <4>2 DEF x
    <3>6. \A h \in BOOLEAN : IsDma(dma'[h]) /\ (dma'[h].dreq <=> (t.running /\ t.hdma = h))
      <4> TAKE h \in BOOLEAN
      <4>0. ds = [g \in BOOLEAN |-> ds[g]]  BY <1>1 DEF Requests
      <4>1. t.hdma = high  BY <2>5, <2>9 DEF AfterPart
      <4>2. CASE h = high
        <5>1. dma'[h] = x  BY <3>5, <4>0, <4>2
        <5> QED  BY <3>4, <4>1, <4>2, <5>1, Zenon
      <4>3. CASE h # high
        <5>1. dma'[h] = ds[h]  BY <3>5, <4>0, <4>3
        <5>2. IsDma(ds[h]) /\ ~ds[h].dreq  BY <1>1, <2>5, <4>3 DEF Requests
        <5> QED  BY <4>1, <4>3, <5>1, <5>2, Zenon
      <4> QED  BY <4>2, <4>3
    <3>7. dma' = [h \in BOOLEAN |-> dma'[h]]  BY <1>1, <3>5 DEF Requests
    <3> QED  BY <3>6, <3>7 DEF Requests
  <2>12. Line(t, sb_line', sb_odd)
    <3>1. sb_line \in BOOLEAN /\ r.irq \in BOOLEAN  BY <1>1, <2>8 DEF Line
    <3>2. sb_line' \in BOOLEAN /\ (sb_line' <=> (sb_line \/ r.irq))  BY <2>3, <3>1, Zenon
    <3> QED  BY <1>1, <2>8, <3>2, Zenon DEF Line
  <2>13. Buffer(audio')
    <3>1. Buffer(audio) /\ n \in Nat /\ (n = 0 \/ audio.fill + n <= Limit[TRUE])  BY <1>1, <2>7
    <3>2. audio' = [audio EXCEPT !.fill = @ + n]  BY <2>3, <2>8
    <3> QED  BY <3>1, <3>2, FilledBuffer, Zenon
  <2>14. sb' = t /\ sb_odd' = sb_odd  BY <2>3
  <2>15. Card(t, sb_line', audio', dma', sb_odd)
    BY <2>9, <2>10, <2>11, <2>12, <2>13 DEF Card
  <2>16. SoundInv'  BY <2>14, <2>15 DEF SoundInv
  <2> QED  BY <2>9, <2>14, <2>16
<1> QED  BY <1>2, <1>3

LEMMA SoundStarts ==
  ASSUME SoundAssumed, Sound!Init
  PROVE  SoundInv
<1> DEFINE zero == [h \in BOOLEAN |-> Sound!Controller(IF h THEN 1 ELSE 0)]
<1>1. /\ sb = [needed |-> 0, in_index |-> 0, cmd |-> "none", out |-> 0, auto |-> FALSE,
               block |-> 0, left |-> 0, hdma |-> FALSE, unit |-> 1, running |-> FALSE,
               halted |-> FALSE, status |-> {}, moved |-> 0]
      /\ sb_line = FALSE /\ audio = [free |-> 0, fill |-> 0, odd |-> FALSE]
      /\ dma = zero /\ sb_odd = [irq |-> FALSE, bytes |-> FALSE]
  BY DEF Sound!Init
<1> HIDE DEF zero
<1>2. /\ IsDsp(sb) /\ sb.needed = 0 /\ sb.in_index = 0 /\ sb.out = 0 /\ sb.auto = FALSE
      /\ sb.block = 0 /\ sb.left = 0 /\ sb.hdma = FALSE /\ sb.unit = 1 /\ sb.running = FALSE
      /\ sb.halted = FALSE /\ sb.status = {} /\ sb.moved = 0
  BY <1>1 DEF IsDsp, SbFields
<1>3. Dsp(sb) /\ Parser(sb, sb_odd) /\ Blocks(sb)
  <2>1. 0 \in 0 .. OutSize /\ 1 \in Nat \ {0} /\ 0 \in Nat /\ 0 \in Int  BY DEF SoundAssumed
  <2>2. Dsp(sb)  BY <1>2, <2>1, Zenon DEF Dsp
  <2>3. ~(0 > 0)  OBVIOUS
  <2> QED  BY <1>2, <2>2, <2>3, Zenon DEF Parser, Blocks
<1>4. \A h \in BOOLEAN : IsDma(dma[h]) /\ dma[h].dreq = FALSE
  <2> TAKE h \in BOOLEAN
  <2>1. PICK shift \in {0, 1} : dma[h] = Sound!Controller(shift)
    BY <1>1 DEF zero
  <2>2. /\ dma[h] = [f \in DmaFields |-> dma[h][f]]
        /\ dma[h].dreq = FALSE /\ dma[h].tc = FALSE /\ dma[h].masked = FALSE
        /\ dma[h].base = 0 /\ dma[h].now = 0 /\ dma[h].shift = shift
    BY <2>1 DEF Sound!Controller, DmaFields
  <2>3. PICK length \in Nat \ {0} : length = Sound!BufferLength(dma[h])
    BY <2>2, Offered
  <2>4. 0 \in 0 .. length - 1 /\ 0 \in Nat /\ FALSE \in BOOLEAN  BY <2>3
  <2> QED  BY <2>2, <2>3, <2>4, Zenon DEF IsDma
<1>5. dma = [h \in BOOLEAN |-> dma[h]]  BY <1>1 DEF zero
<1>6. Requests(sb, dma)  BY <1>2, <1>4, <1>5 DEF Requests
<1>7. Line(sb, sb_line, sb_odd)  BY <1>1 DEF Line
<1>8. Buffer(audio)
  <2>0. \A m \in Nat : 0 \in 0 .. m + 1 /\ 0 <= m  OBVIOUS
  <2>1. PICK most \in Nat : most = Limit[TRUE]  BY Limited
  <2>2. 0 \in 0 .. most + 1 /\ 0 <= most  BY <2>0, <2>1, Zenon
  <2>3. audio.free = 0 /\ audio.fill = 0 /\ audio.odd = FALSE
        /\ audio = [f \in {"free", "fill", "odd"} |-> audio[f]]
    BY <1>1
  <2>4. 0 \in Nat /\ FALSE \in BOOLEAN  OBVIOUS
  <2> QED  BY <2>1, <2>2, <2>3, <2>4, Zenon DEF Buffer
<1> QED  BY <1>3, <1>6, <1>7, <1>8 DEF SoundInv, Card

(* A request held or released. *)
LEMMA Requested ==
  ASSUME NEW s, NEW t, NEW hold \in BOOLEAN, Requests(s, dma), t.hdma \in BOOLEAN,
         t.running = hold, s.running => t.hdma = s.hdma,
         NEW ds, ds = [dma EXCEPT ![t.hdma].dreq = hold]
  PROVE  Requests(t, ds)
<1>1. PICK hdma \in BOOLEAN : hdma = t.hdma  OBVIOUS
<1>2. dma = [h \in BOOLEAN |-> dma[h]] /\ \A h \in BOOLEAN : IsDma(dma[h])
  BY DEF Requests
<1> DEFINE x == [dma[hdma] EXCEPT !.dreq = hold]
<1>3. /\ x = [f \in DmaFields |-> x[f]] /\ x.dreq = hold
      /\ x.tc = dma[hdma].tc /\ x.masked = dma[hdma].masked /\ x.base = dma[hdma].base
      /\ x.now = dma[hdma].now /\ x.shift = dma[hdma].shift
  <2>1. PICK old : old = dma[hdma] /\ IsDma(old)  BY <1>2
  <2>2. x = [old EXCEPT !.dreq = hold]  BY <2>1
  <2> HIDE DEF x
  <2> QED  BY <2>1, <2>2 DEF IsDma, DmaFields
<1>4. ds = [dma EXCEPT ![hdma] = x]  BY <1>1
<1> HIDE DEF x
<1>5. IsDma(x)  BY <1>2, <1>3 DEF IsDma, Sound!BufferLength
<1>6. \A h \in BOOLEAN : IsDma(ds[h]) /\ (ds[h].dreq <=> (t.running /\ t.hdma = h))
  <2> TAKE h \in BOOLEAN
  <2>1. CASE h = hdma
    <3>1. ds[h] = x  BY <1>2, <1>4, <2>1
    <3> QED  BY <1>1, <1>3, <1>5, <2>1, <3>1, Zenon
  <2>2. CASE h # hdma
    <3>1. ds[h] = dma[h]  BY <1>2, <1>4, <2>2
    <3>2. ~dma[h].dreq  BY <1>1, <2>2 DEF Requests
    <3> QED  BY <1>1, <1>2, <2>2, <3>1, <3>2, Zenon
  <2> QED  BY <2>1, <2>2
<1>7. ds = [h \in BOOLEAN |-> ds[h]]  BY <1>2, <1>4
<1> QED  BY <1>6, <1>7 DEF Requests

(* control() keeps the card right when what it is given fits it. *)
LEMMA ControlKeeps ==
  ASSUME SoundAssumed, SoundInv, NEW s, NEW hold \in BOOLEAN, Sound!Control(s, hold),
         UNCHANGED sb_odd, s.status = sb.status, sb.running => s.hdma = sb.hdma,
         NEW t, t = [s EXCEPT !.running = hold], Dsp(s), Parser(t, sb_odd), Blocks(t)
  PROVE  SoundInv' /\ AfterPart(t, sb')
<1>1. /\ IsDsp(t) /\ t.running = hold
      /\ \A f \in SbFields \ {"running"} : t[f] = s[f]
  BY DEF Dsp, IsDsp, SbFields
<1>2. t.hdma = s.hdma /\ t.status = s.status /\ s.hdma \in BOOLEAN
  BY <1>1 DEF Dsp, SbFields
<1>3. Dsp(t)  BY <1>1 DEF Dsp, SbFields
<1>4. PICK ds : ds = [dma EXCEPT ![t.hdma].dreq = hold]  OBVIOUS
<1>5. Requests(sb, dma) /\ Line(sb, sb_line, sb_odd) /\ Buffer(audio)  BY DEF SoundInv, Card
<1>6. Requests(t, ds)
  <2>1. t.hdma \in BOOLEAN /\ t.running = hold /\ (sb.running => t.hdma = sb.hdma)
    BY <1>1, <1>2
  <2> QED  BY <1>4, <1>5, <2>1, Requested, Zenon
<1>7. Line(t, sb_line, sb_odd)  BY <1>2, <1>5 DEF Line
<1>8. Card(t, sb_line, audio, ds, sb_odd)  BY <1>3, <1>5, <1>6, <1>7 DEF Card
<1>9. Sound!DmaRunWith(s.hdma, t, ds)  BY <1>2, <1>4 DEF Sound!Control, Sound!Current
<1> QED  BY <1>2, <1>8, <1>9, RunKeeps

(* A transfer starts when none runs. *)
LEMMA StartKeeps ==
  ASSUME SoundAssumed, SoundInv, ~sb.running, ~sb.halted, NEW s, Dsp(s), s.needed = 0,
         ~sb_odd.bytes => s.in_index = 0, s.status = sb.status, Sound!Start(s), UNCHANGED sb_odd
  PROVE  SoundInv' /\ Sound!SingleBlockOnce
<1> DEFINE u == [s EXCEPT !.left = s.block, !.halted = FALSE, !.moved = 0]
           t == [u EXCEPT !.running = TRUE]
<1>1. /\ IsDsp(u) /\ u.left = s.block /\ u.halted = FALSE /\ u.moved = 0
      /\ \A f \in SbFields \ {"left", "halted", "moved"} : u[f] = s[f]
  BY DEF Dsp, IsDsp, SbFields
<1>2. Sound!Control(u, TRUE)  BY DEF Sound!Start
<1> HIDE DEF u
<1>3. Dsp(u) /\ u.status = sb.status
  <2>1. /\ u.needed = s.needed /\ u.in_index = s.in_index /\ u.out = s.out /\ u.auto = s.auto
        /\ u.hdma = s.hdma /\ u.running = s.running /\ u.unit = s.unit /\ u.block = s.block
        /\ u.status = s.status
    BY <1>1 DEF SbFields
  <2>2. 0 \in Int /\ FALSE \in BOOLEAN  OBVIOUS
  <2> QED  BY <1>1, <2>1, <2>2, Zenon DEF Dsp
<1>4. /\ t.left = t.block /\ t.moved = 0 /\ t.needed = 0 /\ t.in_index = s.in_index
      /\ t.block \in Int
  BY <1>1 DEF Dsp, IsDsp, SbFields
<1> HIDE DEF t
<1>5. Parser(t, sb_odd)  BY <1>4 DEF Parser
<1>6. Blocks(t)
  <2>1. PICK b \in Int : b = t.block  BY <1>4
  <2>2. b > 0 => b \in 1 .. b /\ 0 \in 0 .. b - 1 /\ 0 + b = b  BY <2>1
  <2> QED  BY <1>4, <2>1, <2>2 DEF Blocks
<1>7. SoundInv'  BY <1>2, <1>3, <1>5, <1>6, ControlKeeps DEF t
<1> QED  BY <1>7 DEF Sound!SingleBlockOnce

(* A step that leaves the transfer, the line and the buffer alone. *)
LEMMA QuietKeeps ==
  ASSUME SoundInv, Dsp(sb'), Parser(sb', sb_odd'), Blocks(sb'),
         sb'.running = sb.running, sb'.hdma = sb.hdma, sb.status = {} \/ sb'.status # {},
         UNCHANGED <<sb_line, audio, dma>>,
         sb_odd' = sb_odd \/ sb_odd' = [sb_odd EXCEPT !.bytes = TRUE]
  PROVE  SoundInv' /\ Sound!SingleBlockOnce
<1>1. Requests(sb, dma) /\ Line(sb, sb_line, sb_odd) /\ Buffer(audio)  BY DEF SoundInv, Card
<1>2. Requests(sb', dma')  BY <1>1 DEF Requests
<1>3. /\ sb_odd' = [f \in {"irq", "bytes"} |-> sb_odd'[f]] /\ sb_odd'.irq = sb_odd.irq
      /\ sb_odd'.bytes \in BOOLEAN
  BY <1>1 DEF Line
<1>4. Line(sb', sb_line', sb_odd')  BY <1>1, <1>3 DEF Line
<1>5. SoundInv'  BY <1>1, <1>2, <1>4 DEF SoundInv, Card
<1> QED  BY <1>5 DEF Sound!SingleBlockOnce

(* The bytes of a command. *)
LEMMA Bytewise ==
  ASSUME SoundAssumed, NEW c \in DspCommands
  PROVE  Sound!Needed[c] \in Nat \ {0}
BY DEF SoundAssumed, Sound!Needed

LEMMA Queued ==
  ASSUME SoundAssumed, NEW out \in 0 .. OutSize
  PROVE  Sound!Lower(OutSize, out + 1) \in 0 .. OutSize
<1>1. OutSize \in Nat  BY DEF SoundAssumed
<1> QED  BY <1>1 DEF Sound!Lower

SoundStays == SoundInv' /\ Sound!SingleBlockOnce

LEMMA AwaitsBytes ==
  ASSUME SoundAssumed, SoundInv, sb.needed = 0, NEW c \in DspCommands,
         c \in Starting => Sound!CanStart,
         sb' = [sb EXCEPT !.cmd = c, !.needed = Sound!Needed[c],
                          !.block = IF c = "single8" THEN 0 ELSE @], Sound!Quiet
  PROVE  SoundStays
<1>1. Dsp(sb) /\ Parser(sb, sb_odd) /\ Blocks(sb)  BY DEF SoundInv, Card
<1>2. PICK n \in Nat \ {0} : n = Sound!Needed[c]  BY Bytewise
<1>3. PICK b \in Int : b = (IF c = "single8" THEN 0 ELSE sb.block)  BY <1>1 DEF Dsp
<1>4. sb' = [sb EXCEPT !.cmd = c, !.needed = n, !.block = b]  BY <1>2, <1>3
<1>5. /\ IsDsp(sb') /\ sb'.cmd = c /\ sb'.needed = n /\ sb'.block = b
      /\ sb'.in_index = sb.in_index /\ sb'.out = sb.out /\ sb'.auto = sb.auto
      /\ sb'.left = sb.left /\ sb'.hdma = sb.hdma /\ sb'.unit = sb.unit
      /\ sb'.running = sb.running /\ sb'.halted = sb.halted /\ sb'.status = sb.status
      /\ sb'.moved = sb.moved
  BY <1>1, <1>4 DEF Dsp, IsDsp, SbFields
<1>6. n \in Nat /\ n > 0 /\ 0 < n /\ n # 0  BY <1>2
<1>7. Dsp(sb')  BY <1>1, <1>3, <1>5, <1>6, Zenon DEF Dsp
<1>8. Parser(sb', sb_odd)
  <2>1. c \in Starting => ~sb.running /\ ~sb.halted  BY DEF Sound!CanStart
  <2>2. ~sb_odd.bytes => sb.in_index = 0  BY <1>1 DEF Parser
  <2> QED  BY <1>2, <1>5, <1>6, <2>1, <2>2, Zenon DEF Parser
<1>9. Blocks(sb')
  <2>1. CASE c = "single8"
    <3>1. ~sb.running /\ ~sb.halted  BY <2>1 DEF Sound!CanStart, Starting
    <3> QED  BY <1>5, <3>1, Zenon DEF Blocks
  <2>2. CASE c # "single8"
    <3>1. b = sb.block  BY <1>3, <2>2
    <3> QED  BY <1>1, <1>5, <3>1, Zenon DEF Blocks
  <2> QED  BY <2>1, <2>2
<1>10. sb_odd' = sb_odd /\ UNCHANGED <<sb_line, audio, dma>>  BY DEF Sound!Quiet
<1> QED  BY <1>5, <1>7, <1>8, <1>9, <1>10, QuietKeeps, Zenon DEF SoundStays

(* A byte of an answer. *)
LEMMA AnswerKept ==
  ASSUME SoundAssumed, SoundInv, NEW t, t = Sound!Out(sb, 1)
  PROVE  /\ Dsp(t) /\ Parser(t, sb_odd) /\ Blocks(t) /\ t.status = sb.status
         /\ t.running = sb.running /\ t.hdma = sb.hdma /\ t.needed = sb.needed
         /\ t.in_index = sb.in_index
<1>1. Dsp(sb) /\ Parser(sb, sb_odd) /\ Blocks(sb)  BY DEF SoundInv, Card
<1>2. PICK n \in 0 .. OutSize : n = Sound!Lower(OutSize, sb.out + 1)
  BY <1>1, Queued DEF Dsp
<1>3. t = [sb EXCEPT !.out = n]  BY <1>2 DEF Sound!Out
<1>4. /\ IsDsp(t) /\ t.cmd = sb.cmd /\ t.needed = sb.needed /\ t.block = sb.block
      /\ t.in_index = sb.in_index /\ t.out = n /\ t.auto = sb.auto
      /\ t.left = sb.left /\ t.hdma = sb.hdma /\ t.unit = sb.unit
      /\ t.running = sb.running /\ t.halted = sb.halted /\ t.status = sb.status
      /\ t.moved = sb.moved
  BY <1>1, <1>3 DEF Dsp, IsDsp, SbFields
<1>5. Dsp(t)  BY <1>1, <1>2, <1>4, Zenon DEF Dsp
<1>6. Parser(t, sb_odd)  BY <1>1, <1>4, Zenon DEF Parser
<1>7. Blocks(t)  BY <1>1, <1>4, Zenon DEF Blocks
<1> QED  BY <1>4, <1>5, <1>6, <1>7

(* An interrupt on demand. *)
LEMMA Demanded ==
  ASSUME SoundAssumed, SoundInv, NEW high \in BOOLEAN,
         sb' = [Sound!Out(sb, 1) EXCEPT !.status = @ \cup {high}],
         sb_line' = TRUE, UNCHANGED <<audio, dma, sb_odd>>
  PROVE  SoundStays
<1>1. PICK t : t = Sound!Out(sb, 1)  OBVIOUS
<1>2. /\ Dsp(t) /\ Parser(t, sb_odd) /\ Blocks(t) /\ t.status = sb.status
      /\ t.running = sb.running /\ t.hdma = sb.hdma
  BY <1>1, AnswerKept
<1>3. sb' = [t EXCEPT !.status = t.status \cup {high}]  BY <1>1
<1>4. /\ IsDsp(sb') /\ sb'.cmd = t.cmd /\ sb'.needed = t.needed /\ sb'.block = t.block
      /\ sb'.in_index = t.in_index /\ sb'.out = t.out /\ sb'.auto = t.auto
      /\ sb'.left = t.left /\ sb'.hdma = t.hdma /\ sb'.unit = t.unit
      /\ sb'.running = t.running /\ sb'.halted = t.halted /\ sb'.moved = t.moved
      /\ sb'.status = t.status \cup {high}
  BY <1>2, <1>3 DEF Dsp, IsDsp, SbFields
<1>5. Dsp(sb') /\ Parser(sb', sb_odd) /\ Blocks(sb')
  BY <1>2, <1>4, Zenon DEF Dsp, Parser, Blocks
<1>6. Requests(sb, dma) /\ Line(sb, sb_line, sb_odd) /\ Buffer(audio)  BY DEF SoundInv, Card
<1>7. Requests(sb', dma)  BY <1>2, <1>4, <1>6 DEF Requests
<1>8. Line(sb', sb_line', sb_odd)
  <2>1. sb'.status # {}  BY <1>4
  <2> QED  BY <1>6, <2>1, Zenon DEF Line
<1>9. SoundInv'  BY <1>5, <1>6, <1>7, <1>8 DEF SoundInv, Card
<1> QED  BY <1>2, <1>4, <1>9 DEF SoundStays, Sound!SingleBlockOnce

(* 0xd0, 0xd5 and 0xd4, 0xd6. *)
LEMMA HaltKeeps ==
  ASSUME SoundAssumed, SoundInv, UNCHANGED sb_odd, NEW hold \in BOOLEAN,
         sb.needed = 0, sb.running \/ sb.halted, NEW halted \in BOOLEAN,
         ~hold => halted,
         Sound!Control([sb EXCEPT !.halted = halted], hold)
  PROVE  SoundStays
<1>1. Dsp(sb) /\ Parser(sb, sb_odd) /\ Blocks(sb)  BY DEF SoundInv, Card
<1> DEFINE s == [sb EXCEPT !.halted = halted]
           t == [s EXCEPT !.running = hold]
<1>2. /\ IsDsp(s) /\ s.cmd = sb.cmd /\ s.needed = sb.needed /\ s.block = sb.block
      /\ s.in_index = sb.in_index /\ s.out = sb.out /\ s.auto = sb.auto
      /\ s.left = sb.left /\ s.hdma = sb.hdma /\ s.unit = sb.unit
      /\ s.running = sb.running /\ s.halted = halted /\ s.status = sb.status
      /\ s.moved = sb.moved
  BY <1>1 DEF Dsp, IsDsp, SbFields
<1> HIDE DEF s
<1>3. /\ t.needed = sb.needed /\ t.in_index = sb.in_index /\ t.block = sb.block
      /\ t.left = sb.left /\ t.moved = sb.moved /\ t.running = hold /\ t.halted = halted
  BY <1>2 DEF IsDsp, SbFields
<1>4. t = [s EXCEPT !.running = hold]  OBVIOUS
<1> HIDE DEF t
<1>5. Dsp(s)  BY <1>1, <1>2, Zenon DEF Dsp
<1>6. Parser(t, sb_odd)
  <2>1. ~(t.needed > 0)  BY <1>3
  <2>2. ~sb_odd.bytes => sb.in_index = 0  BY <1>1 DEF Parser
  <2> QED  BY <1>3, <2>1, <2>2, Zenon DEF Parser
<1>7. Blocks(t)  BY <1>1, <1>3, Zenon DEF Blocks
<1>8. SoundInv' /\ AfterPart(t, sb')
  BY <1>2, <1>4, <1>5, <1>6, <1>7, ControlKeeps DEF s
<1>9. Sound!SingleBlockOnce
  <2>1. sb'.halted = halted  BY <1>3, <1>8 DEF AfterPart
  <2>2. t.running /\ ~sb'.running => sb'.moved = 0  BY <1>8 DEF AfterPart
  <2> QED  BY <1>3, <2>1, <2>2 DEF Sound!SingleBlockOnce
<1> QED  BY <1>8, <1>9 DEF SoundStays

LEMMA CommandKeeps ==
  ASSUME SoundAssumed, SoundInv, Sound!Command
  PROVE  SoundStays
<1>1. Dsp(sb) /\ Parser(sb, sb_odd) /\ Blocks(sb)  BY DEF SoundInv, Card
<1>2. sb.needed = 0  BY DEF Sound!Command
<1>3. CASE \E c \in DspCommands :
             /\ c \in {"block", "single8", "dma"} => Sound!CanStart
             /\ sb' = [sb EXCEPT !.cmd = c, !.needed = Sound!Needed[c],
                                 !.block = IF c = "single8" THEN 0 ELSE @]
             /\ Sound!Quiet
  BY <1>2, <1>3, AwaitsBytes DEF Starting
<1>4. CASE sb' = Sound!Out(sb, 1) /\ Sound!Quiet
  <2>1. sb_odd' = sb_odd /\ UNCHANGED <<sb_line, audio, dma>>  BY <1>4 DEF Sound!Quiet
  <2>2. /\ Dsp(sb') /\ Parser(sb', sb_odd') /\ Blocks(sb') /\ sb'.status = sb.status
        /\ sb'.running = sb.running /\ sb'.hdma = sb.hdma
    BY <1>4, <2>1, AnswerKept
  <2> QED  BY <2>1, <2>2, QuietKeeps DEF SoundStays
<1>5. CASE Sound!CanStart /\ sb_odd' = sb_odd /\
           \E auto \in BOOLEAN : Sound!Start([sb EXCEPT !.hdma = FALSE, !.auto = auto, !.unit = 1])
  <2>1. PICK auto \in BOOLEAN : Sound!Start([sb EXCEPT !.hdma = FALSE, !.auto = auto, !.unit = 1])
    BY <1>5
  <2>2. ~sb.running /\ ~sb.halted  BY <1>5 DEF Sound!CanStart
  <2>3. PICK s : s = [sb EXCEPT !.hdma = FALSE, !.auto = auto, !.unit = 1]  OBVIOUS
  <2>4. /\ IsDsp(s) /\ s.cmd = sb.cmd /\ s.needed = sb.needed /\ s.block = sb.block
        /\ s.in_index = sb.in_index /\ s.out = sb.out /\ s.auto = auto
        /\ s.left = sb.left /\ s.hdma = FALSE /\ s.unit = 1
        /\ s.running = sb.running /\ s.halted = sb.halted /\ s.status = sb.status
        /\ s.moved = sb.moved
    BY <1>1, <2>3 DEF Dsp, IsDsp, SbFields
  <2>5. 1 \in Nat \ {0} /\ FALSE \in BOOLEAN  OBVIOUS
  <2>6. Dsp(s)  BY <1>1, <2>4, <2>5, Zenon DEF Dsp
  <2>7. ~sb_odd.bytes => s.in_index = 0  BY <1>1, <1>2, <2>4 DEF Parser
  <2>8. sb_odd' = sb_odd /\ Sound!Start(s)  BY <1>5, <2>1, <2>3
  <2> QED  BY <1>2, <2>2, <2>4, <2>6, <2>7, <2>8, StartKeeps DEF SoundStays
<1>6. CASE sb.running /\ Sound!Control([sb EXCEPT !.halted = TRUE], FALSE) /\ UNCHANGED sb_odd
  BY <1>2, <1>6, HaltKeeps
<1>7. CASE sb.halted /\ Sound!Control([sb EXCEPT !.halted = FALSE], TRUE) /\ UNCHANGED sb_odd
  BY <1>2, <1>7, HaltKeeps
<1>8. CASE sb' = [sb EXCEPT !.auto = FALSE] /\ Sound!Quiet
  <2>1. /\ IsDsp(sb') /\ sb'.cmd = sb.cmd /\ sb'.needed = sb.needed /\ sb'.block = sb.block
        /\ sb'.in_index = sb.in_index /\ sb'.out = sb.out /\ sb'.auto = FALSE
        /\ sb'.left = sb.left /\ sb'.hdma = sb.hdma /\ sb'.unit = sb.unit
        /\ sb'.running = sb.running /\ sb'.halted = sb.halted /\ sb'.status = sb.status
        /\ sb'.moved = sb.moved
    BY <1>1, <1>8 DEF Dsp, IsDsp, SbFields
  <2>2. Dsp(sb') /\ Parser(sb', sb_odd) /\ Blocks(sb')
    <3>1. FALSE \in BOOLEAN  OBVIOUS
    <3> QED  BY <1>1, <2>1, <3>1, Zenon DEF Dsp, Parser, Blocks
  <2>3. sb_odd' = sb_odd /\ UNCHANGED <<sb_line, audio, dma>>  BY <1>8 DEF Sound!Quiet
  <2> QED  BY <2>1, <2>2, <2>3, QuietKeeps DEF SoundStays
<1>9. CASE \E high \in BOOLEAN :
             /\ sb' = [Sound!Out(sb, 1) EXCEPT !.status = @ \cup {high}]
             /\ sb_line' = TRUE /\ UNCHANGED <<audio, dma, sb_odd>>
  BY <1>9, Demanded
<1> QED  BY <1>3, <1>4, <1>5, <1>6, <1>7, <1>8, <1>9 DEF Sound!Command

(* Two bytes of a count make a number. *)
LEMMA CountWritten ==
  ASSUME NEW b \in Nat \ {0}, NEW base \in Nat, NEW n \in Nat
  PROVE  /\ (base - (base % b)) + (n % b) \in Nat
         /\ \A m \in Nat : (m % b) + (b * (n \div b)) \in Nat
<1>1. base % b \in 0 .. b - 1 /\ base % b <= base
  <2> DEFINE q == base \div b
             r == base % b
  <2>1. r \in 0 .. b - 1 /\ q \in Nat /\ base = b * q + r  BY Z3
  <2>2. b * q \in Nat  BY <2>1
  <2> HIDE DEF q, r
  <2> QED  BY <2>1, <2>2 DEF r
<1>2. n % b \in 0 .. b - 1  OBVIOUS
<1>3. n \div b \in Nat  OBVIOUS
<1>4. b * (n \div b) \in Nat  BY <1>3
<1>5. (base - (base % b)) + (n % b) \in Nat  BY <1>1, <1>2
<1>6. \A m \in Nat : m % b \in 0 .. b - 1  OBVIOUS
<1> QED  BY <1>4, <1>5, <1>6

LEMMA ProgrammedFits ==
  ASSUME SoundAssumed, NEW d, IsDma(d), NEW n \in Nat, NEW e, e = Sound!Programmed(d, n)
  PROVE  IsDma(e) /\ e.dreq = d.dreq
<1>0. DmaByte \in Nat \ {0}  BY DEF SoundAssumed
<1>1. PICK base \in Nat : base = d.base  BY DEF IsDma
<1>2. PICK low \in Nat : low = (base - (base % DmaByte)) + (n % DmaByte)
  BY <1>0, CountWritten
<1>3. PICK whole \in Nat : whole = (low % DmaByte) + (DmaByte * (n \div DmaByte))
  BY <1>0, CountWritten
<1>4. PICK d2 : d2 = Sound!ClearFlipFlop(Sound!SetMask(d, TRUE))  OBVIOUS
<1>5. /\ d2 = [f \in DmaFields |-> d2[f]] /\ d2.flip_flop = 0 /\ d2.base = base
      /\ d2.dreq = d.dreq /\ d2.tc = d.tc /\ d2.shift = d.shift
  BY <1>1, <1>4 DEF IsDma, DmaFields, Sound!ClearFlipFlop, Sound!SetMask
<1>6. PICK d3 : d3 = Sound!WriteCount(d2, n % DmaByte)  OBVIOUS
<1>7. d3 = [d2 EXCEPT !.base = low, !.flip_flop = 1]
  BY <1>2, <1>5, <1>6 DEF Sound!WriteCount
<1>8. /\ d3 = [f \in DmaFields |-> d3[f]] /\ d3.flip_flop = 1 /\ d3.base = low
      /\ d3.dreq = d.dreq /\ d3.tc = d.tc /\ d3.shift = d.shift
  BY <1>5, <1>7 DEF DmaFields
<1>9. PICK d4 : d4 = Sound!WriteCount(d3, n \div DmaByte)  OBVIOUS
<1>10. d4 = [d3 EXCEPT !.base = whole, !.now = 0, !.flip_flop = 0]
  BY <1>3, <1>8, <1>9 DEF Sound!WriteCount
<1>11. /\ d4 = [f \in DmaFields |-> d4[f]] /\ d4.base = whole /\ d4.now = 0
       /\ d4.dreq = d.dreq /\ d4.tc = d.tc /\ d4.shift = d.shift
  BY <1>8, <1>10 DEF DmaFields
<1>12. e = [d4 EXCEPT !.masked = FALSE]
  BY <1>4, <1>6, <1>9 DEF Sound!Programmed, Sound!SetMask
<1>13. /\ e = [f \in DmaFields |-> e[f]] /\ e.base = whole /\ e.now = 0 /\ e.masked = FALSE
       /\ e.dreq = d.dreq /\ e.tc = d.tc /\ e.shift = d.shift
  BY <1>11, <1>12 DEF DmaFields
<1>14. e.base \in Nat /\ e.shift \in {0, 1} /\ e.dreq \in BOOLEAN /\ e.tc \in BOOLEAN
  BY <1>13 DEF IsDma
<1>15. PICK length \in Nat \ {0} : length = Sound!BufferLength(e)  BY <1>14, Offered
<1>16. 0 \in 0 .. length - 1 /\ FALSE \in BOOLEAN  BY <1>15
<1> QED  BY <1>13, <1>14, <1>15, <1>16, Zenon DEF IsDma

LEMMA ClearedFits ==
  ASSUME NEW d, IsDma(d), NEW e, e = Sound!MasterClear(d)
  PROVE  IsDma(e) /\ e.dreq = FALSE
<1>1. /\ e = [f \in DmaFields |-> e[f]] /\ e.dreq = FALSE /\ e.tc = FALSE /\ e.masked = TRUE
      /\ e.base = d.base /\ e.now = d.now /\ e.shift = d.shift
  BY DEF IsDma, DmaFields, Sound!MasterClear
<1>2. Sound!BufferLength(e) = Sound!BufferLength(d)  BY <1>1 DEF Sound!BufferLength
<1>3. TRUE \in BOOLEAN /\ FALSE \in BOOLEAN  OBVIOUS
<1> QED  BY <1>1, <1>2, <1>3, Zenon DEF IsDma

LEMMA StatusRead ==
  ASSUME NEW d, IsDma(d), NEW e, e = Sound!ReadStatus(d)
  PROVE  IsDma(e) /\ e.dreq = d.dreq
<1>1. /\ e = [f \in DmaFields |-> e[f]] /\ e.dreq = d.dreq /\ e.tc = FALSE /\ e.masked = d.masked
      /\ e.base = d.base /\ e.now = d.now /\ e.shift = d.shift
  BY DEF IsDma, DmaFields, Sound!ReadStatus
<1>2. Sound!BufferLength(e) = Sound!BufferLength(d)  BY <1>1 DEF Sound!BufferLength
<1>3. FALSE \in BOOLEAN  OBVIOUS
<1> QED  BY <1>1, <1>2, <1>3, Zenon DEF IsDma

(* A controller that keeps its request. *)
LEMMA Replaced ==
  ASSUME NEW s, Requests(s, dma), NEW high \in BOOLEAN, NEW e, IsDma(e), e.dreq = dma[high].dreq,
         NEW ds, ds = [dma EXCEPT ![high] = e]
  PROVE  Requests(s, ds)
<1>1. dma = [h \in BOOLEAN |-> dma[h]]
      /\ \A h \in BOOLEAN : IsDma(dma[h]) /\ (dma[h].dreq <=> (s.running /\ s.hdma = h))
  BY DEF Requests
<1>2. \A h \in BOOLEAN : ds[h] = IF h = high THEN e ELSE dma[h]  BY <1>1
<1>3. \A h \in BOOLEAN : IsDma(ds[h]) /\ (ds[h].dreq <=> (s.running /\ s.hdma = h))
  <2> TAKE h \in BOOLEAN
  <2>1. CASE h = high  BY <1>1, <1>2, <2>1, Zenon
  <2>2. CASE h # high  BY <1>1, <1>2, <2>2, Zenon
  <2> QED  BY <2>1, <2>2
<1>4. ds = [h \in BOOLEAN |-> ds[h]]  BY <1>1
<1> QED  BY <1>3, <1>4 DEF Requests

LEMMA RunStays ==
  ASSUME SoundAssumed, NEW high \in BOOLEAN, NEW ds, Card(sb, sb_line, audio, ds, sb_odd),
         Sound!DmaRunWith(high, sb, ds), UNCHANGED sb_odd
  PROVE  SoundStays
<1>1. SoundInv' /\ AfterPart(sb, sb')  BY RunKeeps
<1> QED  BY <1>1 DEF SoundStays, AfterPart, Sound!SingleBlockOnce

LEMMA DmaKeeps ==
  ASSUME SoundAssumed, SoundInv, Sound!ProgramDma \/ Sound!DmaRun
  PROVE  SoundStays
<1>1. /\ Dsp(sb) /\ Parser(sb, sb_odd) /\ Blocks(sb) /\ Requests(sb, dma)
      /\ Line(sb, sb_line, sb_odd) /\ Buffer(audio)
  BY DEF SoundInv, Card
<1>2. CASE Sound!DmaRun
  <2>1. PICK high \in BOOLEAN : Sound!DmaRunWith(high, sb, dma) /\ UNCHANGED sb_odd
    BY <1>2 DEF Sound!DmaRun
  <2> QED  BY <2>1, RunStays DEF SoundInv
<1>3. CASE Sound!ProgramDma
  <2>1. PICK high \in {f.wide : f \in Formats} :
          \/ \E n \in DmaCounts,
                d \in {dma[high]} \cup (IF sb.running THEN {} ELSE {Sound!MasterClear(dma[high])}) :
               /\ Sound!DmaRunWith(high, sb, [dma EXCEPT ![high] = Sound!Programmed(d, n)])
               /\ UNCHANGED sb_odd
          \/ /\ dma' = [dma EXCEPT ![high] = Sound!ReadStatus(@)]
             /\ UNCHANGED <<sb, sb_line, audio, sb_odd>>
    BY <1>3 DEF Sound!ProgramDma
  <2>2. high \in BOOLEAN  BY DEF SoundAssumed
  <2>3. dma = [h \in BOOLEAN |-> dma[h]] /\ IsDma(dma[high])  BY <1>1, <2>2 DEF Requests
  <2>4. ASSUME NEW n \in DmaCounts, NEW d, IsDma(d), d.dreq = dma[high].dreq,
               Sound!DmaRunWith(high, sb, [dma EXCEPT ![high] = Sound!Programmed(d, n)]),
               UNCHANGED sb_odd
        PROVE  SoundStays
    <3>1. n \in Nat  BY DEF SoundAssumed
    <3>2. PICK e : e = Sound!Programmed(d, n)  OBVIOUS
    <3>3. IsDma(e) /\ e.dreq = d.dreq  BY <2>4, <3>1, <3>2, ProgrammedFits
    <3>4. PICK ds : ds = [dma EXCEPT ![high] = e]  OBVIOUS
    <3>5. Requests(sb, ds)  BY <1>1, <2>2, <2>4, <3>3, <3>4, Replaced
    <3>6. Card(sb, sb_line, audio, ds, sb_odd)  BY <1>1, <3>5 DEF Card
    <3>7. Sound!DmaRunWith(high, sb, ds)  BY <2>4, <3>2, <3>4
    <3> QED  BY <2>2, <2>4, <3>6, <3>7, RunStays
  <2>5. CASE \E n \in DmaCounts,
               d \in {dma[high]} \cup (IF sb.running THEN {} ELSE {Sound!MasterClear(dma[high])}) :
               /\ Sound!DmaRunWith(high, sb, [dma EXCEPT ![high] = Sound!Programmed(d, n)])
               /\ UNCHANGED sb_odd
    <3>1. PICK n \in DmaCounts,
               d \in {dma[high]} \cup (IF sb.running THEN {} ELSE {Sound!MasterClear(dma[high])}) :
               /\ Sound!DmaRunWith(high, sb, [dma EXCEPT ![high] = Sound!Programmed(d, n)])
               /\ UNCHANGED sb_odd
      BY <2>5
    <3>2. CASE d = dma[high]  BY <2>3, <2>4, <3>1, <3>2
    <3>3. CASE d # dma[high]
      <4>1. ~sb.running /\ d = Sound!MasterClear(dma[high])
        <5>1. CASE sb.running  BY <3>1, <3>3, <5>1
        <5>2. CASE ~sb.running  BY <3>1, <3>3, <5>2
        <5> QED  BY <5>1, <5>2
      <4>2. IsDma(d) /\ d.dreq = FALSE  BY <2>3, <4>1, ClearedFits
      <4>3. dma[high].dreq = FALSE  BY <1>1, <2>2, <2>3, <4>1 DEF Requests, IsDma
      <4> QED  BY <2>4, <3>1, <4>2, <4>3
    <3> QED  BY <3>2, <3>3
  <2>6. CASE /\ dma' = [dma EXCEPT ![high] = Sound!ReadStatus(@)]
             /\ UNCHANGED <<sb, sb_line, audio, sb_odd>>
    <3>1. PICK e : e = Sound!ReadStatus(dma[high])  OBVIOUS
    <3>2. IsDma(e) /\ e.dreq = dma[high].dreq  BY <2>3, <3>1, StatusRead
    <3>3. dma' = [dma EXCEPT ![high] = e]  BY <2>6, <3>1
    <3>4. Requests(sb, dma')  BY <1>1, <2>2, <3>2, <3>3, Replaced
    <3>5. SoundInv'  BY <1>1, <2>6, <3>4 DEF SoundInv, Card
    <3> QED  BY <2>6, <3>5 DEF SoundStays, Sound!SingleBlockOnce
  <2> QED  BY <2>1, <2>5, <2>6
<1> QED  BY <1>2, <1>3

(* The parser when the last byte of a command has come. *)
LEMMA LastByte ==
  ASSUME SoundAssumed, SoundInv, sb.needed > 0, sb.in_index + 1 = sb.needed,
         NEW s, s = [sb EXCEPT !.needed = 0, !.in_index = (sb.in_index + 1) - Sound!Taken(sb.cmd)],
         NEW t, t = [s EXCEPT !.cmd = "none"]
  PROVE  /\ Dsp(t) /\ Blocks(t) /\ t.needed = 0 /\ s.cmd = sb.cmd /\ t.status = sb.status
         /\ t.running = sb.running /\ t.hdma = sb.hdma
         /\ t.out = sb.out /\ t.halted = sb.halted
         /\ sb.cmd \in Starting => Sound!CanStart
         /\ sb.cmd \in DspCommands
         /\ (sb.cmd # "adpcm" /\ ~sb_odd.bytes) => t.in_index = 0
<1>1. Dsp(sb) /\ Parser(sb, sb_odd) /\ Blocks(sb)  BY DEF SoundInv, Card
<1>2. /\ sb.cmd \in DspCommands /\ sb.needed = Sound!Needed[sb.cmd]
      /\ sb.cmd \in Starting => ~sb.running /\ ~sb.halted
  BY <1>1 DEF Parser
<1>3. PICK needed \in Nat : needed = Sound!Needed[sb.cmd]  BY <1>2, Bytewise
<1>4. PICK taken \in Nat : taken = Sound!Taken(sb.cmd) /\ (sb.cmd # "adpcm" => taken = needed)
  <2>1. Sound!Taken(sb.cmd) = IF sb.cmd = "adpcm" THEN 0 ELSE needed  BY <1>3 DEF Sound!Taken
  <2> QED  BY <1>3, <2>1
<1>5. PICK index \in Int : index = needed - taken
  BY <1>3, <1>4
<1>6. sb.cmd # "adpcm" => index = 0  BY <1>3, <1>4, <1>5
<1>7. s = [sb EXCEPT !.needed = 0, !.in_index = index]
  BY <1>2, <1>3, <1>4, <1>5
<1>8. /\ IsDsp(s) /\ s.cmd = sb.cmd /\ s.needed = 0 /\ s.block = sb.block
      /\ s.in_index = index /\ s.out = sb.out /\ s.auto = sb.auto
      /\ s.left = sb.left /\ s.hdma = sb.hdma /\ s.unit = sb.unit
      /\ s.running = sb.running /\ s.halted = sb.halted /\ s.status = sb.status
      /\ s.moved = sb.moved
  BY <1>1, <1>7 DEF Dsp, IsDsp, SbFields
<1>9. /\ IsDsp(t) /\ t.needed = 0 /\ t.block = sb.block
      /\ t.in_index = index /\ t.out = sb.out /\ t.auto = sb.auto
      /\ t.left = sb.left /\ t.hdma = sb.hdma /\ t.unit = sb.unit
      /\ t.running = sb.running /\ t.halted = sb.halted /\ t.status = sb.status
      /\ t.moved = sb.moved
  BY <1>8 DEF IsDsp, SbFields
<1>10. 0 \in Nat /\ index \in Int  BY <1>5
<1>11. Dsp(t)  BY <1>1, <1>9, <1>10, Zenon DEF Dsp
<1>12. Blocks(t)  BY <1>1, <1>9, Zenon DEF Blocks
<1> QED  BY <1>2, <1>6, <1>8, <1>9, <1>11, <1>12, Zenon DEF Sound!CanStart

(* A transfer that a command with parameters starts. *)
LEMMA StartedByCommand ==
  ASSUME SoundAssumed, SoundInv, NEW t, Dsp(t), t.needed = 0, ~sb_odd.bytes => t.in_index = 0,
         t.status = sb.status, ~sb.running, ~sb.halted, UNCHANGED sb_odd,
         NEW block \in Int, NEW hdma \in BOOLEAN, NEW auto \in BOOLEAN, NEW unit \in Nat \ {0},
         NEW u, u = [t EXCEPT !.block = block, !.hdma = hdma, !.auto = auto, !.unit = unit],
         Sound!Start(u)
  PROVE  SoundStays
<1>1. /\ IsDsp(u) /\ u.needed = t.needed /\ u.block = block
      /\ u.in_index = t.in_index /\ u.out = t.out /\ u.auto = auto
      /\ u.left = t.left /\ u.hdma = hdma /\ u.unit = unit
      /\ u.running = t.running /\ u.halted = t.halted /\ u.status = t.status
      /\ u.moved = t.moved
  BY DEF Dsp, IsDsp, SbFields
<1>2. Dsp(u)  BY <1>1, Zenon DEF Dsp
<1> QED  BY <1>1, <1>2, StartKeeps DEF SoundStays

LEMMA ParameterKeeps ==
  ASSUME SoundAssumed, SoundInv, Sound!Parameter
  PROVE  SoundStays
<1>1. /\ Dsp(sb) /\ Parser(sb, sb_odd) /\ Blocks(sb) /\ Requests(sb, dma)
      /\ Line(sb, sb_line, sb_odd) /\ Buffer(audio)
  BY DEF SoundInv, Card
<1>2. sb.needed > 0  BY DEF Sound!Parameter
<1>3. CASE sb.in_index = InSize
  <2>1. UNCHANGED sb /\ Sound!Quiet  BY <1>3 DEF Sound!Parameter
  <2>2. sb' = sb /\ UNCHANGED <<sb_line, audio, dma, sb_odd>>  BY <2>1 DEF Sound!Quiet
  <2> QED  BY <1>1, <2>2, QuietKeeps DEF SoundStays
<1>4. CASE sb.in_index # InSize /\ sb.in_index + 1 # sb.needed
  <2>1. PICK index \in Int : index = sb.in_index + 1  BY <1>1 DEF Dsp
  <2>2. sb' = [sb EXCEPT !.in_index = index] /\ Sound!Quiet
    <3>1. PICK s : s = [sb EXCEPT !.in_index = index]  OBVIOUS
    <3>2. s.in_index = index /\ s.needed = sb.needed  BY <1>1, <3>1 DEF Dsp, IsDsp, SbFields
    <3> QED  BY <1>4, <2>1, <3>1, <3>2 DEF Sound!Parameter
  <2>3. /\ IsDsp(sb') /\ sb'.cmd = sb.cmd /\ sb'.needed = sb.needed /\ sb'.block = sb.block
        /\ sb'.in_index = index /\ sb'.out = sb.out /\ sb'.auto = sb.auto
        /\ sb'.left = sb.left /\ sb'.hdma = sb.hdma /\ sb'.unit = sb.unit
        /\ sb'.running = sb.running /\ sb'.halted = sb.halted /\ sb'.status = sb.status
        /\ sb'.moved = sb.moved
    BY <1>1, <2>2 DEF Dsp, IsDsp, SbFields
  <2>4. Dsp(sb') /\ Blocks(sb')  BY <1>1, <2>1, <2>3, Zenon DEF Dsp, Blocks
  <2>5. Parser(sb', sb_odd)
    <3>1. ~sb_odd.bytes => index < sb.needed
      <4>1. PICK i \in Int, n \in Nat : i = sb.in_index /\ n = sb.needed  BY <1>1 DEF Dsp
      <4>2. ~sb_odd.bytes => i < n  BY <1>1, <1>2, <4>1 DEF Parser
      <4>3. index = i + 1 /\ i + 1 # n  BY <1>4, <2>1, <4>1
      <4>4. ~sb_odd.bytes => index < n  BY <4>1, <4>2, <4>3
      <4> QED  BY <4>1, <4>4
    <3>2. sb.needed # 0  BY <1>2
    <3> QED  BY <1>1, <2>3, <3>1, <3>2, Zenon DEF Parser
  <2>6. UNCHANGED <<sb_line, audio, dma, sb_odd>>  BY <2>2 DEF Sound!Quiet
  <2> QED  BY <2>3, <2>4, <2>5, <2>6, QuietKeeps DEF SoundStays
<1>5. CASE sb.in_index # InSize /\ sb.in_index + 1 = sb.needed
  <2>1. PICK s : s = [sb EXCEPT !.needed = 0, !.in_index = (sb.in_index + 1) - Sound!Taken(sb.cmd)]
    OBVIOUS
  <2>2. PICK t : t = [s EXCEPT !.cmd = "none"]  OBVIOUS
  <2>3. /\ Dsp(t) /\ Blocks(t) /\ t.needed = 0 /\ s.cmd = sb.cmd /\ t.status = sb.status
        /\ t.running = sb.running /\ t.hdma = sb.hdma
        /\ t.out = sb.out /\ t.halted = sb.halted
        /\ sb.cmd \in Starting => Sound!CanStart
        /\ sb.cmd \in DspCommands
        /\ (sb.cmd # "adpcm" /\ ~sb_odd.bytes) => t.in_index = 0
    BY <1>2, <1>5, <2>1, <2>2, LastByte
  <2>4. Sound!Complete(s)
    <3>1. PICK r : r = [sb EXCEPT !.in_index = @ + 1]  OBVIOUS
    <3>2. r.in_index = sb.in_index + 1 /\ r.needed = sb.needed /\ r.cmd = sb.cmd
      BY <1>1, <3>1 DEF Dsp, IsDsp, SbFields
    <3>3. s = [r EXCEPT !.needed = 0, !.in_index = @ - Sound!Taken(r.cmd)]
      BY <1>1, <2>1, <3>1, <3>2 DEF Dsp, IsDsp, SbFields
    <3> QED  BY <1>5, <3>1, <3>2, <3>3 DEF Sound!Parameter
  <2>5. CASE sb.cmd = "adpcm"
    <3>1. /\ sb' = t /\ sb_odd' = [sb_odd EXCEPT !.bytes = TRUE]
          /\ UNCHANGED <<sb_line, audio, dma>>
      BY <2>2, <2>3, <2>4, <2>5 DEF Sound!Complete
    <3>2. sb_odd'.bytes = TRUE  BY <1>1, <3>1 DEF Line
    <3>3. Parser(t, sb_odd')
      <4>1. ~(0 > 0)  OBVIOUS
      <4> QED  BY <2>3, <3>2, <4>1, Zenon DEF Parser
    <3> QED  BY <2>3, <3>1, <3>3, QuietKeeps DEF SoundStays
  <2>6. CASE sb.cmd # "adpcm"
    <3>1. ~sb_odd.bytes => t.in_index = 0  BY <2>3, <2>6
    <3>2. Parser(t, sb_odd)
      <4>1. ~(0 > 0)  OBVIOUS
      <4> QED  BY <2>3, <3>1, <4>1, Zenon DEF Parser
    <3>3. ASSUME sb' = t, Sound!Quiet  PROVE  SoundStays
      <4>1. UNCHANGED <<sb_line, audio, dma, sb_odd>>  BY <3>3 DEF Sound!Quiet
      <4> QED  BY <2>3, <3>2, <3>3, <4>1, QuietKeeps DEF SoundStays
    <3>4. CASE sb.cmd = "block"
      <4>1. PICK n \in Lengths : sb' = [t EXCEPT !.block = n + 1] /\ Sound!Quiet
        BY <2>2, <2>3, <2>4, <3>4 DEF Sound!Complete
      <4>2. ~sb.running /\ ~sb.halted  BY <2>3, <3>4 DEF Starting, Sound!CanStart
      <4>3. PICK b \in Int : b = n + 1  BY DEF SoundAssumed
      <4>4. sb' = [t EXCEPT !.block = b]  BY <4>1, <4>3
      <4>5. /\ IsDsp(sb') /\ sb'.needed = t.needed /\ sb'.block = b
            /\ sb'.in_index = t.in_index /\ sb'.out = t.out /\ sb'.auto = t.auto
            /\ sb'.left = t.left /\ sb'.hdma = t.hdma /\ sb'.unit = t.unit
            /\ sb'.running = t.running /\ sb'.halted = t.halted /\ sb'.status = t.status
            /\ sb'.moved = t.moved
        BY <2>3, <4>4 DEF Dsp, IsDsp, SbFields
      <4>6. Dsp(sb') /\ Blocks(sb')  BY <2>3, <4>2, <4>3, <4>5, Zenon DEF Dsp, Blocks
      <4>7. Parser(sb', sb_odd)
        <5>1. ~(0 > 0)  OBVIOUS
        <5> QED  BY <2>3, <3>1, <4>5, <5>1, Zenon DEF Parser
      <4>8. UNCHANGED <<sb_line, audio, dma, sb_odd>>  BY <4>1 DEF Sound!Quiet
      <4> QED  BY <2>3, <4>5, <4>6, <4>7, <4>8, QuietKeeps DEF SoundStays
    <3>5. CASE sb.cmd = "single8"
      <4>1. PICK n \in Lengths :
              /\ Sound!Start([t EXCEPT !.block = n + 1, !.hdma = FALSE, !.auto = FALSE, !.unit = 1])
              /\ UNCHANGED sb_odd
        BY <2>2, <2>3, <2>4, <3>5 DEF Sound!Complete
      <4>2. ~sb.running /\ ~sb.halted  BY <2>3, <3>5 DEF Starting, Sound!CanStart
      <4>3. n + 1 \in Int  BY DEF SoundAssumed
      <4>4. 1 \in Nat \ {0}  OBVIOUS
      <4> QED  BY <2>3, <3>1, <4>1, <4>2, <4>3, <4>4, StartedByCommand
    <3>6. CASE sb.cmd = "dma"
      <4>1. PICK n \in Lengths, f \in Formats, auto \in BOOLEAN :
              LET bytes == IF f.wide THEN 2 ELSE 1
                  channels == IF f.stereo THEN 2 ELSE 1
              IN Sound!Start([t EXCEPT !.block = (n + 1) * bytes * (IF auto THEN 1 ELSE channels),
                                       !.unit = bytes * channels, !.hdma = f.wide, !.auto = auto])
        BY <2>2, <2>3, <2>4, <3>6, ZenonT(30) DEF Sound!Complete
      <4>2. UNCHANGED sb_odd  BY <2>2, <2>3, <2>4, <3>6 DEF Sound!Complete
      <4>3. ~sb.running /\ ~sb.halted  BY <2>3, <3>6 DEF Starting, Sound!CanStart
      <4>4. PICK bytes \in {1, 2}, channels \in {1, 2} :
              bytes = (IF f.wide THEN 2 ELSE 1) /\ channels = (IF f.stereo THEN 2 ELSE 1)
        OBVIOUS
      <4>5. PICK c \in {1, 2} : c = IF auto THEN 1 ELSE channels  BY <4>4
      <4>6. PICK block \in Int : block = (n + 1) * bytes * c
        <5>1. n \in Nat  BY DEF SoundAssumed
        <5> QED  BY <4>4, <4>5, <5>1
      <4>7. PICK unit \in Nat \ {0} : unit = bytes * channels  BY <4>4
      <4>8. f.wide \in BOOLEAN  BY DEF SoundAssumed
      <4>9. PICK u : u = [t EXCEPT !.block = block, !.hdma = f.wide, !.auto = auto, !.unit = unit]
        OBVIOUS
      <4>10. u = [t EXCEPT !.block = (n + 1) * bytes * (IF auto THEN 1 ELSE channels),
                           !.unit = bytes * channels, !.hdma = f.wide, !.auto = auto]
        BY <2>3, <4>5, <4>6, <4>7, <4>9 DEF Dsp, IsDsp, SbFields
      <4>11. Sound!Start(u)  BY <4>1, <4>4, <4>10
      <4> QED  BY <2>3, <3>1, <4>2, <4>3, <4>8, <4>9, <4>11, StartedByCommand
    <3>7. CASE sb.cmd = "reply"
      <4>1. PICK n : n = Sound!Lower(OutSize, sb.out + 1)  OBVIOUS
      <4>2. n \in 0 .. OutSize  BY <1>1, <4>1, Queued DEF Dsp
      <4>3. sb' = [t EXCEPT !.out = n] /\ Sound!Quiet
        BY <2>2, <2>3, <2>4, <3>7, <4>1 DEF Sound!Complete, Sound!Out
      <4>4. /\ IsDsp(sb') /\ sb'.needed = t.needed /\ sb'.block = t.block
            /\ sb'.in_index = t.in_index /\ sb'.out = n /\ sb'.auto = t.auto
            /\ sb'.left = t.left /\ sb'.hdma = t.hdma /\ sb'.unit = t.unit
            /\ sb'.running = t.running /\ sb'.halted = t.halted /\ sb'.status = t.status
            /\ sb'.moved = t.moved
        BY <2>3, <4>3 DEF Dsp, IsDsp, SbFields
      <4>5. Dsp(sb') /\ Blocks(sb')  BY <2>3, <4>2, <4>4, Zenon DEF Dsp, Blocks
      <4>6. Parser(sb', sb_odd)
        <5>1. ~(0 > 0)  OBVIOUS
        <5> QED  BY <2>3, <3>1, <4>4, <5>1, Zenon DEF Parser
      <4>7. UNCHANGED <<sb_line, audio, dma, sb_odd>>  BY <4>3 DEF Sound!Quiet
      <4> QED  BY <2>3, <4>4, <4>5, <4>6, <4>7, QuietKeeps DEF SoundStays
    <3>8. CASE sb.cmd = "silence"
      <4>1. \/ sb' = t /\ Sound!Quiet
            \/ /\ sb' = t /\ sb_line' = TRUE
               /\ sb_odd' = [sb_odd EXCEPT !.irq = TRUE]
               /\ UNCHANGED <<audio, dma>>
        BY <2>2, <2>3, <2>4, <3>8 DEF Sound!Complete
      <4>2. CASE /\ sb' = t /\ sb_line' = TRUE
                 /\ sb_odd' = [sb_odd EXCEPT !.irq = TRUE]
                 /\ UNCHANGED <<audio, dma>>
        <5>1. /\ sb_odd' = [f \in {"irq", "bytes"} |-> sb_odd'[f]] /\ sb_odd'.irq = TRUE
              /\ sb_odd'.bytes = sb_odd.bytes /\ sb_odd.bytes \in BOOLEAN
          BY <1>1, <4>2 DEF Line
        <5>2. Parser(t, sb_odd')  BY <3>2, <5>1, Zenon DEF Parser
        <5>3. Requests(t, dma)  BY <1>1, <2>3 DEF Requests
        <5>4. Line(t, sb_line', sb_odd')
          <6>1. TRUE \in BOOLEAN  OBVIOUS
          <6> QED  BY <4>2, <5>1, <6>1, Zenon DEF Line
        <5>5. SoundInv'  BY <1>1, <2>3, <4>2, <5>2, <5>3, <5>4 DEF SoundInv, Card
        <5> QED  BY <2>3, <4>2, <5>5 DEF SoundStays, Sound!SingleBlockOnce
      <4> QED  BY <3>3, <4>1, <4>2
    <3>9. CASE sb.cmd \notin {"adpcm", "block", "single8", "dma", "reply", "silence"}
      <4>1. sb' = t /\ Sound!Quiet
        BY <2>2, <2>3, <2>4, <3>9 DEF Sound!Complete
      <4> QED  BY <3>3, <4>1
    <3> QED  BY <2>6, <3>4, <3>5, <3>6, <3>7, <3>8, <3>9
  <2> QED  BY <2>5, <2>6
<1> QED  BY <1>3, <1>4, <1>5

LEMMA ResetKeeps ==
  ASSUME SoundAssumed, SoundInv, Sound!Reset
  PROVE  SoundStays
<1>1. Dsp(sb) /\ Requests(sb, dma) /\ Buffer(audio)  BY DEF SoundInv, Card
<1>2. PICK out \in 0 .. OutSize : out = Sound!Lower(1, OutSize)
  <2>1. OutSize \in Nat  BY DEF SoundAssumed
  <2> QED  BY <2>1 DEF Sound!Lower
<1>3. PICK s : s = [sb EXCEPT !.status = {}, !.auto = FALSE, !.in_index = 0, !.out = out, !.left = 0,
                              !.needed = 0, !.block = -1, !.cmd = "none", !.halted = FALSE, !.moved = 0]
  OBVIOUS
<1>4. s = Sound!AfterReset(sb)  BY <1>2, <1>3 DEF Sound!AfterReset
<1>5. /\ IsDsp(s) /\ s.status = {} /\ s.auto = FALSE /\ s.in_index = 0 /\ s.out = out /\ s.left = 0
      /\ s.needed = 0 /\ s.block = -1 /\ s.cmd = "none" /\ s.halted = FALSE /\ s.moved = 0
      /\ s.hdma = sb.hdma /\ s.unit = sb.unit /\ s.running = sb.running
  BY <1>1, <1>3 DEF Dsp, IsDsp, SbFields
<1>6. /\ sb' = [s EXCEPT !.running = FALSE] /\ dma' = [dma EXCEPT ![sb.hdma].dreq = FALSE]
      /\ sb_line' = FALSE /\ sb_odd' = [irq |-> FALSE, bytes |-> FALSE] /\ audio' = audio
  BY <1>4 DEF Sound!Reset, Sound!Current
<1>7. /\ IsDsp(sb') /\ sb'.running = FALSE /\ sb'.status = {} /\ sb'.auto = FALSE /\ sb'.in_index = 0
      /\ sb'.out = out /\ sb'.left = 0 /\ sb'.needed = 0 /\ sb'.block = -1 /\ sb'.halted = FALSE
      /\ sb'.moved = 0 /\ sb'.hdma = sb.hdma /\ sb'.unit = sb.unit
  BY <1>5, <1>6 DEF IsDsp, SbFields
<1>8. ~(0 > 0) /\ ~(-1 > 0) /\ 0 \in Nat /\ 0 \in Int /\ -1 \in Int /\ FALSE \in BOOLEAN  OBVIOUS
<1>9. Dsp(sb') /\ Blocks(sb')  BY <1>1, <1>2, <1>7, <1>8, Zenon DEF Dsp, Blocks
<1>10. Parser(sb', sb_odd')  BY <1>7, <1>8, Zenon DEF Parser
<1>11. Requests(sb', dma')
  <2>1. sb'.hdma \in BOOLEAN  BY <1>1, <1>7 DEF Dsp
  <2>2. dma' = [dma EXCEPT ![sb'.hdma].dreq = FALSE]  BY <1>6, <1>7
  <2> QED  BY <1>1, <1>7, <1>8, <2>1, <2>2, Requested
<1>12. Line(sb', sb_line', sb_odd')
  <2>1. /\ sb_odd' = [f \in {"irq", "bytes"} |-> sb_odd'[f]] /\ sb_odd'.irq = FALSE
        /\ sb_odd'.bytes = FALSE
    BY <1>6
  <2> QED  BY <1>6, <1>8, <2>1, Zenon DEF Line
<1>13. SoundInv'  BY <1>1, <1>6, <1>9, <1>10, <1>11, <1>12 DEF SoundInv, Card
<1>14. Sound!SingleBlockOnce  BY <1>7, <1>8, Zenon DEF Sound!SingleBlockOnce
<1> QED  BY <1>13, <1>14 DEF SoundStays

LEMMA ReadKeeps ==
  ASSUME SoundAssumed, SoundInv, Sound!ReadData
  PROVE  SoundStays
<1>1. Dsp(sb) /\ Parser(sb, sb_odd) /\ Blocks(sb)  BY DEF SoundInv, Card
<1>2. PICK n \in 0 .. OutSize : n = IF sb.out > 0 THEN sb.out - 1 ELSE 0
  <2>1. OutSize \in Nat  BY DEF SoundAssumed
  <2>2. PICK out : out = sb.out  OBVIOUS
  <2>3. out \in 0 .. OutSize  BY <1>1, <2>2 DEF Dsp
  <2>4. (IF out > 0 THEN out - 1 ELSE 0) \in 0 .. OutSize  BY <2>1, <2>3
  <2> QED  BY <2>2, <2>4
<1>3. sb' = [sb EXCEPT !.out = n]  BY <1>2 DEF Sound!ReadData
<1>4. /\ IsDsp(sb') /\ sb'.cmd = sb.cmd /\ sb'.needed = sb.needed /\ sb'.block = sb.block
      /\ sb'.in_index = sb.in_index /\ sb'.out = n /\ sb'.auto = sb.auto
      /\ sb'.left = sb.left /\ sb'.hdma = sb.hdma /\ sb'.unit = sb.unit
      /\ sb'.running = sb.running /\ sb'.halted = sb.halted /\ sb'.status = sb.status
      /\ sb'.moved = sb.moved
  BY <1>1, <1>3 DEF Dsp, IsDsp, SbFields
<1>5. Dsp(sb') /\ Parser(sb', sb_odd) /\ Blocks(sb')
  BY <1>1, <1>2, <1>4, Zenon DEF Dsp, Parser, Blocks
<1>6. UNCHANGED <<sb_line, audio, dma, sb_odd>>  BY DEF Sound!ReadData, Sound!Quiet
<1> QED  BY <1>4, <1>5, <1>6, QuietKeeps DEF SoundStays

LEMMA AcknowledgeKeeps ==
  ASSUME SoundAssumed, SoundInv, Sound!Acknowledge
  PROVE  SoundStays
<1>1. /\ Dsp(sb) /\ Parser(sb, sb_odd) /\ Blocks(sb) /\ Requests(sb, dma)
      /\ Line(sb, sb_line, sb_odd) /\ Buffer(audio)
  BY DEF SoundInv, Card
<1>2. PICK high \in BOOLEAN :
        /\ sb_line' = Sound!LineAfterAck(high)
        /\ sb' = [sb EXCEPT !.status = @ \ {high}]
        /\ sb_odd' = [sb_odd EXCEPT !.irq = @ /\ sb_line']
        /\ UNCHANGED <<audio, dma>>
  BY DEF Sound!Acknowledge
<1>3. /\ IsDsp(sb') /\ sb'.cmd = sb.cmd /\ sb'.needed = sb.needed /\ sb'.block = sb.block
      /\ sb'.in_index = sb.in_index /\ sb'.out = sb.out /\ sb'.auto = sb.auto
      /\ sb'.left = sb.left /\ sb'.hdma = sb.hdma /\ sb'.unit = sb.unit
      /\ sb'.running = sb.running /\ sb'.halted = sb.halted /\ sb'.status = sb.status \ {high}
      /\ sb'.moved = sb.moved
  BY <1>1, <1>2 DEF Dsp, IsDsp, SbFields
<1>4. sb_line \in BOOLEAN /\ sb_odd.irq \in BOOLEAN /\ sb_odd.bytes \in BOOLEAN
  BY <1>1 DEF Line
<1>5. sb_line' \in BOOLEAN /\ (sb_line' <=> (sb_line /\ high \notin sb.status))
  BY <1>2, <1>4 DEF Sound!LineAfterAck
<1>6. PICK irq \in BOOLEAN : irq = (sb_odd.irq /\ sb_line')  BY <1>4, <1>5
<1>7. sb_odd' = [sb_odd EXCEPT !.irq = irq]  BY <1>2, <1>6
<1>8. /\ sb_odd' = [f \in {"irq", "bytes"} |-> sb_odd'[f]] /\ sb_odd'.irq = irq
      /\ sb_odd'.bytes = sb_odd.bytes
  BY <1>1, <1>7 DEF Line
<1>9. Line(sb', sb_line', sb_odd')
  <2>1. ASSUME sb'.status = {}, ~irq, sb_line'  PROVE FALSE
    <3>1. sb_line /\ high \notin sb.status  BY <1>5, <2>1
    <3>2. sb.status = {}  BY <1>3, <2>1, <3>1
    <3>3. ~sb_odd.irq  BY <1>6, <2>1
    <3> QED  BY <1>1, <3>1, <3>2, <3>3 DEF Line
  <2> QED  BY <1>4, <1>5, <1>6, <1>8, <2>1, Zenon DEF Line
<1>10. Dsp(sb') /\ Blocks(sb')  BY <1>1, <1>3, Zenon DEF Dsp, Blocks
<1>11. Parser(sb', sb_odd')  BY <1>1, <1>3, <1>8, Zenon DEF Parser
<1>12. Requests(sb', dma')  BY <1>1, <1>2, <1>3 DEF Requests
<1>13. SoundInv'  BY <1>1, <1>2, <1>9, <1>10, <1>11, <1>12 DEF SoundInv, Card
<1> QED  BY <1>3, <1>13 DEF SoundStays, Sound!SingleBlockOnce

(* What a callback takes leaves the buffer within its limit. *)
LEMMA Drained ==
  ASSUME NEW most \in Nat, NEW fill \in 0 .. most + 1, NEW odd \in BOOLEAN, odd => fill <= most,
         NEW i \in 0 .. fill, NEW taken,
         \/ taken = fill
         \/ 2 * i <= fill /\ taken = 2 * i - (IF odd THEN 1 ELSE 0)
         \/ taken = i
  PROVE  /\ fill - taken \in 0 .. most + 1
         /\ ((taken % 2 = 1) # odd) => fill - taken <= most
<1>1. fill \in Nat /\ fill <= most + 1 /\ i \in Nat /\ i <= fill  OBVIOUS
<1>2. CASE taken = fill
  <2>1. fill - taken = 0  BY <1>1, <1>2
  <2> QED  BY <2>1
<1>3. CASE 2 * i <= fill /\ taken = 2 * i - (IF odd THEN 1 ELSE 0)
  <2>1. CASE odd
    <3>1. taken = 2 * i - 1  BY <1>3, <2>1
    <3>2. fill - taken \in 0 .. most + 1  BY <1>1, <1>3, <2>1, <3>1
    <3>3. (2 * i - 1) % 2 = 1  BY <1>1, Z3
    <3> QED  BY <2>1, <3>1, <3>2, <3>3
  <2>2. CASE ~odd
    <3>1. taken = 2 * i  BY <1>1, <1>3, <2>2
    <3>2. fill - taken \in 0 .. most + 1  BY <1>1, <1>3, <3>1
    <3>3. (2 * i) % 2 = 0  BY <1>1, Z3
    <3>4. ~(taken % 2 = 1)  BY <3>1, <3>3
    <3> QED  BY <2>2, <3>2, <3>4
  <2> QED  BY <2>1, <2>2
<1>4. CASE taken = i
  <2>1. fill - taken \in 0 .. most + 1  BY <1>1, <1>4
  <2>2. CASE odd
    <3>1. fill - taken <= most  BY <1>1, <1>4, <2>2
    <3> QED  BY <2>1, <3>1
  <2>3. CASE ~odd
    <3>1. 0 % 2 = 0  OBVIOUS
    <3>2. taken % 2 = 1 => i # 0  BY <1>4, <3>1
    <3>3. taken % 2 = 1 => fill - taken <= most  BY <1>1, <1>4, <3>2
    <3> QED  BY <2>1, <2>3, <3>3
  <2> QED  BY <2>2, <2>3
<1> QED  BY <1>2, <1>3, <1>4

LEMMA CallbackKeeps ==
  ASSUME SoundAssumed, SoundInv, Sound!Callback
  PROVE  SoundStays
<1>1. /\ Dsp(sb) /\ Parser(sb, sb_odd) /\ Blocks(sb) /\ Requests(sb, dma)
      /\ Line(sb, sb_line, sb_odd) /\ Buffer(audio)
  BY DEF SoundInv, Card
<1>2. PICK free \in Frees, i \in 0 .. audio.fill :
        LET taken == CASE audio.fill > AudioLen -> audio.fill
                       [] audio.fill <= AudioLen /\ sb.hdma -> 2 * i - (IF audio.odd THEN 1 ELSE 0)
                       [] OTHER -> i
        IN /\ sb.hdma => 2 * i <= audio.fill
           /\ audio' = [free |-> free, fill |-> audio.fill - taken,
                        odd |-> (taken % 2 = 1) # audio.odd]
           /\ UNCHANGED <<sb, sb_line, dma, sb_odd>>
  BY DEF Sound!Callback
<1>3. PICK most \in Nat : most = Limit[TRUE]  BY Limited
<1>4. PICK fill : fill = audio.fill  OBVIOUS
<1>5. PICK odd \in BOOLEAN : odd = audio.odd  BY <1>1 DEF Buffer
<1>6. fill \in 0 .. most + 1 /\ (odd => fill <= most)
  BY <1>1, <1>3, <1>4, <1>5, Zenon DEF Buffer
<1>7. PICK taken :
        /\ taken = CASE fill > AudioLen -> fill
                     [] fill <= AudioLen /\ sb.hdma -> 2 * i - (IF odd THEN 1 ELSE 0)
                     [] OTHER -> i
        /\ sb.hdma => 2 * i <= fill
        /\ audio' = [free |-> free, fill |-> fill - taken, odd |-> (taken % 2 = 1) # odd]
  BY <1>2, <1>4, <1>5
<1>8. \/ taken = fill
      \/ 2 * i <= fill /\ taken = 2 * i - (IF odd THEN 1 ELSE 0)
      \/ taken = i
  BY <1>7
<1>9. PICK rest : rest = fill - taken  OBVIOUS
<1>10. rest \in 0 .. most + 1 /\ (((taken % 2 = 1) # odd) => rest <= most)
  <2>1. i \in 0 .. fill  BY <1>4
  <2> QED  BY <1>6, <1>8, <1>9, <2>1, Drained
<1>11. PICK next \in BOOLEAN : next <=> ((taken % 2 = 1) # odd)
  BY Zenon
<1>12. next = ((taken % 2 = 1) # odd)  BY <1>11
<1>13. audio' = [free |-> free, fill |-> rest, odd |-> next]  BY <1>7, <1>9, <1>12
<1>14. /\ audio' = [f \in {"free", "fill", "odd"} |-> audio'[f]]
       /\ audio'.free = free /\ audio'.fill = rest /\ audio'.odd = next
  BY <1>13
<1>15. free \in Nat  BY DEF SoundAssumed
<1>16. Buffer(audio')  BY <1>3, <1>10, <1>11, <1>14, <1>15, Zenon DEF Buffer
<1>17. SoundInv'  BY <1>1, <1>2, <1>16 DEF SoundInv, Card
<1> QED  BY <1>2, <1>17 DEF SoundStays, Sound!SingleBlockOnce

LEMMA SoundSteps ==
  ASSUME SoundAssumed, SoundInv, [Sound!Next]_Sound!sb16Vars
  PROVE  SoundInv' /\ [Sound!SingleBlockOnce]_Sound!sb16Vars
<1>1. CASE Sound!Next
  <2>1. SoundStays
    BY <1>1, CommandKeeps, ParameterKeeps, ResetKeeps, ReadKeeps, AcknowledgeKeeps, DmaKeeps,
       CallbackKeeps DEF Sound!Next
  <2> QED  BY <2>1 DEF SoundStays
<1>2. CASE UNCHANGED Sound!sb16Vars
  <2>1. sb' = sb /\ sb_line' = sb_line /\ audio' = audio /\ dma' = dma /\ sb_odd' = sb_odd
    BY <1>2 DEF Sound!sb16Vars
  <2>2. SoundInv'  BY <2>1 DEF SoundInv
  <2> QED  BY <1>2, <2>2
<1> QED  BY <1>1, <1>2

LEMMA SoundAllows ==
  ASSUME SoundAssumed, SoundInv
  PROVE  Sound!SoundRight
<1>1. /\ Dsp(sb) /\ Parser(sb, sb_odd) /\ Blocks(sb) /\ Requests(sb, dma)
      /\ Line(sb, sb_line, sb_odd) /\ Buffer(audio)
  BY DEF SoundInv, Card
<1>2. Sound!TypeOK
  <2>1. sb.out \in 0 .. OutSize /\ audio.fill \in 0 .. Limit[TRUE] + 1
    BY <1>1 DEF Dsp, Buffer
  <2>2. (sb.running \/ sb.halted) /\ sb.block > 0 => sb.left \in 1 .. sb.block
    BY <1>1 DEF Blocks
  <2>3. \A high \in BOOLEAN : dma[high].now \in 0 .. Sound!BufferLength(dma[high]) - 1
    BY <1>1 DEF Requests, IsDma
  <2> QED  BY <2>1, <2>2, <2>3 DEF Sound!TypeOK
<1>3. Sound!ParserAligned  BY <1>1 DEF Parser, Sound!ParserAligned
<1>4. Sound!RequestIsRunning  BY <1>1 DEF Requests, Sound!RequestIsRunning
<1>5. Sound!QuietWhenAcknowledged  BY <1>1 DEF Line, Sound!QuietWhenAcknowledged
<1>6. Sound!BlocksAreWhole
  <2>1. \A b \in Nat \ {0} : b % b = 0  OBVIOUS
  <2>2. ASSUME sb.running \/ sb.halted, sb.block > 0  PROVE (sb.moved + sb.left) % sb.block = 0
    <3>1. sb.moved + sb.left = sb.block  BY <1>1, <2>2 DEF Blocks
    <3>2. sb.block \in Nat \ {0}  BY <1>1, <2>2 DEF Dsp
    <3> QED  BY <2>1, <3>1, <3>2
  <2> QED  BY <2>2 DEF Sound!BlocksAreWhole
<1> QED  BY <1>2, <1>3, <1>4, <1>5, <1>6 DEF Sound!SoundRight

-----------------------------------------------------------------------------
(* The sound card takes the bytes of its commands and no others, requests   *)
(* DMA on the controller of the transfer that runs and on it alone, has its *)
(* line low once every cause is acknowledged and keeps the blocks of a      *)
(* transfer whole (command, complete, control, SB_read_DMA), for buffers,   *)
(* lengths and counts of any size.                                          *)
THEOREM Sounds == SoundAssumed => (SoundSpec => []SoundRight)
<1> SUFFICES ASSUME SoundAssumed PROVE SoundSpec => []SoundRight
  OBVIOUS
<1>1. Sound!Init => SoundInv  BY SoundStarts
<1>2. SoundInv /\ [Sound!Next]_Sound!sb16Vars => SoundInv'  BY SoundSteps
<1>3. SoundInv => SoundRight  BY SoundAllows DEF SoundRight
<1> QED  BY <1>1, <1>2, <1>3, PTL DEF SoundSpec

(* A command of the floppy channel ends with what was asked for moved, a    *)
(* single transfer of the sound card with its block (SB_read_DMA,           *)
(* emulink_data_read_string, emulink_data_write_string).                    *)
THEOREM Transfers ==
  (DriveAssumed /\ SoundAssumed) => (DriveSpec /\ SoundSpec => TransfersComplete)
<1> SUFFICES ASSUME DriveAssumed, SoundAssumed  PROVE DriveSpec /\ SoundSpec => TransfersComplete
  OBVIOUS
<1>1. Sound!Init => SoundInv  BY SoundStarts
<1>2. SoundInv /\ [Sound!Next]_Sound!sb16Vars => SoundInv' /\ [Sound!SingleBlockOnce]_Sound!sb16Vars
  BY SoundSteps
<1>3. SoundSpec => [][Sound!SingleBlockOnce]_Sound!sb16Vars
  BY <1>1, <1>2, PTL DEF SoundSpec
<1>4. DriveSpec => [][Drive!EndsComplete]_Drive!emuVars  BY SectorsServed, PTL
<1> QED  BY <1>3, <1>4, PTL DEF TransfersComplete
=============================================================================
