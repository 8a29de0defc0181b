----------------------------- MODULE IdeProofs -----------------------------
(***************************************************************************)
(* The words of the data port, for any set of drives on the channel, and   *)
(* sectors, registers and buffers of any size.  The invariant says, of     *)
(* each function that ends a transfer, what the driver's command still     *)
(* expects: the words left in the buffer are the ones that follow those    *)
(* moved, the sector address is that of the first word not yet in the      *)
(* buffer, and the count covers the rest.                                  *)
(***************************************************************************)
EXTENDS Ide, FiniteSetTheorems, FunctionTheorems, TLAPS

(* In words. *)
Half == SectorSize \div 2
CdHalf == CdSize \div 2
Room == MaxMult * Half

(* Sectors, packets and CD sectors are whole words, and fit into the buffer. *)
LEMMA Sizes ==
  /\ Half \in Nat /\ Half > 0 /\ SectorSize = 2 * Half /\ WordsOf(SectorSize) = Half
  /\ CdHalf \in Nat /\ CdHalf > 0 /\ CdSize = 2 * CdHalf /\ WordsOf(CdSize) = CdHalf
  /\ MaxMult \in Nat /\ MaxMult > 0 /\ Room \in Nat /\ MaxMult * SectorSize = 2 * Room
<1>1. Half \in Nat /\ Half > 0 /\ SectorSize = 2 * Half /\ WordsOf(SectorSize) = Half
  BY IdeAssumption DEF Half, WordsOf
<1>2. CdHalf \in Nat /\ CdHalf > 0 /\ CdSize = 2 * CdHalf /\ WordsOf(CdSize) = CdHalf
  BY IdeAssumption DEF CdHalf, WordsOf
<1>3. MaxMult \in Nat /\ MaxMult > 0  BY IdeAssumption
<1>4. Room \in Nat  BY <1>1, <1>3 DEF Room
<1>5. MaxMult * SectorSize = 2 * Room  BY <1>1, <1>3 DEF Room
<1> QED  BY <1>1, <1>2, <1>3, <1>4, <1>5

(* So does a block of at most MaxMult sectors. *)
LEMMA BlockSize ==
  ASSUME NEW n \in 0 .. MaxMult
  PROVE  /\ SectorSize * n \in Nat /\ SectorSize * n = 2 * (Half * n) /\ Half * n \in Nat
         /\ Half * n <= Room /\ WordsOf(SectorSize * n) = Half * n
<1>1. n \in Nat /\ n <= MaxMult  BY Sizes
<1>2. Half * n \in Nat  BY <1>1, Sizes
<1>3. SectorSize * n = 2 * (Half * n)  BY <1>1, Sizes
<1>4. Half * n <= Room
  <2> PICK m : m = MaxMult - n  OBVIOUS
  <2>1. m \in Nat /\ MaxMult = n + m  BY <1>1, Sizes
  <2>2. Half * m \in Nat  BY <2>1, Sizes
  <2>3. Half * MaxMult = Half * n + Half * m  BY <1>1, <2>1, Sizes
  <2>4. Room = Half * MaxMult  BY Sizes DEF Room
  <2> QED  BY <1>2, <2>2, <2>3, <2>4
<1>5. (2 * (Half * n)) \div 2 = Half * n  BY <1>2
<1> QED  BY <1>2, <1>3, <1>4, <1>5 DEF WordsOf

(* The product of two counts is a count. *)
LEMMA Product == ASSUME NEW a \in Nat, NEW b \in Nat PROVE a * b \in Nat
OBVIOUS

(* Quotient and remainder. *)
LEMMA Divided ==
  ASSUME NEW n \in Nat, NEW b \in Nat, b > 0
  PROVE  /\ n \div b \in Nat /\ n % b \in 0 .. b - 1 /\ n = (n \div b) * b + (n % b)
OBVIOUS

(* Dividing q * b + r by b gives q back, and r as the remainder. *)
LEMMA QuotientIs ==
  ASSUME NEW q \in Nat, NEW r \in Nat, NEW b \in Nat, r < b
  PROVE  (q * b + r) \div b = q /\ (q * b + r) % b = r
<1> PICK n : n = q * b + r  OBVIOUS
<1>1. n \in Nat /\ b > 0  OBVIOUS
<1> PICK p : p = n \div b  OBVIOUS
<1> PICK s : s = n % b  OBVIOUS
<1>2. p \in Nat /\ s \in 0 .. b - 1 /\ n = p * b + s  BY <1>1, Divided
<1>3. ~(p > q)
  <2> SUFFICES ASSUME p > q PROVE FALSE  OBVIOUS
  <2> PICK m : m = p - q - 1  OBVIOUS
  <2>1. m \in Nat /\ p = q + m + 1  BY <1>2
  <2>2. p * b = q * b + m * b + b  BY <2>1
  <2>3. m * b \in Nat /\ q * b \in Nat  BY <2>1
  <2> QED  BY <1>2, <2>2, <2>3
<1>4. ~(p < q)
  <2> SUFFICES ASSUME p < q PROVE FALSE  OBVIOUS
  <2> PICK m : m = q - p - 1  OBVIOUS
  <2>1. m \in Nat /\ q = p + m + 1  BY <1>2
  <2>2. q * b = p * b + m * b + b  BY <1>2, <2>1
  <2>3. m * b \in Nat /\ p * b \in Nat  BY <1>2, <2>1
  <2> QED  BY <1>2, <2>2, <2>3
<1>5. p = q  BY <1>2, <1>3, <1>4
<1>6. s = r
  <2>1. q * b \in Nat  OBVIOUS
  <2> QED  BY <1>2, <1>5, <2>1
<1> QED  BY <1>5, <1>6

(* The two ways of writing a cylinder, head and sector number agree. *)
LEMMA Summed ==
  ASSUME NEW q \in Nat, NEW b \in Nat, NEW l \in Nat, NEW x \in Nat, NEW y \in Nat,
         NEW h \in Nat, NEW s \in Nat, s > 0
  PROVE  (q * b + l) * (x * y) + (h * y + (s - 1)) = (q * b + l) * x * y + h * y + s - 1
<1> PICK c : c = q * b + l  OBVIOUS
<1>1. c \in Nat
  <2>1. q * b \in Nat  BY Product
  <2> QED  BY <2>1
<1>2. c * (x * y) = c * x * y  BY <1>1
<1>3. c * x * y \in Nat /\ h * y \in Nat
  <2>1. c * x \in Nat /\ h * y \in Nat  BY <1>1, Product
  <2> QED  BY <2>1, Product
<1> QED  BY <1>2, <1>3

(* A number below the divisor is its own remainder. *)
LEMMA Small1 == ASSUME NEW n \in Nat, NEW b \in Nat, n < b PROVE n % b = n /\ n \div b = 0
OBVIOUS

(* To divide by a product, divide twice. *)
LEMMA DividedTwice ==
  ASSUME NEW n \in Nat, NEW b \in Nat, NEW c \in Nat, b > 0, c > 0
  PROVE  n \div (b * c) = (n \div b) \div c
<1> PICK q : q = n \div b  OBVIOUS
<1> PICK r : r = n % b  OBVIOUS
<1>1. q \in Nat /\ r \in 0 .. b - 1 /\ n = q * b + r  BY Divided
<1> PICK p : p = q \div c  OBVIOUS
<1> PICK s : s = q % c  OBVIOUS
<1>2. p \in Nat /\ s \in 0 .. c - 1 /\ q = p * c + s  BY <1>1, Divided
<1>3. n = p * (b * c) + (s * b + r)
  <2>1. q * b = p * (b * c) + s * b  BY <1>1, <1>2
  <2> QED  BY <1>1, <1>2, <2>1
<1>4. s * b + r \in Nat /\ s * b + r < b * c
  <2> PICK m : m = c - s - 1  OBVIOUS
  <2>1. m \in Nat /\ c = s + m + 1  BY <1>2
  <2>2. b * c = s * b + m * b + b  BY <1>2, <2>1
  <2>3. s * b \in Nat /\ m * b \in Nat
    <3>1. s \in Nat /\ m \in Nat  BY <1>2, <2>1
    <3> QED  BY <3>1, Product
  <2> QED  BY <1>1, <2>2, <2>3
<1>5. b * c \in Nat  BY Product
<1> PICK t : t = s * b + r  OBVIOUS
<1> PICK k : k = b * c  OBVIOUS
<1>6. (p * k + t) \div k = p  BY <1>2, <1>4, <1>5, QuotientIs
<1> QED  BY <1>3, <1>6

-----------------------------------------------------------------------------
(* The number of a sector and its registers. *)
Lba(h, hc, lc, s) == ((h * RegBase + hc) * RegBase + lc) * RegBase + s
Chs(hc, lc, h, s) == (hc * RegBase + lc) * Heads * Sectors + h * Sectors + s - 1

(* The four registers that SetSector writes in LBA mode hold the number it was given. *)
LEMMA LbaRegisters ==
  ASSUME NEW n \in Nat, n < Heads * RegBase * RegBase * RegBase,
         NEW h, h = (n \div (RegBase * RegBase * RegBase)) % Heads,
         NEW hc, hc = (n \div (RegBase * RegBase)) % RegBase,
         NEW lc, lc = (n \div RegBase) % RegBase,
         NEW s, s = n % RegBase
  PROVE  Lba(h, hc, lc, s) = n
<1> PICK b : b = RegBase  OBVIOUS
<1>0. b \in Nat /\ b > 0 /\ Heads \in Nat  BY IdeAssumption
<1> PICK x : x = n \div b  OBVIOUS
<1> PICK y : y = x \div b  OBVIOUS
<1> PICK z : z = y \div b  OBVIOUS
<1>1. x \in Nat /\ s \in 0 .. b - 1 /\ n = x * b + s  BY <1>0, Divided
<1>2. n \div (b * b) = y  BY <1>0, DividedTwice
<1>3. n \div (b * b * b) = z
  <2> PICK k : k = b * b  OBVIOUS
  <2>1. k \in Nat /\ k > 0  BY <1>0
  <2>2. n \div (k * b) = (n \div k) \div b  BY <1>0, <2>1, DividedTwice
  <2> QED  BY <1>2, <2>2
<1>4. y \in Nat /\ lc \in 0 .. b - 1 /\ x = y * b + lc  BY <1>0, <1>1, Divided
<1>5. hc = y % b  BY <1>2
<1>6. z \in Nat /\ hc \in 0 .. b - 1 /\ y = z * b + hc  BY <1>0, <1>4, <1>5, Divided
<1>7. z < Heads
  <2> SUFFICES ASSUME ~(z < Heads) PROVE FALSE  OBVIOUS
  <2> PICK m : m = z - Heads  OBVIOUS
  <2>1. m \in Nat /\ z = Heads + m  BY <1>0, <1>6
  <2>2. z * b * b * b = Heads * b * b * b + m * b * b * b  BY <1>0, <2>1
  <2>3. n = z * b * b * b + hc * b * b + lc * b + s  BY <1>0, <1>1, <1>4, <1>6
  <2>4. m * b * b * b \in Nat /\ hc * b * b \in Nat /\ lc * b \in Nat
    <3>1. m * b \in Nat /\ hc * b \in Nat /\ lc * b \in Nat  BY <1>0, <1>4, <1>6, <2>1, Product
    <3>2. m * b * b \in Nat /\ hc * b * b \in Nat  BY <1>0, <3>1, Product
    <3> QED  BY <1>0, <3>1, <3>2, Product
  <2>5. Heads * b * b * b \in Nat
    <3>1. Heads * b \in Nat  BY <1>0, Product
    <3>2. Heads * b * b \in Nat  BY <1>0, <3>1, Product
    <3> QED  BY <1>0, <3>2, Product
  <2> QED  BY <1>1, <2>2, <2>3, <2>4, <2>5
<1>8. h = z
  <2>1. z % Heads = z  BY <1>0, <1>6, <1>7
  <2> QED  BY <1>3, <2>1
<1>9. ((z * b + hc) * b + lc) * b + s = n  BY <1>1, <1>4, <1>6
<1> QED  BY <1>8, <1>9 DEF Lba

(* A head and a sector taken from a number are in range. *)
LEMMA ChsRanges ==
  ASSUME NEW n \in Nat,
         NEW h, h = (n % (Heads * Sectors)) \div Sectors,
         NEW s, s = ((n % (Heads * Sectors)) % Sectors) + 1
  PROVE  /\ h \in 0 .. Heads - 1 /\ s \in 1 .. Sectors
         /\ n % (Heads * Sectors) = h * Sectors + (s - 1)
<1> PICK k : k = Heads * Sectors  OBVIOUS
<1>0. Heads \in Nat /\ Heads > 0 /\ Sectors \in Nat /\ Sectors > 0  BY IdeAssumption
<1>1. k \in Nat /\ k > 0  BY <1>0
<1> PICK r : r = n % k  OBVIOUS
<1>2. r \in 0 .. k - 1  BY <1>1, Divided
<1>3. h \in Nat /\ s - 1 \in 0 .. Sectors - 1 /\ r = h * Sectors + (s - 1)
  <2> PICK t : t = r % Sectors  OBVIOUS
  <2>1. h = r \div Sectors /\ s = t + 1  OBVIOUS
  <2>2. r \in Nat  BY <1>1, <1>2
  <2>3. h \in Nat /\ t \in 0 .. Sectors - 1 /\ r = h * Sectors + t  BY <1>0, <2>1, <2>2, Divided
  <2>4. t \in Int /\ s - 1 = t  BY <1>0, <2>1, <2>3
  <2> QED  BY <2>3, <2>4
<1>4. h < Heads
  <2> SUFFICES ASSUME ~(h < Heads) PROVE FALSE  OBVIOUS
  <2> PICK m : m = h - Heads  OBVIOUS
  <2>1. m \in Nat /\ h = Heads + m  BY <1>0, <1>3
  <2>2. h * Sectors = k + m * Sectors  BY <1>0, <2>1
  <2>3. m * Sectors \in Nat  BY <1>0, <2>1, Product
  <2> QED  BY <1>1, <1>2, <1>3, <2>2, <2>3
<1> QED  BY <1>0, <1>3, <1>4

(* The registers that SetSector writes in CHS mode hold the number it was given. *)
LEMMA ChsRegisters ==
  ASSUME NEW n \in Nat, n < Heads * Sectors * RegBase * RegBase,
         NEW hc, hc = (n \div (Heads * Sectors * RegBase)) % RegBase,
         NEW lc, lc = (n \div (Heads * Sectors)) % RegBase,
         NEW h, h = (n % (Heads * Sectors)) \div Sectors,
         NEW s, s = ((n % (Heads * Sectors)) % Sectors) + 1
  PROVE  Chs(hc, lc, h, s) = n
<1> PICK b : b = RegBase  OBVIOUS
<1> PICK k : k = Heads * Sectors  OBVIOUS
<1>0. b \in Nat /\ b > 0 /\ Heads \in Nat /\ Heads > 0 /\ Sectors \in Nat /\ Sectors > 0
  BY IdeAssumption
<1>1. k \in Nat /\ k > 0  BY <1>0
<1> PICK c : c = n \div k  OBVIOUS
<1> PICK r : r = n % k  OBVIOUS
<1>2. c \in Nat /\ r \in 0 .. k - 1 /\ n = c * k + r  BY <1>1, Divided
<1>3. h \in Nat /\ s - 1 \in 0 .. Sectors - 1 /\ r = h * Sectors + (s - 1)
  <2>1. h \in 0 .. Heads - 1 /\ s \in 1 .. Sectors /\ r = h * Sectors + (s - 1)  BY ChsRanges
  <2> QED  BY <1>0, <2>1
<1>5. n \div (k * b) = c \div b  BY <1>0, <1>1, DividedTwice
<1> PICK q : q = c \div b  OBVIOUS
<1>6. q \in Nat /\ lc \in 0 .. b - 1 /\ c = q * b + lc  BY <1>0, <1>2, Divided
<1>7. q < b
  <2> SUFFICES ASSUME ~(q < b) PROVE FALSE  OBVIOUS
  <2> PICK m : m = q - b  OBVIOUS
  <2>1. m \in Nat /\ q = b + m  BY <1>0, <1>6
  <2>2. n = k * b * b + k * b * m + k * lc + r  BY <1>0, <1>1, <1>2, <1>6, <2>1
  <2>3. k * b * m \in Nat /\ k * lc \in Nat /\ k * b * b \in Nat
    <3>1. k * b \in Nat  BY <1>0, <1>1, Product
    <3>2. lc \in Nat  BY <1>0, <1>6
    <3> QED  BY <1>0, <1>1, <2>1, <3>1, <3>2, Product
  <2>4. n < k * b * b  OBVIOUS
  <2> QED  BY <1>1, <1>2, <2>2, <2>3, <2>4
<1>8. hc = q
  <2>1. q % b = q
    <3>1. q \in Nat /\ q < b  BY <1>6, <1>7
    <3> QED  BY <1>0, <3>1, Small1
  <2>2. hc = (n \div (k * b)) % b  BY Zenon
  <2> QED  BY <1>5, <2>1, <2>2, Zenon
<1>9. (hc * b + lc) * Heads * Sectors + h * Sectors + s - 1 = n
  <2> PICK t : t = s - 1  OBVIOUS
  <2>1. t \in Nat /\ s = t + 1  BY <1>0, <1>3
  <2>2. c = hc * b + lc  BY <1>6, <1>8, Zenon
  <2>3. n = c * k + (h * Sectors + t)  BY <1>2, <1>3, Zenon
  <2>4. hc \in Nat /\ lc \in Nat /\ h \in Nat /\ s \in Nat /\ s > 0
    BY <1>0, <1>3, <1>6, <1>8
  <2>5. n = (hc * b + lc) * (Heads * Sectors) + (h * Sectors + t)  BY <2>2, <2>3, Zenon
  <2>6. n = (hc * b + lc) * (Heads * Sectors) + (h * Sectors + (s - 1))  BY <2>5, Zenon
  <2>7. b \in Nat /\ Heads \in Nat /\ Sectors \in Nat  BY <1>0
  <2>8. (hc * b + lc) * (Heads * Sectors) + (h * Sectors + (s - 1))
          = (hc * b + lc) * Heads * Sectors + h * Sectors + s - 1
    BY <2>4, <2>7, Summed
  <2> QED  BY <2>6, <2>8, Zenon
<1> QED  BY <1>9 DEF Chs

-----------------------------------------------------------------------------
(* Drives.  What the handlers leave alone is named in groups. *)
Fields == {"kind", "lba_mode", "head", "sector", "lcyl", "hcyl", "nsector", "status", "mult",
           "req", "io", "irq", "func", "index", "end", "buf", "pts", "ets", "ibi", "lba", "css"}
IsDrive(d) == d = [f \in Fields |-> d[f]]

SameSetup(e, d) == e.kind = d.kind /\ e.mult = d.mult /\ e.req = d.req
SamePlace(e, d) ==
  e.lba_mode = d.lba_mode /\ e.head = d.head /\ e.sector = d.sector /\ e.lcyl = d.lcyl
    /\ e.hcyl = d.hcyl
SameBlock(e, d) == e.func = d.func /\ e.index = d.index /\ e.end = d.end
SamePacket(e, d) ==
  e.pts = d.pts /\ e.ets = d.ets /\ e.ibi = d.ibi /\ e.lba = d.lba /\ e.css = d.css

(* What is in range: the registers, the counters, the block in the buffer,  *)
(* the answer to a packet.                                                  *)
RegsOK(d) ==
  /\ d.lba_mode \in BOOLEAN /\ d.head \in 0 .. Heads - 1 /\ d.sector \in 0 .. RegBase - 1
  /\ d.lcyl \in 0 .. RegBase - 1 /\ d.hcyl \in 0 .. RegBase - 1
CountsOK(d) ==
  d.nsector \in 0 .. CountBase - 1 /\ d.mult \in 0 .. MaxMult /\ d.req \in 0 .. MaxMult
    /\ d.io \in 0 .. MaxMult
BlockOK(d) ==
  /\ d.index \in Nat /\ d.index % 2 = 0 /\ d.end \in Nat /\ d.end % 2 = 0
  /\ d.index <= d.end /\ d.end <= 2 * Room
  /\ DOMAIN d.buf = 0 .. Room - 1
PacketOK(d) == d.pts \in Nat /\ d.ets \in Nat

DriveOK(d) == IsDrive(d) /\ RegsOK(d) /\ CountsOK(d) /\ BlockOK(d) /\ PacketOK(d)

(* The drive e after the handler's step from d; likewise for each IsX below. *)
IsSetSector(e, d, n) ==
  /\ IsDrive(e) /\ SameSetup(e, d) /\ SameBlock(e, d) /\ SamePacket(e, d) /\ RegsOK(e)
  /\ e.lba_mode = d.lba_mode /\ e.nsector = d.nsector /\ e.status = d.status
  /\ e.io = d.io /\ e.irq = d.irq /\ e.buf = d.buf
  /\ n < Addressable(d) => GetSector(e) = n

(* The registers name the sector that they were set to, if they can name it. *)
LEMMA SetSectors ==
  ASSUME NEW d, IsDrive(d), RegsOK(d), NEW n \in Nat
  PROVE  IsSetSector(SetSector(d, n), d, n)
<1> PICK e : e = SetSector(d, n)  OBVIOUS
<1>1. CASE d.lba_mode
  <2> PICK h : h = (n \div (RegBase * RegBase * RegBase)) % Heads  OBVIOUS
  <2> PICK hc : hc = (n \div (RegBase * RegBase)) % RegBase  OBVIOUS
  <2> PICK lc : lc = (n \div RegBase) % RegBase  OBVIOUS
  <2> PICK s : s = n % RegBase  OBVIOUS
  <2>1. e = [d EXCEPT !.head = h, !.hcyl = hc, !.lcyl = lc, !.sector = s]
    BY <1>1, Zenon DEF SetSector
  <2>2. /\ IsDrive(e) /\ SameSetup(e, d) /\ SameBlock(e, d) /\ SamePacket(e, d)
        /\ e.lba_mode = d.lba_mode /\ e.nsector = d.nsector /\ e.status = d.status
        /\ e.io = d.io /\ e.irq = d.irq /\ e.buf = d.buf
        /\ e.head = h /\ e.hcyl = hc /\ e.lcyl = lc /\ e.sector = s
    <3>1. IsDrive(e)  BY <2>1 DEF IsDrive, Fields
    <3>2. SameSetup(e, d) /\ SameBlock(e, d)  BY <2>1 DEF IsDrive, Fields, SameSetup, SameBlock
    <3>3. SamePacket(e, d)  BY <2>1 DEF IsDrive, Fields, SamePacket
    <3>4. /\ e.lba_mode = d.lba_mode /\ e.nsector = d.nsector /\ e.status = d.status
          /\ e.io = d.io /\ e.irq = d.irq /\ e.buf = d.buf
      BY <2>1 DEF IsDrive, Fields
    <3>5. e.head = h /\ e.hcyl = hc  BY <2>1 DEF IsDrive, Fields
    <3>6. e.lcyl = lc /\ e.sector = s  BY <2>1 DEF IsDrive, Fields
    <3> QED  BY <3>1, <3>2, <3>3, <3>4, <3>5, <3>6
  <2>3. h \in 0 .. Heads - 1 /\ hc \in 0 .. RegBase - 1 /\ lc \in 0 .. RegBase - 1
        /\ s \in 0 .. RegBase - 1
    <3>1. /\ RegBase \in Nat /\ RegBase > 0 /\ Heads \in Nat /\ Heads > 0
      BY IdeAssumption
    <3>2. RegBase * RegBase \in Nat /\ RegBase * RegBase > 0  BY <3>1
    <3>3. RegBase * RegBase * RegBase \in Nat /\ RegBase * RegBase * RegBase > 0  BY <3>1, <3>2
    <3> QED  BY <3>1, <3>2, <3>3, Divided
  <2>4. n < Addressable(d) => GetSector(e) = n
    <3> SUFFICES ASSUME n < Addressable(d) PROVE GetSector(e) = n  OBVIOUS
    <3>1. n < Heads * RegBase * RegBase * RegBase
      <4>1. Addressable(d) = NbSectors  BY <1>1 DEF Addressable
      <4> PICK z : z = Heads * RegBase * RegBase * RegBase  OBVIOUS
      <4>2. NbSectors \in 1 .. z  BY IdeAssumption
      <4>3. z \in Int
        <5>1. RegBase \in Nat /\ Heads \in Nat  BY IdeAssumption
        <5>2. Heads * RegBase \in Nat  BY <5>1, Product
        <5>3. Heads * RegBase * RegBase \in Nat  BY <5>1, <5>2, Product
        <5>4. z \in Nat  BY <5>1, <5>3, Product
        <5> QED  BY <5>4
      <4> QED  BY <4>1, <4>2, <4>3
    <3>2. Lba(h, hc, lc, s) = n  BY <3>1, LbaRegisters
    <3>3. e.lba_mode  BY <1>1, <2>2
    <3> QED  BY <2>2, <3>2, <3>3 DEF GetSector, Lba
  <2> QED  BY <1>1, <2>2, <2>3, <2>4 DEF IsSetSector, RegsOK
<1>2. CASE ~d.lba_mode
  <2> PICK hc : hc = (n \div (Heads * Sectors * RegBase)) % RegBase  OBVIOUS
  <2> PICK lc : lc = (n \div (Heads * Sectors)) % RegBase  OBVIOUS
  <2> PICK h : h = (n % (Heads * Sectors)) \div Sectors  OBVIOUS
  <2> PICK s : s = ((n % (Heads * Sectors)) % Sectors) + 1  OBVIOUS
  <2>1. e = [d EXCEPT !.hcyl = hc, !.lcyl = lc, !.head = h, !.sector = s]
    BY <1>2, Zenon DEF SetSector
  <2>2. /\ IsDrive(e) /\ SameSetup(e, d) /\ SameBlock(e, d) /\ SamePacket(e, d)
        /\ e.lba_mode = d.lba_mode /\ e.nsector = d.nsector /\ e.status = d.status
        /\ e.io = d.io /\ e.irq = d.irq /\ e.buf = d.buf
        /\ e.head = h /\ e.hcyl = hc /\ e.lcyl = lc /\ e.sector = s
    <3>1. IsDrive(e)  BY <2>1 DEF IsDrive, Fields
    <3>2. SameSetup(e, d) /\ SameBlock(e, d)  BY <2>1 DEF IsDrive, Fields, SameSetup, SameBlock
    <3>3. SamePacket(e, d)  BY <2>1 DEF IsDrive, Fields, SamePacket
    <3>4. /\ e.lba_mode = d.lba_mode /\ e.nsector = d.nsector /\ e.status = d.status
          /\ e.io = d.io /\ e.irq = d.irq /\ e.buf = d.buf
      BY <2>1 DEF IsDrive, Fields
    <3>5. e.head = h /\ e.hcyl = hc  BY <2>1 DEF IsDrive, Fields
    <3>6. e.lcyl = lc /\ e.sector = s  BY <2>1 DEF IsDrive, Fields
    <3> QED  BY <3>1, <3>2, <3>3, <3>4, <3>5, <3>6
  <2>3. h \in 0 .. Heads - 1 /\ s \in 1 .. Sectors  BY ChsRanges
  <2>4. hc \in 0 .. RegBase - 1 /\ lc \in 0 .. RegBase - 1
    <3>1. RegBase \in Nat /\ RegBase > 0 /\ Heads \in Nat /\ Heads > 0 /\ Sectors \in Nat
          /\ Sectors > 0
      BY IdeAssumption
    <3>2. Heads * Sectors \in Nat /\ Heads * Sectors > 0  BY <3>1
    <3>3. Heads * Sectors * RegBase \in Nat /\ Heads * Sectors * RegBase > 0  BY <3>1, <3>2
    <3> QED  BY <3>1, <3>2, <3>3, Divided
  <2>5. s \in 0 .. RegBase - 1
    <3>1. RegBase \in Nat /\ Sectors \in 1 .. RegBase - 1  BY IdeAssumption
    <3> QED  BY <2>3, <3>1
  <2>6. n < Addressable(d) => GetSector(e) = n
    <3> SUFFICES ASSUME n < Addressable(d) PROVE GetSector(e) = n  OBVIOUS
    <3>1. n < Heads * Sectors * RegBase * RegBase
      <4> PICK z : z = Heads * Sectors * RegBase * RegBase  OBVIOUS
      <4>1. Addressable(d) = Small(NbSectors, z)  BY <1>2 DEF Addressable
      <4>2. NbSectors \in Int
        <5>1. NbSectors \in 1 .. Heads * RegBase * RegBase * RegBase  BY IdeAssumption
        <5> QED  BY <5>1
      <4>3. z \in Int
        <5>1. RegBase \in Nat /\ Heads \in Nat /\ Sectors \in Nat  BY IdeAssumption
        <5>2. Heads * Sectors \in Nat  BY <5>1, Product
        <5>3. Heads * Sectors * RegBase \in Nat  BY <5>1, <5>2, Product
        <5>4. z \in Nat  BY <5>1, <5>3, Product
        <5> QED  BY <5>4
      <4> QED  BY <4>1, <4>2, <4>3 DEF Small
    <3>2. Chs(hc, lc, h, s) = n  BY <3>1, ChsRegisters
    <3>3. ~e.lba_mode  BY <1>2, <2>2
    <3> QED  BY <2>2, <3>2, <3>3 DEF GetSector, Chs
  <2> QED  BY <1>2, <2>2, <2>3, <2>4, <2>5, <2>6 DEF IsSetSector, RegsOK
<1> QED  BY <1>1, <1>2

-----------------------------------------------------------------------------
(* The numbers a drive computes from its registers are numbers. *)
LEMMA Numbers ==
  ASSUME NEW d, RegsOK(d), CountsOK(d)
  PROVE  GetSector(d) \in Int /\ Addressable(d) \in Nat /\ Count(d) \in Nat /\ Count(d) > 0
<1>0. RegBase \in Nat /\ Heads \in Nat /\ Sectors \in Nat /\ CountBase \in Nat /\ CountBase > 3
  BY IdeAssumption
<1>1. GetSector(d) \in Int
  <2>1. /\ d.head \in Int /\ d.sector \in Int /\ d.lcyl \in Int /\ d.hcyl \in Int
    BY DEF RegsOK
  <2> QED  BY <1>0, <2>1 DEF GetSector
<1>2. Addressable(d) \in Nat
  <2>1. Heads * Sectors \in Nat /\ Heads * RegBase \in Nat  BY <1>0, Product
  <2>2. Heads * Sectors * RegBase \in Nat /\ Heads * RegBase * RegBase \in Nat
    BY <1>0, <2>1, Product
  <2>3. Heads * Sectors * RegBase * RegBase \in Nat /\ Heads * RegBase * RegBase * RegBase \in Nat
    BY <1>0, <2>2, Product
  <2>4. NbSectors \in Nat
    <3>1. NbSectors \in 1 .. Heads * RegBase * RegBase * RegBase  BY IdeAssumption
    <3> QED  BY <3>1
  <2> QED  BY <2>3, <2>4 DEF Addressable, Small
<1>3. Count(d) \in Nat /\ Count(d) > 0  BY <1>0 DEF Count, CountsOK
<1> QED  BY <1>1, <1>2, <1>3

(* Drives with the same address registers are at the same sector. *)
LEMMA SamePlaces ==
  ASSUME NEW d, NEW e, SamePlace(e, d)
  PROVE  GetSector(e) = GetSector(d) /\ Addressable(e) = Addressable(d)
BY DEF SamePlace, GetSector, Addressable

(* What is left of a count of which 0 stands for the largest. *)
LEMMA CountedDown ==
  ASSUME NEW c \in Nat, c > 0, NEW n \in 0 .. c - 1, NEW k \in 1 .. c, n # 0 => k <= n
  PROVE  /\ (n - k) % c \in 0 .. c - 1
         /\ (n - k) % c = IF n = 0 THEN (IF k = c THEN 0 ELSE c - k) ELSE n - k
<1>1. CASE n = 0
  <2>1. CASE k = c
    <3>1. (0 - c) % c = 0  OBVIOUS
    <3> QED  BY <1>1, <2>1, <3>1
  <2>2. CASE k # c
    <3>1. (0 - k) % c = c - k  BY <2>2
    <3> QED  BY <1>1, <2>2, <3>1
  <2> QED  BY <2>1, <2>2
<1>2. CASE n # 0
  <2>1. n - k \in Nat /\ n - k < c  BY <1>2
  <2>2. (n - k) % c = n - k  BY <2>1, Small1
  <2> QED  BY <1>2, <2>1, <2>2
<1> QED  BY <1>1, <1>2

IsAdvance(a, d) ==
  /\ IsDrive(a) /\ RegsOK(a) /\ CountsOK(a)
  /\ SameSetup(a, d) /\ SameBlock(a, d) /\ SamePacket(a, d)
  /\ a.status = d.status /\ a.io = d.io /\ a.irq = d.irq /\ a.buf = d.buf
  /\ a.nsector = 0 => Count(d) = d.io
  /\ a.nsector # 0 =>
       /\ Count(d) = d.io + Count(a) /\ GetSector(a) = GetSector(d) + d.io
       /\ GetSector(a) \in Nat /\ GetSector(a) + Count(a) <= Addressable(a)

(* The blocks that are to be done on a disk. *)
HasBlock(d) ==
  /\ d.kind = "hd" /\ d.req > 0 /\ GetSector(d) >= 0
  /\ GetSector(d) + Count(d) <= Addressable(d)

(* The next block of a command is not empty, and no longer than what is left of it. *)
LEMMA Blocks ==
  ASSUME NEW d, CountsOK(d), d.req > 0
  PROVE  NextBlock(d) \in 1 .. MaxMult /\ NextBlock(d) <= Count(d)
<1>1. CountBase \in Nat /\ CountBase > 3 /\ MaxMult \in Nat  BY IdeAssumption
<1> QED  BY <1>1 DEF NextBlock, Count, Small, CountsOK

(* Advance moves the address past the block and takes the block from the count. *)
LEMMA Advances ==
  ASSUME NEW d, IsDrive(d), RegsOK(d), CountsOK(d), HasBlock(d), d.io = NextBlock(d)
  PROVE  IsAdvance(Advance(d), d)
<1> PICK n : n = GetSector(d) + d.io  OBVIOUS
<1> PICK m : m = SetSector(d, n)  OBVIOUS
<1> PICK k : k = (d.nsector - d.io) % CountBase  OBVIOUS
<1> PICK a : a = Advance(d)  OBVIOUS
<1>0. CountBase \in Nat /\ CountBase > 3 /\ MaxMult \in Nat  BY IdeAssumption
<1>1. d.io \in 1 .. MaxMult /\ d.io <= Count(d)  BY Blocks DEF HasBlock
<1>2. GetSector(d) \in Int /\ Addressable(d) \in Nat /\ Count(d) \in Nat  BY Numbers
<1>3. n \in Nat /\ GetSector(d) >= 0  BY <1>0, <1>1, <1>2 DEF HasBlock
<1>4. IsSetSector(m, d, n)  BY <1>3, SetSectors
<1>5. a = [m EXCEPT !.nsector = k]  BY Zenon DEF Advance
<1>6. k \in 0 .. CountBase - 1
      /\ k = IF d.nsector = 0 THEN (IF d.io = CountBase THEN 0 ELSE CountBase - d.io)
                              ELSE d.nsector - d.io
  <2>1. d.nsector \in 0 .. CountBase - 1  BY DEF CountsOK
  <2>2. d.io \in 1 .. CountBase /\ (d.nsector # 0 => d.io <= d.nsector)
    BY <1>0, <1>1, <2>1 DEF Count
  <2>3. CountBase \in Nat /\ CountBase > 0  BY <1>0
  <2>4. /\ (d.nsector - d.io) % CountBase \in 0 .. CountBase - 1
        /\ (d.nsector - d.io) % CountBase
             = IF d.nsector = 0 THEN (IF d.io = CountBase THEN 0 ELSE CountBase - d.io)
                                ELSE d.nsector - d.io
    <3>1. \A c \in Nat : c > 0 =>
            \A n1 \in 0 .. c - 1, k1 \in 1 .. c : (n1 # 0 => k1 <= n1) =>
              /\ (n1 - k1) % c \in 0 .. c - 1
              /\ (n1 - k1) % c = IF n1 = 0 THEN (IF k1 = c THEN 0 ELSE c - k1) ELSE n1 - k1
      BY CountedDown, ZenonT(40)
    <3> QED  BY <2>1, <2>2, <2>3, <3>1, ZenonT(40)
  <2> QED  BY <2>4, Zenon
<1>7. /\ IsDrive(a) /\ SameSetup(a, d) /\ SameBlock(a, d) /\ SamePacket(a, d) /\ SamePlace(a, m)
      /\ a.status = d.status /\ a.io = d.io /\ a.irq = d.irq /\ a.buf = d.buf /\ a.nsector = k
  <2>1. /\ IsDrive(m) /\ SameSetup(m, d) /\ SameBlock(m, d) /\ SamePacket(m, d)
        /\ m.status = d.status /\ m.io = d.io /\ m.irq = d.irq /\ m.buf = d.buf
    BY <1>4 DEF IsSetSector
  <2>2. IsDrive(a) /\ a.nsector = k  BY <1>5, <2>1 DEF IsDrive, Fields
  <2>3. SameSetup(a, m) /\ SameBlock(a, m)  BY <1>5, <2>1 DEF IsDrive, Fields, SameSetup, SameBlock
  <2>4. SamePacket(a, m) /\ SamePlace(a, m)
    BY <1>5, <2>1 DEF IsDrive, Fields, SamePacket, SamePlace
  <2>5. a.status = m.status /\ a.io = m.io /\ a.irq = m.irq /\ a.buf = m.buf
    BY <1>5, <2>1 DEF IsDrive, Fields
  <2>6. SameSetup(a, d) /\ SameBlock(a, d) /\ SamePacket(a, d)
    BY <2>1, <2>3, <2>4 DEF SameSetup, SameBlock, SamePacket
  <2> QED  BY <2>1, <2>2, <2>4, <2>5, <2>6
<1>8. RegsOK(a)  BY <1>4, <1>7 DEF IsSetSector, RegsOK, SamePlace
<1>9. CountsOK(a)  BY <1>6, <1>7 DEF CountsOK, SameSetup
<1>10. a.nsector = 0 => Count(d) = d.io
  BY <1>0, <1>1, <1>6, <1>7 DEF Count, CountsOK
<1>11. a.nsector # 0 => Count(d) = d.io + Count(a)
  BY <1>0, <1>1, <1>6, <1>7 DEF Count, CountsOK
<1>12. a.nsector # 0 => GetSector(a) = n /\ n + Count(a) <= Addressable(a)
  <2> SUFFICES ASSUME a.nsector # 0 PROVE GetSector(a) = n /\ n + Count(a) <= Addressable(a)
    OBVIOUS
  <2>1. Count(a) \in Nat /\ Count(a) > 0  BY <1>8, <1>9, Numbers
  <2>2. d.io \in Nat  BY <1>0, <1>1
  <2>3. n + Count(a) <= Addressable(d)
    <3>1. GetSector(d) + Count(d) <= Addressable(d)  BY DEF HasBlock
    <3>2. Count(d) = d.io + Count(a)  BY <1>11
    <3> QED  BY <1>2, <2>1, <2>2, <3>1, <3>2
  <2>4. n < Addressable(d)  BY <1>2, <1>3, <2>1, <2>3
  <2>5. GetSector(m) = n  BY <1>4, <2>4 DEF IsSetSector
  <2>6. Addressable(m) = Addressable(d)  BY <1>4 DEF IsSetSector, Addressable
  <2>7. GetSector(a) = n /\ Addressable(a) = Addressable(d)  BY <1>7, <2>5, <2>6, SamePlaces
  <2> QED  BY <2>3, <2>7
<1> QED  BY <1>3, <1>7, <1>8, <1>9, <1>10, <1>11, <1>12 DEF IsAdvance

-----------------------------------------------------------------------------
(* What the selected drive has to do with the driver's command.  Words left *)
(* in the buffer, and reads, writes and replies in progress.                *)
JobOK(j) ==
  /\ j = [f \in {"what", "word", "total", "moved"} |-> j[f]]
  /\ j.word \in Nat /\ j.total \in Nat /\ j.moved \in Nat

Left(d) == (d.end - d.index) \div 2
Words(w, n) == {<<x, x>> : x \in w .. w + n - 1}

(* There is more to read than the rest that the buffer has. *)
More(d, j, rest) ==
  /\ HasBlock(d) /\ j.what = "read"
  /\ GetSector(d) * Half = j.word + j.moved + rest
  /\ j.total = j.moved + rest + Count(d) * Half
Shows(d, j) == \A k \in 0 .. Left(d) - 1 : d.buf[d.index \div 2 + k] = j.word + j.moved + k
Reading(d, j) ==
  /\ j.what = "read" /\ Shows(d, j)
  /\ \/ d.func = "read_end" /\ j.total = j.moved + Left(d)
     \/ d.func = "sector_read" /\ More(d, j, Left(d))

Writing(d, j, l) ==
  /\ HasBlock(d) /\ d.func = "sector_write" /\ j.what = "write"
  /\ d.io = NextBlock(d) /\ d.end = SectorSize * d.io
  /\ GetSector(d) * Half = j.word + j.moved - d.index \div 2
  /\ d.index \div 2 <= j.moved
  /\ j.total = j.moved - d.index \div 2 + Count(d) * Half
  /\ \A i \in 0 .. d.index \div 2 - 1 : d.buf[i] = GetSector(d) * Half + i
  /\ l = Words(j.word, j.moved - d.index \div 2)

(* Multiplication distributes over a sum. *)
LEMMA Sum == ASSUME NEW a \in Int, NEW b \in Int, NEW h \in Int PROVE (a + b) * h = a * h + b * h
OBVIOUS

IsFailed(e, d) ==
  /\ DriveOK(e) /\ SamePlace(e, d) /\ SameBlock(e, d) /\ SameSetup(e, d) /\ SamePacket(e, d)
  /\ e.nsector = d.nsector /\ e.buf = d.buf /\ e.status = {"ready", "err"}

(* A read that the disk refuses ends the command with an error. *)
LEMMA ReadFails ==
  ASSUME NEW d, DriveOK(d), d.req > 0
  PROVE  IsFailed(SectorRead(d, FALSE), d)
<1> PICK n : n = NextBlock(d)  OBVIOUS
<1> PICK e : e = SectorRead(d, FALSE)  OBVIOUS
<1>1. n \in 0 .. MaxMult
  <2>1. n \in 1 .. MaxMult  BY Blocks DEF DriveOK
  <2> QED  BY <2>1
<1>2. e = [[[d EXCEPT !.io = n] EXCEPT !.status = {"ready", "err"}] EXCEPT !.irq = TRUE]
  BY Zenon DEF SectorRead, RaiseIrq, AbortCommand
<1>3. /\ IsDrive(e) /\ SamePlace(e, d) /\ SameBlock(e, d) /\ SameSetup(e, d) /\ SamePacket(e, d)
      /\ e.nsector = d.nsector /\ e.buf = d.buf /\ e.status = {"ready", "err"} /\ e.io = n
  <2>0. e = [d EXCEPT !.io = n, !.status = {"ready", "err"}, !.irq = TRUE]  BY <1>2
  <2>1. IsDrive(e) /\ e.io = n  BY <2>0 DEF DriveOK, IsDrive, Fields
  <2>2. SamePlace(e, d) /\ SameBlock(e, d)
    BY <2>0 DEF DriveOK, IsDrive, Fields, SamePlace, SameBlock
  <2>3. SameSetup(e, d) /\ SamePacket(e, d)
    BY <2>0 DEF DriveOK, IsDrive, Fields, SameSetup, SamePacket
  <2>4. e.nsector = d.nsector /\ e.buf = d.buf /\ e.status = {"ready", "err"}
    BY <2>0 DEF DriveOK, IsDrive, Fields
  <2> QED  BY <2>1, <2>2, <2>3, <2>4
<1>4. RegsOK(e) /\ BlockOK(e) /\ PacketOK(e)
  BY <1>3 DEF DriveOK, SamePlace, SameBlock, SamePacket, RegsOK, BlockOK, PacketOK
<1>5. CountsOK(e)  BY <1>1, <1>3 DEF DriveOK, CountsOK, SameSetup
<1> QED  BY <1>3, <1>4, <1>5 DEF DriveOK, IsFailed

IsStarted(e, a, size, func) ==
  /\ IsDrive(e) /\ SamePlace(e, a) /\ SameSetup(e, a) /\ SamePacket(e, a)
  /\ e.nsector = a.nsector /\ e.io = a.io /\ e.buf = a.buf
  /\ e.status = {"ready", "seek", "drq"} /\ e.func = func /\ e.index = 0 /\ e.end = size

(* What ide_transfer_start leaves, before and after the interrupt is raised. *)
LEMMA Starts ==
  ASSUME NEW a, IsDrive(a), NEW size, NEW func
  PROVE  /\ IsStarted([RaiseIrq(TransferStart(a, size, func))
                       EXCEPT !.status = {"ready", "seek", "drq"}], a, size, func)
         /\ IsStarted([TransferStart(a, size, func)
                       EXCEPT !.status = {"ready", "seek", "drq"}], a, size, func)
BY DEF IsStarted, TransferStart, RaiseIrq, IsDrive, Fields, SamePlace, SameSetup, SamePacket

IsFilled(f, d, n, w) ==
  /\ IsDrive(f) /\ SamePlace(f, d) /\ SameSetup(f, d) /\ SamePacket(f, d) /\ SameBlock(f, d)
  /\ f.nsector = d.nsector /\ f.io = n /\ f.status = d.status /\ f.irq = d.irq
  /\ DOMAIN f.buf = DOMAIN d.buf
  /\ \A i \in DOMAIN d.buf : i < Half * n => f.buf[i] = w + i

(* The buffer after n sectors have been read into it. *)
LEMMA Fills ==
  ASSUME NEW d, IsDrive(d), NEW n, NEW w, WordsOf(SectorSize * n) = Half * n
  PROVE  IsFilled(Fill([d EXCEPT !.io = n], SectorSize * n, w), d, n, w)
<1>b. PICK b : b = [i \in DOMAIN d.buf |-> IF i < Half * n THEN w + i ELSE d.buf[i]]  OBVIOUS
<1>g. PICK g : g = [d EXCEPT !.io = n]  OBVIOUS
<1>1. /\ IsDrive(g) /\ SamePlace(g, d) /\ SameSetup(g, d) /\ SamePacket(g, d) /\ SameBlock(g, d)
      /\ g.nsector = d.nsector /\ g.io = n /\ g.buf = d.buf /\ g.status = d.status /\ g.irq = d.irq
  BY <1>g DEF IsDrive, Fields, SamePlace, SameSetup, SamePacket, SameBlock
<1>2. Fill(g, SectorSize * n, w) = [g EXCEPT !.buf = b]  BY <1>b, <1>1, Zenon DEF Fill
<1>f. PICK f : f = [g EXCEPT !.buf = b]  OBVIOUS
<1>3. /\ IsDrive(f) /\ SamePlace(f, g) /\ SameSetup(f, g) /\ SamePacket(f, g) /\ SameBlock(f, g)
      /\ f.nsector = g.nsector /\ f.io = g.io /\ f.buf = b /\ f.status = g.status /\ f.irq = g.irq
  BY <1>f, <1>1 DEF IsDrive, Fields, SamePlace, SameSetup, SamePacket, SameBlock
<1>4. DOMAIN f.buf = DOMAIN d.buf /\ \A i \in DOMAIN d.buf : i < Half * n => f.buf[i] = w + i
  BY <1>b, <1>3
<1>5. IsFilled(f, d, n, w)
  BY <1>1, <1>3, <1>4 DEF IsFilled, SamePlace, SameSetup, SamePacket, SameBlock
<1> QED  BY <1>g, <1>2, <1>f, <1>5, Zenon

IsRead(e, j) ==
  /\ DriveOK(e) /\ "drq" \in e.status /\ e.index = 0 /\ e.index < e.end /\ Reading(e, j)

(* A read with sectors left puts the next ones of the command into the buffer. *)
LEMMA ReadGoesOn ==
  ASSUME NEW d, DriveOK(d), NEW j, JobOK(j), More(d, j, 0)
  PROVE  IsRead(SectorRead(d, TRUE), j)
<1>n. PICK n : n = NextBlock(d)  OBVIOUS
<1>w. PICK w : w = GetSector(d) * Half  OBVIOUS
<1>f. PICK f : f = Fill([d EXCEPT !.io = n], SectorSize * n, w)  OBVIOUS
<1>a. PICK a : a = Advance(f)  OBVIOUS
<1>g. PICK func : func = IF a.nsector = 0 THEN "read_end" ELSE "sector_read"  OBVIOUS
<1>e. PICK e : e = SectorRead(d, TRUE)  OBVIOUS
<1>1. n \in 1 .. MaxMult /\ n \in 0 .. MaxMult /\ n \in Nat /\ n <= Count(d)
  BY <1>n, Blocks, Sizes DEF DriveOK, More, HasBlock
<1>2. /\ SectorSize * n = 2 * (Half * n) /\ Half * n \in Nat /\ Half * n <= Room
      /\ WordsOf(SectorSize * n) = Half * n
  BY <1>1, BlockSize
<1>3. Half * n > 0  BY <1>1, Sizes
<1>4. IsFilled(f, d, n, w)  BY <1>2, <1>f, Fills DEF DriveOK
<1>5. RegsOK(f) /\ CountsOK(f)
  BY <1>1, <1>4 DEF IsFilled, DriveOK, RegsOK, CountsOK, SamePlace, SameSetup
<1>6. GetSector(f) = GetSector(d) /\ Addressable(f) = Addressable(d) /\ Count(f) = Count(d)
      /\ NextBlock(f) = n
  BY <1>n, <1>4, SamePlaces DEF IsFilled, Count, NextBlock, SameSetup
<1>7. HasBlock(f)  BY <1>4, <1>6 DEF More, HasBlock, SameSetup, IsFilled
<1>8. IsAdvance(a, f)  BY <1>a, <1>4, <1>5, <1>6, <1>7, Advances DEF IsFilled
<1>9. e = [RaiseIrq(TransferStart(a, SectorSize * f.io, func))
           EXCEPT !.status = {"ready", "seek", "drq"}]
  <2>1. e = SectorReadDone(f)
    <3>1. WordsOf(SectorSize) = Half  BY Sizes
    <3> QED  BY <1>n, <1>w, <1>f, <1>e, <3>1, Zenon DEF SectorRead
  <2> QED  BY <1>a, <1>g, <2>1, Zenon DEF SectorReadDone
<1>10. IsStarted(e, a, 2 * (Half * n), func)
  <2>1. IsDrive(a) /\ SectorSize * f.io = 2 * (Half * n)
    BY <1>2, <1>4, <1>8 DEF IsAdvance, IsFilled
  <2> QED  BY <1>9, <2>1, Starts
<1>11. e.buf = f.buf /\ Left(e) = Half * n /\ e.index = 0 /\ e.end = 2 * (Half * n)
       /\ "drq" \in e.status /\ e.func = func
  <2>1. e.buf = f.buf  BY <1>8, <1>10 DEF IsAdvance, IsStarted
  <2>2. e.index = 0 /\ e.end = 2 * (Half * n) /\ "drq" \in e.status /\ e.func = func
    BY <1>10 DEF IsStarted
  <2>3. Left(e) = Half * n  BY <1>2, <2>2 DEF Left
  <2> QED  BY <2>1, <2>2, <2>3
<1>12. DriveOK(e)
  <2>1. RegsOK(e) /\ CountsOK(e) /\ PacketOK(e)
    BY <1>4, <1>8, <1>10
       DEF DriveOK, IsAdvance, IsFilled, IsStarted, RegsOK, CountsOK, PacketOK, SamePlace,
           SameSetup, SamePacket
  <2>2. DOMAIN e.buf = 0 .. Room - 1  BY <1>4, <1>11 DEF IsFilled, DriveOK, BlockOK
  <2>3. BlockOK(e)  BY <1>2, <1>11, <2>2, Sizes DEF BlockOK
  <2> QED  BY <1>10, <2>1, <2>3 DEF DriveOK, IsStarted
<1>13. w = j.word + j.moved /\ j.total = j.moved + Count(d) * Half
  <2>1. Count(d) * Half \in Nat
    <3>1. Count(d) \in Nat  BY Numbers DEF DriveOK
    <3> QED  BY <3>1, Sizes, Product
  <2> QED  BY <1>w, <2>1 DEF More, JobOK
<1>14. Shows(e, j)
  <2> SUFFICES ASSUME NEW k \in 0 .. Half * n - 1
               PROVE  e.buf[e.index \div 2 + k] = j.word + j.moved + k
    BY <1>11 DEF Shows
  <2>1. e.index \div 2 + k = k /\ k \in 0 .. Room - 1 /\ k < Half * n  BY <1>2, <1>11, Sizes
  <2>2. f.buf[k] = w + k  BY <1>4, <2>1 DEF IsFilled, DriveOK, BlockOK
  <2> QED  BY <1>11, <1>13, <2>1, <2>2
<1>15. CASE a.nsector = 0
  <2>1. Count(d) = n  BY <1>4, <1>6, <1>8, <1>15 DEF IsAdvance, IsFilled
  <2>2. j.total = j.moved + Left(e)
    <3>1. n * Half = Half * n  BY <1>1, Sizes
    <3> QED  BY <1>11, <1>13, <2>1, <3>1
  <2>3. func = "read_end" /\ j.what = "read"  BY <1>g, <1>15 DEF More
  <2>4. e.index < e.end  BY <1>2, <1>3, <1>11
  <2> QED  BY <1>e, <1>11, <1>12, <1>14, <2>2, <2>3, <2>4 DEF IsRead, Reading
<1>16. CASE a.nsector # 0
  <2>1. /\ Count(d) = n + Count(a) /\ GetSector(a) = GetSector(d) + n
        /\ GetSector(a) \in Nat /\ GetSector(a) + Count(a) <= Addressable(a)
    BY <1>4, <1>6, <1>8, <1>16 DEF IsAdvance, IsFilled
  <2>2. GetSector(e) = GetSector(a) /\ Addressable(e) = Addressable(a) /\ Count(e) = Count(a)
    BY <1>10, SamePlaces DEF Count, IsStarted
  <2>3. HasBlock(e)
    <3>1. e.kind = "hd" /\ e.req > 0
      BY <1>4, <1>8, <1>10 DEF More, HasBlock, IsAdvance, IsFilled, IsStarted, SameSetup
    <3> QED  BY <2>1, <2>2, <3>1 DEF HasBlock
  <2>4. GetSector(d) \in Int /\ Count(a) \in Nat /\ Half \in Nat
    BY <1>8, Numbers, Sizes DEF DriveOK, IsAdvance
  <2>5. GetSector(e) * Half = w + Half * n
    <3>1. (GetSector(d) + n) * Half = w + n * Half  BY <1>w, <1>1, <2>4, Sum
    <3>2. n * Half = Half * n  BY <1>1, <2>4
    <3> QED  BY <2>1, <2>2, <3>1, <3>2
  <2>6. Count(d) * Half = Half * n + Count(e) * Half
    <3>1. (n + Count(a)) * Half = n * Half + Count(a) * Half  BY <1>1, <2>4, Sum
    <3>2. n * Half = Half * n  BY <1>1, <2>4
    <3> QED  BY <2>1, <2>2, <3>1, <3>2
  <2>7. Count(e) * Half \in Nat  BY <2>2, <2>4, Product
  <2>8. /\ GetSector(e) * Half = j.word + j.moved + Left(e)
        /\ j.total = j.moved + Left(e) + Count(e) * Half
    BY <1>2, <1>11, <1>13, <2>5, <2>6, <2>7 DEF JobOK
  <2>9. More(e, j, Left(e))  BY <2>3, <2>8 DEF More
  <2>10. func = "sector_read" /\ j.what = "read"  BY <1>g, <1>16 DEF More
  <2>11. e.index < e.end  BY <1>2, <1>3, <1>11
  <2> QED  BY <1>e, <1>11, <1>12, <1>14, <2>9, <2>10, <2>11 DEF IsRead, Reading
<1> QED  BY <1>e, <1>15, <1>16

-----------------------------------------------------------------------------
IsWritten(e, j, l) ==
  /\ DriveOK(e) /\ "drq" \in e.status /\ e.index = 0 /\ e.index < e.end /\ Writing(e, j, l)

(* A block to be written is asked for. *)
LEMMA WriteStarts ==
  ASSUME NEW d, DriveOK(d), HasBlock(d), NEW j, JobOK(j), j.what = "write",
         GetSector(d) * Half = j.word + j.moved, j.total = j.moved + Count(d) * Half,
         NEW l, l = Words(j.word, j.moved), NEW n, n = NextBlock(d),
         NEW e, e = [TransferStart([d EXCEPT !.io = n], SectorSize * n, "sector_write")
                     EXCEPT !.status = {"ready", "seek", "drq"}]
  PROVE  IsWritten(e, j, l)
<1>g. PICK g : g = [d EXCEPT !.io = n]  OBVIOUS
<1>1. n \in 1 .. MaxMult /\ n \in 0 .. MaxMult /\ n \in Nat
  BY Blocks, Sizes DEF DriveOK, HasBlock
<1>2. /\ SectorSize * n = 2 * (Half * n) /\ Half * n \in Nat /\ Half * n <= Room
  BY <1>1, BlockSize
<1>3. Half * n > 0  BY <1>1, Sizes
<1>4. /\ IsDrive(g) /\ SamePlace(g, d) /\ SameSetup(g, d) /\ SamePacket(g, d)
      /\ g.nsector = d.nsector /\ g.io = n /\ g.buf = d.buf
  BY <1>g DEF DriveOK, IsDrive, Fields, SamePlace, SameSetup, SamePacket
<1>5. e = [TransferStart(g, SectorSize * n, "sector_write")
           EXCEPT !.status = {"ready", "seek", "drq"}]
  BY <1>g, Zenon
<1>6. IsStarted(e, g, SectorSize * n, "sector_write")
  <2>1. IsDrive(g)  BY <1>4
  <2>2. IsStarted([TransferStart(g, SectorSize * n, "sector_write")
                   EXCEPT !.status = {"ready", "seek", "drq"}], g, SectorSize * n, "sector_write")
    BY <2>1, Starts, Zenon
  <2> QED  BY <1>5, <2>2, Zenon
<1>7. /\ IsDrive(e) /\ SamePlace(e, d) /\ SameSetup(e, d) /\ SamePacket(e, d)
      /\ e.nsector = d.nsector /\ e.io = n /\ e.buf = d.buf /\ "drq" \in e.status
      /\ e.func = "sector_write" /\ e.index = 0 /\ e.end = SectorSize * n
  BY <1>4, <1>6 DEF IsStarted, SamePlace, SameSetup, SamePacket
<1>8. GetSector(e) = GetSector(d) /\ Addressable(e) = Addressable(d) /\ Count(e) = Count(d)
      /\ NextBlock(e) = n
  BY <1>7, SamePlaces DEF Count, NextBlock, SameSetup
<1>9. HasBlock(e)  BY <1>7, <1>8 DEF HasBlock, SameSetup
<1>10. DriveOK(e)
  <2>1. RegsOK(e) /\ CountsOK(e) /\ PacketOK(e)
    BY <1>1, <1>7 DEF DriveOK, RegsOK, CountsOK, PacketOK, SamePlace, SameSetup, SamePacket
  <2>2. DOMAIN e.buf = 0 .. Room - 1  BY <1>7 DEF DriveOK, BlockOK
  <2>3. BlockOK(e)
    <3>x. PICK x : x = Half * n  OBVIOUS
    <3>1. x \in Nat /\ x <= Room /\ SectorSize * n = 2 * x  BY <1>2, <3>x
    <3>2. e.end = 2 * x /\ e.index = 0  BY <1>7, <3>1
    <3>3. (2 * x) % 2 = 0 /\ 2 * x \in Nat /\ 2 * x <= 2 * Room  BY <3>1, Sizes
    <3> QED  BY <2>2, <3>2, <3>3 DEF BlockOK
  <2> QED  BY <1>7, <2>1, <2>3 DEF DriveOK
<1>11. e.index < e.end  BY <1>2, <1>3, <1>7
<1>12. e.index \div 2 = 0 /\ j.moved - 0 = j.moved /\ 0 .. 0 - 1 = {}  BY <1>7 DEF JobOK
<1>13. Writing(e, j, l)
  <2>1. GetSector(e) * Half = j.word + j.moved - e.index \div 2
    BY <1>8, <1>12 DEF JobOK
  <2>2. j.total = j.moved - e.index \div 2 + Count(e) * Half
    BY <1>8, <1>12
  <2>3. l = Words(j.word, j.moved - e.index \div 2)  BY <1>12
  <2>4. e.index \div 2 <= j.moved  BY <1>12 DEF JobOK
  <2> QED  BY <1>7, <1>8, <1>9, <1>12, <2>1, <2>2, <2>3, <2>4 DEF Writing
<1> QED  BY <1>7, <1>10, <1>11, <1>13 DEF IsWritten

Complete(j, l) == j.moved = j.total /\ (j.what = "write" => l = Words(j.word, j.total))
IsEnded(e) == DriveOK(e) /\ {"drq", "err"} \cap e.status = {}

SameAll(e, d) ==
  /\ SameSetup(e, d) /\ SamePlace(e, d) /\ SameBlock(e, d) /\ SamePacket(e, d)
  /\ e.nsector = d.nsector /\ e.status = d.status /\ e.io = d.io /\ e.buf = d.buf

(* The interrupt is all that ide_set_irq changes. *)
LEMMA OnlyIrq ==
  ASSUME NEW d, IsDrive(d), NEW x, NEW e, e = [d EXCEPT !.irq = x]
  PROVE  IsDrive(e) /\ SameAll(e, d) /\ e.irq = x
BY DEF IsDrive, Fields, SameAll, SameSetup, SamePlace, SameBlock, SamePacket

(* A drive whose registers and buffer are those of a good one is good. *)
LEMMA StillOK ==
  ASSUME NEW d, DriveOK(d), NEW e, IsDrive(e), SameAll(e, d)
  PROVE  DriveOK(e)
BY DEF DriveOK, SameAll, SameSetup, SamePlace, SameBlock, SamePacket, RegsOK, CountsOK, BlockOK,
       PacketOK

(* What is said of a transfer depends on the same parts of a drive only. *)
LEMMA StillThere ==
  ASSUME NEW d, NEW e, SameAll(e, d), NEW j, NEW l
  PROVE  /\ Left(e) = Left(d) /\ HasBlock(e) <=> HasBlock(d)
         /\ \A n : More(e, j, n) <=> More(d, j, n)
         /\ Reading(e, j) <=> Reading(d, j)
         /\ Writing(e, j, l) <=> Writing(d, j, l)
<1>1. GetSector(e) = GetSector(d) /\ Addressable(e) = Addressable(d)
  BY SamePlaces DEF SameAll
<1>2. Count(e) = Count(d) /\ NextBlock(e) = NextBlock(d) /\ Left(e) = Left(d)
  BY DEF SameAll, SameBlock, SameSetup, Count, NextBlock, Left
<1>3. HasBlock(e) <=> HasBlock(d)  BY <1>1, <1>2 DEF HasBlock, SameAll, SameSetup
<1>4. \A n : More(e, j, n) <=> More(d, j, n)  BY <1>1, <1>2, <1>3 DEF More
<1>5. Shows(e, j) <=> Shows(d, j)  BY <1>2 DEF Shows, SameAll, SameBlock
<1>6. Reading(e, j) <=> Reading(d, j)  BY <1>2, <1>4, <1>5 DEF Reading, SameAll, SameBlock
<1>7. Writing(e, j, l) <=> Writing(d, j, l)
  BY <1>1, <1>2, <1>3 DEF Writing, SameAll, SameBlock
<1> QED  BY <1>2, <1>3, <1>4, <1>6, <1>7

(* After a block has been written the next one is asked for, or all is done. *)
LEMMA WriteGoesOn ==
  ASSUME NEW d, DriveOK(d), HasBlock(d), d.io = NextBlock(d), NEW j, JobOK(j), j.what = "write",
         GetSector(d) * Half + Half * d.io = j.word + j.moved,
         j.total + Half * d.io = j.moved + Count(d) * Half,
         NEW l, l = Words(j.word, j.moved)
  PROVE  \/ IsEnded(SectorWriteDone(d)) /\ Complete(j, l)
         \/ IsWritten(SectorWriteDone(d), j, l)
<1>a. PICK a : a = Advance(d)  OBVIOUS
<1>n. PICK n : n = NextBlock(a)  OBVIOUS
<1>e. PICK e : e = SectorWriteDone(d)  OBVIOUS
<1>h. PICK h : h = IF a.nsector = 0
                   THEN [a EXCEPT !.status = {"ready", "seek"}]
                   ELSE [TransferStart([a EXCEPT !.io = n], SectorSize * n, "sector_write")
                         EXCEPT !.status = {"ready", "seek", "drq"}]
  OBVIOUS
<1>1. e = [h EXCEPT !.irq = TRUE]  BY <1>a, <1>n, <1>e, <1>h, Zenon DEF SectorWriteDone, RaiseIrq
<1>2. IsAdvance(a, d)  BY <1>a, Advances DEF DriveOK
<1>3. DriveOK(a)
  BY <1>2 DEF IsAdvance, DriveOK, BlockOK, PacketOK, SameBlock, SamePacket
<1>4. d.io \in Nat /\ Count(d) \in Nat /\ Count(a) \in Nat /\ Half \in Nat /\ GetSector(d) \in Int
  BY <1>3, Numbers, Sizes DEF DriveOK, CountsOK
<1>5. Half * d.io \in Nat /\ Half * d.io = d.io * Half  BY <1>4, Product
<1>6. CASE a.nsector = 0
  <2>1. Count(d) = d.io  BY <1>2, <1>6 DEF IsAdvance
  <2>2. j.total = j.moved
    <3>1. Count(d) * Half = Half * d.io  BY <1>5, <2>1
    <3>2. j.total \in Nat /\ j.moved \in Nat  BY DEF JobOK
    <3> QED  BY <1>5, <3>1, <3>2
  <2>3. h = [a EXCEPT !.status = {"ready", "seek"}]  BY <1>h, <1>6, Zenon
  <2>4. /\ IsDrive(h) /\ SamePlace(h, a) /\ SameBlock(h, a) /\ SameSetup(h, a) /\ SamePacket(h, a)
        /\ h.nsector = a.nsector /\ h.buf = a.buf /\ h.io = a.io /\ h.status = {"ready", "seek"}
    BY <1>3, <2>3 DEF DriveOK, IsDrive, Fields, SamePlace, SameBlock, SameSetup, SamePacket
  <2>5. DriveOK(h)
    BY <1>3, <2>4 DEF DriveOK, SamePlace, SameBlock, SameSetup, SamePacket, RegsOK, CountsOK,
                      BlockOK, PacketOK
  <2>6. IsDrive(e) /\ SameAll(e, h)  BY <1>1, <2>4, OnlyIrq
  <2>7. DriveOK(e) /\ e.status = {"ready", "seek"}  BY <2>4, <2>5, <2>6, StillOK DEF SameAll
  <2> QED  BY <1>e, <2>2, <2>7 DEF IsEnded, Complete
<1>7. CASE a.nsector # 0
  <2>1. /\ Count(d) = d.io + Count(a) /\ GetSector(a) = GetSector(d) + d.io
        /\ GetSector(a) \in Nat /\ GetSector(a) + Count(a) <= Addressable(a)
    BY <1>2, <1>7 DEF IsAdvance
  <2>2. HasBlock(a)  BY <1>2, <2>1 DEF HasBlock, IsAdvance, SameSetup
  <2>3. GetSector(a) * Half = j.word + j.moved
    <3>1. (GetSector(d) + d.io) * Half = GetSector(d) * Half + d.io * Half  BY <1>4, Sum
    <3> QED  BY <1>5, <2>1, <3>1
  <2>4. j.total = j.moved + Count(a) * Half
    <3>1. (d.io + Count(a)) * Half = d.io * Half + Count(a) * Half  BY <1>4, Sum
    <3>2. Count(a) * Half \in Nat  BY <1>4, Product
    <3>3. Count(d) * Half = Half * d.io + Count(a) * Half  BY <1>5, <2>1, <3>1
    <3>4. j.total \in Nat /\ j.moved \in Nat  BY DEF JobOK
    <3> QED  BY <1>5, <3>2, <3>3, <3>4
  <2>5. h = [TransferStart([a EXCEPT !.io = n], SectorSize * n, "sector_write")
             EXCEPT !.status = {"ready", "seek", "drq"}]
    BY <1>h, <1>7, Zenon
  <2>6. IsWritten(h, j, l)  BY <1>n, <1>3, <2>2, <2>3, <2>4, <2>5, WriteStarts
  <2>7. IsDrive(e) /\ SameAll(e, h)  BY <1>1, <2>6, OnlyIrq DEF IsWritten, DriveOK
  <2>8. DriveOK(e) /\ Writing(e, j, l)  BY <2>6, <2>7, StillOK, StillThere DEF IsWritten
  <2>9. "drq" \in e.status /\ e.index = 0 /\ e.index < e.end
    BY <2>6, <2>7 DEF IsWritten, SameAll, SameBlock
  <2> QED  BY <1>e, <2>8, <2>9 DEF IsWritten
<1> QED  BY <1>6, <1>7

-----------------------------------------------------------------------------
(* The CD-ROM.  What the driver may read ends at ibi and goes on from "at".  *)
Reply(d, j, at) ==
  /\ d.kind = "cd" /\ "err" \notin d.status /\ ByteCountLimit(d) > 1
  /\ d.ets <= d.pts /\ d.pts % 2 = 0 /\ d.ets % 2 = 0
  /\ d.ibi \in Nat /\ d.ibi % 2 = 0
  /\ j.moved + (d.ibi - at) \div 2 + d.pts \div 2 = j.total
  /\ \/ j.what = "reply" /\ d.lba = -1 /\ d.ets = 0 /\ d.ibi + d.pts <= 2 * Room
     \/ /\ j.what = "cd" /\ d.lba \in Nat /\ d.css = CdSize /\ d.ibi <= CdSize
        /\ \A i \in at \div 2 .. CdHalf - 1 : d.buf[i] = j.word + j.moved + i - at \div 2
        /\ d.lba * CdHalf = j.word + j.moved + CdHalf - at \div 2
Replying(d, j) == d.func = "reply_end" /\ d.ibi = d.end /\ Reply(d, j, d.index)

IsReplied(e, j) ==
  DriveOK(e) /\ "drq" \in e.status /\ e.index < e.end /\ Replying(e, j)
IsOver(e) == e.func = "stop2" /\ e.index = 0 /\ e.end = 0

(* A sector of a CD fits into the buffer. *)
LEMMA CdFits == CdSize <= 2 * Room /\ CdSize \in Nat
<1>1. CdSize \in 1 .. MaxMult * SectorSize  BY IdeAssumption
<1> QED  BY <1>1, Sizes

(* One chunk of a reply. *)
LEMMA SendsChunk ==
  ASSUME NEW d, DriveOK(d), NEW j, JobOK(j), NEW size \in Nat, size > 0, size % 2 = 0,
         d.kind = "cd", "err" \notin d.status, ByteCountLimit(d) > 1, size <= d.ets,
         d.ets <= d.pts, d.pts % 2 = 0, d.ets % 2 = 0, d.ibi \in Nat, d.ibi % 2 = 0,
         j.moved + d.pts \div 2 = j.total,
         \/ j.what = "reply" /\ d.lba = -1 /\ d.ets = size /\ d.ibi + d.pts <= 2 * Room
         \/ /\ j.what = "cd" /\ d.lba \in Nat /\ d.css = CdSize /\ d.ibi + size <= CdSize
            /\ \A i \in d.ibi \div 2 .. CdHalf - 1 : d.buf[i] = j.word + j.moved + i - d.ibi \div 2
            /\ d.lba * CdHalf = j.word + j.moved + CdHalf - d.ibi \div 2
  PROVE  IsReplied(Send(d, size), j)
<1>e. PICK e : e = Send(d, size)  OBVIOUS
<1>1. /\ IsDrive(e) /\ SameSetup(e, d) /\ SamePlace(e, d) /\ e.nsector = d.nsector /\ e.io = d.io
      /\ e.buf = d.buf /\ e.status = d.status \union {"drq"} /\ e.func = "reply_end"
      /\ e.index = d.ibi /\ e.end = d.ibi + size /\ e.pts = d.pts - size /\ e.ets = d.ets - size
      /\ e.ibi = d.ibi + size /\ e.lba = d.lba /\ e.css = d.css
  <2>g. PICK g : g = TransferStart2(d, d.ibi, size, "reply_end")  OBVIOUS
  <2>1. /\ IsDrive(g) /\ SameSetup(g, d) /\ SamePlace(g, d) /\ SamePacket(g, d)
        /\ g.nsector = d.nsector /\ g.io = d.io
        /\ g.buf = d.buf /\ g.status = d.status \union {"drq"} /\ g.func = "reply_end"
        /\ g.index = d.ibi /\ g.end = d.ibi + size
    BY <2>g DEF TransferStart2, DriveOK, IsDrive, Fields, SameSetup, SamePlace, SamePacket
  <2>2. e = [g EXCEPT !.pts = @ - size, !.ets = @ - size, !.ibi = @ + size]
    BY <1>e, <2>g, Zenon DEF Send
  <2>3. /\ IsDrive(e) /\ SameSetup(e, g) /\ SamePlace(e, g) /\ SameBlock(e, g)
        /\ e.nsector = g.nsector /\ e.io = g.io /\ e.buf = g.buf /\ e.status = g.status
        /\ e.pts = g.pts - size /\ e.ets = g.ets - size /\ e.ibi = g.ibi + size
        /\ e.lba = g.lba /\ e.css = g.css
    BY <2>1, <2>2 DEF IsDrive, Fields, SameSetup, SamePlace, SameBlock
  <2> QED  BY <2>1, <2>3 DEF SameSetup, SamePlace, SameBlock, SamePacket
<1>2. d.pts \in Nat /\ d.ets \in Nat  BY DEF DriveOK, PacketOK
<1>3. /\ e.pts \in Nat /\ e.ets \in Nat /\ e.ets <= e.pts /\ e.pts % 2 = 0 /\ e.ets % 2 = 0
      /\ e.ibi \in Nat /\ e.ibi % 2 = 0 /\ e.index < e.end /\ (e.ibi - e.index) \div 2 = size \div 2
      /\ e.pts \div 2 + size \div 2 = d.pts \div 2
  BY <1>1, <1>2
<1>4. e.end <= 2 * Room  BY <1>1, <1>2, CdFits, Sizes
<1>5. DriveOK(e)
  <2>1. RegsOK(e) /\ CountsOK(e)
    BY <1>1 DEF DriveOK, RegsOK, CountsOK, SamePlace, SameSetup
  <2>2. BlockOK(e) /\ PacketOK(e)  BY <1>1, <1>3, <1>4 DEF DriveOK, BlockOK, PacketOK
  <2> QED  BY <1>1, <2>1, <2>2 DEF DriveOK
<1>6. ByteCountLimit(e) > 1 /\ e.kind = "cd"
  <2>1. ByteCountLimit(e) = ByteCountLimit(d)  BY <1>1 DEF ByteCountLimit, SamePlace
  <2> QED  BY <1>1, <2>1 DEF SameSetup
<1>7. j.moved + (e.ibi - e.index) \div 2 + e.pts \div 2 = j.total
  <2>1. e.pts \div 2 \in Int /\ size \div 2 \in Int /\ j.moved \in Int  BY <1>3 DEF JobOK
  <2> QED  BY <1>3, <2>1
<1>8. \/ j.what = "reply" /\ e.lba = -1 /\ e.ets = 0 /\ e.ibi + e.pts <= 2 * Room
      \/ /\ j.what = "cd" /\ e.lba \in Nat /\ e.css = CdSize /\ e.ibi <= CdSize
         /\ \A i \in e.index \div 2 .. CdHalf - 1 : e.buf[i] = j.word + j.moved + i - e.index \div 2
         /\ e.lba * CdHalf = j.word + j.moved + CdHalf - e.index \div 2
  <2>1. CASE j.what = "reply" /\ d.lba = -1 /\ d.ets = size /\ d.ibi + d.pts <= 2 * Room
    BY <1>1, <1>2, <2>1
  <2>2. CASE /\ j.what = "cd" /\ d.lba \in Nat /\ d.css = CdSize /\ d.ibi + size <= CdSize
             /\ \A i \in d.ibi \div 2 .. CdHalf - 1 :
                  d.buf[i] = j.word + j.moved + i - d.ibi \div 2
             /\ d.lba * CdHalf = j.word + j.moved + CdHalf - d.ibi \div 2
    BY <1>1, <2>2
  <2> QED  BY <2>1, <2>2
<1>9. Reply(e, j, e.index)
  <2>1. "err" \notin e.status  BY <1>1
  <2> QED  BY <1>3, <1>6, <1>7, <1>8, <2>1 DEF Reply
<1> QED  BY <1>e, <1>1, <1>3, <1>5, <1>9 DEF IsReplied, Replying

(* Two registers hold a length below their product. *)
LEMMA TwoRegisters ==
  ASSUME NEW x \in Nat, NEW b \in Nat, b > 0, x < b * b
  PROVE  x % b \in 0 .. b - 1 /\ (x \div b) % b \in 0 .. b - 1 /\ (x % b) + b * ((x \div b) % b) = x
<1>q. PICK q : q = x \div b  OBVIOUS
<1>r. PICK r : r = x % b  OBVIOUS
<1>1. q \in Nat /\ r \in 0 .. b - 1 /\ x = q * b + r  BY <1>q, <1>r, Divided
<1>2. q < b
  <2> SUFFICES ASSUME ~(q < b) PROVE FALSE  OBVIOUS
  <2>m. PICK m : m = q - b  OBVIOUS
  <2>1. m \in Nat /\ q = b + m  BY <1>1, <2>m
  <2>2. q * b = b * b + m * b  BY <2>1
  <2>3. m * b \in Nat /\ b * b \in Nat  BY <2>1, Product
  <2> QED  BY <1>1, <2>2, <2>3
<1>3. q % b = q  BY <1>1, <1>2, Small1
<1>4. r + b * q = x
  <2>1. b * q = q * b /\ q * b \in Nat  BY <1>1, Product
  <2> QED  BY <1>1, <2>1
<1> QED  BY <1>q, <1>r, <1>1, <1>2, <1>3, <1>4

(* The limit, below what the two registers hold. *)
LEMMA Limits ==
  ASSUME NEW d, RegsOK(d)
  PROVE  ByteCountLimit(d) \in Nat /\ ByteCountLimit(d) < RegBase * RegBase - 1
<1>b. PICK b : b = RegBase  OBVIOUS
<1>m. PICK m : m = b - 1 - d.hcyl  OBVIOUS
<1>1. b \in Nat /\ b > 1  BY <1>b, IdeAssumption
<1>2. d.hcyl \in Nat /\ d.lcyl \in Nat /\ d.lcyl <= b - 1 /\ m \in Nat /\ b = m + 1 + d.hcyl
  BY <1>b, <1>m, <1>1 DEF RegsOK
<1>3. b * b = b * m + b + b * d.hcyl
  <2>1. b * (m + 1 + d.hcyl) = b * m + b + b * d.hcyl  BY <1>1, <1>2
  <2> QED  BY <1>2, <2>1
<1>4. b * m \in Nat /\ b * d.hcyl \in Nat /\ b * b \in Nat  BY <1>1, <1>2, Product
<1>5. d.lcyl + b * d.hcyl \in Nat /\ d.lcyl + b * d.hcyl <= b * b - 1  BY <1>1, <1>2, <1>3, <1>4
<1>6. b * b > 1  BY <1>1
<1> QED  BY <1>b, <1>4, <1>5, <1>6 DEF ByteCountLimit

(* What is left of a reply, with a sector in the buffer if it comes from the medium. *)
Supply(d, j) ==
  /\ DriveOK(d) /\ d.kind = "cd" /\ "err" \notin d.status /\ ByteCountLimit(d) > 1
  /\ d.pts > 0 /\ d.pts % 2 = 0 /\ d.ibi \in Nat /\ d.ibi % 2 = 0
  /\ j.moved + d.pts \div 2 = j.total
  /\ \/ j.what = "reply" /\ d.lba = -1 /\ d.ets = 0 /\ d.ibi + d.pts <= 2 * Room
     \/ /\ j.what = "cd" /\ d.lba \in Nat /\ d.css = CdSize /\ d.ibi < CdSize
        /\ \A i \in d.ibi \div 2 .. CdHalf - 1 : d.buf[i] = j.word + j.moved + i - d.ibi \div 2
        /\ d.lba * CdHalf = j.word + j.moved + CdHalf - d.ibi \div 2

IsTold(t, d, size) ==
  /\ IsDrive(t) /\ DriveOK(t) /\ SameSetup(t, d) /\ SameBlock(t, d) /\ t.pts = d.pts
  /\ t.ets = size /\ t.ibi = d.ibi /\ t.lba = d.lba /\ t.css = d.css /\ t.buf = d.buf
  /\ t.status = d.status /\ ByteCountLimit(t) = size

(* The registers tell the length that they are set to. *)
LEMMA Tells ==
  ASSUME NEW d, DriveOK(d), NEW size \in Nat, size < RegBase * RegBase - 1
  PROVE  IsTold([d EXCEPT !.nsector = 2, !.ets = size, !.lcyl = size % RegBase,
                          !.hcyl = (size \div RegBase) % RegBase], d, size)
<1>l. PICK l : l = size % RegBase  OBVIOUS
<1>h. PICK h : h = (size \div RegBase) % RegBase  OBVIOUS
<1>t. PICK t : t = [d EXCEPT !.nsector = 2, !.ets = size, !.lcyl = l, !.hcyl = h]  OBVIOUS
<1>1. /\ IsDrive(t) /\ SameSetup(t, d) /\ SameBlock(t, d) /\ t.pts = d.pts /\ t.ets = size
      /\ t.ibi = d.ibi /\ t.lba = d.lba /\ t.css = d.css /\ t.buf = d.buf /\ t.status = d.status
      /\ t.lba_mode = d.lba_mode /\ t.head = d.head /\ t.sector = d.sector /\ t.io = d.io
      /\ t.nsector = 2 /\ t.lcyl = l /\ t.hcyl = h
  BY <1>t DEF DriveOK, IsDrive, Fields, SameSetup, SameBlock
<1>2. RegBase \in Nat /\ RegBase > 0 /\ CountBase \in Nat /\ CountBase > 3  BY IdeAssumption
<1>3. l \in 0 .. RegBase - 1 /\ h \in 0 .. RegBase - 1 /\ l + RegBase * h = size
  <2>1. RegBase * RegBase \in Nat  BY <1>2, Product
  <2>2. size < RegBase * RegBase  BY <2>1
  <2> QED  BY <1>l, <1>h, <1>2, <2>2, TwoRegisters
<1>4. ByteCountLimit(t) = size
  <2>1. RegBase * RegBase \in Nat  BY <1>2, Product
  <2> QED  BY <1>1, <1>3, <2>1 DEF ByteCountLimit
<1>5. DriveOK(t)
  <2>1. RegsOK(t)  BY <1>1, <1>3 DEF DriveOK, RegsOK
  <2>2. CountsOK(t)  BY <1>1, <1>2 DEF DriveOK, CountsOK, SameSetup
  <2>3. BlockOK(t) /\ PacketOK(t)  BY <1>1 DEF DriveOK, BlockOK, PacketOK, SameBlock
  <2> QED  BY <1>1, <2>1, <2>2, <2>3 DEF DriveOK
<1> QED  BY <1>l, <1>h, <1>t, <1>1, <1>4, <1>5, Zenon DEF IsTold

(* A reply is cut at the limit, and at the end of the sector. *)
LEMMA Announces ==
  ASSUME NEW d, NEW j, JobOK(j), Supply(d, j)
  PROVE  \E e : IsReplied(e, j) /\ Announce(d) = RaiseIrq(e)
<1>m. PICK m : m = ByteCountLimit(d)  OBVIOUS
<1>s. PICK size : size = IF d.pts > m THEN m - (m % 2) ELSE d.pts  OBVIOUS
<1>c. PICK chunk : chunk = IF d.lba = -1 THEN size ELSE Small(size, d.css - d.ibi)  OBVIOUS
<1>t. PICK t : t = [d EXCEPT !.nsector = 2, !.ets = size, !.lcyl = size % RegBase,
                             !.hcyl = (size \div RegBase) % RegBase]
  OBVIOUS
<1>1. m \in Nat /\ m > 1 /\ m < RegBase * RegBase - 1  BY <1>m, Limits DEF Supply, DriveOK
<1>2. d.pts \in Nat /\ d.pts > 0 /\ d.pts % 2 = 0  BY DEF Supply, DriveOK, PacketOK
<1>3. size \in Nat /\ size > 1 /\ size % 2 = 0 /\ size <= d.pts /\ size <= m
  BY <1>s, <1>1, <1>2
<1>4. size < RegBase * RegBase - 1
  <2>1. RegBase * RegBase \in Nat
    <3>1. RegBase \in Nat  BY IdeAssumption
    <3> QED  BY <3>1, Product
  <2> QED  BY <1>1, <1>3, <2>1
<1>5. IsTold(t, d, size)  BY <1>t, <1>3, <1>4, Tells DEF Supply
<1>6. chunk \in Nat /\ chunk > 0 /\ chunk % 2 = 0 /\ chunk <= size
      /\ (j.what = "reply" => chunk = size) /\ (j.what = "cd" => d.ibi + chunk <= CdSize)
  <2>1. CASE j.what = "reply"
    <3>1. d.lba = -1  BY <2>1 DEF Supply
    <3> QED  BY <1>c, <1>3, <2>1, <3>1
  <2>2. CASE j.what = "cd"
    <3>1. d.lba \in Nat /\ d.css = CdSize /\ d.ibi < CdSize /\ d.ibi \in Nat /\ d.ibi % 2 = 0
      BY <2>2 DEF Supply
    <3>2. CdSize % 2 = 0 /\ CdSize \in Nat  BY CdFits, IdeAssumption
    <3>3. CdSize - d.ibi \in Nat /\ CdSize - d.ibi > 0 /\ (CdSize - d.ibi) % 2 = 0
      BY <3>1, <3>2
    <3>4. chunk = Small(size, CdSize - d.ibi)  BY <1>c, <3>1
    <3>5. chunk \in {size, CdSize - d.ibi} /\ chunk <= size /\ chunk <= CdSize - d.ibi
      <4>r. PICK r : r = CdSize - d.ibi  OBVIOUS
      <4>1. r \in Nat /\ size \in Nat /\ chunk = Small(size, r)  BY <1>3, <3>3, <3>4, <4>r
      <4>2. chunk \in {size, r} /\ chunk <= size /\ chunk <= r  BY <4>1 DEF Small
      <4> QED  BY <4>r, <4>2
    <3>6. chunk \in Nat /\ chunk > 0 /\ chunk % 2 = 0  BY <1>3, <3>3, <3>5
    <3>7. d.ibi + chunk <= CdSize
      <4>1. d.ibi \in Int /\ CdSize \in Int /\ chunk \in Int  BY <3>1, <3>2, <3>6
      <4> QED  BY <3>5, <4>1
    <3> QED  BY <2>2, <3>5, <3>6, <3>7
  <2> QED  BY <2>1, <2>2 DEF Supply
<1>7. IsReplied(Send(t, chunk), j)
  <2>1. /\ DriveOK(t) /\ t.kind = "cd" /\ "err" \notin t.status /\ ByteCountLimit(t) > 1
        /\ chunk <= t.ets /\ t.ets <= t.pts /\ t.pts % 2 = 0 /\ t.ets % 2 = 0
        /\ t.ibi \in Nat /\ t.ibi % 2 = 0 /\ j.moved + t.pts \div 2 = j.total
    BY <1>3, <1>5, <1>6 DEF IsTold, SameSetup, Supply
  <2>2. \/ j.what = "reply" /\ t.lba = -1 /\ t.ets = chunk /\ t.ibi + t.pts <= 2 * Room
        \/ /\ j.what = "cd" /\ t.lba \in Nat /\ t.css = CdSize /\ t.ibi + chunk <= CdSize
           /\ \A i \in t.ibi \div 2 .. CdHalf - 1 :
                t.buf[i] = j.word + j.moved + i - t.ibi \div 2
           /\ t.lba * CdHalf = j.word + j.moved + CdHalf - t.ibi \div 2
    BY <1>5, <1>6 DEF IsTold, Supply
  <2> QED  BY <1>6, <2>1, <2>2, SendsChunk
<1>8. Announce(d) = RaiseIrq(Send(t, chunk))
  BY <1>m, <1>s, <1>c, <1>t, Zenon DEF Announce
<1> QED  BY <1>7, <1>8

(* What was announced before goes on with the rest of the sector, or less. *)
LEMMA Continues ==
  ASSUME NEW d, NEW j, JobOK(j), Supply(d, j), d.ets > 0, d.ets <= d.pts, d.ets % 2 = 0
  PROVE  IsReplied(Continue(d), j)
<1>s. PICK size : size = Small(d.css - d.ibi, d.ets)  OBVIOUS
<1>0. d.ets \in Nat /\ j.what = "cd"  BY DEF Supply, DriveOK, PacketOK
<1>1. d.css = CdSize /\ d.ibi < CdSize /\ d.ibi \in Nat /\ d.ibi % 2 = 0  BY <1>0 DEF Supply
<1>2. CdSize % 2 = 0 /\ CdSize \in Nat  BY CdFits, IdeAssumption
<1>3. CdSize - d.ibi \in Nat /\ CdSize - d.ibi > 0 /\ (CdSize - d.ibi) % 2 = 0  BY <1>1, <1>2
<1>4. size \in Nat /\ size > 0 /\ size % 2 = 0 /\ size <= d.ets /\ d.ibi + size <= CdSize
  BY <1>s, <1>0, <1>1, <1>2, <1>3 DEF Small
<1>5. IsReplied(Send(d, size), j)  BY <1>0, <1>4, SendsChunk DEF Supply
<1> QED  BY <1>s, <1>5, Zenon DEF Continue

(* What ends without a request for data: in error, or with all of it moved. *)
Settled(e, j, l) ==
  /\ DriveOK(e) /\ "drq" \notin e.status
  /\ j.what # "none" => "err" \in e.status \/ Complete(j, l)

IsStopped(e, d) ==
  /\ IsDrive(e) /\ SameSetup(e, d) /\ SamePlace(e, d) /\ SamePacket(e, d) /\ IsOver(e)
  /\ e.nsector = d.nsector /\ e.status = d.status \ {"drq"} /\ e.io = d.io /\ e.buf = d.buf

(* ide_transfer_stop2 leaves no block and keeps the rest. *)
LEMMA Stops2 ==
  ASSUME NEW d, IsDrive(d)
  PROVE  IsStopped(TransferStop2(d), d)
BY DEF TransferStop2, IsDrive, Fields, IsStopped, SameSetup, SamePlace, SamePacket, IsOver

(* A drive that has been stopped is good. *)
LEMMA StoppedOK ==
  ASSUME NEW d, DriveOK(d), NEW e, IsStopped(e, d)
  PROVE  DriveOK(e)
<1>1. RegsOK(e) /\ CountsOK(e) /\ PacketOK(e)
  BY DEF DriveOK, IsStopped, SameSetup, SamePlace, SamePacket, RegsOK, CountsOK, PacketOK
<1>2. BlockOK(e)  BY Sizes DEF DriveOK, IsStopped, IsOver, BlockOK
<1> QED  BY <1>1, <1>2 DEF DriveOK, IsStopped

(* ide_atapi_cmd_ok and ide_atapi_cmd_error only answer. *)
LEMMA Answered ==
  ASSUME NEW d, DriveOK(d), NEW s, NEW e, e = RaiseIrq([d EXCEPT !.status = s, !.nsector = 3])
  PROVE  /\ DriveOK(e) /\ e.status = s /\ SameBlock(e, d) /\ SameSetup(e, d) /\ SamePlace(e, d)
<1>1. /\ IsDrive(e) /\ SameSetup(e, d) /\ SamePlace(e, d) /\ SameBlock(e, d) /\ SamePacket(e, d)
      /\ e.nsector = 3 /\ e.status = s /\ e.io = d.io /\ e.buf = d.buf
  BY DEF RaiseIrq, DriveOK, IsDrive, Fields, SameSetup, SamePlace, SameBlock, SamePacket
<1>2. RegsOK(e) /\ BlockOK(e) /\ PacketOK(e)
  BY <1>1 DEF DriveOK, SamePlace, SameBlock, SamePacket, RegsOK, BlockOK, PacketOK
<1>3. CountsOK(e)
  <2>1. CountBase \in Nat /\ CountBase > 3  BY IdeAssumption
  <2> QED  BY <1>1, <2>1 DEF DriveOK, CountsOK, SameSetup
<1> QED  BY <1>1, <1>2, <1>3 DEF DriveOK

(* Raising the interrupt does not disturb an answer. *)
LEMMA RepliedIrq ==
  ASSUME NEW d, NEW j, IsReplied(d, j)
  PROVE  IsReplied(RaiseIrq(d), j)
<1>e. PICK e : e = RaiseIrq(d)  OBVIOUS
<1>1. IsDrive(e) /\ SameAll(e, d)  BY <1>e, OnlyIrq DEF RaiseIrq, IsReplied, DriveOK
<1>2. DriveOK(e)  BY <1>1, StillOK DEF IsReplied
<1>3. Reply(e, j, e.index)
  <2>1. ByteCountLimit(e) = ByteCountLimit(d)  BY <1>1 DEF ByteCountLimit, SameAll, SamePlace
  <2>2. Reply(d, j, d.index)  BY DEF IsReplied, Replying
  <2> QED  BY <1>1, <2>1, <2>2 DEF Reply, SameAll, SameSetup, SameBlock, SamePacket
<1>4. Replying(e, j)  BY <1>1, <1>3 DEF Replying, IsReplied, SameAll, SameBlock, SamePacket
<1> QED  BY <1>e, <1>1, <1>2, <1>4 DEF IsReplied, SameAll, SameBlock

(* The next sector goes into the buffer. *)
IsLoaded(f, d) ==
  /\ DriveOK(f) /\ SameSetup(f, d) /\ SamePlace(f, d) /\ f.status = d.status
  /\ f.pts = d.pts /\ f.ets = d.ets /\ f.css = d.css /\ f.lba = d.lba + 1 /\ f.ibi = 0
  /\ \A i \in 0 .. CdHalf - 1 : f.buf[i] = d.lba * CdHalf + i

(* Loading a sector of a CD puts its words into the buffer and steps to the next. *)
LEMMA Loads ==
  ASSUME NEW d, DriveOK(d)
  PROVE  IsLoaded([Fill(d, CdSize, d.lba * WordsOf(CdSize)) EXCEPT !.lba = @ + 1, !.ibi = 0], d)
<1>w. PICK w : w = d.lba * CdHalf  OBVIOUS
<1>b. PICK b : b = [i \in DOMAIN d.buf |-> IF i < CdHalf THEN w + i ELSE d.buf[i]]  OBVIOUS
<1>g. PICK g : g = [d EXCEPT !.buf = b]  OBVIOUS
<1>f. PICK f : f = [g EXCEPT !.lba = @ + 1, !.ibi = 0]  OBVIOUS
<1>1. /\ IsDrive(g) /\ SameSetup(g, d) /\ SamePlace(g, d) /\ SameBlock(g, d) /\ SamePacket(g, d)
      /\ g.nsector = d.nsector /\ g.status = d.status /\ g.io = d.io /\ g.buf = b
  BY <1>g DEF DriveOK, IsDrive, Fields, SameSetup, SamePlace, SameBlock, SamePacket
<1>2. /\ IsDrive(f) /\ SameSetup(f, g) /\ SamePlace(f, g) /\ SameBlock(f, g)
      /\ f.nsector = g.nsector /\ f.status = g.status /\ f.io = g.io /\ f.buf = g.buf
      /\ f.pts = g.pts /\ f.ets = g.ets /\ f.css = g.css /\ f.lba = g.lba + 1 /\ f.ibi = 0
  BY <1>f, <1>1 DEF IsDrive, Fields, SameSetup, SamePlace, SameBlock
<1>3. DOMAIN b = 0 .. Room - 1  BY <1>b DEF DriveOK, BlockOK
<1>4. CdHalf <= Room /\ CdHalf \in Nat /\ Room \in Nat  BY CdFits, Sizes
<1>5. \A i \in 0 .. CdHalf - 1 : f.buf[i] = d.lba * CdHalf + i
  <2> SUFFICES ASSUME NEW i \in 0 .. CdHalf - 1 PROVE b[i] = w + i  BY <1>1, <1>2, <1>w
  <2>1. i \in 0 .. Room - 1 /\ i < CdHalf  BY <1>4
  <2>2. i \in DOMAIN d.buf  BY <2>1 DEF DriveOK, BlockOK
  <2> QED  BY <1>b, <2>1, <2>2
<1>6. DriveOK(f)
  <2>1. RegsOK(f) /\ CountsOK(f) /\ PacketOK(f)
    BY <1>1, <1>2 DEF DriveOK, RegsOK, CountsOK, PacketOK, SameSetup, SamePlace, SamePacket
  <2>2. BlockOK(f)  BY <1>1, <1>2, <1>3 DEF DriveOK, BlockOK, SameBlock
  <2> QED  BY <1>2, <2>1, <2>2 DEF DriveOK
<1>7. IsLoaded(f, d)
  BY <1>1, <1>2, <1>5, <1>6 DEF IsLoaded, SameSetup, SamePlace, SamePacket
<1>8. [Fill(d, CdSize, d.lba * WordsOf(CdSize)) EXCEPT !.lba = @ + 1, !.ibi = 0] = f
  <2>1. WordsOf(CdSize) = CdHalf  BY Sizes
  <2>2. Fill(d, CdSize, w) = g  BY <1>b, <1>g, <2>1, Zenon DEF Fill
  <2> QED  BY <1>w, <1>f, <2>1, <2>2, Zenon
<1> QED  BY <1>7, <1>8, Zenon

(* When the driver has read a chunk, the next one is sent or all is done. *)
LEMMA ReplyGoesOn ==
  ASSUME NEW d, DriveOK(d), NEW j, JobOK(j), Reply(d, j, d.ibi), NEW ok \in BOOLEAN, NEW l
  PROVE  \/ IsReplied(ReplyEnd(d, ok), j)
         \/ Settled(ReplyEnd(d, ok), j, l) /\ IsOver(ReplyEnd(d, ok))
<1>e. PICK e : e = ReplyEnd(d, ok)  OBVIOUS
<1>s. PICK s : s = TransferStop2(d)  OBVIOUS
<1>1. j.moved + d.pts \div 2 = j.total
  <2>1. d.ibi \in Nat /\ (d.ibi - d.ibi) \div 2 = 0  BY DEF Reply
  <2>2. j.moved + 0 + d.pts \div 2 = j.total  BY <2>1 DEF Reply
  <2> QED  BY <2>2 DEF JobOK
<1>2. d.pts \in Nat /\ d.ets \in Nat  BY DEF DriveOK, PacketOK
<1>3. DriveOK(s) /\ IsOver(s)  BY <1>s, Stops2, StoppedOK DEF DriveOK, IsStopped
<1>4. CASE d.pts <= 0
  <2>1. e = RaiseIrq([s EXCEPT !.status = {"ready", "seek"}, !.nsector = 3])
    BY <1>e, <1>s, <1>4, Zenon DEF ReplyEnd
  <2>2. DriveOK(e) /\ e.status = {"ready", "seek"} /\ SameBlock(e, s)
    BY <1>3, <2>1, Answered, ZenonT(40)
  <2>3. j.moved = j.total  BY <1>1, <1>2, <1>4 DEF JobOK
  <2>4. j.what # "write"  BY DEF Reply
  <2> QED  BY <1>e, <1>3, <2>2, <2>3, <2>4 DEF Settled, Complete, IsOver, SameBlock
<1>5. CASE ~(d.pts <= 0) /\ NeedsSector(d) /\ ~(ok /\ d.css = CdSize)
  <2>1. e = RaiseIrq([s EXCEPT !.status = {"ready", "err"}, !.nsector = 3])
    BY <1>e, <1>s, <1>5, Zenon DEF ReplyEnd, CmdError
  <2>2. DriveOK(e) /\ e.status = {"ready", "err"} /\ SameBlock(e, s)
    BY <1>3, <2>1, Answered, ZenonT(40)
  <2> QED  BY <1>e, <1>3, <2>2 DEF Settled, IsOver, SameBlock
<1>6. CASE ~(d.pts <= 0) /\ NeedsSector(d) /\ ok /\ d.css = CdSize
  <2>f. PICK f : f = [Fill(d, CdSize, d.lba * WordsOf(CdSize)) EXCEPT !.lba = @ + 1, !.ibi = 0]
    OBVIOUS
  <2>1. IsLoaded(f, d)  BY <2>f, Loads, Zenon
  <2>2. e = IF f.ets > 0 THEN Continue(f) ELSE Announce(f)
    BY <1>e, <1>6, <2>f, Zenon DEF ReplyEnd
  <2>3. j.what = "cd" /\ d.lba \in Nat /\ d.ibi = CdSize
    <3>1. d.lba # -1 /\ d.ibi >= CdSize  BY <1>6 DEF NeedsSector
    <3>2. CdSize \in Nat  BY CdFits
    <3> QED  BY <3>1, <3>2 DEF Reply
  <2>4. d.lba * CdHalf = j.word + j.moved
    <3>1. CdSize \div 2 = CdHalf  BY DEF CdHalf
    <3>2. d.lba * CdHalf = j.word + j.moved + CdHalf - CdHalf  BY <2>3, <3>1 DEF Reply
    <3> QED  BY <3>2, Sizes DEF JobOK
  <2>5. \A i \in 0 .. CdHalf - 1 : f.buf[i] = j.word + j.moved + i - 0
    BY <2>1, <2>4, Sizes DEF IsLoaded, JobOK
  <2>6. f.lba * CdHalf = j.word + j.moved + CdHalf - 0
    <3>1. f.lba = d.lba + 1  BY <2>1 DEF IsLoaded
    <3>2. (d.lba + 1) * CdHalf = d.lba * CdHalf + 1 * CdHalf  BY <2>3, Sizes, Sum
    <3> QED  BY <2>4, <3>1, <3>2, Sizes DEF JobOK
  <2>7. Supply(f, j) /\ f.ets = d.ets /\ f.pts = d.pts
    <3>1. DriveOK(f) /\ f.kind = "cd" /\ "err" \notin f.status /\ f.pts = d.pts /\ f.ets = d.ets
          /\ f.ibi = 0 /\ f.css = CdSize /\ f.lba = d.lba + 1
      BY <1>6, <2>1 DEF IsLoaded, SameSetup, Reply
    <3>2. ByteCountLimit(f) > 1
      <4>1. ByteCountLimit(f) = ByteCountLimit(d)  BY <2>1 DEF ByteCountLimit, IsLoaded, SamePlace
      <4> QED  BY <4>1 DEF Reply
    <3>3. f.ibi \div 2 = 0 /\ f.ibi \in Nat /\ f.ibi % 2 = 0 /\ f.ibi < CdSize
      BY <3>1, CdFits, Sizes
    <3>4. f.pts > 0 /\ f.pts % 2 = 0  BY <1>2, <1>6, <3>1 DEF Reply
    <3>5. f.lba \in Nat  BY <2>3, <3>1
    <3> QED  BY <1>1, <2>3, <2>5, <2>6, <3>1, <3>2, <3>3, <3>4, <3>5 DEF Supply
  <2>8. CASE f.ets > 0
    <3>1. f.ets <= f.pts /\ f.ets % 2 = 0  BY <2>7 DEF Reply
    <3>2. IsReplied(Continue(f), j)  BY <2>7, <2>8, <3>1, Continues
    <3> QED  BY <1>e, <2>2, <2>8, <3>2
  <2>9. CASE ~(f.ets > 0)
    <3>1. PICK a : IsReplied(a, j) /\ Announce(f) = RaiseIrq(a)  BY <2>7, Announces
    <3>2. IsReplied(RaiseIrq(a), j)  BY <3>1, RepliedIrq
    <3> QED  BY <1>e, <2>2, <2>9, <3>1, <3>2
  <2> QED  BY <2>8, <2>9
<1>7. CASE ~(d.pts <= 0) /\ ~NeedsSector(d)
  <2>2. e = IF d.ets > 0 THEN Continue(d) ELSE Announce(d)
    BY <1>e, <1>7, Zenon DEF ReplyEnd
  <2>3. d.pts > 0  BY <1>2, <1>7
  <2>4. \/ j.what = "reply" /\ d.lba = -1 /\ d.ets = 0 /\ d.ibi + d.pts <= 2 * Room
        \/ /\ j.what = "cd" /\ d.lba \in Nat /\ d.css = CdSize /\ d.ibi < CdSize
           /\ \A i \in d.ibi \div 2 .. CdHalf - 1 :
                d.buf[i] = j.word + j.moved + i - d.ibi \div 2
           /\ d.lba * CdHalf = j.word + j.moved + CdHalf - d.ibi \div 2
    <3>1. j.what = "cd" => d.ibi < CdSize
      <4>1. CdSize \in Nat  BY CdFits
      <4> QED  BY <1>7, <4>1 DEF NeedsSector, Reply
    <3> QED  BY <3>1 DEF Reply
  <2>5. Supply(d, j)  BY <1>1, <2>3, <2>4 DEF Supply, Reply
  <2>8. CASE d.ets > 0
    <3>1. d.ets <= d.pts /\ d.ets % 2 = 0  BY DEF Reply
    <3>2. IsReplied(Continue(d), j)  BY <2>5, <2>8, <3>1, Continues
    <3> QED  BY <1>e, <2>2, <2>8, <3>2
  <2>9. CASE ~(d.ets > 0)
    <3>1. PICK a : IsReplied(a, j) /\ Announce(d) = RaiseIrq(a)  BY <2>5, Announces
    <3>2. IsReplied(RaiseIrq(a), j)  BY <3>1, RepliedIrq
    <3> QED  BY <1>e, <2>2, <2>9, <3>1, <3>2
  <2> QED  BY <2>8, <2>9
<1> QED  BY <1>4, <1>5, <1>6, <1>7

(* A command that answers: CmdReply and CmdRead set up the reply. *)
IsSetUp(e, d, lba, pts, ibi) ==
  /\ IsDrive(e) /\ SameSetup(e, d) /\ SamePlace(e, d) /\ SameBlock(e, d) /\ e.nsector = d.nsector
  /\ e.io = d.io /\ e.buf = d.buf /\ e.lba = lba /\ e.pts = pts /\ e.ets = 0 /\ e.ibi = ibi
  /\ e.status = {"ready", "seek"}

(* A drive set up for an answer is good, with the same byte count limit. *)
LEMMA SetUpOK ==
  ASSUME NEW d, DriveOK(d), NEW e, NEW lba, NEW pts \in Nat, NEW ibi, IsSetUp(e, d, lba, pts, ibi)
  PROVE  DriveOK(e) /\ ByteCountLimit(e) = ByteCountLimit(d)
<1>1. RegsOK(e) /\ CountsOK(e) /\ BlockOK(e) /\ PacketOK(e)
  BY DEF DriveOK, IsSetUp, SameSetup, SamePlace, SameBlock, RegsOK, CountsOK, BlockOK, PacketOK
<1>2. ByteCountLimit(e) = ByteCountLimit(d)  BY DEF IsSetUp, SamePlace, ByteCountLimit
<1> QED  BY <1>1, <1>2 DEF DriveOK, IsSetUp

(* What a packet asks for. *)
LEMMA Packet ==
  ASSUME NEW p \in Packets
  PROVE  \/ p.op \in {"REFUSED", "ACCEPTED"}
         \/ p.op = "REPLY" /\ p.size \in Lengths
         \/ p.op \in {"READ", "READ_RAW"} /\ p.lba \in Nat /\ p.count \in Nat
<1>1. CdCounts \subseteq Nat /\ CdSectors \in Nat  BY IdeAssumption
<1>2. CASE p \in [op : {"REFUSED", "ACCEPTED"}]
  <2>1. p.op \in {"REFUSED", "ACCEPTED"}  BY <1>2
  <2> QED  BY <2>1
<1>3. CASE p \in [op : {"REPLY"}, size : Lengths]
  <2>1. p.op \in {"REPLY"} /\ p.size \in Lengths  BY <1>3
  <2> QED  BY <2>1
<1>4. CASE p \in [op : {"READ", "READ_RAW"}, lba : 0 .. CdSectors - 1, count : CdCounts]
  <2>1. p.op \in {"READ", "READ_RAW"} /\ p.lba \in 0 .. CdSectors - 1 /\ p.count \in CdCounts
    BY <1>4
  <2>2. p.count \in Nat  BY <1>1, <2>1
  <2>3. p.lba \in Nat
    <3>1. \A x \in 0 .. CdSectors - 1 : x \in Nat  OBVIOUS
    <3> QED  BY <2>1, <3>1, Zenon
  <2> QED  BY <2>1, <2>2, <2>3, Zenon
<1> QED  BY <1>2, <1>3, <1>4 DEF Packets

(* A packet that answers from the buffer begins at its first word. *)
LEMMA ReplyStarts ==
  ASSUME NEW d, DriveOK(d), d.kind = "cd", ByteCountLimit(d) > 1, NEW size \in Lengths, NEW l,
         NEW j, j = [what |-> "reply", word |-> 0, total |-> WordsOf(size), moved |-> 0]
  PROVE  IsReplied(CmdReply(d, size), j) \/ Settled(CmdReply(d, size), j, l)
<1>e. PICK e : e = [d EXCEPT !.lba = -1, !.pts = size, !.ets = 0, !.ibi = 0,
                             !.status = {"ready", "seek"}]
  OBVIOUS
<1>1. size \in Nat /\ size % 2 = 0 /\ size <= 2 * Room /\ WordsOf(size) \in Nat
      /\ WordsOf(size) = size \div 2
  <2>1. size \in {n \in 0 .. MaxMult * SectorSize : n % 2 = 0}  BY IdeAssumption
  <2> QED  BY <2>1, Sizes DEF WordsOf
<1>2. IsSetUp(e, d, -1, size, 0)
  BY <1>e DEF DriveOK, IsDrive, Fields, IsSetUp, SameSetup, SamePlace, SameBlock
<1>3. DriveOK(e) /\ ByteCountLimit(e) > 1  BY <1>1, <1>2, SetUpOK
<1>4. JobOK(j)  BY <1>1 DEF JobOK
<1>5. Reply(e, j, e.ibi)
  <2>1. /\ e.kind = "cd" /\ e.status = {"ready", "seek"} /\ e.lba = -1 /\ e.pts = size
        /\ e.ets = 0 /\ e.ibi = 0
    BY <1>2 DEF IsSetUp, SameSetup
  <2>2. j.what = "reply" /\ j.total = size \div 2 /\ j.moved = 0  BY <1>1
  <2>3. (0 - 0) \div 2 = 0 /\ 0 + size <= 2 * Room /\ 0 + 0 + size \div 2 = size \div 2  BY <1>1
  <2> QED  BY <1>1, <1>3, <2>1, <2>2, <2>3 DEF Reply
<1>6. CmdReply(d, size) = ReplyEnd(e, TRUE)  BY <1>e, Zenon DEF CmdReply
<1>7. \/ IsReplied(ReplyEnd(e, TRUE), j)
      \/ Settled(ReplyEnd(e, TRUE), j, l) /\ IsOver(ReplyEnd(e, TRUE))
  BY <1>3, <1>4, <1>5, ReplyGoesOn
<1> QED  BY <1>6, <1>7

(* A packet that reads sectors begins at the first word of the first one. *)
LEMMA ReadStarts ==
  ASSUME NEW d, DriveOK(d), d.kind = "cd", ByteCountLimit(d) > 1, NEW lba \in Nat,
         NEW count \in Nat, NEW ok \in BOOLEAN, NEW l, NEW j,
         j = [what |-> "cd", word |-> lba * CdHalf, total |-> count * CdHalf, moved |-> 0]
  PROVE  \/ IsReplied(CmdRead(d, lba, count, CdSize, ok), j)
         \/ Settled(CmdRead(d, lba, count, CdSize, ok), j, l)
<1>p. PICK pts : pts = count * CdSize  OBVIOUS
<1>e. PICK e : e = [d EXCEPT !.lba = lba, !.pts = pts, !.ets = 0, !.ibi = CdSize,
                             !.css = CdSize, !.status = {"ready", "seek"}]
  OBVIOUS
<1>1. /\ CdSize \in Nat /\ CdHalf \in Nat /\ CdSize = 2 * CdHalf /\ lba * CdHalf \in Nat
      /\ count * CdHalf \in Nat
  BY CdFits, Sizes, Product
<1>2. pts = 2 * (count * CdHalf)  BY <1>p, <1>1
<1>3. pts \in Nat /\ pts % 2 = 0 /\ pts \div 2 = count * CdHalf  BY <1>1, <1>2
<1>4. IsSetUp(e, d, lba, pts, CdSize) /\ e.css = CdSize
  BY <1>e DEF DriveOK, IsDrive, Fields, IsSetUp, SameSetup, SamePlace, SameBlock
<1>5. DriveOK(e) /\ ByteCountLimit(e) > 1  BY <1>3, <1>4, SetUpOK
<1>6. JobOK(j)  BY <1>1 DEF JobOK
<1>7. Reply(e, j, e.ibi)
  <2>1. /\ e.kind = "cd" /\ e.status = {"ready", "seek"} /\ e.lba = lba /\ e.pts = pts
        /\ e.ets = 0 /\ e.ibi = CdSize /\ e.css = CdSize
    BY <1>4 DEF IsSetUp, SameSetup
  <2>2. j.what = "cd" /\ j.total = count * CdHalf /\ j.moved = 0 /\ j.word = lba * CdHalf  OBVIOUS
  <2>3. CdSize % 2 = 0 /\ CdSize \div 2 = CdHalf /\ (CdSize - CdSize) \div 2 = 0
    BY <1>1
  <2>4. \A i \in CdSize \div 2 .. CdHalf - 1 :
           e.buf[i] = j.word + j.moved + i - CdSize \div 2
    BY <1>1, <2>3
  <2>5. lba * CdHalf = j.word + j.moved + CdHalf - CdSize \div 2
    BY <1>1, <2>2, <2>3
  <2>6. j.moved + (e.ibi - e.ibi) \div 2 + e.pts \div 2 = j.total
    <3>1. 0 + 0 + count * CdHalf = count * CdHalf  BY <1>1
    <3> QED  BY <1>3, <2>1, <2>2, <2>3, <3>1
  <2> QED  BY <1>1, <1>3, <1>5, <2>1, <2>2, <2>3, <2>4, <2>5, <2>6 DEF Reply
<1>8. CmdRead(d, lba, count, CdSize, ok) = ReplyEnd(e, ok)  BY <1>p, <1>e, Zenon DEF CmdRead
<1>9. \/ IsReplied(ReplyEnd(e, ok), j)
      \/ Settled(ReplyEnd(e, ok), j, l) /\ IsOver(ReplyEnd(e, ok))
  BY <1>5, <1>6, <1>7, ReplyGoesOn
<1> QED  BY <1>8, <1>9

(* Sectors of another length cannot be read. *)
LEMMA RawFails ==
  ASSUME NEW d, DriveOK(d), NEW lba \in Nat, NEW count \in Nat, count > 0, NEW ok \in BOOLEAN,
         NEW l, NEW j, j.what = "none"
  PROVE  Settled(CmdRead(d, lba, count, RawSize, ok), j, l)
<1>p. PICK pts : pts = count * RawSize  OBVIOUS
<1>e. PICK e : e = [d EXCEPT !.lba = lba, !.pts = pts, !.ets = 0, !.ibi = RawSize,
                             !.css = RawSize, !.status = {"ready", "seek"}]
  OBVIOUS
<1>s. PICK s : s = TransferStop2(e)  OBVIOUS
<1>f. PICK f : f = CmdRead(d, lba, count, RawSize, ok)  OBVIOUS
<1>1. RawSize \in Nat /\ RawSize > 0 /\ RawSize # CdSize
  <2>1. CdSize \in Nat  BY CdFits
  <2> QED  BY <2>1 DEF RawSize
<1>2. pts \in Nat /\ ~(pts <= 0)  BY <1>p, <1>1
<1>3. IsSetUp(e, d, lba, pts, RawSize) /\ e.css = RawSize
  BY <1>e DEF DriveOK, IsDrive, Fields, IsSetUp, SameSetup, SamePlace, SameBlock
<1>4. DriveOK(e)  BY <1>2, <1>3, SetUpOK
<1>5. NeedsSector(e) /\ ~(ok /\ e.css = CdSize) /\ ~(e.pts <= 0)
  BY <1>1, <1>2, <1>3 DEF NeedsSector, IsSetUp
<1>6. f = ReplyEnd(e, ok)  BY <1>p, <1>e, <1>f, Zenon DEF CmdRead
<1>7. f = RaiseIrq([s EXCEPT !.status = {"ready", "err"}, !.nsector = 3])
  BY <1>s, <1>5, <1>6, Zenon DEF ReplyEnd, CmdError
<1>8. DriveOK(s)  BY <1>s, <1>4, Stops2, StoppedOK DEF DriveOK
<1>9. DriveOK(f) /\ f.status = {"ready", "err"}  BY <1>7, <1>8, Answered, ZenonT(40)
<1> QED  BY <1>f, <1>9 DEF Settled

(* A packet that its last word completed. *)
LEMMA PacketRuns ==
  ASSUME NEW d, DriveOK(d), d.kind = "cd", ByteCountLimit(d) > 1, NEW p \in Packets,
         NEW ok \in BOOLEAN, NEW l
  PROVE  /\ JobOK(PacketJob(p)) /\ PacketJob(p).what # "write"
         /\ \/ IsReplied(AtapiCmd(d, p, ok), PacketJob(p))
            \/ Settled(AtapiCmd(d, p, ok), PacketJob(p), l)
<1>e. PICK e : e = AtapiCmd(d, p, ok)  OBVIOUS
<1>j. PICK j : j = PacketJob(p)  OBVIOUS
<1>0. WordsOf(CdSize) = CdHalf /\ CdHalf \in Nat  BY Sizes
<1>1. NoJob.what = "none" /\ JobOK(NoJob)  BY DEF NoJob, JobOK
<1>2. CASE p.op = "REFUSED"
  <2>1. j = NoJob  BY <1>j, <1>2 DEF PacketJob
  <2>2. e = RaiseIrq([d EXCEPT !.status = {"ready", "err"}, !.nsector = 3])
    BY <1>e, <1>2 DEF AtapiCmd, CmdError
  <2>3. DriveOK(e) /\ e.status = {"ready", "err"}  BY <2>2, Answered, ZenonT(40)
  <2> QED  BY <1>e, <1>j, <1>1, <2>1, <2>3 DEF Settled
<1>3. CASE p.op = "ACCEPTED" \/ (p.op = "READ_RAW" /\ ~(p.count > 0))
  <2>1. j = NoJob  BY <1>j, <1>3 DEF PacketJob
  <2>2. e = RaiseIrq([d EXCEPT !.status = {"ready", "seek"}, !.nsector = 3])
    BY <1>e, <1>3 DEF AtapiCmd, CmdOk
  <2>3. DriveOK(e) /\ e.status = {"ready", "seek"}  BY <2>2, Answered, ZenonT(40)
  <2> QED  BY <1>e, <1>j, <1>1, <2>1, <2>3 DEF Settled
<1>4. CASE p.op = "REPLY" /\ p.size \in Lengths
  <2>1. j = [what |-> "reply", word |-> 0, total |-> WordsOf(p.size), moved |-> 0]
    BY <1>j, <1>4 DEF PacketJob
  <2>2. e = CmdReply(d, p.size)  BY <1>e, <1>4 DEF AtapiCmd
  <2>3. IsReplied(e, j) \/ Settled(e, j, l)  BY <1>4, <2>1, <2>2, ReplyStarts
  <2>4. WordsOf(p.size) \in Nat
    <3>1. p.size \in {n \in 0 .. MaxMult * SectorSize : n % 2 = 0}  BY <1>4, IdeAssumption
    <3>2. p.size \in Nat  BY <3>1, Sizes
    <3> QED  BY <3>2 DEF WordsOf
  <2>5. JobOK(j) /\ j.what = "reply"  BY <2>1, <2>4 DEF JobOK
  <2> QED  BY <1>e, <1>j, <2>3, <2>5
<1>5. CASE p.op = "READ_RAW" /\ p.count > 0 /\ p.count \in Nat /\ p.lba \in Nat
  <2>1. j = NoJob  BY <1>j, <1>5 DEF PacketJob
  <2>2. e = CmdRead(d, p.lba, p.count, RawSize, ok)  BY <1>e, <1>5 DEF AtapiCmd
  <2>3. Settled(e, j, l)  BY <1>1, <1>5, <2>1, <2>2, RawFails
  <2> QED  BY <1>e, <1>j, <1>1, <2>1, <2>3
<1>6. CASE p.op = "READ" /\ p.count \in Nat /\ p.lba \in Nat
  <2>1. j = [what |-> "cd", word |-> p.lba * CdHalf, total |-> p.count * CdHalf, moved |-> 0]
    BY <1>j, <1>0, <1>6 DEF PacketJob
  <2>2. p.lba * CdHalf \in Nat /\ p.count * CdHalf \in Nat  BY <1>0, <1>6, Product
  <2>3. JobOK(j) /\ j.what = "cd"  BY <2>1, <2>2 DEF JobOK
  <2>4. CASE p.count > 0
    <3>1. e = CmdRead(d, p.lba, p.count, CdSize, ok)  BY <1>e, <1>6, <2>4 DEF AtapiCmd
    <3>2. IsReplied(e, j) \/ Settled(e, j, l)  BY <1>6, <2>1, <3>1, ReadStarts
    <3> QED  BY <1>e, <1>j, <2>3, <3>2
  <2>5. CASE ~(p.count > 0)
    <3>1. e = RaiseIrq([d EXCEPT !.status = {"ready", "seek"}, !.nsector = 3])
      BY <1>e, <1>6, <2>5 DEF AtapiCmd, CmdOk
    <3>2. DriveOK(e) /\ e.status = {"ready", "seek"}  BY <3>1, Answered, ZenonT(40)
    <3>3. p.count = 0  BY <1>6, <2>5
    <3>4. j.moved = j.total  BY <1>0, <2>1, <3>3
    <3> QED  BY <1>e, <1>j, <2>3, <3>2, <3>4 DEF Settled, Complete
  <2> QED  BY <2>4, <2>5
<1> QED  BY <1>2, <1>3, <1>4, <1>5, <1>6, Packet

-----------------------------------------------------------------------------
(* The selected drive, the driver's command and the medium together.        *)
Other(d, j) ==
  /\ j.what = "none"
  /\ \/ d.func \in {"identify_end", "stop2"}
     \/ d.func = "atapi_cmd" /\ d.kind = "cd" /\ ByteCountLimit(d) > 1

Asks(d, j, l) ==
  d.index < d.end /\ (Reading(d, j) \/ Writing(d, j, l) \/ Replying(d, j) \/ Other(d, j))

Phase(d, j, l) ==
  IF "drq" \in d.status THEN Asks(d, j, l)
  ELSE j.what # "none" /\ "err" \notin d.status => Complete(j, l)

(* A REP INS under way: also when nothing is left, or a block has failed.   *)
InRep(d, j) ==
  /\ ~Sends(d)
  /\ "drq" \notin d.status =>
       /\ d.index = d.end
       /\ \/ d.func \in {"stop", "stop2"}
          \/ d.func = "sector_read" /\ "err" \in d.status /\ More(d, j, 0)

(* ide_set_irq disturbs nothing of it. *)
LEMMA PhaseKept ==
  ASSUME NEW d, NEW e, SameAll(e, d), NEW j, NEW l
  PROVE  (Phase(e, j, l) <=> Phase(d, j, l)) /\ (InRep(e, j) <=> InRep(d, j))
<1>1. ByteCountLimit(e) = ByteCountLimit(d)  BY DEF SameAll, SamePlace, ByteCountLimit
<1>2. /\ e.kind = d.kind /\ e.func = d.func /\ e.index = d.index /\ e.end = d.end
      /\ e.status = d.status /\ e.buf = d.buf /\ e.pts = d.pts /\ e.ets = d.ets /\ e.ibi = d.ibi
      /\ e.lba = d.lba /\ e.css = d.css
  BY DEF SameAll, SameSetup, SameBlock, SamePacket
<1>3. Reply(e, j, e.index) <=> Reply(d, j, d.index)  BY <1>1, <1>2 DEF Reply
<1>4. Replying(e, j) <=> Replying(d, j)  BY <1>2, <1>3 DEF Replying
<1>5. Other(e, j) <=> Other(d, j)  BY <1>1, <1>2 DEF Other
<1>6. Asks(e, j, l) <=> Asks(d, j, l)  BY <1>2, <1>4, <1>5, StillThere DEF Asks
<1>7. Phase(e, j, l) <=> Phase(d, j, l)  BY <1>2, <1>6 DEF Phase
<1>8. InRep(e, j) <=> InRep(d, j)  BY <1>2, StillThere DEF InRep, Sends
<1> QED  BY <1>7, <1>8

IsMoved(m, d, bytes) ==
  /\ IsDrive(m) /\ SameSetup(m, d) /\ SamePlace(m, d) /\ SamePacket(m, d) /\ m.func = d.func
  /\ m.end = d.end /\ m.index = d.index + bytes /\ m.nsector = d.nsector
  /\ m.status = d.status /\ m.io = d.io /\ m.buf = d.buf

(* Moving words out of or into the buffer leaves a good drive. *)
LEMMA Moves ==
  ASSUME NEW d, DriveOK(d), NEW bytes \in Nat, bytes % 2 = 0, d.index + bytes <= d.end
  PROVE  IsMoved(Moved(d, bytes), d, bytes) /\ DriveOK(Moved(d, bytes))
<1>m. PICK m : m = Moved(d, bytes)  OBVIOUS
<1>1. IsMoved(m, d, bytes)
  BY <1>m DEF Moved, DriveOK, IsDrive, Fields, IsMoved, SameSetup, SamePlace, SamePacket
<1>2. RegsOK(m) /\ CountsOK(m) /\ PacketOK(m)
  BY <1>1 DEF DriveOK, IsMoved, RegsOK, CountsOK, PacketOK, SameSetup, SamePlace, SamePacket
<1>3. d.index \in Nat /\ d.index % 2 = 0  BY DEF DriveOK, BlockOK
<1>4. d.index + bytes \in Nat /\ (d.index + bytes) % 2 = 0  BY <1>3
<1>5. BlockOK(m)  BY <1>1, <1>4 DEF DriveOK, BlockOK, IsMoved
<1> QED  BY <1>m, <1>1, <1>2, <1>5 DEF DriveOK, IsMoved

(* Half of even numbers. *)
LEMMA Halves ==
  ASSUME NEW x \in Nat, x % 2 = 0, NEW b \in Nat, b % 2 = 0, NEW n \in Nat, n % 2 = 0, x + b <= n
  PROVE  /\ x \div 2 \in Nat /\ b \div 2 \in Nat /\ (x + b) \div 2 = x \div 2 + b \div 2
         /\ (n - x) \div 2 \in Nat /\ (n - (x + b)) \div 2 \in Nat
         /\ (n - x) \div 2 = b \div 2 + (n - (x + b)) \div 2
OBVIOUS

HasMoved(j, m, bytes) == JobOK(m) /\ m.what = j.what /\ m.word = j.word /\ m.total = j.total
                           /\ m.moved = j.moved + bytes \div 2

(* What has been moved of a command grows by the words moved. *)
LEMMA JobMoved ==
  ASSUME NEW j, JobOK(j), NEW bytes \in Nat
  PROVE  HasMoved(j, [j EXCEPT !.moved = @ + WordsOf(bytes)], bytes)
BY DEF JobOK, HasMoved, WordsOf

(* The words left are still the next ones of the command. *)
LEMMA ReadingOn ==
  ASSUME NEW d, DriveOK(d), NEW j, JobOK(j), NEW bytes \in Nat, bytes % 2 = 0,
         d.index + bytes <= d.end, NEW m, IsMoved(m, d, bytes),
         NEW k, HasMoved(j, k, bytes), Reading(d, j)
  PROVE  Reading(m, k)
<1>1. d.index \in Nat /\ d.index % 2 = 0 /\ d.end \in Nat /\ d.end % 2 = 0
  BY DEF DriveOK, BlockOK
<1>h. /\ d.index \div 2 \in Nat /\ bytes \div 2 \in Nat
      /\ (d.index + bytes) \div 2 = d.index \div 2 + bytes \div 2
      /\ (d.end - d.index) \div 2 \in Nat /\ (d.end - (d.index + bytes)) \div 2 \in Nat
      /\ (d.end - d.index) \div 2 = bytes \div 2 + (d.end - (d.index + bytes)) \div 2
  <2>x. PICK x : x = d.index  OBVIOUS
  <2>n. PICK n : n = d.end  OBVIOUS
  <2>1. x \in Nat /\ x % 2 = 0 /\ n \in Nat /\ n % 2 = 0 /\ x + bytes <= n  BY <1>1, <2>x, <2>n
  <2>2. /\ x \div 2 \in Nat /\ bytes \div 2 \in Nat
        /\ (x + bytes) \div 2 = x \div 2 + bytes \div 2
        /\ (n - x) \div 2 \in Nat /\ (n - (x + bytes)) \div 2 \in Nat
        /\ (n - x) \div 2 = bytes \div 2 + (n - (x + bytes)) \div 2
    BY <2>1, Halves
  <2> QED  BY <2>x, <2>n, <2>2
<1>2. /\ d.index \div 2 \in Nat /\ bytes \div 2 \in Nat /\ Left(d) \in Nat /\ Left(m) \in Nat
      /\ m.index \div 2 = d.index \div 2 + bytes \div 2 /\ Left(d) = bytes \div 2 + Left(m)
  BY <1>h, Zenon DEF IsMoved, Left
<1>3. j.moved \in Nat /\ j.word \in Nat /\ k.moved = j.moved + bytes \div 2  BY DEF JobOK, HasMoved
<1>4. Shows(m, k)
  <2> SUFFICES ASSUME NEW i \in 0 .. Left(m) - 1
               PROVE  m.buf[m.index \div 2 + i] = k.word + k.moved + i
    BY DEF Shows
  <2>n. PICK n : n = bytes \div 2 + i  OBVIOUS
  <2>1. n \in 0 .. Left(d) - 1  BY <1>2, <2>n
  <2>2. d.buf[d.index \div 2 + n] = j.word + j.moved + n  BY <2>1 DEF Reading, Shows
  <2>3. m.index \div 2 + i = d.index \div 2 + n  BY <1>2, <2>n
  <2>4. j.word + j.moved + n = j.word + k.moved + i  BY <1>2, <1>3, <2>n
  <2> QED  BY <2>2, <2>3, <2>4 DEF IsMoved, HasMoved
<1>5. CASE d.func = "read_end" /\ j.total = j.moved + Left(d)
  <2>1. k.total = k.moved + Left(m)  BY <1>2, <1>3, <1>5 DEF HasMoved
  <2> QED  BY <1>4, <1>5, <2>1 DEF Reading, IsMoved, HasMoved
<1>6. CASE d.func = "sector_read" /\ More(d, j, Left(d))
  <2>1. GetSector(m) = GetSector(d) /\ Addressable(m) = Addressable(d) /\ Count(m) = Count(d)
    BY SamePlaces DEF IsMoved, Count
  <2>2. HasBlock(m)  BY <1>6, <2>1 DEF More, HasBlock, IsMoved, SameSetup
  <2>3. /\ k.moved + Left(m) = j.moved + Left(d)
        /\ k.word + k.moved + Left(m) = j.word + j.moved + Left(d)
    BY <1>2, <1>3 DEF HasMoved
  <2>4. More(m, k, Left(m))
    BY <1>6, <2>1, <2>2, <2>3 DEF More, HasMoved
  <2> QED  BY <1>4, <1>6, <2>4 DEF Reading, IsMoved, HasMoved
<1> QED  BY <1>5, <1>6 DEF Reading

(* An answer goes on with the words that follow those moved. *)
LEMMA ReplyingOn ==
  ASSUME NEW d, DriveOK(d), NEW j, JobOK(j), NEW bytes \in Nat, bytes % 2 = 0,
         d.index + bytes <= d.end, NEW m, IsMoved(m, d, bytes),
         NEW k, HasMoved(j, k, bytes), Replying(d, j)
  PROVE  Replying(m, k)
<1>1. d.index \in Nat /\ d.index % 2 = 0 /\ d.end \in Nat /\ d.end % 2 = 0
  BY DEF DriveOK, BlockOK
<1>h. /\ d.index \div 2 \in Nat /\ bytes \div 2 \in Nat
      /\ (d.index + bytes) \div 2 = d.index \div 2 + bytes \div 2
      /\ (d.end - d.index) \div 2 \in Nat /\ (d.end - (d.index + bytes)) \div 2 \in Nat
      /\ (d.end - d.index) \div 2 = bytes \div 2 + (d.end - (d.index + bytes)) \div 2
  <2>x. PICK x : x = d.index  OBVIOUS
  <2>n. PICK n : n = d.end  OBVIOUS
  <2>1. x \in Nat /\ x % 2 = 0 /\ n \in Nat /\ n % 2 = 0 /\ x + bytes <= n  BY <1>1, <2>x, <2>n
  <2>2. /\ x \div 2 \in Nat /\ bytes \div 2 \in Nat
        /\ (x + bytes) \div 2 = x \div 2 + bytes \div 2
        /\ (n - x) \div 2 \in Nat /\ (n - (x + bytes)) \div 2 \in Nat
        /\ (n - x) \div 2 = bytes \div 2 + (n - (x + bytes)) \div 2
    BY <2>1, Halves
  <2> QED  BY <2>x, <2>n, <2>2
<1>2. /\ d.index \div 2 \in Nat /\ bytes \div 2 \in Nat
      /\ m.index \div 2 = d.index \div 2 + bytes \div 2
      /\ (d.end - d.index) \div 2 = bytes \div 2 + (d.end - m.index) \div 2
      /\ (d.end - m.index) \div 2 \in Nat
  BY <1>h, Zenon DEF IsMoved
<1>3. j.moved \in Nat /\ j.word \in Nat /\ k.moved = j.moved + bytes \div 2  BY DEF JobOK, HasMoved
<1>4. d.ibi = d.end /\ Reply(d, j, d.index) /\ d.func = "reply_end"  BY DEF Replying
<1>5. /\ m.kind = d.kind /\ m.status = d.status /\ m.ets = d.ets /\ m.pts = d.pts /\ m.ibi = d.ibi
      /\ m.lba = d.lba /\ m.css = d.css /\ m.buf = d.buf /\ m.func = d.func /\ m.end = d.end
      /\ ByteCountLimit(m) = ByteCountLimit(d)
  BY DEF IsMoved, SameSetup, SamePlace, SamePacket, ByteCountLimit
<1>6. k.moved + (m.ibi - m.index) \div 2 + m.pts \div 2 = k.total
  <2>1. d.pts \div 2 \in Nat  BY DEF DriveOK, PacketOK
  <2>2. j.moved + (d.end - d.index) \div 2 + d.pts \div 2 = j.total  BY <1>4 DEF Reply
  <2>3. k.moved + (d.end - m.index) \div 2 + d.pts \div 2 = j.total
    BY <1>2, <1>3, <2>1, <2>2
  <2> QED  BY <1>4, <1>5, <2>3 DEF HasMoved
<1>7. \A i \in Int : k.word + k.moved + i - m.index \div 2 = j.word + j.moved + i - d.index \div 2
  BY <1>2, <1>3 DEF HasMoved
<1>8. CdHalf \in Int  BY Sizes
<1>9. m.index \div 2 .. CdHalf - 1 \subseteq d.index \div 2 .. CdHalf - 1
  BY <1>2, <1>8
<1>10. j.what = "cd" =>
         /\ \A i \in m.index \div 2 .. CdHalf - 1 : m.buf[i] = k.word + k.moved + i - m.index \div 2
         /\ m.lba * CdHalf = k.word + k.moved + CdHalf - m.index \div 2
  <2> SUFFICES ASSUME j.what = "cd"
               PROVE  /\ \A i \in m.index \div 2 .. CdHalf - 1 :
                           m.buf[i] = k.word + k.moved + i - m.index \div 2
                      /\ m.lba * CdHalf = k.word + k.moved + CdHalf - m.index \div 2
    OBVIOUS
  <2>1. /\ \A i \in d.index \div 2 .. CdHalf - 1 :
             d.buf[i] = j.word + j.moved + i - d.index \div 2
        /\ d.lba * CdHalf = j.word + j.moved + CdHalf - d.index \div 2
    BY <1>4 DEF Reply
  <2> QED  BY <1>5, <1>7, <1>8, <1>9, <2>1
<1>11. Reply(m, k, m.index)  BY <1>4, <1>5, <1>6, <1>10 DEF Reply, HasMoved
<1> QED  BY <1>4, <1>5, <1>11 DEF Replying

(* What ends a transfer: no data, and nothing to be moved.                  *)
IsOff(e, func, status) ==
  DriveOK(e) /\ e.func = func /\ e.index = 0 /\ e.end = 0 /\ e.status = status

(* Every end of a transfer takes the data request back. *)
LEMMA Ends ==
  ASSUME NEW d, DriveOK(d)
  PROVE  /\ IsOff(TransferStop(d), "stop", d.status)
         /\ IsOff(TransferStop2(d), "stop2", d.status \ {"drq"})
         /\ IsOff(IdentifyEnd(d), "stop", {"ready"})
         /\ IsOff(SectorReadEnd(d), "stop", {"ready", "seek"})
<1>1. ASSUME NEW e, IsDrive(e), SameSetup(e, d), SamePlace(e, d), SamePacket(e, d),
             e.nsector = d.nsector, e.io = d.io, e.buf = d.buf, e.index = 0, e.end = 0
      PROVE  DriveOK(e)
  <2>1. RegsOK(e) /\ CountsOK(e) /\ PacketOK(e)
    BY <1>1 DEF DriveOK, SameSetup, SamePlace, SamePacket, RegsOK, CountsOK, PacketOK
  <2>2. BlockOK(e)  BY <1>1, Sizes DEF DriveOK, BlockOK
  <2> QED  BY <1>1, <2>1, <2>2 DEF DriveOK
<1>2. IsOff(TransferStop(d), "stop", d.status)
  <2>e. PICK e : e = TransferStop(d)  OBVIOUS
  <2>1. /\ IsDrive(e) /\ SameSetup(e, d) /\ SamePlace(e, d) /\ SamePacket(e, d)
        /\ e.nsector = d.nsector /\ e.io = d.io /\ e.buf = d.buf /\ e.index = 0 /\ e.end = 0
        /\ e.func = "stop" /\ e.status = d.status
    BY <2>e DEF TransferStop, DriveOK, IsDrive, Fields, SameSetup, SamePlace, SamePacket
  <2> QED  BY <2>e, <2>1, <1>1 DEF IsOff
<1>3. IsOff(TransferStop2(d), "stop2", d.status \ {"drq"})
  <2>e. PICK e : e = TransferStop2(d)  OBVIOUS
  <2>1. /\ IsDrive(e) /\ SameSetup(e, d) /\ SamePlace(e, d) /\ SamePacket(e, d)
        /\ e.nsector = d.nsector /\ e.io = d.io /\ e.buf = d.buf /\ e.index = 0 /\ e.end = 0
        /\ e.func = "stop2" /\ e.status = d.status \ {"drq"}
    BY <2>e DEF TransferStop2, DriveOK, IsDrive, Fields, SameSetup, SamePlace, SamePacket
  <2> QED  BY <2>e, <2>1, <1>1 DEF IsOff
<1>4. IsOff(IdentifyEnd(d), "stop", {"ready"})
  <2>e. PICK e : e = IdentifyEnd(d)  OBVIOUS
  <2>1. /\ IsDrive(e) /\ SameSetup(e, d) /\ SamePlace(e, d) /\ SamePacket(e, d)
        /\ e.nsector = d.nsector /\ e.io = d.io /\ e.buf = d.buf /\ e.index = 0 /\ e.end = 0
        /\ e.func = "stop" /\ e.status = {"ready"}
    BY <2>e DEF IdentifyEnd, TransferStop, DriveOK, IsDrive, Fields, SameSetup, SamePlace,
                SamePacket
  <2> QED  BY <2>e, <2>1, <1>1 DEF IsOff
<1>5. IsOff(SectorReadEnd(d), "stop", {"ready", "seek"})
  <2>e. PICK e : e = SectorReadEnd(d)  OBVIOUS
  <2>1. /\ IsDrive(e) /\ SameSetup(e, d) /\ SamePlace(e, d) /\ SamePacket(e, d)
        /\ e.nsector = d.nsector /\ e.io = d.io /\ e.buf = d.buf /\ e.index = 0 /\ e.end = 0
        /\ e.func = "stop" /\ e.status = {"ready", "seek"}
    BY <2>e DEF SectorReadEnd, TransferStop, DriveOK, IsDrive, Fields, SameSetup, SamePlace,
                SamePacket
  <2> QED  BY <2>e, <2>1, <1>1 DEF IsOff
<1> QED  BY <1>2, <1>3, <1>4, <1>5

(* A sector is read next, or the block device fails.                        *)
LEMMA SectorNext ==
  ASSUME NEW d, DriveOK(d), NEW j, JobOK(j), More(d, j, 0), d.func = "sector_read",
         d.index = d.end, NEW ok \in BOOLEAN, NEW l
  PROVE  /\ DriveOK(SectorRead(d, ok)) /\ Phase(SectorRead(d, ok), j, l)
         /\ InRep(SectorRead(d, ok), j)
<1>e. PICK e : e = SectorRead(d, ok)  OBVIOUS
<1>1. CASE ok = TRUE
  <2>1. IsRead(e, j)  BY <1>e, <1>1, ReadGoesOn
  <2>2. DriveOK(e) /\ Phase(e, j, l)  BY <2>1 DEF IsRead, Phase, Asks
  <2>3. InRep(e, j)  BY <2>1 DEF IsRead, InRep, Reading, Sends
  <2> QED  BY <1>e, <2>2, <2>3
<1>2. CASE ok = FALSE
  <2>1. IsFailed(e, d)  BY <1>e, <1>2, ReadFails DEF More, HasBlock
  <2>2. More(e, j, 0)
    <3>1. GetSector(e) = GetSector(d) /\ Addressable(e) = Addressable(d) /\ Count(e) = Count(d)
      BY <2>1, SamePlaces DEF IsFailed, Count
    <3> QED  BY <2>1, <3>1 DEF More, HasBlock, IsFailed, SameSetup
  <2>3. "drq" \notin e.status /\ "err" \in e.status /\ e.func = "sector_read" /\ e.index = e.end
    BY <2>1 DEF IsFailed, SameBlock
  <2>4. Phase(e, j, l) /\ InRep(e, j)  BY <2>2, <2>3 DEF Phase, InRep, Sends
  <2> QED  BY <1>e, <2>1, <2>4 DEF IsFailed
<1> QED  BY <1>1, <1>2

(* The guest reads words: within the block, at its end, and, with REP INS,  *)
(* none when nothing is left.                                               *)
LEMMA Takes ==
  ASSUME NEW d, DriveOK(d), ~Sends(d), NEW j, JobOK(j), NEW l, Phase(d, j, l),
         NEW bytes \in Nat, bytes % 2 = 0, d.index + bytes <= d.end,
         \/ "drq" \in d.status /\ bytes > 0
         \/ "drq" \notin d.status /\ bytes = 0 /\ InRep(d, j),
         NEW ok \in BOOLEAN, NEW k, HasMoved(j, k, bytes)
  PROVE  /\ DriveOK(Finish(Moved(d, bytes), ok)) /\ Phase(Finish(Moved(d, bytes), ok), k, l)
         /\ InRep(Finish(Moved(d, bytes), ok), k)
<1>m. PICK m : m = Moved(d, bytes)  OBVIOUS
<1>e. PICK e : e = Finish(m, ok)  OBVIOUS
<1>1. IsMoved(m, d, bytes) /\ DriveOK(m)  BY <1>m, Moves
<1>2. JobOK(k) /\ k.what = j.what  BY DEF HasMoved
<1>3. m.func = d.func /\ m.status = d.status /\ m.end = d.end /\ m.index = d.index + bytes
      /\ m.kind = d.kind /\ ByteCountLimit(m) = ByteCountLimit(d) /\ m.ibi = d.ibi
  BY <1>1 DEF IsMoved, SameSetup, SamePlace, SamePacket, ByteCountLimit
<1>4. m.index \in Nat /\ m.end \in Nat /\ d.index \in Nat  BY <1>1 DEF DriveOK, BlockOK
<1>5. Reading(d, j) => Reading(m, k)  BY <1>1, ReadingOn
<1>6. Replying(d, j) => Replying(m, k)  BY <1>1, ReplyingOn
<1>7. Other(d, j) => Other(m, k)  BY <1>2, <1>3 DEF Other
<1>8. "drq" \in d.status => Reading(m, k) \/ Replying(m, k) \/ Other(m, k)
  BY <1>5, <1>6, <1>7 DEF Phase, Asks, Writing, Sends
<1>9. ~Sends(m)  BY <1>3 DEF Sends
<1>10. CASE m.index < m.end
  <2>1. "drq" \in m.status  BY <1>3, <1>4, <1>10 DEF InRep
  <2>2. e = m
    <3>1. ~(m.index >= m.end)  BY <1>4, <1>10
    <3> QED  BY <1>e, <3>1 DEF Finish
  <2>3. Phase(m, k, l)  BY <1>3, <1>8, <1>10, <2>1 DEF Phase, Asks
  <2>4. InRep(m, k)  BY <1>9, <2>1 DEF InRep
  <2> QED  BY <1>m, <1>e, <1>1, <2>2, <2>3, <2>4
<1>11. CASE m.index = m.end
  <2>1. e = EndTransfer(m, ok)  BY <1>e, <1>4, <1>11 DEF Finish
  <2>2. Left(m) = 0  BY <1>4, <1>11 DEF Left
  <2>3. CASE "drq" \in d.status /\ Reading(m, k) /\ m.func = "read_end"
    <3>1. e = SectorReadEnd(m)  BY <2>1, <2>3 DEF EndTransfer
    <3>2. IsOff(e, "stop", {"ready", "seek"})  BY <1>1, <3>1, Ends
    <3>3. k.total = k.moved  BY <2>2, <2>3, <1>2 DEF Reading, JobOK
    <3>4. Complete(k, l)  BY <2>3, <3>3 DEF Complete, Reading
    <3> QED  BY <1>m, <1>e, <3>2, <3>4 DEF IsOff, Phase, InRep, Sends
  <2>4. CASE "drq" \in d.status /\ Reading(m, k) /\ m.func = "sector_read"
    <3>1. e = SectorRead(m, ok)  BY <2>1, <2>4 DEF EndTransfer
    <3>2. More(m, k, 0)  BY <2>2, <2>4 DEF Reading
    <3> QED  BY <1>m, <1>e, <1>1, <1>2, <1>11, <2>4, <3>1, <3>2, SectorNext
  <2>5. CASE "drq" \in d.status /\ Replying(m, k)
    <3>1. e = ReplyEnd(m, ok)  BY <2>1, <2>5 DEF EndTransfer, Replying
    <3>2. Reply(m, k, m.ibi)  BY <1>11, <2>5 DEF Replying
    <3>3. IsReplied(e, k) \/ (Settled(e, k, l) /\ IsOver(e))
      BY <1>1, <1>2, <3>1, <3>2, ReplyGoesOn
    <3>4. CASE IsReplied(e, k)
      <4>1. Phase(e, k, l) /\ InRep(e, k)
        BY <3>4 DEF IsReplied, Phase, Asks, InRep, Replying, Sends
      <4> QED  BY <1>m, <1>e, <3>4, <4>1 DEF IsReplied
    <3>5. CASE Settled(e, k, l) /\ IsOver(e)
      <4>1. Phase(e, k, l) /\ InRep(e, k)  BY <3>5 DEF Settled, IsOver, Phase, InRep, Sends
      <4> QED  BY <1>m, <1>e, <3>5, <4>1 DEF Settled
    <3> QED  BY <3>3, <3>4, <3>5
  <2>6. CASE "drq" \in d.status /\ Other(m, k)
    <3>1. m.func \in {"identify_end", "stop2"} /\ k.what = "none"
      BY <1>9, <2>6 DEF Other, Sends
    <3>2. e = IdentifyEnd(m) \/ e = TransferStop2(m)  BY <2>1, <3>1 DEF EndTransfer
    <3>3. IsOff(e, "stop", {"ready"}) \/ IsOff(e, "stop2", m.status \ {"drq"})
      BY <1>1, <3>2, Ends
    <3> QED  BY <1>m, <1>e, <3>1, <3>3 DEF IsOff, Phase, InRep, Sends
  <2>7. CASE "drq" \notin d.status /\ m.func \in {"stop", "stop2"}
    <3>1. e = TransferStop(m) \/ e = TransferStop2(m)  BY <2>1, <2>7 DEF EndTransfer
    <3>2. IsOff(e, "stop", m.status) \/ IsOff(e, "stop2", m.status \ {"drq"})
      BY <1>1, <3>1, Ends
    <3>3. "drq" \notin e.status /\ ("err" \in e.status <=> "err" \in d.status)
          /\ e.func \in {"stop", "stop2"} /\ e.index = e.end /\ DriveOK(e)
      BY <1>3, <2>7, <3>2 DEF IsOff
    <3>4. k.moved = j.moved /\ k.word = j.word /\ k.total = j.total
      BY <2>7 DEF HasMoved, JobOK
    <3>5. Phase(e, k, l)  BY <1>2, <2>7, <3>3, <3>4 DEF Phase, Complete
    <3>6. InRep(e, k)  BY <3>3 DEF InRep, Sends
    <3> QED  BY <1>m, <1>e, <3>3, <3>5, <3>6
  <2>8. CASE "drq" \notin d.status /\ m.func = "sector_read"
    <3>1. e = SectorRead(m, ok)  BY <2>1, <2>8 DEF EndTransfer
    <3>2. More(d, j, 0) /\ bytes = 0  BY <1>3, <2>8 DEF InRep
    <3>3. More(m, k, 0)
      <4>1. GetSector(m) = GetSector(d) /\ Addressable(m) = Addressable(d) /\ Count(m) = Count(d)
        BY <1>1, SamePlaces DEF IsMoved, Count
      <4>2. HasBlock(m)  BY <1>1, <3>2, <4>1 DEF More, HasBlock, IsMoved, SameSetup
      <4>3. k.moved = j.moved /\ k.word = j.word /\ k.total = j.total
        BY <3>2 DEF HasMoved, JobOK
      <4> QED  BY <1>2, <3>2, <4>1, <4>2, <4>3 DEF More
    <3> QED  BY <1>m, <1>e, <1>1, <1>2, <1>11, <2>8, <3>1, <3>3, SectorNext
  <2>9. \/ "drq" \in d.status /\ Reading(m, k) /\ m.func \in {"read_end", "sector_read"}
        \/ "drq" \in d.status /\ (Replying(m, k) \/ Other(m, k))
        \/ "drq" \notin d.status /\ m.func \in {"stop", "stop2", "sector_read"}
    BY <1>3, <1>8 DEF InRep, Reading
  <2> QED  BY <2>3, <2>4, <2>5, <2>6, <2>7, <2>8, <2>9
<1> QED  BY <1>3, <1>4, <1>10, <1>11

-----------------------------------------------------------------------------
(* Blocks written to the disk.                                              *)
LEMMA WordsGrow ==
  ASSUME NEW w \in Nat, NEW a \in Nat, NEW b \in Nat
  PROVE  Words(w, a) \union Words(w + a, b) = Words(w, a + b)
<1>1. (w .. w + a - 1) \union (w + a .. w + a + b - 1) = w .. w + (a + b) - 1  OBVIOUS
<1>2. \A x : x \in Words(w, a) \union Words(w + a, b)
             <=> \E y \in (w .. w + a - 1) \union (w + a .. w + a + b - 1) : x = <<y, y>>
  BY DEF Words
<1> QED  BY <1>1, <1>2 DEF Words

(* The words of the guest go into the buffer, each at its place.            *)
LEMMA Puts ==
  ASSUME NEW d, DriveOK(d), JobOK(job), NEW l, Writing(d, job, l), NEW bytes \in Nat,
         bytes % 2 = 0, d.index + bytes <= d.end, NEW k, HasMoved(job, k, bytes)
  PROVE  /\ IsDrive(Write(d, bytes)) /\ DriveOK(Write(d, bytes)) /\ Writing(Write(d, bytes), k, l)
         /\ Write(d, bytes).index = d.index + bytes /\ Write(d, bytes).status = d.status
<1>b. PICK b : b = [i \in DOMAIN d.buf |-> IF 2 * i \in d.index .. d.index + bytes - 1
                             THEN job.word + job.moved + i - WordsOf(d.index) ELSE d.buf[i]]
  OBVIOUS
<1>g. PICK g : g = [d EXCEPT !.buf = b]  OBVIOUS
<1>w. PICK w : w = Write(d, bytes)  OBVIOUS
<1>x. PICK x : x = d.index \div 2  OBVIOUS
<1>y. PICK y : y = bytes \div 2  OBVIOUS
<1>s. PICK s : s = GetSector(d) * Half  OBVIOUS
<1>1. /\ IsDrive(g) /\ SameSetup(g, d) /\ SamePlace(g, d) /\ SamePacket(g, d) /\ SameBlock(g, d)
      /\ g.nsector = d.nsector /\ g.status = d.status /\ g.io = d.io /\ g.buf = b
  BY <1>g DEF DriveOK, IsDrive, Fields, SameSetup, SamePlace, SamePacket, SameBlock
<1>2. w = Moved(g, bytes)  BY <1>b, <1>g, <1>w, Zenon DEF Write
<1>3. DOMAIN b = 0 .. Room - 1  BY <1>b DEF DriveOK, BlockOK
<1>4. DriveOK(g)
  <2>1. RegsOK(g) /\ CountsOK(g) /\ PacketOK(g)
    BY <1>1 DEF DriveOK, RegsOK, CountsOK, PacketOK, SameSetup, SamePlace, SamePacket
  <2>2. BlockOK(g)  BY <1>1, <1>3 DEF DriveOK, BlockOK, SameBlock
  <2> QED  BY <1>1, <2>1, <2>2 DEF DriveOK
<1>5. IsMoved(w, g, bytes) /\ DriveOK(w)  BY <1>1, <1>2, <1>4, Moves DEF SameBlock
<1>6. /\ d.index \in Nat /\ d.index % 2 = 0 /\ d.end \in Nat /\ d.end <= 2 * Room /\ Room \in Nat
  BY Sizes DEF DriveOK, BlockOK
<1>7. /\ d.index = 2 * x /\ bytes = 2 * y /\ x \in Nat /\ y \in Nat /\ WordsOf(d.index) = x
      /\ (d.index + bytes) \div 2 = x + y /\ x + y <= Room
  BY <1>x, <1>y, <1>6 DEF WordsOf
<1>8. w.index \div 2 = x + y /\ w.index = d.index + bytes
  BY <1>1, <1>5, <1>7 DEF IsMoved, SameBlock
<1>9. s = job.word + job.moved - x /\ x <= job.moved /\ job.moved \in Nat /\ job.word \in Nat
  BY <1>s, <1>x DEF Writing, JobOK
<1>10. \A i \in 0 .. x + y - 1 : b[i] = s + i
  <2> SUFFICES ASSUME NEW i \in 0 .. x + y - 1 PROVE b[i] = s + i  OBVIOUS
  <2>1. i \in DOMAIN d.buf
    <3>1. i \in 0 .. Room - 1  BY <1>6, <1>7
    <3> QED  BY <3>1 DEF DriveOK, BlockOK
  <2>2. CASE i >= x
    <3>1. 2 * i \in d.index .. d.index + bytes - 1  BY <1>7, <2>2
    <3>2. b[i] = job.word + job.moved + i - x  BY <1>b, <1>7, <2>1, <3>1
    <3> QED  BY <1>7, <1>9, <3>2
  <2>3. CASE i < x
    <3>1. ~(2 * i \in d.index .. d.index + bytes - 1)  BY <1>7, <2>3
    <3>2. b[i] = d.buf[i]  BY <1>b, <2>1, <3>1
    <3>3. i \in 0 .. d.index \div 2 - 1  BY <1>x, <1>7, <2>3
    <3>4. d.buf[i] = GetSector(d) * Half + i  BY <3>3 DEF Writing
    <3> QED  BY <1>s, <3>2, <3>4
  <2> QED  BY <1>7, <2>2, <2>3
<1>11. /\ GetSector(w) = GetSector(d) /\ Addressable(w) = Addressable(d) /\ Count(w) = Count(d)
       /\ NextBlock(w) = NextBlock(d) /\ w.io = d.io /\ w.end = d.end /\ w.func = d.func
       /\ w.kind = d.kind /\ w.req = d.req /\ w.buf = b /\ w.status = d.status
  <2>1. SamePlace(w, d)  BY <1>1, <1>5 DEF IsMoved, SamePlace
  <2>2. GetSector(w) = GetSector(d) /\ Addressable(w) = Addressable(d)  BY <2>1, SamePlaces
  <2> QED  BY <1>1, <1>5, <2>2 DEF IsMoved, SameSetup, SameBlock, Count, NextBlock
<1>12. HasBlock(w)  BY <1>11 DEF HasBlock, Writing
<1>13. k.moved = job.moved + y /\ k.word = job.word /\ k.total = job.total /\ k.what = job.what
  BY <1>y DEF HasMoved
<1>14. k.moved - (x + y) = job.moved - x /\ k.word + k.moved - (x + y) = job.word + job.moved - x
       /\ x + y <= k.moved
  BY <1>7, <1>9, <1>13
<1>15. GetSector(w) * Half = k.word + k.moved - w.index \div 2
  BY <1>s, <1>8, <1>9, <1>11, <1>14
<1>16. k.total = k.moved - w.index \div 2 + Count(w) * Half
  <2>1. job.total = job.moved - x + Count(d) * Half  BY <1>x DEF Writing
  <2> QED  BY <1>8, <1>11, <1>13, <1>14, <2>1
<1>17. l = Words(k.word, k.moved - w.index \div 2)
  BY <1>x, <1>8, <1>13, <1>14 DEF Writing
<1>18. Writing(w, k, l)
  <2>1. w.func = "sector_write" /\ k.what = "write" /\ w.io = NextBlock(w)
        /\ w.end = SectorSize * w.io
    BY <1>11, <1>13 DEF Writing
  <2>2. \A i \in 0 .. w.index \div 2 - 1 : w.buf[i] = GetSector(w) * Half + i
    <3>1. GetSector(w) * Half = s /\ w.buf = b  BY <1>s, <1>11
    <3>2. 0 .. w.index \div 2 - 1 = 0 .. x + y - 1  BY <1>7, <1>8
    <3> QED  BY <1>10, <3>1, <3>2, Zenon
  <2>3. w.index \div 2 <= k.moved  BY <1>8, <1>14
  <2> QED  BY <1>12, <1>15, <1>16, <1>17, <2>1, <2>2, <2>3 DEF Writing
<1> QED  BY <1>w, <1>5, <1>8, <1>11, <1>18 DEF DriveOK

LandedOK(j, l) == (\E n \in 0 .. j.total : l = Words(j.word, n)) /\ (j.what # "write" => l = {})

(* A command that fails changes nothing but the status.                     *)
LEMMA Aborts ==
  ASSUME NEW d, DriveOK(d), NEW e, e = RaiseIrq(AbortCommand(d))
  PROVE  DriveOK(e) /\ e.status = {"ready", "err"}
<1>1. /\ IsDrive(e) /\ SameSetup(e, d) /\ SamePlace(e, d) /\ SameBlock(e, d) /\ SamePacket(e, d)
      /\ e.nsector = d.nsector /\ e.status = {"ready", "err"} /\ e.io = d.io /\ e.buf = d.buf
  BY DEF RaiseIrq, AbortCommand, DriveOK, IsDrive, Fields, SameSetup, SamePlace, SameBlock,
         SamePacket
<1> QED
  BY <1>1 DEF DriveOK, RegsOK, CountsOK, BlockOK, PacketOK, SameSetup, SamePlace, SameBlock,
              SamePacket

(* Within a block the medium does not change.  At its end the block lands,  *)
(* after what is there already, or the block device fails.                  *)
LEMMA Sent ==
  ASSUME NEW d, DriveOK(d), "drq" \in d.status, JobOK(job), NEW l, LandedOK(job, l),
         Writing(d, job, l), NEW bytes \in Nat, bytes % 2 = 0, d.index + bytes <= d.end,
         NEW ok \in BOOLEAN, NEW k, HasMoved(job, k, bytes)
  PROVE  /\ DriveOK(Finish(Write(d, bytes), ok))
         /\ Phase(Finish(Write(d, bytes), ok), k, l \union BlockLands(Write(d, bytes), ok))
         /\ LandedOK(k, l \union BlockLands(Write(d, bytes), ok))
<1>w. PICK w : w = Write(d, bytes)  OBVIOUS
<1>e. PICK e : e = Finish(w, ok)  OBVIOUS
<1>l. PICK l2 : l2 = l \union BlockLands(w, ok)  OBVIOUS
<1>1. DriveOK(w) /\ Writing(w, k, l) /\ w.index = d.index + bytes /\ w.status = d.status
  BY <1>w, Puts
<1>2. w.index \in Nat /\ w.end \in Nat /\ w.index <= w.end  BY <1>1 DEF DriveOK, BlockOK
<1>3. LandedOK(k, l) /\ JobOK(k) /\ k.what = "write" /\ w.func = "sector_write"
  BY <1>1 DEF LandedOK, HasMoved, Writing
<1>4. CASE w.index < w.end
  <2>1. ~(w.index >= w.end)  BY <1>2, <1>4
  <2>2. e = w /\ l2 = l  BY <1>e, <1>l, <2>1 DEF Finish, BlockLands
  <2>3. Phase(w, k, l)  BY <1>1, <1>4 DEF Phase, Asks
  <2> QED  BY <1>w, <1>e, <1>l, <1>1, <1>3, <2>2, <2>3
<1>5. CASE w.index = w.end
  <2>t. PICK t : t = TransferStop(w)  OBVIOUS
  <2>0. w.index >= w.end  BY <1>2, <1>5
  <2>1. e = SectorWritten(w, ok)  BY <1>e, <1>3, <2>0 DEF Finish, EndTransfer
  <2>2. DriveOK(t)  BY <1>1, <2>t, Ends DEF IsOff
  <2>3. CASE ok = FALSE
    <3>1. l2 = l  BY <1>l, <2>3 DEF BlockLands
    <3>2. e = RaiseIrq(AbortCommand(t))  BY <2>1, <2>3, <2>t DEF SectorWritten
    <3>3. DriveOK(e) /\ e.status = {"ready", "err"}  BY <2>2, <3>2, Aborts
    <3>4. Phase(e, k, l2)  BY <3>3 DEF Phase
    <3> QED  BY <1>w, <1>e, <1>l, <1>3, <3>1, <3>3, <3>4
  <2>4. CASE ok = TRUE
    <3>x. PICK x : x = w.index \div 2  OBVIOUS
    <3>s. PICK s : s = GetSector(w) * Half  OBVIOUS
    <3>1. /\ x \in Nat /\ k.moved \in Nat /\ k.word \in Nat /\ x <= k.moved /\ k.total \in Nat
          /\ s = k.word + k.moved - x /\ k.total = k.moved - x + Count(w) * Half
          /\ l = Words(k.word, k.moved - x)
      BY <1>1, <1>2, <1>3, <3>x, <3>s DEF Writing, JobOK
    <3>2. w.io \in 1 .. MaxMult /\ w.io \in Nat /\ w.io <= Count(w) /\ w.io = NextBlock(w)
      BY <1>1, Blocks, Sizes DEF Writing, DriveOK, HasBlock
    <3>3. x = Half * w.io /\ Half * w.io \in Nat
      <4>1. w.io \in 0 .. MaxMult  BY <3>2
      <4>2. WordsOf(SectorSize * w.io) = Half * w.io /\ Half * w.io \in Nat  BY <4>1, BlockSize
      <4>3. w.index = SectorSize * w.io  BY <1>1, <1>5 DEF Writing
      <4> QED  BY <3>x, <4>2, <4>3 DEF WordsOf
    <3>4. Count(w) * Half \in Nat /\ Half * w.io <= Count(w) * Half
      <4>c. PICK c : c = Count(w)  OBVIOUS
      <4>m. PICK m : m = c - w.io  OBVIOUS
      <4>1. c \in Nat  BY <1>1, <4>c, Numbers DEF DriveOK
      <4>2. m \in Nat /\ c = w.io + m  BY <3>2, <4>1, <4>c, <4>m
      <4>3. (w.io + m) * Half = w.io * Half + m * Half  BY <3>2, <4>2, Sizes, Sum
      <4>4. m * Half \in Nat /\ w.io * Half = Half * w.io  BY <3>2, <4>2, Sizes, Product
      <4>5. c * Half = Half * w.io + m * Half  BY <4>2, <4>3, <4>4
      <4> QED  BY <3>3, <4>c, <4>4, <4>5
    <3>5. BlockLands(w, ok) = Words(s, x)
      <4>1. BlockLands(w, ok) = { <<s + i, w.buf[i]>> : i \in 0 .. Half * w.io - 1 }
        <5>1. WordsOf(SectorSize) = Half  BY Sizes
        <5> QED  BY <1>3, <2>0, <2>4, <3>s, <5>1, Zenon DEF BlockLands
      <4>2. \A i \in 0 .. x - 1 : w.buf[i] = s + i  BY <1>1, <3>x, <3>s DEF Writing
      <4>3. BlockLands(w, ok) = { <<s + i, s + i>> : i \in 0 .. x - 1 }  BY <3>3, <4>1, <4>2
      <4>4. s \in Int /\ x \in Nat  BY <3>1
      <4>5. \A y : y \in { <<s + i, s + i>> : i \in 0 .. x - 1 } => y \in Words(s, x)
        <5> SUFFICES ASSUME NEW i \in 0 .. x - 1 PROVE s + i \in s .. s + x - 1  BY DEF Words
        <5> QED  BY <4>4
      <4>6. \A y : y \in Words(s, x) => y \in { <<s + i, s + i>> : i \in 0 .. x - 1 }
        <5> SUFFICES ASSUME NEW y \in s .. s + x - 1
                     PROVE  \E i \in 0 .. x - 1 : y = s + i
          BY DEF Words
        <5>1. y - s \in 0 .. x - 1 /\ y = s + (y - s)  BY <4>4
        <5> QED  BY <5>1
      <4> QED  BY <4>3, <4>5, <4>6
    <3>6. l2 = Words(k.word, k.moved)
      <4>1. k.moved - x \in Nat /\ s = k.word + (k.moved - x) /\ (k.moved - x) + x = k.moved
        BY <3>1
      <4>2. l2 = Words(k.word, k.moved - x) \union Words(k.word + (k.moved - x), x)
        BY <1>l, <3>1, <3>5, <4>1
      <4>3. Words(k.word, k.moved - x) \union Words(k.word + (k.moved - x), x)
              = Words(k.word, (k.moved - x) + x)
        BY <3>1, <4>1, WordsGrow
      <4> QED  BY <4>1, <4>2, <4>3
    <3>7. LandedOK(k, l2)
      <4>1. k.moved \in 0 .. k.total  BY <3>1, <3>3, <3>4
      <4> QED  BY <1>3, <3>6, <4>1 DEF LandedOK
    <3>8. /\ IsDrive(t) /\ SameSetup(t, w) /\ SamePlace(t, w) /\ t.nsector = w.nsector
          /\ t.io = w.io
      BY <1>1, <2>t DEF TransferStop, DriveOK, IsDrive, Fields, SameSetup, SamePlace
    <3>9. /\ GetSector(t) = GetSector(w) /\ Addressable(t) = Addressable(w) /\ Count(t) = Count(w)
          /\ NextBlock(t) = NextBlock(w)
      BY <3>8, SamePlaces DEF Count, NextBlock, SameSetup
    <3>10. HasBlock(t) /\ t.io = NextBlock(t)
      BY <1>1, <3>2, <3>8, <3>9 DEF HasBlock, Writing, SameSetup
    <3>11. /\ GetSector(t) * Half + Half * t.io = k.word + k.moved
           /\ k.total + Half * t.io = k.moved + Count(t) * Half
      <4>1. s + x = k.word + k.moved /\ k.total + x = k.moved + Count(w) * Half
        BY <3>1, <3>4
      <4> QED  BY <3>3, <3>s, <3>8, <3>9, <4>1
    <3>12. \/ IsEnded(SectorWriteDone(t)) /\ Complete(k, l2)
           \/ IsWritten(SectorWriteDone(t), k, l2)
      BY <1>3, <2>2, <3>6, <3>10, <3>11, WriteGoesOn
    <3>13. e = SectorWriteDone(t)  BY <2>1, <2>4, <2>t DEF SectorWritten
    <3>14. DriveOK(e) /\ Phase(e, k, l2)
      BY <3>12, <3>13 DEF IsEnded, IsWritten, Phase, Asks
    <3> QED  BY <1>w, <1>e, <1>l, <3>7, <3>14
  <2> QED  BY <2>3, <2>4
<1> QED  BY <1>2, <1>4, <1>5

-----------------------------------------------------------------------------
(* The commands.                                                            *)
LEMMA NothingMoved ==
  /\ JobOK(NoJob) /\ NoJob.what = "none"
  /\ \A j : JobOK(j) => j.total >= 0 /\ Words(j.word, 0) = {} /\ LandedOK(j, {})
<1>1. \A j : JobOK(j) => j.total >= 0 /\ 0 \in 0 .. j.total /\ Words(j.word, 0) = {}
  BY DEF JobOK, Words
<1>2. \A j : JobOK(j) => LandedOK(j, {})  BY <1>1 DEF LandedOK
<1> QED  BY <1>1, <1>2 DEF NoJob, JobOK

(* A command of the disk that starts no transfer.                           *)
LEMMA Commanded ==
  ASSUME NEW d, DriveOK(d), NEW s, NEW e, e = RaiseIrq([d EXCEPT !.status = s])
  PROVE  DriveOK(e) /\ e.status = s
<1>1. /\ IsDrive(e) /\ SameSetup(e, d) /\ SamePlace(e, d) /\ SameBlock(e, d) /\ SamePacket(e, d)
      /\ e.nsector = d.nsector /\ e.status = s /\ e.io = d.io /\ e.buf = d.buf
  BY DEF RaiseIrq, DriveOK, IsDrive, Fields, SameSetup, SamePlace, SameBlock, SamePacket
<1> QED
  BY <1>1 DEF DriveOK, RegsOK, CountsOK, BlockOK, PacketOK, SameSetup, SamePlace, SameBlock,
              SamePacket

(* IDENTIFY leaves its words to be read and does not touch the address. *)
LEMMA Identifies ==
  ASSUME NEW d, DriveOK(d), NEW s, NEW func, NEW g, g = TransferStart(d, SectorSize, func),
         NEW e, e = RaiseIrq([g EXCEPT !.status = s])
  PROVE  DriveOK(e) /\ e.status = s /\ e.func = func /\ e.index < e.end /\ SamePlace(e, d)
<1>1. /\ IsDrive(e) /\ SameSetup(e, d) /\ SamePlace(e, d) /\ SamePacket(e, d)
      /\ e.nsector = d.nsector /\ e.status = s /\ e.io = d.io /\ e.buf = d.buf
      /\ e.func = func /\ e.index = 0 /\ e.end = SectorSize
  BY DEF RaiseIrq, TransferStart, DriveOK, IsDrive, Fields, SameSetup, SamePlace, SamePacket
<1>2. SectorSize \in Nat /\ SectorSize > 0 /\ SectorSize % 2 = 0 /\ SectorSize <= 2 * Room
  <2>1. 1 \in 0 .. MaxMult  BY Sizes
  <2>2. Half * 1 <= Room  BY <2>1, BlockSize
  <2> QED  BY <2>2, Sizes
<1>3. RegsOK(e) /\ CountsOK(e) /\ PacketOK(e)
  BY <1>1 DEF DriveOK, RegsOK, CountsOK, PacketOK, SameSetup, SamePlace, SamePacket
<1>4. BlockOK(e)  BY <1>1, <1>2 DEF DriveOK, BlockOK
<1> QED  BY <1>1, <1>2, <1>3, <1>4 DEF DriveOK

(* SET MULTIPLE asks for no data. *)
LEMMA SetMults ==
  ASSUME NEW d, DriveOK(d)
  PROVE  DriveOK(SetMult(d)) /\ "drq" \notin SetMult(d).status
<1>e. PICK e : e = SetMult(d)  OBVIOUS
<1>1. CASE d.nsector > MaxMult \/ d.nsector \notin {0, 1, 2, 4, 8}
  <2>1. e = RaiseIrq(AbortCommand(d))  BY <1>e, <1>1, Zenon DEF SetMult
  <2>2. DriveOK(e) /\ e.status = {"ready", "err"}  BY <2>1, Aborts
  <2> QED  BY <1>e, <2>2
<1>2. CASE ~(d.nsector > MaxMult \/ d.nsector \notin {0, 1, 2, 4, 8})
  <2>g. PICK g : g = [d EXCEPT !.mult = d.nsector, !.status = {"ready"}]  OBVIOUS
  <2>1. e = [g EXCEPT !.irq = TRUE]  BY <1>e, <2>g, <1>2, Zenon DEF SetMult, RaiseIrq
  <2>2. /\ IsDrive(g) /\ SamePlace(g, d) /\ SameBlock(g, d) /\ SamePacket(g, d)
        /\ g.nsector = d.nsector /\ g.status = {"ready"} /\ g.io = d.io /\ g.buf = d.buf
        /\ g.mult = d.nsector /\ g.req = d.req
    BY <2>g DEF DriveOK, IsDrive, Fields, SamePlace, SameBlock, SamePacket
  <2>3. d.nsector \in 0 .. MaxMult
    <3>1. d.nsector \in Nat /\ MaxMult \in Nat  BY Sizes, <1>2
    <3> QED  BY <1>2, <3>1
  <2>4. RegsOK(g) /\ BlockOK(g) /\ PacketOK(g)
    BY <2>2 DEF DriveOK, RegsOK, BlockOK, PacketOK, SamePlace, SameBlock, SamePacket
  <2>5. CountsOK(g)  BY <2>2, <2>3 DEF DriveOK, CountsOK
  <2>6. DriveOK(g)  BY <2>2, <2>4, <2>5 DEF DriveOK
  <2>7. IsDrive(e) /\ SameAll(e, g)  BY <2>1, <2>2, OnlyIrq
  <2>8. DriveOK(e) /\ e.status = {"ready"}  BY <2>2, <2>6, <2>7, StillOK DEF SameAll
  <2> QED  BY <1>e, <2>8
<1> QED  BY <1>1, <1>2

(* The commands of a disk that move no sectors. *)
LEMMA DiskCommands ==
  ASSUME NEW d, DriveOK(d), NEW c \in {"IDENTIFY", "RECAL", "READ_NATIVE_MAX", "UNKNOWN", "SETMULT"}
  PROVE  DriveOK(ExecCmd(d, c, TRUE)) /\ Phase(ExecCmd(d, c, TRUE), NoJob, {})
<1>e. PICK e : e = ExecCmd(d, c, TRUE)  OBVIOUS
<1>0. NoJob.what = "none"  BY NothingMoved
<1>1. CASE c = "IDENTIFY"
  <2>s. PICK s : s = {"ready", "seek", "drq"}  OBVIOUS
  <2>g. PICK g : g = TransferStart(d, SectorSize, "identify_end")  OBVIOUS
  <2>1. e = RaiseIrq([g EXCEPT !.status = s])  BY <1>e, <1>1, <2>s, <2>g DEF ExecCmd
  <2>2. DriveOK(e) /\ e.status = s /\ e.func = "identify_end" /\ e.index < e.end
    BY <2>g, <2>1, Identifies
  <2>3. "drq" \in e.status  BY <2>s, <2>2
  <2> QED  BY <1>e, <1>0, <2>2, <2>3 DEF Phase, Asks, Other
<1>2. CASE c = "RECAL"
  <2>1. e = RaiseIrq([d EXCEPT !.status = {"ready", "seek"}])  BY <1>e, <1>2 DEF ExecCmd
  <2>2. DriveOK(e) /\ e.status = {"ready", "seek"}  BY <2>1, Commanded
  <2> QED  BY <1>e, <1>0, <2>2 DEF Phase
<1>3. CASE c = "READ_NATIVE_MAX"
  <2>g. PICK g : g = SetSector(d, NbSectors - 1)  OBVIOUS
  <2>1. e = RaiseIrq([g EXCEPT !.status = {"ready"}])  BY <1>e, <1>3, <2>g DEF ExecCmd
  <2>2. NbSectors - 1 \in Nat
    <3>1. NbSectors \in 1 .. Heads * RegBase * RegBase * RegBase  BY IdeAssumption
    <3> QED  BY <3>1
  <2>3. IsSetSector(g, d, NbSectors - 1)  BY <2>g, <2>2, SetSectors DEF DriveOK
  <2>4. DriveOK(g)
    BY <2>3 DEF IsSetSector, DriveOK, CountsOK, BlockOK, PacketOK, SameSetup, SameBlock, SamePacket
  <2>5. DriveOK(e) /\ e.status = {"ready"}  BY <2>1, <2>4, Commanded
  <2> QED  BY <1>e, <1>0, <2>5 DEF Phase
<1>4. CASE c = "UNKNOWN"
  <2>1. e = RaiseIrq(AbortCommand(d))  BY <1>e, <1>4 DEF ExecCmd
  <2>2. DriveOK(e) /\ e.status = {"ready", "err"}  BY <2>1, Aborts
  <2> QED  BY <1>e, <1>0, <2>2 DEF Phase
<1>5. CASE c = "SETMULT"
  <2>1. e = SetMult(d)  BY <1>e, <1>5 DEF ExecCmd
  <2>2. DriveOK(e) /\ "drq" \notin e.status  BY <2>1, SetMults
  <2> QED  BY <1>e, <1>0, <2>2 DEF Phase
<1> QED  BY <1>1, <1>2, <1>3, <1>4, <1>5

(* A transfer of sectors that the medium has.                               *)
LEMMA TransferBegins ==
  ASSUME NEW d, DriveOK(d), d.kind = "hd", GetSector(d) >= 0,
         GetSector(d) + Count(d) <= Addressable(d),
         NEW c \in {"READ", "WRITE", "MULTREAD", "MULTWRITE"}, NEW ok \in BOOLEAN
  PROVE  /\ JobOK(Started(d, c)) /\ DriveOK(ExecCmd(d, c, ok))
         /\ Phase(ExecCmd(d, c, ok), Started(d, c), {})
<1>e. PICK e : e = ExecCmd(d, c, ok)  OBVIOUS
<1>j. PICK j : j = Started(d, c)  OBVIOUS
<1>1. CASE c \in {"MULTREAD", "MULTWRITE"} /\ d.mult = 0
  <2>1. j = NoJob  BY <1>j, <1>1 DEF Started
  <2>2. e = RaiseIrq(AbortCommand(d))  BY <1>e, <1>1 DEF ExecCmd
  <2>3. DriveOK(e) /\ e.status = {"ready", "err"}  BY <2>2, Aborts
  <2> QED  BY <1>e, <1>j, <2>1, <2>3, NothingMoved DEF Phase
<1>2. CASE c \in {"READ", "WRITE"} \/ d.mult # 0
  <2>r. PICK r : r = IF c \in {"READ", "WRITE"} THEN 1 ELSE d.mult  OBVIOUS
  <2>g. PICK g : g = [d EXCEPT !.req = r]  OBVIOUS
  <2>1. r \in 0 .. MaxMult /\ r > 0  BY <1>2, <2>r, Sizes DEF DriveOK, CountsOK
  <2>2. /\ IsDrive(g) /\ SamePlace(g, d) /\ SameBlock(g, d) /\ SamePacket(g, d)
        /\ g.nsector = d.nsector /\ g.status = d.status /\ g.io = d.io /\ g.buf = d.buf
        /\ g.mult = d.mult /\ g.req = r /\ g.kind = d.kind
    BY <2>g DEF DriveOK, IsDrive, Fields, SamePlace, SameBlock, SamePacket
  <2>3. DriveOK(g)
    BY <2>1, <2>2 DEF DriveOK, RegsOK, CountsOK, BlockOK, PacketOK, SamePlace, SameBlock, SamePacket
  <2>4. GetSector(g) = GetSector(d) /\ Addressable(g) = Addressable(d) /\ Count(g) = Count(d)
    BY <2>2, SamePlaces DEF Count
  <2>5. HasBlock(g)  BY <2>1, <2>2, <2>4 DEF HasBlock
  <2>6. GetSector(d) \in Nat /\ Count(d) \in Nat /\ GetSector(d) * Half \in Nat
        /\ Count(d) * Half \in Nat
    <3>1. GetSector(d) \in Nat /\ Count(d) \in Nat  BY Numbers DEF DriveOK
    <3> QED  BY <3>1, Sizes, Product
  <2>7. /\ JobOK(j) /\ j.word = GetSector(d) * Half /\ j.total = Count(d) * Half /\ j.moved = 0
        /\ j.what = IF c \in {"READ", "MULTREAD"} THEN "read" ELSE "write"
    <3>1. WordsOf(SectorSize) = Half  BY Sizes
    <3>2. j = [what |-> IF c \in {"READ", "MULTREAD"} THEN "read" ELSE "write",
               word |-> GetSector(d) * Half, total |-> Count(d) * Half, moved |-> 0]
      BY <1>2, <1>j, <3>1 DEF Started
    <3> QED  BY <2>6, <3>2 DEF JobOK
  <2>8. GetSector(g) * Half = j.word + j.moved /\ j.total = j.moved + Count(g) * Half
        /\ GetSector(g) * Half = j.word + j.moved + 0 /\ j.total = j.moved + 0 + Count(g) * Half
    BY <2>4, <2>6, <2>7
  <2>9. CASE c \in {"READ", "MULTREAD"}
    <3>1. e = SectorRead(g, ok)
      BY <1>e, <1>2, <2>9, <2>r, <2>g DEF ExecCmd, Multiple
    <3>2. More(g, j, 0)  BY <2>5, <2>7, <2>8, <2>9 DEF More
    <3>3. CASE ok = TRUE
      <4>1. IsRead(e, j)  BY <2>3, <2>7, <3>1, <3>2, <3>3, ReadGoesOn
      <4> QED  BY <1>e, <1>j, <2>7, <4>1 DEF IsRead, Phase, Asks
    <3>4. CASE ok = FALSE
      <4>1. IsFailed(e, g)  BY <2>3, <2>5, <3>1, <3>4, ReadFails DEF HasBlock
      <4> QED  BY <1>e, <1>j, <2>7, <4>1 DEF IsFailed, Phase
    <3> QED  BY <3>3, <3>4
  <2>10. CASE c \in {"WRITE", "MULTWRITE"}
    <3>n. PICK n : n = NextBlock(g)  OBVIOUS
    <3>1. e = SectorWrite(g)
      BY <1>e, <1>2, <2>10, <2>r, <2>g DEF ExecCmd, Multiple
    <3>2. e = [TransferStart([g EXCEPT !.io = n], SectorSize * n, "sector_write")
               EXCEPT !.status = {"ready", "seek", "drq"}]
      BY <3>n, <3>1, Zenon DEF SectorWrite
    <3>3. j.what = "write" /\ {} = Words(j.word, j.moved)
      BY <2>7, <2>10, NothingMoved
    <3>4. IsWritten(e, j, {})
      BY <2>3, <2>5, <2>7, <2>8, <3>n, <3>2, <3>3, WriteStarts
    <3> QED  BY <1>e, <1>j, <2>7, <3>4 DEF IsWritten, Phase, Asks
  <2> QED  BY <2>9, <2>10
<1> QED  BY <1>1, <1>2

(* The signature touches neither the interrupt nor the status. *)
LEMMA Signs ==
  ASSUME NEW d, DriveOK(d)
  PROVE  DriveOK(SetSignature(d)) /\ SetSignature(d).irq = d.irq
         /\ SetSignature(d).status = d.status
<1>n. PICK n : n = IF d.kind = "cd" THEN 1 ELSE 0  OBVIOUS
<1>e. PICK e : e = [d EXCEPT !.head = 0, !.nsector = 1, !.sector = 1, !.lcyl = n, !.hcyl = n]
  OBVIOUS
<1>1. /\ IsDrive(e) /\ SameSetup(e, d) /\ SameBlock(e, d) /\ SamePacket(e, d)
      /\ e.lba_mode = d.lba_mode /\ e.head = 0 /\ e.nsector = 1 /\ e.sector = 1 /\ e.lcyl = n
      /\ e.hcyl = n /\ e.status = d.status /\ e.io = d.io /\ e.buf = d.buf /\ e.irq = d.irq
  BY <1>e DEF DriveOK, IsDrive, Fields, SameSetup, SameBlock, SamePacket
<1>2. RegBase \in Nat /\ RegBase > 1 /\ CountBase \in Nat /\ CountBase > 3 /\ Heads \in Nat
      /\ Heads > 0
  BY IdeAssumption
<1>3. RegsOK(e)  BY <1>n, <1>1, <1>2 DEF DriveOK, RegsOK
<1>4. CountsOK(e)  BY <1>1, <1>2 DEF DriveOK, CountsOK, SameSetup
<1>5. BlockOK(e) /\ PacketOK(e)
  BY <1>1 DEF DriveOK, BlockOK, PacketOK, SameBlock, SamePacket
<1>6. SetSignature(d) = e  BY <1>n, <1>e, Zenon DEF SetSignature
<1> QED  BY <1>1, <1>3, <1>4, <1>5, <1>6 DEF DriveOK

(* The CD-ROM asks for a packet, or has its identity to be read.            *)
LEMMA Requests ==
  ASSUME NEW d, DriveOK(d), "err" \notin d.status, NEW size \in Nat, size > 0, size % 2 = 0,
         size <= 2 * Room, NEW func, NEW g, g = TransferStart2(d, 0, size, func),
         NEW e, e = RaiseIrq(g)
  PROVE  /\ DriveOK(e) /\ "drq" \in e.status /\ e.func = func /\ e.index < e.end
         /\ e.kind = d.kind /\ ByteCountLimit(e) = ByteCountLimit(d)
<1>1. /\ IsDrive(g) /\ SameSetup(g, d) /\ SamePlace(g, d) /\ SamePacket(g, d)
      /\ g.nsector = d.nsector /\ g.status = d.status \union {"drq"} /\ g.io = d.io
      /\ g.buf = d.buf /\ g.func = func /\ g.index = 0 /\ g.end = 0 + size
  BY DEF TransferStart2, DriveOK, IsDrive, Fields, SameSetup, SamePlace, SamePacket
<1>2. IsDrive(e) /\ SameAll(e, g)  BY <1>1, OnlyIrq DEF RaiseIrq
<1>3. RegsOK(g) /\ CountsOK(g) /\ PacketOK(g)
  BY <1>1 DEF DriveOK, RegsOK, CountsOK, PacketOK, SameSetup, SamePlace, SamePacket
<1>4. BlockOK(g)  BY <1>1 DEF DriveOK, BlockOK
<1>5. DriveOK(e)  BY <1>1, <1>2, <1>3, <1>4, StillOK DEF DriveOK
<1>6. ByteCountLimit(e) = ByteCountLimit(d)
  BY <1>1, <1>2 DEF SameAll, SamePlace, ByteCountLimit
<1>7. "drq" \in e.status /\ e.func = func /\ e.index < e.end /\ e.kind = d.kind
  BY <1>1, <1>2 DEF SameAll, SameBlock, SameSetup
<1> QED  BY <1>5, <1>6, <1>7

(* The commands of a CD drive, before any packet. *)
LEMMA CdCommands ==
  ASSUME NEW d, DriveOK(d), d.kind = "cd", ByteCountLimit(d) > 1,
         NEW c \in {"DEVICE_RESET", "PACKET", "PIDENTIFY", "IDENTIFY", "UNKNOWN"}
  PROVE  DriveOK(CdExecCmd(d, c)) /\ Phase(CdExecCmd(d, c), NoJob, {})
<1>e. PICK e : e = CdExecCmd(d, c)  OBVIOUS
<1>0. NoJob.what = "none"  BY NothingMoved
<1>g. PICK g : g = SetSignature(d)  OBVIOUS
<1>1. DriveOK(g)  BY <1>g, Signs
<1>2. CASE c = "DEVICE_RESET"
  <2>1. e = [g EXCEPT !.status = {}]  BY <1>e, <1>2, <1>g DEF CdExecCmd
  <2>2. /\ IsDrive(e) /\ SameSetup(e, g) /\ SamePlace(e, g) /\ SameBlock(e, g) /\ SamePacket(e, g)
        /\ e.nsector = g.nsector /\ e.status = {} /\ e.io = g.io /\ e.buf = g.buf
    BY <1>1, <2>1 DEF DriveOK, IsDrive, Fields, SameSetup, SamePlace, SameBlock, SamePacket
  <2>3. DriveOK(e)
    BY <1>1, <2>2 DEF DriveOK, RegsOK, CountsOK, BlockOK, PacketOK, SameSetup, SamePlace,
                      SameBlock, SamePacket
  <2> QED  BY <1>e, <1>0, <2>2, <2>3 DEF Phase
<1>3. CASE c \in {"PACKET", "PIDENTIFY"}
  <2>n. PICK n : n = IF c = "PACKET" THEN 1 ELSE d.nsector  OBVIOUS
  <2>f. PICK f : f = IF c = "PACKET" THEN "atapi_cmd" ELSE "stop2"  OBVIOUS
  <2>z. PICK size : size = IF c = "PACKET" THEN PacketSize ELSE SectorSize  OBVIOUS
  <2>h. PICK h : h = IF c = "PACKET" THEN [d EXCEPT !.status = {"ready", "seek"}, !.nsector = 1]
                     ELSE [d EXCEPT !.status = {"ready", "seek"}]
    OBVIOUS
  <2>k. PICK k : k = TransferStart2(h, 0, size, f)  OBVIOUS
  <2>1. e = RaiseIrq(k)
    <3>1. CASE c = "PACKET"
      <4>1. k = TransferStart2([d EXCEPT !.status = {"ready", "seek"}, !.nsector = 1],
                               0, PacketSize, "atapi_cmd")
        BY <3>1, <2>f, <2>z, <2>h, <2>k, Zenon
      <4> QED  BY <1>e, <3>1, <4>1 DEF CdExecCmd
    <3>2. CASE c = "PIDENTIFY"
      <4>0. c # "PACKET"  BY <3>2
      <4>1. k = TransferStart2([d EXCEPT !.status = {"ready", "seek"}], 0, SectorSize, "stop2")
        BY <4>0, <2>f, <2>z, <2>h, <2>k, Zenon
      <4> QED  BY <1>e, <3>2, <4>1 DEF CdExecCmd
    <3> QED  BY <1>3, <3>1, <3>2
  <2>2. /\ IsDrive(h) /\ SameSetup(h, d) /\ SamePlace(h, d) /\ SameBlock(h, d) /\ SamePacket(h, d)
        /\ h.nsector = n /\ h.status = {"ready", "seek"} /\ h.io = d.io /\ h.buf = d.buf
    BY <2>n, <2>h DEF DriveOK, IsDrive, Fields, SameSetup, SamePlace, SameBlock, SamePacket
  <2>3. n \in 0 .. CountBase - 1
    <3>1. CountBase \in Nat /\ CountBase > 3  BY IdeAssumption
    <3> QED  BY <2>n, <3>1 DEF DriveOK, CountsOK
  <2>4. DriveOK(h) /\ h.kind = "cd"
    <3>1. RegsOK(h) /\ BlockOK(h) /\ PacketOK(h) /\ h.kind = "cd"
      BY <2>2 DEF DriveOK, RegsOK, BlockOK, PacketOK, SameSetup, SamePlace, SameBlock, SamePacket
    <3>2. CountsOK(h)  BY <2>2, <2>3 DEF DriveOK, CountsOK, SameSetup
    <3> QED  BY <2>2, <3>1, <3>2 DEF DriveOK
  <2>5. ByteCountLimit(h) = ByteCountLimit(d)  BY <2>2 DEF SamePlace, ByteCountLimit
  <2>6. size \in Nat /\ size > 0 /\ size % 2 = 0 /\ size <= 2 * Room
    <3>1. PacketSize \in 1 .. MaxMult * SectorSize /\ PacketSize % 2 = 0  BY IdeAssumption
    <3>2. SectorSize \in Nat /\ SectorSize > 0 /\ SectorSize % 2 = 0 /\ SectorSize <= 2 * Room
      <4>1. 1 \in 0 .. MaxMult  BY Sizes
      <4>2. Half * 1 <= Room  BY <4>1, BlockSize
      <4> QED  BY <4>2, Sizes
    <3> QED  BY <2>z, <3>1, <3>2, Sizes
  <2>7. /\ DriveOK(e) /\ "drq" \in e.status /\ e.func = f /\ e.index < e.end
        /\ e.kind = "cd" /\ ByteCountLimit(e) > 1
    BY <2>k, <2>1, <2>2, <2>4, <2>5, <2>6, Requests
  <2>8. Other(e, NoJob)  BY <1>0, <2>f, <2>7 DEF Other
  <2> QED  BY <1>e, <2>7, <2>8 DEF Phase, Asks
<1>4. CASE c = "IDENTIFY"
  <2>1. e = RaiseIrq(AbortCommand(g))  BY <1>e, <1>4, <1>g DEF CdExecCmd
  <2>2. DriveOK(e) /\ e.status = {"ready", "err"}  BY <1>1, <2>1, Aborts
  <2> QED  BY <1>e, <1>0, <2>2 DEF Phase
<1>5. CASE c = "UNKNOWN"
  <2>1. e = RaiseIrq(AbortCommand(d))  BY <1>e, <1>5 DEF CdExecCmd
  <2>2. DriveOK(e) /\ e.status = {"ready", "err"}  BY <2>1, Aborts
  <2> QED  BY <1>e, <1>0, <2>2 DEF Phase
<1> QED  BY <1>2, <1>3, <1>4, <1>5

-----------------------------------------------------------------------------
(* The inductive invariant.                                                 *)
Attached(d) == DriveOK(d) /\ d.irq = FALSE
RepOK(r) ==
  /\ r = [bytes |-> r.bytes, by |-> r.by]
  /\ r.bytes \in Nat /\ r.bytes % 2 = 0 /\ (r.bytes = 0 => r.by = "string")

IdeInvariant ==
  /\ DOMAIN drives \subseteq 0 .. 1 /\ cur_drive \in DOMAIN drives \union {NoDrive}
  /\ \A n \in DOMAIN drives :
       Attached(drives[n]) /\ (n # cur_drive => "drq" \notin drives[n].status)
  /\ JobOK(job) /\ LandedOK(job, landed) /\ RepOK(rep)
  /\ Selected => Phase(Drv, job, landed) /\ (rep # NoRep => InRep(Drv, job))
  /\ ~Selected => rep = NoRep

(* A handler of the selected drive.                                         *)
LEMMA HandlerKeeps ==
  ASSUME IdeInvariant, Selected, NEW d, DriveOK(d), Handle(d),
         JobOK(job'), LandedOK(job', landed'), RepOK(rep'), Phase(d, job', landed'),
         rep' # NoRep => InRep(d, job')
  PROVE  IdeInvariant'
<1>e. PICK e : e = [d EXCEPT !.irq = FALSE]  OBVIOUS
<1>1. drives' = [drives EXCEPT ![cur_drive] = e] /\ cur_drive' = cur_drive
  BY <1>e DEF Handle
<1>2. cur_drive \in DOMAIN drives  BY DEF IdeInvariant, Selected
<1>3. DOMAIN drives' = DOMAIN drives /\ drives'[cur_drive] = e
      /\ \A n \in DOMAIN drives : n # cur_drive => drives'[n] = drives[n]
  BY <1>1, <1>2
<1>4. IsDrive(e) /\ SameAll(e, d) /\ e.irq = FALSE  BY <1>e, OnlyIrq DEF DriveOK
<1>5. DriveOK(e) /\ Phase(e, job', landed') /\ (rep' # NoRep => InRep(e, job'))
  BY <1>4, StillOK, PhaseKept
<1>6. Drv' = e /\ Selected'  BY <1>1, <1>3 DEF Drv, Selected
<1>7. \A n \in DOMAIN drives' :
        Attached(drives'[n]) /\ (n # cur_drive' => "drq" \notin drives'[n].status)
  BY <1>1, <1>3, <1>4, <1>5 DEF IdeInvariant, Attached
<1> QED  BY <1>1, <1>2, <1>3, <1>5, <1>6, <1>7 DEF IdeInvariant

(* Where no data are requested all may be forgotten.                        *)
LEMMA Forgotten ==
  ASSUME NEW d, "drq" \notin d.status
  PROVE  Phase(d, NoJob, {})
BY NothingMoved DEF Phase

(* The disk either serves a request or refuses it. *)
LEMMA AnswersAre == ASSUME NEW t, NEW ok \in Answers(t) PROVE ok \in BOOLEAN
BY DEF Answers

(* The selected drive is good and in the phase of its command. *)
LEMMA TheDrive ==
  ASSUME IdeInvariant, Selected
  PROVE  cur_drive \in DOMAIN drives /\ DriveOK(Drv) /\ Drv.irq = FALSE /\ Phase(Drv, job, landed)
BY DEF IdeInvariant, Selected, Drv, Attached

(* A new command has moved nothing. *)
LEMMA NewOK ==
  ASSUME NewCommand, rep = NoRep
  PROVE  JobOK(job') /\ LandedOK(job', landed') /\ RepOK(rep') /\ rep' = NoRep
         /\ job' = NoJob /\ landed' = {}
<1>1. JobOK(NoJob) /\ LandedOK(NoJob, {})  BY NothingMoved
<1>2. RepOK(NoRep)  BY DEF RepOK, NoRep
<1> QED  BY <1>1, <1>2 DEF NewCommand

(* The machine begins so. *)
LEMMA InitOK == Init => IdeInvariant
<1> SUFFICES ASSUME Init PROVE IdeInvariant  OBVIOUS
<1>1. PICK kinds \in Channels :
        drives = [n \in {i \in 0 .. 1 : kinds[i] # "none"} |-> Drive(kinds[n])]
  BY DEF Init
<1>2. ASSUME NEW kind PROVE Attached(Drive(kind)) /\ "drq" \notin Drive(kind).status
  <2>b. PICK b : b = [i \in 0 .. WordsOf(MaxMult * SectorSize) - 1 |-> -1]  OBVIOUS
  <2>d. PICK d : d = [kind |-> kind, lba_mode |-> FALSE, head |-> 0, sector |-> 0, lcyl |-> 0,
            hcyl |-> 0, nsector |-> 0, status |-> {"ready", "seek"},
            mult |-> MaxMult, req |-> 0, io |-> 0, irq |-> FALSE,
            func |-> "stop", index |-> 0, end |-> 0, buf |-> b,
            pts |-> 0, ets |-> 0, ibi |-> 0, lba |-> 0, css |-> 0]
    OBVIOUS
  <2>1. WordsOf(MaxMult * SectorSize) = Room  BY Sizes DEF WordsOf
  <2>2. DOMAIN b = 0 .. Room - 1  BY <2>b, <2>1
  <2>3. d = [f \in Fields |-> d[f]]  BY <2>d DEF Fields
  <2>4. RegBase \in Nat /\ RegBase > 1 /\ CountBase \in Nat /\ CountBase > 3 /\ Heads \in Nat
        /\ Heads > 0 /\ MaxMult \in Nat
    BY IdeAssumption
  <2>5. RegsOK(d) /\ CountsOK(d)  BY <2>d, <2>4 DEF RegsOK, CountsOK
  <2>6. BlockOK(d) /\ PacketOK(d)  BY <2>d, <2>2, Sizes DEF BlockOK, PacketOK
  <2>7. DriveOK(d) /\ d.irq = FALSE /\ d.status = {"ready", "seek"}
    BY <2>d, <2>3, <2>5, <2>6 DEF DriveOK, IsDrive
  <2>8. Drive(kind) = IF kind = "cd" THEN [SetSignature(d) EXCEPT !.func = "stop2"] ELSE d
    BY <2>b, <2>d, Zenon DEF Drive
  <2>9. CASE kind = "cd"
    <3>g. PICK g : g = SetSignature(d)  OBVIOUS
    <3>e. PICK e : e = [g EXCEPT !.func = "stop2"]  OBVIOUS
    <3>1. DriveOK(g) /\ g.irq = FALSE /\ g.status = {"ready", "seek"}  BY <2>7, <3>g, Signs
    <3>2. /\ IsDrive(e) /\ SameSetup(e, g) /\ SamePlace(e, g) /\ SamePacket(e, g)
          /\ e.index = g.index /\ e.end = g.end /\ e.nsector = g.nsector /\ e.io = g.io
          /\ e.buf = g.buf /\ e.irq = g.irq /\ e.status = g.status
      BY <3>1, <3>e DEF DriveOK, IsDrive, Fields, SameSetup, SamePlace, SamePacket
    <3>3. DriveOK(e)
      BY <3>1, <3>2 DEF DriveOK, RegsOK, CountsOK, BlockOK, PacketOK, SameSetup, SamePlace,
                        SamePacket
    <3> QED  BY <2>8, <2>9, <3>g, <3>e, <3>1, <3>2, <3>3 DEF Attached
  <2>10. CASE kind # "cd"  BY <2>7, <2>8, <2>10 DEF Attached
  <2> QED  BY <2>9, <2>10
<1>3. /\ DOMAIN drives \subseteq 0 .. 1
      /\ \A n \in DOMAIN drives : Attached(drives[n]) /\ "drq" \notin drives[n].status
  BY <1>1, <1>2
<1>4. JobOK(job) /\ LandedOK(job, landed)  BY NothingMoved DEF Init
<1>5. RepOK(rep)  BY DEF Init, RepOK, NoRep
<1>6. cur_drive = NoDrive /\ rep = NoRep  BY DEF Init
<1> QED  BY <1>3, <1>4, <1>5, <1>6 DEF IdeInvariant, Selected

(* Selecting a drive, which is done when no command is under way. *)
LEMMA SelectDriveOK == IdeInvariant /\ SelectDrive => IdeInvariant'
<1> SUFFICES ASSUME IdeInvariant, SelectDrive PROVE IdeInvariant'  OBVIOUS
<1>0. rep = NoRep /\ Free  BY DEF SelectDrive, Free
<1>1. /\ JobOK(job') /\ LandedOK(job', landed') /\ RepOK(rep') /\ rep' = NoRep
      /\ job' = NoJob /\ landed' = {}
  BY <1>0, NewOK DEF SelectDrive
<1>2. \A n \in DOMAIN drives : Attached(drives[n]) /\ "drq" \notin drives[n].status
  <2>1. Selected => "drq" \notin Drv.status  BY <1>0 DEF Free
  <2>2. ASSUME NEW n \in DOMAIN drives PROVE Attached(drives[n]) /\ "drq" \notin drives[n].status
    <3>1. CASE n = cur_drive /\ Selected  BY <2>1, <3>1 DEF IdeInvariant, Drv
    <3>2. CASE n # cur_drive  BY <3>2 DEF IdeInvariant
    <3>3. CASE ~Selected /\ n = cur_drive
      <4>1. n = NoDrive /\ n \in 0 .. 1  BY <3>3 DEF Selected, IdeInvariant
      <4> QED  BY <4>1 DEF NoDrive
    <3> QED  BY <3>1, <3>2, <3>3
  <2> QED  BY <2>2
<1>3. PICK n \in 0 .. 1 :
        IF n \in DOMAIN drives
        THEN /\ cur_drive' = n
             /\ drives' = [drives EXCEPT ![n] = Select(@, FALSE, 0)]
        ELSE cur_drive' = NoDrive /\ UNCHANGED drives
  BY DEF SelectDrive
<1>4. /\ cur_drive' \in DOMAIN drives' \union {NoDrive} /\ DOMAIN drives' \subseteq 0 .. 1
      /\ \A m \in DOMAIN drives' : Attached(drives'[m]) /\ "drq" \notin drives'[m].status
  <2>1. CASE n \in DOMAIN drives
    <3>d. PICK d : d = drives[n]  OBVIOUS
    <3>e. PICK e : e = Select(d, FALSE, 0)  OBVIOUS
    <3>1. cur_drive' = n /\ drives' = [drives EXCEPT ![n] = e]  BY <1>3, <2>1, <3>d, <3>e
    <3>2. DriveOK(d) /\ d.irq = FALSE /\ "drq" \notin d.status  BY <1>2, <2>1, <3>d DEF Attached
    <3>3. /\ IsDrive(e) /\ SameSetup(e, d) /\ SameBlock(e, d) /\ SamePacket(e, d)
          /\ e.lba_mode = FALSE /\ e.head = 0 /\ e.sector = d.sector /\ e.lcyl = d.lcyl
          /\ e.hcyl = d.hcyl /\ e.nsector = d.nsector /\ e.status = d.status /\ e.io = d.io
          /\ e.buf = d.buf /\ e.irq = d.irq
      BY <3>2, <3>e DEF Select, DriveOK, IsDrive, Fields, SameSetup, SameBlock, SamePacket
    <3>4. RegsOK(e)
      <4>1. Heads \in Nat /\ Heads > 0  BY IdeAssumption
      <4>2. e.lba_mode \in BOOLEAN  BY <3>3
      <4>3. e.head \in 0 .. Heads - 1  BY <3>3, <4>1
      <4> QED  BY <3>2, <3>3, <4>2, <4>3, Zenon DEF DriveOK, RegsOK
    <3>5. DriveOK(e)
      BY <3>2, <3>3, <3>4 DEF DriveOK, CountsOK, BlockOK, PacketOK, SameSetup, SameBlock, SamePacket
    <3>6. Attached(e) /\ "drq" \notin e.status  BY <3>2, <3>3, <3>5 DEF Attached
    <3> QED  BY <1>2, <2>1, <3>1, <3>6 DEF IdeInvariant
  <2>2. CASE n \notin DOMAIN drives  BY <1>2, <1>3, <2>2 DEF IdeInvariant
  <2> QED  BY <2>1, <2>2
<1>5. Selected' => Phase(Drv', job', landed')
  <2> SUFFICES ASSUME Selected' PROVE Phase(Drv', job', landed')  OBVIOUS
  <2>1. "drq" \notin (Drv.status)'  BY <1>4 DEF Selected, Drv
  <2> QED  BY <1>1, <2>1, Forgotten
<1> QED  BY <1>1, <1>4, <1>5 DEF IdeInvariant

(* READ and WRITE, with or without MULTIPLE. *)
LEMMA DiskTransferOK == IdeInvariant /\ DiskTransfer => IdeInvariant'
<1> SUFFICES ASSUME IdeInvariant, DiskTransfer PROVE IdeInvariant'  OBVIOUS
<1>0. rep' = NoRep /\ RepOK(rep') /\ landed' = {} /\ Selected
  BY DEF DiskTransfer, Free, IdeInvariant
<1>x. PICK x : x = Drv  OBVIOUS
<1>1. DriveOK(x) /\ x.kind = "hd"  BY <1>0, <1>x, TheDrive DEF DiskTransfer
<1>2. PICK c \in {"READ", "WRITE", "MULTREAD", "MULTWRITE"}, file \in TaskFiles,
           ok \in Answers("read") :
        LET d == TaskFile(Drv, file)
        IN /\ GetSector(d) >= 0 /\ GetSector(d) + Count(d) <= Addressable(d)
           /\ Handle(ExecCmd(d, c, ok))
           /\ job' = Started(d, c)
  BY Zenon DEF DiskTransfer
<1>d. PICK d : d = TaskFile(x, file)  OBVIOUS
<1>3. /\ GetSector(d) >= 0 /\ GetSector(d) + Count(d) <= Addressable(d)
      /\ Handle(ExecCmd(d, c, ok)) /\ job' = Started(d, c)
  BY <1>x, <1>2, <1>d, Zenon
<1>4. /\ file.lba_mode \in BOOLEAN /\ file.head \in 0 .. Heads - 1
      /\ file.hcyl \in 0 .. RegBase - 1 /\ file.lcyl \in 0 .. RegBase - 1
      /\ file.sector \in 0 .. RegBase - 1 /\ file.nsector \in 0 .. CountBase - 1
  BY IdeAssumption
<1>5. DriveOK(d) /\ d.kind = "hd"
  <2>1. /\ IsDrive(d) /\ SameSetup(d, x) /\ SameBlock(d, x) /\ SamePacket(d, x)
        /\ d.lba_mode = file.lba_mode /\ d.head = file.head /\ d.sector = file.sector
        /\ d.lcyl = file.lcyl /\ d.hcyl = file.hcyl /\ d.nsector = file.nsector
        /\ d.io = x.io /\ d.buf = x.buf
    BY <1>1, <1>d DEF TaskFile, Select, DriveOK, IsDrive, Fields, SameSetup, SameBlock, SamePacket
  <2>2. RegsOK(d)  BY <1>4, <2>1 DEF RegsOK
  <2>3. CountsOK(d)  BY <1>1, <1>4, <2>1 DEF DriveOK, CountsOK, SameSetup
  <2>4. BlockOK(d) /\ PacketOK(d)
    BY <1>1, <2>1 DEF DriveOK, BlockOK, PacketOK, SameBlock, SamePacket
  <2> QED  BY <1>1, <2>1, <2>2, <2>3, <2>4 DEF DriveOK, SameSetup
<1>6. ok \in BOOLEAN  BY <1>2, AnswersAre
<1>7. /\ JobOK(Started(d, c)) /\ DriveOK(ExecCmd(d, c, ok))
      /\ Phase(ExecCmd(d, c, ok), Started(d, c), {})
  BY <1>3, <1>5, <1>6, TransferBegins
<1>8. LandedOK(job', landed')  BY <1>0, <1>3, <1>7, NothingMoved
<1> QED  BY <1>0, <1>3, <1>7, <1>8, HandlerKeeps

(* The other commands of a disk. *)
LEMMA DiskCommandOK == IdeInvariant /\ DiskCommand => IdeInvariant'
<1> SUFFICES ASSUME IdeInvariant, DiskCommand PROVE IdeInvariant'  OBVIOUS
<1>0. rep = NoRep /\ Selected  BY DEF DiskCommand, Free
<1>1. /\ JobOK(job') /\ LandedOK(job', landed') /\ RepOK(rep') /\ rep' = NoRep
      /\ job' = NoJob /\ landed' = {}
  BY <1>0, NewOK DEF DiskCommand
<1>x. PICK x : x = Drv  OBVIOUS
<1>2. DriveOK(x)  BY <1>0, <1>x, TheDrive
<1>3. ASSUME NEW c \in {"IDENTIFY", "RECAL", "READ_NATIVE_MAX", "UNKNOWN", "SETMULT"},
             NEW d, DriveOK(d), Handle(ExecCmd(d, c, TRUE))
      PROVE  IdeInvariant'
  <2>1. DriveOK(ExecCmd(d, c, TRUE)) /\ Phase(ExecCmd(d, c, TRUE), NoJob, {})
    BY <1>3, DiskCommands
  <2> QED  BY <1>0, <1>1, <1>3, <2>1, HandlerKeeps
<1>4. CASE \E c \in {"IDENTIFY", "RECAL", "READ_NATIVE_MAX", "UNKNOWN"} :
             Handle(ExecCmd(Drv, c, TRUE))
  BY <1>2, <1>3, <1>4, <1>x
<1>5. CASE \E n \in 0 .. CountBase - 1 :
              Handle(ExecCmd([Drv EXCEPT !.nsector = n], "SETMULT", TRUE))
  <2>1. PICK n \in 0 .. CountBase - 1 : Handle(ExecCmd([x EXCEPT !.nsector = n], "SETMULT", TRUE))
    BY <1>5, <1>x
  <2>d. PICK d : d = [x EXCEPT !.nsector = n]  OBVIOUS
  <2>2. /\ IsDrive(d) /\ SameSetup(d, x) /\ SamePlace(d, x) /\ SameBlock(d, x) /\ SamePacket(d, x)
        /\ d.nsector = n /\ d.io = x.io /\ d.buf = x.buf
    BY <1>2, <2>d DEF DriveOK, IsDrive, Fields, SameSetup, SamePlace, SameBlock, SamePacket
  <2>3. DriveOK(d)
    BY <1>2, <2>2 DEF DriveOK, RegsOK, CountsOK, BlockOK, PacketOK, SameSetup, SamePlace,
                      SameBlock, SamePacket
  <2> QED  BY <1>3, <2>1, <2>3, <2>d
<1> QED  BY <1>4, <1>5, Zenon DEF DiskCommand

(* The commands of a CD drive. *)
LEMMA CdCommandOK == IdeInvariant /\ CdCommand => IdeInvariant'
<1> SUFFICES ASSUME IdeInvariant, CdCommand PROVE IdeInvariant'  OBVIOUS
<1>0. rep = NoRep /\ Selected  BY DEF CdCommand, Free
<1>1. /\ JobOK(job') /\ LandedOK(job', landed') /\ RepOK(rep') /\ rep' = NoRep
      /\ job' = NoJob /\ landed' = {}
  BY <1>0, NewOK DEF CdCommand
<1>x. PICK x : x = Drv  OBVIOUS
<1>2. DriveOK(x) /\ x.kind = "cd"  BY <1>0, <1>x, TheDrive DEF CdCommand
<1>3. PICK c \in {"DEVICE_RESET", "PACKET", "PIDENTIFY", "IDENTIFY", "UNKNOWN"},
           low \in 0 .. RegBase - 1, high \in 0 .. RegBase - 1 :
        LET d == [Drv EXCEPT !.lcyl = low, !.hcyl = high]
        IN ByteCountLimit(d) > 1 /\ Handle(CdExecCmd(d, c))
  BY Zenon DEF CdCommand
<1>d. PICK d : d = [x EXCEPT !.lcyl = low, !.hcyl = high]  OBVIOUS
<1>4. ByteCountLimit(d) > 1 /\ Handle(CdExecCmd(d, c))  BY <1>x, <1>d, <1>3, Zenon
<1>5. /\ IsDrive(d) /\ SameSetup(d, x) /\ SameBlock(d, x) /\ SamePacket(d, x)
      /\ d.lba_mode = x.lba_mode /\ d.head = x.head /\ d.sector = x.sector /\ d.lcyl = low
      /\ d.hcyl = high /\ d.nsector = x.nsector /\ d.io = x.io /\ d.buf = x.buf
  BY <1>2, <1>d DEF DriveOK, IsDrive, Fields, SameSetup, SameBlock, SamePacket
<1>6. DriveOK(d) /\ d.kind = "cd"
  BY <1>2, <1>5 DEF DriveOK, RegsOK, CountsOK, BlockOK, PacketOK, SameSetup, SameBlock, SamePacket
<1>7. DriveOK(CdExecCmd(d, c)) /\ Phase(CdExecCmd(d, c), NoJob, {})
  BY <1>4, <1>6, CdCommands
<1> QED  BY <1>0, <1>1, <1>4, <1>7, HandlerKeeps

(* The driver sends words: of a sector, or of a packet.                     *)
LEMMA SendOK ==
  ASSUME IdeInvariant, Requested, Sends(Drv), NEW bytes \in Nat, bytes % 2 = 0,
         Drv.index + bytes <= Drv.end, Send1(bytes), UNCHANGED rep
  PROVE  IdeInvariant'
<1>x. PICK x : x = Drv  OBVIOUS
<1>0. /\ Selected /\ rep' = NoRep /\ RepOK(rep') /\ "drq" \in x.status
      /\ JobOK(job) /\ LandedOK(job, landed)
  BY <1>x DEF Requested, IdeInvariant
<1>1. DriveOK(x) /\ Phase(x, job, landed) /\ Sends(x)  BY <1>0, <1>x, TheDrive
<1>2. CASE x.func = "sector_write"
  <2>1. Writing(x, job, landed)
    BY <1>0, <1>1, <1>2 DEF Phase, Asks, Reading, Replying, Other
  <2>2. SendSector(bytes)  BY <1>2, <1>x DEF Send1
  <2>3. PICK ok \in Answers("write") :
          /\ Handle(Finish(Write(x, bytes), ok))
          /\ landed' = landed \union BlockLands(Write(x, bytes), ok)
          /\ job' = [job EXCEPT !.moved = @ + WordsOf(bytes)]
    BY <2>2, <1>x, Zenon DEF SendSector
  <2>4. ok \in BOOLEAN  BY <2>3, AnswersAre
  <2>5. HasMoved(job, job', bytes)  BY <1>0, <2>3, JobMoved
  <2>6. x.index + bytes <= x.end  BY <1>x
  <2>7. /\ DriveOK(Finish(Write(x, bytes), ok))
        /\ Phase(Finish(Write(x, bytes), ok), job', landed')
        /\ LandedOK(job', landed')
    BY <1>0, <1>1, <2>1, <2>3, <2>4, <2>5, <2>6, Sent
  <2>8. JobOK(job')  BY <2>5 DEF HasMoved
  <2> QED  BY <1>0, <2>3, <2>7, <2>8, HandlerKeeps
<1>3. CASE x.func = "atapi_cmd"
  <2>m. PICK m : m = Moved(x, bytes)  OBVIOUS
  <2>1. Other(x, job)  BY <1>0, <1>1, <1>3 DEF Phase, Asks, Reading, Replying, Writing
  <2>2. x.kind = "cd" /\ ByteCountLimit(x) > 1 /\ job.what = "none"  BY <1>3, <2>1 DEF Other
  <2>3. IsMoved(m, x, bytes) /\ DriveOK(m)  BY <1>1, <1>x, <2>m, Moves
  <2>4. m.kind = "cd" /\ ByteCountLimit(m) > 1 /\ m.func = "atapi_cmd" /\ "drq" \in m.status
    BY <1>0, <1>3, <2>2, <2>3 DEF IsMoved, SameSetup, SamePlace, ByteCountLimit
  <2>5. landed = {}  BY <1>0, <2>2 DEF LandedOK
  <2>6. SendPacket(bytes)  BY <1>3, <1>x DEF Send1
  <2>7. CASE m.index < m.end
    <3>1. Handle(m) /\ UNCHANGED <<job, landed>>  BY <2>6, <2>7, <2>m, <1>x DEF SendPacket
    <3>2. Phase(m, job, landed)  BY <2>2, <2>4, <2>7 DEF Phase, Asks, Other
    <3> QED  BY <1>0, <2>3, <3>1, <3>2, HandlerKeeps
  <2>8. CASE ~(m.index < m.end)
    <3>1. PICK p \in Packets, ok \in Answers("read") :
            /\ Handle(AtapiCmd(m, p, ok)) /\ job' = PacketJob(p) /\ UNCHANGED landed
      BY <2>6, <2>8, <2>m, <1>x DEF SendPacket
    <3>2. ok \in BOOLEAN  BY <3>1, AnswersAre
    <3>e. PICK e : e = AtapiCmd(m, p, ok)  OBVIOUS
    <3>3. /\ JobOK(job') /\ job'.what # "write"
          /\ IsReplied(e, job') \/ Settled(e, job', landed')
      BY <2>3, <2>4, <3>1, <3>2, <3>e, PacketRuns
    <3>4. LandedOK(job', landed')  BY <2>5, <3>1, <3>3, NothingMoved
    <3>5. DriveOK(e) /\ Phase(e, job', landed')
      BY <3>3 DEF IsReplied, Settled, Phase, Asks
    <3> QED  BY <1>0, <3>1, <3>e, <3>3, <3>4, <3>5, HandlerKeeps
  <2> QED  BY <2>7, <2>8
<1> QED  BY <1>1, <1>2, <1>3 DEF Sends

(* The driver, or REP INS, takes words: none only when there are none.      *)
LEMMA TakeOK ==
  ASSUME IdeInvariant, Selected, ~Sends(Drv), NEW bytes \in Nat, bytes % 2 = 0,
         Drv.index + bytes <= Drv.end,
         \/ "drq" \in Drv.status /\ bytes > 0
         \/ "drq" \notin Drv.status /\ bytes = 0 /\ rep # NoRep,
         Take(bytes), RepOK(rep')
  PROVE  IdeInvariant'
<1>x. PICK x : x = Drv  OBVIOUS
<1>0. JobOK(job) /\ LandedOK(job, landed) /\ (rep # NoRep => InRep(x, job))
  BY <1>x DEF IdeInvariant
<1>1. DriveOK(x) /\ Phase(x, job, landed) /\ ~Sends(x)  BY <1>x, TheDrive
<1>2. PICK ok \in Answers("read") : Handle(Finish(Moved(x, bytes), ok))  BY <1>x DEF Take
<1>3. ok \in BOOLEAN  BY <1>2, AnswersAre
<1>4. job' = [job EXCEPT !.moved = @ + WordsOf(bytes)] /\ landed' = landed  BY DEF Take
<1>5. HasMoved(job, job', bytes)  BY <1>0, <1>4, JobMoved
<1>6. JobOK(job') /\ LandedOK(job', landed')  BY <1>0, <1>4, <1>5 DEF HasMoved, LandedOK
<1>e. PICK e : e = Finish(Moved(x, bytes), ok)  OBVIOUS
<1>7. x.index + bytes <= x.end  BY <1>x
<1>8. \/ "drq" \in x.status /\ bytes > 0
      \/ "drq" \notin x.status /\ bytes = 0 /\ InRep(x, job)
  BY <1>0, <1>x
<1>9. DriveOK(e) /\ Phase(e, job', landed) /\ InRep(e, job')
  BY <1>0, <1>1, <1>3, <1>5, <1>7, <1>8, <1>e, Takes
<1> QED  BY <1>2, <1>4, <1>6, <1>9, <1>e, HandlerKeeps

(* The bytes that a string instruction moves at once.                       *)
LEMMA StringsOK ==
  ASSUME IdeInvariant, Selected, NEW bytes \in Nat, bytes % 2 = 0
  PROVE  /\ StringBytes(bytes) \in Nat /\ StringBytes(bytes) % 2 = 0
         /\ Drv.index + StringBytes(bytes) <= Drv.end /\ StringBytes(bytes) <= bytes
         /\ bytes > 0 /\ Drv.index < Drv.end => StringBytes(bytes) > 0
         /\ Drv.index = Drv.end => StringBytes(bytes) = 0
<1>i. PICK i : i = Drv.index  OBVIOUS
<1>n. PICK n : n = Drv.end  OBVIOUS
<1>r. PICK r : r = n - i  OBVIOUS
<1>s. PICK s : s = StringBytes(bytes)  OBVIOUS
<1>1. i \in Nat /\ i % 2 = 0 /\ n \in Nat /\ n % 2 = 0 /\ i <= n
  BY <1>i, <1>n, TheDrive DEF DriveOK, BlockOK
<1>2. r \in Nat /\ r % 2 = 0  BY <1>r, <1>1
<1>3. s = Small(bytes, r)  BY <1>i, <1>n, <1>r, <1>s DEF StringBytes
<1>4. s \in Nat /\ s % 2 = 0 /\ s <= r /\ s <= bytes /\ s \in {bytes, r}  BY <1>2, <1>3 DEF Small
<1>5. i + s <= n /\ (bytes > 0 /\ i < n => s > 0) /\ (i = n => s = 0)
  BY <1>1, <1>2, <1>r, <1>4
<1> QED  BY <1>i, <1>n, <1>s, <1>4, <1>5

(* While data is requested there is a word to move. *)
LEMMA RequestedRoom ==
  ASSUME IdeInvariant, Selected, "drq" \in Drv.status
  PROVE  Drv.index < Drv.end /\ Drv.index + 2 <= Drv.end
<1>1. Drv.index < Drv.end  BY TheDrive DEF Phase, Asks
<1>2. /\ Drv.index \in Nat /\ Drv.index % 2 = 0 /\ Drv.end \in Nat /\ Drv.end % 2 = 0
  BY TheDrive DEF DriveOK, BlockOK
<1> QED  BY <1>1, <1>2

(* The sizes of string moves are whole words. *)
LEMMA Strings ==
  /\ \A b \in {2, 4} : b \in Nat /\ b % 2 = 0 /\ b > 0
  /\ \A b \in StringSizes : b \in Nat /\ b % 2 = 0 /\ b > 0
<1>1. StringSizes \subseteq Nat \ {0} /\ \A b \in StringSizes : b % 2 = 0  BY IdeAssumption
<1> QED  BY <1>1

(* One word or two written to the data port. *)
LEMMA DataWriteOK == IdeInvariant /\ DataWrite => IdeInvariant'
<1> SUFFICES ASSUME IdeInvariant, DataWrite PROVE IdeInvariant'  OBVIOUS
<1>1. PICK bytes \in {2, 4} : Drv.index + bytes <= Drv.end /\ Send1(bytes)  BY DEF DataWrite
<1>2. Requested /\ Sends(Drv) /\ UNCHANGED rep  BY DEF DataWrite
<1>3. bytes \in Nat /\ bytes % 2 = 0  BY Strings
<1> QED  BY <1>1, <1>2, <1>3, SendOK

(* A string of words written, as far as the buffer takes it. *)
LEMMA WriteStringOK == IdeInvariant /\ WriteString => IdeInvariant'
<1> SUFFICES ASSUME IdeInvariant, WriteString PROVE IdeInvariant'  OBVIOUS
<1>1. PICK bytes \in StringSizes : Send1(StringBytes(bytes))  BY DEF WriteString
<1>2. Requested /\ Sends(Drv) /\ UNCHANGED rep /\ Selected  BY DEF WriteString, Requested
<1>3. bytes \in Nat /\ bytes % 2 = 0  BY Strings
<1>4. /\ StringBytes(bytes) \in Nat /\ StringBytes(bytes) % 2 = 0
      /\ Drv.index + StringBytes(bytes) <= Drv.end
  BY <1>2, <1>3, StringsOK
<1> QED  BY <1>1, <1>2, <1>4, SendOK

(* One word or two read from the data port. *)
LEMMA DataReadOK == IdeInvariant /\ DataRead => IdeInvariant'
<1> SUFFICES ASSUME IdeInvariant, DataRead PROVE IdeInvariant'  OBVIOUS
<1>1. PICK bytes \in {2, 4} : Drv.index + bytes <= Drv.end /\ Take(bytes)  BY DEF DataRead
<1>2. Selected /\ ~Sends(Drv) /\ rep' = rep /\ "drq" \in Drv.status  BY DEF DataRead, Requested
<1>3. bytes \in Nat /\ bytes % 2 = 0 /\ bytes > 0  BY Strings
<1>4. RepOK(rep')  BY <1>2 DEF IdeInvariant
<1> QED  BY <1>1, <1>2, <1>3, <1>4, TakeOK

(* A string goes on while the block, or the next, has words.                *)
LEMMA RepCallOK ==
  ASSUME IdeInvariant, Selected, ~Sends(Drv), NEW bytes \in Nat, bytes % 2 = 0, bytes > 0,
         "drq" \in Drv.status \/ rep # NoRep, RepCall(bytes)
  PROVE  IdeInvariant'
<1>s. PICK s : s = StringBytes(bytes)  OBVIOUS
<1>1. /\ s \in Nat /\ s % 2 = 0 /\ Drv.index + s <= Drv.end /\ s <= bytes
      /\ (bytes > 0 /\ Drv.index < Drv.end => s > 0) /\ (Drv.index = Drv.end => s = 0)
  BY <1>s, StringsOK
<1>2. /\ Take(s)
      /\ rep' = [bytes |-> bytes - s, by |-> IF s > 0 \/ bytes = 0 THEN "string" ELSE "words"]
  BY <1>s DEF RepCall
<1>3. RepOK(rep')
  <2>1. bytes - s \in Nat /\ (bytes - s) % 2 = 0 /\ (bytes - s = 0 => s > 0)  BY <1>1
  <2> QED  BY <1>2, <2>1 DEF RepOK
<1>4. \/ "drq" \in Drv.status /\ s > 0
      \/ "drq" \notin Drv.status /\ s = 0 /\ rep # NoRep
  <2>1. CASE "drq" \in Drv.status  BY <1>1, <2>1, RequestedRoom
  <2>2. CASE "drq" \notin Drv.status
    <3>1. rep # NoRep  BY <2>2
    <3>2. InRep(Drv, job)  BY <3>1 DEF IdeInvariant
    <3>3. Drv.index = Drv.end  BY <2>2, <3>2 DEF InRep
    <3> QED  BY <1>1, <2>2, <3>1, <3>3
  <2> QED  BY <2>1, <2>2
<1> QED  BY <1>1, <1>2, <1>3, <1>4, TakeOK

(* A string of words read, as far as the buffer has them. *)
LEMMA ReadStringOK == IdeInvariant /\ ReadString => IdeInvariant'
<1> SUFFICES ASSUME IdeInvariant, ReadString PROVE IdeInvariant'  OBVIOUS
<1>1. PICK bytes \in StringSizes : RepCall(bytes)  BY DEF ReadString
<1>2. Selected /\ ~Sends(Drv) /\ "drq" \in Drv.status  BY DEF ReadString, Requested
<1>3. bytes \in Nat /\ bytes % 2 = 0 /\ bytes > 0  BY Strings
<1> QED  BY <1>1, <1>2, <1>3, RepCallOK

(* The words of a string that remain, moved one at a time. *)
LEMMA RepWordOK ==
  ASSUME IdeInvariant, rep # NoRep, RepWord, rep.bytes > 0
  PROVE  IdeInvariant'
<1>0. Selected /\ InRep(Drv, job)  BY DEF IdeInvariant
<1>1. rep.bytes \in Nat /\ rep.bytes % 2 = 0 /\ rep = [bytes |-> rep.bytes, by |-> rep.by]
  BY DEF IdeInvariant, RepOK
<1>2. RepOK(rep')
  <2>1. CASE rep.bytes = 2
    <3>1. rep' = NoRep  BY <2>1 DEF RepWord
    <3> QED  BY <3>1 DEF RepOK, NoRep
  <2>2. CASE rep.bytes # 2
    <3>1. rep' = [rep EXCEPT !.bytes = @ - 2]  BY <2>2 DEF RepWord
    <3>2. rep' = [bytes |-> rep.bytes - 2, by |-> rep.by]  BY <1>1, <3>1
    <3>3. rep.bytes - 2 \in Nat /\ rep.bytes - 2 # 0 /\ (rep.bytes - 2) % 2 = 0  BY <1>1, <2>2
    <3> QED  BY <3>2, <3>3 DEF RepOK
  <2> QED  BY <2>1, <2>2
<1>3. ~Sends(Drv) /\ ("drq" \notin Drv.status => Drv.index = Drv.end)  BY <1>0 DEF InRep
<1>4. Drv.index \in Nat /\ Drv.end \in Nat  BY <1>0, TheDrive DEF DriveOK, BlockOK
<1>5. CASE Drv.index + 2 <= Drv.end
  <2>1. Take(2)  BY <1>5 DEF RepWord
  <2>2. "drq" \in Drv.status  BY <1>3, <1>4, <1>5
  <2>3. 2 \in Nat /\ 2 % 2 = 0 /\ 2 > 0  OBVIOUS
  <2> QED  BY <1>0, <1>2, <1>3, <1>5, <2>1, <2>2, <2>3, TakeOK
<1>6. CASE ~(Drv.index + 2 <= Drv.end)
  <2>1. UNCHANGED <<drives, cur_drive, job, landed>>  BY <1>6 DEF RepWord
  <2> QED  BY <1>0, <1>2, <2>1 DEF IdeInvariant, Selected, Drv
<1> QED  BY <1>5, <1>6

(* A string that goes on after the block has ended. *)
LEMMA RepOKs == IdeInvariant /\ Rep => IdeInvariant'
<1> SUFFICES ASSUME IdeInvariant, Rep PROVE IdeInvariant'  OBVIOUS
<1>0. rep # NoRep /\ Selected /\ InRep(Drv, job)  BY DEF Rep, IdeInvariant
<1>1. rep.bytes \in Nat /\ rep.bytes % 2 = 0 /\ rep.bytes > 0
  <2>1. RepOK(rep)  BY DEF IdeInvariant
  <2>2. rep.bytes # 0  BY <1>0, <2>1 DEF RepOK, NoRep
  <2> QED  BY <2>1, <2>2 DEF RepOK
<1>2. ~Sends(Drv)  BY <1>0 DEF InRep
<1>3. CASE rep.by = "string"
  <2>1. RepCall(rep.bytes)  BY <1>3 DEF Rep
  <2> QED  BY <1>0, <1>1, <1>2, <2>1, RepCallOK
<1>4. CASE rep.by # "string"
  <2>1. RepWord  BY <1>4 DEF Rep
  <2> QED  BY <1>0, <1>1, <2>1, RepWordOK
<1> QED  BY <1>3, <1>4

(* Reading the status takes the interrupt back. *)
LEMMA StatusReadOK == IdeInvariant /\ StatusRead => IdeInvariant'
BY DEF StatusRead, IdeInvariant, Selected, Drv

(* Writing the control register, which may reset the drives. *)
LEMMA CmdWriteOK == IdeInvariant /\ CmdWrite => IdeInvariant'
<1> SUFFICES ASSUME IdeInvariant, CmdWrite PROVE IdeInvariant'  OBVIOUS
<1>0. rep = NoRep /\ cur_drive' = cur_drive  BY DEF CmdWrite
<1>1. ASSUME NEW d, Attached(d)
      PROVE  /\ Attached(ResetBegins(d)) /\ "drq" \notin ResetBegins(d).status
             /\ Attached(ResetEnds(d)) /\ "drq" \notin ResetEnds(d).status
  <2>1. ASSUME NEW s, NEW e, e = [d EXCEPT !.status = s] PROVE Attached(e) /\ e.status = s
    <3>1. /\ IsDrive(e) /\ SameSetup(e, d) /\ SamePlace(e, d) /\ SameBlock(e, d)
          /\ SamePacket(e, d) /\ e.nsector = d.nsector /\ e.status = s /\ e.io = d.io
          /\ e.buf = d.buf /\ e.irq = d.irq
      BY <1>1, <2>1 DEF Attached, DriveOK, IsDrive, Fields, SameSetup, SamePlace, SameBlock,
                        SamePacket
    <3> QED
      BY <1>1, <3>1 DEF Attached, DriveOK, RegsOK, CountsOK, BlockOK, PacketOK, SameSetup,
                        SamePlace, SameBlock, SamePacket
  <2>2. Attached(ResetBegins(d)) /\ ResetBegins(d).status = {"busy", "seek"}
    BY <2>1 DEF ResetBegins
  <2>e. PICK e : e = [d EXCEPT !.status = {"ready", "seek"}]  OBVIOUS
  <2>3. Attached(e) /\ e.status = {"ready", "seek"}  BY <2>1, <2>e
  <2>4. ResetEnds(d) = SetSignature(e)  BY <2>e DEF ResetEnds
  <2>5. Attached(ResetEnds(d)) /\ ResetEnds(d).status = {"ready", "seek"}
    BY <2>3, <2>4, Signs DEF Attached
  <2> QED  BY <2>2, <2>5
<1>2. \/ /\ \/ drives' = [n \in DOMAIN drives |-> ResetBegins(drives[n])]
            \/ drives' = [n \in DOMAIN drives |-> ResetEnds(drives[n])]
         /\ NewCommand
      \/ UNCHANGED <<drives, job, landed, rep>>
  BY DEF CmdWrite
<1>3. CASE UNCHANGED <<drives, job, landed, rep>>
  BY <1>0, <1>3 DEF IdeInvariant, Selected, Drv
<1>4. CASE /\ \/ drives' = [n \in DOMAIN drives |-> ResetBegins(drives[n])]
              \/ drives' = [n \in DOMAIN drives |-> ResetEnds(drives[n])]
           /\ NewCommand
  <2>1. /\ JobOK(job') /\ LandedOK(job', landed') /\ RepOK(rep') /\ rep' = NoRep
        /\ job' = NoJob /\ landed' = {}
    BY <1>0, <1>4, NewOK
  <2>2. /\ DOMAIN drives' = DOMAIN drives
        /\ \A n \in DOMAIN drives : drives'[n] \in {ResetBegins(drives[n]), ResetEnds(drives[n])}
    BY <1>4
  <2>3. \A n \in DOMAIN drives' : Attached(drives'[n]) /\ "drq" \notin drives'[n].status
    BY <1>1, <2>2 DEF IdeInvariant
  <2>4. Selected' => Phase(Drv', job', landed')
    <3> SUFFICES ASSUME Selected' PROVE Phase(Drv', job', landed')  OBVIOUS
    <3>1. cur_drive' \in DOMAIN drives'  BY <1>0, <2>2 DEF Selected, IdeInvariant
    <3>2. "drq" \notin (Drv.status)'  BY <2>3, <3>1 DEF Drv
    <3> QED  BY <2>1, <3>2, Forgotten
  <2> QED  BY <1>0, <2>1, <2>2, <2>3, <2>4 DEF IdeInvariant
<1> QED  BY <1>2, <1>3, <1>4

-----------------------------------------------------------------------------
(* The theorems.                                                            *)
LEMMA Step == IdeInvariant /\ [Next]_ideVars => IdeInvariant'
<1>1. IdeInvariant /\ DataPort => IdeInvariant'
  BY DataWriteOK, DataReadOK, ReadStringOK, WriteStringOK, RepOKs DEF DataPort
<1>2. IdeInvariant /\ UNCHANGED ideVars => IdeInvariant'
  BY DEF ideVars, IdeInvariant, Selected, Drv
<1> QED
  BY <1>1, <1>2, SelectDriveOK, DiskTransferOK, DiskCommandOK, CdCommandOK, StatusReadOK,
     CmdWriteOK
     DEF Next

(* The inductive invariant holds in every state.                            *)
LEMMA Always == Spec => []IdeInvariant
<1>1. Init => IdeInvariant  BY InitOK
<1>2. IdeInvariant /\ [Next]_ideVars => IdeInvariant'  BY Step
<1> QED  BY <1>1, <1>2, PTL DEF Spec

(* What is left in the block is what the guest reads next.                  *)
LEMMA NextWord ==
  ASSUME IdeInvariant, Selected, job.what \in {"read", "cd"}, "drq" \in Drv.status
  PROVE  Drv.buf[WordsOf(Drv.index)] = job.word + job.moved
<1>x. PICK x : x = Drv  OBVIOUS
<1>i. PICK i : i = x.index \div 2  OBVIOUS
<1>1. DriveOK(x) /\ Phase(x, job, landed)  BY <1>x, TheDrive
<1>2. /\ x.index < x.end /\ x.index \in Nat /\ x.index % 2 = 0 /\ x.end \in Nat /\ x.end % 2 = 0
  BY <1>1, <1>x DEF Phase, Asks, DriveOK, BlockOK
<1>3. i \in Nat /\ WordsOf(x.index) = i /\ x.index = 2 * i  BY <1>i, <1>2 DEF WordsOf
<1>4. job.word \in Nat /\ job.moved \in Nat  BY DEF IdeInvariant, JobOK
<1>5. Reading(x, job) \/ Replying(x, job)
  BY <1>1, <1>x DEF Phase, Asks, Writing, Other
<1>6. CASE Reading(x, job)
  <2>1. 0 \in 0 .. Left(x) - 1  BY <1>2 DEF Left
  <2>2. x.buf[i + 0] = job.word + job.moved + 0  BY <1>6, <1>i, <2>1 DEF Reading, Shows
  <2> QED  BY <1>x, <1>3, <1>4, <2>2
<1>7. CASE Replying(x, job)
  <2>1. /\ job.what = "cd" /\ x.ibi = x.end /\ x.ibi <= CdSize
        /\ \A k \in i .. CdHalf - 1 : x.buf[k] = job.word + job.moved + k - i
    BY <1>7, <1>i DEF Replying, Reply
  <2>2. CdSize = 2 * CdHalf /\ CdHalf \in Nat  BY Sizes
  <2>3. i \in i .. CdHalf - 1  BY <1>2, <1>3, <2>1, <2>2
  <2>4. x.buf[i] = job.word + job.moved + i - i  BY <2>1, <2>3
  <2> QED  BY <1>x, <1>3, <1>4, <2>4
<1> QED  BY <1>5, <1>6, <1>7

(* WordsRight: within the bounds of every buffer, the data port gives the   *)
(* guest the words it asked for one after the other, and puts those it      *)
(* writes where they are meant for.                                         *)
THEOREM Moving == Spec => []WordsRight
<1>1. IdeInvariant => TypeOK
  <2> SUFFICES ASSUME IdeInvariant PROVE TypeOK  OBVIOUS
  <2>1. cur_drive \in DOMAIN drives \union {NoDrive}  BY DEF IdeInvariant
  <2>2. ASSUME NEW n \in DOMAIN drives, NEW d, d = drives[n]
        PROVE  /\ d.sector \in 0 .. RegBase - 1 /\ d.lcyl \in 0 .. RegBase - 1
               /\ d.hcyl \in 0 .. RegBase - 1 /\ d.head \in 0 .. Heads - 1
               /\ d.nsector \in 0 .. CountBase - 1 /\ d.io \in 0 .. MaxMult
               /\ 0 <= d.index /\ d.index <= d.end /\ WordsOf(d.end) <= Cardinality(DOMAIN d.buf)
               /\ ~d.irq /\ d.pts >= 0 /\ d.ets >= 0
    <3>1. DriveOK(d) /\ d.irq = FALSE  BY <2>2 DEF IdeInvariant, Attached
    <3>2. Cardinality(DOMAIN d.buf) = Room
      <4>1. 0 \in Int /\ Room - 1 \in Int  BY Sizes
      <4>2. Cardinality(0 .. Room - 1) = IF 0 > Room - 1 THEN 0 ELSE (Room - 1) - 0 + 1
        BY <4>1, FS_Interval
      <4>3. DOMAIN d.buf = 0 .. Room - 1  BY <3>1 DEF DriveOK, BlockOK
      <4> QED  BY <4>2, <4>3, Sizes
    <3>3. WordsOf(d.end) <= Room  BY <3>1, Sizes DEF DriveOK, BlockOK, WordsOf
    <3> QED
      BY <3>1, <3>2, <3>3 DEF DriveOK, RegsOK, CountsOK, BlockOK, PacketOK
  <2> QED  BY <2>1, <2>2, Zenon DEF TypeOK
<1>2. IdeInvariant => RequestMeansRoom
  <2> SUFFICES ASSUME IdeInvariant, Selected, "drq" \in Drv.status
               PROVE  Drv.index + 2 <= Drv.end
    BY DEF RequestMeansRoom
  <2> QED  BY RequestedRoom
<1>3. IdeInvariant => RightWord  BY NextWord DEF RightWord
<1>4. IdeInvariant => WritesLand
  <2> SUFFICES ASSUME IdeInvariant, NEW p \in landed
               PROVE  p[1] = p[2] /\ p[1] \in job.word .. job.word + job.total - 1
    BY DEF WritesLand
  <2>1. PICK n \in 0 .. job.total : landed = Words(job.word, n)  BY DEF IdeInvariant, LandedOK
  <2>2. PICK y \in job.word .. job.word + n - 1 : p = <<y, y>>  BY <2>1 DEF Words
  <2>3. job.word \in Nat /\ job.total \in Nat  BY DEF IdeInvariant, JobOK
  <2> QED  BY <2>1, <2>2, <2>3
<1>5. IdeInvariant => WordsRight  BY <1>1, <1>2, <1>3, <1>4 DEF WordsRight
<1> QED  BY <1>5, Always, PTL

(* A run of n words has n words. *)
LEMMA Counted ==
  ASSUME NEW w \in Nat, NEW n \in Nat
  PROVE  Cardinality(Words(w, n)) = n
<1>s. PICK S : S = w .. w + n - 1  OBVIOUS
<1>f. PICK f : f = [x \in S |-> <<x, x>>]  OBVIOUS
<1>1. IsFiniteSet(S) /\ Cardinality(S) = n
  <2>1. w \in Int /\ w + n - 1 \in Int  OBVIOUS
  <2>2. /\ IsFiniteSet(w .. w + n - 1)
        /\ Cardinality(w .. w + n - 1) = IF w > w + n - 1 THEN 0 ELSE (w + n - 1) - w + 1
    BY <2>1, FS_Interval
  <2>3. (IF w > w + n - 1 THEN 0 ELSE (w + n - 1) - w + 1) = n  OBVIOUS
  <2> QED  BY <1>s, <2>2, <2>3
<1>2. f \in Bijection(S, Words(w, n))
  <2>1. f \in [S -> Words(w, n)]  BY <1>s, <1>f DEF Words
  <2>2. \A x, y \in S : f[x] = f[y] => x = y  BY <1>f
  <2>3. \A p \in Words(w, n) : \E x \in S : f[x] = p  BY <1>s, <1>f DEF Words
  <2> QED  BY <2>1, <2>2, <2>3, Fun_IsBij
<1>3. ExistsBijection(S, Words(w, n))  BY <1>2 DEF ExistsBijection
<1>4. Cardinality(Words(w, n)) = Cardinality(S)  BY <1>1, <1>3, FS_Bijection
<1> QED  BY <1>1, <1>4

(* DoneMeansDone: a command that ended without an error has moved all words *)
(* that were asked for, and those of a write are on the medium.             *)
THEOREM Ended == Spec => []DoneMeansDone
<1>1. IdeInvariant => DoneMeansDone
  <2> SUFFICES ASSUME IdeInvariant, Selected, job.what # "none",
                      {"drq", "err"} \cap Drv.status = {}
               PROVE  /\ job.moved = job.total
                      /\ job.what = "write" => Cardinality(landed) = job.total
    BY DEF DoneMeansDone
  <2>1. "drq" \notin Drv.status /\ "err" \notin Drv.status  OBVIOUS
  <2>2. Complete(job, landed)  BY <2>1 DEF IdeInvariant, Phase
  <2>3. job.word \in Nat /\ job.total \in Nat  BY DEF IdeInvariant, JobOK
  <2> QED  BY <2>2, <2>3, Counted DEF Complete
<1> QED  BY <1>1, Always, PTL
=============================================================================
