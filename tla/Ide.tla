------------------------------- MODULE Ide ---------------------------------
(***************************************************************************)
(* One IDE channel (ide.c) with at most two drives, hard disks or ATAPI    *)
(* CD-ROMs, and the guest's driver.  A handler is a function from drive    *)
(* records to drive records; its field irq tells that ide_set_irq was      *)
(* called.  Sizes are in bytes and shrunk by the constants: RegBase is the *)
(* 256 of an 8-bit register, CountBase the 256 that a count of 0 means.    *)
(* What a buffer or the medium holds is abstracted to word addresses: word *)
(* w of the medium carries the value w.                                    *)
(*                                                                         *)
(* The driver follows the protocol in this much: it changes the task file  *)
(* and gives commands only while no data are requested, names sectors of   *)
(* the medium, moves data in the direction of the command and, but for     *)
(* string instructions, only while data are requested.  It may reset the   *)
(* channel at any time.                                                    *)
(***************************************************************************)
EXTENDS Integers, FiniteSets

CONSTANTS
  Channels,     \* what may be attached: "hd", "cd" or "none" for each drive number
  SectorSize,   \* 512
  CdSize,       \* 2048, MaxMult * SectorSize; RawSize, the sector that cannot be read, is 2352
  PacketSize,   \* ATAPI_PACKET_SIZE
  MaxMult,      \* MAX_MULT_SECTORS
  RegBase, CountBase,
  Heads, Sectors, NbSectors,   \* geometry and size of a disk
  CdSectors,    \* size of a CD
  TaskFiles,    \* what the driver writes to ports 2 to 6
  Controls,     \* what it writes to the control port: subsets of {"reset", "disable_irq"}
  Lengths,      \* lengths of ATAPI replies
  CdCounts,     \* how many sectors a packet may ask for
  StringSizes,  \* how many bytes a string instruction may ask for
  Faults        \* which transfers the block device may fail: {"read", "write"}

(* Registers hold what a drive can count, the buffer a sector of a CD, and   *)
(* what goes through the data port comes in words: a driver that asks for   *)
(* a reply asks for whole words.                                            *)
ASSUME IdeAssumption ==
  /\ Channels \subseteq [0 .. 1 -> {"hd", "cd", "none"}]
  /\ MaxMult \in Nat \ {0} /\ SectorSize \in Nat \ {0} /\ SectorSize % 2 = 0
  /\ CdSize \in 1 .. MaxMult * SectorSize /\ CdSize % 2 = 0
  /\ PacketSize \in 1 .. MaxMult * SectorSize /\ PacketSize % 2 = 0
  /\ Lengths \subseteq {n \in 0 .. MaxMult * SectorSize : n % 2 = 0}
  /\ CdCounts \subseteq Nat
  /\ StringSizes \subseteq Nat \ {0} /\ \A n \in StringSizes : n % 2 = 0
  /\ RegBase \in Nat /\ RegBase > 1 /\ CountBase \in Nat /\ CountBase > 3
  /\ Heads \in Nat \ {0} /\ Sectors \in 1 .. RegBase - 1 /\ CdSectors \in Nat
  /\ NbSectors \in 1 .. Heads * RegBase * RegBase * RegBase
  /\ TaskFiles \subseteq
       [lba_mode : BOOLEAN, head : 0 .. Heads - 1, hcyl : 0 .. RegBase - 1,
        lcyl : 0 .. RegBase - 1, sector : 0 .. RegBase - 1, nsector : 0 .. CountBase - 1]

VARIABLES
  drives,       \* the attached drives, by number 0 or 1 (the error register, which
                \* only the guest reads, is left out)
  cur_drive,    \* a drive's number, or NoDrive
  ide_cmd,      \* the control port: a subset of {"reset", "disable_irq"}
  ide_irq,      \* level of the interrupt line
  job,          \* what the driver's last command asked for, and the words moved
  landed,       \* <<word, value>>: what that command has written to the medium
  rep           \* a REP INS under way: bytes left, and whether by strings or words

ideVars == <<drives, cur_drive, ide_cmd, ide_irq, job, landed, rep>>

RawSize == CdSize + 1
WordsOf(bytes) == bytes \div 2
Small(a, b) == IF a <= b THEN a ELSE b
NoDrive == -1
NoRep == [bytes |-> 0, by |-> "string"]
NoJob == [what |-> "none", word |-> 0, total |-> 0, moved |-> 0]

-----------------------------------------------------------------------------
(* The task file. *)

SetSignature(d) ==
  [d EXCEPT !.head = 0, !.nsector = 1, !.sector = 1,
            !.lcyl = IF d.kind = "cd" THEN 1 ELSE 0,
            !.hcyl = IF d.kind = "cd" THEN 1 ELSE 0]

AbortCommand(d) == [d EXCEPT !.status = {"ready", "err"}]

RaiseIrq(d) == [d EXCEPT !.irq = TRUE]

(* start and stop serve the disk; start2 and stop2, the CD-ROM, also keep  *)
(* the data request in the status.                                         *)
TransferStart(d, size, func) == [d EXCEPT !.func = func, !.index = 0, !.end = size]
TransferStop(d) == [d EXCEPT !.func = "stop", !.index = 0, !.end = 0]

TransferStart2(d, off, size, func) ==
  [d EXCEPT !.func = func, !.index = off, !.end = off + size,
            !.status = IF "err" \in @ THEN @ ELSE @ \union {"drq"}]
TransferStop2(d) ==
  [d EXCEPT !.func = "stop2", !.index = 0, !.end = 0, !.status = @ \ {"drq"}]

GetSector(d) ==
  IF d.lba_mode
  THEN ((d.head * RegBase + d.hcyl) * RegBase + d.lcyl) * RegBase + d.sector
  ELSE (d.hcyl * RegBase + d.lcyl) * Heads * Sectors + d.head * Sectors + d.sector - 1

(* Mutated: no carry from the low to the high byte of the cylinder. *)
SetSectorNoCarry(d, n) ==
  IF d.lba_mode
  THEN [d EXCEPT !.head = (n \div (RegBase * RegBase * RegBase)) % Heads,
                 !.lcyl = (n \div RegBase) % RegBase, !.sector = n % RegBase]
  ELSE [d EXCEPT !.lcyl = (n \div (Heads * Sectors)) % RegBase,
                 !.head = (n % (Heads * Sectors)) \div Sectors,
                 !.sector = ((n % (Heads * Sectors)) % Sectors) + 1]

SetSector(d, n) ==
  IF d.lba_mode
  THEN [d EXCEPT !.head = (n \div (RegBase * RegBase * RegBase)) % Heads,
                 !.hcyl = (n \div (RegBase * RegBase)) % RegBase,
                 !.lcyl = (n \div RegBase) % RegBase,
                 !.sector = n % RegBase]
  ELSE [d EXCEPT !.hcyl = (n \div (Heads * Sectors * RegBase)) % RegBase,
                 !.lcyl = (n \div (Heads * Sectors)) % RegBase,
                 !.head = (n % (Heads * Sectors)) \div Sectors,
                 !.sector = ((n % (Heads * Sectors)) % Sectors) + 1]

-----------------------------------------------------------------------------
(* The hard disk: blocks of at most req sectors.  ok tells that the block  *)
(* device did its transfer; it always answers at once.                     *)

(* What a read of n sectors leaves in the buffer. *)
Fill(d, bytes, word) ==
  [d EXCEPT !.buf = [i \in DOMAIN @ |-> IF i < WordsOf(bytes) THEN word + i ELSE @[i]]]

NextBlock(d) == Small(IF d.nsector = 0 THEN CountBase ELSE d.nsector, d.req)

Advance(d) ==
  LET moved == SetSector(d, GetSector(d) + d.io)
  IN [moved EXCEPT !.nsector = (d.nsector - d.io) % CountBase]

(* Mutated: a read is over one sector early. *)
SectorReadDoneEarly(d) ==
  LET a == Advance(d)
      func == IF a.nsector <= 1 THEN "read_end" ELSE "sector_read"
  IN [RaiseIrq(TransferStart(a, SectorSize * d.io, func))
      EXCEPT !.status = {"ready", "seek", "drq"}]

SectorReadDone(d) ==
  LET a == Advance(d)
      func == IF a.nsector = 0 THEN "read_end" ELSE "sector_read"
  IN [RaiseIrq(TransferStart(a, SectorSize * d.io, func))
      EXCEPT !.status = {"ready", "seek", "drq"}]

SectorRead(d, ok) ==
  LET n == NextBlock(d)
      e == [d EXCEPT !.io = n]
  IN IF ok
     THEN SectorReadDone(Fill(e, SectorSize * n, GetSector(d) * WordsOf(SectorSize)))
     ELSE RaiseIrq(AbortCommand(e))

(* Mutated: data are still requested after the last block. *)
SectorReadEndStill(d) == TransferStop(d)

SectorReadEnd(d) ==
  TransferStop([d EXCEPT !.status = {"ready", "seek"}])

SectorWriteDone(d) ==
  LET a == Advance(d)
      n == NextBlock(a)
  IN RaiseIrq(IF a.nsector = 0
              THEN [a EXCEPT !.status = {"ready", "seek"}]
              ELSE [TransferStart([a EXCEPT !.io = n], SectorSize * n, "sector_write")
                    EXCEPT !.status = {"ready", "seek", "drq"}])

SectorWritten(d, ok) ==
  IF ok THEN SectorWriteDone(TransferStop(d)) ELSE RaiseIrq(AbortCommand(TransferStop(d)))

SectorWrite(d) ==
  LET n == NextBlock(d)
  IN [TransferStart([d EXCEPT !.io = n], SectorSize * n, "sector_write")
      EXCEPT !.status = {"ready", "seek", "drq"}]

IdentifyEnd(d) == [TransferStop(d) EXCEPT !.status = {"ready"}]

SetMult(d) ==
  RaiseIrq(IF d.nsector > MaxMult \/ d.nsector \notin {0, 1, 2, 4, 8}
           THEN AbortCommand(d)
           ELSE [d EXCEPT !.mult = d.nsector, !.status = {"ready"}])

Multiple(d) == [d EXCEPT !.req = d.mult]

ExecCmd(d, command, ok) ==
  CASE command = "IDENTIFY" ->
         RaiseIrq([TransferStart(d, SectorSize, "identify_end")
                   EXCEPT !.status = {"ready", "seek", "drq"}])
    [] command = "RECAL" ->
         RaiseIrq([d EXCEPT !.status = {"ready", "seek"}])
    [] command = "SETMULT" -> SetMult(d)
    [] command = "READ" -> SectorRead([d EXCEPT !.req = 1], ok)
    [] command = "WRITE" -> SectorWrite([d EXCEPT !.req = 1])
    [] command = "MULTREAD" /\ d.mult # 0 -> SectorRead(Multiple(d), ok)
    [] command = "MULTWRITE" /\ d.mult # 0 -> SectorWrite(Multiple(d))
    [] command = "READ_NATIVE_MAX" ->
         RaiseIrq([SetSector(d, NbSectors - 1) EXCEPT !.status = {"ready"}])
    [] OTHER -> RaiseIrq(AbortCommand(d))

-----------------------------------------------------------------------------
(* The CD-ROM.  nsector is the interrupt reason: 1 a command, 2 data, 3 done. *)

CmdOk(d) ==
  RaiseIrq([d EXCEPT !.status = {"ready", "seek"}, !.nsector = 3])

CmdError(d) ==
  RaiseIrq([d EXCEPT !.status = {"ready", "err"}, !.nsector = 3])

(* The limit that the driver put into the cylinder registers. *)
ByteCountLimit(d) ==
  LET limit == d.lcyl + RegBase * d.hcyl
  IN IF limit = RegBase * RegBase - 1 THEN limit - 1 ELSE limit

(* One chunk: packet_transfer_size, elementary_transfer_size and           *)
(* io_buffer_index count it as sent before the guest has read it.          *)
Send(d, size) ==
  [TransferStart2(d, d.ibi, size, "reply_end")
   EXCEPT !.pts = @ - size, !.ets = @ - size, !.ibi = @ + size]

(* What is left of a transfer announced before, not past the sector. *)
Continue(d) == Send(d, Small(d.css - d.ibi, d.ets))

(* A transfer to announce: its length goes into the cylinder registers. *)
Announce(d) ==
  LET limit == ByteCountLimit(d)
      size == IF d.pts > limit THEN limit - (limit % 2) ELSE d.pts
      chunk == IF d.lba = -1 THEN size ELSE Small(size, d.css - d.ibi)
      told == [d EXCEPT !.nsector = 2, !.ets = size,
                        !.lcyl = size % RegBase, !.hcyl = (size \div RegBase) % RegBase]
  IN RaiseIrq(Send(told, chunk))

NeedsSector(d) == d.lba # -1 /\ d.ibi >= d.css

ReplyEnd(d, ok) ==
  IF d.pts <= 0
  THEN RaiseIrq([TransferStop2(d) EXCEPT !.status = {"ready", "seek"}, !.nsector = 3])
  ELSE IF NeedsSector(d) /\ ~(ok /\ d.css = CdSize)
  THEN CmdError(TransferStop2(d))
  ELSE LET e == IF NeedsSector(d)
                THEN [Fill(d, CdSize, d.lba * WordsOf(CdSize)) EXCEPT !.lba = @ + 1, !.ibi = 0]
                ELSE d
       IN IF e.ets > 0 THEN Continue(e) ELSE Announce(e)

CmdReply(d, size) ==
  ReplyEnd([d EXCEPT !.lba = -1, !.pts = size, !.ets = 0, !.ibi = 0,
                     !.status = {"ready", "seek"}], TRUE)

CmdRead(d, lba, count, size, ok) ==
  ReplyEnd([d EXCEPT !.lba = lba, !.pts = count * size, !.ets = 0, !.ibi = size,
                     !.css = size, !.status = {"ready", "seek"}], ok)

(* The packets: the commands that answer with data differ in its length,   *)
(* the others in whether they succeed.                                     *)
AtapiCmd(d, p, ok) ==
  CASE p.op = "REFUSED" -> CmdError(d)
    [] p.op \in {"READ", "READ_RAW"} /\ p.count > 0 ->
         CmdRead(d, p.lba, p.count, IF p.op = "READ" THEN CdSize ELSE RawSize, ok)
    [] p.op = "REPLY" -> CmdReply(d, p.size)
    [] OTHER -> CmdOk(d)

CdExecCmd(d, command) ==
  CASE command = "DEVICE_RESET" -> [SetSignature(d) EXCEPT !.status = {}]
    [] command = "PACKET" ->
         RaiseIrq(TransferStart2([d EXCEPT !.status = {"ready", "seek"}, !.nsector = 1],
                                 0, PacketSize, "atapi_cmd"))
    [] command = "PIDENTIFY" ->
         RaiseIrq(TransferStart2([d EXCEPT !.status = {"ready", "seek"}],
                                 0, SectorSize, "stop2"))
    [] command \in {"IDENTIFY", "READ"} -> RaiseIrq(AbortCommand(SetSignature(d)))
    [] OTHER -> RaiseIrq(AbortCommand(d))

-----------------------------------------------------------------------------
(* end_transfer_func, called when the last byte of a block has moved; for *)
(* ide_atapi_cmd, that of a packet, see SendPacket.                        *)
EndTransfer(d, ok) ==
  CASE d.func = "stop" -> TransferStop(d)
    [] d.func = "stop2" -> TransferStop2(d)
    [] d.func = "sector_read" -> SectorRead(d, ok)
    [] d.func = "read_end" -> SectorReadEnd(d)
    [] d.func = "sector_write" -> SectorWritten(d, ok)
    [] d.func = "identify_end" -> IdentifyEnd(d)
    [] d.func = "reply_end" -> ReplyEnd(d, ok)

Drive(kind) ==
  LET d == [kind |-> kind, lba_mode |-> FALSE, head |-> 0, sector |-> 0, lcyl |-> 0,
            hcyl |-> 0, nsector |-> 0, status |-> {"ready", "seek"},
            mult |-> MaxMult, req |-> 0, io |-> 0, irq |-> FALSE,
            func |-> "stop", index |-> 0, end |-> 0,
            buf |-> [i \in 0 .. WordsOf(MaxMult * SectorSize) - 1 |-> -1],
            pts |-> 0, ets |-> 0, ibi |-> 0, lba |-> 0, css |-> 0]
  IN IF kind = "cd" THEN [SetSignature(d) EXCEPT !.func = "stop2"] ELSE d

Init ==
  /\ \E kinds \in Channels :
       drives = [n \in {i \in 0 .. 1 : kinds[i] # "none"} |-> Drive(kinds[n])]
  /\ cur_drive = NoDrive /\ ide_cmd = {} /\ ide_irq = FALSE
  /\ job = NoJob /\ landed = {} /\ rep = NoRep

-----------------------------------------------------------------------------
(* The ports.  A handler of the selected drive: ide_set_irq raises the     *)
(* line unless the guest has disabled the interrupt, and then it is        *)
(* forgotten.                                                              *)
Handle(d) ==
  /\ drives' = [drives EXCEPT ![cur_drive] = [d EXCEPT !.irq = FALSE]]
  /\ ide_irq' = (ide_irq \/ (d.irq /\ "disable_irq" \notin ide_cmd))
  /\ UNCHANGED <<cur_drive, ide_cmd>>

Drv == drives[cur_drive]
Selected == cur_drive # NoDrive
(* The driver has read the status, which lowers the line, and seen whether  *)
(* data are requested or it may go on to another command.                   *)
Requested == Selected /\ rep = NoRep /\ ~ide_irq /\ "drq" \in Drv.status
Free == rep = NoRep /\ ~ide_irq /\ (Selected => {"drq", "busy"} \cap Drv.status = {})
NewCommand == job' = NoJob /\ landed' = {} /\ UNCHANGED rep
(* The answers of the block device to a transfer. *)
Answers(transfer) == IF transfer \in Faults THEN BOOLEAN ELSE {TRUE}

(* Port 6.  Selecting a drive that is not attached leaves none. *)
Select(d, lba, h) == [d EXCEPT !.lba_mode = lba, !.head = h]
SelectDrive ==
  /\ Free /\ NewCommand
  /\ \E n \in 0 .. 1 :
       IF n \in DOMAIN drives
       THEN /\ cur_drive' = n
            /\ drives' = [drives EXCEPT ![n] = Select(@, FALSE, 0)]
       ELSE cur_drive' = NoDrive /\ UNCHANGED drives
  /\ UNCHANGED <<ide_cmd, ide_irq>>

(* Ports 2 to 6, which the driver writes one after the other before a       *)
(* command: nothing can come between.                                       *)
TaskFile(d, file) ==
  [Select(d, file.lba_mode, file.head)
   EXCEPT !.nsector = file.nsector, !.sector = file.sector, !.lcyl = file.lcyl, !.hcyl = file.hcyl]

(* The sectors that the address mode can name. *)
Addressable(d) ==
  IF d.lba_mode THEN NbSectors ELSE Small(NbSectors, Heads * Sectors * RegBase * RegBase)
Count(d) == IF d.nsector = 0 THEN CountBase ELSE d.nsector

(* The transfer a command begins. *)
Started(d, command) ==
  IF command \in {"READ", "WRITE"} \/ (command \in {"MULTREAD", "MULTWRITE"} /\ d.mult # 0)
  THEN [what |-> IF command \in {"READ", "MULTREAD"} THEN "read" ELSE "write",
        word |-> GetSector(d) * WordsOf(SectorSize),
        total |-> Count(d) * WordsOf(SectorSize), moved |-> 0]
  ELSE NoJob

(* Port 7 of a disk: a transfer of sectors of the medium. *)
DiskTransfer ==
  /\ Selected /\ Free /\ Drv.kind = "hd"
  /\ \E c \in {"READ", "WRITE", "MULTREAD", "MULTWRITE"}, file \in TaskFiles, ok \in Answers("read") :
       LET d == TaskFile(Drv, file)
       IN /\ GetSector(d) >= 0 /\ GetSector(d) + Count(d) <= Addressable(d)
          /\ Handle(ExecCmd(d, c, ok))
          /\ job' = Started(d, c)
  /\ landed' = {} /\ UNCHANGED rep

DiskCommand ==
  /\ Selected /\ Free /\ NewCommand /\ Drv.kind = "hd"
  /\ \/ \E c \in {"IDENTIFY", "RECAL", "READ_NATIVE_MAX", "UNKNOWN"} : Handle(ExecCmd(Drv, c, TRUE))
     \/ \E n \in 0 .. CountBase - 1 : Handle(ExecCmd([Drv EXCEPT !.nsector = n], "SETMULT", TRUE))

(* Port 7 of a CD-ROM.  The driver has put a usable limit into the cylinder *)
(* registers.                                                               *)
CdCommand ==
  /\ Selected /\ Free /\ NewCommand /\ Drv.kind = "cd"
  /\ \E c \in {"DEVICE_RESET", "PACKET", "PIDENTIFY", "IDENTIFY", "UNKNOWN"},
        low \in 0 .. RegBase - 1, high \in 0 .. RegBase - 1 :
       LET d == [Drv EXCEPT !.lcyl = low, !.hcyl = high]
       IN /\ ByteCountLimit(d) > 1
          /\ Handle(CdExecCmd(d, c))

-----------------------------------------------------------------------------
(* The data port.  The driver writes packets and the sectors of a write     *)
(* command, and reads the rest.                                             *)
Sends(d) == d.func \in {"sector_write", "atapi_cmd"}

(* The packet that its last word completes. *)
Packets ==
  [op : {"REFUSED", "ACCEPTED"}]
    \union [op : {"REPLY"}, size : Lengths]
    \union [op : {"READ", "READ_RAW"}, lba : 0 .. CdSectors - 1, count : CdCounts]

PacketJob(p) ==
  CASE p.op = "READ" -> [what |-> "cd", word |-> p.lba * WordsOf(CdSize),
                         total |-> p.count * WordsOf(CdSize), moved |-> 0]
    [] p.op = "REPLY" -> [what |-> "reply", word |-> 0, total |-> WordsOf(p.size), moved |-> 0]
    [] OTHER -> NoJob

Moved(d, bytes) == [d EXCEPT !.index = @ + bytes]

(* end_transfer_func, when nothing of the block is left, with its effect on *)
(* the medium: the block lands at the position in the task file.            *)
Finish(d, ok) == IF d.index >= d.end THEN EndTransfer(d, ok) ELSE d
BlockLands(d, ok) ==
  IF d.index >= d.end /\ d.func = "sector_write" /\ ok
  THEN { <<GetSector(d) * WordsOf(SectorSize) + i, d.buf[i]>> : i \in 0 .. WordsOf(SectorSize) * d.io - 1 }
  ELSE {}

(* A word or two to the port: ide_data_writew, ide_data_writel, or a string *)
(* of them.  The value written to a medium is the address it is meant for.  *)
Write(d, bytes) ==
  Moved([d EXCEPT !.buf = [i \in DOMAIN @ |->
                             IF 2 * i \in d.index .. d.index + bytes - 1
                             THEN job.word + job.moved + i - WordsOf(d.index) ELSE @[i]]], bytes)

SendSector(bytes) ==
  \E ok \in Answers("write") :
    LET d == Write(Drv, bytes)
    IN /\ Handle(Finish(d, ok))
       /\ landed' = landed \union BlockLands(d, ok)
       /\ job' = [job EXCEPT !.moved = @ + WordsOf(bytes)]

SendPacket(bytes) ==
  LET d == Moved(Drv, bytes)
  IN IF d.index < d.end
     THEN Handle(d) /\ UNCHANGED <<job, landed>>
     ELSE \E p \in Packets, ok \in Answers("read") :
            /\ Handle(AtapiCmd(d, p, ok))
            /\ job' = PacketJob(p)
            /\ UNCHANGED landed

Send1(bytes) == IF Drv.func = "atapi_cmd" THEN SendPacket(bytes) ELSE SendSector(bytes)

(* ide_data_writew and ide_data_writel, for 2 and 4 bytes. *)
DataWrite ==
  /\ Requested /\ Sends(Drv)
  /\ \E bytes \in {2, 4} : Drv.index + bytes <= Drv.end /\ Send1(bytes)
  /\ UNCHANGED rep

(* What a read of the port does to the drive. *)
Take(bytes) ==
  /\ \E ok \in Answers("read") : Handle(Finish(Moved(Drv, bytes), ok))
  /\ job' = [job EXCEPT !.moved = @ + WordsOf(bytes)]
  /\ UNCHANGED landed

DataRead ==
  /\ Requested /\ ~Sends(Drv)
  /\ \E bytes \in {2, 4} : Drv.index + bytes <= Drv.end /\ Take(bytes)
  /\ UNCHANGED rep

(* ide_data_write_string: as much as is left of the block. *)
StringBytes(bytes) == Small(bytes, Drv.end - Drv.index)

WriteString ==
  /\ Requested /\ Sends(Drv)
  /\ \E bytes \in StringSizes : Send1(StringBytes(bytes))
  /\ UNCHANGED rep

(* REP INS may ask for more than the block has: the processor then calls    *)
(* ide_data_read_string again, which runs the callback even when nothing is *)
(* left, and once that returns 0 reads word by word.                        *)
RepCall(bytes) ==
  /\ Take(StringBytes(bytes))
  /\ rep' = [bytes |-> bytes - StringBytes(bytes),
             by |-> IF StringBytes(bytes) > 0 \/ bytes = 0 THEN "string" ELSE "words"]

RepWord ==
  /\ IF Drv.index + 2 <= Drv.end THEN Take(2)
     ELSE UNCHANGED <<drives, cur_drive, ide_cmd, ide_irq, job, landed>>
  /\ rep' = IF rep.bytes = 2 THEN NoRep ELSE [rep EXCEPT !.bytes = @ - 2]

ReadString ==
  /\ Requested /\ ~Sends(Drv)
  /\ \E bytes \in StringSizes : RepCall(bytes)

Rep ==
  /\ rep # NoRep
  /\ IF rep.by = "string" THEN RepCall(rep.bytes) ELSE RepWord

-----------------------------------------------------------------------------
(* Port 7 read lowers the line; the alternate status does not. *)
StatusRead ==
  /\ Selected /\ rep = NoRep /\ ide_irq
  /\ ide_irq' = FALSE
  /\ UNCHANGED <<drives, cur_drive, ide_cmd, job, landed, rep>>

(* The control port.  Both drives are reset, at the two edges of the bit;   *)
(* the transfer that was under way stays where it is.                       *)
ResetBegins(d) == [d EXCEPT !.status = {"busy", "seek"}]
ResetEnds(d) == SetSignature([d EXCEPT !.status = {"ready", "seek"}])

CmdWrite ==
  /\ rep = NoRep
  /\ \E c \in Controls :
       /\ c # ide_cmd
       /\ ide_cmd' = c
       /\ \/ /\ "reset" \in c \ ide_cmd
             /\ drives' = [n \in DOMAIN drives |-> ResetBegins(drives[n])]
             /\ NewCommand
          \/ /\ "reset" \in ide_cmd \ c
             /\ drives' = [n \in DOMAIN drives |-> ResetEnds(drives[n])]
             /\ NewCommand
          \/ /\ c \ {"disable_irq"} = ide_cmd \ {"disable_irq"}
             /\ UNCHANGED <<drives, job, landed, rep>>
  /\ UNCHANGED <<cur_drive, ide_irq>>

DataPort == DataWrite \/ DataRead \/ ReadString \/ WriteString \/ Rep
Next ==
  \/ SelectDrive
  \/ DiskTransfer \/ DiskCommand \/ CdCommand
  \/ DataPort
  \/ StatusRead \/ CmdWrite

(* The driver goes on reading the status and moving data. *)
Spec ==
  /\ Init /\ [][Next]_ideVars
  /\ WF_ideVars(DataPort) /\ WF_ideVars(StatusRead)

-----------------------------------------------------------------------------
(* The buffer bounds, the registers and the flags of every drive. *)
TypeOK ==
  /\ cur_drive \in DOMAIN drives \union {NoDrive}
  /\ \A n \in DOMAIN drives :
       LET d == drives[n]
       IN /\ d.sector \in 0 .. RegBase - 1 /\ d.lcyl \in 0 .. RegBase - 1
          /\ d.hcyl \in 0 .. RegBase - 1 /\ d.head \in 0 .. Heads - 1
          /\ d.nsector \in 0 .. CountBase - 1 /\ d.io \in 0 .. MaxMult
          /\ 0 <= d.index /\ d.index <= d.end /\ WordsOf(d.end) <= Cardinality(DOMAIN d.buf)
          /\ ~d.irq /\ d.pts >= 0 /\ d.ets >= 0

(* When data are requested a word can be moved. *)
RequestMeansRoom == (Selected /\ "drq" \in Drv.status) => Drv.index + 2 <= Drv.end

(* Every word that the guest reads is the next word of what it asked for,   *)
(* whatever blocks, chunks and announcements the transfer is cut into.      *)
RightWord ==
  (Selected /\ job.what \in {"read", "cd"} /\ "drq" \in Drv.status)
    => Drv.buf[WordsOf(Drv.index)] = job.word + job.moved

(* A write puts each word of the guest at the place it was meant for, and   *)
(* nothing outside of what the command named.                               *)
WritesLand ==
  \A p \in landed : p[1] = p[2] /\ p[1] \in job.word .. job.word + job.total - 1

(* The data port moves the words that the driver means, each at its place.  *)
WordsRight == TypeOK /\ RequestMeansRoom /\ RightWord /\ WritesLand

(* A command that ended without an error has moved all that was asked for,  *)
(* and a write has it on the medium.                                        *)
DoneMeansDone ==
  (Selected /\ job.what # "none" /\ rep = NoRep /\ {"drq", "err"} \cap Drv.status = {})
    => /\ job.moved = job.total
       /\ job.what = "write" => Cardinality(landed) = job.total

(* A driver that goes on moving data gets to the end of every transfer. *)
TransferEnds == (Selected /\ "drq" \in Drv.status) ~> ~(Selected /\ "drq" \in Drv.status)
=============================================================================
