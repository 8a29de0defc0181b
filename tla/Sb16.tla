------------------------------- MODULE Sb16 --------------------------------
(***************************************************************************)
(* The Sound Blaster 16 (sb16.c) with its two DMA controllers: the command *)
(* parser of the DSP, the DMA block and its interrupt, reset, and the      *)
(* buffer that the audio callback empties.  Sample rates, the mixer but    *)
(* for its interrupt status, the bytes of replies and the stereo of the    *)
(* older commands are left out; the bytes of a command are chosen when it  *)
(* completes.                                                              *)
(*                                                                         *)
(* The program that uses it starts a transfer when none runs, sets the     *)
(* block size when none is halted.                                         *)
(***************************************************************************)
EXTENDS I8257

CONSTANTS
  Commands,     \* commands with parameters that the program uses, of Needed
  Formats,      \* of its transfers: wide (words), stereo
  Lengths,      \* block lengths (less one) that are programmed
  Counts,       \* DMA counts that are programmed, of two bytes
  Frees,        \* what the audio callback asks for
  AudioLen,     \* AUDIO_BUF_LEN
  Limit,        \* Limit[wide]: how far a transfer may fill it
  InSize, OutSize       \* sizes of in2_data and out_data

VARIABLES
  sb,           \* the DSP
  sb_line,      \* the level of its interrupt
  audio,        \* free: audio_free; fill: audio_q - audio_p; odd: audio_p is
  dma,          \* dma[FALSE] and dma[TRUE]: isa_dma and isa_hdma
  sb_odd        \* an interrupt without a status; bytes of ADPCM commands not taken

sb16Vars == <<sb, sb_line, audio, dma, sb_odd>>

Lower(a, b) == IF a < b THEN a ELSE b

Init ==
  /\ sb = [needed |-> 0, in_index |-> 0, cmd |-> "none", out |-> 0, auto |-> FALSE,
           block |-> 0, left |-> 0, hdma |-> FALSE, unit |-> 1, running |-> FALSE,
           halted |-> FALSE, status |-> {}, moved |-> 0]
  /\ sb_line = FALSE /\ audio = [free |-> 0, fill |-> 0, odd |-> FALSE]
  /\ dma = [high \in BOOLEAN |-> Controller(IF high THEN 1 ELSE 0)]
  /\ sb_odd = [irq |-> FALSE, bytes |-> FALSE]

(* The bytes that a command waits for (command); the others wait for none. *)
Needed ==
  [plain |-> 2, reply |-> 1, block |-> 2, single8 |-> 2, dma |-> 3,
   silence |-> 2, adpcm |-> 2]
(* The bytes that complete() takes: of an ADPCM command, none. *)
Taken(c) == IF c = "adpcm" THEN 0 ELSE Needed[c]

Out(s, n) == [s EXCEPT !.out = Lower(OutSize, @ + n)]

-----------------------------------------------------------------------------
(* SB_read_DMA on the channel of controller high: the state it leaves.     *)
Valid(s) == s.block > 0
Left(s) == IF s.left < 0 THEN s.block ELSE s.left
Room(s) == IF audio.fill > Limit[s.hdma] THEN 0 ELSE Limit[s.hdma] - audio.fill
Free(s) == audio.free - (audio.free % s.unit)

Copy(s) == IF ~s.auto /\ Left(s) <= Free(s) THEN Left(s) ELSE Free(s)
Written(s) == Lower(Copy(s), Room(s))

(* while (left_till_irq <= 0) left_till_irq += block_size. *)
Again(left, block) == IF left > 0 THEN left ELSE block - ((-left) % block)

(* The end of a block, single blocks stopping the transfer (control). *)
AfterBlock(s) ==
  [s EXCEPT !.left = Again(@, s.block), !.running = @ /\ s.auto]

(* Mutated: the interrupt comes at the end of the buffer, not of the block. *)
RunBuffer(high, s, d) ==
  LET n == Written(s)
      t == [s EXCEPT !.left = Left(s) - n, !.moved = (@ + n) % s.block]
      ends == d.now + n >= BufferLength(d)
  IN [sb |-> IF ends THEN [AfterBlock(t) EXCEPT !.status = @ \cup {high}] ELSE t,
      irq |-> ends, n |-> n, now |-> (d.now + n) % BufferLength(d)]

Run(high, s, d) ==
  LET n == Written(s)
      t == [s EXCEPT !.left = Left(s) - n, !.moved = (@ + n) % s.block]
      ends == t.left <= 0
  IN [sb |-> IF ends THEN [AfterBlock(t) EXCEPT !.status = @ \cup {high}] ELSE t,
      irq |-> ends, n |-> n, now |-> (d.now + n) % BufferLength(d)]

(* The controller in use; words have the other one. *)
Current(s) == s.hdma

(* i8257_dma_run of controller high, with the other fields as given.  The   *)
(* release of the request inside the handler is not run again.              *)
DmaRunWith(high, s, ds) ==
  IF Runs(ds[high]) /\ Valid(s) /\ Free(s) > 0
  THEN LET r == Run(high, s, ds[high])
           d == AfterRun(ds[high], r.now)
       IN /\ sb' = r.sb
          /\ dma' = [[ds EXCEPT ![high] = d] EXCEPT ![Current(s)].dreq = @ /\ r.sb.running]
          /\ sb_line' = (sb_line \/ r.irq)
          /\ audio' = [audio EXCEPT !.fill = @ + r.n]
  ELSE /\ sb' = s /\ dma' = ds /\ UNCHANGED <<sb_line, audio>>

DmaRun == \E high \in BOOLEAN : DmaRunWith(high, sb, dma) /\ UNCHANGED sb_odd

(* control(): the request of the current controller is held or released. *)
Control(s, hold) ==
  DmaRunWith(Current(s), [s EXCEPT !.running = hold], [dma EXCEPT ![Current(s)].dreq = hold])

Start(s) == Control([s EXCEPT !.left = s.block, !.halted = FALSE, !.moved = 0], TRUE)

Quiet == UNCHANGED <<sb_line, audio, dma, sb_odd>>

-----------------------------------------------------------------------------
(* A byte written to the DSP while it waits for none: command().           *)
CanStart == ~sb.running /\ ~sb.halted

Command ==
  /\ sb.needed = 0
  /\ \/ \E c \in Commands :
          /\ c \in {"block", "single8", "dma"} => CanStart
          /\ sb' = [sb EXCEPT !.cmd = c, !.needed = Needed[c],
                              !.block = IF c = "single8" THEN 0 ELSE @]
          /\ Quiet
     \/ \* answers of one byte or more
        /\ "reply" \in Commands
        /\ sb' = Out(sb, 1) /\ Quiet
     \/ \* 0x1c, 0x90, 0x91: a transfer with the block size set before
        /\ CanStart
        /\ \E auto \in BOOLEAN :
             Start([sb EXCEPT !.hdma = FALSE, !.auto = auto, !.unit = 1])
        /\ UNCHANGED sb_odd
     \/ \* 0xd0, 0xd5
        /\ sb.running
        /\ Control([sb EXCEPT !.halted = TRUE], FALSE)
        /\ UNCHANGED sb_odd
     \/ \* 0xd4, 0xd6
        /\ sb.halted
        /\ Control([sb EXCEPT !.halted = FALSE], TRUE)
        /\ UNCHANGED sb_odd
     \/ \* 0xd9, 0xda
        /\ sb' = [sb EXCEPT !.auto = FALSE] /\ Quiet
     \/ \* 0xf2, 0xf3: an interrupt on demand
        /\ "reply" \in Commands
        /\ \E high \in BOOLEAN : sb' = [Out(sb, 1) EXCEPT !.status = @ \cup {high}]
        /\ sb_line' = TRUE /\ UNCHANGED <<audio, dma, sb_odd>>

(* complete(): the last byte of a command. *)
Complete(s) ==
  LET t == [s EXCEPT !.cmd = "none"]
  IN CASE s.cmd = "block" ->
            \E n \in Lengths : sb' = [t EXCEPT !.block = n + 1] /\ Quiet
       [] s.cmd = "single8" ->
            /\ \E n \in Lengths :
                 Start([t EXCEPT !.block = n + 1, !.hdma = FALSE, !.auto = FALSE, !.unit = 1])
            /\ UNCHANGED sb_odd
       [] s.cmd = "dma" ->
            /\ \E n \in Lengths, f \in Formats, auto \in BOOLEAN :
                 LET bytes == IF f.wide THEN 2 ELSE 1
                     channels == IF f.stereo THEN 2 ELSE 1
                 IN Start([t EXCEPT !.block = (n + 1) * bytes * (IF auto THEN 1 ELSE channels),
                                    !.unit = bytes * channels, !.hdma = f.wide, !.auto = auto])
            /\ UNCHANGED sb_odd
       [] s.cmd = "reply" -> sb' = Out(t, 1) /\ Quiet
       [] s.cmd = "silence" ->
            \* a short one interrupts at once, a long one never
            \/ sb' = t /\ Quiet
            \/ /\ sb' = t /\ sb_line' = TRUE
               /\ sb_odd' = [sb_odd EXCEPT !.irq = TRUE]
               /\ UNCHANGED <<audio, dma>>
       [] s.cmd = "adpcm" ->
            /\ sb' = t /\ sb_odd' = [sb_odd EXCEPT !.bytes = TRUE]
            /\ UNCHANGED <<sb_line, audio, dma>>
       [] OTHER -> sb' = t /\ Quiet

Parameter ==
  /\ sb.needed > 0
  /\ IF sb.in_index = InSize THEN UNCHANGED sb /\ Quiet       \* overrun
     ELSE LET s == [sb EXCEPT !.in_index = @ + 1]
          IN IF s.in_index = s.needed
             THEN Complete([s EXCEPT !.needed = 0, !.in_index = @ - Taken(s.cmd)])
             ELSE sb' = s /\ Quiet

(* reset(), in whatever state the guest has left the DSP: port 6 takes a 1   *)
(* and then a 0, or a magic value.  An automatic transfer pulses the line.  *)
AfterReset(s) ==
  [s EXCEPT !.status = {}, !.auto = FALSE, !.in_index = 0, !.out = Lower(1, OutSize), !.left = 0, !.needed = 0,
            !.block = -1, !.cmd = "none", !.halted = FALSE, !.moved = 0]

Reset ==
  /\ sb' = [AfterReset(sb) EXCEPT !.running = FALSE]
  /\ dma' = [dma EXCEPT ![Current(sb)].dreq = FALSE]
  /\ sb_line' = FALSE /\ sb_odd' = [irq |-> FALSE, bytes |-> FALSE]
  /\ UNCHANGED audio

ReadData == sb' = [sb EXCEPT !.out = IF @ > 0 THEN @ - 1 ELSE 0] /\ Quiet

LineAfterAck(high) == sb_line /\ high \notin sb.status

(* Ports 0eh and 0fh acknowledge the interrupt of one size of transfer. *)
Acknowledge ==
  \E high \in BOOLEAN :
    /\ sb_line' = LineAfterAck(high)
    /\ sb' = [sb EXCEPT !.status = @ \ {high}]
    /\ sb_odd' = [sb_odd EXCEPT !.irq = @ /\ sb_line']
    /\ UNCHANGED <<audio, dma>>

-----------------------------------------------------------------------------
(* The guest's side of the DMA controllers.  A channel is programmed as a    *)
(* whole: masked or all cleared, the flip-flop, its count, unmasked.         *)
Programmed(d, n) ==
  SetMask(WriteCount(WriteCount(ClearFlipFlop(SetMask(d, TRUE)), n % Byte), n \div Byte), FALSE)

ProgramDma ==
  \E high \in {f.wide : f \in Formats} :
    \/ \E n \in Counts, d \in {dma[high]} \cup (IF sb.running THEN {} ELSE {MasterClear(dma[high])}) :
         /\ DmaRunWith(high, sb, [dma EXCEPT ![high] = Programmed(d, n)])
         /\ UNCHANGED sb_odd
    \/ dma' = [dma EXCEPT ![high] = ReadStatus(@)] /\ UNCHANGED <<sb, sb_line, audio, sb_odd>>

(* sb16_audio_callback: what it asks for next time, and what it takes now,  *)
(* of wide samples up to an even position.                                  *)
Callback ==
  \E free \in Frees, i \in 0 .. audio.fill :
    LET taken == CASE audio.fill > AudioLen -> audio.fill
                   [] audio.fill <= AudioLen /\ sb.hdma -> 2 * i - (IF audio.odd THEN 1 ELSE 0)
                   [] OTHER -> i
    IN /\ sb.hdma => 2 * i <= audio.fill
       /\ audio' = [free |-> free, fill |-> audio.fill - taken,
                    odd |-> (taken % 2 = 1) # audio.odd]
       /\ UNCHANGED <<sb, sb_line, dma, sb_odd>>

Next ==
  \/ Command \/ Parameter \/ Reset \/ ReadData \/ Acknowledge
  \/ ProgramDma \/ DmaRun \/ Callback

-----------------------------------------------------------------------------
TypeOK ==
  /\ sb.out \in 0 .. OutSize /\ audio.fill \in 0 .. Limit[TRUE] + 1
  /\ (sb.running \/ sb.halted) /\ sb.block > 0 => sb.left \in 1 .. sb.block
  /\ \A high \in BOOLEAN : dma[high].now \in 0 .. BufferLength(dma[high]) - 1

(* The parser takes all the bytes that a command waits for and no more, so  *)
(* the next one starts on an empty buffer; only an ADPCM command breaks it. *)
ParserAligned ==
  ~sb_odd.bytes =>
    /\ sb.needed = 0 => sb.in_index = 0
    /\ sb.needed > 0 => sb.in_index < sb.needed

(* A request is held on one controller at most, the one of the transfer     *)
(* that runs: no block of the other size goes on behind the guest's back.   *)
RequestIsRunning ==
  \A high \in BOOLEAN : dma[high].dreq <=> (sb.running /\ sb.hdma = high)

(* A guest that has acknowledged all causes has the line low, so that the   *)
(* next block makes an edge; a short silence (0x80) is the exception.       *)
QuietWhenAcknowledged == (sb.status = {} /\ ~sb_odd.irq) => ~sb_line

(* The blocks of a transfer are whole: what has moved and what is left of   *)
(* the block make up its size, halted and continued or not.                 *)
BlocksAreWhole ==
  (sb.running \/ sb.halted) /\ sb.block > 0 =>
    (sb.moved + sb.left) % sb.block = 0

(* The parser, the requests, the line and the blocks of the card. *)
SoundRight ==
  TypeOK /\ ParserAligned /\ RequestIsRunning /\ QuietWhenAcknowledged /\ BlocksAreWhole

(* A single transfer ends exactly at the end of its block. *)
SingleBlockOnce ==
  (sb.running /\ ~sb'.running /\ ~sb'.halted /\ sb'.block > 0 /\ ~sb.auto) => sb'.moved = 0
=============================================================================
