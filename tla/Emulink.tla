------------------------------ MODULE Emulink ------------------------------
(***************************************************************************)
(* The floppy channel of the BIOS (misc.c, EMULINK): a command, three      *)
(* arguments, then its data by string instructions.  A unit of data is a   *)
(* sector; a file is a count of sectors: a read past its end is short, a   *)
(* write makes it longer.                                                  *)
(* The BIOS uses drives 0 and 1 and starts no command inside another one.  *)
(***************************************************************************)
EXTENDS Integers, Sequences

CONSTANTS
  Size,         \* sectors of drive 0 at first; drive 1 is empty
  Starts,       \* first sectors asked for, a negative one included
  Counts        \* sectors asked for; also the sectors of one string instruction

VARIABLES
  emu,          \* cmd, args, status ("ok", "error" or an identification), dataleft
  fpos, fsize,  \* the position in drive 0's file, and its sectors
  floppy_moved  \* of the command being served: sectors moved, and where each was

emuVars == <<emu, fpos, fsize, floppy_moved>>

Idle == [cmd |-> "none", args |-> <<>>, status |-> "id", dataleft |-> 0]
Init == emu = Idle /\ fpos = 0 /\ fsize = Size /\ floppy_moved = <<>>

(* emulink_cmd_write: the two identifications answer at once. *)
Command ==
  /\ emu.cmd = "none"
  /\ \/ \E c \in {"read", "write"} : emu' = [emu EXCEPT !.cmd = c, !.args = <<>>]
     \/ emu' = [emu EXCEPT !.args = <<>>, !.status = "id"]
  /\ UNCHANGED <<fpos, fsize>> /\ floppy_moved' = <<>>

(* exec_cmd with its third argument: no disk, or a seek that fails, ends it. *)
Exec(s) ==
  IF s.args[1] # 0 \/ s.args[2] < 0
  THEN emu' = [s EXCEPT !.status = "error", !.cmd = "none"] /\ UNCHANGED fpos
  ELSE /\ emu' = [s EXCEPT !.status = "ok", !.dataleft = s.args[3]]
       /\ fpos' = s.args[2]

(* emulink_data_write: a fourth argument is kept but no command takes it. *)
Argument ==
  /\ Len(emu.args) < 4
  /\ \E val \in CASE Len(emu.args) = 0 -> {0, 1}
                  [] Len(emu.args) = 1 -> Starts
                  [] OTHER -> Counts :
       LET s == [emu EXCEPT !.args = Append(@, val)]
       IN IF s.cmd # "none" /\ Len(s.args) = 3 THEN Exec(s)
          ELSE emu' = s /\ UNCHANGED fpos
  /\ UNCHANGED <<fsize, floppy_moved>>

Fits(s, n) == n <= s.dataleft

(* What is left after a piece; the command ends with its last one. *)
(* Mutated: a piece ends the command. *)
AfterPieceEnds(s, n) == [s EXCEPT !.dataleft = @ - n, !.cmd = "none", !.status = "ok"]

AfterPiece(s, n) ==
  LET t == [s EXCEPT !.dataleft = @ - n]
  IN IF t.dataleft = 0 THEN [t EXCEPT !.cmd = "none", !.status = "ok"] ELSE t

(* emulink_data_read_string, emulink_data_write_string: a call out of place, *)
(* too long, or served short by the file ends the command with an error.     *)
String ==
  \E c \in {"read", "write"}, n \in Counts :
    LET short == emu.cmd = "read" /\ fpos + n > fsize
        served == emu.cmd = c /\ Len(emu.args) = 3 /\ emu.args[1] = 0 /\ Fits(emu, n)
    IN /\ emu' = IF served /\ ~short THEN AfterPiece(emu, n)
                 ELSE [emu EXCEPT !.cmd = "none", !.status = "error"]
       /\ fpos' = IF served THEN (IF short THEN fsize ELSE fpos + n) ELSE fpos
       /\ fsize' = IF served /\ fpos' > fsize THEN fpos' ELSE fsize
       /\ floppy_moved' = IF served /\ ~short
                          THEN floppy_moved \o [i \in 1 .. n |-> fpos + i - 1]
                          ELSE floppy_moved

Next == Command \/ Argument \/ String

-----------------------------------------------------------------------------
Asked == emu.args[3]
Served == emu.cmd # "none" /\ Len(emu.args) = 3

(* While a transfer is served, and when it has ended with success, each     *)
(* sector moved is the one that was asked for, and no more were moved.      *)
RightSectors ==
  Len(emu.args) >= 3 =>
    /\ Len(floppy_moved) <= Asked
    /\ \A i \in DOMAIN floppy_moved : floppy_moved[i] = emu.args[2] + i - 1

(* A transfer ends with success only when all its sectors have moved.       *)
EndsComplete ==
  (Served /\ emu'.cmd = "none" /\ emu'.status = "ok") => Len(floppy_moved') = Asked
=============================================================================
