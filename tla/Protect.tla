------------------------------ MODULE Protect ------------------------------
(***************************************************************************)
(* Transfers between privilege levels (i386.c): interrupts, faults and     *)
(* INT n through the descriptor table, call gates, far returns, IRET,      *)
(* SYSENTER and SYSEXIT, in protected, virtual-8086 and real mode.         *)
(*                                                                         *)
(* The program at level 3 does what it likes: returns through frames of    *)
(* its own making, calls any selector, loads any flags.  It stays away     *)
(* from what the code does not guard: a data segment of level 0, a jump    *)
(* through a call gate to an inner level, a frame with the VM flag, which  *)
(* stops the process.  The kernel returns from what it was entered by, and *)
(* loads its own data segment in between.                                  *)
(***************************************************************************)
EXTENDS Integers, Sequences

CONSTANTS
  Sp,           \* values of the stack pointer outside of level 0
  MaxDepth      \* entries that have not been returned from

VARIABLES
  c,            \* the registers
  kst,          \* the stack of level 0, or of real mode: its words, top first
  todo          \* what was interrupted or called from, the last first

protectVars == <<c, kst, todo>>

(* Segments: code of both levels, conforming code, data of both levels, a   *)
(* call gate to K with one parameter, one for level 0 only, and none.       *)
Segs == {"K", "U", "C", "KD", "UD", "G", "G0", "null"}
Code == {"K", "U", "C"}
Gated == {"G", "G0"}
Dpl(s) == IF s \in {"U", "UD", "G"} THEN 3 ELSE 0
Conforming(s) == s = "C"
Sel(s, rpl) == [seg |-> s, rpl |-> rpl]

(* The interrupt descriptor table: an interrupt, the general protection     *)
(* fault, a system call, a vector for level 0 only, and two vectors whose   *)
(* handlers run at the level they interrupt.                                *)
Gates == [
  irq     |-> [dpl |-> 0, seg |-> "K", trap |-> FALSE],
  gp      |-> [dpl |-> 0, seg |-> "K", trap |-> FALSE],
  call    |-> [dpl |-> 3, seg |-> "K", trap |-> TRUE],
  private |-> [dpl |-> 0, seg |-> "K", trap |-> FALSE],
  own     |-> [dpl |-> 3, seg |-> "U", trap |-> TRUE],
  conf    |-> [dpl |-> 3, seg |-> "C", trap |-> FALSE]]

DataRegs == {"ES", "DS", "FS", "GS"}
V86Data == [ES |-> "ve", DS |-> "vd", FS |-> "vf", GS |-> "vg"]
NullData == [r \in DataRegs |-> "null"]

(* A program, a virtual-8086 program, and one in real mode. *)
Start(iopl) ==
  {[pe |-> TRUE, vm |-> FALSE, cpl |-> 3, cs |-> Sel("U", 3), ip |-> "0", ss |-> "UD",
    sp |-> 0, data |-> [NullData EXCEPT !["DS"] = "UD"], if |-> TRUE, iopl |-> iopl],
   [pe |-> TRUE, vm |-> TRUE, cpl |-> 3, cs |-> Sel("v", 0), ip |-> "0", ss |-> "vs",
    sp |-> 0, data |-> V86Data, if |-> TRUE, iopl |-> iopl],
   [pe |-> FALSE, vm |-> FALSE, cpl |-> 0, cs |-> Sel("r", 0), ip |-> "0", ss |-> "rs",
    sp |-> 0, data |-> V86Data, if |-> TRUE, iopl |-> iopl]}

Init ==
  /\ kst = <<>> /\ todo = <<>>
  /\ c \in Start(0) \cup Start(3)

-----------------------------------------------------------------------------
NextIp(ip) == IF ip = "0" THEN "1" ELSE "0"
Flags == [if |-> c.if, iopl |-> c.iopl, vm |-> c.vm]
User == c.cpl = 3
Protected == c.pe /\ ~c.vm
Kernel == Protected /\ c.cpl = 0

Interrupted(kind, ip) == <<[kind |-> kind, c |-> [c EXCEPT !.ip = ip], kst |-> kst]>> \o todo

(* How a vector is entered: not at all (0), at the same level (1), at an    *)
(* inner one (2), or from virtual-8086 mode (3).                            *)
Class(n, ext) ==
  LET s == Gates[n].seg
  IN IF (~ext /\ Gates[n].dpl < c.cpl) \/ Dpl(s) > c.cpl THEN 0
     ELSE IF ~Conforming(s) /\ Dpl(s) < c.cpl THEN (IF c.vm THEN 3 ELSE 2)
     ELSE IF c.vm THEN 0 ELSE 1

(* The words pushed for the old state, top first. *)
Frame(class, ip) ==
  <<ip, c.cs, Flags>>
    \o (IF class \in {2, 3} THEN <<c.sp, c.ss>> ELSE <<>>)
    \o (IF class = 3 THEN <<c.data["ES"], c.data["DS"], c.data["FS"], c.data["GS"]>> ELSE <<>>)

(* call_isr with a vector that can be entered. *)
Entered(n, pusherr, ext, ip) ==
  LET class == Class(n, ext)
      g     == Gates[n]
      words == (IF pusherr THEN <<"err">> ELSE <<>>) \o Frame(class, ip)
  IN IF ~c.pe
     THEN /\ kst' = <<ip, c.cs, Flags>> \o kst
          /\ c' = [c EXCEPT !.ip = n, !.if = FALSE]
          /\ todo' = Interrupted("int", ip)
     ELSE /\ kst' = CASE class = 1 /\ c.cpl = 0 -> words \o kst
                      [] class = 1 /\ c.cpl = 3 -> kst
                      [] OTHER -> words
          /\ c' = [c EXCEPT !.cs = Sel(g.seg, IF class = 1 THEN c.cpl ELSE 0), !.ip = n,
                            !.cpl = IF class = 1 THEN @ ELSE 0,
                            !.ss = IF class = 1 THEN @ ELSE "KD",
                            !.sp = IF class = 1 THEN (IF c.cpl = 0 THEN 0
                                                      ELSE (@ - Len(words)) % Sp) ELSE 0,
                            !.data = IF class = 3 THEN NullData ELSE @,
                            !.vm = FALSE,
                            !.if = @ /\ g.trap]
          /\ todo' = IF class = 1 /\ c.cpl = 3 THEN todo ELSE Interrupted("int", ip)

(* A fault of the instruction, delivered from the state before it.          *)
GeneralProtection == Entered("gp", TRUE, TRUE, c.ip)

Deep == Len(todo) < MaxDepth

ExternalInterrupt == Deep /\ c.if /\ Entered("irq", FALSE, TRUE, c.ip)

(* INT n. *)
INT(n) ==
  /\ Deep
  /\ IF c.vm /\ c.iopl < 3 THEN GeneralProtection
     ELSE IF c.pe /\ Class(n, FALSE) = 0 THEN GeneralProtection
     ELSE Entered(n, FALSE, FALSE, NextIp(c.ip))

(* An instruction that needs level 0, or a page or a port it may not use.   *)
Faults == Deep /\ c.pe /\ GeneralProtection

-----------------------------------------------------------------------------
(* Returns. *)

(* __pmiret_check_cs_same and __pmiret_check_cs_outer. *)
SameLevel(s) == s \in Code /\ (IF Conforming(s) THEN Dpl(s) <= c.cpl ELSE Dpl(s) = c.cpl)
OuterLevel(cs) ==
  cs.seg \in Code /\ (IF Conforming(cs.seg) THEN Dpl(cs.seg) > c.cpl ELSE Dpl(cs.seg) = cs.rpl)

(* clear_segs *)
Cleared(data, cpl) ==
  [r \in DataRegs |->
     IF ~Conforming(data[r]) /\ Dpl(data[r]) < cpl THEN "null" ELSE data[r]]

(* Mutated: the parameters are discarded from the inner stack only. *)
OuterSpKept(sp, off) == sp

(* The stack pointer after a far return that discards off words. *)
OuterSp(sp, off) == (sp + off) % Sp

(* pmret to cs:ip with the flags f, where rest is the stack that remains,   *)
(* the parameters included, and n words of level 3 are popped.              *)
Return(ip, cs, f, rest, off, n) ==
  IF cs.rpl < c.cpl \/ (IF cs.rpl = c.cpl THEN ~SameLevel(cs.seg) ELSE ~OuterLevel(cs))
  THEN Deep /\ GeneralProtection
  ELSE LET to == [c EXCEPT !.cs = cs, !.ip = ip, !.cpl = cs.rpl, !.if = f.if, !.iopl = f.iopl]
       IN IF cs.rpl = c.cpl
          THEN /\ c' = [to EXCEPT !.sp = IF c.cpl = 0 THEN 0 ELSE (@ + n + off) % Sp]
               /\ kst' = IF c.cpl = 0 THEN SubSeq(rest, off + 1, Len(rest)) ELSE kst
               /\ todo' = IF c.cpl = 0 THEN Tail(todo) ELSE todo
          ELSE /\ c' = [to EXCEPT !.sp = OuterSp(rest[off + 1], off), !.ss = rest[off + 2],
                                  !.data = Cleared(@, cs.rpl)]
               /\ kst' = <<>> /\ todo' = Tail(todo)

IretFlags(f) ==
  [f EXCEPT !.iopl = IF c.cpl > 0 THEN c.iopl ELSE @,
            !.if = IF c.iopl < c.cpl THEN c.if ELSE @]

(* The segment registers of virtual-8086 mode, from the end of its frame.   *)
V86Segments(w) == [ES |-> w[1], DS |-> w[2], FS |-> w[3], GS |-> w[4]]

ReturnToV86(w) ==
  /\ c' = [c EXCEPT !.ip = w[1], !.cs = w[2], !.if = w[3].if, !.iopl = w[3].iopl, !.vm = TRUE,
                    !.cpl = 3, !.sp = w[4], !.ss = w[5], !.data = V86Segments(SubSeq(w, 6, 9))]
  /\ kst' = <<>> /\ todo' = Tail(todo)

(* IRET of the kernel, once its handler has taken the error code away.      *)
IRET ==
  /\ Kernel /\ Head(todo).kind = "int" /\ Head(kst) # "err"
  /\ IF kst[3].vm THEN ReturnToV86(kst)
     ELSE Return(kst[1], kst[2], IretFlags(kst[3]), SubSeq(kst, 4, Len(kst)), 0, 3)

PopError ==
  /\ Kernel /\ kst # <<>> /\ Head(kst) = "err"
  /\ kst' = Tail(kst)
  /\ c' = [c EXCEPT !.ip = "0"]
  /\ UNCHANGED todo

RETFAR ==
  /\ Kernel /\ todo # <<>> /\ Head(todo).kind \in {"far", "gate"}
  /\ Return(kst[1], kst[2], Flags, SubSeq(kst, 3, Len(kst)),
            IF Head(todo).kind = "gate" THEN 1 ELSE 0, 2)

IRETReal ==
  /\ ~c.pe /\ todo # <<>> /\ Head(todo).kind = "int"
  /\ c' = [c EXCEPT !.ip = kst[1], !.cs = kst[2], !.if = kst[3].if, !.iopl = kst[3].iopl]
  /\ kst' = SubSeq(kst, 4, Len(kst)) /\ todo' = Tail(todo)

RETFARReal ==
  /\ ~c.pe /\ todo # <<>> /\ Head(todo).kind = "far"
  /\ c' = [c EXCEPT !.ip = kst[1], !.cs = kst[2]]
  /\ kst' = SubSeq(kst, 3, Len(kst)) /\ todo' = Tail(todo)

-----------------------------------------------------------------------------
(* What a program of level 3 may try. *)
Forged == [if : BOOLEAN, iopl : {0, 3}, vm : {FALSE}]
Ips == {"0", "1"}

UserIRET ==
  /\ User /\ ~c.vm
  /\ \E ip \in Ips, s \in Segs, rpl \in {0, 3}, f \in Forged :
       Return(ip, Sel(s, rpl), IretFlags(f), <<>>, 0, 3)

UserRETFAR ==
  /\ User /\ ~c.vm
  /\ \E ip \in Ips, s \in Segs, rpl \in {0, 3}, off \in {0, 1} :
       Return(ip, Sel(s, rpl), Flags, <<>>, off, 2)

(* IRET, RETFAR, CALLFAR and JMPFAR of virtual-8086 mode.                   *)
V86IRET ==
  /\ c.vm
  /\ IF c.iopl < 3 THEN Deep /\ GeneralProtection
     ELSE /\ \E ip \in Ips, f \in BOOLEAN :
               c' = [c EXCEPT !.ip = ip, !.if = f, !.sp = (@ + 3) % Sp]
          /\ UNCHANGED <<kst, todo>>
V86Far ==
  /\ c.vm
  /\ \E ip \in Ips, k \in {-2, 0, 2} : c' = [c EXCEPT !.ip = ip, !.sp = (@ + k) % Sp]
  /\ UNCHANGED <<kst, todo>>

(* pmcall to a code segment. *)
Admits(s, rpl) ==
  s \in Code /\ (IF Conforming(s) THEN Dpl(s) <= c.cpl ELSE rpl <= c.cpl /\ Dpl(s) = c.cpl)

(* pmcall through a call gate with one parameter, from an outer level.      *)
CallGate ==
  /\ Deep
  /\ kst' = <<NextIp(c.ip), c.cs, "param", c.sp, c.ss>>
  /\ c' = [c EXCEPT !.cs = Sel("K", 0), !.cpl = 0, !.ip = "gate", !.ss = "KD", !.sp = 0]
  /\ todo' = <<[kind |-> "gate", kst |-> kst,
                c |-> [c EXCEPT !.ip = NextIp(c.ip), !.sp = (@ + 1) % Sp]]>> \o todo

UserFar ==
  /\ User /\ ~c.vm
  /\ \E ip \in Ips, s \in Segs, rpl \in {0, 3}, isjmp \in BOOLEAN :
       IF s \in Gated
       THEN /\ ~isjmp
            /\ IF Dpl(s) < c.cpl \/ Dpl(s) < rpl THEN Deep /\ GeneralProtection ELSE CallGate
       ELSE IF ~Admits(s, rpl) THEN Deep /\ GeneralProtection
       ELSE /\ c' = [c EXCEPT !.cs = Sel(s, c.cpl), !.ip = ip,
                              !.sp = IF isjmp THEN @ ELSE (@ - 2) % Sp]
            /\ UNCHANGED <<kst, todo>>

(* A far call of the kernel, and one of real mode. *)
CALLFAR ==
  /\ Deep /\ c.cpl = 0
  /\ \E s \in IF c.pe THEN {"K", "C"} ELSE {"r"} :
       /\ kst' = <<NextIp(c.ip), c.cs>> \o kst
       /\ c' = [c EXCEPT !.cs = Sel(s, 0), !.ip = "0"]
  /\ todo' = Interrupted("far", NextIp(c.ip))

(* POPF of any flags, where VM does not change.                             *)
POPF ==
  /\ User
  /\ IF c.vm /\ c.iopl < 3 THEN Deep /\ GeneralProtection
     ELSE /\ \E f \in Forged :
               c' = [c EXCEPT !.ip = NextIp(@), !.sp = (@ + 1) % Sp, !.if = IretFlags(f).if,
                              !.iopl = IretFlags(f).iopl]
          /\ UNCHANGED <<kst, todo>>

(* CLI and STI, at any level. *)
SetInterrupts ==
  IF c.iopl < c.cpl THEN Deep /\ GeneralProtection
  ELSE /\ \E f \in BOOLEAN : c' = [c EXCEPT !.if = f]
       /\ UNCHANGED <<kst, todo>>

(* A segment register; a system segment is refused.                         *)
LoadDS ==
  /\ Protected
  /\ \E s \in IF c.cpl = 0 THEN {"KD", "UD", "null"} ELSE {"UD", "null", "G"} :
       IF s \in Gated THEN Deep /\ GeneralProtection
       ELSE c' = [c EXCEPT !.data["DS"] = s] /\ UNCHANGED <<kst, todo>>

(* A program that expects to come back to U. *)
SYSENTER ==
  /\ Deep /\ User /\ ~c.vm /\ c.cs.seg = "U"
  /\ c' = [c EXCEPT !.if = FALSE, !.cs = Sel("K", 0), !.cpl = 0, !.ss = "KD", !.sp = 0,
                    !.ip = "sysenter"]
  /\ kst' = <<>>
  /\ todo' = Interrupted("sys", NextIp(c.ip))

(* The kernel has the program's addresses in registers, and loads a data    *)
(* segment of the program before.                                           *)
SYSEXIT ==
  /\ Kernel /\ todo # <<>> /\ Head(todo).kind = "sys" /\ c.data["DS"] # "KD"
  /\ c' = [c EXCEPT !.cs = Sel("U", 3), !.cpl = 3, !.ss = "UD",
                    !.ip = Head(todo).c.ip, !.sp = Head(todo).c.sp]
  /\ kst' = <<>> /\ todo' = Tail(todo)

Next ==
  \/ ExternalInterrupt
  \/ \E n \in DOMAIN Gates \ {"irq", "gp"} : (Kernel => n = "call") /\ INT(n)
  \/ Faults
  \/ IRET \/ PopError \/ RETFAR \/ IRETReal \/ RETFARReal
  \/ UserIRET \/ UserRETFAR \/ V86IRET \/ V86Far \/ UserFar
  \/ CALLFAR
  \/ POPF \/ SetInterrupts \/ LoadDS
  \/ SYSENTER \/ SYSEXIT

-----------------------------------------------------------------------------
TypeOK ==
  /\ c.cpl \in {0, 3} /\ c.sp \in 0 .. Sp - 1 /\ c.if \in BOOLEAN
  /\ Protected => c.cpl = c.cs.rpl
  /\ c.vm => c.cpl = 3

(* Whatever returns, far calls, interrupts and flags a program tries, the   *)
(* processor comes to level 0 only at the entry of a gate that admits the   *)
(* program, on the stack of level 0 with nothing on it but the frame, and   *)
(* with the interrupt flag as the gate has it.                              *)
EntryAtGate ==
  c'.cpl < c.cpl =>
    /\ c'.cs = Sel("K", 0) /\ c'.ss = "KD" /\ ~c'.vm
    /\ c'.ip \in {"irq", "gp", "call", "gate", "sysenter"}
    /\ c'.ip \in {"irq", "gp", "sysenter"} => ~c'.if
    /\ Len(kst') = CASE c'.ip = "sysenter" -> 0
                     [] c'.ip = "gate" -> 5
                     [] OTHER -> (IF c.vm THEN 9 ELSE 5) + (IF c'.ip = "gp" THEN 1 ELSE 0)

(* A return of the kernel finds what was interrupted or called from: level, *)
(* segment and instruction, the instruction itself after a fault and the    *)
(* next one after a call, the stack with nothing left behind, and after an  *)
(* interrupt the flags; in virtual-8086 mode all segments as well.          *)
ReturnExact ==
  Len(todo') < Len(todo) =>
    LET was == Head(todo)
    IN /\ c'.cs = was.c.cs /\ c'.ip = was.c.ip /\ c'.cpl = was.c.cpl /\ c'.vm = was.c.vm
       /\ c'.ss = was.c.ss /\ c'.sp = was.c.sp /\ kst' = was.kst
       /\ was.kind = "int" => c'.if = was.c.if /\ c'.iopl = was.c.iopl
       /\ was.c.vm => c'.data = was.c.data

(* A program never runs with a data segment of level 0 that the kernel left *)
(* in a register, whichever way the kernel was left.                        *)
NoInnerData ==
  Protected /\ User => /\ c.ss = "UD"
                       /\ \A r \in DataRegs : c.data[r] \in {"null", "UD"}

(* A program cannot change its I/O privilege or its mode, nor, without the  *)
(* privilege, its interrupt flag, by any sequence of POPF, IRET, INT and    *)
(* returns that does not enter the kernel.                                  *)
UserCannot ==
  User /\ c'.cpl = 3 =>
    /\ c'.iopl = c.iopl /\ c'.vm = c.vm
    /\ c.iopl < 3 /\ c'.ip # "conf" => c'.if = c.if

(* The levels are kept apart: each step enters and leaves the kernel as its *)
(* gates and frames say, and hands a program nothing of it.                 *)
GatesHold == EntryAtGate /\ ReturnExact /\ UserCannot /\ TypeOK' /\ NoInnerData'
=============================================================================
