------------------------------ MODULE Strings ------------------------------
(***************************************************************************)
(* The string instructions (i386.c): MOVS, STOS, LODS, SCAS, CMPS, INS and *)
(* OUTS, alone and repeated.  A repeated one translates the addresses of   *)
(* one element and moves all that follow it in the same pages; a page that *)
(* is missing ends it with a fault, after which it starts anew with the    *)
(* registers as they are then.                                             *)
(*                                                                         *)
(* Memory is physical, with its pages in another order than the linear     *)
(* ones.  Segments begin on a page and a word never lies across the end of *)
(* one, where the code would go on past the segment.                       *)
(***************************************************************************)
EXTENDS Integers, Sequences, FiniteSets

CONSTANTS
  PageSize, Pages,      \* bytes of a page, and pages of a segment
  MaxCount              \* elements of a repeated instruction

VARIABLES
  ins,          \* the instruction: kind, rep, size, dir, and the registers it started with
  phase,        \* "fast", "slow", "fault", "done"
  cx, si, di,   \* the registers
  ax,           \* the accumulator: the bytes loaded last
  zf,           \* the last comparison
  smem,         \* physical memory
  present,      \* the pages that are there
  port, out     \* elements read from the port, and the elements written to it

strVars == <<ins, phase, cx, si, di, ax, zf, smem, present, port, out>>

Length == PageSize * Pages
Addr == 0 .. Length - 1
InitialMemory == [p \in Addr |-> p]
Page(a) == a \div PageSize
Physical(a) == (Pages - 1 - Page(a)) * PageSize + (a % PageSize)

(* Bytes that memory does not hold initially: of the accumulator and of the *)
(* k-th element from the port.                                              *)
Accumulator == <<Length, Length + 1>>
FromPort(k) == <<Length + 2 + 2 * k, Length + 3 + 2 * k>>

Kinds == {"MOVS", "STOS", "LODS", "SCAS", "CMPS", "INS", "OUTS"}
Reads == {"MOVS", "LODS", "CMPS", "OUTS"}           \* at si
AtDi == {"MOVS", "STOS", "SCAS", "CMPS", "INS"}     \* at di
Compares == {"SCAS", "CMPS"}

-----------------------------------------------------------------------------
(* Elements. *)

(* The bytes of the element at a linear address.  *)
Element(m, a) == [j \in 1 .. ins.size |-> m[Physical((a + j - 1) % Length)]]
PutElement(m, a, v) ==
  [p \in DOMAIN m |->
     IF \E j \in 1 .. ins.size : p = Physical((a + j - 1) % Length)
     THEN v[CHOOSE j \in 1 .. ins.size : p = Physical((a + j - 1) % Length)] ELSE m[p]]

There(a) == \A j \in 1 .. ins.size : Page((a + j - 1) % Length) \in present

(* The address k elements further. *)
Ahead(a, k) == (a + k * ins.dir * ins.size) % Length

(* What the instruction does by its definition, element by element: the     *)
(* memory after k of them.                                                  *)
Reference ==
  LET m[k \in 0 .. MaxCount] ==
        IF k = 0 THEN InitialMemory
        ELSE LET to == Ahead(ins.di, k - 1)
             IN CASE ins.kind = "MOVS" ->
                       PutElement(m[k - 1], to, Element(m[k - 1], Ahead(ins.si, k - 1)))
                  [] ins.kind = "STOS" -> PutElement(m[k - 1], to, Accumulator)
                  [] ins.kind = "INS"  -> PutElement(m[k - 1], to, FromPort(k - 1))
                  [] OTHER -> m[k - 1]
  IN m

-----------------------------------------------------------------------------
(* A word never lies across the end of the segment. *)
Straddles(a, size, dir, n) ==
  size = 2 /\ \E k \in 0 .. n - 1 : (a + k * dir * size) % Length = Length - 1

(* The states in which the program comes to the instruction. *)
Init ==
  /\ smem = InitialMemory
  /\ \E kind \in Kinds, rep \in 0 .. 2, size \in {1, 2}, dir \in {1, -1},
        s \in Addr, d \in Addr, n \in 0 .. MaxCount :
       /\ kind \in {"INS", "OUTS"} => rep # 2
       /\ kind \notin Compares => rep # 2
       /\ kind \notin Reads => s = 0
       /\ kind \notin AtDi => d = 0
       /\ rep = 0 => n = 1
       /\ ~Straddles(s, size, dir, n) /\ ~Straddles(d, size, dir, n)
       /\ ins = [kind |-> kind, rep |-> rep, size |-> size, dir |-> dir,
                 si |-> s, di |-> d, cx |-> n]
       /\ si = s /\ di = d /\ cx = n
  /\ phase = IF ins.rep = 0 \/ ins.kind \in Compares \cup {"LODS"} THEN "slow" ELSE "fast"
  /\ present \in SUBSET (0 .. Pages - 1)
  /\ ax = Accumulator /\ zf = FALSE /\ port = 0 /\ out = <<>>

(* What of the two addresses the instruction translates, reading first. *)
Absent ==
  IF ins.kind \in Reads /\ ~There(si) THEN {si}
  ELSE IF ins.kind \in AtDi /\ ~There(di) THEN {di} ELSE {}

Fault ==
  /\ Absent # {}
  /\ phase' = "fault"
  /\ UNCHANGED <<ins, cx, si, di, ax, zf, smem, present, port, out>>

(* SCAS compares with the accumulator, CMPS two elements of memory. *)
Equal ==
  IF ins.kind = "CMPS" THEN Element(smem, si) = Element(smem, di)
  ELSE Element(smem, di) = SubSeq(ax, 1, ins.size)

Stops(equal) == (equal /\ ins.rep = 2) \/ (~equal /\ ins.rep = 1)

Advance(k) ==
  /\ si' = IF ins.kind \in Reads THEN Ahead(si, k) ELSE si
  /\ di' = IF ins.kind \in AtDi THEN Ahead(di, k) ELSE di
  /\ cx' = IF ins.rep = 0 THEN cx ELSE cx - k

(* One element: stdi, ldsi, lddi, ldsistdi, ldsilddi, indxstdi, ldsioutdx.  *)
One ==
  /\ Absent = {}
  /\ Advance(1)
  /\ smem' = CASE ins.kind = "MOVS" -> PutElement(smem, di, Element(smem, si))
               [] ins.kind = "STOS" -> PutElement(smem, di, ax)
               [] ins.kind = "INS" -> PutElement(smem, di, FromPort(port))
               [] OTHER -> smem
  /\ ax' = IF ins.kind = "LODS" THEN Element(smem, si) ELSE ax
  /\ zf' = IF ins.kind \in Compares THEN Equal ELSE zf
  /\ port' = IF ins.kind = "INS" THEN port + 1 ELSE port
  /\ out' = IF ins.kind = "OUTS" THEN Append(out, Element(smem, si)) ELSE out

(* The loops over single elements, and an instruction that is not repeated. *)
SlowElement ==
  /\ phase = "slow" /\ (ins.rep = 0 \/ cx # 0)
  /\ One
  /\ phase' = IF ins.rep = 0 \/ (ins.kind \in Compares /\ Stops(Equal)) THEN "done" ELSE "slow"
  /\ UNCHANGED <<ins, present>>

(* Mutated: elements up to the end of the page of the other operand. *)
RoomOneSided(a) == MaxCount

(* Elements from an aligned address to the end of its page. *)
Room(a) ==
  LET p == Physical(a) % PageSize
  IN IF ins.dir > 0 THEN (PageSize - p) \div ins.size ELSE 1 + (p \div ins.size)

MinOf(S) == CHOOSE x \in S : \A y \in S : x <= y
Chunk ==
  MinOf({cx} \cup (IF ins.kind \in Reads THEN {Room(si)} ELSE {})
             \cup (IF ins.kind \in AtDi THEN {Room(di)} ELSE {}))

(* The addresses of a chunk go on in physical memory, and beyond its end.   *)
Walk(a, k) == Physical(a) + k * ins.dir * ins.size
InChunk(m, p) == [j \in 1 .. ins.size |-> IF p + j - 1 \in Addr THEN m[p + j - 1] ELSE -1]
PutChunk(m, p, v) ==
  [q \in DOMAIN m |-> IF q \in p .. p + ins.size - 1 THEN v[q - p + 1] ELSE m[q]]

(* Memory after k elements of a chunk, copied one by one. *)
Chunked(n) ==
  LET m[k \in 0 .. n] ==
        IF k = 0 THEN smem
        ELSE LET to == Walk(di, k - 1)
             IN CASE ins.kind = "MOVS" -> PutChunk(m[k - 1], to, InChunk(m[k - 1], Walk(si, k - 1)))
                  [] ins.kind = "STOS" -> PutChunk(m[k - 1], to, ax)
                  [] ins.kind = "INS"  -> PutChunk(m[k - 1], to, FromPort(port + k - 1))
                  [] OTHER -> m[k - 1]
  IN m[n]

Aligned ==
  /\ ins.kind \in Reads => Physical(si) % ins.size = 0
  /\ ins.kind \in AtDi => Physical(di) % ins.size = 0

(* A chunk of n elements.  io_read_string and io_write_string may move      *)
(* fewer than there is room for, if any.                                    *)
Move(n) ==
  /\ Advance(n)
  /\ smem' = Chunked(n)
  /\ port' = IF ins.kind = "INS" THEN port + n ELSE port
  /\ out' = IF ins.kind = "OUTS"
            THEN out \o [k \in 1 .. n |-> InChunk(smem, Walk(si, k - 1))] ELSE out

(* STOS_helper2, MOVS_helper2, INS_helper2 and OUTS_helper2. *)
FastChunk ==
  /\ phase = "fast" /\ cx # 0 /\ Absent = {} /\ Aligned
  /\ \/ Move(Chunk)
     \/ /\ ins.kind \in {"INS", "OUTS"} /\ ins.dir > 0
        /\ \E n \in 1 .. Chunk - 1 : Move(n)
  /\ UNCHANGED <<ins, phase, present, ax, zf>>

SlowPath ==
  /\ phase = "fast" /\ cx # 0 /\ Absent = {} /\ ~Aligned
  /\ phase' = "slow"
  /\ UNCHANGED <<ins, cx, si, di, ax, zf, smem, present, port, out>>

Finish ==
  /\ phase \in {"fast", "slow"} /\ ins.rep # 0 /\ cx = 0
  /\ phase' = "done"
  /\ UNCHANGED <<ins, cx, si, di, ax, zf, smem, present, port, out>>

(* The page is brought in, and the instruction starts anew. *)
Handler ==
  /\ phase = "fault"
  /\ \E a \in Absent : \E j \in 1 .. ins.size :
       /\ Page((a + j - 1) % Length) \notin present
       /\ present' = present \cup {Page((a + j - 1) % Length)}
  /\ phase' = IF ins.rep = 0 \/ ins.kind \in Compares \cup {"LODS"} THEN "slow" ELSE "fast"
  /\ UNCHANGED <<ins, cx, si, di, ax, zf, smem, port, out>>

Next ==
  \/ SlowElement
  \/ FastChunk
  \/ SlowPath
  \/ Finish
  \/ Handler
  \/ phase \in {"fast", "slow"} /\ (ins.rep = 0 \/ cx # 0) /\ Fault

-----------------------------------------------------------------------------
(* Elements done, as the count register says. *)
Done == IF ins.rep # 0 THEN ins.cx - cx ELSE IF phase = "done" THEN 1 ELSE 0

(* At every fault and at the end, exactly the elements that the count says  *)
(* are done have been moved, once and in order: memory, the registers and   *)
(* the port stand where its definition has them, whatever pages were        *)
(* missing on the way, so that starting anew is going on.                   *)
InStep ==
  /\ smem = Reference[Done]
  /\ si = (IF ins.kind \in Reads THEN Ahead(ins.si, Done) ELSE ins.si)
  /\ di = (IF ins.kind \in AtDi THEN Ahead(ins.di, Done) ELSE ins.di)
  /\ ax = (IF ins.kind = "LODS" /\ Done > 0
           THEN Element(InitialMemory, Ahead(ins.si, Done - 1)) ELSE Accumulator)
  /\ port = (IF ins.kind = "INS" THEN Done ELSE 0)
  /\ out = (IF ins.kind = "OUTS"
            THEN [k \in 1 .. Done |-> Element(InitialMemory, Ahead(ins.si, k - 1))] ELSE <<>>)

(* A repeated comparison goes on while its elements compare as it asks, and *)
(* ends at the first that does not, also when faults cut it in pieces.      *)
StopsAtFirst ==
  ins.kind \in Compares /\ ins.rep # 0 =>
    LET Differs(k) ==
          (ins.rep = 2) = IF ins.kind = "CMPS"
                          THEN Element(smem, Ahead(ins.si, k - 1)) = Element(smem, Ahead(ins.di, k - 1))
                          ELSE Element(smem, Ahead(ins.di, k - 1)) = SubSeq(Accumulator, 1, ins.size)
    IN /\ \A k \in 1 .. Done - 1 : ~Differs(k)
       /\ Done > 0 /\ phase # "done" => ~Differs(Done)
       /\ phase = "done" => cx = 0 \/ Differs(Done)

(* String instructions come out right, in whatever pieces faults cut them.   *)
MovesExact == InStep /\ StopsAtFirst
=============================================================================
