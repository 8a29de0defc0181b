------------------------------- MODULE Flags -------------------------------
(***************************************************************************)
(* The lazily computed arithmetic flags (i386.c).  An instruction stores   *)
(* its operands and its result in cc and says in cc.mask which flags are   *)
(* to be computed from them when they are read; the other flags are read   *)
(* from the flags register.  `eager` holds what the flags would be if each *)
(* instruction computed them at once, as its definition has it; a flag     *)
(* that the definition leaves undefined is Undef, and one that the code    *)
(* goes on computing for the task before a task switch is Foreign.         *)
(*                                                                         *)
(* A word has Wide bits (the code's 32) and a byte Narrow (its 8 and 16).  *)
(* Rotations are by counts below Wide: the code tests the count before it  *)
(* reduces it, so that a rotation by Wide itself changes CF and OF.        *)
(***************************************************************************)
EXTENDS Integers, FiniteSets

CONSTANTS
  Wide,         \* bits of an operand, twice as many as Narrow has
  Narrow, Nibble,
  Operands,     \* the operands of arithmetic instructions
  MaxOps        \* instructions since the flags were loaded

VARIABLES cc, flags, eager, ops

flagVars == <<cc, flags, eager, ops>>

Undef == 2
Foreign == 3
Flag == {"CF", "PF", "AF", "ZF", "SF", "OF"}
Arith == Flag
Logic == Flag \ {"AF"}

Word == 0 .. 2 ^ Wide - 1
Widths == {Narrow, Wide}
Low(n, x) == x % 2 ^ n
Bit(x, i) == (x \div 2 ^ i) % 2
Top(x) == Bit(x, Wide - 1)
Sext(n, x) == IF Bit(x, n - 1) = 1 THEN Low(n, x) + 2 ^ Wide - 2 ^ n ELSE Low(n, x)
Signed(n, x) == IF Bit(x, n - 1) = 1 THEN Low(n, x) - 2 ^ n ELSE Low(n, x)
Num(b) == IF b THEN 1 ELSE 0
Xor(x, y) == (x + y) % 2
Parity(n, x) == (1 + Cardinality({i \in 0 .. n - 1 : Bit(x, i) = 1})) % 2

-----------------------------------------------------------------------------
(* Reading a flag.                                                          *)

Stored(f) == Num(f \in flags)

GetCF ==
  IF "CF" \notin cc.mask THEN Stored("CF")
  ELSE CASE cc.op = "ADC" -> Num(cc.dst <= cc.src2)
         [] cc.op = "ADD" -> Num(cc.dst < cc.src2)
         [] cc.op = "SBB" -> Num(cc.src1 <= cc.src2)
         [] cc.op = "SUB" -> Num(cc.src1 < cc.src2)
         [] cc.op = "NEG" -> Num(cc.dst # 0)
         [] cc.op = "IMUL" ->
              IF cc.bits < Wide THEN Num(Sext(cc.bits, cc.dst) # cc.dst)
              ELSE Num(cc.dst2 # Top(cc.dst) * (2 ^ Wide - 1))
         [] cc.op = "MUL" ->
              IF cc.bits < Wide THEN Num(cc.dst >= 2 ^ cc.bits) ELSE Num(cc.dst2 # 0)
         [] cc.op \in {"SHL", "SHR", "SAR", "SHRD"} -> cc.dst2 % 2
         [] cc.op = "SHLD" -> Top(cc.dst2)
         [] cc.op = "LOGIC" -> 0

GetPF == IF "PF" \in cc.mask THEN Parity(Narrow, cc.dst) ELSE Stored("PF")

GetAF ==
  IF "AF" \notin cc.mask THEN Stored("AF")
  ELSE CASE cc.op \in {"ADC", "ADD", "SBB", "SUB"} ->
              Xor(Bit(cc.src1, Nibble), Xor(Bit(cc.src2, Nibble), Bit(cc.dst, Nibble)))
         [] cc.op = "NEG" -> Num(Low(Nibble, cc.dst) # 0)
         [] cc.op = "DEC" -> Num(Low(Nibble, cc.dst) = 2 ^ Nibble - 1)
         [] cc.op = "INC" -> Num(Low(Nibble, cc.dst) = 0)
         [] OTHER -> 0

GetZF == IF "ZF" \in cc.mask THEN Num(cc.dst = 0) ELSE Stored("ZF")
GetSF == IF "SF" \in cc.mask THEN Top(cc.dst) ELSE Stored("SF")

GetOF ==
  IF "OF" \notin cc.mask THEN Stored("OF")
  ELSE LET s1 == Top(cc.src1)  s2 == Top(cc.src2)  d == Top(cc.dst)
       IN CASE cc.op \in {"ADC", "ADD"} -> Num(s1 = s2 /\ d # s2)
            [] cc.op \in {"SBB", "SUB"} -> Num(s1 # s2 /\ d # s1)
            [] cc.op = "DEC" -> Num(cc.dst = Sext(cc.bits, 2 ^ (cc.bits - 1) - 1))
            [] cc.op \in {"INC", "NEG"} -> Num(cc.dst = Sext(cc.bits, 2 ^ (cc.bits - 1)))
            [] cc.op \in {"IMUL", "MUL"} -> GetCF
            [] cc.op \in {"SAR", "LOGIC"} -> 0
            [] cc.op = "SHL" -> Xor(d, cc.dst2 % 2)
            [] cc.op = "SHR" -> s1
            [] cc.op \in {"SHLD", "SHRD"} -> Xor(s1, d)

Got(f) ==
  CASE f = "CF" -> GetCF [] f = "PF" -> GetPF [] f = "AF" -> GetAF
    [] f = "ZF" -> GetZF [] f = "SF" -> GetSF [] f = "OF" -> GetOF

(* refresh_flags. *)
Refreshed == {f \in Flag : Got(f) = 1}

(* SET_BIT. *)
SetBit(fs, b, f) == IF b = 1 THEN fs \cup {f} ELSE fs \ {f}

-----------------------------------------------------------------------------
(* The definitions of the instructions.                                     *)

(* A flag that has one value for the program, and a flag as it reads it.    *)
Defined(f) == eager[f] \in {0, 1}
Known(f) == IF Defined(f) THEN eager[f] ELSE Got(f)

Nothing == [f \in Flag |-> Undef]
OfResult(n, r) ==
  [Nothing EXCEPT !.ZF = Num(Low(n, r) = 0), !.SF = Bit(r, n - 1), !.PF = Parity(Narrow, Low(n, r))]

Fits(n, r) == r \in -(2 ^ (n - 1)) .. 2 ^ (n - 1) - 1

Sum(n, a, b, c) ==
  [OfResult(n, (a + b + c) % 2 ^ n) EXCEPT
     !.CF = Num(Low(n, a) + Low(n, b) + c >= 2 ^ n),
     !.AF = Num(Low(Nibble, a) + Low(Nibble, b) + c >= 2 ^ Nibble),
     !.OF = Num(~Fits(n, Signed(n, a) + Signed(n, b) + c))]
Difference(n, a, b, c) ==
  [OfResult(n, (a - b - c) % 2 ^ n) EXCEPT
     !.CF = Num(Low(n, a) < Low(n, b) + c),
     !.AF = Num(Low(Nibble, a) < Low(Nibble, b) + c),
     !.OF = Num(~Fits(n, Signed(n, a) - Signed(n, b) - c))]
Product(low) == [Nothing EXCEPT !.CF = Num(~low), !.OF = Num(~low)]

(* A shift that pushes out `out` last; OF is defined for a count of one. *)
Shifted(n, x, r, out, count) ==
  [OfResult(n, r) EXCEPT
     !.CF = out, !.OF = IF count = 1 THEN Xor(Bit(x, n - 1), Bit(r, n - 1)) ELSE Undef]
Rotated(n, x, r, out, count) ==
  [eager EXCEPT !.CF = out,
                !.OF = IF count = 1 THEN Xor(Bit(x, n - 1), Bit(r, n - 1)) ELSE Undef]

-----------------------------------------------------------------------------
Init ==
  /\ cc = [src1 |-> 0, src2 |-> 0, dst |-> 0, dst2 |-> 0, op |-> "ADD", bits |-> 0, mask |-> {}]
  /\ flags \in {{}, Flag}
  /\ eager = [f \in Flag |-> Stored(f)]
  /\ ops = 0

Step == ops < MaxOps /\ ops' = ops + 1

Lazy(op, bits, mask, s1, s2, d, d2) ==
  cc' = [src1 |-> s1, src2 |-> s2, dst |-> d, dst2 |-> d2, op |-> op, bits |-> bits, mask |-> mask]

(* ACOP_helper, and AOP0_helper when the carry is not used: ADC and ADD.    *)
Add(n, a, b, carry) ==
  LET c == IF carry THEN GetCF ELSE 0
  IN /\ Lazy(IF c = 1 THEN "ADC" ELSE "ADD", 0, Arith,
             Sext(n, a), Sext(n, b), Sext(n, Sext(n, a) + Sext(n, b) + c), 0)
     /\ eager' = Sum(n, a, b, IF carry THEN Known("CF") ELSE 0)
     /\ UNCHANGED flags

(* SBB, SUB, CMP, SCAS, CMPS. *)
Subtract(n, a, b, carry) ==
  LET c == IF carry THEN GetCF ELSE 0
  IN /\ Lazy(IF c = 1 THEN "SBB" ELSE "SUB", 0, Arith,
             Sext(n, a), Sext(n, b), Sext(n, Sext(n, a) - Sext(n, b) - c), 0)
     /\ eager' = Difference(n, a, b, IF carry THEN Known("CF") ELSE 0)
     /\ UNCHANGED flags

(* INC and DEC leave CF as it is. *)
IncDec(n, a, inc) ==
  /\ Lazy(IF inc THEN "INC" ELSE "DEC", n, Arith \ {"CF"},
          cc.src1, cc.src2, Sext(n, Sext(n, a) + IF inc THEN 1 ELSE -1), cc.dst2)
  /\ flags' = SetBit(flags, GetCF, "CF")
  /\ eager' = [(IF inc THEN Sum(n, a, 1, 0) ELSE Difference(n, a, 1, 0)) EXCEPT !.CF = eager.CF]

Negate(n, a) ==
  /\ Lazy("NEG", n, Arith, Sext(n, a), cc.src2, Sext(n, -Sext(n, a)), cc.dst2)
  /\ eager' = Difference(n, 0, a, 0)
  /\ UNCHANGED flags

(* AND, OR, XOR and TEST with the result r. *)
Logical(n, r) ==
  /\ Lazy("LOGIC", 0, Logic, cc.src1, cc.src2, Sext(n, r), cc.dst2)
  /\ eager' = [OfResult(n, r) EXCEPT !.CF = 0, !.OF = 0]
  /\ UNCHANGED flags

(* A product in a word of the next size or, at full size, in two words.     *)
Multiply(n, a, b, signed) ==
  LET p == IF signed THEN Signed(n, a) * Signed(n, b) ELSE Low(n, a) * Low(n, b)
  IN /\ Lazy(IF signed THEN "IMUL" ELSE "MUL", n, Arith,
             IF signed THEN Sext(n, a) ELSE Low(n, a), IF signed THEN Sext(n, b) ELSE Low(n, b),
             Low(Wide, p), IF n = Wide THEN Low(Wide, p \div 2 ^ Wide) ELSE cc.dst2)
     /\ eager' = Product(IF signed THEN Fits(n, p) ELSE p < 2 ^ n)
     /\ UNCHANGED flags

(* DIV and IDIV define no flag; dividing 5 and 5555h by 2 sets and clears   *)
(* ZF for programs that test for other makers' processors.                  *)
Divide(zf) ==
  /\ cc' = IF zf = Undef THEN cc ELSE [cc EXCEPT !.mask = @ \ {"ZF"}]
  /\ flags' = IF zf = Undef THEN flags ELSE SetBit(flags, zf, "ZF")
  /\ eager' = Nothing

-----------------------------------------------------------------------------
Count(b) == b % Wide      \* & 0x1f
Left(x, y) == Low(Wide, x * 2 ^ y)
Right(x, y) == x \div 2 ^ y

NoChange == UNCHANGED <<cc, flags, eager>>

(* SHL.  Past the size of the operand the code shifts by a negative number  *)
(* to find CF, which is then any bit, and has no meaning for the program.   *)
ShiftLeft(n, a, b) ==
  LET x == Low(n, a)  y == Count(b)
  IN IF y = 0 THEN NoChange
     ELSE \E out \in IF y <= n THEN {Bit(x, n - y)} ELSE {0, 1} :
            /\ Lazy("SHL", 0, Logic, cc.src1, cc.src2, Sext(n, Left(x, y)), out)
            /\ eager' = Shifted(n, x, Low(n, x * 2 ^ y), IF y <= n THEN out ELSE Undef, y)
            /\ UNCHANGED flags

(* SHR, which leaves all flags alone when it shifts by none. *)
ShiftRight(n, a, b) ==
  LET x == Low(n, a)  y == Count(b)
  IN IF y = 0 THEN NoChange
     ELSE /\ Lazy("SHR", 0, Logic, Sext(n, x), cc.src2, Sext(n, Right(x, y)), Bit(x, y - 1))
          /\ eager' = Shifted(n, x, Right(x, y), IF y <= n THEN Bit(x, y - 1) ELSE Undef, y)
          /\ UNCHANGED flags

(* SAR. *)
ShiftSigned(n, a, b) ==
  LET x == Signed(n, a)  y == Count(b)
      r == Low(Wide, x \div 2 ^ y)
  IN IF y = 0 THEN NoChange
     ELSE /\ Lazy("SAR", 0, Logic, cc.src1, cc.src2, r, (x \div 2 ^ (y - 1)) % 2)
          /\ eager' = [Shifted(n, x, r, (x \div 2 ^ (y - 1)) % 2, y) EXCEPT
                         !.OF = IF y = 1 THEN 0 ELSE Undef]
          /\ UNCHANGED flags

(* SHLD and SHRD: past the size of the operand the two change places.       *)
DoubleShift(n, a, b, count, left) ==
  LET y == Count(count)
      swap == n < y
      x == Low(n, IF swap THEN b ELSE a)  z == Low(n, IF swap THEN a ELSE b)
      k == IF swap THEN y - n ELSE y
      Shl(i) == Sext(n, Left(x, i) + Right(z, n - i))
      Shr(i) == Sext(n, Right(x, i) + Left(z, n - i))
      r == IF left THEN Shl(k) ELSE Shr(k)
      last == IF k = 1 THEN Sext(n, x) ELSE IF left THEN Shl(k - 1) ELSE Shr(k - 1)
  IN IF y = 0 THEN NoChange
     ELSE /\ Lazy(IF left THEN "SHLD" ELSE "SHRD", 0, Logic,
                  Sext(n, IF left THEN a ELSE x), cc.src2, r, last)
          /\ eager' = IF swap THEN Nothing
                      ELSE Shifted(n, x, Low(n, r),
                                   IF left THEN Bit(x, n - k) ELSE Bit(x, k - 1), k)
          /\ UNCHANGED flags

(* The rotations write CF and OF into the flags register at once. *)
Rotate(cf, of) ==
  /\ flags' = SetBit(SetBit(flags, cf, "CF"), of, "OF")
  /\ cc' = [cc EXCEPT !.mask = @ \ {"CF", "OF"}]

(* ROL and ROR, by counts below Wide. *)
RotateLeft(n, a, b) ==
  LET x == Low(n, a)  y == b % n
      res == IF y = 0 THEN x ELSE Sext(n, Left(x, y) + Right(x, n - y))
  IN IF b = 0 THEN NoChange
     ELSE /\ Rotate(res % 2, Xor(Top(res), res % 2))
          /\ eager' = Rotated(n, x, Low(n, x * 2 ^ y) + Right(x, n - y), res % 2, b)
RotateRight(n, a, b) ==
  LET x == Low(n, a)  y == b % n
      res == IF y = 0 THEN x ELSE Sext(n, Right(x, y) + Left(x, n - y))
      top == Bit(res, n - 1)
  IN IF b = 0 THEN NoChange
     ELSE /\ Rotate(top, Xor(top, Bit(res, n - 2)))
          /\ eager' = Rotated(n, x, Right(x, y) + Low(n, x * 2 ^ (n - y)), top, b)

(* RCL and RCR, which rotate one bit more, through CF. *)
RotateCarryLeft(n, a, b) ==
  LET x == Low(n, a)  y == Count(b) % (n + 1)
      res == Sext(n, Left(x, y) + GetCF * 2 ^ (y - 1) + IF y # 1 THEN Right(x, n + 1 - y) ELSE 0)
      cf == Bit(x, n - y)
  IN IF y = 0 THEN NoChange
     ELSE /\ Rotate(cf, Xor(Top(res), cf))
          /\ eager' = Rotated(n, x, (x * 2 + Known("CF")) % 2 ^ n, cf, Count(b))
RotateCarryRight(n, a, b) ==
  LET x == Low(n, a)  y == Count(b) % (n + 1)
      res == Sext(n, Right(x, y) + Left(GetCF, n - y) + IF y # 1 THEN Left(x, n + 1 - y) ELSE 0)
      cf == Bit(x, y - 1)
  IN IF y = 0 THEN NoChange
     ELSE /\ Rotate(cf, Xor(Bit(res, n - 1), Bit(res, n - 2)))
          /\ eager' = Rotated(n, x, x \div 2 + Known("CF") * 2 ^ (n - 1), cf, Count(b))

-----------------------------------------------------------------------------
(* After a multiplication OF is read as CF, so that an instruction that     *)
(* changes CF alone changes OF with it: the program may not rely on it.     *)
OwnOverflow ==
  IF cc.op \in {"IMUL", "MUL"} /\ "OF" \in cc.mask THEN [eager EXCEPT !.OF = Undef] ELSE eager

(* BT, BTS, BTR, BTC, CLC, STC and CMC. *)
SetCarry(b) ==
  /\ flags' = SetBit(flags, b, "CF")
  /\ cc' = [cc EXCEPT !.mask = @ \ {"CF"}]
  /\ eager' = [OwnOverflow EXCEPT !.CF = b]

Complement == SetCarry(1 - GetCF) /\ Defined("CF")

(* LAR, LSL, VERR, VERW, ARPL and CMPXCHG8B. *)
SetZero(b) ==
  /\ flags' = SetBit(flags, b, "ZF")
  /\ cc' = [cc EXCEPT !.mask = @ \ {"ZF"}]
  /\ eager' = [eager EXCEPT !.ZF = b]

(* BSF and BSR, where only ZF is defined. *)
Scan(b) ==
  /\ flags' = SetBit(flags, b, "ZF")
  /\ cc' = [cc EXCEPT !.mask = {}]
  /\ eager' = [Nothing EXCEPT !.ZF = b]

(* SAHF. *)
LoadLow(fs) ==
  /\ cc' = [cc EXCEPT !.mask = @ \cap {"OF"}]
  /\ flags' = fs \cup (flags \cap {"OF"})
  /\ eager' = [f \in Flag |-> IF f = "OF" THEN OwnOverflow.OF ELSE Num(f \in fs)]

(* PUSHF, LAHF, cpu_getflags, and an interrupt before it clears IF. *)
Store ==
  /\ flags' = Refreshed
  /\ cc' = [cc EXCEPT !.mask = {}]
  /\ UNCHANGED eager

(* POPF and IRET. *)
Load(fs) ==
  /\ flags' = fs
  /\ cc' = [cc EXCEPT !.mask = {}]
  /\ eager' = [f \in Flag |-> Num(f \in fs)]

(* cpu_setflags, with which the x87 unit and SIMD compare. *)
Compare(set, clear) ==
  /\ IF cc.mask \cap (set \cup clear) # {}
     THEN flags' = (Refreshed \cup set) \ clear /\ cc' = [cc EXCEPT !.mask = {}]
     ELSE flags' = (flags \cup set) \ clear /\ UNCHANGED cc
  /\ eager' = [f \in Flag |-> IF f \in set THEN 1 ELSE IF f \in clear THEN 0 ELSE eager[f]]

(* task_switch loads the flags register of the new task, and never clears   *)
(* cc.mask.  The new task should find all the flags fs of its segment; what *)
(* it does find of those in the mask is computed from the operands of the   *)
(* task before.                                                             *)
TaskSwitch(fs) ==
  /\ flags' = fs
  /\ UNCHANGED cc
  /\ eager' = [f \in Flag |-> IF f \in cc.mask THEN Foreign ELSE Num(f \in fs)]

-----------------------------------------------------------------------------
(* Decimal instructions: low and high say that the low digit and the whole  *)
(* exceed what a decimal number holds, d is the result.                     *)
Digits(d) == [cc EXCEPT !.dst = Sext(Narrow, d), !.mask = {"ZF", "SF", "PF"}]

(* Mutated: AF is read after the mask that says how it is read. *)
DecimalAdjustLate(low, high, d) ==
  /\ cc' = Digits(d)
  /\ flags' = SetBit(SetBit(flags, Num(high \/ GetCF = 1), "CF"),
                     Num(low \/ Stored("AF") = 1), "AF")
  /\ eager' = [OfResult(Narrow, d) EXCEPT !.CF = Num(high \/ Known("CF") = 1),
                                          !.AF = Num(low \/ Known("AF") = 1)]

(* DAA and DAS. *)
DecimalAdjust(low, high, d) ==
  /\ cc' = Digits(d)
  /\ flags' = SetBit(SetBit(flags, Num(high \/ GetCF = 1), "CF"),
                     Num(low \/ GetAF = 1), "AF")
  /\ eager' = [OfResult(Narrow, d) EXCEPT !.CF = Num(high \/ Known("CF") = 1),
                                          !.AF = Num(low \/ Known("AF") = 1)]

(* AAA and AAS. *)
AsciiAdjust(low) ==
  LET adjust == Num(low \/ GetAF = 1)
  IN /\ flags' = SetBit(SetBit(flags, adjust, "CF"), adjust, "AF")
     /\ cc' = [cc EXCEPT !.mask = {"ZF", "SF", "PF"}]
     /\ eager' = [Nothing EXCEPT !.CF = Num(low \/ Known("AF") = 1), !.AF = Num(low \/ Known("AF") = 1)]

(* AAD and AAM. *)
AsciiBinary(d) ==
  /\ cc' = Digits(d)
  /\ flags' = flags \ {"OF", "AF", "CF"}
  /\ eager' = OfResult(Narrow, d)

-----------------------------------------------------------------------------
Arithmetic ==
  \E n \in Widths, a \in Operands, b \in Operands :
    \/ \E carry \in BOOLEAN : Add(n, a, b, carry) \/ Subtract(n, a, b, carry)
    \/ Logical(n, a)
    \/ \E signed \in BOOLEAN : Multiply(n, a, b, signed)
    \/ ShiftLeft(n, a, b) \/ ShiftRight(n, a, b) \/ ShiftSigned(n, a, b)
    \/ \E left \in BOOLEAN, count \in 0 .. Wide - 1 : DoubleShift(n, a, b, count, left)

OneOperand ==
  \E n \in Widths, a \in Operands :
    \/ \E inc \in BOOLEAN : IncDec(n, a, inc)
    \/ Negate(n, a)
    \/ \E b \in 0 .. Wide - 1 :
         \/ RotateLeft(n, a, b) \/ RotateRight(n, a, b)
         \/ RotateCarryLeft(n, a, b) \/ RotateCarryRight(n, a, b)

Direct ==
  \/ \E b \in {0, 1} : SetCarry(b) \/ SetZero(b) \/ Scan(b) \/ Divide(b)
  \/ Divide(Undef) \/ Complement \/ Store
  \/ \E fs \in {{}, {"AF", "ZF"}, Flag \ {"OF"}} : LoadLow(fs)
  \/ \E fs \in {{}, {"CF", "OF"}, Flag} : Load(fs) \/ TaskSwitch(fs)
  \/ \E set \in SUBSET {"CF", "PF", "ZF"} :
       Compare(set, Flag \ set) \/ Compare(set, {"CF", "PF", "ZF"} \ set)
  \/ \E low \in BOOLEAN, d \in Operands :
       AsciiAdjust(low) \/ AsciiBinary(d) \/ \E high \in BOOLEAN : DecimalAdjust(low, high, d)

(* An instruction that replaces every flag comes last or before one that    *)
(* changes some of them.                                                    *)
Next == Step /\ ((ops < 2 /\ Arithmetic) \/ OneOperand \/ Direct)

-----------------------------------------------------------------------------
TypeOK ==
  /\ cc.src1 \in Word /\ cc.src2 \in Word /\ cc.dst \in Word /\ cc.dst2 \in Word
  /\ cc.mask \subseteq Flag /\ flags \subseteq Flag

(* Whatever instructions came before, each flag that their definitions say  *)
(* something about reads as if they had computed it at once: conditional    *)
(* jumps, SETcc, CMOVcc, and the flags stored by PUSHF and by interrupts.   *)
(* Not so after a task switch: the flags that were pending then are wrong   *)
(* in the new task until an instruction replaces them (Foreign).            *)
FlagsRight == \A f \in Flag : Defined(f) => Got(f) = eager[f]
=============================================================================
