------------------------------- MODULE RmeAlu -------------------------------
(***************************************************************************)
(* Arithmetic: ops_alu.h and ops_alu.c, the adjustments and bit            *)
(* instructions of ops_misc.c, SAHF and LAHF, and the conditions of        *)
(* ops_jump.c.                                                             *)
(*                                                                         *)
(* A guest program is a short sequence of instructions on two registers:   *)
(* `a' is the destination (AL, AX, EAX, or what a ModRM byte names), `d'   *)
(* the other half (AH, DX, EDX) or a second destination.  One step is one  *)
(* instruction, whose other operand is any of Operands.  An instruction    *)
(* computes a set of outcomes [v, fl], of one member except where C leaves *)
(* the result open.  `past' is history.                                    *)
(***************************************************************************)
EXTENDS Integers, Sequences

CONSTANTS
  Bits,      \* how many bits an operand of each size has
  Programs,  \* sequences of instructions
  Operands,  \* of each size
  Counts     \* operands of shifts and bit instructions

Sizes == {"B", "W", "D"}
FlagNames == {"CF", "PF", "AF", "ZF", "SF", "OF"}

Pow2[n \in 0 .. 2 * Bits["D"]] == IF n = 0 THEN 1 ELSE 2 * Pow2[n - 1]

\* `typed': the function keeps its result in a variable of the operand's type
\* that `dest' points to (RM, MR, AI, and RMX, AIX); elsewhere (MRX, MI, MIX,
\* MI8X) `dest' points to the reference, which has four bytes.
Instructions == [op : STRING, to : {"a", "d"}, typed : BOOLEAN]

ASSUME AluAssumption ==
  /\ Bits \in [Sizes -> Nat] /\ Bits["B"] = 8 /\ Bits["W"] >= 8 /\ Bits["D"] > Bits["W"]
  /\ Programs \subseteq Seq(Instructions)
  /\ \A z \in Sizes : Operands[z] \subseteq 0 .. Pow2[Bits[z]] - 1
  /\ Counts \subseteq 0..255

VARIABLES
  prog,   \* the instructions left
  size,   \* of the operands
  regs,   \* [a, d]
  flags,  \* those that are set
  res,    \* what the last instruction returned; "trap": the host's own
          \* division trapped, and the emulator is gone
  past    \* the instructions done, with what each started from

vars == <<prog, size, regs, flags, res, past>>

Width == Bits[size]
Mod == Pow2[Width]
Sign == Pow2[Width - 1]
Bit(x, i) == (x \div Pow2[i]) % 2
Signed(x) == IF x < Sign THEN x ELSE x - Mod

\* The number with the bits b, and the operators |, & and ^ of C.
OfBits(b) ==
  LET upTo[n \in 0..Width] == IF n = 0 THEN 0 ELSE upTo[n - 1] + b[n - 1] * Pow2[n - 1]
  IN  upTo[Width]
Or(x, y) == OfBits([i \in 0 .. Width - 1 |-> IF Bit(x, i) = 0 THEN Bit(y, i) ELSE 1])
And(x, y) == OfBits([i \in 0 .. Width - 1 |-> IF Bit(x, i) = 0 THEN 0 ELSE Bit(y, i)])
Xor(x, y) == OfBits([i \in 0 .. Width - 1 |-> IF Bit(x, i) = Bit(y, i) THEN 0 ELSE 1])

When(cond, flag) == IF cond THEN {flag} ELSE {}
Carry(fl) == IF "CF" \in fl THEN 1 ELSE 0

\* PARITY8 of the low byte.
EvenParity(x) ==
  (Bit(x, 0) + Bit(x, 1) + Bit(x, 2) + Bit(x, 3) + Bit(x, 4) + Bit(x, 5) + Bit(x, 6) + Bit(x, 7)) % 2 = 0

\* SET_COMM_FLAGS.
SetCommFlags(fl, v) ==
  (fl \ {"ZF", "SF", "PF"})
    \cup When(v = 0, "ZF") \cup When(v >= Sign, "SF") \cup When(EvenParity(v), "PF")

-----------------------------------------------------------------------------
(* Two operands: l is the destination, r the other.                        *)

\* _ALU_SMASK takes the sign bit from the size of what `dest' points to.
AddFlags(fl, v, l, r, typed) ==
  LET mask == (IF typed THEN Width ELSE Bits["D"]) - 1
  IN  fl \cup When(Bit(l, mask) = Bit(r, mask) /\ Bit(v, mask) # Bit(l, mask), "OF")
         \cup When(IF l # 0 THEN v <= r ELSE v < r, "CF")
         \cup When(IF l % 16 # 0 THEN v % 16 <= r % 16 ELSE v % 16 < r % 16, "AF")

\* __SUB_FLAGS, where r already has the borrow c in it.  The difference of
\* nibbles is unsigned.
SubFlags(fl, v, l, r, c) ==
  fl \cup When(l < r, "CF")
     \cup When(r % 16 < c \/ l % 16 < (r % 16) - c, "AF")
     \cup When(Bit(l, Width - 1) # Bit(r, Width - 1) /\ Bit(l, Width - 1) # Bit(v, Width - 1), "OF")

Add(l, r, fl, typed) ==
  LET v == (l + r) % Mod IN [v |-> v, fl |-> AddFlags(fl \ FlagNames, v, l, r, typed)]

\* Mutant: the carry is not added.
AdcNoCarry(l, r, fl, typed) ==
  LET v == (l + r) % Mod
      new == AddFlags(fl \ FlagNames, v, l, r, typed)
  IN  [v |-> v, fl |-> new \cup When(l # 0 /\ v = r, "CF")]

Adc(l, r, fl, typed) ==
  LET v == (l + r + Carry(fl)) % Mod
      new == AddFlags(fl \ FlagNames, v, l, r, typed)
  IN  [v |-> v, fl |-> new \cup When(l # 0 /\ v = r, "CF")]

Sub(l, r, fl) ==
  LET v == (l - r) % Mod IN [v |-> v, fl |-> SubFlags(fl \ FlagNames, v, l, r, 0)]

\* val_r + c is an int for the smaller sizes, and wraps for 32 bits.
Sbb(l, r, fl) ==
  LET c == Carry(fl)
      rc == IF size = "D" THEN (r + c) % Mod ELSE r + c
      v == (l - rc) % Mod
  IN  [v |-> v, fl |-> SubFlags(fl \ {"OF", "CF", "AF"}, v, l, rc, c)]

\* OR, AND, XOR and TEST leave AF alone.
Logic(v, fl) == [v |-> v, fl |-> fl \ {"OF", "CF"}]

\* The result of an instruction with two operands.
Binary(op, l, r, fl, typed) ==
  CASE op = "ADD" -> Add(l, r, fl, typed)
    [] op = "ADC" -> Adc(l, r, fl, typed)
    [] op = "SBB" -> Sbb(l, r, fl)
    [] op \in {"SUB", "CMP"} -> Sub(l, r, fl)
    [] op = "OR" -> Logic(Or(l, r), fl)
    [] op \in {"AND", "TEST"} -> Logic(And(l, r), fl)
    [] op = "XOR" -> Logic(Xor(l, r), fl)

BinaryOps == {"ADD", "OR", "ADC", "SBB", "AND", "SUB", "XOR", "CMP", "TEST"}

-----------------------------------------------------------------------------
(* One operand.                                                            *)

\* Mutant: CF is cleared too.
IncClearsCF(l, fl) ==
  LET v == (l + 1) % Mod
  IN  [v |-> v, fl |-> (fl \ {"CF", "OF", "AF"}) \cup When(v = Sign, "OF") \cup When(v % 16 = 0, "AF")]

Inc(l, fl) ==
  LET v == (l + 1) % Mod
  IN  [v |-> v, fl |-> (fl \ {"OF", "AF"}) \cup When(v = Sign, "OF") \cup When(v % 16 = 0, "AF")]

Dec(l, fl) ==
  LET v == (l - 1) % Mod
  IN  [v |-> v, fl |-> (fl \ {"OF", "AF"}) \cup When(v + 1 = Sign, "OF") \cup When(v % 16 = 15, "AF")]

Neg(l, fl) ==
  [v |-> (-l) % Mod,
   fl |-> (fl \ {"OF", "AF", "CF"})
            \cup When(l # 0, "CF") \cup When(l = Sign, "OF") \cup When(l % 8 # 0, "AF")]

Unary(op, l, fl) == CASE op = "INC" -> Inc(l, fl) [] op = "DEC" -> Dec(l, fl) [] op = "NEG" -> Neg(l, fl)

-----------------------------------------------------------------------------
(* Shifts and rotations by src.  Of zero places they do nothing at all.    *)

Top(x) == Bit(x, Width - 1)
Second(x) == Bit(x, Width - 2)
CarryOverflow(fl, carry, overflow) ==
  (fl \ {"OF", "CF"}) \cup When(carry, "CF") \cup When(overflow, "OF")

\* Truncated to the operand, so that no intermediate grows.
Left(x, n) == IF n >= Width THEN 0 ELSE (x % Pow2[Width - n]) * Pow2[n]
Right(x, n) == x \div Pow2[n]

Rol(l, src, fl) ==
  LET amt == (src % 32) % Width
      v == Or(Left(l, amt), Right(l, Width - amt))
  IN  IF amt = 0 THEN [v |-> l, fl |-> fl]
      ELSE [v |-> v, fl |-> CarryOverflow(fl, v % 2 = 1, Top(v) # v % 2)]

Ror(l, src, fl) ==
  LET amt == (src % 32) % Width
      v == Or(Right(l, amt), Left(l, Width - amt))
  IN  IF amt = 0 THEN [v |-> l, fl |-> fl]
      ELSE [v |-> v, fl |-> CarryOverflow(fl, Top(v) = 1, Top(v) # Second(v))]

\* Mutant: the carry does not come in at the other end.
RotateLeftNoCarry(s) == [val |-> Left(s.val, 1), cf |-> Top(s.val)]

\* One round of the loop in RCL and RCR: [val, cf].
RotateLeft(s) == [val |-> Left(s.val, 1) + s.cf, cf |-> Top(s.val)]
RotateRight(s) == [val |-> Right(s.val, 1) + s.cf * Sign, cf |-> s.val % 2]
Rounds(left, l, fl, amt) ==
  LET after[n \in 0..amt] == IF n = 0 THEN [val |-> l, cf |-> Carry(fl)]
                          ELSE IF left THEN RotateLeft(after[n - 1]) ELSE RotateRight(after[n - 1])
  IN  after[amt]

Rcl(l, src, fl) ==
  LET amt == (src % 32) % (Width + 1)
      s == Rounds(TRUE, l, fl, amt)
  IN  IF amt = 0 THEN [v |-> l, fl |-> fl]
      ELSE [v |-> s.val, fl |-> CarryOverflow(fl, s.cf = 1, s.cf # Top(s.val))]

Rcr(l, src, fl) ==
  LET amt == (src % 32) % (Width + 1)
      s == Rounds(FALSE, l, fl, amt)
  IN  IF amt = 0 THEN [v |-> l, fl |-> fl]
      ELSE [v |-> s.val, fl |-> CarryOverflow(fl, s.cf = 1, Top(l) # Carry(fl))]

\* A set: at amt = Width OF is computed with a shift by -1.
Shl(l, src, fl) ==
  LET amt == src % 32
      carry == amt <= Width /\ Bit(l, Width - amt) = 1
      v == Left(l, amt)
  IN  IF amt = 0 THEN {[v |-> l, fl |-> fl]}
      ELSE {[v |-> v, fl |-> SetCommFlags(CarryOverflow(fl, carry, over), v)] :
              over \in IF amt = Width THEN BOOLEAN
                       ELSE {amt < Width /\ carry # (Bit(l, Width - amt - 1) = 1)}}

Shr(l, src, fl) ==
  LET amt == src % 32
      v == IF amt > Width THEN 0 ELSE Right(l, amt)
      carry == amt <= Width /\ Bit(l, amt - 1) = 1
  IN  IF amt = 0 THEN [v |-> l, fl |-> fl]
      ELSE [v |-> v, fl |-> SetCommFlags(CarryOverflow(fl, carry, Top(v) # Second(v)), v)]

Sar(l, src, fl) ==
  LET amt == src % 32
      fill == IF Top(l) = 1 THEN Mod - 1 ELSE 0
      v == IF amt >= Width THEN fill ELSE Or(Right(l, amt), Left(fill, Width - amt))
      carry == IF amt >= Width THEN Top(l) = 1 ELSE Bit(l, amt - 1) = 1
  IN  IF amt = 0 THEN [v |-> l, fl |-> fl]
      ELSE [v |-> v, fl |-> SetCommFlags(CarryOverflow(fl, carry, Top(v) # Second(v)), v)]

Shift(op, l, src, fl) ==
  CASE op = "ROL" -> {Rol(l, src, fl)} [] op = "ROR" -> {Ror(l, src, fl)}
    [] op = "RCL" -> {Rcl(l, src, fl)} [] op = "RCR" -> {Rcr(l, src, fl)}
    [] op = "SHR" -> {Shr(l, src, fl)} [] op = "SAR" -> {Sar(l, src, fl)}
    [] op \in {"SHL", "SAL"} -> Shl(l, src, fl)

ShiftOps == {"ROL", "ROR", "RCL", "RCR", "SHL", "SHR", "SAL", "SAR"}

\* SHLD and SHRD compute in a local that nothing writes back: only flags
\* change.  amt is not masked, and C leaves what happens beyond the width open.
Double(op, l, r, amt, fl) ==
  LET v == IF op = "SHRD" THEN Or(Right(l, amt), Left(r, Width - amt))
                          ELSE Or(Left(l, amt), Right(r, Width - amt))
      carry == Bit(l, IF op = "SHRD" THEN amt - 1 ELSE Width - amt) = 1
      over == amt = 1 /\ (Top(v) = 1) # (IF op = "SHRD" THEN Second(v) = 1 ELSE carry)
  IN  IF amt = 0 THEN {fl}
      ELSE IF amt > Width \/ (size = "D" /\ amt = Width) THEN SUBSET (FlagNames \ {"AF"})
      ELSE {SetCommFlags(CarryOverflow(fl \ {"AF"}, carry, over), v)}

-----------------------------------------------------------------------------
(* Multiplication and division, on d:a.                                    *)

Wide(r) == r.d * Mod + r.a
SignedWide(r) == Signed(r.d) * Mod + r.a
Halves(n) == [a |-> n % Mod, d |-> (n \div Mod) % Mod]
Fits(n) == -Sign <= n /\ n < Sign

\* _MUL_FLAGS and _IMUL_FLAGS; AF stays.
MulFlags(fl, v, large) == CarryOverflow(SetCommFlags(fl, v), large, large)

\* The byte form asks for the bits above 16, the others for those above the operand.
Mul(l, src, fl) ==
  LET n == l * src
      width == IF size = "B" THEN 2 * Width ELSE Width
  IN  [regs |-> Halves(n), fl |-> MulFlags(fl, n % Mod, n \div Pow2[width] # 0)]

Imul(l, src, fl) ==
  LET n == Signed(l) * Signed(src)
  IN  [regs |-> Halves(n), fl |-> MulFlags(fl, n % Mod, ~Fits(n))]

\* The forms with a destination (16 bits only): SET_COMM_FLAGS sees all bits of
\* the product.  Those with an immediate multiply without sign, and C leaves
\* a product that does not fit an int open.
Imul2(l, src, fl, immediate) ==
  LET n == IF immediate THEN l * src ELSE Signed(l) * Signed(src)
      over == n >= Mod * Sign
      comm(neg) == (fl \ {"ZF", "SF", "PF"})
                     \cup When(n = 0, "ZF") \cup When(neg, "SF") \cup When(EvenParity(n % 256), "PF")
  IN  {[v |-> n % Mod, fl |-> CarryOverflow(comm(neg), large, large)] :
         neg \in IF over THEN BOOLEAN ELSE {n < 0},
         large \in IF over THEN BOOLEAN ELSE {~Fits(n)}}

Magnitude(n) == IF n < 0 THEN -n ELSE n
\* Division in C truncates.
Quotient(n, m) ==
  LET q == Magnitude(n) \div Magnitude(m) IN IF (n < 0) = (m < 0) THEN q ELSE -q
Remainder(n, m) == n - Quotient(n, m) * m

\* What a division returns, and the registers it leaves.
Leaves(outcome, r) == [res |-> outcome, regs |-> r]

\* Mutant: a quotient that does not fit is cut off.
DivTruncates(r, src) ==
  IF src = 0 THEN Leaves("diverr", r)
  ELSE Leaves("ok", [a |-> (Wide(r) \div src) % Mod, d |-> Wide(r) % src])

Div(r, src) ==
  IF src = 0 \/ Wide(r) \div src >= Mod THEN Leaves("diverr", r)
  ELSE Leaves("ok", [a |-> Wide(r) \div src, d |-> Wide(r) % src])

\* The lowest number divided by -1 traps, except in the byte form, whose
\* division has more bits.  The range check of the 32-bit form compares with
\* an unsigned number, and lets nothing pass.
Idiv(r, src) ==
  LET n == SignedWide(r)
      m == Signed(src)
  IN  IF m = 0 THEN Leaves("diverr", r)
      ELSE IF size # "B" /\ m = -1 /\ n = -(Mod * Sign) THEN Leaves("trap", r)
      ELSE IF size = "D" \/ ~Fits(Quotient(n, m)) THEN Leaves("diverr", r)
      ELSE Leaves("ok", [a |-> Quotient(n, m) % Mod, d |-> Remainder(n, m) % Mod])

-----------------------------------------------------------------------------
(* Adjustments of AL and AH, which are a and d of a byte.                  *)

\* Mutant: a carry out of the lower digit is not looked at.
AdjustsNoAF(r, fl) == r.a % 16 > 9

Adjusts(r, fl) == r.a % 16 > 9 \/ "AF" \in fl
Adjusted(a, d, fl) == [regs |-> [a |-> a, d |-> d], fl |-> SetCommFlags(fl, a)]
SetAll(fl, cond, names) == IF cond THEN fl \cup names ELSE fl \ names

\* AAA: n = 1, AAS: n = -1.
Ascii(r, fl, n) ==
  LET yes == Adjusts(r, fl)
  IN  Adjusted((IF yes THEN r.a + 6 * n ELSE r.a) % 16, IF yes THEN (r.d + n) % 256 ELSE r.d,
               SetAll(fl, yes, {"AF", "CF"}))

Aam(r, imm, fl) == Adjusted(r.a % imm, r.a \div imm, fl)

Aad(r, imm, fl) == Adjusted((r.a + r.d * imm) % 256, 0, fl \ {"OF", "CF"})

\* 153 is 0x99.
Daa(r, fl) ==
  LET low == Adjusts(r, fl)
      high == r.a > 153 \/ "CF" \in fl
  IN  Adjusted((r.a + (IF low THEN 6 ELSE 0) + (IF high THEN 96 ELSE 0)) % 256, r.d,
               SetAll(SetAll(fl, low, {"AF"}), high, {"CF"}))

Das(r, fl) ==
  LET low == Adjusts(r, fl)
      high == r.a > 153 \/ "CF" \in fl
  IN  Adjusted((r.a - (IF low THEN 6 ELSE 0) - (IF high THEN 96 ELSE 0)) % 256, r.d,
               SetAll(SetAll(fl, low, {"AF"}), high \/ (low /\ r.a < 6), {"CF"}))

\* CBW and CWD: the sign of a fills d.
SignFill(r) == [r EXCEPT !.d = IF r.a >= Sign THEN Mod - 1 ELSE 0]

\* The low byte of FLAGS that LAHF stores: of each flag its bit, and bit 1,
\* which is always set.
FlagBit == [CF |-> 0, PF |-> 2, AF |-> 4, ZF |-> 6, SF |-> 7]
FlagByte(fl) ==
  LET bit(f) == IF f \in fl THEN Pow2[FlagBit[f]] ELSE 0
  IN  2 + bit("CF") + bit("PF") + bit("AF") + bit("ZF") + bit("SF")

-----------------------------------------------------------------------------
Init ==
  /\ prog \in Programs /\ size \in Sizes
  /\ regs \in [a : Operands[size], d : Operands[size]]
  /\ flags \in {{}, {"CF"}, {"AF"}, FlagNames} /\ res = "ok" /\ past = <<>>

Current == Head(prog)
Dest == regs[Current.to]
Runs(ops) == res = "ok" /\ prog # <<>> /\ Current.op \in ops

\* The instruction is over.
Done(src, r, fl, outcome) ==
  /\ regs' = r /\ flags' = fl /\ res' = outcome
  /\ prog' = Tail(prog)
  /\ past' = Append(past, [op |-> Current.op, to |-> Current.to, typed |-> Current.typed,
                           src |-> src, regs |-> regs, flags |-> flags])
  /\ UNCHANGED size

\* The result is written back.  When that fails the flags are new all the same.
WriteBack(src, outs) ==
  \E o \in outs :
    \/ Done(src, [regs EXCEPT ![Current.to] = o.v], o.fl, "ok")
    \/ (~Current.typed \/ size = "B") /\ Done(src, regs, o.fl, "badmem")

\* CREATE_ALU_OPCODE_FCN and Arith.  CMP and TEST write nothing back.
ALU ==
  /\ Runs(BinaryOps)
  /\ \E src \in Operands[size] :
       LET o == Binary(Current.op, Dest, src, flags, Current.typed)
           new == [o EXCEPT !.fl = SetCommFlags(@, o.v)]
       IN  IF Current.op \in {"CMP", "TEST"} THEN Done(src, regs, new.fl, "ok")
           ELSE WriteBack(src, {new})

\* An operand could not be read.  Two functions have cleared flags by then.
ReadFails ==
  /\ Runs(BinaryOps)
  /\ \E fl \in {flags} \cup (IF Current.typed \/ size = "B" THEN {}
                             ELSE {flags \ {"OF", "ZF", "SF", "PF"}}) :
       Done(0, regs, fl, "badmem")

IncDecNeg ==
  /\ Runs({"INC", "DEC", "NEG"})
  /\ LET o == Unary(Current.op, Dest, flags)
     IN  WriteBack(0, {[o EXCEPT !.fl = SetCommFlags(@, o.v)]})

NOT == Runs({"NOT"}) /\ WriteBack(0, {[v |-> Mod - 1 - Dest, fl |-> flags]})

ShiftRotate ==
  /\ Runs(ShiftOps)
  /\ \E src \in Counts : WriteBack(src, Shift(Current.op, Dest, src, flags))

SHLD_SHRD ==
  /\ Runs({"SHLD", "SHRD"}) /\ size # "B"
  /\ \E src \in Counts, other \in Operands[size] :
       \E fl \in Double(Current.op, Dest, other, src, flags) : Done(src, regs, fl, "ok")

MUL ==
  /\ Runs({"MUL", "IMUL"})
  /\ \E src \in Operands[size] :
       LET o == IF Current.op = "MUL" THEN Mul(regs.a, src, flags) ELSE Imul(regs.a, src, flags)
       IN  Done(src, o.regs, o.fl, "ok")

\* With 32 bits RME_ERR_BUG.
IMUL2 ==
  /\ Runs({"IMUL2", "IMULI"}) /\ size # "B"
  /\ \E src \in Operands[size] :
       IF size = "D" THEN Done(src, regs, flags, "bug")
       ELSE \E o \in Imul2(Dest, src, flags, Current.op = "IMULI") :
              Done(src, [regs EXCEPT ![Current.to] = o.v], o.fl, "ok")

DIV ==
  /\ Runs({"DIV"})
  /\ \E src \in Operands[size] : LET o == Div(regs, src) IN Done(src, o.regs, flags, o.res)
IDIV ==
  /\ Runs({"IDIV"})
  /\ \E src \in Operands[size] : LET o == Idiv(regs, src) IN Done(src, o.regs, flags, o.res)

AAA_AAS ==
  /\ Runs({"AAA", "AAS"}) /\ size = "B"
  /\ LET o == Ascii(regs, flags, IF Current.op = "AAA" THEN 1 ELSE -1) IN Done(0, o.regs, o.fl, "ok")

DAA_DAS ==
  /\ Runs({"DAA", "DAS"}) /\ size = "B"
  /\ LET o == IF Current.op = "DAA" THEN Daa(regs, flags) ELSE Das(regs, flags)
     IN  Done(0, o.regs, o.fl, "ok")

AAM ==
  /\ Runs({"AAM"}) /\ size = "B"
  /\ \E imm \in Operands["B"] :
       \/ imm = 0 /\ Done(imm, regs, flags, "diverr")
       \/ imm # 0 /\ LET o == Aam(regs, imm, flags) IN Done(imm, o.regs, o.fl, "ok")

AAD ==
  /\ Runs({"AAD"}) /\ size = "B"
  /\ \E imm \in Operands["B"] : LET o == Aad(regs, imm, flags) IN Done(imm, o.regs, o.fl, "ok")

CBW_CWD == Runs({"CWD"}) /\ Done(0, SignFill(regs), flags, "ok")

LAHF == Runs({"LAHF"}) /\ size = "B" /\ Done(0, [regs EXCEPT !.d = FlagByte(flags)], flags, "ok")

\* OF is not in the byte.
SAHF ==
  /\ Runs({"SAHF"}) /\ size = "B"
  /\ Done(0, regs, (flags \cap {"OF"}) \cup {f \in DOMAIN FlagBit : Bit(regs.d, FlagBit[f]) = 1}, "ok")

CLC_STC_CMC ==
  /\ Runs({"CLC", "STC", "CMC"})
  /\ Done(0, regs,
          (flags \ {"CF"}) \cup When(Current.op = "STC" \/ (Current.op = "CMC" /\ "CF" \notin flags), "CF"),
          "ok")

\* BT, BTS, BTR and BTC: Ext_0F hands on the Arg of the table, which is 0, and
\* not the middle of the ModRM byte; their function refuses everything below 4.
BTx == Runs({"BTx"}) /\ Done(0, regs, flags, "undefopcode")

\* The lowest set bit of the source, 16 bits only.
BSF ==
  /\ Runs({"BSF"}) /\ size # "B"
  /\ \E src \in Operands[size] :
       IF size = "D" THEN Done(src, regs, flags, "undefopcode")
       ELSE IF src = 0 THEN Done(src, regs, flags \cup {"ZF"}, "ok")
       ELSE LET v == CHOOSE i \in 0 .. Width - 1 : Bit(src, i) = 1 /\ \A j \in 0 .. i - 1 : Bit(src, j) = 0
            IN  Done(src, [regs EXCEPT ![Current.to] = v], flags \ {"ZF"}, "ok")

Next ==
  \/ ALU \/ ReadFails \/ IncDecNeg \/ NOT \/ ShiftRotate \/ SHLD_SHRD \/ MUL \/ IMUL2
  \/ DIV \/ IDIV \/ AAA_AAS \/ DAA_DAS \/ AAM \/ AAD \/ CBW_CWD \/ LAHF \/ SAHF
  \/ CLC_STC_CMC \/ BTx \/ BSF

Spec == Init /\ [][Next]_vars

\* Mutant: L looks at SF alone.
LessSFOnly(fl) == "SF" \in fl

\* CONDITION_L.
Less(fl) == ("SF" \in fl) # ("OF" \in fl)

\* Is a conditional jump taken?  The other eight are the negations.
Condition(cc, fl) ==
  CASE cc = "BE" -> "CF" \in fl \/ "ZF" \in fl
    [] cc = "L" -> Less(fl)
    [] cc = "LE" -> "ZF" \in fl \/ Less(fl)
    [] cc = "C" -> "CF" \in fl [] cc = "Z" -> "ZF" \in fl [] cc = "S" -> "SF" \in fl
    [] cc = "O" -> "OF" \in fl [] cc = "PE" -> "PF" \in fl

-----------------------------------------------------------------------------
(* Properties: what the instructions mean as arithmetic on numbers.        *)

\* The last instruction, if it succeeded; `Did' a sequence of them, from the start.
LastOp == past[Len(past)]
Finished(ops) == past # <<>> /\ res = "ok" /\ LastOp.op \in ops
From == LastOp.regs[LastOp.to]
Result == regs[LastOp.to]
Did(ops) ==
  /\ res = "ok" /\ Len(past) = Len(ops) /\ \A k \in DOMAIN ops : past[k].op = ops[k]
Before == past[1].regs

\* Does a sum of which l, r, c are the parts carry out of the nibble, the
\* unsigned or the signed range?
SumOutOf(low, high, n) == n < low \/ n > high

\* Guests add and subtract numbers of two words: ADD and ADC, or SUB and SBB,
\* give the sum or difference of the whole numbers, and leave in CF what is
\* carried into a third word.  (The 32-bit SBB of all ones with a borrow
\* loses CF, and is left out: past[2].flags are those it starts from.)
WideSums ==
  LET other == past[1].src + past[2].src * Mod
      apart == past[1].to = "a" /\ past[2].to = "d"
      exact(n) == Wide(regs) = n % (Mod * Mod) /\ ("CF" \in flags) = SumOutOf(0, Mod * Mod - 1, n)
  IN  /\ Did(<<"ADD", "ADC">>) /\ apart => exact(Wide(Before) + other)
      /\ Did(<<"SUB", "SBB">>) /\ apart =>
           (size = "D" /\ past[2].src = Mod - 1 /\ "CF" \in past[2].flags) \/ exact(Wide(Before) - other)

\* After a comparison the conditional jumps decide as the operands are
\* ordered: BE and C as unsigned numbers, L and LE as signed ones.
OrderDecided ==
  Finished({"CMP", "SUB"}) =>
    LET l == From
        r == LastOp.src
    IN  /\ Condition("C", flags) = (l < r) /\ Condition("BE", flags) = (l <= r)
        /\ Condition("L", flags) = (Signed(l) < Signed(r))
        /\ Condition("LE", flags) = (Signed(l) <= Signed(r))
        /\ Condition("Z", flags) = (l = r)

\* The flags of sums and differences say what happened to the numbers: AF a
\* carry out of the nibble, OF a result beyond the signed range, CF beyond
\* the unsigned one, which INC and DEC keep.  (Left out: SBB and NEG, which get AF
\* wrong, and OF of ADD and ADC of 8 and 16 bits in the forms that are not typed,
\* of which OverflowFlagged tells.)
FlagsDescribe ==
  LET ops == {"ADD", "ADC", "SUB", "CMP", "INC", "DEC"}
      step == LastOp.op \in {"INC", "DEC"}
      r == IF step THEN 1 ELSE LastOp.src
      c == IF LastOp.op = "ADC" /\ "CF" \in LastOp.flags THEN 1 ELSE 0
      sum(x, y) == IF LastOp.op \in {"ADD", "ADC", "INC"} THEN x + y + c ELSE x - y
      v == sum(From, r) % Mod
  IN  Finished(ops) =>
        /\ ("AF" \in flags) = SumOutOf(0, 15, sum(From % 16, r % 16))
        /\ (LastOp.typed \/ size = "D" \/ LastOp.op \notin {"ADD", "ADC"}) =>
             ("OF" \in flags) = SumOutOf(-Sign, Sign - 1, sum(Signed(From), Signed(r)))
        /\ ("CF" \in flags) = IF step THEN "CF" \in LastOp.flags
                              ELSE SumOutOf(0, Mod - 1, sum(From, r))
        /\ ("ZF" \in flags) = (v = 0) /\ ("SF" \in flags) = (v >= Sign)

\* "db 083h,0c5h,0ffh ; (5) addw imm8, reg16" (Artlav's add.asm, and the ADC
\* of #19) adds -1 to 8000h, and the memory expected after it has OF among the
\* flags: every form of ADD and ADC says in OF that the signed sum is too large.
OverflowFlagged ==
  Finished({"ADD", "ADC"}) =>
    LET c == IF LastOp.op = "ADC" THEN Carry(LastOp.flags) ELSE 0 IN
    ("OF" \in flags) = SumOutOf(-Sign, Sign - 1, Signed(From) + Signed(LastOp.src) + c)

\* A bit of the number with CF above it, as RCL and RCR turn them.
RingBit(v, fl, i) == IF i = Width THEN Carry(fl) ELSE Bit(v, i)

\* Every bit lands where the count sends it, whatever the count: shifts fill
\* with zeroes or the sign, and CF is the last bit out; ROL and ROR lose no bit,
\* RCL and RCR none of the number and CF.  A count of zero leaves the flags
\* alone.  (Left out: CF of ROL and ROR by whole widths, which leave it.)
ShiftsExact ==
  LET n == LastOp.src % 32
      at(i) == Bit(Result, i)
      was(i) == Bit(From, i)
      carry == Carry(flags)
  IN  Finished(ShiftOps) =>
        /\ n = 0 => Result = From /\ flags = LastOp.flags
        /\ \A i \in 0 .. Width - 1 :
             /\ LastOp.op \in {"SHL", "SAL"} => at(i) = (IF i < n THEN 0 ELSE was(i - n))
             /\ LastOp.op = "SHR" => at(i) = (IF i + n < Width THEN was(i + n) ELSE 0)
             /\ LastOp.op = "SAR" => at(i) = was(IF i + n < Width THEN i + n ELSE Width - 1)
             /\ LastOp.op = "ROL" => at((i + n) % Width) = was(i)
             /\ LastOp.op = "ROR" => at(i) = was((i + n) % Width)
        /\ LastOp.op \in {"SHL", "SAL"} /\ n > 0 => carry = (IF n > Width THEN 0 ELSE was(Width - n))
        /\ LastOp.op = "SHR" /\ n > 0 => carry = (IF n > Width THEN 0 ELSE was(n - 1))
        /\ LastOp.op = "SAR" /\ n > 0 => carry = was(IF n > Width THEN Width - 1 ELSE n - 1)
        /\ LastOp.op = "ROL" /\ n % Width # 0 => carry = at(0)
        /\ LastOp.op = "ROR" /\ n % Width # 0 => carry = at(Width - 1)
        /\ \A i \in 0 .. Width :
             LET j == (i + n) % (Width + 1)
             IN  /\ LastOp.op = "RCL" => RingBit(Result, flags, j) = RingBit(From, LastOp.flags, i)
                 /\ LastOp.op = "RCR" => RingBit(Result, flags, i) = RingBit(From, LastOp.flags, j)

\* Division inverts multiplication: what DIV and IDIV leave, times the
\* divisor, is what was there, the remainder smaller than the divisor and of
\* the sign of the dividend; they fail only when there is no such quotient,
\* and then the handler finds the dividend.  Products are whole, and CF and
\* OF say whether the upper half is used.  (The 32-bit IDIV always fails, and
\* the 8-bit MUL never sets the flags: these are left out.)
DivisionExact ==
  LET n == IF LastOp.op = "DIV" THEN Wide(LastOp.regs) ELSE SignedWide(LastOp.regs)
      num(x) == IF LastOp.op = "DIV" THEN x ELSE Signed(x)
      m == num(LastOp.src)
      low == IF LastOp.op = "DIV" THEN 0 ELSE -Sign
  IN  /\ Finished({"DIV", "IDIV"}) =>
           /\ num(regs.a) * m + num(regs.d) = n
           /\ Magnitude(num(regs.d)) < Magnitude(m)
           /\ num(regs.d) # 0 => (num(regs.d) < 0) = (n < 0)
      /\ (/\ past # <<>> /\ res = "diverr" /\ LastOp.op \in {"DIV", "IDIV"}
          /\ ~(LastOp.op = "IDIV" /\ size = "D")) =>
           m = 0 \/ \A q \in low .. low + Mod - 1 :
                      ~(Magnitude(n - q * m) < Magnitude(m) /\ (n - q * m # 0 => (n - q * m < 0) = (n < 0)))
      /\ res # "ok" => regs = LastOp.regs
      /\ Finished({"MUL"}) => Wide(regs) = LastOp.regs.a * LastOp.src
      /\ Finished({"MUL"}) /\ size # "B" => flags \cap {"CF", "OF"} = When(regs.d # 0, "CF") \cup When(regs.d # 0, "OF")
      /\ Finished({"IMUL"}) =>
           /\ SignedWide(regs) = Signed(LastOp.regs.a) * Signed(LastOp.src)
           /\ ("CF" \in flags) = (SignedWide(regs) # Signed(regs.a))
      /\ Did(<<"MUL", "DIV">>) /\ past[1].src = past[2].src => regs = [Before EXCEPT !.d = 0]
      /\ Finished({"IMUL2", "IMULI"}) => Result = (Signed(From) * Signed(LastOp.src)) % Mod

\* Packed decimal numbers.
IsBCD(x) == x % 16 < 10 /\ x \div 16 < 10
Decimal(x) == (10 * (x \div 16)) + (x % 16)

\* After an adjustment sums and differences of decimal numbers in AL are
\* decimal again, with CF as carry or borrow into the next two digits; AAM
\* splits a number into digits that AAD puts together.
DecimalExact ==
  LET l == Before.a
      r == past[1].src
      c == IF past[1].op \in {"ADC", "SBB"} THEN Carry(past[1].flags) ELSE 0
      decimal == past[1].to = "a" /\ IsBCD(l) /\ IsBCD(r)
      ones == past[1].to = "a" /\ l < 10 /\ r < 10
      packed(n) == IsBCD(regs.a) /\ Decimal(regs.a) = n % 100 /\ ("CF" \in flags) = SumOutOf(0, 99, n)
      digits(n) == regs.a = n % 10 /\ regs.d = (Before.d + n \div 10) % 256
  IN  /\ (Did(<<"ADD", "DAA">>) \/ Did(<<"ADC", "DAA">>)) /\ decimal => packed(Decimal(l) + Decimal(r) + c)
      /\ (Did(<<"SUB", "DAS">>) \/ Did(<<"SBB", "DAS">>)) /\ decimal => packed(Decimal(l) - Decimal(r) - c)
      /\ Did(<<"ADD", "AAA">>) /\ ones => digits(l + r)
      /\ Did(<<"SUB", "AAS">>) /\ ones => digits(l - r)
      /\ Did(<<"AAM", "AAD">>) /\ r = past[2].src => regs = [Before EXCEPT !.d = 0]

=============================================================================
