---------------------------- MODULE RmeOperands ----------------------------
(***************************************************************************)
(* Operands and the instructions that only move them: the ModRM and SIB    *)
(* addresses of rme.c, the references to registers and memory that it      *)
(* makes of them, and the moves of ops_mov.c, ops_stack.c and ops_misc.c   *)
(* with the indirect calls and jumps of rme.c.                             *)
(*                                                                         *)
(* A guest program is a short sequence of instructions, each with the      *)
(* bytes that follow its opcode.  One step is one instruction.  Data are   *)
(* sequences of bytes, lowest first; only addresses are numbers.  Memory   *)
(* is sparse: `mem' holds the bytes written so far.  `past' is history.    *)
(***************************************************************************)
EXTENDS Integers, Sequences

CONSTANTS
  Top,       \* values of the highest byte of a double word in an address:
             \* 256, and fewer where a sum must stay a number of TLC
  Programs,  \* sequences of instructions
  RegFiles,  \* EAX, ECX, EDX, EBX, ESP, EBP, ESI, EDI at the start
  SegFiles,  \* ES, CS, SS, DS, FS, GS at the start
  Holes,     \* the sets of blocks that may have no memory
  Roms       \* the sets of blocks whose Write fails

Byte == 0..255
Word == 65536
Block(a) == a \div 4096
DWord == 16777216 * Top

Regs == 0..7
AX == 0
BX == 3
SP == 4
BP == 5
SI == 6
DI == 7
ES == 0
SS == 2
DS == 3

\* `ovr' is OverrideSegment, `pre' the bytes up to the opcode, `code' those
\* behind it, `param' the register an opcode or a group names.  Some opcodes
\* have a form for bytes; those of the segment registers name one of six.
ByteForms == {"MOV_MR", "MOV_RM", "MOV_MI", "MOV_AMo", "MOV_MoA", "MOV_Reg", "XCHG_RM", "XLAT",
              "INC", "DEC"}
Instructions ==
  {i \in [op : STRING, size : {1, 2, 4}, addr32 : BOOLEAN, ovr : 0..6,
          pre : 1..4, code : Seq(Byte), param : 0..7] :
     /\ i.size = 1 => i.op \in ByteForms
     /\ i.op \in {"PUSH_Seg", "POP_Seg", "LxS"} => i.param \in 0..5}

ASSUME OperandAssumption ==
  /\ Top \in 1..256
  /\ Programs \subseteq Seq(Instructions)
  /\ RegFiles \subseteq [Regs -> [1..4 -> Byte]] /\ SegFiles \subseteq [0..5 -> [1..2 -> Byte]]
  /\ Holes \subseteq SUBSET Nat /\ Roms \subseteq SUBSET Nat

VARIABLES
  prog,   \* the instructions left
  gpr,    \* GPRs
  seg,    \* the segment registers
  ip,     \* IP
  mem,    \* the bytes of memory that have been written
  holes, roms, \* blocks without memory; that cannot be written
  ret,    \* what the last instruction returned; "crash": the host is gone
  past    \* history: the instructions done, each with the machine before it,
          \* the address of its memory operand and the bytes it consumed

vars == <<prog, gpr, seg, ip, mem, holes, roms, ret, past>>

\* What an instruction works on: the machine, with what it returns so far.
Machine == [gpr |-> gpr, seg |-> seg, ip |-> ip, mem |-> mem, ret |-> "ok"]

Num(v) == v[1] + 256 * v[2]
Bytes(x, n) == [b \in 1..n |-> (x \div <<1, 256, 65536, 16777216>>[b]) % 256]
Ext(v, n, fill) == [b \in 1..n |-> IF b <= Len(v) THEN v[b] ELSE fill]

\* Registers as the addresses of 16 and 32 bits see them.
W(m, r) == Num(m.gpr[r])
D(m, r) == W(m, r) + 65536 * m.gpr[r][3] + 16777216 * (m.gpr[r][4] % Top)

\* READ_INSTR at position p of the bytes behind the opcode.  What follows the
\* instruction is no concern of its own: NOPs.
At(i, p) == IF p \in DOMAIN i.code THEN i.code[p] ELSE 144
Imm(i, p, n) == [b \in 1..n |-> At(i, p + b - 1)]
Imm8S(i, p) == IF At(i, p) < 128 THEN At(i, p) ELSE At(i, p) - 256
Imm32(i, p) == Num(Imm(i, p, 2)) + 65536 * At(i, p + 2) + 16777216 * (At(i, p + 3) % Top)

\* RME_Int_GetModRM.
Mod(i) == At(i, 1) \div 64
Rrr(i) == (At(i, 1) \div 8) % 8
Mmm(i) == At(i, 1) % 8

-----------------------------------------------------------------------------
(* Effective addresses.  `next' is the position of the next byte to read.  *)

GetSegment(i, default) == IF i.ovr = 0 THEN default ELSE i.ovr - 1

\* The registers of a 16-bit address.
Summed == <<{BX, SI}, {BX, DI}, {BP, SI}, {BP, DI}, {SI}, {DI}, {BP}, {BX}>>
Sum16(m, rs) == LET part(r) == IF r \in rs THEN W(m, r) ELSE 0
                IN  part(BX) + part(BP) + part(SI) + part(DI)

\* Without a displacement mmm has bit 3 set, which only its low bits are
\* masked for: the test for SS does not match then.
DefaultSegment(i) == IF Mod(i) # 0 /\ Mmm(i) \in {2, 3, 6} THEN SS ELSE DS

\* Mutant: the sum does not wrap.
DoFuncWide(m, i, disp, p) ==
  LET direct == Mod(i) = 0 /\ Mmm(i) = 6
  IN  [seg |-> GetSegment(i, DefaultSegment(i)),
       ofs |-> IF direct THEN Num(Imm(i, p, 2)) ELSE Sum16(m, Summed[Mmm(i) + 1]) + disp,
       next |-> IF direct THEN p + 2 ELSE p]

DoFunc(m, i, disp, p) ==
  LET direct == Mod(i) = 0 /\ Mmm(i) = 6
      addr == IF direct THEN Num(Imm(i, p, 2)) ELSE Sum16(m, Summed[Mmm(i) + 1]) + disp
  IN  [seg |-> GetSegment(i, DefaultSegment(i)), ofs |-> addr % Word,
       next |-> IF direct THEN p + 2 ELSE p]

Scale(sib) == <<1, 2, 4, 8>>[(sib \div 64) + 1]

\* The SIB byte is read here, behind the displacement; a base of 5 without
\* displacement reads 32 bits it does not add.
DoFunc32(m, i, disp, p) ==
  LET none == Mod(i) = 0
      sib == At(i, p)
      index == (sib \div 8) % 8
      base == sib % 8
      scaled == IF index = 4 THEN 0 ELSE (D(m, index) * Scale(sib)) % DWord
      addr == CASE Mmm(i) = 4 -> scaled + (IF base = 5 /\ none THEN 0 ELSE D(m, base))
                [] Mmm(i) = 5 /\ none -> Imm32(i, p)
                [] OTHER -> D(m, Mmm(i))
      read == CASE Mmm(i) = 4 -> IF base = 5 /\ none THEN 5 ELSE 1
                [] Mmm(i) = 5 /\ none -> 4
                [] OTHER -> 0
  IN  [seg |-> GetSegment(i, DefaultSegment(i)), ofs |-> (addr + disp) % DWord, next |-> p + read]

\* RME_Int_GetMMM, whose displacement has 16 bits whatever the form.
Displacement(i) ==
  CASE Mod(i) = 0 -> 0 [] Mod(i) = 1 -> Imm8S(i, 2) % Word [] Mod(i) = 2 -> Num(Imm(i, 2, 2))
Behind(i) ==
  CASE Mod(i) = 0 -> 2 [] Mod(i) = 1 -> 3 [] Mod(i) = 2 -> IF i.addr32 THEN 6 ELSE 4
GetMMM(m, i) == IF i.addr32 THEN DoFunc32(m, i, Displacement(i), Behind(i))
                            ELSE DoFunc(m, i, Displacement(i), Behind(i))

-----------------------------------------------------------------------------
(* References.  A struct ValueRef holds a register number, or a linear     *)
(* address in 24 bits from which segment and offset are made again.        *)

Register(num, p) == [reg |-> TRUE, num |-> num, wrap |-> FALSE, lin |-> 0, next |-> p]

Memory(m, e) == [reg |-> FALSE, num |-> 0, wrap |-> e.ofs >= 65520,
                 lin |-> (Num(m.seg[e.seg]) * 16 + e.ofs) % 16777216, next |-> e.next]

\* RME_Int_DecodeModM and RME_Int_DecodeModMX.
DecodeModM(m, i) == IF Mod(i) = 3 THEN Register(Mmm(i), 2) ELSE Memory(m, GetMMM(m, i))

\* Where RME_Int_ReadBytes goes for a segment and an offset of 16 bits each.
Linear(s, o) == s * 16 + (o % Word)

\* _recreate_ptr.  The segment it makes has 16 bits.
RecreatePtr(r) ==
  LET ofs == 65520 + (r.lin % 16)
  IN  IF r.wrap THEN Linear(((r.lin - ofs) \div 16) % Word, ofs)
               ELSE Linear((r.lin \div 16) % Word, r.lin % 16)

\* The address of a reference to n bytes; those to one byte are made by
\* RME_Int_ReadV8 and WriteV8.
AddrOf(r, n) ==
  IF n = 1 THEN Linear(((r.lin \div 65536) * 4096) % Word, r.lin % Word) ELSE RecreatePtr(r)

-----------------------------------------------------------------------------
(* Reading and writing.  An access stops at a block that has no memory,    *)
(* and a write at one that cannot be written.                              *)

\* What memory holds at the start: near bytes differ.
Content(a) == (a + (a \div 256) + (a \div 65536)) % 256
Peek(m, a) == IF a \in DOMAIN m.mem THEN m.mem[a] ELSE Content(a)

\* How many of n bytes an access gets done.
Reached(a, n, bad) ==
  CASE Block(a) \in bad -> 0
    [] Block(a) \notin bad /\ Block(a + n - 1) \in bad -> 4096 - (a % 4096)
    [] OTHER -> n

Failed(m, why) == [m EXCEPT !.ret = why]
Then(m, n) == IF m.ret = "ok" THEN n ELSE m

MemRead(m, a, n) ==
  [ret |-> IF Reached(a, n, holes) = n THEN "ok" ELSE "badmem",
   v |-> [b \in 1..n |-> Peek(m, a + b - 1)]]

\* A read straight into a register, which keeps what was read before a fault.
MemReadInto(old, m, a, n) ==
  [b \in DOMAIN old |-> IF b <= Reached(a, n, holes) THEN Peek(m, a + b - 1) ELSE old[b]]

MemWrite(m, a, v) ==
  LET k == Reached(a, Len(v), holes \cup roms)
  IN  [m EXCEPT !.mem = [x \in DOMAIN @ \cup (a .. a + k - 1) |->
                               IF x \in a .. a + k - 1 THEN v[x - a + 1] ELSE @[x]],
                !.ret = IF k = Len(v) THEN @ ELSE "badmem"]

\* RegB and RegW: registers 4 to 7 of one byte are AH, CH, DH, BH.
ReadReg(m, r, n) ==
  IF n = 1 THEN <<IF r >= 4 THEN m.gpr[r - 4][2] ELSE m.gpr[r][1]>> ELSE SubSeq(m.gpr[r], 1, n)
SetReg(m, r, v) ==
  IF Len(v) = 1
  THEN [m EXCEPT !.gpr[r % 4][IF r >= 4 THEN 2 ELSE 1] = v[1]]
  ELSE [m EXCEPT !.gpr[r] = [b \in 1..4 |-> IF b <= Len(v) THEN v[b] ELSE @[b]]]

\* RME_Int_ReadV8, 16, 32 and WriteV8, 16, 32.
ReadV(m, r, n) ==
  IF r.reg THEN [ret |-> "ok", v |-> ReadReg(m, r.num, n)] ELSE MemRead(m, AddrOf(r, n), n)
WriteV(m, r, v) == IF r.reg THEN SetReg(m, r.num, v) ELSE MemWrite(m, AddrOf(r, Len(v)), v)

\* Mutant: the value is written even when it could not be read.
CopiedAnyway(m, dst, src, n) == WriteV(m, dst, ReadV(m, src, n).v)

\* Read, then write: what most moves are.
WriteIfRead(m, dst, x) == IF x.ret = "ok" THEN WriteV(m, dst, x.v) ELSE Failed(m, x.ret)
Copied(m, dst, src, n) == WriteIfRead(m, dst, ReadV(m, src, n))

\* PUSH and POP.  The value of a PUSH is taken when SP has moved.
StackTop(m) == Linear(Num(m.seg[SS]), W(m, SP))
SPMoved(m, by) == SetReg(m, SP, Bytes((W(m, SP) + by) % Word, 2))
Push(m, v) ==
  IF m.ret # "ok" THEN m ELSE LET l == SPMoved(m, -2) IN MemWrite(l, StackTop(l), v)
PushReg(m, r, b) == Push(m, SubSeq(SPMoved(m, -2).gpr[r], b, b + 1))

\* A word goes to byte b of a register and the one above it.
SetHalf(m, r, b, v) == [m EXCEPT !.gpr[r][b] = v[1], !.gpr[r][b + 1] = v[2]]

\* The word x is what the stack has on top, if that can be read.
PopTo(m, x, r, b) ==
  Then(m, IF x.ret = "ok" THEN SetHalf(SPMoved(m, 2), r, b, x.v) ELSE Failed(m, x.ret))

\* Mutant: SP stays where it is.
PopRegStill(m, r, b) ==
  LET x == MemRead(m, StackTop(m), 2)
  IN  Then(m, IF x.ret = "ok" THEN SetHalf(m, r, b, x.v) ELSE Failed(m, x.ret))

PopReg(m, r, b) == PopTo(m, MemRead(m, StackTop(m), 2), r, b)

-----------------------------------------------------------------------------
(* A program runs until it is over or an instruction fails.                *)

Init ==
  /\ prog \in Programs /\ gpr \in RegFiles /\ seg \in SegFiles
  /\ ip = 65534 /\ mem = <<>> /\ ret = "ok" /\ past = <<>>
  /\ holes \in Holes /\ roms \in Roms

Runs(op) == prog # <<>> /\ ret = "ok" /\ Head(prog).op = op
Instr == Head(prog)

\* The instruction leaves m and goes on at `to'; a failure leaves IP alone.
DoneAt(m, to) ==
  /\ gpr' = m.gpr /\ seg' = m.seg /\ mem' = m.mem /\ ret' = m.ret
  /\ ip' = IF m.ret = "ok" THEN to ELSE ip
  /\ prog' = Tail(prog)
  /\ past' = Append(past, [instr |-> Instr, before |-> Machine])
  /\ UNCHANGED <<holes, roms>>

\* IP behind the instruction, whose next byte would be at position `next'.
After(next) == (ip + Instr.pre + next - 1) % Word
Done(m, next) == DoneAt(m, After(next))

Undefined == Failed(Machine, "undef")
Wide(i) == i.size = 4

\* The references of a ModRM byte.
MemRef == DecodeModM(Machine, Instr)
RegRef == Register(Rrr(Instr), 0)

-----------------------------------------------------------------------------
(* ops_mov.c.  One action stands for the byte form and the word form.      *)

MOV_MR == Runs("MOV_MR") /\ Done(Copied(Machine, MemRef, RegRef, Instr.size), MemRef.next)
MOV_RM == Runs("MOV_RM") /\ Done(Copied(Machine, RegRef, MemRef, Instr.size), MemRef.next)

MOV_MI ==
  /\ Runs("MOV_MI")
  /\ Done(WriteV(Machine, MemRef, Imm(Instr, MemRef.next, Instr.size)), MemRef.next + Instr.size)

\* The offset of MOV between A and memory.  A read goes into the register itself.
Moffs(i) == IF i.addr32 THEN [ofs |-> Imm32(i, 1), next |-> 5]
                        ELSE [ofs |-> Num(Imm(i, 1, 2)), next |-> 3]
DataAt(ofs) == Linear(Num(seg[GetSegment(Instr, DS)]), ofs)
LoadReg(m, r, a, n) ==
  [SetReg(m, r, MemReadInto(ReadReg(m, r, n), m, a, n)) EXCEPT !.ret = MemRead(m, a, n).ret]

MOV_AMo ==
  /\ Runs("MOV_AMo")
  /\ Done(LoadReg(Machine, AX, DataAt(Moffs(Instr).ofs), Instr.size), Moffs(Instr).next)

MOV_MoA ==
  /\ Runs("MOV_MoA")
  /\ LET o == Moffs(Instr)
     IN  Done(MemWrite(Machine, DataAt(o.ofs), ReadReg(Machine, AX, Instr.size)), o.next)

\* Seg() gives NULL for 6 and 7, and the host dies when it uses that.
MOV_RS ==
  /\ Runs("MOV_RS")
  /\ Done(IF Wide(Instr) THEN Undefined
          ELSE IF Rrr(Instr) > 5 THEN Failed(Machine, "crash")
          ELSE WriteV(Machine, MemRef, seg[Rrr(Instr)]), MemRef.next)

LoadSeg(m, s, a) ==
  [m EXCEPT !.seg[s] = MemReadInto(@, m, a, 2), !.ret = MemRead(m, a, 2).ret]

\* The read goes straight into the segment register.
MOV_SR ==
  /\ Runs("MOV_SR")
  /\ LET a == AddrOf(MemRef, 2)
         s == Rrr(Instr)
     IN  Done(IF Wide(Instr) THEN Undefined
              ELSE IF s > 5 THEN Failed(Machine, IF ~MemRef.reg /\ Reached(a, 2, holes) = 0
                                                 THEN "badmem" ELSE "crash")
              ELSE IF MemRef.reg THEN [Machine EXCEPT !.seg[s] = ReadReg(Machine, MemRef.num, 2)]
              ELSE LoadSeg(Machine, s, a), MemRef.next)

\* MOV RegB and MOV Reg.
MOV_Reg ==
  Runs("MOV_Reg") /\ Done(SetReg(Machine, Instr.param, Imm(Instr, 1, Instr.size)), Instr.size + 1)

\* MOVZX from n bytes.
Extended(n) ==
  LET x == ReadV(Machine, MemRef, n)
  IN  IF x.ret = "ok" THEN SetReg(Machine, Rrr(Instr), Ext(x.v, Instr.size, 0))
      ELSE Failed(Machine, x.ret)
MOV_Z  == Runs("MOV_Z")  /\ Done(Extended(1), MemRef.next)
MOV_ZX == Runs("MOV_ZX") /\ Done(Extended(2), MemRef.next)

\* Mutant: the second read sees the first write.
XCHG_RMLate ==
  /\ Runs("XCHG_RM")
  /\ LET l == Copied(Machine, RegRef, MemRef, Instr.size)
     IN  Done(Then(l, Copied(l, MemRef, RegRef, Instr.size)), MemRef.next)

\* Both are read, then the register is written and then memory.
XCHG_RM ==
  /\ Runs("XCHG_RM")
  /\ LET r == ReadReg(Machine, Rrr(Instr), Instr.size)
         l == Copied(Machine, RegRef, MemRef, Instr.size)
     IN  Done(Then(l, WriteV(l, MemRef, r)), MemRef.next)

XCHG_Reg ==
  /\ Runs("XCHG_Reg")
  /\ LET l == SetReg(Machine, AX, ReadReg(Machine, Instr.param, Instr.size))
     IN  Done(SetReg(l, Instr.param, ReadReg(Machine, AX, Instr.size)), 1)

-----------------------------------------------------------------------------
(* ops_misc.c.                                                             *)

\* LES, LSS, LDS, LFS and LGS, whose segment register is `param'.  A fault at the
\* segment leaves the new offset in its register.
LxS ==
  /\ Runs("LxS")
  /\ IF Mod(Instr) = 3 THEN Done(Undefined, 2)
     ELSE LET e == GetMMM(Machine, Instr)
              s == Num(seg[e.seg])
              l == LoadReg(Machine, Rrr(Instr), Linear(s, e.ofs), Instr.size)
          IN  Done(Then(l, LoadSeg(l, Instr.param, Linear(s, e.ofs + Instr.size))), e.next)

LEA ==
  /\ Runs("LEA")
  /\ IF Mod(Instr) = 3 THEN Done(Undefined, 2)
     ELSE LET e == GetMMM(Machine, Instr)
          IN  Done(SetReg(Machine, Rrr(Instr), Bytes(e.ofs, Instr.size)), e.next)

XLAT ==
  /\ Runs("XLAT")
  /\ LET base == IF Instr.addr32 THEN D(Machine, BX) ELSE W(Machine, BX)
     IN  Done(LoadReg(Machine, AX, DataAt(base + gpr[AX][1]), 1), 1)

-----------------------------------------------------------------------------
(* ops_stack.c.  Words only: a wide operand is pushed as two, upper first. *)

PUSH_Seg == Runs("PUSH_Seg") /\ Done(Push(Machine, seg[Instr.param]), 1)

PUSH_Reg ==
  /\ Runs("PUSH_Reg")
  /\ LET l == IF Wide(Instr) THEN PushReg(Machine, Instr.param, 3) ELSE Machine
     IN  Done(PushReg(l, Instr.param, 1), 1)

POP_Seg ==
  /\ Runs("POP_Seg")
  /\ LET x == MemRead(Machine, StackTop(Machine), 2)
     IN  Done(IF x.ret = "ok" THEN [SPMoved(Machine, 2) EXCEPT !.seg[Instr.param] = x.v]
              ELSE Failed(Machine, x.ret), 1)

POP_Reg ==
  /\ Runs("POP_Reg")
  /\ LET l == PopReg(Machine, Instr.param, 1)
     IN  Done(IF Wide(Instr) THEN PopReg(l, Instr.param, 3) ELSE l, 1)

\* SP is pushed as it was before.
PUSH_A ==
  /\ Runs("PUSH_A")
  /\ LET bx == PushReg(PushReg(PushReg(PushReg(Machine, 0, 1), 1, 1), 2, 1), BX, 1)
         sp == Push(bx, SubSeq(gpr[SP], 1, 2))
     IN  Done(IF Wide(Instr) THEN Undefined
              ELSE PushReg(PushReg(PushReg(sp, BP, 1), SI, 1), DI, 1), 1)

\* SP itself is passed over.
POP_A ==
  /\ Runs("POP_A")
  /\ LET bp == PopReg(PopReg(PopReg(Machine, DI, 1), SI, 1), BP, 1)
         sp == Then(bp, SPMoved(bp, 2))
     IN  Done(IF Wide(Instr) THEN Undefined
              ELSE PopReg(PopReg(PopReg(PopReg(sp, BX, 1), 2, 1), 1, 1), 0, 1), 1)

\* The address is made before SP moves.  A wide one is refused after that.
POP_MX ==
  /\ Runs("POP_MX")
  /\ LET x == MemRead(Machine, StackTop(Machine), 2)
     IN  Done(IF Wide(Instr) THEN Undefined
              ELSE IF x.ret # "ok" THEN Failed(Machine, x.ret)
              ELSE WriteV(SPMoved(Machine, 2), MemRef, x.v), MemRef.next)

\* The immediate has 16 bits even when 32 are pushed.
PUSH_I ==
  /\ Runs("PUSH_I")
  /\ Done(Push(IF Wide(Instr) THEN Push(Machine, <<0, 0>>) ELSE Machine, Imm(Instr, 1, 2)), 3)

PUSH_I8 ==
  /\ Runs("PUSH_I8")
  /\ LET v == Ext(Imm(Instr, 1, 1), 4, IF At(Instr, 1) < 128 THEN 0 ELSE 255)
         l == IF Wide(Instr) THEN Push(Machine, SubSeq(v, 3, 4)) ELSE Machine
     IN  Done(Push(l, SubSeq(v, 1, 2)), 2)

-----------------------------------------------------------------------------
(* The groups of opcodes FE and FF, in rme.c.  Flags are left out here.    *)

\* Adding one, or taking one, carries as far as the bytes before are all full.
Stepped(v, full, by) ==
  [b \in DOMAIN v |-> IF \A c \in 1 .. b - 1 : v[c] = full THEN (v[b] + by) % 256 ELSE v[b]]

Unary_IncDec(op, full, by) ==
  /\ Runs(op)
  /\ LET x == ReadV(Machine, MemRef, Instr.size)
     IN  Done(IF x.ret = "ok" THEN WriteV(Machine, MemRef, Stepped(x.v, full, by))
              ELSE Failed(Machine, x.ret), MemRef.next)
Unary_INC == Unary_IncDec("INC", 255, 1)
Unary_DEC == Unary_IncDec("DEC", 0, 255)

\* FF /6.  Of a wide operand only the lower half is pushed.
Unary_PUSH ==
  /\ Runs("PUSH_MX")
  /\ LET x == ReadV(Machine, MemRef, Instr.size)
     IN  Done(IF x.ret = "ok" THEN Push(Machine, SubSeq(x.v, 1, 2)) ELSE Failed(Machine, x.ret),
              MemRef.next)

\* FF /2 and /4: the value read is the new IP.
Unary_CALL_N ==
  /\ Runs("CALL_N")
  /\ IF Wide(Instr) THEN Done(Undefined, 1)
     ELSE LET x == ReadV(Machine, MemRef, 2)
          IN  DoneAt(IF x.ret = "ok" THEN Push(Machine, Bytes(After(MemRef.next), 2))
                     ELSE Failed(Machine, x.ret), Num(x.v))
Unary_JMP_N ==
  /\ Runs("JMP_N")
  /\ IF Wide(Instr) THEN Done(Undefined, 1)
     ELSE LET x == ReadV(Machine, MemRef, 2) IN DoneAt(Failed(Machine, x.ret), Num(x.v))

\* RME_Int_ParseModRMX_FarPtr: IP, then CS at the offset after it.
FarAt(e) ==
  LET to == MemRead(Machine, Linear(Num(seg[e.seg]), e.ofs), 2)
      cs == MemRead(Machine, Linear(Num(seg[e.seg]), e.ofs + 2), 2)
  IN  [ret |-> IF to.ret = "ok" THEN cs.ret ELSE to.ret,
       ip |-> Num(to.v), cs |-> cs.v, next |-> e.next]
FarPtr(i) == IF Mod(i) = 3 THEN [ret |-> "undef"] ELSE FarAt(GetMMM(Machine, i))

\* FF /3 and /5.  m is the machine when all is pushed.
FarTransfer(f, m) ==
  IF Wide(Instr) THEN Done(Undefined, 1)
  ELSE IF f.ret # "ok" THEN Done(Failed(Machine, f.ret), 1)
  ELSE DoneAt(Then(m, [m EXCEPT !.seg[1] = f.cs]), f.ip)
Unary_CALL_F ==
  /\ Runs("CALL_F")
  /\ LET f == FarPtr(Instr)
     IN  FarTransfer(f, Push(Push(Machine, seg[1]), Bytes(After(f.next), 2)))
Unary_JMP_F == Runs("JMP_F") /\ FarTransfer(FarPtr(Instr), Machine)

Next ==
  \/ MOV_MR \/ MOV_RM \/ MOV_MI \/ MOV_AMo \/ MOV_MoA \/ MOV_RS \/ MOV_SR \/ MOV_Reg
  \/ MOV_Z \/ MOV_ZX \/ XCHG_RM \/ XCHG_Reg \/ LxS \/ LEA \/ XLAT
  \/ PUSH_Seg \/ PUSH_Reg \/ POP_Seg \/ POP_Reg \/ PUSH_A \/ POP_A \/ POP_MX \/ PUSH_I \/ PUSH_I8
  \/ Unary_INC \/ Unary_DEC \/ Unary_PUSH
  \/ Unary_CALL_N \/ Unary_JMP_N \/ Unary_CALL_F \/ Unary_JMP_F

Spec == Init /\ [][Next]_vars
=============================================================================
