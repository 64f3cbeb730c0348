------------------------------ MODULE RmeMoves ------------------------------
(***************************************************************************)
(* What the instructions of RmeOperands are for.  An address is given by   *)
(* the manual of the processor; a move is a set of copies that happen all  *)
(* at once.  The properties compare each instruction done with these.      *)
(***************************************************************************)
EXTENDS RmeOperands, Functions

-----------------------------------------------------------------------------
(* Effective addresses as the manual of the processor has them.            *)

SIB(i) == i.addr32 /\ Mmm(i) = 4
BaseReg(i) == IF SIB(i) THEN At(i, 2) % 8 ELSE Mmm(i)
NoBase(i) == Mod(i) = 0 /\ (IF i.addr32 THEN BaseReg(i) = 5 ELSE Mmm(i) = 6)
DispAt(i) == IF SIB(i) THEN 3 ELSE 2
DispSize(i) == IF Mod(i) = 1 THEN 1
               ELSE IF Mod(i) = 2 \/ NoBase(i) THEN IF i.addr32 THEN 4 ELSE 2
               ELSE 0
Disp(i) == CASE DispSize(i) = 0 -> 0
             [] DispSize(i) = 1 -> Imm8S(i, DispAt(i))
             [] DispSize(i) = 2 -> Num(Imm(i, DispAt(i), 2))
             [] DispSize(i) = 4 -> Imm32(i, DispAt(i))

StackBased(i) ==
  ~NoBase(i) /\ (IF i.addr32 THEN BaseReg(i) \in {SP, BP} ELSE Mmm(i) \in {2, 3, 6})
ManualSeg(i) == IF i.ovr # 0 THEN i.ovr - 1 ELSE IF StackBased(i) THEN SS ELSE DS

Index(m, i) ==
  LET r == (At(i, 2) \div 8) % 8
  IN  IF SIB(i) /\ r # 4 THEN D(m, r) * Scale(At(i, 2)) ELSE 0
ManualOfs(m, i) ==
  IF i.addr32
  THEN ((IF NoBase(i) THEN 0 ELSE D(m, BaseReg(i))) + Index(m, i) + Disp(i)) % DWord
  ELSE (Disp(i) + (IF Mmm(i) \in {0, 1, 7} THEN W(m, BX) ELSE 0)
                + (IF StackBased(i) THEN W(m, BP) ELSE 0)
                + (IF Mmm(i) \in {0, 2, 4} THEN W(m, SI) ELSE 0)
                + (IF Mmm(i) \in {1, 3, 5} THEN W(m, DI) ELSE 0)) % Word
ManualAddr(m, i) == Num(m.seg[ManualSeg(i)]) * 16 + ManualOfs(m, i)

\* Where this program departs from it: the segment of [BP+SI] and [BP+DI], and of
\* most 32-bit addresses on the stack; 32-bit displacements that are negative, wide
\* or next to a SIB byte; offsets past the segment's end; addresses past 1 MB.
OtherSegment(i) == i.ovr = 0 /\ StackBased(i) # (Mod(i) # 0 /\ Mmm(i) \in {2, 3, 6})
OtherDisp(i) ==
  /\ i.addr32
  /\ \/ Mod(i) = 1 /\ Disp(i) < 0
     \/ Mod(i) = 2 /\ Disp(i) >= Word
     \/ SIB(i) /\ DispSize(i) # 0
OtherAddr(m, i) == ManualOfs(m, i) + i.size > Word \/ ManualAddr(m, i) + i.size > 16 * Word

-----------------------------------------------------------------------------
(* What a move does, as copies between cells: bytes of registers ("r"), of *)
(* segment registers ("s"), of IP ("p"), of memory ("m"), literals ("v")   *)
(* and bytes that are read and dropped ("x").                              *)

RegCells(k, n) == IF n = 1 THEN <<<<"r", k % 4, IF k >= 4 THEN 2 ELSE 1>>>>
                  ELSE [b \in 1..n |-> <<"r", k, b>>]
SegCells(k) == [b \in 1..2 |-> <<"s", k, b>>]
MemCells(a, n) == [b \in 1..n |-> <<"m", a + b - 1>>]
Lit(v) == [b \in DOMAIN v |-> <<"v", v[b]>>]
IPCells == <<<<"p", 1>>, <<"p", 2>>>>
RefCells(r, n) == IF r.reg THEN RegCells(r.num, n) ELSE MemCells(AddrOf(r, n), n)
StackCells(m, k) == MemCells(Linear(Num(m.seg[SS]), (W(m, SP) + k) % Word), 2)

Cell(m, c) ==
  CASE c[1] = "r" -> m.gpr[c[2]][c[3]]
    [] c[1] = "s" -> m.seg[c[2]][c[3]]
    [] c[1] = "p" -> Bytes(m.ip, 2)[c[2]]
    [] c[1] = "m" -> Peek(m, c[2])
    [] c[1] = "v" -> c[2]

\* The encoded length behind the opcode.
ModRMLength(i) == IF Mod(i) = 3 THEN 1 ELSE DispAt(i) - 1 + DispSize(i)
Length(i) ==
  CASE i.op \in {"XCHG_Reg", "XLAT", "PUSH_Seg", "PUSH_Reg", "POP_Seg", "POP_Reg",
                 "PUSH_A", "POP_A"} -> 0
    [] i.op = "MOV_Reg" -> i.size
    [] i.op \in {"MOV_AMo", "MOV_MoA"} -> IF i.addr32 THEN 4 ELSE 2
    [] i.op = "PUSH_I" -> 2
    [] i.op = "PUSH_I8" -> 1
    [] i.op = "MOV_MI" -> ModRMLength(i) + i.size
    [] OTHER -> ModRMLength(i)

Copies(to, from) == {<<to[b], from[b]>> : b \in DOMAIN to}
Upper(cs) == IF Len(cs) = 4 THEN SubSeq(cs, 3, 4) ELSE <<>>

\* A number with 1 or -1 added, by words.
Added(v, by) ==
  LET low == IF Len(v) = 1 THEN (v[1] + by) % 256 ELSE (Num(v) + by) % Word
      carry == IF low = (IF by = 1 THEN 0 ELSE Word - 1) THEN by ELSE 0
  IN  IF Len(v) < 4 THEN Bytes(low, Len(v))
      ELSE Bytes(low, 2) \o Bytes((Num(SubSeq(v, 3, 4)) + carry) % Word, 2)

\* The copies an instruction consists of, all at once, but for SP; with the
\* operand it refers to, and its address if it is in memory.
MovesOf(m, i, n, ref, e) ==
  LET r == RegCells(Rrr(i), n)
      p == RegCells(i.param, n)
      far(k) == MemCells(Linear(Num(m.seg[e.seg]), e.ofs + k), 2)
      data(ofs) == MemCells(Linear(Num(m.seg[GetSegment(i, DS)]), ofs), n)
      back == Lit(Bytes((m.ip + i.pre + Length(i)) % Word, 2))
      inc(by) == Added([b \in 1..n |-> Cell(m, RefCells(ref, n)[b])], by)
      file == <<0, 1, 2, 3, SP, BP, SI, DI>>
      stack(k) == StackCells(m, k)
      upper(v) == IF n = 4 THEN Copies(stack(-2), v) ELSE {}
  IN  CASE i.op = "MOV_MR" -> Copies(RefCells(ref, n), r)
        [] i.op = "MOV_RM" -> Copies(r, RefCells(ref, n))
        [] i.op = "MOV_MI" -> Copies(RefCells(ref, n), Lit(Imm(i, Length(i) - n + 1, n)))
        [] i.op = "MOV_AMo" -> Copies(RegCells(AX, n), data(Moffs(i).ofs))
        [] i.op = "MOV_MoA" -> Copies(data(Moffs(i).ofs), RegCells(AX, n))
        [] i.op = "MOV_RS" -> Copies(RefCells(ref, 2), SegCells(Rrr(i)))
        [] i.op = "MOV_SR" -> Copies(SegCells(Rrr(i)), RefCells(ref, 2))
        [] i.op = "MOV_Reg" -> Copies(p, Lit(Imm(i, 1, n)))
        [] i.op = "MOV_Z" -> Copies(r, RefCells(ref, 1) \o Lit(<<0, 0, 0>>))
        [] i.op = "MOV_ZX" -> Copies(r, RefCells(ref, 2) \o Lit(<<0, 0>>))
        [] i.op = "XCHG_RM" -> Copies(RefCells(ref, n), r) \cup Copies(r, RefCells(ref, n))
        [] i.op = "XCHG_Reg" -> Copies(RegCells(AX, n), p) \cup Copies(p, RegCells(AX, n))
        [] i.op = "LxS" ->
             Copies(r, MemCells(Linear(Num(m.seg[e.seg]), e.ofs), n)) \cup Copies(SegCells(i.param), far(n))
        [] i.op = "LEA" -> Copies(r, Lit(Bytes(e.ofs, n)))
        [] i.op = "XLAT" ->
             Copies(RegCells(AX, 1), data((IF i.addr32 THEN D(m, BX) ELSE W(m, BX)) + m.gpr[AX][1]))
        [] i.op = "PUSH_Seg" -> Copies(stack(-2), SegCells(i.param))
        [] i.op = "POP_Seg" -> Copies(SegCells(i.param), stack(0))
        [] i.op = "PUSH_Reg" ->
             Copies(stack(-n), IF i.param = SP THEN Lit(Bytes((W(m, SP) - n) % Word, 2)) ELSE SubSeq(p, 1, 2))
               \cup upper(Upper(p))
        [] i.op = "POP_Reg" -> Copies(p, stack(0) \o stack(2))
        [] i.op = "PUSH_A" -> UNION {Copies(stack(-2 * b), RegCells(file[b], 2)) : b \in 1..8}
        [] i.op = "POP_A" -> UNION {Copies(RegCells(file[b], 2), stack(16 - 2 * b)) : b \in 1..8 \ {5}}
        [] i.op = "POP_MX" -> Copies(RefCells(ref, 2), stack(0))
        [] i.op = "PUSH_I" -> Copies(stack(-n), Lit(Imm(i, 1, 2))) \cup upper(Lit(<<0, 0>>))
        [] i.op = "PUSH_I8" ->
             LET sign == IF At(i, 1) >= 128 THEN 255 ELSE 0
             IN  Copies(stack(-n), Lit(<<At(i, 1), sign>>)) \cup upper(Lit(<<sign, sign>>))
        [] i.op = "INC" -> Copies(RefCells(ref, n), Lit(inc(1)))
        [] i.op = "DEC" -> Copies(RefCells(ref, n), Lit(inc(-1)))
        [] i.op = "PUSH_MX" ->
             Copies(stack(-2), SubSeq(RefCells(ref, n), 1, 2))
               \cup {<<<<"x", c>>, c>> : c \in Range(Upper(RefCells(ref, n)))}
        [] i.op = "CALL_N" -> Copies(IPCells, RefCells(ref, 2)) \cup Copies(stack(-2), back)
        [] i.op = "JMP_N" -> Copies(IPCells, RefCells(ref, 2))
        [] i.op = "CALL_F" -> Copies(IPCells, far(0)) \cup Copies(SegCells(1), far(2))
                              \cup Copies(stack(-2), SegCells(1)) \cup Copies(stack(-4), back)
        [] i.op = "JMP_F" -> Copies(IPCells, far(0)) \cup Copies(SegCells(1), far(2))
Moves(m, i) == MovesOf(m, i, i.size, DecodeModM(m, i), GetMMM(m, i))

-----------------------------------------------------------------------------
(* The properties look at the last instruction done.                       *)

Ran == past[Len(past)].instr
Was == past[Len(past)].before
Just(ops) == past # <<>> /\ Ran.op \in ops

\* A load, a store or LEA reaches the address of the manual, in whichever form of
\* ModRM and SIB it is written, but for the departures named above.
AddressExact ==
  /\ Just({"LEA"}) /\ ret = "ok" /\ ~OtherDisp(Ran) =>
       \A b \in 1..Ran.size : gpr[Rrr(Ran)][b] = Bytes(ManualOfs(Was, Ran), 4)[b]
  /\ (/\ Just({"MOV_MR", "MOV_RM"}) /\ ret = "ok" /\ Mod(Ran) # 3
      /\ ~OtherSegment(Ran) /\ ~OtherDisp(Ran) /\ ~OtherAddr(Was, Ran)) =>
       LET cells == MemCells(ManualAddr(Was, Ran), Ran.size)
           r == RegCells(Rrr(Ran), Ran.size)
       IN  \A b \in 1..Ran.size :
             IF Ran.op = "MOV_MR" THEN Cell(Machine, cells[b]) = Cell(Was, r[b])
                                  ELSE Cell(Machine, r[b]) = Cell(Was, cells[b])

SPCells == RegCells(SP, 2)
SPChange(i) ==
  CASE i.op \in {"PUSH_Reg", "PUSH_I", "PUSH_I8"} -> -i.size
    [] i.op \in {"PUSH_Seg", "PUSH_MX", "CALL_N"} -> -2
    [] i.op = "CALL_F" -> -4
    [] i.op = "PUSH_A" -> -16
    [] i.op = "POP_A" -> 16
    [] i.op = "POP_Reg" -> i.size
    [] i.op \in {"POP_Seg", "POP_MX"} -> 2
    [] OTHER -> 0

\* Every cell that may differ, IP left aside.
Cells ==
  {<<"r", k, b>> : k \in Regs, b \in 1..4} \cup {<<"s", k, b>> : k \in 0..5, b \in 1..2}
    \cup {<<"m", a>> : a \in DOMAIN mem}
Kept(cells) == \A c \in cells : Cell(Machine, c) = Cell(Was, c)

\* POP ESP reads the second word where the first one points: left out.
PopsESP == Ran.op = "POP_Reg" /\ Ran.param = SP /\ Wide(Ran)

\* An instruction that succeeds makes exactly the copies it stands for, as if all
\* at once: no other register and no other byte of memory changes, SP moves by
\* what was pushed or popped, and IP goes behind the last byte of the
\* instruction or to where it jumps.
MovesExact ==
  past # <<>> /\ ret = "ok" /\ ~PopsESP =>
    LET moves == Moves(Was, Ran)
        dst == {c[1] : c \in moves}
        sp == Bytes((W(Was, SP) + SPChange(Ran)) % Word, 2)
    IN  /\ \A c \in moves : c[1][1] # "x" => Cell(Machine, c[1]) = Cell(Was, c[2])
        /\ \A b \in 1..2 : SPCells[b] \in dst \/ gpr[SP][b] = sp[b]
        /\ Kept(Cells \ (dst \cup Range(SPCells)))
        /\ IPCells[1] \in dst \/ ip = (Was.ip + Ran.pre + Length(Ran)) % Word

\* A failing instruction leaves IP and whatever it does not write or pop alone, and
\* one the processor does not know leaves everything.  It fails for memory
\* exactly when a byte it reads has none or one it writes can not be written.
FaultsContained ==
  past # <<>> /\ ~PopsESP /\ (ret # "crash" \/ Rrr(Ran) <= 5) =>
    /\ ret = "undef" => Kept(Cells) /\ ip = Was.ip
    /\ ret # "undef" =>
         LET moves == Moves(Was, Ran)
             bad == \E c \in moves :
                      \/ c[1][1] = "m" /\ Block(c[1][2]) \in holes \cup roms
                      \/ c[2][1] = "m" /\ Block(c[2][2]) \in holes
         IN  /\ ret = IF bad THEN "badmem" ELSE "ok"
             /\ ret = "badmem" =>
                  ip = Was.ip /\ Kept(Cells \ (Range(SPCells) \cup {c[1] : c \in moves}))

\* A push and the pop after it, or PUSHA and POPA, leave SP where it was, and bring
\* back what was pushed, wherever in the stack segment SP wraps.
StackRestores ==
  Len(past) > 1 /\ ret = "ok" =>
    LET i == past[Len(past) - 1].instr
        m == past[Len(past) - 1].before
    IN  /\ i.op = "PUSH_A" /\ Ran.op = "POP_A" => gpr = m.gpr
        /\ (/\ i.op = "PUSH_Reg" /\ Ran.op = "POP_Reg" /\ i.size = Ran.size
            /\ SP \notin {i.param, Ran.param}) =>
             /\ ReadReg(Machine, Ran.param, i.size) = ReadReg(m, i.param, i.size)
             /\ gpr[SP] = m.gpr[SP]
        /\ i.op = "PUSH_Seg" /\ Ran.op = "POP_Seg" =>
             seg[Ran.param] = m.seg[i.param] /\ gpr[SP] = m.gpr[SP]

\* rme_internal.h says that a reference holds an address of 21 bits: a store must
\* reach memory above 1 MB.
RefsHold21Bits ==
  Just({"MOV_MR"}) /\ ret = "ok" /\ ~Ran.addr32 /\ Mod(Ran) # 3 =>
    LET e == GetMMM(Was, Ran)
    IN  Num(seg[e.seg]) * 16 + e.ofs \in DOMAIN mem
=============================================================================
