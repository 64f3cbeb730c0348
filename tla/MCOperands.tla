----------------------------- MODULE MCOperands -----------------------------
(***************************************************************************)
(* Every form of a 16-bit address and the 32-bit ones with and without SIB *)
(* byte, with every kind of displacement; every instruction on a few       *)
(* operands; pushes and pops in pairs.  The registers of the second file   *)
(* make sums wrap, SP cross 0 and the bytes of a number carry.  Segments   *)
(* lie so that operands and the stack straddle blocks and 1 MB.            *)
(***************************************************************************)
EXTENDS RmeMoves

I(op, size, code) ==
  [op |-> op, size |-> size, addr32 |-> FALSE, ovr |-> 0, pre |-> 1, code |-> code, param |-> 0]
ModRM(mod, rrr, mmm) == mod * 64 + rrr * 8 + mmm

\* Displacements behind ModRM: small, negative, large.
Tails == {<<16, 1, 0, 0, 7>>, <<240, 255, 255, 255, 9>>}
Forms16 == {<<ModRM(mod, r, mmm)>> \o t : mod \in 0..2, r \in {2}, mmm \in 0..7, t \in Tails}
Forms32 ==
  {<<ModRM(mod, 7, mmm)>> \o t : mod \in 0..2, mmm \in Regs \ {4}, t \in Tails}
    \cup {<<ModRM(mod, 7, 4), sib>> \o t : mod \in 0..2, t \in Tails,
                                           sib \in {8, 75, 221, 36, 101, 182}}
Addressing ==
  {[I(op, size, c) EXCEPT !.ovr = o] : op \in {"LEA", "MOV_RM", "MOV_MR"}, size \in {2, 4},
                                       c \in Forms16, o \in {0, 6}}
    \cup {[I(op, 2, c) EXCEPT !.addr32 = TRUE, !.pre = 2] :
            op \in {"LEA", "MOV_RM", "MOV_MR"}, c \in Forms32}

\* Operands: [BX], [BX+15] behind a segment prefix, a register.
Operands == {<<ModRM(0, 1, 7)>>, <<ModRM(1, 6, 7), 15>>, <<ModRM(3, 5, 3)>>}
Rest == <<255, 0, 18, 52, 86>>
OnModRM ==
  {I(op, size, c \o Rest) :
     op \in {"MOV_MR", "MOV_RM", "MOV_MI", "XCHG_RM", "INC", "DEC"},
     size \in {1, 2, 4}, c \in Operands}
    \cup {I(op, size, c) : op \in {"MOV_Z", "MOV_ZX", "LEA", "MOV_RS", "MOV_SR", "POP_MX", "PUSH_MX",
                                  "CALL_N", "JMP_N", "CALL_F", "JMP_F"},
                           size \in {2, 4}, c \in Operands}
    \cup {[I("LxS", size, c) EXCEPT !.param = s] : size \in {2, 4}, c \in Operands, s \in {SS, DS}}
OnA ==
  {[I(op, size, Rest) EXCEPT !.addr32 = l] : op \in {"MOV_AMo", "MOV_MoA", "XLAT"},
                                             size \in {1, 2, 4}, l \in BOOLEAN}
OnReg ==
  {[I(op, size, Rest) EXCEPT !.param = r] :
     op \in {"MOV_Reg", "XCHG_Reg", "PUSH_Reg", "POP_Reg"}, size \in {2, 4}, r \in {0, 3, 4}}
    \cup {[I(op, 2, <<>>) EXCEPT !.param = s] : op \in {"PUSH_Seg", "POP_Seg"}, s \in {SS, 5}}
    \cup {[I("MOV_Reg", 1, Rest) EXCEPT !.param = r] : r \in {1, 6}}
    \cup {I(op, size, <<128, 200>>) : op \in {"PUSH_I", "PUSH_I8", "PUSH_A", "POP_A"},
                                           size \in {2, 4}}

Pair(a, b, size, p, q) ==
  <<[I(a, size, <<>>) EXCEPT !.param = p], [I(b, size, <<>>) EXCEPT !.param = q]>>
Pairs ==
  {Pair("PUSH_Reg", "POP_Reg", size, p, q) : size \in {2, 4}, p \in {0, 6}, q \in {0, 3}}
    \cup {Pair("PUSH_Seg", "POP_Seg", 2, 2, 0), Pair("PUSH_A", "POP_A", 2, 0, 0)}

MCPrograms == {<<i>> : i \in Addressing \cup OnModRM \cup OnA \cup OnReg} \cup Pairs

\* Words of a register file and of the segments.
R(l, h) == <<l % 256, l \div 256, h % 256, h \div 256>>
S(l) == <<l % 256, l \div 256>>
File(f) == [r \in Regs |-> f[r + 1]]
Segs(f) == [s \in 0..5 |-> S(f[s + 1])]

MCRegFiles ==
  {File(<<R(513, 0), R(772, 0), R(16, 0), R(4080, 0), R(4098, 0), R(512, 0), R(31, 0), R(1536, 0)>>),
   File(<<R(65535, 1027), R(8, 9), R(4369, 770), R(65521, 1), R(1, 2), R(65534, 0), R(250, 3), R(65535, 258)>>),
   File(<<R(65535, 65535), R(8, 9), R(0, 0), R(4081, 0), R(65535, 2), R(0, 0), R(60000, 3), R(255, 0)>>)}
MCSegFiles == {Segs(<<4096, 8192, 12288, 16384, 20483, 65535>>), Segs(<<4096, 8192, 65520, 61696, 20483, 0>>)}
MCHoles == {{}, {65}, {48, 256}}
MCRoms == {{}, {64}}
=============================================================================
