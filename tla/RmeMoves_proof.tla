--------------------------- MODULE RmeMoves_proof ---------------------------
(***************************************************************************)
(* What RmeMoves states, for every program over Instructions, every start  *)
(* of the registers and every size of the memory.                          *)
(*                                                                         *)
(* An instruction is followed through the cells it copies: Wrote is what   *)
(* one write does to the machine, Frame says which cells a sequence of     *)
(* them may have changed, and Exact collects both over the whole           *)
(* instruction.  Each action is shown Exact on its own; MovesInv, the type *)
(* invariant and Exact of the last instruction, is inductive.  PairsInv    *)
(* adds that the machine after the first of two instructions in a row is   *)
(* the one before the second, which is what the round trips through the    *)
(* stack rest on.                                                          *)
(***************************************************************************)
EXTENDS RmeMoves, SequenceTheorems, TLAPS

-----------------------------------------------------------------------------
(* Types.                                                                  *)

Offsets == {w \in Nat : w < 65536}
Values(n) == [1..n -> Byte]
Mems == UNION {[A -> Byte] : A \in SUBSET Nat}
Machines == [gpr : [Regs -> Values(4)], seg : [0..5 -> Values(2)], ip : Offsets,
             mem : Mems, ret : {"ok", "badmem", "undef", "crash"}]

\* A value is a sequence of as many bytes.
LEMMA ValueIsSeq ==
  ASSUME NEW n \in Nat, NEW v \in Values(n)
  PROVE  v \in Seq(Byte) /\ Len(v) = n /\ DOMAIN v = 1..n /\ \A b \in 1..n : v[b] \in Byte
<1>1. v \in Seq(Byte)
  BY SeqDef DEF Values
<1>2. DOMAIN v = 1..n /\ \A b \in 1..n : v[b] \in Byte
  BY DEF Values
<1>3. Len(v) = n
  BY <1>1, <1>2, LenProperties
<1> QED
  BY <1>1, <1>2, <1>3

\* A part of a value is a value, with the bytes of that part.
LEMMA PartOfValue ==
  ASSUME NEW n \in 1..4, NEW v \in Values(n), NEW p \in 1..n, NEW q \in p..n
  PROVE  /\ SubSeq(v, p, q) \in Values(q - p + 1)
         /\ \A b \in 1 .. q - p + 1 : SubSeq(v, p, q)[b] = v[p + b - 1]
<1>1. v \in Seq(Byte) /\ Len(v) = n /\ \A b \in 1..n : v[b] \in Byte
  BY ValueIsSeq
<1>2. /\ SubSeq(v, p, q) \in Seq(Byte)
      /\ Len(SubSeq(v, p, q)) = q - p + 1
      /\ \A b \in 1 .. q - p + 1 : SubSeq(v, p, q)[b] = v[p + b - 1]
  BY <1>1, SubSeqProperties
<1>3. DOMAIN SubSeq(v, p, q) = 1 .. q - p + 1
  BY <1>2, LenProperties
<1>4. \A b \in 1 .. q - p + 1 : SubSeq(v, p, q)[b] \in Byte
  BY <1>1, <1>2
<1>5. SubSeq(v, p, q) = [b \in 1 .. q - p + 1 |-> SubSeq(v, p, q)[b]]
  BY <1>2, <1>3
<1> QED
  BY <1>2, <1>3, <1>4, <1>5 DEF Values

\* The bytes of a number.
LEMMA BytesType ==
  ASSUME NEW x \in Nat, NEW n \in 1..4
  PROVE  /\ Bytes(x, n) \in Values(n)
         /\ \A b \in 1..n : Bytes(x, n)[b] = Bytes(x, 4)[b]
         /\ Bytes(x, n)[1] = x % 256
         /\ n >= 2 => Bytes(x, n)[2] = (x \div 256) % 256
<1>1. ASSUME NEW b \in 1..4
      PROVE  (x \div <<1, 256, 65536, 16777216>>[b]) % 256 \in Byte
  <2>1. <<1, 256, 65536, 16777216>>[b] \in {1, 256, 65536, 16777216}
    OBVIOUS
  <2> QED
    BY <2>1, SMT DEF Byte
<1>2. Bytes(x, n) \in Values(n) /\ \A b \in 1..n : Bytes(x, n)[b] = Bytes(x, 4)[b]
  BY <1>1 DEF Bytes, Values
<1>3. Bytes(x, n)[1] = (x \div 1) % 256 /\ x \div 1 = x
  BY DEF Bytes
<1>4. n >= 2 => Bytes(x, n)[2] = (x \div 256) % 256
  BY DEF Bytes
<1> QED
  BY <1>2, <1>3, <1>4

\* A word is the number its bytes stand for.
LEMMA WordOfBytes ==
  ASSUME NEW x \in Offsets
  PROVE  Num(Bytes(x, 2)) = x
<1>1. x \in Nat /\ x < 65536
  BY DEF Offsets
<1>2. Bytes(x, 2)[1] = x % 256 /\ Bytes(x, 2)[2] = (x \div 256) % 256
  BY <1>1, BytesType
<1>3. (x % 256) + 256 * ((x \div 256) % 256) = x
  BY <1>1, SMT
<1> QED
  BY <1>2, <1>3 DEF Num

\* The memory ends at 256 at most, so that a linear address is never a word.
LEMMA TopType == Top \in 1..256
BY OperandAssumption DEF OperandAssumption

\* Two bytes make an offset.
LEMMA NumType ==
  ASSUME NEW a \in Byte, NEW b \in Byte
  PROVE  a + 256 * b \in Offsets
BY DEF Byte, Offsets

\* Registers and segment registers hold bytes.
LEMMA Holding ==
  ASSUME NEW m \in Machines
  PROVE  /\ \A r \in Regs : m.gpr[r] \in Values(4) /\ W(m, r) \in Offsets /\ D(m, r) \in Nat
         /\ \A r \in Regs, b \in 1..4 : m.gpr[r][b] \in Byte
         /\ \A s \in 0..5 : m.seg[s] \in Values(2) /\ Num(m.seg[s]) \in Offsets
         /\ \A s \in 0..5, b \in 1..2 : m.seg[s][b] \in Byte
<1>1. \A r \in Regs : m.gpr[r] \in Values(4)
  BY DEF Machines
<1>2. \A s \in 0..5 : m.seg[s] \in Values(2)
  BY DEF Machines
<1>3. \A r \in Regs, b \in 1..4 : m.gpr[r][b] \in Byte
  BY <1>1 DEF Values
<1>4. \A s \in 0..5, b \in 1..2 : m.seg[s][b] \in Byte
  BY <1>2 DEF Values
<1>5. \A r \in Regs : W(m, r) \in Offsets
  BY <1>3, NumType DEF W, Num
<1>6. \A s \in 0..5 : Num(m.seg[s]) \in Offsets
  BY <1>4, NumType DEF Num
<1>7. ASSUME NEW r \in Regs PROVE D(m, r) \in Nat
  <2>. 3 \in 1..4 /\ 4 \in 1..4
    OBVIOUS
  <2>. m.gpr[r][3] \in Byte /\ m.gpr[r][4] \in Byte
    BY <1>3
  <2>0. m.gpr[r][3] \in Nat /\ m.gpr[r][4] \in Nat
    <3>1. \A x \in Byte : x \in Nat
      BY DEF Byte
    <3> QED
      BY <3>1
  <2>1. m.gpr[r][4] % Top \in Nat
    BY <2>0, TopType
  <2>2. W(m, r) \in Nat
    BY <1>5 DEF Offsets
  <2> QED
    BY <2>0, <2>1, <2>2 DEF D
<1> QED
  BY <1>1, <1>2, <1>3, <1>4, <1>5, <1>6, <1>7

\* Memory holds bytes, written or not.
LEMMA PeekType ==
  ASSUME NEW m \in Machines, NEW a \in Nat
  PROVE  Peek(m, a) \in Byte
<1>1. PICK A \in SUBSET Nat : m.mem \in [A -> Byte]
  BY DEF Machines, Mems
<1>2. Content(a) \in Byte
  BY SMT DEF Content, Byte
<1> QED
  BY <1>1, <1>2 DEF Peek

-----------------------------------------------------------------------------
(* Cells.                                                                  *)

\* What each kind of cell holds.
LEMMA CellIs ==
  ASSUME NEW m
  PROVE  /\ \A k, b : Cell(m, <<"r", k, b>>) = m.gpr[k][b]
         /\ \A k, b : Cell(m, <<"s", k, b>>) = m.seg[k][b]
         /\ \A a : Cell(m, <<"m", a>>) = Peek(m, a)
         /\ \A x : Cell(m, <<"v", x>>) = x
         /\ \A b : Cell(m, <<"p", b>>) = Bytes(m.ip, 2)[b]
BY DEF Cell

\* A byte of memory in one of some blocks.
InMem(c, blocks) == c[1] = "m" /\ Block(c[2]) \in blocks
BadDst(to) == \E b \in DOMAIN to : InMem(to[b], holes \cup roms)
BadSrc(to, from) == \E b \in DOMAIN to : InMem(from[b], holes)

\* l differs from m in these cells only.
Frame(m, l, cells) ==
  /\ \A k \in Regs, b \in 1..4 : l.gpr[k][b] = m.gpr[k][b] \/ <<"r", k, b>> \in cells
  /\ \A k \in 0..5, b \in 1..2 : l.seg[k][b] = m.seg[k][b] \/ <<"s", k, b>> \in cells
  /\ \A a \in Nat : Peek(l, a) = Peek(m, a) \/ <<"m", a>> \in cells

CellsOf(to) == {to[b] : b \in DOMAIN to}

\* The value v is written to the cells of m, as far as they can be written.
Wrote(m, l, to, v) ==
  /\ l \in Machines /\ l.ip = m.ip
  /\ Frame(m, l, CellsOf(to))
  /\ l.ret = IF BadDst(to) THEN "badmem" ELSE m.ret
  /\ ~BadDst(to) => \A b \in DOMAIN to : Cell(l, to[b]) = v[b]

\* A frame may be wider.
LEMMA FrameWider ==
  ASSUME NEW m, NEW l, NEW c, NEW d, Frame(m, l, c), c \subseteq d
  PROVE  Frame(m, l, d)
BY DEF Frame

\* Two frames one after the other.
LEMMA FrameJoin ==
  ASSUME NEW m, NEW l, NEW k, NEW c, NEW d, Frame(m, l, c), Frame(l, k, d)
  PROVE  Frame(m, k, c \cup d)
<1>1. ASSUME NEW r \in Regs, NEW b \in 1..4
      PROVE  k.gpr[r][b] = m.gpr[r][b] \/ <<"r", r, b>> \in c \cup d
  BY DEF Frame
<1>2. ASSUME NEW r \in 0..5, NEW b \in 1..2
      PROVE  k.seg[r][b] = m.seg[r][b] \/ <<"s", r, b>> \in c \cup d
  BY DEF Frame
<1>3. ASSUME NEW a \in Nat
      PROVE  Peek(k, a) = Peek(m, a) \/ <<"m", a>> \in c \cup d
  BY DEF Frame
<1> QED
  BY <1>1, <1>2, <1>3 DEF Frame

\* What only its memory is not is framed.
LEMMA SameFrame ==
  ASSUME NEW m, NEW l, l.gpr = m.gpr, l.seg = m.seg, l.mem = m.mem
  PROVE  Frame(m, l, {})
BY DEF Frame, Peek

-----------------------------------------------------------------------------
(* Writing registers.                                                      *)

\* A byte register is half of the low word of one of the first four.
LEMMA SetByteReg ==
  ASSUME NEW m \in Machines, NEW r \in Regs, NEW v \in Values(1)
  PROVE  LET l == SetReg(m, r, v)
             half == IF r >= 4 THEN 2 ELSE 1
         IN  /\ l \in Machines /\ l.seg = m.seg /\ l.mem = m.mem /\ l.ip = m.ip /\ l.ret = m.ret
             /\ r % 4 \in Regs /\ half \in 1..4
             /\ \A k \in Regs, b \in 1..4 :
                  l.gpr[k][b] = IF k = r % 4 /\ b = half THEN v[1] ELSE m.gpr[k][b]
<1> DEFINE half == IF r >= 4 THEN 2 ELSE 1
           q == r % 4
           l == [m EXCEPT !.gpr[q][half] = v[1]]
<1>1. q \in Regs /\ half \in 1..4
  BY DEF Regs
<1>2. Len(v) = 1 /\ v[1] \in Byte
  BY ValueIsSeq
<1>3. SetReg(m, r, v) = l
  BY <1>2 DEF SetReg
<1>4. m.gpr \in [Regs -> Values(4)]
  BY DEF Machines
<1> DEFINE g == [m.gpr EXCEPT ![q][half] = v[1]]
<1>5. g \in [Regs -> Values(4)]
  BY <1>1, <1>2, <1>4 DEF Values
<1>6. \A k \in Regs, b \in 1..4 : g[k][b] = IF k = q /\ b = half THEN v[1] ELSE m.gpr[k][b]
  BY <1>1, <1>2, <1>4 DEF Values
<1>7. l = [m EXCEPT !.gpr = g]
  BY DEF Machines
<1> HIDE DEF g, half, q
<1>8. l \in Machines /\ l.gpr = g /\ l.seg = m.seg /\ l.mem = m.mem /\ l.ip = m.ip /\ l.ret = m.ret
  BY <1>5, <1>7 DEF Machines
<1> HIDE DEF l
<1> QED
  BY <1>1, <1>3, <1>6, <1>8 DEF half, q

\* Words and double words are written to the low end of a register.
LEMMA SetWordReg ==
  ASSUME NEW m \in Machines, NEW r \in Regs, NEW n \in {2, 3, 4}, NEW v \in Values(n)
  PROVE  LET l == SetReg(m, r, v)
         IN  /\ l \in Machines /\ l.seg = m.seg /\ l.mem = m.mem /\ l.ip = m.ip /\ l.ret = m.ret
             /\ \A k \in Regs, b \in 1..4 :
                  l.gpr[k][b] = IF k = r /\ b <= n THEN v[b] ELSE m.gpr[k][b]
<1> DEFINE x == [b \in 1..4 |-> IF b <= n THEN v[b] ELSE m.gpr[r][b]]
           g == [m.gpr EXCEPT ![r] = x]
           l == [m EXCEPT !.gpr = g]
<1>1. Len(v) = n /\ \A b \in 1..n : v[b] \in Byte
  BY ValueIsSeq
<1>2. m.gpr \in [Regs -> Values(4)]
  BY DEF Machines
<1>3. SetReg(m, r, v) = l
  BY <1>1 DEF SetReg, Machines
<1>4. x \in Values(4)
  BY <1>1, <1>2 DEF Values
<1>5. g \in [Regs -> Values(4)]
  BY <1>2, <1>4
<1>6. \A k \in Regs, b \in 1..4 : g[k][b] = IF k = r /\ b <= n THEN v[b] ELSE m.gpr[k][b]
  BY <1>2
<1> HIDE DEF g
<1>8. l \in Machines /\ l.gpr = g /\ l.seg = m.seg /\ l.mem = m.mem /\ l.ip = m.ip /\ l.ret = m.ret
  BY <1>5 DEF Machines
<1> HIDE DEF l
<1> QED
  BY <1>3, <1>6, <1>8

\* A reference to a register names bytes of registers.
LEMMA RegCellsAre ==
  ASSUME NEW r \in Regs, NEW n \in {1, 2, 4}
  PROVE  /\ DOMAIN RegCells(r, n) = 1..n
         /\ n = 1 => RegCells(r, n)[1] = <<"r", r % 4, IF r >= 4 THEN 2 ELSE 1>>
         /\ n # 1 => \A b \in 1..n : RegCells(r, n)[b] = <<"r", r, b>>
         /\ \A b \in 1..n : RegCells(r, n)[b][1] = "r"
         /\ \A b \in 1..n : \E k \in Regs, c \in 1..4 : RegCells(r, n)[b] = <<"r", k, c>>
<1>1. CASE n = 1
  <2>1. DOMAIN RegCells(r, n) = 1..1
    BY <1>1 DEF RegCells
  <2>2. RegCells(r, n)[1] = <<"r", r % 4, IF r >= 4 THEN 2 ELSE 1>>
    BY <1>1 DEF RegCells
  <2>3. r % 4 \in Regs /\ (IF r >= 4 THEN 2 ELSE 1) \in 1..4
    BY DEF Regs
  <2> QED
    BY <1>1, <2>1, <2>2, <2>3
<1>2. CASE n # 1
  <2>1. RegCells(r, n) = [b \in 1..n |-> <<"r", r, b>>]
    BY <1>2 DEF RegCells
  <2>2. \A b \in 1..n : b \in 1..4 /\ RegCells(r, n)[b] = <<"r", r, b>>
    BY <2>1
  <2>3. DOMAIN RegCells(r, n) = 1..n /\ \A b \in 1..n : RegCells(r, n)[b][1] = "r"
    BY <2>1
  <2>4. \A b \in 1..n : \E k \in Regs, c \in 1..4 : RegCells(r, n)[b] = <<"r", k, c>>
    BY <2>2
  <2> QED
    BY <1>2, <2>2, <2>3, <2>4
<1> QED
  BY <1>1, <1>2

\* Cells of registers are never bad.
LEMMA NoBadCells ==
  ASSUME NEW to, \A b \in DOMAIN to : to[b][1] # "m"
  PROVE  ~BadDst(to)
BY DEF BadDst, InMem

\* SetReg writes the cells of a register.
LEMMA SetRegWrote ==
  ASSUME NEW m \in Machines, NEW r \in Regs, NEW n \in {1, 2, 4}, NEW v \in Values(n)
  PROVE  Wrote(m, SetReg(m, r, v), RegCells(r, n), v)
<1> DEFINE l == SetReg(m, r, v)
           to == RegCells(r, n)
<1>1. /\ DOMAIN to = 1..n /\ \A b \in 1..n : to[b][1] = "r"
      /\ n = 1 => to[1] = <<"r", r % 4, IF r >= 4 THEN 2 ELSE 1>>
      /\ n # 1 => \A b \in 1..n : to[b] = <<"r", r, b>>
  BY RegCellsAre
<1>2. ~BadDst(to)
  <2>1. \A b \in DOMAIN to : to[b][1] # "m"
    BY <1>1
  <2> HIDE DEF to
  <2> QED
    BY <2>1, NoBadCells
<1>3. /\ l \in Machines /\ l.seg = m.seg /\ l.mem = m.mem /\ l.ip = m.ip /\ l.ret = m.ret
      /\ \A k \in Regs, b \in 1..4 : l.gpr[k][b] = m.gpr[k][b] \/ <<"r", k, b>> \in CellsOf(to)
      /\ \A b \in 1..n : Cell(l, to[b]) = v[b]
  <2>1. CASE n = 1
    <3> DEFINE half == IF r >= 4 THEN 2 ELSE 1
    <3>1. /\ l \in Machines /\ l.seg = m.seg /\ l.mem = m.mem /\ l.ip = m.ip /\ l.ret = m.ret
          /\ r % 4 \in Regs /\ half \in 1..4
          /\ \A k \in Regs, b \in 1..4 :
                  l.gpr[k][b] = IF k = r % 4 /\ b = half THEN v[1] ELSE m.gpr[k][b]
      BY <2>1, SetByteReg
    <3>2. to[1] = <<"r", r % 4, half>> /\ 1 \in DOMAIN to
      BY <1>1, <2>1
    <3> HIDE DEF l, to, half
    <3>3. <<"r", r % 4, half>> \in CellsOf(to)
      BY <3>2 DEF CellsOf
    <3>4. Cell(l, to[1]) = v[1]
      BY <3>1, <3>2, CellIs
    <3> QED
      BY <2>1, <3>1, <3>3, <3>4
  <2>2. CASE n # 1
    <3>1. /\ l \in Machines /\ l.seg = m.seg /\ l.mem = m.mem /\ l.ip = m.ip /\ l.ret = m.ret
          /\ \A k \in Regs, b \in 1..4 :
                  l.gpr[k][b] = IF k = r /\ b <= n THEN v[b] ELSE m.gpr[k][b]
      BY <2>2, SetWordReg
    <3>2. \A b \in 1..n : to[b] = <<"r", r, b>> /\ b \in DOMAIN to /\ b \in 1..4
      BY <1>1, <2>2
    <3> HIDE DEF l, to
    <3>3. \A b \in 1..n : <<"r", r, b>> \in CellsOf(to)
      BY <3>2 DEF CellsOf
    <3>4. \A b \in 1..n : Cell(l, to[b]) = v[b]
      BY <3>1, <3>2, CellIs
    <3> QED
      BY <2>2, <3>1, <3>3, <3>4
  <2> QED
    BY <2>1, <2>2
<1> HIDE DEF l, to
<1>4. Frame(m, l, CellsOf(to))
  BY <1>3 DEF Frame, Peek
<1> QED
  BY <1>1, <1>2, <1>3, <1>4 DEF Wrote, l, to

\* A segment register is written as a whole.
LEMMA SetSegWrote ==
  ASSUME NEW m \in Machines, NEW s \in 0..5, NEW v \in Values(2)
  PROVE  LET l == [m EXCEPT !.seg[s] = v]
         IN  /\ Wrote(m, l, SegCells(s), v)
             /\ l.gpr = m.gpr /\ l.mem = m.mem /\ l.ret = m.ret
             /\ \A k \in 0..5 : l.seg[k] = IF k = s THEN v ELSE m.seg[k]
<1> DEFINE l == [m EXCEPT !.seg[s] = v]
           to == SegCells(s)
<1>1. /\ l \in Machines /\ l.gpr = m.gpr /\ l.mem = m.mem /\ l.ip = m.ip /\ l.ret = m.ret
      /\ \A k \in 0..5 : l.seg[k] = IF k = s THEN v ELSE m.seg[k]
  BY DEF Machines
<1>2. DOMAIN to = 1..2 /\ \A b \in 1..2 : to[b] = <<"s", s, b>> /\ to[b][1] = "s"
  BY DEF SegCells
<1> HIDE DEF l, to
<1>3. ~BadDst(to)
  BY <1>2, NoBadCells
<1>4. \A b \in 1..2 : <<"s", s, b>> \in CellsOf(to) /\ Cell(l, to[b]) = v[b]
  BY <1>1, <1>2, CellIs DEF CellsOf
<1>5. Frame(m, l, CellsOf(to))
  BY <1>1, <1>4 DEF Frame, Peek
<1> QED
  BY <1>1, <1>2, <1>3, <1>4, <1>5 DEF Wrote, l, to

-----------------------------------------------------------------------------
(* Accesses to memory.                                                     *)

\* An access is complete when none of its bytes lies in a bad block.
LEMMA ReachedIs ==
  ASSUME NEW a \in Nat, NEW n \in 1..4, NEW bad
  PROVE  /\ Reached(a, n, bad) \in 0..n
         /\ Reached(a, n, bad) = n <=> \A b \in 1..n : Block(a + b - 1) \notin bad
<1> DEFINE x == a \div 4096
           y == (a + n - 1) \div 4096
<1>1. x \in Nat /\ y \in Nat /\ Block(a) = x /\ Block(a + n - 1) = y
  BY DEF Block
<1>2. \A b \in 1..n : Block(a + b - 1) = x \/ Block(a + b - 1) = y
  BY SMT DEF Block
<1>3. a + 1 - 1 = a /\ 1 \in 1..n /\ n \in 1..n
  OBVIOUS
<1>4. x # y => 4096 - (a % 4096) \in 0 .. n - 1
  BY SMT
<1>5. Reached(a, n, bad) = IF x \in bad THEN 0 ELSE IF y \in bad THEN 4096 - (a % 4096) ELSE n
  BY <1>1 DEF Reached
<1> HIDE DEF x, y
<1>6. CASE x \in bad
  BY <1>1, <1>3, <1>5, <1>6
<1>7. CASE x \notin bad /\ y \in bad
  BY <1>1, <1>3, <1>4, <1>5, <1>7
<1>8. CASE x \notin bad /\ y \notin bad
  BY <1>2, <1>5, <1>8
<1> QED
  BY <1>6, <1>7, <1>8

\* The bytes of an access are cells.
LEMMA MemCellsAre ==
  ASSUME NEW a \in Nat, NEW n \in 1..4
  PROVE  /\ DOMAIN MemCells(a, n) = 1..n
         /\ \A b \in 1..n : MemCells(a, n)[b] = <<"m", a + b - 1>> /\ a + b - 1 \in Nat
         /\ \A blocks : (\E b \in 1..n : InMem(MemCells(a, n)[b], blocks)) <=>
                        Reached(a, n, blocks) # n
<1>1. /\ DOMAIN MemCells(a, n) = 1..n
      /\ \A b \in 1..n : MemCells(a, n)[b] = <<"m", a + b - 1>> /\ a + b - 1 \in Nat
  BY DEF MemCells
<1>2. ASSUME NEW blocks
      PROVE  (\E b \in 1..n : InMem(MemCells(a, n)[b], blocks)) <=> Reached(a, n, blocks) # n
  <2>1. \A b \in 1..n : InMem(MemCells(a, n)[b], blocks) <=> Block(a + b - 1) \in blocks
    BY <1>1 DEF InMem
  <2> QED
    BY <2>1, ReachedIs
<1> QED
  BY <1>1, <1>2

\* MemWrite puts the first bytes of a value in memory, all of them if it can.
LEMMA MemWriteFacts ==
  ASSUME NEW m \in Machines, NEW a \in Nat, NEW n \in 1..4, NEW v \in Values(n)
  PROVE  LET l == MemWrite(m, a, v)
             k == Reached(a, n, holes \cup roms)
         IN  /\ l \in Machines /\ l.gpr = m.gpr /\ l.seg = m.seg /\ l.ip = m.ip
             /\ l.ret = IF k = n THEN m.ret ELSE "badmem"
             /\ \A x \in Nat : Peek(l, x) = IF x \in a .. a + k - 1 THEN v[x - a + 1] ELSE Peek(m, x)
<1> DEFINE k == Reached(a, n, holes \cup roms)
           new == [x \in DOMAIN m.mem \cup (a .. a + k - 1) |->
                     IF x \in a .. a + k - 1 THEN v[x - a + 1] ELSE m.mem[x]]
           r == IF k = n THEN m.ret ELSE "badmem"
           l == [m EXCEPT !.mem = new, !.ret = r]
<1>1. k \in 0..n
  BY ReachedIs
<1>2. Len(v) = n /\ \A b \in 1..n : v[b] \in Byte
  BY ValueIsSeq
<1>3. MemWrite(m, a, v) = l
  BY <1>2 DEF MemWrite, Machines
<1>4. PICK A \in SUBSET Nat : m.mem \in [A -> Byte]
  BY DEF Machines, Mems
<1> HIDE DEF k
<1>5. \A x \in a .. a + k - 1 : x \in Nat /\ x - a + 1 \in 1..n
  BY <1>1
<1>6. new \in [A \cup (a .. a + k - 1) -> Byte] /\ A \cup (a .. a + k - 1) \in SUBSET Nat
  BY <1>2, <1>4, <1>5
<1>7. new \in Mems
  BY <1>6 DEF Mems
<1>8. \A x \in Nat : (IF x \in DOMAIN new THEN new[x] ELSE Content(x)) =
                     IF x \in a .. a + k - 1 THEN v[x - a + 1] ELSE Peek(m, x)
  BY <1>4, <1>5 DEF Peek
<1> HIDE DEF new
<1>9. r \in {"ok", "badmem", "undef", "crash"}
  BY DEF Machines
<1> HIDE DEF r
<1>10. l \in Machines /\ l.gpr = m.gpr /\ l.seg = m.seg /\ l.ip = m.ip /\ l.ret = r /\ l.mem = new
  BY <1>7, <1>9 DEF Machines
<1> HIDE DEF l
<1>11. \A x \in Nat : Peek(l, x) = IF x \in a .. a + k - 1 THEN v[x - a + 1] ELSE Peek(m, x)
  BY <1>8, <1>10 DEF Peek
<1> QED
  BY <1>3, <1>10, <1>11 DEF r, k

\* MemWrite writes the cells of memory.
LEMMA MemWriteWrote ==
  ASSUME NEW m \in Machines, NEW a \in Nat, NEW n \in 1..4, NEW v \in Values(n)
  PROVE  Wrote(m, MemWrite(m, a, v), MemCells(a, n), v)
<1> DEFINE l == MemWrite(m, a, v)
           k == Reached(a, n, holes \cup roms)
           to == MemCells(a, n)
<1>1. /\ l \in Machines /\ l.gpr = m.gpr /\ l.seg = m.seg /\ l.ip = m.ip
      /\ l.ret = IF k = n THEN m.ret ELSE "badmem"
      /\ \A x \in Nat : Peek(l, x) = IF x \in a .. a + k - 1 THEN v[x - a + 1] ELSE Peek(m, x)
  BY ZenonT(30), MemWriteFacts
<1>2. /\ DOMAIN to = 1..n
      /\ \A b \in 1..n : to[b] = <<"m", a + b - 1>> /\ a + b - 1 \in Nat
      /\ (\E b \in 1..n : InMem(to[b], holes \cup roms)) <=> k # n
  BY MemCellsAre
<1>3. k \in 0..n
  BY ReachedIs
<1> HIDE DEF l, k, to
<1>4. BadDst(to) <=> k # n
  BY <1>2 DEF BadDst
<1>5. \A b \in 1..n : <<"m", a + b - 1>> \in CellsOf(to)
  BY <1>2 DEF CellsOf
<1>6. ASSUME NEW x \in Nat
      PROVE  Peek(l, x) = Peek(m, x) \/ <<"m", x>> \in CellsOf(to)
  <2>1. CASE x \in a .. a + k - 1
    <3>1. x - a + 1 \in 1..n /\ a + (x - a + 1) - 1 = x
      BY <1>3, <2>1
    <3>2. <<"m", a + (x - a + 1) - 1>> \in CellsOf(to)
      BY <1>5, <3>1
    <3> QED
      BY <3>1, <3>2
  <2> QED
    BY <1>1, <2>1
<1>7. Frame(m, l, CellsOf(to))
  BY <1>1, <1>6 DEF Frame
<1>8. ASSUME k = n, NEW b \in 1..n
      PROVE  Cell(l, to[b]) = v[b]
  <2>1. a + b - 1 \in Nat /\ a + b - 1 \in a .. a + k - 1 /\ (a + b - 1) - a + 1 = b
    BY <1>8
  <2>2. Peek(l, a + b - 1) = v[b]
    BY <1>1, <2>1
  <2>3. to[b] = <<"m", a + b - 1>>
    BY <1>2
  <2>4. Cell(l, <<"m", a + b - 1>>) = Peek(l, a + b - 1)
    BY CellIs
  <2> QED
    BY <2>2, <2>3, <2>4
<1> QED
  BY <1>1, <1>2, <1>4, <1>7, <1>8 DEF Wrote, l, to

-----------------------------------------------------------------------------
(* Reading.                                                                *)

\* x is what the cells of m hold, or a fault.
HasRead(m, x, to, from) ==
  /\ x.ret = IF BadSrc(to, from) THEN "badmem" ELSE "ok"
  /\ \A b \in DOMAIN to : x.v[b] = Cell(m, from[b])

\* MemRead reads the cells of memory.
LEMMA MemReadHas ==
  ASSUME NEW m \in Machines, NEW a \in Nat, NEW n \in 1..4, NEW to, DOMAIN to = 1..n
  PROVE  /\ HasRead(m, MemRead(m, a, n), to, MemCells(a, n))
         /\ MemRead(m, a, n).v \in Values(n)
<1> DEFINE from == MemCells(a, n)
           v == [b \in 1..n |-> Peek(m, a + b - 1)]
           r == IF Reached(a, n, holes) = n THEN "ok" ELSE "badmem"
<1>1. MemRead(m, a, n) = [ret |-> r, v |-> v]
  BY DEF MemRead
<1>2. /\ \A b \in 1..n : from[b] = <<"m", a + b - 1>> /\ a + b - 1 \in Nat
      /\ (\E b \in 1..n : InMem(from[b], holes)) <=> Reached(a, n, holes) # n
  BY MemCellsAre
<1>3. v \in Values(n)
  BY <1>2, PeekType DEF Values
<1> HIDE DEF from
<1>4. ASSUME NEW b \in 1..n
      PROVE  v[b] = Cell(m, from[b])
  <2>1. from[b] = <<"m", a + b - 1>>
    BY <1>2
  <2>2. Cell(m, <<"m", a + b - 1>>) = Peek(m, a + b - 1)
    BY CellIs
  <2> QED
    BY <2>1, <2>2
<1>5. r = IF BadSrc(to, from) THEN "badmem" ELSE "ok"
  BY <1>2 DEF BadSrc
<1> HIDE DEF v, r
<1> QED
  BY <1>1, <1>3, <1>4, <1>5 DEF HasRead, from

\* ReadReg reads the cells of a register.
LEMMA ReadRegHas ==
  ASSUME NEW m \in Machines, NEW r \in Regs, NEW n \in {1, 2, 4}
  PROVE  /\ ReadReg(m, r, n) \in Values(n)
         /\ \A b \in 1..n : ReadReg(m, r, n)[b] = Cell(m, RegCells(r, n)[b])
         /\ n # 1 => \A b \in 1..n : ReadReg(m, r, n)[b] = m.gpr[r][b]
<1>1. CASE n = 1
  <2> DEFINE half == IF r >= 4 THEN 2 ELSE 1
  <2>1. half \in 1..4 /\ r % 4 \in Regs
    BY DEF Regs
  <2>5. RegCells(r, 1)[1] = <<"r", r % 4, half>>
    BY RegCellsAre
  <2>2. ReadReg(m, r, 1) = <<m.gpr[r % 4][half]>>
    BY SMT DEF ReadReg, Regs
  <2>3. m.gpr[r % 4][half] \in Byte
    BY <2>1, Holding
  <2> HIDE DEF half
  <2>4. Cell(m, RegCells(r, 1)[1]) = m.gpr[r % 4][half]
    <3>1. Cell(m, <<"r", r % 4, half>>) = m.gpr[r % 4][half]
      BY CellIs
    <3> QED
      BY <2>5, <3>1
  <2> QED
    BY <1>1, <2>2, <2>3, <2>4 DEF Values
<1>2. CASE n # 1
  <2>1. m.gpr[r] \in Values(4) /\ 1 \in 1..4 /\ n \in 1..4
    BY Holding
  <2>2. SubSeq(m.gpr[r], 1, n) \in Values(n) /\ \A b \in 1..n : SubSeq(m.gpr[r], 1, n)[b] = m.gpr[r][b]
    BY <2>1, PartOfValue
  <2>3. ReadReg(m, r, n) = SubSeq(m.gpr[r], 1, n)
    BY <1>2 DEF ReadReg
  <2>4. \A b \in 1..n : RegCells(r, n)[b] = <<"r", r, b>>
    BY <1>2, RegCellsAre
  <2>5. \A b \in 1..n : Cell(m, <<"r", r, b>>) = m.gpr[r][b]
    BY CellIs
  <2>6. \A b \in 1..n : Cell(m, RegCells(r, n)[b]) = m.gpr[r][b]
    BY <2>4, <2>5
  <2> QED
    BY <2>2, <2>3, <2>6
<1> QED
  BY <1>1, <1>2

\* References.
IsRef(r) ==
  \/ r.reg = TRUE /\ r.num \in Regs
  \/ r.reg = FALSE /\ r.lin \in Nat

\* They have an address.
LEMMA AddrOfType ==
  ASSUME NEW r, IsRef(r), ~r.reg, NEW n
  PROVE  AddrOf(r, n) \in Nat
<1>1. r.lin \in Nat
  BY DEF IsRef
<1>2. \A s \in Int, o \in Int : Linear(s % Word, o) \in Nat
  BY SMT DEF Linear, Word
<1> DEFINE ofs == 65520 + (r.lin % 16)
<1>5. /\ ofs \in Int /\ (r.lin - ofs) \div 16 \in Int /\ r.lin \div 16 \in Int /\ r.lin % 16 \in Int
      /\ (r.lin \div 65536) * 4096 \in Int /\ r.lin % Word \in Int
  BY <1>1, SMT DEF Word
<1>3. RecreatePtr(r) \in Nat
  <2>1. /\ Linear(((r.lin - ofs) \div 16) % Word, ofs) \in Nat
        /\ Linear((r.lin \div 16) % Word, r.lin % 16) \in Nat
    BY <1>2, <1>5
  <2> QED
    BY <2>1 DEF RecreatePtr
<1>4. Linear(((r.lin \div 65536) * 4096) % Word, r.lin % Word) \in Nat
  BY <1>2, <1>5
<1> QED
  BY <1>3, <1>4 DEF AddrOf

\* Operands are cells.
LEMMA RefCellsAre ==
  ASSUME NEW r, IsRef(r), NEW n \in {1, 2, 4}
  PROVE  DOMAIN RefCells(r, n) = 1..n /\ n \in 1..4
<1>1. n \in 1..4
  OBVIOUS
<1>2. CASE r.reg
  BY <1>1, <1>2, RegCellsAre DEF IsRef, RefCells
<1>3. CASE ~r.reg
  BY <1>1, <1>3, AddrOfType, MemCellsAre DEF RefCells
<1> QED
  BY <1>1, <1>2, <1>3

\* ReadV reads the cells of an operand.
LEMMA ReadVHas ==
  ASSUME NEW m \in Machines, NEW r, IsRef(r), NEW n \in {1, 2, 4}, NEW to, DOMAIN to = 1..n
  PROVE  HasRead(m, ReadV(m, r, n), to, RefCells(r, n)) /\ ReadV(m, r, n).v \in Values(n)
<1>1. CASE r.reg
  <2> DEFINE v == ReadReg(m, r.num, n)
             from == RegCells(r.num, n)
  <2>1. r.num \in Regs
    BY <1>1 DEF IsRef
  <2>2. v \in Values(n) /\ \A b \in 1..n : v[b] = Cell(m, from[b])
    BY <2>1, ReadRegHas
  <2>3. ReadV(m, r, n) = [ret |-> "ok", v |-> v]
    BY <1>1 DEF ReadV
  <2>4. \A b \in 1..n : from[b][1] = "r"
    BY <2>1, RegCellsAre
  <2> HIDE DEF v, from
  <2>5. ~BadSrc(to, from)
    BY <2>4 DEF BadSrc, InMem
  <2>6. RefCells(r, n) = from
    BY <1>1 DEF RefCells, from
  <2> QED
    BY <2>2, <2>3, <2>5, <2>6 DEF HasRead
<1>2. CASE ~r.reg
  <2>1. AddrOf(r, n) \in Nat /\ n \in 1..4
    BY <1>2, AddrOfType
  <2>2. ReadV(m, r, n) = MemRead(m, AddrOf(r, n), n) /\ RefCells(r, n) = MemCells(AddrOf(r, n), n)
    BY <1>2 DEF ReadV, RefCells
  <2> QED
    BY <2>1, <2>2, MemReadHas
<1> QED
  BY <1>1, <1>2

\* WriteV writes them.
LEMMA WriteVWrote ==
  ASSUME NEW m \in Machines, NEW r, IsRef(r), NEW n \in {1, 2, 4}, NEW v \in Values(n)
  PROVE  Wrote(m, WriteV(m, r, v), RefCells(r, n), v)
<1>1. Len(v) = n /\ n \in 1..4
  BY ValueIsSeq
<1>2. CASE r.reg
  <2>1. r.num \in Regs /\ WriteV(m, r, v) = SetReg(m, r.num, v) /\ RefCells(r, n) = RegCells(r.num, n)
    BY <1>2 DEF IsRef, WriteV, RefCells
  <2> QED
    BY <2>1, SetRegWrote
<1>3. CASE ~r.reg
  <2>1. /\ AddrOf(r, n) \in Nat
        /\ WriteV(m, r, v) = MemWrite(m, AddrOf(r, n), v)
        /\ RefCells(r, n) = MemCells(AddrOf(r, n), n)
    BY <1>1, <1>3, AddrOfType DEF WriteV, RefCells
  <2> QED
    BY <1>1, <2>1, MemWriteWrote
<1> QED
  BY <1>2, <1>3

-----------------------------------------------------------------------------
(* Instructions and their addresses.                                       *)

\* The fields of an instruction.
LEMMA InstrIs ==
  ASSUME NEW i \in Instructions
  PROVE  /\ i.size \in {1, 2, 4} /\ i.addr32 \in BOOLEAN /\ i.ovr \in 0..6 /\ i.pre \in 1..4
         /\ i.param \in Regs
         /\ i.size = 1 => i.op \in ByteForms
         /\ i.op \in {"PUSH_Seg", "POP_Seg", "LxS"} => i.param \in 0..5
         /\ \A p \in Nat : At(i, p) \in Byte
<1>1. i \in [op : STRING, size : {1, 2, 4}, addr32 : BOOLEAN, ovr : 0..6,
             pre : 1..4, code : Seq(Byte), param : 0..7]
  BY DEF Instructions
<1>2. /\ i.size = 1 => i.op \in ByteForms
      /\ i.op \in {"PUSH_Seg", "POP_Seg", "LxS"} => i.param \in 0..5
  BY DEF Instructions
<1>3. i.code \in Seq(Byte)
  BY <1>1
<1>4. \A p \in DOMAIN i.code : i.code[p] \in Byte
  BY <1>3, LenProperties, ElementOfSeq
<1>5. \A p \in Nat : At(i, p) \in Byte
  BY <1>4 DEF At, Byte
<1> QED
  BY <1>1, <1>2, <1>5 DEF Regs

\* The fields of its ModRM byte.
LEMMA FieldsAre ==
  ASSUME NEW i \in Instructions
  PROVE  Mod(i) \in 0..3 /\ Rrr(i) \in Regs /\ Mmm(i) \in Regs
<1>1. At(i, 1) \in 0..255
  BY InstrIs DEF Byte
<1> QED
  BY <1>1 DEF Mod, Rrr, Mmm, Regs

\* Immediate operands are values.
LEMMA ImmType ==
  ASSUME NEW i \in Instructions, NEW p \in Nat
  PROVE  /\ \A n \in 1..4 : Imm(i, p, n) \in Values(n)
         /\ \A n \in 1..4 : \A b \in 1..n : Imm(i, p, n)[b] = At(i, p + b - 1)
         /\ Num(Imm(i, p, 2)) \in Offsets /\ Imm32(i, p) \in Nat /\ Imm8S(i, p) \in -128..127
<1>1. \A n \in 1..4 : \A b \in 1..n : p + b - 1 \in Nat /\ At(i, p + b - 1) \in Byte
  BY InstrIs
<1>2. \A n \in 1..4 : Imm(i, p, n) \in Values(n)
  BY <1>1 DEF Imm, Values
<1>3. \A n \in 1..4 : \A b \in 1..n : Imm(i, p, n)[b] = At(i, p + b - 1)
  BY DEF Imm
<1>4. 2 \in 1..4 /\ 1 \in 1..2 /\ 2 \in 1..2
  OBVIOUS
<1>5. Imm(i, p, 2)[1] \in Byte /\ Imm(i, p, 2)[2] \in Byte
  BY <1>2, <1>4 DEF Values
<1>6. Num(Imm(i, p, 2)) \in Offsets
  BY <1>5, NumType DEF Num
<1>7. At(i, p) \in Byte /\ At(i, p + 2) \in Byte /\ At(i, p + 3) \in Byte
  BY InstrIs
<1>8. At(i, p) \in Nat /\ At(i, p) < 256 /\ At(i, p + 2) \in Nat /\ At(i, p + 3) \in Nat
  BY <1>7 DEF Byte
<1>9. At(i, p + 3) % Top \in Nat
  BY <1>8, TopType
<1>10. Num(Imm(i, p, 2)) \in Nat
  BY <1>6 DEF Offsets
<1>11. Imm32(i, p) \in Nat
  BY <1>8, <1>9, <1>10 DEF Imm32
<1>12. Imm8S(i, p) \in -128..127
  BY <1>8 DEF Imm8S
<1> QED
  BY <1>2, <1>3, <1>6, <1>11, <1>12

\* A remainder.
LEMMA ModType ==
  ASSUME NEW a \in Int, NEW n \in Nat \ {0}
  PROVE  a % n \in Nat /\ a % n < n
OBVIOUS

\* The modulus of an address is not 0.
LEMMA DWordType == DWord \in Nat \ {0}
BY TopType DEF DWord

\* The two high bits of a SIB byte scale by 1, 2, 4 or 8.
LEMMA ScaleType ==
  ASSUME NEW s \in Byte
  PROVE  Scale(s) \in {1, 2, 4, 8}
<1>1. (s \div 64) + 1 \in 1..4
  BY DEF Byte
<1> QED
  BY <1>1 DEF Scale

\* An effective address has a segment and an offset, and ends where the operand's
\* encoding does.
LEMMA AddressType ==
  ASSUME NEW m \in Machines, NEW i \in Instructions, Mod(i) # 3
  PROVE  LET e == GetMMM(m, i)
         IN  /\ e.seg \in 0..5 /\ e.ofs \in Nat /\ e.next = ModRMLength(i) + 1
             /\ i.addr32 => e.ofs < DWord
             /\ ~i.addr32 => e.ofs \in Offsets
             /\ Behind(i) \in {2, 3, 4, 6} /\ Displacement(i) \in Nat
<1>1. Mod(i) \in 0..2 /\ Mmm(i) \in 0..7 /\ i.addr32 \in BOOLEAN /\ i.ovr \in 0..6
  BY FieldsAre, InstrIs DEF Regs
<1>2. Behind(i) = CASE Mod(i) = 0 -> 2 [] Mod(i) = 1 -> 3 [] Mod(i) = 2 -> IF i.addr32 THEN 6 ELSE 4
  BY DEF Behind
<1>3. Behind(i) \in {2, 3, 4, 6}
  BY <1>1, <1>2
<1>4. Displacement(i) \in Nat
  <2>1. CASE Mod(i) = 0
    BY <2>1 DEF Displacement
  <2>2. CASE Mod(i) = 1
    <3>0. 2 \in Nat
      OBVIOUS
    <3>2. Imm8S(i, 2) \in -128..127
      BY <3>0, ImmType
    <3>1. Imm8S(i, 2) \in Int
      BY <3>2
    <3> QED
      BY <2>2, <3>1 DEF Displacement, Word
  <2>3. CASE Mod(i) = 2
    <3>0. 2 \in Nat
      OBVIOUS
    <3>1. Num(Imm(i, 2, 2)) \in Offsets
      BY <3>0, ImmType
    <3> QED
      BY <2>3, <3>1 DEF Displacement, Offsets
  <2> QED
    BY <1>1, <2>1, <2>2, <2>3
<1>5. \A d \in 0..5 : GetSegment(i, d) \in 0..5
  BY <1>1 DEF GetSegment
<1>6. GetSegment(i, DefaultSegment(i)) \in 0..5
  BY <1>5 DEF DefaultSegment, SS, DS
<1> DEFINE disp == Displacement(i)
           p == Behind(i)
<1>7. CASE ~i.addr32
  <2> DEFINE direct == Mod(i) = 0 /\ Mmm(i) = 6
             addr == IF direct THEN Num(Imm(i, p, 2)) ELSE Sum16(m, Summed[Mmm(i) + 1]) + disp
  <2>1. GetMMM(m, i) = [seg |-> GetSegment(i, DefaultSegment(i)), ofs |-> addr % Word,
                        next |-> IF direct THEN p + 2 ELSE p]
    BY <1>7 DEF GetMMM, DoFunc
  <2>2. Num(Imm(i, p, 2)) \in Nat
    <3>1. p \in Nat
      BY <1>3
    <3> HIDE DEF p
    <3>2. Num(Imm(i, p, 2)) \in Offsets
      BY <3>1, ImmType
    <3> QED
      BY <3>2 DEF Offsets
  <2>3. Sum16(m, Summed[Mmm(i) + 1]) \in Nat
    <3>1. \A r \in Regs : W(m, r) \in Nat
      BY Holding DEF Offsets
    <3>2. W(m, BX) \in Nat /\ W(m, BP) \in Nat /\ W(m, SI) \in Nat /\ W(m, DI) \in Nat
      BY <3>1 DEF Regs, BX, BP, SI, DI
    <3>3. ASSUME NEW rs PROVE Sum16(m, rs) \in Nat
      BY <3>2 DEF Sum16
    <3> QED
      BY <3>3
  <2>4. addr \in Nat
    BY <1>4, <2>2, <2>3
  <2>5. (IF direct THEN p + 2 ELSE p) = ModRMLength(i) + 1
    BY <1>1, <1>2, <1>7 DEF ModRMLength, DispAt, DispSize, SIB, NoBase
  <2> HIDE DEF addr, direct, p
  <2>6. addr % Word \in Nat /\ addr % Word \in Offsets
    BY <2>4 DEF Word, Offsets
  <2> QED
    BY <1>3, <1>4, <1>6, <1>7, <2>1, <2>5, <2>6
<1>8. CASE i.addr32
  <2> DEFINE none == Mod(i) = 0
             sib == At(i, p)
             index == (sib \div 8) % 8
             base == sib % 8
             scaled == IF index = 4 THEN 0 ELSE (D(m, index) * Scale(sib)) % DWord
             addr == CASE Mmm(i) = 4 -> scaled + (IF base = 5 /\ none THEN 0 ELSE D(m, base))
                       [] Mmm(i) = 5 /\ none -> Imm32(i, p)
                       [] OTHER -> D(m, Mmm(i))
             read == CASE Mmm(i) = 4 -> IF base = 5 /\ none THEN 5 ELSE 1
                       [] Mmm(i) = 5 /\ none -> 4
                       [] OTHER -> 0
  <2>1. GetMMM(m, i) = [seg |-> GetSegment(i, DefaultSegment(i)), ofs |-> (addr + disp) % DWord,
                        next |-> p + read]
    BY <1>8 DEF GetMMM, DoFunc32
  <2>2. p \in Nat
    BY <1>3
  <2>3. sib \in Byte
    <3> HIDE DEF p
    <3> QED
      BY <2>2, InstrIs
  <2>4. index \in Regs /\ base \in Regs /\ Mmm(i) \in Regs
    <3> HIDE DEF sib
    <3> QED
      BY <1>1, <2>3 DEF Byte, Regs
  <2>5. Imm32(i, p) \in Nat
    <3> HIDE DEF p
    <3> QED
      BY <2>2, ImmType
  <2>6. scaled \in Nat
    <3> HIDE DEF index, sib
    <3>1. D(m, index) \in Nat /\ Scale(sib) \in Nat
      BY <2>3, <2>4, Holding, ScaleType
    <3>2. D(m, index) * Scale(sib) \in Int
      BY <3>1
    <3>3. (D(m, index) * Scale(sib)) % DWord \in Nat
      BY <3>2, DWordType, ModType
    <3> QED
      BY <3>3
  <2>7. D(m, base) \in Nat /\ D(m, Mmm(i)) \in Nat
    <3> HIDE DEF base
    <3> QED
      BY <2>4, Holding
  <2>8. addr \in Nat
    <3> HIDE DEF scaled, base
    <3> QED
      BY <2>5, <2>6, <2>7
  <2>9. p + read = ModRMLength(i) + 1
    <3>1. Mod(i) = 0 => p = 2
      BY <1>2
    <3>2. Mod(i) = 0 => base = At(i, 2) % 8
      BY <3>1
    <3> HIDE DEF base, sib
    <3> QED
      BY <1>1, <1>2, <1>8, <3>1, <3>2 DEF ModRMLength, DispAt, DispSize, SIB, NoBase, BaseReg
  <2> HIDE DEF addr, read, p
  <2>10. (addr + disp) % DWord \in Nat /\ (addr + disp) % DWord < DWord
    BY <1>4, <2>8, DWordType, ModType
  <2> QED
    BY <1>3, <1>4, <1>6, <1>8, <2>1, <2>9, <2>10
<1> QED
  BY <1>1, <1>7, <1>8

\* Operands are references, and end where their encoding does.
LEMMA OperandType ==
  ASSUME NEW m \in Machines, NEW i \in Instructions
  PROVE  LET r == DecodeModM(m, i)
         IN  /\ IsRef(r) /\ r.next = ModRMLength(i) + 1
             /\ Mod(i) = 3 => r.reg = TRUE
             /\ Mod(i) # 3 => r.reg = FALSE
             /\ ModRMLength(i) \in Nat
<1>1. CASE Mod(i) = 3
  <2>1. DecodeModM(m, i) = [reg |-> TRUE, num |-> Mmm(i), wrap |-> FALSE, lin |-> 0, next |-> 2]
    BY <1>1 DEF DecodeModM, Register
  <2>2. ModRMLength(i) = 1
    BY <1>1 DEF ModRMLength
  <2> DEFINE r == DecodeModM(m, i)
  <2>3. r.reg = TRUE /\ r.num = Mmm(i) /\ r.next = 2
    BY <2>1
  <2> HIDE DEF r
  <2>4. IsRef(r)
    BY <2>3, FieldsAre DEF IsRef
  <2> QED
    BY <1>1, <2>2, <2>3, <2>4 DEF r
<1>2. CASE Mod(i) # 3
  <2> DEFINE e == GetMMM(m, i)
  <2>1. e.seg \in 0..5 /\ e.ofs \in Nat /\ e.next = ModRMLength(i) + 1
    BY <1>2, AddressType
  <2> DEFINE lin == (Num(m.seg[e.seg]) * 16 + e.ofs) % 16777216
  <2>2. DecodeModM(m, i) = [reg |-> FALSE, num |-> 0, wrap |-> e.ofs >= 65520, lin |-> lin,
                            next |-> e.next]
    BY <1>2 DEF DecodeModM, Memory
  <2>3. ModRMLength(i) \in Nat
    BY <1>2, FieldsAre, InstrIs DEF ModRMLength, DispAt, DispSize
  <2> HIDE DEF e
  <2>4. Num(m.seg[e.seg]) \in Nat
    BY <2>1, Holding DEF Offsets
  <2>5. lin \in Nat
    BY <2>1, <2>4
  <2> HIDE DEF lin
  <2> DEFINE r == DecodeModM(m, i)
  <2>6. r.reg = FALSE /\ r.lin = lin /\ r.next = e.next
    BY <2>2
  <2> HIDE DEF r
  <2>7. IsRef(r)
    BY <2>5, <2>6 DEF IsRef
  <2> QED
    BY <1>2, <2>1, <2>3, <2>6, <2>7 DEF r
<1> QED
  BY <1>1, <1>2

-----------------------------------------------------------------------------
(* What an instruction has to do.                                          *)

Bad(moves) == \E c \in moves : InMem(c[1], holes \cup roms) \/ InMem(c[2], holes)
Dst(moves) == {c[1] : c \in moves}

\* l is m after some moves, or after a fault that stopped them; SP moves too.
Exact(m, l, moves, by) ==
  /\ l \in Machines
  /\ l.ret = IF Bad(moves) THEN "badmem" ELSE "ok"
  /\ Frame(m, l, Dst(moves) \cup CellsOf(SPCells))
  /\ l.ret = "ok" =>
       /\ \A c \in moves : c[1][1] \notin {"x", "p"} => Cell(l, c[1]) = Cell(m, c[2])
       /\ \A b \in 1..2 : SPCells[b] \in Dst(moves) \/ l.gpr[SP][b] = Bytes((W(m, SP) + by) % Word, 2)[b]

\* IP goes to `to': behind the instruction, or to what is copied to it.
Leads(m, i, to, moves) ==
  /\ \A c \in moves : c[1][1] = "p" => Bytes(to, 2)[c[1][2]] = Cell(m, c[2])
  /\ IPCells[1] \in Dst(moves) \/ to = (m.ip + i.pre + Length(i)) % Word

Right(m, i, l, to) ==
  /\ l \in Machines
  /\ l.ret = "ok" => to \in Offsets
  /\ l.ret = "undef" => Frame(m, l, {})
  /\ l.ret = "crash" => Rrr(i) > 5
  /\ l.ret = "ok" /\ i.op = "LEA" => Mod(i) # 3
  /\ l.ret \in {"ok", "badmem"} /\ ~(i.op = "POP_Reg" /\ i.param = SP /\ i.size = 4) =>
       Exact(m, l, Moves(m, i), SPChange(i)) /\ (l.ret = "ok" => Leads(m, i, to, Moves(m, i)))

\* The inductive invariant: types, and the moves of the last instruction.
Typed ==
  /\ gpr \in [Regs -> Values(4)] /\ seg \in [0..5 -> Values(2)] /\ ip \in Offsets /\ mem \in Mems
  /\ ret \in {"ok", "badmem", "undef", "crash"}
  /\ prog \in Seq(Instructions) /\ past \in Seq([instr : Instructions, before : Machines])
  /\ Just({"LEA"}) /\ ret = "ok" => Mod(Ran) # 3
MovesInv == Typed /\ MovesExact /\ FaultsContained

\* The machine an instruction starts from.
LEMMA MachineIs ==
  ASSUME Typed
  PROVE  /\ Machine \in Machines /\ Machine.ret = "ok"
         /\ Machine.gpr = gpr /\ Machine.seg = seg /\ Machine.ip = ip /\ Machine.mem = mem
BY DEF Typed, Machine, Machines

\* Programs only get shorter.
LEMMA InstrType ==
  ASSUME Typed, prog # <<>>
  PROVE  Instr \in Instructions /\ Tail(prog) \in Seq(Instructions)
BY HeadTailProperties DEF Typed, Instr

\* What a frame says of one cell.
LEMMA FrameOfReg ==
  ASSUME NEW m, NEW l, NEW except, Frame(m, l, except), NEW k \in Regs, NEW b \in 1..4
  PROVE  l.gpr[k][b] = m.gpr[k][b] \/ <<"r", k, b>> \in except
BY DEF Frame

\* What a frame says of a segment register.
LEMMA FrameOfSeg ==
  ASSUME NEW m, NEW l, NEW except, Frame(m, l, except), NEW k \in 0..5, NEW b \in 1..2
  PROVE  l.seg[k][b] = m.seg[k][b] \/ <<"s", k, b>> \in except
BY DEF Frame

\* What a frame says of one cell.
LEMMA FrameOfCell ==
  ASSUME NEW m, NEW l, NEW except, Frame(m, l, except)
  PROVE  /\ \A k \in Regs, b \in 1..4 :
              <<"r", k, b>> \notin except => Cell(l, <<"r", k, b>>) = Cell(m, <<"r", k, b>>)
         /\ \A k \in 0..5, b \in 1..2 :
              <<"s", k, b>> \notin except => Cell(l, <<"s", k, b>>) = Cell(m, <<"s", k, b>>)
         /\ \A a \in Nat : <<"m", a>> \notin except => Cell(l, <<"m", a>>) = Cell(m, <<"m", a>>)
<1>1. ASSUME NEW k \in Regs, NEW b \in 1..4, <<"r", k, b>> \notin except
      PROVE  Cell(l, <<"r", k, b>>) = Cell(m, <<"r", k, b>>)
  <2>1. Cell(l, <<"r", k, b>>) = l.gpr[k][b] /\ Cell(m, <<"r", k, b>>) = m.gpr[k][b]
    BY CellIs
  <2> QED
    BY <1>1, <2>1, FrameOfReg
<1>2. ASSUME NEW k \in 0..5, NEW b \in 1..2, <<"s", k, b>> \notin except
      PROVE  Cell(l, <<"s", k, b>>) = Cell(m, <<"s", k, b>>)
  <2>1. Cell(l, <<"s", k, b>>) = l.seg[k][b] /\ Cell(m, <<"s", k, b>>) = m.seg[k][b]
    BY CellIs
  <2> QED
    BY <1>2, <2>1, FrameOfSeg
<1>3. ASSUME NEW a \in Nat, <<"m", a>> \notin except
      PROVE  Cell(l, <<"m", a>>) = Cell(m, <<"m", a>>)
  <2>1. Cell(l, <<"m", a>>) = Peek(l, a) /\ Cell(m, <<"m", a>>) = Peek(m, a)
    BY CellIs
  <2> QED
    BY <1>3, <2>1 DEF Frame
<1> QED
  BY <1>1, <1>2, <1>3

\* What a frame leaves out is kept.
LEMMA FrameKeeps ==
  ASSUME NEW m, NEW l, NEW except, Frame(m, l, except), NEW A \in SUBSET Nat
  PROVE  \A c \in ({<<"r", k, b>> : k \in Regs, b \in 1..4}
                     \cup {<<"s", k, b>> : k \in 0..5, b \in 1..2}
                     \cup {<<"m", a>> : a \in A}) \ except : Cell(l, c) = Cell(m, c)
<1>1. \A k \in Regs, b \in 1..4 :
         <<"r", k, b>> \notin except => Cell(l, <<"r", k, b>>) = Cell(m, <<"r", k, b>>)
  BY FrameOfCell
<1>2. \A k \in 0..5, b \in 1..2 :
         <<"s", k, b>> \notin except => Cell(l, <<"s", k, b>>) = Cell(m, <<"s", k, b>>)
  BY FrameOfCell
<1>3. \A a \in A : <<"m", a>> \notin except => Cell(l, <<"m", a>>) = Cell(m, <<"m", a>>)
  BY FrameOfCell
<1>4. ASSUME NEW c, c \in {<<"r", k, b>> : k \in Regs, b \in 1..4}, c \notin except
      PROVE  Cell(l, c) = Cell(m, c)
  <2>1. PICK k \in Regs, b \in 1..4 : c = <<"r", k, b>>
    BY <1>4
  <2>2. <<"r", k, b>> \notin except
    BY <1>4, <2>1
  <2>3. Cell(l, <<"r", k, b>>) = Cell(m, <<"r", k, b>>)
    BY <1>1, <2>2, Zenon
  <2> QED
    BY <2>1, <2>3
<1>5. ASSUME NEW c, c \in {<<"s", k, b>> : k \in 0..5, b \in 1..2}, c \notin except
      PROVE  Cell(l, c) = Cell(m, c)
  <2>1. PICK k \in 0..5, b \in 1..2 : c = <<"s", k, b>>
    BY <1>5
  <2>2. <<"s", k, b>> \notin except
    BY <1>5, <2>1
  <2>3. Cell(l, <<"s", k, b>>) = Cell(m, <<"s", k, b>>)
    BY <1>2, <2>2, Zenon
  <2> QED
    BY <2>1, <2>3
<1>6. ASSUME NEW c, c \in {<<"m", a>> : a \in A}, c \notin except
      PROVE  Cell(l, c) = Cell(m, c)
  BY <1>3, <1>6
<1> QED
  BY <1>4, <1>5, <1>6

\* The last instruction after a step.
LEMMA LastIs ==
  ASSUME Typed, NEW e \in [instr : Instructions, before : Machines], past' = Append(past, e)
  PROVE  /\ past' \in Seq([instr : Instructions, before : Machines]) /\ past' # <<>>
         /\ past'[Len(past')] = e
         /\ Len(past') = Len(past) + 1 /\ Len(past) \in Nat
         /\ \A k \in 1..Len(past) : past'[k] = past[k]
<1>1. past \in Seq([instr : Instructions, before : Machines])
  BY DEF Typed
<1> QED
  BY <1>1, AppendProperties, LenProperties

\* An instruction that does what it has to keeps the invariant.
LEMMA StepKeeps ==
  ASSUME Typed, prog # <<>>, NEW l, NEW to, DoneAt(l, to), Right(Machine, Instr, l, to)
  PROVE  MovesInv'
<1> DEFINE m == Machine
           i == Instr
           to1 == IF l.ret = "ok" THEN to ELSE ip
           n == [gpr |-> l.gpr, seg |-> l.seg, ip |-> to1, mem |-> l.mem, ret |-> "ok"]
           e == [instr |-> i, before |-> m]
<1>1. /\ m \in Machines /\ m.ret = "ok" /\ m.gpr = gpr /\ m.seg = seg /\ m.ip = ip /\ m.mem = mem
      /\ i \in Instructions /\ Tail(prog) \in Seq(Instructions)
  BY MachineIs, InstrType
<1>2. /\ gpr' = l.gpr /\ seg' = l.seg /\ mem' = l.mem /\ ret' = l.ret
      /\ ip' = to1 /\ prog' = Tail(prog) /\ past' = Append(past, e)
      /\ holes' = holes /\ roms' = roms
  BY DEF DoneAt
<1>3. /\ past' \in Seq([instr : Instructions, before : Machines]) /\ past' # <<>>
      /\ Ran' = i /\ Was' = m
  <2>1. e \in [instr : Instructions, before : Machines] /\ e.instr = i /\ e.before = m
    BY <1>1
  <2> HIDE DEF e
  <2>2. past' \in Seq([instr : Instructions, before : Machines]) /\ past' # <<>> /\ past'[Len(past')] = e
    BY <1>2, <2>1, LastIs
  <2> QED
    BY <2>1, <2>2 DEF Ran, Was
<1>4. Machine' = n
  BY <1>2 DEF Machine
<1>5. l \in Machines
  BY DEF Right
<1>6. to1 \in Offsets
  BY DEF Right, Typed
<1>7. /\ l.gpr \in [Regs -> Values(4)] /\ l.seg \in [0..5 -> Values(2)] /\ l.mem \in Mems
      /\ l.ret \in {"ok", "badmem", "undef", "crash"}
  BY <1>5 DEF Machines
<1>8. DOMAIN l.mem \in SUBSET Nat
  BY <1>7 DEF Mems
<1>9. n.gpr = l.gpr /\ n.seg = l.seg /\ n.mem = l.mem /\ n.ip = to1
  OBVIOUS
<1>10. /\ \A cells : Frame(m, n, cells) <=> Frame(m, l, cells)
       /\ \A c : c[1] \notin {"x", "p"} => Cell(n, c) = Cell(l, c)
       /\ \A b : Cell(n, <<"p", b>>) = Bytes(to1, 2)[b]
  <2> HIDE DEF n, to1, m
  <2>1. \A a : Peek(n, a) = Peek(l, a)
    BY <1>9 DEF Peek
  <2>2. \A cells : Frame(m, n, cells) <=> Frame(m, l, cells)
    BY <1>9, <2>1 DEF Frame
  <2> QED
    BY <1>9, <2>1, <2>2 DEF Cell
<1> DEFINE all == {<<"r", k, b>> : k \in Regs, b \in 1..4} \cup {<<"s", k, b>> : k \in 0..5, b \in 1..2}
                    \cup {<<"m", a>> : a \in DOMAIN l.mem}
           moves == Moves(m, i)
<1>11. Cells' = all
  BY <1>2 DEF Cells
<1>12. ASSUME NEW except, Frame(m, l, except)
       PROVE  \A c \in all \ except : Cell(n, c) = Cell(m, c)
  <2>1. Frame(m, n, except)
    BY <1>10, <1>12
  <2> HIDE DEF n, m
  <2> QED
    BY <1>8, <2>1, FrameKeeps
<1>13. /\ l.ret = "undef" => Frame(m, l, {})
       /\ l.ret = "crash" => Rrr(i) > 5
       /\ l.ret = "ok" /\ i.op = "LEA" => Mod(i) # 3
       /\ l.ret \in {"ok", "badmem"} /\ ~(i.op = "POP_Reg" /\ i.param = SP /\ i.size = 4) =>
            Exact(m, l, moves, SPChange(i)) /\ (l.ret = "ok" => Leads(m, i, to, moves))
  BY DEF Right
<1> HIDE DEF n, m, i, to1, all, e
<1>14. Typed'
  <2>1. (Just({"LEA"}) /\ ret = "ok" => Mod(Ran) # 3)'
    BY <1>2, <1>3, <1>13 DEF Just
  <2> QED
    BY <1>1, <1>2, <1>3, <1>6, <1>7, <2>1 DEF Typed
<1>15. PopsESP' <=> i.op = "POP_Reg" /\ i.param = SP /\ i.size = 4
  BY <1>3 DEF PopsESP, Wide
<1>16. Range(SPCells) = CellsOf(SPCells)
  BY DEF Range, CellsOf
<1>17. MovesExact'
  <2> SUFFICES ASSUME l.ret = "ok", ~(i.op = "POP_Reg" /\ i.param = SP /\ i.size = 4)
               PROVE  LET dst == {c[1] : c \in moves}
                          sp == Bytes((W(m, SP) + SPChange(i)) % Word, 2)
                      IN  /\ \A c \in moves : c[1][1] # "x" => Cell(n, c[1]) = Cell(m, c[2])
                          /\ \A b \in 1..2 : SPCells[b] \in dst \/ l.gpr[SP][b] = sp[b]
                          /\ \A c \in all \ (dst \cup Range(SPCells)) : Cell(n, c) = Cell(m, c)
                          /\ IPCells[1] \in dst \/ ip' = (m.ip + i.pre + Length(i)) % Word
    BY <1>2, <1>3, <1>4, <1>11, <1>15 DEF MovesExact, Kept, moves
  <2>1. Exact(m, l, moves, SPChange(i)) /\ Leads(m, i, to, moves)
    BY <1>13
  <2>2. ip' = to /\ to1 = to
    BY <1>2 DEF to1
  <2> HIDE DEF moves
  <2>3. ASSUME NEW c \in moves, c[1][1] # "x"
        PROVE  Cell(n, c[1]) = Cell(m, c[2])
    <3>1. CASE c[1][1] = "p"
      <4>1. Cell(n, c[1]) = Bytes(to, 2)[c[1][2]]
        BY <1>9, <2>2, <3>1 DEF Cell
      <4> QED
        BY <2>1, <3>1, <4>1 DEF Leads
    <3>2. CASE c[1][1] # "p"
      <4>1. Cell(n, c[1]) = Cell(l, c[1])
        BY <1>10, <2>3, <3>2
      <4>2. Cell(l, c[1]) = Cell(m, c[2])
        BY <2>1, <2>3, <3>2 DEF Exact
      <4> QED
        BY <4>1, <4>2
    <3> QED
      BY <3>1, <3>2
  <2>4. \A c \in all \ (Dst(moves) \cup Range(SPCells)) : Cell(n, c) = Cell(m, c)
    <3>1. Frame(m, l, Dst(moves) \cup Range(SPCells))
      BY <1>16, <2>1 DEF Exact
    <3> QED
      BY <1>12, <3>1
  <2>5. \A b \in 1..2 : SPCells[b] \in Dst(moves) \/ l.gpr[SP][b] = Bytes((W(m, SP) + SPChange(i)) % Word, 2)[b]
    BY <2>1 DEF Exact
  <2>6. IPCells[1] \in Dst(moves) \/ ip' = (m.ip + i.pre + Length(i)) % Word
    BY <2>1, <2>2 DEF Leads
  <2> QED
    BY <2>3, <2>4, <2>5, <2>6 DEF Dst
<1>18. FaultsContained'
  <2> DEFINE bad == \E c \in moves :
                      \/ c[1][1] = "m" /\ Block(c[1][2]) \in holes \cup roms
                      \/ c[2][1] = "m" /\ Block(c[2][2]) \in holes
  <2> SUFFICES ASSUME ~(i.op = "POP_Reg" /\ i.param = SP /\ i.size = 4),
                      l.ret # "crash" \/ Rrr(i) <= 5
               PROVE  /\ l.ret = "undef" => (\A c \in all : Cell(n, c) = Cell(m, c)) /\ to1 = m.ip
                      /\ l.ret # "undef" =>
                           /\ l.ret = IF bad THEN "badmem" ELSE "ok"
                           /\ l.ret = "badmem" =>
                                to1 = m.ip /\ \A c \in all \ (Range(SPCells) \cup {c[1] : c \in moves}) :
                                                 Cell(n, c) = Cell(m, c)
    BY <1>2, <1>3, <1>4, <1>11, <1>15 DEF FaultsContained, Kept, moves
  <2>1. Rrr(i) \in Nat
    BY <1>1, FieldsAre DEF Regs
  <2>2. l.ret # "crash"
    BY <1>13, <2>1
  <2>3. l.ret # "ok" => to1 = m.ip
    BY <1>1 DEF to1
  <2>4. CASE l.ret = "undef"
    <3>1. Frame(m, l, {})
      BY <1>13, <2>4
    <3>2. all \ {} = all
      OBVIOUS
    <3> QED
      BY <1>12, <2>3, <2>4, <3>1, <3>2
  <2>5. CASE l.ret \in {"ok", "badmem"}
    <3>1. Exact(m, l, moves, SPChange(i))
      BY <1>13, <2>5
    <3> HIDE DEF moves
    <3>2. bad <=> Bad(moves)
      BY DEF Bad, InMem
    <3> HIDE DEF bad
    <3>3. l.ret = IF bad THEN "badmem" ELSE "ok"
      BY <3>1, <3>2 DEF Exact
    <3>4. Frame(m, l, Range(SPCells) \cup {c[1] : c \in moves})
      <4>1. Dst(moves) \cup CellsOf(SPCells) = Range(SPCells) \cup {c[1] : c \in moves}
        BY <1>16 DEF Dst
      <4>2. Frame(m, l, Dst(moves) \cup CellsOf(SPCells))
        BY <3>1 DEF Exact
      <4> QED
        BY <4>1, <4>2
    <3> QED
      BY <1>12, <2>3, <2>5, <3>3, <3>4
  <2> QED
    BY <1>7, <2>2, <2>4, <2>5
<1> QED
  BY <1>14, <1>17, <1>18 DEF MovesInv

-----------------------------------------------------------------------------
(* Copies.                                                                 *)

\* A set of copies is bad when a cell on either side is.
LEMMA CopiesAre ==
  ASSUME NEW to, NEW from
  PROVE  /\ Bad(Copies(to, from)) <=> BadDst(to) \/ BadSrc(to, from)
         /\ Dst(Copies(to, from)) = CellsOf(to)
         /\ \A c \in Copies(to, from) : \E b \in DOMAIN to : c[1] = to[b] /\ c[2] = from[b]
<1>1. \A c \in Copies(to, from) : \E b \in DOMAIN to : c[1] = to[b] /\ c[2] = from[b]
  BY DEF Copies
<1>2. ASSUME NEW b \in DOMAIN to
      PROVE  \E c \in Copies(to, from) : c[1] = to[b] /\ c[2] = from[b]
  <2>1. <<to[b], from[b]>> \in Copies(to, from)
    BY DEF Copies
  <2> QED
    BY <2>1
<1>3. Bad(Copies(to, from)) <=> BadDst(to) \/ BadSrc(to, from)
  <2>1. ASSUME Bad(Copies(to, from)) PROVE BadDst(to) \/ BadSrc(to, from)
    <3>1. PICK c \in Copies(to, from) : InMem(c[1], holes \cup roms) \/ InMem(c[2], holes)
      BY <2>1 DEF Bad
    <3>2. PICK b \in DOMAIN to : c[1] = to[b] /\ c[2] = from[b]
      BY <1>1
    <3> QED
      BY <3>1, <3>2 DEF BadDst, BadSrc
  <2>2. ASSUME BadDst(to) \/ BadSrc(to, from) PROVE Bad(Copies(to, from))
    <3>1. PICK b \in DOMAIN to : InMem(to[b], holes \cup roms) \/ InMem(from[b], holes)
      BY <2>2 DEF BadDst, BadSrc
    <3>2. PICK c \in Copies(to, from) : c[1] = to[b] /\ c[2] = from[b]
      BY <1>2
    <3> QED
      BY <3>1, <3>2 DEF Bad
  <2> QED
    BY <2>1, <2>2
<1>4. Dst(Copies(to, from)) = CellsOf(to)
  BY <1>1, <1>2 DEF Dst, CellsOf
<1> QED
  BY <1>1, <1>3, <1>4

\* Two sets of copies.
LEMMA BothAre ==
  ASSUME NEW A, NEW B
  PROVE  /\ Bad(A \cup B) <=> Bad(A) \/ Bad(B)
         /\ Dst(A \cup B) = Dst(A) \cup Dst(B)
BY DEF Bad, Dst

\* The cells `to' of l hold what the cells `from' of m do, or some access failed.
Moved(m, l, to, from) ==
  /\ l \in Machines /\ l.ip = m.ip
  /\ Frame(m, l, CellsOf(to))
  /\ l.ret = IF BadDst(to) \/ BadSrc(to, from) THEN "badmem" ELSE "ok"
  /\ l.ret = "ok" => \A b \in DOMAIN to : Cell(l, to[b]) = Cell(m, from[b])

\* A write of what the cells hold moves them.
LEMMA WroteMoves ==
  ASSUME NEW m \in Machines, m.ret = "ok", NEW l, NEW to, NEW from, NEW v, Wrote(m, l, to, v),
         ~BadSrc(to, from), \A b \in DOMAIN to : v[b] = Cell(m, from[b])
  PROVE  Moved(m, l, to, from)
BY DEF Wrote, Moved

\* A machine is well-formed whatever it returns.
LEMMA FailedIs ==
  ASSUME NEW m \in Machines, NEW r \in {"ok", "badmem", "undef", "crash"}
  PROVE  /\ Failed(m, r) \in Machines
         /\ Failed(m, r).gpr = m.gpr /\ Failed(m, r).seg = m.seg /\ Failed(m, r).mem = m.mem
         /\ Failed(m, r).ip = m.ip /\ Failed(m, r).ret = r
BY DEF Machines, Failed

\* An access that fails moves nothing.
LEMMA FailedMoves ==
  ASSUME NEW m \in Machines, NEW to, NEW from, BadDst(to) \/ BadSrc(to, from)
  PROVE  Moved(m, Failed(m, "badmem"), to, from)
<1> DEFINE l == Failed(m, "badmem")
<1>1. /\ l \in Machines /\ l.gpr = m.gpr /\ l.seg = m.seg /\ l.mem = m.mem
      /\ l.ip = m.ip /\ l.ret = "badmem"
  BY FailedIs
<1> HIDE DEF l
<1>2. Frame(m, l, CellsOf(to))
  <2>1. Frame(m, l, {})
    BY <1>1, SameFrame
  <2> QED
    BY <2>1, FrameWider
<1> QED
  BY <1>1, <1>2 DEF Moved, l

\* Read, then write.
LEMMA WriteIfReadMoves ==
  ASSUME NEW m \in Machines, m.ret = "ok", NEW dst, IsRef(dst), NEW n \in {1, 2, 4}, NEW x, NEW from,
         HasRead(m, x, RefCells(dst, n), from), x.v \in Values(n)
  PROVE  Moved(m, WriteIfRead(m, dst, x), RefCells(dst, n), from)
<1> DEFINE to == RefCells(dst, n)
<1>1. CASE x.ret = "ok"
  <2>1. WriteIfRead(m, dst, x) = WriteV(m, dst, x.v)
    BY <1>1 DEF WriteIfRead
  <2>2. Wrote(m, WriteV(m, dst, x.v), to, x.v)
    BY WriteVWrote
  <2>3. ~BadSrc(to, from) /\ \A b \in DOMAIN to : x.v[b] = Cell(m, from[b])
    BY <1>1 DEF HasRead
  <2> QED
    BY <2>1, <2>2, <2>3, WroteMoves
<1>2. CASE x.ret # "ok"
  <2>1. BadSrc(to, from) /\ x.ret = "badmem"
    BY <1>2 DEF HasRead
  <2>2. WriteIfRead(m, dst, x) = Failed(m, "badmem")
    BY <1>2, <2>1 DEF WriteIfRead
  <2> QED
    BY <2>1, <2>2, FailedMoves
<1> QED
  BY <1>1, <1>2

\* What a copy moves.
LEMMA CopiedMoves ==
  ASSUME NEW m \in Machines, m.ret = "ok", NEW dst, IsRef(dst), NEW src, IsRef(src), NEW n \in {1, 2, 4}
  PROVE  Moved(m, Copied(m, dst, src, n), RefCells(dst, n), RefCells(src, n))
<1>1. DOMAIN RefCells(dst, n) = 1..n
  BY RefCellsAre
<1>2. HasRead(m, ReadV(m, src, n), RefCells(dst, n), RefCells(src, n)) /\ ReadV(m, src, n).v \in Values(n)
  BY <1>1, ReadVHas
<1> QED
  BY <1>2, WriteIfReadMoves DEF Copied

\* What is in a register when only some bytes could be read.
LEMMA IntoType ==
  ASSUME NEW m \in Machines, NEW a \in Nat, NEW n \in 1..4, NEW old \in Values(n)
  PROVE  /\ MemReadInto(old, m, a, n) \in Values(n)
         /\ MemRead(m, a, n).ret = "ok" => MemReadInto(old, m, a, n) = MemRead(m, a, n).v
<1> DEFINE k == Reached(a, n, holes)
<1>1. DOMAIN old = 1..n /\ \A b \in 1..n : old[b] \in Byte
  BY ValueIsSeq
<1>2. MemReadInto(old, m, a, n) = [b \in 1..n |-> IF b <= k THEN Peek(m, a + b - 1) ELSE old[b]]
  BY <1>1 DEF MemReadInto
<1>3. \A b \in 1..n : a + b - 1 \in Nat
  OBVIOUS
<1>4. \A b \in 1..n : Peek(m, a + b - 1) \in Byte
  BY <1>3, PeekType
<1>5. MemRead(m, a, n).ret = "ok" => k = n
  BY DEF MemRead
<1>6. MemRead(m, a, n).v = [b \in 1..n |-> Peek(m, a + b - 1)]
  BY DEF MemRead
<1> HIDE DEF k
<1>7. MemReadInto(old, m, a, n) \in Values(n)
  BY <1>1, <1>2, <1>4 DEF Values
<1>8. k = n => MemReadInto(old, m, a, n) = MemRead(m, a, n).v
  BY <1>2, <1>6
<1> QED
  BY <1>5, <1>7, <1>8

\* A read into a place, which it may leave half done.
LEMMA IntoMoves ==
  ASSUME NEW m \in Machines, m.ret = "ok", NEW a \in Nat, NEW n \in 1..4, NEW to, DOMAIN to = 1..n,
         ~BadDst(to), NEW old \in Values(n), NEW l, Wrote(m, l, to, MemReadInto(old, m, a, n))
  PROVE  Moved(m, [l EXCEPT !.ret = MemRead(m, a, n).ret], to, MemCells(a, n))
<1> DEFINE x == MemRead(m, a, n)
           from == MemCells(a, n)
           k == [l EXCEPT !.ret = x.ret]
           v == MemReadInto(old, m, a, n)
<1>1. HasRead(m, x, to, from)
  BY MemReadHas
<1>2. x.ret = "ok" => v = x.v
  BY IntoType
<1> HIDE DEF x, from, v
<1>3. x.ret = IF BadSrc(to, from) THEN "badmem" ELSE "ok"
  BY <1>1 DEF HasRead
<1>4. l \in Machines /\ l.ip = m.ip /\ Frame(m, l, CellsOf(to)) /\ \A b \in DOMAIN to : Cell(l, to[b]) = v[b]
  BY DEF Wrote, v
<1>5. k \in Machines /\ k.gpr = l.gpr /\ k.seg = l.seg /\ k.mem = l.mem /\ k.ip = l.ip /\ k.ret = x.ret
  BY <1>3, <1>4 DEF Machines
<1> HIDE DEF k
<1>6. \A c : Peek(k, c) = Peek(l, c)
  BY <1>5 DEF Peek
<1>7. Frame(m, k, CellsOf(to))
  BY <1>4, <1>5, <1>6 DEF Frame
<1>8. \A b \in DOMAIN to : Cell(k, to[b]) = Cell(l, to[b])
  BY <1>5, <1>6 DEF Cell
<1>9. x.ret = "ok" => \A b \in DOMAIN to : Cell(k, to[b]) = Cell(m, from[b])
  BY <1>1, <1>2, <1>4, <1>8 DEF HasRead
<1> QED
  BY <1>3, <1>4, <1>5, <1>7, <1>9 DEF Moved, k, from, x

\* Loading a register.
LEMMA LoadRegMoves ==
  ASSUME NEW m \in Machines, m.ret = "ok", NEW r \in Regs, NEW a \in Nat, NEW n \in {1, 2, 4}
  PROVE  Moved(m, LoadReg(m, r, a, n), RegCells(r, n), MemCells(a, n))
<1> DEFINE old == ReadReg(m, r, n)
           v == MemReadInto(old, m, a, n)
           to == RegCells(r, n)
<1>1. old \in Values(n) /\ n \in 1..4
  BY ReadRegHas
<1>2. v \in Values(n)
  BY <1>1, IntoType
<1>3. Wrote(m, SetReg(m, r, v), to, v)
  BY <1>2, SetRegWrote
<1>4. DOMAIN to = 1..n /\ \A b \in 1..n : to[b][1] = "r"
  BY RegCellsAre
<1>5. ~BadDst(to)
  <2> HIDE DEF to
  <2> QED
    BY <1>4, NoBadCells
<1>6. LoadReg(m, r, a, n) = [SetReg(m, r, v) EXCEPT !.ret = MemRead(m, a, n).ret]
  BY DEF LoadReg
<1> DEFINE l == SetReg(m, r, v)
<1>7. Moved(m, [l EXCEPT !.ret = MemRead(m, a, n).ret], to, MemCells(a, n))
  <2>1. Wrote(m, l, to, MemReadInto(old, m, a, n))
    BY <1>3
  <2> HIDE DEF old, to, l
  <2>2. DOMAIN to = 1..n /\ n \in 1..4
    BY <1>1, <1>4
  <2> QED
    BY <1>1, <1>5, <2>1, <2>2, IntoMoves
<1> QED
  BY <1>6, <1>7

\* Loading a segment register.
LEMMA LoadSegMoves ==
  ASSUME NEW m \in Machines, m.ret = "ok", NEW s \in 0..5, NEW a \in Nat
  PROVE  Moved(m, LoadSeg(m, s, a), SegCells(s), MemCells(a, 2))
<1> DEFINE old == m.seg[s]
           v == MemReadInto(old, m, a, 2)
           to == SegCells(s)
           l == [m EXCEPT !.seg[s] = v]
           r == MemRead(m, a, 2).ret
<1>1. old \in Values(2) /\ 2 \in 1..4
  BY Holding
<1>2. v \in Values(2)
  BY <1>1, IntoType
<1>3. Wrote(m, l, to, v)
  BY <1>2, SetSegWrote
<1>4. DOMAIN to = 1..2 /\ \A b \in 1..2 : to[b][1] = "s"
  BY DEF SegCells
<1>5. ~BadDst(to)
  <2> HIDE DEF to
  <2> QED
    BY <1>4, NoBadCells
<1>6. LoadSeg(m, s, a) = [l EXCEPT !.ret = r]
  <2>1. LoadSeg(m, s, a) = [m EXCEPT !.seg[s] = v, !.ret = r]
    BY DEF LoadSeg, Machines
  <2> HIDE DEF v, r
  <2>2. [m EXCEPT !.seg[s] = v, !.ret = r] = [[m EXCEPT !.seg[s] = v] EXCEPT !.ret = r]
    BY DEF Machines
  <2> QED
    BY <2>1, <2>2
<1>7. Moved(m, [l EXCEPT !.ret = r], to, MemCells(a, 2))
  <2> HIDE DEF old, to, l
  <2> QED
    BY <1>1, <1>3, <1>4, <1>5, IntoMoves
<1> QED
  BY <1>6, <1>7

-----------------------------------------------------------------------------
(* From moves to the invariant.                                            *)

\* The number in the low word of a register.
LEMMA BytesOfReg ==
  ASSUME NEW m \in Machines, NEW r \in Regs
  PROVE  \A b \in 1..2 : Bytes(W(m, r), 2)[b] = m.gpr[r][b]
<1>1. 1 \in 1..4 /\ 2 \in 1..4
  OBVIOUS
<1>2. m.gpr[r][1] \in Byte /\ m.gpr[r][2] \in Byte
  BY <1>1, Holding
<1> DEFINE p == m.gpr[r][1]
           q == m.gpr[r][2]
<1>3. W(m, r) = p + 256 * q /\ W(m, r) \in Nat
  BY Holding DEF W, Num, Offsets
<1>4. Bytes(W(m, r), 2)[1] = (p + 256 * q) % 256 /\ Bytes(W(m, r), 2)[2] = ((p + 256 * q) \div 256) % 256
  BY <1>3, BytesType
<1>5. p \in 0..255 /\ q \in 0..255
  BY <1>2 DEF Byte
<1> HIDE DEF p, q
<1>6. (p + 256 * q) % 256 = p /\ ((p + 256 * q) \div 256) % 256 = q
  BY <1>5, SMT
<1> QED
  BY <1>4, <1>6 DEF p, q

\* The cells of SP.
LEMMA SPCellsAre ==
  /\ SPCells[1] = <<"r", SP, 1>> /\ SPCells[2] = <<"r", SP, 2>>
  /\ CellsOf(SPCells) = {<<"r", SP, 1>>, <<"r", SP, 2>>}
  /\ SP \in Regs
<1>1. SPCells = [b \in 1..2 |-> <<"r", SP, b>>]
  BY DEF SPCells, RegCells
<1>2. DOMAIN SPCells = {1, 2} /\ SPCells[1] = <<"r", SP, 1>> /\ SPCells[2] = <<"r", SP, 2>>
  BY <1>1
<1>3. CellsOf(SPCells) = {SPCells[1], SPCells[2]}
  BY <1>2 DEF CellsOf
<1> QED
  BY <1>2, <1>3 DEF SP, Regs

\* SP is where it was unless it is a destination.
LEMMA SPStays ==
  ASSUME NEW m \in Machines, NEW l, NEW cells, Frame(m, l, cells), NEW b \in 1..2
  PROVE  SPCells[b] \in cells \/ l.gpr[SP][b] = Bytes((W(m, SP) + 0) % Word, 2)[b]
<1>1. SPCells[b] = <<"r", SP, b>> /\ SP \in Regs /\ b \in 1..4
  BY SPCellsAre
<1>2. l.gpr[SP][b] = m.gpr[SP][b] \/ <<"r", SP, b>> \in cells
  BY <1>1, FrameOfReg
<1>3. Bytes(W(m, SP), 2)[b] = m.gpr[SP][b]
  BY <1>1, BytesOfReg
<1>4. (W(m, SP) + 0) % Word = W(m, SP)
  <2>1. W(m, SP) \in Nat /\ W(m, SP) < 65536
    BY <1>1, Holding DEF Offsets
  <2> QED
    BY <2>1 DEF Word
<1> QED
  BY <1>1, <1>2, <1>3, <1>4

\* A single move.
LEMMA MovedExact ==
  ASSUME NEW m \in Machines, NEW l, NEW to, NEW from, Moved(m, l, to, from)
  PROVE  Exact(m, l, Copies(to, from), 0)
<1> DEFINE moves == Copies(to, from)
<1>1. /\ Bad(moves) <=> BadDst(to) \/ BadSrc(to, from)
      /\ Dst(moves) = CellsOf(to)
      /\ \A c \in moves : \E b \in DOMAIN to : c[1] = to[b] /\ c[2] = from[b]
  BY CopiesAre
<1> HIDE DEF moves
<1>2. /\ l \in Machines /\ Frame(m, l, CellsOf(to))
      /\ l.ret = IF BadDst(to) \/ BadSrc(to, from) THEN "badmem" ELSE "ok"
      /\ l.ret = "ok" => \A b \in DOMAIN to : Cell(l, to[b]) = Cell(m, from[b])
  BY DEF Moved
<1>3. Frame(m, l, Dst(moves) \cup CellsOf(SPCells))
  BY <1>1, <1>2, FrameWider
<1>4. \A b \in 1..2 : SPCells[b] \in Dst(moves) \/ l.gpr[SP][b] = Bytes((W(m, SP) + 0) % Word, 2)[b]
  BY <1>1, <1>2, SPStays
<1>5. l.ret = "ok" => \A c \in moves : Cell(l, c[1]) = Cell(m, c[2])
  BY <1>1, <1>2
<1> QED
  BY <1>1, <1>2, <1>3, <1>4, <1>5 DEF Exact, moves

\* IP behind the instruction.
LEMMA BehindIs ==
  ASSUME Typed, prog # <<>>, NEW next, next = Length(Instr) + 1, Length(Instr) \in Nat
  PROVE  /\ After(next) = (Machine.ip + Instr.pre + Length(Instr)) % Word
         /\ After(next) \in Offsets
<1>1. ip \in Nat /\ Instr.pre \in Nat /\ Machine.ip = ip
  BY MachineIs, InstrType, InstrIs DEF Typed, Offsets
<1>2. ip + Instr.pre + next - 1 = ip + Instr.pre + Length(Instr)
  BY <1>1
<1>3. After(next) = (ip + Instr.pre + Length(Instr)) % Word
  BY <1>2 DEF After
<1>4. (ip + Instr.pre + Length(Instr)) % Word \in Offsets
  BY <1>1 DEF Word, Offsets
<1> QED
  BY <1>1, <1>3, <1>4

\* An instruction that goes on behind itself.
LEMMA ExactStep ==
  ASSUME Typed, prog # <<>>, NEW l, NEW next, Done(l, next), NEW moves,
         Moves(Machine, Instr) = moves, Exact(Machine, l, moves, SPChange(Instr)),
         \A c \in moves : c[1][1] # "p", next = Length(Instr) + 1, Length(Instr) \in Nat,
         Instr.op = "LEA" => Mod(Instr) # 3
  PROVE  MovesInv'
<1>1. /\ After(next) = (Machine.ip + Instr.pre + Length(Instr)) % Word
      /\ After(next) \in Offsets
  BY BehindIs
<1>2. Leads(Machine, Instr, After(next), moves)
  BY <1>1 DEF Leads
<1>3. l \in Machines /\ (l.ret = "ok" \/ l.ret = "badmem")
  BY DEF Exact
<1>4. Right(Machine, Instr, l, After(next))
  BY <1>1, <1>2, <1>3 DEF Right
<1> QED
  BY <1>4, StepKeeps DEF Done

\* ... that is one move.
LEMMA MovedStep ==
  ASSUME Typed, prog # <<>>, NEW l, NEW next, Done(l, next), NEW to, NEW from,
         Moves(Machine, Instr) = Copies(to, from), Moved(Machine, l, to, from),
         SPChange(Instr) = 0, \A b \in DOMAIN to : to[b][1] # "p",
         next = Length(Instr) + 1, Length(Instr) \in Nat, Instr.op = "LEA" => Mod(Instr) # 3
  PROVE  MovesInv'
<1>1. Exact(Machine, l, Copies(to, from), SPChange(Instr))
  BY MachineIs, MovedExact
<1>2. \A c \in Copies(to, from) : c[1][1] # "p"
  BY CopiesAre
<1> QED
  BY <1>1, <1>2, ExactStep

\* One the processor does not know, or that brings down the host.
LEMMA RefusedStep ==
  ASSUME Typed, prog # <<>>, NEW to, NEW r, DoneAt(Failed(Machine, r), to),
         r = "undef" \/ (r = "crash" /\ Rrr(Instr) > 5)
  PROVE  MovesInv'
<1> DEFINE l == Failed(Machine, r)
<1>1. /\ l \in Machines /\ l.gpr = Machine.gpr /\ l.seg = Machine.seg /\ l.mem = Machine.mem /\ l.ret = r
  BY MachineIs, FailedIs
<1> HIDE DEF l
<1>2. Frame(Machine, l, {})
  BY <1>1, SameFrame
<1>3. Right(Machine, Instr, l, to)
  BY <1>1, <1>2 DEF Right
<1> QED
  BY <1>3, StepKeeps DEF l

-----------------------------------------------------------------------------
(* Cells of operands and literals.                                         *)

\* A cell that an instruction may write.
IsPlace(c) ==
  \/ \E k \in Regs, b \in 1..4 : c = <<"r", k, b>>
  \/ \E k \in 0..5, b \in 1..2 : c = <<"s", k, b>>
  \/ \E a \in Nat : c = <<"m", a>>

\* Places are no bytes of IP, and frames speak of them.
LEMMA PlaceIs ==
  ASSUME NEW c, IsPlace(c)
  PROVE  /\ c[1] \in {"r", "s", "m"}
         /\ \A m, l, except : Frame(m, l, except) /\ c \notin except => Cell(l, c) = Cell(m, c)
<1>1. c[1] \in {"r", "s", "m"}
  BY DEF IsPlace
<1>2. ASSUME NEW m, NEW l, NEW except, Frame(m, l, except), c \notin except
      PROVE  Cell(l, c) = Cell(m, c)
  <2>1. CASE \E k \in Regs, b \in 1..4 : c = <<"r", k, b>>
    <3>1. PICK k \in Regs, b \in 1..4 : c = <<"r", k, b>>
      BY <2>1
    <3>2. <<"r", k, b>> \notin except
      BY <1>2, <3>1
    <3>3. Cell(l, <<"r", k, b>>) = Cell(m, <<"r", k, b>>)
      BY <1>2, <3>2, FrameOfCell, Zenon
    <3> QED
      BY <3>1, <3>3
  <2>2. CASE \E k \in 0..5, b \in 1..2 : c = <<"s", k, b>>
    <3>1. PICK k \in 0..5, b \in 1..2 : c = <<"s", k, b>>
      BY <2>2
    <3>2. <<"s", k, b>> \notin except
      BY <1>2, <3>1
    <3>3. Cell(l, <<"s", k, b>>) = Cell(m, <<"s", k, b>>)
      BY <1>2, <3>2, FrameOfCell, Zenon
    <3> QED
      BY <3>1, <3>3
  <2>3. CASE \E a \in Nat : c = <<"m", a>>
    <3>1. PICK a \in Nat : c = <<"m", a>>
      BY <2>3
    <3>2. <<"m", a>> \notin except
      BY <1>2, <3>1
    <3>3. Cell(l, <<"m", a>>) = Cell(m, <<"m", a>>)
      BY <1>2, <3>2, FrameOfCell, Zenon
    <3> QED
      BY <3>1, <3>3
  <2> QED
    BY <2>1, <2>2, <2>3 DEF IsPlace
<1> QED
  BY <1>1, <1>2

\* Registers, segment registers and memory are places.
LEMMA RegPlaces ==
  ASSUME NEW r \in Regs, NEW n \in {1, 2, 4}
  PROVE  \A b \in DOMAIN RegCells(r, n) : IsPlace(RegCells(r, n)[b])
<1>1. /\ DOMAIN RegCells(r, n) = 1..n
      /\ \A b \in 1..n : \E k \in Regs, c \in 1..4 : RegCells(r, n)[b] = <<"r", k, c>>
  BY RegCellsAre
<1>2. \A b \in 1..n : IsPlace(RegCells(r, n)[b])
  BY <1>1, Zenon DEF IsPlace
<1> QED
  BY <1>1, <1>2

\* The cells of a segment register.
LEMMA SegCellsAre ==
  ASSUME NEW s
  PROVE  /\ DOMAIN SegCells(s) = 1..2
         /\ \A b \in 1..2 : SegCells(s)[b] = <<"s", s, b>> /\ SegCells(s)[b][1] = "s"
         /\ s \in 0..5 => \A b \in DOMAIN SegCells(s) : IsPlace(SegCells(s)[b])
<1>1. /\ DOMAIN SegCells(s) = 1..2
      /\ \A b \in 1..2 : SegCells(s)[b] = <<"s", s, b>> /\ SegCells(s)[b][1] = "s"
  BY DEF SegCells
<1> QED
  BY <1>1 DEF IsPlace

\* The cells of memory are places.
LEMMA MemPlaces ==
  ASSUME NEW a \in Nat, NEW n \in 1..4
  PROVE  \A b \in DOMAIN MemCells(a, n) : IsPlace(MemCells(a, n)[b])
<1>1. \A b \in DOMAIN MemCells(a, n) : MemCells(a, n)[b] = <<"m", a + b - 1>> /\ a + b - 1 \in Nat
  BY MemCellsAre
<1> QED
  BY <1>1 DEF IsPlace

\* The cells of an operand are places.
LEMMA RefPlaces ==
  ASSUME NEW r, IsRef(r), NEW n \in {1, 2, 4}
  PROVE  \A b \in DOMAIN RefCells(r, n) : IsPlace(RefCells(r, n)[b])
<1>1. CASE r.reg
  <2>1. r.num \in Regs /\ RefCells(r, n) = RegCells(r.num, n)
    BY <1>1 DEF IsRef, RefCells
  <2> QED
    BY <2>1, RegPlaces
<1>2. CASE ~r.reg
  <2>1. AddrOf(r, n) \in Nat /\ n \in 1..4 /\ RefCells(r, n) = MemCells(AddrOf(r, n), n)
    BY <1>2, AddrOfType DEF RefCells
  <2> QED
    BY <2>1, MemPlaces
<1> QED
  BY <1>1, <1>2

\* Literals hold what they say.
LEMMA LitHolds ==
  ASSUME NEW n \in 1..4, NEW v \in Values(n), NEW m
  PROVE  DOMAIN Lit(v) = 1..n /\ \A b \in 1..n : Lit(v)[b] = <<"v", v[b]>> /\ Cell(m, Lit(v)[b]) = v[b]
<1>1. DOMAIN v = 1..n
  BY ValueIsSeq
<1>2. DOMAIN Lit(v) = 1..n /\ \A b \in 1..n : Lit(v)[b] = <<"v", v[b]>>
  BY <1>1 DEF Lit
<1>3. \A b \in 1..n : Cell(m, <<"v", v[b]>>) = v[b]
  BY CellIs
<1> QED
  BY <1>2, <1>3

\* They are never bad.
LEMMA LitIsGood ==
  ASSUME NEW n \in 1..4, NEW v \in Values(n), NEW to, DOMAIN to = 1..n
  PROVE  ~BadSrc(to, Lit(v))
<1>1. DOMAIN v = 1..n
  BY ValueIsSeq
<1>2. \A b \in 1..n : Lit(v)[b][1] = "v"
  BY <1>1 DEF Lit
<1> QED
  BY <1>2 DEF BadSrc, InMem

\* A value written is a literal moved.
LEMMA LitMoves ==
  ASSUME NEW m \in Machines, m.ret = "ok", NEW l, NEW n \in 1..4, NEW to, DOMAIN to = 1..n,
         NEW v \in Values(n), Wrote(m, l, to, v)
  PROVE  Moved(m, l, to, Lit(v))
<1>1. ~BadSrc(to, Lit(v))
  BY LitIsGood
<1>2. \A b \in 1..n : Cell(m, Lit(v)[b]) = v[b]
  BY LitHolds
<1>3. \A b \in DOMAIN to : v[b] = Cell(m, Lit(v)[b])
  BY <1>2
<1> QED
  BY <1>1, <1>3, WroteMoves

\* Only the cells that are copied matter.
LEMMA SameCopies ==
  ASSUME NEW to, NEW f, NEW g, \A b \in DOMAIN to : f[b] = g[b]
  PROVE  Copies(to, f) = Copies(to, g)
BY DEF Copies

\* Cells other than memory are never bad.
LEMMA GoodSrc ==
  ASSUME NEW to, NEW from, \A b \in DOMAIN to : from[b][1] # "m"
  PROVE  ~BadSrc(to, from)
BY DEF BadSrc, InMem

\* The cells of one, then those of the other.
IsCells(s, p) == DOMAIN s = 1..p /\ s = [b \in 1..p |-> s[b]]
Joined(c, s, p, t, q) ==
  /\ DOMAIN c = 1 .. p + q
  /\ \A b \in 1..p : c[b] = s[b]
  /\ \A b \in 1..q : c[p + b] = t[b]

\* ... is what concatenation makes.
LEMMA ConcatIs ==
  ASSUME NEW p \in 1..4, NEW q \in 1..4, NEW s, NEW t, IsCells(s, p), IsCells(t, q)
  PROVE  Joined(s \o t, s, p, t, q)
<1> DEFINE S == {s[b] : b \in 1..p} \cup {t[b] : b \in 1..q}
<1>1. s \in [1..p -> S] /\ t \in [1..q -> S]
  BY DEF IsCells
<1> HIDE DEF S
<1>2. s \in Seq(S) /\ t \in Seq(S)
  BY <1>1, SeqDef
<1>3. Len(s) = p /\ Len(t) = q
  BY <1>2, LenProperties DEF IsCells
<1>4. /\ s \o t \in Seq(S) /\ Len(s \o t) = p + q
      /\ \A i \in 1 .. p + q : (s \o t)[i] = IF i <= p THEN s[i] ELSE t[i - p]
  BY <1>2, <1>3, ConcatProperties
<1>5. DOMAIN (s \o t) = 1 .. p + q
  BY <1>4, LenProperties
<1>6. \A b \in 1..p : b \in 1 .. p + q /\ b <= p
  OBVIOUS
<1>7. \A b \in 1..q : p + b \in 1 .. p + q /\ ~(p + b <= p) /\ (p + b) - p = b
  OBVIOUS
<1> QED
  BY <1>4, <1>5, <1>6, <1>7 DEF Joined

-----------------------------------------------------------------------------
(* Two moves.                                                              *)

MovedAll(m, l, moves) ==
  /\ l \in Machines /\ l.ip = m.ip /\ Frame(m, l, Dst(moves))
  /\ l.ret = IF Bad(moves) THEN "badmem" ELSE "ok"
  /\ l.ret = "ok" => \A c \in moves : Cell(l, c[1]) = Cell(m, c[2])

\* An instruction that leaves SP alone and moves what Moves says is exact.
LEMMA MovedAllExact ==
  ASSUME NEW m \in Machines, NEW l, NEW moves, MovedAll(m, l, moves)
  PROVE  Exact(m, l, moves, 0)
<1>1. Frame(m, l, Dst(moves) \cup CellsOf(SPCells))
  BY FrameWider DEF MovedAll
<1>2. Frame(m, l, Dst(moves))
  BY DEF MovedAll
<1>3. \A b \in 1..2 : SPCells[b] \in Dst(moves) \/ l.gpr[SP][b] = Bytes((W(m, SP) + 0) % Word, 2)[b]
  BY <1>2, SPStays
<1> QED
  BY <1>1, <1>3 DEF MovedAll, Exact

\* A second move after a first that did not fail: it finds in `got' what was in
\* `from2', and where both write the same cell they write the same.
LEMMA TwoMoves ==
  ASSUME NEW m \in Machines, NEW l1, NEW l2, NEW to1, NEW from1, NEW to2, NEW from2, NEW got,
         Moved(m, l1, to1, from1),
         l1.ret = "ok" => Moved(l1, l2, to2, got),
         l1.ret # "ok" => l2 = l1,
         BadSrc(to2, got) <=> BadSrc(to2, from2),
         l1.ret = "ok" => \A b \in DOMAIN to2 : Cell(l1, got[b]) = Cell(m, from2[b]),
         \A x \in DOMAIN to1 : IsPlace(to1[x]),
         \A x \in DOMAIN to1, y \in DOMAIN to2 :
            to1[x] = to2[y] => Cell(m, from1[x]) = Cell(m, from2[y])
  PROVE  MovedAll(m, l2, Copies(to1, from1) \cup Copies(to2, from2))
<1> DEFINE A == Copies(to1, from1)
           B == Copies(to2, from2)
<1>1. /\ Bad(A) <=> BadDst(to1) \/ BadSrc(to1, from1)
      /\ Dst(A) = CellsOf(to1)
      /\ \A c \in A : \E b \in DOMAIN to1 : c[1] = to1[b] /\ c[2] = from1[b]
  BY CopiesAre
<1>2. /\ Bad(B) <=> BadDst(to2) \/ BadSrc(to2, from2)
      /\ Dst(B) = CellsOf(to2)
      /\ \A c \in B : \E b \in DOMAIN to2 : c[1] = to2[b] /\ c[2] = from2[b]
  BY CopiesAre
<1> HIDE DEF A, B
<1>3. (Bad(A \cup B) <=> Bad(A) \/ Bad(B)) /\ Dst(A \cup B) = Dst(A) \cup Dst(B)
  BY BothAre
<1>4. /\ l1 \in Machines /\ l1.ip = m.ip /\ Frame(m, l1, CellsOf(to1))
      /\ l1.ret = IF Bad(A) THEN "badmem" ELSE "ok"
      /\ l1.ret = "ok" => \A b \in DOMAIN to1 : Cell(l1, to1[b]) = Cell(m, from1[b])
  BY <1>1 DEF Moved
<1>5. CASE l1.ret # "ok"
  <2>1. l2 = l1 /\ Bad(A \cup B)
    BY <1>3, <1>4, <1>5
  <2>2. Frame(m, l2, Dst(A \cup B))
    BY <1>1, <1>3, <1>4, <2>1, FrameWider
  <2>3. MovedAll(m, l2, A \cup B)
    BY <1>4, <1>5, <2>1, <2>2 DEF MovedAll
  <2> QED
    BY <2>3 DEF A, B
<1>6. CASE l1.ret = "ok"
  <2>1. /\ l2 \in Machines /\ l2.ip = l1.ip /\ Frame(l1, l2, CellsOf(to2))
        /\ l2.ret = IF Bad(B) THEN "badmem" ELSE "ok"
        /\ l2.ret = "ok" => \A b \in DOMAIN to2 : Cell(l2, to2[b]) = Cell(l1, got[b])
    BY <1>2, <1>6 DEF Moved
  <2>2. Frame(m, l2, Dst(A \cup B))
    BY <1>1, <1>2, <1>3, <1>4, <2>1, FrameJoin
  <2>3. l2.ret = IF Bad(A \cup B) THEN "badmem" ELSE "ok"
    BY <1>3, <1>4, <1>6, <2>1
  <2>4. \A b \in DOMAIN to2 : Cell(l1, got[b]) = Cell(m, from2[b])
    BY <1>6
  <2>5. ASSUME l2.ret = "ok", NEW x \in DOMAIN to1
        PROVE  Cell(l2, to1[x]) = Cell(m, from1[x])
    <3>1. CASE to1[x] \in CellsOf(to2)
      <4>1. PICK y \in DOMAIN to2 : to1[x] = to2[y]
        BY <3>1 DEF CellsOf
      <4>2. Cell(l2, to2[y]) = Cell(m, from2[y])
        BY <2>1, <2>4, <2>5
      <4>3. Cell(m, from1[x]) = Cell(m, from2[y])
        BY <4>1
      <4> QED
        BY <4>1, <4>2, <4>3
    <3>2. CASE to1[x] \notin CellsOf(to2)
      <4>1. Cell(l2, to1[x]) = Cell(l1, to1[x])
        BY <2>1, <3>2, PlaceIs
      <4> QED
        BY <1>4, <1>6, <4>1
    <3> QED
      BY <3>1, <3>2
  <2>6. ASSUME l2.ret = "ok", NEW c \in A \cup B
        PROVE  Cell(l2, c[1]) = Cell(m, c[2])
    <3>1. CASE c \in A
      BY <1>1, <2>5, <2>6, <3>1
    <3>2. CASE c \in B
      BY <1>2, <2>1, <2>4, <2>6, <3>2
    <3> QED
      BY <3>1, <3>2
  <2>7. MovedAll(m, l2, A \cup B)
    BY <1>4, <2>1, <2>2, <2>3, <2>6 DEF MovedAll
  <2> QED
    BY <2>7 DEF A, B
<1> QED
  BY <1>5, <1>6

-----------------------------------------------------------------------------
(* The moves of ops_mov.c, one lemma for each action.                      *)

\* What every action starts from.
LEMMA Starts ==
  ASSUME Typed, NEW op, Runs(op)
  PROVE  /\ prog # <<>> /\ Instr.op = op /\ Instr \in Instructions
         /\ Machine \in Machines /\ Machine.ret = "ok"
         /\ Instr.size \in {1, 2, 4} /\ Instr.param \in Regs
         /\ Mod(Instr) \in 0..3 /\ Rrr(Instr) \in Regs /\ Mmm(Instr) \in Regs
         /\ MemRef = DecodeModM(Machine, Instr)
         /\ IsRef(MemRef) /\ MemRef.next = ModRMLength(Instr) + 1 /\ ModRMLength(Instr) \in Nat
         /\ (Mod(Instr) = 3 => MemRef.reg = TRUE) /\ (Mod(Instr) # 3 => MemRef.reg = FALSE)
         /\ IsRef(RegRef) /\ \A n : RefCells(RegRef, n) = RegCells(Rrr(Instr), n)
         /\ RegRef.reg = TRUE /\ RegRef.num = Rrr(Instr)
<1>1. prog # <<>> /\ Instr.op = op
  BY DEF Runs, Instr
<1>2. Instr \in Instructions /\ Machine \in Machines /\ Machine.ret = "ok"
  BY <1>1, InstrType, MachineIs
<1>3. /\ Instr.size \in {1, 2, 4} /\ Instr.param \in Regs
      /\ Mod(Instr) \in 0..3 /\ Rrr(Instr) \in Regs /\ Mmm(Instr) \in Regs
  BY <1>2, InstrIs, FieldsAre
<1>4. MemRef = DecodeModM(Machine, Instr)
  BY DEF MemRef
<1>5. /\ IsRef(MemRef) /\ MemRef.next = ModRMLength(Instr) + 1 /\ ModRMLength(Instr) \in Nat
      /\ (Mod(Instr) = 3 => MemRef.reg = TRUE) /\ (Mod(Instr) # 3 => MemRef.reg = FALSE)
  BY <1>2, <1>4, OperandType
<1>6. RegRef = [reg |-> TRUE, num |-> Rrr(Instr), wrap |-> FALSE, lin |-> 0, next |-> 0]
  BY DEF RegRef, Register
<1>7. RegRef.reg = TRUE /\ RegRef.num = Rrr(Instr)
  BY <1>6
<1>8. IsRef(RegRef) /\ \A n : RefCells(RegRef, n) = RegCells(Rrr(Instr), n)
  BY <1>3, <1>7 DEF IsRef, RefCells
<1> QED
  BY <1>1, <1>2, <1>3, <1>4, <1>5, <1>7, <1>8

\* Only the forms for bytes have a size of 1.
LEMMA NoByteForm ==
  ASSUME Typed, NEW op, Runs(op), op \notin ByteForms
  PROVE  Instr.size \in {2, 4}
BY Starts, InstrIs

\* Cells of operands are not of IP.
LEMMA PlacesNoIP ==
  ASSUME NEW to, \A b \in DOMAIN to : IsPlace(to[b])
  PROVE  \A b \in DOMAIN to : to[b][1] # "p"
BY PlaceIs

\* Most instructions leave SP alone and end with their operand.
PlainOps == {"MOV_MR", "MOV_RM", "MOV_RS", "MOV_SR", "MOV_Z", "MOV_ZX", "XCHG_RM", "LxS",
             "LEA", "INC", "DEC", "JMP_N", "JMP_F"}

\* An instruction with a ModR/M byte, no immediate and no push ends after that byte
\* and its displacement.
LEMMA PlainEnds ==
  ASSUME Typed, NEW op, Runs(op), op \in PlainOps
  PROVE  MemRef.next = Length(Instr) + 1 /\ Length(Instr) \in Nat /\ SPChange(Instr) = 0
<1>1. Instr.op = op
  BY Starts
<1>2. MemRef.next = ModRMLength(Instr) + 1 /\ ModRMLength(Instr) \in Nat
  BY Starts
<1>3. Length(Instr) = ModRMLength(Instr)
  BY <1>1 DEF Length, PlainOps
<1>4. SPChange(Instr) = 0
  BY <1>1 DEF SPChange, PlainOps
<1> QED
  BY <1>2, <1>3, <1>4

\* MOV to an operand.
LEMMA MOV_MR_Keeps ==
  ASSUME Typed, MOV_MR
  PROVE  MovesInv'
<1> DEFINE n == Instr.size
           l == Copied(Machine, MemRef, RegRef, n)
           to == RefCells(MemRef, n)
           from == RegCells(Rrr(Instr), n)
<1>1. Runs("MOV_MR") /\ Done(l, MemRef.next)
  BY DEF MOV_MR
<1>2. prog # <<>> /\ Instr.op = "MOV_MR"
  BY <1>1, Starts
<1>3. Moved(Machine, l, to, from)
  BY <1>1, Starts, CopiedMoves
<1>4. Moves(Machine, Instr) = Copies(to, from)
  BY <1>2 DEF Moves, MovesOf, MemRef
<1>5. \A b \in DOMAIN to : to[b][1] # "p"
  BY <1>1, Starts, RefPlaces, PlacesNoIP
<1>6. MemRef.next = Length(Instr) + 1 /\ Length(Instr) \in Nat /\ SPChange(Instr) = 0
  BY <1>1, PlainEnds DEF PlainOps
<1> HIDE DEF n, l, to, from
<1> QED
  BY <1>1, <1>2, <1>3, <1>4, <1>5, <1>6, MovedStep

\* MOV from an operand.
LEMMA MOV_RM_Keeps ==
  ASSUME Typed, MOV_RM
  PROVE  MovesInv'
<1> DEFINE n == Instr.size
           l == Copied(Machine, RegRef, MemRef, n)
           to == RegCells(Rrr(Instr), n)
           from == RefCells(MemRef, n)
<1>1. Runs("MOV_RM") /\ Done(l, MemRef.next)
  BY DEF MOV_RM
<1>2. prog # <<>> /\ Instr.op = "MOV_RM"
  BY <1>1, Starts
<1>3. Moved(Machine, l, to, from)
  BY <1>1, Starts, CopiedMoves
<1>4. Moves(Machine, Instr) = Copies(to, from)
  BY <1>2 DEF Moves, MovesOf, MemRef
<1>5. \A b \in DOMAIN to : to[b][1] # "p"
  BY <1>1, Starts, RegPlaces, PlacesNoIP
<1>6. MemRef.next = Length(Instr) + 1 /\ Length(Instr) \in Nat /\ SPChange(Instr) = 0
  BY <1>1, PlainEnds DEF PlainOps
<1> HIDE DEF n, l, to, from
<1> QED
  BY <1>1, <1>2, <1>3, <1>4, <1>5, <1>6, MovedStep

\* A literal goes to an operand.
LEMMA WriteVMoves ==
  ASSUME NEW m \in Machines, m.ret = "ok", NEW r, IsRef(r), NEW n \in {1, 2, 4}, NEW v \in Values(n)
  PROVE  Moved(m, WriteV(m, r, v), RefCells(r, n), Lit(v))
<1>1. Wrote(m, WriteV(m, r, v), RefCells(r, n), v)
  BY WriteVWrote
<1>2. DOMAIN RefCells(r, n) = 1..n /\ n \in 1..4
  BY RefCellsAre
<1> QED
  BY <1>1, <1>2, LitMoves

\* ... or to a register.
LEMMA SetRegMoves ==
  ASSUME NEW m \in Machines, m.ret = "ok", NEW r \in Regs, NEW n \in {1, 2, 4}, NEW v \in Values(n)
  PROVE  Moved(m, SetReg(m, r, v), RegCells(r, n), Lit(v))
<1>1. Wrote(m, SetReg(m, r, v), RegCells(r, n), v)
  BY SetRegWrote
<1>2. DOMAIN RegCells(r, n) = 1..n
  BY RegCellsAre
<1>3. n \in 1..4
  OBVIOUS
<1> QED
  BY <1>1, <1>2, <1>3, LitMoves

\* MOV of an immediate to an operand.
LEMMA MOV_MI_Keeps ==
  ASSUME Typed, MOV_MI
  PROVE  MovesInv'
<1> DEFINE n == Instr.size
           v == Imm(Instr, MemRef.next, n)
           l == WriteV(Machine, MemRef, v)
           to == RefCells(MemRef, n)
           next == MemRef.next + n
<1>1. Runs("MOV_MI") /\ Done(l, next)
  BY DEF MOV_MI
<1>2. prog # <<>> /\ Instr.op = "MOV_MI"
  BY <1>1, Starts
<1>3. MemRef.next \in Nat /\ n \in 1..4 /\ MemRef.next = ModRMLength(Instr) + 1 /\ ModRMLength(Instr) \in Nat
  <2>1. n \in {1, 2, 4} /\ MemRef.next = ModRMLength(Instr) + 1 /\ ModRMLength(Instr) \in Nat
    BY <1>1, Starts
  <2> QED
    BY <2>1
<1>4. v \in Values(n)
  BY <1>1, <1>3, Starts, ImmType
<1>5. Moved(Machine, l, to, Lit(v))
  BY <1>1, <1>4, Starts, WriteVMoves
<1>6. Length(Instr) = ModRMLength(Instr) + n /\ SPChange(Instr) = 0
  BY <1>2 DEF Length, SPChange
<1>7. Length(Instr) - n + 1 = MemRef.next /\ next = Length(Instr) + 1 /\ Length(Instr) \in Nat
  BY <1>3, <1>6
<1>8. Moves(Machine, Instr) = Copies(to, Lit(v))
  <2>1. Moves(Machine, Instr) = Copies(to, Lit(Imm(Instr, Length(Instr) - n + 1, n)))
    BY <1>2 DEF Moves, MovesOf, MemRef
  <2> QED
    BY <1>7, <2>1
<1>9. \A b \in DOMAIN to : to[b][1] # "p"
  BY <1>1, Starts, RefPlaces, PlacesNoIP
<1> HIDE DEF n, l, to, v, next
<1> QED
  BY <1>1, <1>2, <1>5, <1>6, <1>7, <1>8, <1>9, MovedStep

\* Segments and offsets make addresses.
LEMMA LinearType ==
  ASSUME NEW s \in Offsets, NEW o \in Int
  PROVE  Linear(s, o) \in Nat
BY DEF Linear, Word, Offsets

\* The data of an offset in the instruction or a register.
LEMMA DataIs ==
  ASSUME Typed, NEW op, Runs(op), NEW ofs \in Int
  PROVE  /\ DataAt(ofs) = Linear(Num(Machine.seg[GetSegment(Instr, DS)]), ofs)
         /\ DataAt(ofs) \in Nat
<1>1. Instr \in Instructions /\ Machine \in Machines
  BY Starts
<1>2. GetSegment(Instr, DS) \in 0..5
  <2>1. Instr.ovr \in 0..6
    BY <1>1, InstrIs
  <2> QED
    BY <2>1 DEF GetSegment, DS
<1>3. Num(Machine.seg[GetSegment(Instr, DS)]) \in Offsets
  BY <1>1, <1>2, Holding
<1>4. Machine.seg = seg
  BY MachineIs
<1>5. DataAt(ofs) = Linear(Num(Machine.seg[GetSegment(Instr, DS)]), ofs)
  BY <1>4 DEF DataAt
<1> QED
  BY <1>3, <1>5, LinearType

\* The offset of MOV between A and memory.
LEMMA MoffsIs ==
  ASSUME Typed, NEW op, Runs(op), op \in {"MOV_AMo", "MOV_MoA"}
  PROVE  /\ Moffs(Instr).ofs \in Int
         /\ Moffs(Instr).next = Length(Instr) + 1 /\ Length(Instr) \in Nat /\ SPChange(Instr) = 0
<1>1. Instr.op = op /\ Instr \in Instructions /\ Instr.addr32 \in BOOLEAN
  BY Starts, InstrIs
<1>2. Length(Instr) = IF Instr.addr32 THEN 4 ELSE 2
  BY <1>1 DEF Length
<1>3. SPChange(Instr) = 0
  BY <1>1 DEF SPChange
<1>4. 1 \in Nat
  OBVIOUS
<1>5. Imm32(Instr, 1) \in Nat /\ Num(Imm(Instr, 1, 2)) \in Offsets
  BY <1>1, <1>4, ImmType
<1>6. Imm32(Instr, 1) \in Int /\ Num(Imm(Instr, 1, 2)) \in Int
  BY <1>5 DEF Offsets
<1> QED
  BY <1>1, <1>2, <1>3, <1>6 DEF Moffs

\* MOV from memory to A.
LEMMA MOV_AMo_Keeps ==
  ASSUME Typed, MOV_AMo
  PROVE  MovesInv'
<1> DEFINE n == Instr.size
           a == DataAt(Moffs(Instr).ofs)
           l == LoadReg(Machine, AX, a, n)
           to == RegCells(AX, n)
           from == MemCells(a, n)
<1>1. Runs("MOV_AMo") /\ Done(l, Moffs(Instr).next)
  BY DEF MOV_AMo
<1>2. prog # <<>> /\ Instr.op = "MOV_AMo" /\ Machine \in Machines /\ Machine.ret = "ok" /\ n \in {1, 2, 4}
  BY <1>1, Starts
<1>3. /\ Moffs(Instr).ofs \in Int
      /\ Moffs(Instr).next = Length(Instr) + 1 /\ Length(Instr) \in Nat /\ SPChange(Instr) = 0
  BY <1>1, MoffsIs
<1>4. a = Linear(Num(Machine.seg[GetSegment(Instr, DS)]), Moffs(Instr).ofs) /\ a \in Nat
  BY <1>1, <1>3, DataIs
<1>5. Moves(Machine, Instr) = Copies(to, from)
  BY <1>2, <1>4 DEF Moves, MovesOf
<1>6. AX \in Regs
  BY DEF AX, Regs
<1>7. Moved(Machine, l, to, from)
  BY <1>2, <1>4, <1>6, LoadRegMoves
<1>8. \A b \in DOMAIN to : to[b][1] # "p"
  BY <1>2, <1>6, RegPlaces, PlacesNoIP
<1> HIDE DEF n, l, to, from, a
<1> QED
  BY <1>1, <1>2, <1>3, <1>5, <1>7, <1>8, MovedStep

\* MOV from A to memory.
LEMMA MOV_MoA_Keeps ==
  ASSUME Typed, MOV_MoA
  PROVE  MovesInv'
<1> DEFINE n == Instr.size
           a == DataAt(Moffs(Instr).ofs)
           v == ReadReg(Machine, AX, n)
           l == MemWrite(Machine, a, v)
           to == MemCells(a, n)
           from == RegCells(AX, n)
<1>1. Runs("MOV_MoA") /\ Done(l, Moffs(Instr).next)
  BY DEF MOV_MoA
<1>2. prog # <<>> /\ Instr.op = "MOV_MoA" /\ Machine \in Machines /\ Machine.ret = "ok" /\ n \in {1, 2, 4}
  BY <1>1, Starts
<1>3. /\ Moffs(Instr).ofs \in Int
      /\ Moffs(Instr).next = Length(Instr) + 1 /\ Length(Instr) \in Nat /\ SPChange(Instr) = 0
  BY <1>1, MoffsIs
<1>4. a = Linear(Num(Machine.seg[GetSegment(Instr, DS)]), Moffs(Instr).ofs) /\ a \in Nat
  BY <1>1, <1>3, DataIs
<1>5. Moves(Machine, Instr) = Copies(to, from)
  BY <1>2, <1>4 DEF Moves, MovesOf
<1>6. AX \in Regs /\ n \in 1..4
  BY <1>2 DEF AX, Regs
<1>7. v \in Values(n) /\ \A b \in 1..n : v[b] = Cell(Machine, from[b])
  BY <1>2, <1>6, ReadRegHas
<1>8. DOMAIN to = 1..n /\ \A b \in DOMAIN to : to[b][1] # "p"
  BY <1>4, <1>6, MemCellsAre, MemPlaces, PlacesNoIP
<1>9. \A b \in 1..n : from[b][1] = "r"
  BY <1>2, <1>6, RegCellsAre
<1>10. Wrote(Machine, l, to, v)
  BY <1>2, <1>4, <1>6, <1>7, MemWriteWrote
<1> HIDE DEF n, l, to, from, a, v
<1>11. ~BadSrc(to, from)
  BY <1>8, <1>9, GoodSrc
<1>12. Moved(Machine, l, to, from)
  BY <1>2, <1>7, <1>8, <1>10, <1>11, WroteMoves
<1> QED
  BY <1>1, <1>2, <1>3, <1>5, <1>8, <1>12, MovedStep

\* A wide instruction of a kind that has no wide form.
LEMMA UndefinedStep ==
  ASSUME Typed, prog # <<>>, NEW to, DoneAt(Undefined, to)
  PROVE  MovesInv'
BY RefusedStep DEF Undefined

\* What segment registers hold.
LEMMA SegHas ==
  ASSUME NEW m \in Machines, NEW s \in 0..5
  PROVE  /\ m.seg[s] \in Values(2)
         /\ \A b \in 1..2 : m.seg[s][b] = Cell(m, SegCells(s)[b])
         /\ \A to : DOMAIN to = 1..2 => ~BadSrc(to, SegCells(s))
<1>1. m.seg[s] \in Values(2)
  BY Holding
<1>2. DOMAIN SegCells(s) = 1..2 /\ \A b \in 1..2 : SegCells(s)[b] = <<"s", s, b>> /\ SegCells(s)[b][1] = "s"
  BY SegCellsAre
<1>3. \A b \in 1..2 : m.seg[s][b] = Cell(m, SegCells(s)[b])
  BY <1>2, CellIs
<1>4. ASSUME NEW to, DOMAIN to = 1..2
      PROVE  ~BadSrc(to, SegCells(s))
  BY <1>2, <1>4, GoodSrc
<1> QED
  BY <1>1, <1>3, <1>4

\* MOV from a segment register.
LEMMA MOV_RS_Keeps ==
  ASSUME Typed, MOV_RS
  PROVE  MovesInv'
<1> DEFINE s == Rrr(Instr)
           to == RefCells(MemRef, 2)
           from == SegCells(s)
<1>1. /\ Runs("MOV_RS")
      /\ Done(IF Wide(Instr) THEN Undefined
              ELSE IF s > 5 THEN Failed(Machine, "crash") ELSE WriteV(Machine, MemRef, seg[s]), MemRef.next)
  BY DEF MOV_RS
<1>2. prog # <<>> /\ Instr.op = "MOV_RS" /\ s \in Regs
  BY <1>1, Starts
<1>3. CASE Wide(Instr)
  BY <1>1, <1>2, <1>3, UndefinedStep DEF Done
<1>4. CASE ~Wide(Instr) /\ s > 5
  BY <1>1, <1>2, <1>4, RefusedStep DEF Done
<1>5. CASE ~Wide(Instr) /\ ~(s > 5)
  <2> DEFINE l == WriteV(Machine, MemRef, seg[s])
  <2>1. Done(l, MemRef.next) /\ s \in 0..5
    BY <1>1, <1>2, <1>5 DEF Regs
  <2>2. Machine \in Machines /\ Machine.ret = "ok" /\ IsRef(MemRef) /\ Machine.seg = seg
    BY <1>1, Starts, MachineIs
  <2>3. /\ seg[s] \in Values(2)
        /\ \A b \in 1..2 : seg[s][b] = Cell(Machine, from[b])
        /\ \A cells : DOMAIN cells = 1..2 => ~BadSrc(cells, from)
    BY <2>1, <2>2, SegHas
  <2>4. DOMAIN to = 1..2
    BY <2>2, RefCellsAre
  <2>5. Wrote(Machine, l, to, seg[s])
    BY <2>2, <2>3, WriteVWrote
  <2>6. Moves(Machine, Instr) = Copies(to, from)
    BY <1>2 DEF Moves, MovesOf, MemRef
  <2>7. \A b \in DOMAIN to : to[b][1] # "p"
    BY <2>2, RefPlaces, PlacesNoIP
  <2>8. MemRef.next = Length(Instr) + 1 /\ Length(Instr) \in Nat /\ SPChange(Instr) = 0
    BY <1>1, PlainEnds DEF PlainOps
  <2> HIDE DEF l, to, from
  <2>9. Moved(Machine, l, to, from)
    BY <2>2, <2>3, <2>4, <2>5, WroteMoves
  <2> QED
    BY <1>2, <2>1, <2>6, <2>7, <2>8, <2>9, MovedStep
<1> QED
  BY <1>3, <1>4, <1>5

\* MOV to a segment register.
LEMMA MOV_SR_Keeps ==
  ASSUME Typed, MOV_SR
  PROVE  MovesInv'
<1> DEFINE s == Rrr(Instr)
           a == AddrOf(MemRef, 2)
           to == SegCells(s)
           from == RefCells(MemRef, 2)
           loaded == IF MemRef.reg THEN [Machine EXCEPT !.seg[s] = ReadReg(Machine, MemRef.num, 2)]
                     ELSE LoadSeg(Machine, s, a)
           why == IF ~MemRef.reg /\ Reached(a, 2, holes) = 0 THEN "badmem" ELSE "crash"
<1>1. /\ Runs("MOV_SR")
      /\ Done(IF Wide(Instr) THEN Undefined ELSE IF s > 5 THEN Failed(Machine, why) ELSE loaded,
              MemRef.next)
  BY DEF MOV_SR
<1>2. /\ prog # <<>> /\ Instr.op = "MOV_SR" /\ s \in Regs /\ IsRef(MemRef)
      /\ Machine \in Machines /\ Machine.ret = "ok"
  BY <1>1, Starts
<1>3. Moves(Machine, Instr) = Copies(to, from)
  BY <1>2 DEF Moves, MovesOf, MemRef
<1>4. MemRef.next = Length(Instr) + 1 /\ Length(Instr) \in Nat /\ SPChange(Instr) = 0
  BY <1>1, PlainEnds DEF PlainOps
<1>5. DOMAIN to = 1..2 /\ \A b \in DOMAIN to : to[b][1] = "s"
  BY SegCellsAre
<1>6. \A b \in DOMAIN to : to[b][1] # "p"
  BY <1>5
<1>7. CASE Wide(Instr)
  BY <1>1, <1>2, <1>7, UndefinedStep DEF Done
<1>8. CASE ~Wide(Instr) /\ s > 5
  <2>1. DoneAt(Failed(Machine, why), After(MemRef.next)) /\ Done(Failed(Machine, why), MemRef.next)
    BY <1>1, <1>8 DEF Done
  <2>2. CASE why = "crash"
    BY <1>2, <1>8, <2>1, <2>2, RefusedStep
  <2>3. CASE why # "crash"
    <3>1. why = "badmem" /\ ~MemRef.reg /\ Reached(a, 2, holes) = 0
      BY <2>3
    <3>2. a \in Nat /\ from = MemCells(a, 2) /\ 2 \in 1..4
      BY <1>2, <3>1, AddrOfType DEF RefCells
    <3>3. (\E b \in 1..2 : InMem(MemCells(a, 2)[b], holes)) <=> Reached(a, 2, holes) # 2
      BY <3>2, MemCellsAre
    <3>4. \E b \in 1..2 : InMem(from[b], holes)
      BY <3>1, <3>2, <3>3
    <3> HIDE DEF to, from, why
    <3>5. BadSrc(to, from)
      BY <1>5, <3>4 DEF BadSrc
    <3>6. Moved(Machine, Failed(Machine, "badmem"), to, from)
      BY <1>2, <3>5, FailedMoves
    <3> QED
      BY <1>2, <1>3, <1>4, <1>6, <2>1, <3>1, <3>6, MovedStep
  <2> QED
    BY <2>2, <2>3
<1>9. CASE ~Wide(Instr) /\ ~(s > 5)
  <2>1. Done(loaded, MemRef.next) /\ s \in 0..5
    BY <1>1, <1>2, <1>9 DEF Regs
  <2>2. Moved(Machine, loaded, to, from)
    <3>1. CASE MemRef.reg
      <4> DEFINE v == ReadReg(Machine, MemRef.num, 2)
                 l == [Machine EXCEPT !.seg[s] = v]
      <4>1. MemRef.num \in Regs /\ from = RegCells(MemRef.num, 2) /\ loaded = l
        BY <1>2, <3>1 DEF IsRef, RefCells
      <4>2. v \in Values(2) /\ \A b \in 1..2 : v[b] = Cell(Machine, RegCells(MemRef.num, 2)[b])
        BY <1>2, <4>1, ReadRegHas
      <4>3. Wrote(Machine, l, to, v)
        BY <1>2, <2>1, <4>2, SetSegWrote
      <4>4. \A b \in 1..2 : RegCells(MemRef.num, 2)[b][1] = "r"
        BY <4>1, RegCellsAre
      <4>5. \A b \in DOMAIN to : from[b][1] # "m" /\ v[b] = Cell(Machine, from[b])
        BY <1>5, <4>1, <4>2, <4>4
      <4> HIDE DEF to, from, loaded, v, l
      <4> QED
        BY <1>2, <4>1, <4>3, <4>5, GoodSrc, WroteMoves
    <3>2. CASE ~MemRef.reg
      <4>1. a \in Nat /\ from = MemCells(a, 2) /\ loaded = LoadSeg(Machine, s, a)
        BY <1>2, <3>2, AddrOfType DEF RefCells
      <4> HIDE DEF a, from, loaded
      <4> QED
        BY <1>2, <2>1, <4>1, LoadSegMoves
    <3> QED
      BY <3>1, <3>2
  <2> HIDE DEF loaded, to, from
  <2> QED
    BY <1>2, <1>3, <1>4, <1>6, <2>1, <2>2, MovedStep
<1> QED
  BY <1>7, <1>8, <1>9

\* MOV of an immediate to a register.
LEMMA MOV_Reg_Keeps ==
  ASSUME Typed, MOV_Reg
  PROVE  MovesInv'
<1> DEFINE n == Instr.size
           v == Imm(Instr, 1, n)
           l == SetReg(Machine, Instr.param, v)
           to == RegCells(Instr.param, n)
           next == n + 1
<1>1. Runs("MOV_Reg") /\ Done(l, next)
  BY DEF MOV_Reg
<1>2. /\ prog # <<>> /\ Instr.op = "MOV_Reg" /\ Instr \in Instructions /\ Instr.param \in Regs
      /\ Machine \in Machines /\ Machine.ret = "ok" /\ n \in {1, 2, 4}
  BY <1>1, Starts
<1>3. 1 \in Nat /\ n \in 1..4
  BY <1>2
<1>4. v \in Values(n)
  BY <1>2, <1>3, ImmType
<1>5. Moved(Machine, l, to, Lit(v))
  BY <1>2, <1>4, SetRegMoves
<1>6. Length(Instr) = n /\ SPChange(Instr) = 0
  BY <1>2 DEF Length, SPChange
<1>7. Moves(Machine, Instr) = Copies(to, Lit(v))
  BY <1>2 DEF Moves, MovesOf
<1>8. \A b \in DOMAIN to : to[b][1] # "p"
  BY <1>2, RegPlaces, PlacesNoIP
<1>9. Length(Instr) \in Nat /\ next = Length(Instr) + 1
  BY <1>2, <1>6
<1> HIDE DEF n, l, to, v, next
<1> QED
  BY <1>1, <1>2, <1>5, <1>6, <1>7, <1>8, <1>9, MovedStep

\* LEA, whose operand may not be a register.
LEMMA LEA_Keeps ==
  ASSUME Typed, LEA
  PROVE  MovesInv'
<1> DEFINE e == GetMMM(Machine, Instr)
           n == Instr.size
           v == Bytes(e.ofs, n)
           l == SetReg(Machine, Rrr(Instr), v)
           to == RegCells(Rrr(Instr), n)
<1>1. Runs("LEA") /\ IF Mod(Instr) = 3 THEN Done(Undefined, 2) ELSE Done(l, e.next)
  BY DEF LEA
<1>2. /\ prog # <<>> /\ Instr.op = "LEA" /\ Instr \in Instructions /\ Rrr(Instr) \in Regs
      /\ Machine \in Machines /\ Machine.ret = "ok" /\ n \in {1, 2, 4}
  BY <1>1, Starts
<1>3. CASE Mod(Instr) = 3
  BY <1>1, <1>2, <1>3, UndefinedStep DEF Done
<1>4. CASE Mod(Instr) # 3
  <2>1. Done(l, e.next) /\ e.ofs \in Nat /\ e.next = ModRMLength(Instr) + 1
    BY <1>1, <1>2, <1>4, AddressType
  <2>2. n \in 1..4
    BY <1>2
  <2>3. v \in Values(n)
    <3> HIDE DEF e, n
    <3> QED
      BY <2>1, <2>2, BytesType
  <2>4. Moved(Machine, l, to, Lit(v))
    BY <1>2, <2>3, SetRegMoves
  <2>5. Moves(Machine, Instr) = Copies(to, Lit(v))
    BY <1>2 DEF Moves, MovesOf
  <2>6. \A b \in DOMAIN to : to[b][1] # "p"
    BY <1>2, RegPlaces, PlacesNoIP
  <2>7. MemRef.next = Length(Instr) + 1 /\ Length(Instr) \in Nat /\ SPChange(Instr) = 0
    BY <1>1, PlainEnds DEF PlainOps
  <2>8. MemRef.next = ModRMLength(Instr) + 1
    BY <1>1, Starts
  <2>9. e.next = Length(Instr) + 1
    BY <2>1, <2>7, <2>8
  <2> HIDE DEF e, n, l, to, v
  <2> QED
    BY <1>2, <1>4, <2>1, <2>4, <2>5, <2>6, <2>7, <2>9, MovedStep
<1> QED
  BY <1>3, <1>4

\* Operands are sequences of cells.
LEMMA RefCellsIs ==
  ASSUME NEW r, IsRef(r), NEW n \in {1, 2, 4}
  PROVE  RefCells(r, n) = [b \in 1..n |-> RefCells(r, n)[b]]
<1>1. CASE r.reg /\ n = 1
  BY <1>1 DEF RefCells, RegCells
<1>2. CASE r.reg /\ n # 1
  BY <1>2 DEF RefCells, RegCells
<1>3. CASE ~r.reg
  BY <1>3 DEF RefCells, MemCells
<1> QED
  BY <1>1, <1>2, <1>3

\* A smaller operand goes to a register, with zeros above it.
LEMMA ExtendedMoves ==
  ASSUME NEW m \in Machines, m.ret = "ok", NEW r \in Regs, NEW ref, IsRef(ref), NEW k \in {1, 2},
         NEW n \in {2, 4}, NEW z \in Values(4 - k), \A b \in 1 .. 4 - k : z[b] = 0,
         NEW x, x = ReadV(m, ref, k), NEW l,
         l = IF x.ret = "ok" THEN SetReg(m, r, Ext(x.v, n, 0)) ELSE Failed(m, x.ret)
  PROVE  Moved(m, l, RegCells(r, n), RefCells(ref, k) \o Lit(z))
<1> DEFINE to == RegCells(r, n)
           cells == RefCells(ref, k)
           from == cells \o Lit(z)
           v == Ext(x.v, n, 0)
<1>1. n \in {1, 2, 4} /\ n \in 1..4 /\ k \in {1, 2, 4} /\ k \in 1..4 /\ 4 - k \in 1..4 /\ k <= n /\ n <= 4
  OBVIOUS
<1>2. DOMAIN to = 1..n
  BY <1>1, RegCellsAre
<1>3. DOMAIN cells = 1..k /\ cells = [b \in 1..k |-> cells[b]]
  BY <1>1, RefCellsAre, RefCellsIs
<1>4. DOMAIN Lit(z) = 1 .. 4 - k /\ \A b \in 1 .. 4 - k : Lit(z)[b] = <<"v", z[b]>> /\ Cell(m, Lit(z)[b]) = z[b]
  BY <1>1, LitHolds
<1>5. Lit(z) = [b \in 1 .. 4 - k |-> Lit(z)[b]]
  BY <1>4 DEF Lit
<1>6. HasRead(m, x, cells, cells) /\ x.v \in Values(k)
  BY <1>1, <1>3, ReadVHas
<1>7. Len(x.v) = k /\ \A b \in 1..k : x.v[b] \in Byte
  BY <1>1, <1>6, ValueIsSeq
<1>8. v \in Values(n) /\ \A b \in 1..n : v[b] = IF b <= k THEN x.v[b] ELSE 0
  <2>1. 0 \in Byte
    BY DEF Byte
  <2> QED
    BY <1>1, <1>7, <2>1 DEF Ext, Values
<1> HIDE DEF v, to, cells
<1> DEFINE lit == Lit(z)
<1> HIDE DEF lit
<1>9. /\ \A b \in 1..k : (cells \o lit)[b] = cells[b]
      /\ \A b \in 1 .. 4 - k : (cells \o lit)[k + b] = lit[b]
  <2> DEFINE q == 4 - k
  <2>1. k \in 1..4 /\ q \in 1..4
    BY <1>1
  <2>2. IsCells(lit, q)
    BY <1>4, <1>5 DEF lit, IsCells
  <2>3. IsCells(cells, k)
    BY <1>3 DEF IsCells
  <2> HIDE DEF q
  <2>4. Joined(cells \o lit, cells, k, lit, q)
    BY <2>1, <2>2, <2>3, ConcatIs
  <2> QED
    BY <2>4 DEF q, Joined
<1>10. \A b \in 1..k : from[b] = cells[b]
  BY <1>9 DEF lit
<1>11. ASSUME NEW b \in 1..n, ~(b <= k)
       PROVE  from[b] = <<"v", 0>>
  <2>1. b - k \in 1 .. 4 - k /\ k + (b - k) = b
    BY <1>1, <1>11
  <2>2. (cells \o lit)[k + (b - k)] = lit[b - k]
    BY <1>9, <2>1
  <2>3. lit[b - k] = <<"v", 0>>
    BY <1>4, <2>1 DEF lit
  <2> QED
    BY <2>1, <2>2, <2>3 DEF lit
<1> HIDE DEF from
<1>12. BadSrc(to, from) <=> BadSrc(cells, cells)
  <2>1. ASSUME NEW b \in 1..n, InMem(from[b], holes) PROVE b \in 1..k /\ InMem(cells[b], holes)
    <3>1. b <= k
      BY <1>11, <2>1 DEF InMem
    <3> QED
      BY <1>1, <1>10, <2>1, <3>1
  <2>2. ASSUME NEW b \in 1..k, InMem(cells[b], holes) PROVE b \in 1..n /\ InMem(from[b], holes)
    BY <1>1, <1>10, <2>2
  <2> QED
    BY <1>2, <1>3, <2>1, <2>2 DEF BadSrc
<1>13. CASE x.ret = "ok"
  <2>1. l = SetReg(m, r, v)
    BY <1>13 DEF v
  <2>2. Wrote(m, l, to, v)
    BY <1>1, <1>8, <2>1, SetRegWrote DEF to
  <2>3. ~BadSrc(to, from)
    BY <1>6, <1>12, <1>13 DEF HasRead
  <2>4. ASSUME NEW b \in DOMAIN to
        PROVE  v[b] = Cell(m, from[b])
    <3>1. CASE b <= k
      BY <1>1, <1>2, <1>3, <1>6, <1>8, <1>10, <3>1 DEF HasRead
    <3>2. CASE ~(b <= k)
      <4>1. Cell(m, <<"v", 0>>) = 0
        BY CellIs
      <4> QED
        BY <1>2, <1>8, <1>11, <3>2, <4>1
    <3> QED
      BY <3>1, <3>2
  <2>5. Moved(m, l, to, from)
    BY <2>2, <2>3, <2>4, WroteMoves
  <2> QED
    BY <2>5 DEF to, from, cells
<1>14. CASE x.ret # "ok"
  <2>1. BadSrc(to, from) /\ l = Failed(m, "badmem")
    BY <1>6, <1>12, <1>14 DEF HasRead
  <2>2. Moved(m, l, to, from)
    BY <2>1, FailedMoves
  <2> QED
    BY <2>2 DEF to, from, cells
<1> QED
  BY <1>13, <1>14

\* MOVZX of a byte.
LEMMA MOV_Z_Keeps ==
  ASSUME Typed, MOV_Z
  PROVE  MovesInv'
<1> DEFINE n == Instr.size
           l == Extended(1)
           to == RegCells(Rrr(Instr), n)
           from == RefCells(MemRef, 1) \o Lit(<<0, 0, 0>>)
<1>1. Runs("MOV_Z") /\ Done(l, MemRef.next)
  BY DEF MOV_Z
<1>2. prog # <<>> /\ Instr.op = "MOV_Z" /\ Machine \in Machines /\ Machine.ret = "ok"
      /\ Rrr(Instr) \in Regs /\ IsRef(MemRef)
  BY <1>1, Starts
<1>3. n \in {2, 4} /\ n \in {1, 2, 4}
  <2>1. "MOV_Z" \notin ByteForms
    BY DEF ByteForms
  <2> QED
    BY <1>1, <2>1, NoByteForm
<1>4. l = LET x == ReadV(Machine, MemRef, 1) IN
          IF x.ret = "ok" THEN SetReg(Machine, Rrr(Instr), Ext(x.v, n, 0)) ELSE Failed(Machine, x.ret)
  BY DEF Extended
<1>5. <<0, 0, 0>> \in Values(4 - 1) /\ \A b \in 1 .. 4 - 1 : <<0, 0, 0>>[b] = 0
  BY DEF Values, Byte
<1>6. Moved(Machine, l, to, from)
  <2> HIDE DEF n, l
  <2> QED
    BY <1>2, <1>3, <1>4, <1>5, ExtendedMoves
<1>7. Moves(Machine, Instr) = Copies(to, from)
  BY <1>2 DEF Moves, MovesOf, MemRef
<1>8. \A b \in DOMAIN to : to[b][1] # "p"
  BY <1>2, <1>3, RegPlaces, PlacesNoIP
<1>9. MemRef.next = Length(Instr) + 1 /\ Length(Instr) \in Nat /\ SPChange(Instr) = 0
  BY <1>1, PlainEnds DEF PlainOps
<1> HIDE DEF n, l, to, from
<1> QED
  BY <1>1, <1>2, <1>6, <1>7, <1>8, <1>9, MovedStep

\* MOVZX of a word.
LEMMA MOV_ZX_Keeps ==
  ASSUME Typed, MOV_ZX
  PROVE  MovesInv'
<1> DEFINE n == Instr.size
           l == Extended(2)
           to == RegCells(Rrr(Instr), n)
           from == RefCells(MemRef, 2) \o Lit(<<0, 0>>)
<1>1. Runs("MOV_ZX") /\ Done(l, MemRef.next)
  BY DEF MOV_ZX
<1>2. prog # <<>> /\ Instr.op = "MOV_ZX" /\ Machine \in Machines /\ Machine.ret = "ok"
      /\ Rrr(Instr) \in Regs /\ IsRef(MemRef)
  BY <1>1, Starts
<1>3. n \in {2, 4} /\ n \in {1, 2, 4}
  <2>1. "MOV_ZX" \notin ByteForms
    BY DEF ByteForms
  <2> QED
    BY <1>1, <2>1, NoByteForm
<1>4. l = LET x == ReadV(Machine, MemRef, 2) IN
          IF x.ret = "ok" THEN SetReg(Machine, Rrr(Instr), Ext(x.v, n, 0)) ELSE Failed(Machine, x.ret)
  BY DEF Extended
<1>5. <<0, 0>> \in Values(4 - 2) /\ \A b \in 1 .. 4 - 2 : <<0, 0>>[b] = 0
  BY DEF Values, Byte
<1>6. Moved(Machine, l, to, from)
  <2> HIDE DEF n, l
  <2> QED
    BY <1>2, <1>3, <1>4, <1>5, ExtendedMoves
<1>7. Moves(Machine, Instr) = Copies(to, from)
  BY <1>2 DEF Moves, MovesOf, MemRef
<1>8. \A b \in DOMAIN to : to[b][1] # "p"
  BY <1>2, <1>3, RegPlaces, PlacesNoIP
<1>9. MemRef.next = Length(Instr) + 1 /\ Length(Instr) \in Nat /\ SPChange(Instr) = 0
  BY <1>1, PlainEnds DEF PlainOps
<1> HIDE DEF n, l, to, from
<1> QED
  BY <1>1, <1>2, <1>6, <1>7, <1>8, <1>9, MovedStep

-----------------------------------------------------------------------------
(* Instructions of two moves.                                              *)

\* Two moves that are an instruction.
LEMMA MovedAllStep ==
  ASSUME Typed, prog # <<>>, NEW l, NEW next, Done(l, next), NEW moves,
         Moves(Machine, Instr) = moves, MovedAll(Machine, l, moves),
         SPChange(Instr) = 0, \A c \in moves : c[1][1] # "p",
         next = Length(Instr) + 1, Length(Instr) \in Nat, Instr.op # "LEA"
  PROVE  MovesInv'
<1>1. Exact(Machine, l, moves, SPChange(Instr))
  BY MachineIs, MovedAllExact
<1> QED
  BY <1>1, ExactStep

\* Copies to places are none to IP.
LEMMA BothNoIP ==
  ASSUME NEW to1, NEW from1, NEW to2, NEW from2,
         \A b \in DOMAIN to1 : IsPlace(to1[b]), \A b \in DOMAIN to2 : IsPlace(to2[b])
  PROVE  \A c \in Copies(to1, from1) \cup Copies(to2, from2) : c[1][1] # "p"
<1>1. \A c \in Copies(to1, from1) : \E b \in DOMAIN to1 : c[1] = to1[b] /\ c[2] = from1[b]
  BY CopiesAre
<1>2. \A c \in Copies(to2, from2) : \E b \in DOMAIN to2 : c[1] = to2[b] /\ c[2] = from2[b]
  BY CopiesAre
<1>3. (\A b \in DOMAIN to1 : to1[b][1] # "p") /\ (\A b \in DOMAIN to2 : to2[b][1] # "p")
  BY PlacesNoIP
<1> QED
  BY <1>1, <1>2, <1>3

\* Registers of one size share a cell only at the same place of both.
LEMMA SameRegCell ==
  ASSUME NEW r \in Regs, NEW k \in Regs, NEW n \in {1, 2, 4}, NEW x \in 1..n, NEW y \in 1..n,
         RegCells(r, n)[x] = RegCells(k, n)[y]
  PROVE  x = y
<1>1. CASE n = 1
  BY <1>1
<1>2. CASE n # 1
  <2>1. RegCells(r, n)[x] = <<"r", r, x>> /\ RegCells(k, n)[y] = <<"r", k, y>>
    BY <1>2, RegCellsAre
  <2>2. <<"r", r, x>> = <<"r", k, y>>
    BY <2>1
  <2> QED
    BY <2>2
<1> QED
  BY <1>1, <1>2

\* A register and an operand change their contents.
LEMMA ExchangeMoves ==
  ASSUME NEW m \in Machines, m.ret = "ok", NEW r \in Regs, NEW ref, IsRef(ref), NEW n \in {1, 2, 4},
         NEW l1, Moved(m, l1, RegCells(r, n), RefCells(ref, n)),
         NEW l2, l2 = Then(l1, WriteV(l1, ref, ReadReg(m, r, n)))
  PROVE  MovedAll(m, l2, Copies(RefCells(ref, n), RegCells(r, n))
                           \cup Copies(RegCells(r, n), RefCells(ref, n)))
<1> DEFINE reg == RegCells(r, n)
           cells == RefCells(ref, n)
           v == ReadReg(m, r, n)
<1>1. DOMAIN reg = 1..n /\ DOMAIN cells = 1..n /\ n \in 1..4 /\ \A b \in 1..n : reg[b][1] = "r"
  BY RegCellsAre, RefCellsAre
<1>2. v \in Values(n) /\ \A b \in 1..n : v[b] = Cell(m, reg[b])
  BY ReadRegHas
<1>3. ~BadSrc(cells, reg)
  <2>1. \A b \in DOMAIN cells : reg[b][1] # "m"
    BY <1>1
  <2> HIDE DEF cells, reg
  <2> QED
    BY <2>1, GoodSrc
<1>4. ~BadSrc(cells, Lit(v))
  <2> HIDE DEF cells, v
  <2> QED
    BY <1>1, <1>2, LitIsGood
<1>5. l1 \in Machines
  BY DEF Moved
<1>6. l1.ret = "ok" => Moved(l1, l2, cells, Lit(v))
  BY <1>2, <1>5, WriteVMoves DEF Then
<1>7. l1.ret # "ok" => l2 = l1
  BY DEF Then
<1>8. \A b \in 1..n : Cell(l1, Lit(v)[b]) = v[b]
  <2>1. n \in 1..4 /\ v \in Values(n)
    BY <1>1, <1>2
  <2> HIDE DEF v
  <2> QED
    BY <2>1, LitHolds
<1>9. \A b \in DOMAIN cells : Cell(l1, Lit(v)[b]) = Cell(m, reg[b])
  BY <1>1, <1>2, <1>8
<1>10. \A b \in DOMAIN reg : IsPlace(reg[b])
  BY RegPlaces
<1>11. ASSUME NEW x \in 1..n, NEW y \in 1..n, reg[x] = cells[y]
       PROVE  Cell(m, cells[x]) = Cell(m, reg[y])
  <2>1. CASE ref.reg
    <3>1. ref.num \in Regs /\ cells = RegCells(ref.num, n)
      BY <2>1 DEF IsRef, RefCells
    <3>2. x = y
      <4>1. RegCells(r, n)[x] = RegCells(ref.num, n)[y]
        BY <1>11, <3>1
      <4> QED
        BY <3>1, <4>1, SameRegCell
    <3> QED
      BY <1>11, <3>2
  <2>2. CASE ~ref.reg
    <3>1. cells = MemCells(AddrOf(ref, n), n) /\ AddrOf(ref, n) \in Nat
      BY <2>2, AddrOfType DEF RefCells
    <3>2. MemCells(AddrOf(ref, n), n)[y] = <<"m", AddrOf(ref, n) + y - 1>>
      BY <1>1, <3>1, MemCellsAre
    <3>3. cells[y][1] = "m"
      BY <3>1, <3>2
    <3>4. reg[x][1] = "r"
      BY <1>1
    <3> QED
      BY <1>11, <3>3, <3>4
  <2> QED
    BY <2>1, <2>2
<1> HIDE DEF reg, cells, v
<1>12. Moved(m, l1, reg, cells)
  BY DEF reg, cells
<1>13. \A x \in DOMAIN reg, y \in DOMAIN cells : reg[x] = cells[y] => Cell(m, cells[x]) = Cell(m, reg[y])
  BY <1>1, <1>11
<1>14. BadSrc(cells, Lit(v)) <=> BadSrc(cells, reg)
  BY <1>3, <1>4
<1>15. MovedAll(m, l2, Copies(reg, cells) \cup Copies(cells, reg))
  BY <1>6, <1>7, <1>9, <1>10, <1>12, <1>13, <1>14, TwoMoves
<1>16. Copies(reg, cells) \cup Copies(cells, reg) = Copies(cells, reg) \cup Copies(reg, cells)
  OBVIOUS
<1> QED
  BY <1>15, <1>16 DEF reg, cells

\* XCHG with an operand.
LEMMA XCHG_RM_Keeps ==
  ASSUME Typed, XCHG_RM
  PROVE  MovesInv'
<1> DEFINE n == Instr.size
           r == Rrr(Instr)
           l1 == Copied(Machine, RegRef, MemRef, n)
           l2 == Then(l1, WriteV(l1, MemRef, ReadReg(Machine, r, n)))
           reg == RegCells(r, n)
           cells == RefCells(MemRef, n)
<1>1. Runs("XCHG_RM") /\ Done(l2, MemRef.next)
  BY DEF XCHG_RM
<1>2. /\ prog # <<>> /\ Instr.op = "XCHG_RM" /\ Machine \in Machines /\ Machine.ret = "ok"
      /\ r \in Regs /\ IsRef(MemRef) /\ IsRef(RegRef) /\ n \in {1, 2, 4} /\ RefCells(RegRef, n) = reg
  BY <1>1, Starts
<1>3. Moved(Machine, l1, reg, cells)
  BY <1>2, CopiedMoves
<1>4. Moves(Machine, Instr) = Copies(cells, reg) \cup Copies(reg, cells)
  BY <1>2 DEF Moves, MovesOf, MemRef
<1>5. MemRef.next = Length(Instr) + 1 /\ Length(Instr) \in Nat /\ SPChange(Instr) = 0
  BY <1>1, PlainEnds DEF PlainOps
<1>6. (\A b \in DOMAIN reg : IsPlace(reg[b])) /\ (\A b \in DOMAIN cells : IsPlace(cells[b]))
  BY <1>2, RegPlaces, RefPlaces
<1>7. MovedAll(Machine, l2, Copies(cells, reg) \cup Copies(reg, cells))
  <2> HIDE DEF n, r, l1
  <2> QED
    BY <1>2, <1>3, ExchangeMoves
<1> DEFINE A == Copies(cells, reg) \cup Copies(reg, cells)
<1>8. \A c \in A : c[1][1] # "p"
  <2> HIDE DEF cells, reg
  <2> QED
    BY <1>6, BothNoIP
<1> HIDE DEF n, l1, l2, A
<1> QED
  BY <1>1, <1>2, <1>4, <1>5, <1>7, <1>8, MovedAllStep DEF A

\* XCHG with A.
LEMMA XCHG_Reg_Keeps ==
  ASSUME Typed, XCHG_Reg
  PROVE  MovesInv'
<1> DEFINE n == Instr.size
           ref == Register(Instr.param, 0)
           v == ReadReg(Machine, Instr.param, n)
           l1 == SetReg(Machine, AX, v)
           u == ReadReg(Machine, AX, n)
           l2 == SetReg(l1, Instr.param, u)
           reg == RegCells(AX, n)
           cells == RegCells(Instr.param, n)
<1>1. Runs("XCHG_Reg") /\ Done(l2, 1)
  BY DEF XCHG_Reg
<1>2. /\ prog # <<>> /\ Instr.op = "XCHG_Reg" /\ Machine \in Machines /\ Machine.ret = "ok"
      /\ Instr.param \in Regs /\ n \in {1, 2, 4}
  BY <1>1, Starts
<1>3. AX \in Regs
  BY DEF AX, Regs
<1>4. ref.reg = TRUE /\ ref.num = Instr.param
  BY DEF Register
<1>5. IsRef(ref) /\ RefCells(ref, n) = cells
  BY <1>2, <1>4 DEF IsRef, RefCells
<1>6. v \in Values(n) /\ \A b \in 1..n : v[b] = Cell(Machine, cells[b])
  BY <1>2, ReadRegHas
<1>7. Wrote(Machine, l1, reg, v)
  BY <1>2, <1>3, <1>6, SetRegWrote
<1>8. DOMAIN reg = 1..n /\ \A b \in 1..n : reg[b][1] = "r" /\ cells[b][1] = "r"
  BY <1>2, <1>3, RegCellsAre
<1>9. \A b \in DOMAIN reg : cells[b][1] # "m" /\ v[b] = Cell(Machine, cells[b])
  BY <1>6, <1>8
<1>10. Moved(Machine, l1, reg, cells)
  <2> HIDE DEF reg, cells, v, l1
  <2> QED
    BY <1>2, <1>7, <1>9, GoodSrc, WroteMoves
<1>11. l1.ret = "ok"
  <2>1. \A b \in DOMAIN reg : reg[b][1] # "m"
    BY <1>8
  <2> HIDE DEF reg, l1
  <2>2. ~BadDst(reg)
    BY <2>1, NoBadCells
  <2> QED
    BY <1>2, <1>7, <2>2 DEF Wrote
<1>12. l2 = Then(l1, WriteV(l1, ref, u))
  <2> HIDE DEF l1, ref, u
  <2> QED
    BY <1>4, <1>11 DEF Then, WriteV
<1>13. MovedAll(Machine, l2, Copies(cells, reg) \cup Copies(reg, cells))
  <2>1. Moved(Machine, l1, RegCells(AX, n), RefCells(ref, n))
    BY <1>5, <1>10
  <2> HIDE DEF n, ref, l1, l2, cells
  <2>2. MovedAll(Machine, l2, Copies(RefCells(ref, n), RegCells(AX, n))
                                \cup Copies(RegCells(AX, n), RefCells(ref, n)))
    BY <1>2, <1>3, <1>5, <1>12, <2>1, ExchangeMoves
  <2> QED
    BY <1>5, <2>2
<1>14. Moves(Machine, Instr) = Copies(reg, cells) \cup Copies(cells, reg)
  BY <1>2 DEF Moves, MovesOf
<1>15. (\A b \in DOMAIN reg : IsPlace(reg[b])) /\ (\A b \in DOMAIN cells : IsPlace(cells[b]))
  BY <1>2, <1>3, RegPlaces
<1>16. Length(Instr) = 0 /\ SPChange(Instr) = 0
  BY <1>2 DEF Length, SPChange
<1>17. 1 = Length(Instr) + 1 /\ Length(Instr) \in Nat
  BY <1>16
<1> DEFINE A == Copies(cells, reg) \cup Copies(reg, cells)
<1>18. \A c \in A : c[1][1] # "p"
  <2> HIDE DEF cells, reg
  <2> QED
    BY <1>15, BothNoIP
<1>19. Moves(Machine, Instr) = A
  BY <1>14
<1> HIDE DEF n, l1, l2, A
<1> QED
  BY <1>1, <1>2, <1>13, <1>16, <1>17, <1>18, <1>19, MovedAllStep DEF A

\* LES and the like: an offset, then a segment.
LEMMA LxS_Keeps ==
  ASSUME Typed, LxS
  PROVE  MovesInv'
<1> DEFINE e == GetMMM(Machine, Instr)
           n == Instr.size
           s == Num(seg[e.seg])
           a == Linear(s, e.ofs)
           b2 == Linear(s, e.ofs + n)
           l1 == LoadReg(Machine, Rrr(Instr), a, n)
           l2 == Then(l1, LoadSeg(l1, Instr.param, b2))
           to1 == RegCells(Rrr(Instr), n)
           from1 == MemCells(a, n)
           to2 == SegCells(Instr.param)
           from2 == MemCells(b2, 2)
<1>1. Runs("LxS") /\ IF Mod(Instr) = 3 THEN Done(Undefined, 2) ELSE Done(l2, e.next)
  BY DEF LxS
<1>2. /\ prog # <<>> /\ Instr.op = "LxS" /\ Instr \in Instructions /\ Rrr(Instr) \in Regs
      /\ Machine \in Machines /\ Machine.ret = "ok" /\ n \in {1, 2, 4}
  BY <1>1, Starts
<1>3. CASE Mod(Instr) = 3
  BY <1>1, <1>2, <1>3, UndefinedStep DEF Done
<1>4. CASE Mod(Instr) # 3
  <2>1. Done(l2, e.next) /\ e.seg \in 0..5 /\ e.ofs \in Nat /\ e.next = ModRMLength(Instr) + 1
    BY <1>1, <1>2, <1>4, AddressType
  <2>2. Instr.param \in 0..5
    BY <1>2, InstrIs
  <2>3. Machine.seg = seg
    BY MachineIs
  <2>4. s \in Offsets
    <3> HIDE DEF e
    <3> QED
      BY <1>2, <2>1, <2>3, Holding
  <2>5. n \in 1..4 /\ e.ofs \in Int /\ e.ofs + n \in Int
    BY <1>2, <2>1
  <2>6. a \in Nat /\ b2 \in Nat
    <3> HIDE DEF e, n, s
    <3> QED
      BY <2>4, <2>5, LinearType
  <2>7. Moved(Machine, l1, to1, from1)
    BY <1>2, <2>6, LoadRegMoves
  <2>8. l1.ret = "ok" => Moved(l1, l2, to2, from2)
    <3>1. l1 \in Machines
      BY <2>7 DEF Moved
    <3> HIDE DEF l1, b2
    <3>2. l1.ret = "ok" => Moved(l1, LoadSeg(l1, Instr.param, b2), to2, from2)
      BY <2>2, <2>6, <3>1, LoadSegMoves
    <3> QED
      BY <3>2 DEF Then
  <2>9. l1.ret # "ok" => l2 = l1
    BY DEF Then
  <2>10. DOMAIN to1 = 1..n /\ \A x \in DOMAIN to1 : to1[x][1] = "r"
    <3>1. DOMAIN to1 = 1..n /\ \A x \in 1..n : to1[x][1] = "r"
      BY <1>2, RegCellsAre
    <3> QED
      BY <3>1
  <2>11. DOMAIN to2 = 1..2 /\ \A y \in DOMAIN to2 : to2[y][1] = "s"
    BY SegCellsAre
  <2>12. \A x \in 1..2 : from2[x] = <<"m", b2 + x - 1>> /\ b2 + x - 1 \in Nat
    <3>1. 2 \in 1..4
      OBVIOUS
    <3> HIDE DEF b2
    <3> QED
      BY <2>6, <3>1, MemCellsAre
  <2>13. /\ \A x \in DOMAIN to1 : IsPlace(to1[x])
         /\ \A x \in DOMAIN to2 : IsPlace(to2[x])
    BY <1>2, <2>2, RegPlaces, SegCellsAre
  <2>14. Moves(Machine, Instr) = Copies(to1, from1) \cup Copies(to2, from2)
    BY <1>2, <2>3 DEF Moves, MovesOf
  <2>15. MemRef.next = Length(Instr) + 1 /\ Length(Instr) \in Nat /\ SPChange(Instr) = 0
    BY <1>1, PlainEnds DEF PlainOps
  <2>16. MemRef.next = ModRMLength(Instr) + 1
    BY <1>1, Starts
  <2>17. e.next = Length(Instr) + 1
    BY <2>1, <2>15, <2>16
  <2> HIDE DEF e, n, s, a, b2, l1, l2, to1, from1, to2, from2
  <2>18. \A x \in DOMAIN to2 : Cell(l1, from2[x]) = Cell(Machine, from2[x])
    <3>1. Frame(Machine, l1, CellsOf(to1))
      BY <2>7 DEF Moved
    <3>2. ASSUME NEW x \in 1..2
          PROVE  Cell(l1, from2[x]) = Cell(Machine, from2[x])
      <4>1. IsPlace(from2[x])
        BY <2>12 DEF IsPlace
      <4>2. from2[x][1] = "m"
        BY <2>12
      <4>3. from2[x] \notin CellsOf(to1)
        BY <2>10, <4>2 DEF CellsOf
      <4> QED
        BY <3>1, <4>1, <4>3, PlaceIs
    <3> QED
      BY <2>11, <3>2
  <2>19. ASSUME NEW x \in DOMAIN to1, NEW y \in DOMAIN to2, to1[x] = to2[y]
         PROVE  Cell(Machine, from1[x]) = Cell(Machine, from2[y])
    BY <2>10, <2>11, <2>19
  <2>20. MovedAll(Machine, l2, Copies(to1, from1) \cup Copies(to2, from2))
    BY <1>2, <2>7, <2>8, <2>9, <2>13, <2>18, <2>19, TwoMoves
  <2>21. \A c \in Copies(to1, from1) \cup Copies(to2, from2) : c[1][1] # "p"
    BY <2>13, BothNoIP
  <2> QED
    BY <1>2, <2>1, <2>14, <2>15, <2>17, <2>20, <2>21, MovedAllStep
<1> QED
  BY <1>3, <1>4

\* XLAT reads one byte, whatever its size.
LEMMA XLAT_Keeps ==
  ASSUME Typed, XLAT
  PROVE  MovesInv'
<1> DEFINE n == Instr.size
           base == IF Instr.addr32 THEN D(Machine, BX) ELSE W(Machine, BX)
           ofs == base + gpr[AX][1]
           a == DataAt(ofs)
           l == LoadReg(Machine, AX, a, 1)
           to == RegCells(AX, 1)
<1>1. Runs("XLAT") /\ Done(l, 1)
  BY DEF XLAT
<1>2. prog # <<>> /\ Instr.op = "XLAT" /\ Machine \in Machines /\ Machine.ret = "ok" /\ n \in {1, 2, 4}
  BY <1>1, Starts
<1>3. AX \in Regs /\ BX \in Regs /\ 1 \in 1..4 /\ Machine.gpr = gpr
  BY MachineIs DEF AX, BX, Regs
<1>4. ofs \in Int
  <2>1. gpr[AX][1] \in Byte
    BY <1>2, <1>3, Holding
  <2>2. D(Machine, BX) \in Nat /\ W(Machine, BX) \in Nat
    BY <1>2, <1>3, Holding DEF Offsets
  <2> QED
    BY <2>1, <2>2 DEF Byte
<1>5. a = Linear(Num(Machine.seg[GetSegment(Instr, DS)]), ofs) /\ a \in Nat
  <2> HIDE DEF ofs
  <2> QED
    BY <1>1, <1>4, DataIs
<1>6. Moves(Machine, Instr) = Copies(to, MemCells(a, n))
  BY <1>2, <1>3, <1>5 DEF Moves, MovesOf
<1>7. DOMAIN to = 1..1
  BY <1>3, RegCellsAre
<1>8. MemCells(a, n)[1] = MemCells(a, 1)[1]
  BY <1>2 DEF MemCells
<1>9. \A b \in DOMAIN to : MemCells(a, n)[b] = MemCells(a, 1)[b]
  BY <1>7, <1>8
<1>10. Copies(to, MemCells(a, n)) = Copies(to, MemCells(a, 1))
  <2> HIDE DEF to, a, n
  <2> QED
    BY <1>9, SameCopies
<1>11. Moved(Machine, l, to, MemCells(a, 1))
  <2> HIDE DEF a
  <2> QED
    BY <1>2, <1>3, <1>5, LoadRegMoves
<1>12. \A b \in DOMAIN to : to[b][1] # "p"
  BY <1>3, RegPlaces, PlacesNoIP
<1>13. Length(Instr) = 0 /\ SPChange(Instr) = 0
  BY <1>2 DEF Length, SPChange
<1>14. 1 = Length(Instr) + 1 /\ Length(Instr) \in Nat
  BY <1>13
<1>15. Moves(Machine, Instr) = Copies(to, MemCells(a, 1))
  BY <1>6, <1>10
<1> HIDE DEF n, l, to, a
<1> QED
  BY <1>1, <1>2, <1>11, <1>12, <1>13, <1>14, <1>15, MovedStep

-----------------------------------------------------------------------------
(* INC and DEC.                                                            *)

\* One less than nothing.
LEMMA Borrow ==
  ASSUME NEW y \in Int, y + 1 = 0
  PROVE  y % 256 = 255 /\ y % 65536 = 65535
<1>1. y < 0 /\ y >= -256
  OBVIOUS
<1>2. y % 256 = y + 256
  BY <1>1
<1>3. y % 65536 = y + 65536
  BY <1>1, SMT
<1> QED
  BY <1>2, <1>3

\* One more or one less, which carries from a byte that is full.
OneStep(by, full) ==
  (by = 1 /\ full = 255) \/ (by \in Int /\ by + 1 = 0 /\ full = 0)

\* A step on a word, byte by byte.
WordSum(p, q, by) == (p + 256 * q + by) % 65536
Stepping(x, p, q, by, full) ==
  /\ x \in Nat /\ x % 256 = (p + by) % 256
  /\ (x \div 256) % 256 = IF p = full THEN (q + by) % 256 ELSE q
  /\ x = (IF by = 1 THEN 0 ELSE 65535) <=> p = full /\ q = full

\* It is carried where the byte below is full.
LEMMA WordSteps ==
  ASSUME NEW p \in 0..255, NEW q \in 0..255, NEW by, NEW full, OneStep(by, full)
  PROVE  Stepping(WordSum(p, q, by), p, q, by, full)
<1> SUFFICES ASSUME NEW x, x = (p + 256 * q + by) % 65536
             PROVE  /\ x \in Nat /\ x % 256 = (p + by) % 256
                    /\ (x \div 256) % 256 = IF p = full THEN (q + by) % 256 ELSE q
                    /\ x = (IF by = 1 THEN 0 ELSE 65535) <=> p = full /\ q = full
  BY DEF Stepping, WordSum
<1>1. CASE by = 1 /\ full = 255
  <2>1. CASE p = 255 /\ q = 255
    BY <1>1, <2>1, SMT
  <2>2. CASE p = 255 /\ q # 255
    <3>1. x = 256 * (q + 1)
      BY <1>1, <2>2, SMT
    <3> QED
      BY <1>1, <2>2, <3>1, SMT
  <2>3. CASE p # 255
    <3>1. x = p + 1 + 256 * q
      BY <1>1, <2>3, SMT
    <3> QED
      BY <1>1, <2>3, <3>1, SMT
  <2> QED
    BY <2>1, <2>2, <2>3
<1>2. CASE by \in Int /\ by + 1 = 0 /\ full = 0
  <2>1. CASE p = 0 /\ q = 0
    <3>1. p + 256 * q + by = by /\ p + by = by /\ q + by = by /\ by \in Int /\ by + 1 = 0
      BY <1>2, <2>1
    <3>2. by % 65536 = 65535 /\ by % 256 = 255
      BY <3>1, Borrow
    <3>3. x = 65535 /\ (p + by) % 256 = 255
      BY <3>1, <3>2
    <3>4. (q + by) % 256 = 255
      BY <3>1, <3>2
    <3> QED
      BY <1>2, <2>1, <3>3, <3>4, SMT
  <2>2. CASE p = 0 /\ q # 0
    <3>1. x = 255 + 256 * (q - 1)
      BY <1>2, <2>2, SMT
    <3>2. (p + by) % 256 = 255
      <4>1. p + by \in Int /\ (p + by) + 1 = 0
        BY <1>2, <2>2
      <4> QED
        BY <4>1, Borrow
    <3>3. x % 256 = 255 /\ x \div 256 = q - 1 /\ x \in Nat /\ x # 65535
      BY <2>2, <3>1, SMT
    <3>4. (q - 1) % 256 = q - 1 /\ (q + by) % 256 = q - 1
      BY <1>2, <2>2, SMT
    <3> QED
      BY <1>2, <2>2, <3>2, <3>3, <3>4
  <2>3. CASE p # 0
    <3>1. x = p - 1 + 256 * q
      BY <1>2, <2>3, SMT
    <3> QED
      BY <1>2, <2>3, <3>1, SMT
  <2> QED
    BY <2>1, <2>2, <2>3
<1> QED
  BY <1>1, <1>2 DEF OneStep

\* Two words make a double word.
IsDouble(t, u, v) ==
  t \in Values(4) /\ t[1] = u[1] /\ t[2] = u[2] /\ t[3] = v[1] /\ t[4] = v[2]

\* The bytes of such a double word.
LEMMA TwoWords ==
  ASSUME NEW u \in Values(2), NEW v \in Values(2), NEW t, t = u \o v
  PROVE  IsDouble(t, u, v)
<1>1. u \in Seq(Byte) /\ Len(u) = 2 /\ v \in Seq(Byte) /\ Len(v) = 2
  BY ValueIsSeq
<1>2. /\ t \in Seq(Byte) /\ Len(t) = Len(u) + Len(v)
      /\ \A i \in 1 .. Len(u) + Len(v) : t[i] = IF i <= Len(u) THEN u[i] ELSE v[i - Len(u)]
  BY <1>1, ConcatProperties
<1>3. Len(t) = 4 /\ \A i \in 1..4 : t[i] = IF i <= 2 THEN u[i] ELSE v[i - 2]
  BY <1>1, <1>2
<1>4. t[1] = u[1] /\ t[2] = u[2] /\ t[3] = v[1] /\ t[4] = v[2]
  BY <1>3
<1>5. t \in [1..4 -> Byte]
  <2>1. t \in [1..Len(t) -> Byte]
    BY <1>2, LenProperties
  <2> QED
    BY <1>3, <2>1
<1> QED
  BY <1>4, <1>5 DEF Values, IsDouble

\* The bytes of a value and of a number.
LEMMA SameValue ==
  ASSUME NEW n \in 1..4, NEW u \in Values(n), NEW v \in Values(n), \A b \in 1..n : u[b] = v[b]
  PROVE  u = v
BY DEF Values

\* A step by bytes is one by words.
LEMMA AddedIs ==
  ASSUME NEW n \in {1, 2, 4}, NEW v \in Values(n), NEW by, NEW full, OneStep(by, full),
         NEW step, step = IF by = 1 THEN 1 ELSE 255
  PROVE  /\ Stepped(v, full, step) \in Values(n)
         /\ Added(v, by) = Stepped(v, full, step)
<1> DEFINE s == Stepped(v, full, step)
<1>1. Len(v) = n /\ DOMAIN v = 1..n /\ \A b \in 1..n : v[b] \in 0..255
  BY ValueIsSeq DEF Byte
<1>2. s = [b \in 1..n |-> IF \A c \in 1 .. b - 1 : v[c] = full THEN (v[b] + by) % 256 ELSE v[b]]
  <2>1. s = [b \in 1..n |-> IF \A c \in 1 .. b - 1 : v[c] = full THEN (v[b] + step) % 256 ELSE v[b]]
    BY <1>1 DEF Stepped
  <2>2. \A p \in 0..255 : (p + step) % 256 = (p + by) % 256
    <3>1. CASE by = 1
      BY <3>1
    <3>2. CASE by # 1
      <4>1. by \in Int /\ by + 1 = 0 /\ step = by + 256
        BY <3>2 DEF OneStep
      <4> QED
        BY <4>1
    <3> QED
      BY <3>1, <3>2
  <2>3. \A b \in 1..n : (v[b] + step) % 256 = (v[b] + by) % 256
    BY <1>1, <2>2
  <2> QED
    BY <2>1, <2>3
<1>3. \A b \in 1..n : (v[b] + by) % 256 \in 0..255
  <2>0. by \in Int
    BY DEF OneStep
  <2>1. \A p \in 0..255 : (p + by) % 256 \in 0..255
    BY <2>0
  <2> QED
    BY <1>1, <2>1
<1>4. s \in Values(n)
  <2> DEFINE e(b) == IF \A c \in 1 .. b - 1 : v[c] = full THEN (v[b] + by) % 256 ELSE v[b]
  <2>1. s = [b \in 1..n |-> e(b)]
    BY <1>2
  <2>2. \A b \in 1..n : e(b) \in Byte
    <3>1. ASSUME NEW b \in 1..n
          PROVE  e(b) \in 0..255
      BY <1>1, <1>3
    <3> QED
      BY <3>1 DEF Byte
  <2> HIDE DEF s, e
  <2>3. s \in [1..n -> Byte]
    BY <2>1, <2>2
  <2> QED
    BY <2>3 DEF Values
<1>5. s[1] = (v[1] + by) % 256
  BY <1>2
<1>6. n >= 2 => s[2] = IF v[1] = full THEN (v[2] + by) % 256 ELSE v[2]
  BY <1>2
<1>7. n = 4 => /\ s[3] = IF v[1] = full /\ v[2] = full THEN (v[3] + by) % 256 ELSE v[3]
               /\ s[4] = IF v[1] = full /\ v[2] = full /\ v[3] = full THEN (v[4] + by) % 256 ELSE v[4]
  BY <1>2
<1> HIDE DEF s
<1>8. CASE n = 1
  <2> DEFINE low == (v[1] + by) % 256
  <2>1. Added(v, by) = Bytes(low, 1)
    BY <1>1, <1>8 DEF Added
  <2>2. low \in Nat /\ low % 256 = low /\ 1 \in 1..4
    <3>1. low \in 0..255
      BY <1>3, <1>8
    <3> QED
      BY <3>1
  <2> HIDE DEF low
  <2>3. Bytes(low, 1) \in Values(1) /\ Bytes(low, 1)[1] = low
    BY <2>2, BytesType
  <2>4. Bytes(low, 1) = s
    BY <1>4, <1>5, <1>8, <2>3, SameValue DEF low
  <2> QED
    BY <1>4, <2>1, <2>4 DEF s
<1>9. CASE n # 1
  <2> DEFINE low == (Num(v) + by) % Word
             x == (v[1] + 256 * v[2] + by) % 65536
  <2>1. low = x
    BY DEF Num, Word
  <2>2. v[1] \in 0..255 /\ v[2] \in 0..255
    BY <1>1, <1>9
  <2>3. /\ x \in Nat /\ x % 256 = (v[1] + by) % 256
        /\ (x \div 256) % 256 = IF v[1] = full THEN (v[2] + by) % 256 ELSE v[2]
        /\ x = (IF by = 1 THEN 0 ELSE 65535) <=> v[1] = full /\ v[2] = full
    <3>1. x = WordSum(v[1], v[2], by)
      BY DEF WordSum
    <3>2. Stepping(WordSum(v[1], v[2], by), v[1], v[2], by, full)
      BY <2>2, WordSteps
    <3> HIDE DEF x
    <3> QED
      BY <3>1, <3>2 DEF Stepping
  <2>4. by \in Int /\ Len(v) # 1
    BY <1>1, <1>9 DEF OneStep
  <2> HIDE DEF x
  <2>5. 2 \in 1..4 /\ 2 >= 2
    OBVIOUS
  <2>6. Bytes(x, 2) \in Values(2) /\ Bytes(x, 2)[1] = x % 256 /\ Bytes(x, 2)[2] = (x \div 256) % 256
    BY <2>3, <2>5, BytesType
  <2>7. Bytes(x, 2)[1] = s[1] /\ Bytes(x, 2)[2] = s[2]
    BY <1>5, <1>6, <1>9, <2>3, <2>6
  <2>8. CASE n = 2
    <3>1. Added(v, by) = Bytes(low, 2)
      BY <1>1, <2>4, <2>8 DEF Added
    <3>2. \A b \in 1..2 : Bytes(x, 2)[b] = s[b]
      BY <2>7
    <3>3. Bytes(x, 2) = s
      BY <1>4, <2>6, <2>8, <3>2, SameValue
    <3> QED
      BY <1>4, <2>1, <3>1, <3>3 DEF s
  <2>9. CASE n = 4
    <3> DEFINE carry == IF low = (IF by = 1 THEN 0 ELSE Word - 1) THEN by ELSE 0
               part == SubSeq(v, 3, 4)
               high == (Num(part) + carry) % Word
    <3>1. Added(v, by) = Bytes(low, 2) \o Bytes(high, 2)
      BY <1>1, <2>4, <2>9 DEF Added
    <3>2. part[1] = v[3] /\ part[2] = v[4] /\ v[3] \in 0..255 /\ v[4] \in 0..255
      <4>1. 4 \in 1..4 /\ 3 \in 1..4 /\ 4 \in 3..4 /\ v \in Values(4)
        BY <2>9
      <4>2. \A b \in 1 .. 4 - 3 + 1 : part[b] = v[3 + b - 1]
        BY <4>1, PartOfValue
      <4> QED
        BY <1>1, <2>9, <4>2
    <3>3. carry = IF v[1] = full /\ v[2] = full THEN by ELSE 0
      <4>1. (IF by = 1 THEN 0 ELSE Word - 1) = IF by = 1 THEN 0 ELSE 65535
        BY SMT DEF Word
      <4> QED
        BY <2>1, <2>3, <4>1
    <3>4. high = (v[3] + 256 * v[4] + carry) % 65536
      BY <3>2 DEF Num, Word
    <3> HIDE DEF carry, part, high, low
    <3>5. high \in Nat /\ high % 256 = s[3] /\ (high \div 256) % 256 = s[4]
      <4>1. CASE v[1] = full /\ v[2] = full
        <5>1. high = (v[3] + 256 * v[4] + by) % 65536
          BY <3>3, <3>4, <4>1
        <5>2. /\ high \in Nat /\ high % 256 = (v[3] + by) % 256
              /\ (high \div 256) % 256 = IF v[3] = full THEN (v[4] + by) % 256 ELSE v[4]
          <6>1. high = WordSum(v[3], v[4], by)
            BY <5>1 DEF WordSum
          <6>2. Stepping(WordSum(v[3], v[4], by), v[3], v[4], by, full)
            BY <3>2, WordSteps
          <6> QED
            BY <6>1, <6>2 DEF Stepping
        <5> QED
          BY <1>7, <2>9, <4>1, <5>2
      <4>2. CASE ~(v[1] = full /\ v[2] = full)
        <5>1. high = (v[3] + 256 * v[4] + 0) % 65536
          BY <3>3, <3>4, <4>2
        <5>2. \A p \in 0..255, q \in 0..255 :
                 LET h == (p + 256 * q + 0) % 65536
                 IN  h \in Nat /\ h % 256 = p /\ (h \div 256) % 256 = q
          BY SMT
        <5> DEFINE p == v[3]
                   q == v[4]
        <5>4. p \in 0..255 /\ q \in 0..255 /\ high = (p + 256 * q + 0) % 65536
          BY <3>2, <5>1
        <5> HIDE DEF p, q
        <5>5. high \in Nat /\ high % 256 = p /\ (high \div 256) % 256 = q
          BY <5>2, <5>4, SMT
        <5>3. high \in Nat /\ high % 256 = v[3] /\ (high \div 256) % 256 = v[4]
          BY <5>5 DEF p, q
        <5> QED
          BY <1>7, <2>9, <4>2, <5>3
      <4> QED
        BY <4>1, <4>2
    <3>6. /\ Bytes(high, 2) \in Values(2)
          /\ Bytes(high, 2)[1] = high % 256 /\ Bytes(high, 2)[2] = (high \div 256) % 256
      BY <2>5, <3>5, BytesType
    <3> DEFINE t == Bytes(x, 2) \o Bytes(high, 2)
    <3>0. t = Bytes(x, 2) \o Bytes(high, 2)
      OBVIOUS
    <3>8. Added(v, by) = t
      BY <2>1, <3>1
    <3> HIDE DEF t
    <3>7. /\ t \in Values(4) /\ t[1] = Bytes(x, 2)[1] /\ t[2] = Bytes(x, 2)[2]
          /\ t[3] = Bytes(high, 2)[1] /\ t[4] = Bytes(high, 2)[2]
      <4>1. Bytes(x, 2) \in Values(2) /\ Bytes(high, 2) \in Values(2)
        BY <2>6, <3>6
      <4>2. IsDouble(t, Bytes(x, 2), Bytes(high, 2))
        BY <3>0, <4>1, TwoWords
      <4> QED
        BY <4>2 DEF IsDouble
    <3>9. \A b \in 1..4 : t[b] = s[b]
      BY <2>7, <3>5, <3>6, <3>7
    <3>10. t = s
      BY <1>4, <2>9, <3>7, <3>9, SameValue
    <3> QED
      BY <1>4, <3>8, <3>10 DEF s
  <2> QED
    BY <1>9, <2>8, <2>9
<1> QED
  BY <1>8, <1>9

\* What an operand holds with one added or taken.
OneMore(m, ref, n, by) == Added([b \in 1..n |-> Cell(m, RefCells(ref, n)[b])], by)

\* An operand is stepped by one.
LEMMA SteppedMoves ==
  ASSUME NEW m \in Machines, m.ret = "ok", NEW ref, IsRef(ref), NEW n \in {1, 2, 4},
         NEW by, NEW full, OneStep(by, full),
         NEW step, step = IF by = 1 THEN 1 ELSE 255, NEW x, x = ReadV(m, ref, n), NEW l,
         l = IF x.ret = "ok" THEN WriteV(m, ref, Stepped(x.v, full, step)) ELSE Failed(m, x.ret)
  PROVE  Moved(m, l, RefCells(ref, n), Lit(OneMore(m, ref, n, by)))
<1> DEFINE cells == RefCells(ref, n)
           u == Stepped(x.v, full, step)
           v == [b \in 1..n |-> Cell(m, cells[b])]
<1>1. DOMAIN cells = 1..n
  BY RefCellsAre
<1> HIDE DEF cells
<1>2. HasRead(m, x, cells, cells) /\ x.v \in Values(n)
  BY <1>1, ReadVHas DEF cells
<1>3. x.v = v
  BY <1>1, <1>2 DEF HasRead, Values
<1>4. u \in Values(n) /\ Added(v, by) = u
  BY <1>2, <1>3, AddedIs
<1> HIDE DEF u, v
<1>5. CASE x.ret = "ok"
  <2>1. l = WriteV(m, ref, u)
    BY <1>5 DEF u
  <2>2. Moved(m, l, cells, Lit(u))
    BY <1>4, <2>1, WriteVMoves DEF cells
  <2> QED
    BY <1>4, <2>2 DEF v, cells, OneMore
<1>6. CASE x.ret # "ok"
  <2>1. BadSrc(cells, cells) /\ l = Failed(m, "badmem")
    BY <1>2, <1>6 DEF HasRead
  <2>2. BadDst(cells)
    BY <2>1 DEF BadDst, BadSrc, InMem
  <2>3. Moved(m, l, cells, Lit(u))
    BY <2>1, <2>2, FailedMoves
  <2> QED
    BY <1>4, <2>3 DEF v, cells, OneMore
<1> QED
  BY <1>5, <1>6

\* INC of an operand.
LEMMA Unary_INC_Keeps ==
  ASSUME Typed, Unary_INC
  PROVE  MovesInv'
<1> DEFINE by == 1
           n == Instr.size
           x == ReadV(Machine, MemRef, n)
           l == IF x.ret = "ok" THEN WriteV(Machine, MemRef, Stepped(x.v, 255, 1)) ELSE Failed(Machine, x.ret)
           to == RefCells(MemRef, n)
           from == Lit(OneMore(Machine, MemRef, n, by))
<1>1. Runs("INC") /\ Done(l, MemRef.next)
  <2>1. Unary_IncDec("INC", 255, 1)
    BY DEF Unary_INC
  <2> HIDE DEF by
  <2> QED
    BY <2>1 DEF Unary_IncDec
<1>2. /\ prog # <<>> /\ Instr.op = "INC" /\ Machine \in Machines /\ Machine.ret = "ok"
      /\ IsRef(MemRef) /\ n \in {1, 2, 4}
  BY <1>1, Starts
<1>3. Moves(Machine, Instr) = Copies(to, from)
  BY <1>2 DEF Moves, MovesOf, MemRef, OneMore
<1>4. Moved(Machine, l, to, from)
  <2>1. OneStep(by, 255) /\ 1 = (IF by = 1 THEN 1 ELSE 255) /\ x = ReadV(Machine, MemRef, n)
    BY DEF OneStep
  <2>2. l = IF x.ret = "ok" THEN WriteV(Machine, MemRef, Stepped(x.v, 255, 1)) ELSE Failed(Machine, x.ret)
    OBVIOUS
  <2> HIDE DEF l, n, x, by
  <2> QED
    BY <1>2, <2>1, <2>2, SteppedMoves
<1>5. \A b \in DOMAIN to : to[b][1] # "p"
  BY <1>2, RefPlaces, PlacesNoIP
<1>6. MemRef.next = Length(Instr) + 1 /\ Length(Instr) \in Nat /\ SPChange(Instr) = 0
  BY <1>1, PlainEnds DEF PlainOps
<1> HIDE DEF by, n, x, l, to, from
<1> QED
  BY <1>1, <1>2, <1>3, <1>4, <1>5, <1>6, MovedStep

\* DEC of an operand.
LEMMA Unary_DEC_Keeps ==
  ASSUME Typed, Unary_DEC
  PROVE  MovesInv'
<1> DEFINE by == -1
           n == Instr.size
           x == ReadV(Machine, MemRef, n)
           l == IF x.ret = "ok" THEN WriteV(Machine, MemRef, Stepped(x.v, 0, 255)) ELSE Failed(Machine, x.ret)
           to == RefCells(MemRef, n)
           from == Lit(OneMore(Machine, MemRef, n, by))
<1>1. Runs("DEC") /\ Done(l, MemRef.next)
  <2>1. Unary_IncDec("DEC", 0, 255)
    BY DEF Unary_DEC
  <2> HIDE DEF by
  <2> QED
    BY <2>1 DEF Unary_IncDec
<1>2. /\ prog # <<>> /\ Instr.op = "DEC" /\ Machine \in Machines /\ Machine.ret = "ok"
      /\ IsRef(MemRef) /\ n \in {1, 2, 4}
  BY <1>1, Starts
<1>3. Moves(Machine, Instr) = Copies(to, from)
  BY <1>2 DEF Moves, MovesOf, MemRef, OneMore
<1>4. Moved(Machine, l, to, from)
  <2>1. OneStep(by, 0) /\ 255 = (IF by = 1 THEN 1 ELSE 255) /\ x = ReadV(Machine, MemRef, n)
    BY DEF OneStep
  <2>2. l = IF x.ret = "ok" THEN WriteV(Machine, MemRef, Stepped(x.v, 0, 255)) ELSE Failed(Machine, x.ret)
    OBVIOUS
  <2> HIDE DEF l, n, x, by
  <2> QED
    BY <1>2, <2>1, <2>2, SteppedMoves
<1>5. \A b \in DOMAIN to : to[b][1] # "p"
  BY <1>2, RefPlaces, PlacesNoIP
<1>6. MemRef.next = Length(Instr) + 1 /\ Length(Instr) \in Nat /\ SPChange(Instr) = 0
  BY <1>1, PlainEnds DEF PlainOps
<1> HIDE DEF by, n, x, l, to, from
<1> QED
  BY <1>1, <1>2, <1>3, <1>4, <1>5, <1>6, MovedStep

-----------------------------------------------------------------------------
(* Jumps.                                                                  *)

\* A fault before anything is done.
LEMMA FailedExact ==
  ASSUME NEW m \in Machines, NEW moves, Bad(moves), NEW by
  PROVE  Exact(m, Failed(m, "badmem"), moves, by)
<1> DEFINE l == Failed(m, "badmem")
<1>1. l \in Machines /\ l.gpr = m.gpr /\ l.seg = m.seg /\ l.mem = m.mem /\ l.ret = "badmem"
  BY FailedIs
<1> HIDE DEF l
<1>2. Frame(m, l, Dst(moves) \cup CellsOf(SPCells))
  BY <1>1, SameFrame, FrameWider
<1> QED
  BY <1>1, <1>2 DEF Exact, l

\* Copies that are only read, or go to IP.
LEMMA ExactMore ==
  ASSUME NEW m, NEW l, NEW A, NEW B, NEW by, Exact(m, l, B, by), ~Bad(A),
         \A c \in A : c[1][1] \in {"x", "p"}
  PROVE  Exact(m, l, A \cup B, by)
<1>1. (Bad(A \cup B) <=> Bad(A) \/ Bad(B)) /\ Dst(A \cup B) = Dst(A) \cup Dst(B)
  BY BothAre
<1>2. Frame(m, l, Dst(A \cup B) \cup CellsOf(SPCells))
  <2>1. Dst(B) \cup CellsOf(SPCells) \subseteq Dst(A \cup B) \cup CellsOf(SPCells)
    BY <1>1
  <2>2. Frame(m, l, Dst(B) \cup CellsOf(SPCells))
    BY DEF Exact
  <2> QED
    BY <2>1, <2>2, FrameWider
<1>3. \A c \in A \cup B : c[1][1] \notin {"x", "p"} => c \in B
  OBVIOUS
<1>4. \A b \in 1..2 : SPCells[b] \in Dst(B) => SPCells[b] \in Dst(A \cup B)
  BY <1>1
<1>5. /\ l \in Machines
      /\ l.ret = IF Bad(A \cup B) THEN "badmem" ELSE "ok"
      /\ l.ret = "ok" =>
           /\ \A c \in B : c[1][1] \notin {"x", "p"} => Cell(l, c[1]) = Cell(m, c[2])
           /\ \A b \in 1..2 : SPCells[b] \in Dst(B) \/ l.gpr[SP][b] = Bytes((W(m, SP) + by) % Word, 2)[b]
  BY <1>1 DEF Exact
<1> DEFINE C == A \cup B
<1>6. /\ Frame(m, l, Dst(C) \cup CellsOf(SPCells))
      /\ \A c \in C : c[1][1] \notin {"x", "p"} => c \in B
      /\ \A b \in 1..2 : SPCells[b] \in Dst(B) => SPCells[b] \in Dst(C)
      /\ l.ret = IF Bad(C) THEN "badmem" ELSE "ok"
  BY <1>2, <1>3, <1>4, <1>5
<1> HIDE DEF C
<1>7. Exact(m, l, C, by)
  BY <1>5, <1>6 DEF Exact
<1> QED
  BY <1>7 DEF C

\* An instruction may do nothing.
LEMMA NothingExact ==
  ASSUME NEW m \in Machines, m.ret = "ok"
  PROVE  Exact(m, m, {}, 0)
<1>1. ~Bad({}) /\ Dst({}) = {}
  BY DEF Bad, Dst
<1>2. Frame(m, m, {})
  BY SameFrame
<1>3. Frame(m, m, Dst({}) \cup CellsOf(SPCells))
  BY <1>2, FrameWider
<1>4. \A b \in 1..2 : SPCells[b] \in {} \/ m.gpr[SP][b] = Bytes((W(m, SP) + 0) % Word, 2)[b]
  BY <1>2, SPStays
<1> QED
  BY <1>1, <1>3, <1>4 DEF Exact

\* An instruction that goes on where it says.
LEMMA LeadStep ==
  ASSUME Typed, prog # <<>>, NEW l, NEW to, DoneAt(l, to), NEW moves,
         Moves(Machine, Instr) = moves, Exact(Machine, l, moves, SPChange(Instr)),
         l.ret = "ok" => to \in Offsets /\ Leads(Machine, Instr, to, moves), Instr.op # "LEA"
  PROVE  MovesInv'
<1>1. l \in Machines /\ (l.ret = "ok" \/ l.ret = "badmem")
  BY DEF Exact
<1>2. Right(Machine, Instr, l, to)
  BY <1>1 DEF Right
<1> QED
  BY <1>2, StepKeeps

\* A word is written to IP as it was read.
LEMMA WordIs ==
  ASSUME NEW v \in Values(2)
  PROVE  Num(v) \in Offsets /\ \A b \in 1..2 : Bytes(Num(v), 2)[b] = v[b]
<1> DEFINE p == v[1]
           q == v[2]
<1>1. p \in Byte /\ q \in Byte
  BY DEF Values
<1>2. Num(v) \in Offsets /\ Num(v) = p + 256 * q
  BY <1>1, NumType DEF Num
<1>3. Num(v) \in Nat /\ 2 \in 1..4 /\ 2 >= 2
  BY <1>2 DEF Offsets
<1>4. Bytes(Num(v), 2)[1] = Num(v) % 256 /\ Bytes(Num(v), 2)[2] = (Num(v) \div 256) % 256
  BY <1>3, BytesType
<1> HIDE DEF p, q
<1>5. (p + 256 * q) % 256 = p /\ ((p + 256 * q) \div 256) % 256 = q
  BY <1>1, SMT DEF Byte
<1>6. Bytes(Num(v), 2)[1] = v[1] /\ Bytes(Num(v), 2)[2] = v[2]
  BY <1>2, <1>4, <1>5 DEF p, q
<1> QED
  BY <1>2, <1>6

\* Copies to IP.
LEMMA IPCopies ==
  ASSUME NEW from
  PROVE  /\ DOMAIN IPCells = 1..2
         /\ Bad(Copies(IPCells, from)) <=> BadSrc(IPCells, from)
         /\ IPCells[1] \in Dst(Copies(IPCells, from))
         /\ \A c \in Copies(IPCells, from) :
              \E b \in 1..2 : c[1] = <<"p", b>> /\ c[1][1] = "p" /\ c[1][2] = b /\ c[2] = from[b]
<1>1. DOMAIN IPCells = 1..2 /\ \A b \in 1..2 : IPCells[b] = <<"p", b>> /\ IPCells[b][1] = "p" /\ IPCells[b][2] = b
  BY DEF IPCells
<1>2. /\ Bad(Copies(IPCells, from)) <=> BadDst(IPCells) \/ BadSrc(IPCells, from)
      /\ Dst(Copies(IPCells, from)) = CellsOf(IPCells)
      /\ \A c \in Copies(IPCells, from) : \E b \in DOMAIN IPCells : c[1] = IPCells[b] /\ c[2] = from[b]
  BY CopiesAre
<1>3. ~BadDst(IPCells)
  BY <1>1, NoBadCells
<1>4. IPCells[1] \in CellsOf(IPCells)
  BY <1>1 DEF CellsOf
<1>5. ASSUME NEW c \in Copies(IPCells, from)
      PROVE  \E b \in 1..2 : c[1] = <<"p", b>> /\ c[1][1] = "p" /\ c[1][2] = b /\ c[2] = from[b]
  <2>1. PICK b \in 1..2 : c[1] = IPCells[b] /\ c[2] = from[b]
    BY <1>1, <1>2
  <2> QED
    BY <1>1, <2>1
<1> QED
  BY <1>1, <1>2, <1>3, <1>4, <1>5

\* IP gets what is in two cells, when nothing else goes to it.
LEMMA IPLeads ==
  ASSUME NEW m, NEW i, NEW v \in Values(2), NEW from, \A b \in 1..2 : v[b] = Cell(m, from[b]),
         NEW B, \A c \in B : c[1][1] # "p"
  PROVE  /\ Num(v) \in Offsets
         /\ Leads(m, i, Num(v), Copies(IPCells, from) \cup B)
<1>1. Num(v) \in Offsets /\ \A b \in 1..2 : Bytes(Num(v), 2)[b] = v[b]
  BY WordIs
<1> DEFINE A == Copies(IPCells, from)
<1>2. /\ IPCells[1] \in Dst(A)
      /\ \A c \in A : \E b \in 1..2 : c[1] = <<"p", b>> /\ c[1][1] = "p" /\ c[1][2] = b /\ c[2] = from[b]
  BY IPCopies
<1> HIDE DEF A
<1>3. \A c \in A : Bytes(Num(v), 2)[c[1][2]] = Cell(m, c[2])
  BY <1>1, <1>2
<1>4. Dst(A \cup B) = Dst(A) \cup Dst(B)
  BY BothAre
<1>5. \A c \in A \cup B : c[1][1] = "p" => Bytes(Num(v), 2)[c[1][2]] = Cell(m, c[2])
  BY <1>3
<1>6. IPCells[1] \in Dst(A \cup B)
  BY <1>2, <1>4
<1> DEFINE C == A \cup B
<1>7. IPCells[1] \in Dst(C) /\ \A c \in C : c[1][1] = "p" => Bytes(Num(v), 2)[c[1][2]] = Cell(m, c[2])
  BY <1>5, <1>6
<1> HIDE DEF C
<1>8. Leads(m, i, Num(v), C)
  BY <1>7 DEF Leads
<1> QED
  BY <1>1, <1>8 DEF A, C

\* A jump through an operand.
LEMMA Unary_JMP_N_Keeps ==
  ASSUME Typed, Unary_JMP_N
  PROVE  MovesInv'
<1> DEFINE x == ReadV(Machine, MemRef, 2)
           l == Failed(Machine, x.ret)
           cells == RefCells(MemRef, 2)
           A == Copies(IPCells, cells)
<1>1. Runs("JMP_N") /\ IF Wide(Instr) THEN Done(Undefined, 1) ELSE DoneAt(l, Num(x.v))
  BY DEF Unary_JMP_N
<1>2. /\ prog # <<>> /\ Instr.op = "JMP_N" /\ Machine \in Machines /\ Machine.ret = "ok" /\ IsRef(MemRef)
  BY <1>1, Starts
<1>3. CASE Wide(Instr)
  BY <1>1, <1>2, <1>3, UndefinedStep DEF Done
<1>4. CASE ~Wide(Instr)
  <2>1. DoneAt(l, Num(x.v))
    BY <1>1, <1>4
  <2>2. Moves(Machine, Instr) = A
    BY <1>2 DEF Moves, MovesOf, MemRef
  <2>3. SPChange(Instr) = 0
    BY <1>2 DEF SPChange
  <2>4. /\ DOMAIN IPCells = 1..2
        /\ Bad(A) <=> BadSrc(IPCells, cells)
        /\ \A c \in A : \E b \in 1..2 : c[1] = <<"p", b>> /\ c[1][1] = "p" /\ c[1][2] = b /\ c[2] = cells[b]
    BY IPCopies
  <2>5. HasRead(Machine, x, IPCells, cells) /\ x.v \in Values(2)
    BY <1>2, <2>4, ReadVHas
  <2> HIDE DEF x, cells, A
  <2>6. x.ret = IF Bad(A) THEN "badmem" ELSE "ok"
    BY <2>4, <2>5 DEF HasRead
  <2>7. Exact(Machine, l, A, 0)
    <3>1. CASE Bad(A)
      BY <1>2, <2>6, <3>1, FailedExact
    <3>2. CASE ~Bad(A)
      <4>1. l = Machine
        BY <1>2, <2>6, <3>2 DEF Failed, Machines
      <4>2. Exact(Machine, Machine, {}, 0)
        BY <1>2, NothingExact
      <4>3. \A c \in A : c[1][1] \in {"x", "p"}
        BY <2>4
      <4>4. Exact(Machine, Machine, A \cup {}, 0)
        BY <3>2, <4>2, <4>3, ExactMore
      <4>5. A \cup {} = A
        OBVIOUS
      <4> QED
        BY <4>1, <4>4, <4>5
    <3> QED
      BY <3>1, <3>2
  <2>8. Num(x.v) \in Offsets /\ Leads(Machine, Instr, Num(x.v), A)
    <3>1. \A b \in 1..2 : x.v[b] = Cell(Machine, cells[b])
      BY <2>4, <2>5 DEF HasRead
    <3>2. \A c \in {} : c[1][1] # "p"
      OBVIOUS
    <3>3. Num(x.v) \in Offsets /\ Leads(Machine, Instr, Num(x.v), Copies(IPCells, cells) \cup {})
      BY <2>5, <3>1, <3>2, IPLeads
    <3>4. Copies(IPCells, cells) \cup {} = A
      BY DEF A
    <3> QED
      BY <3>3, <3>4
  <2> HIDE DEF l
  <2> QED
    BY <1>2, <2>1, <2>2, <2>3, <2>7, <2>8, LeadStep
<1> QED
  BY <1>3, <1>4

-----------------------------------------------------------------------------
(* The stack.                                                              *)

\* SP moves within the segment.
LEMMA SPMovedIs ==
  ASSUME NEW m \in Machines, NEW by \in Int
  PROVE  LET l == SPMoved(m, by)
         IN  /\ l \in Machines /\ l.seg = m.seg /\ l.mem = m.mem /\ l.ip = m.ip /\ l.ret = m.ret
             /\ (W(m, SP) + by) % Word \in Offsets /\ W(l, SP) = (W(m, SP) + by) % Word
             /\ \A b \in 1..2 : l.gpr[SP][b] = Bytes((W(m, SP) + by) % Word, 2)[b]
             /\ \A k \in Regs, b \in 1..4 : k # SP \/ b > 2 => l.gpr[k][b] = m.gpr[k][b]
             /\ \A k \in Regs : k # SP => l.gpr[k] = m.gpr[k]
             /\ Frame(m, l, CellsOf(SPCells))
             /\ \A a : Peek(l, a) = Peek(m, a)
<1> DEFINE x == (W(m, SP) + by) % Word
           v == Bytes(x, 2)
           l == SetReg(m, SP, v)
<1>1. SP \in Regs /\ CellsOf(SPCells) = {<<"r", SP, 1>>, <<"r", SP, 2>>}
  BY SPCellsAre
<1>2. W(m, SP) \in Nat
  BY <1>1, Holding DEF Offsets
<1>3. x \in Offsets /\ x \in Nat
  BY <1>2, SMT DEF Word, Offsets
<1>4. SPMoved(m, by) = l
  BY DEF SPMoved
<1> HIDE DEF x
<1>5. 2 \in 1..4 /\ 2 \in {2, 3, 4}
  OBVIOUS
<1>6. v \in Values(2)
  BY <1>3, <1>5, BytesType
<1>7. Num(v) = x
  BY <1>3, WordOfBytes
<1> HIDE DEF v
<1>8. /\ l \in Machines /\ l.seg = m.seg /\ l.mem = m.mem /\ l.ip = m.ip /\ l.ret = m.ret
      /\ \A k \in Regs, b \in 1..4 : l.gpr[k][b] = IF k = SP /\ b <= 2 THEN v[b] ELSE m.gpr[k][b]
  BY <1>1, <1>5, <1>6, SetWordReg
<1> HIDE DEF l
<1>9. \A b \in 1..2 : b \in 1..4 /\ l.gpr[SP][b] = v[b]
  BY <1>1, <1>8
<1>10. W(l, SP) = x
  BY <1>7, <1>9 DEF W, Num
<1>11. \A k \in Regs, b \in 1..4 : k # SP \/ b > 2 => l.gpr[k][b] = m.gpr[k][b]
  BY <1>8
<1>12. ASSUME NEW k \in Regs, k # SP
       PROVE  l.gpr[k] = m.gpr[k]
  <2>1. l.gpr[k] \in Values(4) /\ m.gpr[k] \in Values(4) /\ 4 \in 1..4
    BY <1>8, Holding
  <2>2. \A b \in 1..4 : l.gpr[k][b] = m.gpr[k][b]
    BY <1>11, <1>12
  <2> QED
    BY <2>1, <2>2, SameValue
<1>13. \A a : Peek(l, a) = Peek(m, a)
  BY <1>8 DEF Peek
<1>14. Frame(m, l, CellsOf(SPCells))
  <2>1. ASSUME NEW k \in Regs, NEW b \in 1..4
        PROVE  l.gpr[k][b] = m.gpr[k][b] \/ <<"r", k, b>> \in CellsOf(SPCells)
    <3>1. CASE k # SP \/ b > 2
      BY <1>11, <3>1
    <3>2. CASE k = SP /\ ~(b > 2)
      <4>1. b = 1 \/ b = 2
        BY <3>2
      <4> QED
        BY <1>1, <3>2, <4>1
    <3> QED
      BY <3>1, <3>2
  <2> QED
    BY <1>8, <1>13, <2>1 DEF Frame
<1> QED
  BY <1>3, <1>4, <1>8, <1>9, <1>10, <1>11, <1>12, <1>13, <1>14 DEF x, v

\* The top of the stack is a word of cells.
LEMMA StackTopIs ==
  ASSUME NEW m \in Machines
  PROVE  StackTop(m) \in Nat /\ StackCells(m, 0) = MemCells(StackTop(m), 2)
<1>1. SP \in Regs /\ SS \in 0..5
  BY DEF SP, SS, Regs
<1>2. W(m, SP) \in Offsets /\ Num(m.seg[SS]) \in Offsets
  BY <1>1, Holding
<1>3. W(m, SP) \in Int
  BY <1>2 DEF Offsets
<1>4. (W(m, SP) + 0) % Word = W(m, SP)
  BY <1>2, SMT DEF Offsets, Word
<1>5. Linear(Num(m.seg[SS]), W(m, SP)) \in Nat
  BY <1>2, <1>3, LinearType
<1>6. StackTop(m) = Linear(Num(m.seg[SS]), W(m, SP))
  BY DEF StackTop
<1>7. StackCells(m, 0) = MemCells(Linear(Num(m.seg[SS]), W(m, SP)), 2)
  BY <1>4 DEF StackCells
<1> QED
  BY <1>5, <1>6, <1>7

\* A read from the top.
LEMMA TopHas ==
  ASSUME NEW m \in Machines, NEW to, DOMAIN to = 1..2
  PROVE  /\ HasRead(m, MemRead(m, StackTop(m), 2), to, StackCells(m, 0))
         /\ MemRead(m, StackTop(m), 2).v \in Values(2)
<1>1. StackTop(m) \in Nat /\ StackCells(m, 0) = MemCells(StackTop(m), 2) /\ 2 \in 1..4
  BY StackTopIs
<1> QED
  BY <1>1, MemReadHas

\* SP moves, and then something else does.
LEMMA MovedOnStack ==
  ASSUME NEW m \in Machines, NEW by \in Int, NEW k, k = SPMoved(m, by), NEW l, NEW to, NEW got, NEW from,
         Moved(k, l, to, got), BadSrc(to, got) <=> BadSrc(to, from),
         \A b \in DOMAIN to : Cell(k, got[b]) = Cell(m, from[b])
  PROVE  Exact(m, l, Copies(to, from), by)
<1> DEFINE moves == Copies(to, from)
<1>1. /\ Bad(moves) <=> BadDst(to) \/ BadSrc(to, from)
      /\ Dst(moves) = CellsOf(to)
      /\ \A c \in moves : \E b \in DOMAIN to : c[1] = to[b] /\ c[2] = from[b]
  BY CopiesAre
<1> HIDE DEF moves
<1>2. /\ Frame(m, k, CellsOf(SPCells))
      /\ \A b \in 1..2 : k.gpr[SP][b] = Bytes((W(m, SP) + by) % Word, 2)[b]
  BY SPMovedIs
<1>3. /\ l \in Machines /\ Frame(k, l, CellsOf(to))
      /\ l.ret = IF BadDst(to) \/ BadSrc(to, got) THEN "badmem" ELSE "ok"
      /\ l.ret = "ok" => \A b \in DOMAIN to : Cell(l, to[b]) = Cell(k, got[b])
  BY DEF Moved
<1>4. Frame(m, l, Dst(moves) \cup CellsOf(SPCells))
  <2>1. Frame(m, l, CellsOf(SPCells) \cup CellsOf(to))
    BY <1>2, <1>3, FrameJoin
  <2>2. CellsOf(SPCells) \cup CellsOf(to) = Dst(moves) \cup CellsOf(SPCells)
    BY <1>1
  <2> QED
    BY <2>1, <2>2
<1>5. ASSUME NEW b \in 1..2
      PROVE  SPCells[b] \in Dst(moves) \/ l.gpr[SP][b] = Bytes((W(m, SP) + by) % Word, 2)[b]
  <2>1. SP \in Regs /\ b \in 1..4 /\ SPCells[b] = <<"r", SP, b>>
    BY SPCellsAre
  <2>2. l.gpr[SP][b] = k.gpr[SP][b] \/ <<"r", SP, b>> \in CellsOf(to)
    BY ZenonT(30), <1>3, <2>1, FrameOfReg
  <2> QED
    BY <1>1, <1>2, <2>1, <2>2
<1>6. l.ret = "ok" => \A c \in moves : Cell(l, c[1]) = Cell(m, c[2])
  BY <1>1, <1>3
<1>7. l.ret = IF Bad(moves) THEN "badmem" ELSE "ok"
  BY <1>1, <1>3
<1> QED
  BY <1>3, <1>4, <1>5, <1>6, <1>7 DEF Exact, moves

\* What was on top of the stack goes somewhere.
LEMMA PoppedExact ==
  ASSUME NEW m \in Machines, m.ret = "ok", NEW to, DOMAIN to = 1..2, NEW x, x = MemRead(m, StackTop(m), 2),
         NEW k, k = SPMoved(m, 2), NEW n, Moved(k, n, to, Lit(x.v)),
         NEW l, l = IF x.ret = "ok" THEN n ELSE Failed(m, x.ret)
  PROVE  Exact(m, l, Copies(to, StackCells(m, 0)), 2)
<1> DEFINE from == StackCells(m, 0)
<1>1. HasRead(m, x, to, from) /\ x.v \in Values(2)
  BY TopHas
<1> HIDE DEF from
<1>2. CASE x.ret = "ok"
  <2>1. ~BadSrc(to, from) /\ \A b \in 1..2 : x.v[b] = Cell(m, from[b])
    BY <1>1, <1>2 DEF HasRead
  <2>2. 2 \in 1..4 /\ 2 \in Int
    OBVIOUS
  <2>3. ~BadSrc(to, Lit(x.v)) /\ \A b \in 1..2 : Cell(k, Lit(x.v)[b]) = x.v[b]
    BY <1>1, <2>2, LitIsGood, LitHolds
  <2>4. \A b \in DOMAIN to : Cell(k, Lit(x.v)[b]) = Cell(m, from[b])
    BY <2>1, <2>3
  <2>5. BadSrc(to, Lit(x.v)) <=> BadSrc(to, from)
    BY <2>1, <2>3
  <2>6. l = n
    BY <1>2
  <2>7. Exact(m, n, Copies(to, from), 2)
    BY <2>2, <2>4, <2>5, MovedOnStack
  <2> QED
    BY <2>6, <2>7 DEF from
<1>3. CASE x.ret # "ok"
  <2>1. BadSrc(to, from) /\ l = Failed(m, "badmem")
    BY <1>1, <1>3 DEF HasRead
  <2>2. Bad(Copies(to, from))
    BY <2>1, CopiesAre
  <2>3. Exact(m, l, Copies(to, from), 2)
    BY <2>1, <2>2, FailedExact
  <2> QED
    BY <2>3 DEF from
<1> QED
  BY <1>2, <1>3

\* POP of a segment register.
LEMMA POP_Seg_Keeps ==
  ASSUME Typed, POP_Seg
  PROVE  MovesInv'
<1> DEFINE s == Instr.param
           x == MemRead(Machine, StackTop(Machine), 2)
           k == SPMoved(Machine, 2)
           n == [k EXCEPT !.seg[s] = x.v]
           l == IF x.ret = "ok" THEN n ELSE Failed(Machine, x.ret)
           to == SegCells(s)
           from == StackCells(Machine, 0)
           moves == Copies(to, from)
<1>1. Runs("POP_Seg") /\ Done(l, 1)
  BY DEF POP_Seg
<1>2. /\ prog # <<>> /\ Instr.op = "POP_Seg" /\ Machine \in Machines /\ Machine.ret = "ok"
      /\ Instr \in Instructions
  BY <1>1, Starts
<1>3. s \in 0..5 /\ 2 \in Int /\ 2 \in 1..4
  BY <1>2, InstrIs
<1>4. DOMAIN to = 1..2 /\ \A b \in DOMAIN to : to[b][1] = "s"
  BY SegCellsAre
<1>5. x.v \in Values(2)
  BY <1>2, <1>4, TopHas
<1>6. k \in Machines /\ k.ret = "ok"
  BY <1>2, <1>3, SPMovedIs
<1>7. Moved(k, n, to, Lit(x.v))
  <2> HIDE DEF x, k
  <2>1. Wrote(k, n, to, x.v)
    BY <1>3, <1>5, <1>6, SetSegWrote
  <2> HIDE DEF n, to
  <2> QED
    BY <1>3, <1>4, <1>5, <1>6, <2>1, LitMoves
<1>8. Exact(Machine, l, moves, 2)
  <2>1. x = MemRead(Machine, StackTop(Machine), 2) /\ k = SPMoved(Machine, 2)
        /\ l = IF x.ret = "ok" THEN n ELSE Failed(Machine, x.ret)
    OBVIOUS
  <2> HIDE DEF x, k, n, l, to
  <2> QED
    BY <1>2, <1>4, <1>7, <2>1, PoppedExact
<1>9. Moves(Machine, Instr) = moves
  BY <1>2 DEF Moves, MovesOf
<1>10. \A c \in moves : c[1][1] # "p"
  <2> HIDE DEF to, from
  <2> QED
    BY <1>4, CopiesAre
<1>11. Length(Instr) = 0 /\ SPChange(Instr) = 2
  BY <1>2 DEF Length, SPChange
<1>12. 1 = Length(Instr) + 1 /\ Length(Instr) \in Nat
  BY <1>11
<1> HIDE DEF l, moves
<1> QED
  BY <1>1, <1>2, <1>8, <1>9, <1>10, <1>11, <1>12, ExactStep

\* POP of an operand, whose address is made before SP moves.
LEMMA POP_MX_Keeps ==
  ASSUME Typed, POP_MX
  PROVE  MovesInv'
<1> DEFINE x == MemRead(Machine, StackTop(Machine), 2)
           k == SPMoved(Machine, 2)
           n == WriteV(k, MemRef, x.v)
           l == IF x.ret = "ok" THEN n ELSE Failed(Machine, x.ret)
           to == RefCells(MemRef, 2)
           from == StackCells(Machine, 0)
           moves == Copies(to, from)
<1>1. /\ Runs("POP_MX")
      /\ Done(IF Wide(Instr) THEN Undefined
              ELSE IF x.ret # "ok" THEN Failed(Machine, x.ret) ELSE n, MemRef.next)
  BY DEF POP_MX
<1>2. /\ prog # <<>> /\ Instr.op = "POP_MX" /\ Machine \in Machines /\ Machine.ret = "ok" /\ IsRef(MemRef)
      /\ MemRef.next = ModRMLength(Instr) + 1 /\ ModRMLength(Instr) \in Nat
  BY <1>1, Starts
<1>3. CASE Wide(Instr)
  BY <1>1, <1>2, <1>3, UndefinedStep DEF Done
<1>4. CASE ~Wide(Instr)
  <2>1. Done(l, MemRef.next)
    BY <1>1, <1>4
  <2>2. DOMAIN to = 1..2
    BY <1>2, RefCellsAre
  <2>3. x.v \in Values(2)
    BY <1>2, <2>2, TopHas
  <2>4. 2 \in Int /\ 2 \in {1, 2, 4}
    OBVIOUS
  <2>5. k \in Machines /\ k.ret = "ok"
    BY <1>2, <2>4, SPMovedIs
  <2>6. Moved(k, n, to, Lit(x.v))
    <3> HIDE DEF x, k
    <3> QED
      BY <1>2, <2>3, <2>4, <2>5, WriteVMoves
  <2>7. Exact(Machine, l, moves, 2)
    <3>1. x = MemRead(Machine, StackTop(Machine), 2) /\ k = SPMoved(Machine, 2)
          /\ l = IF x.ret = "ok" THEN n ELSE Failed(Machine, x.ret)
      OBVIOUS
    <3> HIDE DEF x, k, n, l, to
    <3> QED
      BY <1>2, <2>2, <2>6, <3>1, PoppedExact
  <2>8. Moves(Machine, Instr) = moves
    BY <1>2 DEF Moves, MovesOf, MemRef
  <2>9. \A b \in DOMAIN to : to[b][1] # "p"
    BY <1>2, <2>4, RefPlaces, PlacesNoIP
  <2>10. \A c \in moves : c[1][1] # "p"
    <3> HIDE DEF to, from
    <3> QED
      BY <2>9, CopiesAre
  <2>11. Length(Instr) = ModRMLength(Instr) /\ SPChange(Instr) = 2
    BY <1>2 DEF Length, SPChange
  <2>12. MemRef.next = Length(Instr) + 1 /\ Length(Instr) \in Nat
    BY <1>2, <2>11
  <2> HIDE DEF l, moves
  <2> QED
    BY <1>2, <2>1, <2>7, <2>8, <2>10, <2>11, <2>12, ExactStep
<1> QED
  BY <1>3, <1>4

-----------------------------------------------------------------------------
(* Pushes, one word after the other.                                       *)

\* The cells of the word pushed as number q.
StackWord(m, q) == StackCells(m, -2 * q)

\* Where that word is.
WordAt(m, q) == Linear(Num(m.seg[SS]), (W(m, SP) + -2 * q) % Word)

\* The cells of that word.
LEMMA StackWordIs ==
  ASSUME NEW m \in Machines, NEW q \in Nat
  PROVE  /\ StackWord(m, q) = MemCells(WordAt(m, q), 2) /\ WordAt(m, q) \in Nat
         /\ DOMAIN StackWord(m, q) = 1..2
         /\ \A b \in 1..2 : StackWord(m, q)[b] = <<"m", WordAt(m, q) + b - 1>>
         /\ \A b \in DOMAIN StackWord(m, q) : IsPlace(StackWord(m, q)[b])
<1>1. SP \in Regs /\ SS \in 0..5
  BY DEF SP, SS, Regs
<1>2. W(m, SP) \in Offsets /\ Num(m.seg[SS]) \in Offsets
  BY <1>1, Holding
<1>3. (W(m, SP) + -2 * q) % Word \in Int
  BY <1>2, SMT DEF Offsets, Word
<1>4. WordAt(m, q) \in Nat
  BY <1>2, <1>3, LinearType DEF WordAt
<1>5. StackWord(m, q) = MemCells(WordAt(m, q), 2)
  BY DEF StackWord, StackCells, WordAt
<1>6. 2 \in 1..4
  OBVIOUS
<1> QED
  BY <1>4, <1>5, <1>6, MemCellsAre, MemPlaces

\* Words below SP do not meet, not even where it wraps.
Below(x, q) == (x + -2 * q) % Word

\* The two offsets, byte by byte.
LEMMA WordsApart ==
  ASSUME NEW x \in Offsets, NEW p \in 0..8, NEW q \in 0..8, p # q, NEW b \in 1..2, NEW c \in 1..2
  PROVE  Below(x, p) + b # Below(x, q) + c /\ Below(x, p) \in Offsets
  BY SMT DEF Offsets, Word, Below

\* The words of two different pushes share no cell.
LEMMA StackApart ==
  ASSUME NEW m \in Machines, NEW p \in 0..8, NEW q \in 0..8, p # q, NEW b \in 1..2, NEW c \in 1..2
  PROVE  StackWord(m, p)[b] # StackWord(m, q)[c]
<1> DEFINE s == Num(m.seg[SS])
           x == W(m, SP)
<1>1. SP \in Regs /\ SS \in 0..5
  BY DEF SP, SS, Regs
<1>2. x \in Offsets /\ s \in Offsets
  BY <1>1, Holding
<1>3. p \in Nat /\ q \in Nat
  OBVIOUS
<1>4. StackWord(m, p)[b] = <<"m", WordAt(m, p) + b - 1>> /\ StackWord(m, q)[c] = <<"m", WordAt(m, q) + c - 1>>
  BY <1>3, StackWordIs
<1>5. WordAt(m, p) = s * 16 + (Below(x, p) % Word) /\ WordAt(m, q) = s * 16 + (Below(x, q) % Word)
  BY DEF WordAt, Linear, Below
<1> HIDE DEF x, s
<1>6. /\ Below(x, p) \in Offsets /\ Below(x, q) \in Offsets
      /\ Below(x, p) + b # Below(x, q) + c
  BY <1>2, WordsApart
<1>7. (Below(x, p) % Word) = Below(x, p) /\ (Below(x, q) % Word) = Below(x, q)
  BY <1>6, SMT DEF Offsets, Word
<1>8. WordAt(m, p) = s * 16 + Below(x, p) /\ WordAt(m, q) = s * 16 + Below(x, q)
  BY <1>5, <1>7
<1>9. Below(x, p) \in Nat /\ Below(x, q) \in Nat /\ s \in Nat
  BY <1>2, <1>6 DEF Offsets
<1>10. WordAt(m, p) + b - 1 # WordAt(m, q) + c - 1
  BY <1>6, <1>8, <1>9
<1> QED
  BY <1>4, <1>10

\* l is m after j words are pushed, or after a fault among them.
Pushed(m, l, moves, j) ==
  /\ l \in Machines /\ l.ip = m.ip /\ l.seg = m.seg
  /\ l.ret = IF Bad(moves) THEN "badmem" ELSE "ok"
  /\ Frame(m, l, Dst(moves) \cup CellsOf(SPCells))
  /\ \A k \in Regs, b \in 1..4 : k # SP \/ b > 2 => l.gpr[k][b] = m.gpr[k][b]
  /\ \A c \in moves : \E q \in 1..j, b \in 1..2 : c[1] = StackWord(m, q)[b]
  /\ l.ret = "ok" =>
       /\ \A c \in moves : Cell(l, c[1]) = Cell(m, c[2])
       /\ W(l, SP) = Below(W(m, SP), j)

\* Nothing is pushed yet.
LEMMA NonePushed ==
  ASSUME NEW m \in Machines, m.ret = "ok"
  PROVE  Pushed(m, m, {}, 0)
<1>1. ~Bad({}) /\ Dst({}) = {}
  BY DEF Bad, Dst
<1>2. Frame(m, m, {})
  BY SameFrame
<1>3. Frame(m, m, Dst({}) \cup CellsOf(SPCells))
  BY <1>2, FrameWider
<1>4. W(m, SP) \in Offsets
  <2>1. SP \in Regs
    BY DEF SP, Regs
  <2> QED
    BY <2>1, Holding
<1>5. W(m, SP) = Below(W(m, SP), 0)
  BY <1>4, SMT DEF Below, Offsets, Word
<1> QED
  BY <1>1, <1>3, <1>5 DEF Pushed

\* SP is two less for each word.
LEMMA OneBelow ==
  ASSUME NEW x \in Offsets, NEW j \in 0..7
  PROVE  (Below(x, j) + -2) % Word = Below(x, j + 1)
  BY SMT DEF Below, Offsets, Word

\* One more word is pushed.
LEMMA PushWord ==
  ASSUME NEW m \in Machines, NEW l, NEW moves, NEW j \in 0..7, Pushed(m, l, moves, j), NEW v \in Values(2),
         NEW to, to = StackWord(m, j + 1), NEW from, ~BadSrc(to, from),
         l.ret = "ok" => \A b \in 1..2 : v[b] = Cell(m, from[b])
  PROVE  Pushed(m, Push(l, v), moves \cup Copies(to, from), j + 1)
<1> DEFINE new == Copies(to, from)
           all == moves \cup new
<1>1. /\ Bad(new) <=> BadDst(to) \/ BadSrc(to, from)
      /\ Dst(new) = CellsOf(to)
      /\ \A c \in new : \E b \in DOMAIN to : c[1] = to[b] /\ c[2] = from[b]
  BY CopiesAre
<1>2. (Bad(all) <=> Bad(moves) \/ Bad(new)) /\ Dst(all) = Dst(moves) \cup Dst(new)
  BY BothAre
<1>3. \A c \in all : c \in moves \/ c \in new
  OBVIOUS
<1> HIDE DEF new, all
<1>4. /\ l \in Machines /\ l.ip = m.ip /\ l.seg = m.seg
      /\ l.ret = IF Bad(moves) THEN "badmem" ELSE "ok"
      /\ Frame(m, l, Dst(moves) \cup CellsOf(SPCells))
      /\ \A k \in Regs, b \in 1..4 : k # SP \/ b > 2 => l.gpr[k][b] = m.gpr[k][b]
      /\ \A c \in moves : \E q \in 1..j, b \in 1..2 : c[1] = StackWord(m, q)[b]
      /\ l.ret = "ok" =>
           /\ \A c \in moves : Cell(l, c[1]) = Cell(m, c[2])
           /\ W(l, SP) = Below(W(m, SP), j)
  BY DEF Pushed
<1>5. /\ j + 1 \in Nat /\ j + 1 \in 0..8 /\ j + 1 \in 1 .. j + 1 /\ \A q \in 1..j : q \in 1 .. j + 1
      /\ \A q \in 1..j : q \in 0..8 /\ q # j + 1 /\ q \in Nat
  OBVIOUS
<1>6. to = MemCells(WordAt(m, j + 1), 2) /\ WordAt(m, j + 1) \in Nat /\ DOMAIN to = 1..2
  BY <1>5, StackWordIs
<1>7. \A c \in all : \E q \in 1 .. j + 1, b \in 1..2 : c[1] = StackWord(m, q)[b]
  <2>1. ASSUME NEW c \in moves
        PROVE  \E q \in 1 .. j + 1, b \in 1..2 : c[1] = StackWord(m, q)[b]
    BY <1>4, <1>5
  <2>2. ASSUME NEW c \in new
        PROVE  \E q \in 1 .. j + 1, b \in 1..2 : c[1] = StackWord(m, q)[b]
    BY <1>1, <1>5, <1>6
  <2> QED
    BY <1>3, <2>1, <2>2
<1>8. CASE l.ret # "ok"
  <2>1. Push(l, v) = l
    BY <1>8 DEF Push
  <2>2. l.ret = "badmem" /\ Bad(all)
    BY <1>2, <1>4, <1>8
  <2>3. Dst(moves) \cup CellsOf(SPCells) \subseteq Dst(all) \cup CellsOf(SPCells)
    BY <1>2
  <2>4. Frame(m, l, Dst(all) \cup CellsOf(SPCells))
    BY <1>4, <2>3, FrameWider
  <2>5. Pushed(m, l, all, j + 1)
    BY <1>4, <1>7, <1>8, <2>2, <2>4 DEF Pushed
  <2> QED
    BY <2>1, <2>5 DEF all, new
<1>9. CASE l.ret = "ok"
  <2> DEFINE k == SPMoved(l, -2)
             n == MemWrite(k, StackTop(k), v)
  <2>1. Push(l, v) = n
    BY <1>9 DEF Push
  <2>2. -2 \in Int /\ 2 \in 1..4
    OBVIOUS
  <2>3. /\ k \in Machines /\ k.seg = l.seg /\ k.mem = l.mem /\ k.ip = l.ip /\ k.ret = l.ret
        /\ W(k, SP) = (W(l, SP) + -2) % Word
        /\ \A r \in Regs, b \in 1..4 : r # SP \/ b > 2 => k.gpr[r][b] = l.gpr[r][b]
        /\ Frame(l, k, CellsOf(SPCells))
        /\ \A a : Peek(k, a) = Peek(l, a)
    BY <1>4, <2>2, SPMovedIs
  <2> HIDE DEF k
  <2>4. SP \in Regs
    BY DEF SP, Regs
  <2>5. W(m, SP) \in Offsets
    BY <2>4, Holding
  <2>6. W(k, SP) = Below(W(m, SP), j + 1)
    BY <1>4, <1>9, <2>3, <2>5, OneBelow
  <2>7. StackTop(k) = WordAt(m, j + 1)
    BY <1>4, <2>3, <2>6 DEF StackTop, WordAt, Below
  <2>8. /\ n \in Machines /\ n.gpr = k.gpr /\ n.seg = k.seg /\ n.ip = k.ip
        /\ Wrote(k, n, to, v)
    BY <1>6, <2>2, <2>3, <2>7, MemWriteFacts, MemWriteWrote
  <2> HIDE DEF n
  <2>9. Frame(m, n, Dst(all) \cup CellsOf(SPCells))
    <3>1. Frame(k, n, CellsOf(to))
      BY <2>8 DEF Wrote
    <3>2. Frame(m, k, (Dst(moves) \cup CellsOf(SPCells)) \cup CellsOf(SPCells))
      BY <1>4, <2>3, FrameJoin
    <3>3. Frame(m, n, ((Dst(moves) \cup CellsOf(SPCells)) \cup CellsOf(SPCells)) \cup CellsOf(to))
      BY <3>1, <3>2, FrameJoin
    <3>4. ((Dst(moves) \cup CellsOf(SPCells)) \cup CellsOf(SPCells)) \cup CellsOf(to) = Dst(all) \cup CellsOf(SPCells)
      BY <1>1, <1>2
    <3> QED
      BY <3>3, <3>4
  <2>10. n.ret = IF Bad(all) THEN "badmem" ELSE "ok"
    <3>1. n.ret = IF BadDst(to) THEN "badmem" ELSE k.ret
      BY <2>8 DEF Wrote
    <3>2. ~Bad(moves)
      BY <1>4, <1>9
    <3> QED
      BY <1>1, <1>2, <1>9, <2>3, <3>1, <3>2
  <2>11. \A r \in Regs, b \in 1..4 : r # SP \/ b > 2 => n.gpr[r][b] = m.gpr[r][b]
    BY <1>4, <2>3, <2>8
  <2>12. W(n, SP) = Below(W(m, SP), j + 1)
    BY <2>6, <2>8 DEF W
  <2>13. ASSUME n.ret = "ok", NEW c \in all
         PROVE  Cell(n, c[1]) = Cell(m, c[2])
    <3>1. CASE c \in new
      <4>1. ~BadDst(to)
        BY <1>1, <1>2, <2>10, <2>13
      <4>2. PICK b \in 1..2 : c[1] = to[b] /\ c[2] = from[b]
        BY <1>1, <1>6, <3>1
      <4>3. Cell(n, to[b]) = v[b]
        BY <1>6, <2>8, <4>1 DEF Wrote
      <4>4. v[b] = Cell(m, from[b])
        BY <1>9
      <4> QED
        BY <4>2, <4>3, <4>4
    <3>2. CASE c \in moves
      <4>1. PICK q \in 1..j, b \in 1..2 : c[1] = StackWord(m, q)[b]
        BY <1>4, <3>2
      <4>2. q \in 0..8 /\ q # j + 1 /\ q \in Nat
        BY <1>5
      <4>3. \A d \in 1..2 : StackWord(m, q)[b] # to[d]
        BY <1>5, <4>2, StackApart
      <4>4. c[1] \notin CellsOf(to)
        BY <1>6, <4>1, <4>3 DEF CellsOf
      <4>5. IsPlace(c[1]) /\ c[1] = <<"m", WordAt(m, q) + b - 1>>
        BY <4>1, <4>2, StackWordIs
      <4>6. Frame(k, n, CellsOf(to))
        BY <2>8 DEF Wrote
      <4>7. Cell(n, c[1]) = Cell(k, c[1])
        BY <4>4, <4>5, <4>6, PlaceIs
      <4>8. Cell(k, c[1]) = Cell(l, c[1])
        BY <2>3, <4>5, CellIs
      <4>9. Cell(l, c[1]) = Cell(m, c[2])
        BY <1>4, <1>9, <3>2
      <4> QED
        BY <4>7, <4>8, <4>9
    <3> QED
      BY <1>3, <2>13, <3>1, <3>2
  <2>14. n.ip = m.ip /\ n.seg = m.seg
    BY <1>4, <2>3, <2>8
  <2>15. Pushed(m, n, all, j + 1)
    BY <1>7, <2>8, <2>9, <2>10, <2>11, <2>12, <2>13, <2>14 DEF Pushed
  <2> QED
    BY <2>1, <2>15 DEF all, new
<1> QED
  BY <1>8, <1>9

\* What is pushed is exactly that.
LEMMA PushedExact ==
  ASSUME NEW m \in Machines, NEW l, NEW moves, NEW j \in 0..8, Pushed(m, l, moves, j),
         NEW by \in Int, by + 2 * j = 0
  PROVE  Exact(m, l, moves, by)
<1>1. /\ l \in Machines
      /\ l.ret = IF Bad(moves) THEN "badmem" ELSE "ok"
      /\ Frame(m, l, Dst(moves) \cup CellsOf(SPCells))
      /\ l.ret = "ok" =>
           /\ \A c \in moves : Cell(l, c[1]) = Cell(m, c[2])
           /\ W(l, SP) = Below(W(m, SP), j)
  BY DEF Pushed
<1>3. SP \in Regs
  BY DEF SP, Regs
<1>2. Below(W(m, SP), j) = (W(m, SP) + by) % Word
  <2>1. W(m, SP) \in Int
    BY <1>3, Holding DEF Offsets
  <2>2. W(m, SP) + -2 * j = W(m, SP) + by
    BY <2>1
  <2> QED
    BY <2>2 DEF Below
<1>4. ASSUME l.ret = "ok", NEW b \in 1..2
      PROVE  l.gpr[SP][b] = Bytes((W(m, SP) + by) % Word, 2)[b]
  <2>1. Bytes(W(l, SP), 2)[b] = l.gpr[SP][b]
    BY <1>1, <1>3, BytesOfReg
  <2>2. W(l, SP) = (W(m, SP) + by) % Word
    BY <1>1, <1>2, <1>4
  <2> QED
    BY <2>1, <2>2
<1> QED
  BY <1>1, <1>4 DEF Exact

\* Pushes do not touch IP.
LEMMA PushedNoIP ==
  ASSUME NEW m \in Machines, NEW l, NEW moves, NEW j \in 0..8, Pushed(m, l, moves, j)
  PROVE  \A c \in moves : c[1][1] # "p" /\ c[1][1] = "m"
<1>1. ASSUME NEW c \in moves
      PROVE  c[1][1] = "m"
  <2>1. PICK q \in 1..j, b \in 1..2 : c[1] = StackWord(m, q)[b]
    BY DEF Pushed
  <2>2. q \in Nat
    OBVIOUS
  <2>3. c[1] = <<"m", WordAt(m, q) + b - 1>>
    BY <2>1, <2>2, StackWordIs
  <2> QED
    BY <2>3
<1> QED
  BY <1>1

\* An instruction that only pushes.
LEMMA PushedStep ==
  ASSUME Typed, prog # <<>>, NEW l, NEW next, Done(l, next), NEW moves,
         Moves(Machine, Instr) = moves, NEW j \in 0..8, Pushed(Machine, l, moves, j),
         SPChange(Instr) \in Int, SPChange(Instr) + 2 * j = 0, next = Length(Instr) + 1, Length(Instr) \in Nat,
         Instr.op # "LEA"
  PROVE  MovesInv'
<1>1. Machine \in Machines
  BY MachineIs
<1>2. SPChange(Instr) \in Int
  OBVIOUS
<1>3. Exact(Machine, l, moves, SPChange(Instr))
  BY <1>1, <1>2, PushedExact
<1>4. \A c \in moves : c[1][1] # "p"
  BY <1>1, PushedNoIP
<1> QED
  BY <1>3, <1>4, ExactStep

\* The first word below the top.
LEMMA FirstWords ==
  ASSUME NEW m
  PROVE  /\ StackCells(m, -2) = StackWord(m, 1)
         /\ StackCells(m, -4) = StackWord(m, 2)
<1>1. -2 = -2 * 1 /\ -4 = -2 * 2
  OBVIOUS
<1> QED
  BY <1>1 DEF StackWord

\* Of one word there is nothing before it.
LEMMA FirstPushed ==
  ASSUME NEW m \in Machines, m.ret = "ok", NEW v \in Values(2), NEW from,
         \A to : DOMAIN to = 1..2 => ~BadSrc(to, from),
         \A b \in 1..2 : v[b] = Cell(m, from[b])
  PROVE  Pushed(m, Push(m, v), Copies(StackWord(m, 1), from), 1)
<1>1. Pushed(m, m, {}, 0)
  BY NonePushed
<1>2. 0 \in 0..7 /\ 0 + 1 = 1 /\ 1 \in Nat
  OBVIOUS
<1>3. DOMAIN StackWord(m, 1) = 1..2
  BY <1>2, StackWordIs
<1>4. ~BadSrc(StackWord(m, 1), from)
  BY <1>3
<1>5. Pushed(m, Push(m, v), {} \cup Copies(StackWord(m, 1), from), 1)
  BY <1>1, <1>2, <1>4, PushWord
<1>6. {} \cup Copies(StackWord(m, 1), from) = Copies(StackWord(m, 1), from)
  OBVIOUS
<1> QED
  BY <1>5, <1>6

\* PUSH of a segment register.
LEMMA PUSH_Seg_Keeps ==
  ASSUME Typed, PUSH_Seg
  PROVE  MovesInv'
<1> DEFINE s == Instr.param
           l == Push(Machine, seg[s])
           moves == Copies(StackWord(Machine, 1), SegCells(s))
<1>1. Runs("PUSH_Seg") /\ Done(l, 1)
  BY DEF PUSH_Seg
<1>2. /\ prog # <<>> /\ Instr.op = "PUSH_Seg" /\ Machine \in Machines /\ Machine.ret = "ok"
      /\ Instr \in Instructions /\ Machine.seg = seg
  BY <1>1, Starts, MachineIs
<1>3. s \in 0..5
  BY <1>2, InstrIs
<1>4. /\ seg[s] \in Values(2)
      /\ \A b \in 1..2 : seg[s][b] = Cell(Machine, SegCells(s)[b])
      /\ \A to : DOMAIN to = 1..2 => ~BadSrc(to, SegCells(s))
  BY <1>2, <1>3, SegHas
<1>5. Pushed(Machine, l, moves, 1)
  BY <1>2, <1>4, FirstPushed
<1>6. Moves(Machine, Instr) = Copies(StackCells(Machine, -2), SegCells(s))
  BY <1>2 DEF Moves, MovesOf
<1>7. Moves(Machine, Instr) = moves
  BY <1>6, FirstWords
<1>8. Length(Instr) = 0 /\ SPChange(Instr) = -2
  BY <1>2 DEF Length, SPChange
<1>9. 1 = Length(Instr) + 1 /\ Length(Instr) \in Nat /\ SPChange(Instr) \in Int /\ SPChange(Instr) + 2 * 1 = 0 /\ 1 \in 0..8
  BY <1>8
<1> HIDE DEF l, moves
<1> QED
  BY <1>1, <1>2, <1>5, <1>7, <1>9, PushedStep

\* Parts of cells.
LEMMA PartOfCells ==
  ASSUME NEW s, NEW p \in 1..3
  PROVE  \A b \in 1..2 : SubSeq(s, p, p + 1)[b] = s[p + b - 1]
<1>1. \A i \in p .. p + 1 : s[i] \in {s[j] : j \in p .. p + 1}
  OBVIOUS
<1>2. p \in Int /\ p + 1 \in Int /\ (p + 1) - p + 1 = 2
  OBVIOUS
<1>3. \A i \in 1 .. (p + 1) - p + 1 : SubSeq(s, p, p + 1)[i] = s[p + i - 1]
  BY <1>1, <1>2, SubSeqProperties
<1> QED
  BY <1>2, <1>3

\* What PushReg pushes.
LEMMA PushRegValue ==
  ASSUME NEW l \in Machines, NEW r \in Regs, NEW b \in {1, 3}
  PROVE  LET v == SubSeq(SPMoved(l, -2).gpr[r], b, b + 1)
         IN  /\ v \in Values(2)
             /\ r # SP \/ b = 3 => v[1] = l.gpr[r][b] /\ v[2] = l.gpr[r][b + 1]
             /\ r = SP /\ b = 1 => \A c \in 1..2 : v[c] = Bytes((W(l, SP) + -2) % Word, 2)[c]
<1> DEFINE k == SPMoved(l, -2)
           v == SubSeq(k.gpr[r], b, b + 1)
<1>1. -2 \in Int /\ 4 \in 1..4 /\ b \in 1..3 /\ b \in 1..4 /\ b + 1 \in b..4 /\ (b + 1) - b + 1 = 2 /\ b + 1 \in 1..4
  OBVIOUS
<1>2. /\ k \in Machines
      /\ \A c \in 1..2 : k.gpr[SP][c] = Bytes((W(l, SP) + -2) % Word, 2)[c]
      /\ \A q \in Regs, c \in 1..4 : q # SP \/ c > 2 => k.gpr[q][c] = l.gpr[q][c]
  BY <1>1, SPMovedIs
<1> HIDE DEF k
<1>3. k.gpr[r] \in Values(4)
  BY <1>2, Holding
<1>4. v \in Values(2)
  BY <1>1, <1>3, PartOfValue
<1>5. \A c \in 1..2 : v[c] = k.gpr[r][b + c - 1]
  BY <1>1, PartOfCells
<1>6. v[1] = k.gpr[r][b] /\ v[2] = k.gpr[r][b + 1]
  <2>1. b + 1 - 1 = b /\ b + 2 - 1 = b + 1 /\ 1 \in 1..2 /\ 2 \in 1..2
    OBVIOUS
  <2> QED
    BY <1>5, <2>1
<1> HIDE DEF v
<1>7. ASSUME r # SP \/ b = 3
      PROVE  v[1] = l.gpr[r][b] /\ v[2] = l.gpr[r][b + 1]
  <2>1. b = 3 => b > 2 /\ b + 1 > 2
    OBVIOUS
  <2> QED
    BY <1>1, <1>2, <1>6, <1>7, <2>1
<1>8. ASSUME r = SP, b = 1, NEW c \in 1..2
      PROVE  v[c] = Bytes((W(l, SP) + -2) % Word, 2)[c]
  <2>1. v[1] = k.gpr[SP][1] /\ v[2] = k.gpr[SP][2]
    BY <1>6, <1>8
  <2>2. v[c] = k.gpr[SP][c]
    BY <2>1
  <2> QED
    BY <1>2, <2>2
<1> QED
  BY <1>4, <1>7, <1>8 DEF v, k

\* A register is pushed behind other words.
LEMMA PushRegWord ==
  ASSUME NEW m \in Machines, NEW l, NEW moves, NEW j \in 0..7, Pushed(m, l, moves, j),
         NEW r \in Regs, NEW b \in {1, 3}, NEW to, to = StackWord(m, j + 1), NEW from,
         r # SP \/ b = 3 => \A c \in 1..2 : from[c] = <<"r", r, b + c - 1>>,
         r = SP /\ b = 1 => from = Lit(Bytes(Below(W(m, SP), j + 1), 2))
  PROVE  Pushed(m, PushReg(l, r, b), moves \cup Copies(to, from), j + 1)
<1> DEFINE v == SubSeq(SPMoved(l, -2).gpr[r], b, b + 1)
<1>1. l \in Machines
  BY DEF Pushed
<1>2. /\ v \in Values(2)
      /\ r # SP \/ b = 3 => v[1] = l.gpr[r][b] /\ v[2] = l.gpr[r][b + 1]
      /\ r = SP /\ b = 1 => \A c \in 1..2 : v[c] = Bytes((W(l, SP) + -2) % Word, 2)[c]
  BY <1>1, PushRegValue
<1>3. PushReg(l, r, b) = Push(l, v)
  BY DEF PushReg
<1> HIDE DEF v
<1>4. j + 1 \in Nat /\ 2 \in 1..4 /\ b \in 1..4 /\ b + 1 \in 1..4
  OBVIOUS
<1>5. DOMAIN to = 1..2
  BY <1>4, StackWordIs
<1>6. CASE r # SP \/ b = 3
  <2>1. ~BadSrc(to, from)
    BY <1>5, <1>6, GoodSrc
  <2>2. from[1] = <<"r", r, b>> /\ from[2] = <<"r", r, b + 1>>
    <3>1. b + 1 - 1 = b /\ b + 2 - 1 = b + 1 /\ 1 \in 1..2 /\ 2 \in 1..2
      OBVIOUS
    <3> QED
      BY <1>6, <3>1
  <2>3. Cell(m, from[1]) = m.gpr[r][b] /\ Cell(m, from[2]) = m.gpr[r][b + 1]
    BY <2>2, CellIs
  <2>4. b = 3 => b > 2 /\ b + 1 > 2
    OBVIOUS
  <2>5. l.gpr[r][b] = m.gpr[r][b] /\ l.gpr[r][b + 1] = m.gpr[r][b + 1]
    BY <1>4, <1>6, <2>4 DEF Pushed
  <2>6. \A c \in 1..2 : v[c] = Cell(m, from[c])
    BY <1>2, <1>6, <2>3, <2>5
  <2> QED
    BY <1>2, <1>3, <2>1, <2>6, PushWord
<1>7. CASE ~(r # SP \/ b = 3)
  <2>1. r = SP /\ b = 1
    BY <1>7
  <2>2. W(m, SP) \in Offsets
    BY <2>1, Holding
  <2> DEFINE u == Bytes(Below(W(m, SP), j + 1), 2)
  <2>3. j + 1 \in 0..8 /\ 0 \in 1..8 \cup {0}
    OBVIOUS
  <2>4. Below(W(m, SP), j + 1) \in Nat
    BY <2>2, <2>3, SMT DEF Below, Offsets, Word
  <2>5. u \in Values(2)
    BY <1>4, <2>4, BytesType
  <2>6. from = Lit(u)
    BY <2>1
  <2> HIDE DEF u
  <2>7. ~BadSrc(to, from) /\ \A c \in 1..2 : Cell(m, from[c]) = u[c]
    BY <1>4, <1>5, <2>5, <2>6, LitIsGood, LitHolds
  <2>8. ASSUME l.ret = "ok"
        PROVE  \A c \in 1..2 : v[c] = u[c]
    <3>1. W(l, SP) = Below(W(m, SP), j)
      BY <2>8 DEF Pushed
    <3>2. (W(l, SP) + -2) % Word = Below(W(m, SP), j + 1)
      BY <2>2, <3>1, OneBelow
    <3> QED
      BY <1>2, <2>1, <3>2 DEF u
  <2>9. l.ret = "ok" => \A c \in 1..2 : v[c] = Cell(m, from[c])
    BY <2>7, <2>8
  <2> QED
    BY <1>2, <1>3, <2>7, <2>9, PushWord
<1> QED
  BY <1>6, <1>7

\* The length of a sequence of cells, and its upper half.
LEMMA LenOfCells ==
  ASSUME NEW n \in Nat, NEW s, IsCells(s, n)
  PROVE  Len(s) = n
<1>1. DOMAIN s = 1..n /\ s = [b \in 1..n |-> s[b]]
  BY DEF IsCells
<1>2. s \in [1..n -> {s[b] : b \in 1..n}]
  BY <1>1
<1>3. s \in Seq({s[b] : b \in 1..n})
  BY <1>2, SeqDef
<1> QED
  BY <1>1, <1>3, LenProperties

\* The upper half of a register is its third and fourth cell.
LEMMA UpperIs ==
  ASSUME NEW s, IsCells(s, 4)
  PROVE  \A b \in 1..2 : Upper(s)[b] = s[2 + b]
<1>1. Len(s) = 4
  <2>1. 4 \in Nat
    OBVIOUS
  <2> QED
    BY <2>1, LenOfCells
<1>2. 3 \in 1..3 /\ 3 + 1 = 4 /\ \A b \in 1..2 : 3 + b - 1 = 2 + b
  OBVIOUS
<1>3. Upper(s) = SubSeq(s, 3, 4)
  BY <1>1 DEF Upper
<1> QED
  BY <1>2, <1>3, PartOfCells

\* Nothing and more is that.
LEMMA WithNothing ==
  ASSUME NEW A
  PROVE  A \cup {} = A /\ {} \cup A = A
OBVIOUS

\* PUSH of a register, the upper half of a wide one first.
LEMMA PUSH_Reg_Keeps ==
  ASSUME Typed, PUSH_Reg
  PROVE  MovesInv'
<1> DEFINE r == Instr.param
           n == Instr.size
           p == RegCells(r, n)
           low == IF r = SP THEN Lit(Bytes((W(Machine, SP) - n) % Word, 2)) ELSE SubSeq(p, 1, 2)
           l1 == IF Wide(Instr) THEN PushReg(Machine, r, 3) ELSE Machine
           l == PushReg(l1, r, 1)
<1>1. Runs("PUSH_Reg") /\ Done(l, 1)
  BY DEF PUSH_Reg
<1>2. /\ prog # <<>> /\ Instr.op = "PUSH_Reg" /\ Machine \in Machines /\ Machine.ret = "ok"
      /\ r \in Regs
  BY <1>1, Starts
<1>3. n \in {2, 4}
  BY <1>1, NoByteForm DEF ByteForms
<1>4. /\ Length(Instr) = 0 /\ SPChange(Instr) = -n
  BY <1>2 DEF Length, SPChange
<1>5. 1 = Length(Instr) + 1 /\ Length(Instr) \in Nat
  BY <1>4
<1>6. p = [b \in 1..n |-> <<"r", r, b>>]
  BY <1>3 DEF RegCells
<1>7. IsCells(p, n)
  BY <1>6 DEF IsCells
<1>8. ASSUME r # SP, NEW c \in 1..2
      PROVE  low[c] = <<"r", r, 1 + c - 1>>
  <2>1. 1 \in 1..3 /\ 1 + 1 = 2 /\ 1 + c - 1 = c /\ c \in 1..n
    BY <1>3
  <2>2. \A b \in 1..2 : SubSeq(p, 1, 1 + 1)[b] = p[1 + b - 1]
    BY <2>1, PartOfCells
  <2>3. SubSeq(p, 1, 2)[c] = p[c]
    BY <2>1, <2>2
  <2>4. p[c] = <<"r", r, c>>
    BY <1>6, <2>1
  <2> QED
    BY <1>8, <2>1, <2>3, <2>4
<1>9. ASSUME r = SP
      PROVE  low = Lit(Bytes(Below(W(Machine, SP), n \div 2), 2))
  <2>1. -n = -2 * (n \div 2)
    BY <1>3
  <2>2. W(Machine, SP) \in Int
    BY <1>2, <1>9, Holding DEF Offsets
  <2>3. W(Machine, SP) - n = W(Machine, SP) + -2 * (n \div 2)
    BY <1>3, <2>1, <2>2
  <2> QED
    BY <1>9, <2>3 DEF Below
<1>10. Pushed(Machine, Machine, {}, 0)
  BY <1>2, NonePushed
<1>11. 0 \in 0..7 /\ 0 + 1 = 1 /\ 1 \in 0..7 /\ 1 + 1 = 2 /\ 1 \in {1, 3} /\ 3 \in {1, 3} /\ 1 \in 0..8 /\ 2 \in 0..8
  OBVIOUS
<1>12. CASE n = 2
  <2>1. ~Wide(Instr)
    BY <1>12 DEF Wide
  <2>2. l = PushReg(Machine, r, 1)
    BY <2>1
  <2>3. n \div 2 = 1
    BY <1>12
  <2> DEFINE moves == Copies(StackWord(Machine, 1), low)
  <2>4. Moves(Machine, Instr) = Copies(StackCells(Machine, -n), low) \cup {}
    BY <1>2, <1>12 DEF Moves, MovesOf
  <2>5. Moves(Machine, Instr) = moves
    BY <1>12, <2>4, FirstWords
  <2> HIDE DEF low
  <2>6. Pushed(Machine, PushReg(Machine, r, 1), {} \cup Copies(StackWord(Machine, 1), low), 1)
    <3>1. r = SP /\ 1 = 1 => low = Lit(Bytes(Below(W(Machine, SP), 0 + 1), 2))
      BY <1>9, <2>3
    <3>2. StackWord(Machine, 1) = StackWord(Machine, 0 + 1)
      OBVIOUS
    <3>3. r # SP \/ 1 = 3 => \A c \in 1..2 : low[c] = <<"r", r, 1 + c - 1>>
      BY <1>8
    <3>4. Pushed(Machine, PushReg(Machine, r, 1), {} \cup Copies(StackWord(Machine, 1), low), 0 + 1)
      BY <1>2, <1>10, <1>11, <3>1, <3>2, <3>3, PushRegWord
    <3> QED
      BY <3>4
  <2>7. Pushed(Machine, l, moves, 1)
    BY <2>2, <2>6, WithNothing
  <2>8. SPChange(Instr) \in Int /\ SPChange(Instr) + 2 * 1 = 0 /\ Instr.op # "LEA"
    BY <1>2, <1>4, <1>12
  <2> HIDE DEF l, moves
  <2> QED
    BY <1>1, <1>2, <1>5, <1>11, <2>5, <2>7, <2>8, PushedStep
<1>13. CASE n = 4
  <2>1. Wide(Instr)
    BY <1>13 DEF Wide
  <2>2. l1 = PushReg(Machine, r, 3)
    BY <2>1
  <2>3. n \div 2 = 2
    BY <1>13
  <2> DEFINE up == Upper(p)
             A == Copies(StackWord(Machine, 1), up)
             B == Copies(StackWord(Machine, 2), low)
             moves == A \cup B
  <2>4. Moves(Machine, Instr) = Copies(StackCells(Machine, -n), low) \cup Copies(StackCells(Machine, -2), up)
    BY <1>2, <1>13 DEF Moves, MovesOf
  <2>5. Moves(Machine, Instr) = moves
    BY <1>13, <2>4, FirstWords
  <2>6. \A c \in 1..2 : up[c] = <<"r", r, 3 + c - 1>>
    <3>1. IsCells(p, 4) /\ \A c \in 1..2 : 2 + c = 3 + c - 1 /\ 2 + c \in 1..n
      BY <1>7, <1>13
    <3>2. \A c \in 1..2 : up[c] = p[2 + c]
      BY <3>1, UpperIs
    <3> QED
      BY <1>6, <3>1, <3>2
  <2> HIDE DEF low, up
  <2>7. Pushed(Machine, PushReg(Machine, r, 3), {} \cup A, 1)
    <3>1. r = SP /\ 3 = 1 => up = Lit(Bytes(Below(W(Machine, SP), 0 + 1), 2))
      OBVIOUS
    <3>2. StackWord(Machine, 1) = StackWord(Machine, 0 + 1)
      OBVIOUS
    <3>3. r # SP \/ 3 = 3 => \A c \in 1..2 : up[c] = <<"r", r, 3 + c - 1>>
      BY <2>6
    <3>4. Pushed(Machine, PushReg(Machine, r, 3), {} \cup A, 0 + 1)
      BY <1>2, <1>10, <1>11, <3>1, <3>2, <3>3, PushRegWord
    <3> QED
      BY <3>4
  <2>8. Pushed(Machine, l1, A, 1)
    BY <2>2, <2>7, WithNothing
  <2> HIDE DEF l1, A
  <2>9. Pushed(Machine, l, A \cup Copies(StackWord(Machine, 2), low), 2)
    BY <1>2, <1>8, <1>9, <1>11, <2>3, <2>8, PushRegWord
  <2>10. SPChange(Instr) \in Int /\ SPChange(Instr) + 2 * 2 = 0 /\ Instr.op # "LEA"
    BY <1>2, <1>4, <1>13
  <2>11. Pushed(Machine, l, moves, 2)
    BY <2>9
  <2> HIDE DEF l, moves
  <2> QED
    BY <1>1, <1>2, <1>5, <1>11, <2>5, <2>10, <2>11, PushedStep
<1> QED
  BY <1>3, <1>12, <1>13

\* Literals are pushed, the upper word first.
LEMMA PushLits ==
  ASSUME NEW m \in Machines, m.ret = "ok", NEW n \in {2, 4}, NEW lo \in Values(2), NEW hi \in Values(2),
         NEW k, k = IF n = 4 THEN Push(m, hi) ELSE m
  PROVE  Pushed(m, Push(k, lo), Copies(StackCells(m, -n), Lit(lo))
                                  \cup (IF n = 4 THEN Copies(StackCells(m, -2), Lit(hi)) ELSE {}), n \div 2)
<1>1. 2 \in 1..4 /\ 1 \in Nat /\ 2 \in Nat /\ 1 \in 0..7 /\ 1 + 1 = 2
  OBVIOUS
<1>2. DOMAIN StackWord(m, 1) = 1..2 /\ DOMAIN StackWord(m, 2) = 1..2
  BY <1>1, StackWordIs
<1>3. \A to : DOMAIN to = 1..2 => ~BadSrc(to, Lit(lo)) /\ ~BadSrc(to, Lit(hi))
  BY <1>1, LitIsGood
<1>4. \A b \in 1..2 : Cell(m, Lit(lo)[b]) = lo[b] /\ Cell(m, Lit(hi)[b]) = hi[b]
  BY <1>1, LitHolds
<1>5. CASE n = 2
  <2>1. Pushed(m, Push(m, lo), Copies(StackWord(m, 1), Lit(lo)), 1)
    BY <1>3, <1>4, FirstPushed
  <2>2. n \div 2 = 1 /\ -n = -2 /\ k = m /\ n # 4
    BY <1>5
  <2>3. StackCells(m, -n) = StackWord(m, 1)
    BY <2>2, FirstWords
  <2>4. Copies(StackWord(m, 1), Lit(lo)) \cup {} = Copies(StackWord(m, 1), Lit(lo))
    BY WithNothing
  <2> QED
    BY <2>1, <2>2, <2>3, <2>4
<1>6. CASE n = 4
  <2> DEFINE A == Copies(StackWord(m, 1), Lit(hi))
             B == Copies(StackWord(m, 2), Lit(lo))
  <2>1. Pushed(m, Push(m, hi), A, 1)
    BY <1>3, <1>4, FirstPushed
  <2>2. n \div 2 = 2 /\ -n = -4 /\ k = Push(m, hi) /\ n = 4
    BY <1>6
  <2> HIDE DEF A
  <2>3. ~BadSrc(StackWord(m, 2), Lit(lo))
    BY <1>2, <1>3
  <2>4. StackWord(m, 2) = StackWord(m, 1 + 1)
    OBVIOUS
  <2>5. Pushed(m, Push(k, lo), A \cup Copies(StackWord(m, 2), Lit(lo)), 1 + 1)
    BY <1>1, <1>4, <2>1, <2>2, <2>3, <2>4, PushWord
  <2>6. Pushed(m, Push(k, lo), B \cup A, 2)
    <3>1. A \cup B = B \cup A
      OBVIOUS
    <3> QED
      BY <2>5, <3>1
  <2>7. StackCells(m, -n) = StackWord(m, 2) /\ StackCells(m, -2) = StackWord(m, 1)
    BY <2>2, FirstWords
  <2> QED
    BY <2>2, <2>6, <2>7 DEF A
<1> QED
  BY <1>5, <1>6

\* PUSH of a literal word.
LEMMA PUSH_I_Keeps ==
  ASSUME Typed, PUSH_I
  PROVE  MovesInv'
<1> DEFINE n == Instr.size
           lo == Imm(Instr, 1, 2)
           hi == <<0, 0>>
           k == IF n = 4 THEN Push(Machine, hi) ELSE Machine
           moves == Copies(StackCells(Machine, -n), Lit(lo))
                      \cup (IF n = 4 THEN Copies(StackCells(Machine, -2), Lit(hi)) ELSE {})
<1>1. Runs("PUSH_I") /\ Done(Push(k, lo), 3)
  BY DEF PUSH_I, Wide
<1>2. /\ prog # <<>> /\ Instr.op = "PUSH_I" /\ Machine \in Machines /\ Machine.ret = "ok"
      /\ Instr \in Instructions
  BY <1>1, Starts
<1>3. n \in {2, 4}
  BY <1>1, NoByteForm DEF ByteForms
<1>4. 2 \in 1..4 /\ 1 \in Nat
  OBVIOUS
<1>5. lo \in Values(2)
  BY <1>2, <1>4, ImmType
<1>6. hi \in Values(2)
  BY DEF Values, Byte
<1>7. Moves(Machine, Instr) = moves
  BY <1>2 DEF Moves, MovesOf
<1>8. Length(Instr) = 2 /\ SPChange(Instr) = -n
  BY <1>2 DEF Length, SPChange
<1>9. 3 = Length(Instr) + 1 /\ Length(Instr) \in Nat /\ SPChange(Instr) \in Int /\ SPChange(Instr) + 2 * (n \div 2) = 0 /\ n \div 2 \in 0..8
  BY <1>3, <1>8
<1>10. Pushed(Machine, Push(k, lo), moves, n \div 2)
  <2>1. k = IF n = 4 THEN Push(Machine, hi) ELSE Machine
    OBVIOUS
  <2> HIDE DEF n, lo, hi, k
  <2> QED
    BY <1>2, <1>3, <1>5, <1>6, <2>1, PushLits
<1> HIDE DEF n, k, lo, moves
<1> QED
  BY <1>1, <1>2, <1>7, <1>9, <1>10, PushedStep

\* PUSH of a literal byte, with its sign.
LEMMA PUSH_I8_Keeps ==
  ASSUME Typed, PUSH_I8
  PROVE  MovesInv'
<1> DEFINE n == Instr.size
           x == At(Instr, 1)
           fill == IF x < 128 THEN 0 ELSE 255
           sign == IF x >= 128 THEN 255 ELSE 0
           v == Ext(Imm(Instr, 1, 1), 4, fill)
           lo == SubSeq(v, 1, 2)
           hi == SubSeq(v, 3, 4)
           k == IF n = 4 THEN Push(Machine, hi) ELSE Machine
           moves == Copies(StackCells(Machine, -n), Lit(lo))
                      \cup (IF n = 4 THEN Copies(StackCells(Machine, -2), Lit(hi)) ELSE {})
<1>1. Runs("PUSH_I8") /\ Done(Push(k, lo), 2)
  BY DEF PUSH_I8, Wide
<1>2. /\ prog # <<>> /\ Instr.op = "PUSH_I8" /\ Machine \in Machines /\ Machine.ret = "ok"
      /\ Instr \in Instructions
  BY <1>1, Starts
<1>3. n \in {2, 4}
  BY <1>1, NoByteForm DEF ByteForms
<1>4. 1 \in 1..4 /\ 1 \in Nat /\ 4 \in 1..4 /\ 1 + 1 - 1 = 1 /\ 1 \in 1..1
  OBVIOUS
<1>5. x \in Byte
  BY <1>2, <1>4, InstrIs
<1>6. fill = sign /\ sign \in Byte
  BY <1>5 DEF Byte
<1>7. Imm(Instr, 1, 1) \in Values(1) /\ Imm(Instr, 1, 1)[1] = x
  <2>1. \A b \in 1..1 : Imm(Instr, 1, 1)[b] = At(Instr, 1 + b - 1)
    BY <1>2, <1>4, ImmType
  <2> QED
    BY <1>2, <1>4, <2>1, ImmType
<1>8. Len(Imm(Instr, 1, 1)) = 1
  BY <1>4, <1>7, ValueIsSeq
<1>9. v = [b \in 1..4 |-> IF b = 1 THEN x ELSE sign]
  <2> HIDE DEF x, fill, sign
  <2>1. \A b \in 1..4 : (b <= Len(Imm(Instr, 1, 1))) <=> b = 1
    <3>1. \A b \in 1..4 : (b <= 1) <=> b = 1
      OBVIOUS
    <3> QED
      BY <1>8, <3>1
  <2> QED
    BY <1>6, <1>7, <2>1 DEF Ext
<1> HIDE DEF x, sign, fill, v
<1>10. v \in Values(4) /\ v[1] = x /\ v[2] = sign /\ v[3] = sign /\ v[4] = sign
  BY <1>5, <1>6, <1>9 DEF Values
<1>11. 1 \in 1..4 /\ 2 \in 1..4 /\ 3 \in 1..4 /\ 4 \in 3..4 /\ 2 - 1 + 1 = 2 /\ 4 - 3 + 1 = 2 /\ 1 \in 1..2 /\ 2 \in 1..2
       /\ 1 + 1 - 1 = 1 /\ 1 + 2 - 1 = 2 /\ 3 + 1 - 1 = 3 /\ 3 + 2 - 1 = 4 /\ 4 \in 1..4 /\ 2 \in 1..4
  OBVIOUS
<1>12. lo \in Values(2) /\ lo[1] = x /\ lo[2] = sign
  <2>1. /\ SubSeq(v, 1, 2) \in Values(2 - 1 + 1)
        /\ \A b \in 1 .. 2 - 1 + 1 : SubSeq(v, 1, 2)[b] = v[1 + b - 1]
    BY <1>10, <1>11, PartOfValue
  <2> QED
    BY <1>10, <1>11, <2>1
<1>13. hi \in Values(2) /\ hi[1] = sign /\ hi[2] = sign
  <2>1. /\ SubSeq(v, 3, 4) \in Values(4 - 3 + 1)
        /\ \A b \in 1 .. 4 - 3 + 1 : SubSeq(v, 3, 4)[b] = v[3 + b - 1]
    BY <1>10, <1>11, PartOfValue
  <2> QED
    BY <1>10, <1>11, <2>1
<1> HIDE DEF lo, hi
<1>14. lo = <<x, sign>> /\ hi = <<sign, sign>>
  <2>1. <<x, sign>> \in Values(2) /\ <<sign, sign>> \in Values(2)
    BY <1>5, <1>6 DEF Values
  <2>2. \A b \in 1..2 : lo[b] = <<x, sign>>[b] /\ hi[b] = <<sign, sign>>[b]
    BY <1>12, <1>13
  <2> QED
    BY <1>11, <1>12, <1>13, <2>1, <2>2, SameValue
<1>15. Moves(Machine, Instr) = Copies(StackCells(Machine, -n), Lit(<<x, sign>>))
                      \cup (IF n = 4 THEN Copies(StackCells(Machine, -2), Lit(<<sign, sign>>)) ELSE {})
  BY <1>2 DEF Moves, MovesOf, x, sign
<1>16. Moves(Machine, Instr) = moves
  BY <1>14, <1>15
<1>17. Length(Instr) = 1 /\ SPChange(Instr) = -n
  BY <1>2 DEF Length, SPChange
<1>18. 2 = Length(Instr) + 1 /\ Length(Instr) \in Nat /\ SPChange(Instr) \in Int /\ SPChange(Instr) + 2 * (n \div 2) = 0 /\ n \div 2 \in 0..8
  BY <1>3, <1>17
<1>19. Pushed(Machine, Push(k, lo), moves, n \div 2)
  <2>1. k = IF n = 4 THEN Push(Machine, hi) ELSE Machine
    OBVIOUS
  <2> HIDE DEF n, k
  <2> QED
    BY <1>2, <1>3, <1>12, <1>13, <2>1, PushLits
<1> HIDE DEF n, k, moves
<1> QED
  BY <1>1, <1>2, <1>16, <1>18, <1>19, PushedStep

\* The registers in the order in which PUSHA pushes them, and the first j of their moves.
File == <<0, 1, 2, 3, SP, BP, SI, DI>>
FirstOf(m, j) == UNION {Copies(StackWord(m, b), RegCells(File[b], 2)) : b \in 1..j}

\* The registers in the order PUSHA pushes them.
LEMMA FileIs ==
  /\ \A b \in 1..8 : File[b] \in Regs
  /\ File[1] = 0 /\ File[2] = 1 /\ File[3] = 2 /\ File[4] = BX /\ File[5] = SP /\ File[6] = BP
  /\ File[7] = SI /\ File[8] = DI
  /\ \A b \in 1..8 : b # 5 => File[b] # SP
BY DEF File, Regs, SP, BP, SI, DI, BX

\* Words of registers.
LEMMA RegWordIs ==
  ASSUME NEW r \in Regs
  PROVE  /\ DOMAIN RegCells(r, 2) = 1..2
         /\ \A c \in 1..2 : RegCells(r, 2)[c] = <<"r", r, c>> /\ RegCells(r, 2)[c] = <<"r", r, 1 + c - 1>>
<1>1. 2 \in {1, 2, 4} /\ 2 # 1 /\ \A c \in 1..2 : 1 + c - 1 = c
  OBVIOUS
<1>2. DOMAIN RegCells(r, 2) = 1..2 /\ \A c \in 1..2 : RegCells(r, 2)[c] = <<"r", r, c>>
  BY <1>1, RegCellsAre
<1> QED
  BY <1>1, <1>2

\* One more register pushed is one more word moved.
LEMMA FirstMore ==
  ASSUME NEW m, NEW j \in 0..7, NEW k, k = j + 1
  PROVE  /\ FirstOf(m, j) \cup Copies(StackWord(m, k), RegCells(File[k], 2)) = FirstOf(m, k)
         /\ FirstOf(m, 0) = {}
<1> DEFINE S(b) == Copies(StackWord(m, b), RegCells(File[b], 2))
<1>1. FirstOf(m, j) = UNION {S(b) : b \in 1..j} /\ FirstOf(m, k) = UNION {S(b) : b \in 1..k}
  BY DEF FirstOf
<1>2. \A b : b \in 1..k <=> b \in 1..j \/ b = k
  OBVIOUS
<1>3. FirstOf(m, 0) = {}
  BY DEF FirstOf
<1>4. S(k) = Copies(StackWord(m, k), RegCells(File[k], 2))
  OBVIOUS
<1> HIDE DEF S
<1>5. FirstOf(m, j) \cup S(k) = FirstOf(m, k)
  BY <1>1, <1>2
<1> QED
  BY <1>3, <1>4, <1>5

\* One register more.
LEMMA PushNext ==
  ASSUME NEW m \in Machines, NEW l, NEW j \in 0..7, j # 4, NEW k, k = j + 1,
         Pushed(m, l, FirstOf(m, j), j), NEW r, r = File[k]
  PROVE  Pushed(m, PushReg(l, r, 1), FirstOf(m, k), k)
<1>1. k \in 1..8 /\ k # 5 /\ 1 \in {1, 3}
  OBVIOUS
<1>2. r \in Regs /\ r # SP
  BY <1>1, FileIs
<1> DEFINE from == RegCells(r, 2)
<1>3. \A c \in 1..2 : from[c] = <<"r", r, 1 + c - 1>>
  BY <1>2, RegWordIs
<1> HIDE DEF from
<1>4. Pushed(m, PushReg(l, r, 1), FirstOf(m, j) \cup Copies(StackWord(m, k), from), j + 1)
  BY <1>1, <1>2, <1>3, PushRegWord
<1>5. FirstOf(m, j) \cup Copies(StackWord(m, k), from) = FirstOf(m, k)
  BY FirstMore DEF from
<1> QED
  BY <1>4, <1>5

\* What a word register holds.
LEMMA LowWordHas ==
  ASSUME NEW m \in Machines, NEW r \in Regs
  PROVE  /\ SubSeq(m.gpr[r], 1, 2) \in Values(2)
         /\ \A b \in 1..2 : SubSeq(m.gpr[r], 1, 2)[b] = Cell(m, RegCells(r, 2)[b])
<1>1. 2 \in {1, 2, 4} /\ 2 # 1
  OBVIOUS
<1>2. ReadReg(m, r, 2) = SubSeq(m.gpr[r], 1, 2)
  BY DEF ReadReg
<1>3. ReadReg(m, r, 2) \in Values(2) /\ \A b \in 1..2 : ReadReg(m, r, 2)[b] = Cell(m, RegCells(r, 2)[b])
  BY <1>1, ReadRegHas
<1> QED
  BY <1>2, <1>3

\* PUSHA.
LEMMA PUSH_A_Keeps ==
  ASSUME Typed, PUSH_A
  PROVE  MovesInv'
<1> DEFINE m == Machine
           l1 == PushReg(m, 0, 1)
           l2 == PushReg(l1, 1, 1)
           l3 == PushReg(l2, 2, 1)
           l4 == PushReg(l3, BX, 1)
           l5 == Push(l4, SubSeq(gpr[SP], 1, 2))
           l6 == PushReg(l5, BP, 1)
           l7 == PushReg(l6, SI, 1)
           l8 == PushReg(l7, DI, 1)
<1>1. Runs("PUSH_A") /\ Done(IF Wide(Instr) THEN Undefined ELSE l8, 1)
  BY DEF PUSH_A
<1>2. /\ prog # <<>> /\ Instr.op = "PUSH_A" /\ m \in Machines /\ m.ret = "ok" /\ m.gpr = gpr
  BY <1>1, Starts, MachineIs
<1>3. CASE Wide(Instr)
  BY <1>1, <1>2, <1>3, UndefinedStep DEF Done
<1>4. CASE ~Wide(Instr)
  <2>1. Done(l8, 1)
    BY <1>1, <1>4
  <2>2. Moves(m, Instr) = FirstOf(m, 8)
    BY <1>2 DEF Moves, MovesOf, FirstOf, File, StackWord
  <2> HIDE DEF m
  <2>3. /\ 0 \in 0..7 /\ 1 \in 0..7 /\ 2 \in 0..7 /\ 3 \in 0..7 /\ 4 \in 0..7 /\ 5 \in 0..7 /\ 6 \in 0..7 /\ 7 \in 0..7
        /\ 8 \in 0..8
        /\ 1 = 0 + 1 /\ 2 = 1 + 1 /\ 3 = 2 + 1 /\ 4 = 3 + 1 /\ 5 = 4 + 1 /\ 6 = 5 + 1 /\ 7 = 6 + 1 /\ 8 = 7 + 1
    OBVIOUS
  <2>4. Pushed(m, m, FirstOf(m, 0), 0)
    BY <1>2, <2>3, NonePushed, FirstMore
  <2>5. Pushed(m, l1, FirstOf(m, 1), 1)
    BY <1>2, <2>3, <2>4, FileIs, PushNext
  <2> HIDE DEF l1
  <2>6. Pushed(m, l2, FirstOf(m, 2), 2)
    BY <1>2, <2>3, <2>5, FileIs, PushNext
  <2> HIDE DEF l2
  <2>7. Pushed(m, l3, FirstOf(m, 3), 3)
    BY <1>2, <2>3, <2>6, FileIs, PushNext
  <2> HIDE DEF l3
  <2>8. Pushed(m, l4, FirstOf(m, 4), 4)
    BY <1>2, <2>3, <2>7, FileIs, PushNext
  <2> HIDE DEF l4
  <2>9. Pushed(m, l5, FirstOf(m, 5), 5)
    <3> DEFINE v == SubSeq(gpr[SP], 1, 2)
               from == RegCells(SP, 2)
    <3>1. SP \in Regs /\ File[5] = SP /\ 5 \in Nat
      BY FileIs
    <3>2. v \in Values(2) /\ \A b \in 1..2 : v[b] = Cell(m, from[b])
      BY <1>2, <3>1, LowWordHas
    <3>3. FirstOf(m, 4) \cup Copies(StackWord(m, 5), from) = FirstOf(m, 5)
      BY <2>3, <3>1, FirstMore
    <3>4. DOMAIN StackWord(m, 5) = 1..2
      BY <1>2, <3>1, StackWordIs
    <3>5. ~BadSrc(StackWord(m, 5), from)
      <4>1. \A b \in 1..2 : from[b][1] # "m"
        BY <3>1, RegWordIs
      <4> HIDE DEF from
      <4> QED
        BY <3>4, <4>1, GoodSrc
    <3>6. l5 = Push(l4, v) /\ StackWord(m, 5) = StackWord(m, 4 + 1)
      OBVIOUS
    <3> HIDE DEF v, from, l5
    <3>7. Pushed(m, Push(l4, v), FirstOf(m, 4) \cup Copies(StackWord(m, 5), from), 4 + 1)
      BY <1>2, <2>3, <2>8, <3>2, <3>5, <3>6, PushWord
    <3> QED
      BY <2>3, <3>3, <3>6, <3>7
  <2> HIDE DEF l5
  <2>10. Pushed(m, l6, FirstOf(m, 6), 6)
    BY <1>2, <2>3, <2>9, FileIs, PushNext
  <2> HIDE DEF l6
  <2>11. Pushed(m, l7, FirstOf(m, 7), 7)
    BY <1>2, <2>3, <2>10, FileIs, PushNext
  <2> HIDE DEF l7
  <2>12. Pushed(m, l8, FirstOf(m, 8), 8)
    BY <1>2, <2>3, <2>11, FileIs, PushNext
  <2>13. Length(Instr) = 0 /\ SPChange(Instr) = -16
    BY <1>2 DEF Length, SPChange
  <2>14. 1 = Length(Instr) + 1 /\ Length(Instr) \in Nat /\ SPChange(Instr) \in Int /\ SPChange(Instr) + 2 * 8 = 0
    BY <2>13
  <2> HIDE DEF l8
  <2> QED
    BY <1>2, <2>1, <2>2, <2>3, <2>12, <2>14, PushedStep DEF m
<1> QED
  BY <1>3, <1>4

\* PUSH of an operand, of which the upper half is read too.
LEMMA Unary_PUSH_Keeps ==
  ASSUME Typed, Unary_PUSH
  PROVE  MovesInv'
<1> DEFINE n == Instr.size
           x == ReadV(Machine, MemRef, n)
           cells == RefCells(MemRef, n)
           low == SubSeq(cells, 1, 2)
           v == SubSeq(x.v, 1, 2)
           l == IF x.ret = "ok" THEN Push(Machine, v) ELSE Failed(Machine, x.ret)
           to == StackWord(Machine, 1)
           A == {<<<<"x", c>>, c>> : c \in Range(Upper(cells))}
           B == Copies(to, low)
           moves == A \cup B
<1>1. Runs("PUSH_MX") /\ Done(l, MemRef.next)
  BY DEF Unary_PUSH
<1>2. /\ prog # <<>> /\ Instr.op = "PUSH_MX" /\ Machine \in Machines /\ Machine.ret = "ok" /\ IsRef(MemRef)
      /\ MemRef.next = ModRMLength(Instr) + 1 /\ ModRMLength(Instr) \in Nat
  BY <1>1, Starts
<1>3. n \in {2, 4}
  BY <1>1, NoByteForm DEF ByteForms
<1>4. n \in {1, 2, 4} /\ n \in 1..4 /\ n \in Nat /\ 1 \in 1..n /\ 2 \in 1..n /\ 2 \in Nat
      /\ \A b \in 1..2 : b \in 1..n
  BY <1>3
<1>5. DOMAIN cells = 1..n /\ IsCells(cells, n)
  BY <1>2, <1>4, RefCellsAre, RefCellsIs DEF IsCells
<1>6. HasRead(Machine, x, cells, cells) /\ x.v \in Values(n)
  BY <1>2, <1>4, <1>5, ReadVHas
<1>7. Moves(Machine, Instr) = Copies(StackCells(Machine, -2), low) \cup A
  BY <1>2 DEF Moves, MovesOf, MemRef
<1>8. Moves(Machine, Instr) = moves
  BY <1>7, FirstWords
<1>9. \A b \in 1..2 : low[b] = cells[b]
  <2>1. 1 \in 1..3 /\ 1 + 1 = 2 /\ \A b \in 1..2 : 1 + b - 1 = b
    OBVIOUS
  <2>2. \A b \in 1..2 : SubSeq(cells, 1, 1 + 1)[b] = cells[1 + b - 1]
    BY <2>1, PartOfCells
  <2> QED
    BY <2>1, <2>2
<1>10. v \in Values(2) /\ \A b \in 1..2 : v[b] = x.v[b]
  <2>1. 2 \in 1..n /\ 2 - 1 + 1 = 2 /\ \A b \in 1..2 : 1 + b - 1 = b
    BY <1>4
  <2>2. /\ SubSeq(x.v, 1, 2) \in Values(2 - 1 + 1)
        /\ \A b \in 1 .. 2 - 1 + 1 : SubSeq(x.v, 1, 2)[b] = x.v[1 + b - 1]
    BY <1>4, <1>6, <2>1, PartOfValue
  <2> QED
    BY <2>1, <2>2
<1>11. \A c \in Range(Upper(cells)) : \E b \in 1..n : c = cells[b]
  <2>1. CASE n = 2
    <3>1. Len(cells) = 2
      BY <1>4, <1>5, <2>1, LenOfCells
    <3>2. Upper(cells) = <<>>
      BY <3>1 DEF Upper
    <3>3. DOMAIN Upper(cells) = {}
      BY <3>2
    <3> QED
      BY <3>3 DEF Range
  <2>2. CASE n = 4
    <3>1. \A b \in 1..2 : Upper(cells)[b] = cells[2 + b] /\ 2 + b \in 1..n
      BY <1>5, <2>2, UpperIs
    <3>2. DOMAIN Upper(cells) = 1..2
      <4>1. Len(cells) = 4
        BY <1>4, <1>5, <2>2, LenOfCells
      <4>2. Upper(cells) = SubSeq(cells, 3, 4)
        BY <4>1 DEF Upper
      <4>3. \A b \in 3..4 : cells[b] \in {cells[j] : j \in 3..4}
        OBVIOUS
      <4>4. SubSeq(cells, 3, 4) \in Seq({cells[j] : j \in 3..4}) /\ Len(SubSeq(cells, 3, 4)) = 2
        BY <4>3, SubSeqProperties
      <4>5. DOMAIN SubSeq(cells, 3, 4) = 1..2
        BY <4>4, LenProperties
      <4> QED
        BY <4>2, <4>5
    <3> QED
      BY <3>1, <3>2 DEF Range
  <2> QED
    BY <1>3, <2>1, <2>2
<1>12. \A b \in 1..n : b > 2 => cells[b] \in Range(Upper(cells))
  <2>1. ASSUME NEW b \in 1..n, b > 2
        PROVE  cells[b] \in Range(Upper(cells))
    <3>1. n = 4 /\ b - 2 \in 1..2 /\ 2 + (b - 2) = b
      BY <1>3, <2>1
    <3>2. Upper(cells)[b - 2] = cells[b]
      BY <1>5, <3>1, UpperIs
    <3>3. DOMAIN Upper(cells) = 1..2
      <4>1. Len(cells) = 4
        BY <1>4, <1>5, <3>1, LenOfCells
      <4>2. Upper(cells) = SubSeq(cells, 3, 4)
        BY <4>1 DEF Upper
      <4>3. \A d \in 3..4 : cells[d] \in {cells[j] : j \in 3..4}
        OBVIOUS
      <4>4. SubSeq(cells, 3, 4) \in Seq({cells[j] : j \in 3..4}) /\ Len(SubSeq(cells, 3, 4)) = 2
        BY <4>3, SubSeqProperties
      <4>5. DOMAIN SubSeq(cells, 3, 4) = 1..2
        BY <4>4, LenProperties
      <4> QED
        BY <4>2, <4>5
    <3> QED
      BY <3>1, <3>2, <3>3 DEF Range
  <2> QED
    BY <2>1
<1> HIDE DEF x, cells, low, v
<1>13. \A c \in A : c[1][1] = "x" /\ \E b \in 1..n : c[2] = cells[b]
  <2>1. ASSUME NEW c, c \in A
        PROVE  c[1][1] = "x" /\ \E b \in 1..n : c[2] = cells[b]
    <3>1. PICK d \in Range(Upper(cells)) : c = <<<<"x", d>>, d>>
      BY <2>1
    <3>2. c[1] = <<"x", d>> /\ c[2] = d
      BY <3>1
    <3>3. c[1][1] = "x"
      BY <3>2
    <3> QED
      BY <1>11, <3>1, <3>2, <3>3
  <2> QED
    BY <2>1
<1>14. \A b \in 1..n : b > 2 => \E c \in A : c[2] = cells[b]
  <2>1. ASSUME NEW b \in 1..n, b > 2
        PROVE  \E c \in A : c[2] = cells[b]
    <3>1. <<<<"x", cells[b]>>, cells[b]>> \in A
      BY <1>12, <2>1
    <3>2. <<<<"x", cells[b]>>, cells[b]>>[2] = cells[b]
      OBVIOUS
    <3> QED
      BY <3>1, <3>2
  <2> QED
    BY <2>1
<1>15. DOMAIN to = 1..2
  <2>1. 1 \in Nat
    OBVIOUS
  <2> QED
    BY <1>2, <2>1, StackWordIs
<1> HIDE DEF to, A
<1>16. (Bad(moves) <=> Bad(A) \/ Bad(B)) /\ (Bad(B) <=> BadDst(to) \/ BadSrc(to, low))
  BY BothAre, CopiesAre
<1>17. x.ret = IF BadSrc(cells, cells) THEN "badmem" ELSE "ok"
  BY <1>6 DEF HasRead
<1>18. Exact(Machine, l, moves, -2)
  <2>1. CASE BadSrc(cells, cells)
    <3>1. PICK b \in 1..n : InMem(cells[b], holes)
      BY <1>5, <2>1 DEF BadSrc
    <3>2. Bad(moves)
      <4>1. CASE b > 2
        <5>1. Bad(A)
          BY <1>14, <3>1, <4>1 DEF Bad
        <5> QED
          BY <1>16, <5>1
      <4>2. CASE ~(b > 2)
        <5>1. b \in 1..2
          BY <4>2
        <5>2. BadSrc(to, low)
          BY <1>9, <1>15, <3>1, <5>1 DEF BadSrc
        <5> QED
          BY <1>16, <5>2
      <4> QED
        BY <4>1, <4>2
    <3>3. l = Failed(Machine, "badmem")
      BY <1>17, <2>1
    <3> HIDE DEF moves, l
    <3> QED
      BY <1>2, <3>2, <3>3, FailedExact
  <2>2. CASE ~BadSrc(cells, cells)
    <3>1. l = Push(Machine, v)
      BY <1>17, <2>2
    <3>2. \A b \in 1..n : ~InMem(cells[b], holes)
      BY <1>5, <2>2 DEF BadSrc
    <3>3. ~BadSrc(to, low)
      BY <1>4, <1>9, <1>15, <3>2 DEF BadSrc
    <3>4. ~Bad(A)
      <4>1. ASSUME NEW c, c \in A
            PROVE  ~InMem(c[1], holes \cup roms) /\ ~InMem(c[2], holes)
        <5>1. c[1][1] = "x" /\ \E b \in 1..n : c[2] = cells[b]
          BY <1>13, <4>1
        <5>2. ~InMem(c[1], holes \cup roms)
          BY <5>1 DEF InMem
        <5> QED
          BY <3>2, <5>1, <5>2
      <4> QED
        BY <4>1 DEF Bad
    <3>5. \A b \in 1..2 : v[b] = Cell(Machine, low[b])
      BY <1>4, <1>5, <1>6, <1>9, <1>10 DEF HasRead
    <3>6. Pushed(Machine, Push(Machine, v), {} \cup Copies(StackWord(Machine, 1), low), 1)
      <4>1. 0 \in 0..7 /\ 0 + 1 = 1
        OBVIOUS
      <4>2. Pushed(Machine, Machine, {}, 0)
        BY <1>2, NonePushed
      <4>3. ~BadSrc(StackWord(Machine, 1), low)
        BY <3>3 DEF to
      <4> QED
        BY <1>2, <1>10, <3>5, <4>1, <4>2, <4>3, PushWord
    <3>7. Pushed(Machine, l, B, 1)
      BY <3>1, <3>6, WithNothing DEF to
    <3>8. Exact(Machine, l, B, -2)
      <4>1. 1 \in 0..8 /\ -2 \in Int /\ -2 + 2 * 1 = 0
        OBVIOUS
      <4> HIDE DEF l, B
      <4> QED
        BY <1>2, <3>7, <4>1, PushedExact
    <3>9. \A c \in A : c[1][1] \in {"x", "p"}
      BY <1>13
    <3> HIDE DEF l, B
    <3> QED
      BY <3>4, <3>8, <3>9, ExactMore
  <2> QED
    BY <2>1, <2>2
<1>19. \A c \in moves : c[1][1] # "p"
  <2>1. ASSUME NEW c, c \in moves
        PROVE  c[1][1] # "p"
    <3>1. CASE c \in A
      <4>1. c[1][1] = "x"
        BY <1>13, <3>1
      <4> QED
        BY <4>1
    <3>2. CASE c \in B
      <4>1. PICK b \in DOMAIN to : c[1] = to[b]
        BY <3>2, CopiesAre
      <4>2. 1 \in Nat
        OBVIOUS
      <4>3. IsPlace(to[b])
        BY <1>2, <4>2, StackWordIs DEF to
      <4> QED
        BY <4>1, <4>3, PlaceIs
    <3> QED
      BY <2>1, <3>1, <3>2
  <2> QED
    BY <2>1
<1>20. Length(Instr) = ModRMLength(Instr) /\ SPChange(Instr) = -2
  BY <1>2 DEF Length, SPChange
<1>21. MemRef.next = Length(Instr) + 1 /\ Length(Instr) \in Nat
  BY <1>2, <1>20
<1> HIDE DEF l, moves
<1> QED
  BY <1>1, <1>2, <1>8, <1>18, <1>19, <1>20, <1>21, ExactStep

-----------------------------------------------------------------------------
(* Calls and far jumps.                                                    *)

\* Copies to places are none to IP.
LEMMA CopiesNoIP ==
  ASSUME NEW to, \A b \in DOMAIN to : IsPlace(to[b]), NEW from
  PROVE  \A c \in Copies(to, from) : c[1][1] # "p"
<1>1. ASSUME NEW c \in Copies(to, from)
      PROVE  c[1][1] # "p"
  <2>1. PICK b \in DOMAIN to : c[1] = to[b]
    BY CopiesAre
  <2>2. IsPlace(c[1])
    BY <2>1
  <2> QED
    BY <2>2, PlaceIs
<1> QED
  BY <1>1

\* A near call through an operand.
LEMMA Unary_CALL_N_Keeps ==
  ASSUME Typed, Unary_CALL_N
  PROVE  MovesInv'
<1> DEFINE x == ReadV(Machine, MemRef, 2)
           cells == RefCells(MemRef, 2)
           v == Bytes(After(MemRef.next), 2)
           l == IF x.ret = "ok" THEN Push(Machine, v) ELSE Failed(Machine, x.ret)
           A == Copies(IPCells, cells)
           B == Copies(StackWord(Machine, 1), Lit(v))
           moves == A \cup B
<1>1. Runs("CALL_N") /\ IF Wide(Instr) THEN Done(Undefined, 1) ELSE DoneAt(l, Num(x.v))
  BY DEF Unary_CALL_N
<1>2. /\ prog # <<>> /\ Instr.op = "CALL_N" /\ Machine \in Machines /\ Machine.ret = "ok" /\ IsRef(MemRef)
      /\ MemRef.next = ModRMLength(Instr) + 1 /\ ModRMLength(Instr) \in Nat
  BY <1>1, Starts
<1>3. CASE Wide(Instr)
  BY <1>1, <1>2, <1>3, UndefinedStep DEF Done
<1>4. CASE ~Wide(Instr)
  <2>1. DoneAt(l, Num(x.v))
    BY <1>1, <1>4
  <2>2. Length(Instr) = ModRMLength(Instr) /\ SPChange(Instr) = -2
    BY <1>2 DEF Length, SPChange
  <2>3. MemRef.next = Length(Instr) + 1 /\ Length(Instr) \in Nat
    BY <1>2, <2>2
  <2>4. /\ After(MemRef.next) = (Machine.ip + Instr.pre + Length(Instr)) % Word
        /\ After(MemRef.next) \in Offsets
    BY <1>2, <2>3, BehindIs
  <2>5. v \in Values(2)
    <3>1. After(MemRef.next) \in Nat /\ 2 \in 1..4
      BY <2>4 DEF Offsets
    <3> QED
      BY <3>1, BytesType
  <2>6. Moves(Machine, Instr)
          = A \cup Copies(StackCells(Machine, -2), Lit(Bytes((Machine.ip + Instr.pre + Length(Instr)) % Word, 2)))
    BY <1>2 DEF Moves, MovesOf, MemRef
  <2>7. Moves(Machine, Instr) = moves
    BY <2>4, <2>6, FirstWords
  <2>8. /\ DOMAIN IPCells = 1..2
        /\ Bad(A) <=> BadSrc(IPCells, cells)
        /\ \A c \in A : \E b \in 1..2 : c[1] = <<"p", b>> /\ c[1][1] = "p" /\ c[1][2] = b /\ c[2] = cells[b]
    BY IPCopies
  <2>9. HasRead(Machine, x, IPCells, cells) /\ x.v \in Values(2)
    BY <1>2, <2>8, ReadVHas
  <2> HIDE DEF x, cells, A, v
  <2>10. x.ret = IF Bad(A) THEN "badmem" ELSE "ok"
    BY <2>8, <2>9 DEF HasRead
  <2>11. \A to : DOMAIN to = 1..2 => ~BadSrc(to, Lit(v))
    <3>1. 2 \in 1..4
      OBVIOUS
    <3> QED
      BY <2>5, <3>1, LitIsGood
  <2>12. \A b \in 1..2 : v[b] = Cell(Machine, Lit(v)[b])
    <3>1. 2 \in 1..4
      OBVIOUS
    <3> QED
      BY <2>5, <3>1, LitHolds
  <2>13. Pushed(Machine, Push(Machine, v), B, 1)
    BY <1>2, <2>5, <2>11, <2>12, FirstPushed
  <2>14. Exact(Machine, l, moves, -2)
    <3>1. CASE Bad(A)
      <4>1. Bad(moves)
        <5> HIDE DEF B
        <5> QED
          BY <3>1, BothAre
      <4>2. l = Failed(Machine, "badmem")
        BY <2>10, <3>1
      <4> HIDE DEF l, moves
      <4> QED
        BY <1>2, <4>1, <4>2, FailedExact
    <3>2. CASE ~Bad(A)
      <4>1. l = Push(Machine, v)
        BY <2>10, <3>2
      <4>2. 1 \in 0..8 /\ -2 \in Int /\ -2 + 2 * 1 = 0
        OBVIOUS
      <4>3. Exact(Machine, l, B, -2)
        <5>1. Pushed(Machine, l, B, 1)
          BY <2>13, <4>1
        <5> HIDE DEF l, B
        <5> QED
          BY <1>2, <4>2, <5>1, PushedExact
      <4>4. \A c \in A : c[1][1] \in {"x", "p"}
        BY <2>8
      <4> HIDE DEF l, B
      <4> QED
        BY <3>2, <4>3, <4>4, ExactMore
    <3> QED
      BY <3>1, <3>2
  <2>15. Num(x.v) \in Offsets /\ Leads(Machine, Instr, Num(x.v), moves)
    <3>1. \A b \in 1..2 : x.v[b] = Cell(Machine, cells[b])
      BY <2>8, <2>9 DEF HasRead
    <3>2. \A c \in B : c[1][1] # "p"
      <4>1. 1 \in 0..8
        OBVIOUS
      <4> QED
        BY <1>2, <2>13, <4>1, PushedNoIP
    <3> HIDE DEF B
    <3>3. Num(x.v) \in Offsets /\ Leads(Machine, Instr, Num(x.v), Copies(IPCells, cells) \cup B)
      BY <2>9, <3>1, <3>2, IPLeads
    <3> QED
      BY <3>3 DEF A
  <2>16. Exact(Machine, l, moves, SPChange(Instr)) /\ Instr.op # "LEA"
    BY <1>2, <2>2, <2>14
  <2> HIDE DEF l, moves
  <2> QED
    BY <1>2, <2>1, <2>7, <2>15, <2>16, LeadStep
<1> QED
  BY <1>3, <1>4

\* A far pointer.
FarCells(m, e, k) == MemCells(Linear(Num(m.seg[e.seg]), e.ofs + k), 2)

\* A far pointer is an offset in the first word and a segment in the second.
LEMMA FarIs ==
  ASSUME Typed, NEW e, e.seg \in 0..5, e.ofs \in Nat, NEW f, f = FarAt(e)
  PROVE  /\ f.ret = IF BadSrc(IPCells, FarCells(Machine, e, 0)) \/ BadSrc(SegCells(1), FarCells(Machine, e, 2))
                    THEN "badmem" ELSE "ok"
         /\ \E v \in Values(2) : f.ip = Num(v) /\ \A b \in 1..2 : v[b] = Cell(Machine, FarCells(Machine, e, 0)[b])
         /\ f.cs \in Values(2) /\ \A b \in 1..2 : f.cs[b] = Cell(Machine, FarCells(Machine, e, 2)[b])
         /\ f.next = e.next
<1> DEFINE a0 == Linear(Num(seg[e.seg]), e.ofs)
           a2 == Linear(Num(seg[e.seg]), e.ofs + 2)
           x0 == MemRead(Machine, a0, 2)
           x2 == MemRead(Machine, a2, 2)
<1>1. Machine \in Machines /\ Machine.seg = seg
  BY MachineIs
<1>2. Num(seg[e.seg]) \in Offsets
  BY <1>1, Holding
<1>3. e.ofs \in Int /\ e.ofs + 2 \in Int /\ e.ofs + 0 = e.ofs
  OBVIOUS
<1>4. a0 \in Nat /\ a2 \in Nat
  BY <1>2, <1>3, LinearType
<1>5. FarCells(Machine, e, 0) = MemCells(a0, 2) /\ FarCells(Machine, e, 2) = MemCells(a2, 2)
  BY <1>1, <1>3 DEF FarCells
<1>6. /\ f.ret = IF x0.ret = "ok" THEN x2.ret ELSE x0.ret
      /\ f.ip = Num(x0.v) /\ f.cs = x2.v /\ f.next = e.next
  BY DEF FarAt
<1>7. DOMAIN IPCells = 1..2 /\ DOMAIN SegCells(1) = 1..2 /\ 2 \in 1..4
  BY IPCopies, SegCellsAre
<1> HIDE DEF a0, a2
<1>8. HasRead(Machine, x0, IPCells, MemCells(a0, 2)) /\ x0.v \in Values(2)
  BY <1>1, <1>4, <1>7, MemReadHas
<1>9. HasRead(Machine, x2, SegCells(1), MemCells(a2, 2)) /\ x2.v \in Values(2)
  BY <1>1, <1>4, <1>7, MemReadHas
<1> HIDE DEF x0, x2
<1>10. /\ x0.ret = IF BadSrc(IPCells, MemCells(a0, 2)) THEN "badmem" ELSE "ok"
       /\ \A b \in 1..2 : x0.v[b] = Cell(Machine, MemCells(a0, 2)[b])
  BY <1>7, <1>8 DEF HasRead
<1>11. /\ x2.ret = IF BadSrc(SegCells(1), MemCells(a2, 2)) THEN "badmem" ELSE "ok"
       /\ \A b \in 1..2 : x2.v[b] = Cell(Machine, MemCells(a2, 2)[b])
  BY <1>7, <1>9 DEF HasRead
<1> QED
  BY <1>5, <1>6, <1>8, <1>9, <1>10, <1>11

\* A segment register is loaded behind pushes.
LEMMA ExactSeg ==
  ASSUME NEW m \in Machines, NEW k, NEW B, NEW j \in 0..8, Pushed(m, k, B, j), NEW cs \in Values(2), NEW from,
         ~BadSrc(SegCells(1), from), \A b \in 1..2 : cs[b] = Cell(m, from[b]),
         NEW l, l = Then(k, [k EXCEPT !.seg[1] = cs]), NEW by \in Int, by + 2 * j = 0
  PROVE  Exact(m, l, Copies(SegCells(1), from) \cup B, by)
<1> DEFINE C == Copies(SegCells(1), from)
           all == C \cup B
           n == [k EXCEPT !.seg[1] = cs]
<1>1. /\ DOMAIN SegCells(1) = 1..2
      /\ \A b \in 1..2 : SegCells(1)[b] = <<"s", 1, b>> /\ SegCells(1)[b][1] = "s"
      /\ 1 \in 0..5
  BY SegCellsAre
<1>2. /\ Bad(C) <=> BadDst(SegCells(1)) \/ BadSrc(SegCells(1), from)
      /\ Dst(C) = CellsOf(SegCells(1))
      /\ \A c \in C : \E b \in DOMAIN SegCells(1) : c[1] = SegCells(1)[b] /\ c[2] = from[b]
  BY CopiesAre
<1>3. (Bad(all) <=> Bad(C) \/ Bad(B)) /\ Dst(all) = Dst(C) \cup Dst(B)
  BY BothAre
<1>4. \A c \in all : c \in C \/ c \in B
  OBVIOUS
<1> HIDE DEF C, all
<1>5. ~BadDst(SegCells(1))
  <2>1. \A b \in DOMAIN SegCells(1) : SegCells(1)[b][1] # "m"
    BY <1>1
  <2> QED
    BY <2>1, NoBadCells
<1>6. Bad(all) <=> Bad(B)
  BY <1>2, <1>3, <1>5
<1>7. Exact(m, k, B, by)
  BY PushedExact
<1>8. /\ k \in Machines /\ k.ret = IF Bad(B) THEN "badmem" ELSE "ok"
      /\ Frame(m, k, Dst(B) \cup CellsOf(SPCells))
      /\ k.ret = "ok" =>
           \A b \in 1..2 : SPCells[b] \in Dst(B) \/ k.gpr[SP][b] = Bytes((W(m, SP) + by) % Word, 2)[b]
  BY <1>7 DEF Exact
<1>9. CASE k.ret # "ok"
  <2>1. l = k
    BY <1>9 DEF Then
  <2>2. Dst(B) \cup CellsOf(SPCells) \subseteq Dst(all) \cup CellsOf(SPCells)
    BY <1>3
  <2>3. Frame(m, l, Dst(all) \cup CellsOf(SPCells))
    BY <1>8, <2>1, <2>2, FrameWider
  <2>4. Exact(m, l, all, by)
    BY <1>6, <1>8, <1>9, <2>1, <2>3 DEF Exact
  <2> QED
    BY <2>4 DEF all, C
<1>10. CASE k.ret = "ok"
  <2>1. l = n
    BY <1>10 DEF Then
  <2>2. /\ Wrote(k, n, SegCells(1), cs)
        /\ n.gpr = k.gpr /\ n.mem = k.mem /\ n.ret = k.ret
    BY <1>1, <1>8, SetSegWrote
  <2> HIDE DEF n
  <2>3. /\ n \in Machines /\ Frame(k, n, CellsOf(SegCells(1)))
        /\ \A b \in 1..2 : Cell(n, SegCells(1)[b]) = cs[b]
    BY <1>1, <1>5, <2>2 DEF Wrote
  <2>4. Frame(m, n, Dst(all) \cup CellsOf(SPCells))
    <3>1. Frame(m, n, (Dst(B) \cup CellsOf(SPCells)) \cup CellsOf(SegCells(1)))
      BY <1>8, <2>3, FrameJoin
    <3>2. (Dst(B) \cup CellsOf(SPCells)) \cup CellsOf(SegCells(1)) = Dst(all) \cup CellsOf(SPCells)
      BY <1>2, <1>3
    <3> QED
      BY <3>1, <3>2
  <2>5. ASSUME NEW c \in all
        PROVE  Cell(n, c[1]) = Cell(m, c[2])
    <3>1. CASE c \in C
      <4>1. PICK b \in 1..2 : c[1] = SegCells(1)[b] /\ c[2] = from[b]
        BY <1>1, <1>2, <3>1
      <4>2. Cell(n, c[1]) = cs[b]
        BY <2>3, <4>1
      <4> QED
        BY <4>1, <4>2
    <3>2. CASE c \in B
      <4>1. Cell(k, c[1]) = Cell(m, c[2])
        BY <1>10, <3>2 DEF Pushed
      <4>2. PICK q \in 1..j, b \in 1..2 : c[1] = StackWord(m, q)[b]
        BY <3>2 DEF Pushed
      <4>3. q \in Nat
        OBVIOUS
      <4>4. c[1] = <<"m", WordAt(m, q) + b - 1>>
        BY <4>2, <4>3, StackWordIs
      <4>5. Cell(n, c[1]) = Cell(k, c[1])
        BY <2>2, <4>4, CellIs DEF Peek
      <4> QED
        BY <4>1, <4>5
    <3> QED
      BY <1>4, <3>1, <3>2
  <2>6. \A b \in 1..2 : SPCells[b] \in Dst(all) \/ n.gpr[SP][b] = Bytes((W(m, SP) + by) % Word, 2)[b]
    <3>1. \A b \in 1..2 : SPCells[b] \in Dst(B) \/ k.gpr[SP][b] = Bytes((W(m, SP) + by) % Word, 2)[b]
      BY <1>8, <1>10
    <3> QED
      BY <1>3, <2>2, <3>1
  <2>7. n.ret = IF Bad(all) THEN "badmem" ELSE "ok"
    BY <1>6, <1>8, <2>2
  <2>8. Exact(m, n, all, by)
    BY <2>3, <2>4, <2>5, <2>6, <2>7 DEF Exact
  <2> QED
    BY <2>1, <2>8 DEF all, C
<1> QED
  BY <1>9, <1>10

\* A transfer through a far pointer, once all is pushed.
LEMMA FarStep ==
  ASSUME Typed, prog # <<>>, ~Wide(Instr), NEW e, e.seg \in 0..5, e.ofs \in Nat, NEW f, f = FarAt(e),
         NEW k, FarTransfer(f, k), NEW B, NEW j \in 0..8, Pushed(Machine, k, B, j),
         Moves(Machine, Instr) = Copies(IPCells, FarCells(Machine, e, 0))
                                   \cup (Copies(SegCells(1), FarCells(Machine, e, 2)) \cup B),
         SPChange(Instr) \in Int, SPChange(Instr) + 2 * j = 0, Instr.op # "LEA"
  PROVE  MovesInv'
<1> DEFINE far0 == FarCells(Machine, e, 0)
           far2 == FarCells(Machine, e, 2)
           A == Copies(IPCells, far0)
           C == Copies(SegCells(1), far2)
           CB == C \cup B
           moves == A \cup CB
           l == Then(k, [k EXCEPT !.seg[1] = f.cs])
           by == SPChange(Instr)
<1>1. Machine \in Machines /\ Machine.ret = "ok"
  BY MachineIs
<1>2. /\ f.ret = IF BadSrc(IPCells, far0) \/ BadSrc(SegCells(1), far2) THEN "badmem" ELSE "ok"
      /\ \E v \in Values(2) : f.ip = Num(v) /\ \A b \in 1..2 : v[b] = Cell(Machine, far0[b])
      /\ f.cs \in Values(2) /\ \A b \in 1..2 : f.cs[b] = Cell(Machine, far2[b])
  BY FarIs
<1>3. IF f.ret # "ok" THEN Done(Failed(Machine, f.ret), 1) ELSE DoneAt(l, f.ip)
  BY DEF FarTransfer
<1>4. Moves(Machine, Instr) = moves
  OBVIOUS
<1>5. Bad(A) <=> BadSrc(IPCells, far0)
  BY IPCopies
<1>6. \A c \in A : c[1][1] \in {"x", "p"}
  BY IPCopies
<1>7. /\ Bad(C) <=> BadDst(SegCells(1)) \/ BadSrc(SegCells(1), far2)
      /\ \A c \in C : \E b \in DOMAIN SegCells(1) : c[1] = SegCells(1)[b] /\ c[2] = far2[b]
  BY CopiesAre
<1>8. Bad(moves) <=> Bad(A) \/ Bad(C) \/ Bad(B)
  <2> HIDE DEF A, C
  <2>1. Bad(CB) <=> Bad(C) \/ Bad(B)
    BY BothAre
  <2> HIDE DEF CB
  <2>2. Bad(moves) <=> Bad(A) \/ Bad(CB)
    BY BothAre
  <2> QED
    BY <2>1, <2>2
<1>9. by \in Int /\ by + 2 * j = 0
  OBVIOUS
<1> HIDE DEF far0, far2
<1>10. CASE f.ret # "ok"
  <2>1. f.ret = "badmem"
    BY <1>2, <1>10
  <2>2. Bad(moves)
    BY <1>2, <1>5, <1>7, <1>8, <1>10
  <2>3. Exact(Machine, Failed(Machine, "badmem"), moves, by)
    <3> HIDE DEF moves
    <3> QED
      BY <1>1, <1>9, <2>2, FailedExact
  <2>4. Failed(Machine, "badmem").ret # "ok"
    BY <1>1, FailedIs
  <2>5. DoneAt(Failed(Machine, "badmem"), After(1))
    BY <1>3, <1>10, <2>1 DEF Done
  <2>6. Exact(Machine, Failed(Machine, "badmem"), moves, SPChange(Instr))
    BY <2>3
  <2> DEFINE q == Failed(Machine, "badmem")
  <2> HIDE DEF moves, q
  <2>7. DoneAt(q, After(1)) /\ q.ret # "ok" /\ Exact(Machine, q, moves, SPChange(Instr))
    BY <2>4, <2>5, <2>6 DEF q
  <2> QED
    BY <1>4, <2>7, LeadStep
<1>11. CASE f.ret = "ok"
  <2>1. DoneAt(l, f.ip)
    BY <1>3, <1>11
  <2>2. ~BadSrc(IPCells, far0) /\ ~BadSrc(SegCells(1), far2)
    BY <1>2, <1>11
  <2> DEFINE cs == f.cs
  <2>3. cs \in Values(2) /\ \A b \in 1..2 : cs[b] = Cell(Machine, far2[b])
    BY <1>2
  <2>4. l = Then(k, [k EXCEPT !.seg[1] = cs])
    OBVIOUS
  <2> HIDE DEF cs, l
  <2>5. Exact(Machine, l, C \cup B, by)
    BY <1>1, <1>9, <2>2, <2>3, <2>4, ExactSeg
  <2>6. ~Bad(A)
    BY <1>5, <2>2
  <2>7. \A c \in CB : c[1][1] # "p"
    <3>1. \A c \in B : c[1][1] # "p"
      BY <1>1, PushedNoIP
    <3>2. \A b \in DOMAIN SegCells(1) : SegCells(1)[b][1] = "s"
      BY SegCellsAre
    <3>3. ASSUME NEW c \in C
          PROVE  c[1][1] # "p"
      <4>1. PICK b \in DOMAIN SegCells(1) : c[1] = SegCells(1)[b]
        BY <1>7
      <4> QED
        BY <3>2, <4>1
    <3> HIDE DEF C
    <3> QED
      BY <3>1, <3>3
  <2>8. Exact(Machine, l, moves, by)
    <3>1. Exact(Machine, l, CB, by)
      BY <2>5
    <3> HIDE DEF A, CB
    <3> QED
      BY <1>6, <2>6, <3>1, ExactMore
  <2>9. PICK v \in Values(2) : f.ip = Num(v) /\ \A b \in 1..2 : v[b] = Cell(Machine, far0[b])
    BY <1>2
  <2>10. f.ip \in Offsets /\ Leads(Machine, Instr, f.ip, moves)
    <3> HIDE DEF CB
    <3>1. Num(v) \in Offsets /\ Leads(Machine, Instr, Num(v), Copies(IPCells, far0) \cup CB)
      BY <2>7, <2>9, IPLeads
    <3> QED
      BY <2>9, <3>1
  <2>11. Exact(Machine, l, moves, SPChange(Instr))
    BY <2>8
  <2> DEFINE to == f.ip
  <2>12. DoneAt(l, to) /\ to \in Offsets /\ Leads(Machine, Instr, to, moves)
    BY <2>1, <2>10
  <2> HIDE DEF moves, to
  <2> QED
    BY <1>4, <2>11, <2>12, LeadStep
<1> QED
  BY <1>10, <1>11

\* A far jump.
LEMMA Unary_JMP_F_Keeps ==
  ASSUME Typed, Unary_JMP_F
  PROVE  MovesInv'
<1> DEFINE e == GetMMM(Machine, Instr)
<1>1. Runs("JMP_F") /\ FarTransfer(FarPtr(Instr), Machine)
  BY DEF Unary_JMP_F
<1>2. /\ prog # <<>> /\ Instr.op = "JMP_F" /\ Machine \in Machines /\ Machine.ret = "ok"
      /\ Instr \in Instructions
  BY <1>1, Starts
<1>3. CASE Wide(Instr)
  BY <1>1, <1>2, <1>3, UndefinedStep DEF FarTransfer, Done
<1>4. CASE ~Wide(Instr) /\ Mod(Instr) = 3
  <2>1. FarPtr(Instr).ret = "undef"
    BY <1>4 DEF FarPtr
  <2>2. Done(Failed(Machine, "undef"), 1)
    BY <1>1, <1>4, <2>1 DEF FarTransfer
  <2> QED
    BY <1>2, <2>2, RefusedStep DEF Done
<1>5. CASE ~Wide(Instr) /\ Mod(Instr) # 3
  <2>1. e.seg \in 0..5 /\ e.ofs \in Nat
    BY <1>2, <1>5, AddressType
  <2>2. FarPtr(Instr) = FarAt(e)
    BY <1>5 DEF FarPtr
  <2>3. Moves(Machine, Instr) = Copies(IPCells, FarCells(Machine, e, 0)) \cup Copies(SegCells(1), FarCells(Machine, e, 2))
    BY <1>2 DEF Moves, MovesOf, FarCells
  <2>4. Moves(Machine, Instr) = Copies(IPCells, FarCells(Machine, e, 0))
                                   \cup (Copies(SegCells(1), FarCells(Machine, e, 2)) \cup {})
    BY <2>3, WithNothing
  <2>5. SPChange(Instr) \in Int /\ SPChange(Instr) + 2 * 0 = 0 /\ Instr.op # "LEA" /\ 0 \in 0..8
    <3>1. SPChange(Instr) = 0
      BY <1>2 DEF SPChange
    <3>2. 0 + 2 * 0 = 0 /\ 0 \in 0..8 /\ 0 \in Int
      OBVIOUS
    <3>3. Instr.op # "LEA"
      BY <1>2
    <3> QED
      BY <3>1, <3>2, <3>3
  <2>6. Pushed(Machine, Machine, {}, 0)
    BY <1>2, NonePushed
  <2>7. FarTransfer(FarAt(e), Machine)
    BY <1>1, <2>2
  <2> HIDE DEF e
  <2> QED
    BY <1>2, <1>5, <2>1, <2>4, <2>5, <2>6, <2>7, FarStep
<1> QED
  BY <1>3, <1>4, <1>5

\* A far call.
LEMMA Unary_CALL_F_Keeps ==
  ASSUME Typed, Unary_CALL_F
  PROVE  MovesInv'
<1> DEFINE e == GetMMM(Machine, Instr)
           f == FarPtr(Instr)
           v == Bytes(After(f.next), 2)
           k1 == Push(Machine, seg[1])
           k == Push(k1, v)
<1>1. Runs("CALL_F") /\ FarTransfer(f, k)
  BY DEF Unary_CALL_F
<1>2. /\ prog # <<>> /\ Instr.op = "CALL_F" /\ Machine \in Machines /\ Machine.ret = "ok"
      /\ Instr \in Instructions /\ ModRMLength(Instr) \in Nat /\ Machine.seg = seg
  BY <1>1, Starts, MachineIs
<1>3. CASE Wide(Instr)
  BY <1>1, <1>2, <1>3, UndefinedStep DEF FarTransfer, Done
<1>4. CASE ~Wide(Instr) /\ Mod(Instr) = 3
  <2>1. f.ret = "undef"
    BY <1>4 DEF FarPtr
  <2>2. Done(Failed(Machine, "undef"), 1)
    BY <1>1, <1>4, <2>1 DEF FarTransfer
  <2> QED
    BY <1>2, <2>2, RefusedStep DEF Done
<1>5. CASE ~Wide(Instr) /\ Mod(Instr) # 3
  <2>1. e.seg \in 0..5 /\ e.ofs \in Nat /\ e.next = ModRMLength(Instr) + 1
    BY <1>2, <1>5, AddressType
  <2>2. f = FarAt(e)
    BY <1>5 DEF FarPtr
  <2>3. f.next = ModRMLength(Instr) + 1
    BY <2>1, <2>2 DEF FarAt
  <2>4. Length(Instr) = ModRMLength(Instr) /\ SPChange(Instr) = -4
    BY <1>2 DEF Length, SPChange
  <2> HIDE DEF e
  <2>5. f.next = Length(Instr) + 1 /\ Length(Instr) \in Nat
    BY <1>2, <2>3, <2>4
  <2>6. /\ After(f.next) = (Machine.ip + Instr.pre + Length(Instr)) % Word
        /\ After(f.next) \in Offsets
    BY <1>2, <2>5, BehindIs
  <2>7. v \in Values(2)
    <3>1. After(f.next) \in Nat /\ 2 \in 1..4
      BY <2>6 DEF Offsets
    <3> QED
      BY <3>1, BytesType
  <2> DEFINE A == Copies(IPCells, FarCells(Machine, e, 0))
             C == Copies(SegCells(1), FarCells(Machine, e, 2))
             S == Copies(StackWord(Machine, 1), SegCells(1))
             R == Copies(StackWord(Machine, 2), Lit(v))
  <2>8. Moves(Machine, Instr)
          = A \cup C \cup Copies(StackCells(Machine, -2), SegCells(1))
              \cup Copies(StackCells(Machine, -4), Lit(Bytes((Machine.ip + Instr.pre + Length(Instr)) % Word, 2)))
    BY <1>2 DEF Moves, MovesOf, FarCells, e
  <2>9. Moves(Machine, Instr) = A \cup C \cup S \cup R
    BY <2>6, <2>8, FirstWords
  <2>10. /\ seg[1] \in Values(2)
         /\ \A b \in 1..2 : seg[1][b] = Cell(Machine, SegCells(1)[b])
         /\ \A to : DOMAIN to = 1..2 => ~BadSrc(to, SegCells(1))
    <3>1. 1 \in 0..5
      OBVIOUS
    <3> QED
      BY <1>2, <3>1, SegHas
  <2>11. Pushed(Machine, k1, S, 1)
    BY <1>2, <2>10, FirstPushed
  <2>12. FarTransfer(f, k)
    BY <1>1
  <2> HIDE DEF v, k1, f
  <2>13. Pushed(Machine, k, S \cup R, 2)
    <3>1. 1 \in 0..7 /\ 1 + 1 = 2 /\ 2 \in 1..4 /\ 2 \in Nat
      OBVIOUS
    <3>2. DOMAIN StackWord(Machine, 2) = 1..2
      BY <1>2, <3>1, StackWordIs
    <3>3. ~BadSrc(StackWord(Machine, 2), Lit(v)) /\ \A b \in 1..2 : v[b] = Cell(Machine, Lit(v)[b])
      BY <2>7, <3>1, <3>2, LitIsGood, LitHolds
    <3>4. StackWord(Machine, 2) = StackWord(Machine, 1 + 1)
      OBVIOUS
    <3> HIDE DEF S
    <3>5. Pushed(Machine, Push(k1, v), S \cup Copies(StackWord(Machine, 2), Lit(v)), 1 + 1)
      BY <1>2, <2>7, <2>11, <3>1, <3>3, <3>4, PushWord
    <3> QED
      BY <3>1, <3>5
  <2> HIDE DEF A, C, S, R, k
  <2>14. Moves(Machine, Instr) = A \cup (C \cup (S \cup R))
    <3>1. A \cup C \cup S \cup R = A \cup (C \cup (S \cup R))
      OBVIOUS
    <3> QED
      BY <2>9, <3>1
  <2>15. SPChange(Instr) \in Int /\ SPChange(Instr) + 2 * 2 = 0 /\ Instr.op # "LEA" /\ 2 \in 0..8
    BY <1>2, <2>4
  <2> DEFINE B == S \cup R
  <2>16. Moves(Machine, Instr) = A \cup (C \cup B) /\ Pushed(Machine, k, B, 2)
    BY <2>13, <2>14
  <2> HIDE DEF B
  <2> QED
    BY <1>2, <1>5, <2>1, <2>2, <2>12, <2>15, <2>16, FarStep DEF A, C
<1> QED
  BY <1>3, <1>4, <1>5

-----------------------------------------------------------------------------
(* Pops into registers.                                                    *)

\* A word is written to one half of a register.
HasHalf(k, n, r, b, v) ==
  \A q \in Regs, c \in 1..4 :
    n.gpr[q][c] = IF q = r /\ c = b THEN v[1] ELSE IF q = r /\ c = b + 1 THEN v[2] ELSE k.gpr[q][c]

\* SetHalf changes one half of one register.
LEMMA HalfIs ==
  ASSUME NEW k \in Machines, NEW r \in Regs, NEW b \in {1, 3}, NEW v \in Values(2)
  PROVE  LET n == SetHalf(k, r, b, v)
         IN  /\ n \in Machines /\ n.seg = k.seg /\ n.mem = k.mem /\ n.ip = k.ip /\ n.ret = k.ret
             /\ HasHalf(k, n, r, b, v)
<1> DEFINE x == [[k.gpr[r] EXCEPT ![b] = v[1]] EXCEPT ![b + 1] = v[2]]
           g == [k.gpr EXCEPT ![r] = x]
           n == [k EXCEPT !.gpr = g]
<1>1. v[1] \in Byte /\ v[2] \in Byte /\ b \in 1..4 /\ b + 1 \in 1..4 /\ b + 1 # b
  BY DEF Values
<1>2. k.gpr \in [Regs -> Values(4)] /\ k.gpr[r] \in Values(4)
  BY DEF Machines
<1>3. x \in Values(4) /\ \A c \in 1..4 : x[c] = IF c = b THEN v[1] ELSE IF c = b + 1 THEN v[2] ELSE k.gpr[r][c]
  BY <1>1, <1>2 DEF Values
<1>4. SetHalf(k, r, b, v) = n
  BY <1>1, <1>2 DEF SetHalf, Machines, Values
<1> HIDE DEF x
<1>5. g \in [Regs -> Values(4)] /\ \A q \in Regs : g[q] = IF q = r THEN x ELSE k.gpr[q]
  BY <1>2, <1>3
<1> HIDE DEF g
<1>6. n \in Machines /\ n.seg = k.seg /\ n.mem = k.mem /\ n.ip = k.ip /\ n.ret = k.ret /\ n.gpr = g
  BY <1>5 DEF Machines
<1> HIDE DEF n
<1>7. ASSUME NEW q \in Regs, NEW c \in 1..4
      PROVE  n.gpr[q][c] = IF q = r /\ c = b THEN v[1] ELSE IF q = r /\ c = b + 1 THEN v[2] ELSE k.gpr[q][c]
  BY <1>3, <1>5, <1>6
<1> QED
  BY <1>4, <1>6, <1>7 DEF HasHalf

\* The cells of that half.
IsHalf(to, r, b) == DOMAIN to = 1..2 /\ \A c \in 1..2 : to[c] = <<"r", r, b + c - 1>>

\* Those cells are two, they are places, and they can be written.
LEMMA HalfCellsAre ==
  ASSUME NEW r \in Regs, NEW b \in {1, 3}, NEW to, IsHalf(to, r, b)
  PROVE  /\ DOMAIN to = 1..2 /\ to[1] = <<"r", r, b>> /\ to[2] = <<"r", r, b + 1>>
         /\ \A c \in 1..2 : to[c][1] = "r" /\ IsPlace(to[c])
         /\ CellsOf(to) = {<<"r", r, b>>, <<"r", r, b + 1>>}
         /\ ~BadDst(to)
<1>1. b + 1 - 1 = b /\ b + 2 - 1 = b + 1 /\ b \in 1..4 /\ b + 1 \in 1..4 /\ 1 \in 1..2 /\ 2 \in 1..2
      /\ \A c \in 1..2 : c = 1 \/ c = 2
  OBVIOUS
<1>2. DOMAIN to = 1..2 /\ to[1] = <<"r", r, b>> /\ to[2] = <<"r", r, b + 1>>
  BY <1>1 DEF IsHalf
<1>3. to[1][1] = "r" /\ to[2][1] = "r"
  BY <1>2
<1>4. IsPlace(to[1]) /\ IsPlace(to[2])
  BY <1>1, <1>2 DEF IsPlace
<1>5. CellsOf(to) = {<<"r", r, b>>, <<"r", r, b + 1>>}
  BY <1>1, <1>2 DEF CellsOf
<1>6. \A c \in DOMAIN to : to[c][1] # "m"
  BY <1>1, <1>2, <1>3
<1>7. ~BadDst(to)
  BY <1>6, NoBadCells
<1> QED
  BY <1>1, <1>2, <1>3, <1>4, <1>5, <1>7

\* SetHalf writes the cells of that half and no other.
LEMMA HalfWrote ==
  ASSUME NEW k \in Machines, NEW r \in Regs, NEW b \in {1, 3}, NEW v \in Values(2), NEW to, IsHalf(to, r, b)
  PROVE  Wrote(k, SetHalf(k, r, b, v), to, v)
<1> DEFINE n == SetHalf(k, r, b, v)
<1>1. /\ n \in Machines /\ n.seg = k.seg /\ n.mem = k.mem /\ n.ip = k.ip /\ n.ret = k.ret
      /\ HasHalf(k, n, r, b, v)
  BY HalfIs
<1> HIDE DEF n
<1>2. /\ DOMAIN to = 1..2 /\ to[1] = <<"r", r, b>> /\ to[2] = <<"r", r, b + 1>>
      /\ CellsOf(to) = {<<"r", r, b>>, <<"r", r, b + 1>>}
      /\ ~BadDst(to)
  BY HalfCellsAre
<1>3. b \in 1..4 /\ b + 1 \in 1..4 /\ b + 1 # b
  OBVIOUS
<1>4. Frame(k, n, CellsOf(to))
  <2>1. ASSUME NEW q \in Regs, NEW c \in 1..4
        PROVE  n.gpr[q][c] = k.gpr[q][c] \/ <<"r", q, c>> \in CellsOf(to)
    BY <1>1, <1>2 DEF HasHalf
  <2>2. \A a : Peek(n, a) = Peek(k, a)
    BY <1>1 DEF Peek
  <2> QED
    BY <1>1, <2>1, <2>2 DEF Frame
<1>5. Cell(n, to[1]) = n.gpr[r][b] /\ Cell(n, to[2]) = n.gpr[r][b + 1]
  BY <1>2, CellIs
<1>6. n.gpr[r][b] = v[1] /\ n.gpr[r][b + 1] = v[2]
  BY <1>1, <1>3 DEF HasHalf
<1>7. \A c \in 1..2 : Cell(n, to[c]) = v[c]
  BY <1>5, <1>6
<1> QED
  BY <1>1, <1>2, <1>4, <1>7 DEF Wrote, n

\* What a pop does, in three cases.
LEMMA PopRegIs ==
  ASSUME NEW m, NEW r, NEW b, NEW x, x = MemRead(m, StackTop(m), 2)
  PROVE  /\ m.ret # "ok" => PopReg(m, r, b) = m
         /\ m.ret = "ok" => PopReg(m, r, b) = IF x.ret = "ok" THEN SetHalf(SPMoved(m, 2), r, b, x.v)
                                              ELSE Failed(m, x.ret)
<1>1. PopReg(m, r, b) = PopTo(m, x, r, b)
  BY DEF PopReg
<1> QED
  BY <1>1 DEF PopTo, Then

\* A pop into a register leaves a machine, stopped by bad memory or not at all.
LEMMA PopRegType ==
  ASSUME NEW m \in Machines, m.ret \in {"ok", "badmem"}, NEW r \in Regs, NEW b \in {1, 3}
  PROVE  PopReg(m, r, b) \in Machines /\ PopReg(m, r, b).ret \in {"ok", "badmem"}
<1> DEFINE x == MemRead(m, StackTop(m), 2)
           k == SPMoved(m, 2)
<1>1. DOMAIN SPCells = 1..2 /\ 2 \in Int
  <2>1. SP \in Regs /\ 2 \in {1, 2, 4}
    BY SPCellsAre
  <2> QED
    BY <2>1, RegCellsAre DEF SPCells
<1>2. HasRead(m, x, SPCells, StackCells(m, 0)) /\ x.v \in Values(2)
  BY <1>1, TopHas
<1>3. k \in Machines /\ k.ret = m.ret
  BY <1>1, SPMovedIs
<1>4. x.ret \in {"ok", "badmem"}
  BY <1>2 DEF HasRead
<1>5. /\ m.ret # "ok" => PopReg(m, r, b) = m
      /\ m.ret = "ok" => PopReg(m, r, b) = IF x.ret = "ok" THEN SetHalf(k, r, b, x.v) ELSE Failed(m, x.ret)
  BY PopRegIs
<1> HIDE DEF x, k
<1>6. SetHalf(k, r, b, x.v) \in Machines /\ SetHalf(k, r, b, x.v).ret = k.ret
  BY <1>2, <1>3, HalfIs
<1>7. /\ Failed(m, x.ret) \in Machines /\ Failed(m, x.ret).ret = x.ret
  BY <1>4, FailedIs
<1> QED
  BY <1>3, <1>4, <1>5, <1>6, <1>7

\* l is m after j words are popped into registers other than SP.
Above(x, j) == (x + 2 * j) % Word
Popped(m, l, moves, j) ==
  /\ l \in Machines /\ l.ip = m.ip /\ l.seg = m.seg /\ l.mem = m.mem
  /\ l.ret = IF Bad(moves) THEN "badmem" ELSE "ok"
  /\ Frame(m, l, Dst(moves) \cup CellsOf(SPCells))
  /\ \A c \in moves : \E r \in Regs, b \in 1..4 : r # SP /\ c[1] = <<"r", r, b>>
  /\ l.ret = "ok" =>
       /\ \A c \in moves : Cell(l, c[1]) = Cell(m, c[2])
       /\ W(l, SP) = Above(W(m, SP), j)

\* Before the first pop nothing has moved.
LEMMA NonePopped ==
  ASSUME NEW m \in Machines, m.ret = "ok"
  PROVE  Popped(m, m, {}, 0)
<1>1. ~Bad({}) /\ Dst({}) = {}
  BY DEF Bad, Dst
<1>2. Frame(m, m, {})
  BY SameFrame
<1>3. Frame(m, m, Dst({}) \cup CellsOf(SPCells))
  BY <1>2, FrameWider
<1>4. W(m, SP) \in Offsets
  <2>1. SP \in Regs
    BY DEF SP, Regs
  <2> QED
    BY <2>1, Holding
<1>5. W(m, SP) = Above(W(m, SP), 0)
  BY <1>4, SMT DEF Above, Offsets, Word
<1> QED
  BY <1>1, <1>3, <1>5 DEF Popped

\* A pop moves SP to the next word, with the wrap at 65536.
LEMMA OneAbove ==
  ASSUME NEW x \in Offsets, NEW j \in 0..7
  PROVE  /\ (Above(x, j) + 2) % Word = Above(x, j + 1)
         /\ (Above(x, j) + 0) % Word = Above(x, j)
  BY SMT DEF Above, Offsets, Word

\* What is on top then.
LEMMA TopAbove ==
  ASSUME NEW m \in Machines, NEW l \in Machines, l.seg = m.seg, NEW j \in 0..7, W(l, SP) = Above(W(m, SP), j)
  PROVE  StackCells(l, 0) = StackCells(m, 2 * j)
<1>1. SP \in Regs
  BY DEF SP, Regs
<1>2. W(m, SP) \in Offsets
  BY <1>1, Holding
<1>3. (W(l, SP) + 0) % Word = (W(m, SP) + 2 * j) % Word
  BY <1>2, OneAbove DEF Above
<1>4. StackCells(l, 0) = MemCells(Linear(Num(l.seg[SS]), (W(l, SP) + 0) % Word), 2)
  BY DEF StackCells
<1>5. StackCells(m, 2 * j) = MemCells(Linear(Num(m.seg[SS]), (W(m, SP) + 2 * j) % Word), 2)
  BY DEF StackCells
<1> QED
  BY <1>3, <1>4, <1>5

\* SP is never among the registers.
LEMMA NotSP ==
  ASSUME NEW m, NEW l, NEW moves, NEW j, Popped(m, l, moves, j)
  PROVE  \A c \in moves : c[1] \notin CellsOf(SPCells) /\ c[1][1] = "r" /\ IsPlace(c[1])
<1>1. ASSUME NEW c \in moves
      PROVE  c[1] \notin CellsOf(SPCells) /\ c[1][1] = "r" /\ IsPlace(c[1])
  <2>1. PICK r \in Regs, b \in 1..4 : r # SP /\ c[1] = <<"r", r, b>>
    BY DEF Popped
  <2>2. c[1] # <<"r", SP, 1>> /\ c[1] # <<"r", SP, 2>>
    BY <2>1
  <2>3. c[1][1] = "r"
    BY <2>1
  <2>4. IsPlace(c[1])
    BY <2>1 DEF IsPlace
  <2> QED
    BY <2>2, <2>3, <2>4, SPCellsAre
<1> QED
  BY <1>1

\* One more word is popped.
LEMMA PopWord ==
  ASSUME NEW m \in Machines, NEW l, NEW moves, NEW j \in 0..7, Popped(m, l, moves, j),
         NEW r \in Regs, r # SP, NEW b \in {1, 3}, NEW to, IsHalf(to, r, b),
         \A c \in moves, d \in 1..2 : c[1] # to[d], NEW from, from = StackCells(m, 2 * j)
  PROVE  Popped(m, PopReg(l, r, b), moves \cup Copies(to, from), j + 1)
<1> DEFINE new == Copies(to, from)
           all == moves \cup new
           x == MemRead(l, StackTop(l), 2)
           k == SPMoved(l, 2)
           n == SetHalf(k, r, b, x.v)
<1>1. /\ Bad(new) <=> BadDst(to) \/ BadSrc(to, from)
      /\ Dst(new) = CellsOf(to)
      /\ \A c \in new : \E d \in DOMAIN to : c[1] = to[d] /\ c[2] = from[d]
  BY CopiesAre
<1>2. (Bad(all) <=> Bad(moves) \/ Bad(new)) /\ Dst(all) = Dst(moves) \cup Dst(new)
  BY BothAre
<1>3. \A c \in all : c \in moves \/ c \in new
  OBVIOUS
<1> HIDE DEF new, all
<1>4. /\ l \in Machines /\ l.ip = m.ip /\ l.seg = m.seg /\ l.mem = m.mem
      /\ l.ret = IF Bad(moves) THEN "badmem" ELSE "ok"
      /\ Frame(m, l, Dst(moves) \cup CellsOf(SPCells))
      /\ \A c \in moves : \E q \in Regs, d \in 1..4 : q # SP /\ c[1] = <<"r", q, d>>
      /\ l.ret = "ok" =>
           /\ \A c \in moves : Cell(l, c[1]) = Cell(m, c[2])
           /\ W(l, SP) = Above(W(m, SP), j)
  BY DEF Popped
<1>5. /\ DOMAIN to = 1..2 /\ to[1] = <<"r", r, b>> /\ to[2] = <<"r", r, b + 1>>
      /\ \A c \in 1..2 : to[c][1] = "r" /\ IsPlace(to[c])
      /\ CellsOf(to) = {<<"r", r, b>>, <<"r", r, b + 1>>}
      /\ ~BadDst(to)
  BY HalfCellsAre
<1>6. b \in 1..4 /\ b + 1 \in 1..4 /\ 2 \in Int
  OBVIOUS
<1>7. \A c \in all : \E q \in Regs, d \in 1..4 : q # SP /\ c[1] = <<"r", q, d>>
  <2>1. ASSUME NEW c \in new
        PROVE  \E q \in Regs, d \in 1..4 : q # SP /\ c[1] = <<"r", q, d>>
    <3>1. c[1] = to[1] \/ c[1] = to[2]
      BY <1>1, <1>5
    <3> QED
      BY <1>5, <1>6, <3>1
  <2> QED
    BY <1>3, <1>4, <2>1
<1>8. /\ l.ret # "ok" => PopReg(l, r, b) = l
      /\ l.ret = "ok" => PopReg(l, r, b) = IF x.ret = "ok" THEN n ELSE Failed(l, x.ret)
  BY PopRegIs
<1>9. Frame(m, l, Dst(all) \cup CellsOf(SPCells))
  <2>1. Dst(moves) \cup CellsOf(SPCells) \subseteq Dst(all) \cup CellsOf(SPCells)
    BY <1>2
  <2> QED
    BY <1>4, <2>1, FrameWider
<1>10. CASE l.ret # "ok"
  <2>1. PopReg(l, r, b) = l
    BY <1>8, <1>10
  <2>2. l.ret = "badmem" /\ Bad(all)
    BY <1>2, <1>4, <1>10
  <2>3. Popped(m, l, all, j + 1)
    BY <1>4, <1>7, <1>9, <1>10, <2>2 DEF Popped
  <2> QED
    BY <2>1, <2>3 DEF all, new
<1>11. CASE l.ret = "ok"
  <2>1. ~Bad(moves)
    BY <1>4, <1>11
  <2>2. StackCells(l, 0) = from
    BY <1>4, <1>11, TopAbove
  <2>3. HasRead(l, x, to, from) /\ x.v \in Values(2)
    BY <1>4, <1>5, <2>2, TopHas
  <2>4. x.ret = IF BadSrc(to, from) THEN "badmem" ELSE "ok"
    BY <2>3 DEF HasRead
  <2>5. CASE x.ret # "ok"
    <3>1. PopReg(l, r, b) = Failed(l, "badmem")
      BY <1>8, <1>11, <2>4, <2>5
    <3> DEFINE f == Failed(l, "badmem")
    <3>2. /\ f \in Machines /\ f.gpr = l.gpr /\ f.seg = l.seg /\ f.mem = l.mem /\ f.ip = l.ip
          /\ f.ret = "badmem"
      BY <1>4, FailedIs
    <3> HIDE DEF f
    <3>3. Bad(all)
      BY <1>1, <1>2, <2>4, <2>5
    <3>4. Frame(m, f, Dst(all) \cup CellsOf(SPCells))
      <4>1. Frame(l, f, {})
        BY <3>2, SameFrame
      <4>2. Frame(m, f, (Dst(all) \cup CellsOf(SPCells)) \cup {})
        BY <1>9, <4>1, FrameJoin
      <4>3. (Dst(all) \cup CellsOf(SPCells)) \cup {} = Dst(all) \cup CellsOf(SPCells)
        OBVIOUS
      <4> QED
        BY <4>2, <4>3
    <3>5. Popped(m, f, all, j + 1)
      BY <1>4, <1>7, <3>2, <3>3, <3>4 DEF Popped
    <3> QED
      BY <3>1, <3>5 DEF f, all, new
  <2>6. CASE x.ret = "ok"
    <3>1. PopReg(l, r, b) = n
      BY <1>8, <1>11, <2>6
    <3>2. ~Bad(all)
      BY <1>1, <1>2, <1>5, <2>1, <2>4, <2>6
    <3>3. /\ k \in Machines /\ k.seg = l.seg /\ k.mem = l.mem /\ k.ip = l.ip /\ k.ret = l.ret
          /\ W(k, SP) = (W(l, SP) + 2) % Word
          /\ Frame(l, k, CellsOf(SPCells))
      BY <1>4, <1>6, SPMovedIs
    <3> HIDE DEF x, k
    <3>4. Wrote(k, n, to, x.v) /\ n \in Machines /\ n.seg = k.seg /\ n.mem = k.mem /\ n.ip = k.ip /\ n.ret = k.ret
          /\ HasHalf(k, n, r, b, x.v)
      BY <2>3, <3>3, HalfIs, HalfWrote
    <3> HIDE DEF n
    <3>5. Frame(k, n, CellsOf(to)) /\ \A d \in 1..2 : Cell(n, to[d]) = x.v[d]
      BY <1>5, <3>4 DEF Wrote
    <3>6. Frame(m, n, Dst(all) \cup CellsOf(SPCells))
      <4>1. Frame(m, k, (Dst(moves) \cup CellsOf(SPCells)) \cup CellsOf(SPCells))
        BY <1>4, <3>3, FrameJoin
      <4>2. Frame(m, n, ((Dst(moves) \cup CellsOf(SPCells)) \cup CellsOf(SPCells)) \cup CellsOf(to))
        BY <3>5, <4>1, FrameJoin
      <4>3. ((Dst(moves) \cup CellsOf(SPCells)) \cup CellsOf(SPCells)) \cup CellsOf(to) = Dst(all) \cup CellsOf(SPCells)
        BY <1>1, <1>2
      <4> QED
        BY <4>2, <4>3
    <3>7. W(n, SP) = Above(W(m, SP), j + 1)
      <4>1. SP \in Regs /\ 1 \in 1..4 /\ 2 \in 1..4
        BY DEF SP, Regs
      <4>2. n.gpr[SP][1] = k.gpr[SP][1] /\ n.gpr[SP][2] = k.gpr[SP][2]
        BY <3>4, <4>1 DEF HasHalf
      <4>3. W(n, SP) = W(k, SP)
        BY <4>2 DEF W, Num
      <4>4. W(m, SP) \in Offsets
        BY <4>1, Holding
      <4> QED
        BY <1>4, <1>11, <3>3, <4>3, <4>4, OneAbove
    <3>8. ASSUME NEW c \in all
          PROVE  Cell(n, c[1]) = Cell(m, c[2])
      <4>1. CASE c \in new
        <5>1. PICK d \in 1..2 : c[1] = to[d] /\ c[2] = from[d]
          BY <1>1, <1>5, <4>1
        <5>2. Cell(n, c[1]) = x.v[d]
          BY <3>5, <5>1
        <5>3. x.v[d] = Cell(l, from[d])
          BY <1>5, <2>3 DEF HasRead
        <5>4. Cell(l, from[d]) = Cell(m, from[d])
          <6>1. 2 * j \in Int
            OBVIOUS
          <6> DEFINE a == Linear(Num(m.seg[SS]), (W(m, SP) + 2 * j) % Word) + d - 1
          <6>2. from[d] = <<"m", a>>
            BY DEF StackCells, MemCells
          <6> HIDE DEF a
          <6>3. Cell(l, <<"m", a>>) = Peek(l, a) /\ Cell(m, <<"m", a>>) = Peek(m, a)
            BY CellIs
          <6>4. Peek(l, a) = Peek(m, a)
            BY <1>4 DEF Peek
          <6> QED
            BY <6>2, <6>3, <6>4
        <5> QED
          BY <5>1, <5>2, <5>3, <5>4
      <4>2. CASE c \in moves
        <5>1. c[1] \notin CellsOf(SPCells) /\ IsPlace(c[1])
          BY <4>2, NotSP
        <5>2. c[1] \notin CellsOf(to)
          <6>1. c[1] # to[1] /\ c[1] # to[2]
            BY <4>2
          <6> QED
            BY <1>5, <6>1
        <5>3. Cell(n, c[1]) = Cell(k, c[1])
          BY <3>5, <5>1, <5>2, PlaceIs
        <5>4. Cell(k, c[1]) = Cell(l, c[1])
          BY <3>3, <5>1, PlaceIs
        <5>5. Cell(l, c[1]) = Cell(m, c[2])
          BY <1>4, <1>11, <4>2
        <5> QED
          BY <5>3, <5>4, <5>5
      <4> QED
        BY <1>3, <4>1, <4>2
    <3>9. n.ip = m.ip /\ n.seg = m.seg /\ n.mem = m.mem /\ n.ret = "ok"
      BY <1>4, <1>11, <3>3, <3>4
    <3>10. Popped(m, n, all, j + 1)
      BY <1>7, <3>2, <3>4, <3>6, <3>7, <3>8, <3>9 DEF Popped
    <3> QED
      BY <3>1, <3>10 DEF all, new
  <2> QED
    BY <2>5, <2>6
<1> QED
  BY <1>10, <1>11

\* A word is passed over.
LEMMA PopSkip ==
  ASSUME NEW m \in Machines, NEW l, NEW moves, NEW j \in 0..7, Popped(m, l, moves, j),
         NEW n, n = Then(l, SPMoved(l, 2))
  PROVE  Popped(m, n, moves, j + 1)
<1>1. /\ l \in Machines /\ l.ip = m.ip /\ l.seg = m.seg /\ l.mem = m.mem
      /\ l.ret = IF Bad(moves) THEN "badmem" ELSE "ok"
      /\ Frame(m, l, Dst(moves) \cup CellsOf(SPCells))
      /\ \A c \in moves : \E q \in Regs, d \in 1..4 : q # SP /\ c[1] = <<"r", q, d>>
      /\ l.ret = "ok" =>
           /\ \A c \in moves : Cell(l, c[1]) = Cell(m, c[2])
           /\ W(l, SP) = Above(W(m, SP), j)
  BY DEF Popped
<1>2. CASE l.ret # "ok"
  <2>1. n = l
    BY <1>2 DEF Then
  <2>2. Popped(m, l, moves, j + 1)
    BY <1>1, <1>2 DEF Popped
  <2> QED
    BY <2>1, <2>2
<1>3. CASE l.ret = "ok"
  <2>1. n = SPMoved(l, 2)
    BY <1>3 DEF Then
  <2>2. 2 \in Int
    OBVIOUS
  <2> DEFINE k == SPMoved(l, 2)
  <2>7. /\ k \in Machines /\ k.seg = l.seg /\ k.mem = l.mem /\ k.ip = l.ip /\ k.ret = l.ret
        /\ W(k, SP) = (W(l, SP) + 2) % Word
        /\ Frame(l, k, CellsOf(SPCells))
    BY <1>1, <2>2, SPMovedIs
  <2>3. /\ n \in Machines /\ n.seg = l.seg /\ n.mem = l.mem /\ n.ip = l.ip /\ n.ret = l.ret
        /\ W(n, SP) = (W(l, SP) + 2) % Word
        /\ Frame(l, n, CellsOf(SPCells))
    BY <2>1, <2>7
  <2>4. Frame(m, n, Dst(moves) \cup CellsOf(SPCells))
    <3>1. Frame(m, n, (Dst(moves) \cup CellsOf(SPCells)) \cup CellsOf(SPCells))
      BY <1>1, <2>3, FrameJoin
    <3>2. (Dst(moves) \cup CellsOf(SPCells)) \cup CellsOf(SPCells) = Dst(moves) \cup CellsOf(SPCells)
      OBVIOUS
    <3> QED
      BY <3>1, <3>2
  <2>5. W(n, SP) = Above(W(m, SP), j + 1)
    <3>1. SP \in Regs
      BY DEF SP, Regs
    <3>2. W(m, SP) \in Offsets
      BY <3>1, Holding
    <3> QED
      BY <1>1, <1>3, <2>3, <3>2, OneAbove
  <2>6. ASSUME NEW c \in moves
        PROVE  Cell(n, c[1]) = Cell(m, c[2])
    <3>1. c[1] \notin CellsOf(SPCells) /\ IsPlace(c[1])
      BY NotSP
    <3>2. Cell(n, c[1]) = Cell(l, c[1])
      BY <2>3, <3>1, PlaceIs
    <3> QED
      BY <1>1, <1>3, <3>2
  <2> QED
    BY <1>1, <1>3, <2>3, <2>4, <2>5, <2>6 DEF Popped
<1> QED
  BY <1>2, <1>3

\* What is popped is exactly that.
LEMMA PoppedAllExact ==
  ASSUME NEW m \in Machines, NEW l, NEW moves, NEW j \in 0..8, Popped(m, l, moves, j),
         NEW by \in Int, by = 2 * j
  PROVE  Exact(m, l, moves, by) /\ \A c \in moves : c[1][1] # "p"
<1>1. /\ l \in Machines
      /\ l.ret = IF Bad(moves) THEN "badmem" ELSE "ok"
      /\ Frame(m, l, Dst(moves) \cup CellsOf(SPCells))
      /\ l.ret = "ok" =>
           /\ \A c \in moves : Cell(l, c[1]) = Cell(m, c[2])
           /\ W(l, SP) = Above(W(m, SP), j)
  BY DEF Popped
<1>2. Above(W(m, SP), j) = (W(m, SP) + by) % Word
  BY DEF Above
<1>3. SP \in Regs
  BY DEF SP, Regs
<1>4. ASSUME l.ret = "ok", NEW b \in 1..2
      PROVE  l.gpr[SP][b] = Bytes((W(m, SP) + by) % Word, 2)[b]
  <2>1. Bytes(W(l, SP), 2)[b] = l.gpr[SP][b]
    BY <1>1, <1>3, BytesOfReg
  <2>2. W(l, SP) = (W(m, SP) + by) % Word
    BY <1>1, <1>2, <1>4
  <2> QED
    BY <2>1, <2>2
<1>5. \A c \in moves : c[1][1] # "p"
  <2>1. \A c \in moves : c[1][1] = "r"
    BY NotSP
  <2> QED
    BY <2>1
<1> QED
  BY <1>1, <1>4, <1>5 DEF Exact

\* Copies of joined cells are copies of both parts.
LEMMA JoinCopies ==
  ASSUME NEW t, NEW t1, NEW t2, NEW f, NEW f1, NEW f2, Joined(t, t1, 2, t2, 2), Joined(f, f1, 2, f2, 2),
         DOMAIN t1 = 1..2, DOMAIN t2 = 1..2
  PROVE  Copies(t, f) = Copies(t1, f1) \cup Copies(t2, f2)
<1>1. /\ DOMAIN t = 1..4
      /\ \A b \in 1..2 : t[b] = t1[b] /\ t[2 + b] = t2[b] /\ f[b] = f1[b] /\ f[2 + b] = f2[b]
  BY DEF Joined
<1>2. \A b \in 1..2 : b \in 1..4 /\ 2 + b \in 1..4
  OBVIOUS
<1>3. \A b \in 1..4 : b \in 1..2 \/ \E c \in 1..2 : b = 2 + c
  OBVIOUS
<1>4. ASSUME NEW c, c \in Copies(t, f)
      PROVE  c \in Copies(t1, f1) \cup Copies(t2, f2)
  <2>1. PICK b \in 1..4 : c = <<t[b], f[b]>>
    BY <1>1, <1>4 DEF Copies
  <2>2. CASE b \in 1..2
    BY <1>1, <2>1, <2>2 DEF Copies
  <2>3. CASE \E d \in 1..2 : b = 2 + d
    BY <1>1, <2>1, <2>3 DEF Copies
  <2> QED
    BY <1>3, <2>2, <2>3
<1>5. ASSUME NEW c, c \in Copies(t1, f1)
      PROVE  c \in Copies(t, f)
  <2>1. PICK b \in 1..2 : c = <<t1[b], f1[b]>>
    BY <1>5 DEF Copies
  <2> QED
    BY <1>1, <1>2, <2>1 DEF Copies
<1>6. ASSUME NEW c, c \in Copies(t2, f2)
      PROVE  c \in Copies(t, f)
  <2>1. PICK b \in 1..2 : c = <<t2[b], f2[b]>>
    BY <1>6 DEF Copies
  <2>2. c = <<t[2 + b], f[2 + b]>> /\ 2 + b \in 1..4
    BY <1>1, <1>2, <2>1
  <2> QED
    BY <1>1, <2>2 DEF Copies
<1> QED
  BY <1>4, <1>5, <1>6

\* The words on the stack that a POP of one register can take.
LEMMA TopCells ==
  ASSUME NEW m
  PROVE  Joined(StackCells(m, 0) \o StackCells(m, 2), StackCells(m, 0), 2, StackCells(m, 2), 2)
<1> DEFINE s == StackCells(m, 0)
           t == StackCells(m, 2)
<1>1. IsCells(s, 2) /\ IsCells(t, 2)
  BY DEF StackCells, MemCells, IsCells
<1>2. 2 \in 1..4
  OBVIOUS
<1> HIDE DEF s, t
<1>3. Joined(s \o t, s, 2, t, 2)
  BY <1>1, <1>2, ConcatIs
<1> QED
  BY <1>3 DEF s, t

\* POP of a register.
LEMMA POP_Reg_Keeps ==
  ASSUME Typed, POP_Reg
  PROVE  MovesInv'
<1> DEFINE r == Instr.param
           n == Instr.size
           l1 == PopReg(Machine, r, 1)
           l == IF Wide(Instr) THEN PopReg(l1, r, 3) ELSE l1
           lo == RegCells(r, 2)
           s == StackCells(Machine, 0)
           t == StackCells(Machine, 2)
<1>1. Runs("POP_Reg") /\ Done(l, 1)
  BY DEF POP_Reg
<1>2. /\ prog # <<>> /\ Instr.op = "POP_Reg" /\ Machine \in Machines /\ Machine.ret = "ok"
      /\ r \in Regs
  BY <1>1, Starts
<1>3. n \in {2, 4}
  BY <1>1, NoByteForm DEF ByteForms
<1>4. Length(Instr) = 0 /\ SPChange(Instr) = n
  BY <1>2 DEF Length, SPChange
<1>5. 1 = Length(Instr) + 1 /\ Length(Instr) \in Nat /\ 2 \in Int /\ 1 \in {1, 3} /\ 3 \in {1, 3} /\ 2 \in 1..4
  BY <1>4
<1>6. Moves(Machine, Instr) = Copies(RegCells(r, n), s \o t)
  BY <1>2 DEF Moves, MovesOf
<1>7. IsHalf(lo, r, 1) /\ DOMAIN lo = 1..2
  BY <1>2, RegWordIs DEF IsHalf
<1>8. Joined(s \o t, s, 2, t, 2)
  BY TopCells
<1>9. CASE n = 2
  <2> DEFINE x == MemRead(Machine, StackTop(Machine), 2)
             k == SPMoved(Machine, 2)
             h == SetHalf(k, r, 1, x.v)
             moves == Copies(lo, s)
  <2>1. l = IF x.ret = "ok" THEN h ELSE Failed(Machine, x.ret)
    <3>1. ~Wide(Instr)
      BY <1>9 DEF Wide
    <3>2. PopReg(Machine, r, 1) = IF x.ret = "ok" THEN h ELSE Failed(Machine, x.ret)
      BY <1>2, PopRegIs
    <3> QED
      BY <3>1, <3>2
  <2>2. x.v \in Values(2)
    BY <1>2, <1>7, TopHas
  <2>3. k \in Machines /\ k.ret = "ok"
    BY <1>2, <1>5, SPMovedIs
  <2>4. Moved(k, h, lo, Lit(x.v))
    <3> HIDE DEF x, k
    <3>1. Wrote(k, h, lo, x.v)
      BY <1>2, <1>5, <1>7, <2>2, <2>3, HalfWrote
    <3> HIDE DEF h, lo
    <3> QED
      BY <1>5, <1>7, <2>2, <2>3, <3>1, LitMoves
  <2>5. Exact(Machine, l, moves, 2)
    <3>1. x = MemRead(Machine, StackTop(Machine), 2) /\ k = SPMoved(Machine, 2)
      OBVIOUS
    <3> HIDE DEF x, k, h, l, lo
    <3> QED
      BY <1>2, <1>7, <2>1, <2>4, <3>1, PoppedExact
  <2>6. Moves(Machine, Instr) = moves
    <3>1. Moves(Machine, Instr) = Copies(lo, s \o t)
      BY <1>6, <1>9
    <3>2. \A b \in DOMAIN lo : (s \o t)[b] = s[b]
      <4> HIDE DEF s, t, lo
      <4> QED
        BY <1>7, <1>8 DEF Joined
    <3> HIDE DEF s, t, lo
    <3> QED
      BY <3>1, <3>2, SameCopies
  <2>7. \A c \in moves : c[1][1] # "p"
    <3>1. \A b \in DOMAIN lo : IsPlace(lo[b])
      <4>1. 2 \in {1, 2, 4}
        OBVIOUS
      <4> QED
        BY <1>2, <4>1, RegPlaces
    <3> HIDE DEF lo, s
    <3> QED
      BY <3>1, CopiesNoIP
  <2>8. Exact(Machine, l, moves, SPChange(Instr)) /\ Instr.op # "LEA"
    BY <1>2, <1>4, <1>9, <2>5
  <2> HIDE DEF l, moves
  <2> QED
    BY <1>1, <1>2, <1>5, <2>6, <2>7, <2>8, ExactStep
<1>10. CASE n = 4 /\ r # SP
  <2> DEFINE hi == [c \in 1..2 |-> <<"r", r, 3 + c - 1>>]
             A == Copies(lo, s)
             moves == A \cup Copies(hi, t)
  <2>1. l = PopReg(l1, r, 3)
    BY <1>10 DEF Wide
  <2>2. IsHalf(hi, r, 3) /\ DOMAIN hi = 1..2
    BY DEF IsHalf
  <2>3. Moves(Machine, Instr) = moves
    <3>1. Moves(Machine, Instr) = Copies(RegCells(r, 4), s \o t)
      BY <1>6, <1>10
    <3>2. Joined(RegCells(r, 4), lo, 2, hi, 2)
      <4>1. DOMAIN RegCells(r, 4) = 1..4 /\ \A b \in 1..4 : RegCells(r, 4)[b] = <<"r", r, b>>
        <5>1. 4 \in {1, 2, 4} /\ 4 # 1
          OBVIOUS
        <5> QED
          BY <1>2, <5>1, RegCellsAre
      <4>2. \A b \in 1..2 : lo[b] = <<"r", r, b>> /\ hi[b] = <<"r", r, 2 + b>> /\ b \in 1..4 /\ 2 + b \in 1..4
        <5>1. \A b \in 1..2 : 3 + b - 1 = 2 + b
          OBVIOUS
        <5> QED
          BY <1>2, <5>1, RegWordIs
      <4>3. 2 + 2 = 4
        OBVIOUS
      <4> HIDE DEF lo, hi
      <4> QED
        BY <4>1, <4>2, <4>3 DEF Joined
    <3> DEFINE f == s \o t
               p == RegCells(r, 4)
    <3>3. Joined(f, s, 2, t, 2) /\ Joined(p, lo, 2, hi, 2) /\ Moves(Machine, Instr) = Copies(p, f)
      BY <1>8, <3>1, <3>2
    <3> HIDE DEF f, p, lo, hi, s, t
    <3> QED
      BY <1>7, <2>2, <3>3, JoinCopies
  <2>4. Popped(Machine, Machine, {}, 0)
    BY <1>2, NonePopped
  <2>5. 0 \in 0..7 /\ 1 \in 0..7 /\ 0 + 1 = 1 /\ 1 + 1 = 2 /\ 2 * 0 = 0 /\ 2 * 1 = 2 /\ 2 \in 0..8 /\ 4 = 2 * 2
        /\ 4 \in Int
    OBVIOUS
  <2>6. Popped(Machine, l1, A, 1)
    <3>1. s = StackCells(Machine, 2 * 0)
      BY <2>5
    <3>2. \A c \in {}, d \in 1..2 : c[1] # lo[d]
      OBVIOUS
    <3> HIDE DEF s, lo
    <3>3. Popped(Machine, PopReg(Machine, r, 1), {} \cup Copies(lo, s), 0 + 1)
      BY <1>2, <1>5, <1>7, <1>10, <2>4, <2>5, <3>1, <3>2, PopWord
    <3> QED
      BY <2>5, <3>3, WithNothing
  <2>7. Popped(Machine, l, moves, 2)
    <3>1. t = StackCells(Machine, 2 * 1)
      BY <2>5
    <3>2. \A c \in A, d \in 1..2 : c[1] # hi[d]
      <4>1. ASSUME NEW c \in A, NEW d \in 1..2
            PROVE  c[1] # hi[d]
        <5>1. PICK b \in DOMAIN lo : c[1] = lo[b]
          BY CopiesAre
        <5>2. b \in 1..2 /\ c[1] = <<"r", r, b>>
          BY <1>2, <1>7, <5>1, RegWordIs
        <5>3. 3 + d - 1 # b
          BY <5>2
        <5> QED
          BY <5>2, <5>3
      <4> QED
        BY <4>1
    <3> HIDE DEF t, A, hi, l1
    <3>3. Popped(Machine, PopReg(l1, r, 3), A \cup Copies(hi, t), 1 + 1)
      BY <1>2, <1>5, <1>10, <2>2, <2>5, <2>6, <3>1, <3>2, PopWord
    <3> QED
      BY <2>1, <2>5, <3>3
  <2>8. Exact(Machine, l, moves, 4) /\ \A c \in moves : c[1][1] # "p"
    <3> HIDE DEF l, moves
    <3> QED
      BY <1>2, <2>5, <2>7, PoppedAllExact
  <2>9. Exact(Machine, l, moves, SPChange(Instr)) /\ Instr.op # "LEA"
    BY <1>2, <1>4, <1>10, <2>8
  <2> HIDE DEF l, moves
  <2> QED
    BY <1>1, <1>2, <1>5, <2>3, <2>8, <2>9, ExactStep
<1>11. CASE n = 4 /\ r = SP
  <2>1. l1 \in Machines /\ l1.ret \in {"ok", "badmem"}
    BY <1>2, <1>5, PopRegType
  <2>2. l \in Machines /\ l.ret \in {"ok", "badmem"}
    <3>1. l = PopReg(l1, r, 3)
      BY <1>11 DEF Wide
    <3> HIDE DEF l1, l
    <3> QED
      BY <1>2, <1>5, <2>1, <3>1, PopRegType
  <2> HIDE DEF l
  <2>3. After(1) \in Offsets
    BY <1>2, <1>5, BehindIs
  <2>4. Right(Machine, Instr, l, After(1))
    BY <1>2, <1>11, <2>2, <2>3 DEF Right
  <2>5. DoneAt(l, After(1))
    BY <1>1 DEF Done
  <2> DEFINE to == After(1)
  <2>6. DoneAt(l, to) /\ Right(Machine, Instr, l, to)
    BY <2>4, <2>5
  <2> HIDE DEF to
  <2> QED
    BY <1>2, <2>6, StepKeeps
<1> QED
  BY <1>3, <1>9, <1>10, <1>11

\* The moves of POPA from the register that was pushed as number k on.
LastOf(m, k) == UNION {Copies(RegCells(File[b], 2), StackCells(m, 16 - 2 * b)) : b \in k..8 \ {5}}

\* Pops from register k on are one pop and those from register k + 1 on; the fifth,
\* SP, is not loaded.
LEMMA LastMore ==
  ASSUME NEW m, NEW k \in 1..8, NEW k1, k1 = k + 1
  PROVE  /\ k # 5 => LastOf(m, k1) \cup Copies(RegCells(File[k], 2), StackCells(m, 16 - 2 * k)) = LastOf(m, k)
         /\ k = 5 => LastOf(m, k1) = LastOf(m, k)
         /\ LastOf(m, 9) = {}
<1> DEFINE S(b) == Copies(RegCells(File[b], 2), StackCells(m, 16 - 2 * b))
<1>1. LastOf(m, k) = UNION {S(b) : b \in k..8 \ {5}} /\ LastOf(m, k1) = UNION {S(b) : b \in k1..8 \ {5}}
  BY DEF LastOf
<1>2. \A b : b \in k..8 <=> b \in k1..8 \/ b = k
  OBVIOUS
<1>3. LastOf(m, 9) = {}
  <2>1. 9..8 \ {5} = {}
    OBVIOUS
  <2> QED
    BY <2>1 DEF LastOf
<1>4. S(k) = Copies(RegCells(File[k], 2), StackCells(m, 16 - 2 * k))
  OBVIOUS
<1> HIDE DEF S
<1>5. ASSUME k # 5
      PROVE  LastOf(m, k1) \cup S(k) = LastOf(m, k)
  <2>1. \A b : b \in k..8 \ {5} <=> b \in k1..8 \ {5} \/ b = k
    BY <1>2, <1>5
  <2> QED
    BY <1>1, <2>1
<1>6. ASSUME k = 5
      PROVE  LastOf(m, k1) = LastOf(m, k)
  <2>1. k..8 \ {5} = k1..8 \ {5}
    BY <1>2, <1>6
  <2> QED
    BY <1>1, <2>1
<1> QED
  BY <1>3, <1>4, <1>5, <1>6

\* Different registers of the file.
LEMMA FileDiffers ==
  ASSUME NEW b \in 1..8, NEW c \in 1..8, b # c
  PROVE  File[b] # File[c]
  BY DEF File, SP, BP, SI, DI, BX

\* Those pops load only the low words of registers not popped before.
LEMMA LastAre ==
  ASSUME NEW m, NEW k \in 1..9
  PROVE  \A c \in LastOf(m, k) : \E b \in 1..8, d \in 1..2 : b >= k /\ b # 5 /\ c[1] = <<"r", File[b], d>>
<1>1. ASSUME NEW c, c \in LastOf(m, k)
      PROVE  \E b \in 1..8, d \in 1..2 : b >= k /\ b # 5 /\ c[1] = <<"r", File[b], d>>
  <2>1. PICK b \in k..8 \ {5} : c \in Copies(RegCells(File[b], 2), StackCells(m, 16 - 2 * b))
    BY <1>1 DEF LastOf
  <2>2. b \in 1..8 /\ b >= k /\ b # 5
    OBVIOUS
  <2>3. File[b] \in Regs
    BY <2>2, FileIs
  <2>4. PICK d \in DOMAIN RegCells(File[b], 2) : c[1] = RegCells(File[b], 2)[d]
    BY <2>1, CopiesAre
  <2>5. d \in 1..2 /\ c[1] = <<"r", File[b], d>>
    BY <2>3, <2>4, RegWordIs
  <2> QED
    BY <2>2, <2>5
<1> QED
  BY <1>1

\* One register more.
LEMMA PopNext ==
  ASSUME NEW m \in Machines, NEW l, NEW k \in 1..8, k # 5, NEW k1, k1 = k + 1, NEW j \in 0..7, j + k = 8,
         Popped(m, l, LastOf(m, k1), j), NEW r, r = File[k], NEW i, i = j + 1
  PROVE  Popped(m, PopReg(l, r, 1), LastOf(m, k), i)
<1>1. r \in Regs /\ r # SP /\ 1 \in {1, 3}
  BY FileIs
<1> DEFINE to == RegCells(r, 2)
           from == StackCells(m, 16 - 2 * k)
           old == LastOf(m, k1)
<1>2. IsHalf(to, r, 1)
  BY <1>1, RegWordIs DEF IsHalf
<1>3. from = StackCells(m, 2 * j)
  <2>1. 16 - 2 * k = 2 * j
    OBVIOUS
  <2> QED
    BY <2>1
<1>4. \A c \in old, d \in 1..2 : c[1] # to[d]
  <2>1. ASSUME NEW c \in old, NEW d \in 1..2
        PROVE  c[1] # to[d]
    <3>1. k1 \in 1..9
      OBVIOUS
    <3>2. PICK b \in 1..8, e \in 1..2 : b >= k1 /\ c[1] = <<"r", File[b], e>>
      BY <3>1, LastAre
    <3>3. b # k
      BY <3>2
    <3>4. File[b] # r
      BY <3>3, FileDiffers
    <3>5. to[d] = <<"r", r, d>>
      BY <1>1, RegWordIs
    <3> QED
      BY <3>2, <3>4, <3>5
  <2> QED
    BY <2>1
<1>5. LastOf(m, k1) \cup Copies(to, from) = LastOf(m, k)
  BY LastMore
<1>6. Popped(m, l, old, j)
  OBVIOUS
<1>7. old \cup Copies(to, from) = LastOf(m, k)
  BY <1>5
<1> HIDE DEF to, from, old
<1>8. Popped(m, PopReg(l, r, 1), old \cup Copies(to, from), j + 1)
  BY <1>1, <1>2, <1>3, <1>4, <1>6, PopWord
<1> QED
  BY <1>7, <1>8

\* POPA.
LEMMA POP_A_Keeps ==
  ASSUME Typed, POP_A
  PROVE  MovesInv'
<1> DEFINE m == Machine
           l1 == PopReg(m, DI, 1)
           l2 == PopReg(l1, SI, 1)
           l3 == PopReg(l2, BP, 1)
           l4 == Then(l3, SPMoved(l3, 2))
           l5 == PopReg(l4, BX, 1)
           l6 == PopReg(l5, 2, 1)
           l7 == PopReg(l6, 1, 1)
           l8 == PopReg(l7, 0, 1)
<1>1. Runs("POP_A") /\ Done(IF Wide(Instr) THEN Undefined ELSE l8, 1)
  BY DEF POP_A
<1>2. /\ prog # <<>> /\ Instr.op = "POP_A" /\ m \in Machines /\ m.ret = "ok"
  BY <1>1, Starts, MachineIs
<1>3. CASE Wide(Instr)
  BY <1>1, <1>2, <1>3, UndefinedStep DEF Done
<1>4. CASE ~Wide(Instr)
  <2>1. Done(l8, 1)
    BY <1>1, <1>4
  <2>2. Moves(m, Instr) = LastOf(m, 1)
    BY <1>2 DEF Moves, MovesOf, LastOf, File
  <2>13. Length(Instr) = 0 /\ SPChange(Instr) = 16
    BY <1>2 DEF Length, SPChange
  <2>14. Instr.op # "LEA"
    BY <1>2
  <2> HIDE DEF m, l8
  <2>3. /\ 0 \in 0..7 /\ 1 \in 0..7 /\ 2 \in 0..7 /\ 3 \in 0..7 /\ 4 \in 0..7 /\ 5 \in 0..7 /\ 6 \in 0..7 /\ 7 \in 0..7
        /\ 8 \in 0..8
        /\ 1 = 0 + 1 /\ 2 = 1 + 1 /\ 3 = 2 + 1 /\ 4 = 3 + 1 /\ 5 = 4 + 1 /\ 6 = 5 + 1 /\ 7 = 6 + 1 /\ 8 = 7 + 1
    OBVIOUS
  <2>4. /\ 1 \in 1..8 /\ 2 \in 1..8 /\ 3 \in 1..8 /\ 4 \in 1..8 /\ 5 \in 1..8 /\ 6 \in 1..8 /\ 7 \in 1..8 /\ 8 \in 1..8
        /\ 9 = 8 + 1 /\ 0 + 8 = 8 /\ 1 + 7 = 8 /\ 2 + 6 = 8 /\ 3 + 5 = 8 /\ 4 + 4 = 8 /\ 5 + 3 = 8 /\ 6 + 2 = 8 /\ 7 + 1 = 8
        /\ 16 = 2 * 8 /\ 16 \in Int /\ 1 = 0 + 1
    OBVIOUS
  <2>5. Popped(m, m, LastOf(m, 9), 0)
    BY <1>2, <2>4, NonePopped, LastMore
  <2> HIDE DEF l1, l2, l3, l4, l5, l6, l7
  <2>6. Popped(m, l1, LastOf(m, 8), 1)
    BY <1>2, <2>3, <2>4, <2>5, FileIs, PopNext DEF l1
  <2>7. Popped(m, l2, LastOf(m, 7), 2)
    BY <1>2, <2>3, <2>4, <2>6, FileIs, PopNext DEF l2
  <2>8. Popped(m, l3, LastOf(m, 6), 3)
    BY <1>2, <2>3, <2>4, <2>7, FileIs, PopNext DEF l3
  <2>9. Popped(m, l4, LastOf(m, 5), 4)
    <3>1. l4 = Then(l3, SPMoved(l3, 2))
      BY DEF l4
    <3>2. Popped(m, l4, LastOf(m, 6), 4)
      BY <1>2, <2>3, <2>8, <3>1, PopSkip
    <3>3. 6 = 5 + 1 /\ 5 \in 1..8
      OBVIOUS
    <3>4. LastOf(m, 6) = LastOf(m, 5)
      BY <3>3, LastMore
    <3> QED
      BY <3>2, <3>4
  <2>10. Popped(m, l5, LastOf(m, 4), 5)
    BY <1>2, <2>3, <2>4, <2>9, FileIs, PopNext DEF l5
  <2>11. Popped(m, l6, LastOf(m, 3), 6)
    BY <1>2, <2>3, <2>4, <2>10, FileIs, PopNext DEF l6
  <2>12. Popped(m, l7, LastOf(m, 2), 7)
    BY <1>2, <2>3, <2>4, <2>11, FileIs, PopNext DEF l7
  <2>15. Popped(m, l8, LastOf(m, 1), 8)
    BY <1>2, <2>3, <2>4, <2>12, FileIs, PopNext DEF l8
  <2> DEFINE moves == LastOf(m, 1)
  <2>16. Moves(m, Instr) = moves /\ Popped(m, l8, moves, 8)
    BY <2>2, <2>15
  <2> HIDE DEF moves
  <2>17. Exact(m, l8, moves, 16) /\ \A c \in moves : c[1][1] # "p"
    BY <1>2, <2>3, <2>4, <2>16, PoppedAllExact
  <2>18. 1 = Length(Instr) + 1 /\ Length(Instr) \in Nat /\ Exact(m, l8, moves, SPChange(Instr))
    BY <2>13, <2>17
  <2> QED
    BY <1>2, <2>1, <2>14, <2>16, <2>17, <2>18, ExactStep DEF m
<1> QED
  BY <1>3, <1>4

-----------------------------------------------------------------------------
(* Every program.                                                          *)

\* The invariant holds of a program that has not started.
LEMMA MovesStart ==
  ASSUME Init
  PROVE  MovesInv
<1>1. /\ prog \in Programs /\ gpr \in RegFiles /\ seg \in SegFiles
      /\ mem = <<>> /\ ret = "ok" /\ past = <<>>
  BY DEF Init
<1>2. prog \in Seq(Instructions)
  BY <1>1, OperandAssumption
<1>3. gpr \in [Regs -> Values(4)]
  BY <1>1, OperandAssumption DEF Values
<1>4. seg \in [0..5 -> Values(2)]
  BY <1>1, OperandAssumption DEF Values
<1>5. ip \in Offsets
  BY SMT DEF Init, Offsets, Word
<1>6. mem \in Mems
  <2>1. DOMAIN mem = {}
    BY <1>1
  <2>2. mem = [x \in DOMAIN mem |-> mem[x]]
    BY <1>1
  <2>3. mem \in [{} -> Byte]
    BY <2>1, <2>2
  <2>4. {} \in SUBSET Nat
    OBVIOUS
  <2> QED
    BY <2>3, <2>4 DEF Mems
<1>7. past \in Seq([instr : Instructions, before : Machines])
  BY <1>1
<1>8. Typed
  BY <1>1, <1>2, <1>3, <1>4, <1>5, <1>6, <1>7 DEF Typed, Just
<1> QED
  BY <1>1, <1>8 DEF MovesInv, MovesExact, FaultsContained

\* Nothing happens.
LEMMA MovesStay ==
  ASSUME MovesInv, UNCHANGED vars
  PROVE  MovesInv'
<1>1. /\ gpr' = gpr /\ seg' = seg /\ ip' = ip /\ mem' = mem /\ ret' = ret /\ prog' = prog /\ past' = past
      /\ holes' = holes /\ roms' = roms
  BY DEF vars
<1>2. Ran' = Ran /\ Was' = Was /\ (PopsESP' <=> PopsESP) /\ Cells' = Cells /\ Machine' = Machine
      /\ (Just({"LEA"})' <=> Just({"LEA"}))
  BY <1>1 DEF Ran, Was, PopsESP, Cells, Machine, Just
<1>3. Typed'
  BY <1>1, <1>2 DEF MovesInv, Typed
<1>4. MovesExact'
  BY <1>1, <1>2 DEF MovesInv, MovesExact, Kept
<1>5. FaultsContained'
  BY <1>1, <1>2 DEF MovesInv, FaultsContained, Kept
<1> QED
  BY <1>3, <1>4, <1>5 DEF MovesInv

\* An instruction of any kind.
LEMMA MovesStep ==
  ASSUME MovesInv, [Next]_vars
  PROVE  MovesInv'
<1>1. Typed
  BY DEF MovesInv
<1>2. CASE UNCHANGED vars
  BY <1>2, MovesStay
<1>3. CASE MOV_MR \/ MOV_RM \/ MOV_MI \/ MOV_AMo \/ MOV_MoA \/ MOV_RS \/ MOV_SR \/ MOV_Reg
  BY <1>1, <1>3, MOV_MR_Keeps, MOV_RM_Keeps, MOV_MI_Keeps, MOV_AMo_Keeps, MOV_MoA_Keeps, MOV_RS_Keeps,
     MOV_SR_Keeps, MOV_Reg_Keeps
<1>4. CASE MOV_Z \/ MOV_ZX \/ XCHG_RM \/ XCHG_Reg \/ LxS \/ LEA \/ XLAT
  BY <1>1, <1>4, MOV_Z_Keeps, MOV_ZX_Keeps, XCHG_RM_Keeps, XCHG_Reg_Keeps, LxS_Keeps, LEA_Keeps, XLAT_Keeps
<1>5. CASE PUSH_Seg \/ PUSH_Reg \/ PUSH_A \/ PUSH_I \/ PUSH_I8 \/ Unary_PUSH
  BY <1>1, <1>5, PUSH_Seg_Keeps, PUSH_Reg_Keeps, PUSH_A_Keeps, PUSH_I_Keeps, PUSH_I8_Keeps, Unary_PUSH_Keeps
<1>6. CASE POP_Seg \/ POP_Reg \/ POP_A \/ POP_MX
  BY <1>1, <1>6, POP_Seg_Keeps, POP_Reg_Keeps, POP_A_Keeps, POP_MX_Keeps
<1>7. CASE Unary_INC \/ Unary_DEC
  BY <1>1, <1>7, Unary_INC_Keeps, Unary_DEC_Keeps
<1>8. CASE Unary_CALL_N \/ Unary_JMP_N \/ Unary_CALL_F \/ Unary_JMP_F
  BY <1>1, <1>8, Unary_CALL_N_Keeps, Unary_JMP_N_Keeps, Unary_CALL_F_Keeps, Unary_JMP_F_Keeps
<1> QED
  BY <1>2, <1>3, <1>4, <1>5, <1>6, <1>7, <1>8 DEF Next

\* The invariant holds whatever the programs, registers, segments and holes.
LEMMA MovesAlways == Spec => []MovesInv
<1>1. Init => MovesInv
  BY MovesStart
<1>2. MovesInv /\ [Next]_vars => MovesInv'
  BY MovesStep
<1> QED
  BY <1>1, <1>2, PTL DEF Spec

\* Machines, programs and history keep their types.
THEOREM MovesTyped == Spec => []Typed
<1>1. MovesInv => Typed
  BY DEF MovesInv
<1> QED
  BY <1>1, MovesAlways, PTL

\* An instruction that succeeds makes exactly its copies.
THEOREM MovesAreExact == Spec => []MovesExact
<1>1. MovesInv => MovesExact
  BY DEF MovesInv
<1> QED
  BY <1>1, MovesAlways, PTL

\* One that fails leaves IP and everything else alone.
THEOREM FaultsAreContained == Spec => []FaultsContained
<1>1. MovesInv => FaultsContained
  BY DEF MovesInv
<1> QED
  BY <1>1, MovesAlways, PTL

-----------------------------------------------------------------------------
(* The addresses of the manual.                                            *)

(* Numbers.                                                                *)

\* A number is made of its quotient and remainder.
LEMMA Divided ==
  ASSUME NEW n \in Nat \ {0}, NEW a \in Int
  PROVE  a % n \in 0 .. n - 1 /\ \E q \in Int : a = n * q + (a % n)
<1>1. a % n \in 0 .. n - 1 /\ a \div n \in Int /\ a = n * (a \div n) + (a % n)
  OBVIOUS
<1> QED
  BY <1>1

\* ... which are unique.
LEMMA ModUnique ==
  ASSUME NEW n \in Nat \ {0}, NEW q \in Int, NEW r \in 0 .. n - 1
  PROVE  (n * q + r) % n = r
<1>1. n * q \in Int /\ n * q + r \in Int
  OBVIOUS
<1> DEFINE a == n * q + r
           m == a % n
<1>2. PICK d \in Int : a = n * d + m
  BY <1>1, Divided
<1>3. m \in 0 .. n - 1
  BY <1>1, Divided
<1>4. n * q + r = n * d + m
  BY <1>2
<1> HIDE DEF m
<1>5. \A x, y \in Int : \A s, t \in 0 .. n - 1 : n * x + s = n * y + t => x = y
  OBVIOUS
<1>6. d = q
  BY <1>3, <1>4, <1>5
<1>7. m = r
  BY <1>1, <1>3, <1>4, <1>6
<1> QED
  BY <1>7 DEF m

\* An offset may wrap before more is added to it, or only afterwards.
LEMMA ModPlus ==
  ASSUME NEW n \in Nat \ {0}, NEW a \in Int, NEW b \in Int
  PROVE  ((a % n) + b) % n = (a + b) % n
<1>1. PICK q \in Int : a = n * q + (a % n)
  BY Divided
<1> DEFINE r == a % n
           s == (r + b) % n
<1>2. r \in Int
  BY Divided
<1> HIDE DEF r
<1>3. PICK p \in Int : r + b = n * p + s
  <2>1. r + b \in Int
    BY <1>2
  <2> QED
    BY <2>1, Divided
<1>4. s \in 0 .. n - 1 /\ s \in Int
  BY <1>2, Divided
<1> HIDE DEF s
<1>5. a = n * q + r
  BY <1>1 DEF r
<1>6. n * q \in Int /\ n * p \in Int /\ n * (q + p) = n * q + n * p
  OBVIOUS
<1>7. a + b = n * (q + p) + s
  BY <1>2, <1>3, <1>4, <1>5, <1>6
<1>8. (a + b) % n = s
  <2>1. q + p \in Int /\ (n * (q + p) + s) % n = s
    BY <1>4, ModUnique
  <2> QED
    BY <1>7, <2>1
<1> QED
  BY <1>8 DEF r, s

\* What each form of a 16-bit address adds up.
LEMMA SumIs ==
  ASSUME NEW m \in Machines, NEW f \in Regs
  PROVE  /\ \A r \in {BX, BP, SI, DI} : W(m, r) \in Nat
         /\ Sum16(m, Summed[f + 1]) = (IF f \in {0, 1, 7} THEN W(m, BX) ELSE 0)
              + (IF f \in {2, 3, 6} THEN W(m, BP) ELSE 0) + (IF f \in {0, 2, 4} THEN W(m, SI) ELSE 0)
              + (IF f \in {1, 3, 5} THEN W(m, DI) ELSE 0)
<1>1. \A r \in Regs : W(m, r) \in Nat
  BY Holding DEF Offsets
<1>2. W(m, BX) \in Nat /\ W(m, BP) \in Nat /\ W(m, SI) \in Nat /\ W(m, DI) \in Nat
  BY <1>1 DEF Regs, BX, BP, SI, DI
<1> DEFINE rs == Summed[f + 1]
<1>3. /\ BX \in rs <=> f \in {0, 1, 7}
      /\ BP \in rs <=> f \in {2, 3, 6}
      /\ SI \in rs <=> f \in {0, 2, 4}
      /\ DI \in rs <=> f \in {1, 3, 5}
  BY DEF Summed, Regs, BX, BP, SI, DI
<1> HIDE DEF rs
<1>4. Sum16(m, rs) = (IF f \in {0, 1, 7} THEN W(m, BX) ELSE 0)
              + (IF f \in {2, 3, 6} THEN W(m, BP) ELSE 0) + (IF f \in {0, 2, 4} THEN W(m, SI) ELSE 0)
              + (IF f \in {1, 3, 5} THEN W(m, DI) ELSE 0)
  BY <1>3 DEF Sum16
<1> QED
  BY <1>2, <1>4 DEF rs

\* A 16-bit offset is that of the manual.
LEMMA Offset16 ==
  ASSUME NEW m \in Machines, NEW i \in Instructions, Mod(i) # 3, ~i.addr32
  PROVE  GetMMM(m, i).ofs = ManualOfs(m, i)
<1> DEFINE f == Mmm(i)
           b == IF f \in {0, 1, 7} THEN W(m, BX) ELSE 0
           s == IF f \in {0, 2, 4} THEN W(m, SI) ELSE 0
           d == IF f \in {1, 3, 5} THEN W(m, DI) ELSE 0
           p == IF f \in {2, 3, 6} THEN W(m, BP) ELSE 0
           direct == Mod(i) = 0 /\ f = 6
           addr == IF direct THEN Num(Imm(i, Behind(i), 2)) ELSE Sum16(m, Summed[f + 1]) + Displacement(i)
<1>1. Mod(i) \in 0..2 /\ f \in Regs
  BY FieldsAre
<1>2. GetMMM(m, i).ofs = addr % Word
  BY DEF GetMMM, DoFunc
<1>3. ManualOfs(m, i) = (Disp(i) + b + (IF StackBased(i) THEN W(m, BP) ELSE 0) + s + d) % Word
  BY DEF ManualOfs
<1>4. b \in Nat /\ s \in Nat /\ d \in Nat /\ p \in Nat /\ Sum16(m, Summed[f + 1]) = b + p + s + d
  <2> HIDE DEF f
  <2> QED
    BY <1>1, SumIs DEF BX, BP, SI, DI
<1>5. 2 \in Nat
  OBVIOUS
<1>6. Imm8S(i, 2) \in Int /\ Num(Imm(i, 2, 2)) \in Nat
  <2>1. Imm8S(i, 2) \in -128..127 /\ Num(Imm(i, 2, 2)) \in Offsets
    BY <1>5, ImmType
  <2> QED
    BY <2>1 DEF Offsets
<1>7. DispAt(i) = 2
  BY DEF DispAt, SIB
<1>8. NoBase(i) <=> direct
  BY DEF NoBase
<1>9. StackBased(i) <=> ~direct /\ f \in {2, 3, 6}
  BY <1>8 DEF StackBased
<1>10. CASE direct
  <2>1. Disp(i) = Num(Imm(i, 2, 2)) /\ Behind(i) = 2
    BY <1>7, <1>8, <1>10 DEF Disp, DispSize, Behind
  <2>2. b = 0 /\ s = 0 /\ d = 0 /\ ~StackBased(i)
    BY <1>9, <1>10
  <2>3. addr = Num(Imm(i, 2, 2)) /\ ManualOfs(m, i) = (Num(Imm(i, 2, 2)) + 0 + 0 + 0 + 0) % Word
    BY <1>3, <1>10, <2>1, <2>2
  <2> QED
    BY <1>2, <1>6, <2>3
<1>11. CASE ~direct
  <2>1. (IF StackBased(i) THEN W(m, BP) ELSE 0) = p
    BY <1>9, <1>11
  <2>2. addr = b + p + s + d + Displacement(i)
    BY <1>4, <1>11
  <2>3. ManualOfs(m, i) = (Disp(i) + b + p + s + d) % Word
    BY <1>3, <2>1
  <2>4. ~NoBase(i) /\ i.addr32 = FALSE
    BY <1>8, <1>11, InstrIs
  <2> HIDE DEF addr, b, s, d, p, direct, f
  <2>5. CASE Mod(i) = 0
    <3>1. Disp(i) = 0 /\ Displacement(i) = 0
      BY <2>4, <2>5 DEF Disp, DispSize, Displacement
    <3> QED
      BY <1>2, <1>4, <2>2, <2>3, <3>1
  <2>6. CASE Mod(i) = 1
    <3>1. Disp(i) = Imm8S(i, 2) /\ Displacement(i) = Imm8S(i, 2) % Word
      BY <1>7, <2>4, <2>6 DEF Disp, DispSize, Displacement
    <3> DEFINE sum == b + p + s + d
               x == Imm8S(i, 2)
    <3>2. sum \in Int /\ x \in Int /\ Word \in Nat \ {0}
      BY <1>4, <1>6 DEF Word
    <3>3. addr = sum + (x % Word) /\ ManualOfs(m, i) = (x + sum) % Word
      BY <1>4, <1>6, <2>2, <2>3, <3>1 DEF Word
    <3>5. x % Word \in Int
      BY <1>6 DEF Word
    <3> HIDE DEF sum, x
    <3>4. ((x % Word) + sum) % Word = (x + sum) % Word
      BY <3>2, ModPlus
    <3>6. addr = (x % Word) + sum
      BY <3>2, <3>3, <3>5
    <3> QED
      BY <1>2, <3>3, <3>4, <3>6
  <2>7. CASE Mod(i) = 2
    <3>1. Disp(i) = Num(Imm(i, 2, 2)) /\ Displacement(i) = Num(Imm(i, 2, 2))
      BY <1>7, <2>4, <2>7 DEF Disp, DispSize, Displacement
    <3>2. b + p + s + d + Num(Imm(i, 2, 2)) = Num(Imm(i, 2, 2)) + b + p + s + d
      BY <1>4, <1>6
    <3> QED
      BY <1>2, <2>2, <2>3, <3>1, <3>2
  <2> QED
    BY <1>1, <2>5, <2>6, <2>7
<1> QED
  BY <1>10, <1>11

\* What a 32-bit address with a SIB byte adds up, without displacement.
LEMMA OffsetSIB ==
  ASSUME NEW m \in Machines, NEW i \in Instructions, Mod(i) # 3, i.addr32, ~OtherDisp(i), SIB(i)
  PROVE  GetMMM(m, i).ofs = ManualOfs(m, i)
<1> DEFINE sib == At(i, 2)
           index == (sib \div 8) % 8
           base == sib % 8
           prod == D(m, index) * Scale(sib)
<1>1. DispSize(i) = 0
  BY DEF OtherDisp
<1>2. Mod(i) \in 0..2 /\ Mmm(i) = 4
  BY FieldsAre DEF SIB
<1>3. Mod(i) = 0 /\ ~NoBase(i)
  BY <1>1, <1>2 DEF DispSize
<1>4. base # 5 /\ BaseReg(i) = base
  BY <1>3 DEF NoBase, BaseReg
<1>5. Disp(i) = 0 /\ Displacement(i) = 0 /\ Behind(i) = 2
  BY <1>1, <1>3 DEF Disp, Displacement, Behind
<1>6. sib \in Byte /\ index \in Regs /\ base \in Regs
  <2>1. 2 \in Nat
    OBVIOUS
  <2>2. sib \in Byte
    BY <2>1, InstrIs
  <2> HIDE DEF sib
  <2>3. index \in Regs /\ base \in Regs
    BY <2>2 DEF Byte, Regs
  <2> QED
    BY <2>2, <2>3
<1>7. prod \in Nat /\ D(m, base) \in Nat
  <2>1. D(m, index) \in Nat /\ D(m, base) \in Nat
    BY <1>6, Holding
  <2>2. Scale(sib) \in {1, 2, 4, 8}
    BY <1>6, ScaleType
  <2> HIDE DEF sib, index
  <2> QED
    BY <2>1, <2>2
<1>8. GetMMM(m, i).ofs = ((IF index = 4 THEN 0 ELSE prod % DWord) + D(m, base) + 0) % DWord
  BY <1>2, <1>3, <1>4, <1>5 DEF GetMMM, DoFunc32
<1>9. ManualOfs(m, i) = (D(m, base) + (IF index # 4 THEN prod ELSE 0) + 0) % DWord
  BY <1>3, <1>4, <1>5 DEF ManualOfs, Index
<1> HIDE DEF prod, index, base, sib
<1>10. DWord \in Nat \ {0}
  BY DWordType
<1>11. CASE index = 4
  <2>1. GetMMM(m, i).ofs = (0 + D(m, base) + 0) % DWord /\ ManualOfs(m, i) = (D(m, base) + 0 + 0) % DWord
    BY <1>8, <1>9, <1>11
  <2>2. 0 + D(m, base) + 0 = D(m, base) + 0 + 0
    BY <1>7
  <2> QED
    BY <2>1, <2>2
<1>12. CASE index # 4
  <2> DEFINE x == prod % DWord
             y == D(m, base)
  <2>1. x \in Nat
    BY <1>7, <1>10, ModType
  <2>2. GetMMM(m, i).ofs = (x + y + 0) % DWord
    BY <1>8, <1>12
  <2>3. ManualOfs(m, i) = (y + prod + 0) % DWord
    BY <1>9, <1>12
  <2>4. prod \in Int /\ y \in Int
    BY <1>7
  <2>5. (x + y) % DWord = (prod + y) % DWord
    <3> HIDE DEF y
    <3> QED
      BY <1>10, <2>4, ModPlus
  <2> HIDE DEF x, y
  <2>6. x + y + 0 = x + y /\ y + prod + 0 = prod + y
    BY <2>1, <2>4
  <2> QED
    BY <2>2, <2>3, <2>5, <2>6
<1> QED
  BY <1>11, <1>12

\* A displacement of 32 bits that has no more than 16.
LEMMA SmallDisp ==
  ASSUME NEW i \in Instructions, NEW p \in Nat, Imm32(i, p) < Word
  PROVE  Imm32(i, p) = Num(Imm(i, p, 2))
<1> DEFINE a == At(i, p + 2)
           b == At(i, p + 3) % Top
           w == Num(Imm(i, p, 2))
<1>1. p + 2 \in Nat /\ p + 3 \in Nat
  OBVIOUS
<1>2. a \in Nat
  <2>1. At(i, p + 2) \in Byte
    BY <1>1, InstrIs
  <2> QED
    BY <2>1 DEF Byte
<1>3. b \in Nat
  <2>1. At(i, p + 3) \in Byte
    BY <1>1, InstrIs
  <2>2. At(i, p + 3) \in Int /\ Top \in Nat \ {0}
    BY <2>1, TopType DEF Byte
  <2> QED
    BY <2>2, ModType
<1>4. w \in Nat
  BY ImmType DEF Offsets
<1>5. Imm32(i, p) = w + 65536 * a + 16777216 * b
  BY DEF Imm32
<1> HIDE DEF a, b, w
<1>6. w + 65536 * a + 16777216 * b < 65536
  BY <1>5 DEF Word
<1>7. a = 0 /\ b = 0
  BY <1>2, <1>3, <1>4, <1>6, SMT
<1>8. Imm32(i, p) = w
  BY <1>4, <1>5, <1>7
<1> QED
  BY <1>8 DEF w

\* What it adds up without.
LEMMA OffsetPlain ==
  ASSUME NEW m \in Machines, NEW i \in Instructions, Mod(i) # 3, i.addr32, ~OtherDisp(i), ~SIB(i)
  PROVE  GetMMM(m, i).ofs = ManualOfs(m, i)
<1> DEFINE f == Mmm(i)
           direct == Mod(i) = 0 /\ f = 5
           addr == IF direct THEN Imm32(i, Behind(i)) ELSE D(m, f)
<1>1. Mod(i) \in 0..2 /\ f \in Regs
  BY FieldsAre
<1>2. f # 4 /\ BaseReg(i) = f /\ DispAt(i) = 2
  BY DEF SIB, BaseReg, DispAt
<1>3. GetMMM(m, i).ofs = (addr + Displacement(i)) % DWord
  BY <1>2 DEF GetMMM, DoFunc32
<1>4. NoBase(i) <=> direct
  BY <1>2 DEF NoBase
<1>5. ManualOfs(m, i) = ((IF NoBase(i) THEN 0 ELSE D(m, f)) + 0 + Disp(i)) % DWord
  BY <1>2 DEF ManualOfs, Index
<1>6. D(m, f) \in Nat
  BY <1>1, Holding
<1>7. 2 \in Nat
  OBVIOUS
<1>8. Imm8S(i, 2) \in -128..127 /\ Num(Imm(i, 2, 2)) \in Nat /\ Imm32(i, 2) \in Nat
  BY <1>7, ImmType DEF Offsets
<1>9. CASE direct
  <2>1. Disp(i) = Imm32(i, 2) /\ Displacement(i) = 0 /\ Behind(i) = 2
    BY <1>2, <1>4, <1>9 DEF Disp, DispSize, Displacement, Behind
  <2>2. addr = Imm32(i, 2) /\ ManualOfs(m, i) = (0 + 0 + Imm32(i, 2)) % DWord
    BY <1>4, <1>5, <1>9, <2>1
  <2> QED
    BY <1>3, <1>8, <2>1, <2>2
<1>10. CASE ~direct
  <2>1. addr = D(m, f) /\ ManualOfs(m, i) = (D(m, f) + 0 + Disp(i)) % DWord
    BY <1>4, <1>5, <1>10
  <2>2. Displacement(i) = Disp(i) /\ Disp(i) \in Nat
    <3> HIDE DEF addr, f
    <3>1. CASE Mod(i) = 0
      BY <1>4, <1>10, <3>1 DEF Disp, DispSize, Displacement
    <3>2. CASE Mod(i) = 1
      <4>1. Disp(i) = Imm8S(i, 2) /\ Displacement(i) = Imm8S(i, 2) % Word
        BY <1>2, <3>2 DEF Disp, DispSize, Displacement
      <4>2. ~(Disp(i) < 0)
        BY <3>2 DEF OtherDisp
      <4> DEFINE x == Imm8S(i, 2)
      <4>3. x \in 0..127
        BY <1>8, <4>1, <4>2
      <4> HIDE DEF x
      <4>4. x % Word = x /\ x \in Nat
        BY <4>3 DEF Word
      <4> QED
        BY <4>1, <4>4 DEF x
    <3>3. CASE Mod(i) = 2
      <4>1. Disp(i) = Imm32(i, 2) /\ Displacement(i) = Num(Imm(i, 2, 2))
        BY <1>2, <3>3 DEF Disp, DispSize, Displacement
      <4>2. ~(Disp(i) >= Word)
        BY <3>3 DEF OtherDisp
      <4>3. Imm32(i, 2) < Word
        BY <1>8, <4>1, <4>2 DEF Word
      <4>4. Imm32(i, 2) = Num(Imm(i, 2, 2))
        BY <1>7, <4>3, SmallDisp
      <4> QED
        BY <1>8, <4>1, <4>4
    <3> QED
      BY <1>1, <3>1, <3>2, <3>3
  <2>3. D(m, f) + 0 + Disp(i) = D(m, f) + Displacement(i)
    BY <1>6, <2>2
  <2> QED
    BY <1>3, <2>1, <2>3
<1> QED
  BY <1>9, <1>10

\* The offset of an operand is that of the manual.
LEMMA OffsetIs ==
  ASSUME NEW m \in Machines, NEW i \in Instructions, Mod(i) # 3, ~OtherDisp(i)
  PROVE  GetMMM(m, i).ofs = ManualOfs(m, i)
<1>1. i.addr32 \in BOOLEAN
  BY InstrIs
<1> QED
  BY <1>1, Offset16, OffsetSIB, OffsetPlain

\* A reference keeps an address below 1 MB whose bytes lie in the segment.
LEMMA ReferenceIs ==
  ASSUME NEW s \in Offsets, NEW o \in Nat, NEW n \in {1, 2, 4}, o + n <= Word, s * 16 + o + n <= 16 * Word,
         NEW r, r.lin = (s * 16 + o) % 16777216, r.wrap <=> o >= 65520
  PROVE  AddrOf(r, n) = s * 16 + o
<1> DEFINE a == s * 16 + o
<1>1. s \in Nat /\ s < 65536 /\ o < 65536 /\ a < 1048576 /\ a \in Nat
  BY SMT DEF Offsets, Word
<1>2. r.lin = a
  <2>1. a % 16777216 = a
    BY <1>1, SMT
  <2> QED
    BY <2>1
<1>3. CASE n = 1
  <2>1. AddrOf(r, n) = ((((a \div 65536) * 4096) % Word) * 16) + ((a % Word) % Word)
    BY <1>2, <1>3 DEF AddrOf, Linear
  <2> HIDE DEF a
  <2>2. (((((a \div 65536) * 4096) % 65536) * 16) + ((a % 65536) % 65536)) = a
    BY <1>1, SMT
  <2>3. AddrOf(r, n) = a
    BY <2>1, <2>2 DEF Word
  <2> QED
    BY <2>3 DEF a
<1>4. CASE n # 1 /\ o < 65520
  <2>1. ~r.wrap
    BY <1>4
  <2>2. AddrOf(r, n) = (((a \div 16) % Word) * 16) + ((a % 16) % Word)
    BY <1>2, <1>4, <2>1 DEF AddrOf, RecreatePtr, Linear
  <2> HIDE DEF a
  <2>3. ((((a \div 16) % 65536) * 16) + ((a % 16) % 65536)) = a
    BY <1>1, SMT
  <2>4. AddrOf(r, n) = a
    BY <2>2, <2>3 DEF Word
  <2> QED
    BY <2>4 DEF a
<1>5. CASE n # 1 /\ o >= 65520
  <2> DEFINE ofs == 65520 + (a % 16)
  <2>1. r.wrap
    BY <1>5
  <2>2. AddrOf(r, n) = ((((a - ofs) \div 16) % Word) * 16) + (ofs % Word)
    BY <1>2, <1>5, <2>1 DEF AddrOf, RecreatePtr, Linear
  <2>3. ofs = o
    BY <1>1, <1>5, SMT
  <2>4. a - o = 16 * s /\ ((16 * s) \div 16) % 65536 = s /\ o % 65536 = o
    BY <1>1, SMT
  <2> HIDE DEF ofs
  <2>5. AddrOf(r, n) = s * 16 + o
    BY <2>2, <2>3, <2>4 DEF Word
  <2> QED
    BY <2>5
<1> QED
  BY <1>3, <1>4, <1>5

\* The bytes of an operand in memory are those at the manual's address.
LEMMA OperandIs ==
  ASSUME NEW m \in Machines, NEW i \in Instructions, Mod(i) # 3, ~OtherSegment(i), ~OtherDisp(i), ~OtherAddr(m, i)
  PROVE  RefCells(DecodeModM(m, i), i.size) = MemCells(ManualAddr(m, i), i.size)
<1> DEFINE e == GetMMM(m, i)
           o == ManualOfs(m, i)
           r == DecodeModM(m, i)
           s == Num(m.seg[e.seg])
<1>1. i.size \in {1, 2, 4} /\ Mod(i) \in 0..2 /\ i.ovr \in 0..6
  BY InstrIs, FieldsAre
<1>2. e.ofs = o /\ e.ofs \in Nat /\ e.seg \in 0..5
  BY OffsetIs, AddressType
<1>3. e.seg = GetSegment(i, DefaultSegment(i))
  <2>1. i.addr32 \in BOOLEAN
    BY InstrIs
  <2> QED
    BY <2>1 DEF GetMMM, DoFunc, DoFunc32
<1>4. e.seg = ManualSeg(i)
  <2>1. CASE i.ovr # 0
    BY <1>3, <2>1 DEF GetSegment, ManualSeg
  <2>2. CASE i.ovr = 0
    <3>1. ~(StackBased(i) # (Mod(i) # 0 /\ Mmm(i) \in {2, 3, 6}))
      BY <2>2 DEF OtherSegment
    <3>2. StackBased(i) <=> Mod(i) # 0 /\ Mmm(i) \in {2, 3, 6}
      BY <3>1 DEF StackBased
    <3> QED
      BY <1>3, <2>2, <3>2 DEF GetSegment, DefaultSegment, ManualSeg
  <2> QED
    BY <2>1, <2>2
<1>5. s \in Offsets
  BY <1>2, Holding
<1>6. r = Memory(m, e)
  BY DEF DecodeModM
<1>7. r.lin = (s * 16 + e.ofs) % 16777216 /\ (r.wrap <=> e.ofs >= 65520) /\ r.reg = FALSE
  <2> HIDE DEF e, r
  <2>1. r.lin = (s * 16 + e.ofs) % 16777216
    BY <1>6 DEF Memory
  <2>2. r.wrap <=> e.ofs >= 65520
    <3> DEFINE wrap == e.ofs >= 65520
               lin == (Num(m.seg[e.seg]) * 16 + e.ofs) % 16777216
               next == e.next
    <3>1. r = [reg |-> FALSE, num |-> 0, wrap |-> wrap, lin |-> lin, next |-> next]
      BY <1>6 DEF Memory
    <3>2. wrap \in BOOLEAN
      BY <1>2
    <3> HIDE DEF wrap, lin, next
    <3>3. r.wrap <=> wrap
      BY <3>1, Zenon
    <3> QED
      BY <3>3 DEF wrap
  <2>3. r.reg = FALSE
    BY <1>6 DEF Memory
  <2> QED
    BY <2>1, <2>2, <2>3
<1>8. ManualAddr(m, i) = s * 16 + o
  BY <1>4 DEF ManualAddr
<1>9. ~(o + i.size > Word) /\ ~(s * 16 + o + i.size > 16 * Word)
  BY <1>8 DEF OtherAddr
<1>10. o \in Nat
  BY <1>2
<1>11. r.lin = (s * 16 + o) % 16777216 /\ (r.wrap <=> o >= 65520)
  BY <1>2, <1>7
<1> HIDE DEF e, o, r, s
<1>12. AddrOf(r, i.size) = s * 16 + o
  <2>1. s \in Nat /\ i.size \in Nat /\ Word \in Nat
    BY <1>1, <1>5 DEF Offsets, Word
  <2>2. o + i.size <= Word /\ s * 16 + o + i.size <= 16 * Word
    BY <1>9, <1>10, <2>1
  <2> DEFINE n == i.size
  <2>3. n \in {1, 2, 4} /\ o + n <= Word /\ s * 16 + o + n <= 16 * Word
    BY <1>1, <2>2
  <2> HIDE DEF n
  <2>4. AddrOf(r, n) = s * 16 + o
    BY <1>5, <1>10, <1>11, <2>3, ReferenceIs
  <2> QED
    BY <2>4 DEF n
<1>13. RefCells(r, i.size) = MemCells(AddrOf(r, i.size), i.size)
  BY <1>7 DEF RefCells
<1> QED
  BY <1>8, <1>12, <1>13 DEF r

\* What the history holds.
LEMMA LastType ==
  ASSUME Typed, past # <<>>
  PROVE  Ran \in Instructions /\ Was \in Machines /\ Len(past) \in Nat \ {0}
<1>1. past \in Seq([instr : Instructions, before : Machines])
  BY DEF Typed
<1>2. Len(past) \in Nat /\ DOMAIN past = 1..Len(past)
  BY <1>1, LenProperties
<1>3. Len(past) # 0
  BY <1>1, EmptySeq
<1>4. past[Len(past)] \in [instr : Instructions, before : Machines]
  <2>1. Len(past) \in 1..Len(past)
    BY <1>2, <1>3
  <2> QED
    BY <1>1, <2>1, ElementOfSeq
<1> QED
  BY <1>2, <1>3, <1>4 DEF Ran, Was

\* What has been copied.
LEMMA CopiedOf ==
  ASSUME MovesExact, past # <<>>, ret = "ok", ~PopsESP, NEW to, NEW from,
         Copies(to, from) \subseteq Moves(Was, Ran)
  PROVE  \A b \in DOMAIN to : to[b][1] # "x" => Cell(Machine, to[b]) = Cell(Was, from[b])
<1>1. ASSUME NEW b \in DOMAIN to, to[b][1] # "x"
      PROVE  Cell(Machine, to[b]) = Cell(Was, from[b])
  <2> DEFINE c == <<to[b], from[b]>>
  <2>1. c \in Copies(to, from)
    BY DEF Copies
  <2>2. c \in Moves(Was, Ran) /\ c[1] = to[b] /\ c[2] = from[b]
    BY <2>1
  <2> HIDE DEF c
  <2>3. Cell(Machine, c[1]) = Cell(Was, c[2])
    BY <1>1, <2>2 DEF MovesExact
  <2> QED
    BY <2>2, <2>3
<1> QED
  BY <1>1

\* LEA, loads and stores reach the manual's address.
LEMMA AddressesFollow ==
  ASSUME Typed, MovesExact
  PROVE  AddressExact
<1>1. ASSUME Just({"LEA"}), ret = "ok", ~OtherDisp(Ran), NEW b \in 1..Ran.size
      PROVE  gpr[Rrr(Ran)][b] = Bytes(ManualOfs(Was, Ran), 4)[b]
  <2> DEFINE n == Ran.size
             r == Rrr(Ran)
             v == Bytes(GetMMM(Was, Ran).ofs, n)
  <2>1. past # <<>> /\ Ran.op = "LEA" /\ Mod(Ran) # 3
    BY <1>1 DEF Just, Typed
  <2>2. Ran \in Instructions /\ Was \in Machines /\ r \in Regs
    BY <2>1, LastType, FieldsAre
  <2>3. n \in {1, 2, 4} /\ (n = 1 => Ran.op \in ByteForms)
    BY <2>2, InstrIs
  <2>4. n \in {2, 4}
    BY <2>1, <2>3 DEF ByteForms
  <2>5. n \in 1..4 /\ n # 1 /\ b \in 1..n
    BY <1>1, <2>4
  <2>6. GetMMM(Was, Ran).ofs = ManualOfs(Was, Ran) /\ GetMMM(Was, Ran).ofs \in Nat
    BY <1>1, <2>1, <2>2, OffsetIs, AddressType
  <2>7. v \in Values(n) /\ v[b] = Bytes(ManualOfs(Was, Ran), 4)[b]
    <3> DEFINE x == GetMMM(Was, Ran).ofs
    <3>1. x \in Nat /\ v = Bytes(x, n) /\ ManualOfs(Was, Ran) = x
      BY <2>6
    <3> HIDE DEF x, n, v
    <3>2. Bytes(x, n) \in Values(n) /\ \A c \in 1..n : Bytes(x, n)[c] = Bytes(x, 4)[c]
      <4>1. x \in Nat /\ n \in 1..4 /\ 4 \in 1..4
        BY <2>5, <3>1
      <4> QED
        BY ZenonT(30), <4>1, BytesType
    <3> QED
      BY <2>5, <3>1, <3>2
  <2>8. Moves(Was, Ran) = Copies(RegCells(r, n), Lit(v))
    BY <2>1 DEF Moves, MovesOf
  <2>9. DOMAIN RegCells(r, n) = 1..n /\ RegCells(r, n)[b] = <<"r", r, b>>
    BY <2>2, <2>3, <2>5, RegCellsAre
  <2>10. ~PopsESP
    BY <2>1 DEF PopsESP
  <2>11. <<"r", r, b>>[1] # "x"
    OBVIOUS
  <2> DEFINE to == RegCells(r, n)
             from == Lit(v)
  <2>12. /\ Copies(to, from) \subseteq Moves(Was, Ran)
         /\ b \in DOMAIN to /\ to[b][1] # "x" /\ to[b] = <<"r", r, b>>
    BY <2>5, <2>8, <2>9, <2>11
  <2>13. from[b] = <<"v", v[b]>>
    BY <2>5, <2>7, LitHolds
  <2> HIDE DEF to, from, r, n, v
  <2>14. Cell(Machine, to[b]) = Cell(Was, from[b])
    BY <1>1, <2>1, <2>10, <2>12, CopiedOf
  <2>15. Cell(Machine, <<"r", r, b>>) = Machine.gpr[r][b] /\ Cell(Was, <<"v", v[b]>>) = v[b]
    <3>1. Cell(Machine, <<"r", r, b>>) = Machine.gpr[r][b]
      BY CellIs
    <3>2. Cell(Was, <<"v", v[b]>>) = v[b]
      BY CellIs
    <3> QED
      BY <3>1, <3>2
  <2>16. Machine.gpr = gpr
    BY MachineIs
  <2>17. gpr[r][b] = v[b]
    BY <2>12, <2>13, <2>14, <2>15, <2>16
  <2> QED
    BY <2>7, <2>17 DEF r
<1>2. ASSUME Just({"MOV_MR", "MOV_RM"}), ret = "ok", Mod(Ran) # 3,
             ~OtherSegment(Ran), ~OtherDisp(Ran), ~OtherAddr(Was, Ran), NEW b \in 1..Ran.size
      PROVE  LET cells == MemCells(ManualAddr(Was, Ran), Ran.size)
                 r == RegCells(Rrr(Ran), Ran.size)
             IN  IF Ran.op = "MOV_MR" THEN Cell(Machine, cells[b]) = Cell(Was, r[b])
                                      ELSE Cell(Machine, r[b]) = Cell(Was, cells[b])
  <2> DEFINE n == Ran.size
             ref == RefCells(DecodeModM(Was, Ran), n)
             cells == MemCells(ManualAddr(Was, Ran), n)
             r == RegCells(Rrr(Ran), n)
  <2>1. past # <<>> /\ Ran.op \in {"MOV_MR", "MOV_RM"} /\ ~PopsESP
    BY <1>2 DEF Just, PopsESP
  <2>2. Ran \in Instructions /\ Was \in Machines /\ Rrr(Ran) \in Regs
    BY <2>1, LastType, FieldsAre
  <2>3. n \in {1, 2, 4}
    BY <2>2, InstrIs
  <2>4. ref = cells
    BY <1>2, <2>2, OperandIs
  <2>5. DOMAIN r = 1..n /\ r[b][1] = "r"
    BY <1>2, <2>2, <2>3, RegCellsAre
  <2>6. DOMAIN cells = 1..n /\ cells[b][1] = "m"
    <3>1. DOMAIN cells = 1..n /\ cells[b] = <<"m", ManualAddr(Was, Ran) + b - 1>>
      BY <1>2 DEF MemCells
    <3> QED
      BY <3>1
  <2>7. CASE Ran.op = "MOV_MR"
    <3>1. Moves(Was, Ran) = Copies(ref, r)
      BY <2>7 DEF Moves, MovesOf
    <3>2. Copies(cells, r) \subseteq Moves(Was, Ran) /\ b \in DOMAIN cells /\ cells[b][1] # "x"
      BY <1>2, <2>4, <2>6, <3>1
    <3> HIDE DEF cells, r, n
    <3>3. Cell(Machine, cells[b]) = Cell(Was, r[b])
      BY <1>2, <2>1, <3>2, CopiedOf
    <3> QED
      BY <2>7, <3>3 DEF cells, r, n
  <2>8. CASE Ran.op = "MOV_RM"
    <3>1. Moves(Was, Ran) = Copies(r, ref)
      BY <2>8 DEF Moves, MovesOf
    <3>2. Copies(r, cells) \subseteq Moves(Was, Ran) /\ b \in DOMAIN r /\ r[b][1] # "x"
      BY <1>2, <2>4, <2>5, <3>1
    <3> HIDE DEF cells, r, n
    <3>3. Cell(Machine, r[b]) = Cell(Was, cells[b])
      BY <1>2, <2>1, <3>2, CopiedOf
    <3> QED
      BY <2>8, <3>3 DEF cells, r, n
  <2> QED
    BY <2>1, <2>7, <2>8
<1> QED
  BY <1>1, <1>2 DEF AddressExact

\* LEA, loads and stores reach the address of the manual for every ModRM byte and
\* every content of the registers, but for the forms in which RME_Int_ParseModRM
\* departs from it: OtherDisp (32-bit displacements that are negative as a byte,
\* wide, or next to a SIB byte) and, for loads and stores, OtherSegment (the
\* segment of some addresses on the stack) and OtherAddr (an offset past the
\* segment's end, an address past 1 MB).
THEOREM AddressesAreExact == Spec => []AddressExact
<1>1. MovesInv => AddressExact
  BY AddressesFollow DEF MovesInv
<1> QED
  BY <1>1, MovesAlways, PTL

-----------------------------------------------------------------------------
(* Two instructions in a row.                                              *)

\* n is m after i: MovesExact of an instruction that is not the last one.
Effect(m, i, n) ==
  LET moves == Moves(m, i)
      sp == Bytes((W(m, SP) + SPChange(i)) % Word, 2)
  IN  /\ \A c \in moves : c[1][1] # "x" => Cell(n, c[1]) = Cell(m, c[2])
      /\ \A b \in 1..2 : SPCells[b] \in Dst(moves) \/ n.gpr[SP][b] = sp[b]
      /\ \A k \in Regs, b \in 1..4 :
            <<"r", k, b>> \notin Dst(moves) \cup Range(SPCells) => n.gpr[k][b] = m.gpr[k][b]
      /\ \A k \in 0..5, b \in 1..2 : <<"s", k, b>> \notin Dst(moves) => n.seg[k][b] = m.seg[k][b]

\* The inductive invariant: the effect of the last instruction but one, too.
Before == past[Len(past) - 1]
PairsESP(i) == i.op = "POP_Reg" /\ i.param = SP /\ Wide(i)
PairExact == Len(past) > 1 /\ ~PairsESP(Before.instr) => Effect(Before.before, Before.instr, Was)
PairsInv == MovesInv /\ PairExact

\* What the last instruction did.
LEMMA LastEffect ==
  ASSUME Typed, MovesExact, past # <<>>, ret = "ok", ~PopsESP
  PROVE  Effect(Was, Ran, Machine)
<1> DEFINE moves == Moves(Was, Ran)
           dst == {c[1] : c \in moves}
           sp == Bytes((W(Was, SP) + SPChange(Ran)) % Word, 2)
           all == Cells \ (dst \cup Range(SPCells))
<1>1. /\ \A c \in moves : c[1][1] # "x" => Cell(Machine, c[1]) = Cell(Was, c[2])
      /\ \A b \in 1..2 : SPCells[b] \in dst \/ gpr[SP][b] = sp[b]
      /\ \A c \in all : Cell(Machine, c) = Cell(Was, c)
  BY DEF MovesExact, Kept
<1>2. Machine.gpr = gpr /\ Machine.seg = seg
  BY MachineIs
<1>3. dst = Dst(moves)
  BY DEF Dst
<1> HIDE DEF moves, dst, sp
<1>4. ASSUME NEW k \in Regs, NEW b \in 1..4, <<"r", k, b>> \notin dst \cup Range(SPCells)
      PROVE  Machine.gpr[k][b] = Was.gpr[k][b]
  <2>1. <<"r", k, b>> \in Cells
    BY DEF Cells
  <2>2. Cell(Machine, <<"r", k, b>>) = Cell(Was, <<"r", k, b>>)
    BY <1>1, <1>4, <2>1
  <2> QED
    BY <2>2, CellIs
<1>5. ASSUME NEW k \in 0..5, NEW b \in 1..2, <<"s", k, b>> \notin dst
      PROVE  Machine.seg[k][b] = Was.seg[k][b]
  <2>1. <<"s", k, b>> \in Cells
    BY DEF Cells
  <2>2. <<"s", k, b>> \notin Range(SPCells)
    <3>1. Range(SPCells) = CellsOf(SPCells)
      BY DEF Range, CellsOf
    <3>2. <<"s", k, b>> # <<"r", SP, 1>> /\ <<"s", k, b>> # <<"r", SP, 2>>
      OBVIOUS
    <3> QED
      BY <3>1, <3>2, SPCellsAre
  <2>3. Cell(Machine, <<"s", k, b>>) = Cell(Was, <<"s", k, b>>)
    BY <1>1, <1>5, <2>1, <2>2
  <2> QED
    BY <2>3, CellIs
<1>6. \A b \in 1..2 : SPCells[b] \in dst \/ Machine.gpr[SP][b] = sp[b]
  BY <1>1, <1>2
<1> QED
  BY <1>1, <1>3, <1>4, <1>5, <1>6 DEF Effect, moves, sp

\* Every step does one instruction.
LEMMA NextAppends ==
  ASSUME Next
  PROVE  prog # <<>> /\ ret = "ok" /\ past' = Append(past, [instr |-> Instr, before |-> Machine])
<1> DEFINE Goes == past' = Append(past, [instr |-> Instr, before |-> Machine])
<1>3. CASE MOV_MR \/ MOV_RM \/ MOV_MI \/ MOV_AMo \/ MOV_MoA \/ MOV_RS \/ MOV_SR \/ MOV_Reg
  BY <1>3 DEF MOV_MR, MOV_RM, MOV_MI, MOV_AMo, MOV_MoA, MOV_RS, MOV_SR, MOV_Reg, Runs, Done, DoneAt
<1>4. CASE MOV_Z \/ MOV_ZX \/ XCHG_RM \/ XCHG_Reg \/ XLAT
  BY <1>4 DEF MOV_Z, MOV_ZX, XCHG_RM, XCHG_Reg, XLAT, Runs, Done, DoneAt
<1>5. CASE LxS \/ LEA
  BY <1>5 DEF LxS, LEA, Runs, Done, DoneAt
<1>6. CASE PUSH_Seg \/ PUSH_Reg \/ PUSH_A \/ PUSH_I \/ PUSH_I8 \/ Unary_PUSH
  BY <1>6 DEF PUSH_Seg, PUSH_Reg, PUSH_A, PUSH_I, PUSH_I8, Unary_PUSH, Runs, Done, DoneAt
<1>7. CASE POP_Seg \/ POP_Reg \/ POP_A \/ POP_MX
  BY <1>7 DEF POP_Seg, POP_Reg, POP_A, POP_MX, Runs, Done, DoneAt
<1>8. CASE Unary_INC \/ Unary_DEC
  BY <1>8 DEF Unary_INC, Unary_DEC, Unary_IncDec, Runs, Done, DoneAt
<1>9. CASE Unary_CALL_N \/ Unary_JMP_N
  BY <1>9 DEF Unary_CALL_N, Unary_JMP_N, Runs, Done, DoneAt
<1>10. CASE Unary_CALL_F \/ Unary_JMP_F
  BY <1>10 DEF Unary_CALL_F, Unary_JMP_F, FarTransfer, Runs, Done, DoneAt
<1>11. prog # <<>> /\ ret = "ok" /\ Goes
  BY <1>3, <1>4, <1>5, <1>6, <1>7, <1>8, <1>9, <1>10 DEF Next
<1> QED
  BY <1>11 DEF Goes

\* The invariant of pairs.
LEMMA PairsStart ==
  ASSUME Init
  PROVE  PairsInv
<1>1. past = <<>>
  BY DEF Init
<1>2. Len(past) = 0
  BY <1>1
<1> QED
  BY <1>2, MovesStart DEF PairsInv, PairExact

\* A step keeps what is known of the last two instructions.
LEMMA PairsStep ==
  ASSUME PairsInv, [Next]_vars
  PROVE  PairsInv'
<1>1. Typed /\ MovesExact
  BY DEF PairsInv, MovesInv
<1>2. MovesInv'
  BY MovesStep DEF PairsInv
<1>3. CASE UNCHANGED vars
  <2>1. past' = past
    BY <1>3 DEF vars
  <2>2. PairExact'
    <3>1. Was' = Was /\ Before' = Before /\ Len(past') = Len(past)
      BY <2>1 DEF Was, Before
    <3> DEFINE m == Before.before
               i == Before.instr
    <3>2. ASSUME Len(past) > 1 /\ ~PairsESP(i)
          PROVE  Effect(m, i, Was')
      BY <3>1, <3>2 DEF PairsInv, PairExact
    <3>3. m' = m /\ i' = i
      BY <3>1
    <3>4. Len(past') > 1 /\ ~PairsESP(i') => Effect(m', i', Was')
      BY <3>1, <3>2, <3>3
    <3> QED
      BY <3>4 DEF PairExact, PairsESP, Effect, Wide, Dst, Regs
  <2> QED
    BY <1>2, <2>2 DEF PairsInv
<1>4. CASE Next
  <2> DEFINE e == [instr |-> Instr, before |-> Machine]
  <2>1. prog # <<>> /\ ret = "ok" /\ past' = Append(past, e)
    BY <1>4, NextAppends
  <2>3. e \in [instr : Instructions, before : Machines] /\ e.before = Machine
    BY <1>1, <2>1, MachineIs, InstrType
  <2> HIDE DEF e
  <2>4. /\ past'[Len(past')] = e /\ Len(past') = Len(past) + 1 /\ Len(past) \in Nat
        /\ \A k \in 1..Len(past) : past'[k] = past[k]
    BY <1>1, <2>1, <2>3, LastIs
  <2>5. Was' = Machine
    BY <2>3, <2>4 DEF Was
  <2>6. ASSUME Len(past') > 1
        PROVE  Before' = past[Len(past)] /\ past # <<>>
    <3>1. Len(past) \in 1..Len(past) /\ Len(past') - 1 = Len(past)
      BY <2>4, <2>6
    <3>2. past'[Len(past') - 1] = past[Len(past)]
      BY <2>4, <3>1
    <3>3. past # <<>>
      BY <3>1
    <3> QED
      BY <3>2, <3>3 DEF Before
  <2>7. PairExact'
    <3> SUFFICES ASSUME Len(past') > 1, ~PairsESP(Before.instr)'
                 PROVE  Effect(Before.before, Before.instr, Was)'
      BY DEF PairExact
    <3>1. Before.instr' = Ran /\ Before.before' = Was /\ past # <<>>
      BY <2>6 DEF Ran, Was
    <3>2. ~PopsESP
      BY <3>1 DEF PopsESP, PairsESP, Wide
    <3>3. Effect(Was, Ran, Machine)
      BY <1>1, <2>1, <3>1, <3>2, LastEffect
    <3> QED
      BY <2>5, <3>1, <3>3 DEF Effect, Dst, Moves
  <2> QED
    BY <1>2, <2>7 DEF PairsInv
<1> QED
  BY <1>3, <1>4

\* What an instruction in between has copied.
LEMMA EffectCopies ==
  ASSUME NEW m, NEW i, NEW n, Effect(m, i, n), NEW to, NEW from, Copies(to, from) \subseteq Moves(m, i),
         NEW b \in DOMAIN to, to[b][1] # "x"
  PROVE  Cell(n, to[b]) = Cell(m, from[b])
<1> DEFINE c == <<to[b], from[b]>>
<1>1. c \in Copies(to, from)
  BY DEF Copies
<1>2. c \in Moves(m, i) /\ c[1] = to[b] /\ c[2] = from[b]
  BY <1>1
<1> HIDE DEF c
<1>3. Cell(n, c[1]) = Cell(m, c[2])
  BY <1>2 DEF Effect
<1> QED
  BY <1>2, <1>3

\* SP after an instruction that does not copy to it, and the rest of ESP.
LEMMA EffectSP ==
  ASSUME NEW m \in Machines, NEW i, NEW n \in Machines, Effect(m, i, n), NEW by \in Int, SPChange(i) = by,
         \A b \in 1..4 : <<"r", SP, b>> \notin Dst(Moves(m, i))
  PROVE  /\ W(n, SP) = (W(m, SP) + by) % Word
         /\ \A b \in 3..4 : n.gpr[SP][b] = m.gpr[SP][b]
<1> DEFINE x == (W(m, SP) + by) % Word
<1>1. SP \in Regs /\ 1 \in 1..4 /\ 2 \in 1..4
  BY DEF SP, Regs
<1>2. x \in Offsets
  <2>1. W(m, SP) \in Int
    BY <1>1, Holding DEF Offsets
  <2> DEFINE y == W(m, SP) + by
  <2>2. y \in Int
    BY <2>1
  <2> HIDE DEF y
  <2>3. y % Word \in Offsets
    BY <2>2, SMT DEF Offsets, Word
  <2> QED
    BY <2>3 DEF y
<1>3. \A b \in 1..2 : n.gpr[SP][b] = Bytes(x, 2)[b]
  <2> HIDE DEF x
  <2>1. \A b \in 1..2 : SPCells[b] \in Dst(Moves(m, i)) \/ n.gpr[SP][b] = Bytes(x, 2)[b]
    BY DEF Effect, x
  <2>2. SPCells[1] \notin Dst(Moves(m, i)) /\ SPCells[2] \notin Dst(Moves(m, i))
    BY <1>1, SPCellsAre
  <2> QED
    BY <2>1, <2>2
<1>4. W(n, SP) = Num(Bytes(x, 2))
  <2> HIDE DEF x
  <2> QED
    BY <1>3 DEF W, Num
<1>5. Num(Bytes(x, 2)) = x
  <2> HIDE DEF x
  <2> QED
    BY <1>2, WordOfBytes
<1>6. ASSUME NEW b \in 3..4
      PROVE  n.gpr[SP][b] = m.gpr[SP][b]
  <2>1. b \in 1..4
    OBVIOUS
  <2>2. Range(SPCells) = {<<"r", SP, 1>>, <<"r", SP, 2>>}
    <3>1. Range(SPCells) = CellsOf(SPCells)
      BY DEF Range, CellsOf
    <3> QED
      BY <3>1, SPCellsAre
  <2>3. <<"r", SP, b>> # <<"r", SP, 1>> /\ <<"r", SP, b>> # <<"r", SP, 2>>
    OBVIOUS
  <2>4. <<"r", SP, b>> \notin Dst(Moves(m, i)) \cup Range(SPCells)
    BY <2>1, <2>2, <2>3
  <2> QED
    BY <1>1, <2>1, <2>4 DEF Effect
<1> QED
  BY <1>4, <1>5, <1>6

\* Other registers, and the segments.
RegsKept(m, n, dst) ==
  \A k \in Regs, b \in 1..4 : k # SP /\ <<"r", k, b>> \notin dst => n.gpr[k][b] = m.gpr[k][b]
SegsKept(m, n, dst) == \A k \in 0..5, b \in 1..2 : <<"s", k, b>> \notin dst => n.seg[k][b] = m.seg[k][b]

\* What an instruction leaves alone.
LEMMA EffectRest ==
  ASSUME NEW m, NEW i, NEW n, Effect(m, i, n)
  PROVE  RegsKept(m, n, Dst(Moves(m, i))) /\ SegsKept(m, n, Dst(Moves(m, i)))
<1>1. Range(SPCells) = {<<"r", SP, 1>>, <<"r", SP, 2>>}
  <2>1. Range(SPCells) = CellsOf(SPCells)
    BY DEF Range, CellsOf
  <2> QED
    BY <2>1, SPCellsAre
<1>2. ASSUME NEW k \in Regs, NEW b \in 1..4, k # SP, <<"r", k, b>> \notin Dst(Moves(m, i))
      PROVE  n.gpr[k][b] = m.gpr[k][b]
  <2>1. <<"r", k, b>> # <<"r", SP, 1>> /\ <<"r", k, b>> # <<"r", SP, 2>>
    BY <1>2
  <2>2. <<"r", k, b>> \notin Dst(Moves(m, i)) \cup Range(SPCells)
    BY <1>1, <1>2, <2>1
  <2> QED
    BY <2>2 DEF Effect
<1>3. \A k \in 0..5, b \in 1..2 : <<"s", k, b>> \notin Dst(Moves(m, i)) => n.seg[k][b] = m.seg[k][b]
  BY DEF Effect
<1> QED
  BY <1>2, <1>3 DEF RegsKept, SegsKept

\* The words on the stack, seen from where SP is now.
LEMMA StackShift ==
  ASSUME NEW m \in Machines, NEW n \in Machines, NEW by \in -16..16, NEW k \in -16..16,
         W(n, SP) = (W(m, SP) + by) % Word, \A b \in 1..2 : n.seg[SS][b] = m.seg[SS][b]
  PROVE  StackCells(n, k) = StackCells(m, by + k)
<1>1. SP \in Regs
  BY DEF SP, Regs
<1>2. W(m, SP) \in Offsets
  BY <1>1, Holding
<1>3. Num(n.seg[SS]) = Num(m.seg[SS])
  BY DEF Num
<1> DEFINE x == W(m, SP)
<1> HIDE DEF x
<1>4. x \in Int
  BY <1>2 DEF Offsets, x
<1>5. (((x + by) % 65536) + k) % 65536 = (x + (by + k)) % 65536
  BY <1>4, SMT
<1>6. (W(n, SP) + k) % Word = (W(m, SP) + (by + k)) % Word
  BY <1>5 DEF x, Word
<1> QED
  BY <1>3, <1>6 DEF StackCells

\* A push keeps registers and segments.
LEMMA PushEffect ==
  ASSUME NEW m \in Machines, NEW i, NEW n \in Machines, Effect(m, i, n), NEW by \in -16..16, SPChange(i) = by,
         \A c \in Moves(m, i) : c[1][1] = "m"
  PROVE  /\ W(n, SP) = (W(m, SP) + by) % Word
         /\ \A b \in 3..4 : n.gpr[SP][b] = m.gpr[SP][b]
         /\ \A k \in Regs, b \in 1..4 : k # SP => n.gpr[k][b] = m.gpr[k][b]
         /\ \A k \in -16..16 : StackCells(n, k) = StackCells(m, by + k)
<1>1. \A x, y : <<"r", x, y>> \notin Dst(Moves(m, i)) /\ <<"s", x, y>> \notin Dst(Moves(m, i))
  <2> DEFINE moves == Moves(m, i)
  <2>1. \A c \in moves : c[1][1] = "m"
    OBVIOUS
  <2> HIDE DEF moves
  <2>2. \A c \in moves : \A x, y : <<"r", x, y>> # c[1] /\ <<"s", x, y>> # c[1]
    <3>1. \A x, y : <<"r", x, y>>[1] = "r" /\ <<"s", x, y>>[1] = "s"
      OBVIOUS
    <3>2. "r" # "m" /\ "s" # "m"
      OBVIOUS
    <3> QED
      BY <2>1, <3>1, <3>2
  <2> QED
    BY <2>2 DEF Dst, moves
<1>2. by \in Int /\ SS \in 0..5
  BY DEF SS
<1>3. W(n, SP) = (W(m, SP) + by) % Word /\ \A b \in 3..4 : n.gpr[SP][b] = m.gpr[SP][b]
  BY <1>1, <1>2, EffectSP
<1> DEFINE dst == Dst(Moves(m, i))
<1>6. RegsKept(m, n, dst) /\ SegsKept(m, n, dst)
  BY EffectRest
<1>7. \A x, y : <<"r", x, y>> \notin dst /\ <<"s", x, y>> \notin dst
  BY <1>1
<1> HIDE DEF dst
<1>4. \A k \in Regs, b \in 1..4 : k # SP => n.gpr[k][b] = m.gpr[k][b]
  BY <1>6, <1>7 DEF RegsKept
<1>5. \A b \in 1..2 : n.seg[SS][b] = m.seg[SS][b]
  BY <1>2, <1>6, <1>7 DEF SegsKept
<1> QED
  BY <1>3, <1>4, <1>5, StackShift

\* After a push and a pop of as much SP is where it was.
LEMMA SPRestored ==
  ASSUME NEW m \in Machines, NEW n \in Machines, NEW l \in Machines, NEW by \in -16..16, NEW back \in Int, back = 0 - by,
         W(n, SP) = (W(m, SP) + by) % Word, \A b \in 3..4 : n.gpr[SP][b] = m.gpr[SP][b],
         NEW j, Effect(n, j, l), SPChange(j) = back,
         \A b \in 1..4 : <<"r", SP, b>> \notin Dst(Moves(n, j))
  PROVE  l.gpr[SP] = m.gpr[SP]
<1>1. SP \in Regs
  BY DEF SP, Regs
<1>2. W(l, SP) = (W(n, SP) + back) % Word /\ \A b \in 3..4 : l.gpr[SP][b] = n.gpr[SP][b]
  BY EffectSP
<1>3. W(m, SP) \in Offsets
  BY <1>1, Holding
<1>4. W(l, SP) = W(m, SP)
  <2> DEFINE x == W(m, SP)
  <2> HIDE DEF x
  <2>1. (((x + by) % 65536) + back) % 65536 = x
    BY <1>3, SMT DEF Offsets, x
  <2> QED
    BY <1>2, <2>1 DEF x, Word
<1>5. \A b \in 1..2 : l.gpr[SP][b] = m.gpr[SP][b]
  BY <1>1, <1>4, BytesOfReg
<1>6. \A b \in 1..4 : l.gpr[SP][b] = m.gpr[SP][b]
  <2>1. \A b \in 1..4 : b \in 1..2 \/ b \in 3..4
    OBVIOUS
  <2> QED
    BY <1>2, <1>5, <2>1
<1>7. l.gpr[SP] \in Values(4) /\ m.gpr[SP] \in Values(4)
  BY <1>1, Holding
<1> QED
  BY <1>6, <1>7 DEF Values

\* A push writes memory only.
LEMMA StackDst ==
  ASSUME NEW m, NEW k, NEW from
  PROVE  \A c \in Copies(StackCells(m, k), from) : c[1][1] = "m"
<1>1. ASSUME NEW c \in Copies(StackCells(m, k), from)
      PROVE  c[1][1] = "m"
  <2>1. PICK b \in DOMAIN StackCells(m, k) : c[1] = StackCells(m, k)[b]
    BY CopiesAre
  <2> DEFINE a == Linear(Num(m.seg[SS]), (W(m, SP) + k) % Word)
  <2>2. StackCells(m, k) = [d \in 1..2 |-> <<"m", a + d - 1>>]
    BY DEF StackCells, MemCells
  <2> HIDE DEF a
  <2>3. c[1] = <<"m", a + b - 1>>
    BY <2>1, <2>2
  <2> QED
    BY <2>3
<1> QED
  BY <1>1

\* The cells above the stack pointer are two bytes of memory.
LEMMA StackDomain ==
  ASSUME NEW m, NEW k
  PROVE  DOMAIN StackCells(m, k) = 1..2 /\ \A b \in 1..2 : StackCells(m, k)[b][1] # "x"
<1> DEFINE a == Linear(Num(m.seg[SS]), (W(m, SP) + k) % Word)
<1>1. StackCells(m, k) = [d \in 1..2 |-> <<"m", a + d - 1>>]
  BY DEF StackCells, MemCells
<1> HIDE DEF a
<1>2. \A b \in 1..2 : StackCells(m, k)[b] = <<"m", a + b - 1>>
  BY <1>1
<1>3. \A b \in 1..2 : <<"m", a + b - 1>>[1] # "x"
  OBVIOUS
<1>4. \A b \in 1..2 : StackCells(m, k)[b][1] # "x"
  BY <1>2, <1>3
<1> QED
  BY <1>1, <1>4

\* A segment register that is popped gets what another one pushed.
LEMMA SegPair ==
  ASSUME NEW m \in Machines, NEW i, NEW n \in Machines, NEW j, NEW l \in Machines,
         Effect(m, i, n), Effect(n, j, l), i.op = "PUSH_Seg", j.op = "POP_Seg",
         i.param \in 0..5, j.param \in 0..5
  PROVE  l.seg[j.param] = m.seg[i.param] /\ l.gpr[SP] = m.gpr[SP]
<1> DEFINE p == i.param
           q == j.param
<1>1. Moves(m, i) = Copies(StackCells(m, -2), SegCells(p)) /\ SPChange(i) = -2
  BY DEF Moves, MovesOf, SPChange
<1>2. Moves(n, j) = Copies(SegCells(q), StackCells(n, 0)) /\ SPChange(j) = 2
  BY DEF Moves, MovesOf, SPChange
<1>3. -2 \in -16..16 /\ 0 \in -16..16 /\ -2 + 0 = -2 /\ 2 \in Int /\ 2 = 0 - (-2)
  OBVIOUS
<1>4. \A c \in Moves(m, i) : c[1][1] = "m"
  <2>1. \A c \in Copies(StackCells(m, -2), SegCells(p)) : c[1][1] = "m"
    BY StackDst
  <2> QED
    BY <1>1, <2>1
<1>5. /\ W(n, SP) = (W(m, SP) + -2) % Word
      /\ \A b \in 3..4 : n.gpr[SP][b] = m.gpr[SP][b]
      /\ \A k \in -16..16 : StackCells(n, k) = StackCells(m, -2 + k)
  BY <1>1, <1>3, <1>4, PushEffect
<1>6. StackCells(n, 0) = StackCells(m, -2)
  BY <1>3, <1>5
<1>7. /\ DOMAIN SegCells(q) = 1..2
      /\ \A b \in 1..2 : SegCells(q)[b] = <<"s", q, b>> /\ SegCells(q)[b][1] = "s" /\ SegCells(p)[b] = <<"s", p, b>>
  BY SegCellsAre
<1>8. \A b \in 1..4 : <<"r", SP, b>> \notin Dst(Moves(n, j))
  <2>1. Dst(Moves(n, j)) = CellsOf(SegCells(q))
    BY <1>2, CopiesAre
  <2>2. \A b \in 1..4, c \in 1..2 : <<"r", SP, b>> # <<"s", q, c>>
    OBVIOUS
  <2> QED
    BY <1>7, <2>1, <2>2 DEF CellsOf
<1>9. l.gpr[SP] = m.gpr[SP]
  BY ZenonT(30), <1>2, <1>3, <1>5, <1>8, SPRestored
<1>10. ASSUME NEW b \in 1..2
       PROVE  l.seg[q][b] = m.seg[p][b]
  <2> DEFINE top == StackCells(m, -2)
             to == SegCells(q)
             from == SegCells(p)
  <2>1. DOMAIN top = 1..2 /\ top[b][1] # "x"
    BY StackDomain
  <2>2. b \in DOMAIN to /\ to[b][1] # "x" /\ b \in DOMAIN top /\ to[b] = <<"s", q, b>> /\ from[b] = <<"s", p, b>>
    BY <1>7, <2>1
  <2>3. Copies(to, top) \subseteq Moves(n, j) /\ Copies(top, from) \subseteq Moves(m, i)
    BY <1>1, <1>2, <1>6
  <2> HIDE DEF top, to, from
  <2>4. Cell(l, to[b]) = Cell(n, top[b])
    BY <2>2, <2>3, EffectCopies
  <2>5. Cell(n, top[b]) = Cell(m, from[b])
    BY <2>1, <2>2, <2>3, EffectCopies
  <2>6. Cell(l, <<"s", q, b>>) = l.seg[q][b]
    BY CellIs
  <2>7. Cell(m, <<"s", p, b>>) = m.seg[p][b]
    BY CellIs
  <2> QED
    BY <2>2, <2>4, <2>5, <2>6, <2>7
<1>11. l.seg[q] \in Values(2) /\ m.seg[p] \in Values(2)
  BY Holding
<1> HIDE DEF p, q
<1>12. l.seg[q] = m.seg[p]
  BY <1>10, <1>11 DEF Values
<1> QED
  BY <1>9, <1>12 DEF p, q

\* The cells of a register that a PUSH copies to the stack.
LEMMA PushedHalves ==
  ASSUME NEW m \in Machines, NEW i, i.op = "PUSH_Reg", i.param \in Regs, i.param # SP, i.size \in {2, 4}
  PROVE  /\ \E low : /\ Copies(StackCells(m, -i.size), low) \subseteq Moves(m, i)
                     /\ \A b \in 1..2 : low[b] = <<"r", i.param, b>>
         /\ i.size = 4 => \E high : /\ Copies(StackCells(m, -2), high) \subseteq Moves(m, i)
                                    /\ \A b \in 1..2 : high[b] = <<"r", i.param, 2 + b>>
         /\ \A c \in Moves(m, i) : c[1][1] = "m"
<1> DEFINE n == i.size
           p == RegCells(i.param, n)
           low == SubSeq(p, 1, 2)
           A == Copies(StackCells(m, -n), low)
           B == IF n = 4 THEN Copies(StackCells(m, -2), Upper(p)) ELSE {}
<1>1. Moves(m, i) = A \cup B
  BY DEF Moves, MovesOf
<1>2. n \in {1, 2, 4} /\ n \in 1..4 /\ n # 1 /\ \A b \in 1..2 : b \in 1..n
  OBVIOUS
<1>3. DOMAIN p = 1..n /\ \A b \in 1..n : p[b] = <<"r", i.param, b>>
  BY <1>2, RegCellsAre
<1>4. IsCells(p, n)
  <2>1. p = [b \in 1..n |-> <<"r", i.param, b>>]
    BY <1>2 DEF RegCells
  <2> QED
    BY <2>1 DEF IsCells
<1> HIDE DEF p
<1>5. \A b \in 1..2 : low[b] = <<"r", i.param, b>>
  <2>1. 1 \in 1..3 /\ 1 + 1 = 2 /\ \A b \in 1..2 : 1 + b - 1 = b
    OBVIOUS
  <2>2. \A b \in 1..2 : SubSeq(p, 1, 1 + 1)[b] = p[1 + b - 1]
    BY <1>2, <1>4, <2>1, PartOfCells
  <2>3. \A b \in 1..2 : low[b] = p[b]
    BY <2>1, <2>2
  <2> QED
    BY <1>2, <1>3, <2>3
<1>6. ASSUME n = 4
      PROVE  \A b \in 1..2 : Upper(p)[b] = <<"r", i.param, 2 + b>>
  <2>1. IsCells(p, 4)
    BY <1>4, <1>6
  <2>2. \A b \in 1..2 : Upper(p)[b] = p[2 + b]
    BY <2>1, UpperIs
  <2>3. \A b \in 1..2 : 2 + b \in 1..n
    BY <1>6
  <2> QED
    BY <1>3, <2>2, <2>3
<1>7. \A c \in A : c[1][1] = "m"
  BY StackDst
<1>8. \A c \in B : c[1][1] = "m"
  <2>1. \A c \in Copies(StackCells(m, -2), Upper(p)) : c[1][1] = "m"
    BY StackDst
  <2> QED
    BY <2>1
<1> HIDE DEF low, A
<1>9. \E s : Copies(StackCells(m, -n), s) \subseteq Moves(m, i) /\ \A b \in 1..2 : s[b] = <<"r", i.param, b>>
  <2>1. Copies(StackCells(m, -n), low) \subseteq Moves(m, i)
    BY <1>1 DEF A
  <2> QED
    BY <1>5, <2>1
<1>10. ASSUME n = 4
       PROVE  \E s : Copies(StackCells(m, -2), s) \subseteq Moves(m, i) /\ \A b \in 1..2 : s[b] = <<"r", i.param, 2 + b>>
  <2> DEFINE high == Upper(p)
  <2>1. Copies(StackCells(m, -2), high) \subseteq Moves(m, i)
    BY <1>1, <1>10
  <2>2. \A b \in 1..2 : high[b] = <<"r", i.param, 2 + b>>
    BY <1>6, <1>10
  <2> HIDE DEF high
  <2> QED
    BY <2>1, <2>2
<1>11. \A c \in Moves(m, i) : c[1][1] = "m"
  BY <1>1, <1>7, <1>8
<1> QED
  BY <1>9, <1>10, <1>11

\* Values of the same bytes are the same.
LEMMA SameValues ==
  ASSUME NEW k, NEW x \in Values(k), NEW y \in Values(k), \A b \in 1..k : x[b] = y[b]
  PROVE  x = y
<1> DEFINE A == 1..k
<1>1. x \in [A -> Byte] /\ y \in [A -> Byte] /\ \A b \in A : x[b] = y[b]
  BY DEF Values
<1> HIDE DEF A
<1> QED
  BY <1>1

\* A register that is popped gets what another one pushed.
LEMMA RegPair ==
  ASSUME NEW m \in Machines, NEW i, NEW n \in Machines, NEW j, NEW l \in Machines,
         Effect(m, i, n), Effect(n, j, l), i.op = "PUSH_Reg", j.op = "POP_Reg", i.size = j.size,
         i.size \in {2, 4}, i.param \in Regs, j.param \in Regs, i.param # SP, j.param # SP
  PROVE  ReadReg(l, j.param, i.size) = ReadReg(m, i.param, i.size) /\ l.gpr[SP] = m.gpr[SP]
<1> DEFINE p == i.param
           q == j.param
           k == i.size
           to == RegCells(q, k)
           s == StackCells(n, 0)
           t == StackCells(n, 2)
           f == s \o t
           by == 0 - k
<1>1. Moves(n, j) = Copies(to, f) /\ SPChange(j) = k /\ SPChange(i) = by
  <2>1. SPChange(i) = -k
    BY DEF SPChange
  <2>2. SPChange(j) = k /\ Moves(n, j) = Copies(to, f)
    BY DEF Moves, MovesOf, SPChange
  <2>3. -k = 0 - k
    OBVIOUS
  <2> QED
    BY <2>1, <2>2, <2>3
<1>2. k \in {1, 2, 4} /\ k # 1 /\ k \in 1..4 /\ k \in Int /\ by \in -16..16 /\ k = 0 - by /\ by + 0 = -k
      /\ (k = 4 => by + 2 = -2) /\ 0 \in -16..16 /\ 2 \in -16..16
  OBVIOUS
<1>3. \A c \in Moves(m, i) : c[1][1] = "m"
  BY PushedHalves
<1>4. /\ W(n, SP) = (W(m, SP) + by) % Word
      /\ \A b \in 3..4 : n.gpr[SP][b] = m.gpr[SP][b]
      /\ \A d \in -16..16 : StackCells(n, d) = StackCells(m, by + d)
  <2> DEFINE R == /\ W(n, SP) = (W(m, SP) + by) % Word
                  /\ \A b \in 3..4 : n.gpr[SP][b] = m.gpr[SP][b]
                  /\ \A d \in Regs, b \in 1..4 : d # SP => n.gpr[d][b] = m.gpr[d][b]
                  /\ \A d \in -16..16 : StackCells(n, d) = StackCells(m, by + d)
  <2>1. by \in -16..16 /\ SPChange(i) = by
    BY <1>1, <1>2
  <2> HIDE DEF by
  <2>2. R
    BY SMTT(60), <1>3, <2>1, PushEffect DEF R
  <2> QED
    BY <2>2 DEF R
<1>5. s = StackCells(m, -k) /\ (k = 4 => t = StackCells(m, -2))
  <2>1. s = StackCells(m, by + 0) /\ t = StackCells(m, by + 2)
    BY <1>2, <1>4
  <2> QED
    BY <1>2, <2>1
<1>6. DOMAIN to = 1..k /\ \A b \in 1..k : to[b] = <<"r", q, b>>
  BY <1>2, RegCellsAre
<1>7. \A b \in 1..4 : <<"r", SP, b>> \notin Dst(Moves(n, j))
  <2>1. Dst(Moves(n, j)) = CellsOf(to)
    BY <1>1, CopiesAre
  <2>2. \A b \in 1..4, c \in 1..k : <<"r", SP, b>> # <<"r", q, c>>
    OBVIOUS
  <2> HIDE DEF to
  <2> QED
    BY <1>6, <2>1, <2>2 DEF CellsOf
<1>8. l.gpr[SP] = m.gpr[SP]
  <2> HIDE DEF by
  <2> QED
    BY <1>1, <1>2, <1>4, <1>7, SPRestored
<1>9. /\ \A b \in 1..2 : f[b] = s[b] /\ f[2 + b] = t[b]
      /\ DOMAIN s = 1..2 /\ DOMAIN t = 1..2 /\ \A b \in 1..2 : s[b][1] # "x" /\ t[b][1] # "x"
  <2>1. Joined(f, s, 2, t, 2)
    BY TopCells
  <2>2. DOMAIN s = 1..2 /\ DOMAIN t = 1..2 /\ \A b \in 1..2 : s[b][1] # "x" /\ t[b][1] # "x"
    BY StackDomain
  <2> HIDE DEF f, s, t
  <2> QED
    BY <2>1, <2>2 DEF Joined
<1>10. Copies(to, f) \subseteq Moves(n, j) /\ \A b \in 1..k : to[b][1] # "x"
  <2>1. \A b \in 1..k : to[b][1] # "x"
    <3>1. \A b \in 1..k : to[b][1] = "r"
      BY <1>2, RegCellsAre
    <3> QED
      BY <3>1
  <2> QED
    BY <1>1, <2>1
<1>11. PICK low : /\ Copies(StackCells(m, -i.size), low) \subseteq Moves(m, i)
                  /\ \A b \in 1..2 : low[b] = <<"r", i.param, b>>
  BY PushedHalves
<1>12. Copies(s, low) \subseteq Moves(m, i) /\ \A b \in 1..2 : low[b] = <<"r", p, b>>
  BY <1>5, <1>11
<1> HIDE DEF s, t, f, to
<1>13. ASSUME NEW b \in 1..2
       PROVE  l.gpr[q][b] = m.gpr[p][b]
  <2>1. b \in 1..k /\ b \in DOMAIN to /\ b \in DOMAIN s
    BY <1>2, <1>6, <1>9
  <2>2. Cell(l, to[b]) = Cell(n, f[b])
    BY <1>10, <2>1, EffectCopies
  <2>3. Cell(n, s[b]) = Cell(m, low[b])
    BY <1>9, <1>12, <2>1, EffectCopies
  <2>4. Cell(l, <<"r", q, b>>) = l.gpr[q][b]
    BY CellIs
  <2>5. Cell(m, <<"r", p, b>>) = m.gpr[p][b]
    BY CellIs
  <2> QED
    BY <1>6, <1>9, <1>12, <2>1, <2>2, <2>3, <2>4, <2>5
<1>14. ASSUME k = 4, NEW d \in 1..2
       PROVE  l.gpr[q][2 + d] = m.gpr[p][2 + d]
  <2>1. PICK high : /\ Copies(StackCells(m, -2), high) \subseteq Moves(m, i)
                    /\ \A b \in 1..2 : high[b] = <<"r", i.param, 2 + b>>
    BY <1>14, PushedHalves
  <2>2. Copies(t, high) \subseteq Moves(m, i) /\ high[d] = <<"r", p, 2 + d>>
    BY <1>5, <1>14, <2>1
  <2> DEFINE b == 2 + d
  <2>3. b \in 1..k /\ b \in DOMAIN to /\ d \in DOMAIN t
    BY <1>6, <1>9, <1>14
  <2>4. f[b] = t[d] /\ to[b] = <<"r", q, b>>
    BY <1>6, <1>9, <2>3
  <2> HIDE DEF b
  <2>5. Cell(l, to[b]) = Cell(n, f[b])
    BY <1>10, <2>3, EffectCopies
  <2>6. Cell(n, t[d]) = Cell(m, high[d])
    BY <1>9, <2>2, <2>3, EffectCopies
  <2>7. high[d] = <<"r", p, b>>
    BY <2>2 DEF b
  <2>8. Cell(l, <<"r", q, b>>) = l.gpr[q][b]
    BY CellIs
  <2>9. Cell(m, <<"r", p, b>>) = m.gpr[p][b]
    BY CellIs
  <2>10. l.gpr[q][b] = m.gpr[p][b]
    BY <2>4, <2>5, <2>6, <2>7, <2>8, <2>9
  <2> QED
    BY <2>10 DEF b
<1>15. \A b \in 1..k : l.gpr[q][b] = m.gpr[p][b]
  <2>1. \A b \in 1..k : b \in 1..2 \/ (k = 4 /\ \E d \in 1..2 : b = 2 + d)
    <3>1. CASE k = 2
      BY <3>1
    <3>2. CASE k = 4
      <4>1. \A b \in 1..4 : b \in 1..2 \/ (\E d \in 1..2 : b = 2 + d)
        OBVIOUS
      <4> QED
        BY <3>2, <4>1
    <3> QED
      BY <1>2, <3>1, <3>2
  <2> QED
    BY <1>13, <1>14, <2>1
<1>16. /\ ReadReg(l, q, k) \in Values(k) /\ \A b \in 1..k : ReadReg(l, q, k)[b] = l.gpr[q][b]
       /\ ReadReg(m, p, k) \in Values(k) /\ \A b \in 1..k : ReadReg(m, p, k)[b] = m.gpr[p][b]
  BY <1>2, ReadRegHas
<1> HIDE DEF p, q, k
<1>17. ReadReg(l, q, k) = ReadReg(m, p, k)
  BY <1>15, <1>16, SameValues
<1> QED
  BY <1>8, <1>17 DEF p, q, k

\* Every register has its place in the file.
LEMMA FileHasAll ==
  ASSUME NEW r \in Regs, r # SP
  PROVE  \E b \in 1..8 : b # 5 /\ File[b] = r
<1>1. \/ r = 0 \/ r = 1 \/ r = 2 \/ r = BX \/ r = BP \/ r = SI \/ r = DI
  BY DEF Regs, SP, BX, BP, SI, DI
<1>2. \A b \in {1, 2, 3, 4, 6, 7, 8} : b \in 1..8 /\ b # 5
  OBVIOUS
<1> QED
  BY <1>1, <1>2, FileIs

\* PUSHA and POPA bring every register back.
LEMMA AllPair ==
  ASSUME NEW m \in Machines, NEW i, NEW n \in Machines, NEW j, NEW l \in Machines,
         Effect(m, i, n), Effect(n, j, l), i.op = "PUSH_A", j.op = "POP_A"
  PROVE  l.gpr = m.gpr
<1>1. Moves(m, i) = FirstOf(m, 8) /\ SPChange(i) = -16
  BY DEF Moves, MovesOf, FirstOf, File, StackWord, SPChange
<1>2. Moves(n, j) = LastOf(n, 1) /\ SPChange(j) = 16
  BY DEF Moves, MovesOf, LastOf, File, SPChange
<1>3. -16 \in -16..16 /\ 16 \in Int /\ 16 = 0 - (-16)
  OBVIOUS
<1>4. \A c \in Moves(m, i) : c[1][1] = "m"
  <2>1. ASSUME NEW c \in FirstOf(m, 8)
        PROVE  c[1][1] = "m"
    <3>1. PICK b \in 1..8 : c \in Copies(StackWord(m, b), RegCells(File[b], 2))
      BY DEF FirstOf
    <3>2. \A d \in Copies(StackCells(m, -2 * b), RegCells(File[b], 2)) : d[1][1] = "m"
      BY StackDst
    <3> QED
      BY <3>1, <3>2 DEF StackWord
  <2> QED
    BY <1>1, <2>1
<1>5. /\ W(n, SP) = (W(m, SP) + -16) % Word
      /\ \A b \in 3..4 : n.gpr[SP][b] = m.gpr[SP][b]
      /\ \A k \in Regs, b \in 1..4 : k # SP => n.gpr[k][b] = m.gpr[k][b]
      /\ \A k \in -16..16 : StackCells(n, k) = StackCells(m, -16 + k)
  BY <1>1, <1>3, <1>4, PushEffect
<1> DEFINE dst == Dst(Moves(n, j))
<1>6. \A x \in dst : \E b \in 1..8, d \in 1..2 : b # 5 /\ x = <<"r", File[b], d>>
  <2>1. ASSUME NEW x \in dst
        PROVE  \E b \in 1..8, d \in 1..2 : b # 5 /\ x = <<"r", File[b], d>>
    <3>1. PICK c \in LastOf(n, 1) : x = c[1]
      BY <1>2 DEF Dst
    <3>2. 1 \in 1..9
      OBVIOUS
    <3>3. \A y \in LastOf(n, 1) : \E b \in 1..8, d \in 1..2 : b >= 1 /\ b # 5 /\ y[1] = <<"r", File[b], d>>
      BY <3>2, LastAre
    <3> QED
      BY <3>1, <3>3
  <2> QED
    BY <2>1
<1>7. \A b \in 1..4 : <<"r", SP, b>> \notin dst
  <2>1. ASSUME NEW b \in 1..4, <<"r", SP, b>> \in dst
        PROVE  FALSE
    <3>1. PICK c \in 1..8, d \in 1..2 : c # 5 /\ <<"r", SP, b>> = <<"r", File[c], d>>
      BY <1>6, <2>1
    <3>2. SP = File[c]
      BY <3>1
    <3> QED
      BY <3>1, <3>2, FileIs
  <2> QED
    BY <2>1
<1>8. \A k \in Regs, b \in 3..4 : <<"r", k, b>> \notin dst
  <2>1. ASSUME NEW k \in Regs, NEW b \in 3..4, <<"r", k, b>> \in dst
        PROVE  FALSE
    <3>1. PICK c \in 1..8, d \in 1..2 : c # 5 /\ <<"r", k, b>> = <<"r", File[c], d>>
      BY <1>6, <2>1
    <3>2. b = d
      BY <3>1
    <3> QED
      BY <3>2
  <2> QED
    BY <2>1
<1>9. l.gpr[SP] = m.gpr[SP]
  <2>1. \A b \in 1..4 : <<"r", SP, b>> \notin Dst(Moves(n, j))
    BY <1>7
  <2> HIDE DEF dst
  <2> QED
    BY ZenonT(30), <1>2, <1>3, <1>5, <2>1, SPRestored
<1>14. RegsKept(n, l, dst)
  BY EffectRest
<1> HIDE DEF dst
<1>10. ASSUME NEW r \in Regs, r # SP, NEW d \in 3..4
       PROVE  l.gpr[r][d] = m.gpr[r][d]
  <2>1. d \in 1..4
    OBVIOUS
  <2>2. <<"r", r, d>> \notin dst
    BY <1>8
  <2>3. l.gpr[r][d] = n.gpr[r][d]
    BY <1>10, <1>14, <2>1, <2>2 DEF RegsKept
  <2> QED
    BY <1>5, <1>10, <2>1, <2>3
<1>11. ASSUME NEW r \in Regs, r # SP, NEW d \in 1..2
       PROVE  l.gpr[r][d] = m.gpr[r][d]
  <2>1. PICK b \in 1..8 : b # 5 /\ File[b] = r
    BY <1>11, FileHasAll
  <2> DEFINE to == RegCells(r, 2)
             top == StackWord(m, b)
  <2>2. top = StackCells(n, 16 - 2 * b)
    <3>1. 16 - 2 * b \in -16..16 /\ -16 + (16 - 2 * b) = -2 * b
      OBVIOUS
    <3>2. StackCells(n, 16 - 2 * b) = StackCells(m, -16 + (16 - 2 * b))
      BY <1>5, <3>1
    <3> QED
      BY <3>1, <3>2 DEF StackWord
  <2>3. Copies(to, top) \subseteq Moves(n, j)
    <3>1. b \in 1..8 \ {5}
      BY <2>1
    <3>2. Copies(RegCells(File[b], 2), StackCells(n, 16 - 2 * b)) \subseteq LastOf(n, 1)
      BY <3>1 DEF LastOf
    <3> QED
      BY <1>2, <2>1, <2>2, <3>2
  <2>4. Copies(top, to) \subseteq Moves(m, i)
    <3>1. Copies(StackWord(m, b), RegCells(File[b], 2)) \subseteq FirstOf(m, 8)
      BY DEF FirstOf
    <3> QED
      BY <1>1, <2>1, <3>1
  <2>5. DOMAIN to = 1..2 /\ to[d] = <<"r", r, d>>
    BY RegWordIs
  <2>6. <<"r", r, d>>[1] # "x"
    OBVIOUS
  <2>7. DOMAIN top = 1..2 /\ top[d][1] # "x"
    <3>1. DOMAIN StackCells(m, -2 * b) = 1..2 /\ StackCells(m, -2 * b)[d][1] # "x"
      BY StackDomain
    <3> QED
      BY <3>1 DEF StackWord
  <2>8. d \in DOMAIN to /\ to[d][1] # "x" /\ d \in DOMAIN top /\ top[d][1] # "x"
    BY <2>5, <2>6, <2>7
  <2> HIDE DEF to, top
  <2>9. Cell(l, to[d]) = Cell(n, top[d])
    BY <2>3, <2>8, EffectCopies
  <2>10. Cell(n, top[d]) = Cell(m, to[d])
    BY <2>4, <2>8, EffectCopies
  <2>11. Cell(l, <<"r", r, d>>) = l.gpr[r][d]
    BY CellIs
  <2>12. Cell(m, <<"r", r, d>>) = m.gpr[r][d]
    BY CellIs
  <2> QED
    BY <2>5, <2>9, <2>10, <2>11, <2>12
<1>12. ASSUME NEW r \in Regs
       PROVE  l.gpr[r] = m.gpr[r]
  <2>1. CASE r = SP
    BY <1>9, <2>1
  <2>2. CASE r # SP
    <3>1. \A d \in 1..4 : d \in 1..2 \/ d \in 3..4
      OBVIOUS
    <3>2. \A d \in 1..4 : l.gpr[r][d] = m.gpr[r][d]
      BY <1>10, <1>11, <2>2, <3>1
    <3>3. l.gpr[r] \in Values(4) /\ m.gpr[r] \in Values(4)
      BY Holding
    <3> QED
      BY <3>2, <3>3, SameValues
  <2> QED
    BY <2>1, <2>2
<1>13. l.gpr \in [Regs -> Values(4)] /\ m.gpr \in [Regs -> Values(4)]
  BY DEF Machines
<1> QED
  BY <1>12, <1>13

\* The instruction before the last one.
LEMMA BeforeType ==
  ASSUME Typed, Len(past) > 1
  PROVE  Before.instr \in Instructions /\ Before.before \in Machines /\ past # <<>>
<1>1. past \in Seq([instr : Instructions, before : Machines])
  BY DEF Typed
<1>2. Len(past) \in Nat
  BY <1>1, LenProperties
<1>3. Len(past) - 1 \in 1..Len(past)
  BY <1>2
<1>4. past[Len(past) - 1] \in [instr : Instructions, before : Machines]
  BY <1>1, <1>3, ElementOfSeq
<1>5. past # <<>>
  <2>1. Len(<<>>) = 0
    OBVIOUS
  <2> QED
    BY <2>1
<1> QED
  BY <1>4, <1>5 DEF Before

\* A push and its pop.
LEMMA RestoresFollow ==
  ASSUME PairsInv
  PROVE  StackRestores
<1> SUFFICES ASSUME Len(past) > 1, ret = "ok"
             PROVE  LET i == Before.instr
                        m == Before.before
                    IN  /\ i.op = "PUSH_A" /\ Ran.op = "POP_A" => gpr = m.gpr
                        /\ (/\ i.op = "PUSH_Reg" /\ Ran.op = "POP_Reg" /\ i.size = Ran.size
                            /\ SP \notin {i.param, Ran.param}) =>
                             /\ ReadReg(Machine, Ran.param, i.size) = ReadReg(m, i.param, i.size)
                             /\ gpr[SP] = m.gpr[SP]
                        /\ i.op = "PUSH_Seg" /\ Ran.op = "POP_Seg" =>
                             seg[Ran.param] = m.seg[i.param] /\ gpr[SP] = m.gpr[SP]
  BY DEF StackRestores, Before
<1> DEFINE i == Before.instr
           m == Before.before
           n == Was
           j == Ran
           l == Machine
<1>1. Typed /\ MovesExact
  BY DEF PairsInv, MovesInv
<1>2. i \in Instructions /\ m \in Machines /\ past # <<>>
  BY <1>1, BeforeType
<1>3. j \in Instructions /\ n \in Machines /\ l \in Machines /\ l.gpr = gpr /\ l.seg = seg
  BY <1>1, <1>2, LastType, MachineIs
<1>4. i.op # "POP_Reg" => Effect(m, i, n)
  BY DEF PairsInv, PairExact, PairsESP
<1>5. ~(j.op = "POP_Reg" /\ j.param = SP) => Effect(n, j, l)
  <2>1. ~(j.op = "POP_Reg" /\ j.param = SP) => ~PopsESP
    BY DEF PopsESP
  <2> QED
    BY <1>1, <1>2, <2>1, LastEffect
<1>6. /\ i.param \in Regs /\ j.param \in Regs /\ i.size \in {1, 2, 4} /\ (i.size = 1 => i.op \in ByteForms)
      /\ (i.op = "PUSH_Seg" => i.param \in 0..5) /\ (j.op = "POP_Seg" => j.param \in 0..5)
  BY <1>2, <1>3, InstrIs
<1> HIDE DEF i, j, m, n, l
<1>7. ASSUME i.op = "PUSH_A", j.op = "POP_A"
      PROVE  l.gpr = m.gpr
  <2>1. Effect(m, i, n) /\ Effect(n, j, l)
    BY <1>4, <1>5, <1>7
  <2> QED
    BY <1>2, <1>3, <1>7, <2>1, AllPair
<1>8. ASSUME i.op = "PUSH_Reg", j.op = "POP_Reg", i.size = j.size, SP \notin {i.param, j.param}
      PROVE  ReadReg(l, j.param, i.size) = ReadReg(m, i.param, i.size) /\ l.gpr[SP] = m.gpr[SP]
  <2>1. Effect(m, i, n) /\ Effect(n, j, l)
    BY <1>4, <1>5, <1>8
  <2>2. i.size \in {2, 4}
    BY <1>6, <1>8 DEF ByteForms
  <2>3. i.param # SP /\ j.param # SP
    BY <1>8
  <2> QED
    BY <1>2, <1>3, <1>6, <1>8, <2>1, <2>2, <2>3, RegPair
<1>9. ASSUME i.op = "PUSH_Seg", j.op = "POP_Seg"
      PROVE  l.seg[j.param] = m.seg[i.param] /\ l.gpr[SP] = m.gpr[SP]
  <2>1. Effect(m, i, n) /\ Effect(n, j, l)
    BY <1>4, <1>5, <1>9
  <2> QED
    BY <1>2, <1>3, <1>6, <1>9, <2>1, SegPair
<1> QED
  BY <1>3, <1>7, <1>8, <1>9 DEF i, j, m, n, l

\* The stack gives back what was put on it.
THEOREM StackDoesRestore == Spec => []StackRestores
<1>1. Init => PairsInv
  BY PairsStart
<1>2. PairsInv /\ [Next]_vars => PairsInv'
  BY PairsStep
<1>3. PairsInv => StackRestores
  BY RestoresFollow
<1> QED
  BY <1>1, <1>2, <1>3, PTL DEF Spec
=============================================================================
