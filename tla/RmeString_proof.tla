-------------------------- MODULE RmeString_proof --------------------------
(***************************************************************************)
(* The string instructions do what their description says, for segments    *)
(* and elements of every size, wherever the offsets start and however      *)
(* often they wrap, and whatever memory is missing.                        *)
(*                                                                         *)
(* The locals of the loop are computed from each other, one step at a      *)
(* time; the description computes each offset from the registers.  That    *)
(* they agree is arithmetic (OfsNext); the rest follows the memory.        *)
(***************************************************************************)
EXTENDS RmeString, FiniteSetTheorems, SequenceTheorems, TLAPS

-----------------------------------------------------------------------------
(* Numbers.                                                                *)

\* A number is made of its quotient and remainder.
LEMMA Divided ==
  ASSUME NEW n \in Nat \ {0}, NEW a \in Int
  PROVE  a % n \in 0 .. n - 1 /\ \E q \in Int : a = n * q + (a % n)
<1>1. a % n \in 0 .. n - 1 /\ a \div n \in Int /\ a = n * (a \div n) + (a % n)
  OBVIOUS
<1> QED
  BY <1>1

\* ... which are unique.
LEMMA ModUnique ==
  ASSUME NEW n \in Nat \ {0}, NEW q \in Int, NEW r \in 0 .. n - 1
  PROVE  (n * q + r) % n = r
<1>1. n * q \in Int /\ n * q + r \in Int
  OBVIOUS
<1> DEFINE a == n * q + r
           m == a % n
<1>2. PICK d \in Int : a = n * d + m
  BY <1>1, Divided
<1>3. m \in 0 .. n - 1
  BY <1>1, Divided
<1>4. n * q + r = n * d + m
  BY <1>2
<1> HIDE DEF m
<1>5. \A x, y \in Int : \A s, t \in 0 .. n - 1 : n * x + s = n * y + t => x = y
  OBVIOUS
<1>6. d = q
  BY <1>3, <1>4, <1>5
<1>7. m = r
  BY <1>1, <1>3, <1>4, <1>6
<1> QED
  BY <1>7 DEF m

\* An offset may wrap before more is added to it, or only afterwards.
LEMMA ModPlus ==
  ASSUME NEW n \in Nat \ {0}, NEW a \in Int, NEW b \in Int
  PROVE  ((a % n) + b) % n = (a + b) % n
<1>1. PICK q \in Int : a = n * q + (a % n)
  BY Divided
<1> DEFINE r == a % n
           s == (r + b) % n
<1>2. r \in Int
  BY Divided
<1> HIDE DEF r
<1>3. PICK p \in Int : r + b = n * p + s
  <2>1. r + b \in Int
    BY <1>2
  <2> QED
    BY <2>1, Divided
<1>4. s \in 0 .. n - 1 /\ s \in Int
  BY <1>2, Divided
<1> HIDE DEF s
<1>5. a = n * q + r
  BY <1>1 DEF r
<1>6. n * q \in Int /\ n * p \in Int /\ n * (q + p) = n * q + n * p
  OBVIOUS
<1>7. a + b = n * (q + p) + s
  BY <1>2, <1>3, <1>4, <1>5, <1>6
<1>8. (a + b) % n = s
  <2>1. q + p \in Int /\ (n * (q + p) + s) % n = s
    BY <1>4, ModUnique
  <2> QED
    BY <1>7, <2>1
<1> QED
  BY <1>8 DEF r, s

\* A finite set of numbers has a greatest one.
LEMMA MaxIs ==
  ASSUME NEW S, IsFiniteSet(S), S # {}, S \subseteq Nat
  PROVE  Max(S) \in S /\ \A x \in S : x <= Max(S)
<1> DEFINE Bad == {T \in SUBSET S : T # {} /\ ~\E m \in T : \A x \in T : x <= m}
<1>1. Bad = {}
  <2> SUFFICES ASSUME Bad # {} PROVE FALSE
    OBVIOUS
  <2>1. FiniteSubsetsOf(S) = SUBSET S /\ IsWellFoundedOn(StrictSubsetOrdering(S), FiniteSubsetsOf(S))
    BY FS_FiniteSubsetsOfFinite, FS_StrictSubsetOrderingWellFounded
  <2>2. PICK T \in Bad : \A U \in Bad : ~ (<<U, T>> \in StrictSubsetOrdering(S))
    <3>1. Bad \subseteq FiniteSubsetsOf(S)
      BY <2>1
    <3> HIDE DEF Bad
    <3> QED
      BY <2>1, <3>1, WFMin
  <2>3. PICK t \in T : TRUE
    OBVIOUS
  <2>4. T \ {t} \notin Bad
    <3>1. T \ {t} \in SUBSET S /\ T \in SUBSET S /\ T \ {t} \subseteq T /\ T \ {t} # T
      BY <2>3
    <3>2. <<T \ {t}, T>> \in StrictSubsetOrdering(S)
      BY <3>1 DEF StrictSubsetOrdering
    <3> QED
      BY <2>2, <3>2
  <2>5. CASE T \ {t} = {}
    <3>1. \A x \in T : x <= t
      BY <2>3, <2>5
    <3> QED
      BY <2>3, <3>1
  <2>6. CASE T \ {t} # {}
    <3>1. PICK m \in T \ {t} : \A x \in T \ {t} : x <= m
      BY <2>4, <2>6
    <3>2. m \in Nat /\ t \in Nat /\ \A x \in T : x \in Nat
      BY <2>3
    <3>3. (\A x \in T : x <= m) \/ (\A x \in T : x <= t)
      BY <3>1, <3>2
    <3> QED
      BY <2>3, <3>1, <3>3
  <2> QED
    BY <2>5, <2>6
<1>2. \E m \in S : \A x \in S : x <= m
  BY <1>1
<1>3. \E m \in S : \A x \in S : m >= x
  BY <1>2
<1> QED
  BY <1>3 DEF Max

-----------------------------------------------------------------------------
(* Sizes, offsets and addresses.                                           *)

\* The sizes the constants give.
LEMMA Sizes ==
  /\ Width \in Nat \ {0} /\ \A s \in Steps : s \in 1 .. Width
  /\ Max(Segs) * Para \in Nat
  /\ \A g \in Segs : g * Para \in Nat /\ g * Para <= Max(Segs) * Para
  /\ Wrap * High \in Nat \ {0} /\ Wrap <= Wrap * High
<1>1. Max(Steps) \in Steps /\ \A s \in Steps : s <= Max(Steps)
  BY StringAssumption, MaxIs
<1>2. Max(Segs) \in Segs /\ \A s \in Segs : s <= Max(Segs)
  BY StringAssumption, MaxIs
<1>3. Width \in Nat \ {0} /\ \A s \in Steps : s \in 1 .. Width
  <2>1. \A s \in Steps : s \in Nat /\ s >= 1 /\ s <= Width
    BY <1>1, StringAssumption DEF Width
  <2>2. Width \in Nat /\ Width >= 1
    BY <1>1, <2>1 DEF Width
  <2> QED
    BY <2>1, <2>2
<1>4. \A m, g \in Nat : g <= m => g * Para \in Nat /\ g * Para <= m * Para
  BY StringAssumption
<1>5. Max(Segs) * Para \in Nat /\ \A g \in Segs : g * Para \in Nat /\ g * Para <= Max(Segs) * Para
  BY <1>2, <1>4, StringAssumption
<1>6. Wrap * High \in Nat \ {0} /\ Wrap <= Wrap * High
  BY StringAssumption
<1> QED
  BY <1>3, <1>5, <1>6

\* The number of offsets.
LEMMA SpanIs == Span(op) \in Nat \ {0} /\ Span(op) <= Wrap * High
BY Sizes, StringAssumption DEF Span

\* An offset of the description is one of the segment.
LEMMA OfsType ==
  ASSUME op \in Ops, NEW reg \in Nat, NEW k \in Int
  PROVE  /\ Ofs(reg, k) \in 0 .. Span(op) - 1
         /\ Ofs(reg, k) \in 0 .. Wrap * High - 1
         /\ Ofs(reg, 0) = reg % Span(op)
<1>1. op.step \in Nat
  BY StringAssumption DEF Ops
<1>2. (IF op.down THEN -k ELSE k) * op.step \in Int
  BY <1>1
<1>3. Ofs(reg, k) \in 0 .. Span(op) - 1
  <2>1. reg + (IF op.down THEN -k ELSE k) * op.step \in Int
    BY <1>2
  <2> QED
    BY <2>1, SpanIs, Divided DEF Ofs
<1>4. (IF op.down THEN -0 ELSE 0) * op.step = 0
  BY <1>1
<1>5. reg + (IF op.down THEN -0 ELSE 0) * op.step = reg
  BY <1>4
<1> QED
  BY <1>3, <1>5, SpanIs, Sizes DEF Ofs

\* The loop steps from one to the next.
LEMMA OfsNext ==
  ASSUME op \in Ops, NEW reg \in Nat, NEW k \in Nat
  PROVE  Stepped(Ofs(reg, k)) = Ofs(reg, k + 1)
<1>1. op.step \in Int /\ Span(op) \in Nat \ {0}
  <2>1. op.step \in Nat
    BY StringAssumption DEF Ops
  <2> QED
    BY <2>1, SpanIs
<1>2. CASE op.down
  <2>1. reg + (-k) * op.step \in Int /\ -op.step \in Int
    BY <1>1
  <2>2. Stepped(Ofs(reg, k)) = (((reg + (-k) * op.step) % Span(op)) + (-op.step)) % Span(op)
    <3>1. (reg + (-k) * op.step) % Span(op) \in Int
      BY <1>1, <2>1, Divided
    <3>2. ((reg + (-k) * op.step) % Span(op)) - op.step
            = ((reg + (-k) * op.step) % Span(op)) + (-op.step)
      BY <1>1, <3>1
    <3> QED
      BY <1>2, <3>2 DEF Stepped, Ofs
  <2>3. (reg + (-k) * op.step) + (-op.step) = reg + (-(k + 1)) * op.step
    <3>1. PICK x \in Int : x = op.step
      BY <1>1
    <3>2. (reg + (-k) * x) + (-x) = reg + (-(k + 1)) * x
      OBVIOUS
    <3> QED
      BY <3>1, <3>2, Zenon
  <2> QED
    BY <1>1, <1>2, <2>1, <2>2, <2>3, ModPlus DEF Ofs
<1>3. CASE ~op.down
  <2>1. reg + k * op.step \in Int
    BY <1>1
  <2>2. Stepped(Ofs(reg, k)) = (((reg + k * op.step) % Span(op)) + op.step) % Span(op)
    BY <1>3 DEF Stepped, Ofs
  <2>3. (reg + k * op.step) + op.step = reg + (k + 1) * op.step
    <3>1. PICK x \in Int : x = op.step
      BY <1>1
    <3>2. (reg + k * x) + x = reg + (k + 1) * x
      OBVIOUS
    <3> QED
      BY <3>1, <3>2, Zenon
  <2> QED
    BY <1>1, <1>3, <2>1, <2>2, <2>3, ModPlus DEF Ofs
<1> QED
  BY <1>2, <1>3

\* Wherever an element lies, its bytes have addresses.
LEMMA InAddrs ==
  ASSUME op \in Ops, NEW seg \in Segs, NEW ofs \in Int
  PROVE  /\ At(seg, ofs) \in Nat
         /\ \A b \in 1 .. op.step : At(seg, ofs) + b - 1 \in Addrs
<1>1. ofs % Wrap \in 0 .. Wrap - 1 /\ Wrap \in Nat
  BY Divided, StringAssumption
<1>2. seg * Para \in Nat /\ seg * Para <= Max(Segs) * Para /\ Max(Segs) * Para \in Nat
  BY Sizes
<1>3. op.step \in 1 .. Width /\ Width \in Nat
  BY Sizes DEF Ops
<1> DEFINE p == seg * Para
           o == ofs % Wrap
           m == Max(Segs) * Para
<1>4. At(seg, ofs) = p + o /\ Addrs = 0 .. m + Wrap + Width - 2
  BY DEF At, Addrs
<1>5. p \in Nat /\ o \in 0 .. Wrap - 1 /\ m \in Nat /\ p <= m
  BY <1>1, <1>2
<1> HIDE DEF p, o, m
<1> QED
  BY <1>1, <1>3, <1>4, <1>5

-----------------------------------------------------------------------------
(* The inductive invariant.                                                *)

\* The registers and memory before the instruction.
FirstOK ==
  /\ first.store \in [Addrs -> Byte] /\ first.ax \in [1..Width -> Byte]
  /\ first.si \in 0 .. Wrap * High - 1 /\ first.di \in 0 .. Wrap * High - 1
  /\ first.cx \in 0 .. Wrap - 1

\* A copy has changed no memory but that of the elements handled.
Elsewhere ==
  op.name = "MOVS" /\ pc # "error" =>
    \A a \in Addrs :
      (\A j \in 0 .. done - 1 : a \notin BytesAt(DestOf(j))) => store[a] = first.store[a]

\* The condition of PatternRepeats after n elements: they are copied to p
\* elements on, no two to the same place, and the first p from none of these.
Chained(p, n) ==
  /\ \A k \in 0 .. n - 1 - p : SourceOf(k + p) = DestOf(k)
  /\ \A j, k \in 0 .. n - 1 : j < k => BytesAt(DestOf(j)) \cap BytesAt(DestOf(k)) = {}
  /\ \A k \in 0 .. p - 1, j \in 0 .. n - 1 : BytesAt(SourceOf(k)) \cap BytesAt(DestOf(j)) = {}

\* PatternRepeats for distances that the elements may still reach.
Patterns ==
  op.name = "MOVS" /\ pc # "error" =>
    \A p \in Nat \ {0} : Chained(p, done) =>
      \A k \in 0 .. done - 1 :
        Element(store, DestOf(k)) = Element(first.store, SourceOf(k % p))

\* All of it.
StringInv ==
  /\ StringTypeOK /\ FirstOK /\ (pc = "start" => done = 0)
  /\ Accounted /\ RepeatEnds /\ ReadsInOrder
  /\ WritesExact /\ Elsewhere /\ Patterns

-----------------------------------------------------------------------------
(* Steps and what they leave alone.                                        *)

\* No step touches the instruction, the segments or the history before it.
LEMMA Frame == Next => UNCHANGED <<op, es, ds, holes, first>>
<1>1. \A ok \in BOOLEAN : Round(ok) => UNCHANGED <<op, es, ds, holes, first>>
  BY DEF Round
<1>2. StringHead \/ Exhausted => UNCHANGED <<op, es, ds, holes, first>>
  BY DEF StringHead, Exhausted
<1> QED
  BY <1>1, <1>2 DEF Next, MOVS, STOS, LODS, CMPS, SCAS, INS, OUTS, Round

\* So what the description says of the instruction does not change.
LEMMA Same ==
  ASSUME UNCHANGED <<op, es, ds, holes, first>>
  PROVE  /\ \A k : SourceOf(k)' = SourceOf(k) /\ DestOf(k)' = DestOf(k)
         /\ \A a : BytesAt(a)' = BytesAt(a)
         /\ \A a, n : Backed(a, n)' = Backed(a, n)
         /\ \A r, k : Ofs(r, k)' = Ofs(r, k)
         /\ \A m, a : Element(m, a)' = Element(m, a)
         /\ \A k : Left(k)' = Left(k) /\ Right(k)' = Right(k)
         /\ \A l, r : Below(l, r)' = Below(l, r)
         /\ UsesSI(op)' = UsesSI(op) /\ UsesDI(op)' = UsesDI(op) /\ Scans(op)' = Scans(op)
         /\ Span(op)' = Span(op)
<1>1. op' = op /\ es' = es /\ ds' = ds /\ holes' = holes /\ first' = first
  OBVIOUS
<1>2. \A r, k : Ofs(r, k)' = Ofs(r, k)
  BY <1>1 DEF Ofs, Span
<1>3. \A k : SourceOf(k)' = SourceOf(k) /\ DestOf(k)' = DestOf(k)
  BY <1>1, <1>2 DEF SourceOf, DestOf, At
<1>4. \A m, a : Element(m, a)' = Element(m, a)
  BY <1>1 DEF Element
<1>5. \A k : Left(k)' = Left(k) /\ Right(k)' = Right(k)
  BY <1>1, <1>3, <1>4 DEF Left, Right
<1>6. \A l, r : Below(l, r)' = Below(l, r)
  BY <1>1 DEF Below
<1>7. \A a, n : Backed(a, n)' = Backed(a, n)
  BY <1>1 DEF Backed
<1>8. \A a : BytesAt(a)' = BytesAt(a)
  BY <1>1 DEF BytesAt
<1> QED
  BY <1>1, <1>2, <1>3, <1>4, <1>5, <1>6, <1>7, <1>8 DEF UsesSI, UsesDI, Scans, Span

\* An element is handled when it could be read and written.
Handled ==
  (UsesSI(op) => Backed(Source, op.step)) /\ (UsesDI(op) => Backed(Dest, op.step))

\* Every instruction is a round of the loop, or its start or end.
LEMMA StepIs ==
  Next => StringHead \/ Exhausted \/ \E ok \in BOOLEAN : Round(ok) /\ (ok => Handled)
<1> SUFFICES ASSUME Next, ~StringHead, ~Exhausted
             PROVE  \E ok \in BOOLEAN : Round(ok) /\ (ok => Handled)
  OBVIOUS
<1>1. CASE MOVS
  BY <1>1 DEF MOVS, Handled, UsesSI, UsesDI
<1>2. CASE STOS
  <2>1. Backed(Dest, op.step) \in BOOLEAN
    BY DEF Backed
  <2>2. Round(Backed(Dest, op.step))
    BY <1>2, Zenon DEF STOS
  <2>3. Backed(Dest, op.step) => Handled
    BY <1>2 DEF STOS, Handled, UsesSI, UsesDI
  <2> QED
    BY <2>1, <2>2, <2>3, Zenon
<1>3. CASE LODS
  <2>1. Backed(Source, op.step) \in BOOLEAN
    BY DEF Backed
  <2>2. Round(Backed(Source, op.step))
    BY <1>3, Zenon DEF LODS
  <2>3. Backed(Source, op.step) => Handled
    BY <1>3 DEF LODS, Handled, UsesSI, UsesDI
  <2> QED
    BY <2>1, <2>2, <2>3, Zenon
<1>4. CASE CMPS
  BY <1>4 DEF CMPS, Handled, UsesSI, UsesDI
<1>5. CASE SCAS
  <2>1. Backed(Dest, op.step) \in BOOLEAN
    BY DEF Backed
  <2>2. Round(Backed(Dest, op.step))
    BY <1>5, Zenon DEF SCAS
  <2>3. Backed(Dest, op.step) => Handled
    BY <1>5 DEF SCAS, Handled, UsesSI, UsesDI
  <2> QED
    BY <2>1, <2>2, <2>3, Zenon
<1>6. CASE INS
  <2>1. Backed(Dest, op.step) \in BOOLEAN /\ FALSE \in BOOLEAN
    BY DEF Backed
  <2>2. Round(Backed(Dest, op.step)) \/ Round(FALSE)
    BY <1>6, Zenon DEF INS
  <2>3. Backed(Dest, op.step) => Handled
    BY <1>6 DEF INS, Handled, UsesSI, UsesDI
  <2> QED
    BY <2>1, <2>2, <2>3, Zenon
<1>7. CASE OUTS
  BY <1>7 DEF OUTS, Handled, UsesSI, UsesDI
<1> QED
  BY <1>1, <1>2, <1>3, <1>4, <1>5, <1>6, <1>7 DEF Next

\* The locals are where the description says.
LEMMA Locals ==
  ASSUME Accounted, pc = "repeat"
  PROVE  /\ UsesSI(op) => Source = SourceOf(done)
         /\ UsesDI(op) => Dest = DestOf(done)
BY DEF Accounted, Source, Dest, SourceOf, DestOf

-----------------------------------------------------------------------------
(* Registers.                                                              *)

\* A register keeps its width when a local is copied back.
LEMMA CopiedType ==
  ASSUME op \in Ops, NEW reg \in 0 .. Wrap * High - 1, NEW ofs \in 0 .. Span(op) - 1
  PROVE  CopiedBack(reg, ofs) \in 0 .. Wrap * High - 1
<1>0. Wrap * High \in Nat /\ Wrap \in Nat \ {0} /\ High \in Nat \ {0}
  BY Sizes, StringAssumption
<1>1. CASE op.addr32
  BY <1>0, <1>1 DEF CopiedBack, Span
<1>2. CASE ~op.addr32
  <2>0. reg \in Int
    OBVIOUS
  <2>1. PICK q \in Int : reg = Wrap * q + (reg % Wrap)
    BY <1>0, <2>0, Divided
  <2>2. PICK r \in 0 .. Wrap - 1 : r = reg % Wrap
    BY <1>0, <2>0, Divided
  <2>3. ofs \in 0 .. Wrap - 1 /\ CopiedBack(reg, ofs) = reg - r + ofs
    BY <1>2, <2>2 DEF CopiedBack, Span
  <2>4. reg = Wrap * q + r /\ reg \in 0 .. Wrap * High - 1
    BY <2>1, <2>2
  <2>5. q >= 0 /\ q <= High - 1
    <3>1. CASE q <= -1
      <4>1. Wrap * q <= -Wrap
        BY <1>0, <3>1
      <4> QED
        BY <1>0, <2>4, <4>1
    <3>2. CASE q >= High
      <4>1. Wrap * q >= Wrap * High
        BY <1>0, <3>2
      <4> QED
        BY <1>0, <2>4, <4>1
    <3> QED
      BY <1>0, <3>1, <3>2
  <2>6. Wrap * q \in Nat /\ Wrap * q + Wrap <= Wrap * High
    BY <1>0, <2>5
  <2> QED
    BY <1>0, <2>3, <2>4, <2>6
<1> QED
  BY <1>1, <1>2

\* Copying the local back after the last round lands where the description
\* says, and moves nothing when no element was handled.
LEMMA Lands ==
  ASSUME op \in Ops, NEW reg \in 0 .. Wrap * High - 1, NEW uses \in BOOLEAN
  PROVE  Landed(reg, uses) = IF uses THEN CopiedBack(reg, Ofs(reg, done)) ELSE reg
<1>0. Wrap * High \in Nat \ {0} /\ Wrap \in Nat \ {0} /\ reg \in Nat
  BY Sizes, StringAssumption
<1>1. CASE ~uses
  BY <1>1 DEF Landed
<1>2. CASE uses /\ done # 0
  BY <1>2 DEF Landed, CopiedBack
<1>3. CASE uses /\ done = 0
  <2>1. Ofs(reg, done) = reg % Span(op)
    BY <1>0, <1>3, OfsType
  <2>2. CopiedBack(reg, reg % Span(op)) = reg
    <3>1. CASE op.addr32
      <4>1. (Wrap * High) * 0 + reg = reg
        BY <1>0
      <4>2. reg % (Wrap * High) = reg
        BY <1>0, <4>1, ModUnique
      <4> QED
        BY <3>1, <4>2 DEF CopiedBack, Span
    <3>2. CASE ~op.addr32
      <4>1. reg % Wrap \in Int
        BY <1>0, Divided
      <4>2. CopiedBack(reg, reg % Span(op)) = (reg - (reg % Wrap)) + (reg % Wrap)
        BY <3>2 DEF CopiedBack, Span
      <4> QED
        BY <1>0, <4>1, <4>2
    <3> QED
      BY <3>1, <3>2
  <2> QED
    BY <1>3, <2>1, <2>2 DEF Landed
<1> QED
  BY <1>1, <1>2, <1>3

\* The part of the types that is about registers.
Registers ==
  /\ cx \in 0 .. Wrap - 1 /\ done \in Nat
  /\ {si, di, srcOfs, destOfs} \subseteq 0 .. Wrap * High - 1

\* The offsets stay aligned with the rounds, and keep their width.
LEMMA Stepping ==
  ASSUME StringInv, NEW ok \in BOOLEAN, Round(ok)
  PROVE  /\ UsesSI(op) => srcOfs = Ofs(first.si, done)
         /\ UsesDI(op) => destOfs = Ofs(first.di, done)
         /\ ok /\ UsesSI(op) => srcOfs' = Ofs(first.si, done + 1)
         /\ ok /\ UsesDI(op) => destOfs' = Ofs(first.di, done + 1)
         /\ Ofs(first.si, done + 1) \in 0 .. Span(op) - 1
         /\ Ofs(first.di, done + 1) \in 0 .. Span(op) - 1
         /\ si = first.si /\ di = first.di
         /\ si \in 0 .. Wrap * High - 1 /\ di \in 0 .. Wrap * High - 1
<1>1. pc = "repeat" /\ op \in Ops /\ done \in Nat /\ done + 1 \in Nat
  BY DEF Round, StringInv, StringTypeOK
<1>2. first.si \in Nat /\ first.di \in Nat
  BY Sizes DEF StringInv, FirstOK
<1>3. /\ UsesSI(op) => srcOfs = Ofs(first.si, done)
      /\ UsesDI(op) => destOfs = Ofs(first.di, done)
      /\ si = first.si /\ di = first.di
  BY <1>1 DEF StringInv, Accounted
<1>4. /\ Stepped(Ofs(first.si, done)) = Ofs(first.si, done + 1)
      /\ Stepped(Ofs(first.di, done)) = Ofs(first.di, done + 1)
  BY <1>1, <1>2, OfsNext
<1>5. /\ Ofs(first.si, done + 1) \in 0 .. Span(op) - 1
      /\ Ofs(first.di, done + 1) \in 0 .. Span(op) - 1
  <2>1. done + 1 \in Int
    BY <1>1
  <2> QED
    BY <1>1, <1>2, <2>1, OfsType
<1>6. /\ ok /\ UsesSI(op) => srcOfs' = Stepped(srcOfs)
      /\ ok /\ UsesDI(op) => destOfs' = Stepped(destOfs)
  BY DEF Round
<1>7. si \in 0 .. Wrap * High - 1 /\ di \in 0 .. Wrap * High - 1
  BY DEF StringInv, StringTypeOK
<1> QED
  BY <1>3, <1>4, <1>5, <1>6, <1>7

\* A round keeps the registers in step with the elements handled.
LEMMA RoundCounts ==
  ASSUME StringInv, NEW ok \in BOOLEAN, Round(ok)
  PROVE  Accounted' /\ Registers' /\ pc' \in {"repeat", "ok", "error"}
<1>1. /\ pc = "repeat" /\ op \in Ops /\ done \in Nat /\ cx \in 0 .. Wrap - 1 /\ Wrap \in Nat
      /\ {srcOfs, destOfs} \subseteq 0 .. Wrap * High - 1
  BY StringAssumption DEF Round, StringInv, StringTypeOK
<1>2. op' = op /\ es' = es /\ ds' = ds /\ holes' = holes /\ first' = first
  BY DEF Round
<1>3. /\ \A r, k : Ofs(r, k)' = Ofs(r, k)
      /\ UsesSI(op)' = UsesSI(op) /\ UsesDI(op)' = UsesDI(op)
  BY <1>2, Same
<1>4. /\ si = first.si /\ di = first.di
      /\ si \in 0 .. Wrap * High - 1 /\ di \in 0 .. Wrap * High - 1
      /\ Span(op) - 1 <= Wrap * High - 1 /\ Span(op) \in Nat /\ Wrap * High \in Nat \ {0}
  BY Stepping, SpanIs, Sizes
<1>5. cx' \in 0 .. Wrap - 1 /\ cx' = (IF op.rep # "none" THEN cx - 1 ELSE cx)
  BY <1>1 DEF Round
<1>6. cx = first.cx - (IF op.rep = "none" THEN 0 ELSE done) /\ first.cx \in Nat
  BY <1>1 DEF StringInv, Accounted, FirstOK
<1>7. CASE ~ok
  <2>1. /\ pc' = "error" /\ done' = done /\ si' = si /\ di' = di
        /\ srcOfs' = srcOfs /\ destOfs' = destOfs
    BY <1>7 DEF Round
  <2>2. Accounted'
    BY <1>1, <1>2, <1>4, <1>5, <1>6, <2>1 DEF Accounted
  <2>3. Registers'
    BY <1>1, <1>4, <1>5, <2>1 DEF Registers
  <2> QED
    BY <2>1, <2>2, <2>3
<1>8. CASE ok
  <2>1. done' = done + 1
    BY <1>8 DEF Round
  <2>2. /\ UsesSI(op) => srcOfs' = Ofs(first.si, done') /\ srcOfs' \in 0 .. Span(op) - 1
        /\ UsesDI(op) => destOfs' = Ofs(first.di, done') /\ destOfs' \in 0 .. Span(op) - 1
    BY <1>8, <2>1, Stepping
  <2>3. srcOfs' \in 0 .. Wrap * High - 1 /\ destOfs' \in 0 .. Wrap * High - 1
    <3>1. (~UsesSI(op) => srcOfs' = 0) /\ (~UsesDI(op) => destOfs' = 0)
      BY <1>8 DEF Round
    <3> QED
      BY <1>4, <2>2, <3>1
  <2>4. cx' = first.cx - (IF op.rep = "none" THEN 0 ELSE done')
    BY <1>1, <1>5, <1>6, <2>1
  <2>5. CASE pc' = "repeat" /\ si' = si /\ di' = di
    <3>1. Accounted'
      BY <1>2, <1>3, <1>4, <2>2, <2>4, <2>5 DEF Accounted
    <3>2. Registers'
      BY <1>1, <1>4, <1>5, <2>1, <2>3, <2>5 DEF Registers
    <3> QED
      BY <2>5, <3>1, <3>2
  <2>6. CASE FooterEnd(srcOfs', destOfs')
    <3>1. /\ pc' = "ok"
          /\ si' = (IF UsesSI(op) THEN CopiedBack(si, srcOfs') ELSE si)
          /\ di' = (IF UsesDI(op) THEN CopiedBack(di, destOfs') ELSE di)
      BY <2>6 DEF FooterEnd
    <3>2. si' \in 0 .. Wrap * High - 1 /\ di' \in 0 .. Wrap * High - 1
      BY <1>1, <1>4, <2>2, <3>1, CopiedType
    <3>3. done' # 0
      BY <1>1, <2>1
    <3>4. si' = Landed(first.si, UsesSI(op))'
      BY <1>2, <1>3, <1>4, <2>2, <3>1, <3>3 DEF Landed, CopiedBack
    <3>5. di' = Landed(first.di, UsesDI(op))'
      BY <1>2, <1>3, <1>4, <2>2, <3>1, <3>3 DEF Landed, CopiedBack
    <3>6. Accounted'
      BY <1>2, <2>4, <3>1, <3>4, <3>5 DEF Accounted
    <3>7. Registers'
      BY <1>1, <1>5, <2>1, <2>3, <3>2 DEF Registers
    <3> QED
      BY <3>1, <3>6, <3>7
  <2> QED
    BY <1>8, <2>5, <2>6 DEF Round
<1> QED
  BY <1>7, <1>8

\* The start of an instruction copies the registers to the locals.
LEMMA HeadCounts ==
  ASSUME StringInv, StringHead
  PROVE  Accounted' /\ Registers' /\ pc' \in {"repeat", "ok"} /\ done = 0 /\ done' = 0
<1>1. /\ pc = "start" /\ op \in Ops /\ done = 0 /\ cx \in 0 .. Wrap - 1
      /\ si = first.si /\ di = first.di
      /\ si \in 0 .. Wrap * High - 1 /\ di \in 0 .. Wrap * High - 1
      /\ cx = first.cx - (IF op.rep = "none" THEN 0 ELSE done)
  BY DEF StringHead, StringInv, StringTypeOK, Accounted
<1>2. /\ op' = op /\ es' = es /\ ds' = ds /\ holes' = holes /\ first' = first
      /\ si' = si /\ di' = di /\ cx' = cx /\ done' = done /\ pc' \in {"repeat", "ok"}
      /\ srcOfs' = (IF UsesSI(op) THEN si % Span(op) ELSE 0)
      /\ destOfs' = (IF UsesDI(op) THEN di % Span(op) ELSE 0)
  BY DEF StringHead
<1>3. /\ \A r, k : Ofs(r, k)' = Ofs(r, k)
      /\ UsesSI(op)' = UsesSI(op) /\ UsesDI(op)' = UsesDI(op)
  BY <1>2, Same
<1>4. /\ Span(op) - 1 <= Wrap * High - 1 /\ Span(op) \in Nat \ {0} /\ Wrap * High \in Nat \ {0}
  BY SpanIs, Sizes
<1>5. si % Span(op) = Ofs(first.si, 0) /\ di % Span(op) = Ofs(first.di, 0)
      /\ Ofs(first.si, 0) \in 0 .. Wrap * High - 1 /\ Ofs(first.di, 0) \in 0 .. Wrap * High - 1
  <2>1. first.si \in Nat /\ first.di \in Nat /\ 0 \in Int
    BY <1>1, <1>4
  <2> QED
    BY <1>1, <2>1, OfsType
<1>6. Registers'
  BY <1>1, <1>2, <1>4, <1>5 DEF Registers
<1>7. Accounted'
  <2>1. Landed(first.si, UsesSI(op))' = si' /\ Landed(first.di, UsesDI(op))' = di'
    BY <1>1, <1>2 DEF Landed
  <2> QED
    BY <1>1, <1>2, <1>3, <1>5, <2>1 DEF Accounted
<1> QED
  BY <1>1, <1>2, <1>6, <1>7

\* Its end copies them back.
LEMMA EndCounts ==
  ASSUME StringInv, Exhausted
  PROVE  Accounted' /\ Registers' /\ pc' = "ok" /\ done' = done
<1>1. /\ pc = "repeat" /\ op \in Ops /\ done \in Nat /\ cx \in 0 .. Wrap - 1
      /\ {si, di, srcOfs, destOfs} \subseteq 0 .. Wrap * High - 1
      /\ si = first.si /\ di = first.di
      /\ cx = first.cx - (IF op.rep = "none" THEN 0 ELSE done)
      /\ UsesSI(op) => srcOfs = Ofs(first.si, done)
      /\ UsesDI(op) => destOfs = Ofs(first.di, done)
  BY DEF Exhausted, StringInv, StringTypeOK, Accounted
<1>2. /\ op' = op /\ es' = es /\ ds' = ds /\ holes' = holes /\ first' = first
      /\ cx' = cx /\ done' = done /\ pc' = "ok" /\ srcOfs' = srcOfs /\ destOfs' = destOfs
      /\ si' = (IF UsesSI(op) THEN CopiedBack(si, srcOfs) ELSE si)
      /\ di' = (IF UsesDI(op) THEN CopiedBack(di, destOfs) ELSE di)
  BY DEF Exhausted, FooterEnd
<1>3. /\ UsesSI(op) \in BOOLEAN /\ UsesDI(op) \in BOOLEAN
      /\ Ofs(first.si, done) \in 0 .. Span(op) - 1 /\ Ofs(first.di, done) \in 0 .. Span(op) - 1
  <2>1. first.si \in Nat /\ first.di \in Nat
    BY <1>1, Sizes
  <2> QED
    <3>1. done \in Int
      BY <1>1
    <3>2. /\ Ofs(first.si, done) \in 0 .. Span(op) - 1
          /\ Ofs(first.di, done) \in 0 .. Span(op) - 1
      BY <1>1, <2>1, <3>1, OfsType
    <3> QED
      BY <3>2 DEF UsesSI, UsesDI
<1>4. /\ si' \in 0 .. Wrap * High - 1 /\ di' \in 0 .. Wrap * High - 1
  BY <1>1, <1>2, <1>3, CopiedType
<1>5. /\ Landed(first.si, UsesSI(op)) = si' /\ Landed(first.di, UsesDI(op)) = di'
  <2>1. /\ Landed(first.si, UsesSI(op))
             = IF UsesSI(op) THEN CopiedBack(first.si, Ofs(first.si, done)) ELSE first.si
        /\ Landed(first.di, UsesDI(op))
             = IF UsesDI(op) THEN CopiedBack(first.di, Ofs(first.di, done)) ELSE first.di
    BY <1>1, <1>3, Lands
  <2> QED
    BY <1>1, <1>2, <2>1
<1>6. /\ Landed(first.si, UsesSI(op))' = Landed(first.si, UsesSI(op))
      /\ Landed(first.di, UsesDI(op))' = Landed(first.di, UsesDI(op))
  <2>1. /\ \A r, k : Ofs(r, k)' = Ofs(r, k)
        /\ UsesSI(op)' = UsesSI(op) /\ UsesDI(op)' = UsesDI(op)
    BY <1>2, Same
  <2> QED
    BY <1>2, <2>1 DEF Landed
<1>7. Accounted'
  BY <1>1, <1>2, <1>5, <1>6 DEF Accounted
<1>8. Registers'
  BY <1>1, <1>2, <1>4 DEF Registers
<1> QED
  BY <1>2, <1>7, <1>8

-----------------------------------------------------------------------------
(* What is read and written has its type.                                  *)

\* The part of the types that is about data.
Data ==
  /\ ax \in [1..Width -> Byte] /\ zf \in BOOLEAN /\ cf \in BOOLEAN
  /\ store \in [Addrs -> Byte] /\ io \in Seq([1..op.step -> Byte])

\* The elements the loop is at, and those of the description, are in memory.
LEMMA Places ==
  ASSUME StringTypeOK, FirstOK, NEW k \in Int
  PROVE  /\ Source \in Nat /\ Dest \in Nat /\ SourceOf(k) \in Nat /\ DestOf(k) \in Nat
         /\ \A b \in 1 .. op.step :
              /\ Source + b - 1 \in Addrs /\ Dest + b - 1 \in Addrs
              /\ SourceOf(k) + b - 1 \in Addrs /\ DestOf(k) + b - 1 \in Addrs
<1>1. op \in Ops /\ es \in Segs /\ ds \in Segs
  BY DEF StringTypeOK
<1>2. srcOfs \in Int /\ destOfs \in Int /\ first.si \in Nat /\ first.di \in Nat
  BY Sizes DEF StringTypeOK, FirstOK
<1>3. Ofs(first.si, k) \in Int /\ Ofs(first.di, k) \in Int
  <2>1. /\ Ofs(first.si, k) \in 0 .. Wrap * High - 1
        /\ Ofs(first.di, k) \in 0 .. Wrap * High - 1
    BY <1>1, <1>2, OfsType
  <2> QED
    BY <2>1
<1> QED
  BY <1>1, <1>2, <1>3, InAddrs DEF Source, Dest, SourceOf, DestOf

\* An element has a size of the instruction's.
LEMMA StepSize == op \in Ops => op.step \in 1 .. Width /\ op.step \in Nat \ {0} /\ Width \in Nat
<1>1. op \in Ops => op.step \in Steps
  BY DEF Ops
<1> QED
  BY <1>1, Sizes

\* What is read there.
LEMMA ElementType ==
  ASSUME NEW m \in [Addrs -> Byte], NEW a, \A b \in 1 .. op.step : a + b - 1 \in Addrs
  PROVE  Element(m, a) \in [1 .. op.step -> Byte]
BY DEF Element

\* Memory after a write.
LEMMA StoredType ==
  ASSUME store \in [Addrs -> Byte], op \in Ops, NEW a \in Nat, NEW v,
         \A b \in 1 .. op.step : v[b] \in Byte
  PROVE  Stored(a, v) \in [Addrs -> Byte]
<1>1. ASSUME NEW x \in Addrs, x \in a .. a + op.step - 1
      PROVE  v[x - a + 1] \in Byte
  <2>1. op.step \in Nat
    BY StepSize
  <2>2. x - a + 1 \in 1 .. op.step
    BY <1>1, <2>1 DEF Addrs
  <2> QED
    BY <2>2
<1> QED
  BY <1>1 DEF Stored

\* Below is a truth value.
LEMMA BelowType == \A l, r : Below(l, r) \in BOOLEAN
BY DEF Below

\* What a string instruction reads and writes; scans and port writes, and
\* those that leave memory alone.
LEMMA DataKept ==
  ASSUME StringInv, Next
  PROVE  Data' /\ holes' \subseteq Addrs /\ op' = op
<1> DEFINE E == [1 .. op.step -> Byte]
<1>1. /\ op \in Ops /\ op.step \in 1 .. Width /\ op.step \in Nat \ {0} /\ Width \in Nat
      /\ ax \in [1..Width -> Byte] /\ zf \in BOOLEAN /\ cf \in BOOLEAN
      /\ store \in [Addrs -> Byte] /\ holes \subseteq Addrs /\ io \in Seq(E)
  BY StepSize DEF StringInv, StringTypeOK
<1>2. op' = op /\ holes' = holes
  BY Frame
<1>3. /\ Source \in Nat /\ Dest \in Nat
      /\ Element(store, Source) \in E /\ Element(store, Dest) \in E
  <2>1. /\ Source \in Nat /\ Dest \in Nat
        /\ \A b \in 1 .. op.step : Source + b - 1 \in Addrs /\ Dest + b - 1 \in Addrs
    BY Places DEF StringInv
  <2> QED
    BY <1>1, <2>1, ElementType
<1>4. \A v \in E : Stored(Dest, v) \in [Addrs -> Byte]
  BY <1>1, <1>3, StoredType
<1>5. Stored(Dest, ax) \in [Addrs -> Byte]
  <2>1. \A b \in 1 .. op.step : ax[b] \in Byte
    BY <1>1
  <2> QED
    BY <1>1, <1>3, <2>1, StoredType
<1>6. Loaded(ax, Source) \in [1..Width -> Byte]
  <2>1. \A b \in 1..Width : b <= op.step => store[Source + b - 1] \in Byte
    <3>1. \A b \in 1 .. op.step : Source + b - 1 \in Addrs
      BY Places DEF StringInv
    <3> QED
      BY <1>1, <3>1
  <2> QED
    BY <1>1, <2>1 DEF Loaded
<1>7. \A v \in E : Append(io, v) \in Seq(E)
  BY <1>1, AppendProperties
<1> HIDE DEF E
<1>8. \/ ax' = ax /\ zf' = zf /\ cf' = cf /\ store' = store /\ io' = io
      \/ /\ ax' = ax /\ zf' = zf /\ cf' = cf
         /\ io' = io \/ \E v \in E : io' = Append(io, v)
         /\ store' = store \/ store' = Stored(Dest, ax) \/ \E v \in E : store' = Stored(Dest, v)
      \/ ax' = Loaded(ax, Source) /\ zf' = zf /\ cf' = cf /\ store' = store /\ io' = io
      \/ ax' = ax /\ zf' \in BOOLEAN /\ cf' \in BOOLEAN /\ store' = store /\ io' = io
  <2>1. CASE StringHead \/ Exhausted
    BY <2>1 DEF StringHead, Exhausted
  <2>2. CASE MOVS
    BY <1>3, <2>2 DEF MOVS
  <2>3. CASE STOS
    BY <2>3 DEF STOS
  <2>4. CASE LODS
    BY <2>4 DEF LODS
  <2>5. CASE CMPS
    <3>1. \/ zf' = zf /\ cf' = cf
          \/ zf' \in BOOLEAN /\ cf' \in BOOLEAN
      BY <2>5, BelowType DEF CMPS, Compared
    <3>2. ax' = ax /\ store' = store /\ io' = io
      BY <2>5 DEF CMPS
    <3> QED
      BY <3>1, <3>2
  <2>6. CASE SCAS
    <3>1. \/ zf' = zf /\ cf' = cf
          \/ zf' \in BOOLEAN /\ cf' \in BOOLEAN
      BY <2>6, BelowType DEF SCAS, Compared
    <3>2. ax' = ax /\ store' = store /\ io' = io
      BY <2>6 DEF SCAS
    <3> QED
      BY <3>1, <3>2
  <2>7. CASE INS
    <3>1. \A v \in PortBytes : [b \in 1..op.step |-> v] \in E
      BY StringAssumption DEF E
    <3> QED
      BY <2>7, <3>1 DEF INS
  <2>8. CASE OUTS
    BY <1>3, <2>8 DEF OUTS
  <2> QED
    BY <2>1, <2>2, <2>3, <2>4, <2>5, <2>6, <2>7, <2>8 DEF Next
<1>9. /\ ax' \in [1..Width -> Byte] /\ store' \in [Addrs -> Byte] /\ io' \in Seq(E)
  BY <1>1, <1>4, <1>5, <1>6, <1>7, <1>8
<1>10. zf' \in BOOLEAN /\ cf' \in BOOLEAN
  BY <1>1, <1>8
<1> QED
  BY <1>1, <1>2, <1>9, <1>10 DEF Data, E

\* All types, and the alignment of the registers with the rounds.
LEMMA TypesKept ==
  ASSUME StringInv, Next
  PROVE  /\ StringTypeOK' /\ FirstOK' /\ Accounted' /\ (pc' = "start" => done' = 0)
<1>1. /\ UNCHANGED <<op, es, ds, holes, first>> /\ op \in Ops /\ es \in Segs /\ ds \in Segs
  BY Frame DEF StringInv, StringTypeOK
<1>2. Accounted' /\ Registers' /\ pc' \in {"repeat", "ok", "error"}
  <2>1. CASE StringHead
    BY <2>1, HeadCounts
  <2>2. CASE Exhausted
    BY <2>2, EndCounts
  <2>3. ASSUME NEW ok \in BOOLEAN, Round(ok) PROVE Accounted' /\ Registers' /\ pc' \in {"repeat", "ok", "error"}
    BY <2>3, RoundCounts
  <2> QED
    BY <2>1, <2>2, <2>3, StepIs
<1>3. Data' /\ holes' \subseteq Addrs /\ op' = op
  BY DataKept
<1>4. StringTypeOK'
  BY <1>1, <1>2, <1>3 DEF StringTypeOK, Registers, Data
<1> QED
  BY <1>1, <1>2, <1>4 DEF FirstOK, StringInv

-----------------------------------------------------------------------------
(* Reading.                                                                *)

\* Where nothing is written, what is read is what was there at the start.
LEMMA Untouched ==
  WritesExact /\ op.name \notin {"MOVS", "STOS", "INS"} => store = first.store
BY DEF WritesExact

\* LODS leaves the last element in AX.
LEMMA LodsReads ==
  ASSUME StringInv, LODS
  PROVE  ReadsInOrder'
<1> DEFINE ok == Backed(Source, op.step)
<1>1. /\ op.name = "LODS" /\ ax' = Loaded(ax, Source) /\ io' = io /\ Round(ok)
  BY DEF LODS
<1>2. /\ pc = "repeat" /\ op' = op /\ first' = first
      /\ UNCHANGED <<op, es, ds, holes, first>>
      /\ ok => done' = done + 1
      /\ ~ok => pc' = "error" /\ done' = done
  BY <1>1, Zenon DEF Round
<1>3. /\ op.step \in 1 .. Width /\ done \in Nat /\ ax \in [1..Width -> Byte] /\ io = <<>>
      /\ Width \in Nat
  BY <1>1, StepSize DEF StringInv, StringTypeOK, ReadsInOrder
<1>4. Source = SourceOf(done) /\ store = first.store
  BY <1>1, <1>2, Locals, Untouched DEF StringInv, UsesSI
<1>5. \A k : SourceOf(k)' = SourceOf(k)
  BY <1>2, Same
<1>6. \A b \in 1..Width :
        ax'[b] = IF b <= op.step /\ Backed(Source, b) THEN store[Source + b - 1] ELSE ax[b]
  BY <1>1, <1>3 DEF Loaded
<1>7. \A b \in 1..Width : b > op.step => ax'[b] = first.ax[b]
  <2>1. \A b \in 1..Width : b > op.step => ax[b] = first.ax[b]
    BY <1>1 DEF StringInv, ReadsInOrder
  <2> QED
    BY <1>3, <1>6, <2>1
<1>8. ok => \A b \in 1 .. op.step : ax'[b] = first.store[SourceOf(done) + b - 1]
  <2> SUFFICES ASSUME ok, NEW b \in 1 .. op.step
               PROVE  ax'[b] = first.store[SourceOf(done) + b - 1]
    OBVIOUS
  <2>1. Source \in Nat
    BY Places DEF StringInv
  <2>2. Backed(Source, b)
    BY <1>3, <2>1 DEF Backed
  <2> QED
    BY <1>3, <1>4, <1>6, <2>2
<1> HIDE DEF ok
<1>9. ASSUME NEW b \in 1..Width, ~(b > op.step)
      PROVE  /\ ~(done' = 0 /\ pc' # "error")
             /\ pc' # "error" => ax'[b] = first.store[SourceOf(done - 1)' + b - 1]
  <2>1. CASE ok
    <3>1. done' - 1 = done /\ done' # 0 /\ b \in 1 .. op.step
      BY <1>2, <1>3, <1>9, <2>1
    <3>2. SourceOf(done - 1)' = SourceOf(done)
      BY <1>5, <3>1
    <3> QED
      BY <1>8, <2>1, <3>1, <3>2
  <2>2. CASE ~ok
    BY <1>2, <2>2
  <2> QED
    BY <2>1, <2>2
<1> QED
  BY <1>1, <1>2, <1>3, <1>7, <1>9 DEF ReadsInOrder

\* OUTS has given the port the elements at the source, in order.
LEMMA OutsReads ==
  ASSUME StringInv, OUTS
  PROVE  ReadsInOrder'
<1> DEFINE E == [1..op.step -> Byte]
           e == Element(store, Source)
           Outs(n) == [k \in 1..n |-> Element(first.store, SourceOf(k - 1))]
<1>1. /\ op.name = "OUTS" /\ ax' = ax
      /\ \/ Round(TRUE) /\ io' = Append(io, e)
         \/ Round(FALSE) /\ io' = io
  BY DEF OUTS
<1>2. /\ pc = "repeat" /\ op' = op /\ first' = first
      /\ UNCHANGED <<op, es, ds, holes, first>>
      /\ Round(TRUE) => done' = done + 1
      /\ Round(FALSE) => done' = done
  BY <1>1 DEF Round
<1>3. done \in Nat /\ io = Outs(done) /\ ax = first.ax
  BY <1>1 DEF StringInv, StringTypeOK, ReadsInOrder
<1>4. e = Element(first.store, SourceOf(done))
  <2>1. Source = SourceOf(done) /\ store = first.store
    BY <1>1, <1>2, Locals, Untouched DEF StringInv, UsesSI
  <2> QED
    BY <2>1
<1>5. \A k : SourceOf(k)' = SourceOf(k)
  BY <1>2, Same
<1>6. \A m, a : Element(m, a)' = Element(m, a)
  BY <1>2, Same
<1>7. /\ Append(io, e) \in [1 .. done + 1 -> E] /\ Append(io, e)[done + 1] = e
      /\ \A k \in 1..done : Append(io, e)[k] = io[k]
  <2>1. io \in Seq(E) /\ e \in E
    <3>1. \A b \in 1 .. op.step : Source + b - 1 \in Addrs
      BY Places DEF StringInv
    <3> QED
      BY <3>1, ElementType DEF StringInv, StringTypeOK
  <2>2. Len(io) = done
    BY <1>3
  <2> HIDE DEF e, E
  <2>3. Append(io, e) \in Seq(E) /\ Len(Append(io, e)) = done + 1
    BY <2>1, <2>2, AppendProperties
  <2>4. Append(io, e) \in [1 .. done + 1 -> E]
    BY <2>3, LenProperties
  <2>5. /\ Append(io, e)[Len(io) + 1] = e
        /\ \A k \in 1 .. Len(io) : Append(io, e)[k] = io[k]
    BY <2>1, AppendProperties
  <2> QED
    BY <2>2, <2>4, <2>5
<1>8. \A k \in 1 .. done + 1 : Append(io, e)[k] = Element(first.store, SourceOf(k - 1))
  <2> SUFFICES ASSUME NEW k \in 1 .. done + 1
               PROVE  Append(io, e)[k] = Element(first.store, SourceOf(k - 1))
    OBVIOUS
  <2>1. CASE k \in 1..done
    BY <1>3, <1>7, <2>1
  <2>2. CASE k = done + 1
    <3>1. k - 1 = done
      BY <1>3, <2>2
    <3> QED
      BY <1>4, <1>7, <2>2, <3>1
  <2> QED
    BY <1>3, <2>1, <2>2
<1> HIDE DEF e
<1>9. Append(io, e) = Outs(done + 1)
  BY <1>7, <1>8
<1>10. io' = Outs(done')
  BY <1>1, <1>2, <1>3, <1>9
<1>11. io' = [k \in 1 .. done' |-> Element(first.store, SourceOf(k - 1))']
  BY <1>2, <1>5, <1>6, <1>10
<1> QED
  BY <1>1, <1>2, <1>3, <1>11 DEF ReadsInOrder

\* INS takes one element from the port per round.
LEMMA InsReads ==
  ASSUME StringInv, INS
  PROVE  ReadsInOrder'
<1>1. /\ op.name = "INS" /\ ax' = ax
      /\ \/ (Round(TRUE) \/ Round(FALSE)) /\ Len(io') = Len(io) + 1
         \/ Round(FALSE) /\ io' = io
  <2>1. Len(io) \in Nat /\ \A v : Len(Append(io, v)) = Len(io) + 1
    <3>1. io \in Seq([1..op.step -> Byte])
      BY DEF StringInv, StringTypeOK
    <3> QED
      BY <3>1, LenProperties, SMT
  <2>2. Round(Backed(Dest, op.step)) => Round(TRUE) \/ Round(FALSE)
    <3>1. Backed(Dest, op.step) = TRUE \/ Backed(Dest, op.step) = FALSE
      BY DEF Backed
    <3> QED
      BY <3>1, Zenon
  <2> QED
    BY <2>1, <2>2 DEF INS
<1>2. /\ pc = "repeat" /\ op' = op /\ first' = first
      /\ Round(TRUE) => done' = done + 1 /\ pc' \in {"repeat", "ok"}
      /\ Round(FALSE) => done' = done /\ pc' = "error"
  BY <1>1 DEF Round, FooterEnd
<1>3. done \in Nat /\ Len(io) \in Nat /\ Len(io) - done = 0 /\ ax = first.ax
  <2>1. Len(io) \in Nat /\ done \in Nat
    BY LenProperties DEF StringInv, StringTypeOK
  <2> QED
    BY <1>1, <1>2, <2>1 DEF StringInv, ReadsInOrder
<1>4. Len(io') - done' \in (IF pc' = "error" THEN 0..1 ELSE {0})
  <2>1. CASE Round(TRUE) /\ Len(io') = Len(io) + 1
    BY <1>2, <1>3, <2>1
  <2>2. CASE Round(FALSE)
    <3>1. done' = done /\ pc' = "error"
      BY <1>2, <2>2
    <3>2. Len(io') = Len(io) \/ Len(io') = Len(io) + 1
      BY <1>1
    <3> QED
      BY <1>3, <3>1, <3>2
  <2> QED
    BY <1>1, <2>1, <2>2
<1> QED
  BY <1>1, <1>2, <1>3, <1>4 DEF ReadsInOrder

\* The others leave the port and AX alone.
LEMMA OthersRead ==
  ASSUME StringInv, StringHead \/ Exhausted \/ MOVS \/ STOS \/ CMPS \/ SCAS
  PROVE  ReadsInOrder'
<1>1. ax' = ax /\ io' = io /\ UNCHANGED <<op, es, ds, holes, first>>
  BY Frame DEF Next, StringHead, Exhausted, MOVS, STOS, CMPS, SCAS
<1>2. CASE MOVS \/ STOS \/ CMPS \/ SCAS
  <2>1. op.name \in {"MOVS", "STOS", "CMPS", "SCAS"}
    BY <1>2 DEF MOVS, STOS, CMPS, SCAS
  <2> QED
    BY <1>1, <2>1 DEF StringInv, ReadsInOrder
<1>3. CASE StringHead \/ Exhausted
  <2>1. done' = done /\ pc # "error" /\ pc' # "error"
    BY <1>3 DEF StringHead, Exhausted, FooterEnd
  <2>2. \A k : SourceOf(k)' = SourceOf(k)
    BY <1>1, Same
  <2>3. \A m, a : Element(m, a)' = Element(m, a)
    BY <1>1, Same
  <2>4. SourceOf(done - 1)' = SourceOf(done - 1)
    BY <2>1, <2>2
  <2>5. op' = op /\ first' = first
    BY <1>1
  <2>6. op.name = "OUTS" => io' = [k \in 1 .. done' |-> Element(first.store, SourceOf(k - 1))']
    BY <1>1, <2>1, <2>2, <2>3, <2>5 DEF StringInv, ReadsInOrder
  <2> QED
    BY <1>1, <2>1, <2>4, <2>5, <2>6 DEF StringInv, ReadsInOrder
<1> QED
  BY <1>2, <1>3

\* What was read and in which order: all steps.
LEMMA ReadsKept ==
  ASSUME StringInv, Next
  PROVE  ReadsInOrder'
BY LodsReads, OutsReads, InsReads, OthersRead DEF Next

-----------------------------------------------------------------------------
(* Scans.                                                                  *)

\* A comparison sets the flags as its description says, and stops the loop
\* just when that ends the repetition.
LEMMA ScanCompares ==
  ASSUME StringInv, CMPS \/ SCAS
  PROVE  /\ Scans(op) /\ pc = "repeat"
         /\ \/ /\ Round(TRUE)
               /\ zf' = (Left(done) = Right(done)) /\ cf' = Below(Left(done), Right(done))
            \/ Round(FALSE) /\ zf' = zf /\ cf' = cf
<1>1. Scans(op) /\ pc = "repeat" /\ op.name \notin {"MOVS", "STOS", "INS"}
      /\ op.name # "LODS"
  BY DEF CMPS, SCAS, Round, Scans
<1>2. /\ store = first.store /\ ax = first.ax
      /\ UsesSI(op) => Source = SourceOf(done)
      /\ UsesDI(op) => Dest = DestOf(done)
  BY <1>1, Locals, Untouched DEF StringInv, ReadsInOrder
<1>3. CASE CMPS
  <2>1. Element(store, Source) = Left(done) /\ Element(store, Dest) = Right(done)
    BY <1>2, <1>3 DEF CMPS, UsesSI, UsesDI, Left, Right
  <2> DEFINE ok == Backed(Source, op.step) /\ Backed(Dest, op.step)
  <2>2. /\ Round(ok)
        /\ IF ok THEN Compared(Left(done), Right(done)) ELSE zf' = zf /\ cf' = cf
    BY <1>3, <2>1 DEF CMPS
  <2>3. ok = TRUE \/ ok = FALSE
    BY DEF Backed
  <2> HIDE DEF ok
  <2> QED
    BY <1>1, <2>2, <2>3, Zenon DEF Compared
<1>4. CASE SCAS
  <2>1. [b \in 1..op.step |-> ax[b]] = Left(done) /\ Element(store, Dest) = Right(done)
    BY <1>2, <1>4 DEF SCAS, UsesDI, Left, Right
  <2> DEFINE ok == Backed(Dest, op.step)
  <2>2. /\ Round(ok)
        /\ IF ok THEN Compared(Left(done), Right(done)) ELSE zf' = zf /\ cf' = cf
    BY <1>4, <2>1 DEF SCAS
  <2>3. ok = TRUE \/ ok = FALSE
    BY DEF Backed
  <2> HIDE DEF ok
  <2> QED
    BY <1>1, <2>2, <2>3, Zenon DEF Compared
<1> QED
  BY <1>3, <1>4

\* The end of a repetition.
LEMMA EndsKept ==
  ASSUME StringInv, Next
  PROVE  RepeatEnds'
<1>0. /\ UNCHANGED <<op, es, ds, holes, first>> /\ op' = op /\ first' = first
      /\ done \in Nat
  BY Frame DEF StringInv, StringTypeOK
<1>1. /\ \A k : Left(k)' = Left(k) /\ Right(k)' = Right(k)
      /\ \A l, r : Below(l, r)' = Below(l, r)
      /\ Scans(op)' = Scans(op)
  BY <1>0, Same
<1>2. CASE StringHead \/ Exhausted
  <2>1. /\ done' = done /\ zf' = zf /\ cf' = cf /\ pc # "ok" /\ pc' \in {"repeat", "ok"}
        /\ cx' = cx /\ (pc' = "ok" => op.rep # "none" /\ cx = 0)
        /\ pc \in {"start", "repeat"} /\ (pc = "start" => done = 0)
    BY <1>2 DEF StringHead, Exhausted, FooterEnd, StringInv
  <2>2. ASSUME NEW k \in 0 .. done' - (IF pc' = "repeat" THEN 1 ELSE 2), Scans(op)
        PROVE  ~EndsAt(Left(k) = Right(k))
    <3>1. k \in 0 .. done - (IF pc = "repeat" THEN 1 ELSE 2)
      BY <1>0, <2>1
    <3> QED
      BY <2>2, <3>1 DEF StringInv, RepeatEnds
  <2>3. ASSUME NEW k \in 0 .. done' - (IF pc' = "repeat" THEN 1 ELSE 2), Scans(op)
        PROVE  ~EndsAt(Left(k) = Right(k))'
    BY <1>0, <1>1, <2>2, <2>3 DEF EndsAt
  <2>4. Scans(op) =>
          IF done = 0 THEN zf = first.zf /\ cf = first.cf
          ELSE /\ zf = (Left(done - 1) = Right(done - 1))
               /\ cf = Below(Left(done - 1), Right(done - 1))
    BY DEF StringInv, RepeatEnds
  <2>5. Scans(op)' =>
          IF done' = 0 THEN zf' = first'.zf /\ cf' = first'.cf
          ELSE /\ zf' = (Left(done - 1) = Right(done - 1))'
               /\ cf' = Below(Left(done - 1), Right(done - 1))'
    BY <1>0, <1>1, <2>1, <2>4
  <2> QED
    BY <1>0, <1>1, <2>1, <2>3, <2>5 DEF RepeatEnds
<1>3. CASE MOVS \/ STOS \/ LODS \/ INS \/ OUTS
  <2>1. ~Scans(op) /\ op.name \notin {"CMPS", "SCAS"}
    BY <1>3 DEF MOVS, STOS, LODS, INS, OUTS, Scans
  <2>2. PICK ok \in BOOLEAN : Round(ok)
    BY <1>3, <2>1, StepIs DEF Next, MOVS, STOS, LODS, INS, OUTS, StringHead, Exhausted, Round
  <2>3. op.rep # "none" => pc' # "ok"
    BY <2>1, <2>2 DEF Round, Stops
  <2> QED
    BY <1>0, <1>1, <2>1, <2>3 DEF RepeatEnds
<1>4. CASE CMPS \/ SCAS
  <2>1. Scans(op) /\ pc = "repeat"
    BY <1>4, ScanCompares
  <2>2. /\ \A k \in 0 .. done - 1 : ~EndsAt(Left(k) = Right(k))
        /\ IF done = 0 THEN zf = first.zf /\ cf = first.cf
           ELSE /\ zf = (Left(done - 1) = Right(done - 1))
                /\ cf = Below(Left(done - 1), Right(done - 1))
    BY <2>1 DEF StringInv, RepeatEnds
  <2>3. CASE Round(FALSE) /\ zf' = zf /\ cf' = cf
    <3>1. pc' = "error" /\ done' = done
      BY <2>3 DEF Round
    <3>2. ASSUME NEW k \in 0 .. done' - 2
          PROVE  ~EndsAt(Left(k) = Right(k))'
      <4>1. k \in 0 .. done - 1
        BY <1>0, <3>1
      <4> QED
        BY <1>0, <1>1, <2>2, <4>1 DEF EndsAt
    <3>3. IF done' = 0 THEN zf' = first'.zf /\ cf' = first'.cf
          ELSE /\ zf' = (Left(done - 1) = Right(done - 1))'
               /\ cf' = Below(Left(done - 1), Right(done - 1))'
      BY <1>0, <1>1, <2>2, <2>3, <3>1
    <3> QED
      BY <3>1, <3>2, <3>3 DEF RepeatEnds
  <2>4. CASE /\ Round(TRUE) /\ zf' = (Left(done) = Right(done))
             /\ cf' = Below(Left(done), Right(done))
    <3>1. /\ done' = done + 1 /\ done' - 1 = done /\ done' # 0
          /\ pc' \in {"repeat", "ok"}
          /\ pc' = "ok" => op.rep = "none" \/ Stops(zf')
          /\ pc' = "repeat" => ~Stops(zf')
      BY <1>0, <2>4 DEF Round, FooterEnd
    <3>2. Stops(zf') <=> EndsAt(Left(done) = Right(done))
      <4>1. CASE Left(done) = Right(done)
        BY <2>4, <4>1 DEF Stops, EndsAt
      <4>2. CASE Left(done) # Right(done)
        BY <2>4, <4>2 DEF Stops, EndsAt
      <4> QED
        BY <4>1, <4>2
    <3>3. pc' = "ok" /\ op.rep # "none" => EndsAt(Left(done' - 1) = Right(done' - 1))
      BY <3>1, <3>2
    <3>4. ASSUME NEW k \in 0 .. done' - (IF pc' = "repeat" THEN 1 ELSE 2)
          PROVE  ~EndsAt(Left(k) = Right(k))
      <4>1. CASE k \in 0 .. done - 1
        BY <2>2, <4>1
      <4>2. CASE k = done
        <5>1. pc' = "repeat"
          BY <1>0, <3>1, <4>2
        <5> QED
          BY <3>1, <3>2, <4>2, <5>1
      <4> QED
        BY <1>0, <3>1, <4>1, <4>2
    <3>5. /\ \A k \in 0 .. done' - (IF pc' = "repeat" THEN 1 ELSE 2) :
               ~EndsAt(Left(k) = Right(k))'
          /\ pc' = "ok" /\ op.rep # "none" => EndsAt(Left(done - 1) = Right(done - 1))'
      BY <1>0, <1>1, <3>3, <3>4 DEF EndsAt
    <3>6. /\ zf' = (Left(done - 1) = Right(done - 1))'
          /\ cf' = Below(Left(done - 1), Right(done - 1))'
      BY <1>1, <2>4, <3>1
    <3> QED
      BY <1>0, <3>1, <3>5, <3>6 DEF RepeatEnds
  <2> QED
    BY <1>4, <2>3, <2>4, ScanCompares
<1> QED
  BY <1>2, <1>3, <1>4 DEF Next

-----------------------------------------------------------------------------
(* Writing.                                                                *)

\* The elements written over a byte, and what the last one left there.
Over(a) == {k \in 0 .. done - 1 : a \in BytesAt(DestOf(k))}
Content(a) ==
  IF Over(a) = {} THEN first.store[a]
  ELSE Written(Max(Over(a)))[a - DestOf(Max(Over(a))) + 1]

\* The parts of WritesExact.
AllBacked ==
  \A k \in 0 .. done - 1 :
    /\ UsesSI(op) => Backed(SourceOf(k), op.step)
    /\ UsesDI(op) => Backed(DestOf(k), op.step)
Memory ==
  \A a \in Addrs :
    \/ store[a] = Content(a)
    \/ /\ pc = "error" /\ a \in BytesAt(DestOf(done))
       /\ op.name = "MOVS" => Backed(SourceOf(done), op.step)
       /\ op.name = "INS" => Len(io) = done + 1
       /\ store[a] = Written(done)[a - DestOf(done) + 1]

\* These are its parts.
LEMMA WritesParts ==
  WritesExact <=>
    /\ AllBacked
    /\ IF op.name \in {"MOVS", "STOS", "INS"}
       THEN (op.name = "MOVS" => Apart(done + 1)) => Memory
       ELSE store = first.store
BY DEF WritesExact, AllBacked, Memory, Content, Over

\* Elements that have been handled were backed by memory.
LEMMA BackedKept ==
  ASSUME StringInv, Next
  PROVE  AllBacked'
<1>1. AllBacked /\ done \in Nat /\ UNCHANGED <<op, es, ds, holes, first>>
  BY Frame, WritesParts DEF StringInv, StringTypeOK
<1>2. /\ \A k : SourceOf(k)' = SourceOf(k) /\ DestOf(k)' = DestOf(k)
      /\ \A a, n : Backed(a, n)' = Backed(a, n)
      /\ UsesSI(op)' = UsesSI(op) /\ UsesDI(op)' = UsesDI(op)
  BY <1>1, Same
<1>3. CASE done' = done
  BY <1>1, <1>2, <1>3 DEF AllBacked
<1>4. CASE done' # done
  <2>1. PICK ok \in BOOLEAN : Round(ok) /\ (ok => Handled)
    BY <1>4, StepIs DEF StringHead, Exhausted
  <2>2. pc = "repeat" /\ ok /\ done' = done + 1
    BY <1>4, <2>1 DEF Round
  <2>3. /\ UsesSI(op) => Backed(SourceOf(done), op.step)
        /\ UsesDI(op) => Backed(DestOf(done), op.step)
    BY <2>1, <2>2, Locals DEF StringInv, Handled
  <2>4. ASSUME NEW k \in 0 .. done' - 1
        PROVE  /\ UsesSI(op) => Backed(SourceOf(k), op.step)
               /\ UsesDI(op) => Backed(DestOf(k), op.step)
    <3>1. CASE k \in 0 .. done - 1
      BY <1>1, <3>1 DEF AllBacked
    <3>2. CASE k = done
      BY <2>3, <3>2
    <3> QED
      BY <1>1, <2>2, <3>1, <3>2
  <2> QED
    BY <1>1, <1>2, <2>4 DEF AllBacked
<1> QED
  BY <1>3, <1>4

\* The last element over a byte is one of those handled.
LEMMA LastOver ==
  ASSUME done \in Nat, NEW a, Over(a) # {}
  PROVE  Max(Over(a)) \in 0 .. done - 1
<1>1. Over(a) \subseteq 0 .. done - 1 /\ 0 .. done - 1 \subseteq Nat
  BY DEF Over
<1>2. IsFiniteSet(0 .. done - 1)
  BY FS_Interval
<1>3. IsFiniteSet(Over(a)) /\ Over(a) \subseteq Nat
  BY <1>1, <1>2, FS_Subset
<1> QED
  BY <1>1, <1>3, MaxIs

\* With no element more, nothing changes.
LEMMA ContentSame ==
  ASSUME done \in Nat, UNCHANGED <<op, es, ds, holes, first, done>>,
         \A k \in 0 .. done - 1 : Written(k)' = Written(k), NEW a
  PROVE  Content(a)' = Content(a)
<1>1. /\ \A k : DestOf(k)' = DestOf(k)
      /\ \A x : BytesAt(x)' = BytesAt(x)
  BY Same
<1>2. Over(a)' = Over(a)
  BY <1>1 DEF Over
<1>3. CASE Over(a) = {}
  BY <1>2, <1>3 DEF Content
<1>4. CASE Over(a) # {}
  <2>1. PICK m \in 0 .. done - 1 : m = Max(Over(a))
    BY <1>4, LastOver
  <2>2. Max(Over(a))' = m
    BY <1>2, <2>1
  <2>3. Written(m)' = Written(m) /\ DestOf(m)' = DestOf(m)
    BY <1>1, <2>1
  <2>4. Content(a)' = Written(m)'[a - DestOf(m)' + 1]
    BY <1>2, <1>4, <2>2 DEF Content
  <2> QED
    BY <1>4, <2>1, <2>3, <2>4 DEF Content
<1> QED
  BY <1>3, <1>4

\* The newest element is on top.
LEMMA ContentMore ==
  ASSUME NEW n \in Nat, n = done, done' = n + 1, UNCHANGED <<op, es, ds, holes, first>>,
         \A k \in 0 .. n - 1 : Written(k)' = Written(k), NEW a
  PROVE  /\ a \in BytesAt(DestOf(n)) => Content(a)' = Written(n)'[a - DestOf(n) + 1]
         /\ a \notin BytesAt(DestOf(n)) => Content(a)' = Content(a)
<1>1. /\ \A k : DestOf(k)' = DestOf(k)
      /\ \A x : BytesAt(x)' = BytesAt(x)
  BY Same
<1>2. Over(a)' = {k \in 0..n : a \in BytesAt(DestOf(k))}
  BY <1>1 DEF Over
<1>3. CASE a \in BytesAt(DestOf(n))
  <2>1. n \in Over(a)' /\ \A k \in Over(a)' : n >= k /\ k \in Nat
    BY <1>2, <1>3
  <2>2. Max(Over(a))' = n
    <3>1. \A x \in Over(a)' : (\A y \in Over(a)' : x >= y) => x = n
      BY <2>1
    <3> QED
      BY <2>1, <3>1 DEF Max
  <2>3. Content(a)' = Written(n)'[a - DestOf(n)' + 1]
    <3>1. Over(a)' # {}
      BY <2>1
    <3> QED
      BY <2>2, <3>1 DEF Content
  <2> QED
    BY <1>1, <1>3, <2>3
<1>4. CASE a \notin BytesAt(DestOf(n))
  <2>1. Over(a)' = Over(a)
    BY <1>2, <1>4 DEF Over
  <2>2. CASE Over(a) = {}
    BY <1>4, <2>1, <2>2 DEF Content
  <2>3. CASE Over(a) # {}
    <3>1. PICK m \in 0 .. n - 1 : m = Max(Over(a))
      BY <2>3, LastOver
    <3>2. Max(Over(a))' = m
      BY <2>1, <3>1
    <3>3. Written(m)' = Written(m) /\ DestOf(m)' = DestOf(m)
      BY <1>1, <3>1
    <3>4. Content(a)' = Written(m)'[a - DestOf(m)' + 1]
      BY <2>1, <2>3, <3>2 DEF Content
    <3>5. Content(a) = Written(m)[a - DestOf(m) + 1]
      BY <2>3, <3>1 DEF Content
    <3> QED
      BY <1>4, <3>3, <3>4, <3>5
  <2> QED
    BY <1>4, <2>2, <2>3
<1> QED
  BY <1>3, <1>4

\* Between two rounds memory is the description's.
LEMMA ContentNow ==
  ASSUME StringInv, pc = "repeat", op.name \in {"MOVS", "STOS", "INS"},
         op.name = "MOVS" => Apart(done + 1)
  PROVE  \A a \in Addrs : store[a] = Content(a)
<1>1. Memory
  BY WritesParts DEF StringInv
<1> QED
  BY <1>1 DEF Memory

\* A write of the whole element, or of its bytes in front of a hole.
LEMMA MemoryWritten ==
  ASSUME StringInv, pc = "repeat", op.name \in {"MOVS", "STOS", "INS"},
         op.name = "MOVS" => Apart(done + 1),
         UNCHANGED <<op, es, ds, holes, first>>,
         NEW n \in Nat, n = done, \A k \in 0 .. n - 1 : Written(k)' = Written(k),
         NEW v, \A b \in 1 .. op.step : Written(n)'[b] = v[b],
         store' = Stored(Dest, v),
         \/ done' = n + 1 /\ Backed(Dest, op.step)
         \/ /\ done' = n /\ pc' = "error"
            /\ op.name = "MOVS" => Backed(SourceOf(n), op.step)
            /\ op.name = "INS" => Len(io') = n + 1
  PROVE  Memory'
<1>1. /\ Dest = DestOf(n) /\ Dest \in Nat /\ op.step \in Nat
      /\ \A a \in Addrs : store[a] = Content(a)
  <2>1. Dest = DestOf(n)
    BY Locals DEF StringInv, UsesDI
  <2>2. Dest \in Nat /\ op.step \in Nat
    <3>1. op \in Ops /\ StringTypeOK /\ FirstOK
      BY DEF StringInv, StringTypeOK
    <3>2. op.step \in Nat
      BY <3>1, StepSize
    <3>3. Dest \in Nat
      <4>1. 0 \in Int
        OBVIOUS
      <4> QED
        BY <3>1, <4>1, Places
    <3> QED
      BY <3>2, <3>3
  <2> QED
    BY <2>1, <2>2, ContentNow
<1>2. /\ \A k : SourceOf(k)' = SourceOf(k) /\ DestOf(k)' = DestOf(k)
      /\ \A x : BytesAt(x)' = BytesAt(x)
      /\ \A x, y : Backed(x, y)' = Backed(x, y)
  BY Same
<1>3. SUFFICES ASSUME NEW a \in Addrs
               PROVE  \/ store'[a] = Content(a)'
                      \/ /\ done' = n /\ pc' = "error" /\ a \in BytesAt(DestOf(n))
                         /\ op.name = "MOVS" => Backed(SourceOf(n), op.step)
                         /\ op.name = "INS" => Len(io') = n + 1
                         /\ store'[a] = Written(n)'[a - DestOf(n) + 1]
  BY <1>2 DEF Memory
<1>4. /\ a \in Nat
      /\ a \in BytesAt(Dest) => a - Dest + 1 \in 1 .. op.step
      /\ store'[a] = IF a \in BytesAt(Dest) /\ Backed(Dest, a - Dest + 1)
                     THEN v[a - Dest + 1] ELSE store[a]
  BY <1>1 DEF Stored, BytesAt, Addrs
<1>5. CASE a \notin BytesAt(Dest)
  <2>1. Content(a)' = Content(a)
    BY <1>1, <1>5, ContentSame, ContentMore
  <2> QED
    BY <1>1, <1>4, <1>5, <2>1
<1>6. CASE a \in BytesAt(Dest) /\ done' = n + 1 /\ Backed(Dest, op.step)
  <2>1. Backed(Dest, a - Dest + 1)
    BY <1>1, <1>4, <1>6 DEF Backed
  <2>2. store'[a] = Written(n)'[a - DestOf(n) + 1]
    BY <1>1, <1>4, <1>6, <2>1
  <2>3. Content(a)' = Written(n)'[a - DestOf(n) + 1]
    BY <1>1, <1>6, ContentMore
  <2> QED
    BY <2>2, <2>3
<1>7. CASE /\ a \in BytesAt(Dest) /\ done' = n /\ pc' = "error"
           /\ op.name = "MOVS" => Backed(SourceOf(n), op.step)
           /\ op.name = "INS" => Len(io') = n + 1
  <2>1. CASE Backed(Dest, a - Dest + 1)
    <3>1. store'[a] = Written(n)'[a - DestOf(n) + 1]
      BY <1>1, <1>4, <1>7, <2>1
    <3> QED
      BY <1>1, <1>7, <3>1
  <2>2. CASE ~Backed(Dest, a - Dest + 1)
    <3>1. Content(a)' = Content(a)
      BY <1>7, ContentSame
    <3> QED
      BY <1>1, <1>4, <2>2, <3>1
  <2> QED
    BY <2>1, <2>2
<1> QED
  BY <1>5, <1>6, <1>7

\* Nothing is written.
LEMMA MemoryKept ==
  ASSUME StringInv, pc # "error", op.name \in {"MOVS", "STOS", "INS"},
         op.name = "MOVS" => Apart(done + 1),
         UNCHANGED <<op, es, ds, holes, first, store, done>>,
         \A k \in 0 .. done - 1 : Written(k)' = Written(k)
  PROVE  Memory'
<1>1. done \in Nat /\ \A a \in Addrs : store[a] = Content(a)
  BY WritesParts DEF StringInv, StringTypeOK, Memory
<1>2. \A a \in Addrs : Content(a)' = Content(a)
  BY <1>1, ContentSame
<1> QED
  BY <1>1, <1>2 DEF Memory

\* No element is read where one was written, and what is written does not
\* change, as long as this holds of one element more.
LEMMA ApartKept ==
  ASSUME UNCHANGED <<op, es, ds, holes, first>>, done \in Nat,
         done' = done \/ done' = done + 1, Apart(done + 1)'
  PROVE  Apart(done + 1)
<1>1. /\ \A k : SourceOf(k)' = SourceOf(k) /\ DestOf(k)' = DestOf(k)
      /\ \A x : BytesAt(x)' = BytesAt(x)
  BY Same
<1>2. \A k \in 0 .. done : k \in 0 .. done' + 1 - 1
  OBVIOUS
<1> QED
  BY <1>1, <1>2 DEF Apart

\* MOVS writes what it read, which is what was there at the start.
LEMMA MovsWrites ==
  ASSUME StringInv, MOVS, Apart(done + 1)
  PROVE  Memory'
<1>1. /\ op.name = "MOVS" /\ pc = "repeat" /\ io' = io
      /\ UNCHANGED <<op, es, ds, holes, first>>
      /\ store \in [Addrs -> Byte] /\ done \in Nat
  BY Frame DEF Next, MOVS, Round, StringInv, StringTypeOK
<1>2. PICK n \in Nat : n = done
  BY <1>1
<1>3. Source = SourceOf(n) /\ Source \in Nat
      /\ \A b \in 1 .. op.step : Source + b - 1 \in Addrs
  BY <1>1, <1>2, Locals, Places DEF StringInv, UsesSI
<1>4. \A k : Written(k) = Element(first.store, SourceOf(k)) /\ Written(k)' = Written(k)
  <2>1. /\ \A k : SourceOf(k)' = SourceOf(k)
        /\ \A m, a : Element(m, a)' = Element(m, a)
    BY <1>1, Same
  <2> QED
    BY <1>1, <2>1 DEF Written
<1>5. ASSUME NEW b \in 1 .. op.step
      PROVE  Written(n)[b] = Element(store, Source)[b]
  <2> DEFINE a == Source + b - 1
  <2>1. a \in Addrs /\ a \in BytesAt(SourceOf(n))
    <3>1. op.step \in Nat
      BY StepSize DEF StringInv, StringTypeOK
    <3> QED
      BY <1>3, <3>1 DEF BytesAt
  <2>2. Over(a) = {}
    <3>1. \A j \in 0 .. n - 1 : BytesAt(DestOf(j)) \cap BytesAt(SourceOf(n)) = {}
      BY <1>2 DEF Apart
    <3> HIDE DEF a
    <3> QED
      BY <1>2, <2>1, <3>1 DEF Over
  <2>3. store[a] = first.store[a]
    <3> HIDE DEF a
    <3> QED
      BY <1>1, <2>1, <2>2, ContentNow DEF Content
  <2> QED
    BY <1>3, <1>4, <2>3 DEF Element
<1>6. CASE Backed(Source, op.step)
  <2>1. store' = Stored(Dest, Element(store, Source))
    BY <1>6 DEF MOVS
  <2>2. Backed(SourceOf(n), op.step)
    BY <1>3, <1>6
  <2>3. \/ done' = n + 1 /\ Backed(Dest, op.step)
        \/ done' = n /\ pc' = "error"
    BY <1>2, <1>6 DEF MOVS, Round
  <2> QED
    BY <1>1, <1>2, <1>4, <1>5, <2>1, <2>2, <2>3, MemoryWritten
<1>7. CASE ~Backed(Source, op.step)
  <2>1. store' = store /\ done' = done
    BY <1>7 DEF MOVS, Round
  <2> QED
    BY <1>1, <1>4, <2>1, MemoryKept
<1> QED
  BY <1>6, <1>7

\* STOS writes AX.
LEMMA StosWrites ==
  ASSUME StringInv, STOS
  PROVE  Memory'
<1>1. /\ op.name = "STOS" /\ pc = "repeat" /\ ax = first.ax
      /\ UNCHANGED <<op, es, ds, holes, first>> /\ done \in Nat
      /\ store' = Stored(Dest, ax)
  BY Frame DEF Next, STOS, Round, StringInv, StringTypeOK, ReadsInOrder
<1>2. PICK n \in Nat : n = done
  BY <1>1
<1>3. \A k : Written(k) = ax /\ Written(k)' = Written(k)
  BY <1>1 DEF Written
<1>4. \/ done' = n + 1 /\ Backed(Dest, op.step)
      \/ done' = n /\ pc' = "error"
  BY <1>2 DEF STOS, Round
<1> QED
  BY <1>1, <1>2, <1>3, <1>4, MemoryWritten

\* INS writes what the port gave.
LEMMA InsWrites ==
  ASSUME StringInv, INS
  PROVE  Memory'
<1>1. /\ op.name = "INS" /\ pc = "repeat" /\ UNCHANGED <<op, es, ds, holes, first>>
      /\ io \in Seq([1..op.step -> Byte]) /\ done \in Nat
  BY Frame DEF Next, INS, Round, StringInv, StringTypeOK
<1>2. PICK n \in Nat : n = done
  BY <1>1
<1>3. Len(io) = n
  <2>1. Len(io) \in Nat /\ Len(io) - done = 0
    BY <1>1, LenProperties DEF StringInv, ReadsInOrder
  <2> QED
    BY <1>2, <2>1
<1>4. \A k : Written(k) = io[k + 1] /\ Written(k)' = io'[k + 1]
  BY <1>1 DEF Written
<1>5. CASE UNCHANGED <<io, store>> /\ Round(FALSE)
  <2>1. done' = done
    BY <1>5 DEF Round
  <2> QED
    BY <1>1, <1>4, <1>5, <2>1, MemoryKept
<1>6. ASSUME NEW e \in [1..op.step -> Byte], io' = Append(io, e),
             store' = Stored(Dest, e), Round(Backed(Dest, op.step))
      PROVE  Memory'
  <2>1. /\ Len(io') = n + 1 /\ io'[n + 1] = e
        /\ \A k \in 1..n : io'[k] = io[k]
    BY <1>1, <1>3, <1>6, AppendProperties
  <2>2. Written(n)' = e /\ \A k \in 0 .. n - 1 : Written(k)' = Written(k)
    BY <1>4, <2>1
  <2>3. \/ done' = n + 1 /\ Backed(Dest, op.step)
        \/ done' = n /\ pc' = "error"
    BY <1>2, <1>6 DEF Round
  <2> QED
    BY <1>1, <1>2, <1>6, <2>1, <2>2, <2>3, MemoryWritten
<1>7. \A v \in PortBytes : [b \in 1..op.step |-> v] \in [1..op.step -> Byte]
  BY StringAssumption
<1> QED
  BY <1>5, <1>6, <1>7 DEF INS

\* All steps write what the description says.
LEMMA WritesKept ==
  ASSUME StringInv, Next
  PROVE  WritesExact'
<1>1. UNCHANGED <<op, es, ds, holes, first>> /\ AllBacked' /\ op' = op /\ first' = first
      /\ done \in Nat
  BY Frame, BackedKept DEF StringInv, StringTypeOK
<1>2. CASE op.name \notin {"MOVS", "STOS", "INS"}
  <2>1. store' = store
    BY <1>2 DEF Next, StringHead, Exhausted, MOVS, STOS, LODS, CMPS, SCAS, INS, OUTS
  <2>2. store' = first'.store
    BY <1>1, <1>2, <2>1, Untouched DEF StringInv
  <2> QED
    BY <1>1, <1>2, <2>2, WritesParts DEF WritesExact, AllBacked
<1>3. CASE op.name \in {"MOVS", "STOS", "INS"}
  <2>1. done' = done \/ done' = done + 1
    <3>1. \A ok \in BOOLEAN : Round(ok) => done' = done \/ done' = done + 1
      BY DEF Round
    <3> QED
      BY <3>1, StepIs DEF StringHead, Exhausted
  <2>2. ASSUME op.name = "MOVS" => Apart(done + 1)'
        PROVE  Memory'
    <3>1. op.name = "MOVS" => Apart(done + 1)
      BY <1>1, <2>1, <2>2, ApartKept
    <3>2. CASE StringHead \/ Exhausted
      <4>1. store' = store /\ done' = done /\ io' = io /\ pc # "error"
        BY <3>2 DEF StringHead, Exhausted
      <4>2. \A k : Written(k)' = Written(k)
        <5>1. /\ \A k : SourceOf(k)' = SourceOf(k)
              /\ \A m, a : Element(m, a)' = Element(m, a)
          BY <1>1, Same
        <5> QED
          BY <1>1, <1>3, <4>1, <5>1 DEF Written
      <4> QED
        BY <1>1, <1>3, <3>1, <4>1, <4>2, MemoryKept
    <3>3. CASE MOVS
      <4>1. op.name = "MOVS"
        BY <3>3 DEF MOVS
      <4> QED
        BY <3>1, <3>3, <4>1, MovsWrites
    <3>4. CASE STOS
      BY <3>4, StosWrites
    <3>5. CASE INS
      BY <3>5, InsWrites
    <3>6. CASE LODS \/ CMPS \/ SCAS \/ OUTS
      BY <1>3, <3>6 DEF LODS, CMPS, SCAS, OUTS
    <3> QED
      BY <3>2, <3>3, <3>4, <3>5, <3>6 DEF Next
  <2> QED
    BY <1>1, <1>3, <2>2 DEF WritesExact, AllBacked, Memory, Content, Over
<1> QED
  BY <1>2, <1>3

-----------------------------------------------------------------------------
(* Copies onto themselves.                                                 *)

\* Remainders repeat.
LEMMA ModMinus ==
  ASSUME NEW p \in Nat \ {0}, NEW n \in Nat
  PROVE  /\ n < p => n % p = n
         /\ (n - p) % p = n % p
<1>1. ASSUME n < p PROVE n % p = n
  <2>1. n = p * 0 + n /\ n \in 0 .. p - 1
    BY <1>1
  <2>2. (p * 0 + n) % p = n
    BY <2>1, ModUnique
  <2> QED
    BY <2>1, <2>2
<1>2. (n - p) % p = n % p
  <2>1. PICK q \in Int : n - p = p * q + ((n - p) % p)
    <3>1. n - p \in Int
      OBVIOUS
    <3> QED
      BY <3>1, Divided
  <2>2. PICK r \in 0 .. p - 1 : r = (n - p) % p
    <3>1. n - p \in Int
      OBVIOUS
    <3> QED
      BY <3>1, Divided
  <2>3. n = p * (q + 1) + r
    <3>1. p * (q + 1) = p * q + p /\ p * q \in Int
      OBVIOUS
    <3>2. n - p = p * q + r
      BY <2>1, <2>2
    <3> QED
      BY <3>1, <3>2
  <2>4. q + 1 \in Int /\ (p * (q + 1) + r) % p = r
    BY ModUnique
  <2> QED
    BY <2>2, <2>3, <2>4
<1> QED
  BY <1>1, <1>2

\* What a round of MOVS does that does not fail.
LEMMA MovsMoves ==
  ASSUME StringInv, MOVS, pc' # "error", NEW n \in Nat, n = done
  PROVE  /\ done' = n + 1
         /\ Element(store', DestOf(n)) = Element(store, SourceOf(n))
         /\ \A a \in Addrs : a \notin BytesAt(DestOf(n)) => store'[a] = store[a]
<1>1. /\ op.name = "MOVS" /\ pc = "repeat" /\ op.step \in Nat
      /\ store \in [Addrs -> Byte]
  BY StepSize DEF MOVS, Round, StringInv, StringTypeOK
<1>2. /\ Backed(Source, op.step) /\ Backed(Dest, op.step) /\ done' = n + 1
      /\ store' = Stored(Dest, Element(store, Source))
  BY DEF MOVS, Round
<1>3. Source = SourceOf(n) /\ Dest = DestOf(n) /\ Dest \in Nat
      /\ \A b \in 1 .. op.step : Dest + b - 1 \in Addrs
  BY <1>1, Locals, Places DEF StringInv, UsesSI, UsesDI
<1>4. ASSUME NEW b \in 1 .. op.step
      PROVE  store'[Dest + b - 1] = Element(store, Source)[b]
  <2> DEFINE a == Dest + b - 1
  <2>1. /\ a \in Addrs /\ a - Dest + 1 = b /\ a \in Dest .. Dest + op.step - 1
    BY <1>1, <1>3
  <2>2. Backed(Dest, b)
    BY <1>1, <1>2, <1>3 DEF Backed
  <2> HIDE DEF a
  <2>3. store'[a] = Element(store, Source)[b]
    BY <1>2, <2>1, <2>2 DEF Stored
  <2> QED
    BY <2>3 DEF a
<1>5. Element(store', Dest) = Element(store, Source)
  BY <1>4 DEF Element
<1>6. \A a \in Addrs : a \notin BytesAt(Dest) => store'[a] = store[a]
  BY <1>2 DEF Stored, BytesAt
<1> QED
  BY <1>2, <1>3, <1>5, <1>6

\* MOVS changes the elements handled and no more memory.
LEMMA ElsewhereKept ==
  ASSUME StringInv, Next
  PROVE  Elsewhere'
<1>1. /\ UNCHANGED <<op, es, ds, holes, first>> /\ op' = op /\ first' = first
      /\ done \in Nat
  BY Frame DEF StringInv, StringTypeOK
<1>2. /\ \A k : DestOf(k)' = DestOf(k)
      /\ \A x : BytesAt(x)' = BytesAt(x)
  BY <1>1, Same
<1>3. SUFFICES ASSUME op.name = "MOVS", pc' # "error", NEW a \in Addrs,
                      \A j \in 0 .. done' - 1 : a \notin BytesAt(DestOf(j))
               PROVE  store'[a] = first.store[a]
  BY <1>1, <1>2 DEF Elsewhere
<1>4. CASE StringHead \/ Exhausted
  <2>1. store' = store /\ done' = done /\ pc # "error"
    BY <1>4 DEF StringHead, Exhausted
  <2> QED
    BY <1>3, <2>1 DEF StringInv, Elsewhere
<1>5. CASE MOVS
  <2>1. PICK n \in Nat : n = done
    BY <1>1
  <2>2. done' = n + 1 /\ pc # "error"
        /\ (a \notin BytesAt(DestOf(n)) => store'[a] = store[a])
    BY <1>3, <1>5, <2>1, MovsMoves DEF MOVS, Round
  <2>3. a \notin BytesAt(DestOf(n)) /\ \A j \in 0 .. n - 1 : a \notin BytesAt(DestOf(j))
    BY <1>3, <2>2
  <2>4. store[a] = first.store[a]
    BY <1>3, <2>1, <2>2, <2>3 DEF StringInv, Elsewhere
  <2> QED
    BY <2>2, <2>3, <2>4
<1> QED
  BY <1>3, <1>4, <1>5 DEF Next, STOS, LODS, CMPS, SCAS, INS, OUTS

\* Every element copied is one of the first p, which are p apart.
LEMMA PatternsKept ==
  ASSUME StringInv, Next
  PROVE  Patterns'
<1>1. /\ UNCHANGED <<op, es, ds, holes, first>> /\ op' = op /\ first' = first
      /\ done \in Nat /\ op.step \in Nat
  BY Frame, StepSize DEF StringInv, StringTypeOK
<1>2. /\ \A k : SourceOf(k)' = SourceOf(k) /\ DestOf(k)' = DestOf(k)
      /\ \A x : BytesAt(x)' = BytesAt(x)
      /\ \A m, x : Element(m, x)' = Element(m, x)
  BY <1>1, Same
<1>3. SUFFICES ASSUME op.name = "MOVS", pc' # "error", NEW p \in Nat \ {0},
                      Chained(p, done'), NEW k \in 0 .. done' - 1
               PROVE  Element(store', DestOf(k)) = Element(first.store, SourceOf(k % p))
  <2>1. \A p, n : Chained(p, n)' = Chained(p, n)
    BY <1>2 DEF Chained
  <2>2. \A x : Element(store, x)' = Element(store', x)
    BY <1>1 DEF Element
  <2>3. \A x : Element(first.store, x)' = Element(first.store, x)
    BY <1>1 DEF Element
  <2> QED
    BY <1>1, <1>2, <2>1, <2>2, <2>3 DEF Patterns
<1>4. CASE StringHead \/ Exhausted
  <2>1. store' = store /\ done' = done /\ pc # "error"
    BY <1>4 DEF StringHead, Exhausted
  <2> QED
    BY <1>3, <2>1 DEF StringInv, Patterns
<1>5. CASE MOVS
  <2>1. PICK n \in Nat : n = done
    BY <1>1
  <2>2. /\ done' = n + 1 /\ pc # "error"
        /\ Element(store', DestOf(n)) = Element(store, SourceOf(n))
        /\ \A a \in Addrs : a \notin BytesAt(DestOf(n)) => store'[a] = store[a]
    BY <1>3, <1>5, <2>1, MovsMoves DEF MOVS, Round
  <2>3. /\ \A i \in 0 .. n - p : SourceOf(i + p) = DestOf(i)
        /\ \A i, j \in 0..n : i < j => BytesAt(DestOf(i)) \cap BytesAt(DestOf(j)) = {}
        /\ \A i \in 0 .. p - 1, j \in 0..n : BytesAt(SourceOf(i)) \cap BytesAt(DestOf(j)) = {}
    <3>1. (n + 1) - 1 - p = n - p /\ (n + 1) - 1 = n
      OBVIOUS
    <3> QED
      BY <1>3, <2>2, <3>1 DEF Chained
  <2>4. \A i \in 0 .. n - 1 : Element(store, DestOf(i)) = Element(first.store, SourceOf(i % p))
    <3>1. Chained(p, n)
      BY <2>3 DEF Chained
    <3> QED
      BY <1>3, <2>1, <2>2, <3>1 DEF StringInv, Patterns
  <2>5. ASSUME NEW i \in 0 .. n - 1
        PROVE  Element(store', DestOf(i)) = Element(store, DestOf(i))
    <3>1. DestOf(i) \in Nat /\ \A b \in 1 .. op.step : DestOf(i) + b - 1 \in Addrs
      <4>1. i \in Int /\ StringTypeOK /\ FirstOK
        BY DEF StringInv
      <4> QED
        BY <4>1, Places
    <3>2. \A b \in 1 .. op.step : DestOf(i) + b - 1 \in BytesAt(DestOf(i))
      BY <1>1, <3>1 DEF BytesAt
    <3>3. BytesAt(DestOf(i)) \cap BytesAt(DestOf(n)) = {}
      BY <2>3
    <3>4. \A b \in 1 .. op.step : store'[DestOf(i) + b - 1] = store[DestOf(i) + b - 1]
      BY <2>2, <3>1, <3>2, <3>3
    <3> QED
      BY <3>4 DEF Element
  <2>6. Element(store, SourceOf(n)) = Element(first.store, SourceOf(n % p))
    <3>1. CASE n < p
      <4>0. n \in 0 .. p - 1
        BY <3>1
      <4>1. n % p = n /\ n \in 0 .. p - 1
        BY <3>1, <4>0, ModMinus
      <4>2. ASSUME NEW b \in 1 .. op.step
            PROVE  store[SourceOf(n) + b - 1] = first.store[SourceOf(n) + b - 1]
        <5> DEFINE a == SourceOf(n) + b - 1
        <5>1. a \in Addrs /\ a \in BytesAt(SourceOf(n))
          <6>1. SourceOf(n) \in Nat /\ a \in Addrs
            <7>1. n \in Int /\ StringTypeOK /\ FirstOK
              BY DEF StringInv
            <7> QED
              BY <7>1, Places
          <6> QED
            BY <1>1, <6>1 DEF BytesAt
        <5> HIDE DEF a
        <5>2. \A j \in 0 .. n - 1 : a \notin BytesAt(DestOf(j))
          BY <2>3, <4>1, <5>1
        <5>3. store[a] = first.store[a]
          BY <1>3, <2>1, <2>2, <5>1, <5>2 DEF StringInv, Elsewhere
        <5> QED
          BY <5>3 DEF a
      <4> QED
        BY <4>1, <4>2 DEF Element
    <3>2. CASE n >= p
      <4>1. n - p \in 0 .. n - 1 /\ n - p \in 0 .. n - p /\ (n - p) + p = n
        BY <3>2
      <4>2. SourceOf(n) = DestOf(n - p)
        BY <2>3, <4>1
      <4>3. Element(store, DestOf(n - p)) = Element(first.store, SourceOf((n - p) % p))
        BY <2>4, <4>1
      <4> QED
        BY <4>2, <4>3, ModMinus
    <3> QED
      BY <3>1, <3>2
  <2>7. CASE k = n
    BY <2>2, <2>6, <2>7
  <2>8. CASE k \in 0 .. n - 1
    BY <2>4, <2>5, <2>8
  <2> QED
    BY <1>3, <2>2, <2>7, <2>8
<1> QED
  BY <1>3, <1>4, <1>5 DEF Next, STOS, LODS, CMPS, SCAS, INS, OUTS

-----------------------------------------------------------------------------
(* The invariant and what follows.                                         *)

\* Init establishes the invariant.
LEMMA InitString == Init => StringInv
<1> SUFFICES ASSUME Init PROVE StringInv
  OBVIOUS
<1>1. /\ pc = "start" /\ done = 0 /\ io = <<>> /\ store \in [Addrs -> Byte]
      /\ ax \in [1..Width -> Byte] /\ op \in Ops /\ es \in Segs /\ ds \in Segs
      /\ zf \in BOOLEAN /\ cf = FALSE /\ srcOfs = 0 /\ destOfs = 0 /\ holes \subseteq Addrs
      /\ si \in 0 .. Wrap * High - 1 /\ di \in 0 .. Wrap * High - 1
      /\ cx \in 0 .. Wrap - 1
  BY StringAssumption DEF Init
<1>2. /\ first.store = store /\ first.si = si /\ first.di = di /\ first.cx = cx
      /\ first.ax = ax /\ first.zf = zf /\ first.cf = cf
  BY DEF Init
<1>3. StringTypeOK
  <2>1. <<>> \in Seq([1..op.step -> Byte]) /\ 0 \in 0 .. Wrap * High - 1
    BY Sizes
  <2>2. cf \in BOOLEAN
    BY <1>1, Zenon
  <2> QED
    BY <1>1, <2>1, <2>2 DEF StringTypeOK
<1>4. FirstOK
  BY <1>1, <1>2 DEF FirstOK
<1>5. Accounted
  BY <1>1, <1>2 DEF Accounted
<1>6. RepeatEnds
  BY <1>1, <1>2 DEF RepeatEnds
<1>7. ReadsInOrder
  <2>1. [k \in 1..0 |-> Element(first.store, SourceOf(k - 1))] = <<>>
    OBVIOUS
  <2>2. Len(<<>>) = 0
    OBVIOUS
  <2> QED
    BY <1>1, <1>2, <2>1, <2>2 DEF ReadsInOrder
<1>8. WritesExact
  <2>1. \A a : Over(a) = {}
    BY <1>1 DEF Over
  <2>2. Memory
    BY <1>2, <2>1 DEF Memory, Content
  <2>3. AllBacked
    BY <1>1 DEF AllBacked
  <2> QED
    BY <1>2, <2>2, <2>3, WritesParts
<1>9. Elsewhere
  BY <1>2 DEF Elsewhere
<1>10. Patterns
  BY <1>1 DEF Patterns
<1> QED
  BY <1>1, <1>3, <1>4, <1>5, <1>6, <1>7, <1>8, <1>9, <1>10 DEF StringInv

\* Every step keeps the invariant.
LEMMA NextString == StringInv /\ [Next]_vars => StringInv'
<1> SUFFICES ASSUME StringInv, [Next]_vars PROVE StringInv'
  OBVIOUS
<1>1. CASE Next
  BY <1>1, TypesKept, EndsKept, ReadsKept, WritesKept, ElsewhereKept, PatternsKept
     DEF StringInv
<1>2. CASE UNCHANGED vars
  <2>1. /\ UNCHANGED <<op, es, ds, holes, first>>
        /\ UNCHANGED <<pc, si, di, cx, ax, zf, cf, srcOfs, destOfs, store, io, done>>
    BY <1>2 DEF vars
  <2>2. /\ \A k : SourceOf(k)' = SourceOf(k) /\ DestOf(k)' = DestOf(k)
        /\ \A a : BytesAt(a)' = BytesAt(a)
        /\ \A a, n : Backed(a, n)' = Backed(a, n)
        /\ \A r, k : Ofs(r, k)' = Ofs(r, k)
        /\ \A m, a : Element(m, a)' = Element(m, a)
        /\ \A k : Left(k)' = Left(k) /\ Right(k)' = Right(k)
        /\ \A l, r : Below(l, r)' = Below(l, r)
        /\ UsesSI(op)' = UsesSI(op) /\ UsesDI(op)' = UsesDI(op) /\ Scans(op)' = Scans(op)
    BY <2>1, Same
  <2>3. StringTypeOK' /\ FirstOK' /\ (pc' = "start" => done' = 0)
    BY <2>1 DEF StringInv, StringTypeOK, FirstOK
  <2>4. Accounted'
    <3>1. /\ Landed(first.si, UsesSI(op))' = Landed(first.si, UsesSI(op))
          /\ Landed(first.di, UsesDI(op))' = Landed(first.di, UsesDI(op))
      BY <2>1, <2>2 DEF Landed
    <3> QED
      BY <2>1, <2>2, <3>1 DEF StringInv, Accounted
  <2>5. RepeatEnds'
    BY <2>1, <2>2 DEF StringInv, RepeatEnds, EndsAt
  <2>6. ReadsInOrder'
    BY <2>1, <2>2 DEF StringInv, ReadsInOrder
  <2>7. WritesExact'
    <3>1. \A k : Written(k)' = Written(k)
      BY <2>1, <2>2 DEF Written
    <3>2. \A n : Apart(n)' = Apart(n)
      BY <2>2 DEF Apart
    <3> QED
      BY <2>1, <2>2, <3>1, <3>2 DEF StringInv, WritesExact
  <2>8. Elsewhere'
    BY <2>1, <2>2 DEF StringInv, Elsewhere
  <2>9. Patterns'
    <3>1. \A p, n : Chained(p, n)' = Chained(p, n)
      BY <2>2 DEF Chained
    <3> QED
      BY <2>1, <2>2, <3>1 DEF StringInv, Patterns
  <2> QED
    BY <2>3, <2>4, <2>5, <2>6, <2>7, <2>8, <2>9 DEF StringInv
<1> QED
  BY <1>1, <1>2

\* The distances of PatternRepeats are among those of the invariant.
LEMMA PatternsRepeat == StringInv => PatternRepeats
<1> SUFFICES ASSUME StringInv, op.name = "MOVS", pc # "error", NEW p \in 1 .. done - 1,
                    Chained(p, done), NEW k \in 0 .. done - 1
             PROVE  Element(store, DestOf(k)) = Element(first.store, SourceOf(k % p))
  BY DEF PatternRepeats, Chained
<1>1. p \in Nat \ {0}
  OBVIOUS
<1> QED
  BY <1>1 DEF StringInv, Patterns

\* The invariant holds of every state.
THEOREM StringInvariant == Spec => []StringInv
<1> QED
  BY InitString, NextString, PTL DEF Spec

\* Registers, locals and memory keep their widths (StringTypeOK).
THEOREM StringTypes == Spec => []StringTypeOK
<1>1. StringInv => StringTypeOK
  BY DEF StringInv
<1> QED
  BY <1>1, StringInvariant, PTL

\* CX, SI and DI agree with the elements handled, however often the offsets
\* wrap (Accounted).
THEOREM RegistersAccounted == Spec => []Accounted
<1>1. StringInv => Accounted
  BY DEF StringInv
<1> QED
  BY <1>1, StringInvariant, PTL

\* Memory is what it was but for the elements written, also when they overlap
\* or one of them fails half-way (WritesExact).
THEOREM WritesAreExact == Spec => []WritesExact
<1>1. StringInv => WritesExact
  BY DEF StringInv
<1> QED
  BY <1>1, StringInvariant, PTL

\* A copy onto the elements ahead of it repeats the first ones, over any
\* distance (PatternRepeats).
THEOREM CopiesRepeat == Spec => []PatternRepeats
<1>1. StringInv => PatternRepeats
  BY PatternsRepeat
<1> QED
  BY <1>1, StringInvariant, PTL

\* A repetition ends when CX is 0 or at the first comparison that ends it, and
\* leaves the flags of its last one (RepeatEnds).
THEOREM RepetitionEnds == Spec => []RepeatEnds
<1>1. StringInv => RepeatEnds
  BY DEF StringInv
<1> QED
  BY <1>1, StringInvariant, PTL

\* The port and AX get every element in its turn (ReadsInOrder).
THEOREM ReadsAreInOrder == Spec => []ReadsInOrder
<1>1. StringInv => ReadsInOrder
  BY DEF StringInv
<1> QED
  BY <1>1, StringInvariant, PTL
=============================================================================
