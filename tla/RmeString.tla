----------------------------- MODULE RmeString -----------------------------
(***************************************************************************)
(* The string instructions of ops_string.c: MOVS, STOS, LODS, CMPS, SCAS,  *)
(* INS and OUTS, alone or repeated.  STRING_HEAD copies SI and DI to       *)
(* locals, the loop handles one element per round, and STRING_FOOTER steps *)
(* the locals and copies them back after the last round; CX counts down    *)
(* before each element.  A memory access or port callback that fails       *)
(* returns from the middle of it.                                          *)
(*                                                                         *)
(* One step is one round of the loop.  One instruction runs: between two   *)
(* of them there are only registers and memory, and they start at any      *)
(* value.  `first' and `done' are history, and so is `io'.                 *)
(***************************************************************************)
EXTENDS Integers, Sequences, FiniteSets, FiniteSetsExt

CONSTANTS
  Byte,      \* the values of a byte, numbers
  Wrap,      \* 2^16: how many offsets a segment has
  High,      \* how many values the upper half of ESI and EDI has
  Para,      \* bytes between two segments
  Segs,      \* the values of DS and ES
  Offsets,   \* of ESI and EDI at the start
  Counts,    \* of CX at the start
  Memories,  \* the contents of memory at the start
  Accs,      \* of EAX at the start, a sequence of its bytes, lowest first
  Holes,     \* the sets of addresses that may have no memory
  PortBytes, \* what the In callback may give
  Steps      \* the sizes of an element: 1, 2, 4

Names == {"MOVS", "STOS", "LODS", "CMPS", "SCAS", "INS", "OUTS"}
Width == Max(Steps)
Addrs == 0 .. Max(Segs) * Para + Wrap + Width - 2

ASSUME StringAssumption ==
  /\ Byte \subseteq Nat /\ Wrap \in Nat \ {0} /\ High \in Nat \ {0} /\ Para \in Nat \ {0}
  /\ Segs \subseteq Nat /\ Steps \subseteq Nat \ {0} /\ IsFiniteSet(Segs) /\ IsFiniteSet(Steps)
  /\ Segs # {} /\ Steps # {}
  /\ Offsets \subseteq 0 .. Wrap * High - 1 /\ Counts \subseteq 0 .. Wrap - 1
  /\ Memories \subseteq [Addrs -> Byte] /\ Accs \subseteq [1..Width -> Byte]
  /\ Holes \subseteq SUBSET Addrs /\ PortBytes \subseteq Byte

VARIABLES
  pc,            \* "start", "repeat", "ok", "error"
  op,            \* the instruction with its prefixes, and FLAG_DF
  es, ds,        \* segment registers
  si, di, cx,    \* ESI, EDI, CX
  ax, zf, cf,    \* EAX; two of the flags a comparison sets
  srcOfs, destOfs, \* the locals; one the instruction does not use stays 0
  store, holes,  \* memory, and where there is none
  io,            \* history: the elements read from or written to the port
  first, done    \* history: the registers and memory before the instruction;
                 \* the rounds finished

vars == <<pc, op, es, ds, si, di, cx, ax, zf, cf, srcOfs, destOfs, store, holes,
          io, first, done>>

\* `sreg' is where GET_SEGMENT looks for the source: DS or an override.
Ops == [name : Names, rep : {"none", "REP", "REPNZ"}, step : Steps,
        addr32 : BOOLEAN, down : BOOLEAN, sreg : {"DS", "ES"}]

UsesSI(o) == o.name \in {"MOVS", "LODS", "CMPS", "OUTS"}
UsesDI(o) == o.name \in {"MOVS", "STOS", "CMPS", "SCAS", "INS"}
Scans(o) == o.name \in {"CMPS", "SCAS"}

\* How many offsets there are before they wrap: mask + 1.
Span(o) == IF o.addr32 THEN Wrap * High ELSE Wrap

-----------------------------------------------------------------------------
(* Memory, through RME_Int_ReadBytes and RME_Int_WriteBytes.  Their Ofs    *)
(* has 16 bits; what lies behind the end of a segment is the next byte of  *)
(* memory.  Accesses stop at the first byte that has no memory.            *)

At(seg, ofs) == seg * Para + (ofs % Wrap)
Backed(a, n) == (a .. a + n - 1) \cap holes = {}

\* The bytes of an element at `a'; of a destination `old' whose read fails at
\* a hole, those before it.
Element(mem, a) == [b \in 1..op.step |-> mem[a + b - 1]]
Loaded(old, a) ==
  [b \in DOMAIN old |-> IF b <= op.step /\ Backed(a, b) THEN store[a + b - 1] ELSE old[b]]
Stored(a, v) ==
  [x \in Addrs |-> IF x \in a .. a + op.step - 1 /\ Backed(a, x - a + 1)
                   THEN v[x - a + 1] ELSE store[x]]

Source == At(IF op.sreg = "DS" THEN ds ELSE es, srcOfs)
Dest == At(es, destOfs)

-----------------------------------------------------------------------------
Init ==
  /\ pc = "start" /\ op \in Ops
  /\ es \in Segs /\ ds \in Segs
  /\ si \in Offsets /\ di \in Offsets /\ cx \in Counts
  /\ ax \in Accs /\ zf \in BOOLEAN /\ cf = FALSE
  /\ srcOfs = 0 /\ destOfs = 0
  /\ store \in Memories /\ holes \in Holes
  /\ io = <<>> /\ done = 0
  /\ first = [store |-> store, si |-> si, di |-> di, cx |-> cx, ax |-> ax,
              zf |-> zf, cf |-> cf]

\* STRING_HEAD up to the loop.
StringHead ==
  /\ pc = "start"
  /\ srcOfs' = IF UsesSI(op) THEN si % Span(op) ELSE 0
  /\ destOfs' = IF UsesDI(op) THEN di % Span(op) ELSE 0
  /\ pc' = IF op.rep # "none" /\ cx = 0 THEN "ok" ELSE "repeat"
  /\ UNCHANGED <<op, es, ds, si, di, cx, ax, zf, cf, store, holes, io, first, done>>

\* Mutants: the offsets do not wrap; they always go up.
SteppedNoMask(ofs) == IF op.down THEN ofs - op.step ELSE ofs + op.step
SteppedUp(ofs) == (ofs + op.step) % Span(op)

Stepped(ofs) == (IF op.down THEN ofs - op.step ELSE ofs + op.step) % Span(op)

\* Mutant: a 16-bit result clears the upper half.
CopiedBackWhole(reg, ofs) == ofs

\* What a register becomes when its local is copied back.
CopiedBack(reg, ofs) == IF op.addr32 THEN ofs ELSE reg - (reg % Wrap) + ofs

FooterEnd(s, d) ==
  /\ pc' = "ok"
  /\ si' = IF UsesSI(op) THEN CopiedBack(si, s) ELSE si
  /\ di' = IF UsesDI(op) THEN CopiedBack(di, d) ELSE di

\* Mutant: REP and REPNZ swapped.
StopsSwapped(z) == Scans(op) /\ op.rep = (IF z THEN "REP" ELSE "REPNZ")

\* Does a repetition stop on ZF?
Stops(z) == Scans(op) /\ op.rep = (IF z THEN "REPNZ" ELSE "REP")

\* A round: CX counts down, then the element, which fails or is followed by
\* STRING_FOOTER.
Round(ok) ==
  /\ pc = "repeat" /\ (op.rep # "none" => cx > 0)
  /\ cx' = IF op.rep # "none" THEN cx - 1 ELSE cx
  /\ IF ok
     THEN /\ done' = done + 1
          /\ srcOfs' = IF UsesSI(op) THEN Stepped(srcOfs) ELSE 0
          /\ destOfs' = IF UsesDI(op) THEN Stepped(destOfs) ELSE 0
          /\ IF op.rep = "none" \/ Stops(zf')
             THEN FooterEnd(srcOfs', destOfs')
             ELSE pc' = "repeat" /\ UNCHANGED <<si, di>>
     ELSE pc' = "error" /\ UNCHANGED <<si, di, srcOfs, destOfs, done>>
  /\ UNCHANGED <<op, es, ds, holes, first>>

\* CX is 0 at the top of the loop.
Exhausted ==
  /\ pc = "repeat" /\ op.rep # "none" /\ cx = 0
  /\ FooterEnd(srcOfs, destOfs)
  /\ UNCHANGED <<op, es, ds, cx, ax, zf, cf, srcOfs, destOfs, store, holes, io, first, done>>

-----------------------------------------------------------------------------
(* The instructions.                                                       *)

\* Mutant: an element is written even when it could not be read.
MOVSUnchecked ==
  /\ op.name = "MOVS"
  /\ store' = Stored(Dest, Element(store, Source))
  /\ Round(Backed(Dest, op.step))
  /\ UNCHANGED <<ax, zf, cf, io>>

MOVS ==
  /\ op.name = "MOVS"
  /\ store' = IF Backed(Source, op.step) THEN Stored(Dest, Element(store, Source)) ELSE store
  /\ Round(Backed(Source, op.step) /\ Backed(Dest, op.step))
  /\ UNCHANGED <<ax, zf, cf, io>>

STOS ==
  /\ op.name = "STOS"
  /\ store' = Stored(Dest, ax)
  /\ Round(Backed(Dest, op.step))
  /\ UNCHANGED <<ax, zf, cf, io>>

LODS ==
  /\ op.name = "LODS"
  /\ ax' = Loaded(ax, Source)
  /\ Round(Backed(Source, op.step))
  /\ UNCHANGED <<store, zf, cf, io>>

Below(l, r) ==
  \E b \in 1..op.step : l[b] < r[b] /\ \A c \in b+1 .. op.step : l[c] = r[c]

\* The flags of l - r.
Compared(l, r) == zf' = (l = r) /\ cf' = Below(l, r)

CMPS ==
  /\ op.name = "CMPS"
  /\ LET ok == Backed(Source, op.step) /\ Backed(Dest, op.step)
     IN  /\ IF ok THEN Compared(Element(store, Source), Element(store, Dest))
                  ELSE UNCHANGED <<zf, cf>>
         /\ Round(ok)
  /\ UNCHANGED <<store, ax, io>>

SCAS ==
  /\ op.name = "SCAS"
  /\ LET ok == Backed(Dest, op.step)
     IN  /\ IF ok THEN Compared([b \in 1..op.step |-> ax[b]], Element(store, Dest))
                  ELSE UNCHANGED <<zf, cf>>
         /\ Round(ok)
  /\ UNCHANGED <<store, ax, io>>

\* The In callback gives an element, or fails (or the host has none).
INS ==
  /\ op.name = "INS"
  /\ \/ \E v \in PortBytes :
          LET elem == [b \in 1..op.step |-> v]
          IN  /\ io' = Append(io, elem)
              /\ store' = Stored(Dest, elem)
              /\ Round(Backed(Dest, op.step))
     \/ UNCHANGED <<io, store>> /\ Round(FALSE)
  /\ UNCHANGED <<ax, zf, cf>>

\* Mutant: what the Out callback returns is not looked at.
OUTSIgnored ==
  /\ op.name = "OUTS"
  /\ IF Backed(Source, op.step)
     THEN /\ io' = Append(io, Element(store, Source)) \/ UNCHANGED io
          /\ Round(TRUE)
     ELSE UNCHANGED io /\ Round(FALSE)
  /\ UNCHANGED <<store, ax, zf, cf>>

\* The Out callback takes the element, or fails.
OUTS ==
  /\ op.name = "OUTS"
  /\ \/ /\ Backed(Source, op.step)
        /\ io' = Append(io, Element(store, Source))
        /\ Round(TRUE)
     \/ UNCHANGED io /\ Round(FALSE)
  /\ UNCHANGED <<store, ax, zf, cf>>

Next == StringHead \/ Exhausted \/ MOVS \/ STOS \/ LODS \/ CMPS \/ SCAS \/ INS \/ OUTS
Spec == Init /\ [][Next]_vars

-----------------------------------------------------------------------------
(* What the instructions mean, from the registers and memory before them.  *)

\* The offset of element k, the first being 0, and its address.
Ofs(reg, k) == (reg + (IF op.down THEN -k ELSE k) * op.step) % Span(op)
SourceOf(k) == At(IF op.sreg = "DS" THEN ds ELSE es, Ofs(first.si, k))
DestOf(k) == At(es, Ofs(first.di, k))
BytesAt(a) == a .. a + op.step - 1

\* Registers and locals keep their widths: offsets never leave 32 bits, nor CX 16.
StringTypeOK ==
  /\ pc \in {"start", "repeat", "ok", "error"} /\ op \in Ops
  /\ es \in Segs /\ ds \in Segs /\ cx \in 0 .. Wrap - 1
  /\ {si, di, srcOfs, destOfs} \subseteq 0 .. Wrap * High - 1
  /\ ax \in [1..Width -> Byte] /\ zf \in BOOLEAN /\ cf \in BOOLEAN
  /\ store \in [Addrs -> Byte] /\ holes \subseteq Addrs
  /\ io \in Seq([1..op.step -> Byte]) /\ done \in Nat

\* The register a finished instruction leaves: moved by as many elements as
\* were handled, its upper half kept unless addresses have 32 bits.
Landed(reg, uses) ==
  IF ~uses \/ done = 0 THEN reg
  ELSE IF op.addr32 THEN Ofs(reg, done) ELSE reg - (reg % Wrap) + Ofs(reg, done)

\* CX, SI and DI agree with the elements handled, however often the offsets
\* wrapped; after a failure CX has also counted the element that failed, and
\* SI and DI are those from before the instruction.
Accounted ==
  LET counted == IF op.rep = "none" THEN 0
                 ELSE IF pc = "error" THEN done + 1 ELSE done
  IN  /\ cx = first.cx - counted
      /\ pc = "repeat" =>
           /\ UsesSI(op) => srcOfs = Ofs(first.si, done)
           /\ UsesDI(op) => destOfs = Ofs(first.di, done)
      /\ pc = "ok" => si = Landed(first.si, UsesSI(op)) /\ di = Landed(first.di, UsesDI(op))
      /\ pc # "ok" => si = first.si /\ di = first.di

\* No element is read where an earlier one was written.
Apart(n) ==
  \A j, k \in 0 .. n - 1 : j < k => BytesAt(DestOf(j)) \cap BytesAt(SourceOf(k)) = {}

\* The element written k-th.
Written(k) ==
  CASE op.name = "MOVS" -> Element(first.store, SourceOf(k))
    [] op.name = "STOS" -> first.ax
    [] op.name = "INS"  -> io[k + 1]

\* Memory is what it was, but for the elements written: what was at the
\* source, in AX or in the port, the last one where they overlap.  When an
\* element fails after it was read, its first bytes may have been written.
\* Elements without memory are not passed over.
WritesExact ==
  /\ \A k \in 0 .. done - 1 :
       /\ UsesSI(op) => Backed(SourceOf(k), op.step)
       /\ UsesDI(op) => Backed(DestOf(k), op.step)
  /\ IF op.name \in {"MOVS", "STOS", "INS"}
     THEN (op.name = "MOVS" => Apart(done + 1)) =>
            \A a \in Addrs :
               LET ks == {k \in 0 .. done - 1 : a \in BytesAt(DestOf(k))}
                   k == Max(ks)
               IN  \/ store[a] = IF ks = {} THEN first.store[a]
                                 ELSE Written(k)[a - DestOf(k) + 1]
                   \/ /\ pc = "error" /\ a \in BytesAt(DestOf(done))
                      /\ op.name = "MOVS" => Backed(SourceOf(done), op.step)
                      /\ op.name = "INS" => Len(io) = done + 1
                      /\ store[a] = Written(done)[a - DestOf(done) + 1]
     ELSE store = first.store

\* A copy onto the elements just ahead of it repeats the first ones, which is
\* how guests fill memory: nothing is read before its turn.
PatternRepeats ==
  op.name = "MOVS" /\ pc # "error" =>
    \A p \in 1 .. done - 1 :
      (/\ \A k \in 0 .. done - 1 - p : SourceOf(k + p) = DestOf(k)
       /\ \A j, k \in 0 .. done - 1 : j < k => BytesAt(DestOf(j)) \cap BytesAt(DestOf(k)) = {}
       /\ \A k \in 0 .. p - 1, j \in 0 .. done - 1 :
            BytesAt(SourceOf(k)) \cap BytesAt(DestOf(j)) = {})
      => \A k \in 0 .. done - 1 :
           Element(store, DestOf(k)) = Element(first.store, SourceOf(k % p))

\* The two sides of the k-th comparison.
Left(k) == IF op.name = "CMPS" THEN Element(first.store, SourceOf(k))
           ELSE [b \in 1..op.step |-> first.ax[b]]
Right(k) == Element(first.store, DestOf(k))

\* Ends an element that compares so, or not, a repetition?  Only for a scan:
\* REPNZ with another instruction is REP.
EndsAt(equal) ==
  Scans(op) /\ ((op.rep = "REPNZ" /\ equal) \/ (op.rep = "REP" /\ ~equal))

\* A repetition ends with CX = 0 and no earlier, but a scan at the first
\* element that ends it; it leaves the flags of its last comparison, and all
\* flags alone when CX was 0.
RepeatEnds ==
  /\ pc = "ok" /\ op.rep # "none" =>
       cx = 0 \/ (done > 0 /\ EndsAt(Left(done - 1) = Right(done - 1)))
  /\ Scans(op) =>
    /\ \A k \in 0 .. done - (IF pc = "repeat" THEN 1 ELSE 2) : ~EndsAt(Left(k) = Right(k))
    /\ IF done = 0 THEN zf = first.zf /\ cf = first.cf
       ELSE zf = (Left(done - 1) = Right(done - 1)) /\ cf = Below(Left(done - 1), Right(done - 1))

\* The port sees every element once and in order, and an element read from
\* it is lost only when it could not be stored.  LODS leaves the last element
\* in AX and the rest of EAX alone.
ReadsInOrder ==
  /\ op.name = "OUTS" => io = [k \in 1..done |-> Element(first.store, SourceOf(k - 1))]
  /\ op.name = "INS" => Len(io) - done \in (IF pc = "error" THEN 0..1 ELSE {0})
  /\ op.name \notin {"INS", "OUTS"} => io = <<>>
  /\ op.name # "LODS" => ax = first.ax
  /\ op.name = "LODS" =>
       \A b \in 1..Width :
         IF b > op.step \/ (done = 0 /\ pc # "error") THEN ax[b] = first.ax[b]
         ELSE pc # "error" => ax[b] = first.store[SourceOf(done - 1) + b - 1]
=============================================================================
