-------------------------- MODULE RmeControl_proof --------------------------
(***************************************************************************)
(* The invariants of RmeControl hold for every size of the stack, every    *)
(* choice of the words that no memory backs, every set of words, guest     *)
(* code, vectors and HLE callbacks that the assumptions allow; and         *)
(* RmeControl implements CallStack.                                        *)
(***************************************************************************)
EXTENDS RmeControl, SequenceTheorems, TLAPS

-----------------------------------------------------------------------------
(* Positions on the stack: SP counts modulo Size.                          *)

\* Pushing wraps around the segment but stays in it.
LEMMA BelowInSlots ==
  ASSUME NEW s \in Slots, NEW k \in 0..Size
  PROVE  Below(s, k) \in Slots
BY StackAssumption DEF Slots, Below

\* Popping wraps around the segment but stays in it.
LEMMA AboveInSlots ==
  ASSUME NEW s \in Slots, NEW k \in 0..Size
  PROVE  Above(s, k) \in Slots
BY StackAssumption DEF Slots, Above

\* k words below d words below b are d + k words below b.
LEMMA BelowBelow ==
  ASSUME NEW b \in Slots, NEW d \in Nat, NEW k \in Nat, d + k <= Size
  PROVE  Below(Below(b, d), k) = Below(b, d + k)
BY StackAssumption DEF Slots, Below

\* Popping undoes pushing, across the wrap too.
LEMMA AboveBelow ==
  ASSUME NEW b \in Slots, NEW d \in 0..Size, NEW k \in 0..d
  PROVE  Above(Below(b, d), k) = Below(b, d - k)
BY StackAssumption DEF Slots, Below, Above

\* A push leaves every word above SP as it was ...
LEMMA StoredKeeps ==
  ASSUME NEW b \in Slots, NEW d \in Nat, sp = Below(b, d),
         NEW ws, NEW n \in Nat, d + n <= Size, NEW j \in 1..d
  PROVE  Stored(ws, n)[Below(b, j)] = stk[Below(b, j)]
<1>1. Below(b, j) \in Slots
  BY BelowInSlots, StackAssumption
<1>2. Dist(Below(b, j)) > n
  BY StackAssumption DEF Slots, Below, Dist
<1>3. Dist(Below(b, j)) \in Int
  BY StackAssumption DEF Slots, Below, Dist
<1> QED
  BY <1>1, <1>2, <1>3 DEF Stored

\* ... and puts the j-th word pushed j words below SP.
LEMMA StoredPuts ==
  ASSUME sp \in Slots, NEW ws, NEW n \in Nat, n <= Size, NEW j \in 1..n
  PROVE  Stored(ws, n)[Below(sp, j)] = ws[j]
<1>1. Below(sp, j) \in Slots
  BY BelowInSlots, StackAssumption
<1>2. Dist(Below(sp, j)) = j
  BY StackAssumption DEF Slots, Below, Dist
<1> QED
  BY <1>1, <1>2 DEF Stored

-----------------------------------------------------------------------------
(* The frames the guest has on its stack.                                  *)

\* A frame has one to three words, a word pushed just one.
LEMMA WidthBounds ==
  ASSUME NEW kind \in Kinds
  PROVE  Width(kind) \in 1..3 /\ (kind = "data" => Width(kind) = 1)
BY DEF Kinds, Width

\* Every frame ends at or before SP.
LEMMA EndsInDepth ==
  ASSUME NEW fs \in Seq(Frame), Chained(fs), NEW i \in 1..Len(fs)
  PROVE  /\ EndOf(fs[i]) \in Nat /\ fs[i].at \in Nat /\ DepthOf(fs) \in Nat
         /\ EndOf(fs[i]) <= DepthOf(fs)
         /\ EndOf(fs[i]) = fs[i].at + Width(fs[i].kind)
         /\ Width(fs[i].kind) \in 1..3
<1>1. Len(fs) \in Nat /\ \A k \in 1..Len(fs) : fs[k] \in Frame
  BY ElementOfSeq, LenProperties
<1>2. \A k \in 1..Len(fs) : Width(fs[k].kind) \in 1..3 /\ fs[k].at \in Nat
  BY <1>1, WidthBounds, StackAssumption DEF Frame
<1>3. fs # <<>>
  BY EmptySeq
<1>4. DepthOf(fs) = EndOf(fs[Len(fs)])
  BY <1>3 DEF DepthOf
<1>5. CASE i = Len(fs)
  BY <1>1, <1>2, <1>4, <1>5 DEF EndOf
<1>6. CASE i < Len(fs)
  <2>1. EndOf(fs[i]) <= fs[Len(fs)].at
    BY <1>1, <1>6 DEF Chained
  <2> QED
    BY <1>1, <1>2, <1>4, <2>1 DEF EndOf
<1> QED
  BY <1>1, <1>5, <1>6

\* A new frame lies on top of the others.
LEMMA ChainAppend ==
  ASSUME NEW fs \in Seq(Frame), Chained(fs), NEW kind \in Kinds,
         NEW c \in Word, NEW i \in Word, NEW f \in Word,
         DepthOf(fs) + Width(kind) <= Size
  PROVE  LET gs == With(fs, kind, c, i, f) IN
         /\ gs \in Seq(Frame) /\ Chained(gs) /\ gs # <<>>
         /\ Len(gs) = Len(fs) + 1
         /\ \A k \in 1..Len(fs) : gs[k] = fs[k]
         /\ gs[Len(gs)] = [kind |-> kind, at |-> DepthOf(fs),
                           saved |-> [cs |-> c, ip |-> i, flags |-> f]]
         /\ DepthOf(gs) = DepthOf(fs) + Width(kind)
         /\ DepthOf(fs) \in Nat
<1> DEFINE new == [kind |-> kind, at |-> DepthOf(fs),
                   saved |-> [cs |-> c, ip |-> i, flags |-> f]]
<1> DEFINE gs == With(fs, kind, c, i, f)
<1>1. Len(fs) \in Nat /\ \A k \in 1..Len(fs) : fs[k] \in Frame
  BY ElementOfSeq, LenProperties
<1>2. DepthOf(fs) \in Nat
  <2>1. CASE fs = <<>>
    BY <2>1 DEF DepthOf
  <2>2. CASE fs # <<>>
    <3>1. Len(fs) \in 1..Len(fs)
      BY <1>1, <2>2, EmptySeq
    <3> QED
      BY <3>1, EndsInDepth
  <2> QED
    BY <2>1, <2>2
<1>3. Width(kind) \in 1..3 /\ (kind = "data" => Width(kind) = 1)
  BY WidthBounds
<1>4. new \in Frame
  BY <1>2, <1>3, StackAssumption DEF Frame
<1>5. gs = Append(fs, new)
  BY DEF With
<1>6. /\ gs \in Seq(Frame) /\ gs # <<>> /\ Len(gs) = Len(fs) + 1
      /\ \A k \in 1..Len(fs) : gs[k] = fs[k]
      /\ gs[Len(fs) + 1] = new
  BY <1>4, <1>5, AppendProperties
<1>7. DepthOf(gs) = DepthOf(fs) + Width(kind)
  BY <1>6 DEF DepthOf, EndOf
<1> HIDE DEF gs
<1>8. new.at = DepthOf(fs) /\ new.kind = kind
  OBVIOUS
<1> HIDE DEF new
<1>9. Chained(gs)
  <2>1. gs[1].at = 0
    <3>1. CASE fs = <<>>
      BY <1>6, <1>8, <3>1, EmptySeq DEF DepthOf
    <3>2. CASE fs # <<>>
      BY <1>1, <1>6, <3>2, EmptySeq DEF Chained
    <3> QED
      BY <3>1, <3>2
  <2>2. \A k \in 1..Len(gs) - 1 : gs[k + 1].at = EndOf(gs[k])
    <3> SUFFICES ASSUME NEW k \in 1..Len(gs) - 1 PROVE gs[k + 1].at = EndOf(gs[k])
      OBVIOUS
    <3>1. CASE k < Len(fs)
      BY <1>1, <1>6, <3>1 DEF Chained
    <3>2. CASE k = Len(fs)
      <4>1. fs # <<>>
        BY <3>2, <1>6, EmptySeq
      <4> QED
        BY <1>1, <1>6, <1>8, <3>2, <4>1 DEF DepthOf
    <3> QED
      BY <1>1, <1>6, <3>1, <3>2
  <2>3. \A k, j \in 1..Len(gs) : k < j => EndOf(gs[k]) <= gs[j].at
    <3> SUFFICES ASSUME NEW k \in 1..Len(gs), NEW j \in 1..Len(gs), k < j
                 PROVE  EndOf(gs[k]) <= gs[j].at
      OBVIOUS
    <3>1. k \in 1..Len(fs)
      BY <1>1, <1>6
    <3>2. CASE j = Len(gs)
      BY <1>6, <1>8, <3>1, <3>2, EndsInDepth
    <3>3. CASE j < Len(gs)
      BY <1>1, <1>6, <3>1, <3>3 DEF Chained
    <3> QED
      BY <1>1, <1>6, <3>2, <3>3
  <2>4. ASSUME NEW k \in 1..Len(gs), NEW j \in 1..Len(gs), k < j,
               \A m \in k..j - 1 : gs[m].kind = "data"
        PROVE  gs[j].at = gs[k].at + (j - k)
    <3>1. /\ k \in 1..Len(fs) /\ j \in 1..Len(gs) /\ gs[k] = fs[k]
          /\ \A m \in k..j - 1 : m \in 1..Len(fs) /\ gs[m] = fs[m]
      BY <1>1, <1>6, <2>4
    <3>2. CASE j = Len(gs)
      <4>1. fs # <<>> /\ Len(fs) \in k..j - 1
        BY <1>1, <1>6, <3>1, <3>2, EmptySeq
      <4>2. fs[Len(fs)].kind = "data" /\ fs[Len(fs)] \in Frame /\ fs[k] \in Frame
        BY <1>1, <2>4, <3>1, <4>1
      <4>3. gs[j].at = fs[Len(fs)].at + 1
        BY <1>6, <1>8, <3>2, <4>1, <4>2, WidthBounds DEF DepthOf, EndOf, Width
      <4>4. fs[Len(fs)].at = fs[k].at + (Len(fs) - k)
        <5>1. CASE k = Len(fs)
          BY <1>1, <4>2, <5>1 DEF Frame
        <5>2. CASE k < Len(fs)
          <6>1. \A m \in k..Len(fs) - 1 : fs[m].kind = "data"
            BY <1>1, <1>6, <2>4, <3>1, <3>2
          <6> QED
            BY <1>1, <3>1, <5>2, <6>1 DEF Chained
        <5> QED
          BY <1>1, <3>1, <5>1, <5>2
      <4>5. fs[k].at \in Nat /\ gs[k].at = fs[k].at
        BY <3>1, <4>2, StackAssumption DEF Frame
      <4>6. j = Len(fs) + 1 /\ k \in Nat
        BY <1>6, <3>1, <3>2
      <4> HIDE DEF Frame
      <4> QED
        BY <1>1, <4>3, <4>4, <4>5, <4>6
    <3>3. CASE j < Len(gs)
      <4>1. j \in 1..Len(fs) /\ gs[j] = fs[j]
        BY <1>1, <1>6, <3>3
      <4>2. \A m \in k..j - 1 : fs[m].kind = "data"
        BY <2>4, <3>1
      <4> QED
        BY <2>4, <3>1, <4>1, <4>2 DEF Chained
    <3> QED
      BY <1>1, <1>6, <3>2, <3>3
  <2> QED
    BY <2>1, <2>2, <2>3, <2>4 DEF Chained
<1> QED
  BY <1>2, <1>6, <1>7, <1>9 DEF gs, new

\* Taking frames off the top leaves the others as they were.
LEMMA ChainRest ==
  ASSUME NEW fs \in Seq(Frame), Chained(fs), NEW n \in Nat, n < Len(fs)
  PROVE  LET gs == SubSeq(fs, 1, n) IN
         /\ gs \in Seq(Frame) /\ Chained(gs)
         /\ Len(gs) = n /\ (gs = <<>> <=> n = 0)
         /\ \A k \in 1..n : gs[k] = fs[k]
         /\ DepthOf(gs) = fs[n + 1].at
<1> DEFINE gs == SubSeq(fs, 1, n)
<1>1. Len(fs) \in Nat /\ \A k \in 1..Len(fs) : fs[k] \in Frame
  BY ElementOfSeq, LenProperties
<1>2. \A k \in 1..n : fs[k] \in Frame
  BY <1>1
<1>3. /\ gs \in Seq(Frame)
      /\ Len(gs) = IF 1 <= n THEN n - 1 + 1 ELSE 0
      /\ \A k \in 1..n - 1 + 1 : gs[k] = fs[1 + k - 1]
  BY <1>2, SubSeqProperties
<1> HIDE DEF gs
<1>4. Len(gs) = n /\ (gs = <<>> <=> n = 0)
  BY <1>3, EmptySeq
<1>5. \A k \in 1..n : gs[k] = fs[k]
  BY <1>3
<1>6. DepthOf(gs) = fs[n + 1].at
  <2>1. CASE n = 0
    BY <1>1, <1>4, <2>1, EmptySeq DEF DepthOf, Chained
  <2>2. CASE n > 0
    BY <1>1, <1>4, <1>5, <2>2 DEF DepthOf, Chained
  <2> QED
    BY <2>1, <2>2
<1>7. Chained(gs)
  <2>1. gs # <<>> => gs[1].at = 0
    BY <1>1, <1>4, <1>5, EmptySeq DEF Chained
  <2>2. \A k \in 1..Len(gs) - 1 : gs[k + 1].at = EndOf(gs[k])
    BY <1>1, <1>4, <1>5 DEF Chained
  <2>3. \A k, j \in 1..Len(gs) : k < j => EndOf(gs[k]) <= gs[j].at
    BY <1>1, <1>4, <1>5 DEF Chained
  <2>4. ASSUME NEW k \in 1..Len(gs), NEW j \in 1..Len(gs), k < j,
               \A m \in k..j - 1 : gs[m].kind = "data"
        PROVE  gs[j].at = gs[k].at + (j - k)
    <3>1. \A m \in k..j - 1 : fs[m].kind = "data"
      BY <1>4, <1>5, <2>4
    <3> QED
      BY <1>1, <1>4, <1>5, <2>4, <3>1 DEF Chained
  <2> QED
    BY <2>1, <2>2, <2>3, <2>4 DEF Chained
<1> QED
  BY <1>3, <1>4, <1>5, <1>6, <1>7 DEF gs

-----------------------------------------------------------------------------
(* Pushing and popping frames.                                             *)

\* What a transfer of this kind pushes.
Encodes(ws, kind, c, i, f) ==
  CASE kind = "int" -> ws = <<f, c, i>>
    [] kind = "far" -> ws = <<c, i>>
    [] OTHER        -> ws = <<i>>

\* Writing below SP leaves the words of every frame alone.
LEMMA FramesKept ==
  ASSUME NEW fs \in Seq(Frame), Chained(fs), NEW b \in Slots,
         sp = Below(b, DepthOf(fs)),
         \A k \in 1..Len(fs) : SavedIn(fs[k], b, stk),
         NEW ws, NEW n \in Nat, DepthOf(fs) + n <= Size,
         NEW k \in 1..Len(fs)
  PROVE  SavedIn(fs[k], b, Stored(ws, n))
<1>1. /\ fs[k].at \in Nat /\ DepthOf(fs) \in Nat
      /\ fs[k].at + Width(fs[k].kind) <= DepthOf(fs)
      /\ fs[k] \in Frame /\ Width(fs[k].kind) \in 1..3
  BY EndsInDepth, ElementOfSeq
<1>2. \A j \in 1..Width(fs[k].kind) :
        Stored(ws, n)[Below(b, fs[k].at + j)] = stk[Below(b, fs[k].at + j)]
  <2> SUFFICES ASSUME NEW j \in 1..Width(fs[k].kind)
               PROVE  Stored(ws, n)[Below(b, fs[k].at + j)] = stk[Below(b, fs[k].at + j)]
    OBVIOUS
  <2>1. fs[k].at + j \in 1..DepthOf(fs)
    BY <1>1
  <2> QED
    BY <1>1, <2>1, StoredKeeps
<1>3. SavedIn(fs[k], b, stk)
  OBVIOUS
<1>4. CASE fs[k].kind = "int"
  BY <1>2, <1>3, <1>4 DEF SavedIn, Width
<1>5. CASE fs[k].kind = "far"
  BY <1>2, <1>3, <1>5 DEF SavedIn, Width
<1>6. CASE fs[k].kind \notin {"int", "far"}
  BY <1>2, <1>3, <1>6 DEF SavedIn, Width
<1> QED
  BY <1>4, <1>5, <1>6

\* Writing words to the stack keeps it a stack of words.
LEMMA StoredType ==
  ASSUME sp \in Slots, stk \in [Slots -> Word], NEW ws, NEW n \in Nat,
         \A j \in 1..n : ws[j] \in Word
  PROVE  Stored(ws, n) \in [Slots -> Word]
<1> SUFFICES ASSUME NEW s \in Slots
             PROVE  (IF Dist(s) <= n THEN ws[Dist(s)] ELSE stk[s]) \in Word
  BY DEF Stored
<1>1. Dist(s) \in Nat /\ Dist(s) >= 1
  BY StackAssumption DEF Dist, Slots
<1> QED
  BY <1>1

\* A transfer that succeeds puts one frame on top of the others.
LEMMA PushFrame ==
  ASSUME NEW fs \in Seq(Frame), Chained(fs), NEW b \in Slots,
         sp \in Slots, stk \in [Slots -> Word], sp = Below(b, DepthOf(fs)),
         \A k \in 1..Len(fs) : SavedIn(fs[k], b, stk),
         NEW kind \in Kinds, NEW c \in Word, NEW i \in Word, NEW f \in Word,
         kind = "data" => c = i /\ f = i,
         DepthOf(fs) + Width(kind) <= Size,
         NEW ws, Encodes(ws, kind, c, i, f), Pushed(ws)
  PROVE  LET gs == With(fs, kind, c, i, f) IN
         /\ sp' \in Slots /\ stk' \in [Slots -> Word]
         /\ sp' = Below(b, DepthOf(gs)) /\ DepthOf(gs) <= Size
         /\ gs \in Seq(Frame) /\ Chained(gs) /\ gs # <<>>
         /\ Len(gs) = Len(fs) + 1
         /\ \A k \in 1..Len(fs) : gs[k] = fs[k]
         /\ gs[Len(gs)].kind = kind
         /\ gs[Len(gs)].saved = [cs |-> c, ip |-> i, flags |-> f]
         /\ \A k \in 1..Len(gs) : SavedIn(gs[k], b, stk')
<1> DEFINE gs == With(fs, kind, c, i, f)
<1> DEFINE d == DepthOf(fs)
<1>1. /\ gs \in Seq(Frame) /\ Chained(gs) /\ gs # <<>>
      /\ Len(gs) = Len(fs) + 1
      /\ \A k \in 1..Len(fs) : gs[k] = fs[k]
      /\ gs[Len(gs)] = [kind |-> kind, at |-> d,
                        saved |-> [cs |-> c, ip |-> i, flags |-> f]]
      /\ DepthOf(gs) = d + Width(kind)
      /\ d \in Nat
  BY ChainAppend
<1> HIDE DEF gs, d
<1>2. Len(ws) = Width(kind) /\ Width(kind) \in 1..3
  BY WidthBounds DEF Encodes, Width
<1>3. \A j \in 1..Len(ws) : ws[j] \in Word
  <2>1. CASE kind = "int"
    <3>1. ws = <<f, c, i>>
      BY <2>1 DEF Encodes
    <3> QED
      BY <3>1
  <2>2. CASE kind = "far"
    <3>1. ws = <<c, i>>
      BY <2>2 DEF Encodes
    <3> QED
      BY <3>1
  <2>3. CASE kind \notin {"int", "far"}
    <3>1. ws = <<i>>
      BY <2>3 DEF Encodes
    <3> QED
      BY <3>1
  <2> QED
    BY <2>1, <2>2, <2>3
<1>4. sp' = Below(sp, Len(ws)) /\ stk' = Stored(ws, Len(ws))
  BY DEF Pushed
<1>5. sp' = Below(b, DepthOf(gs)) /\ sp' \in Slots /\ DepthOf(gs) <= Size
  BY <1>1, <1>2, <1>4, BelowBelow, BelowInSlots, StackAssumption DEF d
<1>6. stk' \in [Slots -> Word]
  BY <1>2, <1>3, <1>4, StoredType
<1>7. \A k \in 1..Len(fs) : SavedIn(gs[k], b, stk')
  BY <1>1, <1>2, <1>4, FramesKept DEF d
<1>8. SavedIn(gs[Len(gs)], b, stk')
  <2>1. \A j \in 1..Width(kind) : stk'[Below(b, d + j)] = ws[j]
    <3> SUFFICES ASSUME NEW j \in 1..Width(kind) PROVE stk'[Below(b, d + j)] = ws[j]
      OBVIOUS
    <3>1. Below(b, d + j) = Below(sp, j)
      BY <1>1, <1>2, BelowBelow, StackAssumption DEF d
    <3> QED
      BY <1>1, <1>2, <1>4, <3>1, StoredPuts, StackAssumption DEF d
  <2>2. CASE kind = "int"
    BY <1>1, <2>1, <2>2 DEF SavedIn, Width, Encodes
  <2>3. CASE kind = "far"
    BY <1>1, <2>1, <2>3 DEF SavedIn, Width, Encodes
  <2>4. CASE kind \notin {"int", "far"}
    BY <1>1, <2>1, <2>4 DEF SavedIn, Width, Encodes
  <2> QED
    BY <2>2, <2>3, <2>4
<1>9. \A k \in 1..Len(gs) : SavedIn(gs[k], b, stk')
  <2>1. Len(fs) \in Nat
    BY LenProperties
  <2> QED
    BY <1>1, <1>7, <1>8, <2>1
<1>10. gs[Len(gs)].kind = kind /\ gs[Len(gs)].saved = [cs |-> c, ip |-> i, flags |-> f]
  BY <1>1
<1> QED
  BY <1>1, <1>5, <1>6, <1>9, <1>10 DEF gs

\* A transfer that fails half way harms no frame.
LEMMA PushFault ==
  ASSUME NEW fs \in Seq(Frame), Chained(fs), NEW b \in Slots,
         sp \in Slots, stk \in [Slots -> Word], sp = Below(b, DepthOf(fs)),
         \A k \in 1..Len(fs) : SavedIn(fs[k], b, stk),
         NEW ws, Len(ws) \in 1..3, \A j \in 1..Len(ws) : ws[j] \in Word,
         DepthOf(fs) + Len(ws) <= Size, PushFails(ws)
  PROVE  /\ sp' \in Slots /\ stk' \in [Slots -> Word]
         /\ host' = "failed" /\ ret' = "badmem"
         /\ \A k \in 1..Len(fs) : SavedIn(fs[k], b, stk')
<1>1. PICK n \in 1..Len(ws) : sp' = Below(sp, n) /\ stk' = Stored(ws, n - 1)
  BY DEF PushFails
<1>2. n - 1 \in Nat /\ n - 1 <= Len(ws)
  OBVIOUS
<1>3. DepthOf(fs) \in Nat
  <2>1. CASE fs = <<>>
    BY <2>1 DEF DepthOf
  <2>2. CASE fs # <<>>
    <3>1. Len(fs) \in 1..Len(fs)
      BY <2>2, EmptySeq
    <3> QED
      BY <3>1, EndsInDepth
  <2> QED
    BY <2>1, <2>2
<1>4. sp' \in Slots
  BY <1>1, <1>3, BelowInSlots, StackAssumption
<1>5. stk' \in [Slots -> Word]
  BY <1>1, <1>2, StoredType
<1>6. \A k \in 1..Len(fs) : SavedIn(fs[k], b, stk')
  <2>1. DepthOf(fs) + (n - 1) <= Size
    BY <1>2, <1>3, StackAssumption
  <2> QED
    BY <1>1, <1>2, <2>1, FramesKept
<1> QED
  BY <1>4, <1>5, <1>6 DEF PushFails

\* The words a return finds on top of the stack are those its call saved.
LEMMA PeekTop ==
  ASSUME IInv, host = "running", frames # <<>>
  PROVE  /\ Top \in Frame /\ Depth \in Nat /\ Depth <= Size
         /\ Depth = Top.at + Width(Top.kind)
         /\ Peek(0) = Top.saved.ip
         /\ Top.kind \in {"int", "far"} => Peek(1) = Top.saved.cs
         /\ Top.kind = "int" => Peek(2) = Top.saved.flags
<1>1. Len(frames) \in 1..Len(frames) /\ frames \in Seq(Frame) /\ Chained(frames)
  BY EmptySeq DEF IInv, TypeOK, Stacked
<1>2. /\ Top \in Frame /\ Top.at \in Nat /\ Depth \in Nat
      /\ Width(Top.kind) \in 1..3 /\ Top.kind \in Kinds
      /\ EndOf(Top) = Top.at + Width(Top.kind)
  <2>1. Top \in Frame
    BY <1>1, ElementOfSeq DEF Top
  <2>2. Top.at \in Nat /\ Depth \in Nat /\ Width(Top.kind) \in 1..3
    BY <1>1, EndsInDepth DEF Top, Depth
  <2>3. Top.kind \in Kinds
    BY <2>1 DEF Frame
  <2> QED
    BY <2>1, <2>2, <2>3 DEF EndOf
<1>3. Depth = Top.at + Width(Top.kind) /\ Depth <= Size
  BY <1>2 DEF Depth, DepthOf, Top, IInv, Stacked
<1>4. sp = Below(base, Depth) /\ base \in Slots
  BY DEF IInv, StackBalanced, TypeOK
<1>5. ASSUME NEW j \in 0..Width(Top.kind) - 1
      PROVE  Peek(j) = stk[Below(base, Top.at + (Width(Top.kind) - j))]
  <2>1. Depth \in 0..Size /\ j \in 0..Depth
        /\ Depth - j = Top.at + (Width(Top.kind) - j)
    BY <1>2, <1>3, StackAssumption
  <2> QED
    BY <1>4, <2>1, AboveBelow DEF Peek
<1>6. SavedIn(Top, base, stk)
  BY <1>1 DEF IInv, FramesIntact, Top
<1>7. CASE Top.kind = "int"
  <2>1. Width(Top.kind) = 3
    BY <1>7 DEF Width
  <2>2. /\ Peek(0) = stk[Below(base, Top.at + 3)]
        /\ Peek(1) = stk[Below(base, Top.at + 2)]
        /\ Peek(2) = stk[Below(base, Top.at + 1)]
    BY <1>5, <2>1
  <2> QED
    BY <1>2, <1>3, <1>6, <1>7, <2>2 DEF SavedIn
<1>8. CASE Top.kind = "far"
  <2>1. Width(Top.kind) = 2
    BY <1>8 DEF Width
  <2>2. /\ Peek(0) = stk[Below(base, Top.at + 2)]
        /\ Peek(1) = stk[Below(base, Top.at + 1)]
    BY <1>5, <2>1
  <2> QED
    BY <1>2, <1>3, <1>6, <1>8, <2>2 DEF SavedIn
<1>9. CASE Top.kind \notin {"int", "far"}
  <2>1. Width(Top.kind) = 1
    BY <1>9 DEF Width
  <2>2. Peek(0) = stk[Below(base, Top.at + 1)]
    BY <1>5, <2>1
  <2> QED
    BY <1>2, <1>3, <1>6, <1>9, <2>2 DEF SavedIn
<1> QED
  BY <1>7, <1>8, <1>9

-----------------------------------------------------------------------------
(* What each sort of step preserves.                                       *)

\* Guest code is neither in the HLE segment nor at the magic address.
LEMMA GuestLoc ==
  ASSUME NEW c, NEW i, <<c, i>> \in GuestCode
  PROVE  c \in Word /\ i \in Word /\ c # HleCS /\ ~(c = MagicCS /\ i = MagicIP)
BY CodeAssumption

\* Code runs only while something is pending.
LEMMA GuestPending ==
  ASSUME IInv, AtGuest
  PROVE  frames # <<>> /\ host = "running" /\ cs \in Word /\ ip \in Word
BY GuestLoc DEF IInv, AtGuest, Located, AtMagic

\* A step that ends in an error and writes no memory.
LEMMA FailKeeps ==
  ASSUME IInv, host' = "failed", ret' \in Errors,
         cs' \in Word, ip' \in Word, flags' \in Word, reg' \in Word, sp' \in Slots,
         UNCHANGED <<stk, ivt, base, unmapped, frames>>
  PROVE  IInv'
BY DEF IInv, TypeOK, FramesIntact, StackBalanced, Stacked, Returns, Located, Depth

\* A transfer that fails after writing some of its words.
LEMMA PushFailKeeps ==
  ASSUME IInv, host = "running", NEW ws, NEW n \in 1..3,
         Len(ws) = n, \A j \in 1..n : ws[j] \in Word,
         Depth + n <= Size, PushFails(ws),
         cs' \in Word, ip' \in Word, flags' \in Word, reg' \in Word,
         UNCHANGED <<ivt, base, unmapped, frames>>
  PROVE  IInv'
<1>1. /\ frames \in Seq(Frame) /\ Chained(frames) /\ base \in Slots
      /\ sp \in Slots /\ stk \in [Slots -> Word] /\ sp = Below(base, Depth)
      /\ \A k \in 1..Len(frames) : SavedIn(frames[k], base, stk)
  BY DEF IInv, TypeOK, Stacked, StackBalanced, FramesIntact
<1>2. /\ sp' \in Slots /\ stk' \in [Slots -> Word]
      /\ host' = "failed" /\ ret' = "badmem"
      /\ \A k \in 1..Len(frames) : SavedIn(frames[k], base, stk')
  BY <1>1, PushFault DEF Depth
<1> QED
  BY <1>1, <1>2 DEF IInv, TypeOK, FramesIntact, StackBalanced, Stacked, Returns,
     Located, Depth, Errors

\* A step of guest code that stays in guest code and off the stack.
LEMMA QuietKeeps ==
  ASSUME IInv, AtGuest, Done, <<cs', ip'>> \in GuestCode,
         flags' \in Word, reg' \in Word, ivt' \in [Ints -> Word \X Word],
         \A n \in Ints : ivt'[n] \in Vectors \cup {<<HleCS, n>>},
         UNCHANGED <<sp, stk, base, unmapped, frames>>
  PROVE  IInv'
<1>1. frames # <<>>
  BY GuestPending
<1>2. cs' \in Word /\ ip' \in Word /\ ~AtMagic' /\ ~AtHle'
  BY GuestLoc DEF AtMagic, AtHle
<1>3. host = "running" /\ host' = "running" /\ ret' = "ok"
  BY DEF AtGuest, Done
<1>4. TypeOK' /\ FramesIntact' /\ Returns'
  BY <1>2, <1>3 DEF IInv, TypeOK, FramesIntact, Returns
<1>5. StackBalanced' /\ Stacked'
  BY <1>3 DEF IInv, StackBalanced, Stacked, Depth
<1>6. Located'
  BY <1>1, <1>2, <1>3 DEF Located
<1> QED
  BY <1>4, <1>5, <1>6 DEF IInv

\* A step that puts a frame on the stack.
LEMMA EnterKeeps ==
  ASSUME IInv, AtGuest, Done,
         NEW kind \in Kinds, NEW c \in Word, NEW i \in Word, NEW f \in Word,
         kind = "data" => c = i /\ f = i,
         kind # "data" => <<c, i>> \in GuestCode,
         Fits(kind), NEW ws, Encodes(ws, kind, c, i, f), Pushed(ws),
         frames' = With(frames, kind, c, i, f),
         \/ <<cs', ip'>> \in GuestCode
         \/ kind = "int" /\ \E n \in Ints : cs' = ivt[n][1] /\ ip' = ivt[n][2],
         flags' \in Word, reg' \in Word,
         UNCHANGED <<ivt, base, unmapped>>
  PROVE  IInv'
<1>1. /\ frames \in Seq(Frame) /\ Chained(frames) /\ base \in Slots
      /\ sp \in Slots /\ stk \in [Slots -> Word] /\ sp = Below(base, Depth)
      /\ \A k \in 1..Len(frames) : SavedIn(frames[k], base, stk)
      /\ Len(frames) \in Nat /\ frames # <<>> /\ Len(frames) >= 1
  BY GuestPending, EmptySeq DEF IInv, TypeOK, Stacked, StackBalanced, FramesIntact
<1>2. /\ sp' \in Slots /\ stk' \in [Slots -> Word]
      /\ sp' = Below(base, Depth') /\ Depth' <= Size
      /\ frames' \in Seq(Frame) /\ Chained(frames') /\ frames' # <<>>
      /\ Len(frames') = Len(frames) + 1
      /\ \A k \in 1..Len(frames) : frames'[k] = frames[k]
      /\ frames'[Len(frames')].kind = kind
      /\ frames'[Len(frames')].saved = [cs |-> c, ip |-> i, flags |-> f]
      /\ \A k \in 1..Len(frames') : SavedIn(frames'[k], base, stk')
  BY <1>1, PushFrame DEF Fits, Depth
<1>3. \A n \in Ints : /\ ivt[n] \in Word \X Word
                      /\ ~(ivt[n][1] = MagicCS /\ ivt[n][2] = MagicIP)
  BY CodeAssumption DEF IInv, TypeOK, Located
<1>4. cs' \in Word /\ ip' \in Word /\ ~AtMagic' /\ (AtHle' => kind = "int")
  BY <1>3, GuestLoc DEF AtMagic, AtHle
<1>5. host' = "running" /\ ret' = "ok"
  BY DEF Done
<1>6. TypeOK' /\ FramesIntact' /\ StackBalanced' /\ Stacked'
  BY <1>2, <1>4, <1>5 DEF IInv, TypeOK, FramesIntact, StackBalanced, Stacked
<1>7. Returns'
  <2>1. /\ frames'[1].kind = "int"
        /\ frames'[1].saved.cs = MagicCS /\ frames'[1].saved.ip = MagicIP
    BY <1>1, <1>2 DEF IInv, Returns
  <2>2. ASSUME NEW k \in 2..Len(frames'), frames'[k].kind # "data"
        PROVE  <<frames'[k].saved.cs, frames'[k].saved.ip>> \in GuestCode
    <3>1. CASE k \in 2..Len(frames)
      BY <1>2, <2>2, <3>1 DEF IInv, Returns
    <3>2. CASE k = Len(frames')
      <4>1. /\ frames'[k].kind = kind
            /\ frames'[k].saved = [cs |-> c, ip |-> i, flags |-> f]
        BY <1>2, <3>2
      <4>2. <<c, i>> \in GuestCode
        BY <2>2, <4>1
      <4> QED
        BY <4>1, <4>2
    <3> QED
      BY <1>1, <1>2, <3>1, <3>2
  <2> QED
    BY <2>1, <2>2 DEF Returns
<1>8. Located'
  BY <1>2, <1>4, <1>5 DEF IInv, Located, TopIs, Top
<1> QED
  BY <1>6, <1>7, <1>8 DEF IInv

\* A step that takes the top frame, and n words of data under it, away.
LEMMA LeaveKeeps ==
  ASSUME IInv, host = "running", frames # <<>>,
         NEW n \in Nat, n < Len(frames),
         \A k \in Len(frames) - n .. Len(frames) - 1 : frames[k].kind = "data",
         frames' = Rest(n + 1),
         sp' = Above(Above(sp, Width(Top.kind)), n),
         \/ Top.kind # "data" /\ cs' = Top.saved.cs /\ ip' = Top.saved.ip
         \/ Top.kind = "data" /\ <<cs', ip'>> \in GuestCode,
         flags' \in Word, reg' \in Word,
         host' \in {"running", "failed"}, ret' \in Errors \cup {"ok"},
         UNCHANGED <<stk, ivt, base, unmapped>>
  PROVE  IInv'
<1> DEFINE m == Len(frames) - (n + 1)
<1>1. /\ frames \in Seq(Frame) /\ Chained(frames) /\ base \in Slots
      /\ sp = Below(base, Depth) /\ Len(frames) \in Nat
      /\ \A k \in 1..Len(frames) : SavedIn(frames[k], base, stk)
      /\ \A k \in 1..Len(frames) : frames[k] \in Frame
  BY LenProperties, ElementOfSeq
     DEF IInv, TypeOK, Stacked, StackBalanced, FramesIntact
<1>2. m \in Nat /\ m < Len(frames)
  BY <1>1
<1>3. /\ frames' \in Seq(Frame) /\ Chained(frames')
      /\ Len(frames') = m /\ (frames' = <<>> <=> m = 0)
      /\ \A k \in 1..m : frames'[k] = frames[k]
      /\ Depth' = frames[m + 1].at
  BY <1>1, <1>2, ChainRest DEF Rest, Depth
<1>4. /\ Top \in Frame /\ Depth \in Nat /\ Depth <= Size /\ Top.at \in Nat
      /\ Depth = Top.at + Width(Top.kind) /\ Width(Top.kind) \in 1..3
  BY PeekTop, WidthBounds, StackAssumption DEF Frame
<1>5. frames[m + 1] \in Frame /\ frames[m + 1].at \in Nat
  BY <1>1, <1>2, StackAssumption DEF Frame
<1>6. Top.at = frames[m + 1].at + n
  <2>1. CASE n = 0
    BY <1>1, <1>4, <1>5, <2>1 DEF Top
  <2>2. CASE n > 0
    <3>1. /\ m + 1 \in 1..Len(frames) /\ Len(frames) \in 1..Len(frames)
          /\ m + 1 < Len(frames) /\ m + 1 = Len(frames) - n
      BY <1>1, <1>2, <2>2
    <3>2. frames[Len(frames)].at = frames[m + 1].at + (Len(frames) - (m + 1))
      BY <1>1, <3>1 DEF Chained
    <3>3. Len(frames) - (m + 1) = n
      BY <1>1
    <3> QED
      BY <3>2, <3>3 DEF Top
  <2> QED
    BY <2>1, <2>2
<1>7. sp' = Below(base, Depth') /\ sp' \in Slots /\ Depth' <= Size
  <2>1. Above(sp, Width(Top.kind)) = Below(base, Top.at)
    BY <1>1, <1>4, AboveBelow
  <2>2. Above(Below(base, Top.at), n) = Below(base, Top.at - n)
    <3>1. Top.at \in 0..Size /\ n \in 0..Top.at
      BY <1>4, <1>5, <1>6, StackAssumption
    <3> QED
      BY <1>1, <3>1, AboveBelow
  <2>3. Top.at - n = Depth' /\ Depth' \in 0..Size
    <3>1. Depth' = frames[m + 1].at
      BY <1>3
    <3>2. frames[m + 1].at \in Nat /\ Top.at = frames[m + 1].at + n
      BY <1>5, <1>6
    <3>3. Top.at <= Depth /\ Depth <= Size /\ Depth \in Nat /\ Top.at \in Nat
      BY <1>4
    <3> HIDE DEF m
    <3>4. Top.at - n = frames[m + 1].at /\ frames[m + 1].at \in 0..Size
      BY <3>2, <3>3, StackAssumption
    <3> QED
      BY <3>1, <3>4
  <2> QED
    BY <1>1, <2>1, <2>2, <2>3, BelowInSlots
<1>8. FramesIntact' /\ StackBalanced' /\ Stacked'
  BY <1>1, <1>3, <1>7 DEF FramesIntact, StackBalanced, Stacked
<1>9. Returns'
  <2>1. Returns /\ m <= Len(frames)
    BY <1>1, <1>2 DEF IInv
  <2> HIDE DEF m
  <2>2. frames' # <<>> => m \in Nat /\ m >= 1 /\ frames # <<>> /\ frames'[1] = frames[1]
    BY <1>1, <1>2, <1>3, EmptySeq
  <2>3. \A k \in 2..Len(frames') : k \in 2..Len(frames) /\ frames'[k] = frames[k]
    BY <1>1, <1>2, <1>3
  <2> QED
    BY <2>1, <2>2, <2>3 DEF Returns
<1>10. m = 0 => n = 0 /\ Len(frames) = 1
  <2> SUFFICES ASSUME m = 0, n > 0 PROVE FALSE
    BY <1>1
  <2>1. 1 \in Len(frames) - n .. Len(frames) - 1
    BY <1>1
  <2>2. frames[1].kind = "data"
    BY <2>1
  <2> QED
    BY <2>2 DEF IInv, Returns
<1>11. CASE m = 0
  <2>1. frames' = <<>> /\ Top = frames[1]
    BY <1>3, <1>10, <1>11 DEF Top
  <2>2. cs' = MagicCS /\ ip' = MagicIP
    BY <2>1 DEF IInv, Returns
  <2>3. cs' \in Word /\ ip' \in Word /\ AtMagic' /\ ~AtHle'
    BY <2>2, WordAssumption, CodeAssumption DEF AtMagic, AtHle
  <2>4. Located'
    BY <2>1, <2>3 DEF IInv, Located
  <2>5. TypeOK'
    BY <1>3, <1>7, <2>3 DEF IInv, TypeOK
  <2> QED
    BY <1>8, <1>9, <2>4, <2>5 DEF IInv
<1>12. CASE m > 0
  <2>1. frames' # <<>> /\ Len(frames) \in 2..Len(frames)
    BY <1>1, <1>3, <1>12
  <2>2. <<cs', ip'>> \in GuestCode
    BY <2>1 DEF IInv, Returns, Top
  <2>3. cs' \in Word /\ ip' \in Word /\ ~AtMagic' /\ ~AtHle'
    BY <2>2, GuestLoc DEF AtMagic, AtHle
  <2>4. Located'
    BY <2>1, <2>3 DEF IInv, Located
  <2>5. TypeOK'
    BY <1>3, <1>7, <2>3 DEF IInv, TypeOK
  <2> QED
    BY <1>8, <1>9, <2>4, <2>5 DEF IInv
<1> QED
  BY <1>2, <1>11, <1>12

\* The words an interrupt, a far call, or anything else pushes are words.
LEMMA PushesWords ==
  ASSUME NEW a \in Word, NEW b \in Word, NEW c \in Word
  PROVE  /\ Len(<<a, b, c>>) = 3 /\ \A j \in 1..3 : <<a, b, c>>[j] \in Word
         /\ Len(<<a, b>>) = 2 /\ \A j \in 1..2 : <<a, b>>[j] \in Word
         /\ Len(<<a>>) = 1 /\ \A j \in 1..1 : <<a>>[j] \in Word
OBVIOUS

\* Any word the stack segment holds, wherever SP points.
LEMMA PeekWord ==
  ASSUME TypeOK, NEW k \in 0..Size
  PROVE  Above(sp, k) \in Slots /\ (k < Size => Peek(k) \in Word)
BY AboveInSlots DEF TypeOK, Peek

\* No pop, no move.
LEMMA AboveNone ==
  ASSUME NEW s \in Slots
  PROVE  Above(s, 0) = s
BY StackAssumption DEF Slots, Above

\* Returning from an interrupt that fails half way.
LEMMA ContextFailKeeps ==
  ASSUME IInv, PopContextFails, flags' \in Word, reg' \in Word,
         UNCHANGED <<stk, ivt, base, unmapped, frames>>
  PROVE  IInv'
<1>1. TypeOK
  BY DEF IInv
<1>2. PICK k \in 0..2 : /\ PopFailsAt(k)
                        /\ ip' = (IF k > 0 THEN Peek(0) ELSE ip)
                        /\ cs' = (IF k > 1 THEN Peek(1) ELSE cs)
  BY DEF PopContextFails
<1>3. Peek(0) \in Word /\ Peek(1) \in Word /\ Above(sp, k) \in Slots
  BY <1>1, PeekWord, StackAssumption
<1>4. ip' \in Word /\ cs' \in Word /\ sp' \in Slots
      /\ host' = "failed" /\ ret' \in Errors
  BY <1>1, <1>2, <1>3 DEF TypeOK, PopFailsAt, Errors
<1> QED
  BY <1>4, FailKeeps

\* Returning from the interrupt on top of the stack.
LEMMA ContextKeeps ==
  ASSUME IInv, host = "running", TopIs("int"), PopContext, frames' = Rest(1),
         flags' \in Word, reg' \in Word,
         host' \in {"running", "failed"}, ret' \in Errors \cup {"ok"},
         UNCHANGED <<stk, ivt, base, unmapped>>
  PROVE  IInv'
<1>1. frames # <<>> /\ Top.kind = "int" /\ Width(Top.kind) = 3
  BY DEF TopIs, Width
<1>2. cs' = Top.saved.cs /\ ip' = Top.saved.ip
  BY <1>1, PeekTop DEF PopContext
<1>3. 0 < Len(frames) /\ Len(frames) \in Nat
  BY <1>1, EmptySeq, LenProperties DEF IInv, TypeOK
<1>4. sp' = Above(Above(sp, Width(Top.kind)), 0)
  <2>1. Above(sp, 3) \in Slots
    BY PeekWord, StackAssumption DEF IInv
  <2> QED
    BY <1>1, <2>1, AboveNone DEF PopContext, Popped
<1> QED
  BY <1>1, <1>2, <1>3, <1>4, LeaveKeeps

-----------------------------------------------------------------------------
(* Every action preserves the invariant.                                   *)

\* What the frames on the stack return to.
ReturnsOf(fs) ==
  /\ fs # <<>> => /\ fs[1].kind = "int"
                  /\ fs[1].saved.cs = MagicCS
                  /\ fs[1].saved.ip = MagicIP
  /\ \A k \in 2..Len(fs) :
       fs[k].kind # "data" => <<fs[k].saved.cs, fs[k].saved.ip>> \in GuestCode

\* The emulator's own delivery of an interrupt, for the host's call (nothing
\* under it) or for a divide error (the frames of the running call under it).
LEMMA DeliveryKeeps ==
  ASSUME IInv, NEW n \in Ints, NEW c \in Word, NEW i \in Word,
         NEW under \in Seq(Frame), Chained(under), ReturnsOf(under),
         NEW b \in Slots, base' = b, unmapped' = unmapped,
         sp = Below(b, DepthOf(under)), DepthOf(under) + 3 <= Size,
         \A k \in 1..Len(under) : SavedIn(under[k], b, stk),
         under = <<>> => c = MagicCS /\ i = MagicIP,
         under # <<>> => <<c, i>> \in GuestCode,
         RME_int_CallInt(n, c, i, under)
  PROVE  IInv'
<1> DEFINE gs == With(under, "int", c, i, flags)
<1> DEFINE ws == <<flags, c, i>>
<1>1. /\ cs \in Word /\ ip \in Word /\ flags \in Word /\ reg \in Word /\ sp \in Slots
      /\ stk \in [Slots -> Word] /\ unmapped \subseteq Slots
      /\ ivt \in [Ints -> Word \X Word]
      /\ \A m \in Ints : ivt[m] \in Vectors \cup {<<HleCS, m>>}
  BY DEF IInv, TypeOK, Located
<1>2. reg' = reg /\ ivt' = ivt
  BY DEF RME_int_CallInt
<1>3. /\ "int" \in Kinds /\ Width("int") = 3
      /\ Encodes(ws, "int", c, i, flags)
      /\ Len(ws) = 3 /\ \A j \in 1..3 : ws[j] \in Word
  BY <1>1, PushesWords DEF Encodes, Kinds, Width
<1> HIDE DEF ws
<1>4. ivt[n][1] \in Word /\ ivt[n][2] \in Word
  BY <1>1
<1>5. Len(under) \in Nat /\ (Len(under) = 0 <=> under = <<>>)
  BY LenProperties, EmptySeq
<1>6. ASSUME Pushed(ws)
      PROVE  /\ sp' \in Slots /\ stk' \in [Slots -> Word]
             /\ sp' = Below(b, DepthOf(gs)) /\ DepthOf(gs) <= Size
             /\ gs \in Seq(Frame) /\ Chained(gs) /\ gs # <<>>
             /\ Len(gs) = Len(under) + 1
             /\ \A k \in 1..Len(under) : gs[k] = under[k]
             /\ gs[Len(gs)].kind = "int"
             /\ gs[Len(gs)].saved = [cs |-> c, ip |-> i, flags |-> flags]
             /\ \A k \in 1..Len(gs) : SavedIn(gs[k], b, stk')
  BY <1>1, <1>3, <1>6, PushFrame
<1> HIDE DEF gs
<1>7. /\ DepthOf(under) \in Nat
      /\ DepthOf(under) <= Size
  <2>1. CASE under = <<>>
    BY <2>1, StackAssumption DEF DepthOf
  <2>2. CASE under # <<>>
    BY <1>5, <2>2, EndsInDepth, StackAssumption
  <2> QED
    BY <2>1, <2>2
<1>8. ASSUME host' = "failed", ret' \in Errors, frames' = under,
             sp' \in Slots, stk' \in [Slots -> Word],
             \A k \in 1..Len(under) : SavedIn(under[k], b, stk'),
             cs' \in Word, ip' \in Word, flags' \in Word
      PROVE  IInv'
  <2>1. TypeOK' /\ FramesIntact' /\ StackBalanced'
    BY <1>1, <1>2, <1>8 DEF TypeOK, FramesIntact, StackBalanced
  <2>2. Stacked' /\ Returns'
    BY <1>7, <1>8 DEF Stacked, Depth, Returns, ReturnsOf
  <2>3. Located'
    BY <1>1, <1>2, <1>8 DEF Located
  <2> QED
    BY <2>1, <2>2, <2>3 DEF IInv
<1>9. ASSUME Pushed(ws), Done, frames' = gs,
             cs' = ivt[n][1], ip' = ivt[n][2], flags' \in Word
      PROVE  IInv'
  <2>1. ~AtMagic' /\ frames' # <<>> /\ TopIs("int")'
    BY <1>1, <1>6, <1>9, CodeAssumption DEF AtMagic, TopIs, Top
  <2>2. TypeOK' /\ FramesIntact' /\ StackBalanced' /\ Stacked'
    BY <1>1, <1>2, <1>4, <1>6, <1>9
       DEF TypeOK, FramesIntact, StackBalanced, Stacked, Depth, Done
  <2>3. Returns'
    <3>1. gs[1].kind = "int" /\ gs[1].saved.cs = MagicCS /\ gs[1].saved.ip = MagicIP
      BY <1>5, <1>6, <1>9 DEF ReturnsOf
    <3>2. ASSUME NEW k \in 2..Len(gs), gs[k].kind # "data"
          PROVE  <<gs[k].saved.cs, gs[k].saved.ip>> \in GuestCode
      <4>1. CASE k = Len(gs)
        <5>1. under # <<>> /\ gs[k].saved = [cs |-> c, ip |-> i, flags |-> flags]
          BY <1>5, <1>6, <1>9, <4>1
        <5> QED
          BY <5>1
      <4>2. CASE k # Len(gs)
        <5>1. k \in 2..Len(under) /\ gs[k] = under[k]
          BY <1>5, <1>6, <1>9, <4>2
        <5> QED
          BY <3>2, <5>1 DEF ReturnsOf
      <4> QED
        BY <4>1, <4>2
    <3> QED
      BY <1>9, <3>1, <3>2 DEF Returns
  <2>4. Located'
    BY <1>1, <1>2, <1>9, <2>1 DEF Located, Done
  <2> QED
    BY <2>2, <2>3, <2>4 DEF IInv
<1>10. CASE PushFails(ws) /\ cs' = c /\ ip' = i /\ frames' = under /\ flags' = flags
  <2>1. /\ sp' \in Slots /\ stk' \in [Slots -> Word]
        /\ host' = "failed" /\ ret' = "badmem"
        /\ \A k \in 1..Len(under) : SavedIn(under[k], b, stk')
    <3>1. Len(ws) \in 1..3 /\ (\A j \in 1..Len(ws) : ws[j] \in Word)
          /\ DepthOf(under) + Len(ws) <= Size
      BY <1>3
    <3> QED
      BY <1>1, <1>10, <3>1, PushFault
  <2> QED
    BY <1>1, <1>8, <1>10, <2>1 DEF Errors
<1>11. CASE Pushed(ws) /\ flags' = ClearIT[flags]
  <2>1. flags' \in Word
    BY <1>1, <1>11, WordAssumption
  <2>2. \A k \in 1..Len(under) : SavedIn(under[k], b, stk')
    BY <1>5, <1>6, <1>11
  <2>3. ASSUME cs' = c, ip' \in {i, ivt[n][2]}, frames' = under,
               ret' = "badmem", host' = "failed"
        PROVE  IInv'
    BY <1>4, <1>6, <1>8, <1>11, <2>1, <2>2, <2>3 DEF Errors
  <2> QED
    <3>1. CASE /\ cs' = ivt[n][1] /\ ip' = ivt[n][2] /\ frames' = gs /\ Done
      BY <1>9, <1>11, <2>1, <3>1
    <3>2. CASE /\ cs' = c /\ ip' \in {i, ivt[n][2]} /\ frames' = under
               /\ ret' = "badmem" /\ host' = "failed"
      BY <2>3, <3>2
    <3>3. CASE PushFails(ws) /\ cs' = c /\ ip' = i /\ frames' = under /\ flags' = flags
      BY <1>10, <3>3
    <3> QED
      BY <3>1, <3>2, <3>3 DEF RME_int_CallInt, gs, ws
<1> QED
  BY <1>10, <1>11 DEF RME_int_CallInt, ws

\* The facts about a running call that a divide error builds on.
LEMMA RunningFacts ==
  ASSUME IInv, host = "running"
  PROVE  /\ frames \in Seq(Frame) /\ Chained(frames) /\ ReturnsOf(frames)
         /\ base \in Slots /\ sp = Below(base, DepthOf(frames))
         /\ \A k \in 1..Len(frames) : SavedIn(frames[k], base, stk)
BY DEF IInv, TypeOK, Stacked, Returns, ReturnsOf, StackBalanced, FramesIntact, Depth

\* The host's call starts from whatever the last one left.
LEMMA CallIntKeeps ==
  ASSUME IInv, NEW n \in Ints, RME_CallInt(n)
  PROVE  IInv'
<1> DEFINE none == <<>>
<1>1. /\ none \in Seq(Frame) /\ Chained(none) /\ ReturnsOf(none)
      /\ Len(none) = 0 /\ DepthOf(none) = 0
  BY EmptySeq DEF Chained, ReturnsOf, DepthOf
<1>2. sp \in Slots /\ Below(sp, 0) = sp /\ 3 <= Size
  BY StackAssumption DEF IInv, TypeOK, Below, Slots
<1>3. base' = sp /\ unmapped' = unmapped /\ RME_int_CallInt(n, MagicCS, MagicIP, none)
  BY DEF RME_CallInt
<1>4. MagicCS \in Word /\ MagicIP \in Word /\ none = <<>>
  BY WordAssumption
<1> HIDE DEF none
<1>5. /\ sp = Below(sp, DepthOf(none)) /\ DepthOf(none) + 3 <= Size
      /\ \A k \in 1..Len(none) : SavedIn(none[k], sp, stk)
  BY <1>1, <1>2
<1>6. /\ none = <<>> => MagicCS = MagicCS /\ MagicIP = MagicIP
      /\ none # <<>> => <<MagicCS, MagicIP>> \in GuestCode
  BY <1>4
<1> QED
  BY <1>1, <1>2, <1>3, <1>4, <1>5, <1>6, DeliveryKeeps

\* A divide error interrupts the running call.
LEMMA DivideErrorKeeps ==
  ASSUME IInv, DivideError
  PROVE  IInv'
<1>1. AtGuest /\ frames # <<>> /\ host = "running" /\ cs \in Word /\ ip \in Word
      /\ <<cs, ip>> \in GuestCode
  BY GuestPending DEF DivideError, AtGuest
<1>2. DepthOf(frames) + 3 <= Size
  BY DEF DivideError, Fits, Width, Depth
<1>3. base' = base /\ unmapped' = unmapped /\ DivideInt \in Ints
      /\ RME_int_CallInt(DivideInt, cs, ip, frames)
  BY WordAssumption DEF DivideError
<1> QED
  BY <1>1, <1>2, <1>3, RunningFacts, DeliveryKeeps

\* The host between calls, and the end of a call.
LEMMA HostKeeps ==
  ASSUME IInv, \/ \E n \in Settable : HostSetsVector(n)
               \/ RME_CallIntInvalid
               \/ FunctionReturn
  PROVE  IInv'
<1>1. TypeOK
  BY DEF IInv
<1>2. ASSUME NEW n \in Settable, HostSetsVector(n) PROVE IInv'
  <2>1. PICK v \in Vectors : ivt' = [ivt EXCEPT ![n] = v]
    BY <1>2 DEF HostSetsVector
  <2>2. v \in Word \X Word /\ ivt \in [Ints -> Word \X Word]
    BY <1>1, CodeAssumption DEF TypeOK
  <2>3. ivt' \in [Ints -> Word \X Word]
        /\ \A m \in Ints : ivt'[m] \in Vectors \cup {<<HleCS, m>>}
    BY <2>1, <2>2 DEF IInv, Located
  <2>4. host # "running" /\ UNCHANGED <<cs, ip, flags, sp, reg, stk, host, ret, base,
                                        unmapped, frames>>
    BY <1>2 DEF HostSetsVector
  <2>5. TypeOK' /\ FramesIntact' /\ StackBalanced' /\ Stacked' /\ Returns'
    BY <2>3, <2>4 DEF IInv, TypeOK, FramesIntact, StackBalanced, Stacked, Depth, Returns
  <2>6. Located'
    BY <2>3, <2>4 DEF IInv, Located
  <2> QED
    BY <2>5, <2>6 DEF IInv
<1>3. CASE RME_CallIntInvalid
  <2>1. /\ cs' \in Word /\ ip' \in Word /\ ret' \in Errors /\ host' = "failed"
        /\ frames' = <<>> /\ UNCHANGED <<flags, sp, reg, stk, ivt, base, unmapped>>
    BY <1>3, WordAssumption DEF RME_CallIntInvalid, Errors
  <2>2. frames' \in Seq(Frame) /\ Len(frames') = 0 /\ Depth' = 0
    BY <2>1, EmptySeq DEF Depth, DepthOf
  <2>3. TypeOK' /\ FramesIntact' /\ StackBalanced' /\ Returns'
    BY <1>1, <2>1, <2>2 DEF TypeOK, FramesIntact, StackBalanced, Returns
  <2>4. Stacked'
    BY <2>1, <2>2, StackAssumption DEF Stacked, Chained
  <2>5. Located'
    BY <2>1 DEF IInv, Located
  <2> QED
    BY <2>3, <2>4, <2>5 DEF IInv
<1>4. CASE FunctionReturn
  <2>1. /\ host = "running" /\ AtMagic /\ host' = "idle" /\ ret' = "ok"
        /\ UNCHANGED <<cs, ip, flags, sp, reg, stk, ivt, base, unmapped, frames>>
    BY <1>4 DEF FunctionReturn
  <2>2. frames = <<>> /\ sp = base
    <3>1. frames = <<>> /\ sp = Below(base, 0) /\ base \in Slots
      BY <2>1 DEF IInv, TypeOK, Located, StackBalanced, Depth, DepthOf
    <3> QED
      BY <3>1, StackAssumption DEF Below, Slots
  <2>3. TypeOK' /\ FramesIntact' /\ StackBalanced' /\ Stacked' /\ Returns'
    BY <2>1 DEF IInv, TypeOK, FramesIntact, StackBalanced, Stacked, Depth, Returns
  <2>4. Located'
    BY <2>1, <2>2 DEF IInv, Located
  <2> QED
    BY <2>3, <2>4 DEF IInv
<1> QED
  BY <1>2, <1>3, <1>4

\* A callback leaves the interrupt it serves.
LEMMA HleCallKeeps ==
  ASSUME IInv, HleCall
  PROVE  IInv'
<1>1. host = "running" /\ TopIs("int") /\ UNCHANGED <<stk, ivt, base, unmapped>>
  BY DEF HleCall, IInv, Located
<1>2. flags \in Word /\ reg \in Word /\ Peek(2) \in Word
  BY PeekWord, StackAssumption DEF IInv, TypeOK
<1>3. CASE PopContextFails /\ UNCHANGED <<flags, reg, frames>>
  BY <1>1, <1>2, <1>3, ContextFailKeeps
<1>4. CASE /\ PopContext /\ frames' = Rest(1)
           /\ flags' \in FlagVals \cup {Peek(2)}
           /\ reg' \in RegVals \cup {reg}
           /\ host' \in {"running", "failed"}
           /\ ret' \in InstrErrors \cup {"ok", "bug"}
  <2>1. flags' \in Word /\ reg' \in Word /\ ret' \in Errors \cup {"ok"}
    BY <1>2, <1>4, WordAssumption, ErrorAssumption DEF Errors
  <2> QED
    BY <1>1, <1>4, <2>1, ContextKeeps
<1> QED
  BY <1>3, <1>4 DEF HleCall, Done

\* Errors that touch neither memory nor the stack pointer.
LEMMA ErrorKeeps ==
  ASSUME IInv, WildFetch \/ InstrFails
  PROVE  IInv'
<1>1. /\ cs \in Word /\ ip \in Word /\ flags \in Word /\ reg \in Word /\ sp \in Slots
  BY DEF IInv, TypeOK
<1>2. CASE WildFetch
  BY <1>1, <1>2, ErrorAssumption, FailKeeps DEF WildFetch
<1>3. CASE InstrFails
  <2>1. ip' \in Word /\ flags' \in Word /\ reg' \in Word
    BY <1>1, <1>3, WordAssumption DEF InstrFails, NearIPs
  <2> QED
    BY <1>1, <1>3, <2>1, ErrorAssumption, FailKeeps DEF InstrFails
<1> QED
  BY <1>2, <1>3

\* Instructions that stay off the stack.
LEMMA QuietStepKeeps ==
  ASSUME IInv, Compute \/ Jump \/ \E n \in Settable : SetVector(n)
  PROVE  IInv'
<1>1. /\ flags \in Word /\ reg \in Word /\ ivt \in [Ints -> Word \X Word]
      /\ \A m \in Ints : ivt[m] \in Vectors \cup {<<HleCS, m>>}
  BY DEF IInv, TypeOK, Located
<1>2. CASE Compute
  <2>1. /\ AtGuest /\ Done /\ cs' = cs /\ <<cs', ip'>> \in GuestCode
        /\ flags' \in Word /\ reg' \in Word
        /\ UNCHANGED <<sp, stk, ivt, base, unmapped, frames>>
    BY <1>2, WordAssumption DEF Compute, NearIPs
  <2> QED
    BY <1>1, <2>1, QuietKeeps
<1>3. CASE Jump
  <2>1. <<cs', ip'>> \in GuestCode
    BY <1>3, CodeAssumption DEF Jump
  <2>2. /\ AtGuest /\ Done
        /\ UNCHANGED <<flags, sp, reg, stk, ivt, base, unmapped, frames>>
    BY <1>3 DEF Jump
  <2> QED
    BY <1>1, <2>1, <2>2, QuietKeeps
<1>4. ASSUME NEW n \in Settable, SetVector(n) PROVE IInv'
  <2>1. PICK v \in Vectors : ivt' = [ivt EXCEPT ![n] = v]
    BY <1>4 DEF SetVector
  <2>2. v \in Word \X Word
    BY CodeAssumption
  <2>3. ivt' \in [Ints -> Word \X Word]
        /\ \A m \in Ints : ivt'[m] \in Vectors \cup {<<HleCS, m>>}
    BY <1>1, <2>1, <2>2
  <2>4. /\ AtGuest /\ Done /\ <<cs', ip'>> \in GuestCode
        /\ UNCHANGED <<cs, flags, sp, reg, stk, base, unmapped, frames>>
    BY <1>4 DEF SetVector, NearIPs
  <2> QED
    BY <1>1, <2>3, <2>4, QuietKeeps
<1> QED
  BY <1>2, <1>3, <1>4

\* Instructions that push.
LEMMA CallKeeps ==
  ASSUME IInv, CallNear \/ CallFar
  PROVE  IInv'
<1>1. AtGuest /\ host = "running"
  BY DEF CallNear, CallFar, AtGuest
<1>2. /\ cs \in Word /\ ip \in Word /\ flags \in Word /\ reg \in Word
  BY DEF IInv, TypeOK
<1>3. Width("near") = 1 /\ Width("far") = 2 /\ "near" \in Kinds /\ "far" \in Kinds
  BY DEF Width, Kinds
<1>4. CASE CallNear
  <2>1. PICK next \in NearIPs :
          \/ /\ Pushed(<<next>>) /\ ip' \in NearIPs /\ Done
             /\ frames' = With(frames, "near", cs, next, flags)
          \/ PushFails(<<next>>) /\ UNCHANGED <<ip, frames>>
    BY <1>4 DEF CallNear
  <2>2. next \in Word /\ <<cs, next>> \in GuestCode
    BY DEF NearIPs
  <2>3. Fits("near") /\ UNCHANGED <<cs, flags, reg, ivt, base, unmapped>>
    BY <1>4 DEF CallNear
  <2>4. Len(<<next>>) = 1 /\ \A j \in 1..1 : <<next>>[j] \in Word
    BY <2>2
  <2>5. CASE PushFails(<<next>>) /\ UNCHANGED <<ip, frames>>
    <3>1. Depth + 1 <= Size
      BY <1>3, <2>3 DEF Fits
    <3> QED
      BY <1>1, <1>2, <2>3, <2>4, <2>5, <3>1, PushFailKeeps
  <2>6. CASE /\ Pushed(<<next>>) /\ ip' \in NearIPs /\ Done
             /\ frames' = With(frames, "near", cs, next, flags)
    <3>1. Encodes(<<next>>, "near", cs, next, flags)
      BY DEF Encodes
    <3>2. <<cs', ip'>> \in GuestCode
      BY <2>3, <2>6 DEF NearIPs
    <3> QED
      BY <1>1, <1>2, <1>3, <2>2, <2>3, <2>6, <3>1, <3>2, EnterKeeps
  <2> QED
    BY <2>1, <2>5, <2>6
<1>5. CASE CallFar
  <2>1. PICK next \in NearIPs :
          \/ /\ Pushed(<<cs, next>>) /\ Done
             /\ \E loc \in GuestCode : cs' = loc[1] /\ ip' = loc[2]
             /\ frames' = With(frames, "far", cs, next, flags)
          \/ PushFails(<<cs, next>>) /\ UNCHANGED <<cs, ip, frames>>
    BY <1>5 DEF CallFar
  <2>2. next \in Word /\ <<cs, next>> \in GuestCode
    BY DEF NearIPs
  <2>3. Fits("far") /\ UNCHANGED <<flags, reg, ivt, base, unmapped>>
    BY <1>5 DEF CallFar
  <2>4. Len(<<cs, next>>) = 2 /\ \A j \in 1..2 : <<cs, next>>[j] \in Word
    BY <1>2, <2>2
  <2>5. CASE PushFails(<<cs, next>>) /\ UNCHANGED <<cs, ip, frames>>
    <3>1. Depth + 2 <= Size
      BY <1>3, <2>3 DEF Fits
    <3> QED
      BY <1>1, <1>2, <2>3, <2>4, <2>5, <3>1, PushFailKeeps
  <2>6. CASE /\ Pushed(<<cs, next>>) /\ Done
             /\ \E loc \in GuestCode : cs' = loc[1] /\ ip' = loc[2]
             /\ frames' = With(frames, "far", cs, next, flags)
    <3>1. Encodes(<<cs, next>>, "far", cs, next, flags)
      BY DEF Encodes
    <3>2. <<cs', ip'>> \in GuestCode
      BY <2>6, CodeAssumption
    <3> QED
      BY <1>1, <1>2, <1>3, <2>2, <2>3, <2>6, <3>1, <3>2, EnterKeeps
  <2> QED
    BY <2>1, <2>5, <2>6
<1> QED
  BY <1>4, <1>5

\* INT, whether it is refused, faults or enters its handler.
LEMMA INTKeeps ==
  ASSUME IInv, NEW n \in Ints, INT(n)
  PROVE  IInv'
<1>1. AtGuest /\ host = "running" /\ Fits("int")
      /\ UNCHANGED <<reg, ivt, base, unmapped>>
  BY DEF INT, AtGuest
<1>2. /\ cs \in Word /\ ip \in Word /\ flags \in Word /\ reg \in Word /\ sp \in Slots
  BY DEF IInv, TypeOK
<1>3. Width("int") = 3 /\ "int" \in Kinds
  BY DEF Width, Kinds
<1>4. CASE /\ ret' = "badmem" /\ host' = "failed"
           /\ UNCHANGED <<cs, ip, flags, sp, stk, frames>>
  BY <1>1, <1>2, <1>4, FailKeeps DEF Errors
<1>5. ASSUME NEW next \in NearIPs,
             \/ /\ Pushed(<<flags, cs, next>>)
                /\ cs' = ivt[n][1] /\ ip' = ivt[n][2]
                /\ flags' = ClearIT[flags]
                /\ frames' = With(frames, "int", cs, next, flags)
                /\ Done
             \/ /\ PushFails(<<flags, cs, next>>)
                /\ UNCHANGED <<cs, ip, flags, frames>>
      PROVE  IInv'
  <2>1. next \in Word /\ <<cs, next>> \in GuestCode
    BY DEF NearIPs
  <2>2. Len(<<flags, cs, next>>) = 3 /\ \A j \in 1..3 : <<flags, cs, next>>[j] \in Word
    BY <1>2, <2>1
  <2>3. CASE PushFails(<<flags, cs, next>>) /\ UNCHANGED <<cs, ip, flags, frames>>
    <3>1. Depth + 3 <= Size
      BY <1>1, <1>3 DEF Fits
    <3> QED
      BY <1>1, <1>2, <2>2, <2>3, <3>1, PushFailKeeps
  <2>4. CASE /\ Pushed(<<flags, cs, next>>)
             /\ cs' = ivt[n][1] /\ ip' = ivt[n][2]
             /\ flags' = ClearIT[flags]
             /\ frames' = With(frames, "int", cs, next, flags)
             /\ Done
    <3>1. Encodes(<<flags, cs, next>>, "int", cs, next, flags)
      BY DEF Encodes
    <3>2. flags' \in Word
      BY <1>2, <2>4, WordAssumption
    <3> QED
      BY <1>1, <1>2, <1>3, <2>1, <2>4, <3>1, <3>2, EnterKeeps
  <2> QED
    BY <1>5, <2>3, <2>4
<1> QED
  BY <1>4, <1>5 DEF INT

\* PUSH and PUSHF.
LEMMA PushWordKeeps ==
  ASSUME IInv, PUSH \/ PUSHF
  PROVE  IInv'
<1>1. /\ cs \in Word /\ ip \in Word /\ flags \in Word /\ reg \in Word
  BY DEF IInv, TypeOK
<1>2. PICK w \in Word : PushWord(w)
  BY <1>1 DEF PUSH, PUSHF
<1>3. /\ AtGuest /\ host = "running" /\ Fits("data")
      /\ UNCHANGED <<cs, flags, reg, ivt, base, unmapped>>
  BY <1>2 DEF PushWord, AtGuest
<1>4. /\ Width("data") = 1 /\ "data" \in Kinds /\ Encodes(<<w>>, "data", w, w, w)
      /\ Len(<<w>>) = 1 /\ \A j \in 1..1 : <<w>>[j] \in Word
  BY DEF Width, Kinds, Encodes
<1>5. CASE PushFails(<<w>>) /\ UNCHANGED <<ip, frames>>
  <2>1. Depth + 1 <= Size
    BY <1>3, <1>4 DEF Fits
  <2> QED
    BY <1>1, <1>3, <1>4, <1>5, <2>1, PushFailKeeps
<1>6. CASE /\ Pushed(<<w>>) /\ ip' \in NearIPs /\ Done
           /\ frames' = With(frames, "data", w, w, w)
  <2>1. <<cs', ip'>> \in GuestCode
    BY <1>3, <1>6 DEF NearIPs
  <2> QED
    BY <1>1, <1>3, <1>4, <1>6, <2>1, EnterKeeps
<1> QED
  BY <1>2, <1>5, <1>6 DEF PushWord

\* Instructions that pop.
LEMMA PopFailKeeps ==
  ASSUME IInv, NEW k \in 0..2, PopFailsAt(k),
         UNCHANGED <<cs, ip, flags, reg, stk, ivt, base, unmapped, frames>>
  PROVE  IInv'
<1>1. /\ cs \in Word /\ ip \in Word /\ flags \in Word /\ reg \in Word
  BY DEF IInv, TypeOK
<1>2. sp' \in Slots /\ host' = "failed" /\ ret' \in Errors
  BY PeekWord, StackAssumption DEF IInv, PopFailsAt, Errors
<1> QED
  BY <1>1, <1>2, FailKeeps

\* RET, over any number of words of arguments.
LEMMA RetNearKeeps ==
  ASSUME IInv, NEW n \in 0..Len(frames) - 1, RetNear(n)
  PROVE  IInv'
<1>1. /\ cs \in Word /\ ip \in Word /\ flags \in Word /\ reg \in Word /\ Len(frames) \in Nat
  BY LenProperties DEF IInv, TypeOK
<1>2. /\ AtGuest /\ host = "running" /\ frames # <<>>
      /\ Top.kind = "near" /\ Top.saved.cs = cs
      /\ UNCHANGED <<cs, flags, reg, stk, ivt, base, unmapped>>
      /\ \A k \in Len(frames) - n .. Len(frames) - 1 : frames[k].kind = "data"
  BY DEF RetNear, AtGuest, TopIs, ArgsUnder
<1>3. CASE PopFailsAt(0) /\ UNCHANGED <<ip, frames>>
  BY <1>2, <1>3, PopFailKeeps
<1>4. CASE /\ ip' = Peek(0) /\ sp' = Above(Above(sp, 1), n)
           /\ frames' = Rest(n + 1) /\ Done
  <2>1. Width(Top.kind) = 1 /\ Peek(0) = Top.saved.ip
    BY <1>2, PeekTop DEF Width
  <2>2. n \in Nat /\ n < Len(frames)
    BY <1>1
  <2> QED
    BY <1>1, <1>2, <1>4, <2>1, <2>2, LeaveKeeps DEF Done
<1> QED
  BY <1>3, <1>4 DEF RetNear

\* RETF, over any number of words of arguments.
LEMMA RetFarKeeps ==
  ASSUME IInv, NEW n \in 0..Len(frames) - 1, RetFar(n)
  PROVE  IInv'
<1>1. /\ cs \in Word /\ ip \in Word /\ flags \in Word /\ reg \in Word /\ Len(frames) \in Nat
  BY LenProperties DEF IInv, TypeOK
<1>2. /\ AtGuest /\ host = "running" /\ frames # <<>> /\ Top.kind = "far"
      /\ UNCHANGED <<flags, reg, stk, ivt, base, unmapped>>
      /\ \A k \in Len(frames) - n .. Len(frames) - 1 : frames[k].kind = "data"
  BY DEF RetFar, AtGuest, TopIs, ArgsUnder
<1>3. CASE (\E k \in 0..1 : PopFailsAt(k)) /\ UNCHANGED <<cs, ip, frames>>
  <2>1. PICK k \in 0..1 : PopFailsAt(k)
    BY <1>3
  <2>2. k \in 0..2
    OBVIOUS
  <2> QED
    BY <1>2, <1>3, <2>1, <2>2, PopFailKeeps
<1>4. CASE /\ ip' = Peek(0) /\ cs' = Peek(1) /\ sp' = Above(Above(sp, 2), n)
           /\ frames' = Rest(n + 1) /\ Done
  <2>1. Width(Top.kind) = 2 /\ Peek(0) = Top.saved.ip /\ Peek(1) = Top.saved.cs
    BY <1>2, PeekTop DEF Width
  <2>2. n \in Nat /\ n < Len(frames)
    BY <1>1
  <2> QED
    BY <1>1, <1>2, <1>4, <2>1, <2>2, LeaveKeeps DEF Done
<1> QED
  BY <1>3, <1>4 DEF RetFar

\* IRET.
LEMMA IRETKeeps ==
  ASSUME IInv, IRET
  PROVE  IInv'
<1>1. /\ AtGuest /\ host = "running" /\ TopIs("int")
      /\ UNCHANGED <<reg, stk, ivt, base, unmapped>>
  BY DEF IRET, AtGuest
<1>2. flags \in Word /\ reg \in Word /\ Peek(2) \in Word
  BY PeekWord, StackAssumption DEF IInv, TypeOK
<1>3. CASE PopContextFails /\ UNCHANGED <<flags, frames>>
  BY <1>1, <1>2, <1>3, ContextFailKeeps
<1>4. CASE PopContext /\ flags' = Peek(2) /\ frames' = Rest(1) /\ Done
  BY <1>1, <1>2, <1>4, ContextKeeps DEF Done
<1> QED
  BY <1>3, <1>4 DEF IRET

\* POP and POPF.
LEMMA PopWordKeeps ==
  ASSUME IInv, POP \/ POPF
  PROVE  IInv'
<1>1. /\ cs \in Word /\ ip \in Word /\ flags \in Word /\ reg \in Word
      /\ Len(frames) \in Nat /\ sp \in Slots /\ Peek(0) \in Word
  BY LenProperties, PeekWord, StackAssumption DEF IInv, TypeOK
<1>2. PopWord /\ flags' \in Word /\ reg' \in Word
  BY <1>1, WordAssumption DEF POP, POPF
<1>3. /\ AtGuest /\ host = "running" /\ frames # <<>> /\ Top.kind = "data"
      /\ UNCHANGED <<cs, stk, ivt, base, unmapped>>
  BY <1>2 DEF PopWord, AtGuest, TopIs
<1>4. CASE PopFailsAt(0) /\ UNCHANGED <<ip, frames>>
  <2>1. host' = "failed"
    BY <1>4 DEF PopFailsAt
  <2>2. flags' = flags /\ reg' = reg
    BY <2>1 DEF POP, POPF
  <2> QED
    BY <1>3, <1>4, <2>2, PopFailKeeps
<1>5. CASE Popped(1) /\ ip' \in NearIPs /\ frames' = Rest(1) /\ Done
  <2>1. Width(Top.kind) = 1 /\ <<cs', ip'>> \in GuestCode
    BY <1>3, <1>5 DEF Width, NearIPs
  <2>2. 0 < Len(frames)
    BY <1>1, <1>3, EmptySeq DEF IInv, TypeOK
  <2>3. sp' = Above(Above(sp, 1), 0)
    <3>1. Above(sp, 1) \in Slots
      BY PeekWord, StackAssumption DEF IInv
    <3> QED
      BY <1>5, <3>1, AboveNone DEF Popped
  <2> QED
    BY <1>1, <1>2, <1>3, <1>5, <2>1, <2>2, <2>3, LeaveKeeps DEF Done
<1> QED
  BY <1>2, <1>4, <1>5 DEF PopWord

\* Every step of the machine keeps the invariant ...
LEMMA NextKeeps ==
  ASSUME IInv, [Next]_vars
  PROVE  IInv'
<1>1. CASE UNCHANGED vars
  BY <1>1 DEF vars, IInv, TypeOK, FramesIntact, StackBalanced, Stacked, Depth,
     Returns, Located, AtMagic, AtHle, TopIs, Top
<1>2. CASE Instruction
  BY <1>2, QuietStepKeeps, ErrorKeeps, CallKeeps, INTKeeps, PushWordKeeps,
     RetNearKeeps, RetFarKeeps, IRETKeeps, PopWordKeeps DEF Instruction
<1>3. CASE Next /\ ~Instruction
  BY <1>3, HostKeeps, CallIntKeeps, DivideErrorKeeps, HleCallKeeps, ErrorKeeps DEF Next
<1> QED
  BY <1>1, <1>2, <1>3

\* ... and it starts out true.
LEMMA InitEstablishes ==
  ASSUME Init
  PROVE  IInv
<1>1. sp \in Slots /\ base = sp /\ frames = <<>> /\ Len(frames) = 0 /\ Depth = 0
      /\ frames \in Seq(Frame) /\ Below(base, 0) = base
  BY StackAssumption, EmptySeq DEF Init, Depth, DepthOf, Below, Slots
<1>2. /\ cs \in Word /\ ip \in Word /\ flags \in Word /\ reg \in Word
      /\ unmapped \subseteq Slots /\ stk \in [Slots -> Word]
      /\ ivt \in [Ints -> Word \X Word]
  BY WordAssumption, CodeAssumption, StackAssumption DEF Init
<1>3. TypeOK
  BY <1>1, <1>2 DEF Init, TypeOK
<1>4. FramesIntact /\ StackBalanced /\ Stacked /\ Returns
  BY <1>1, StackAssumption
     DEF Init, FramesIntact, StackBalanced, Stacked, Chained, Returns
<1>5. Located
  BY <1>1 DEF Init, Located
<1> QED
  BY <1>3, <1>4, <1>5 DEF IInv

-----------------------------------------------------------------------------
(* The theorems.                                                           *)

\* The inductive invariant holds in every state.
THEOREM Invariance == Spec => []IInv
BY InitEstablishes, NextKeeps, PTL DEF Spec

\* Registers, memory and vectors hold words, and SP stays in its segment,
\* whatever the guest and the host do.
THEOREM TypeCorrect == Spec => []TypeOK
<1>1. IInv => TypeOK
  BY DEF IInv
<1> QED
  BY <1>1, Invariance, PTL

\* No call, fault or nested interrupt overwrites a word the guest has on its
\* stack, wherever the stack lies and whatever part of it has no memory.
THEOREM FramesStayIntact == Spec => []FramesIntact
<1>1. IInv => FramesIntact
  BY DEF IInv
<1> QED
  BY <1>1, Invariance, PTL

\* SP accounts exactly for what is pending while a call runs.
THEOREM StackStaysBalanced == Spec => []StackBalanced
<1>1. IInv => StackBalanced
  BY DEF IInv
<1> QED
  BY <1>1, Invariance, PTL

\* RME_Call reports success only with everything returned from and SP back
\* where the host had it.
THEOREM CallsUnwind == Spec => []CallsUnwound
<1>1. IInv => CallsUnwound
  BY DEF IInv, Located, CallsUnwound
<1> QED
  BY <1>1, Invariance, PTL

-----------------------------------------------------------------------------
(* Refinement.                                                             *)
(* Every step of the machine whose stack is words of memory below SP is a  *)
(* step of CallStack, which has no memory, or changes nothing it can see.  *)
(* What makes it so is that a return finds the words its call saved        *)
(* (PeekTop, from the invariant); all else is bookkeeping of what is       *)
(* pending, done by the lemmas on Pend.                                    *)

\* The refinement mapping of Implements, by name.
Ctx == [cs : Word, ip : Word, flags : Word]
Cur == [cs |-> cs, ip |-> ip, flags |-> flags]
Saved(c, i, f) == [cs |-> c, ip |-> i, flags |-> f]
Item(kind, saved) == [kind |-> kind, saved |-> saved]
Pend(fs) == [i \in 1..Len(fs) |-> [kind |-> fs[i].kind, saved |-> fs[i].saved]]

-----------------------------------------------------------------------------
(* What is pending.                                                        *)

Items == [kind : Kinds, saved : Ctx]

\* What is pending is a sequence of items, one for each frame.
LEMMA PendType ==
  ASSUME NEW fs \in Seq(Frame)
  PROVE  /\ Pend(fs) \in Seq(Items) /\ Len(Pend(fs)) = Len(fs) /\ Len(fs) \in Nat
         /\ \A i \in 1..Len(fs) : Pend(fs)[i] = Item(fs[i].kind, fs[i].saved)
         /\ Pend(fs) = <<>> <=> fs = <<>>
<1>1. Len(fs) \in Nat /\ \A i \in 1..Len(fs) : fs[i] \in Frame
  BY ElementOfSeq, LenProperties
<1>2. \A i \in 1..Len(fs) : Item(fs[i].kind, fs[i].saved) \in Items
  BY <1>1 DEF Frame, Items, Item, Ctx
<1>3. Pend(fs) \in [1..Len(fs) -> Items]
  BY <1>2 DEF Pend, Item
<1>4. Pend(fs) \in Seq(Items) /\ Len(Pend(fs)) = Len(fs)
  BY <1>1, <1>3
<1>5. \A i \in 1..Len(fs) : Pend(fs)[i] = Item(fs[i].kind, fs[i].saved)
  BY DEF Pend, Item
<1>6. Pend(fs) = <<>> <=> fs = <<>>
  BY <1>1, <1>4, EmptySeq
<1> QED
  BY <1>1, <1>4, <1>5, <1>6

\* No frame, nothing pending.
LEMMA PendNone == Pend(<<>>) = <<>>
BY EmptySeq, PendType

\* A transfer or a push adds its item.
LEMMA PendWith ==
  ASSUME NEW fs \in Seq(Frame), Chained(fs), NEW kind \in Kinds,
         NEW c \in Word, NEW i \in Word, NEW f \in Word,
         DepthOf(fs) + Width(kind) <= Size
  PROVE  Pend(With(fs, kind, c, i, f)) = Append(Pend(fs), Item(kind, Saved(c, i, f)))
<1> DEFINE gs == With(fs, kind, c, i, f)
           new == Item(kind, Saved(c, i, f))
           left == Pend(gs)
           right == Append(Pend(fs), new)
<1>1. /\ gs \in Seq(Frame) /\ Len(gs) = Len(fs) + 1
      /\ \A k \in 1..Len(fs) : gs[k] = fs[k]
      /\ gs[Len(gs)] = [kind |-> kind, at |-> DepthOf(fs), saved |-> Saved(c, i, f)]
  BY ChainAppend DEF Saved
<1> HIDE DEF gs
<1>2. /\ left \in Seq(Items) /\ Len(left) = Len(gs)
      /\ \A k \in 1..Len(gs) : left[k] = Item(gs[k].kind, gs[k].saved)
  BY <1>1, PendType
<1>3. /\ Pend(fs) \in Seq(Items) /\ Len(Pend(fs)) = Len(fs) /\ Len(fs) \in Nat
      /\ \A k \in 1..Len(fs) : Pend(fs)[k] = Item(fs[k].kind, fs[k].saved)
  BY PendType
<1>4. new \in Items
  BY DEF Items, Item, Saved, Ctx
<1>5. /\ right \in Seq(Items) /\ Len(right) = Len(fs) + 1
      /\ \A k \in 1..Len(fs) : right[k] = Pend(fs)[k]
      /\ right[Len(fs) + 1] = new
  BY <1>3, <1>4, AppendProperties
<1> HIDE DEF left, right
<1>6. \A k \in 1..Len(left) : left[k] = right[k]
  <2> SUFFICES ASSUME NEW k \in 1..Len(left) PROVE left[k] = right[k]
    OBVIOUS
  <2>1. CASE k \in 1..Len(fs)
    BY <1>1, <1>2, <1>3, <1>5, <2>1
  <2>2. CASE k = Len(fs) + 1
    BY <1>1, <1>2, <1>3, <1>5, <2>2 DEF Item
  <2> QED
    BY <1>1, <1>2, <1>3, <2>1, <2>2
<1>7. left = right
  BY <1>1, <1>2, <1>5, <1>6, SeqEqual
<1> QED
  BY <1>7 DEF left, right, gs

\* A return or a pop takes the last n off.
LEMMA PendRest ==
  ASSUME NEW fs \in Seq(Frame), Chained(fs), NEW n \in 1..Len(fs)
  PROVE  Pend(SubSeq(fs, 1, Len(fs) - n)) = SubSeq(Pend(fs), 1, Len(Pend(fs)) - n)
<1> DEFINE m == Len(fs) - n
           gs == SubSeq(fs, 1, m)
           left == Pend(gs)
           right == SubSeq(Pend(fs), 1, m)
<1>1. /\ Pend(fs) \in Seq(Items) /\ Len(Pend(fs)) = Len(fs) /\ Len(fs) \in Nat
      /\ \A k \in 1..Len(fs) : Pend(fs)[k] = Item(fs[k].kind, fs[k].saved)
  BY PendType
<1>2. m \in Nat /\ m < Len(fs)
  BY <1>1
<1> HIDE DEF m
<1>3. gs \in Seq(Frame) /\ Len(gs) = m /\ \A k \in 1..m : gs[k] = fs[k]
  BY <1>2, ChainRest
<1> HIDE DEF gs
<1>4. /\ left \in Seq(Items) /\ Len(left) = m
      /\ \A k \in 1..m : left[k] = Item(gs[k].kind, gs[k].saved)
  BY <1>3, PendType
<1>5. \A k \in 1..m : Pend(fs)[k] \in Items
  BY <1>1, <1>2, ElementOfSeq
<1>6. /\ right \in Seq(Items) /\ Len(right) = m
      /\ \A k \in 1..m : right[k] = Pend(fs)[k]
  BY <1>2, <1>5, SubSeqProperties
<1> HIDE DEF left, right
<1>7. \A k \in 1..m : k \in 1..Len(fs)
  BY <1>1, <1>2
<1>8. \A k \in 1..m : left[k] = right[k]
  BY <1>1, <1>3, <1>4, <1>6, <1>7
<1>9. left = right
  BY <1>4, <1>6, <1>8, SeqEqual
<1> QED
  BY <1>1, <1>9 DEF left, right, gs, m

-----------------------------------------------------------------------------
(* The abstract steps, in terms of the mapping.                            *)

\* The host's call, delivered.
LEMMA AbsBegin ==
  ASSUME Cur' \in Ctx, reg' = reg, host # "running", host' = "running",
         flags' = ClearIT[flags],
         Pend(frames)' = <<Item("int", Saved(MagicCS, MagicIP, flags))>>
  PROVE  Stack!AbsNext
<1>1. Stack!Begin
  BY DEF Stack!Begin, Stack!Context, Stack!At, Cur, Ctx, Pend, Item, Saved
<1> QED
  BY <1>1 DEF Stack!AbsNext

\* An instruction that is no transfer.
LEMMA AbsCompute ==
  ASSUME Cur' \in Ctx, reg' \in Word, host = "running", host' = host,
         cs' = cs, frames' = frames
  PROVE  Stack!AbsNext
<1>1. Stack!Compute
  BY DEF Stack!Compute, Stack!Context, Cur, Ctx
<1> QED
  BY <1>1 DEF Stack!AbsNext

\* A jump.
LEMMA AbsJump ==
  ASSUME Cur' \in Ctx, reg' = reg, host = "running", host' = host,
         flags' = flags, frames' = frames
  PROVE  Stack!AbsNext
<1>1. Stack!Jump
  BY DEF Stack!Jump, Stack!Context, Cur, Ctx
<1> QED
  BY <1>1 DEF Stack!AbsNext

\* A near or far call that pushed all its words.
LEMMA AbsCall ==
  ASSUME Cur' \in Ctx, reg' = reg, host = "running", host' = host,
         flags' = flags, NEW kind \in {"near", "far"}, kind = "near" => cs' = cs,
         NEW next \in Word,
         Pend(frames)' = Append(Pend(frames), Item(kind, Saved(cs, next, flags)))
  PROVE  Stack!AbsNext
<1>1. Stack!Call(kind)
  BY DEF Stack!Call, Stack!Context, Stack!At, Cur, Ctx, Pend, Item, Saved
<1> QED
  BY <1>1 DEF Stack!AbsNext

\* INT n that pushed all its words.
LEMMA AbsInterrupt ==
  ASSUME Cur' \in Ctx, reg' = reg, host = "running", host' = host,
         flags' = ClearIT[flags], NEW next \in Word,
         Pend(frames)' = Append(Pend(frames), Item("int", Saved(cs, next, flags)))
  PROVE  Stack!AbsNext
<1>1. Stack!Interrupt
  BY DEF Stack!Interrupt, Stack!Context, Stack!At, Cur, Ctx, Pend, Item, Saved
<1> QED
  BY <1>1 DEF Stack!AbsNext

\* A divide error: the address saved is the instruction's own.
LEMMA AbsTrap ==
  ASSUME Cur' \in Ctx, reg' = reg, host = "running", host' = host,
         flags' = ClearIT[flags],
         Pend(frames)' = Append(Pend(frames), Item("int", Saved(cs, ip, flags)))
  PROVE  Stack!AbsNext
<1>1. Stack!Trap
  BY DEF Stack!Trap, Stack!Context, Cur, Ctx, Pend, Item, Saved
<1> QED
  BY <1>1 DEF Stack!AbsNext

\* A word pushed.
LEMMA AbsPush ==
  ASSUME Cur' \in Ctx, reg' = reg, host = "running", host' = host,
         cs' = cs, flags' = flags, NEW w \in {reg, flags},
         Pend(frames)' = Append(Pend(frames), Item("data", Saved(w, w, w)))
  PROVE  Stack!AbsNext
<1>1. Stack!Push
  BY DEF Stack!Push, Stack!Context, Stack!At, Cur, Ctx, Pend, Item, Saved
<1> QED
  BY <1>1 DEF Stack!AbsNext

\* The newest item is the top frame's.
LEMMA PendTop ==
  ASSUME frames \in Seq(Frame), frames # <<>>
  PROVE  /\ Top \in Frame /\ Stack!Top = Item(Top.kind, Top.saved)
         /\ Pend(frames) # <<>> /\ Len(Pend(frames)) = Len(frames)
         /\ Len(frames) \in Nat \ {0}
<1>1. /\ Pend(frames) # <<>> /\ Len(Pend(frames)) = Len(frames) /\ Len(frames) \in Nat
      /\ \A i \in 1..Len(frames) : Pend(frames)[i] = Item(frames[i].kind, frames[i].saved)
  BY PendType
<1>2. Len(frames) \in 1..Len(frames) /\ Top \in Frame
  BY EmptySeq, ElementOfSeq DEF Top
<1>3. Pend(frames)[Len(Pend(frames))] = Item(Top.kind, Top.saved)
  BY <1>1, <1>2 DEF Top
<1>4. Stack!Top = Pend(frames)[Len(Pend(frames))]
  BY DEF Stack!Top, Pend
<1> QED
  BY <1>1, <1>2, <1>3, <1>4

\* A word popped, into the register or FLAGS.
LEMMA AbsPop ==
  ASSUME Cur' \in Ctx, frames \in Seq(Frame), frames # <<>>, Top.kind = "data",
         host = "running", host' = host, cs' = cs,
         \/ reg' = Top.saved.ip /\ flags' = flags
         \/ reg' = reg /\ flags' = PopfMask[Top.saved.ip],
         Pend(frames)' = SubSeq(Pend(frames), 1, Len(Pend(frames)) - 1)
  PROVE  Stack!AbsNext
<1>1. /\ Stack!Top.kind = "data" /\ Stack!Top.saved = Top.saved
      /\ Pend(frames) # <<>>
  BY PendTop DEF Item
<1>2. Pend(frames)' = Stack!Rest(1)
  BY DEF Stack!Rest, Pend
<1>3. Stack!Pop
  BY <1>1, <1>2 DEF Stack!Pop, Stack!Context, Cur, Ctx, Pend
<1> QED
  BY <1>3 DEF Stack!AbsNext

\* A near or far return, with n words of arguments dropped.
LEMMA AbsReturn ==
  ASSUME host = "running", host' = host, reg' = reg, frames \in Seq(Frame), frames # <<>>,
         NEW kind \in {"near", "far"}, NEW n \in 0..Len(frames) - 1, Top.kind = kind,
         cs' = Top.saved.cs, ip' = Top.saved.ip, flags' = flags,
         \A i \in Len(frames) - n .. Len(frames) - 1 : frames[i].kind = "data",
         Pend(frames)' = SubSeq(Pend(frames), 1, Len(Pend(frames)) - (n + 1))
  PROVE  Stack!AbsNext
<1>1. /\ Stack!Top.kind = kind /\ Stack!Top.saved = Top.saved
      /\ Pend(frames) # <<>> /\ Len(Pend(frames)) = Len(frames)
  BY PendTop DEF Item
<1>2. Pend(frames)' = Stack!Rest(n + 1)
  BY DEF Stack!Rest, Pend
<1>3. ASSUME NEW i \in Len(Pend(frames)) - n .. Len(Pend(frames)) - 1
      PROVE  Pend(frames)[i].kind = "data"
  <2>1. Pend(frames)[i] = Item(frames[i].kind, frames[i].saved)
    BY <1>1, PendTop, PendType
  <2>2. frames[i].kind = "data"
    BY <1>1
  <2> QED
    BY <2>1, <2>2 DEF Item
<1>4. Cur' = Stack!At(Stack!Top.saved.cs, Stack!Top.saved.ip, Cur.flags)
  BY <1>1 DEF Stack!At, Cur
<1>5. n \in 0..Len(Pend(frames)) - 1
  BY <1>1
<1>6. Stack!Return(kind)
  BY <1>1, <1>2, <1>3, <1>4, <1>5 DEF Stack!Return, Cur, Pend
<1> QED
  BY <1>6 DEF Stack!AbsNext

\* IRET.
LEMMA AbsIntReturn ==
  ASSUME host = "running", host' = host, reg' = reg, frames \in Seq(Frame), frames # <<>>,
         Top.kind = "int",
         cs' = Top.saved.cs, ip' = Top.saved.ip, flags' = Top.saved.flags,
         Pend(frames)' = SubSeq(Pend(frames), 1, Len(Pend(frames)) - 1)
  PROVE  Stack!AbsNext
<1>1. /\ Stack!Top.kind = "int" /\ Stack!Top.saved = Top.saved /\ Pend(frames) # <<>>
      /\ Top \in Frame
  BY PendTop DEF Item
<1>2. Pend(frames)' = Stack!Rest(1)
  BY DEF Stack!Rest, Pend
<1>3. Cur' = Stack!Top.saved
  BY <1>1 DEF Cur, Frame
<1>4. Stack!IntReturn
  BY <1>1, <1>2, <1>3 DEF Stack!IntReturn, Cur, Pend
<1> QED
  BY <1>4 DEF Stack!AbsNext

\* An HLE callback, which ends the interrupt it serves.
LEMMA AbsServe ==
  ASSUME Cur' \in Ctx, reg' \in Word, host = "running", host' \in {"running", "failed"},
         frames \in Seq(Frame), frames # <<>>, Top.kind = "int",
         cs' = Top.saved.cs, ip' = Top.saved.ip,
         Pend(frames)' = SubSeq(Pend(frames), 1, Len(Pend(frames)) - 1)
  PROVE  Stack!AbsNext
<1>1. /\ Stack!Top.kind = "int" /\ Stack!Top.saved = Top.saved /\ Pend(frames) # <<>>
  BY PendTop DEF Item
<1>2. Pend(frames)' = Stack!Rest(1)
  BY DEF Stack!Rest, Pend
<1>3. Cur' = Stack!At(Stack!Top.saved.cs, Stack!Top.saved.ip, Cur'.flags)
  BY <1>1 DEF Stack!At, Cur
<1>4. Stack!Serve
  BY <1>1, <1>2, <1>3 DEF Stack!Serve, Stack!Context, Cur, Ctx, Pend
<1> QED
  BY <1>4 DEF Stack!AbsNext

\* The end of the host's call.
LEMMA AbsEnd ==
  ASSUME host = "running", host' = "idle", AtMagic, frames = <<>>,
         UNCHANGED <<cs, ip, flags, reg, frames>>
  PROVE  Stack!AbsNext
<1>1. Pend(frames) = <<>>
  BY PendNone
<1>2. Stack!End
  BY <1>1 DEF Stack!End, AtMagic, Pend
<1> QED
  BY <1>2 DEF Stack!AbsNext

\* An error, in a call or at its very start.
LEMMA AbsFail ==
  ASSUME Cur' \in Ctx, reg' \in Word, host' = "failed",
         Pend(frames)' = IF host = "running" THEN Pend(frames) ELSE <<>>
  PROVE  Stack!AbsNext
<1>1. Stack!Fail
  BY DEF Stack!Fail, Stack!Context, Cur, Ctx, Pend
<1> QED
  BY <1>1 DEF Stack!AbsNext

-----------------------------------------------------------------------------
(* Every step of the machine is one of them, or shows the mapping nothing. *)

\* The mapping of a state is of the right type ...
LEMMA Mapped ==
  ASSUME IInv
  PROVE  /\ Cur \in Ctx /\ cs \in Word /\ ip \in Word /\ flags \in Word /\ reg \in Word
         /\ frames \in Seq(Frame) /\ Chained(frames)
BY DEF IInv, TypeOK, Stacked, Cur, Ctx

\* ... and so is that of the next.
LEMMA MappedNext ==
  ASSUME IInv'
  PROVE  Cur' \in Ctx /\ reg' \in Word
BY DEF IInv, TypeOK, Cur, Ctx

\* The frame a step adds, and the frames it takes away, on both sides.
LEMMA Entered ==
  ASSUME IInv, NEW kind \in Kinds, Fits(kind),
         NEW c \in Word, NEW i \in Word, NEW f \in Word,
         frames' = With(frames, kind, c, i, f)
  PROVE  Pend(frames)' = Append(Pend(frames), Item(kind, Saved(c, i, f)))
<1>1. Pend(frames)' = Pend(With(frames, kind, c, i, f))
  BY DEF Pend
<1>2. DepthOf(frames) + Width(kind) <= Size
  BY DEF Fits, Depth
<1>3. frames \in Seq(Frame) /\ Chained(frames)
  BY Mapped
<1>4. Pend(With(frames, kind, c, i, f)) = Append(Pend(frames), Item(kind, Saved(c, i, f)))
  BY <1>2, <1>3, PendWith
<1> QED
  BY <1>1, <1>4

\* (The frames it takes away.)
LEMMA Left ==
  ASSUME IInv, NEW n \in 1..Len(frames), frames' = Rest(n)
  PROVE  Pend(frames)' = SubSeq(Pend(frames), 1, Len(Pend(frames)) - n)
<1>1. Pend(frames)' = Pend(SubSeq(frames, 1, Len(frames) - n))
  BY DEF Pend, Rest
<1> QED
  BY <1>1, Mapped, PendRest

\* Frames left alone are left alone on both sides.
LEMMA Alike ==
  ASSUME frames' = frames
  PROVE  Pend(frames)' = Pend(frames)
BY DEF Pend

\* Any step of a running call that ends in an error and keeps its frames.
LEMMA FailMaps ==
  ASSUME IInv', host = "running", host' = "failed", frames' = frames
  PROVE  Stack!AbsNext
BY Alike, MappedNext, AbsFail

\* RME_CallInt begins a call, or fails with nothing pending.
LEMMA CallIntMaps ==
  ASSUME IInv, IInv', NEW n \in Ints, RME_CallInt(n)
  PROVE  Stack!AbsNext
<1>1. host # "running" /\ RME_int_CallInt(n, MagicCS, MagicIP, <<>>) /\ reg' = reg
  BY DEF RME_CallInt, RME_int_CallInt
<1>2. CASE host' = "failed" /\ frames' = <<>>
  <2>1. Pend(frames)' = <<>>
    BY <1>2, PendNone DEF Pend
  <2> QED
    BY <1>1, <1>2, <2>1, MappedNext, AbsFail
<1>3. CASE /\ host' = "running" /\ flags' = ClearIT[flags]
           /\ frames' = With(<<>>, "int", MagicCS, MagicIP, flags)
  <2>1. <<>> \in Seq(Frame) /\ Chained(<<>>) /\ DepthOf(<<>>) = 0
    BY EmptySeq DEF Chained, DepthOf
  <2>2. /\ "int" \in Kinds /\ 0 + Width("int") <= Size
        /\ MagicCS \in Word /\ MagicIP \in Word /\ flags \in Word
    BY Mapped, WordAssumption, StackAssumption DEF Kinds, Width
  <2>3. Pend(With(<<>>, "int", MagicCS, MagicIP, flags)) =
          Append(Pend(<<>>), Item("int", Saved(MagicCS, MagicIP, flags)))
    BY <2>1, <2>2, PendWith
  <2>4. Pend(frames)' = <<Item("int", Saved(MagicCS, MagicIP, flags))>>
    <3>1. Pend(frames)' = Append(<<>>, Item("int", Saved(MagicCS, MagicIP, flags)))
      BY <1>3, <2>3, PendNone DEF Pend
    <3> QED
      BY <3>1
  <2> QED
    BY <1>1, <1>3, <2>4, MappedNext, AbsBegin
<1> QED
  BY <1>1, <1>2, <1>3 DEF RME_int_CallInt, PushFails, Done

\* The host between calls, and the end of a call.
LEMMA HostMaps ==
  ASSUME IInv, IInv',
         RME_CallIntInvalid \/ FunctionReturn \/ \E n \in Settable : HostSetsVector(n)
  PROVE  [Stack!AbsNext]_Stack!absVars
<1>1. CASE RME_CallIntInvalid
  <2>1. host # "running" /\ host' = "failed" /\ frames' = <<>>
    BY <1>1 DEF RME_CallIntInvalid
  <2>2. Pend(frames)' = <<>>
    BY <2>1, PendNone DEF Pend
  <2> QED
    BY <2>1, <2>2, MappedNext, AbsFail
<1>2. CASE FunctionReturn
  <2>1. /\ host = "running" /\ host' = "idle" /\ AtMagic /\ frames = <<>>
        /\ UNCHANGED <<cs, ip, flags, reg, frames>>
    BY <1>2 DEF FunctionReturn, IInv, Located
  <2> QED
    BY <2>1, AbsEnd
<1>3. CASE \E n \in Settable : HostSetsVector(n)
  BY <1>3 DEF HostSetsVector, Stack!absVars
<1> QED
  BY <1>1, <1>2, <1>3

\* The divide error traps, or fails.
LEMMA DivideErrorMaps ==
  ASSUME IInv, IInv', DivideError
  PROVE  Stack!AbsNext
<1>1. host = "running" /\ Fits("int") /\ RME_int_CallInt(DivideInt, cs, ip, frames)
      /\ reg' = reg
  BY DEF DivideError, AtGuest, RME_int_CallInt
<1>2. CASE host' = "failed" /\ frames' = frames
  BY <1>1, <1>2, FailMaps
<1>3. CASE host' = "running" /\ flags' = ClearIT[flags]
           /\ frames' = With(frames, "int", cs, ip, flags)
  <2>1. Pend(frames)' = Append(Pend(frames), Item("int", Saved(cs, ip, flags)))
    BY <1>1, <1>3, Mapped, Entered DEF Kinds
  <2> QED
    BY <1>1, <1>3, <2>1, MappedNext, AbsTrap
<1> QED
  BY <1>1, <1>2, <1>3 DEF RME_int_CallInt, PushFails, Done

\* A callback serves, whatever it returns, or its return faults.
LEMMA HleCallMaps ==
  ASSUME IInv, IInv', HleCall
  PROVE  Stack!AbsNext
<1>1. host = "running" /\ frames # <<>> /\ Top.kind = "int"
  BY DEF HleCall, IInv, Located, TopIs
<1>2. CASE PopContextFails /\ UNCHANGED frames
  BY <1>1, <1>2, FailMaps DEF PopContextFails, PopFailsAt
<1>3. CASE PopContext /\ frames' = Rest(1) /\ host' \in {"running", "failed"}
  <2>1. cs' = Top.saved.cs /\ ip' = Top.saved.ip
    BY <1>1, <1>3, PeekTop DEF PopContext
  <2>2. 1 \in 1..Len(frames)
    BY <1>1, Mapped, PendTop
  <2>3. Pend(frames)' = SubSeq(Pend(frames), 1, Len(Pend(frames)) - 1)
    BY <1>3, <2>2, Left
  <2> QED
    BY <1>1, <1>3, <2>1, <2>3, Mapped, MappedNext, AbsServe
<1> QED
  BY <1>2, <1>3 DEF HleCall, Done

\* Instructions that stay off the stack, or fail.
LEMMA QuietMaps ==
  ASSUME IInv, IInv',
         \/ Compute \/ Jump \/ InstrFails \/ WildFetch
         \/ \E n \in Settable : SetVector(n)
  PROVE  Stack!AbsNext
<1>1. CASE Compute
  BY <1>1, MappedNext, AbsCompute DEF Compute, AtGuest, Done
<1>2. CASE \E n \in Settable : SetVector(n)
  BY <1>2, MappedNext, AbsCompute DEF SetVector, AtGuest, Done
<1>3. CASE Jump
  BY <1>3, MappedNext, AbsJump DEF Jump, AtGuest, Done
<1>4. CASE InstrFails \/ WildFetch
  BY <1>4, FailMaps DEF InstrFails, WildFetch, AtGuest
<1> QED
  BY <1>1, <1>2, <1>3, <1>4

\* CALL pushes all its words, or fails.
LEMMA CallMaps ==
  ASSUME IInv, IInv', CallNear \/ CallFar
  PROVE  Stack!AbsNext
<1>1. host = "running" /\ reg' = reg /\ flags' = flags
  BY DEF CallNear, CallFar, AtGuest
<1>2. CASE host' = "failed" /\ frames' = frames
  BY <1>1, <1>2, FailMaps
<1>3. ASSUME NEW kind \in {"near", "far"}, NEW next \in NearIPs, Fits(kind), Done,
             frames' = With(frames, kind, cs, next, flags), kind = "near" => cs' = cs
      PROVE  Stack!AbsNext
  <2>1. next \in Word /\ kind \in Kinds
    BY DEF NearIPs, Kinds
  <2>2. Pend(frames)' = Append(Pend(frames), Item(kind, Saved(cs, next, flags)))
    BY <1>3, <2>1, Mapped, Entered
  <2> QED
    BY <1>1, <1>3, <2>1, <2>2, MappedNext, AbsCall DEF Done
<1>4. CASE CallNear
  BY <1>2, <1>3, <1>4 DEF CallNear, PushFails
<1>5. CASE CallFar
  BY <1>2, <1>3, <1>5 DEF CallFar, PushFails
<1> QED
  BY <1>4, <1>5

\* INT delivers, or refuses the vector, or faults.
LEMMA INTMaps ==
  ASSUME IInv, IInv', NEW n \in Ints, INT(n)
  PROVE  Stack!AbsNext
<1>1. host = "running" /\ Fits("int") /\ reg' = reg
  BY DEF INT, AtGuest
<1>2. CASE host' = "failed" /\ frames' = frames
  BY <1>1, <1>2, FailMaps
<1>3. ASSUME NEW next \in NearIPs, Done, flags' = ClearIT[flags],
             frames' = With(frames, "int", cs, next, flags)
      PROVE  Stack!AbsNext
  <2>1. next \in Word /\ "int" \in Kinds
    BY DEF NearIPs, Kinds
  <2>2. Pend(frames)' = Append(Pend(frames), Item("int", Saved(cs, next, flags)))
    BY <1>1, <1>3, <2>1, Mapped, Entered
  <2> QED
    BY <1>1, <1>3, <2>1, <2>2, MappedNext, AbsInterrupt DEF Done
<1> QED
  BY <1>2, <1>3 DEF INT, PushFails

\* PUSH and PUSHF.
LEMMA PushMaps ==
  ASSUME IInv, IInv', PUSH \/ PUSHF
  PROVE  Stack!AbsNext
<1>1. PICK w \in {reg, flags} : PushWord(w)
  BY DEF PUSH, PUSHF
<1>2. /\ host = "running" /\ Fits("data") /\ w \in Word /\ "data" \in Kinds
      /\ UNCHANGED <<cs, flags, reg>>
  BY <1>1, Mapped DEF PushWord, AtGuest, Kinds
<1>3. CASE host' = "failed" /\ frames' = frames
  BY <1>2, <1>3, FailMaps
<1>4. CASE Done /\ frames' = With(frames, "data", w, w, w)
  <2>1. Pend(frames)' = Append(Pend(frames), Item("data", Saved(w, w, w)))
    BY <1>2, <1>4, Entered
  <2> QED
    BY <1>2, <1>4, <2>1, MappedNext, AbsPush DEF Done
<1> QED
  BY <1>1, <1>3, <1>4 DEF PushWord, PushFails

\* POP and POPF find the word that was pushed.
LEMMA PopMaps ==
  ASSUME IInv, IInv', POP \/ POPF
  PROVE  Stack!AbsNext
<1>1. host = "running" /\ frames # <<>> /\ Top.kind = "data" /\ cs' = cs
  BY DEF POP, POPF, PopWord, AtGuest, TopIs
<1>2. CASE host' = "failed" /\ frames' = frames
  BY <1>1, <1>2, FailMaps
<1>3. CASE Done /\ frames' = Rest(1)
  <2>1. 1 \in 1..Len(frames)
    BY <1>1, Mapped, PendTop
  <2>2. Pend(frames)' = SubSeq(Pend(frames), 1, Len(Pend(frames)) - 1)
    BY <1>3, <2>1, Left
  <2>3. host' = "running" /\ Peek(0) = Top.saved.ip
    BY <1>1, <1>3, PeekTop DEF Done
  <2>4. \/ reg' = Top.saved.ip /\ flags' = flags
        \/ reg' = reg /\ flags' = PopfMask[Top.saved.ip]
    BY <2>3 DEF POP, POPF
  <2> QED
    BY <1>1, <2>2, <2>3, <2>4, Mapped, MappedNext, AbsPop
<1> QED
  BY <1>2, <1>3 DEF POP, POPF, PopWord, PopFailsAt

\* RET and RETF find the address their call saved.
LEMMA RetMaps ==
  ASSUME IInv, IInv', NEW n \in 0..Len(frames) - 1, RetNear(n) \/ RetFar(n)
  PROVE  Stack!AbsNext
<1>1. /\ host = "running" /\ frames # <<>> /\ Top.kind \in {"near", "far"}
      /\ UNCHANGED <<flags, reg>>
      /\ \A i \in Len(frames) - n .. Len(frames) - 1 : frames[i].kind = "data"
  BY DEF RetNear, RetFar, AtGuest, TopIs, ArgsUnder
<1>2. CASE host' = "failed" /\ frames' = frames
  BY <1>1, <1>2, FailMaps
<1>3. CASE Done /\ frames' = Rest(n + 1) /\ cs' = Top.saved.cs /\ ip' = Top.saved.ip
  <2>1. n + 1 \in 1..Len(frames)
    BY <1>1, Mapped, PendTop
  <2>2. Pend(frames)' = SubSeq(Pend(frames), 1, Len(Pend(frames)) - (n + 1))
    BY <1>3, <2>1, Left
  <2> QED
    BY <1>1, <1>3, <2>2, Mapped, AbsReturn DEF Done
<1>4. CASE RetNear(n)
  <2>1. Peek(0) = Top.saved.ip /\ Top.saved.cs = cs
    BY <1>1, <1>4, PeekTop DEF RetNear
  <2> QED
    BY <1>2, <1>3, <1>4, <2>1 DEF RetNear, PopFailsAt
<1>5. CASE RetFar(n)
  <2>1. Peek(0) = Top.saved.ip /\ Peek(1) = Top.saved.cs
    <3>1. Top.kind = "far"
      BY <1>5 DEF RetFar, TopIs
    <3> QED
      BY <1>1, <3>1, PeekTop
  <2> QED
    BY <1>2, <1>3, <1>5, <2>1 DEF RetFar, PopFailsAt
<1> QED
  BY <1>4, <1>5

\* IRET finds the context its interrupt saved.
LEMMA IRETMaps ==
  ASSUME IInv, IInv', IRET
  PROVE  Stack!AbsNext
<1>1. host = "running" /\ frames # <<>> /\ Top.kind = "int" /\ reg' = reg
  BY DEF IRET, AtGuest, TopIs
<1>2. CASE PopContextFails /\ frames' = frames
  BY <1>1, <1>2, FailMaps DEF PopContextFails, PopFailsAt
<1>3. CASE PopContext /\ flags' = Peek(2) /\ frames' = Rest(1) /\ Done
  <2>1. cs' = Top.saved.cs /\ ip' = Top.saved.ip /\ flags' = Top.saved.flags
    BY <1>1, <1>3, PeekTop DEF PopContext
  <2>2. 1 \in 1..Len(frames)
    BY <1>1, Mapped, PendTop
  <2>3. Pend(frames)' = SubSeq(Pend(frames), 1, Len(Pend(frames)) - 1)
    BY <1>3, <2>2, Left
  <2> QED
    BY <1>1, <1>3, <2>1, <2>3, Mapped, AbsIntReturn DEF Done
<1> QED
  BY <1>2, <1>3 DEF IRET

\* Every step maps to an abstract one or to a stutter ...
LEMMA NextMaps ==
  ASSUME IInv, IInv', [Next]_vars
  PROVE  [Stack!AbsNext]_Stack!absVars
<1>1. CASE UNCHANGED vars
  BY <1>1 DEF vars, Stack!absVars
<1>2. CASE Instruction
  BY <1>2, QuietMaps, CallMaps, INTMaps, PushMaps, PopMaps, RetMaps, IRETMaps
     DEF Instruction
<1>3. CASE Next /\ ~Instruction
  BY <1>3, HostMaps, CallIntMaps, DivideErrorMaps, HleCallMaps, QuietMaps DEF Next
<1> QED
  BY <1>1, <1>2, <1>3

\* ... and the initial states to initial states.
LEMMA InitMaps ==
  ASSUME Init
  PROVE  Stack!AbsInit
<1>1. Cur \in Ctx /\ reg \in Word /\ frames = <<>> /\ host = "idle"
  <2>1. cs \in Word /\ ip \in Word /\ flags \in Word /\ reg \in Word
    BY WordAssumption, CodeAssumption DEF Init
  <2> QED
    BY <2>1 DEF Init, Cur, Ctx
<1>2. Pend(frames) = <<>>
  BY <1>1, PendNone
<1> QED
  BY <1>1, <1>2 DEF Stack!AbsInit, Stack!Context, Cur, Ctx, Pend

-----------------------------------------------------------------------------
\* The stack in guest memory implements the abstract call stack: whatever the
\* machine runs, a return brings back the context its call left, a pop the
\* word that was pushed, and the host's call ends with nothing pending.
THEOREM Refines == Spec => Implements
<1>1. Init => Stack!AbsInit
  BY InitMaps
<1>2. IInv /\ IInv' /\ [Next]_vars => [Stack!AbsNext]_Stack!absVars
  BY NextMaps
<1> QED
  BY <1>1, <1>2, Invariance, PTL DEF Spec, Implements, Stack!AbsSpec
=============================================================================
