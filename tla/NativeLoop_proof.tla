-------------------------- MODULE NativeLoop_proof --------------------------
(***************************************************************************)
(* Memory is flat for every block size, every number of blocks, every      *)
(* paragraph size and length of access, whichever blocks have memory and   *)
(* whichever callbacks there are.  The comparison of the main loop, which  *)
(* runs on it, misses no write of the guest, for any number of accesses    *)
(* per instruction and wherever callbacks write.  The flags are set by the *)
(* very step that writes, and what a piece of an access writes lies in the *)
(* block it flags (PieceFacts): this is where the cutting of accesses      *)
(* matters.                                                                *)
(***************************************************************************)
EXTENDS NativeLoop, TLAPS

-----------------------------------------------------------------------------
(* Blocks and offsets.                                                     *)

\* An address is its block and its offset.
LEMMA DivMod ==
  ASSUME NEW a \in Nat
  PROVE  /\ Block(a) \in Nat /\ Offset(a) \in 0..BlockSize - 1
         /\ a = BlockSize * Block(a) + Offset(a)
BY SizeAssumption DEF Block, Offset

\* ... and no other block and offset.
LEMMA BlockOf ==
  ASSUME NEW a \in Nat, NEW b \in Nat, NEW o \in 0..BlockSize - 1,
         a = BlockSize * b + o
  PROVE  Block(a) = b /\ Offset(a) = o
<1>1. /\ Block(a) \in Nat /\ Offset(a) \in 0..BlockSize - 1
      /\ BlockSize * Block(a) + Offset(a) = BlockSize * b + o
  BY DivMod
<1>2. \A x, y \in Nat : \A r, s \in 0..BlockSize - 1 :
        BlockSize * x + r = BlockSize * y + s => x = y
  BY SizeAssumption
<1>3. Block(a) = b
  BY <1>1, <1>2
<1> QED
  BY <1>1, <1>3, SizeAssumption

\* Moving within a block, and to the start of the next.
LEMMA SameBlock ==
  ASSUME NEW a \in Nat, NEW i \in Nat, Offset(a) + i < BlockSize
  PROVE  Block(a + i) = Block(a) /\ Offset(a + i) = Offset(a) + i
<1>1. /\ Block(a) \in Nat /\ Offset(a) + i \in 0..BlockSize - 1 /\ a + i \in Nat
      /\ a + i = BlockSize * Block(a) + (Offset(a) + i)
  <2>1. /\ Block(a) \in Nat /\ Offset(a) \in 0..BlockSize - 1
        /\ a = BlockSize * Block(a) + Offset(a)
    BY DivMod
  <2>2. BlockSize \in Nat /\ BlockSize * Block(a) \in Nat
    BY <2>1, SizeAssumption
  <2> QED
    BY <2>1, <2>2
<1> QED
  BY <1>1, BlockOf

\* An address that runs over the end of its block by less than a block is in the next.
LEMMA NextBlock ==
  ASSUME NEW a \in Nat, NEW i \in Nat,
         BlockSize <= Offset(a) + i, Offset(a) + i < 2 * BlockSize
  PROVE  Block(a + i) = Block(a) + 1 /\ Offset(a + i) = Offset(a) + i - BlockSize
<1>1. /\ Block(a) + 1 \in Nat /\ Offset(a) + i - BlockSize \in 0..BlockSize - 1
      /\ a + i \in Nat
      /\ a + i = BlockSize * (Block(a) + 1) + (Offset(a) + i - BlockSize)
  <2>1. /\ Block(a) \in Nat /\ Offset(a) \in 0..BlockSize - 1
        /\ a = BlockSize * Block(a) + Offset(a)
    BY DivMod
  <2>2. BlockSize \in Nat /\ BlockSize * Block(a) \in Nat
    BY <2>1, SizeAssumption
  <2>3. BlockSize * (Block(a) + 1) = BlockSize * Block(a) + BlockSize
    BY <2>1, <2>2
  <2> QED
    BY <2>1, <2>2, <2>3
<1> QED
  BY <1>1, BlockOf

\* The address space is NBlocks blocks.
LEMMA InBlocks ==
  ASSUME NEW a \in Addrs
  PROVE  a \in Nat /\ Block(a) \in Blocks
<1>1. a \in Nat /\ a < NBlocks * BlockSize
  BY SizeAssumption DEF Addrs
<1>2. Block(a) \in Nat /\ BlockSize * Block(a) <= a
  BY <1>1, DivMod, SizeAssumption
<1>3. \A x \in Nat : BlockSize * x < NBlocks * BlockSize => x < NBlocks
  BY SizeAssumption
<1>4. Block(a) < NBlocks
  <2>1. BlockSize * Block(a) \in Nat /\ NBlocks * BlockSize \in Nat
    BY <1>2, SizeAssumption
  <2> QED
    BY <1>1, <1>2, <1>3, <2>1
<1> QED
  BY <1>1, <1>2, <1>4, SizeAssumption DEF Blocks

-----------------------------------------------------------------------------
(* The pieces of an access.                                                *)

\* A piece makes progress, stays in its block, and the next one, if any,
\* starts a block.
LEMMA PieceFits ==
  ASSUME NEW a \in Nat, NEW n \in Nat \ {0}, NEW first \in BOOLEAN,
         ~first => Offset(a) = 0
  PROVE  /\ Piece(a, n, first) \in 1..n
         /\ Offset(a) + Piece(a, n, first) <= BlockSize
         /\ At(a, first) = a
         /\ Piece(a, n, first) < n => Offset(a + Piece(a, n, first)) = 0
<1> DEFINE k == Piece(a, n, first)
<1>1. /\ Block(a) \in Nat /\ Offset(a) \in 0..BlockSize - 1
      /\ a = BlockSize * Block(a) + Offset(a)
  BY DivMod
<1>2. BlockSize \in Nat \ {0}
  BY SizeAssumption
<1>3. At(a, first) = a
  BY <1>1, <1>2 DEF At
<1>4. CASE first /\ OneBlock(a, n)
  <2>1. k = n
    BY <1>4 DEF Piece
  <2>2. Offset(a) + n <= BlockSize
    <3>1. CASE n = 1
      BY <1>1, <1>2, <3>1
    <3>2. CASE Block(a) = Block(a + n - 1)
      <4>1. /\ a + n - 1 \in Nat
            /\ Offset(a + n - 1) \in 0..BlockSize - 1
            /\ a + n - 1 = BlockSize * Block(a + n - 1) + Offset(a + n - 1)
        <5>1. a + n - 1 \in Nat
          OBVIOUS
        <5> QED
          BY <5>1, DivMod
      <4> QED
        BY <1>1, <1>2, <3>2, <4>1
    <3> QED
      BY <1>4, <3>1, <3>2 DEF OneBlock
  <2> QED
    BY <1>3, <2>1, <2>2
<1>5. CASE first /\ ~OneBlock(a, n)
  <2>1. k = BlockSize - Offset(a)
    BY <1>5 DEF Piece
  <2>2. k < n
    <3> SUFFICES ASSUME Offset(a) + (n - 1) < BlockSize PROVE FALSE
      BY <1>1, <1>2, <2>1
    <3>1. n - 1 \in Nat /\ a + (n - 1) = a + n - 1
      OBVIOUS
    <3>2. Block(a + n - 1) = Block(a)
      BY <3>1, SameBlock
    <3> QED
      BY <1>5, <3>2 DEF OneBlock
  <2>3. Offset(a + k) = 0
    <3>1. k \in Nat /\ BlockSize <= Offset(a) + k /\ Offset(a) + k < 2 * BlockSize
          /\ Offset(a) + k - BlockSize = 0
      BY <1>1, <1>2, <2>1
    <3> QED
      BY <3>1, NextBlock
  <2> QED
    BY <1>1, <1>2, <1>3, <2>1, <2>2, <2>3
<1>6. CASE ~first
  <2>1. Offset(a) = 0 /\ k = IF n < BlockSize THEN n ELSE BlockSize
    BY <1>6 DEF Piece
  <2>2. k \in 1..n /\ k <= BlockSize
    BY <1>2, <2>1
  <2>3. k < n => Offset(a + k) = 0
    <3> SUFFICES ASSUME k < n PROVE Offset(a + k) = 0
      OBVIOUS
    <3>1. k = BlockSize /\ BlockSize <= Offset(a) + k /\ Offset(a) + k < 2 * BlockSize
          /\ Offset(a) + k - BlockSize = 0
      BY <1>2, <2>1
    <3> QED
      BY <1>2, <3>1, NextBlock
  <2> QED
    BY <1>2, <1>3, <2>1, <2>2, <2>3
<1> QED
  BY <1>4, <1>5, <1>6

\* The ranges RME_GetPtr gives out.
LEMMA RefToExact ==
  ASSUME NEW a \in Addrs, NEW n \in 1..MaxPtr
  PROVE  LET r == RefTo(a, n) IN
         /\ r \in [r1 : Addrs, len1 : 0..BlockSize, r2 : Nat, at : Addrs, n : 0..BlockSize]
         /\ r.len1 <= r.n
         /\ \A i \in 0..r.n - 1 :
              IF i < r.len1
              THEN r.r1 + i = r.at + i /\ Block(r.r1 + i) = Block(r.r1)
              ELSE /\ r.r2 + (i - r.len1) = r.at + i
                   /\ Block(r.at + i) = Block(r.at + r.n - 1)
<1> DEFINE space == BlockSize - Offset(a)
<1> DEFINE len1 == IF space < n THEN space ELSE n
<1> DEFINE final == a + n - 1
<1> DEFINE r == RefTo(a, n)
<1>1. a \in Nat /\ final \in Nat /\ n \in 1..BlockSize /\ BlockSize \in Nat \ {0}
  BY InBlocks, SizeAssumption
<1>2. /\ Offset(a) \in 0..BlockSize - 1
      /\ space \in 1..BlockSize /\ len1 \in 1..BlockSize /\ len1 <= n
  <2>1. Offset(a) \in 0..BlockSize - 1
    BY <1>1, DivMod
  <2> QED
    BY <1>1, <2>1
<1>3. Block(final) \in Nat /\ Offset(final) \in Nat
      /\ Block(final) * BlockSize + Offset(final) = final
  <2> HIDE DEF final
  <2>1. /\ Block(final) \in Nat /\ Offset(final) \in 0..BlockSize - 1
        /\ final = BlockSize * Block(final) + Offset(final)
    BY <1>1, DivMod
  <2>2. BlockSize * Block(final) = Block(final) * BlockSize
    BY <1>1, <2>1
  <2> QED
    BY <1>1, <2>1, <2>2
<1>4. /\ r.r1 = a /\ r.at = a /\ r.n = n /\ r.len1 = len1
      /\ r.r2 = Block(final) * BlockSize + Offset(final) + 1 - (n - len1)
      /\ r = [r1 |-> a, len1 |-> len1, r2 |-> r.r2, at |-> a, n |-> n]
  BY DEF RefTo
<1>5. r.r2 = a + len1
  BY <1>1, <1>2, <1>3, <1>4
<1>6. ASSUME NEW i \in 0..n - 1, i < len1
      PROVE  Block(a + i) = Block(a)
  <2>1. i \in Nat /\ Offset(a) + i < BlockSize
    BY <1>1, <1>2, <1>6
  <2> QED
    BY <1>1, <2>1, SameBlock
<1>7. ASSUME NEW i \in 0..n - 1, ~(i < len1)
      PROVE  Block(a + i) = Block(a) + 1
  <2>1. i \in Nat /\ BlockSize <= Offset(a) + i /\ Offset(a) + i < 2 * BlockSize
    BY <1>1, <1>2, <1>7
  <2> QED
    BY <1>1, <2>1, NextBlock
<1>8. ASSUME NEW i \in 0..n - 1, ~(i < len1)
      PROVE  Block(a + i) = Block(a + n - 1)
  <2>1. n - 1 \in 0..n - 1 /\ ~(n - 1 < len1) /\ a + (n - 1) = a + n - 1
    BY <1>1, <1>2, <1>8
  <2>2. Block(a + (n - 1)) = Block(a) + 1
    BY <1>7, <2>1
  <2> QED
    BY <1>7, <1>8, <2>1, <2>2
<1>9. r \in [r1 : Addrs, len1 : 0..BlockSize, r2 : Nat, at : Addrs, n : 0..BlockSize]
  <2>1. a + len1 \in Nat /\ len1 \in 0..BlockSize /\ n \in 0..BlockSize
    BY <1>1, <1>2
  <2> HIDE DEF r, len1
  <2> QED
    BY <1>4, <1>5, <2>1
<1> HIDE DEF r, len1
<1>10. \A i \in 0..n - 1 : ~(i < len1) => (a + len1) + (i - len1) = a + i
  BY <1>1, <1>2
<1> QED
  BY <1>2, <1>4, <1>5, <1>6, <1>8, <1>9, <1>10 DEF r

-----------------------------------------------------------------------------
(* Every step keeps the invariant.                                         *)

\* Where an access may start.
LEMMA Reached ==
  ASSUME NEW seg \in Word, NEW ofs \in Word, NEW n \in 1..MaxLen
  PROVE  /\ seg * Para + ofs \in Addrs
         /\ seg * Para + ofs + n <= NBlocks * BlockSize
<1>1. seg * Para \in Nat /\ ofs \in Nat /\ MaxLen \in Nat
  BY SizeAssumption, ReachAssumption
<1>2. seg * Para + ofs + MaxLen <= NBlocks * BlockSize
  BY ReachAssumption
<1>3. NBlocks * BlockSize \in Nat
  BY SizeAssumption
<1> QED
  BY <1>1, <1>2, <1>3 DEF Addrs

\* The reference of a refused range has the type of one, and no bytes.
LEMMA NoRefFits ==
  /\ NoRef \in [r1 : Addrs, len1 : 0..BlockSize, r2 : Nat, at : Addrs, n : 0..BlockSize]
  /\ NoRef.n = 0 /\ NoRef.len1 = 0
<1>1. 0 \in Addrs
  <2>1. NBlocks * BlockSize \in Nat \ {0}
    BY SizeAssumption
  <2> QED
    BY <2>1 DEF Addrs
<1>2. 0 \in 0..BlockSize /\ 0 \in Nat
  BY SizeAssumption
<1> QED
  BY <1>1, <1>2 DEF NoRef

\* A refused range, or none asked for, promises nothing.
LEMMA NoRefExact ==
  ASSUME ref' = NoRef
  PROVE  RefExact'
<1>1. ref'.n = 0 /\ ref'.len1 = 0
  BY NoRefFits
<1> QED
  BY <1>1 DEF RefExact

\* Initially nothing was asked of memory.
LEMMA InitEstablishes == MemInit => MemInv
<1> SUFFICES ASSUME MemInit PROVE MemInv
  OBVIOUS
<1> USE DEF MemInit
<1>1. MemTypeOK
  <2>1. ref \in [r1 : Addrs, len1 : 0..BlockSize, r2 : Nat, at : Addrs, n : 0..BlockSize]
    BY NoRefFits
  <2>2. addr \in Addrs /\ start \in Addrs
    BY NoRefFits DEF NoRef
  <2>3. {len, pos, total} \subseteq 0..MaxLen
    BY SizeAssumption
  <2>4. buf \in [1..MaxLen -> Byte] /\ data \in [1..MaxLen -> Byte]
    BY DataAssumption
  <2>5. backed \subseteq Blocks /\ touched \in [Blocks -> SUBSET Bits]
    BY DataAssumption
  <2> QED
    BY <2>1, <2>2, <2>3, <2>4, <2>5 DEF MemTypeOK
<1>2. RefExact
  BY NoRefFits DEF RefExact
<1> QED
  BY <1>1, <1>2 DEF MemInv, Progress, FlatRead, FlatWrite

\* An access begins anywhere within reach.
LEMMA BeginKeeps ==
  ASSUME MemInv, NEW d \in {"read", "write"}, NEW seg \in Word, NEW ofs \in Word,
         NEW n \in 1..MaxLen, Begin(d, seg, ofs, n),
         data' \in [1..MaxLen -> Byte]
  PROVE  MemInv'
<1> DEFINE a == seg * Para + ofs
<1>1. a \in Addrs /\ a + n <= NBlocks * BlockSize
  BY Reached
<1> HIDE DEF a
<1>2. /\ dir' = d /\ last' = d /\ addr' = a /\ start' = a /\ len' = n /\ total' = n
      /\ pos' = 0 /\ head' = TRUE /\ res' = "none" /\ ref' = NoRef
      /\ store' = store /\ before' = store /\ buf' = data'
  BY DEF Begin, a
<1>3. MemTypeOK'
  <2>1. /\ backed' \subseteq Blocks /\ touched' \in [Blocks -> SUBSET Bits]
        /\ store' \in [Addrs -> Byte] /\ before' \in [Addrs -> Byte]
    BY DEF Begin, MemInv, MemTypeOK
  <2>2. data' \in [1..MaxLen -> Byte] /\ buf' \in [1..MaxLen -> Byte]
    BY <1>2
  <2>3. ref' \in [r1 : Addrs, len1 : 0..BlockSize, r2 : Nat, at : Addrs, n : 0..BlockSize]
    BY <1>2, NoRefFits
  <2>4. {len', pos', total'} \subseteq 0..MaxLen
    BY <1>2, SizeAssumption
  <2> QED
    BY <1>1, <1>2, <2>1, <2>2, <2>3, <2>4 DEF MemTypeOK
<1>4. Progress'
  BY <1>1, <1>2, SizeAssumption DEF Progress, Addrs
<1>5. FlatRead'
  BY <1>2 DEF FlatRead
<1>6. FlatWrite'
  <2>1. a \in Nat /\ \A b \in Addrs : b \notin a .. a + 0 - 1
    BY <1>1, InBlocks
  <2>2. store \in [Addrs -> Byte]
    BY DEF MemInv, MemTypeOK
  <2> QED
    BY <1>2, <2>1, <2>2 DEF FlatWrite
<1>7. RefExact'
  BY <1>2, NoRefExact
<1> QED
  BY <1>3, <1>4, <1>5, <1>6, <1>7 DEF MemInv

\* What is known of an access before its next piece of k bytes.
LEMMA PieceFacts ==
  ASSUME MemInv, dir # "idle"
  PROVE  LET k == Piece(addr, len, head) IN
         /\ k \in 1..len /\ At(addr, head) = addr
         /\ pos \in Nat /\ len \in Nat \ {0} /\ len + pos = total /\ total \in 0..MaxLen
         /\ addr = start + pos /\ addr \in Nat /\ start \in Nat
         /\ Block(addr) \in Blocks
         /\ Offset(addr) + k <= BlockSize
         /\ start + total <= NBlocks * BlockSize
         /\ k < len => addr + k \in Addrs /\ Offset(addr + k) = 0
         /\ pos = 0 \/ Offset(addr) = 0
<1> DEFINE k == Piece(addr, len, head)
<1>1. /\ pos \in Nat /\ len \in Nat \ {0} /\ len + pos = total /\ total \in 0..MaxLen
      /\ addr = start + pos /\ addr \in Addrs /\ start \in Addrs /\ head \in BOOLEAN
      /\ start + total <= NBlocks * BlockSize
      /\ head <=> pos = 0
      /\ ~head => Offset(addr) = 0
  BY SizeAssumption DEF MemInv, MemTypeOK, Progress
<1>2. addr \in Nat /\ start \in Nat /\ Block(addr) \in Blocks
  BY <1>1, InBlocks
<1>3. /\ k \in 1..len /\ Offset(addr) + k <= BlockSize /\ At(addr, head) = addr
      /\ k < len => Offset(addr + k) = 0
  BY <1>1, <1>2, PieceFits
<1> HIDE DEF k
<1>4. k < len => addr + k \in Addrs
  <2>1. NBlocks * BlockSize \in Nat
    BY SizeAssumption
  <2> QED
    BY <1>1, <1>2, <1>3, <2>1 DEF Addrs
<1> QED
  BY <1>1, <1>2, <1>3, <1>4 DEF k

\* The bookkeeping of a piece.
LEMMA AdvancedKeeps ==
  ASSUME MemInv, dir # "idle", Advanced(Piece(addr, len, head)),
         UNCHANGED <<last, start, total>>
  PROVE  /\ Progress'
         /\ dir' \in {"idle", "read", "write"} /\ addr' \in Addrs /\ head' \in BOOLEAN
         /\ {len', pos', total'} \subseteq 0..MaxLen
         /\ res' = "none" \/ (res' = "ok" /\ pos' = total')
         /\ pos' = pos + Piece(addr, len, head)
<1> DEFINE k == Piece(addr, len, head)
<1>0. last' = last /\ start' = start /\ total' = total
  OBVIOUS
<1>1. /\ k \in 1..len
      /\ pos \in Nat /\ len \in Nat \ {0} /\ len + pos = total /\ total \in 0..MaxLen
      /\ addr = start + pos /\ addr \in Nat /\ start \in Nat
      /\ start + total <= NBlocks * BlockSize
      /\ k < len => addr + k \in Addrs /\ Offset(addr + k) = 0
  BY PieceFacts
<1>2. /\ last = dir /\ res = "none" /\ dir \in {"idle", "read", "write"} /\ addr \in Addrs
  BY DEF MemInv, MemTypeOK, Progress
<1> HIDE DEF k
<1>3. /\ len' = len - k /\ pos' = pos + k /\ head' = FALSE
      /\ len' = 0 => dir' = "idle" /\ res' = "ok" /\ addr' = addr
      /\ len' # 0 => dir' = dir /\ res' = res /\ addr' = addr + k
  BY DEF Advanced, k
<1>4. CASE k = len
  <2>1. len' = 0 /\ pos' = total /\ dir' = "idle" /\ res' = "ok" /\ addr' = addr
    BY <1>1, <1>3, <1>4
  <2>2. Progress'
    BY <2>1 DEF Progress
  <2>3. {len', pos', total'} \subseteq 0..MaxLen
    BY <1>1, <2>1, <1>0, SizeAssumption
  <2> QED
    BY <1>0, <1>1, <1>2, <1>3, <2>1, <2>2, <2>3 DEF k
<1>5. CASE k < len
  <2>1. /\ len' \in Nat \ {0} /\ len' <= MaxLen /\ dir' = dir /\ res' = "none"
        /\ addr' = addr + k
        /\ pos' \in 1..MaxLen /\ len' + pos' = total /\ addr' = start + pos'
    BY <1>1, <1>2, <1>3, <1>5, SizeAssumption
  <2>2. addr' \in Addrs /\ Offset(addr') = 0
    BY <1>1, <1>5, <2>1
  <2>3. Progress'
    BY <1>1, <1>2, <1>3, <2>1, <2>2 DEF Progress, Offset
  <2>4. {len', pos', total'} \subseteq 0..MaxLen
    BY <1>0, <1>1, <2>1, SizeAssumption
  <2> QED
    BY <1>1, <1>2, <1>3, <2>1, <2>2, <2>3, <2>4 DEF k
<1> QED
  BY <1>1, <1>4, <1>5

\* A block is read, or the access fails there.
LEMMA ReadKeeps == MemInv /\ RME_Int_ReadBlockBytes => MemInv'
<1> SUFFICES ASSUME MemInv, RME_Int_ReadBlockBytes PROVE MemInv'
  OBVIOUS
<1> DEFINE k == Piece(addr, len, head)
<1>1. /\ dir = "read" /\ Mark(Block(addr), "read")
      /\ UNCHANGED <<backed, store, data, last, start, total, before, ref>>
  BY DEF RME_Int_ReadBlockBytes
<1>2. /\ k \in 1..len /\ At(addr, head) = addr
      /\ pos \in Nat /\ len \in Nat \ {0} /\ len + pos = total /\ total \in 0..MaxLen
      /\ addr = start + pos /\ addr \in Nat /\ start \in Nat
      /\ start + total <= NBlocks * BlockSize /\ Block(addr) \in Blocks
  BY <1>1, PieceFacts
<1>3. last = "read" /\ res = "none"
  BY <1>1 DEF MemInv, Progress
<1>4. /\ touched' \in [Blocks -> SUBSET Bits] /\ backed' \subseteq Blocks
      /\ store' \in [Addrs -> Byte] /\ before' \in [Addrs -> Byte]
      /\ data' \in [1..MaxLen -> Byte] /\ last' \in {"none", "read", "write"}
      /\ start' \in Addrs
      /\ ref' \in [r1 : Addrs, len1 : 0..BlockSize, r2 : Nat, at : Addrs, n : 0..BlockSize]
  BY <1>1, <1>2 DEF MemInv, MemTypeOK, Mark, Bits
<1>5. RefExact'
  BY <1>1 DEF MemInv, RefExact, Block
<1>6. FlatWrite'
  BY <1>1, <1>3 DEF FlatWrite
<1>7. CASE /\ buf' = [i \in 1..MaxLen |->
                        IF i \in pos + 1 .. pos + k
                        THEN store[addr + (i - pos) - 1] ELSE buf[i]]
           /\ Advanced(k)
  <2>1. /\ Progress'
        /\ dir' \in {"idle", "read", "write"} /\ addr' \in Addrs /\ head' \in BOOLEAN
        /\ {len', pos', total'} \subseteq 0..MaxLen
        /\ res' = "none" \/ (res' = "ok" /\ pos' = total')
        /\ pos' = pos + k
    BY <1>1, <1>7, AdvancedKeeps
  <2>2. pos + k <= MaxLen /\ k \in Nat /\ pos + k <= total
    BY <1>2, SizeAssumption
  <2>3. \A i \in 1..MaxLen : i \in pos + 1 .. pos + k =>
          /\ addr + (i - pos) - 1 \in Addrs
          /\ addr + (i - pos) - 1 = start + i - 1
    <3> HIDE DEF k
    <3>1. NBlocks * BlockSize \in Nat
      BY SizeAssumption
    <3> QED
      BY <1>2, <2>2, <3>1 DEF Addrs
  <2>4. buf' \in [1..MaxLen -> Byte]
    <3> HIDE DEF k
    <3>1. store \in [Addrs -> Byte] /\ buf \in [1..MaxLen -> Byte]
      BY DEF MemInv, MemTypeOK
    <3> QED
      BY <1>7, <2>3, <3>1
  <2>5. \A i \in 1..pos' : buf'[i] = store'[start' + i - 1]
    <3> HIDE DEF k
    <3> TAKE i \in 1..pos'
    <3>1. i \in 1..MaxLen /\ i \in 1..pos + k
      <4>1. i \in 1..pos + k
        BY <2>1
      <4> QED
        BY <1>2, <2>2, <4>1, SizeAssumption
    <3>2. CASE i \in pos + 1 .. pos + k
      BY <1>1, <1>7, <2>3, <3>1, <3>2
    <3>3. CASE i \in 1..pos
      <4>1. buf[i] = store[start + i - 1]
        BY <1>3, <3>3 DEF MemInv, FlatRead
      <4>2. i \notin pos + 1 .. pos + k
        BY <1>2, <3>3
      <4> QED
        BY <1>1, <1>7, <3>1, <4>1, <4>2
    <3> QED
      BY <1>2, <2>2, <3>1, <3>2, <3>3
  <2>6. FlatRead'
    BY <2>1, <2>5 DEF FlatRead
  <2>7. MemTypeOK'
    BY <1>4, <2>1, <2>4 DEF MemTypeOK
  <2> QED
    BY <1>5, <1>6, <2>1, <2>6, <2>7 DEF MemInv
<1>8. CASE Failed /\ UNCHANGED buf
  <2>1. /\ dir' = "idle" /\ res' = "badmem"
        /\ UNCHANGED <<addr, len, pos, head, buf, store, last, start, total, data>>
    BY <1>1, <1>8 DEF Failed
  <2>2. MemTypeOK'
    BY <1>4, <2>1 DEF MemInv, MemTypeOK
  <2>3. Progress' /\ FlatRead'
    BY <2>1 DEF Progress, FlatRead, MemInv
  <2> QED
    BY <1>5, <1>6, <2>2, <2>3 DEF MemInv
<1> QED
  BY <1>2, <1>7, <1>8 DEF RME_Int_ReadBlockBytes

\* A block is written, or the access fails there.
LEMMA WriteKeeps == MemInv /\ RME_Int_WriteBlockBytes => MemInv'
<1> SUFFICES ASSUME MemInv, RME_Int_WriteBlockBytes PROVE MemInv'
  OBVIOUS
<1> DEFINE k == Piece(addr, len, head)
<1>1. /\ dir = "write" /\ Mark(Block(addr), "written")
      /\ UNCHANGED <<backed, buf, data, last, start, total, before, ref>>
  BY DEF RME_Int_WriteBlockBytes
<1>2. /\ k \in 1..len /\ At(addr, head) = addr
      /\ pos \in Nat /\ len \in Nat \ {0} /\ len + pos = total /\ total \in 0..MaxLen
      /\ addr = start + pos /\ addr \in Nat /\ start \in Nat
      /\ Block(addr) \in Blocks /\ (pos = 0 \/ Offset(addr) = 0)
  BY <1>1, PieceFacts
<1>3. last = "write" /\ res = "none"
  BY <1>1 DEF MemInv, Progress
<1>4. /\ touched' \in [Blocks -> SUBSET Bits] /\ backed' \subseteq Blocks
      /\ before' \in [Addrs -> Byte] /\ buf' \in [1..MaxLen -> Byte]
      /\ data' \in [1..MaxLen -> Byte] /\ last' \in {"none", "read", "write"}
      /\ start' \in Addrs
      /\ ref' \in [r1 : Addrs, len1 : 0..BlockSize, r2 : Nat, at : Addrs, n : 0..BlockSize]
  BY <1>1, <1>2 DEF MemInv, MemTypeOK, Mark, Bits
<1>5. RefExact'
  BY <1>1 DEF MemInv, RefExact, Block
<1>6. FlatRead'
  BY <1>1, <1>3 DEF FlatRead
<1>7. /\ store \in [Addrs -> Byte] /\ data \in [1..MaxLen -> Byte]
      /\ store = [b \in Addrs |-> IF b \in start .. start + pos - 1
                                  THEN data[b - start + 1] ELSE before[b]]
  BY <1>3 DEF MemInv, MemTypeOK, FlatWrite
<1>8. CASE /\ store' = [b \in Addrs |-> IF b \in addr .. addr + k - 1
                                        THEN data[pos + (b - addr) + 1] ELSE store[b]]
           /\ Advanced(k)
  <2>1. /\ Progress'
        /\ dir' \in {"idle", "read", "write"} /\ addr' \in Addrs /\ head' \in BOOLEAN
        /\ {len', pos', total'} \subseteq 0..MaxLen
        /\ res' = "none" \/ (res' = "ok" /\ pos' = total')
        /\ pos' = pos + k
    BY <1>1, <1>8, AdvancedKeeps
  <2>2. k \in Nat /\ pos + k <= total /\ pos + k <= MaxLen
    BY <1>2, SizeAssumption
  <2> HIDE DEF k
  <2>3. \A b \in Addrs : b \in addr .. addr + k - 1 =>
          /\ pos + (b - addr) + 1 \in 1..MaxLen
          /\ pos + (b - addr) + 1 = b - start + 1
    BY <1>2, <2>2, InBlocks, SizeAssumption
  <2>4. store' \in [Addrs -> Byte]
    BY <1>7, <1>8, <2>3
  <2>5. store' = [b \in Addrs |-> IF b \in start .. start + (pos + k) - 1
                                 THEN data[b - start + 1] ELSE before[b]]
    <3>1. ASSUME NEW b \in Addrs
          PROVE  store'[b] = IF b \in start .. start + (pos + k) - 1
                             THEN data[b - start + 1] ELSE before[b]
      <4>1. b \in Nat
        BY InBlocks
      <4>2. CASE b \in addr .. addr + k - 1
        <5>1. b \in start .. start + (pos + k) - 1
          BY <1>2, <2>2, <4>1, <4>2
        <5> QED
          BY <1>8, <2>3, <4>2, <5>1
      <4>3. CASE b \notin addr .. addr + k - 1
        <5>1. b \in start .. start + (pos + k) - 1 <=> b \in start .. start + pos - 1
          BY <1>2, <2>2, <4>1, <4>3
        <5>2. store'[b] = store[b]
          BY <1>8, <4>3
        <5> QED
          BY <1>7, <5>1, <5>2
      <4> QED
        BY <4>2, <4>3
    <3> QED
      BY <2>4, <3>1
  <2>6. FlatWrite'
    BY <1>1, <2>1, <2>5 DEF FlatWrite
  <2>7. MemTypeOK'
    BY <1>4, <2>1, <2>4 DEF MemTypeOK
  <2> QED
    BY <1>5, <1>6, <2>1, <2>6, <2>7 DEF MemInv
<1>9. CASE Block(addr) \notin backed /\ Failed /\ UNCHANGED store
  <2>1. /\ dir' = "idle" /\ res' = "badmem" /\ Block(start + pos) \notin backed
        /\ pos = 0 \/ Offset(start + pos) = 0
        /\ UNCHANGED <<addr, len, pos, head, store, backed, before, last, start, total, data>>
    BY <1>1, <1>2, <1>9 DEF Failed
  <2>2. MemTypeOK'
    BY <1>4, <2>1 DEF MemInv, MemTypeOK
  <2>3. Progress'
    BY <2>1 DEF Progress
  <2>4. FlatWrite'
    BY <1>7, <2>1 DEF FlatWrite, Block, Offset
  <2> QED
    BY <1>5, <1>6, <2>2, <2>3, <2>4 DEF MemInv
<1> QED
  BY <1>2, <1>8, <1>9 DEF RME_Int_WriteBlockBytes

\* A callback is given pointers, or an error.
LEMMA GetPtrKeeps ==
  ASSUME MemInv, NEW seg \in Word, NEW ofs \in Word, NEW n \in 1..MaxPtr,
         RME_GetPtr(seg, ofs, n)
  PROVE  MemInv'
<1> DEFINE a == seg * Para + ofs
<1> DEFINE ends == {Block(a), Block(a + n - 1)}
<1>1. UNCHANGED <<backed, store, dir, addr, len, pos, head, buf, data, res,
                  last, start, total, before>>
  BY DEF RME_GetPtr
<1>2. a \in Addrs
  BY Reached, SizeAssumption
<1>3. /\ touched' \in [Blocks -> SUBSET Bits]
      /\ ref' = RefTo(a, n) \/ ref' = NoRef
  BY DEF RME_GetPtr, MemInv, MemTypeOK, Bits
<1>4. /\ ref' \in [r1 : Addrs, len1 : 0..BlockSize, r2 : Nat, at : Addrs, n : 0..BlockSize]
      /\ RefExact'
  <2> HIDE DEF a
  <2>1. CASE ref' = RefTo(a, n)
    <3> DEFINE r == RefTo(a, n)
    <3>1. /\ r \in [r1 : Addrs, len1 : 0..BlockSize, r2 : Nat, at : Addrs, n : 0..BlockSize]
          /\ r.len1 <= r.n
          /\ \A i \in 0..r.n - 1 :
               IF i < r.len1
               THEN r.r1 + i = r.at + i /\ Block(r.r1 + i) = Block(r.r1)
               ELSE /\ r.r2 + (i - r.len1) = r.at + i
                    /\ Block(r.at + i) = Block(r.at + r.n - 1)
      BY <1>2, RefToExact
    <3> HIDE DEF r
    <3>2. ref' = r
      BY <2>1 DEF r
    <3> QED
      BY <3>1, <3>2 DEF RefExact, Block
  <2>2. CASE ref' = NoRef
    BY <2>2, NoRefFits, NoRefExact
  <2> QED
    BY <1>3, <2>1, <2>2
<1>5. MemTypeOK'
  BY <1>1, <1>3, <1>4 DEF MemInv, MemTypeOK
<1>6. Progress' /\ FlatRead' /\ FlatWrite'
  BY <1>1 DEF MemInv, Progress, FlatRead, FlatWrite, Block, Offset
<1> QED
  BY <1>4, <1>5, <1>6 DEF MemInv

\* Every step of memory keeps the invariant.
LEMMA NextKeeps == MemInv /\ [MemNext]_memVars => MemInv'
<1> SUFFICES ASSUME MemInv, [MemNext]_memVars PROVE MemInv'
  OBVIOUS
<1>1. CASE Access
  <2>1. ASSUME NEW seg \in Word, NEW ofs \in Word, NEW n \in 1..MaxLen,
               RME_Int_ReadBytes(seg, ofs, n)
        PROVE  MemInv'
    <3>1. data' = data /\ Begin("read", seg, ofs, n)
      BY <2>1 DEF RME_Int_ReadBytes
    <3>2. data' \in [1..MaxLen -> Byte]
      BY <3>1 DEF MemInv, MemTypeOK
    <3> QED
      BY <3>1, <3>2, BeginKeeps
  <2>2. ASSUME NEW seg \in Word, NEW ofs \in Word, NEW n \in 1..MaxLen,
               NEW src \in Data, RME_Int_WriteBytes(seg, ofs, n, src)
        PROVE  MemInv'
    BY <2>2, BeginKeeps, DataAssumption DEF RME_Int_WriteBytes
  <2> QED
    BY <1>1, <2>1, <2>2, GetPtrKeeps DEF Access
<1>2. CASE BlockAccess
  BY <1>2, ReadKeeps, WriteKeeps DEF BlockAccess
<1>3. CASE UNCHANGED memVars
  BY <1>3 DEF memVars, MemInv, MemTypeOK, Progress, FlatRead, FlatWrite, RefExact,
              Block, Offset
<1> QED
  BY <1>1, <1>2, <1>3 DEF MemNext

\* The inductive invariant bounds the next piece.
LEMMA InvBounds == MemInv => BlockBounds
<1> SUFFICES ASSUME MemInv, dir # "idle" PROVE BlockBounds
  BY DEF BlockBounds
<1> DEFINE k == Piece(addr, len, head)
<1>1. /\ k \in 1..len /\ At(addr, head) = addr /\ addr \in Nat
      /\ Block(addr) \in Blocks /\ Offset(addr) + k <= BlockSize
  BY PieceFacts
<1>2. addr = BlockSize * Block(addr) + Offset(addr) /\ Block(addr) \in Nat
      /\ Offset(addr) \in Nat
  BY <1>1, DivMod
<1>3. BlockSize * Block(addr) \in Nat
      /\ Block(addr) * BlockSize = BlockSize * Block(addr)
  BY <1>2, SizeAssumption
<1> HIDE DEF k
<1>4. addr - Block(addr) * BlockSize + k <= BlockSize
  BY <1>1, <1>2, <1>3, SizeAssumption
<1> QED
  BY <1>1, <1>4 DEF BlockBounds, k

-----------------------------------------------------------------------------
(* The theorems.                                                           *)

\* The inductive invariant: besides the properties, where an access under way
\* stands.
THEOREM MemInvariance == MemSpec => []MemInv
BY InitEstablishes, NextKeeps, PTL DEF MemSpec

\* Memory's variables keep their types.
THEOREM MemTypeCorrect == MemSpec => []MemTypeOK
<1>1. MemInv => MemTypeOK
  BY DEF MemInv
<1> QED
  BY <1>1, MemInvariance, PTL

\* The assertions of RME_Int_ReadBlockBytes and RME_Int_WriteBlockBytes never
\* fail and the block they are given exists.
THEOREM AccessesStayInBlocks == MemSpec => []BlockBounds
BY InvBounds, MemInvariance, PTL

\* However an access is cut into blocks, it reads what a flat memory holds.
THEOREM ReadsAreFlat == MemSpec => []FlatRead
<1>1. MemInv => FlatRead
  BY DEF MemInv
<1> QED
  BY <1>1, MemInvariance, PTL

\* ... and writes what it was asked to write and nothing else.
THEOREM WritesAreFlat == MemSpec => []FlatWrite
<1>1. MemInv => FlatWrite
  BY DEF MemInv
<1> QED
  BY <1>1, MemInvariance, PTL

\* The two ranges of a tRME_MemRef are the range asked for.
THEOREM RangesAreExact == MemSpec => []RefExact
<1>1. MemInv => RefExact
  BY DEF MemInv
<1> QED
  BY <1>1, MemInvariance, PTL

-----------------------------------------------------------------------------
(* The main loop.                                                          *)

\* The inductive invariant: memory's, and the property itself.  The types of
\* the loop's own variables are not needed, but hold with it.
LoopInv == MemInv /\ TypeOK /\ ChangesAreFlagged

\* A callback's write leaves memory with no access under way.
LEMMA ForgottenKeeps ==
  ASSUME MemInv, Forgotten, UNCHANGED backed,
         store' \in [Addrs -> Byte], touched' \in [Blocks -> SUBSET Bits]
  PROVE  MemInv'
<1>1. /\ backed' = backed /\ dir' = "idle" /\ addr' = 0 /\ len' = 0 /\ pos' = 0
      /\ head' = FALSE /\ data' = data /\ buf' = data /\ res' = "none"
      /\ last' = "none" /\ start' = 0 /\ total' = 0 /\ before' = store'
      /\ ref' = NoRef
  BY DEF Forgotten
<1>2. 0 \in Addrs /\ 0 \in 0..MaxLen
  <2>1. 0 < NBlocks * BlockSize /\ NBlocks * BlockSize \in Nat
    BY SizeAssumption
  <2> QED
    BY <2>1, SizeAssumption DEF Addrs
<1>3. MemTypeOK'
  BY <1>1, <1>2, NoRefFits DEF MemInv, MemTypeOK
<1>4. Progress' /\ FlatRead' /\ FlatWrite'
  BY <1>1 DEF Progress, FlatRead, FlatWrite
<1> QED
  BY <1>1, <1>3, <1>4, NoRefExact DEF MemInv

\* One call of RME_Int_WriteBlockBytes writes inside the block it flags.
LEMMA WritesWhereFlagged ==
  ASSUME MemInv, RME_Int_WriteBlockBytes, NEW a \in Addrs, store'[a] # store[a]
  PROVE  Block(a) = Block(addr)
<1> DEFINE k == Piece(addr, len, head)
<1>1. /\ k \in 1..len /\ At(addr, head) = addr /\ addr \in Nat /\ len \in Nat \ {0}
      /\ Offset(addr) + k <= BlockSize
  <2>1. dir # "idle"
    BY DEF RME_Int_WriteBlockBytes
  <2> QED
    BY <2>1, PieceFacts
<1> HIDE DEF k
<1>2. a \in addr .. addr + k - 1
  BY <1>1 DEF RME_Int_WriteBlockBytes, k
<1>3. a \in Nat /\ k \in Nat /\ addr <= a /\ a <= addr + k - 1
  BY <1>1, <1>2, InBlocks
<1>4. Offset(addr) \in 0..BlockSize - 1
  BY <1>1, DivMod
<1>5. a - addr \in Nat /\ Offset(addr) + (a - addr) < BlockSize /\ addr + (a - addr) = a
  BY <1>1, <1>3, <1>4, SizeAssumption
<1> QED
  BY <1>1, <1>5, SameBlock

\* No step of memory unsets a flag; only the loop does.
LEMMA FlagsStay ==
  ASSUME MemInv, MemNext, NEW b \in Blocks, touched[b] # {}
  PROVE  touched'[b] # {}
<1>1. touched \in [Blocks -> SUBSET Bits]
  BY DEF MemInv, MemTypeOK
<1>2. ASSUME NEW c, NEW how, Mark(c, how) PROVE touched'[b] # {}
  BY <1>1, <1>2 DEF Mark
<1>3. CASE BlockAccess
  BY <1>2, <1>3 DEF BlockAccess, RME_Int_ReadBlockBytes, RME_Int_WriteBlockBytes
<1>4. CASE Access
  <2>1. ASSUME NEW seg \in Word, NEW ofs \in Word, NEW n \in 1..MaxPtr,
               RME_GetPtr(seg, ofs, n)
        PROVE  touched'[b] # {}
    BY <1>1, <2>1 DEF RME_GetPtr
  <2>2. CASE UNCHANGED touched
    BY <2>2
  <2> QED
    BY <1>4, <2>1, <2>2 DEF Access, RME_Int_ReadBytes, RME_Int_WriteBytes, Begin
<1> QED
  BY <1>3, <1>4 DEF MemNext

\* Whatever memory does under an instruction keeps the property.
LEMMA MemoryKeepsFlagged ==
  ASSUME LoopInv, MemNext, UNCHANGED <<saved, direct>>
  PROVE  ChangesAreFlagged'
<1> SUFFICES ASSUME Diffing, NEW a \in Addrs, saved[a] # store'[a], a \notin direct
             PROVE  touched'[Block(a)] # {}
  BY DEF ChangesAreFlagged
<1>1. Block(a) \in Blocks
  BY InBlocks
<1>2. CASE store'[a] = store[a]
  <2>1. touched[Block(a)] # {}
    BY <1>2 DEF LoopInv, ChangesAreFlagged
  <2> QED
    BY <1>1, <2>1, FlagsStay DEF LoopInv
<1>3. CASE store'[a] # store[a]
  <2>1. RME_Int_WriteBlockBytes
    BY <1>3 DEF MemNext, Access, BlockAccess, RME_Int_ReadBytes, RME_Int_WriteBytes,
                Begin, RME_GetPtr, RME_Int_ReadBlockBytes
  <2>2. Block(a) = Block(addr)
    BY <1>3, <2>1, WritesWhereFlagged DEF LoopInv
  <2>3. touched \in [Blocks -> SUBSET Bits]
    BY DEF LoopInv, MemInv, MemTypeOK
  <2> QED
    BY <1>1, <2>1, <2>2, <2>3 DEF RME_Int_WriteBlockBytes, Mark
<1> QED
  BY <1>2, <1>3

-----------------------------------------------------------------------------

\* The saved copy is made when nothing has been touched.
LEMMA LoopStarts == Init => LoopInv
<1> SUFFICES ASSUME Init PROVE LoopInv
  OBVIOUS
<1>1. MemInv
  BY InitEstablishes DEF Init
<1>2. TypeOK
  BY <1>1, LoopAssumption DEF Init, TypeOK, MemInv, MemTypeOK
<1>3. ChangesAreFlagged
  BY DEF Init, ChangesAreFlagged
<1> QED
  BY <1>1, <1>2, <1>3 DEF LoopInv

\* The invariant is preserved, action by action.
LEMMA LoopStep == LoopInv /\ [Next]_vars => LoopInv'
<1> SUFFICES ASSUME LoopInv, [Next]_vars PROVE LoopInv'
  OBVIOUS
<1>0. /\ MemInv /\ TypeOK /\ ChangesAreFlagged
      /\ looping \in BOOLEAN /\ used \in 0..MaxAccesses
      /\ saved \in [Addrs -> Byte] /\ direct \subseteq Addrs
      /\ store \in [Addrs -> Byte] /\ touched \in [Blocks -> SUBSET Bits]
  BY DEF LoopInv, TypeOK, MemInv, MemTypeOK
<1>1. CASE InstructionAccess
  <2>1. MemNext /\ used' = used + 1 /\ used < MaxAccesses
        /\ UNCHANGED <<looping, saved, direct>>
    BY <1>1 DEF InstructionAccess, MemNext
  <2>2. MemInv'
    BY <1>0, <2>1, NextKeeps
  <2>3. ChangesAreFlagged'
    BY <2>1, MemoryKeepsFlagged
  <2>4. TypeOK'
    BY <1>0, <2>1, <2>2, LoopAssumption DEF TypeOK, MemInv
  <2> QED
    BY <2>2, <2>3, <2>4 DEF LoopInv
<1>2. CASE InstructionBlockAccess
  <2>1. MemNext /\ UNCHANGED loopVars
    BY <1>2 DEF InstructionBlockAccess, MemNext
  <2>2. MemInv'
    BY <1>0, <2>1, NextKeeps
  <2>3. ChangesAreFlagged'
    BY <2>1, MemoryKeepsFlagged DEF loopVars
  <2>4. TypeOK'
    BY <1>0, <2>1, <2>2 DEF TypeOK, MemInv, loopVars
  <2> QED
    BY <2>2, <2>3, <2>4 DEF LoopInv
<1>3. ASSUME NEW a \in Direct, NEW v \in Byte, CallbackWrites(a, v)
      PROVE  LoopInv'
  <2>1. /\ store' = [store EXCEPT ![a] = v] /\ Forgotten
        /\ direct' = direct \cup {a} /\ used' = used + 1 /\ used < MaxAccesses
        /\ UNCHANGED <<backed, touched, looping, saved>>
    BY <1>3 DEF CallbackWrites
  <2>2. a \in Addrs
    BY LoopAssumption
  <2>3. MemInv'
    BY <1>0, <2>1, <2>2, ForgottenKeeps
  <2>4. TypeOK'
    BY <1>0, <2>1, <2>2, <2>3, LoopAssumption DEF TypeOK, MemInv
  <2>5. ChangesAreFlagged'
    BY <1>0, <2>1 DEF ChangesAreFlagged
  <2> QED
    BY <2>3, <2>4, <2>5 DEF LoopInv
<1>4. CASE NextInstruction
  <2>1. /\ touched' = [b \in Blocks |-> {}] /\ used' = 0
        /\ UNCHANGED <<backed, store, looping>> /\ Forgotten
    BY <1>4 DEF NextInstruction
  <2>2. MemInv'
    BY <1>0, <2>1, ForgottenKeeps
  <2>3. saved' \in [Addrs -> Byte] /\ direct' \subseteq Addrs
    BY <1>0, <1>4 DEF NextInstruction
  <2>4. TypeOK'
    BY <1>0, <2>1, <2>2, <2>3, LoopAssumption DEF TypeOK, MemInv
  <2>5. ChangesAreFlagged'
    <3> SUFFICES ASSUME Diffing, NEW a \in Addrs, saved'[a] # store[a]
                 PROVE  a \in direct'
      BY <2>1 DEF ChangesAreFlagged
    <3>1. /\ saved'[a] = IF Block(a) \in Compared THEN store[a] ELSE saved[a]
          /\ direct' = {c \in direct : Block(c) \notin Compared}
      BY <1>4 DEF NextInstruction
    <3>2. Block(a) \notin Compared /\ saved[a] # store[a]
      BY <3>1
    <3>3. touched[Block(a)] = {}
      BY <3>2, InBlocks DEF Compared
    <3> QED
      BY <1>0, <3>1, <3>2, <3>3 DEF ChangesAreFlagged
  <2> QED
    BY <2>2, <2>4, <2>5 DEF LoopInv
<1>5. CASE EmulatorStops \/ UNCHANGED vars
  <2>1. UNCHANGED <<memVars, used, saved, direct>> /\ looping' \in BOOLEAN
    BY <1>0, <1>5 DEF EmulatorStops, vars, loopVars
  <2>2. MemInv'
    BY <1>0, <2>1, NextKeeps
  <2>3. TypeOK' /\ ChangesAreFlagged'
    BY <1>0, <2>1, <2>2 DEF TypeOK, ChangesAreFlagged, MemInv, memVars
  <2> QED
    BY <2>2, <2>3 DEF LoopInv
<1> QED
  BY <1>1, <1>2, <1>3, <1>4, <1>5 DEF Next

\* Memory's invariant holds under the main loop too, callbacks included.
THEOREM LoopInvariance == Spec => []LoopInv
BY LoopStarts, LoopStep, PTL DEF Spec

\* The comparison of main.c finds every change the guest has made since the
\* last one.
THEOREM NoChangeEscapes == Spec => []ChangesAreFlagged
<1>1. LoopInv => ChangesAreFlagged
  BY DEF LoopInv
<1> QED
  BY <1>1, LoopInvariance, PTL

\* Under the main loop memory's variables keep their types.
THEOREM LoopTypeCorrect == Spec => []TypeOK
<1>1. LoopInv => TypeOK
  BY DEF LoopInv
<1> QED
  BY <1>1, LoopInvariance, PTL
=============================================================================
