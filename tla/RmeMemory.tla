----------------------------- MODULE RmeMemory -----------------------------
(***************************************************************************)
(* Guest memory as the instructions see it: RME_Int_ReadBytes and          *)
(* RME_Int_WriteBytes, which cut an access at the boundaries of the blocks *)
(* of State->Memory, and RME_GetPtr, which gives a host callback pointers  *)
(* to the one or two blocks behind a range.  A block has memory, or is     *)
(* served by the Read and Write callbacks, or fails; every access leaves   *)
(* its mark in State->MemoryTouched.                                       *)
(*                                                                         *)
(* One step is one call of RME_Int_ReadBlockBytes or WriteBlockBytes, so   *)
(* that an access is seen between two blocks.  What memory promises is a   *)
(* flat array of bytes: `before', `start', `total' and `data' remember     *)
(* what was asked of it, and FlatRead, FlatWrite compare.                  *)
(***************************************************************************)
EXTENDS Integers, FiniteSets

CONSTANTS
  Byte,             \* the values of a byte
  BlockSize,        \* RME_BLOCK_SIZE
  NBlocks,          \* entries of State->Memory
  Para,             \* bytes between two segments (16)
  Word,             \* the values of a segment or an offset, 0 .. MaxWord
  MaxLen,           \* the longest access
  MaxPtr,           \* the longest range asked of RME_GetPtr
  Data,             \* what is written: sequences of MaxLen bytes
  Backings,         \* the sets of blocks that may have memory
  HasRead, HasWrite \* whether the host gives Read and Write callbacks

Blocks == 0 .. NBlocks - 1
Addrs == 0 .. NBlocks * BlockSize - 1

ASSUME SizeAssumption ==
  /\ BlockSize \in Nat \ {0} /\ NBlocks \in Nat \ {0}
  /\ Para \in Nat \ {0} /\ MaxLen \in Nat \ {0}
  /\ MaxPtr \in 1..BlockSize
  /\ HasRead \in BOOLEAN /\ HasWrite \in BOOLEAN
ASSUME DataAssumption ==
  /\ Data \subseteq [1..MaxLen -> Byte] /\ Backings \subseteq SUBSET Blocks
\* The last byte any segment:offset reaches, 0x10FFEF + MaxLen - 1 in the
\* code, lies below 0x110000.
ASSUME ReachAssumption ==
  /\ Word \subseteq Nat
  /\ \A s, o \in Word : s * Para + o + MaxLen <= NBlocks * BlockSize

VARIABLES
  backed,   \* the blocks b with State->Memory[b] # NULL
  store,    \* the bytes: of the host's memory, or behind the callbacks
  touched,  \* State->MemoryTouched[b], as a set of names for its bits
  dir,      \* the access under way: "idle", "read" or "write"
  addr, len, pos, head, \* its `addr', `Len', progress of Dst or Src, and
                        \* whether its first block is still to come
  buf,      \* Dst
  data,     \* Src
  res,      \* what the last access returned: "ok", "badmem", "none" so far
  last, start, total, before, \* history: the access asked for, and store
            \* before it; last is "none" once the host has changed memory
  ref       \* the last tRME_MemRef, and history: the range it was asked for

memVars == <<backed, store, touched, dir, addr, len, pos, head, buf, data,
             res, last, start, total, before, ref>>

NoRef == [r1 |-> 0, len1 |-> 0, r2 |-> 0, at |-> 0, n |-> 0]

Block(a) == a \div BlockSize
Offset(a) == a % BlockSize

MemInit ==
  /\ backed \in Backings
  /\ \E b \in Byte : store = [a \in Addrs |-> b]
  /\ touched = [b \in Blocks |-> {}]
  /\ dir = "idle" /\ addr = 0 /\ len = 0 /\ pos = 0 /\ head = FALSE
  /\ data \in Data /\ buf = data
  /\ res = "none" /\ last = "none" /\ start = 0 /\ total = 0 /\ before = store
  /\ ref = NoRef

\* The locals of the last access are gone, and the history of it with them.
Forgotten ==
  /\ dir' = "idle" /\ addr' = 0 /\ len' = 0 /\ pos' = 0 /\ head' = FALSE
  /\ data' = data /\ buf' = data
  /\ res' = "none" /\ last' = "none" /\ start' = 0 /\ total' = 0 /\ before' = store'
  /\ ref' = NoRef

-----------------------------------------------------------------------------
(* Accesses by the instructions.                                           *)

\* Mutant: an access that fits a block is never cut.
OneBlockIfFits(a, n) == n <= BlockSize

\* Are the first and last bytes in the same block?
OneBlock(a, n) == n = 1 \/ Block(a) = Block(a + n - 1)

\* Mutant: every piece after the first is a whole block.
PieceWholeBlock(a, n, first) ==
  IF first /\ OneBlock(a, n) THEN n ELSE BlockSize - (IF first THEN Offset(a) ELSE 0)

\* The bytes of the next piece.
Piece(a, n, first) ==
  IF first
  THEN IF OneBlock(a, n) THEN n ELSE BlockSize - Offset(a)
  ELSE IF n < BlockSize THEN n ELSE BlockSize

\* Where the next piece lies: in the loop every block starts at offset 0.
At(a, first) == IF first THEN a ELSE Block(a) * BlockSize

\* RME_Int_ReadBytes and RME_Int_WriteBytes up to the first block.  Nothing
\* happens when Len is 0.  What Dst held before is the caller's; it matters not.
Begin(d, seg, ofs, n) ==
  /\ dir = "idle" /\ n > 0
  /\ dir' = d /\ addr' = seg * Para + ofs /\ len' = n /\ pos' = 0 /\ head' = TRUE
  /\ last' = d /\ start' = addr' /\ total' = n /\ before' = store /\ res' = "none"
  /\ buf' = data' /\ ref' = NoRef
  /\ UNCHANGED <<backed, store, touched>>
RME_Int_ReadBytes(seg, ofs, n) ==
  UNCHANGED data /\ Begin("read", seg, ofs, n)
RME_Int_WriteBytes(seg, ofs, n, src) ==
  data' = src /\ Begin("write", seg, ofs, n)

\* Mutant: Dst and Src stay where they are.
AdvancedAddrOnly(k) ==
  /\ len' = len - k /\ head' = FALSE
  /\ IF len' = 0
     THEN dir' = "idle" /\ res' = "ok" /\ addr' = addr /\ pos' = pos + k
     ELSE dir' = dir /\ res' = res /\ addr' = addr + k /\ pos' = pos

\* k bytes are done, and the access with them or its loop goes on.
Advanced(k) ==
  /\ len' = len - k /\ pos' = pos + k /\ head' = FALSE
  /\ IF len' = 0
     THEN dir' = "idle" /\ res' = "ok" /\ addr' = addr
     ELSE dir' = dir /\ res' = res /\ addr' = addr + k

\* The access ends where it is.
Failed == dir' = "idle" /\ res' = "badmem" /\ UNCHANGED <<addr, len, pos, head>>

Mark(b, how) == touched' = [touched EXCEPT ![b] = @ \cup {"accessed", how}]

RME_Int_ReadBlockBytes ==
  LET k == Piece(addr, len, head)
      at == At(addr, head) IN
  /\ dir = "read"
  /\ Mark(Block(addr), "read")
  /\ \/ /\ Block(addr) \in backed \/ HasRead
        /\ buf' = [i \in 1..MaxLen |->
                     IF i \in pos + 1 .. pos + k THEN store[at + (i - pos) - 1]
                                               ELSE buf[i]]
        /\ Advanced(k)
     \/ Block(addr) \notin backed /\ Failed /\ UNCHANGED buf
  /\ UNCHANGED <<backed, store, data, last, start, total, before, ref>>

RME_Int_WriteBlockBytes ==
  LET k == Piece(addr, len, head)
      at == At(addr, head) IN
  /\ dir = "write"
  /\ Mark(Block(addr), "written")
  /\ \/ /\ Block(addr) \in backed \/ HasWrite
        /\ store' = [a \in Addrs |-> IF a \in at .. at + k - 1
                                     THEN data[pos + (a - at) + 1] ELSE store[a]]
        /\ Advanced(k)
     \/ Block(addr) \notin backed /\ Failed /\ UNCHANGED store
  /\ UNCHANGED <<backed, buf, data, last, start, total, before, ref>>

-----------------------------------------------------------------------------
(* Pointers for the host's callbacks.                                      *)

\* Mutant: range_2 points at the last byte instead of past it.
RefTailShort(a, n) ==
  LET space == BlockSize - Offset(a)
      len1 == IF space < n THEN space ELSE n
      final == a + n - 1 IN
  [r1 |-> a, len1 |-> len1,
   r2 |-> Block(final) * BlockSize + Offset(final) - (n - len1),
   at |-> a, n |-> n]

\* The two ranges behind n bytes at a; range_2 points at what is not in the
\* first, one past its end if that is nothing.
RefTo(a, n) ==
  LET space == BlockSize - Offset(a)
      len1 == IF space < n THEN space ELSE n
      final == a + n - 1 IN
  [r1 |-> a, len1 |-> len1,
   r2 |-> Block(final) * BlockSize + Offset(final) + 1 - (n - len1),
   at |-> a, n |-> n]

\* RME_GetPtr.  Only the first and the last block are looked at, and marked,
\* and only if both have memory.  Nothing checks that the range ends before
\* State->Memory does: ranges that do not are left out.
RME_GetPtr(seg, ofs, n) ==
  LET a == seg * Para + ofs
      ends == {Block(a), Block(a + n - 1)} IN
  /\ dir = "idle" /\ a + n \in Addrs \cup {NBlocks * BlockSize}
  /\ IF ends \subseteq backed
     THEN /\ ref' = RefTo(a, n)
          /\ touched' = [b \in Blocks |-> IF b \in ends THEN {"accessed"} ELSE touched[b]]
     ELSE ref' = NoRef /\ UNCHANGED touched
  /\ UNCHANGED <<backed, store, dir, addr, len, pos, head, buf, data, res,
                 last, start, total, before>>

Access ==
  \/ \E seg, ofs \in Word, n \in 1..MaxLen :
       \/ RME_Int_ReadBytes(seg, ofs, n)
       \/ \E src \in Data : RME_Int_WriteBytes(seg, ofs, n, src)
  \/ \E seg, ofs \in Word, n \in 1..MaxPtr : RME_GetPtr(seg, ofs, n)

BlockAccess == RME_Int_ReadBlockBytes \/ RME_Int_WriteBlockBytes

MemNext == Access \/ BlockAccess
MemSpec == MemInit /\ [][MemNext]_memVars

-----------------------------------------------------------------------------
(* Properties.                                                             *)

Bits == {"accessed", "read", "written"}
MemTypeOK ==
  /\ backed \subseteq Blocks /\ touched \in [Blocks -> SUBSET Bits]
  /\ store \in [Addrs -> Byte] /\ before \in [Addrs -> Byte]
  /\ buf \in [1..MaxLen -> Byte] /\ data \in [1..MaxLen -> Byte]
  /\ dir \in {"idle", "read", "write"} /\ last \in {"none", "read", "write"}
  /\ res \in {"none", "ok", "badmem"}
  /\ addr \in Addrs /\ start \in Addrs /\ head \in BOOLEAN
  /\ {len, pos, total} \subseteq 0..MaxLen
  /\ ref \in [r1 : Addrs, len1 : 0..BlockSize, r2 : Nat, at : Addrs, n : 0..BlockSize]

\* What the assertions of RME_Int_ReadBlockBytes and WriteBlockBytes say of
\* their parameters, with the index into State->Memory: no access, however it
\* lies over the blocks, leaves its block or the address space.
BlockBounds ==
  dir # "idle" => /\ Block(addr) \in Blocks
                  /\ At(addr, head) - Block(addr) * BlockSize
                       + Piece(addr, len, head) <= BlockSize
                  /\ Piece(addr, len, head) \in 1..len

\* The bytes read so far are those of a flat memory, wherever the access was
\* cut; all of them once it has succeeded.
FlatRead ==
  last = "read" => /\ \A i \in 1..pos : buf[i] = store[start + i - 1]
                   /\ res = "ok" => pos = total

\* A write changes the bytes it was asked to change, in order, and no others;
\* all of them once it has succeeded.  One that fails is torn where a block
\* without memory starts, or has done nothing.
FlatWrite ==
  last = "write" =>
    /\ store = [a \in Addrs |-> IF a \in start .. start + pos - 1
                                THEN data[a - start + 1] ELSE before[a]]
    /\ res = "ok" => pos = total
    /\ res = "badmem" => /\ Block(start + pos) \notin backed
                         /\ pos = 0 \/ Offset(start + pos) = 0

\* The ranges of RME_GetPtr are the bytes asked for, in order, without gap or
\* overlap, and each range stays in one block.
RefExact ==
  /\ ref.len1 <= ref.n
  /\ \A i \in 0..ref.n - 1 :
       IF i < ref.len1
       THEN ref.r1 + i = ref.at + i /\ Block(ref.r1 + i) = Block(ref.r1)
       ELSE /\ ref.r2 + (i - ref.len1) = ref.at + i
            /\ Block(ref.at + i) = Block(ref.at + ref.n - 1)

\* The inductive invariant: where the access under way stands.
Progress ==
  /\ dir # "idle" => /\ last = dir /\ res = "none"
                     /\ len > 0 /\ len + pos = total /\ addr = start + pos
                     /\ start + total <= NBlocks * BlockSize
                     /\ head <=> pos = 0
                     /\ ~head => Offset(addr) = 0
MemInv == MemTypeOK /\ Progress /\ FlatRead /\ FlatWrite /\ RefExact
=============================================================================
