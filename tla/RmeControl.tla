----------------------------- MODULE RmeControl -----------------------------
(***************************************************************************)
(* Control transfer in the emulator: RME_CallInt, RME_Call and RME_RunOne  *)
(* of rme.c, the CALL/RET/INT/IRET and PUSH/POP instructions that run      *)
(* under them, the divide-error trap, and the high level emulation (HLE)   *)
(* of interrupts whose vector points into segment RME_HLE_CS.              *)
(*                                                                         *)
(* One step is one RME_RunOne.  The stack is what the code has: words of   *)
(* guest memory written below SP, with SP wrapping, where any word may be  *)
(* backed by no memory, so that a transfer can fail between two of its     *)
(* accesses.  The guest is any program that keeps to a stack discipline:   *)
(* it returns with the instruction that matches the call, pops the words   *)
(* it pushed, and never needs more stack than there is.  `frames' is a     *)
(* history variable that says what the guest has on its stack; only the    *)
(* guards that express the discipline read it.                             *)
(***************************************************************************)
EXTENDS Naturals, Sequences

CONSTANTS
  Word,             \* the values of a register or a word of memory
  MagicCS, MagicIP, \* RME_MAGIC_CS, RME_MAGIC_IP
  HleCS,            \* RME_HLE_CS
  Handlers,         \* the interrupts with an HLE callback
  GuestCode,        \* the <<CS, IP>> where the guest has code
  Ints,             \* interrupt numbers (0 .. 0xFF), with DivideInt
  DivideInt,
  Reset,            \* where RME_InitState leaves CS:IP
  Settable,         \* the interrupts whose vector guest or host change
  Vectors,          \* the <<CS, IP>> they change it to
  InstrErrors,      \* errors an instruction may end in by itself
  BadVecIP, BadVecCS, \* vectors whose offset, or segment, cannot be read
  FlagVals, RegVals,  \* the values instructions leave in FLAGS and a register
  ClearIT,          \* ClearIT[f]: f & ~(FLAG_IF|FLAG_TF)
  PopfMask,         \* PopfMask[f]: f with the bits POPF forces
  Size,             \* words of the stack segment
  Unmappable,       \* the sets of them that may have no memory behind them
  StartSP           \* where the host may leave SP before its first call

Slots == 0 .. Size - 1
Errors == {"badmem", "inval", "bug", "undefopcode", "halt", "breakpoint"}
Null == 0           \* the CS and IP of an unset vector

ASSUME WordAssumption ==
  /\ {MagicCS, MagicIP, HleCS, Null} \subseteq Word
  /\ Ints \subseteq Word /\ DivideInt \in Ints /\ Settable \subseteq Ints
  /\ FlagVals \subseteq Word /\ RegVals \subseteq Word
  /\ ClearIT \in [Word -> Word] /\ PopfMask \in [Word -> Word]
ASSUME CodeAssumption ==
  /\ GuestCode \subseteq Word \X Word /\ Vectors \subseteq Word \X Word
  /\ \A loc \in GuestCode \cup Vectors : loc # <<MagicCS, MagicIP>>
  /\ \A loc \in GuestCode : loc[1] # HleCS
  /\ MagicCS # HleCS /\ Reset \in Word \X Word
ASSUME ErrorAssumption == InstrErrors \subseteq Errors
ASSUME StackAssumption == Size \in Nat /\ Size >= 3 /\ Unmappable \subseteq SUBSET Slots
                           /\ StartSP \subseteq Slots

VARIABLES
  cs, ip, flags,  \* State->CS, IP, Flags
  sp,             \* State->SP, in words
  reg,            \* one general purpose register
  stk,            \* the words of the stack segment
  unmapped,       \* the positions of stk that no memory backs
  ivt,            \* the interrupt vectors, <<CS, IP>>
  host,           \* "idle", "running" in RME_Call, "failed": it returned an error
  ret,            \* what the last RME_CallInt or RME_RunOne returned
  base,           \* history: SP at the host's call
  frames          \* history: what the guest has on the stack, oldest first

vars == <<cs, ip, flags, sp, reg, stk, unmapped, ivt, host, ret, base, frames>>

-----------------------------------------------------------------------------
(* The stack primitives.                                                   *)

\* Mutant: SP is not kept to 16 bits.
BelowUntruncated(s, k) == s - k

\* k words below, and above, stack position s.
Below(s, k) == IF s >= k THEN s - k ELSE s - k + Size
Above(s, k) == IF s + k < Size THEN s + k ELSE s + k - Size

\* How far position s is below SP.
Dist(s) == IF s < sp THEN sp - s ELSE sp - s + Size

\* Mutant: a word is stored before SP is lowered.
StoredBeforeDecrement(ws, n) ==
  [s \in Slots |-> IF Dist(s) % Size < n THEN ws[1 + (Dist(s) % Size)] ELSE stk[s]]

\* The stack after the first n words of ws were pushed.
Stored(ws, n) == [s \in Slots |-> IF Dist(s) <= n THEN ws[Dist(s)] ELSE stk[s]]

\* PUSH of each word of ws in turn.
Pushed(ws) ==
  /\ \A j \in 1..Len(ws) : Below(sp, j) \notin unmapped
  /\ sp' = Below(sp, Len(ws))
  /\ stk' = Stored(ws, Len(ws))

\* The k-th of those PUSHes fails: SP is already lowered and stays so, and
\* the words before it are written.
PushFails(ws) ==
  /\ \E k \in 1..Len(ws) :
       /\ Below(sp, k) \in unmapped
       /\ \A j \in 1..k - 1 : Below(sp, j) \notin unmapped
       /\ sp' = Below(sp, k)
       /\ stk' = Stored(ws, k - 1)
  /\ ret' = "badmem" /\ host' = "failed"

\* The word n POPs from here.
Peek(n) == stk[Above(sp, n)]

\* Mutant: SP is not raised after the last POP.
PoppedWithoutIncrement(n) ==
  /\ \A j \in 0..n - 1 : Above(sp, j) \notin unmapped
  /\ sp' = Above(sp, n - 1)

\* n POPs that all succeed.
Popped(n) ==
  /\ \A j \in 0..n - 1 : Above(sp, j) \notin unmapped
  /\ sp' = Above(sp, n)

\* The POP after k successful ones fails, of n.
PopFailsAt(k) ==
  /\ Above(sp, k) \in unmapped
  /\ \A j \in 0..k - 1 : Above(sp, j) \notin unmapped
  /\ sp' = Above(sp, k)
  /\ ret' = "badmem" /\ host' = "failed"

\* Mutants: FLAGS stays on the stack; IP and CS are taken for each other.
PopContextWithoutFlags == Popped(2) /\ ip' = Peek(0) /\ cs' = Peek(1)
PopContextSwapped == Popped(3) /\ cs' = Peek(0) /\ ip' = Peek(1)

\* POP IP, POP CS, POP FLAGS: the return from an interrupt.  It pops into the
\* registers one by one, so a fault on the way leaves CS:IP torn.
PopContext == Popped(3) /\ ip' = Peek(0) /\ cs' = Peek(1)
PopContextFails ==
  \E k \in 0..2 :
    /\ PopFailsAt(k)
    /\ ip' = (IF k > 0 THEN Peek(0) ELSE ip)
    /\ cs' = (IF k > 1 THEN Peek(1) ELSE cs)

-----------------------------------------------------------------------------
(* The guest's stack discipline.                                           *)

Width(kind) == CASE kind = "int" -> 3 [] kind = "far" -> 2 [] OTHER -> 1

Top == frames[Len(frames)]
TopIs(kind) == frames # <<>> /\ Top.kind = kind
Rest(n) == SubSeq(frames, 1, Len(frames) - n)

\* Words taken by the frames of fs, and fs with a new frame on top.
EndOf(f) == f.at + Width(f.kind)
DepthOf(fs) == IF fs = <<>> THEN 0 ELSE EndOf(fs[Len(fs)])
With(fs, kind, c, i, f) ==
  Append(fs, [kind |-> kind, at |-> DepthOf(fs),
              saved |-> [cs |-> c, ip |-> i, flags |-> f]])
Depth == DepthOf(frames)
Fits(kind) == Depth + Width(kind) <= Size

NearIPs == {i \in Word : <<cs, i>> \in GuestCode}
AtMagic == cs = MagicCS /\ ip = MagicIP
AtHle == cs = HleCS /\ ip \in Ints
AtGuest == host = "running" /\ <<cs, ip>> \in GuestCode
Done == ret' = "ok" /\ host' = "running"

Init ==
  /\ cs = Reset[1] /\ ip = Reset[2]
  /\ flags \in FlagVals /\ reg \in RegVals /\ sp \in StartSP
  /\ stk = [s \in Slots |-> Null] /\ unmapped \in Unmappable
  /\ ivt = [n \in Ints |-> <<HleCS, n>>]
  /\ host = "idle" /\ ret = "ok"
  /\ base = sp /\ frames = <<>>

-----------------------------------------------------------------------------
(* Interrupt delivery by the emulator itself.                              *)

\* RME_int_CallInt with CS:IP at c:i and `under' on the stack.  The frame is
\* pushed first and the vector read into CS:IP afterwards, half by half.
RME_int_CallInt(n, c, i, under) ==
  /\ \/ /\ Pushed(<<flags, c, i>>)
        /\ flags' = ClearIT[flags]
        /\ \/ /\ n \in BadVecIP
              /\ cs' = c /\ ip' = i
              /\ frames' = under
              /\ ret' = "badmem" /\ host' = "failed"
           \/ /\ n \in BadVecCS \ BadVecIP
              /\ cs' = c /\ ip' = ivt[n][2]
              /\ frames' = under
              /\ ret' = "badmem" /\ host' = "failed"
           \/ /\ n \notin BadVecIP \cup BadVecCS
              /\ cs' = ivt[n][1] /\ ip' = ivt[n][2]
              /\ frames' = With(under, "int", c, i, flags)
              /\ Done
     \/ /\ PushFails(<<flags, c, i>>)
        /\ cs' = c /\ ip' = i
        /\ frames' = under
        /\ UNCHANGED flags
  /\ UNCHANGED <<reg, ivt>>

\* The host calls interrupt n and RME_Call starts to loop.
RME_CallInt(n) ==
  /\ host # "running"
  /\ base' = sp /\ UNCHANGED unmapped
  /\ RME_int_CallInt(n, MagicCS, MagicIP, <<>>)

\* A number that is no interrupt is refused after CS:IP were set.
RME_CallIntInvalid ==
  /\ host # "running"
  /\ cs' = MagicCS /\ ip' = MagicIP
  /\ ret' = "inval" /\ host' = "failed"
  /\ frames' = <<>>
  /\ UNCHANGED <<flags, sp, reg, stk, ivt, base, unmapped>>

\* Between calls the host owns the memory, the vectors included.
HostSetsVector(n) ==
  /\ host # "running"
  /\ \E v \in Vectors : ivt' = [ivt EXCEPT ![n] = v]
  /\ UNCHANGED <<cs, ip, flags, sp, reg, stk, host, ret, base, unmapped, frames>>

\* RME_RunOne at the magic address: RME_ERR_FCNRET, and RME_Call returns 0.
FunctionReturn ==
  /\ host = "running" /\ AtMagic
  /\ host' = "idle" /\ ret' = "ok"
  /\ UNCHANGED <<cs, ip, flags, sp, reg, stk, ivt, base, unmapped, frames>>

\* An instruction that divides by zero or overflows: the trap is taken with
\* CS:IP still at the instruction.
DivideError ==
  /\ AtGuest /\ Fits("int")
  /\ RME_int_CallInt(DivideInt, cs, ip, frames)
  /\ UNCHANGED <<base, unmapped>>

\* RME_RunOne in the HLE segment: return from the interrupt, then run the
\* callback, which sees and changes the caller's registers and FLAGS.
HleCall ==
  /\ host = "running" /\ AtHle
  /\ \/ /\ PopContext
        /\ frames' = Rest(1)
        /\ \/ /\ ip \in Handlers
              /\ flags' \in FlagVals \cup {Peek(2)} /\ reg' \in RegVals
              /\ \/ Done
                 \/ ret' \in InstrErrors /\ host' = "failed"
           \/ /\ ip \notin Handlers
              /\ flags' = Peek(2) /\ UNCHANGED reg
              /\ ret' = "bug" /\ host' = "failed"
     \/ PopContextFails /\ UNCHANGED <<flags, reg, frames>>
  /\ UNCHANGED <<stk, ivt, base, unmapped>>

\* Execution outside the guest's code (through a bad vector): what is there
\* is not code, and RME_RunOne ends in some error.
WildFetch ==
  /\ host = "running" /\ ~AtMagic /\ ~AtHle /\ <<cs, ip>> \notin GuestCode
  /\ ret' \in InstrErrors /\ host' = "failed"
  /\ UNCHANGED <<cs, ip, flags, sp, reg, stk, ivt, base, unmapped, frames>>

-----------------------------------------------------------------------------
(* Guest instructions, with `next' the address after the instruction.      *)

\* Any instruction that transfers no control and leaves the stack alone.
Compute ==
  /\ AtGuest
  /\ ip' \in NearIPs /\ flags' \in FlagVals /\ reg' \in RegVals
  /\ Done
  /\ UNCHANGED <<cs, sp, stk, ivt, base, unmapped, frames>>

\* The guest writes vector n.
SetVector(n) ==
  /\ AtGuest
  /\ \E v \in Vectors : ivt' = [ivt EXCEPT ![n] = v]
  /\ ip' \in NearIPs
  /\ Done
  /\ UNCHANGED <<cs, flags, sp, reg, stk, base, unmapped, frames>>

\* The near and far JMPs, the conditional jumps and the loops.
Jump ==
  /\ AtGuest
  /\ \E loc \in GuestCode : cs' = loc[1] /\ ip' = loc[2]
  /\ Done
  /\ UNCHANGED <<flags, sp, reg, stk, ivt, base, unmapped, frames>>

\* An instruction that ends in an error, having perhaps changed FLAGS and a
\* register.  IP stays at it, unless zeroes were found executing twice.
InstrFails ==
  /\ AtGuest
  /\ ret' \in InstrErrors /\ host' = "failed"
  /\ ip' \in (IF ret' = "breakpoint" THEN NearIPs ELSE {ip})
  /\ flags' \in FlagVals /\ reg' \in RegVals
  /\ UNCHANGED <<cs, sp, stk, ivt, base, unmapped, frames>>

CallNear ==
  /\ AtGuest /\ Fits("near")
  /\ \E next \in NearIPs :
       \/ /\ Pushed(<<next>>)
          /\ ip' \in NearIPs
          /\ frames' = With(frames, "near", cs, next, flags)
          /\ Done
       \/ PushFails(<<next>>) /\ UNCHANGED <<ip, frames>>
  /\ UNCHANGED <<cs, flags, reg, ivt, base, unmapped>>

CallFar ==
  /\ AtGuest /\ Fits("far")
  /\ \E next \in NearIPs :
       \/ /\ Pushed(<<cs, next>>)
          /\ \E loc \in GuestCode : cs' = loc[1] /\ ip' = loc[2]
          /\ frames' = With(frames, "far", cs, next, flags)
          /\ Done
       \/ PushFails(<<cs, next>>) /\ UNCHANGED <<cs, ip, frames>>
  /\ UNCHANGED <<flags, reg, ivt, base, unmapped>>

\* RET and RETF, with an immediate that drops n more words.
ArgsUnder(n) ==
  /\ n < Len(frames)
  /\ \A i \in Len(frames) - n .. Len(frames) - 1 : frames[i].kind = "data"

RetNear(n) ==
  /\ AtGuest /\ TopIs("near") /\ Top.saved.cs = cs /\ ArgsUnder(n)
  /\ \/ /\ Above(sp, 0) \notin unmapped
        /\ ip' = Peek(0)
        /\ sp' = Above(Above(sp, 1), n)
        /\ frames' = Rest(n + 1)
        /\ Done
     \/ PopFailsAt(0) /\ UNCHANGED <<ip, frames>>
  /\ UNCHANGED <<cs, flags, reg, stk, ivt, base, unmapped>>

RetFar(n) ==
  /\ AtGuest /\ TopIs("far") /\ ArgsUnder(n)
  /\ \/ /\ \A j \in 0..1 : Above(sp, j) \notin unmapped
        /\ ip' = Peek(0) /\ cs' = Peek(1)
        /\ sp' = Above(Above(sp, 2), n)
        /\ frames' = Rest(n + 1)
        /\ Done
     \/ (\E k \in 0..1 : PopFailsAt(k)) /\ UNCHANGED <<cs, ip, frames>>
  /\ UNCHANGED <<flags, reg, stk, ivt, base, unmapped>>

\* _CallInterrupt: the vector is read, and refused if unset, before anything
\* is pushed.
INT(n) ==
  /\ AtGuest /\ Fits("int")
  /\ \/ /\ n \in BadVecIP \cup BadVecCS \/ ivt[n] = <<Null, Null>>
        /\ ret' = "badmem" /\ host' = "failed"
        /\ UNCHANGED <<cs, ip, flags, sp, stk, frames>>
     \/ /\ n \notin BadVecIP \cup BadVecCS /\ ivt[n] # <<Null, Null>>
        /\ \E next \in NearIPs :
             \/ /\ Pushed(<<flags, cs, next>>)
                /\ cs' = ivt[n][1] /\ ip' = ivt[n][2]
                /\ flags' = ClearIT[flags]
                /\ frames' = With(frames, "int", cs, next, flags)
                /\ Done
             \/ /\ PushFails(<<flags, cs, next>>)
                /\ UNCHANGED <<cs, ip, flags, frames>>
  /\ UNCHANGED <<reg, ivt, base, unmapped>>

IRET ==
  /\ AtGuest /\ TopIs("int")
  /\ \/ PopContext /\ flags' = Peek(2) /\ frames' = Rest(1) /\ Done
     \/ PopContextFails /\ UNCHANGED <<flags, frames>>
  /\ UNCHANGED <<reg, stk, ivt, base, unmapped>>

\* PUSH of a register, and PUSHF.
PushWord(w) ==
  /\ AtGuest /\ Fits("data")
  /\ \/ /\ Pushed(<<w>>)
        /\ ip' \in NearIPs
        /\ frames' = With(frames, "data", w, w, w)
        /\ Done
     \/ PushFails(<<w>>) /\ UNCHANGED <<ip, frames>>
  /\ UNCHANGED <<cs, flags, reg, ivt, base, unmapped>>

PUSH == PushWord(reg)
PUSHF == PushWord(flags)

\* POP to a register, and POPF, which forces the fixed bits.
PopWord ==
  /\ AtGuest /\ TopIs("data")
  /\ \/ Popped(1) /\ ip' \in NearIPs /\ frames' = Rest(1) /\ Done
     \/ PopFailsAt(0) /\ UNCHANGED <<ip, frames>>
  /\ UNCHANGED <<cs, stk, ivt, base, unmapped>>

POP ==
  /\ PopWord
  /\ reg' = (IF host' = "failed" THEN reg ELSE Peek(0))
  /\ UNCHANGED flags
POPF ==
  /\ PopWord
  /\ flags' = (IF host' = "failed" THEN flags ELSE PopfMask[Peek(0)])
  /\ UNCHANGED reg

Instruction ==
  \/ Compute \/ Jump \/ InstrFails
  \/ \E n \in Settable : SetVector(n)
  \/ \E n \in Ints : INT(n)
  \/ CallNear \/ CallFar \/ IRET
  \/ \E n \in 0..Len(frames) - 1 : RetNear(n)
  \/ \E n \in 0..Len(frames) - 1 : RetFar(n)
  \/ PUSH \/ PUSHF \/ POP \/ POPF

Next ==
  \/ \E n \in Settable : HostSetsVector(n)
  \/ \E n \in Ints : RME_CallInt(n)
  \/ RME_CallIntInvalid \/ FunctionReturn
  \/ DivideError \/ HleCall \/ WildFetch
  \/ Instruction

Spec == Init /\ [][Next]_vars

-----------------------------------------------------------------------------
(* Properties.                                                             *)

Kinds == {"near", "far", "int", "data"}
Frame == [kind : Kinds, at : 0..Size, saved : [cs : Word, ip : Word, flags : Word]]
TypeOK ==
  /\ cs \in Word /\ ip \in Word /\ flags \in Word /\ reg \in Word
  /\ sp \in Slots /\ base \in Slots /\ unmapped \subseteq Slots
  /\ stk \in [Slots -> Word]
  /\ ivt \in [Ints -> Word \X Word]
  /\ host \in {"idle", "running", "failed"}
  /\ ret \in Errors \cup {"ok"}
  /\ frames \in Seq(Frame)

\* Every word the guest relies on is still in memory where the matching pop
\* will look for it: no call, fault or nested interrupt overwrites it, also
\* after a step that failed half way.
SavedIn(f, b, mem) ==
  LET word(j) == mem[Below(b, f.at + j)] IN
  CASE f.kind = "int" -> /\ word(1) = f.saved.flags
                         /\ word(2) = f.saved.cs
                         /\ word(3) = f.saved.ip
    [] f.kind = "far" -> word(1) = f.saved.cs /\ word(2) = f.saved.ip
    [] OTHER          -> word(1) = f.saved.ip
FramesIntact == \A i \in 1..Len(frames) : SavedIn(frames[i], base, stk)

\* While a call runs, SP is exactly as far below its value at the host's call
\* as the pending transfers and words account for.
StackBalanced == host = "running" => sp = Below(base, Depth)

\* RME_Call reports success only when everything the call started has been
\* returned from, and then SP is back where the host had it.
CallsUnwound ==
  /\ host = "running" /\ AtMagic => frames = <<>>
  /\ host = "idle" => frames = <<>> /\ sp = base

\* The inductive invariant.  A call's frames lie one on the other from `base'
\* up to SP; the oldest returns to the magic address, every other transfer
\* into the guest's code; a vector leads to code, to HLE or astray, but not to
\* the magic address; so the machine is there only with nothing pending, and
\* in the HLE segment only with an interrupt on top.
Chained(fs) ==
  /\ fs # <<>> => fs[1].at = 0
  /\ \A i \in 1..Len(fs) - 1 : fs[i + 1].at = EndOf(fs[i])
  /\ \A i, j \in 1..Len(fs) : i < j => EndOf(fs[i]) <= fs[j].at
  /\ \A i, j \in 1..Len(fs) :
       i < j /\ (\A k \in i..j - 1 : fs[k].kind = "data")
         => fs[j].at = fs[i].at + (j - i)
Stacked == Chained(frames) /\ Depth <= Size
Returns ==
  /\ frames # <<>> => /\ frames[1].kind = "int"
                      /\ frames[1].saved.cs = MagicCS
                      /\ frames[1].saved.ip = MagicIP
  /\ \A i \in 2..Len(frames) :
       frames[i].kind # "data" =>
         <<frames[i].saved.cs, frames[i].saved.ip>> \in GuestCode
Located ==
  /\ \A n \in Ints : ivt[n] \in Vectors \cup {<<HleCS, n>>}
  /\ host = "idle" => frames = <<>> /\ sp = base
  /\ host = "running" => /\ AtMagic <=> frames = <<>>
                         /\ AtHle => TopIs("int")
IInv ==
  TypeOK /\ FramesIntact /\ StackBalanced /\ Stacked /\ Returns /\ Located

\* The stack in memory implements the abstract one.
Stack == INSTANCE CallStack WITH
  cur <- [cs |-> cs, ip |-> ip, flags |-> flags],
  pending <- [i \in 1..Len(frames) |->
                [kind |-> frames[i].kind, saved |-> frames[i].saved]],
  mode <- host
Implements == Stack!AbsSpec
=============================================================================
