----------------------------- MODULE CallStack -----------------------------
(***************************************************************************)
(* What control transfer in the emulator promises, with no stack memory    *)
(* at all: a machine context (CS, IP, FLAGS), a register, and the items    *)
(* pushed and not popped yet, newest last.  A transfer remembers the       *)
(* context it left, the matching return brings exactly that back, a word   *)
(* pushed is the word popped, and the host's call ends when nothing is     *)
(* pending.  Any step may fail instead; a failure may leave the context    *)
(* half changed but never disturbs what is pending.  RmeControl, which     *)
(* keeps all of this in words of guest memory below SP, is shown to        *)
(* implement this module.                                                  *)
(***************************************************************************)
EXTENDS Naturals, Sequences

CONSTANTS
  Word,               \* a 16-bit register or memory word
  MagicCS, MagicIP,   \* RME_MAGIC_CS:RME_MAGIC_IP, the host's return address
  ClearIT,            \* ClearIT[f]: FLAGS value f with IF and TF cleared
  PopfMask            \* PopfMask[f]: FLAGS value f with the fixed bits forced

VARIABLES
  cur,        \* the running context
  reg,        \* a general purpose register
  pending,    \* transfers and words not popped, oldest first
  mode        \* "idle", "running" or "failed"

absVars == <<cur, reg, pending, mode>>

Context == [cs : Word, ip : Word, flags : Word]
At(c, i, f) == [cs |-> c, ip |-> i, flags |-> f]

\* The newest pending item and the others.
Top == pending[Len(pending)]
Rest(n) == SubSeq(pending, 1, Len(pending) - n)

AbsInit == cur \in Context /\ reg \in Word /\ pending = <<>> /\ mode = "idle"

\* The host calls an interrupt: what a failed call left pending is forgotten.
Begin ==
  /\ mode # "running"
  /\ pending' = <<[kind |-> "int", saved |-> At(MagicCS, MagicIP, cur.flags)]>>
  /\ cur' \in Context
  /\ cur'.flags = ClearIT[cur.flags]
  /\ mode' = "running"
  /\ UNCHANGED reg

\* An instruction that is no transfer leaves what is pending alone.
Compute ==
  /\ mode = "running"
  /\ cur' \in Context
  /\ cur'.cs = cur.cs
  /\ reg' \in Word
  /\ UNCHANGED <<pending, mode>>

\* A jump moves the context and nothing else.
Jump ==
  /\ mode = "running"
  /\ cur' \in Context
  /\ cur'.flags = cur.flags
  /\ UNCHANGED <<reg, pending, mode>>

\* A call saves the address of the instruction after it.
Call(kind) ==
  /\ mode = "running"
  /\ \E next \in Word :
       pending' = Append(pending, [kind |-> kind, saved |-> At(cur.cs, next, cur.flags)])
  /\ cur' \in Context
  /\ cur'.flags = cur.flags
  /\ kind = "near" => cur'.cs = cur.cs
  /\ UNCHANGED <<reg, mode>>

\* INT n saves the whole context and masks further interrupts.
Interrupt ==
  /\ mode = "running"
  /\ \E next \in Word :
       pending' = Append(pending, [kind |-> "int", saved |-> At(cur.cs, next, cur.flags)])
  /\ cur' \in Context
  /\ cur'.flags = ClearIT[cur.flags]
  /\ UNCHANGED <<reg, mode>>

\* A divide error saves the faulting instruction's own address, to restart it.
Trap ==
  /\ mode = "running"
  /\ pending' = Append(pending, [kind |-> "int", saved |-> cur])
  /\ cur' \in Context
  /\ cur'.flags = ClearIT[cur.flags]
  /\ UNCHANGED <<reg, mode>>

\* A word pushed is remembered: the register or FLAGS.
Push ==
  /\ mode = "running"
  /\ \E w \in {reg, cur.flags} :
       pending' = Append(pending, [kind |-> "data", saved |-> At(w, w, w)])
  /\ cur' \in Context
  /\ cur'.cs = cur.cs /\ cur'.flags = cur.flags
  /\ UNCHANGED <<reg, mode>>

\* The newest word comes back, to the register or through POPF's masks.
Pop ==
  /\ mode = "running" /\ pending # <<>> /\ Top.kind = "data"
  /\ \/ reg' = Top.saved.ip /\ cur'.flags = cur.flags
     \/ reg' = reg /\ cur'.flags = PopfMask[Top.saved.ip]
  /\ cur' \in Context
  /\ cur'.cs = cur.cs
  /\ pending' = Rest(1)
  /\ UNCHANGED mode

\* A near or far return, dropping n words of arguments from under the call.
Return(kind) ==
  /\ mode = "running" /\ pending # <<>> /\ Top.kind = kind
  /\ cur' = At(Top.saved.cs, Top.saved.ip, cur.flags)
  /\ \E n \in 0..Len(pending) - 1 :
       /\ \A i \in Len(pending) - n .. Len(pending) - 1 : pending[i].kind = "data"
       /\ pending' = Rest(n + 1)
  /\ UNCHANGED <<reg, mode>>

\* A return from an interrupt restores the whole context.
IntReturn ==
  /\ mode = "running" /\ pending # <<>> /\ Top.kind = "int"
  /\ cur' = Top.saved
  /\ pending' = Rest(1)
  /\ UNCHANGED <<reg, mode>>

\* A service run by the host instead of guest code returns on its own, and
\* leaves its results in the registers and FLAGS of the restored context.
Serve ==
  /\ mode = "running" /\ pending # <<>> /\ Top.kind = "int"
  /\ cur' \in Context
  /\ cur' = At(Top.saved.cs, Top.saved.ip, cur'.flags)
  /\ reg' \in Word
  /\ pending' = Rest(1)
  /\ mode' \in {"running", "failed"}

\* The host's call is over: back at the magic address with nothing pending.
End ==
  /\ mode = "running" /\ pending = <<>>
  /\ cur.cs = MagicCS /\ cur.ip = MagicIP
  /\ mode' = "idle"
  /\ UNCHANGED <<cur, reg, pending>>

\* An error: nothing is promised of the context, but everything pending stays;
\* a call of the host that fails at once leaves nothing pending.
Fail ==
  /\ cur' \in Context /\ reg' \in Word
  /\ mode' = "failed"
  /\ pending' = (IF mode = "running" THEN pending ELSE <<>>)

AbsNext ==
  \/ Begin \/ Compute \/ Jump \/ Interrupt \/ Trap \/ Push \/ Pop
  \/ \E kind \in {"near", "far"} : Call(kind) \/ Return(kind)
  \/ IntReturn \/ Serve \/ End \/ Fail

AbsSpec == AbsInit /\ [][AbsNext]_absVars
=============================================================================
