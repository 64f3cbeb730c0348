----------------------------- MODULE NativeLoop -----------------------------
(***************************************************************************)
(* The main loop of nativetest around the emulator: RME_RunOne, then, if   *)
(* asked for, the changes of memory are found by comparing the blocks that *)
(* State->MemoryTouched names with a saved copy, then all flags are        *)
(* cleared.  During RME_RunOne the guest accesses memory through RmeMemory *)
(* and the BIOS and DOS callbacks also write gaMemory directly, past it:   *)
(* PutChar, the screen services, and the disk reads.                       *)
(***************************************************************************)
EXTENDS RmeMemory

CONSTANTS
  Diffing,      \* DebugLevel >= 1 and gbDiff_Memory
  MaxAccesses,  \* bound: accesses of one RME_RunOne
  Direct        \* the addresses callbacks store at: the screen, disk buffers

ASSUME LoopAssumption ==
  Diffing \in BOOLEAN /\ MaxAccesses \in Nat /\ Direct \subseteq Addrs

VARIABLES
  looping,      \* FALSE once RME_RunOne has returned an error
  used,         \* accesses this RME_RunOne has made
  saved,        \* gaMemory_prev
  direct        \* history: bytes callbacks wrote since the last comparison of
                \* their block

loopVars == <<looping, used, saved, direct>>
vars == <<memVars, loopVars>>

Init ==
  /\ MemInit
  /\ looping = TRUE /\ used = 0 /\ saved = store /\ direct = {}

\* The instruction under way, or its callback, asks for memory; after a
\* failed access it asks for nothing more.
InstructionAccess ==
  /\ looping /\ used < MaxAccesses /\ res # "badmem"
  /\ Access
  /\ used' = used + 1
  /\ UNCHANGED <<looping, saved, direct>>

\* ... and gets it, a block at a time.
InstructionBlockAccess == looping /\ BlockAccess /\ UNCHANGED loopVars

\* A callback stores byte v at gaMemory[a].
CallbackWrites(a, v) ==
  /\ looping /\ used < MaxAccesses /\ dir = "idle" /\ res # "badmem"
  /\ store' = [store EXCEPT ![a] = v]
  /\ Forgotten
  /\ direct' = direct \cup {a}
  /\ used' = used + 1
  /\ UNCHANGED <<backed, touched, looping, saved>>

\* Mutant: only blocks flagged as written are compared.
ComparedIfWritten == {b \in Blocks : "written" \in touched[b]}

\* The blocks the loop compares.
Compared == {b \in Blocks : touched[b] # {}}

\* RME_RunOne returned RME_ERR_OK: what changed is reported and saved, and
\* the flags are cleared whether or not anything was compared.
NextInstruction ==
  /\ looping /\ dir = "idle" /\ res # "badmem"
  /\ IF Diffing
     THEN /\ saved' = [a \in Addrs |-> IF Block(a) \in Compared THEN store[a] ELSE saved[a]]
          /\ direct' = {a \in direct : Block(a) \notin Compared}
     ELSE UNCHANGED <<saved, direct>>
  /\ touched' = [b \in Blocks |-> {}]
  /\ used' = 0
  /\ UNCHANGED <<backed, store, looping>> /\ Forgotten

\* RME_RunOne returned an error, and the loop ends.
EmulatorStops ==
  /\ looping /\ dir = "idle"
  /\ looping' = FALSE
  /\ UNCHANGED <<memVars, used, saved, direct>>

Next ==
  \/ InstructionAccess \/ InstructionBlockAccess
  \/ \E a \in Direct, v \in Byte : CallbackWrites(a, v)
  \/ NextInstruction \/ EmulatorStops

Spec == Init /\ [][Next]_vars

-----------------------------------------------------------------------------
(* Properties.                                                             *)

TypeOK ==
  /\ MemTypeOK
  /\ looping \in BOOLEAN /\ used \in 0..MaxAccesses
  /\ saved \in [Addrs -> Byte] /\ direct \subseteq Addrs

\* A change the comparison has not reported is in a block it will look at, or
\* was made by a callback behind the emulator's back: the flags miss no write
\* of the guest, whatever else happened to its block since.
ChangesAreFlagged ==
  Diffing => \A a \in Addrs : saved[a] # store[a] =>
               touched[Block(a)] # {} \/ a \in direct
=============================================================================
