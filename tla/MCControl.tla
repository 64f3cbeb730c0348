----------------------------- MODULE MCControl -----------------------------
(***************************************************************************)
(* A small machine for RmeControl: four word values, a stack of Size words *)
(* of which one may have no memory, and four interrupts: 0 has an HLE      *)
(* callback, 1 is the divide error, the segment of the vector of 2 and the *)
(* offset of the vector of 3 cannot be read.                               *)
(***************************************************************************)
EXTENDS RmeControl

MCWord == 0..3
\* Bit 0 of FLAGS stands for the arithmetic flags, bit 1 for IF and TF.
MCClearIT == [f \in MCWord |-> f % 2]
\* POPF forces no bit this machine has apart from the arithmetic one.
MCPopfMask == [f \in MCWord |-> f]
MCGuestCode == {<<1, 0>>, <<1, 2>>, <<0, 2>>}
MCVectors == {<<1, 2>>, <<0, 0>>}
\* All of the stack is backed by memory, or all but one word of it.
MCUnmappable == {{}, {3}}
MCReset == <<0, 3>>
=============================================================================
