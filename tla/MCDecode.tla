----------------------------- MODULE MCDecode -----------------------------
(***************************************************************************)
(* Four bytes of code of any kind, the last of five, so that instructions  *)
(* wrap and prefixes may fill the segment; one byte may have no memory.    *)
(***************************************************************************)
EXTENDS RmeDecode

MCCodes == {c \in [Slots -> Kinds] : c[3] \in {"ZERO", "SEG", "ADDR", "GROUP", "F1"}}
MCExtra == [b \in Kinds |-> IF b = "ONE" THEN 1 ELSE 0]
MCHoles == {{}, {2}}
=============================================================================
