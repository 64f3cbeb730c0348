------------------------------- MODULE MCLoop -------------------------------
(***************************************************************************)
(* Six bytes in three blocks of two, of which the middle one may have no   *)
(* memory; accesses of up to four bytes, so that one can touch three       *)
(* blocks and go round the loop of RME_Int_ReadBytes twice.  Two accesses  *)
(* make an instruction, and callbacks store at one address.                *)
(***************************************************************************)
EXTENDS NativeLoop

MCWord == 0..1
MCData == {<<1, 0, 0, 1>>}
MCBackings == {{0, 1, 2}, {0, 2}}
MCDirect == {3}
=============================================================================
