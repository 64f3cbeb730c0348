----------------------------- MODULE MCString -----------------------------
(***************************************************************************)
(* Segments of eight bytes, two of them four bytes apart, elements of one  *)
(* or two bytes, up to four rounds.  Offsets at both ends of a segment     *)
(* wrap in both directions; 1 and 2 are an element apart, so that copies   *)
(* overlap; 15 has an upper half.                                          *)
(***************************************************************************)
EXTENDS RmeString

MCMemories == {[a \in Addrs |-> a % 5], [a \in Addrs |-> IF a = 3 THEN 1 ELSE 2]}
MCAccs == {<<2, 2>>}
MCHoles == {{}, {3}}
=============================================================================
