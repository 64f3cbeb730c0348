------------------------------ MODULE MCInput ------------------------------
(***************************************************************************)
(* A key buffer of three entries, a queue of two events, and five keys     *)
(* pressed, so that both overflow.  Characters: CR, A, a, ESC.  Symbols:   *)
(* a, and a function key whose code does not fit a byte.                   *)
(***************************************************************************)
EXTENDS HostInput

MCChars == {13, 65, 97, 27}
MCSyms == {97, 282}
=============================================================================
