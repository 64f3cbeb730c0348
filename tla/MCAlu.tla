------------------------------- MODULE MCAlu -------------------------------
(***************************************************************************)
(* Every instruction alone, and the sequences guests build on.  Bytes are  *)
(* real; words have 9 bits, double words 15, so that products of two       *)
(* double words are still numbers TLC can handle.                          *)
(***************************************************************************)
EXTENDS RmeAlu

MCBits == [B |-> 8, W |-> 9, D |-> 15]
MCOperands ==
  [B |-> {0, 1, 8, 9, 16, 25, 89, 127, 128, 153, 255},
   W |-> {0, 1, 8, 15, 255, 256, 511},
   D |-> {0, 3, 16, 16383, 16384, 32767}]

On(op, to, typed) == [op |-> op, to |-> to, typed |-> typed]
Alone == BinaryOps \cup ShiftOps
           \cup {"INC", "DEC", "NEG", "NOT", "SHLD", "SHRD", "MUL", "IMUL", "IMUL2", "IMULI",
                 "DIV", "IDIV", "CWD", "BTx", "BSF"}
OnFlags == {"CLC", "STC", "CMC"}
Pairs == {<<"ADD", "DAA">>, <<"ADC", "DAA">>, <<"SUB", "DAS">>, <<"SBB", "DAS">>,
          <<"ADD", "AAA">>, <<"SUB", "AAS">>, <<"AAM", "AAD">>, <<"MUL", "DIV">>, <<"CWD", "IDIV">>}
MCPrograms ==
  {<<On(op, "a", typed)>> : op \in Alone, typed \in BOOLEAN}
    \cup {<<On(p[1], "a", TRUE), On(p[2], "a", TRUE)>> : p \in Pairs}
    \cup {<<On(p[1], "a", TRUE), On(p[2], "d", TRUE)>> :
            p \in {<<"ADD", "ADC">>, <<"SUB", "SBB">>, <<"SHL", "RCL">>}}
    \cup {<<On(f, "a", TRUE), On("ADC", "a", FALSE)>> : f \in OnFlags}
    \cup {<<On("LAHF", "d", TRUE), On("ADD", "a", TRUE), On("SAHF", "d", TRUE)>>}
=============================================================================
