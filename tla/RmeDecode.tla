----------------------------- MODULE RmeDecode -----------------------------
(***************************************************************************)
(* RME_Int_DoOpcode: the loop over prefixes, the fetch of an instruction's *)
(* bytes, the commit of IP after it succeeded, and the search for executed *)
(* zeroes.  One step fetches one byte, or lets the instruction do its work.*)
(*                                                                         *)
(* A byte of code is its kind, which says what it does as an opcode and as *)
(* a ModRM byte.  What the instructions do is in other modules; here they  *)
(* read as many bytes as they have operands, and then succeed, jump, store *)
(* into the code, divide by zero or fail.                                  *)
(***************************************************************************)
EXTENDS Integers, Sequences, FiniteSets

CONSTANTS
  Size,    \* bytes of the code segment, in which IP wraps
  Codes,   \* its contents at the start, functions from Slots to Kinds
  Holes,   \* the sets of slots that may have no memory
  Extra    \* Extra[b]: the bytes that follow a ModRM byte b

Slots == 0 .. Size - 1
Prefixes == {"SEG", "OPER", "ADDR", "REP", "REPNZ"}

\* ADD with a ModRM byte, 0x00, also as that byte; an instruction of one
\* byte; one named by its ModRM byte (0xFF); a string instruction; a jump
\* with a displacement; a division, named likewise (0xF6); 0x0F; no instruction; 0xF1.
Opcodes == {"ZERO", "ONE", "GROUP", "STRING", "JUMP", "DIV", "EXT"}
Kinds == Prefixes \cup Opcodes \cup {"UNDEF", "F1"}

\* Opcodes named by their ModRM byte; with one; with an immediate byte; that
\* write memory.
Named == {"GROUP", "DIV"}
HasModRM == {"ZERO", "GROUP", "DIV"}
Immediate(b) == IF b = "JUMP" THEN 1 ELSE 0
Writes == {"ZERO", "GROUP", "STRING"}

\* What RME_RunOne returns of an instruction that fails; 0xF1 returns 7, the
\* value of RME_ERR_BREAKPOINT, which also reports executed zeroes.
Errors == {"badmem", "undefopcode", "other"}
Results == Errors \cup {"ok", "breakpoint"}

ASSUME CodeAssumption ==
  /\ Size \in Nat /\ Size > 1 /\ Codes \subseteq [Slots -> Kinds] /\ Holes \subseteq SUBSET Slots
  /\ Extra \in [Kinds -> 0..9]

VARIABLES
  code, holes,
  ip,       \* State->IP
  dec,      \* State->Decoder: prefixes and IPOffset
  null,     \* State->bWasLastOperationNull
  pc,       \* "idle", "decode": the loop, "modrm", "ext", "operands": the function
  opcode,   \* the local, once the function runs
  need,     \* bytes the function will still read
  res,      \* what RME_RunOne returned
  start, fetched, \* startIP, and history: the bytes read since
  fault,    \* history: RME_Int_GetModRM has failed in the loop
  moved,    \* history: IP went elsewhere
  zeroes    \* history: how many 00 00 have just run in a row, up to two

vars == <<code, holes, ip, dec, null, pc, opcode, need, res, start, fetched, fault,
          moved, zeroes>>
history == <<start, fetched, fault, moved, zeroes>>

NoDecoder == [seg |-> FALSE, oper |-> FALSE, addr |-> FALSE, rep |-> "none", off |-> 0]

Init ==
  /\ code \in Codes /\ holes \in Holes /\ ip = 0
  /\ dec = NoDecoder /\ null = FALSE /\ pc = "idle" /\ opcode = "ONE" /\ need = 0
  /\ res = "ok" /\ start = ip /\ fetched = <<>> /\ fault = FALSE /\ moved = TRUE
  /\ zeroes = 0

-----------------------------------------------------------------------------
\* Mutant: the decoder keeps what it had.
StartKeepsPrefixes ==
  /\ pc = "idle" /\ res = "ok"
  /\ dec' = [dec EXCEPT !.off = 0] /\ pc' = "decode"
  /\ start' = ip /\ fetched' = <<>> /\ fault' = FALSE /\ moved' = FALSE
  /\ UNCHANGED <<code, holes, ip, null, opcode, need, res, zeroes>>

\* RME_RunOne calls RME_Int_DoOpcode.
Start ==
  /\ pc = "idle" /\ res = "ok"
  /\ dec' = NoDecoder /\ pc' = "decode"
  /\ start' = ip /\ fetched' = <<>> /\ fault' = FALSE /\ moved' = FALSE
  /\ UNCHANGED <<code, holes, ip, null, opcode, need, res, zeroes>>

\* An error is returned before IP is committed.
Fails(err) ==
  /\ pc' = "idle" /\ res' = err /\ zeroes' = 0
  /\ UNCHANGED <<code, holes, ip, null, opcode, need, start, fault, moved>>

Here == (ip + dec.off) % Size

\* READ_INSTR8 of byte b.
ReadInstr(b) ==
  /\ Here \notin holes /\ code[Here] = b
  /\ fetched' = Append(fetched, b)
ReadInstrFails ==
  /\ pc \in {"decode", "modrm", "ext"} \/ (pc = "operands" /\ need > 0)
  /\ Here \in holes
  /\ Fails("badmem") /\ UNCHANGED <<dec, fetched>>

\* Mutant: a segment prefix may come again.
SeenNotSegment(b) ==
  CASE b = "OPER" -> dec.oper [] b = "ADDR" -> dec.addr
    [] b \in {"REP", "REPNZ"} -> dec.rep # "none" [] OTHER -> FALSE

\* Has a prefix been given, or its opposite?
Seen(b) ==
  CASE b = "SEG" -> dec.seg [] b = "OPER" -> dec.oper [] b = "ADDR" -> dec.addr
    [] b \in {"REP", "REPNZ"} -> dec.rep # "none"

\* A prefix, and the next round.
Prefix(b) ==
  /\ pc = "decode" /\ b \in Prefixes /\ ~Seen(b)
  /\ ReadInstr(b)
  /\ dec' = [CASE b = "SEG" -> [dec EXCEPT !.seg = TRUE]
               [] b = "OPER" -> [dec EXCEPT !.oper = TRUE]
               [] b = "ADDR" -> [dec EXCEPT !.addr = TRUE]
               [] OTHER -> [dec EXCEPT !.rep = b]
             EXCEPT !.off = @ + 1]
  /\ UNCHANGED <<code, holes, ip, null, pc, opcode, need, res, start, fault, moved, zeroes>>

\* A prefix given twice, a byte that is no instruction, or 0xF1.
NoInstruction(b) ==
  /\ pc = "decode" /\ ReadInstr(b)
  /\ dec' = [dec EXCEPT !.off = @ + 1]
  /\ \/ b \in Prefixes /\ Seen(b) /\ Fails("undefopcode")
     \/ b = "UNDEF" /\ Fails("undefopcode")
     \/ b = "F1" /\ Fails("breakpoint")

\* An opcode: its function is called.  For the name of a group the loop looks
\* at the ModRM byte, and steps back over it; when the byte cannot be read it
\* steps back all the same, onto the opcode.
Opcode(b) ==
  /\ pc = "decode" /\ b \in Opcodes
  /\ ReadInstr(b)
  /\ LET ahead == (Here + 1) % Size
         unread == b \in Named /\ ahead \in holes
     IN  /\ fault' = unread
         /\ dec' = [dec EXCEPT !.off = IF unread THEN @ ELSE @ + 1]
  /\ opcode' = b
  /\ pc' = (IF b \in HasModRM THEN "modrm" ELSE IF b = "EXT" THEN "ext" ELSE "operands")
  /\ need' = Immediate(b)
  /\ UNCHANGED <<code, holes, ip, null, res, start, moved, zeroes>>

\* The function reads its ModRM byte, and so knows what follows.
ModRM(b) ==
  /\ pc = "modrm" /\ ReadInstr(b)
  /\ dec' = [dec EXCEPT !.off = @ + 1]
  /\ pc' = "operands" /\ need' = Extra[b]
  /\ UNCHANGED <<code, holes, ip, null, opcode, res, start, fault, moved, zeroes>>

\* The second byte of a 0x0F opcode, of which many are undefined.
Ext0F(b) ==
  /\ pc = "ext" /\ ReadInstr(b)
  /\ dec' = [dec EXCEPT !.off = @ + 1]
  /\ IF b = "UNDEF" THEN Fails("undefopcode")
     ELSE /\ pc' = "operands" /\ need' = 0
          /\ UNCHANGED <<code, holes, ip, null, opcode, res, start, fault, moved, zeroes>>

\* Displacements and immediates.
Operand(b) ==
  /\ pc = "operands" /\ need > 0 /\ ReadInstr(b)
  /\ dec' = [dec EXCEPT !.off = @ + 1] /\ need' = need - 1
  /\ UNCHANGED <<code, holes, ip, null, pc, opcode, res, start, fault, moved, zeroes>>

\* The bytes of the instruction as they are now, if it has two and both 0.
IsNull(c) == dec.off = 2 /\ c[start] = "ZERO" /\ c[(start + 1) % Size] = "ZERO"

\* Mutant: zeroes are looked for where IP is now; the flag is only ever set.
DetectNullAtIP ==
  LET nullNow == dec.off = 2 /\ code'[ip'] = "ZERO" /\ code'[(ip' + 1) % Size] = "ZERO"
  IN  null' = nullNow /\ res' = (IF nullNow /\ null THEN "breakpoint" ELSE "ok")

\* The end of RME_Int_DoOpcode: the second 00 00 in a row is reported.
DetectNull ==
  null' = IsNull(code') /\ res' = (IF IsNull(code') /\ null THEN "breakpoint" ELSE "ok")

\* Mutant: the length of the instruction does not count its prefixes.
CommitUnprefixed ==
  ip' = (ip + dec.off - Cardinality({k \in DOMAIN fetched : fetched[k] \in Prefixes})) % Size

\* IP moves past the instruction.
Commit == ip' = (ip + dec.off) % Size

\* The function succeeds.  A jump goes anywhere; a write may hit the code.
Succeeds ==
  /\ pc = "operands" /\ need = 0
  /\ \/ opcode \notin Writes /\ UNCHANGED code
     \/ opcode \in Writes /\ \/ UNCHANGED code
                             \/ \E a \in Slots \ holes, b \in {"ZERO", "ONE"} :
                                  code' = [code EXCEPT ![a] = b]
  /\ IF opcode = "JUMP" THEN moved' = TRUE /\ ip' \in Slots ELSE UNCHANGED moved /\ Commit
  /\ dec' = (IF opcode = "STRING" THEN [dec EXCEPT !.rep = "none"] ELSE dec)
  /\ DetectNull
  /\ pc' = "idle"
  /\ zeroes' = (IF fetched = <<"ZERO", "ZERO">> /\ IsNull(code')
                THEN IF zeroes = 0 THEN 1 ELSE 2 ELSE 0)
  /\ UNCHANGED <<holes, opcode, need, start, fetched, fault>>

\* It fails: a memory access, an invalid form, HLT.
InstrFails ==
  pc = "operands" /\ need = 0 /\ Fails("other") /\ UNCHANGED <<dec, fetched>>

\* It divides by zero, and RME_RunOne enters interrupt 0.
DivideError ==
  /\ pc = "operands" /\ need = 0 /\ opcode = "DIV"
  /\ pc' = "idle" /\ res' = "ok" /\ ip' \in Slots /\ moved' = TRUE /\ zeroes' = 0
  /\ UNCHANGED <<code, holes, dec, null, opcode, need, start, fetched, fault>>

\* RME_RunOne finds CS in the HLE segment: it runs the host's function.
HleCall ==
  /\ pc = "idle" /\ res = "ok"
  /\ ip' \in Slots /\ moved' = TRUE /\ zeroes' = 0 /\ start' = ip'
  /\ UNCHANGED <<code, holes, dec, null, pc, opcode, need, res, fetched, fault>>

\* The host calls the emulator again, although it failed (the test kernel).
HostCall ==
  /\ pc = "idle" /\ res # "ok"
  /\ ip' \in Slots /\ moved' = TRUE /\ zeroes' = 0 /\ start' = ip' /\ res' = "ok"
  /\ UNCHANGED <<code, holes, dec, null, pc, opcode, need, fetched, fault>>

Next ==
  \/ Start \/ ReadInstrFails
  \/ \E b \in Kinds : Prefix(b) \/ NoInstruction(b) \/ Opcode(b) \/ ModRM(b) \/ Ext0F(b) \/ Operand(b)
  \/ Succeeds \/ InstrFails \/ DivideError \/ HleCall \/ HostCall

Spec == Init /\ [][Next]_vars

-----------------------------------------------------------------------------
(* Properties.                                                             *)

\* Four prefixes, an opcode of two bytes or one with ModRM byte, and what follows it.
MaxLength == 4 + 2 + 9

\* IPOffset stays far below its 8 bits: no code, however it wraps, makes the
\* loop go on for ever.
TypeOK ==
  /\ code \in [Slots -> Kinds] /\ holes \subseteq Slots /\ ip \in Slots
  /\ dec \in [seg : BOOLEAN, oper : BOOLEAN, addr : BOOLEAN,
              rep : {"none", "REP", "REPNZ"}, off : 0 .. MaxLength]
  /\ null \in BOOLEAN /\ pc \in {"idle", "decode", "modrm", "ext", "operands"}
  /\ opcode \in Opcodes /\ need \in 0..9 /\ res \in Results
  /\ start \in Slots /\ fetched \in Seq(Kinds)
  /\ fault \in BOOLEAN /\ moved \in BOOLEAN /\ zeroes \in 0..2

\* The bytes in front of the opcode.
PrefixCount ==
  CHOOSE n \in 0 .. Len(fetched) :
    /\ \A k \in 1..n : fetched[k] \in Prefixes
    /\ n < Len(fetched) => fetched[n + 1] \notin Prefixes

\* An instruction runs under exactly the prefixes in front of it, none of
\* which is given twice or contradicted: nothing is left over from the
\* instruction before, whether it succeeded, failed or never used them.
PrefixesLocal ==
  LET given == {fetched[k] : k \in 1..PrefixCount}
  IN  pc # "idle" =>
        /\ Cardinality(given) = PrefixCount /\ ~({"REP", "REPNZ"} \subseteq given)
        /\ dec.seg = ("SEG" \in given) /\ dec.oper = ("OPER" \in given)
        /\ dec.addr = ("ADDR" \in given)
        /\ dec.rep = (IF "REP" \in given THEN "REP" ELSE IF "REPNZ" \in given THEN "REPNZ" ELSE "none")

\* The opcode, behind its prefixes, was 0xF1.
UnsetRun ==
  \E n \in 1 .. Len(fetched) : fetched[n] = "F1" /\ \A k \in 1 .. n - 1 : fetched[k] \in Prefixes

\* The instruction did not do its work: an error, or the 7 of 0xF1.
Failed == res \in Errors \/ (res = "breakpoint" /\ UnsetRun)

\* IP moves past whole instructions only: each byte is read once, in order,
\* and IP stands behind the last one if the instruction succeeded (or is
\* reported as executed zeroes), at the first one if it failed (0xF1 included).
CommitExact ==
  /\ pc # "idle" => ip = start
  /\ pc # "idle" /\ ~fault =>
       /\ dec.off = Len(fetched)
       /\ \A k \in 1..Len(fetched) : fetched[k] = code[(start + k - 1) % Size]
  /\ pc = "idle" /\ Failed => ip = start
  /\ pc = "idle" /\ ~Failed /\ ~moved /\ ~fault => ip = (start + Len(fetched)) % Size

\* Zeroed memory does not run on: of two 00 00 in a row that leave themselves
\* alone the second returns RME_ERR_BREAKPOINT; and nothing returns it but a
\* 00 00, or an opcode 0xF1, whose literal 7 is the same value.
ZeroesCaught ==
  pc = "idle" =>
    /\ zeroes > 0 => null
    /\ zeroes = 2 => res = "breakpoint"
    /\ res = "breakpoint" =>
         UnsetRun \/ (code[start] = "ZERO" /\ code[(start + 1) % Size] = "ZERO")
=============================================================================
