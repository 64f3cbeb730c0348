-------------------------- MODULE RmeDecode_proof --------------------------
(***************************************************************************)
(* The decoder keeps its promises for every size and contents of the code  *)
(* segment, whatever bytes wrap around its end, and wherever memory is     *)
(* missing.  What the loop over prefixes has seen is a set, and as no      *)
(* prefix gets into it twice, its size counts the rounds: this bounds      *)
(* IPOffset, and says which bytes the flags of the decoder stand for.      *)
(***************************************************************************)
EXTENDS RmeDecode, SequenceTheorems, FiniteSetTheorems, TLAPS

\* The first n bytes read.
Given(n) == {fetched[k] : k \in 1..n}

\* They are different prefixes, and the decoder holds them and no others.
Under(n) ==
  /\ \A k \in 1..n : fetched[k] \in Prefixes
  /\ IsFiniteSet(Given(n)) /\ Cardinality(Given(n)) = n
  /\ ~({"REP", "REPNZ"} \subseteq Given(n))
  /\ dec.seg = ("SEG" \in Given(n)) /\ dec.oper = ("OPER" \in Given(n))
  /\ dec.addr = ("ADDR" \in Given(n))
  /\ dec.rep = (IF "REP" \in Given(n) THEN "REP"
                ELSE IF "REPNZ" \in Given(n) THEN "REPNZ" ELSE "none")

\* In the loop all bytes were prefixes; later one was an opcode, and those
\* before it still count.
Decoding ==
  /\ pc = "decode" => ~fault /\ Under(Len(fetched))
  /\ pc \in {"modrm", "ext", "operands"} =>
       \E n \in 0 .. Len(fetched) - 1 : fetched[n + 1] \in Opcodes /\ Under(n)

\* What is still to come fits into the longest instruction.
Short ==
  /\ pc \in {"modrm", "ext"} => dec.off <= 5
  /\ pc = "operands" => dec.off + need <= MaxLength

Counted == zeroes > 0 => null

\* The inductive invariant.
DecodeInv == TypeOK /\ CommitExact /\ ZeroesCaught /\ Decoding /\ Short /\ Counted

-----------------------------------------------------------------------------
(* Slots and bytes.                                                        *)

\* Whatever IP and IPOffset add up to, the byte read is in the segment.
LEMMA Wraps == \A x \in Int : x % Size \in Slots
BY CodeAssumption DEF Slots

\* Bytes are read where there are some.
LEMMA HereInSlots == TypeOK => Here \in Slots
<1> SUFFICES ASSUME TypeOK PROVE Here \in Slots
  OBVIOUS
<1>1. ip \in Int /\ Size \in Int
  BY CodeAssumption DEF TypeOK, Slots
<1>2. dec.off \in Int
  BY DEF TypeOK, MaxLength
<1>3. ip + dec.off \in Int
  BY <1>1, <1>2
<1> QED
  BY <1>3, Wraps DEF Here

\* A byte that is read is added to those read before.
LEMMA Fetched ==
  ASSUME TypeOK, NEW b \in Kinds, ReadInstr(b)
  PROVE  /\ fetched' \in Seq(Kinds) /\ Len(fetched') = Len(fetched) + 1
         /\ \A k \in 1 .. Len(fetched) : fetched'[k] = fetched[k]
         /\ fetched'[Len(fetched) + 1] = b /\ b = code[Here]
<1>1. fetched \in Seq(Kinds) /\ fetched' = Append(fetched, b) /\ b = code[Here]
  BY DEF TypeOK, ReadInstr
<1> QED
  BY <1>1, AppendProperties

\* No byte more is read: the bytes in front keep standing for the flags.
LEMMA UnderKept ==
  ASSUME NEW n \in Nat, Under(n), \A k \in 1..n : fetched'[k] = fetched[k],
         dec'.seg = dec.seg, dec'.oper = dec.oper, dec'.addr = dec.addr, dec'.rep = dec.rep
  PROVE  Under(n)'
<1>1. Given(n)' = Given(n)
  BY DEF Given
<1> HIDE DEF Given
<1> QED
  BY <1>1 DEF Under

\* The flags are those of no prefix when no byte has been read.
LEMMA UnderNone ==
  ASSUME dec' = NoDecoder
  PROVE  Under(0)'
<1>1. Given(0)' = {}
  BY DEF Given
<1>2. /\ dec'.seg = FALSE /\ dec'.oper = FALSE /\ dec'.addr = FALSE /\ dec'.rep = "none"
  BY DEF NoDecoder
<1>3. IsFiniteSet({}) /\ Cardinality({}) = 0
  BY FS_EmptySet
<1>4. /\ dec'.seg = ("SEG" \in {}) /\ dec'.oper = ("OPER" \in {})
      /\ dec'.addr = ("ADDR" \in {})
  <2>1. ("SEG" \in {}) = FALSE /\ ("OPER" \in {}) = FALSE /\ ("ADDR" \in {}) = FALSE
    OBVIOUS
  <2> QED
    BY <1>2, <2>1
<1>5. \A k \in 1..0 : FALSE
  OBVIOUS
<1> QED
  BY <1>1, <1>2, <1>3, <1>4, <1>5 DEF Under

\* One prefix more, which was not seen before.
LEMMA UnderMore ==
  ASSUME TypeOK, NEW b \in Prefixes, Prefix(b), NEW n \in Nat, n = Len(fetched), Under(n)
  PROVE  Under(n + 1)'
<1> DEFINE G == Given(n)
<1>0. b \in Kinds
  BY DEF Kinds
<1>1. /\ n \in Nat /\ fetched'[n + 1] = b
      /\ \A k \in 1..n : fetched'[k] = fetched[k]
  <2>1. ReadInstr(b)
    BY DEF Prefix
  <2> QED
    BY <1>0, <2>1, Fetched
<1>2. Given(n + 1)' = G \cup {b}
  <2>1. Given(n + 1)' = {fetched'[k] : k \in 1 .. n + 1}
    BY DEF Given
  <2>2. 1 .. n + 1 = (1..n) \cup {n + 1}
    BY <1>1
  <2>3. G = {fetched'[k] : k \in 1..n}
    BY <1>1 DEF Given
  <2> HIDE DEF G
  <2> QED
    BY <1>1, <2>1, <2>2, <2>3
<1>3. /\ \A k \in 1..n : fetched[k] \in Prefixes
      /\ IsFiniteSet(G) /\ Cardinality(G) = n /\ ~({"REP", "REPNZ"} \subseteq G)
      /\ dec.seg = ("SEG" \in G) /\ dec.oper = ("OPER" \in G) /\ dec.addr = ("ADDR" \in G)
      /\ dec.rep = (IF "REP" \in G THEN "REP" ELSE IF "REPNZ" \in G THEN "REPNZ" ELSE "none")
  BY DEF Under
<1>4. /\ dec'.seg = (dec.seg \/ b = "SEG") /\ dec'.oper = (dec.oper \/ b = "OPER")
      /\ dec'.addr = (dec.addr \/ b = "ADDR")
      /\ dec'.rep = (IF b \in {"REP", "REPNZ"} THEN b ELSE dec.rep)
  <2>1. dec \in [seg : BOOLEAN, oper : BOOLEAN, addr : BOOLEAN,
              rep : {"none", "REP", "REPNZ"}, off : 0 .. MaxLength]
    BY DEF TypeOK
  <2> QED
    BY <2>1 DEF Prefix, Prefixes
<1>5. b \notin G /\ (b \in {"REP", "REPNZ"} => G \cap {"REP", "REPNZ"} = {})
  <2>1. ~Seen(b)
    BY DEF Prefix
  <2> QED
    BY <1>3, <2>1 DEF Seen, Prefixes
<1> HIDE DEF G
<1>6. IsFiniteSet(G \cup {b}) /\ Cardinality(G \cup {b}) = n + 1
  BY <1>3, <1>5, FS_AddElement
<1>7. \A k \in 1 .. n + 1 : fetched'[k] \in Prefixes
  BY <1>1, <1>3
<1>8. dec'.rep = (IF "REP" \in G \cup {b} THEN "REP"
                  ELSE IF "REPNZ" \in G \cup {b} THEN "REPNZ" ELSE "none")
  BY <1>3, <1>4, <1>5 DEF Prefixes
<1>9. /\ dec'.seg = ("SEG" \in G \cup {b}) /\ dec'.oper = ("OPER" \in G \cup {b})
      /\ dec'.addr = ("ADDR" \in G \cup {b})
  <2>1. dec.seg \in BOOLEAN /\ dec.oper \in BOOLEAN /\ dec.addr \in BOOLEAN
    BY <1>3
  <2>2. /\ (dec.seg \/ b = "SEG") <=> ("SEG" \in G \cup {b})
        /\ (dec.oper \/ b = "OPER") <=> ("OPER" \in G \cup {b})
        /\ (dec.addr \/ b = "ADDR") <=> ("ADDR" \in G \cup {b})
    BY <1>3, Zenon
  <2> QED
    BY <1>4, <2>2
<1>10. ~({"REP", "REPNZ"} \subseteq G \cup {b})
  BY <1>3, <1>5
<1> QED
  BY <1>2, <1>6, <1>7, <1>8, <1>9, <1>10 DEF Under

\* An instruction has at most four prefixes.
LEMMA AtMostFour ==
  ASSUME NEW n \in Nat, Under(n)
  PROVE  n <= 4
<1> DEFINE four == {"SEG", "OPER", "ADDR", "REP"}
           other == {"SEG", "OPER", "ADDR", "REPNZ"}
<1>1. /\ IsFiniteSet(four) /\ Cardinality(four) <= 4
      /\ IsFiniteSet(other) /\ Cardinality(other) <= 4
  <2>1. IsFiniteSet({"SEG"}) /\ Cardinality({"SEG"}) = 1
    BY FS_Singleton
  <2>2. /\ IsFiniteSet({"SEG"} \cup {"OPER"})
        /\ Cardinality({"SEG"} \cup {"OPER"}) <= 2
    BY <2>1, FS_AddElement
  <2>3. /\ IsFiniteSet(({"SEG"} \cup {"OPER"}) \cup {"ADDR"})
        /\ Cardinality(({"SEG"} \cup {"OPER"}) \cup {"ADDR"}) <= 3
    BY <2>2, FS_AddElement, FS_CardinalityType
  <2>4. /\ four = (({"SEG"} \cup {"OPER"}) \cup {"ADDR"}) \cup {"REP"}
        /\ other = (({"SEG"} \cup {"OPER"}) \cup {"ADDR"}) \cup {"REPNZ"}
    OBVIOUS
  <2> DEFINE three == ({"SEG"} \cup {"OPER"}) \cup {"ADDR"}
  <2>5. Cardinality(three) \in Nat
    BY <2>3, FS_CardinalityType
  <2> HIDE DEF three
  <2>6. ASSUME NEW x
        PROVE  /\ IsFiniteSet(three \cup {x})
               /\ Cardinality(three \cup {x}) <= Cardinality(three) + 1
    <3>1. IsFiniteSet(three)
      BY <2>3 DEF three
    <3>2. /\ IsFiniteSet(three \cup {x})
          /\ Cardinality(three \cup {x}) =
               IF x \in three THEN Cardinality(three) ELSE Cardinality(three) + 1
      BY <3>1, FS_AddElement
    <3> QED
      BY <2>5, <3>2
  <2> QED
    <3>1. four = three \cup {"REP"} /\ other = three \cup {"REPNZ"}
      BY <2>4 DEF three
    <3>2. Cardinality(three) <= 3
      BY <2>3 DEF three
    <3>3. ASSUME NEW x
          PROVE  IsFiniteSet(three \cup {x}) /\ Cardinality(three \cup {x}) <= 4
      <4>1. /\ IsFiniteSet(three \cup {x})
            /\ Cardinality(three \cup {x}) <= Cardinality(three) + 1
        BY <2>6
      <4>2. Cardinality(three \cup {x}) \in Nat
        BY <4>1, FS_CardinalityType
      <4> QED
        BY <2>5, <3>2, <4>1, <4>2
    <3> HIDE DEF four, other
    <3> QED
      BY <3>1, <3>3
<1>2. Given(n) \subseteq four \/ Given(n) \subseteq other
  <2>1. Given(n) \subseteq Prefixes
    BY DEF Under, Given
  <2>2. "REP" \notin Given(n) \/ "REPNZ" \notin Given(n)
    BY DEF Under
  <2> QED
    BY <2>1, <2>2 DEF Prefixes
<1>3. Cardinality(Given(n)) <= 4
  <2>1. Cardinality(Given(n)) \in Nat
    BY DEF Under
  <2>2. Cardinality(four) \in Nat /\ Cardinality(other) \in Nat
    BY <1>1, FS_CardinalityType
  <2> QED
    BY <1>1, <1>2, <2>1, <2>2, FS_Subset
<1> QED
  BY <1>3 DEF Under

-----------------------------------------------------------------------------
(* The properties follow from the invariant.                               *)

\* PrefixCount is what its definition says: there is one such number.
LEMMA CountIsUnique ==
  ASSUME TypeOK, NEW n \in 0 .. Len(fetched),
         \A k \in 1..n : fetched[k] \in Prefixes,
         n < Len(fetched) => fetched[n + 1] \notin Prefixes
  PROVE  PrefixCount = n
<1>0. Len(fetched) \in Nat
  BY LenProperties DEF TypeOK
<1>1. \A m \in 0 .. Len(fetched) :
        /\ \A k \in 1..m : fetched[k] \in Prefixes
        /\ m < Len(fetched) => fetched[m + 1] \notin Prefixes
        => m = n
  <2> SUFFICES ASSUME NEW m \in 0 .. Len(fetched),
                      \A k \in 1..m : fetched[k] \in Prefixes,
                      m < Len(fetched) => fetched[m + 1] \notin Prefixes
               PROVE  m = n
    OBVIOUS
  <2>1. CASE m < n
    BY <1>0, <2>1
  <2>2. CASE n < m
    BY <1>0, <2>2
  <2> QED
    BY <1>0, <2>1, <2>2
<1> QED
  BY <1>1 DEF PrefixCount

\* The flags of the decoder stand for the prefixes of this instruction.
LEMMA DecodingIsLocal == TypeOK /\ Decoding => PrefixesLocal
<1> SUFFICES ASSUME TypeOK, Decoding, pc # "idle"
             PROVE  \E n \in 0 .. Len(fetched) : PrefixCount = n /\ Under(n)
  BY DEF PrefixesLocal, Under, Given
<1>0. Len(fetched) \in Nat
  BY LenProperties DEF TypeOK
<1>1. CASE pc = "decode"
  <2>1. Under(Len(fetched))
    BY <1>1 DEF Decoding
  <2>2. Len(fetched) \in 0 .. Len(fetched)
    BY <1>0
  <2>3. PrefixCount = Len(fetched)
    <3>1. \A k \in 1 .. Len(fetched) : fetched[k] \in Prefixes
      BY <2>1 DEF Under
    <3> QED
      BY <1>0, <2>2, <3>1, CountIsUnique
  <2> QED
    BY <2>1, <2>2, <2>3
<1>2. CASE pc \in {"modrm", "ext", "operands"}
  <2>1. PICK n \in 0 .. Len(fetched) - 1 : fetched[n + 1] \in Opcodes /\ Under(n)
    BY <1>2 DEF Decoding
  <2>2. n \in 0 .. Len(fetched) /\ \A k \in 1..n : fetched[k] \in Prefixes
    BY <1>0, <2>1 DEF Under
  <2>3. fetched[n + 1] \notin Prefixes
    BY <2>1 DEF Opcodes, Prefixes
  <2> QED
    BY <2>1, <2>2, <2>3, CountIsUnique
<1> QED
  BY <1>1, <1>2 DEF TypeOK

-----------------------------------------------------------------------------
(* What several actions have in common.                                    *)

\* A byte more of the instruction, which has not gone elsewhere.
LEMMA ReadCommits ==
  ASSUME TypeOK, CommitExact, pc # "idle", pc' # "idle", NEW b \in Kinds, ReadInstr(b),
         code' = code, ip' = ip, start' = start,
         fault => fault', ~fault' => dec'.off = dec.off + 1
  PROVE  CommitExact'
<1>1. /\ Len(fetched') = Len(fetched) + 1 /\ b = code[Here]
      /\ \A k \in 1 .. Len(fetched) : fetched'[k] = fetched[k]
      /\ fetched'[Len(fetched) + 1] = b
  BY Fetched
<1>2. Len(fetched) \in Nat /\ ip = start
  BY LenProperties DEF TypeOK, CommitExact
<1>3. ASSUME ~fault'
      PROVE  /\ dec'.off = Len(fetched')
             /\ \A k \in 1 .. Len(fetched') : fetched'[k] = code[(start + k - 1) % Size]
  <2>1. /\ dec.off = Len(fetched)
        /\ \A k \in 1 .. Len(fetched) : fetched[k] = code[(start + k - 1) % Size]
    BY <1>3 DEF CommitExact
  <2>2. b = code[(start + (Len(fetched) + 1) - 1) % Size]
    <3>1. start + (Len(fetched) + 1) - 1 = ip + dec.off
      BY <1>2, <2>1 DEF TypeOK, Slots
    <3> QED
      BY <1>1, <3>1 DEF Here
  <2>3. ASSUME NEW k \in 1 .. Len(fetched')
        PROVE  fetched'[k] = code[(start + k - 1) % Size]
    <3>1. CASE k = Len(fetched) + 1
      BY <1>1, <2>2, <3>1
    <3>2. CASE k \in 1 .. Len(fetched)
      BY <1>1, <2>1, <3>2
    <3> QED
      BY <1>1, <1>2, <3>1, <3>2
  <2> QED
    BY <1>1, <1>3, <2>1, <2>3
<1> QED
  BY <1>2, <1>3 DEF CommitExact

\* The bytes behind the prefixes are read under these.
LEMMA ReadUnder ==
  ASSUME TypeOK, NEW b \in Kinds, ReadInstr(b), pc \in {"modrm", "ext", "operands"}, Decoding,
         dec'.seg = dec.seg, dec'.oper = dec.oper, dec'.addr = dec.addr, dec'.rep = dec.rep,
         pc' = "operands"
  PROVE  Decoding'
<1>1. /\ Len(fetched') = Len(fetched) + 1
      /\ \A k \in 1 .. Len(fetched) : fetched'[k] = fetched[k]
  BY Fetched
<1>2. Len(fetched) \in Nat
  BY LenProperties DEF TypeOK
<1>3. PICK n \in 0 .. Len(fetched) - 1 : fetched[n + 1] \in Opcodes /\ Under(n)
  BY DEF Decoding
<1>4. n \in Nat /\ n + 1 \in 1 .. Len(fetched) /\ n \in 0 .. Len(fetched') - 1
      /\ \A k \in 1..n : k \in 1 .. Len(fetched)
  BY <1>1, <1>2
<1>5. Under(n)'
  BY <1>1, <1>3, <1>4, UnderKept
<1>6. fetched'[n + 1] \in Opcodes
  BY <1>1, <1>3, <1>4
<1> QED
  BY <1>4, <1>5, <1>6 DEF Decoding

\* Once the opcode is known to be an instruction, it was not 0xF1.
LEMMA NoUnsetRun ==
  ASSUME TypeOK, Decoding, pc \in {"modrm", "ext", "operands"}
  PROVE  ~UnsetRun
<1>0. Len(fetched) \in Nat
  BY LenProperties DEF TypeOK
<1>1. PICK n \in 0 .. Len(fetched) - 1 : fetched[n + 1] \in Opcodes /\ Under(n)
  BY DEF Decoding
<1>2. fetched[n + 1] # "F1" /\ fetched[n + 1] \notin Prefixes
  BY <1>1 DEF Opcodes, Prefixes
<1> SUFFICES ASSUME NEW m \in 1 .. Len(fetched), fetched[m] = "F1",
                    \A k \in 1 .. m - 1 : fetched[k] \in Prefixes
             PROVE  FALSE
  BY DEF UnsetRun
<1>3. CASE m <= n
  <2>1. m \in 1..n
    BY <1>0, <1>3
  <2>2. fetched[m] \in Prefixes
    BY <1>1, <2>1 DEF Under
  <2> QED
    BY <2>2 DEF Prefixes
<1>4. CASE m > n + 1
  <2>1. n + 1 \in 1 .. m - 1
    BY <1>0, <1>4
  <2> QED
    BY <1>2, <2>1
<1>5. CASE m = n + 1
  BY <1>2, <1>5
<1> QED
  BY <1>0, <1>3, <1>4, <1>5

\* A byte 0xF1 behind prefixes only is the opcode.
LEMMA UnsetRead ==
  ASSUME TypeOK, ReadInstr("F1"), NEW n \in Nat, n = Len(fetched), Under(n)
  PROVE  UnsetRun'
<1>1. "F1" \in Kinds
  BY DEF Kinds
<1>2. /\ Len(fetched') = n + 1 /\ fetched'[n + 1] = "F1"
      /\ \A k \in 1..n : fetched'[k] = fetched[k]
  BY <1>1, Fetched
<1>3. \A k \in 1 .. (n + 1) - 1 : fetched'[k] \in Prefixes
  BY <1>2 DEF Under
<1>4. n + 1 \in 1 .. Len(fetched')
  BY <1>2
<1> QED
  BY <1>2, <1>3, <1>4 DEF UnsetRun

\* An instruction that fails leaves IP at its first byte.
LEMMA FailsKeeps ==
  ASSUME DecodeInv, pc # "idle", NEW err \in Results, Fails(err),
         dec' \in [seg : BOOLEAN, oper : BOOLEAN, addr : BOOLEAN,
                   rep : {"none", "REP", "REPNZ"}, off : 0 .. MaxLength],
         fetched' \in Seq(Kinds),
         err \in Errors \/ (err = "breakpoint" /\ UnsetRun')
  PROVE  DecodeInv'
<1>1. TypeOK'
  BY DEF DecodeInv, TypeOK, Fails
<1>2. Failed' /\ pc' = "idle" /\ ip' = start'
  <2>1. res' = err /\ ip' = ip /\ start' = start /\ pc' = "idle"
    BY DEF Fails
  <2> HIDE DEF UnsetRun, Errors
  <2>2. ip = start
    BY DEF DecodeInv, CommitExact
  <2>3. Failed'
    BY <2>1 DEF Failed
  <2> QED
    BY <2>1, <2>2, <2>3
<1>3. CommitExact'
  BY <1>2 DEF CommitExact
<1>4. ZeroesCaught' /\ Counted'
  <2>1. zeroes' = 0 /\ res' = err
    BY DEF Fails
  <2>2. res' = "breakpoint" => UnsetRun'
    BY <2>1 DEF Errors
  <2> HIDE DEF UnsetRun
  <2> QED
    BY <2>1, <2>2 DEF ZeroesCaught, Counted
<1>5. Decoding' /\ Short'
  BY DEF Fails, Decoding, Short
<1> QED
  BY <1>1, <1>3, <1>4, <1>5 DEF DecodeInv

\* An error in the middle of an instruction, no byte further.
LEMMA StopKeeps ==
  ASSUME DecodeInv, pc # "idle", NEW err \in Errors, Fails(err), UNCHANGED <<dec, fetched>>
  PROVE  DecodeInv'
<1>1. err \in Results
  BY DEF Results
<1>2. /\ dec' \in [seg : BOOLEAN, oper : BOOLEAN, addr : BOOLEAN,
                   rep : {"none", "REP", "REPNZ"}, off : 0 .. MaxLength]
      /\ fetched' \in Seq(Kinds)
  BY DEF DecodeInv, TypeOK
<1> QED
  BY <1>1, <1>2, FailsKeeps

\* Between instructions IP may be moved at will.
LEMMA MovedKeeps ==
  ASSUME DecodeInv, ip' \in Slots, start' \in Slots, moved' = TRUE, zeroes' = 0,
         pc' = "idle", res' = "ok",
         UNCHANGED <<code, holes, dec, null, opcode, need, fetched, fault>>
  PROVE  DecodeInv'
<1>1. TypeOK'
  BY DEF DecodeInv, TypeOK, Results
<1>2. CommitExact'
  BY DEF CommitExact, Failed, Errors
<1>3. ZeroesCaught' /\ Counted' /\ Decoding' /\ Short'
  BY DEF ZeroesCaught, Counted, Decoding, Short
<1> QED
  BY <1>1, <1>2, <1>3 DEF DecodeInv

-----------------------------------------------------------------------------
(* The actions.                                                            *)

\* The decoder's record, and IPOffset one byte further.
Decoders == [seg : BOOLEAN, oper : BOOLEAN, addr : BOOLEAN,
             rep : {"none", "REP", "REPNZ"}, off : 0 .. MaxLength]

\* A byte further the record has its type as long as IPOffset has room.
LEMMA Further ==
  ASSUME TypeOK, dec.off < MaxLength, dec' = [dec EXCEPT !.off = @ + 1]
  PROVE  /\ dec' \in Decoders /\ dec'.off = dec.off + 1
         /\ dec'.seg = dec.seg /\ dec'.oper = dec.oper /\ dec'.addr = dec.addr
         /\ dec'.rep = dec.rep
<1>1. dec \in Decoders
  BY DEF TypeOK, Decoders
<1>2. dec.off \in 0 .. MaxLength /\ dec.off + 1 \in 0 .. MaxLength
  BY <1>1 DEF Decoders, MaxLength
<1> QED
  BY <1>1, <1>2 DEF Decoders

\* Init establishes the invariant.
LEMMA InitDecode == Init => DecodeInv
<1> SUFFICES ASSUME Init PROVE DecodeInv
  OBVIOUS
<1>1. TypeOK
  <2>1. 0 \in Slots /\ <<>> \in Seq(Kinds)
    BY CodeAssumption DEF Slots
  <2>2. dec \in Decoders
    BY DEF Init, NoDecoder, Decoders, MaxLength
  <2>3. code \in [Slots -> Kinds] /\ holes \subseteq Slots
    BY CodeAssumption DEF Init
  <2>4. ip \in Slots /\ start \in Slots
    BY <2>1 DEF Init
  <2>5. /\ null \in BOOLEAN /\ pc = "idle" /\ opcode \in Opcodes /\ need \in 0..9
        /\ res = "ok" /\ fetched = <<>> /\ fault \in BOOLEAN /\ moved \in BOOLEAN
        /\ zeroes \in 0..2
    <3>1. null \in BOOLEAN /\ fault \in BOOLEAN /\ moved \in BOOLEAN
      BY Zenon DEF Init
    <3>2. opcode \in Opcodes
      BY DEF Init, Opcodes
    <3>3. need = 0 /\ zeroes = 0 /\ pc = "idle" /\ res = "ok" /\ fetched = <<>>
      BY DEF Init
    <3> QED
      BY <3>1, <3>2, <3>3
  <2> QED
    BY <2>1, <2>2, <2>3, <2>4, <2>5 DEF TypeOK, Decoders, Results
<1>2. CommitExact
  BY DEF Init, CommitExact, Failed, Errors
<1> QED
  BY <1>1, <1>2 DEF Init, DecodeInv, ZeroesCaught, Decoding, Short, Counted

\* The next instruction starts with no prefix.
LEMMA StartKeeps == DecodeInv /\ Start => DecodeInv'
<1> SUFFICES ASSUME DecodeInv, Start PROVE DecodeInv'
  OBVIOUS
<1>1. TypeOK'
  <2>1. dec' \in Decoders /\ <<>> \in Seq(Kinds)
    BY DEF Start, NoDecoder, Decoders, MaxLength
  <2> QED
    BY <2>1 DEF DecodeInv, TypeOK, Start, Decoders
<1>2. CommitExact'
  <2>1. dec'.off = 0 /\ Len(fetched') = 0
    BY DEF Start, NoDecoder
  <2> QED
    BY <2>1 DEF Start, CommitExact
<1>3. Decoding'
  <2>1. Under(0)'
    BY UnderNone DEF Start
  <2>2. Len(fetched') = 0 /\ ~fault' /\ pc' = "decode"
    BY DEF Start
  <2> QED
    BY <2>1, <2>2 DEF Decoding
<1>4. ZeroesCaught' /\ Counted' /\ Short'
  BY DEF DecodeInv, Start, ZeroesCaught, Counted, Short
<1> QED
  BY <1>1, <1>2, <1>3, <1>4 DEF DecodeInv

\* A prefix is one more of at most four.
LEMMA PrefixKeeps ==
  ASSUME DecodeInv, NEW b \in Kinds, Prefix(b)
  PROVE  DecodeInv'
<1>1. /\ TypeOK /\ CommitExact /\ pc = "decode" /\ pc' = "decode" /\ b \in Prefixes
      /\ ReadInstr(b) /\ ~fault /\ fault' = fault
  BY DEF DecodeInv, Decoding, Prefix
<1>2. PICK n \in Nat : n = Len(fetched)
  BY <1>1, LenProperties DEF TypeOK
<1>3. Under(n) /\ dec.off = n
  BY <1>1, <1>2 DEF DecodeInv, Decoding, CommitExact
<1>4. Under(n + 1)' /\ n <= 4
  BY <1>1, <1>2, <1>3, UnderMore, AtMostFour
<1>5. Len(fetched') = n + 1 /\ fetched' \in Seq(Kinds)
  BY <1>1, <1>2, Fetched
<1>6. dec' \in Decoders /\ dec'.off = dec.off + 1
  <2>1. dec \in Decoders
    BY <1>1 DEF TypeOK, Decoders
  <2>2. dec.off + 1 \in 0 .. MaxLength
    BY <1>3, <1>4 DEF MaxLength
  <2>3. [dec EXCEPT !.seg = TRUE] \in Decoders /\ [dec EXCEPT !.oper = TRUE] \in Decoders
        /\ [dec EXCEPT !.addr = TRUE] \in Decoders
        /\ (b \in {"REP", "REPNZ"} => [dec EXCEPT !.rep = b] \in Decoders)
    BY <2>1 DEF Decoders
  <2>4. PICK d \in Decoders : d.off = dec.off /\ dec' = [d EXCEPT !.off = @ + 1]
    BY <1>1, <2>1, <2>3 DEF Prefix, Prefixes, Decoders
  <2> QED
    BY <2>2, <2>4 DEF Decoders
<1>7. TypeOK'
  BY <1>1, <1>5, <1>6 DEF Prefix, TypeOK, Decoders
<1>8. CommitExact'
  <2>1. code' = code /\ ip' = ip /\ start' = start
    BY DEF Prefix
  <2> QED
    BY <1>1, <1>6, <2>1, ReadCommits
<1>9. Decoding'
  BY <1>1, <1>4, <1>5 DEF Decoding
<1>10. ZeroesCaught' /\ Counted' /\ Short'
  BY <1>1 DEF DecodeInv, Prefix, ZeroesCaught, Counted, Short
<1> QED
  BY <1>7, <1>8, <1>9, <1>10 DEF DecodeInv

\* An opcode comes behind at most four prefixes; where its ModRM byte cannot
\* be read, nothing is said of IPOffset but its bound.
LEMMA OpcodeKeeps ==
  ASSUME DecodeInv, NEW b \in Kinds, Opcode(b)
  PROVE  DecodeInv'
<1>1. /\ TypeOK /\ CommitExact /\ pc = "decode" /\ b \in Opcodes
      /\ ReadInstr(b) /\ ~fault
  BY DEF DecodeInv, Decoding, Opcode
<1>2. PICK n \in Nat : n = Len(fetched)
  BY <1>1, LenProperties DEF TypeOK
<1>3. Under(n) /\ dec.off = n /\ n <= 4
  BY <1>1, <1>2, AtMostFour DEF DecodeInv, Decoding, CommitExact
<1>4. /\ Len(fetched') = n + 1 /\ fetched' \in Seq(Kinds) /\ fetched'[n + 1] = b
      /\ \A k \in 1..n : fetched'[k] = fetched[k]
  BY <1>1, <1>2, Fetched
<1>5. /\ dec' \in Decoders /\ dec'.seg = dec.seg /\ dec'.oper = dec.oper
      /\ dec'.addr = dec.addr /\ dec'.rep = dec.rep
      /\ dec'.off <= 5 /\ (~fault' => dec'.off = dec.off + 1)
  <2>1. dec \in Decoders
    BY <1>1 DEF TypeOK, Decoders
  <2>2. \/ dec' = [dec EXCEPT !.off = dec.off + 1]
        \/ fault' /\ dec' = [dec EXCEPT !.off = dec.off]
    BY <2>1 DEF Opcode, Decoders
  <2>3. dec.off \in 0 .. MaxLength /\ dec.off + 1 \in 0 .. MaxLength
        /\ dec.off <= 5 /\ dec.off + 1 <= 5
    BY <1>3 DEF MaxLength
  <2> QED
    BY <2>1, <2>2, <2>3 DEF Decoders
<1>6. pc' \in {"modrm", "ext", "operands"} /\ need' \in 0..1 /\ fault' \in BOOLEAN
  BY DEF Opcode, Immediate
<1>7. TypeOK'
  BY <1>1, <1>4, <1>5, <1>6 DEF Opcode, TypeOK, Decoders
<1>8. CommitExact'
  <2>1. code' = code /\ ip' = ip /\ start' = start
    BY DEF Opcode
  <2> QED
    BY <1>1, <1>5, <1>6, <2>1, ReadCommits
<1>9. Decoding'
  <2>1. Under(n)'
    BY <1>3, <1>4, <1>5, UnderKept
  <2>2. b \in Opcodes
    BY <1>1
  <2>3. n \in 0 .. Len(fetched') - 1
    BY <1>4
  <2> QED
    BY <1>4, <1>6, <2>1, <2>2, <2>3 DEF Decoding
<1>10. Short'
  BY <1>5, <1>6 DEF Short, MaxLength, Decoders
<1>11. ZeroesCaught' /\ Counted'
  BY <1>6 DEF DecodeInv, Opcode, ZeroesCaught, Counted
<1> QED
  BY <1>7, <1>8, <1>9, <1>10, <1>11 DEF DecodeInv

\* A byte behind the opcode, with `more' of them still to come.
LEMMA ByteKeeps ==
  ASSUME DecodeInv, NEW b \in Kinds, ReadInstr(b), pc \in {"modrm", "ext", "operands"},
         dec' = [dec EXCEPT !.off = @ + 1], pc' = "operands",
         need' \in 0..9, dec.off + 1 + need' <= MaxLength,
         UNCHANGED <<code, holes, ip, null, opcode, res, start, fault, moved, zeroes>>
  PROVE  DecodeInv'
<1>1. TypeOK /\ CommitExact /\ Decoding
  BY DEF DecodeInv
<1>2. dec.off \in Nat /\ need' \in Nat
  BY <1>1 DEF TypeOK, MaxLength
<1>3. dec.off < MaxLength
  BY <1>2 DEF MaxLength
<1>4. /\ dec' \in Decoders /\ dec'.off = dec.off + 1
      /\ dec'.seg = dec.seg /\ dec'.oper = dec.oper /\ dec'.addr = dec.addr
      /\ dec'.rep = dec.rep
  BY <1>1, <1>3, Further
<1>5. TypeOK'
  <2>1. fetched' \in Seq(Kinds)
    BY <1>1, Fetched
  <2> QED
    BY <1>1, <1>4, <2>1 DEF TypeOK, Decoders
<1>6. CommitExact'
  BY <1>1, <1>4, ReadCommits
<1>7. Decoding'
  BY <1>1, <1>4, ReadUnder
<1>8. Short'
  BY <1>4 DEF Short
<1>9. ZeroesCaught' /\ Counted'
  BY DEF DecodeInv, ZeroesCaught, Counted
<1> QED
  BY <1>5, <1>6, <1>7, <1>8, <1>9 DEF DecodeInv

\* An error over a byte that was read.
LEMMA ReadFails ==
  ASSUME DecodeInv, pc # "idle", NEW b \in Kinds, ReadInstr(b), dec.off < MaxLength,
         dec' = [dec EXCEPT !.off = @ + 1], NEW err \in Results, Fails(err),
         err \in Errors \/ (err = "breakpoint" /\ UnsetRun')
  PROVE  DecodeInv'
<1>1. TypeOK
  BY DEF DecodeInv
<1>2. dec' \in [seg : BOOLEAN, oper : BOOLEAN, addr : BOOLEAN,
                rep : {"none", "REP", "REPNZ"}, off : 0 .. MaxLength]
  BY <1>1, Further DEF Decoders
<1>3. fetched' \in Seq(Kinds)
  BY <1>1, Fetched
<1> HIDE DEF UnsetRun
<1> QED
  BY <1>2, <1>3, FailsKeeps

\* Where there is no instruction, four prefixes at most went before; the byte
\* that is no error is 0xF1.
LEMMA NoneKeeps ==
  ASSUME DecodeInv, NEW b \in Kinds, NoInstruction(b)
  PROVE  DecodeInv'
<1>1. /\ TypeOK /\ pc = "decode" /\ ReadInstr(b) /\ dec' = [dec EXCEPT !.off = @ + 1]
      /\ ~fault /\ (Fails("undefopcode") \/ (b = "F1" /\ Fails("breakpoint")))
  BY DEF DecodeInv, Decoding, NoInstruction
<1>2. PICK n \in Nat : n = Len(fetched)
  BY <1>1, LenProperties DEF TypeOK
<1>3. Under(n) /\ dec.off = n
  BY <1>1, <1>2 DEF DecodeInv, Decoding, CommitExact
<1>4. dec.off < MaxLength
  <2>1. n <= 4
    BY <1>3, AtMostFour
  <2> QED
    BY <1>3, <2>1 DEF MaxLength
<1>5. CASE Fails("undefopcode")
  <2>1. "undefopcode" \in Errors /\ "undefopcode" \in Results
    BY DEF Errors, Results
  <2> QED
    BY <1>1, <1>4, <1>5, <2>1, ReadFails
<1>6. CASE b = "F1" /\ Fails("breakpoint")
  <2>1. UnsetRun'
    BY <1>1, <1>2, <1>3, <1>6, UnsetRead
  <2>2. "breakpoint" \in Results
    BY DEF Results
  <2> HIDE DEF UnsetRun
  <2> QED
    BY <1>1, <1>4, <1>6, <2>1, <2>2, ReadFails
<1> QED
  BY <1>1, <1>5, <1>6

\* The bytes behind the opcode are one more opcode or ModRM byte, and those
\* it calls for.
LEMMA RestKeeps ==
  ASSUME DecodeInv, NEW b \in Kinds, ModRM(b) \/ Ext0F(b) \/ Operand(b)
  PROVE  DecodeInv'
<1>1. dec.off \in Nat /\ need \in Nat /\ MaxLength = 15
  BY DEF DecodeInv, TypeOK, MaxLength
<1>2. CASE ModRM(b)
  <2>1. Extra[b] \in 0..9 /\ dec.off <= 5
    BY <1>2, CodeAssumption DEF ModRM, DecodeInv, Short
  <2> QED
    BY <1>1, <1>2, <2>1, ByteKeeps DEF ModRM
<1>3. CASE Ext0F(b)
  <2>1. CASE b = "UNDEF"
    <3>1. /\ ReadInstr(b) /\ Fails("undefopcode") /\ pc = "ext"
          /\ dec' = [dec EXCEPT !.off = @ + 1]
      BY <1>3, <2>1 DEF Ext0F
    <3>2. dec.off < MaxLength
      BY <1>1, <3>1 DEF DecodeInv, Short
    <3>3. "undefopcode" \in Errors /\ "undefopcode" \in Results
      BY DEF Errors, Results
    <3> QED
      BY <3>1, <3>2, <3>3, ReadFails
  <2>2. CASE b # "UNDEF"
    <3>1. dec.off <= 5
      BY <1>3 DEF Ext0F, DecodeInv, Short
    <3> QED
      BY <1>1, <1>3, <2>2, <3>1, ByteKeeps DEF Ext0F
  <2> QED
    BY <2>1, <2>2
<1>4. CASE Operand(b)
  <2>1. dec.off + need <= MaxLength /\ need \in 0..9 /\ need > 0
    BY <1>4 DEF Operand, DecodeInv, Short, TypeOK
  <2>2. need - 1 \in 0..9 /\ dec.off + 1 + (need - 1) <= MaxLength
    BY <1>1, <2>1
  <2> QED
    BY <1>4, <2>2, ByteKeeps DEF Operand
<1> QED
  BY <1>2, <1>3, <1>4

\* The instruction succeeds: IP goes behind its bytes unless it jumped, and a
\* second 00 00 is reported.
LEMMA SucceedsKeeps == DecodeInv /\ Succeeds => DecodeInv'
<1> SUFFICES ASSUME DecodeInv, Succeeds PROVE DecodeInv'
  OBVIOUS
<1>1. /\ TypeOK /\ CommitExact /\ Counted /\ pc = "operands" /\ pc' = "idle"
      /\ start' = start /\ fetched' = fetched /\ fault' = fault
  BY DEF DecodeInv, Succeeds
<1>2. ip' \in Slots /\ (~moved' => ip' = (ip + dec.off) % Size)
  <2>1. Commit => ip' \in Slots /\ ip' = (ip + dec.off) % Size
    BY <1>1, HereInSlots DEF Commit, Here
  <2> QED
    BY <2>1 DEF Succeeds
<1>3. code' \in [Slots -> Kinds]
  <2>1. code \in [Slots -> Kinds] /\ "ZERO" \in Kinds /\ "ONE" \in Kinds
    BY <1>1 DEF TypeOK, Kinds, Opcodes
  <2> QED
    BY <2>1 DEF Succeeds
<1>4. dec' \in Decoders
  BY <1>1 DEF Succeeds, TypeOK, Decoders
<1>5. TypeOK'
  <2>1. null' \in BOOLEAN /\ res' \in Results
    BY DEF Succeeds, DetectNull, IsNull, Results
  <2>2. zeroes' \in 0..2 /\ moved' \in BOOLEAN
    <3>1. zeroes' \in {0, 1, 2}
      BY DEF Succeeds
    <3>2. moved \in BOOLEAN /\ (moved' = TRUE \/ moved' = moved)
      BY <1>1 DEF Succeeds, TypeOK
    <3>3. moved' \in BOOLEAN
      BY <3>2, Zenon
    <3>4. zeroes' \in 0..2
      BY <3>1
    <3> QED
      BY <3>3, <3>4
  <2> QED
    BY <1>1, <1>2, <1>3, <1>4, <2>1, <2>2 DEF Succeeds, TypeOK, Decoders
<1>6. CommitExact'
  <2>1. ~Failed'
    <3>1. ~UnsetRun
      BY <1>1, NoUnsetRun DEF DecodeInv
    <3>2. ~UnsetRun'
      BY <1>1, <3>1 DEF UnsetRun
    <3>3. res' \notin Errors
      BY DEF Succeeds, DetectNull, Errors
    <3> QED
      BY <3>2, <3>3 DEF Failed
  <2>2. ~moved' /\ ~fault' => ip' = (start + Len(fetched)) % Size
    BY <1>1, <1>2 DEF CommitExact
  <2> QED
    BY <1>1, <2>1, <2>2 DEF CommitExact
<1>7. ZeroesCaught' /\ Counted'
  <2>1. /\ null' = IsNull(code')
        /\ res' = (IF IsNull(code') /\ null THEN "breakpoint" ELSE "ok")
        /\ zeroes' # 0 => IsNull(code')
        /\ zeroes' = 2 => zeroes # 0
    BY DEF Succeeds, DetectNull
  <2>2. IsNull(code') => code'[start] = "ZERO" /\ code'[(start + 1) % Size] = "ZERO"
    BY DEF IsNull
  <2>3. zeroes \in 0..2 /\ zeroes' \in 0..2
    BY <1>1, <1>5 DEF TypeOK
  <2>4. zeroes' > 0 => null'
    BY <2>1, <2>3
  <2>5. zeroes' = 2 => res' = "breakpoint"
    BY <1>1, <2>1, <2>3 DEF Counted
  <2>6. res' = "breakpoint" => code'[start'] = "ZERO" /\ code'[(start' + 1) % Size] = "ZERO"
    BY <1>1, <2>1, <2>2
  <2> QED
    BY <2>4, <2>5, <2>6 DEF ZeroesCaught, Counted
<1>8. Decoding' /\ Short'
  BY <1>1 DEF Decoding, Short
<1> QED
  BY <1>5, <1>6, <1>7, <1>8 DEF DecodeInv

\* Every step keeps the invariant.
LEMMA NextDecode == DecodeInv /\ [Next]_vars => DecodeInv'
<1> SUFFICES ASSUME DecodeInv, [Next]_vars PROVE DecodeInv'
  OBVIOUS
<1>0. {"badmem", "undefopcode", "other"} \subseteq Errors
  BY DEF Errors
<1>1. CASE Start
  BY <1>1, StartKeeps
<1>2. CASE ReadInstrFails
  <2>1. pc # "idle" /\ Fails("badmem") /\ UNCHANGED <<dec, fetched>>
    BY <1>2 DEF ReadInstrFails
  <2> QED
    BY <1>0, <2>1, StopKeeps
<1>3. ASSUME NEW b \in Kinds,
             Prefix(b) \/ NoInstruction(b) \/ Opcode(b) \/ ModRM(b) \/ Ext0F(b) \/ Operand(b)
      PROVE  DecodeInv'
  BY <1>3, PrefixKeeps, NoneKeeps, OpcodeKeeps, RestKeeps
<1>4. CASE Succeeds
  BY <1>4, SucceedsKeeps
<1>5. CASE InstrFails
  <2>1. pc # "idle" /\ Fails("other") /\ UNCHANGED <<dec, fetched>>
    BY <1>5 DEF InstrFails
  <2> QED
    BY <1>0, <2>1, StopKeeps
<1>6. CASE DivideError
  <2>1. start \in Slots
    BY DEF DecodeInv, TypeOK
  <2> QED
    BY <1>6, <2>1, MovedKeeps DEF DivideError
<1>7. CASE HleCall
  BY <1>7, MovedKeeps DEF HleCall
<1>8. CASE HostCall
  BY <1>8, MovedKeeps DEF HostCall
<1>9. CASE UNCHANGED vars
  <2>1. TypeOK' /\ CommitExact' /\ ZeroesCaught' /\ Short' /\ Counted'
    BY <1>9 DEF vars, DecodeInv, TypeOK, CommitExact, ZeroesCaught, Failed, UnsetRun, Short, Counted
  <2>2. Decoding'
    <3>1. \A n : Under(n)' = Under(n)
      BY <1>9 DEF vars, Under, Given
    <3> QED
      BY <1>9, <3>1 DEF vars, DecodeInv, Decoding
  <2> QED
    BY <2>1, <2>2 DEF DecodeInv
<1> QED
  BY <1>1, <1>2, <1>3, <1>4, <1>5, <1>6, <1>7, <1>8, <1>9 DEF Next

\* The invariant holds of every state.
THEOREM DecodeInvariant == Spec => []DecodeInv
<1> QED
  BY InitDecode, NextDecode, PTL DEF Spec

\* No code, however it wraps, makes the loop over prefixes go on for ever:
\* IPOffset stays below 16, of the 256 values it has (TypeOK).
THEOREM DecoderTypes == Spec => []TypeOK
<1>1. DecodeInv => TypeOK
  BY DEF DecodeInv
<1> QED
  BY <1>1, DecodeInvariant, PTL

\* An instruction runs under the prefixes in front of it and no others
\* (PrefixesLocal), although RME_RunOne keeps the decoder in the state.
THEOREM PrefixesAreLocal == Spec => []PrefixesLocal
<1>1. DecodeInv => PrefixesLocal
  BY DecodingIsLocal DEF DecodeInv
<1> QED
  BY <1>1, DecodeInvariant, PTL

\* IP moves past whole instructions, and not at all past one that fails
\* (CommitExact), whatever bytes the instructions are made of.
THEOREM CommitsExactly == Spec => []CommitExact
<1>1. DecodeInv => CommitExact
  BY DEF DecodeInv
<1> QED
  BY <1>1, DecodeInvariant, PTL

\* A second 00 00 in a row is reported; and the value that reports it is
\* returned of nothing but a 00 00 or an opcode 0xF1 (ZeroesCaught).
THEOREM ZeroesAreCaught == Spec => []ZeroesCaught
<1>1. DecodeInv => ZeroesCaught
  BY DEF DecodeInv
<1> QED
  BY <1>1, DecodeInvariant, PTL
=============================================================================
