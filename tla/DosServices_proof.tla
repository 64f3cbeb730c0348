-------------------------- MODULE DosServices_proof --------------------------
(***************************************************************************)
(* The theorems about the services: what HandlesExact, ScreenContained,    *)
(* ReadsReported and LoadExact say holds for every screen, disk, file      *)
(* table and program.  Handles, the screen and the disk need only what     *)
(* types are (Typed) and that `held' is the file table seen from the guest *)
(* (Handles); a program loaded needs what it finds (Fresh).                *)
(***************************************************************************)
EXTENDS DosServices, FiniteSetTheorems, FunctionTheorems, SequenceTheorems, TLAPS

\* Memory: bytes at some addresses.
Memories == UNION {[D -> 0..255] : D \in SUBSET Nat}

\* The file table, seen from the guest.
Handles ==
  /\ files \in [0..FileHandles - 1 -> Names \cup {Closed}]
  /\ \A h \in 0..2 : files[h] = Closed
  /\ held = {h \in DOMAIN files : files[h] # Closed}

\* What the variables hold, whatever the guest does.
Typed ==
  /\ guest \in Guests /\ floppy \in Floppies /\ calls \in Nat
  /\ cursor \in [x : Nat, y : Nat] /\ attr \in 0..255 /\ mem \in Memories

\* What the loader finds: nothing written but the screen, and registers of 0.
Fresh ==
  state = "off" =>
    /\ calls = 0 /\ DOMAIN mem \subseteq Video .. CellAt(Cols, Rows - 1) - 1
    /\ r = [ax |-> 0, bx |-> 0, cx |-> 0, dx |-> 0, si |-> 0, di |-> 0,
            ds |-> 0, es |-> 0, cf |-> FALSE]

\* The inductive invariant.
ServicesInv == Typed /\ Handles /\ Fresh /\ LoadExact

-----------------------------------------------------------------------------
(* Numbers and memories.                                                   *)

\* The sizes of the machine, one fact each.
LEMMA Sizes ==
  /\ BlockSize \in Nat /\ 256 <= BlockSize /\ BlockSize <= 4096
  /\ SegSpan \in Nat /\ 0 < SegSpan /\ SegSpan <= 65536
  /\ FileHandles \in Nat /\ FileHandles > 3
  /\ Cols \in Nat /\ Rows \in Nat /\ 0 < Rows /\ Rows <= Cols
  /\ SectorSize \in Nat /\ 0 < SectorSize
  /\ NCyl \in Nat /\ 0 < NCyl /\ NCyl <= 1024 /\ NHead \in Nat /\ 0 < NHead /\ NHead <= 256
  /\ SPT \in Nat /\ 0 < SPT /\ SPT <= 63
BY DosAssumption, BiosAssumption

\* A nonempty set of numbers has a least one.
LEMMA LeastOf ==
  ASSUME NEW S, S \subseteq Nat, S # {}
  PROVE  \E m \in S : \A k \in S : m <= k
<1> DEFINE R == OpToRel(<, Nat)
<1>1. IsWellFoundedOn(R, Nat)
  BY NatLessThanWellFounded, Zenon
<1>2. \A k, m \in Nat : k < m => <<k, m>> \in R
  BY DEF OpToRel
<1> HIDE DEF R
<1>3. PICK m \in S : \A k \in S : ~ (<<k, m>> \in R)
  BY <1>1, WFMin
<1>4. \A k \in S : ~(k < m)
  BY <1>2, <1>3
<1>5. \A k \in S : m <= k
  <2> SUFFICES ASSUME NEW k \in S PROVE m <= k
    OBVIOUS
  <2>1. k \in Nat /\ m \in Nat /\ ~(k < m)
    BY <1>4
  <2> QED
    BY <2>1
<1> QED
  BY <1>5

\* Min is the least element of a set of numbers,
LEMMA MinIs ==
  ASSUME NEW S, S \subseteq Nat, S # {}
  PROVE  Min(S) \in S /\ \A k \in S : Min(S) <= k
BY LeastOf DEF Min

\* and Max the greatest one of a set of numbers up to n.
LEMMA MaxIs ==
  ASSUME NEW S, S # {}, NEW n \in Nat, S \subseteq 1..n
  PROVE  Max(S) \in S /\ \A k \in S : Max(S) >= k
<1> DEFINE T == {n - k : k \in S}
<1>1. T \subseteq Nat /\ T # {}
  <2>1. \A k \in S : n - k \in Nat
    OBVIOUS
  <2> QED
    BY <2>1
<1>2. PICK t \in T : \A k \in T : t <= k
  BY <1>1, LeastOf
<1>3. PICK m \in S : t = n - m
  OBVIOUS
<1>4. \A k \in S : m >= k
  <2> SUFFICES ASSUME NEW k \in S PROVE m >= k
    OBVIOUS
  <2>1. n - k \in T
    OBVIOUS
  <2>2. n - m <= n - k
    BY <1>2, <1>3, <2>1
  <2>3. m \in 1..n /\ k \in 1..n
    OBVIOUS
  <2> QED
    BY <2>2, <2>3
<1> QED
  BY <1>4 DEF Max

\* Storing keeps bytes bytes.
LEMMA OverIs ==
  ASSUME NEW m, NEW k,
         \A a \in DOMAIN m : a \in Nat /\ m[a] \in 0..255,
         \A a \in DOMAIN k : a \in Nat /\ k[a] \in 0..255
  PROVE  m ++ k \in Memories
<1> DEFINE D == DOMAIN m \cup DOMAIN k
<1>1. m ++ k \in [D -> 0..255]
  BY DEF ++
<1>2. D \in SUBSET Nat
  OBVIOUS
<1> QED
  BY <1>1, <1>2 DEF Memories

\* A memory has bytes at addresses.
LEMMA MemoryIs ==
  ASSUME NEW m \in Memories
  PROVE  \A a \in DOMAIN m : a \in Nat /\ m[a] \in 0..255
<1>1. PICK D \in SUBSET Nat : m \in [D -> 0..255]
  BY DEF Memories
<1> QED
  BY <1>1

\* Bytes written at an address are a memory of their length.
LEMMA BytesAre ==
  ASSUME NEW at \in Nat, NEW s \in Seq(0..255)
  PROVE  /\ DOMAIN Bytes(at, s) = at .. at + Len(s) - 1
         /\ \A a \in DOMAIN Bytes(at, s) : a \in Nat /\ Bytes(at, s)[a] = s[a - at + 1]
         /\ \A a \in DOMAIN Bytes(at, s) : Bytes(at, s)[a] \in 0..255
<1>1. Len(s) \in Nat /\ \A k \in 1..Len(s) : s[k] \in 0..255
  BY ElementOfSeq, LenProperties
<1>2. DOMAIN Bytes(at, s) = at .. at + Len(s) - 1
  BY DEF Bytes
<1>3. \A a \in DOMAIN Bytes(at, s) : a - at + 1 \in 1..Len(s) /\ a \in Nat
  BY <1>1, <1>2
<1>4. \A a \in DOMAIN Bytes(at, s) : Bytes(at, s)[a] = s[a - at + 1]
  BY <1>2 DEF Bytes
<1> QED
  BY <1>1, <1>2, <1>3, <1>4

-----------------------------------------------------------------------------
(* Files.                                                                  *)

\* The strings get_ascii_z returns end at their first NUL.
LEMMA FirstNulIs ==
  ASSUME NEW m, NEW sg \in Nat, NEW ofs \in Nat, HasNul(m, sg, ofs)
  PROVE  LET f == FirstNul(m, sg, ofs)
         IN  /\ f \in ofs .. SegSpan - 1 /\ Byte(m, sg * 16 + f) = 0
             /\ \A p \in ofs .. f - 1 : Byte(m, sg * 16 + p) # 0
<1> DEFINE S == {o \in ofs .. SegSpan - 1 : Byte(m, sg * 16 + o) = 0}
<1>1. S \subseteq Nat /\ S # {}
  <2>1. S \subseteq Nat
    BY Sizes
  <2>2. S # {}
    BY DEF HasNul
  <2> QED
    BY <2>1, <2>2
<1>2. PICK o \in S : \A k \in S : o <= k
  BY <1>1, LeastOf
<1>3. \A p \in ofs .. o - 1 : Byte(m, sg * 16 + p) # 0
  <2> SUFFICES ASSUME NEW p \in ofs .. o - 1, Byte(m, sg * 16 + p) = 0 PROVE FALSE
    OBVIOUS
  <2>1. o \in ofs .. SegSpan - 1 /\ SegSpan \in Nat
    BY Sizes
  <2>2. p \in ofs .. SegSpan - 1 /\ p < o
    BY <2>1
  <2>3. p \in S
    BY <2>2
  <2>4. o <= p
    <3> HIDE DEF S
    <3> QED
      BY <1>2, <2>3
  <2> QED
    BY <2>1, <2>2, <2>4
<1>4. \E x \in ofs .. SegSpan - 1 :
        Byte(m, sg * 16 + x) = 0 /\ \A p \in ofs .. x - 1 : Byte(m, sg * 16 + p) # 0
  BY <1>2, <1>3
<1> QED
  BY <1>4 DEF FirstNul

\* The n bytes at an address.
StringAt(m, at, n) == [k \in 1..n |-> Byte(m, at + k - 1)]

\* A path is the bytes at an address up to the first zero.
PathAt(m, at, path) ==
  \E n \in Nat : /\ path = StringAt(m, at, n) /\ Byte(m, at + n) = 0
                /\ \A k \in 1..n : Byte(m, at + k - 1) # 0

\* What get_ascii_z returns is such a path.
LEMMA PathIs ==
  ASSUME NEW m, NEW sg \in Nat, NEW ofs \in Nat, get_ascii_z(m, sg, ofs).how = "found"
  PROVE  PathAt(m, sg * 16 + ofs, get_ascii_z(m, sg, ofs).path)
<1> DEFINE f == FirstNul(m, sg, ofs)
           len == (1 + f - ofs) % SegSpan
           at == sg * 16 + ofs
           path == [k \in 1 .. len - 1 |-> Byte(m, at + k - 1)]
<1>1. HasNul(m, sg, ofs) /\ len \in 1..BlockSize /\ get_ascii_z(m, sg, ofs).path = path
  BY DEF get_ascii_z
<1>2. /\ f \in ofs .. SegSpan - 1 /\ Byte(m, sg * 16 + f) = 0
      /\ \A p \in ofs .. f - 1 : Byte(m, sg * 16 + p) # 0
  BY <1>1, FirstNulIs
<1>3. len = 1 + f - ofs
  <2>1. SegSpan \in Nat \ {0} /\ 1 + f - ofs \in 1..SegSpan
    BY <1>2, Sizes
  <2>2. CASE 1 + f - ofs = SegSpan
    BY <1>1, <2>1, <2>2
  <2>3. CASE 1 + f - ofs < SegSpan
    BY <2>1, <2>3
  <2> QED
    BY <2>1, <2>2, <2>3
<1> DEFINE n == f - ofs
<1>4. n \in Nat /\ len - 1 = n /\ at + n = sg * 16 + f
  BY <1>2, <1>3, Sizes
<1>5. \A k \in 1..n : ofs + k - 1 \in ofs .. f - 1 /\ at + k - 1 = sg * 16 + (ofs + k - 1)
  BY <1>2, <1>4, Sizes
<1>6. \A k \in 1..n : Byte(m, at + k - 1) # 0
  BY <1>2, <1>5
<1>7. path = [k \in 1..n |-> Byte(m, at + k - 1)]
  BY <1>4
<1> HIDE DEF n, at, len, path
<1>8. /\ get_ascii_z(m, sg, ofs).path = StringAt(m, at, n)
      /\ Byte(m, at + n) = 0 /\ \A k \in 1..n : Byte(m, at + k - 1) # 0
  BY <1>1, <1>2, <1>4, <1>6, <1>7 DEF StringAt
<1>9. PathAt(m, at, get_ascii_z(m, sg, ofs).path)
  BY <1>4, <1>8 DEF PathAt
<1> QED
  BY <1>9 DEF at

\* Only one name lies at an address.
LEMMA OneName ==
  ASSUME NEW m, NEW at \in Nat, NEW n \in Nat, NEW name \in Names,
         Byte(m, at + n) = 0, \A k \in 1..n : Byte(m, at + k - 1) # 0,
         \A k \in 1..Len(name) : Byte(m, at + k - 1) = name[k],
         Byte(m, at + Len(name)) = 0
  PROVE  name = StringAt(m, at, n)
<1>1. name \in Seq(1..255)
  BY DosAssumption
<1>2. /\ Len(name) \in Nat /\ name \in [1..Len(name) -> 1..255]
  BY <1>1, LenProperties
<1>3. ~(Len(name) < n)
  <2> SUFFICES ASSUME Len(name) < n PROVE FALSE
    OBVIOUS
  <2>1. Len(name) + 1 \in 1..n /\ at + (Len(name) + 1) - 1 = at + Len(name)
    BY <1>2
  <2> QED
    BY <2>1
<1>4. ~(Len(name) > n)
  <2> SUFFICES ASSUME Len(name) > n PROVE FALSE
    OBVIOUS
  <2>1. n + 1 \in 1..Len(name) /\ at + (n + 1) - 1 = at + n
    BY <1>2
  <2>2. name[n + 1] = 0 /\ name[n + 1] \in 1..255
    BY <1>2, <2>1
  <2> QED
    BY <2>2
<1>5. Len(name) = n
  <2>1. Len(name) \in Nat
    BY <1>2
  <2> QED
    BY <2>1, <1>3, <1>4
<1> QED
  BY <1>2, <1>5 DEF StringAt

\* How the file table changes.
LEMMA FreeIs ==
  ASSUME Handles
  PROVE  /\ held \subseteq 3 .. FileHandles - 1
         /\ Free = (3 .. FileHandles - 1) \ held
         /\ Free # {} => Min(Free) \in Free
         /\ IsFiniteSet(held) /\ Cardinality(held) <= FileHandles - 3
         /\ Cardinality(held) = FileHandles - 3 <=> Free = {}
<1>1. FileHandles \in Nat /\ FileHandles > 3
  BY Sizes
<1>2. DOMAIN files = 0 .. FileHandles - 1
  BY DEF Handles
<1>3. held \subseteq 3 .. FileHandles - 1
  <2> SUFFICES ASSUME NEW h \in held PROVE h \in 3 .. FileHandles - 1
    OBVIOUS
  <2>1. h \in 0 .. FileHandles - 1 /\ h \notin 0..2
    BY <1>2 DEF Handles
  <2> QED
    BY <1>1, <2>1
<1>4. Free = (3 .. FileHandles - 1) \ held
  <2>1. \A h \in 3 .. FileHandles - 1 : h \in DOMAIN files
    BY <1>1, <1>2
  <2> QED
    BY <2>1 DEF Free, Handles
<1>5. Free # {} => Min(Free) \in Free
  <2>1. Free \subseteq Nat
    BY <1>1 DEF Free
  <2> QED
    BY <2>1, MinIs
<1>6. IsFiniteSet(3 .. FileHandles - 1) /\ Cardinality(3 .. FileHandles - 1) = FileHandles - 3
  BY <1>1, FS_Interval
<1>7. /\ IsFiniteSet(held) /\ Cardinality(held) <= FileHandles - 3
      /\ Cardinality(held) = FileHandles - 3 <=> held = 3 .. FileHandles - 1
  BY <1>3, <1>6, FS_Subset
<1> QED
  BY <1>3, <1>4, <1>5, <1>7

\* The calls a guest makes have registers of 16 bits.
LEMMA CallIs ==
  ASSUME Typed, NEW c \in Calls[guest.menu]
  PROVE  /\ c.int \in 0..255 /\ c.r \in Registers
         /\ \A a \in DOMAIN c.mem : a \in Nat /\ c.mem[a] \in 0..255
BY GuestAssumption DEF Typed, IsCall

\* How a service answers with CF and AX.
LEMMA AnswerIs ==
  ASSUME NEW g \in Registers, NEW f \in BOOLEAN, NEW v
  PROVE  [g EXCEPT !.cf = f, !.ax = v].ax = v /\ [g EXCEPT !.cf = f, !.ax = v].cf = f
BY DEF Registers

\* Registers are numbers.
LEMMA RegistersAre ==
  ASSUME NEW g \in Registers
  PROVE  /\ g.ax \in Nat /\ g.bx \in Nat /\ g.cx \in Nat /\ g.dx \in Nat /\ g.si \in Nat
         /\ g.di \in Nat /\ g.ds \in Nat /\ g.es \in Nat
<1>1. /\ g.ax \in Words /\ g.bx \in Words /\ g.cx \in Words /\ g.dx \in Words
      /\ g.si \in Words /\ g.di \in Words /\ g.ds \in Words /\ g.es \in Words
  BY DEF Registers
<1>2. Words \subseteq Nat
  BY DEF Words
<1> QED
  BY <1>1, <1>2

\* What a call has done to the file table when it returns.
HandlesServed(c) ==
  /\ held' = {h \in DOMAIN files : files'[h] # Closed}
  /\ Hi(c.r.ax) = 61 =>
       IF ~r'.cf THEN r'.ax \notin held \cup {0, 1, 2} /\ NamedAt(files'[r'.ax])
       ELSE /\ r'.ax = 4 <=> Cardinality(held) = FileHandles - 3
            /\ r'.ax = 2 <=> /\ Cardinality(held) < FileHandles - 3
                             /\ \A name \in Names : ~NamedAt(name)
  /\ Hi(c.r.ax) = 62 => (~r'.cf <=> c.r.bx \in held)
  /\ \A h \in held : ~(Hi(c.r.ax) = 62 /\ h = c.r.bx) => files'[h] = files[h]

\* Opening a file keeps the table and the guest's handles in step.
LEMMA OpenHandles ==
  ASSUME Typed, Handles, NEW c \in Calls[guest.menu], OpenFile(c), call' = c
  PROVE  Handles' /\ (state' = "running" => HandlesServed(c))
<1> DEFINE m == Given(c)
           at == c.r.ds * 16 + c.r.dx
           z == get_ascii_z(m, c.r.ds, c.r.dx)
<1>1. /\ c.r \in Registers /\ c.r.ds \in Nat /\ c.r.dx \in Nat /\ at \in Nat
  <2>1. c.r \in Registers
    BY CallIs
  <2>2. c.r.ds \in Nat /\ c.r.dx \in Nat
    BY <2>1, RegistersAre
  <2> QED
    BY <2>1, <2>2
<1>2. Hi(c.r.ax) = 61
  BY DEF OpenFile, IsDos, Is
<1>3. CASE ~(z.how = "found" /\ Lo(c.r.ax) = 0)
  <2>1. state' # "running" /\ FilesKept
    BY <1>3 DEF OpenFile, get_ascii_z, Ends
  <2> QED
    BY <2>1 DEF FilesKept, Handles
<1>4. CASE z.how = "found" /\ Lo(c.r.ax) = 0
  <2>1. PICK n \in Nat : /\ z.path = StringAt(m, at, n)
                         /\ Byte(m, at + n) = 0
                         /\ \A k \in 1..n : Byte(m, at + k - 1) # 0
    <3> DEFINE sg == c.r.ds
               ofs == c.r.dx
    <3>1. sg \in Nat /\ ofs \in Nat /\ get_ascii_z(m, sg, ofs).how = "found"
      BY <1>1, <1>4
    <3> HIDE DEF m, sg, ofs
    <3>2. PathAt(m, sg * 16 + ofs, get_ascii_z(m, sg, ofs).path)
      BY <3>1, PathIs
    <3> QED
      BY <3>2 DEF sg, ofs, PathAt
  <2>2. \A name \in Names : NamedAt(name) <=> name = z.path
    <3> SUFFICES ASSUME NEW name \in Names PROVE NamedAt(name) <=> name = z.path
      OBVIOUS
    <3>1. NamedAt(name) => name = z.path
      <4> SUFFICES ASSUME NamedAt(name) PROVE name = z.path
        OBVIOUS
      <4>1. /\ \A k \in 1..Len(name) : Byte(m, at + k - 1) = name[k]
            /\ Byte(m, at + Len(name)) = 0
        BY DEF NamedAt, Was, Given
      <4>2. at \in Nat
        BY <1>1
      <4> HIDE DEF m, at, z
      <4>3. name = StringAt(m, at, n)
        BY <2>1, <4>1, <4>2, OneName
      <4> QED
        BY <2>1, <4>3
    <3>2. ASSUME name = z.path PROVE NamedAt(name)
      <4>1. name \in Seq(1..255)
        BY DosAssumption
      <4>2. Len(name) = n
        <5>1. DOMAIN name = 1..n /\ DOMAIN name = 1..Len(name) /\ Len(name) \in Nat
          BY <2>1, <3>2, <4>1, LenProperties DEF StringAt
        <5> QED
          BY <5>1
      <4>3. \A k \in 1..Len(name) : Byte(m, at + k - 1) = name[k]
        BY <2>1, <3>2, <4>2 DEF StringAt
      <4> QED
        BY <2>1, <4>2, <4>3 DEF NamedAt, Was, Given
    <3> QED
      BY <3>1, <3>2
  <2>3. CASE Free = {}
    <3>1. FilesKept /\ r' = [c.r EXCEPT !.cf = TRUE, !.ax = 4]
      BY <1>4, <2>3 DEF OpenFile, Fails, Answers, Returns
    <3>2. r'.cf /\ r'.ax = 4
      BY <1>1, <3>1, AnswerIs
    <3>3. Cardinality(held) = FileHandles - 3
      BY <2>3, FreeIs
    <3>4. files' = files /\ held' = held
      BY <3>1 DEF FilesKept
    <3>5. FileHandles \in Nat /\ 4 # 2 /\ ~(FileHandles - 3 < FileHandles - 3)
      BY Sizes
    <3> QED
      BY <1>2, <3>2, <3>3, <3>4, <3>5 DEF Handles, HandlesServed
  <2>4. CASE Free # {} /\ z.path \notin Names
    <3>1. FilesKept /\ r' = [c.r EXCEPT !.cf = TRUE, !.ax = 2]
      BY <1>4, <2>4 DEF OpenFile, Fails, Answers, Returns
    <3>2. r'.cf /\ r'.ax = 2
      BY <1>1, <3>1, AnswerIs
    <3>3. Cardinality(held) < FileHandles - 3
      <4>1. Cardinality(held) <= FileHandles - 3 /\ Cardinality(held) # FileHandles - 3
        BY <2>4, FreeIs
      <4>2. Cardinality(held) \in Nat
        BY FreeIs, FS_CardinalityType
      <4> QED
        BY <4>1, <4>2, Sizes
    <3>4. \A name \in Names : ~NamedAt(name)
      BY <2>2, <2>4
    <3>5. Cardinality(held) # FileHandles - 3
      BY <2>4, FreeIs
    <3> QED
      BY <1>2, <3>1, <3>2, <3>3, <3>4, <3>5 DEF FilesKept, Handles, HandlesServed
  <2>5. CASE Free # {} /\ z.path \in Names
    <3> DEFINE new == Min(Free)
    <3>1. /\ files' = [files EXCEPT ![new] = z.path] /\ held' = held \cup {new}
          /\ r' = [c.r EXCEPT !.cf = FALSE, !.ax = new]
      BY <1>4, <2>5 DEF OpenFile, Answers, Returns
    <3>2. ~r'.cf /\ r'.ax = new
      BY <1>1, <3>1, AnswerIs
    <3>3. new \in 3 .. FileHandles - 1 /\ new \notin held
      BY <2>5, FreeIs
    <3>4. new \in DOMAIN files /\ DOMAIN files' = DOMAIN files /\ files'[new] = z.path
      BY <3>1, <3>3, Sizes DEF Handles
    <3>5. z.path # Closed
      BY <2>5, DosAssumption DEF Closed
    <3>6. \A h \in DOMAIN files : h # new => files'[h] = files[h]
      BY <3>1 DEF Handles
    <3>7. held' = {h \in DOMAIN files : files'[h] # Closed}
      BY <3>1, <3>4, <3>5, <3>6 DEF Handles
    <3>8. NamedAt(files'[new])
      BY <2>2, <2>5, <3>4
    <3>9. new \notin {0, 1, 2}
      BY <3>3
    <3>10. Handles'
      <4>1. files' \in [0..FileHandles - 1 -> Names \cup {Closed}]
        BY <2>5, <3>1 DEF Handles
      <4>2. \A h \in 0..2 : files'[h] = Closed
        <5>1. \A h \in 0..2 : h \in DOMAIN files /\ h # new
          BY <3>3, Sizes DEF Handles
        <5> QED
          BY <3>6, <5>1 DEF Handles
      <4> QED
        BY <3>4, <3>7, <4>1, <4>2 DEF Handles
    <3>11. \A h \in held : files'[h] = files[h]
      BY <3>3, <3>6 DEF Handles
    <3> HIDE DEF new
    <3> QED
      BY <1>2, <3>2, <3>3, <3>7, <3>8, <3>9, <3>10, <3>11 DEF HandlesServed
  <2> QED
    BY <2>3, <2>4, <2>5
<1> QED
  BY <1>3, <1>4

\* So does closing one.
LEMMA CloseHandles ==
  ASSUME Typed, Handles, NEW c \in Calls[guest.menu], CloseFile(c), call' = c
  PROVE  Handles' /\ (state' = "running" => HandlesServed(c))
<1> DEFINE h == c.r.bx
<1>1. c.r \in Registers
  BY CallIs
<1>2. Hi(c.r.ax) = 62
  BY DEF CloseFile, IsDos, Is
<1>3. h \in held <=> h \in DOMAIN files /\ files[h] # Closed
  BY DEF Handles
<1>4. CASE h \in held
  <2>1. /\ files' = [files EXCEPT ![h] = Closed] /\ held' = held \ {h}
        /\ r' = [c.r EXCEPT !.cf = FALSE, !.ax = 0]
    BY <1>3, <1>4 DEF CloseFile, Answers, Returns
  <2>2. ~r'.cf
    BY <1>1, <2>1, AnswerIs
  <2>3. /\ files' \in [0..FileHandles - 1 -> Names \cup {Closed}] /\ DOMAIN files' = DOMAIN files
        /\ files'[h] = Closed
    BY <1>3, <1>4, <2>1 DEF Handles
  <2>4. \A k \in DOMAIN files : k # h => files'[k] = files[k]
    BY <2>1 DEF Handles
  <2>5. held' = {k \in DOMAIN files : files'[k] # Closed}
    BY <2>1, <2>3, <2>4 DEF Handles
  <2>6. \A k \in 0..2 : files'[k] = Closed
    <3>1. \A k \in 0..2 : k \in DOMAIN files
      BY Sizes DEF Handles
    <3> QED
      BY <2>3, <2>4, <3>1 DEF Handles
  <2>7. \A k \in held : k # h => files'[k] = files[k]
    BY <2>4 DEF Handles
  <2> QED
    BY <1>2, <1>4, <2>2, <2>3, <2>5, <2>6, <2>7 DEF Handles, HandlesServed
<1>5. CASE h \notin held
  <2>1. FilesKept /\ r' = [c.r EXCEPT !.cf = TRUE, !.ax = 2]
    BY <1>3, <1>5 DEF CloseFile, Fails, Answers, Returns
  <2>2. r'.cf
    BY <1>1, <2>1, AnswerIs
  <2> QED
    BY <1>2, <1>5, <2>1, <2>2 DEF FilesKept, Handles, HandlesServed
<1> QED
  BY <1>4, <1>5

\* Which interrupt each service is for, so that no other answers a call.
LEMMA Int10Is ==
  ASSUME NEW c, Int10(c)
  PROVE  c.int = 16
BY DEF Int10, SetVideoMode, VideoIgnored, SetCursor, GetCursor, ScrollUp, ReadCell, WriteCells,
       Teletype, GetVideoMode, ToggleBlink, GetBlanking, VideoUnknown, Is

\* The disk services are INT 13h,
LEMMA Int13Is ==
  ASSUME NEW c, Int13(c)
  PROVE  c.int = 19
BY DEF Int13, ResetDisk, ReadSectors, DriveParameters, DiskType, DiskChanged, ExtendedRead,
       DiskUnknown, Is

\* the others neither of these nor INT 21h,
LEMMA OtherIs ==
  ASSUME NEW c, DebugException(c) \/ Equipment(c) \/ MemorySize(c) \/ Reboot(c) \/ Clock(c)
  PROVE  c.int \notin {16, 19, 33}
<1>1. DebugException(c) \/ Equipment(c) \/ MemorySize(c) \/ Reboot(c) =>
        c.int \in {3, 17, 18, 24, 25}
  BY DEF DebugException, Equipment, MemorySize, Reboot
<1>2. Clock(c) => c.int = 26
  BY DEF Clock
<1> QED
  BY <1>1, <1>2

\* and DOS calls but two leave the file table alone.
LEMMA DosIs ==
  ASSUME NEW c, DosCall(c)
  PROVE  /\ c.int \in {33, 47}
         /\ OpenFile(c) \/ CloseFile(c)
              \/ (FilesKept /\ (c.int = 33 => Hi(c.r.ax) \notin {61, 62}))
BY DEF DosCall, SetVector, GetVector, GetVersion, OpenFile, CloseFile, WriteFile, ResizeBlock,
       DeviceInformation, RenameFile, DosUnknown, DriverCall, IsDos, Is

\* No step breaks the file table, and each call of INT 21h does as HandlesServed says.
LEMMA HandlesNext ==
  ASSUME Typed, Handles, Next
  PROVE  Handles' /\ (Serves(33) => HandlesServed(call'))
<1>1. CASE Boot
  BY <1>1 DEF Boot, Handles, Serves
<1>2. CASE GuestCalls
  <2>1. PICK c \in Calls[guest.menu] : ((BiosCall(c) /\ FilesKept) \/ DosCall(c)) /\ call' = c
    BY <1>2 DEF GuestCalls
  <2>2. CASE BiosCall(c) /\ FilesKept
    <3>1. c.int # 33
      BY <2>2, Int10Is, Int13Is, OtherIs DEF BiosCall
    <3>2. Handles'
      BY <2>2 DEF FilesKept, Handles
    <3> QED
      BY <2>1, <3>1, <3>2 DEF Serves
  <2>3. CASE OpenFile(c)
    <3>1. Handles' /\ (state' = "running" => HandlesServed(c))
      BY <2>1, <2>3, OpenHandles
    <3> QED
      BY <2>1, <3>1 DEF Serves
  <2>4. CASE CloseFile(c)
    <3>1. Handles' /\ (state' = "running" => HandlesServed(c))
      BY <2>1, <2>4, CloseHandles
    <3> QED
      BY <2>1, <3>1 DEF Serves
  <2>5. CASE FilesKept /\ (c.int = 33 => Hi(c.r.ax) \notin {61, 62})
    <3>1. Handles'
      BY <2>5 DEF FilesKept, Handles
    <3>2. c.int = 33 => HandlesServed(c)
      BY <2>5 DEF FilesKept, Handles, HandlesServed
    <3> QED
      BY <2>1, <3>1, <3>2 DEF Serves
  <2> QED
    BY <2>1, <2>2, <2>3, <2>4, <2>5, DosIs
<1> QED
  BY <1>1, <1>2 DEF Next

-----------------------------------------------------------------------------
(* Folds.  A fold over a sequence is a recursive function on the sets of   *)
(* its indices, which takes the greatest index off the set.  That there is *)
(* such a function at all is shown by induction on the length.             *)

\* A fold takes the greatest index first; this is what it leaves.
Rest(s) == s \ {Max(s)}

\* What is left are indices still,
LEMMA RestIs ==
  ASSUME NEW n \in Nat, NEW s, s \subseteq 1..n, s # {}
  PROVE  Max(s) \in 1..n /\ Rest(s) \subseteq 1..n
<1>1. Max(s) \in s
  BY MaxIs
<1> QED
  BY <1>1 DEF Rest

\* and of all up to k + 1 it is those up to k.
LEMMA RestOfAll ==
  ASSUME NEW k \in Nat
  PROVE  Max(1..k + 1) = k + 1 /\ Rest(1..k + 1) = 1..k
<1> DEFINE s == 1..k + 1
<1>1. s # {} /\ s \subseteq 1..k + 1 /\ k + 1 \in s /\ k + 1 \in Nat
  OBVIOUS
<1>2. Max(s) \in s /\ \A j \in s : Max(s) >= j
  <2> HIDE DEF s
  <2> QED
    BY <1>1, MaxIs
<1>3. Max(s) = k + 1
  BY <1>1, <1>2
<1>4. s \ {k + 1} = 1..k
  OBVIOUS
<1> QED
  BY <1>3, <1>4 DEF Rest

\* f is the fold of G from b over the subsets of 1..n.
IsFold(f, n, b, G) ==
  \A s \in SUBSET (1..n) : f[s] = IF s = {} THEN b ELSE G[<<f[Rest(s)], Max(s)>>]

\* There is one, so that the CHOOSE of the library's folds has something to choose.
LEMMA FoldExists ==
  ASSUME NEW T, NEW b \in T, NEW n \in Nat, NEW G \in [T \X Nat -> T]
  PROVE  \E f \in [SUBSET (1..n) -> T] : IsFold(f, n, b, G)
<1> DEFINE Folds(k) == \E f \in [SUBSET (1..k) -> T] : IsFold(f, k, b, G)
           Bad == {k \in Nat : ~Folds(k)}
<1>1. Folds(0)
  <2> DEFINE f == [s \in SUBSET (1..0) |-> b]
  <2>1. f \in [SUBSET (1..0) -> T]
    OBVIOUS
  <2>2. IsFold(f, 0, b, G)
    <3>1. \A s \in SUBSET (1..0) : s = {} /\ f[s] = b
      OBVIOUS
    <3> HIDE DEF f
    <3> QED
      BY <3>1 DEF IsFold
  <2> HIDE DEF f
  <2> QED
    BY <2>1, <2>2
<1>2. ASSUME NEW k \in Nat, Folds(k) PROVE Folds(k + 1)
  <2>1. PICK f \in [SUBSET (1..k) -> T] : IsFold(f, k, b, G)
    BY <1>2
  <2> DEFINE g == [s \in SUBSET (1..k + 1) |->
                     IF k + 1 \in s THEN G[<<f[s \ {k + 1}], k + 1>>] ELSE f[s]]
  <2>2. \A s \in SUBSET (1..k + 1) :
          IF k + 1 \in s THEN s \ {k + 1} \in SUBSET (1..k) ELSE s \in SUBSET (1..k)
    <3> SUFFICES ASSUME NEW s \in SUBSET (1..k + 1)
                 PROVE  s \ {k + 1} \subseteq 1..k
      OBVIOUS
    <3>1. \A j \in s : j \in 1..k \/ j = k + 1
      OBVIOUS
    <3> QED
      BY <3>1
  <2>3. g \in [SUBSET (1..k + 1) -> T]
    <3>1. \A s \in SUBSET (1..k + 1) :
            (IF k + 1 \in s THEN G[<<f[s \ {k + 1}], k + 1>>] ELSE f[s]) \in T
      BY <2>2
    <3> QED
      BY <3>1
  <2>4. \A s \in SUBSET (1..k) : g[s] = f[s]
    <3>1. \A s \in SUBSET (1..k) : s \in SUBSET (1..k + 1) /\ k + 1 \notin s
      OBVIOUS
    <3> QED
      BY <3>1
  <2>5. \A s \in SUBSET (1..k + 1) : k + 1 \in s => g[s] = G[<<f[s \ {k + 1}], k + 1>>]
    OBVIOUS
  <2> HIDE DEF g
  <2>6. ASSUME NEW s \in SUBSET (1..k + 1)
        PROVE  g[s] = IF s = {} THEN b ELSE G[<<g[Rest(s)], Max(s)>>]
    <3>1. CASE k + 1 \in s
      <4>1. Max(s) \in s /\ \A j \in s : Max(s) >= j
        <5>1. k + 1 \in Nat /\ s # {} /\ s \subseteq 1..k + 1
          BY <3>1
        <5> QED
          BY <5>1, MaxIs
      <4>2. Max(s) = k + 1
        <5>1. Max(s) \in 1..k + 1 /\ Max(s) >= k + 1
          BY <3>1, <4>1
        <5> QED
          BY <5>1
      <4>3. Rest(s) = s \ {k + 1} /\ Rest(s) \in SUBSET (1..k)
        BY <2>2, <3>1, <4>2 DEF Rest
      <4> QED
        BY <2>4, <2>5, <3>1, <4>2, <4>3
    <3>2. CASE k + 1 \notin s
      <4>1. s \in SUBSET (1..k) /\ g[s] = f[s]
        BY <2>2, <2>4, <3>2
      <4>2. s # {} => g[Rest(s)] = f[Rest(s)]
        BY <2>4, <4>1, RestIs
      <4> QED
        BY <2>1, <4>1, <4>2 DEF IsFold
    <3> QED
      BY <3>1, <3>2
  <2>7. IsFold(g, k + 1, b, G)
    BY <2>6 DEF IsFold
  <2> QED
    BY <2>3, <2>7
<1>3. Bad = {}
  <2> SUFFICES ASSUME Bad # {} PROVE FALSE
    OBVIOUS
  <2> HIDE DEF Folds
  <2>1. Bad \subseteq Nat
    OBVIOUS
  <2>2. PICK m \in Bad : \A k \in Bad : m <= k
    <3> HIDE DEF Bad
    <3> QED
      BY <2>1, LeastOf
  <2>3. m # 0
    BY <1>1
  <2>4. m - 1 \in Nat /\ m - 1 \notin Bad
    BY <2>2, <2>3
  <2>5. Folds(m - 1 + 1)
    BY <1>2, <2>4
  <2> QED
    BY <2>5
<1>4. Folds(n)
  <2> HIDE DEF Folds
  <2> QED
    BY <1>3
<1> QED
  BY <1>4

\* What every character keeps, a string keeps.
LEMMA PutStringKeeps ==
  ASSUME NEW T, NEW s \in T, NEW text \in Seq(0..255), NEW at \in 0..255,
         \A t \in T, ch \in 0..255 : PutChar(t, ch, at) \in T
  PROVE  Bios_PutString(s, text, at) \in T
<1> DEFINE n == Len(text)
           D == SUBSET (1..n)
           Folding(g) == g = [u \in D |-> IF u = {} THEN s
                                          ELSE PutChar(g[Rest(u)], text[Max(u)], at)]
           it == CHOOSE g : Folding(g)
<1>1. n \in Nat /\ DOMAIN text = 1..n /\ \A k \in 1..n : text[k] \in 0..255
  BY LenProperties, ElementOfSeq
<1>2. Bios_PutString(s, text, at) = it[1..n]
  <2>1. Bios_PutString(s, text, at) =
          (CHOOSE g : g = [u \in SUBSET DOMAIN text |->
             IF u = {} THEN s ELSE PutChar(g[u \ {Max(u)}], text[Max(u)], at)])[DOMAIN text]
    BY DEF Bios_PutString, FoldLeft, MapThenFoldSet
  <2> QED
    BY <1>1, <2>1 DEF Rest
<1>3. \E g : Folding(g)
  <2> DEFINE G == [p \in T \X Nat |-> IF p[2] \in 1..n THEN PutChar(p[1], text[p[2]], at) ELSE s]
  <2>1. G \in [T \X Nat -> T]
    BY <1>1
  <2>2. \A t \in T, k \in 1..n : G[<<t, k>>] = PutChar(t, text[k], at)
    OBVIOUS
  <2> HIDE DEF G, n
  <2>3. PICK f \in [SUBSET (1..n) -> T] : IsFold(f, n, s, G)
    BY <1>1, <2>1, FoldExists
  <2>4. \A u \in D : f[u] = IF u = {} THEN s ELSE PutChar(f[Rest(u)], text[Max(u)], at)
    <3> SUFFICES ASSUME NEW u \in SUBSET (1..n), u # {}
                 PROVE  f[u] = PutChar(f[Rest(u)], text[Max(u)], at)
      BY <2>3 DEF IsFold
    <3>1. Max(u) \in 1..n /\ Rest(u) \in SUBSET (1..n)
      BY <1>1, RestIs
    <3>2. f[u] = G[<<f[Rest(u)], Max(u)>>]
      BY <2>3 DEF IsFold
    <3> QED
      BY <2>2, <3>1, <3>2
  <2>5. Folding(f)
    BY <2>4
  <2> QED
    BY <2>5
<1>4. Folding(it)
  BY <1>3
<1>5. /\ it[{}] = s
      /\ \A u \in D : u # {} => it[u] = PutChar(it[Rest(u)], text[Max(u)], at)
  <2>1. {} \in D
    OBVIOUS
  <2> HIDE DEF it, D
  <2> QED
    BY <1>4, <2>1
<1> HIDE DEF it, Is
<1> DEFINE Bad == {k \in 0..n : it[1..k] \notin T}
<1>6. Bad = {}
  <2> SUFFICES ASSUME Bad # {} PROVE FALSE
    OBVIOUS
  <2>1. Bad \subseteq Nat
    OBVIOUS
  <2>2. PICK m \in Bad : \A k \in Bad : m <= k
    <3> HIDE DEF Bad
    <3> QED
      BY <2>1, LeastOf
  <2>3. m \in 0..n /\ it[1..m] \notin T
    OBVIOUS
  <2>4. m # 0
    <3>1. 1..0 = {}
      OBVIOUS
    <3> QED
      BY <1>5, <2>3, <3>1
  <2>5. m - 1 \in Nat /\ m - 1 \in 0..n /\ m = (m - 1) + 1
    BY <1>1, <2>3, <2>4
  <2>6. it[1..m - 1] \in T
    <3>1. ~(m <= m - 1)
      BY <2>5
    <3>2. m - 1 \notin Bad
      BY <2>2, <3>1
    <3> QED
      BY <2>5, <3>2
  <2>7. Max(1..m) = m /\ Rest(1..m) = 1..m - 1
    BY <2>5, RestOfAll
  <2>8. 1..m \in D /\ 1..m # {} /\ m \in 1..n
    <3>1. m \in 1..n
      BY <1>1, <2>3, <2>4
    <3>2. 1 \in 1..m /\ 1..m \subseteq 1..n
      BY <1>1, <3>1
    <3> QED
      BY <3>1, <3>2
  <2>9. it[1..m] = PutChar(it[1..m - 1], text[m], at)
    BY <1>5, <2>7, <2>8
  <2> QED
    BY <1>1, <2>3, <2>6, <2>8, <2>9
<1>7. it[1..n] \in T
  BY <1>1, <1>6
<1> QED
  BY <1>2, <1>7

-----------------------------------------------------------------------------
(* The screen.                                                             *)

\* A screen is a cursor and memory; those of main have nothing else in memory.
Screens == [x : Nat, y : Nat, mem : Memories]
ScreensInside ==
  {s \in Screens : /\ s.x \in 0..Cols - 1 /\ s.y \in 0..Rows - 1
                   /\ DOMAIN s.mem \subseteq Video .. CellAt(Cols, Rows - 1) - 1}

\* The video page has an address.
LEMMA VideoIs == Video \in Nat
BY SMT DEF Video

\* A cell is two bytes behind those of the rows above and the columns before.
LEMMA CellIs ==
  ASSUME NEW x \in Nat, NEW y \in Nat
  PROVE  /\ y * Cols \in Nat /\ CellAt(x, y) \in Nat /\ CellAt(x, y) >= Video
         /\ CellAt(x, y) = Video + 2 * (y * Cols) + 2 * x
         /\ \A z \in Nat : y <= z => y * Cols <= z * Cols
<1>1. y * Cols \in Nat
  BY Sizes
<1>2. CellAt(x, y) = Video + 2 * (y * Cols) + 2 * x
  BY <1>1, VideoIs DEF CellAt
<1>3. ASSUME NEW z \in Nat, y <= z PROVE y * Cols <= z * Cols
  <2>1. z - y \in Nat /\ Cols \in Nat
    BY <1>3, Sizes
  <2>2. (z - y) * Cols \in Nat /\ z * Cols = y * Cols + (z - y) * Cols
    BY <2>1
  <2> QED
    BY <1>1, <2>2
<1> QED
  BY <1>1, <1>2, <1>3, VideoIs

\* A screen with a cell shown.
CellShown(s, t) ==
  /\ t \in Screens /\ t.x = s.x /\ t.y = s.y
  /\ DOMAIN t.mem = DOMAIN s.mem \cup {CellAt(s.x, s.y), CellAt(s.x, s.y) + 1}
  /\ \A a \in DOMAIN s.mem : a \notin {CellAt(s.x, s.y), CellAt(s.x, s.y) + 1} =>
       t.mem[a] = s.mem[a]

\* Shown writes the cell it is given and no other byte.
LEMMA ShownIs ==
  ASSUME NEW s \in Screens, NEW ch \in 0..255, NEW at \in 0..255
  PROVE  CellShown(s, Shown(s, ch, at))
<1> DEFINE c == CellAt(s.x, s.y)
           b == Bytes(c, <<ch, at>>)
           m == b ++ s.mem
<1>1. s.x \in Nat /\ s.y \in Nat /\ s.mem \in Memories
  BY DEF Screens
<1>2. c \in Nat
  BY <1>1, CellIs
<1>3. <<ch, at>> \in Seq(0..255) /\ Len(<<ch, at>>) = 2
  OBVIOUS
<1>4. DOMAIN b = c .. c + 1 /\ \A a \in DOMAIN b : a \in Nat /\ b[a] \in 0..255
  <2> DEFINE v == <<ch, at>>
  <2> HIDE DEF v, c
  <2>1. /\ DOMAIN Bytes(c, v) = c .. c + Len(v) - 1
        /\ \A a \in DOMAIN Bytes(c, v) : a \in Nat /\ Bytes(c, v)[a] \in 0..255
    BY <1>2, <1>3, BytesAre DEF v
  <2>2. c + Len(v) - 1 = c + 1
    BY <1>2, <1>3 DEF v
  <2> QED
    BY <2>1, <2>2 DEF v
<1>5. m \in Memories
  BY <1>1, <1>4, OverIs, MemoryIs
<1>6. c .. c + 1 = {c, c + 1}
  BY <1>2
<1>7. /\ DOMAIN m = DOMAIN s.mem \cup {c, c + 1}
      /\ \A a \in DOMAIN s.mem : a \notin {c, c + 1} => m[a] = s.mem[a]
  BY <1>4, <1>6 DEF ++
<1>8. Shown(s, ch, at) = [s EXCEPT !.mem = m]
  BY DEF Shown
<1> HIDE DEF m, c
<1>9. /\ Shown(s, ch, at) \in Screens /\ Shown(s, ch, at).mem = m
      /\ Shown(s, ch, at).x = s.x /\ Shown(s, ch, at).y = s.y
  BY <1>5, <1>8 DEF Screens
<1> QED
  BY <1>7, <1>9 DEF c, CellShown

\* The cursor moves on, and stays on the screen if it was there.
LEMMA AdvancedIs ==
  ASSUME NEW s \in Screens
  PROVE  /\ Advanced(s) \in Screens /\ Advanced(s).mem = s.mem
         /\ s.x \in 0..Cols - 1 /\ s.y \in 0..Rows - 1 =>
              Advanced(s).x \in 0..Cols - 1 /\ Advanced(s).y \in 0..Rows - 1
<1>1. s.x \in Nat /\ s.y \in Nat /\ s.mem \in Memories
  BY DEF Screens
<1>2. CASE s.x + 1 # Cols
  <2>1. Advanced(s) = [s EXCEPT !.x = s.x + 1]
    BY <1>2 DEF Advanced
  <2>2. /\ Advanced(s) \in Screens /\ Advanced(s).mem = s.mem
        /\ Advanced(s).x = s.x + 1 /\ Advanced(s).y = s.y
    BY <1>1, <2>1 DEF Screens
  <2> QED
    BY <1>1, <1>2, <2>2, Sizes
<1>3. CASE s.x + 1 = Cols
  <2> DEFINE to == IF s.y + 1 = Rows THEN s.y ELSE s.y + 1
  <2>1. to \in Nat /\ (s.y \in 0..Rows - 1 => to \in 0..Rows - 1)
    BY <1>1, Sizes
  <2>2. Advanced(s) = [x |-> 0, y |-> to, mem |-> s.mem]
    BY <1>3 DEF Advanced, Screens
  <2> HIDE DEF to
  <2>3. /\ Advanced(s) \in Screens /\ Advanced(s).mem = s.mem
        /\ Advanced(s).x = 0 /\ Advanced(s).y = to
    BY <1>1, <2>1, <2>2 DEF Screens
  <2> QED
    BY <2>1, <2>3, Sizes
<1> QED
  BY <1>2, <1>3

\* A character moves the cursor, and writes at most the cell it was at.
CharPut(s, t) ==
  /\ s.x \in 0..Cols - 1 /\ s.y \in 0..Rows - 1 => t.x \in 0..Cols - 1 /\ t.y \in 0..Rows - 1
  /\ DOMAIN s.mem \subseteq DOMAIN t.mem
  /\ DOMAIN t.mem \subseteq DOMAIN s.mem \cup {CellAt(s.x, s.y), CellAt(s.x, s.y) + 1}
  /\ \A a \in DOMAIN s.mem : a \notin {CellAt(s.x, s.y), CellAt(s.x, s.y) + 1} =>
       t.mem[a] = s.mem[a]

\* Any character, printed or not, does as CharPut says.
LEMMA PutCharIs ==
  ASSUME NEW s \in Screens, NEW ch \in 0..255, NEW at \in 0..255
  PROVE  PutChar(s, ch, at) \in Screens /\ CharPut(s, PutChar(s, ch, at))
<1>1. s.x \in Nat /\ s.y \in Nat /\ s.mem \in Memories
  BY DEF Screens
<1>2. CASE ch = 10
  <2> DEFINE to == IF s.y + 1 = Rows THEN 0 ELSE s.y + 1
  <2>1. to \in Nat /\ (s.y \in 0..Rows - 1 => to \in 0..Rows - 1)
    BY <1>1, Sizes
  <2>2. PutChar(s, ch, at) = [s EXCEPT !.y = to]
    BY <1>2 DEF PutChar
  <2> HIDE DEF to
  <2>3. /\ PutChar(s, ch, at) \in Screens /\ PutChar(s, ch, at).mem = s.mem
        /\ PutChar(s, ch, at).x = s.x /\ PutChar(s, ch, at).y = to
    BY <1>1, <2>1, <2>2 DEF Screens
  <2> QED
    BY <2>1, <2>3 DEF CharPut
<1>3. CASE ch = 13
  <2>1. PutChar(s, ch, at) = [s EXCEPT !.x = 0]
    BY <1>3 DEF PutChar
  <2>2. /\ PutChar(s, ch, at) \in Screens /\ PutChar(s, ch, at).mem = s.mem
        /\ PutChar(s, ch, at).x = 0 /\ PutChar(s, ch, at).y = s.y
    BY <1>1, <2>1 DEF Screens
  <2> QED
    BY <2>2, Sizes DEF CharPut
<1>4. CASE ch = 8
  <2> DEFINE to == IF s.x > 0 THEN s.x - 1 ELSE s.x
  <2>1. to \in Nat /\ (s.x \in 0..Cols - 1 => to \in 0..Cols - 1)
    BY <1>1, Sizes
  <2>2. PutChar(s, ch, at) = [s EXCEPT !.x = to]
    BY <1>4 DEF PutChar
  <2> HIDE DEF to
  <2>3. /\ PutChar(s, ch, at) \in Screens /\ PutChar(s, ch, at).mem = s.mem
        /\ PutChar(s, ch, at).x = to /\ PutChar(s, ch, at).y = s.y
    BY <1>1, <2>1, <2>2 DEF Screens
  <2> QED
    BY <2>1, <2>3 DEF CharPut
<1>5. CASE ch \notin {8, 10, 13}
  <2>1. PutChar(s, ch, at) = Advanced(Shown(s, ch, at))
    BY <1>5, Zenon DEF PutChar
  <2> DEFINE t == Shown(s, ch, at)
  <2>5. CellShown(s, t)
    BY ShownIs
  <2> HIDE DEF t
  <2>2. /\ t \in Screens /\ t.x = s.x /\ t.y = s.y
        /\ DOMAIN t.mem = DOMAIN s.mem \cup {CellAt(s.x, s.y), CellAt(s.x, s.y) + 1}
        /\ \A a \in DOMAIN s.mem : a \notin {CellAt(s.x, s.y), CellAt(s.x, s.y) + 1} =>
              t.mem[a] = s.mem[a]
    BY <2>5 DEF CellShown
  <2>3. /\ Advanced(t) \in Screens /\ Advanced(t).mem = t.mem
        /\ s.x \in 0..Cols - 1 /\ s.y \in 0..Rows - 1 =>
             Advanced(t).x \in 0..Cols - 1 /\ Advanced(t).y \in 0..Rows - 1
    BY <2>2, AdvancedIs
  <2>4. PutChar(s, ch, at) = Advanced(t)
    BY <2>1 DEF t
  <2> QED
    BY <2>2, <2>3, <2>4 DEF CharPut
<1> QED
  BY <1>2, <1>3, <1>4, <1>5

\* A string keeps the cursor on the screen and its bytes in the video page.
LEMMA StringsAre ==
  ASSUME NEW text \in Seq(0..255), NEW at \in 0..255, NEW s \in Screens
  PROVE  /\ Bios_PutString(s, text, at) \in Screens
         /\ s \in ScreensInside => Bios_PutString(s, text, at) \in ScreensInside
<1>1. \A t \in Screens, ch \in 0..255 : PutChar(t, ch, at) \in Screens
  BY PutCharIs, Zenon
<1>2. ASSUME NEW t \in ScreensInside, NEW ch \in 0..255
      PROVE  PutChar(t, ch, at) \in ScreensInside
  <2>1. /\ t \in Screens /\ t.x \in 0..Cols - 1 /\ t.y \in 0..Rows - 1
        /\ DOMAIN t.mem \subseteq Video .. CellAt(Cols, Rows - 1) - 1
    BY DEF ScreensInside
  <2> DEFINE c == CellAt(t.x, t.y)
  <2>2. {c, c + 1} \subseteq Video .. CellAt(Cols, Rows - 1) - 1
    <3>1. /\ t.x \in Nat /\ t.y \in Nat /\ t.x < Cols /\ t.y <= Rows - 1
          /\ Rows - 1 \in Nat /\ Cols \in Nat
      BY <2>1, Sizes
    <3>2. /\ c = Video + 2 * (t.y * Cols) + 2 * t.x /\ c \in Nat /\ c >= Video
          /\ t.y * Cols \in Nat /\ t.y * Cols <= (Rows - 1) * Cols
      BY <3>1, CellIs
    <3>3. /\ CellAt(Cols, Rows - 1) = Video + 2 * ((Rows - 1) * Cols) + 2 * Cols
          /\ (Rows - 1) * Cols \in Nat
      BY <3>1, CellIs
    <3> DEFINE e == CellAt(Cols, Rows - 1)
               u == t.y * Cols
               w == (Rows - 1) * Cols
    <3>4. /\ c = Video + 2 * u + 2 * t.x /\ e = Video + 2 * w + 2 * Cols /\ u <= w
          /\ u \in Nat /\ w \in Nat /\ Video \in Nat
      BY <3>2, <3>3, VideoIs
    <3> HIDE DEF c, e, u, w
    <3>5. t.x \in Nat /\ t.x + 1 <= Cols /\ Cols \in Nat
      BY <3>1
    <3>6. c \in Nat /\ e \in Nat /\ Video <= c /\ c + 2 <= e
      BY <3>4, <3>5
    <3>7. c \in Video .. e - 1 /\ c + 1 \in Video .. e - 1
      BY <3>4, <3>6
    <3> QED
      BY <3>7 DEF e
  <2> HIDE DEF c
  <2>3. /\ PutChar(t, ch, at) \in Screens
        /\ PutChar(t, ch, at).x \in 0..Cols - 1 /\ PutChar(t, ch, at).y \in 0..Rows - 1
        /\ DOMAIN PutChar(t, ch, at).mem \subseteq DOMAIN t.mem \cup {c, c + 1}
    BY <2>1, PutCharIs, Zenon DEF c, CharPut
  <2> QED
    BY <2>1, <2>2, <2>3 DEF ScreensInside
<1>3. Bios_PutString(s, text, at) \in Screens
  BY <1>1, PutStringKeeps, Zenon
<1>4. s \in ScreensInside => Bios_PutString(s, text, at) \in ScreensInside
  BY <1>2, PutStringKeeps, Zenon
<1> QED
  BY <1>3, <1>4

\* Bytes not written show the memory below.
LEMMA Elsewhere ==
  ASSUME NEW f, NEW g, NEW a, a \notin DOMAIN f
  PROVE  Byte(f ++ g, a) = Byte(g, a)
BY DEF Byte, ++

\* What ScreenContained says of a call that was served.
Contained ==
  /\ OnScreen(cursor'.x, cursor'.y)
  /\ \A a \in Stored : Now(a) # Was(a) => \E p \in Asked : a - CellAt(p[1], p[2]) \in {0, 1}

\* A call that moves and writes nothing is contained.
LEMMA StillContained ==
  ASSUME NEW c, call' = c, OnScreen(cursor.x, cursor.y), mem' = Given(c), cursor' = cursor
  PROVE  Contained
BY DEF Contained, Now, Was, Given

\* AH=06 clears the cells between its corners.
LEMMA ScrollContained ==
  ASSUME Typed, NEW c \in Calls[guest.menu], ScrollUp(c), call' = c, state' = "running",
         OnScreen(cursor.x, cursor.y)
  PROVE  Contained
<1> DEFINE cut(v, limit) == IF v > limit THEN limit ELSE v
           tx == Lo(c.r.cx)
           bx == cut(Lo(c.r.dx), Cols)
           ty == Hi(c.r.cx)
           by == cut(Hi(c.r.dx), Rows)
           page == [a \in Video .. CellAt(bx, by) + 1 |-> IF a % 2 = 0 THEN 32 ELSE 0]
           cells == {CellAt(x, y) : x \in tx..bx, y \in ty..by}
           K == cells \cup {k + 1 : k \in cells}
<1>1. /\ mem' = IF Lo(c.r.ax) = 0 THEN [a \in K |-> page[a]] ++ Given(c) ELSE Given(c)
      /\ cursor' = cursor /\ Hi(c.r.ax) = 6
  BY DEF ScrollUp, Ends, Is
<1>2. c.r.cx \in Nat /\ c.r.dx \in Nat
  BY CallIs, RegistersAre
<1>3. /\ Lo(c.r.cx) \in Nat /\ Lo(c.r.dx) \in Nat /\ Hi(c.r.cx) \in Nat /\ Hi(c.r.dx) \in Nat
      /\ bx <= Lo(c.r.dx) /\ by <= Hi(c.r.dx) /\ bx \in Nat /\ by \in Nat
  BY <1>2, Sizes DEF Lo, Hi
<1>4. CASE Lo(c.r.ax) # 0
  BY <1>1, <1>4, StillContained
<1>5. CASE Lo(c.r.ax) = 0
  <2>1. ASSUME NEW a \in Stored, Now(a) # Was(a)
        PROVE  \E p \in Asked : a - CellAt(p[1], p[2]) \in {0, 1}
    <3> DEFINE f == [k \in K |-> page[k]]
    <3>1. a \in K
      <4>1. mem' = f ++ Given(c) /\ DOMAIN f = K
        BY <1>1, <1>5
      <4> HIDE DEF f
      <4>2. Now(a) = Byte(f ++ Given(c), a) /\ Was(a) = Byte(Given(c), a)
        BY <4>1 DEF Now, Was, Given
      <4> QED
        BY <2>1, <4>1, <4>2, Elsewhere
    <3>2. PICK x \in tx..bx, y \in ty..by : a = CellAt(x, y) \/ a = CellAt(x, y) + 1
      BY <3>1
    <3>3. Asked = (Lo(c.r.cx)..Lo(c.r.dx)) \X (Hi(c.r.cx)..Hi(c.r.dx))
      BY <1>1 DEF Asked, AH
    <3>4. /\ x \in Lo(c.r.cx)..Lo(c.r.dx) /\ y \in Hi(c.r.cx)..Hi(c.r.dx)
          /\ x \in Nat /\ y \in Nat
      <4> HIDE DEF bx, by
      <4> QED
        BY <1>3
    <3>5. CellAt(x, y) \in Nat
      BY <3>4, CellIs
    <3>6. <<x, y>> \in Asked /\ a - CellAt(x, y) \in {0, 1}
      BY <3>2, <3>3, <3>4, <3>5
    <3> QED
      BY <3>6
  <2> QED
    BY <1>1, <2>1 DEF Contained
<1> QED
  BY <1>4, <1>5

\* AH=09 fills cells from the cursor to the end of the row.
LEMMA CellsContained ==
  ASSUME Typed, NEW c \in Calls[guest.menu], WriteCells(c), call' = c,
         OnScreen(cursor.x, cursor.y), Proper
  PROVE  Contained
<1> DEFINE x == cursor.x
           y == cursor.y
           count == c.r.cx
           room == IF x < Rows THEN Rows - x ELSE count + 1
           n == IF count < room THEN count ELSE room
           at == CellAt(x, y)
           f == [a \in at + 0 .. at + (2 * n - 1) |->
                   IF a % 2 = 0 THEN Lo(c.r.ax) ELSE Lo(c.r.bx)]
           to == IF n = room THEN Rows - 1 ELSE x + n
<1>1. /\ mem' = f ++ Given(c) /\ Hi(c.r.ax) = 9
      /\ cursor' = [cursor EXCEPT !.x = to]
  BY DEF WriteCells, Is
<1>2. /\ x \in 0..Cols - 1 /\ y \in 0..Rows - 1 /\ x \in Nat /\ y \in Nat
      /\ cursor \in [x : Nat, y : Nat]
  BY DEF Typed, OnScreen
<1>3. count \in Nat
  BY CallIs, RegistersAre
<1>4. x < Rows \/ x + count < Cols
  BY <1>1 DEF Proper, AH
<1>5. n \in Nat /\ x + n <= Cols /\ to \in 0..Cols - 1 /\ to \in Nat
  <2> HIDE DEF x
  <2>1. CASE x < Rows
    BY <1>2, <1>3, <2>1, Sizes
  <2>2. CASE ~(x < Rows)
    BY <1>2, <1>3, <1>4, <2>2, Sizes
  <2> QED
    BY <2>1, <2>2
<1> HIDE DEF n, to
<1>6. cursor'.x = to /\ cursor'.y = y
  BY <1>1, <1>2, <1>5
<1>7. ASSUME NEW a \in Stored, Now(a) # Was(a)
      PROVE  \E p \in Asked : a - CellAt(p[1], p[2]) \in {0, 1}
  <2>1. DOMAIN f = at + 0 .. at + (2 * n - 1)
    OBVIOUS
  <2>2. a \in DOMAIN f
    <3> HIDE DEF f
    <3>1. Now(a) = Byte(f ++ Given(c), a) /\ Was(a) = Byte(Given(c), a)
      BY <1>1 DEF Now, Was, Given
    <3> QED
      BY <1>7, <3>1, Elsewhere
  <2>3. /\ at \in Nat /\ at = Video + 2 * (y * Cols) + 2 * x
        /\ y * Cols \in Nat /\ Video \in Nat
    BY <1>2, CellIs, VideoIs
  <2> HIDE DEF at, f
  <2>4. PICK d \in 0 .. 2 * n - 1 : a = at + d
    <3>1. a \in Int /\ at <= a /\ a <= at + (2 * n - 1)
      BY <1>5, <2>1, <2>2, <2>3
    <3>2. a - at \in 0 .. 2 * n - 1 /\ a = at + (a - at)
      BY <1>5, <2>3, <3>1
    <3> QED
      BY <3>2
  <2>5. PICK h \in Nat : d = 2 * h \/ d = 2 * h + 1
    <3>1. d \div 2 \in Nat /\ (d = 2 * (d \div 2) \/ d = 2 * (d \div 2) + 1)
      BY <1>5, <2>4
    <3> QED
      BY <3>1
  <2>6. h < n /\ x + h \in x .. Cols - 1 /\ x + h \in Nat
    BY <1>2, <1>5, <2>4, <2>5, Sizes
  <2>7. CellAt(x + h, y) = at + 2 * h
    <3>1. CellAt(x + h, y) = Video + 2 * (y * Cols) + 2 * (x + h)
      BY <1>2, <2>6, CellIs
    <3> QED
      BY <1>2, <2>3, <3>1
  <2>8. Asked = (x .. Cols - 1) \X {y}
    BY <1>1 DEF Asked, AH
  <2>9. <<x + h, y>> \in Asked /\ a - CellAt(x + h, y) \in {0, 1}
    BY <2>3, <2>4, <2>5, <2>6, <2>7, <2>8
  <2> QED
    BY <2>9
<1> QED
  BY <1>2, <1>5, <1>6, <1>7 DEF Contained, OnScreen

\* AH=0E writes where the cursor is.
LEMMA TeletypeContained ==
  ASSUME Typed, NEW c \in Calls[guest.menu], Teletype(c), call' = c, OnScreen(cursor.x, cursor.y)
  PROVE  Contained
<1> DEFINE s == Screen(Given(c))
           ch == Lo(c.r.ax)
           t == PutChar(s, ch, attr)
<1>1. Hi(c.r.ax) = 14 /\ cursor' = [x |-> t.x, y |-> t.y] /\ mem' = t.mem
  BY DEF Teletype, Is, ScreenBecomes
<1>2. c.r.ax \in Nat
  BY CallIs, RegistersAre
<1>3. ch \in 0..255 /\ attr \in 0..255
  BY <1>2 DEF Lo, Typed
<1>4. Given(c) \in Memories
  BY CallIs, OverIs, MemoryIs DEF Typed, Given
<1>5. s \in Screens /\ s.x = cursor.x /\ s.y = cursor.y /\ s.mem = Given(c)
  BY <1>4 DEF Screen, Screens, Typed
<1>6. /\ s.x \in 0..Cols - 1 /\ s.y \in 0..Rows - 1
      /\ cursor.x \in Nat /\ cursor.y \in Nat
  BY <1>5 DEF OnScreen, Typed
<1> DEFINE a0 == CellAt(cursor.x, cursor.y)
<1> HIDE DEF s, ch
<1>10. CharPut(s, t)
  BY <1>3, <1>5, PutCharIs, Zenon
<1> HIDE DEF t
<1>7. /\ t.x \in 0..Cols - 1 /\ t.y \in 0..Rows - 1
      /\ DOMAIN Given(c) \subseteq DOMAIN t.mem
      /\ DOMAIN t.mem \subseteq DOMAIN Given(c) \cup {a0, a0 + 1}
      /\ \A a \in DOMAIN Given(c) : a \notin {a0, a0 + 1} => t.mem[a] = Given(c)[a]
  BY <1>5, <1>6, <1>10 DEF CharPut
<1>8. OnScreen(cursor'.x, cursor'.y)
  BY <1>1, <1>7 DEF OnScreen
<1>9. ASSUME NEW a \in Stored, Now(a) # Was(a)
      PROVE  \E p \in Asked : a - CellAt(p[1], p[2]) \in {0, 1}
  <2>1. Now(a) = Byte(t.mem, a) /\ Was(a) = Byte(Given(c), a)
    BY <1>1 DEF Now, Was, Given
  <2>2. a \in DOMAIN t.mem \cup DOMAIN Given(c)
    BY <1>1 DEF Stored, Given
  <2>3. a \in {a0, a0 + 1}
    BY <1>7, <1>9, <2>1, <2>2 DEF Byte
  <2>4. a0 \in Nat
    BY <1>6, CellIs
  <2>5. Asked = {<<cursor.x, cursor.y>>}
    BY <1>1 DEF Asked, AH
  <2> QED
    BY <2>3, <2>4, <2>5
<1> QED
  BY <1>8, <1>9 DEF Contained

\* AH=02 moves the cursor where it is told.
LEMMA CursorContained ==
  ASSUME Typed, NEW c \in Calls[guest.menu], SetCursor(c), call' = c, Proper
  PROVE  Contained
<1>1. /\ Hi(c.r.ax) = 2 /\ mem' = Given(c)
      /\ cursor' = [x |-> Lo(c.r.dx), y |-> Hi(c.r.dx)]
  BY DEF SetCursor, Is
<1>2. OnScreen(Lo(c.r.dx), Hi(c.r.dx))
  BY <1>1 DEF Proper, AH
<1>3. \A a : Now(a) = Was(a)
  BY <1>1 DEF Now, Was, Given
<1> QED
  BY <1>1, <1>2, <1>3 DEF Contained

\* Every call of INT 10h is contained.
LEMMA ScreenServed ==
  ASSUME Typed, Next, Serves(16), OnScreen(cursor.x, cursor.y), Proper
  PROVE  Contained
<1>1. GuestCalls /\ call'.int = 16 /\ state' = "running"
  BY DEF Next, Boot, Serves
<1>2. PICK c \in Calls[guest.menu] : ((BiosCall(c) /\ FilesKept) \/ DosCall(c)) /\ call' = c
  BY <1>1 DEF GuestCalls
<1>3. Int10(c)
  BY <1>1, <1>2, Int13Is, OtherIs, DosIs DEF BiosCall
<1>4. CASE SetVideoMode(c) \/ VideoIgnored(c) \/ GetCursor(c) \/ ReadCell(c) \/ GetVideoMode(c)
             \/ ToggleBlink(c) \/ GetBlanking(c) \/ VideoUnknown(c)
  <2>1. mem' = Given(c) /\ cursor' = cursor
    BY <1>4 DEF SetVideoMode, VideoIgnored, GetCursor, ReadCell, GetVideoMode, ToggleBlink,
                GetBlanking, VideoUnknown, Answers, Ends
  <2> QED
    BY <1>2, <2>1, StillContained
<1> QED
  BY <1>1, <1>2, <1>3, <1>4, CursorContained, ScrollContained, CellsContained, TeletypeContained
     DEF Int10

-----------------------------------------------------------------------------
(* The disk: the order of its sectors is that of their numbers.            *)

\* Lba counts in the base of heads and sectors.
LEMMA LbaIs ==
  ASSUME NEW c \in Nat, NEW h \in 0..NHead - 1, NEW s \in 1..SPT
  PROVE  /\ h * SPT + s - 1 \in 0 .. NHead * SPT - 1
         /\ c * (NHead * SPT) \in Nat
         /\ Lba(c, h, s) = c * (NHead * SPT) + (h * SPT + s - 1)
<1>1. /\ SPT \in Nat /\ NHead \in Nat /\ NHead > 0 /\ SPT > 0
      /\ h \in Nat /\ s \in Nat /\ 1 <= s /\ s <= SPT /\ NHead - 1 - h \in Nat
  BY Sizes
<1>2. /\ h * SPT \in Nat /\ (NHead - 1 - h) * SPT \in Nat
      /\ NHead * SPT = h * SPT + (NHead - 1 - h) * SPT + SPT /\ NHead * SPT \in Nat
  BY <1>1
<1>3. h * SPT + s - 1 \in 0 .. NHead * SPT - 1
  BY <1>1, <1>2
<1>4. c * (NHead * SPT) \in Nat /\ c * NHead * SPT = c * (NHead * SPT)
  BY <1>1, <1>2
<1>5. Lba(c, h, s) = c * (NHead * SPT) + (h * SPT + s - 1)
  BY <1>1, <1>2, <1>4 DEF Lba
<1> QED
  BY <1>3, <1>4, <1>5

\* A sector that comes later has a higher number.
LEMMA LbaOrders ==
  ASSUME NEW s \in CHS, NEW t \in CHS, Precedes(s, t)
  PROVE  Lba(s[1], s[2], s[3]) < Lba(t[1], t[2], t[3])
<1> DEFINE W == NHead * SPT
<1>1. /\ s[1] \in Nat /\ s[2] \in 0..NHead - 1 /\ s[3] \in 1..SPT
      /\ t[1] \in Nat /\ t[2] \in 0..NHead - 1 /\ t[3] \in 1..SPT
  BY DEF CHS
<1>2. /\ s[2] * SPT + s[3] - 1 \in 0 .. W - 1 /\ t[2] * SPT + t[3] - 1 \in 0 .. W - 1
      /\ Lba(s[1], s[2], s[3]) = s[1] * W + (s[2] * SPT + s[3] - 1)
      /\ Lba(t[1], t[2], t[3]) = t[1] * W + (t[2] * SPT + t[3] - 1)
      /\ s[1] * W \in Nat /\ t[1] * W \in Nat
  BY <1>1, LbaIs
<1>3. W \in Nat
  BY Sizes
<1> HIDE DEF W
<1>4. CASE s[1] < t[1]
  <2>1. t[1] - s[1] - 1 \in Nat
    BY <1>1, <1>4
  <2>2. (t[1] - s[1] - 1) * W \in Nat /\ t[1] * W = s[1] * W + W + (t[1] - s[1] - 1) * W
    BY <1>1, <1>3, <2>1
  <2> DEFINE a == s[1] * W
             b == t[1] * W
             d == (t[1] - s[1] - 1) * W
             x == s[2] * SPT + s[3] - 1
             y == t[2] * SPT + t[3] - 1
  <2>3. /\ a \in Nat /\ b \in Nat /\ d \in Nat /\ b = a + W + d
        /\ x \in 0 .. W - 1 /\ y \in 0 .. W - 1
    BY <1>2, <2>2
  <2>4. Lba(s[1], s[2], s[3]) = a + x /\ Lba(t[1], t[2], t[3]) = b + y
    BY <1>2
  <2> HIDE DEF a, b, d, x, y
  <2>5. a + x < b + y
    BY <1>3, <2>3
  <2> QED
    BY <2>4, <2>5
<1>5. CASE s[1] = t[1] /\ s[2] < t[2]
  <2>1. t[2] - s[2] - 1 \in Nat /\ SPT \in Nat /\ s[2] \in Nat /\ t[2] \in Nat
    BY <1>1, <1>5, Sizes
  <2>2. /\ (t[2] - s[2] - 1) * SPT \in Nat /\ s[2] * SPT \in Nat
        /\ t[2] * SPT = s[2] * SPT + SPT + (t[2] - s[2] - 1) * SPT
    BY <2>1
  <2> DEFINE a == s[2] * SPT
             b == t[2] * SPT
             d == (t[2] - s[2] - 1) * SPT
  <2>3. a \in Nat /\ d \in Nat /\ b = a + SPT + d
    BY <2>2
  <2> HIDE DEF a, b, d
  <2>4. a + s[3] - 1 < b + t[3] - 1
    BY <1>1, <2>1, <2>3
  <2>5. s[2] * SPT + s[3] - 1 < t[2] * SPT + t[3] - 1
    BY <2>4 DEF a, b
  <2> QED
    BY <1>2, <1>3, <1>5, <2>5
<1>6. CASE s[1] = t[1] /\ s[2] = t[2] /\ s[3] < t[3]
  <2>1. s[2] * SPT \in Nat
    BY <1>1, Sizes
  <2>2. s[2] * SPT + s[3] - 1 < s[2] * SPT + t[3] - 1
    BY <1>1, <1>6, <2>1, Sizes
  <2> QED
    BY <1>2, <1>3, <1>6, <2>2
<1> QED
  BY <1>4, <1>5, <1>6 DEF Precedes

\* Every number below that of the end of the disk is that of a sector.
LEMMA SectorOf ==
  ASSUME NEW s \in CHS, NEW k \in 0 .. Lba(s[1], s[2], s[3]) - 1
  PROVE  \E t \in CHS : Precedes(t, s) /\ Lba(t[1], t[2], t[3]) = k
<1> DEFINE W == NHead * SPT
           c == k \div W
           e == k % W
           h == e \div SPT
           n == (e % SPT) + 1
           t == <<c, h, n>>
<1>1. /\ s[1] \in 0..NCyl - 1 /\ s[1] \in Nat /\ s[2] \in 0..NHead - 1 /\ s[3] \in 1..SPT
  BY Sizes DEF CHS
<1>2. /\ s[2] * SPT + s[3] - 1 \in 0 .. W - 1
      /\ Lba(s[1], s[2], s[3]) = s[1] * W + (s[2] * SPT + s[3] - 1)
      /\ s[1] * W \in Nat
  BY <1>1, LbaIs
<1>3. W \in Nat /\ W > 0 /\ NHead \in Nat /\ NHead > 0 /\ SPT \in Nat /\ SPT > 0
  BY Sizes
<1> HIDE DEF W
<1>4. k \in Nat /\ k < s[1] * W + W
  BY <1>2, <1>3
<1>5. c \in Nat /\ e \in Nat /\ e < W /\ k = c * W + e /\ c * W \in Nat
  BY <1>3, <1>4
<1> HIDE DEF c, e
<1>6. c <= s[1]
  <2> SUFFICES ASSUME c > s[1] PROVE FALSE
    BY <1>1, <1>5
  <2>1. c - s[1] - 1 \in Nat
    BY <1>1, <1>5
  <2>2. (c - s[1] - 1) * W \in Nat /\ c * W = s[1] * W + W + (c - s[1] - 1) * W
    BY <1>1, <1>3, <1>5, <2>1
  <2> QED
    BY <1>2, <1>3, <1>4, <1>5, <2>2
<1>7. h \in Nat /\ n \in 1..SPT /\ e = h * SPT + n - 1 /\ h * SPT \in Nat
  BY <1>3, <1>5
<1> HIDE DEF h, n
<1>8. h < NHead
  <2> SUFFICES ASSUME h >= NHead PROVE FALSE
    BY <1>3, <1>7
  <2>1. h - NHead \in Nat
    BY <1>3, <1>7
  <2>2. (h - NHead) * SPT \in Nat /\ h * SPT = NHead * SPT + (h - NHead) * SPT
    BY <1>3, <1>7, <2>1
  <2>3. e < NHead * SPT
    BY <1>5 DEF W
  <2> QED
    BY <1>3, <1>5, <1>7, <2>2, <2>3
<1>9. c \in 0..NCyl - 1 /\ h \in 0..NHead - 1
  BY <1>1, <1>3, <1>5, <1>6, <1>7, <1>8, Sizes
<1>10. t \in CHS
  BY <1>7, <1>9 DEF CHS
<1>11. Lba(c, h, n) = k
  BY <1>5, <1>7, <1>9, LbaIs DEF W
<1>12. t[1] = c /\ t[2] = h /\ t[3] = n
  OBVIOUS
<1> HIDE DEF t
<1>13. Precedes(t, s)
  <2> SUFFICES ASSUME ~Precedes(t, s) PROVE FALSE
    OBVIOUS
  <2>1. CASE Precedes(s, t)
    <3>1. Lba(s[1], s[2], s[3]) < Lba(t[1], t[2], t[3])
      BY <1>10, <2>1, LbaOrders
    <3> QED
      BY <1>2, <1>3, <1>4, <1>11, <1>12, <3>1
  <2>2. CASE t[1] = s[1] /\ t[2] = s[2] /\ t[3] = s[3]
    BY <1>2, <1>3, <1>4, <1>11, <1>12, <2>2
  <2>3. /\ t[1] \in Nat /\ s[1] \in Nat /\ t[2] \in Nat /\ s[2] \in Nat
        /\ t[3] \in Nat /\ s[3] \in Nat
    BY <1>1, <1>5, <1>7, <1>12, Sizes
  <2> QED
    BY <2>1, <2>2, <2>3 DEF Precedes
<1> QED
  BY <1>10, <1>11, <1>12, <1>13

\* The number LBA addressing gives a sector is the number of sectors before it.
LEMMA NumberIs ==
  ASSUME NEW s \in CHS
  PROVE  NumberOf(s) = Lba(s[1], s[2], s[3]) /\ Lba(s[1], s[2], s[3]) \in Nat
<1> DEFINE num(t) == Lba(t[1], t[2], t[3])
           S == {t \in CHS : Precedes(t, s)}
           T == 0 .. num(s) - 1
           F == [k \in T |-> CHOOSE t \in S : num(t) = k]
<1>1. \A t \in CHS : num(t) \in Nat
  <2> SUFFICES ASSUME NEW t \in CHS PROVE num(t) \in Nat
    OBVIOUS
  <2>1. t[1] \in Nat /\ t[2] \in 0..NHead - 1 /\ t[3] \in 1..SPT
    BY DEF CHS
  <2> DEFINE e == t[2] * SPT + t[3] - 1
             W == NHead * SPT
  <2>2. e \in 0 .. W - 1 /\ t[1] * W \in Nat /\ num(t) = t[1] * W + e
    BY <2>1, LbaIs
  <2>4. W \in Nat
    BY Sizes
  <2> HIDE DEF e, W, num
  <2>3. e \in Nat
    BY <2>2, <2>4
  <2> QED
    BY <2>2, <2>3
<1>2. \A k \in T : \E t \in S : num(t) = k
  BY SectorOf
<1>3. \A t \in S : num(t) < num(s)
  BY LbaOrders
<1>4. \A t, u \in CHS : num(t) = num(u) => t = u
  <2> SUFFICES ASSUME NEW t \in CHS, NEW u \in CHS, num(t) = num(u) PROVE t = u
    OBVIOUS
  <2>1. num(t) \in Nat /\ num(u) \in Nat
    BY <1>1
  <2>2. ~Precedes(t, u) /\ ~Precedes(u, t)
    <3>1. Precedes(t, u) => num(t) < num(u)
      BY LbaOrders
    <3>2. Precedes(u, t) => num(u) < num(t)
      BY LbaOrders
    <3> HIDE DEF num
    <3> QED
      BY <2>1, <3>1, <3>2
  <2>3. /\ t[1] \in Nat /\ u[1] \in Nat /\ t[2] \in Nat /\ u[2] \in Nat
        /\ t[3] \in Nat /\ u[3] \in Nat /\ t = <<t[1], t[2], t[3]>> /\ u = <<u[1], u[2], u[3]>>
    BY Sizes DEF CHS
  <2>4. t[1] = u[1] /\ t[2] = u[2] /\ t[3] = u[3]
    BY <2>2, <2>3 DEF Precedes
  <2> QED
    BY <2>3, <2>4
<1>5. \A k \in T : F[k] \in S /\ num(F[k]) = k
  <2> HIDE DEF num, S, T
  <2> QED
    BY <1>2
<1>6. \A t \in S : num(t) \in T /\ F[num(t)] = t
  <2> SUFFICES ASSUME NEW t \in S PROVE num(t) \in T /\ F[num(t)] = t
    OBVIOUS
  <2>1. t \in CHS /\ num(t) \in Nat /\ num(s) \in Nat /\ num(t) < num(s)
    BY <1>1, <1>3
  <2>2. num(t) \in T
    <3> HIDE DEF num
    <3> QED
      BY <2>1
  <2>3. F[num(t)] \in S /\ num(F[num(t)]) = num(t)
    BY <1>5, <2>2
  <2>4. F[num(t)] \in CHS
    BY <2>3
  <2> HIDE DEF num, S, T, F
  <2> QED
    BY <1>4, <2>1, <2>2, <2>3, <2>4
<1> HIDE DEF num, S, F
<1>7. F \in [T -> S]
  BY <1>5 DEF F
<1>8. F \in Bijection(T, S)
  <2>1. \A a, b \in T : F[a] = F[b] => a = b
    BY <1>5
  <2>2. \A t \in S : \E k \in T : F[k] = t
    BY <1>6
  <2> QED
    BY <1>7, <2>1, <2>2, Fun_IsBij
<1>9. num(s) \in Nat
  BY <1>1
<1>10. IsFiniteSet(T) /\ Cardinality(T) = num(s)
  <2>1. 0 \in Int /\ num(s) - 1 \in Int
    BY <1>9
  <2>2. IsFiniteSet(T) /\ Cardinality(T) = IF 0 > num(s) - 1 THEN 0 ELSE num(s) - 1 - 0 + 1
    BY <2>1, FS_Interval
  <2> QED
    BY <1>9, <2>2
<1>11. Cardinality(S) = num(s)
  <2>1. ExistsBijection(T, S)
    BY <1>8 DEF ExistsBijection
  <2> QED
    BY <1>10, <2>1, FS_Bijection
<1> QED
  BY <1>9, <1>11 DEF NumberOf, S, num

\* The sectors there are of count from first on.
LEMMA AvailableIs ==
  ASSUME NEW first \in Nat, NEW count \in Nat, NEW n \in Nat, n = Len(floppy)
  PROVE  LET q == n \div SectorSize
         IN  Available(first, count) =
               IF q <= first THEN 0 ELSE IF q - first < count THEN q - first ELSE count
<1> DEFINE q == n \div SectorSize
           last == IF q - first < count THEN q - 1 ELSE first + count - 1
<1>1. SectorSize \in Nat /\ SectorSize > 0
  BY Sizes
<1>2. q \in Nat /\ q * SectorSize <= n /\ n < q * SectorSize + SectorSize /\ q * SectorSize \in Nat
  BY <1>1
<1>3. ASSUME NEW k \in Nat
      PROVE  (k + 1) * SectorSize <= n <=> k + 1 <= q
  <2> HIDE DEF q
  <2>1. CASE k + 1 <= q
    <3>1. q - (k + 1) \in Nat
      BY <1>2, <2>1
    <3>2. (q - (k + 1)) * SectorSize \in Nat /\ (k + 1) * SectorSize \in Nat
          /\ q * SectorSize = (k + 1) * SectorSize + (q - (k + 1)) * SectorSize
      BY <1>1, <1>2, <3>1
    <3> QED
      BY <1>2, <2>1, <3>2
  <2>2. CASE ~(k + 1 <= q)
    <3>1. k - q \in Nat
      BY <1>2, <2>2
    <3>2. (k - q) * SectorSize \in Nat /\ (k + 1) * SectorSize \in Nat
          /\ (k + 1) * SectorSize = q * SectorSize + SectorSize + (k - q) * SectorSize
      BY <1>1, <1>2, <3>1
    <3> QED
      BY <1>1, <1>2, <2>2, <3>2
  <2> QED
    BY <2>1, <2>2
<1> HIDE DEF q
<1>4. {k \in first .. first + count - 1 : (k + 1) * SectorSize <= n} = first .. last
  <2>1. \A k \in first .. first + count - 1 : k \in Nat /\ (k + 1 <= q <=> k <= q - 1)
    BY <1>2
  <2>2. \A k : k \in first .. last <=> k \in first .. first + count - 1 /\ k <= q - 1
    BY <1>2
  <2> QED
    BY <1>3, <2>1, <2>2
<1>5. last \in Int
  BY <1>2
<1>6. Cardinality(first .. last) = IF first > last THEN 0 ELSE last - first + 1
  <2> HIDE DEF last
  <2> QED
    BY <1>5, FS_Interval
<1>7. Available(first, count) = IF first > last THEN 0 ELSE last - first + 1
  BY <1>4, <1>6 DEF Available
<1>8. Available(first, count) =
        IF q <= first THEN 0 ELSE IF q - first < count THEN q - first ELSE count
  BY <1>2, <1>7
<1> QED
  BY <1>8 DEF q

-----------------------------------------------------------------------------
(* Bytes and words of memory.                                              *)

\* Bytes after bytes are bytes.
LEMMA EndsMake ==
  ASSUME NEW s \in Seq(0..255), NEW t \in Seq(0..255)
  PROVE  s \o t \in Seq(0..255)
BY ConcatProperties

\* t is the number w in two bytes.
TwoBytes(t, w) ==
  t \in Seq(0..255) /\ Len(t) = 2 /\ t[1] = (w % 256) /\ t[2] = (w \div 256) % 256

\* WordBytes makes those.
LEMMA WordBytesAre ==
  ASSUME NEW w \in Nat
  PROVE  TwoBytes(WordBytes(w), w)
<1> DEFINE a == w % 256
           b == (w \div 256) % 256
<1>1. a \in 0..255 /\ b \in 0..255 /\ WordBytes(w) = <<a, b>>
  BY DEF WordBytes
<1> HIDE DEF a, b
<1>2. <<a, b>> \in Seq(0..255) /\ Len(<<a, b>>) = 2 /\ <<a, b>>[1] = a /\ <<a, b>>[2] = b
  BY <1>1
<1> QED
  BY <1>1, <1>2 DEF a, b, TwoBytes

\* The tables and the fill of memory are bytes.
LEMMA DiskInfoIs == DiskInfo \in Memories
<1> DEFINE long(v) == WordBytes(v) \o <<0, 0>>
           s == <<26, 0, 1, 0>>
           t == <<64, 11, 0, 0, 0, 0, 0, 0, 0, 2>>
           u == long(NCyl) \o long(NHead) \o long(SPT)
<1>1. \A v \in Nat : long(v) \in Seq(0..255)
  <2> SUFFICES ASSUME NEW v \in Nat PROVE long(v) \in Seq(0..255)
    OBVIOUS
  <2>1. WordBytes(v) \in Seq(0..255) /\ <<0, 0>> \in Seq(0..255)
    BY WordBytesAre DEF TwoBytes
  <2> QED
    BY <2>1, EndsMake
<1>2. u \in Seq(0..255)
  <2> HIDE DEF long
  <2>1. long(NCyl) \in Seq(0..255) /\ long(NHead) \in Seq(0..255) /\ long(SPT) \in Seq(0..255)
    BY <1>1, Sizes
  <2>2. long(NCyl) \o long(NHead) \in Seq(0..255)
    BY <2>1, EndsMake
  <2> QED
    BY <2>1, <2>2, EndsMake
<1>3. s \in Seq(0..255) /\ t \in Seq(0..255)
  OBVIOUS
<1>4. DiskInfo = Bytes(0, s) ++ Bytes(16, t) ++ Bytes(30, u)
  BY DEF DiskInfo
<1> HIDE DEF s, t, u
<1>5. /\ \A a \in DOMAIN Bytes(0, s) : a \in Nat /\ Bytes(0, s)[a] \in 0..255
      /\ \A a \in DOMAIN Bytes(16, t) : a \in Nat /\ Bytes(16, t)[a] \in 0..255
      /\ \A a \in DOMAIN Bytes(30, u) : a \in Nat /\ Bytes(30, u)[a] \in 0..255
  <2>1. ASSUME NEW at \in Nat, NEW v \in Seq(0..255)
        PROVE  \A a \in DOMAIN Bytes(at, v) : a \in Nat /\ Bytes(at, v)[a] \in 0..255
    BY BytesAre
  <2>2. 0 \in Nat /\ 16 \in Nat /\ 30 \in Nat
    OBVIOUS
  <2>3. \A a \in DOMAIN Bytes(0, s) : a \in Nat /\ Bytes(0, s)[a] \in 0..255
    BY <1>3, <2>1, <2>2
  <2>4. \A a \in DOMAIN Bytes(16, t) : a \in Nat /\ Bytes(16, t)[a] \in 0..255
    BY <1>3, <2>1, <2>2
  <2>5. \A a \in DOMAIN Bytes(30, u) : a \in Nat /\ Bytes(30, u)[a] \in 0..255
    BY <1>2, <2>1, <2>2
  <2> QED
    BY <2>3, <2>4, <2>5
<1>6. Bytes(0, s) ++ Bytes(16, t) \in Memories
  BY <1>5, OverIs
<1>7. \A a \in DOMAIN (Bytes(0, s) ++ Bytes(16, t)) :
        a \in Nat /\ (Bytes(0, s) ++ Bytes(16, t))[a] \in 0..255
  BY <1>6, MemoryIs
<1> QED
  BY <1>4, <1>5, <1>7, OverIs

\* Memory that nobody has written holds bytes, wherever it is.
LEMMA FillerIs ==
  ASSUME NEW a \in Nat
  PROVE  Filler(a) \in 0..255
<1>1. ASSUME a < 1024 PROVE VectorByte(a) \in 0..255
  <2> DEFINE v == a \div 4
             k == (a % 4) + 1
  <2>1. v \in 0..255 /\ k \in 1..4 /\ VectorByte(a) = <<v, 0, 0, 184>>[k]
    BY <1>1 DEF VectorByte
  <2> HIDE DEF v, k
  <2> QED
    BY <2>1
<1>2. ASSUME NEW k \in 0..1 PROVE EntryByte(k) \in 0..255
  BY <1>2 DEF EntryByte
<1>3. \A k \in DOMAIN DiskInfo : DiskInfo[k] \in 0..255
  BY DiskInfoIs, MemoryIs
<1> DEFINE i == a \in Video .. Video + 2 * Rows * Cols - 1
           e == a - Entrypoint
           d == a - DiskTable
           f == DiskInfo[d]
<1>4. Filler(a) = CASE a < 1024 -> VectorByte(a) [] i -> 0 [] e \in 0..1 -> EntryByte(e)
                    [] d \in DOMAIN DiskInfo -> f [] OTHER -> 241
  BY DEF Filler
<1>5. d \in DOMAIN DiskInfo => f \in 0..255
  BY <1>3
<1> HIDE DEF i, e, d, f
<1> QED
  BY <1>1, <1>2, <1>4, <1>5

\* So reading a byte gives a byte,
LEMMA ByteIs ==
  ASSUME NEW m \in Memories, NEW a \in Nat
  PROVE  Byte(m, a) \in 0..255 /\ Byte(m, a) \in Nat
<1>1. Byte(m, a) \in 0..255
  BY FillerIs, MemoryIs DEF Byte
<1> QED
  BY <1>1

\* and reading two gives a word.
LEMMA WordIs ==
  ASSUME NEW m \in Memories, NEW a \in Nat
  PROVE  Word(m, a) \in Nat /\ Word(m, a) <= 65535
<1> DEFINE b == Byte(m, a)
           d == Byte(m, a + 1)
<1>1. b \in 0..255 /\ d \in 0..255
  BY ByteIs
<1>2. Word(m, a) = b + 256 * d
  BY DEF Word
<1> HIDE DEF b, d
<1> QED
  BY <1>1, <1>2

\* What a call finds in memory is a memory.
LEMMA GivenIs ==
  ASSUME Typed, NEW c \in Calls[guest.menu]
  PROVE  Given(c) \in Memories
BY CallIs, OverIs, MemoryIs DEF Typed, Given

\* What the disk has of count sectors from the first on.
Got(first, count) ==
  LET have == Len(floppy) - first * SectorSize
      wanted == count * SectorSize
      n == IF have < wanted THEN have ELSE wanted
  IN  SubSeq(floppy, first * SectorSize + 1, first * SectorSize + n)

\* What was got is the disk's, and its whole sectors are those available.
FromDisk(got, first, count) ==
  /\ got \in Seq(0..255)
  /\ Len(got) \div SectorSize = Available(first, count)
  /\ Available(first, count) \in 0..count
  /\ Available(first, count) * SectorSize <= Len(got)
  /\ Available(first, count) * SectorSize \in Nat
  /\ Len(got) <= count * SectorSize /\ count * SectorSize \in Nat
  /\ first * SectorSize \in Nat
  /\ \A k \in 1..Len(got) : got[k] = floppy[first * SectorSize + k]

\* Got does as FromDisk says, wherever the image ends.
LEMMA GotIs ==
  ASSUME floppy \in Seq(0..255), NEW first \in Nat, NEW count \in Nat
  PROVE  FromDisk(Got(first, count), first, count)
<1> DEFINE S == SectorSize
           L == Len(floppy)
           lo == first * S
           have == L - lo
           wanted == count * S
           n == IF have < wanted THEN have ELSE wanted
           got == Got(first, count)
           q == L \div S
           av == Available(first, count)
<1>1. S \in Nat /\ S > 0 /\ L \in Nat /\ lo \in Nat /\ wanted \in Nat
  BY Sizes, LenProperties
<1>2. got = SubSeq(floppy, lo + 1, lo + n)
  BY DEF Got
<1> HIDE DEF S, L, lo, wanted
<1>3. have \in Int /\ n \in Int /\ n <= have /\ n <= wanted /\ lo + n <= L
  BY <1>1
<1> HIDE DEF have
<1>4. \A i \in lo + 1 .. lo + n : floppy[i] \in 0..255
  <2>1. \A i \in lo + 1 .. lo + n : i \in 1..L
    BY <1>1, <1>3
  <2> QED
    BY <2>1, ElementOfSeq DEF L
<1>5. n \in Int
  BY <1>3
<1> HIDE DEF n
<1> DEFINE from == lo + 1
           to == lo + n
           B == 0..255
<1>16. from \in Int /\ to \in Int
  BY <1>1, <1>5
<1>17. got = SubSeq(floppy, from, to) /\ \A i \in from .. to : floppy[i] \in B
  BY <1>2, <1>4
<1> HIDE DEF from, to, B, got
<1>6. /\ got \in Seq(B) /\ Len(got) = IF from <= to THEN to - from + 1 ELSE 0
      /\ \A i \in 1 .. to - from + 1 : got[i] = floppy[from + i - 1]
  BY <1>16, <1>17, SubSeqProperties
<1>7. Len(got) = IF n > 0 THEN n ELSE 0
  BY <1>1, <1>5, <1>6 DEF from, to
<1>8. \A k \in 1..Len(got) : got[k] = floppy[lo + k]
  <2> SUFFICES ASSUME NEW k \in 1..Len(got) PROVE got[k] = floppy[lo + k]
    OBVIOUS
  <2>1. k \in 1 .. to - from + 1 /\ from + k - 1 = lo + k
    BY <1>1, <1>5, <1>7 DEF from, to
  <2> QED
    BY <1>6, <2>1
<1>9. av = IF q <= first THEN 0 ELSE IF q - first < count THEN q - first ELSE count
  BY <1>1, AvailableIs DEF L, S
<1>10. q \in Nat /\ q * S \in Nat /\ q * S <= L /\ L < q * S + S
  BY <1>1
<1> HIDE DEF q, av
<1>11. av \in Nat /\ av <= count
  BY <1>9, <1>10
<1>12. Len(got) \in Nat /\ Len(got) \div S = av
  <2>1. CASE q <= first
    <3>1. first - q \in Nat
      BY <1>10, <2>1
    <3>2. (first - q) * S \in Nat /\ first * S = q * S + (first - q) * S
      BY <1>1, <1>10, <3>1
    <3>3. have < S
      BY <1>1, <1>10, <3>2 DEF have, lo
    <3>4. Len(got) \in Nat /\ Len(got) < S
      BY <1>1, <1>3, <1>5, <1>7, <3>3 DEF have
    <3>5. Len(got) \div S = 0
      BY <1>1, <3>4
    <3> QED
      BY <1>9, <2>1, <3>4, <3>5
  <2>2. CASE q > first /\ q - first < count
    <3> DEFINE d == q - first
    <3>1. d \in Nat /\ d > 0 /\ count - d - 1 \in Nat
      BY <1>10, <2>2
    <3>2. /\ d * S \in Nat /\ q * S = first * S + d * S
          /\ (count - d - 1) * S \in Nat /\ count * S = d * S + S + (count - d - 1) * S
      BY <1>1, <1>10, <3>1
    <3> HIDE DEF d
    <3>3. have >= d * S /\ have < d * S + S /\ have < wanted
      BY <1>1, <1>10, <3>2 DEF have, lo, wanted
    <3>4. n = have /\ d * S >= 0
      BY <3>2, <3>3 DEF n
    <3>5. Len(got) \in Nat /\ d * S <= Len(got) /\ Len(got) < d * S + S
      <4>1. d * S >= 1
        BY <1>1, <3>1
      <4> QED
        BY <1>1, <1>5, <1>7, <3>2, <3>3, <3>4, <4>1
    <3>6. Len(got) \div S = d
      BY <1>1, <3>1, <3>2, <3>5
    <3> QED
      BY <1>9, <1>10, <2>2, <3>5, <3>6 DEF d
  <2>3. CASE q > first /\ ~(q - first < count)
    <3>1. q - first - count \in Nat
      BY <1>10, <2>3
    <3>2. (q - first - count) * S \in Nat
          /\ q * S = first * S + count * S + (q - first - count) * S
      BY <1>1, <1>10, <3>1
    <3>3. have >= wanted
      BY <1>1, <1>10, <3>2 DEF have, lo, wanted
    <3>4. n = wanted
      BY <1>1, <3>3 DEF n, have
    <3>5. Len(got) = count * S /\ Len(got) \in Nat
      BY <1>1, <1>7, <3>4 DEF wanted
    <3>6. (count * S) \div S = count
      BY <1>1
    <3> QED
      BY <1>9, <1>10, <2>3, <3>5, <3>6
  <2> QED
    BY <1>10, <2>1, <2>2, <2>3
<1>13. av * S <= Len(got) /\ av * S \in Nat
  <2>1. \A x \in Nat : (x \div S) * S <= x
    BY <1>1
  <2>2. av * S \in Nat
    BY <1>1, <1>11
  <2> QED
    BY <1>12, <2>1, <2>2
<1>14. Len(got) <= wanted
  BY <1>1, <1>3, <1>5, <1>7
<1>15. av \in 0..count
  BY <1>11
<1> QED
  BY <1>1, <1>6, <1>8, <1>12, <1>13, <1>14, <1>15 DEF S, lo, wanted, av, got, B, FromDisk

\* Behind the end of the image there is nothing to get.
LEMMA NothingBehind ==
  ASSUME floppy \in Seq(0..255), NEW first \in Nat, NEW count \in Nat,
         first > Len(floppy) \div SectorSize
  PROVE  Got(first, count) = <<>>
<1> DEFINE S == SectorSize
           L == Len(floppy)
           lo == first * S
           have == L - lo
           wanted == count * S
           n == IF have < wanted THEN have ELSE wanted
           q == L \div S
<1>1. S \in Nat /\ S > 0 /\ L \in Nat /\ lo \in Nat /\ wanted \in Nat
  BY Sizes, LenProperties
<1>2. Got(first, count) = SubSeq(floppy, lo + 1, lo + n)
  BY DEF Got
<1>3. q \in Nat /\ L < q * S + S /\ q + 1 <= first
  BY <1>1
<1> HIDE DEF q
<1>4. first - q - 1 \in Nat
  BY <1>3
<1>5. (first - q - 1) * S \in Nat /\ first * S = q * S + S + (first - q - 1) * S
  BY <1>1, <1>3, <1>4
<1> HIDE DEF S, L
<1>10. lo = q * S + S + (first - q - 1) * S /\ q * S \in Nat
  BY <1>1, <1>3, <1>5
<1>6. have \in Int /\ have < 0
  <2> DEFINE x == q * S
             y == (first - q - 1) * S
  <2>1. lo = x + S + y /\ x \in Nat /\ y \in Nat /\ L < x + S
    BY <1>3, <1>5, <1>10
  <2> HIDE DEF x, y, lo
  <2> QED
    BY <1>1, <2>1
<1> HIDE DEF have, wanted
<1>7. n = have /\ lo \in Int
  BY <1>1, <1>6
<1> HIDE DEF lo, n
<1>8. lo + 1 \in Int /\ lo + n \in Int /\ lo + 1 > lo + n
  BY <1>6, <1>7
<1>9. SubSeq(floppy, lo + 1, lo + n) = <<>>
  BY <1>8, SubSeqEmpty
<1> QED
  BY <1>2, <1>9

\* What a read stores comes to no more than was asked for.
LEMMA ReadStores ==
  ASSUME Typed, NEW c \in Calls[guest.menu], NEW disk, NEW lba \in Int, NEW count \in Nat,
         NEW at \in Nat, ~ReadDiskLBA(Given(c), disk, lba, count, at).wild
  PROVE  \E s \in Seq(0..255) :
           /\ Len(s) <= count * SectorSize
           /\ ReadDiskLBA(Given(c), disk, lba, count, at).mem = Bytes(at, s) ++ Given(c)
<1> DEFINE have == Len(floppy) - lba * SectorSize
           wanted == count * SectorSize
           n == IF have < wanted THEN have ELSE wanted
           zeros == [k \in 1..wanted |-> 0]
           some == SubSeq(floppy, lba * SectorSize + 1, lba * SectorSize + n)
           got == IF ~HasDisk(disk) THEN <<>>
                  ELSE IF lba < 0 THEN zeros
                  ELSE IF lba > Len(floppy) \div SectorSize THEN <<>> ELSE some
<1>1. ReadDiskLBA(Given(c), disk, lba, count, at).mem = Bytes(at, got) ++ Given(c)
  BY DEF ReadDiskLBA
<1>2. HasDisk(disk) => floppy \in Seq(0..255)
  <2>1. HasDisk(disk) => floppy # NoFloppy
    BY DEF ReadDiskLBA
  <2> QED
    BY <2>1, BiosAssumption DEF Typed
<1>3. wanted \in Nat
  BY Sizes
<1>4. zeros \in Seq(0..255) /\ Len(zeros) = wanted
  <2>1. zeros \in [1..wanted -> 0..255]
    OBVIOUS
  <2> HIDE DEF zeros, wanted
  <2> QED
    BY <1>3, <2>1, SeqDef, LenProperties
<1>5. HasDisk(disk) /\ ~(lba < 0) => some \in Seq(0..255) /\ Len(some) <= wanted
  <2> SUFFICES ASSUME HasDisk(disk), ~(lba < 0) PROVE some \in Seq(0..255) /\ Len(some) <= wanted
    OBVIOUS
  <2>1. lba \in Nat
    OBVIOUS
  <2>2. some = Got(lba, count)
    BY DEF Got
  <2>3. Got(lba, count) \in Seq(0..255) /\ Len(Got(lba, count)) <= count * SectorSize
    BY <1>2, <2>1, GotIs DEF FromDisk
  <2> QED
    BY <2>2, <2>3
<1>6. <<>> \in Seq(0..255) /\ Len(<<>>) = 0
  OBVIOUS
<1> HIDE DEF zeros, some, wanted
<1>7. got \in Seq(0..255) /\ Len(got) <= wanted
  BY <1>3, <1>4, <1>5, <1>6
<1> HIDE DEF got
<1> QED
  BY <1>1, <1>7 DEF wanted

\* Nothing else is stored.
LEMMA ReadKeeps ==
  ASSUME Typed, NEW c \in Calls[guest.menu], call' = c, NEW disk, NEW lba \in Int,
         NEW count \in Nat, NEW at \in Nat, ~ReadDiskLBA(Given(c), disk, lba, count, at).wild,
         mem' = ReadDiskLBA(Given(c), disk, lba, count, at).mem
  PROVE  Kept(count * SectorSize, at)
<1>1. PICK s \in Seq(0..255) : Len(s) <= count * SectorSize /\ mem' = Bytes(at, s) ++ Given(c)
  BY ReadStores
<1> DEFINE g == Given(c)
           all == count * SectorSize
<1>2. /\ DOMAIN Bytes(at, s) = at .. at + Len(s) - 1
      /\ \A a \in DOMAIN Bytes(at, s) : a \in Nat
  BY BytesAre
<1>3. Len(s) \in Nat /\ all \in Nat
  BY Sizes, LenProperties
<1>4. \A a : Now(a) = Byte(Bytes(at, s) ++ g, a) /\ Was(a) = Byte(g, a)
  BY <1>1 DEF Now, Was, Given
<1> HIDE DEF g, all
<1>5. ASSUME NEW a \in Stored PROVE a - at \in 0 .. all - 1 \/ Now(a) = Was(a)
  <2>1. CASE a \in at .. at + Len(s) - 1
    BY <1>1, <1>3, <2>1 DEF all
  <2>2. CASE a \notin at .. at + Len(s) - 1
    BY <1>2, <1>4, <2>2, Elsewhere
  <2> QED
    BY <2>1, <2>2
<1> QED
  BY <1>5 DEF Kept, all

\* ReadDiskLBA delivers the sectors that are available and returns their number.
LEMMA ReadDelivers ==
  ASSUME Typed, NEW c \in Calls[guest.menu], call' = c, floppy # NoFloppy,
         NEW first \in Nat, NEW count \in Nat, NEW at \in Nat,
         mem' = ReadDiskLBA(Given(c), 0, first, count, at).mem
  PROVE  /\ ReadDiskLBA(Given(c), 0, first, count, at).ret = Available(first, count)
         /\ Delivered(first, count, at)
<1> DEFINE got == Got(first, count)
           av == Available(first, count)
           there == av * SectorSize
           all == count * SectorSize
           lo == first * SectorSize
           g == Given(c)
<1>1. floppy \in Seq(0..255)
  BY BiosAssumption DEF Typed
<1>2. /\ got \in Seq(0..255) /\ Len(got) \div SectorSize = av /\ there \in Nat
      /\ there <= Len(got) /\ Len(got) <= all /\ all \in Nat /\ lo \in Nat
      /\ \A k \in 1..Len(got) : got[k] = floppy[lo + k]
  <2>1. FromDisk(got, first, count)
    BY <1>1, GotIs
  <2> HIDE DEF got
  <2> QED
    BY <2>1 DEF FromDisk
<1>3. ~(first < 0)
  OBVIOUS
<1>4. /\ ReadDiskLBA(g, 0, first, count, at).ret = Len(got) \div SectorSize
      /\ ReadDiskLBA(g, 0, first, count, at).mem = Bytes(at, got) ++ g
  <2>1. CASE first > Len(floppy) \div SectorSize
    <3>1. got = <<>>
      BY <1>1, <2>1, NothingBehind
    <3> HIDE DEF got, g
    <3> QED
      BY <1>3, <2>1, <3>1 DEF ReadDiskLBA, HasDisk
  <2>2. CASE ~(first > Len(floppy) \div SectorSize)
    BY <1>3, <2>2 DEF ReadDiskLBA, HasDisk, Got
  <2> QED
    BY <2>1, <2>2
<1>5. Len(got) \in Nat
  BY <1>2, LenProperties
<1>6. mem' = Bytes(at, got) ++ g
  BY <1>4
<1> HIDE DEF got, there, all, lo, g
<1>7. /\ DOMAIN Bytes(at, got) = at .. at + Len(got) - 1
      /\ \A a \in DOMAIN Bytes(at, got) : a \in Nat /\ Bytes(at, got)[a] = got[a - at + 1]
  BY <1>2, BytesAre
<1>8. \A a \in Stored : a \in Nat
  <2>1. \A a \in DOMAIN g : a \in Nat
    BY GivenIs, MemoryIs DEF g
  <2>2. Stored \subseteq DOMAIN Bytes(at, got) \cup DOMAIN g
    BY <1>6 DEF Stored, g, Given, ++
  <2> QED
    BY <1>7, <2>1, <2>2
<1>9. \A a : Now(a) = Byte(Bytes(at, got) ++ g, a) /\ Was(a) = Byte(g, a)
  BY <1>6 DEF Now, Was, g, Given
<1>10. ASSUME NEW a \in Stored
       PROVE  IF a - at \in 0 .. there - 1 THEN Now(a) = floppy[lo + (a - at) + 1]
              ELSE a - at \in there .. all - 1 \/ Now(a) = Was(a)
  <2>1. a \in Nat
    BY <1>8
  <2>2. CASE a \in at .. at + Len(got) - 1
    <3>1. Now(a) = got[a - at + 1]
      BY <1>7, <1>9, <2>2 DEF Byte, ++
    <3>2. a - at + 1 \in 1..Len(got) /\ a - at \in 0 .. all - 1
      BY <1>2, <1>5, <2>1, <2>2
    <3>3. Now(a) = floppy[lo + (a - at + 1)]
      BY <1>2, <3>1, <3>2
    <3>4. lo + (a - at + 1) = lo + (a - at) + 1
      BY <1>2, <2>1
    <3>5. a - at \in 0 .. there - 1 \/ a - at \in there .. all - 1
      BY <1>2, <2>1, <3>2
    <3>6. Now(a) = floppy[lo + (a - at) + 1]
      BY <3>3, <3>4
    <3> QED
      BY <3>5, <3>6
  <2>3. CASE a \notin at .. at + Len(got) - 1
    <3>1. Now(a) = Was(a)
      BY <1>7, <1>9, <2>3, Elsewhere
    <3>2. a - at \notin 0 .. there - 1
      BY <1>2, <1>5, <2>1, <2>3
    <3> QED
      BY <3>1, <3>2
  <2> QED
    BY <2>2, <2>3
<1>11. Delivered(first, count, at)
  BY <1>10 DEF Delivered, there, all, lo
<1> QED
  BY <1>2, <1>4, <1>11 DEF g, got, there, all, lo

\* What ReadsReported says of a call that was served.
Reported(c) ==
  LET s == <<Cylinder(c), Hi(c.r.dx), Sector(c)>>
      first == NumberOf(s)
      packet == c.r.ds * 16 + c.r.si
      word(k) == Word(Given(c), packet + k)
      buffer == word(6) * 16 + word(4)
      block == word(8) + 65536 * word(10)
      counted == word(14) = 0 /\ word(12) = 0 /\ word(10) < 32768 /\ block < IntSectors
      al == Lo(c.r.ax) IN
  /\ Hi(c.r.ax) = 2 /\ al % 64 = 0 => r'.cf /\ r'.ax = c.r.ax /\ Untouched
  /\ Hi(c.r.ax) = 2 /\ al % 64 # 0 /\ s[3] # 0 =>
       IF Lo(c.r.dx) = 0 /\ s \in CHS
       THEN /\ Lo(r'.ax) = Available(first, al)
            /\ r'.cf <=> Lo(r'.ax) < al
            /\ ~r'.cf => Hi(r'.ax) = 0
            /\ Delivered(first, al, c.r.es * 16 + c.r.bx)
       ELSE r'.cf /\ r'.ax = HiLo(1, al) /\ Untouched
  /\ Hi(c.r.ax) = 66 =>
       IF buffer + word(2) * SectorSize > MemTop
       THEN r'.cf /\ Hi(r'.ax) = 187 /\ Untouched
       ELSE /\ Lo(c.r.dx) = 0 /\ counted => Delivered(block, word(2), buffer)
            /\ Kept(word(2) * SectorSize, buffer)
            /\ Lo(c.r.dx) # 0 => Untouched

\* A call that writes nothing leaves memory untouched.
LEMMA StillUntouched ==
  ASSUME NEW c, call' = c, mem' = Given(c)
  PROVE  Untouched
BY DEF Untouched, Now, Was, Given

\* The sector a call of AH=02 names.
LEMMA NamedSector ==
  ASSUME Typed, NEW c \in Calls[guest.menu], Sector(c) # 0
  PROVE  LET s == <<Cylinder(c), Hi(c.r.dx), Sector(c)>>
         IN  OffDisk(c) <=> ~(Lo(c.r.dx) = 0 /\ s \in CHS)
<1> DEFINE cy == Cylinder(c)
           h == Hi(c.r.dx)
           n == Sector(c)
<1>1. c.r.cx \in Nat /\ c.r.dx \in Nat
  BY CallIs, RegistersAre
<1>2. h \in Nat /\ Lo(c.r.cx) \in Nat /\ Hi(c.r.cx) \in Nat
  BY <1>1 DEF Lo, Hi
<1>3. cy \in Nat /\ n \in Nat /\ n # 0
  BY <1>2 DEF Cylinder, Sector
<1>4. OffDisk(c) <=> Lo(c.r.dx) # 0 \/ cy >= NCyl \/ h >= NHead \/ n > SPT
  BY DEF OffDisk, HasDisk
<1> HIDE DEF cy, h, n
<1>5. <<cy, h, n>> \in CHS <=> cy < NCyl /\ h < NHead /\ n <= SPT
  BY <1>2, <1>3, Sizes DEF CHS
<1> QED
  BY <1>2, <1>3, <1>4, <1>5, Sizes DEF cy, h, n

\* AH=02 reports what it read.
LEMMA SectorsReported ==
  ASSUME Typed, NEW c \in Calls[guest.menu], ReadSectors(c), call' = c, state' = "running"
  PROVE  Reported(c)
<1> DEFINE s == <<Cylinder(c), Hi(c.r.dx), Sector(c)>>
           first == NumberOf(s)
           al == Lo(c.r.ax)
           at == c.r.es * 16 + c.r.bx
           out == ReadDiskLBA(Given(c), 0, Lba(Cylinder(c), Hi(c.r.dx), Sector(c)), al, at)
           good == [c.r EXCEPT !.cf = FALSE, !.ax = al]
           part == [c.r EXCEPT !.cf = TRUE, !.ax = HiLo(Hi(c.r.ax), out.ret)]
           off == [c.r EXCEPT !.cf = TRUE, !.ax = HiLo(1, c.r.ax)]
           none == [c.r EXCEPT !.cf = TRUE]
<1>1. Hi(c.r.ax) = 2
  BY DEF ReadSectors, Is
<1>2. \/ ReadsNothing(c) /\ r' = none /\ mem' = Given(c)
      \/ ~ReadsNothing(c) /\ OffDisk(c) /\ r' = off /\ mem' = Given(c)
      \/ /\ ~ReadsNothing(c) /\ ~OffDisk(c) /\ ~out.wild /\ mem' = out.mem
         /\ r' = IF out.ret = al THEN good ELSE part
  BY DEF ReadSectors, Answers, Returns, Reads, Ends
<1>3. c.r \in Registers /\ c.r.ax \in Nat /\ c.r.es \in Nat /\ c.r.bx \in Nat
  BY CallIs, RegistersAre
<1>4. /\ al \in Nat /\ al <= 255 /\ Lo(al) = al /\ Hi(al) = 0 /\ al % 64 = c.r.ax % 64
      /\ HiLo(1, c.r.ax) = HiLo(1, al) /\ \A k \in Nat : k <= 255 => Lo(HiLo(2, k)) = k
  BY <1>3 DEF Lo, Hi, HiLo
<1>5. /\ none.cf = TRUE /\ none.ax = c.r.ax /\ off.cf = TRUE /\ off.ax = HiLo(1, c.r.ax)
      /\ good.cf = FALSE /\ good.ax = al /\ part.cf = TRUE /\ part.ax = HiLo(Hi(c.r.ax), out.ret)
  <2> HIDE DEF al, out
  <2>1. none.cf = TRUE /\ none.ax = c.r.ax
    BY <1>3 DEF Registers
  <2> QED
    BY <1>3, <2>1, AnswerIs
<1>6. at \in Nat
  BY <1>3
<1>7. ReadsNothing(c) <=> al % 64 = 0
  BY <1>4 DEF ReadsNothing
<1>8. s[3] # 0 => (OffDisk(c) <=> ~(Lo(c.r.dx) = 0 /\ s \in CHS))
  BY NamedSector
<1>9. ASSUME ~out.wild, s \in CHS, mem' = out.mem
      PROVE  out.ret = Available(first, al) /\ Delivered(first, al, at) /\ out.ret \in 0..al
  <2>1. first = Lba(Cylinder(c), Hi(c.r.dx), Sector(c)) /\ first \in Nat
    BY <1>9, NumberIs
  <2>2. floppy # NoFloppy
    BY <1>9 DEF ReadDiskLBA, HasDisk
  <2>3. out = ReadDiskLBA(Given(c), 0, first, al, at)
    BY <2>1
  <2>4. floppy \in Seq(0..255)
    BY <2>2, BiosAssumption DEF Typed
  <2> HIDE DEF first, al, at, out
  <2>5. Available(first, al) \in 0..al
    BY <1>4, <2>1, <2>4, GotIs DEF FromDisk
  <2>6. mem' = ReadDiskLBA(Given(c), 0, first, al, at).mem
    BY <1>9, <2>3
  <2>7. /\ ReadDiskLBA(Given(c), 0, first, al, at).ret = Available(first, al)
        /\ Delivered(first, al, at)
    <3>1. al \in Nat
      BY <1>4
    <3> QED
      BY <3>1, <1>6, <2>1, <2>2, <2>6, ReadDelivers, SMT
  <2>8. out.ret = Available(first, al)
    BY <2>3, <2>7, Zenon
  <2> QED
    BY <2>5, <2>7, <2>8, Zenon
<1>10. Hi(c.r.ax) # 66
  BY <1>1
<1> HIDE DEF out, good, part, off, none, first, al, at
<1>11. al % 64 = 0 => r'.cf /\ r'.ax = c.r.ax /\ Untouched
  BY <1>2, <1>5, <1>7, StillUntouched
<1>12. ASSUME al % 64 # 0, s[3] # 0, Lo(c.r.dx) = 0, s \in CHS
       PROVE  /\ Lo(r'.ax) = Available(first, al)
              /\ r'.cf <=> Lo(r'.ax) < al
              /\ ~r'.cf => Hi(r'.ax) = 0
              /\ Delivered(first, al, at)
  <2>1. /\ ~out.wild /\ mem' = out.mem /\ r' = IF out.ret = al THEN good ELSE part
    BY <1>2, <1>7, <1>8, <1>12
  <2>2. out.ret = Available(first, al) /\ Delivered(first, al, at) /\ out.ret \in 0..al
    BY <1>9, <1>12, <2>1
  <2>3. CASE out.ret = al
    <3>1. r'.cf = FALSE /\ r'.ax = al
      BY <1>5, <2>1, <2>3
    <3> QED
      BY <1>4, <2>2, <2>3, <3>1
  <2>4. CASE out.ret # al
    <3>1. r'.cf = TRUE /\ r'.ax = HiLo(2, out.ret)
      BY <1>1, <1>5, <2>1, <2>4
    <3>2. out.ret \in Nat /\ out.ret <= 255 /\ out.ret < al
      BY <1>4, <2>2, <2>4
    <3>3. Lo(r'.ax) = out.ret
      BY <1>4, <3>1, <3>2
    <3> QED
      BY <2>2, <3>1, <3>2, <3>3
  <2> QED
    BY <2>3, <2>4
<1>13. ASSUME al % 64 # 0, s[3] # 0, ~(Lo(c.r.dx) = 0 /\ s \in CHS)
       PROVE  r'.cf /\ r'.ax = HiLo(1, al) /\ Untouched
  <2>1. r' = off /\ mem' = Given(c)
    BY <1>2, <1>7, <1>8, <1>13
  <2> QED
    BY <1>4, <1>5, <2>1, StillUntouched
<1> HIDE DEF s
<1> QED
  BY <1>10, <1>11, <1>12, <1>13 DEF Reported, al, at, first, s

\* A number of blocks cut to an int is an integer, and itself if it fits.
LEMMA CutIs ==
  ASSUME NEW m \in Memories, NEW a \in Nat
  PROVE  /\ CutToInt(m, a) \in Int
         /\ Word(m, a + 2) < 32768 => CutToInt(m, a) = Word(m, a) + 65536 * Word(m, a + 2)
<1> DEFINE low == Word(m, a)
           high == Word(m, a + 2)
<1>1. low \in Nat /\ high \in Nat
  BY WordIs
<1>2. CutToInt(m, a) = low + 65536 * (IF high < 32768 THEN high ELSE high - 65536)
  BY DEF CutToInt
<1> HIDE DEF low, high
<1> QED
  BY <1>1, <1>2 DEF low, high

\* The block sought is an integer, and the one named if an int can count its bytes.
LEMMA SeeksAre ==
  ASSUME NEW lba \in Int
  PROVE  Seeks(lba) \subseteq Int /\ (0 <= lba /\ lba < IntSectors => Seeks(lba) = {lba})
<1> DEFINE N == IntSectors
           w == lba % (2 * N)
<1>1. N \in Nat /\ N > 0
  BY Sizes DEF IntSectors
<1>2. Seeks(lba) = IF lba \in -N .. N - 1 THEN {lba} ELSE {lba, IF w < N THEN w ELSE w - 2 * N}
  BY DEF Seeks
<1> HIDE DEF N
<1>3. w \in Int
  BY <1>1
<1> HIDE DEF w
<1> QED
  BY <1>1, <1>2, <1>3 DEF N

\* AH=42 reads what its packet names.
LEMMA PacketReported ==
  ASSUME Typed, NEW c \in Calls[guest.menu], ExtendedRead(c), call' = c, state' = "running"
  PROVE  Reported(c)
<1> DEFINE p == c.r.ds * 16 + c.r.si
           word(k) == Word(Given(c), p + k)
           count == word(2)
           block == word(8) + 65536 * word(10)
           counted == word(14) = 0 /\ word(12) = 0 /\ word(10) < 32768 /\ block < IntSectors
           cut == CutToInt(Given(c), p + 8)
           buffer == word(6) * 16 + word(4)
           disk == Lo(c.r.dx)
           out(lba) == ReadDiskLBA(Given(c), disk, lba, count, buffer)
           far == [c.r EXCEPT !.cf = TRUE, !.ax = HiLo(187, c.r.ax)]
<1>1. Hi(c.r.ax) = 66
  BY DEF ExtendedRead, Is
<1>2. IF buffer + count * SectorSize > MemTop THEN r' = far /\ mem' = Given(c)
      ELSE \E lba \in Seeks(cut) : ~out(lba).wild /\ mem' = out(lba).mem
  BY DEF ExtendedRead, Answers, Returns, Reads, Ends
<1>3. /\ c.r \in Registers /\ c.r.ax \in Nat /\ c.r.ds \in Nat /\ c.r.si \in Nat
      /\ Given(c) \in Memories
  BY CallIs, RegistersAre, GivenIs
<1>4. /\ count \in Nat /\ word(8) \in Nat /\ word(10) \in Nat /\ word(4) \in Nat /\ word(6) \in Nat
      /\ cut \in Int /\ (word(10) < 32768 => cut = word(8) + 65536 * word(10))
  <2>1. /\ p + 2 \in Nat /\ p + 4 \in Nat /\ p + 6 \in Nat /\ p + 8 \in Nat /\ p + 10 \in Nat
        /\ (p + 8) + 2 = p + 10
    BY <1>3
  <2> HIDE DEF p
  <2> QED
    BY <1>3, <2>1, WordIs, CutIs
<1>5. far.cf = TRUE /\ far.ax = HiLo(187, c.r.ax)
  BY <1>3, AnswerIs
<1>6. Hi(HiLo(187, c.r.ax)) = 187
  BY <1>3 DEF Hi, HiLo
<1> HIDE DEF p, far
<1>7. buffer \in Nat /\ block \in Nat
  BY <1>4
<1>8. ASSUME NEW lba \in Seeks(cut), ~out(lba).wild, mem' = out(lba).mem
      PROVE  Kept(count * SectorSize, buffer) /\ (disk = 0 /\ counted => Delivered(block, count, buffer))
  <2> HIDE DEF count, buffer, disk, block, cut, word
  <2>1. lba \in Int /\ (counted => lba = block)
    <3>1. counted => cut = block
      BY <1>4 DEF block
    <3>2. Seeks(cut) \subseteq Int /\ (counted => Seeks(cut) = {cut})
      BY <1>4, <1>7, <3>1, SeeksAre
    <3> QED
      BY <3>1, <3>2
  <2>2. Kept(count * SectorSize, buffer)
    BY <1>4, <1>7, <1>8, <2>1, ReadKeeps
  <2>3. ASSUME disk = 0, lba = block PROVE Delivered(block, count, buffer)
    <3>1. floppy # NoFloppy
      BY <1>8, <2>3 DEF ReadDiskLBA, HasDisk
    <3>2. mem' = ReadDiskLBA(Given(c), 0, block, count, buffer).mem
      BY <1>8, <2>3
    <3> QED
      BY <1>4, <1>7, <3>1, <3>2, ReadDelivers
  <2> QED
    BY <2>1, <2>2, <2>3
<1>9. ASSUME NEW lba, mem' = out(lba).mem, disk # 0 PROVE Untouched
  <2>1. mem' = Bytes(buffer, <<>>) ++ Given(c)
    BY <1>9 DEF ReadDiskLBA, HasDisk
  <2> HIDE DEF buffer
  <2>2. DOMAIN Bytes(buffer, <<>>) = {}
    BY <1>7 DEF Bytes
  <2>3. \A a : Now(a) = Byte(Bytes(buffer, <<>>) ++ Given(c), a) /\ Was(a) = Byte(Given(c), a)
    BY <2>1 DEF Now, Was, Given
  <2> QED
    BY <2>2, <2>3, Elsewhere DEF Untouched
<1> HIDE DEF out
<1>10. IF buffer + count * SectorSize > MemTop
       THEN r'.cf /\ Hi(r'.ax) = 187 /\ Untouched
       ELSE /\ disk = 0 /\ counted => Delivered(block, count, buffer)
            /\ Kept(count * SectorSize, buffer)
            /\ disk # 0 => Untouched
  <2> HIDE DEF counted, block, cut, count, buffer, disk, word
  <2> QED
    BY <1>2, <1>5, <1>6, <1>8, <1>9, StillUntouched
<1> QED
  BY <1>1, <1>10 DEF Reported, p

\* Every call of INT 13h reports as it should.
LEMMA DiskServed ==
  ASSUME Typed, Next, Serves(19)
  PROVE  Reported(call')
<1>1. GuestCalls /\ call'.int = 19 /\ state' = "running"
  BY DEF Next, Boot, Serves
<1>2. PICK c \in Calls[guest.menu] : ((BiosCall(c) /\ FilesKept) \/ DosCall(c)) /\ call' = c
  BY <1>1 DEF GuestCalls
<1>3. Int13(c)
  BY <1>1, <1>2, Int10Is, OtherIs, DosIs DEF BiosCall
<1>4. CASE Hi(c.r.ax) \notin {2, 66}
  BY <1>2, <1>4 DEF Reported
<1>5. CASE ReadSectors(c) \/ ExtendedRead(c)
  BY <1>1, <1>2, <1>5, SectorsReported, PacketReported
<1>6. ReadSectors(c) \/ ExtendedRead(c) \/ Hi(c.r.ax) \notin {2, 66}
  BY <1>3 DEF Int13, ResetDisk, DriveParameters, DiskType, DiskChanged, DiskUnknown, Is
<1> QED
  BY <1>4, <1>5, <1>6

-----------------------------------------------------------------------------
(* Counting up.                                                            *)

\* What holds of 0 and passes from one number to the next holds up to n.
LEMMA UpTo ==
  ASSUME NEW n \in Nat, NEW S, 0 \in S, \A k \in 0 .. n - 1 : k \in S => k + 1 \in S
  PROVE  n \in S
<1> DEFINE Bad == {k \in 0..n : k \notin S}
<1> SUFFICES ASSUME n \notin S PROVE FALSE
  OBVIOUS
<1>1. Bad \subseteq Nat /\ n \in Bad
  OBVIOUS
<1>2. PICK m \in Bad : \A k \in Bad : m <= k
  <2> HIDE DEF Bad
  <2> QED
    BY <1>1, LeastOf
<1>3. m # 0 /\ m \in 0..n
  OBVIOUS
<1>4. m - 1 \in 0 .. n - 1 /\ ~(m <= m - 1) /\ (m - 1) + 1 = m
  BY <1>3
<1>5. m - 1 \notin Bad
  BY <1>2, <1>4
<1>6. m - 1 \in S
  BY <1>4, <1>5
<1>7. m \in S
  BY <1>4, <1>6
<1> QED
  BY <1>7

-----------------------------------------------------------------------------
(* The program.                                                            *)

\* The data of a program: bytes.
Data(n) == [1..n -> 0..255]

\* A word of them increased.
Increased(n, d, e, k, v) ==
  /\ e \in Data(n)
  /\ \A j \in 1..n : j \notin {k + 1, k + 2} => e[j] = d[j]
  /\ e[k + 1] + 256 * e[k + 2] = (d[k + 1] + 256 * d[k + 2] + v) % 65536

\* AddedAt increases the word it is given and no other byte.
LEMMA AddedIs ==
  ASSUME NEW n \in Nat, NEW d \in Data(n), NEW k \in Nat, k + 2 <= n, NEW v \in Nat
  PROVE  Increased(n, d, AddedAt(d, k, v), k, v)
<1> DEFINE w == (d[k + 1] + 256 * d[k + 2] + v) % 65536
           lo == w % 256
           hi == w \div 256
           e == [d EXCEPT ![k + 1] = lo, ![k + 2] = hi]
<1>1. k + 1 \in 1..n /\ k + 2 \in 1..n /\ k + 1 # k + 2
  OBVIOUS
<1>2. d[k + 1] \in 0..255 /\ d[k + 2] \in 0..255
  BY <1>1 DEF Data
<1>3. w \in Nat /\ w < 65536
  <2> DEFINE a == d[k + 1]
             b == d[k + 2]
  <2>1. a \in 0..255 /\ b \in 0..255 /\ w = (a + 256 * b + v) % 65536
    BY <1>2
  <2> DEFINE x == a + 256 * b + v
  <2> HIDE DEF a, b
  <2>2. x \in Nat /\ w = x % 65536
    BY <2>1
  <2> HIDE DEF x, w
  <2> QED
    BY <2>2
<1>4. AddedAt(d, k, v) = e
  BY DEF AddedAt
<1> HIDE DEF w
<1>5. lo \in 0..255 /\ hi \in 0..255 /\ lo + 256 * hi = w
  BY <1>3
<1> HIDE DEF lo, hi
<1>6. /\ e \in Data(n) /\ e[k + 1] = lo /\ e[k + 2] = hi
      /\ \A j \in 1..n : j \notin {k + 1, k + 2} => e[j] = d[j]
  BY <1>1, <1>5 DEF Data
<1> HIDE DEF e
<1>7. Increased(n, d, e, k, v)
  BY <1>5, <1>6 DEF w, Increased
<1> QED
  BY <1>4, <1>7

\* How many of the first k entries of the table name the place p.
Among(k, p) == Cardinality({i \in 1..k : Place(i) = p})

\* An entry more counts for the place it names.
LEMMA AmongIs ==
  ASSUME NEW p
  PROVE  /\ Among(0, p) = 0
         /\ \A k \in Nat : Among(k, p) \in Nat
         /\ \A k \in Nat : Among(k + 1, p) = Among(k, p) + IF Place(k + 1) = p THEN 1 ELSE 0
<1> DEFINE S(k) == {i \in 1..k : Place(i) = p}
<1>1. \A k \in Nat : IsFiniteSet(S(k))
  <2> SUFFICES ASSUME NEW k \in Nat PROVE IsFiniteSet(S(k))
    OBVIOUS
  <2>1. IsFiniteSet(1..k)
    BY FS_Interval
  <2>2. S(k) \subseteq 1..k
    OBVIOUS
  <2> QED
    BY <2>1, <2>2, FS_Subset
<1>2. S(0) = {}
  OBVIOUS
<1>3. ASSUME NEW k \in Nat
      PROVE  S(k + 1) = (IF Place(k + 1) = p THEN S(k) \cup {k + 1} ELSE S(k)) /\ k + 1 \notin S(k)
  <2>1. \A i : i \in 1..k + 1 <=> i \in 1..k \/ i = k + 1
    OBVIOUS
  <2> QED
    BY <2>1
<1> HIDE DEF S
<1>4. Cardinality(S(0)) = 0
  BY <1>2, FS_EmptySet
<1>5. \A k \in Nat : Cardinality(S(k)) \in Nat
  BY <1>1, FS_CardinalityType
<1>6. \A k \in Nat : Cardinality(S(k + 1)) =
                       Cardinality(S(k)) + IF Place(k + 1) = p THEN 1 ELSE 0
  <2> SUFFICES ASSUME NEW k \in Nat
               PROVE  Cardinality(S(k + 1)) =
                        Cardinality(S(k)) + IF Place(k + 1) = p THEN 1 ELSE 0
    OBVIOUS
  <2>1. CASE Place(k + 1) = p
    BY <1>1, <1>3, <2>1, FS_AddElement
  <2>2. CASE Place(k + 1) # p
    <3> DEFINE c == Cardinality(S(k))
    <3>1. Cardinality(S(k + 1)) = c /\ c \in Nat
      BY <1>3, <1>5, <2>2
    <3> HIDE DEF c
    <3>2. c = c + IF Place(k + 1) = p THEN 1 ELSE 0
      BY <2>2, <3>1
    <3> QED
      BY <3>1, <3>2 DEF c
  <2> QED
    BY <2>1, <2>2
<1>7. \A k : Among(k, p) = Cardinality(S(k))
  BY DEF Among, S
<1> QED
  BY <1>4, <1>5, <1>6, <1>7

\* The data after the first k relocations.
After(d, n, k) ==
  {e \in Data(n) :
     /\ \A j \in 0 .. n - 1 : Places \cap {j - 1, j} = {} => e[j + 1] = d[j + 1]
     /\ \A p \in Places : Apart(p) =>
          e[p + 1] + 256 * e[p + 2]
            = (d[p + 1] + 256 * d[p + 2] + Among(k, p) * DestinationSeg) % 65536}

\* One relocation more is applied to the data after those before it.
LEMMA OneRelocation ==
  ASSUME NEW n \in Nat, NEW d \in Data(n), \A i \in Relocs : Place(i) \in Nat /\ Place(i) + 2 <= n,
         NEW k \in Nat, k + 1 \in Relocs, NEW e \in After(d, n, k)
  PROVE  AddedAt(e, Place(k + 1), DestinationSeg) \in After(d, n, k + 1)
<1> DEFINE q == Place(k + 1)
           f == AddedAt(e, q, DestinationSeg)
<1>1. q \in Nat /\ q + 2 <= n /\ q \in Places
  BY DEF Places
<1>2. \A p \in Places : p \in Nat /\ p + 2 <= n
  BY DEF Places
<1>3. e \in Data(n)
  BY DEF After
<1>4. DestinationSeg \in Nat
  BY DEF DestinationSeg
<1> HIDE DEF q
<1>9. Increased(n, e, f, q, DestinationSeg)
  BY <1>1, <1>3, <1>4, AddedIs
<1> HIDE DEF f
<1>5. /\ f \in Data(n) /\ \A j \in 1..n : j \notin {q + 1, q + 2} => f[j] = e[j]
      /\ f[q + 1] + 256 * f[q + 2] = (e[q + 1] + 256 * e[q + 2] + DestinationSeg) % 65536
  BY <1>9 DEF Increased
<1>6. ASSUME NEW j \in 0 .. n - 1, Places \cap {j - 1, j} = {}
      PROVE  f[j + 1] = d[j + 1]
  <2>1. q # j /\ q # j - 1
    BY <1>1, <1>6
  <2>2. j + 1 \in 1..n /\ j + 1 \notin {q + 1, q + 2}
    BY <1>1, <2>1
  <2>3. f[j + 1] = e[j + 1]
    BY <1>5, <2>2
  <2> QED
    BY <1>6, <2>3 DEF After
<1>7. ASSUME NEW p \in Places, Apart(p)
      PROVE  f[p + 1] + 256 * f[p + 2]
               = (d[p + 1] + 256 * d[p + 2] + Among(k + 1, p) * DestinationSeg) % 65536
  <2> DEFINE w == d[p + 1] + 256 * d[p + 2]
             c == Among(k, p)
             v == e[p + 1] + 256 * e[p + 2]
             u == f[p + 1] + 256 * f[p + 2]
  <2>1. v = (w + c * DestinationSeg) % 65536
    BY <1>7 DEF After
  <2>2. c \in Nat /\ Among(k + 1, p) = c + IF q = p THEN 1 ELSE 0
    BY AmongIs DEF q
  <2>3. w \in Nat
    <3>1. p + 1 \in 1..n /\ p + 2 \in 1..n
      BY <1>2
    <3> DEFINE a == d[p + 1]
               b == d[p + 2]
    <3>2. a \in 0..255 /\ b \in 0..255 /\ w = a + 256 * b
      BY <3>1 DEF Data
    <3> HIDE DEF a, b, w
    <3> QED
      BY <3>2
  <2>4. CASE q = p
    <3>1. u = (v + DestinationSeg) % 65536
      BY <1>5, <2>4
    <3> HIDE DEF c, u, v, w
    <3>2. u = (w + (c + 1) * DestinationSeg) % 65536
      BY <2>1, <2>2, <2>3, <3>1 DEF DestinationSeg
    <3> QED
      BY <2>2, <2>4, <3>2 DEF u, w
  <2>5. CASE q # p
    <3>1. q - p \notin {-1, 1} /\ p \in Nat /\ p + 2 <= n
      BY <1>1, <1>2, <1>7, <2>5 DEF Apart
    <3>2. /\ p + 1 \in 1..n /\ p + 2 \in 1..n
          /\ p + 1 \notin {q + 1, q + 2} /\ p + 2 \notin {q + 1, q + 2}
      BY <1>1, <2>5, <3>1
    <3>3. u = v
      BY <1>5, <3>2
    <3> HIDE DEF c, u, v, w
    <3> QED
      BY <2>1, <2>2, <2>5, <3>3 DEF u, w
  <2> QED
    BY <2>4, <2>5
<1>8. f \in After(d, n, k + 1)
  BY <1>5, <1>6, <1>7 DEF After
<1> QED
  BY <1>8 DEF f, q

\* The fold of Relocated has applied the whole table.
LEMMA RelocatedIs ==
  ASSUME NEW n \in Nat, NEW d \in Data(n), NEW len \in Nat, Relocs = 1..len,
         \A i \in Relocs : Place(i) \in Nat /\ Place(i) + 2 <= n
  PROVE  Relocated(d) \in After(d, n, len)
<1> DEFINE D == SUBSET (1..len)
           T == Data(n)
           q == [i \in Relocs |-> i]
           Folding(g) == g = [u \in D |-> IF u = {} THEN d
                                     ELSE AddedAt(g[Rest(u)], Place(q[Max(u)]), DestinationSeg)]
           it == CHOOSE g : Folding(g)
<1>9. DOMAIN q = 1..len /\ \A k \in 1..len : q[k] = k
  OBVIOUS
<1>1. Relocated(d) = it[1..len]
  <2>1. Relocated(d) =
          (CHOOSE g : g = [u \in SUBSET DOMAIN q |-> IF u = {} THEN d
             ELSE AddedAt(g[u \ {Max(u)}], Place(q[Max(u)]), DestinationSeg)])[DOMAIN q]
    BY DEF Relocated, FoldLeft, MapThenFoldSet
  <2> HIDE DEF q
  <2> QED
    BY <1>9, <2>1 DEF Rest
<1> HIDE DEF q
<1>2. ASSUME NEW k \in 1..len, NEW e \in T
      PROVE  AddedAt(e, Place(k), DestinationSeg) \in T
  <2>1. Place(k) \in Nat /\ Place(k) + 2 <= n /\ DestinationSeg \in Nat
    BY DEF DestinationSeg
  <2> QED
    BY <2>1, AddedIs DEF Increased
<1>3. \E g : Folding(g)
  <2> DEFINE G == [p \in T \X Nat |->
                     IF p[2] \in 1..len THEN AddedAt(p[1], Place(p[2]), DestinationSeg) ELSE d]
  <2>1. G \in [T \X Nat -> T]
    <3> HIDE DEF T
    <3> QED
      BY <1>2 DEF T
  <2>2. \A e \in T, k \in 1..len : G[<<e, k>>] = AddedAt(e, Place(k), DestinationSeg)
    OBVIOUS
  <2> HIDE DEF G, T
  <2>3. PICK f \in [SUBSET (1..len) -> T] : IsFold(f, len, d, G)
    BY <2>1, FoldExists DEF T
  <2>4. \A u \in D : f[u] = IF u = {} THEN d
                            ELSE AddedAt(f[Rest(u)], Place(q[Max(u)]), DestinationSeg)
    <3> SUFFICES ASSUME NEW u \in SUBSET (1..len), u # {}
                 PROVE  f[u] = AddedAt(f[Rest(u)], Place(q[Max(u)]), DestinationSeg)
      BY <2>3 DEF IsFold
    <3>1. Max(u) \in 1..len /\ Rest(u) \in SUBSET (1..len)
      BY RestIs
    <3>2. f[u] = G[<<f[Rest(u)], Max(u)>>]
      BY <2>3 DEF IsFold
    <3> QED
      BY <1>9, <2>2, <3>1, <3>2
  <2>5. Folding(f)
    BY <2>4
  <2> QED
    BY <2>5
<1>4. Folding(it)
  BY <1>3
<1>5. /\ it[{}] = d
      /\ \A u \in D : u # {} => it[u] = AddedAt(it[Rest(u)], Place(q[Max(u)]), DestinationSeg)
  <2>1. {} \in D
    OBVIOUS
  <2> HIDE DEF it, D
  <2> QED
    BY <1>4, <2>1
<1> HIDE DEF it, Is
<1> DEFINE Good == {k \in Nat : it[1..k] \in After(d, n, k)}
<1>6. 0 \in Good
  <2>1. it[1..0] = d
    <3>1. 1..0 = {}
      OBVIOUS
    <3> QED
      BY <1>5, <3>1
  <2>2. \A p \in Places : d[p + 1] + 256 * d[p + 2]
          = (d[p + 1] + 256 * d[p + 2] + Among(0, p) * DestinationSeg) % 65536
    <3> SUFFICES ASSUME NEW p \in Places
                 PROVE  d[p + 1] + 256 * d[p + 2]
                          = (d[p + 1] + 256 * d[p + 2] + Among(0, p) * DestinationSeg) % 65536
      OBVIOUS
    <3>1. p \in Nat /\ p + 2 <= n
      BY DEF Places
    <3>2. p + 1 \in 1..n /\ p + 2 \in 1..n
      BY <3>1
    <3> DEFINE a == d[p + 1]
               b == d[p + 2]
               c == Among(0, p)
    <3>3. a \in 0..255 /\ b \in 0..255 /\ c = 0
      BY <3>2, AmongIs DEF Data
    <3> HIDE DEF a, b, c
    <3>4. a + 256 * b = (a + 256 * b + c * DestinationSeg) % 65536
      BY <3>3 DEF DestinationSeg
    <3> QED
      BY <3>4 DEF a, b, c
  <2>3. d \in After(d, n, 0)
    BY <2>2 DEF After
  <2> QED
    BY <2>1, <2>3
<1>7. ASSUME NEW k \in 0 .. len - 1, k \in Good PROVE k + 1 \in Good
  <2>1. k \in Nat /\ k + 1 \in 1..len /\ it[1..k] \in After(d, n, k)
    BY <1>7
  <2>2. Max(1..k + 1) = k + 1 /\ Rest(1..k + 1) = 1..k
    BY <2>1, RestOfAll
  <2>3. 1..k + 1 \in D /\ 1..k + 1 # {}
    <3>1. 1..k + 1 \subseteq 1..len /\ k + 1 \in 1..k + 1
      BY <2>1
    <3> QED
      BY <3>1
  <2>4. it[1..k + 1] = AddedAt(it[1..k], Place(k + 1), DestinationSeg)
    BY <1>5, <1>9, <2>1, <2>2, <2>3
  <2>5. it[1..k + 1] \in After(d, n, k + 1)
    BY <2>1, <2>4, OneRelocation
  <2> QED
    BY <2>1, <2>5
<1> HIDE DEF Good
<1>8. len \in Good
  BY <1>6, <1>7, UpTo
<1> QED
  BY <1>1, <1>8 DEF Good

-----------------------------------------------------------------------------
(* The file.                                                               *)

\* The guest's file is bytes.
LEMMA FileIs ==
  ASSUME Typed
  PROVE  File \in Seq(0..255) /\ Len(File) \in Nat /\ \A k \in 1..Len(File) : File[k] \in 0..255
<1>1. File \in Seq(0..255)
  BY GuestAssumption DEF Typed, File
<1> HIDE DEF File
<1> QED
  BY <1>1, LenProperties, ElementOfSeq

\* A word of its header is a word,
LEMMA FileWordIs ==
  ASSUME Typed, NEW k \in Nat, k + 2 <= Len(File)
  PROVE  FileWord(k) \in Words
<1> DEFINE a == File[k + 1]
           b == File[k + 2]
<1>1. k + 1 \in 1..Len(File) /\ k + 2 \in 1..Len(File)
  BY FileIs
<1>2. a \in 0..255 /\ b \in 0..255 /\ FileWord(k) = a + 256 * b
  BY <1>1, FileIs DEF FileWord
<1> HIDE DEF a, b
<1>3. a + 256 * b \in Words
  BY <1>2 DEF Words
<1> QED
  BY <1>2, <1>3

\* which is a number below 65536.
LEMMA WordsAre ==
  ASSUME NEW w \in Words
  PROVE  w \in Nat /\ w <= 65535
BY DEF Words

\* The C remainder of what the last block lacks, negative if it lacks less than nothing.
LEMMA RemainderIs ==
  ASSUME NEW b \in Nat
  PROVE  Remainder(512 - b, 512) \in Int /\ (b <= 512 => Remainder(512 - b, 512) >= 0)
BY DEF Remainder

\* What a header that is accepted says.
LEMMA SizeIs ==
  ASSUME Typed, ~Unreadable
  PROVE  /\ \A k \in {0, 2, 4, 6, 8, 10, 14, 16, 20, 22, 24} : FileWord(k) \in Words
         /\ Len(File) \in Nat /\ DataStart \in Nat /\ DataSize \in Nat
         /\ DataStart + DataSize <= Len(File)
         /\ BytesInLastBlock <= 512 => DataSize <= BlocksInFile * 512
<1> DEFINE b == BytesInLastBlock
           n == BlocksInFile
           h == FileWord(8)
           rem == Remainder(512 - b, 512)
<1>1. Len(File) \in Nat /\ Len(File) >= 28
  BY FileIs DEF Unreadable, HeaderSize
<1>2. \A k \in {0, 2, 4, 6, 8, 10, 14, 16, 20, 22, 24} : FileWord(k) \in Words
  BY <1>1, FileWordIs
<1>3. b \in Nat /\ n \in Nat /\ h \in Nat
  <2>1. FileWord(2) \in Words /\ FileWord(4) \in Words /\ FileWord(8) \in Words
    BY <1>2
  <2> QED
    BY <2>1, WordsAre DEF BytesInLastBlock, BlocksInFile
<1>4. DataSize = n * 512 - rem - h * 16 /\ DataStart = h * 16
  BY DEF DataSize, DataStart
<1>5. rem \in Int /\ (b <= 512 => rem >= 0)
  BY <1>3, RemainderIs
<1> HIDE DEF b, n, h, rem
<1>6. DataSize \in Int /\ DataStart \in Nat
  BY <1>3, <1>4, <1>5
<1>7. ~(DataSize < 0) /\ ~(DataStart + DataSize > Len(File))
  BY DEF Unreadable
<1>8. DataSize \in Nat /\ DataStart + DataSize <= Len(File)
  BY <1>1, <1>6, <1>7
<1>9. b <= 512 => DataSize <= n * 512
  BY <1>3, <1>4, <1>5
<1> QED
  BY <1>1, <1>2, <1>6, <1>8, <1>9 DEF b, n

\* The places the table names lie in the data.
LEMMA TableIs ==
  ASSUME Typed, ~Unreadable, ~HeapOverrun
  PROVE  /\ \E len \in Nat : Relocs = 1..len
         /\ \A i \in Relocs : Place(i) \in Nat /\ Place(i) + 2 <= DataSize
<1> DEFINE L == Len(File)
           x == NumRelocs
           y == (L - RelocStart) \div 4
           m == Min({x} \cup {y})
<1>1. L \in Nat /\ L >= 28
  BY FileIs DEF Unreadable, HeaderSize
<1>2. NumRelocs \in Nat /\ RelocStart \in Nat
  <2>1. FileWord(6) \in Words /\ FileWord(24) \in Words
    BY <1>1, FileWordIs
  <2> QED
    BY <2>1, WordsAre DEF NumRelocs, RelocStart
<1>3. x \in Int /\ y \in Int /\ Relocs = 1..m
  <2>1. Relocs = 1..m
    BY DEF Relocs
  <2> DEFINE start == RelocStart
  <2>2. L \in Nat /\ start \in Nat
    BY <1>1, <1>2
  <2> HIDE DEF L, start
  <2>3. (L - start) \div 4 \in Int
    BY <2>2
  <2> HIDE DEF m
  <2> QED
    BY <1>2, <2>1, <2>3 DEF start
<1>4. m \in {x, y} /\ m <= x /\ m <= y
  <2> HIDE DEF x, y
  <2>1. \E k \in {x} \cup {y} : \A j \in {x} \cup {y} : k <= j
    <3>1. CASE x <= y
      BY <1>3, <3>1
    <3>2. CASE ~(x <= y)
      BY <1>3, <3>2
    <3> QED
      BY <3>1, <3>2
  <2> QED
    BY <2>1 DEF Min
<1>5. m \in Int
  BY <1>3, <1>4
<1> HIDE DEF m
<1>6. \E len \in Nat : Relocs = 1..len
  <2>1. CASE m >= 0
    BY <1>3, <1>5, <2>1
  <2>2. CASE m < 0
    <3>1. Relocs = 1..0
      BY <1>3, <1>5, <2>2
    <3> QED
      BY <3>1
  <2> QED
    BY <1>5, <2>1, <2>2
<1>7. ASSUME NEW i \in Relocs PROVE Place(i) \in Nat
  <2> DEFINE rs == RelocStart
  <2>1. i \in Nat /\ i >= 1 /\ i <= y
    BY <1>3, <1>4, <1>5, <1>7
  <2>2. rs \in Nat /\ y = (L - rs) \div 4
    BY <1>2
  <2> HIDE DEF L, y, rs
  <2>3. /\ rs + 4 * i - 2 \in Nat /\ rs + 4 * i - 4 \in Nat
        /\ rs + 4 * i <= L
    BY <1>1, <2>1, <2>2
  <2> DEFINE j == rs + 4 * i - 2
             k == rs + 4 * i - 4
  <2>4. j \in Nat /\ k \in Nat /\ j + 2 <= Len(File) /\ k + 2 <= Len(File)
    BY <1>1, <2>1, <2>2, <2>3 DEF L
  <2>5. Place(i) = FileWord(j) * 16 + FileWord(k)
    BY DEF Place, rs
  <2> HIDE DEF j, k
  <2>6. FileWord(j) \in Words /\ FileWord(k) \in Words
    BY <2>4, FileWordIs
  <2>7. FileWord(j) \in Nat /\ FileWord(k) \in Nat
    BY <2>6, WordsAre
  <2> QED
    BY <2>5, <2>7
<1>8. ASSUME NEW i \in Relocs PROVE Place(i) + 2 <= DataSize
  <2>1. ~(Place(i) + 2 > DataSize)
    BY <1>8 DEF HeapOverrun
  <2>2. DataSize \in Int
    BY SizeIs
  <2> QED
    BY <1>7, <2>1, <2>2
<1> QED
  BY <1>6, <1>7, <1>8

\* Block by block, the data lands in one piece.
LEMMA LandingIs ==
  ASSUME NEW j \in Nat
  PROVE  Landing(j) = DestAddr + j /\ DestAddr = 65536
<1> DEFINE B == BlockSize
           D == DestAddr
           H == HeadSize
           block == (D + H) \div B + (j - H) \div B
<1>1. B \in Nat /\ B > 0
  BY Sizes
<1>2. D = 65536
  BY DEF DestAddr, DestinationSeg
<1>3. H = IF D % B = 0 THEN 0 ELSE B - (D % B)
  BY DEF HeadSize
<1>4. Landing(j) = IF j < H THEN D + j ELSE block * B + ((j - H) % B)
  BY DEF Landing
<1> HIDE DEF B, D, H
<1>5. D % B \in 0 .. B - 1 /\ D = (D \div B) * B + (D % B) /\ D \div B \in Nat
  BY <1>1, <1>2
<1>6. H \in Nat
  BY <1>1, <1>3, <1>5
<1>7. D + H = ((D + H) \div B) * B /\ (D + H) \div B \in Nat
  <2> DEFINE q == D \div B
  <2>1. CASE D % B = 0
    BY <1>1, <1>2, <1>3, <1>5, <2>1
  <2>2. CASE D % B # 0
    <3>1. q \in Nat /\ D + H = q * B + B
      BY <1>1, <1>2, <1>3, <1>5, <2>2
    <3> HIDE DEF q
    <3>2. q * B + B = (q + 1) * B
      BY <1>1, <3>1
    <3> DEFINE t == q + 1
    <3>3. (t * B) \div B = t
      <4>1. t \in Nat
        BY <3>1
      <4> HIDE DEF t
      <4> QED
        BY <1>1, <4>1
    <3> QED
      BY <1>1, <3>1, <3>2, <3>3
  <2> QED
    BY <2>1, <2>2
<1>8. ASSUME ~(j < H) PROVE block * B + ((j - H) % B) = D + j
  <2> DEFINE p == (D + H) \div B
             e == j - H
             q == e \div B
             m == e % B
  <2>1. e \in Nat
    BY <1>6, <1>8
  <2> HIDE DEF e
  <2>2. q \in Nat /\ m \in Nat /\ e = q * B + m
    BY <1>1, <2>1
  <2>3. p \in Nat /\ D + H = p * B /\ block = p + q
    BY <1>7 DEF e
  <2> HIDE DEF p, q, m, block
  <2>4. (p + q) * B = p * B + q * B /\ p * B \in Nat /\ q * B \in Nat
    BY <1>1, <2>2, <2>3
  <2>5. block * B + m = (D + H) + e
    BY <2>2, <2>3, <2>4
  <2>6. (D + H) + e = D + j
    BY <1>2, <1>6 DEF e
  <2> QED
    BY <2>5, <2>6 DEF m, e
<1> QED
  BY <1>2, <1>4, <1>8 DEF D

\* What LoadExact says of a memory m, registers g and the start p.
Placed(m, g, p) ==
  LET base == 16 * ((p.cs - FileWord(22)) % 65536)
      psp == base - 256
      file(j) == File[DataStart + j + 1] IN
  /\ \A j \in 0..DataSize - 1 : Places \cap {j - 1, j} = {} => Byte(m, base + j) = file(j)
  /\ \A q \in Places : Apart(q) =>
       Word(m, base + q) = (file(q) + 256 * file(q + 1) + Listed(q) * DestinationSeg) % 65536
  /\ g.ds * 16 = psp /\ (p.ss - FileWord(14)) % 65536 = base \div 16
  /\ g.bx * 65536 + g.cx = DataSize
  /\ BytesInLastBlock <= 512 /\ BlocksInFile * 32 + MinExtra < 32768 =>
       Word(m, psp + 2) * 16 >= base + DataSize
  /\ \A a \in DOMAIN m :
       a \in base .. base + DataSize - 1 \/ a \in psp .. psp + 7 \/ a \in psp + 44 .. psp + 45
         \/ a \in 4096..4104 \/ a \in Video .. CellAt(Cols, Rows - 1)

\* Placed is LoadExact's conclusion,
LEMMA PlacedIs == LoadExact <=> (Loaded => Placed(mem, r, cpu))
BY DEF LoadExact, Placed

\* also after a step.
LEMMA PlacedNext ==
  ASSUME guest' = guest, Loaded' => Placed(mem', r', cpu')
  PROVE  LoadExact'
<1>1. File' = File
  BY DEF File
<1>2. \A k : FileWord(k)' = FileWord(k)
  BY <1>1 DEF FileWord
<1>3. /\ DataStart' = DataStart /\ DataSize' = DataSize /\ BlocksInFile' = BlocksInFile
      /\ BytesInLastBlock' = BytesInLastBlock /\ MinExtra' = MinExtra /\ Relocs' = Relocs
  BY <1>1 DEF DataStart, DataSize, BlocksInFile, BytesInLastBlock, MinExtra, Relocs, NumRelocs,
              RelocStart, FileWord
<1>4. Places' = Places
  BY <1>1, <1>3 DEF Places, Place, FileWord, RelocStart
<1>5. (\A q : Apart(q)' <=> Apart(q)) /\ \A q : Listed(q)' = Listed(q)
  BY <1>1, <1>3, <1>4 DEF Apart, Listed, Place, FileWord, RelocStart
<1>6. FileWord(22)' = FileWord(22) /\ FileWord(14)' = FileWord(14)
  BY <1>1 DEF FileWord
<1> QED
  BY <1>1, <1>3, <1>4, <1>5, <1>6 DEF LoadExact, Placed

-----------------------------------------------------------------------------
(* The program in memory.                                                  *)

\* The address of the prefix.
Psp == DestinationSeg * 16

\* What is written over a memory hides it, the rest shows.
LEMMA OverAt ==
  ASSUME NEW f, NEW g
  PROVE  /\ DOMAIN (f ++ g) = DOMAIN f \cup DOMAIN g
         /\ \A a \in DOMAIN f : (f ++ g)[a] = f[a]
         /\ \A a \in DOMAIN g : a \notin DOMAIN f => (f ++ g)[a] = g[a]
BY DEF ++

\* f is n bytes at an address.
Stretch(f, at, n) ==
  DOMAIN f = at .. at + n - 1 /\ \A a \in DOMAIN f : a \in Nat /\ f[a] \in 0..255

\* So are Bytes.
LEMMA BytesStretch ==
  ASSUME NEW at \in Nat, NEW s \in Seq(0..255)
  PROVE  Stretch(Bytes(at, s), at, Len(s))
<1>1. /\ DOMAIN Bytes(at, s) = at .. at + Len(s) - 1
      /\ \A a \in DOMAIN Bytes(at, s) : a \in Nat /\ Bytes(at, s)[a] \in 0..255
  BY BytesAre
<1> QED
  BY <1>1 DEF Stretch

\* Four bytes at an address.
EndsWith(s, w) ==
  s \in Seq(0..255) /\ Len(s) = 4 /\ s[3] = (w % 256) /\ s[4] = (w \div 256) % 256

\* Two bytes and a word are four bytes.
LEMMA FourBytes ==
  ASSUME NEW a \in 0..255, NEW b \in 0..255, NEW w \in Nat
  PROVE  EndsWith(<<a, b>> \o WordBytes(w), w)
<1> DEFINE s == <<a, b>>
           t == WordBytes(w)
<1>1. s \in Seq(0..255) /\ Len(s) = 2
  OBVIOUS
<1>2. t \in Seq(0..255) /\ Len(t) = 2 /\ t[1] = (w % 256) /\ t[2] = (w \div 256) % 256
  <2>1. TwoBytes(t, w)
    BY WordBytesAre
  <2> HIDE DEF t
  <2> QED
    BY <2>1 DEF TwoBytes
<1> HIDE DEF s, t
<1>3. s \o t \in Seq(0..255)
  BY <1>1, <1>2, EndsMake
<1>4. Len(s \o t) = 4 /\ (s \o t)[3] = t[1] /\ (s \o t)[4] = t[2]
  <2>1. /\ Len(s \o t) = Len(s) + Len(t)
        /\ \A i \in 1 .. Len(s) + Len(t) :
             (s \o t)[i] = IF i <= Len(s) THEN s[i] ELSE t[i - Len(s)]
    <3> DEFINE B == 0..255
    <3>1. s \in Seq(B) /\ t \in Seq(B)
      BY <1>1, <1>2
    <3> HIDE DEF B
    <3> QED
      BY <3>1, ConcatProperties
  <2> DEFINE x == s \o t
  <2> HIDE DEF x
  <2>2. Len(x) = 4 /\ \A i \in 1..4 : x[i] = IF i <= 2 THEN s[i] ELSE t[i - 2]
    BY <1>1, <1>2, <2>1 DEF x
  <2>3. x[3] = t[1] /\ x[4] = t[2]
    <3>1. 3 \in 1..4 /\ 4 \in 1..4 /\ ~(3 <= 2) /\ ~(4 <= 2) /\ 3 - 2 = 1 /\ 4 - 2 = 2
      OBVIOUS
    <3> QED
      BY <2>2, <3>1
  <2> QED
    BY <2>2, <2>3 DEF x
<1>5. EndsWith(s \o t, w)
  BY <1>2, <1>3, <1>4 DEF EndsWith
<1> QED
  BY <1>5 DEF s, t

\* The prefix is bytes at three places, and tells the first free segment.
LEMMA PrefixIs ==
  ASSUME Typed, ~Unreadable
  PROVE  /\ Prefix \in Memories
         /\ \A a \in DOMAIN Prefix :
              a \in Psp .. Psp + 7 \/ a \in Psp + 44 .. Psp + 45 \/ a \in 4096..4104
         /\ LET w == DestinationSeg + 16 + BlocksInFile * 32 + MinExtra
            IN  /\ w \in Nat
                /\ {Psp + 2, Psp + 3} \subseteq DOMAIN Prefix
                /\ Prefix[Psp + 2] = (w % 256) /\ Prefix[Psp + 3] = (w \div 256) % 256
<1> DEFINE w == DestinationSeg + 16 + BlocksInFile * 32 + MinExtra
           s == <<205, 32>> \o WordBytes(w)
           t == <<0, 0, 0, 0, 0, 0, 0, 0>>
           u == WordBytes(SegEnviron)
           v == <<80, 65, 84, 72, 61, 67, 58, 0, 0>>
           env == SegEnviron * 16
           B1 == Bytes(Psp, s)
           B2 == Bytes(Psp, t)
           B3 == Bytes(Psp + 44, u)
           B4 == Bytes(env, v)
<1>1. w \in Nat
  <2>1. FileWord(4) \in Words /\ FileWord(10) \in Words
    BY SizeIs
  <2>2. BlocksInFile \in Nat /\ MinExtra \in Nat
    BY <2>1, WordsAre DEF BlocksInFile, MinExtra
  <2> QED
    BY <2>2 DEF DestinationSeg
<1>2. Psp \in Nat /\ Psp + 44 \in Nat /\ env \in Nat /\ env = 4096
  BY DEF Psp, DestinationSeg, SegEnviron
<1>3. Prefix = B1 ++ B2 ++ B3 ++ B4
  BY DEF Prefix, Psp
<1>4. /\ s \in Seq(0..255) /\ Len(s) = 4
      /\ s[3] = (w % 256) /\ s[4] = (w \div 256) % 256
  <2> HIDE DEF w
  <2>1. 205 \in 0..255 /\ 32 \in 0..255
    OBVIOUS
  <2>2. EndsWith(<<205, 32>> \o WordBytes(w), w)
    BY <1>1, <2>1, FourBytes, Zenon
  <2>3. EndsWith(s, w)
    BY <2>2
  <2> HIDE DEF s
  <2> QED
    BY <2>3 DEF EndsWith
<1>5. /\ t \in Seq(0..255) /\ Len(t) = 8 /\ v \in Seq(0..255) /\ Len(v) = 9
  OBVIOUS
<1>6. u \in Seq(0..255) /\ Len(u) = 2
  <2>1. SegEnviron \in Nat
    BY DEF SegEnviron
  <2> QED
    BY <2>1, WordBytesAre DEF TwoBytes
<1> HIDE DEF s, t, u, v, w, env
<1>7. /\ DOMAIN B1 = Psp .. Psp + 3 /\ \A a \in DOMAIN B1 : a \in Nat /\ B1[a] \in 0..255
      /\ B1[Psp + 2] = s[3] /\ B1[Psp + 3] = s[4]
  <2>1. Stretch(B1, Psp, 4)
    <3>1. Stretch(Bytes(Psp, s), Psp, Len(s))
      <4>1. Psp \in Nat /\ s \in Seq(0..255)
        BY <1>2, <1>4
      <4> QED
        BY <4>1, BytesStretch
    <3>2. Len(s) = 4
      BY <1>2, <1>4
    <3> QED
      BY <3>1, <3>2
  <2>2. B1[Psp + 2] = s[3] /\ B1[Psp + 3] = s[4]
    <3>1. /\ Psp + 2 \in Psp .. Psp + Len(s) - 1 /\ Psp + 3 \in Psp .. Psp + Len(s) - 1
          /\ (Psp + 2) - Psp + 1 = 3 /\ (Psp + 3) - Psp + 1 = 4
      BY <1>2, <1>4
    <3> QED
      BY <3>1 DEF Bytes
  <2>3. Psp + 4 - 1 = Psp + 3
    BY <1>2
  <2> HIDE DEF B1
  <2> QED
    BY <2>1, <2>2, <2>3 DEF Stretch
<1>8. DOMAIN B2 = Psp .. Psp + 7 /\ \A a \in DOMAIN B2 : a \in Nat /\ B2[a] \in 0..255
  <2>1. Stretch(B2, Psp, 8)
    <3>1. Stretch(Bytes(Psp, t), Psp, Len(t))
      <4>1. Psp \in Nat /\ t \in Seq(0..255)
        BY <1>2, <1>5
      <4> QED
        BY <4>1, BytesStretch
    <3>2. Len(t) = 8
      BY <1>2, <1>5
    <3> QED
      BY <3>1, <3>2
  <2>2. Psp + 8 - 1 = Psp + 7
    BY <1>2
  <2> HIDE DEF B2
  <2> QED
    BY <2>1, <2>2 DEF Stretch
<1>9. DOMAIN B3 = Psp + 44 .. Psp + 45 /\ \A a \in DOMAIN B3 : a \in Nat /\ B3[a] \in 0..255
  <2>1. Stretch(B3, Psp + 44, 2)
    <3>1. Stretch(Bytes(Psp + 44, u), Psp + 44, Len(u))
      <4>1. Psp + 44 \in Nat /\ u \in Seq(0..255)
        BY <1>2, <1>6
      <4> QED
        BY <4>1, BytesStretch
    <3>2. Len(u) = 2
      BY <1>2, <1>6
    <3> QED
      BY <3>1, <3>2
  <2>2. Psp + 44 + 2 - 1 = Psp + 45
    BY <1>2
  <2> HIDE DEF B3
  <2> QED
    BY <2>1, <2>2 DEF Stretch
<1>10. DOMAIN B4 = 4096..4104 /\ \A a \in DOMAIN B4 : a \in Nat /\ B4[a] \in 0..255
  <2>1. Stretch(B4, env, 9)
    <3>1. Stretch(Bytes(env, v), env, Len(v))
      <4>1. env \in Nat /\ v \in Seq(0..255)
        BY <1>2, <1>5
      <4> QED
        BY <4>1, BytesStretch
    <3>2. Len(v) = 9
      BY <1>2, <1>5
    <3> QED
      BY <3>1, <3>2
  <2>2. env + 9 - 1 = 4104
    BY <1>2
  <2> HIDE DEF B4
  <2> QED
    BY <1>2, <2>1, <2>2 DEF Stretch
<1> HIDE DEF B1, B2, B3, B4
<1> DEFINE M2 == B1 ++ B2
           M3 == M2 ++ B3
<1>11. M2 \in Memories
  BY <1>7, <1>8, OverIs
<1>12. \A a \in DOMAIN M2 : a \in Nat /\ M2[a] \in 0..255
  BY <1>11, MemoryIs
<1>13. M3 \in Memories
  <2> HIDE DEF M2
  <2> QED
    BY <1>9, <1>12, OverIs
<1>14. \A a \in DOMAIN M3 : a \in Nat /\ M3[a] \in 0..255
  BY <1>13, MemoryIs
<1>15. Prefix \in Memories
  <2> HIDE DEF M3
  <2>1. M3 ++ B4 \in Memories
    BY <1>10, <1>14, OverIs
  <2> QED
    BY <1>3, <2>1 DEF M3
<1>16. /\ DOMAIN Prefix = DOMAIN B1 \cup DOMAIN B2 \cup DOMAIN B3 \cup DOMAIN B4
       /\ \A a \in DOMAIN B1 : Prefix[a] = B1[a]
  <2>1. /\ DOMAIN M2 = DOMAIN B1 \cup DOMAIN B2
        /\ \A a \in DOMAIN B1 : M2[a] = B1[a]
    BY OverAt
  <2> HIDE DEF M2
  <2>2. /\ DOMAIN M3 = DOMAIN M2 \cup DOMAIN B3
        /\ \A a \in DOMAIN M2 : M3[a] = M2[a]
    BY OverAt
  <2> HIDE DEF M3
  <2>3. /\ DOMAIN (M3 ++ B4) = DOMAIN M3 \cup DOMAIN B4
        /\ \A a \in DOMAIN M3 : (M3 ++ B4)[a] = M3[a]
    BY OverAt
  <2>4. Prefix = M3 ++ B4
    BY <1>3 DEF M2, M3
  <2> QED
    BY <2>1, <2>2, <2>3, <2>4
<1>17. Psp .. Psp + 3 \subseteq Psp .. Psp + 7 /\ {Psp + 2, Psp + 3} \subseteq Psp .. Psp + 3
  BY <1>2
<1>18. \A a \in DOMAIN Prefix :
         a \in Psp .. Psp + 7 \/ a \in Psp + 44 .. Psp + 45 \/ a \in 4096..4104
  BY <1>7, <1>8, <1>9, <1>10, <1>16, <1>17
<1>19. /\ {Psp + 2, Psp + 3} \subseteq DOMAIN Prefix
       /\ Prefix[Psp + 2] = s[3] /\ Prefix[Psp + 3] = s[4]
  BY <1>7, <1>16, <1>17
<1> QED
  BY <1>1, <1>4, <1>15, <1>18, <1>19 DEF w

\* The data of the file, and the data in memory.
InFile(d) == \A j \in 0 .. DataSize - 1 : d[j + 1] = File[DataStart + j + 1]
InMemory(image, n) == [a \in 65536 .. 65536 + n - 1 |-> image[a - 65536 + 1]]

\* What LoadDosExe leaves in memory.
LEMMA ImageIs ==
  ASSUME Typed, LoadDosExe, state' = "running"
  PROVE  /\ ~Unreadable /\ ~HeapOverrun
         /\ \E d \in Data(DataSize), len \in Nat :
              /\ InFile(d) /\ Relocs = 1..len
              /\ \E image \in After(d, DataSize, len) :
                   mem' = Prefix ++ InMemory(image, DataSize) ++ mem
<1> DEFINE n == DataSize
           d == SubSeq(File, DataStart + 1, DataStart + n)
           image == Relocated(d)
           f == [a \in 65536 .. 65536 + n - 1 |-> image[a - 65536 + 1]]
           places == {Landing(j) : j \in 0 .. n - 1}
           g == [a \in places |-> image[1 + Max({j \in 0 .. n - 1 : Landing(j) = a})]]
<1>1. ~Unreadable /\ ~HeapOverrun /\ mem' = Prefix ++ g ++ mem
  BY DEF LoadDosExe
<1>2. n \in Nat /\ DataStart \in Nat /\ DataStart + n <= Len(File) /\ Len(File) \in Nat
  BY <1>1, SizeIs
<1>3. /\ d \in Seq(0..255) /\ Len(d) = n
      /\ \A j \in 1..n : d[j] = File[DataStart + j]
  <2> DEFINE from == DataStart + 1
             to == DataStart + n
             B == 0..255
  <2>1. from \in Int /\ to \in Int /\ to - from + 1 = n /\ (~(from <= to) => n = 0)
    BY <1>2
  <2>2. \A i \in from .. to : File[i] \in B
    <3>1. \A i \in from .. to : i \in 1..Len(File)
      BY <1>2
    <3> QED
      BY <3>1, FileIs
  <2>3. \A j \in 1..n : from + j - 1 = DataStart + j
    BY <1>2
  <2>4. d = SubSeq(File, from, to)
    OBVIOUS
  <2> HIDE DEF from, to, B, n, d, File
  <2>5. /\ d \in Seq(B) /\ Len(d) = IF from <= to THEN to - from + 1 ELSE 0
        /\ \A i \in 1 .. to - from + 1 : d[i] = File[from + i - 1]
    BY <2>1, <2>2, <2>4, SubSeqProperties
  <2> QED
    BY <2>1, <2>3, <2>5 DEF B
<1>4. d \in Data(n)
  <2> HIDE DEF d, n
  <2> QED
    BY <1>2, <1>3, LenProperties DEF Data
<1>5. \A j \in 0 .. n - 1 : d[j + 1] = File[DataStart + j + 1]
  <2> SUFFICES ASSUME NEW j \in 0 .. n - 1 PROVE d[j + 1] = File[DataStart + j + 1]
    OBVIOUS
  <2>1. j + 1 \in 1..n /\ DataStart + (j + 1) = DataStart + j + 1
    BY <1>2
  <2> HIDE DEF d, n
  <2> QED
    BY <1>3, <2>1
<1>6. PICK len \in Nat : Relocs = 1..len
  BY <1>1, TableIs
<1>7. image \in After(d, n, len)
  <2>1. \A i \in Relocs : Place(i) \in Nat /\ Place(i) + 2 <= n
    BY <1>1, TableIs
  <2> HIDE DEF d, n
  <2> QED
    BY <1>2, <1>4, <1>6, <2>1, RelocatedIs
<1>8. image \in Data(n)
  BY <1>7 DEF After
<1> HIDE DEF n, d, image
<1>9. \A j \in 0 .. n - 1 : Landing(j) = 65536 + j
  BY <1>2, LandingIs
<1>10. places = 65536 .. 65536 + n - 1
  <2>1. \A a \in places : a \in 65536 .. 65536 + n - 1
    BY <1>2, <1>9
  <2>2. ASSUME NEW a \in 65536 .. 65536 + n - 1 PROVE a \in places
    <3>1. a - 65536 \in 0 .. n - 1 /\ 65536 + (a - 65536) = a
      BY <1>2
    <3> QED
      BY <1>9, <3>1
  <2> QED
    BY <2>1, <2>2
<1>11. ASSUME NEW a \in 65536 .. 65536 + n - 1
       PROVE  1 + Max({j \in 0 .. n - 1 : Landing(j) = a}) = a - 65536 + 1
  <2> DEFINE S == {j \in 0 .. n - 1 : Landing(j) = a}
             b == a - 65536
  <2>1. b \in 0 .. n - 1 /\ 65536 + b = a
    BY <1>2
  <2>2. \A j \in 0 .. n - 1 : 65536 + j = a => j = b
    BY <2>1
  <2>3. S = {b}
    <3> HIDE DEF b
    <3> QED
      BY <1>9, <2>1, <2>2
  <2>4. Max({b}) = b
    <3>1. b >= b
      BY <2>1
    <3> HIDE DEF b
    <3> QED
      BY <3>1 DEF Max
  <2> HIDE DEF S
  <2>5. Max(S) = b /\ b \in Nat
    BY <2>1, <2>3, <2>4
  <2>6. 1 + Max(S) = b + 1
    BY <2>5
  <2> QED
    BY <2>6 DEF S
<1>12. g = f
  BY <1>10, <1>11
<1> HIDE DEF f, g
<1>13. mem' = Prefix ++ f ++ mem
  BY <1>1, <1>12
<1>14. d \in Data(DataSize) /\ InFile(d) /\ image \in After(d, DataSize, len)
  BY <1>4, <1>5, <1>7 DEF n, InFile
<1>15. mem' = Prefix ++ InMemory(image, DataSize) ++ mem
  BY <1>13 DEF f, n, InMemory
<1> QED
  BY <1>1, <1>6, <1>14, <1>15

\* Two bytes of a word make the word again.
LEMMA WordOf ==
  ASSUME NEW w \in Nat, w < 65536
  PROVE  (w % 256) + 256 * ((w \div 256) % 256) = w
OBVIOUS

\* Segments count in 16 bits.
LEMMA Back ==
  ASSUME NEW x \in Nat, x <= 65535
  PROVE  (((4096 + x) % 65536) - x) % 65536 = 4096
<1> DEFINE y == (4096 + x) % 65536
<1>1. CASE 4096 + x < 65536
  <2>1. y = 4096 + x
    BY <1>1
  <2> HIDE DEF y
  <2>2. y - x = 4096
    BY <2>1
  <2>3. (y - x) % 65536 = 4096
    BY <2>2
  <2> QED
    BY <2>3 DEF y
<1>2. CASE ~(4096 + x < 65536)
  <2>1. y = 4096 + x - 65536
    BY <1>2
  <2> HIDE DEF y
  <2>2. y - x = -61440
    BY <2>1
  <2>3. (y - x) % 65536 = 4096
    BY <2>2
  <2> QED
    BY <2>3 DEF y
<1> QED
  BY <1>1, <1>2

\* What LoadDosExe leaves is where LoadExact says.
LEMMA ProgramPlaced ==
  ASSUME Typed, Fresh, state = "off", LoadDosExe, state' = "running"
  PROVE  mem' \in Memories /\ Placed(mem', r', cpu')
<1> DEFINE n == DataSize
           base == 16 * ((cpu'.cs - FileWord(22)) % 65536)
           psp == base - 256
           free == DestinationSeg + 16 + BlocksInFile * 32 + MinExtra
           last == CellAt(Cols, Rows - 1)
<1>1. ~Unreadable /\ ~HeapOverrun
  BY ImageIs
<1>2. PICK d \in Data(n), len \in Nat :
        /\ InFile(d) /\ Relocs = 1..len
        /\ \E image \in After(d, n, len) : mem' = Prefix ++ InMemory(image, n) ++ mem
  BY ImageIs
<1>3. PICK image \in After(d, n, len) : mem' = Prefix ++ InMemory(image, n) ++ mem
  BY <1>2
<1> DEFINE f == InMemory(image, n)
           fp == Prefix ++ f
<1>4. n \in Nat /\ DataStart \in Nat /\ (BytesInLastBlock <= 512 => n <= BlocksInFile * 512)
  BY <1>1, SizeIs
<1>5. image \in [1..n -> 0..255]
  BY DEF After, Data
<1>6. /\ FileWord(22) \in Nat /\ FileWord(22) <= 65535 /\ FileWord(14) \in Nat
      /\ FileWord(14) <= 65535
  <2>1. FileWord(22) \in Words /\ FileWord(14) \in Words
    BY <1>1, SizeIs
  <2> QED
    BY <2>1, WordsAre
<1>7. BlocksInFile \in Nat /\ MinExtra \in Nat
  <2>1. FileWord(4) \in Words /\ FileWord(10) \in Words
    BY <1>1, SizeIs
  <2> QED
    BY <2>1, WordsAre DEF BlocksInFile, MinExtra
<1>8. /\ cpu'.cs = (4096 + FileWord(22)) % 65536 /\ cpu'.ss = (4096 + FileWord(14)) % 65536
  <2>1. cpu' = [cs |-> (DestinationSeg + 16 + FileWord(22)) % 65536, ip |-> FileWord(20),
                ss |-> (DestinationSeg + 16 + FileWord(14)) % 65536, sp |-> FileWord(16)]
    BY DEF LoadDosExe
  <2>2. DestinationSeg + 16 = 4096
    BY DEF DestinationSeg
  <2> QED
    BY <2>1, <2>2
<1>27. r' = [r EXCEPT !.ax = 0, !.bx = n \div 65536, !.cx = n % 65536,
                      !.dx = 0, !.ds = DestinationSeg, !.es = DestinationSeg]
  BY DEF LoadDosExe
<1>9. base = 65536
  <2>1. (cpu'.cs - FileWord(22)) % 65536 = 4096
    BY <1>6, <1>8, Back
  <2> QED
    BY <2>1
<1>10. (cpu'.ss - FileWord(14)) % 65536 = 4096
  BY <1>6, <1>8, Back
<1>11. Psp = 65280 /\ psp = Psp /\ DestinationSeg = 4080
  BY <1>9 DEF Psp, DestinationSeg
<1> HIDE DEF base, psp, n
<1>12. /\ DOMAIN f = 65536 .. 65536 + n - 1
       /\ \A a \in DOMAIN f : a \in Nat /\ f[a] \in 0..255
       /\ \A j \in 0 .. n - 1 : 65536 + j \in DOMAIN f /\ f[65536 + j] = image[j + 1]
  <2>1. \A a \in 65536 .. 65536 + n - 1 : a \in Nat /\ a - 65536 + 1 \in 1..n
    BY <1>4
  <2>2. \A j \in 0 .. n - 1 : /\ 65536 + j \in 65536 .. 65536 + n - 1
                              /\ (65536 + j) - 65536 + 1 = j + 1
    BY <1>4
  <2>3. f = [a \in 65536 .. 65536 + n - 1 |-> image[a - 65536 + 1]]
    BY DEF InMemory
  <2> HIDE DEF f
  <2>4. DOMAIN f = 65536 .. 65536 + n - 1
    BY <2>3
  <2>5. \A a \in DOMAIN f : f[a] = image[a - 65536 + 1]
    BY <2>3
  <2>6. ASSUME NEW a \in DOMAIN f PROVE a \in Nat /\ f[a] \in 0..255
    <3>1. a \in Nat /\ a - 65536 + 1 \in 1..n
      BY <2>1, <2>4
    <3>2. image[a - 65536 + 1] \in 0..255
      BY <1>5, <3>1
    <3> QED
      BY <2>5, <3>1, <3>2
  <2>7. \A j \in 0 .. n - 1 : 65536 + j \in DOMAIN f /\ f[65536 + j] = image[j + 1]
    BY <2>2, <2>4, <2>5
  <2> QED
    BY <2>4, <2>6, <2>7
<1> HIDE DEF f
<1>13. /\ DOMAIN fp = DOMAIN Prefix \cup DOMAIN f
       /\ \A a \in DOMAIN Prefix : fp[a] = Prefix[a]
       /\ \A a \in DOMAIN f : a \notin DOMAIN Prefix => fp[a] = f[a]
  BY OverAt
<1>14. fp \in Memories
  <2>1. \A a \in DOMAIN Prefix : a \in Nat /\ Prefix[a] \in 0..255
    BY <1>1, PrefixIs, MemoryIs
  <2>2. \A a \in DOMAIN f : a \in Nat /\ f[a] \in 0..255
    BY <1>12
  <2> QED
    BY <2>1, <2>2, OverIs
<1>15. mem' = fp ++ mem
  BY <1>3 DEF f
<1> HIDE DEF fp
<1>16. mem' \in Memories
  <2>1. \A a \in DOMAIN fp : a \in Nat /\ fp[a] \in 0..255
    BY <1>14, MemoryIs
  <2>2. \A a \in DOMAIN mem : a \in Nat /\ mem[a] \in 0..255
    BY MemoryIs DEF Typed
  <2> QED
    BY <1>15, <2>1, <2>2, OverIs
<1>17. /\ DOMAIN mem' = DOMAIN fp \cup DOMAIN mem
       /\ \A a \in DOMAIN fp : mem'[a] = fp[a]
  <2>1. /\ DOMAIN (fp ++ mem) = DOMAIN fp \cup DOMAIN mem
        /\ \A a \in DOMAIN fp : (fp ++ mem)[a] = fp[a]
    BY OverAt
  <2> QED
    BY <1>15, <2>1
<1>18. /\ \A a \in DOMAIN Prefix : a \in 65280..65287 \/ a \in 65324..65325 \/ a \in 4096..4104
       /\ {65282, 65283} \subseteq DOMAIN Prefix
       /\ Prefix[65282] = (free % 256) /\ Prefix[65283] = (free \div 256) % 256
  <2>1. Psp + 7 = 65287 /\ Psp + 44 = 65324 /\ Psp + 45 = 65325 /\ Psp + 2 = 65282
        /\ Psp + 3 = 65283 /\ Psp = 65280
    BY <1>11
  <2> HIDE DEF free
  <2> QED
    BY <1>1, <2>1, PrefixIs DEF free
<1>19. ASSUME NEW j \in 0 .. n - 1 PROVE Byte(mem', base + j) = image[j + 1]
  <2>1. 65536 + j \in DOMAIN f /\ f[65536 + j] = image[j + 1]
    BY <1>12
  <2>2. 65536 + j \notin DOMAIN Prefix
    <3>1. j \in Nat
      BY <1>4
    <3>2. 65536 + j \notin 65280..65287 /\ 65536 + j \notin 65324..65325
          /\ 65536 + j \notin 4096..4104
      BY <3>1
    <3> QED
      BY <1>18, <3>2
  <2>3. 65536 + j \in DOMAIN mem' /\ mem'[65536 + j] = image[j + 1]
    BY <1>13, <1>17, <2>1, <2>2
  <2> QED
    BY <1>9, <2>3 DEF Byte
<1>20. ASSUME NEW j \in 0 .. n - 1, Places \cap {j - 1, j} = {}
       PROVE  Byte(mem', base + j) = File[DataStart + j + 1]
  <2>1. image[j + 1] = d[j + 1]
    BY <1>20 DEF After
  <2>2. d[j + 1] = File[DataStart + j + 1]
    BY <1>2 DEF InFile, n
  <2> QED
    BY <1>19, <2>1, <2>2
<1>21. ASSUME NEW q \in Places, Apart(q)
       PROVE  Word(mem', base + q)
                = (File[DataStart + q + 1] + 256 * File[DataStart + (q + 1) + 1]
                     + Listed(q) * DestinationSeg) % 65536
  <2>1. q \in Nat /\ q + 2 <= n
    BY <1>1, TableIs DEF Places, n
  <2>2. q \in 0 .. n - 1 /\ q + 1 \in 0 .. n - 1 /\ base + q + 1 = base + (q + 1)
        /\ (q + 1) + 1 = q + 2
    BY <1>4, <1>9, <2>1
  <2>3. Word(mem', base + q) = image[q + 1] + 256 * image[q + 2]
    BY <1>19, <2>2 DEF Word
  <2>4. image[q + 1] + 256 * image[q + 2]
          = (d[q + 1] + 256 * d[q + 2] + Among(len, q) * DestinationSeg) % 65536
    BY <1>21 DEF After
  <2>5. d[q + 1] = File[DataStart + q + 1] /\ d[q + 2] = File[DataStart + (q + 1) + 1]
    BY <1>2, <2>2 DEF InFile, n
  <2>6. Listed(q) = Among(len, q)
    BY <1>2 DEF Listed, Among
  <2> QED
    BY <2>3, <2>4, <2>5, <2>6
<1>22. r'.ds * 16 = psp /\ r'.bx * 65536 + r'.cx = n
  <2>1. r = [ax |-> 0, bx |-> 0, cx |-> 0, dx |-> 0, si |-> 0, di |-> 0,
             ds |-> 0, es |-> 0, cf |-> FALSE]
    BY DEF Fresh
  <2>2. r'.ds = 4080 /\ r'.bx = n \div 65536 /\ r'.cx = n % 65536
    BY <1>11, <1>27, <2>1
  <2>3. (n \div 65536) * 65536 + (n % 65536) = n
    BY <1>4
  <2> QED
    BY <1>11, <2>2, <2>3
<1>23. ASSUME BytesInLastBlock <= 512, BlocksInFile * 32 + MinExtra < 32768
       PROVE  Word(mem', psp + 2) * 16 >= base + n
  <2>1. free \in Nat /\ free < 65536 /\ free * 16 >= 65536 + n
    BY <1>4, <1>7, <1>11, <1>23
  <2> HIDE DEF free
  <2>2. Word(mem', 65282) = (free % 256) + 256 * ((free \div 256) % 256)
    <3>1. 65282 + 1 = 65283
      OBVIOUS
    <3>2. /\ 65282 \in DOMAIN mem' /\ mem'[65282] = (free % 256)
          /\ 65283 \in DOMAIN mem' /\ mem'[65283] = (free \div 256) % 256
      BY <1>13, <1>17, <1>18
    <3> QED
      BY <3>1, <3>2 DEF Word, Byte
  <2>3. Word(mem', 65282) = free
    BY <2>1, <2>2, WordOf
  <2>4. psp + 2 = 65282
    BY <1>11
  <2> QED
    BY <1>9, <2>1, <2>3, <2>4
<1>24. ASSUME NEW a \in DOMAIN mem'
       PROVE  \/ a \in base .. base + n - 1 \/ a \in psp .. psp + 7
              \/ a \in psp + 44 .. psp + 45 \/ a \in 4096..4104 \/ a \in Video .. last
  <2>1. psp = 65280 /\ psp + 7 = 65287 /\ psp + 44 = 65324 /\ psp + 45 = 65325
    BY <1>11
  <2>2. CASE a \in DOMAIN Prefix
    BY <1>18, <2>1, <2>2
  <2>3. CASE a \in DOMAIN f
    BY <1>9, <1>12, <2>3
  <2>4. CASE a \in DOMAIN mem
    <3>1. a \in Video .. last - 1
      BY <2>4 DEF Fresh
    <3>2. last \in Int /\ Video \in Int
      <4>1. (Rows - 1) * Cols \in Int
        BY Sizes
      <4> QED
        BY <4>1, Sizes DEF CellAt, Video
    <3> HIDE DEF last
    <3> QED
      BY <3>1, <3>2
  <2> QED
    BY <1>13, <1>17, <2>2, <2>3, <2>4
<1>25. \A j \in 0 .. n - 1 : Places \cap {j - 1, j} = {} =>
         Byte(mem', base + j) = File[DataStart + j + 1]
  BY <1>20
<1>26. (cpu'.ss - FileWord(14)) % 65536 = base \div 16
  BY <1>9, <1>10
<1> QED
  BY <1>16, <1>21, <1>22, <1>23, <1>24, <1>25, <1>26 DEF Placed, base, psp, n

-----------------------------------------------------------------------------
(* What is typed stays typed.                                              *)

\* What Typed says of the variables that calls change.
StaysTyped == cursor' \in [x : Nat, y : Nat] /\ attr' \in 0..255 /\ mem' \in Memories
\* A call that answers in registers only.
Unmoved(c) == mem' = Given(c) /\ cursor' = cursor /\ attr' = attr

\* Such a call keeps the types.
LEMMA UnmovedTyped ==
  ASSUME Typed, NEW c \in Calls[guest.menu], Unmoved(c)
  PROVE  StaysTyped
BY GivenIs DEF Typed, Unmoved, StaysTyped

\* Most calls of the BIOS are such calls,
LEMMA BiosUnmoved ==
  ASSUME NEW c,
         \/ SetVideoMode(c) \/ VideoIgnored(c) \/ GetCursor(c) \/ ReadCell(c) \/ GetVideoMode(c)
         \/ GetBlanking(c) \/ VideoUnknown(c)
         \/ ResetDisk(c) \/ DriveParameters(c) \/ DiskType(c) \/ DiskChanged(c) \/ DiskUnknown(c)
         \/ DebugException(c) \/ Equipment(c) \/ MemorySize(c) \/ Clock(c)
  PROVE  Unmoved(c)
<1>1. CASE \/ SetVideoMode(c) \/ VideoIgnored(c) \/ GetCursor(c) \/ ReadCell(c)
           \/ GetVideoMode(c) \/ GetBlanking(c) \/ VideoUnknown(c)
  BY <1>1 DEF SetVideoMode, VideoIgnored, GetCursor, ReadCell, GetVideoMode, GetBlanking,
              VideoUnknown, Answers, Ends, Unmoved
<1>2. CASE ResetDisk(c) \/ DriveParameters(c) \/ DiskType(c) \/ DiskChanged(c) \/ DiskUnknown(c)
  BY <1>2 DEF ResetDisk, DriveParameters, DiskType, DiskChanged, DiskUnknown, Answers, Ends,
              Unmoved
<1>3. CASE DebugException(c) \/ Equipment(c) \/ MemorySize(c) \/ Clock(c)
  BY <1>3 DEF DebugException, Equipment, MemorySize, Clock, Answers, Ends, Unmoved
<1> QED
  BY <1>1, <1>2, <1>3

\* and all of DOS but the one that sets a vector.
LEMMA DosUnmoved ==
  ASSUME NEW c, DosCall(c), ~SetVector(c)
  PROVE  Unmoved(c)
<1>1. CASE GetVector(c) \/ GetVersion(c) \/ OpenFile(c) \/ CloseFile(c) \/ WriteFile(c)
  BY <1>1 DEF GetVector, GetVersion, OpenFile, CloseFile, WriteFile, Fails, Answers, Ends, Unmoved
<1>2. CASE ResizeBlock(c) \/ DeviceInformation(c) \/ RenameFile(c) \/ DosUnknown(c)
             \/ DriverCall(c)
  BY <1>2 DEF ResizeBlock, DeviceInformation, RenameFile, DosUnknown, DriverCall, Answers, Ends,
              Unmoved
<1> QED
  BY <1>1, <1>2 DEF DosCall

\* Moving the cursor keeps the types,
LEMMA CursorTyped ==
  ASSUME Typed, NEW c \in Calls[guest.menu], SetCursor(c) \/ ToggleBlink(c)
  PROVE  StaysTyped
<1>1. Given(c) \in Memories
  BY GivenIs
<1>2. c.r.dx \in Nat
  BY CallIs, RegistersAre
<1>3. Lo(c.r.dx) \in Nat /\ Hi(c.r.dx) \in Nat
  BY <1>2 DEF Lo, Hi
<1>4. (attr + 128) % 256 \in 0..255
  BY DEF Typed
<1>5. CASE SetCursor(c)
  BY <1>1, <1>3, <1>5 DEF SetCursor, StaysTyped, Typed
<1>6. CASE ToggleBlink(c)
  BY <1>1, <1>4, <1>6 DEF ToggleBlink, StaysTyped, Typed
<1> QED
  BY <1>5, <1>6

\* clearing cells does,
LEMMA ScrollTyped ==
  ASSUME Typed, NEW c \in Calls[guest.menu], ScrollUp(c)
  PROVE  StaysTyped
<1> DEFINE cut(v, limit) == IF v > limit THEN limit ELSE v
           tx == Lo(c.r.cx)
           bx == cut(Lo(c.r.dx), Cols)
           ty == Hi(c.r.cx)
           by == cut(Hi(c.r.dx), Rows)
           end == CellAt(bx, by) + 1
           page == [a \in Video .. end |-> IF a % 2 = 0 THEN 32 ELSE 0]
           cells == {CellAt(x, y) : x \in tx..bx, y \in ty..by}
           K == cells \cup {k + 1 : k \in cells}
           f == [a \in K |-> page[a]]
<1>1. /\ mem' = f ++ Given(c) \/ mem' = Given(c)
      /\ cursor' = cursor /\ attr' = attr
  BY DEF ScrollUp, Ends
<1>2. Given(c) \in Memories
  BY GivenIs
<1>3. c.r.cx \in Nat /\ c.r.dx \in Nat
  BY CallIs, RegistersAre
<1>4. tx \in Nat /\ ty \in Nat /\ bx \in Nat /\ by \in Nat
  BY <1>3, Sizes DEF Lo, Hi
<1> HIDE DEF tx, ty, bx, by
<1>5. \A a \in Video .. end : a \in Nat /\ page[a] \in 0..255
  <2>1. CellAt(bx, by) \in Nat /\ Video \in Nat
    BY <1>4, CellIs, VideoIs
  <2> HIDE DEF end
  <2>2. \A a \in Video .. end : a \in Nat
    BY <2>1 DEF end
  <2>3. 32 \in 0..255 /\ 0 \in 0..255
    OBVIOUS
  <2>4. \A a \in Video .. end : page[a] \in 0..255
    BY <2>3
  <2> QED
    BY <2>2, <2>4
<1> HIDE DEF page
<1>6. ASSUME NEW x \in tx..bx, NEW y \in ty..by
      PROVE  CellAt(x, y) \in Video .. end /\ CellAt(x, y) + 1 \in Video .. end
  <2>1. x \in Nat /\ y \in Nat /\ x <= bx /\ y <= by
    BY <1>4
  <2>2. /\ CellAt(x, y) = Video + 2 * (y * Cols) + 2 * x /\ CellAt(x, y) \in Nat
        /\ CellAt(x, y) >= Video /\ y * Cols <= by * Cols /\ y * Cols \in Nat
    BY <1>4, <2>1, CellIs
  <2>3. CellAt(bx, by) = Video + 2 * (by * Cols) + 2 * bx /\ by * Cols \in Nat
    BY <1>4, CellIs
  <2> DEFINE u == y * Cols
             w == by * Cols
             p == CellAt(x, y)
             q == CellAt(bx, by)
  <2>4. /\ p = Video + 2 * u + 2 * x /\ q = Video + 2 * w + 2 * bx /\ u <= w
        /\ u \in Nat /\ w \in Nat /\ Video \in Nat /\ end = q + 1
    BY <2>2, <2>3, VideoIs
  <2> HIDE DEF p, q, u, w, end
  <2>5. p \in Nat /\ q \in Nat /\ Video <= p /\ p <= q
    BY <1>4, <2>1, <2>4
  <2>6. p \in Video .. end /\ p + 1 \in Video .. end
    BY <2>4, <2>5
  <2> QED
    BY <2>6 DEF p
<1>7. \A a \in K : a \in Video .. end
  <2> HIDE DEF end
  <2> QED
    BY <1>6
<1>8. \A a \in DOMAIN f : a \in Nat /\ f[a] \in 0..255
  <2> HIDE DEF K, end
  <2> QED
    BY <1>5, <1>7
<1> HIDE DEF f
<1>9. f ++ Given(c) \in Memories
  BY <1>2, <1>8, OverIs, MemoryIs
<1> QED
  BY <1>1, <1>2, <1>9 DEF StaysTyped, Typed

\* writing cells does,
LEMMA CellsTyped ==
  ASSUME Typed, NEW c \in Calls[guest.menu], WriteCells(c)
  PROVE  StaysTyped
<1> DEFINE x == cursor.x
           count == c.r.cx
           room == IF x < Rows THEN Rows - x ELSE count + 1
           n == IF count < room THEN count ELSE room
           at == CellAt(x, cursor.y)
           f == [a \in at + 0 .. at + (2 * n - 1) |->
                   IF a % 2 = 0 THEN Lo(c.r.ax) ELSE Lo(c.r.bx)]
           to == IF n = room THEN Rows - 1 ELSE x + n
<1>1. /\ mem' = f ++ Given(c) /\ attr' = attr
      /\ cursor' = [cursor EXCEPT !.x = to]
  BY DEF WriteCells
<1>2. x \in Nat /\ cursor.y \in Nat /\ cursor \in [x : Nat, y : Nat]
  BY DEF Typed
<1>3. count \in Nat /\ c.r.ax \in Nat /\ c.r.bx \in Nat
  BY CallIs, RegistersAre
<1>4. n \in Nat /\ to \in Nat
  <2> HIDE DEF x, count
  <2> QED
    BY <1>2, <1>3, Sizes
<1>5. Lo(c.r.ax) \in 0..255 /\ Lo(c.r.bx) \in 0..255
  BY <1>3 DEF Lo
<1>6. at \in Nat
  BY <1>2, CellIs
<1> HIDE DEF n, to, at
<1>7. \A a \in DOMAIN f : a \in Nat /\ f[a] \in 0..255
  <2>1. \A a \in at + 0 .. at + (2 * n - 1) : a \in Nat
    BY <1>4, <1>6
  <2> QED
    BY <1>5, <2>1
<1> HIDE DEF f
<1>8. f ++ Given(c) \in Memories
  BY <1>7, GivenIs, OverIs, MemoryIs
<1>9. cursor' \in [x : Nat, y : Nat]
  BY <1>1, <1>2, <1>4
<1> QED
  BY <1>1, <1>8, <1>9 DEF StaysTyped, Typed

\* and so does printing.
LEMMA TextTyped ==
  ASSUME Typed, NEW c \in Calls[guest.menu], Teletype(c) \/ Reboot(c)
  PROVE  StaysTyped
<1> DEFINE s == Screen(Given(c))
           ch == Lo(c.r.ax)
<1>1. c.r.ax \in Nat
  BY CallIs, RegistersAre
<1>2. ch \in 0..255 /\ attr \in 0..255
  BY <1>1 DEF Lo, Typed
<1>3. s \in Screens
  <2>1. Given(c) \in Memories
    BY GivenIs
  <2> QED
    BY <2>1 DEF Screen, Screens, Typed
<1> HIDE DEF s, ch
<1>4. ASSUME NEW t \in Screens, ScreenBecomes(t), attr' = attr PROVE StaysTyped
  BY <1>4 DEF Screens, ScreenBecomes, StaysTyped, Typed
<1>5. CASE Teletype(c)
  <2>1. PutChar(s, ch, attr) \in Screens
    BY <1>2, <1>3, PutCharIs, Zenon
  <2>2. ScreenBecomes(PutChar(s, ch, attr)) /\ attr' = attr
    BY <1>5 DEF Teletype, s, ch
  <2> QED
    BY <1>4, <2>1, <2>2
<1>6. CASE Reboot(c)
  <2>1. Bios_PutString(s, BootError, 4) \in Screens
    <3>1. BootError \in Seq(0..255) /\ 4 \in 0..255
      BY BiosAssumption
    <3> QED
      BY <1>3, <3>1, StringsAre
  <2>2. ScreenBecomes(Bios_PutString(s, BootError, 4)) /\ attr' = attr
    BY <1>6 DEF Reboot, s
  <2> QED
    BY <1>4, <2>1, <2>2
<1> QED
  BY <1>5, <1>6

\* What is read from a disk is memory,
LEMMA ReadTyped ==
  ASSUME Typed, NEW c \in Calls[guest.menu], NEW disk, NEW lba \in Int, NEW count \in Nat,
         NEW at \in Nat, ~ReadDiskLBA(Given(c), disk, lba, count, at).wild
  PROVE  ReadDiskLBA(Given(c), disk, lba, count, at).mem \in Memories
<1>1. PICK s \in Seq(0..255) :
        ReadDiskLBA(Given(c), disk, lba, count, at).mem = Bytes(at, s) ++ Given(c)
  BY ReadStores
<1>2. \A a \in DOMAIN Bytes(at, s) : a \in Nat /\ Bytes(at, s)[a] \in 0..255
  BY BytesAre
<1>3. Bytes(at, s) ++ Given(c) \in Memories
  BY <1>2, GivenIs, OverIs, MemoryIs
<1> QED
  BY <1>1, <1>3

\* so both reads keep the types,
LEMMA ReadsTyped ==
  ASSUME Typed, NEW c \in Calls[guest.menu], NEW disk, NEW lba \in Int, NEW count \in Nat,
         NEW at \in Nat, NEW g, Reads(c, ReadDiskLBA(Given(c), disk, lba, count, at), g)
  PROVE  StaysTyped
<1> DEFINE out == ReadDiskLBA(Given(c), disk, lba, count, at)
<1>1. CASE out.wild
  BY <1>1, UnmovedTyped DEF Reads, Ends, Unmoved
<1>2. CASE ~out.wild
  <2>1. out.mem \in Memories
    BY <1>2, ReadTyped
  <2> HIDE DEF out
  <2>2. mem' = out.mem /\ cursor' = cursor /\ attr' = attr
    BY <1>2 DEF Reads, out
  <2> QED
    BY <2>1, <2>2 DEF StaysTyped, Typed
<1> QED
  BY <1>1, <1>2

\* whatever sectors they name.
LEMMA DiskTyped ==
  ASSUME Typed, NEW c \in Calls[guest.menu], ReadSectors(c) \/ ExtendedRead(c)
  PROVE  StaysTyped
<1>1. /\ c.r.ax \in Nat /\ c.r.cx \in Nat /\ c.r.dx \in Nat /\ c.r.es \in Nat /\ c.r.bx \in Nat
      /\ c.r.ds \in Nat /\ c.r.si \in Nat
  BY CallIs, RegistersAre
<1>2. CASE ReadSectors(c)
  <2> DEFINE lba == Lba(Cylinder(c), Hi(c.r.dx), Sector(c))
             count == Lo(c.r.ax)
             at == c.r.es * 16 + c.r.bx
             out == ReadDiskLBA(Given(c), 0, lba, count, at)
             g == IF out.ret = count THEN [c.r EXCEPT !.cf = FALSE, !.ax = Lo(@)]
                  ELSE [c.r EXCEPT !.cf = TRUE, !.ax = HiLo(Hi(@), out.ret)]
  <2>1. lba \in Int
    <3> DEFINE x == Cylinder(c)
               y == Hi(c.r.dx)
               z == Sector(c)
    <3>1. x \in Nat /\ y \in Nat /\ z \in Nat
      BY <1>1 DEF Cylinder, Sector, Hi, Lo
    <3> HIDE DEF x, y, z
    <3>2. x * NHead \in Nat /\ y * SPT \in Nat
      BY <3>1, Sizes
    <3>3. x * NHead * SPT \in Nat
      BY <3>2, Sizes
    <3> QED
      BY <3>1, <3>2, <3>3 DEF Lba, x, y, z
  <2>2. count \in Nat /\ at \in Nat
    BY <1>1 DEF Lo
  <2>3. CASE Reads(c, out, g)
    <3> HIDE DEF lba, count, at, g
    <3> QED
      BY <2>1, <2>2, <2>3, ReadsTyped
  <2>4. CASE ~Reads(c, out, g)
    BY <1>2, <2>4, UnmovedTyped DEF ReadSectors, Answers, Unmoved
  <2> QED
    BY <2>3, <2>4
<1>3. CASE ExtendedRead(c)
  <2> DEFINE m == Given(c)
             p == c.r.ds * 16 + c.r.si
             count == Word(m, p + 2)
             at == Word(m, p + 6) * 16 + Word(m, p + 4)
             cut == CutToInt(m, p + 8)
             out(lba) == ReadDiskLBA(m, Lo(c.r.dx), lba, count, at)
             g == [c.r EXCEPT !.cf = FALSE, !.ax = Lo(@)]
  <2>1. count \in Nat /\ at \in Nat /\ Seeks(cut) \subseteq Int
    <3>1. /\ p + 2 \in Nat /\ p + 4 \in Nat /\ p + 6 \in Nat /\ p + 8 \in Nat
      BY <1>1
    <3>2. m \in Memories
      BY GivenIs
    <3> HIDE DEF m, p
    <3>3. /\ Word(m, p + 2) \in Nat /\ Word(m, p + 4) \in Nat /\ Word(m, p + 6) \in Nat
          /\ CutToInt(m, p + 8) \in Int
      BY <3>1, <3>2, WordIs, CutIs
    <3> QED
      BY <3>3, SeeksAre
  <2>2. ASSUME NEW lba \in Seeks(cut), Reads(c, out(lba), g) PROVE StaysTyped
    <3>1. lba \in Int
      BY <2>1
    <3> HIDE DEF cut, count, at, g
    <3> QED
      BY <2>1, <2>2, <3>1, ReadsTyped
  <2>3. CASE ~\E lba \in Seeks(cut) : Reads(c, out(lba), g)
    BY <1>3, <2>3, UnmovedTyped DEF ExtendedRead, Answers, Unmoved
  <2> QED
    BY <2>2, <2>3
<1> QED
  BY <1>2, <1>3

\* Setting a vector writes four bytes.
LEMMA VectorTyped ==
  ASSUME Typed, NEW c \in Calls[guest.menu], SetVector(c)
  PROVE  StaysTyped
<1> DEFINE s == WordBytes(c.r.bx) \o WordBytes(c.r.es)
           at == VectorAt(c)
<1>1. c.r.ax \in Nat /\ c.r.bx \in Nat /\ c.r.es \in Nat
  BY CallIs, RegistersAre
<1>2. s \in Seq(0..255)
  <2>1. WordBytes(c.r.bx) \in Seq(0..255) /\ WordBytes(c.r.es) \in Seq(0..255)
    BY <1>1, WordBytesAre DEF TwoBytes
  <2> QED
    BY <2>1, EndsMake
<1>3. at \in Nat
  BY <1>1 DEF VectorAt, Lo
<1>4. mem' = Bytes(at, s) ++ Given(c) /\ cursor' = cursor /\ attr' = attr
  BY DEF SetVector
<1> HIDE DEF s, at
<1>5. \A a \in DOMAIN Bytes(at, s) : a \in Nat /\ Bytes(at, s)[a] \in 0..255
  BY <1>2, <1>3, BytesAre
<1>6. Bytes(at, s) ++ Given(c) \in Memories
  BY <1>5, GivenIs, OverIs, MemoryIs
<1> QED
  BY <1>4, <1>6 DEF StaysTyped, Typed

\* Every call keeps the types.
LEMMA CallTyped ==
  ASSUME Typed, NEW c \in Calls[guest.menu], BiosCall(c) \/ DosCall(c)
  PROVE  StaysTyped
<1>1. CASE Int10(c)
  BY <1>1, BiosUnmoved, UnmovedTyped, CursorTyped, ScrollTyped, CellsTyped, TextTyped DEF Int10
<1>2. CASE Int13(c)
  BY <1>2, BiosUnmoved, UnmovedTyped, DiskTyped DEF Int13
<1>3. CASE DebugException(c) \/ Equipment(c) \/ MemorySize(c) \/ Reboot(c) \/ Clock(c)
  BY <1>3, BiosUnmoved, UnmovedTyped, TextTyped
<1>4. CASE DosCall(c)
  BY <1>4, DosUnmoved, UnmovedTyped, VectorTyped
<1> QED
  BY <1>1, <1>2, <1>3, <1>4 DEF BiosCall

\* A machine that has been started is not off again.
LEMMA GoesOn ==
  ASSUME NEW c, BiosCall(c) \/ DosCall(c)
  PROVE  state' # "off"
<1>1. CASE Int10(c)
  BY <1>1 DEF Int10, SetVideoMode, VideoIgnored, SetCursor, GetCursor, ScrollUp, ReadCell,
              WriteCells, Teletype, GetVideoMode, ToggleBlink, GetBlanking, VideoUnknown,
              Answers, Ends, Returns
<1>2. CASE Int13(c)
  BY <1>2 DEF Int13, ResetDisk, ReadSectors, DriveParameters, DiskType, DiskChanged, ExtendedRead,
              DiskUnknown, Reads, Answers, Ends, Returns
<1>3. CASE DebugException(c) \/ Equipment(c) \/ MemorySize(c) \/ Reboot(c) \/ Clock(c)
  BY <1>3 DEF DebugException, Equipment, MemorySize, Reboot, Clock, Answers, Ends, Returns
<1>4. CASE DosCall(c)
  <2>1. \A m, sg, ofs : get_ascii_z(m, sg, ofs).how # "off"
    BY DEF get_ascii_z
  <2>2. CASE OpenFile(c)
    BY <2>1, <2>2 DEF OpenFile, Fails, Answers, Ends, Returns
  <2>3. CASE RenameFile(c)
    BY <2>1, <2>3 DEF RenameFile, Ends
  <2>4. CASE \/ SetVector(c) \/ GetVector(c) \/ GetVersion(c) \/ CloseFile(c) \/ WriteFile(c)
             \/ ResizeBlock(c) \/ DeviceInformation(c) \/ DosUnknown(c) \/ DriverCall(c)
    BY <2>4 DEF SetVector, GetVector, GetVersion, CloseFile, WriteFile, ResizeBlock,
                DeviceInformation, DosUnknown, DriverCall, Fails, Answers, Ends, Returns
  <2> QED
    BY <1>4, <2>2, <2>3, <2>4 DEF DosCall
<1> QED
  BY <1>1, <1>2, <1>3, <1>4 DEF BiosCall

\* Starting a guest of any kind keeps the types.
LEMMA BootTyped ==
  ASSUME Typed, Fresh, Boot
  PROVE  StaysTyped
<1>1. cursor' = cursor /\ attr' = attr /\ state = "off"
  BY DEF Boot
<1>2. mem \in Memories /\ \A a \in DOMAIN mem : a \in Nat /\ mem[a] \in 0..255
  BY MemoryIs DEF Typed
<1>3. \A a \in DOMAIN BootStack : a \in Nat /\ BootStack[a] \in 0..255
  <2> DEFINE at == 655358
             s == <<255, 255>>
  <2>1. at \in Nat
    BY SMT
  <2>2. BootStack = Bytes(at, s)
    BY SMT DEF BootStack
  <2>3. s \in Seq(0..255)
    OBVIOUS
  <2> HIDE DEF at, s
  <2> QED
    BY <2>1, <2>2, <2>3, BytesAre
<1>4. mem' \in Memories
  <2>1. CASE mem' = mem
    BY <1>2, <2>1
  <2>2. CASE LoadDosExe
    <3>1. CASE state' = "running"
      BY <1>1, <2>2, <3>1, ProgramPlaced
    <3>2. CASE state' # "running"
      BY <1>2, <2>2, <3>2 DEF LoadDosExe, Stays
    <3> QED
      BY <3>1, <3>2
  <2>3. CASE BootBinary /\ mem' # mem
    <3> DEFINE top == 1023
               z == [a \in 0..top |-> 0]
    <3>1. mem' = BootStack ++ z ++ mem
      BY <2>3 DEF BootBinary, Stays
    <3>6. top \in Nat
      OBVIOUS
    <3> HIDE DEF top
    <3>2. \A a \in DOMAIN z : a \in Nat /\ z[a] \in 0..255
      <4>1. 0 \in 0..255
        OBVIOUS
      <4> QED
        BY <3>6, <4>1
    <3> HIDE DEF z
    <3>3. BootStack ++ z \in Memories
      BY <1>3, <3>2, OverIs
    <3> DEFINE b == BootStack ++ z
    <3>4. \A a \in DOMAIN b : a \in Nat /\ b[a] \in 0..255
      BY <3>3, MemoryIs
    <3>5. mem' = b ++ mem
      BY <3>1
    <3> HIDE DEF b
    <3> QED
      BY <1>2, <3>4, <3>5, OverIs
  <2>4. CASE BootFloppy
    <3> DEFINE S == {SectorSize, Len(floppy)}
               n == Min(S)
               s == SubSeq(floppy, 1, n)
               at == 31744
               loaded == Bytes(at, s) ++ mem
    <3>1. mem' = loaded \/ mem' = BootStack ++ loaded
      BY <2>4, SMT DEF BootFloppy
    <3>9. at \in Nat
      BY SMT
    <3> HIDE DEF at
    <3>2. floppy \in Seq(0..255) /\ Len(floppy) \in Nat
      <4>1. floppy \in Seq(0..255)
        BY <2>4, BiosAssumption DEF BootFloppy, Typed
      <4> QED
        BY <4>1, LenProperties
    <3>3. n \in Nat /\ n <= Len(floppy)
      <4>1. S \subseteq Nat /\ S # {}
        BY <3>2, Sizes
      <4>2. Len(floppy) \in S
        OBVIOUS
      <4> HIDE DEF S
      <4> QED
        BY <4>1, <4>2, MinIs
    <3> HIDE DEF n
    <3>4. s \in Seq(0..255)
      <4> DEFINE B == 0..255
      <4>1. \A i \in 1..n : floppy[i] \in B
        <5>1. \A i \in 1..n : i \in 1..Len(floppy)
          BY <3>2, <3>3
        <5> QED
          BY <3>2, <5>1, ElementOfSeq
      <4>2. 1 \in Int /\ n \in Int
        BY <3>3
      <4> HIDE DEF B
      <4>3. SubSeq(floppy, 1, n) \in Seq(B)
        BY <4>1, <4>2, SubSeqProperties
      <4> QED
        BY <4>3 DEF B
    <3> HIDE DEF s
    <3>5. \A a \in DOMAIN Bytes(at, s) : a \in Nat /\ Bytes(at, s)[a] \in 0..255
      BY <3>4, <3>9, BytesAre
    <3>6. loaded \in Memories
      BY <1>2, <3>5, OverIs
    <3> HIDE DEF loaded
    <3>7. \A a \in DOMAIN loaded : a \in Nat /\ loaded[a] \in 0..255
      BY <3>6, MemoryIs
    <3>8. BootStack ++ loaded \in Memories
      BY <1>3, <3>7, OverIs
    <3> QED
      BY <3>1, <3>6, <3>8
  <2>5. CASE BootNoMedia
    BY <1>2, <2>5 DEF BootNoMedia, Stays
  <2> QED
    BY <2>1, <2>2, <2>3, <2>4, <2>5 DEF Boot
<1> QED
  BY <1>1, <1>4 DEF StaysTyped, Typed

-----------------------------------------------------------------------------
(* The theorems.                                                           *)

\* The invariant holds at first,
LEMMA FirstState ==
  ASSUME Init
  PROVE  ServicesInv
<1> DEFINE blank == [x |-> 0, y |-> 0, mem |-> <<>>]
<1>1. PICK text \in {<<>>, Greeting} :
        LET s == Bios_PutString(blank, text, 15)
        IN  cursor = [x |-> s.x, y |-> s.y] /\ mem = s.mem
  BY DEF Init
<1> DEFINE s == Bios_PutString(blank, text, 15)
<1>2. cursor = [x |-> s.x, y |-> s.y] /\ mem = s.mem
  BY <1>1
<1>3. blank \in ScreensInside
  <2>1. <<>> \in Memories
    <3>1. <<>> \in [{} -> 0..255] /\ {} \in SUBSET Nat
      OBVIOUS
    <3> QED
      BY <3>1 DEF Memories
  <2>2. 0 \in 0..Cols - 1 /\ 0 \in 0..Rows - 1 /\ DOMAIN <<>> = {}
    BY Sizes
  <2> QED
    BY <2>1, <2>2 DEF ScreensInside, Screens
<1>4. text \in Seq(0..255)
  <2>1. <<>> \in Seq(0..255) /\ Greeting \in Seq(0..255)
    BY BiosAssumption
  <2>2. text = <<>> \/ text = Greeting
    OBVIOUS
  <2> QED
    BY <2>1, <2>2
<1>5. s \in ScreensInside
  <2>1. 15 \in 0..255 /\ blank \in Screens
    BY <1>3 DEF ScreensInside
  <2> HIDE DEF blank
  <2> QED
    BY <1>3, <1>4, <2>1, StringsAre
<1> HIDE DEF s
<1>6. /\ s \in Screens /\ s.x \in Nat /\ s.y \in Nat /\ s.mem \in Memories
      /\ DOMAIN s.mem \subseteq Video .. CellAt(Cols, Rows - 1) - 1
  BY <1>5 DEF ScreensInside, Screens
<1>7. Typed
  <2>1. cursor \in [x : Nat, y : Nat] /\ mem \in Memories
    BY <1>2, <1>6
  <2>2. guest \in Guests /\ floppy \in Floppies /\ calls \in Nat /\ attr \in 0..255
    BY DEF Init
  <2> QED
    BY <2>1, <2>2 DEF Typed
<1>8. Handles
  BY Sizes DEF Init, Handles
<1>9. Fresh
  BY <1>2, <1>6 DEF Init, Fresh
<1>10. LoadExact
  BY DEF Init, LoadExact, Loaded
<1> QED
  BY <1>7, <1>8, <1>9, <1>10 DEF ServicesInv

\* after every step,
LEMMA Step ==
  ASSUME ServicesInv, Next
  PROVE  ServicesInv'
<1>1. Typed /\ Handles /\ Fresh
  BY DEF ServicesInv
<1>2. Handles'
  BY <1>1, HandlesNext
<1>3. guest' = guest
  BY DEF Next, Boot, GuestCalls
<1>4. CASE Boot
  <2>1. /\ state = "off" /\ calls' = calls /\ floppy' = floppy
        /\ LoadDosExe \/ BootBinary \/ BootFloppy \/ BootNoMedia
    BY <1>4 DEF Boot
  <2>2. Typed'
    BY <1>1, <1>3, <1>4, <2>1, BootTyped DEF StaysTyped, Typed
  <2>3. state' # "off"
    <3>1. LoadDosExe => state' \in {"exited", "wild", "running"}
      BY SMT DEF LoadDosExe
    <3>2. BootBinary \/ BootFloppy \/ BootNoMedia => state' \in {"exited", "running"}
      BY SMT DEF BootBinary, BootFloppy, BootNoMedia
    <3> QED
      BY <2>1, <3>1, <3>2
  <2>4. Fresh'
    BY <2>3 DEF Fresh
  <2>5. Loaded' => Placed(mem', r', cpu')
    <3>1. LoadDosExe /\ state' = "running" => Placed(mem', r', cpu')
      BY <1>1, <2>1, ProgramPlaced
    <3>2. Loaded' => LoadDosExe /\ state' = "running"
      BY <1>3, <2>1 DEF Loaded, BootBinary, BootFloppy, BootNoMedia
    <3> QED
      BY <3>1, <3>2
  <2>6. LoadExact'
    BY <1>3, <2>5, PlacedNext
  <2> QED
    BY <1>2, <2>2, <2>4, <2>6 DEF ServicesInv
<1>5. CASE GuestCalls
  <2>1. PICK c \in Calls[guest.menu] : ((BiosCall(c) /\ FilesKept) \/ DosCall(c)) /\ call' = c
    BY <1>5 DEF GuestCalls
  <2>2. StaysTyped /\ state' # "off"
    BY <1>1, <2>1, CallTyped, GoesOn
  <2>3. calls' = calls + 1 /\ floppy' = floppy /\ calls \in Nat
    BY <1>1, <1>5 DEF GuestCalls, Typed
  <2>4. calls' \in Nat /\ calls' # 0
    BY <2>3
  <2>5. Typed'
    BY <1>1, <1>3, <2>2, <2>3, <2>4 DEF StaysTyped, Typed
  <2>6. Fresh'
    BY <2>2 DEF Fresh
  <2>7. LoadExact'
    BY <2>4 DEF LoadExact, Loaded
  <2> QED
    BY <1>2, <2>5, <2>6, <2>7 DEF ServicesInv
<1> QED
  BY <1>4, <1>5 DEF Next

\* and when nothing happens.
LEMMA Stutter ==
  ASSUME ServicesInv, UNCHANGED vars
  PROVE  ServicesInv'
<1>1. /\ guest' = guest /\ calls' = calls /\ state' = state /\ r' = r /\ mem' = mem
      /\ cpu' = cpu /\ cursor' = cursor /\ attr' = attr /\ floppy' = floppy /\ files' = files
      /\ held' = held
  BY DEF vars, biosVars
<1>2. Typed' /\ Handles' /\ Fresh'
  BY <1>1 DEF ServicesInv, Typed, Handles, Fresh
<1>3. Loaded' => Placed(mem', r', cpu')
  <2>1. Loaded' => Loaded
    BY <1>1 DEF Loaded
  <2>2. Loaded => Placed(mem, r, cpu)
    BY PlacedIs DEF ServicesInv
  <2> QED
    BY <1>1, <2>1, <2>2
<1>4. LoadExact'
  BY <1>1, <1>3, PlacedNext
<1> QED
  BY <1>2, <1>4 DEF ServicesInv

\* Whatever guest is started and whatever it asks for, what the services keep is
\* typed, the handles are the open files, and a program is loaded as its header
\* says: the inductive invariant of HLECall10, 13 and 21 and of LoadDosExe.
THEOREM ServicesInvariant == Spec => []ServicesInv
<1>1. Init => ServicesInv
  BY FirstState
<1>2. ServicesInv /\ [Next]_vars => ServicesInv'
  BY Step, Stutter
<1> QED
  BY <1>1, <1>2, PTL DEF Spec

\* A program that has been loaded lies byte for byte where CS and SS count from,
\* relocated once for each entry of its table, with a prefix that leaves it its
\* memory; LoadDosExe has written nothing else (hle_dos.c).
THEOREM LoadsExactly == Spec => []LoadExact
<1>1. ServicesInv => LoadExact
  BY DEF ServicesInv
<1> QED
  BY <1>1, ServicesInvariant, PTL

\* INT 21h gives out the handles that are not in use and no others, says "too
\* many files" and "not found" exactly when it is so, and closes the handle it is
\* told to: HLECall21's sDosFileTable is what the guest believes it is.
THEOREM HandlesStayExact == Spec => HandlesExact
<1>1. ServicesInv /\ [Next]_vars =>
        [Serves(33) =>
           LET new == r'.ax IN
           /\ held' = {h \in DOMAIN files : files'[h] # Closed}
           /\ AH = 61 =>
                IF ~r'.cf THEN new \notin held \cup {0, 1, 2} /\ NamedAt(files'[new])
                ELSE /\ new = 4 <=> Cardinality(held) = FileHandles - 3
                     /\ new = 2 <=> /\ Cardinality(held) < FileHandles - 3
                                    /\ \A name \in Names : ~NamedAt(name)
           /\ AH = 62 => (~r'.cf <=> call'.r.bx \in held)
           /\ \A h \in held : ~(AH = 62 /\ h = call'.r.bx) => files'[h] = files[h]]_vars
  BY HandlesNext DEF ServicesInv, HandlesServed, AH
<1> QED
  BY <1>1, ServicesInvariant, PTL DEF Spec, HandlesExact

\* The services of INT 10h move the cursor only to places on the screen and change
\* only the cells they were asked about (HLECall10, Video_PutChar), but for AH=09 from
\* a column where its stop is missed, and arguments off the screen (Proper).
THEOREM ScreenStaysContained == Spec => ScreenContained
<1>1. ServicesInv /\ [Next]_vars =>
        [Serves(16) /\ OnScreen(cursor.x, cursor.y) /\ Proper =>
           /\ OnScreen(cursor'.x, cursor'.y)
           /\ \A a \in Stored : Now(a) # Was(a) =>
                \E p \in Asked : a - CellAt(p[1], p[2]) \in {0, 1}]_vars
  BY ScreenServed DEF ServicesInv, Contained
<1> QED
  BY <1>1, ServicesInvariant, PTL DEF Spec, ScreenContained

\* AH=02 delivers the sectors asked for, counts them in AL, and sets CF exactly
\* if some are missing; AH=42 stores in its buffer only, and exactly the blocks
\* named where an int can count their bytes; a read that is refused changes
\* nothing (HLECall13, ReadDiskLBA).
THEOREM ReadsAreReported == Spec => ReadsReported
<1>1. ServicesInv /\ [Next]_vars =>
        [Serves(19) =>
           LET c == call'.r
               s == <<Cylinder(call'), Hi(c.dx), Sector(call')>>
               first == NumberOf(s)
               at == c.es * 16 + c.bx
               packet == c.ds * 16 + c.si
               word(k) == Word(Given(call'), packet + k)
               buffer == word(6) * 16 + word(4)
               block == word(8) + 65536 * word(10)
               counted == word(14) = 0 /\ word(12) = 0 /\ word(10) < 32768 /\ block < IntSectors IN
           /\ AH = 2 /\ AL % 64 = 0 => r'.cf /\ r'.ax = c.ax /\ Untouched
           /\ AH = 2 /\ AL % 64 # 0 /\ s[3] # 0 =>
                IF Lo(c.dx) = 0 /\ s \in CHS
                THEN /\ Lo(r'.ax) = Available(first, AL)
                     /\ r'.cf <=> Lo(r'.ax) < AL
                     /\ ~r'.cf => Hi(r'.ax) = 0
                     /\ Delivered(first, AL, at)
                ELSE r'.cf /\ r'.ax = HiLo(1, AL) /\ Untouched
           /\ AH = 66 =>
                IF buffer + word(2) * SectorSize > MemTop
                THEN r'.cf /\ Hi(r'.ax) = 187 /\ Untouched
                ELSE /\ Lo(c.dx) = 0 /\ counted => Delivered(block, word(2), buffer)
                     /\ Kept(word(2) * SectorSize, buffer)
                     /\ Lo(c.dx) # 0 => Untouched]_vars
  BY DiskServed DEF ServicesInv, Reported, AH, AL
<1> QED
  BY <1>1, ServicesInvariant, PTL DEF Spec, ReadsReported
=============================================================================
