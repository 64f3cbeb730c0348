---------------------------- MODULE RmeAlu_proof ----------------------------
(***************************************************************************)
(* What RmeAlu states, for every program over Instructions, every value of *)
(* the operands and every width from 8 bits on.                            *)
(*                                                                         *)
(* Each instruction is described by what it must do, in numbers and bits   *)
(* and not in the code's comparisons: SumDone, DifferenceDone, BorrowDone, *)
(* StepDone, ShiftDone, ProductDone, QuotientDone, AdjustDone, together    *)
(* Does.  AluInv, the type invariant with "every step of past Does what it *)
(* must, by the state after it", is inductive.  The properties follow from *)
(* it: those of one instruction directly, those of two in a row from the   *)
(* numbers that the first leaves to the second.                            *)
(***************************************************************************)
EXTENDS RmeAlu, SequenceTheorems, WellFoundedInduction, TLAPS

-----------------------------------------------------------------------------
(* Powers of two.                                                          *)

\* A nonempty set of numbers has a least one.
LEMMA LeastOf ==
  ASSUME NEW S, S \subseteq Nat, S # {}
  PROVE  \E m \in S : \A k \in S : m <= k
<1> DEFINE R == OpToRel(<, Nat)
<1>1. IsWellFoundedOn(R, Nat)
  BY NatLessThanWellFounded, Zenon
<1>2. \A k, m \in Nat : k < m => <<k, m>> \in R
  BY DEF OpToRel
<1> HIDE DEF R
<1>3. PICK m \in S : \A k \in S : ~ (<<k, m>> \in R)
  BY <1>1, WFMin
<1>4. \A k \in S : ~(k < m)
  BY <1>2, <1>3
<1>5. \A k \in S : m <= k
  <2> SUFFICES ASSUME NEW k \in S PROVE m <= k
    OBVIOUS
  <2>1. k \in Nat /\ m \in Nat /\ ~(k < m)
    BY <1>4
  <2> QED
    BY <2>1
<1> QED
  BY <1>5

\* A set of numbers that holds 0 and with each number below n the next holds all
\* numbers up to n.
Grows(S, n) == 0 \in S /\ \A k \in 0 .. n - 1 : k \in S => k + 1 \in S

\* Induction without an operator: a set that grows so holds every number up to n.
LEMMA UpTo ==
  ASSUME NEW n \in Nat, NEW S, Grows(S, n)
  PROVE  0..n \subseteq S
<1> SUFFICES ASSUME NEW x \in 0..n, x \notin S PROVE FALSE
  OBVIOUS
<1> DEFINE Bad == {k \in 0..n : k \notin S}
<1>1. Bad \subseteq Nat /\ Bad # {}
  OBVIOUS
<1>2. PICK m \in Bad : \A k \in Bad : m <= k
  <2> HIDE DEF Bad
  <2> QED
    BY <1>1, LeastOf
<1>3. m # 0 /\ m \in 0..n
  BY DEF Grows
<1>4. m - 1 \in 0 .. n - 1 /\ m - 1 \in 0..n /\ ~(m <= m - 1) /\ (m - 1) + 1 = m
  BY <1>3
<1>5. m - 1 \in S
  BY <1>2, <1>4
<1> QED
  BY <1>4, <1>5 DEF Grows

\* A function defined from the number before.
Defined(f, n, T, s, G) ==
  f \in [0..n -> T] /\ f[0] = s /\ \A k \in 1..n : f[k] = G[<<f[k - 1], k>>]

\* Such a function exists, for every step G and every length n.
LEMMA RecursionExists ==
  ASSUME NEW T, NEW s \in T, NEW n \in Nat, NEW G \in [T \X (1..n) -> T]
  PROVE  \E f : Defined(f, n, T, s, G)
<1> DEFINE S == {k \in 0..n : \E f : Defined(f, k, T, s, G)}
<1>1. 0 \in S
  <2> DEFINE f == [k \in 0..0 |-> s]
  <2>1. Defined(f, 0, T, s, G)
    BY DEF Defined
  <2> QED
    BY <2>1
<1>2. ASSUME NEW k \in 0 .. n - 1, k \in S PROVE k + 1 \in S
  <2>1. PICK f : Defined(f, k, T, s, G)
    BY <1>2
  <2>2. f \in [0..k -> T] /\ f[0] = s /\ \A j \in 1..k : f[j] = G[<<f[j - 1], j>>]
    BY <2>1 DEF Defined
  <2>3. k \in Nat /\ k + 1 \in 1..n /\ f[k] \in T /\ k + 1 \in 0..n
    BY <2>2
  <2> DEFINE g == [j \in 0 .. k + 1 |-> IF j = k + 1 THEN G[<<f[k], k + 1>>] ELSE f[j]]
  <2>4. G[<<f[k], k + 1>>] \in T
    BY <2>3
  <2>5. g \in [0 .. k + 1 -> T]
    <3>1. \A j \in 0 .. k + 1 : j = k + 1 \/ j \in 0..k
      BY <2>3
    <3> QED
      BY <2>2, <2>4, <3>1
  <2>6. g[0] = s /\ g[k + 1] = G[<<f[k], k + 1>>] /\ \A j \in 0..k : g[j] = f[j]
    BY <2>2, <2>3
  <2>7. ASSUME NEW j \in 1 .. k + 1 PROVE g[j] = G[<<g[j - 1], j>>]
    <3> HIDE DEF g
    <3>1. CASE j = k + 1
      <4>1. j - 1 = k /\ k \in 0..k
        BY <2>3, <3>1
      <4> QED
        BY <2>6, <3>1, <4>1
    <3>2. CASE j # k + 1
      <4>1. j \in 1..k /\ j \in 0..k /\ j - 1 \in 0..k
        BY <2>3, <3>2
      <4> QED
        BY <2>2, <2>6, <4>1
    <3> QED
      BY <3>1, <3>2
  <2> HIDE DEF g
  <2>8. Defined(g, k + 1, T, s, G)
    BY <2>5, <2>6, <2>7 DEF Defined
  <2> QED
    BY <2>3, <2>8
<1>3. Grows(S, n)
  BY <1>1, <1>2 DEF Grows
<1> HIDE DEF S
<1>4. n \in S
  BY <1>3, UpTo
<1> QED
  BY <1>4 DEF S

MaxBits == 2 * Bits["D"]

\* Widths are numbers from 8 bits on, and no power in use goes beyond MaxBits.
LEMMA WidthsAre ==
  /\ MaxBits \in Nat /\ Bits["B"] = 8 /\ Bits["W"] \in Nat /\ Bits["D"] \in Nat /\ Bits["W"] >= 8 /\ Bits["D"] > 8
  /\ \A z \in Sizes : Bits[z] \in Nat /\ 8 <= Bits[z] /\ Bits[z] <= MaxBits
BY AluAssumption DEF AluAssumption, Sizes, MaxBits

\* Each power is twice the one before.
LEMMA PowersDouble ==
  Pow2[0] = 1 /\ \A n \in 1..MaxBits : Pow2[n] = 2 * Pow2[n - 1]
<1> DEFINE G == [x \in Nat \X (1..MaxBits) |-> 2 * x[1]]
<1>1. G \in [Nat \X (1..MaxBits) -> Nat]
  OBVIOUS
<1>2. \A x \in Nat, n \in 1..MaxBits : G[<<x, n>>] = 2 * x
  OBVIOUS
<1> HIDE DEF G
<1>3. PICK f : Defined(f, MaxBits, Nat, 1, G)
  <2>1. 1 \in Nat
    OBVIOUS
  <2> QED
    BY <1>1, <2>1, WidthsAre, RecursionExists
<1>4. f = [n \in 0..MaxBits |-> IF n = 0 THEN 1 ELSE 2 * f[n - 1]]
  <2>1. f \in [0..MaxBits -> Nat] /\ f[0] = 1 /\ \A n \in 1..MaxBits : f[n] = G[<<f[n - 1], n>>]
    BY <1>3 DEF Defined
  <2>2. \A n \in 1..MaxBits : f[n - 1] \in Nat
    <3>1. \A n \in 1..MaxBits : n - 1 \in 0..MaxBits
      BY WidthsAre
    <3> QED
      BY <2>1, <3>1
  <2>3. \A n \in 1..MaxBits : f[n] = 2 * f[n - 1]
    BY <1>2, <2>1, <2>2
  <2>4. \A n \in 0..MaxBits : f[n] = IF n = 0 THEN 1 ELSE 2 * f[n - 1]
    <3>1. \A n \in 0..MaxBits : n = 0 \/ n \in 1..MaxBits
      BY WidthsAre
    <3> QED
      BY <2>1, <2>3, <3>1
  <2> QED
    BY <2>1, <2>4
<1>5. Pow2 = [n \in 0..MaxBits |-> IF n = 0 THEN 1 ELSE 2 * Pow2[n - 1]]
  BY <1>4, Zenon DEF Pow2, MaxBits
<1>6. 0 \in 0..MaxBits /\ \A n \in 1..MaxBits : n \in 0..MaxBits /\ n # 0
  BY WidthsAre
<1> QED
  BY <1>5, <1>6

\* Powers are positive numbers, and grow.
LEMMA PowerType ==
  \A n \in 0..MaxBits : Pow2[n] \in Nat /\ Pow2[n] > n
<1> DEFINE S == {n \in 0..MaxBits : Pow2[n] \in Nat /\ Pow2[n] > n}
<1>1. 0 \in S
  BY PowersDouble, WidthsAre
<1>2. ASSUME NEW k \in 0 .. MaxBits - 1, k \in S PROVE k + 1 \in S
  <2>1. k + 1 \in 1..MaxBits /\ k + 1 \in 0..MaxBits /\ (k + 1) - 1 = k /\ k \in Nat
    BY WidthsAre
  <2>2. Pow2[k + 1] = 2 * Pow2[k]
    BY <2>1, PowersDouble
  <2>3. Pow2[k + 1] \in Nat /\ Pow2[k + 1] > k + 1
    BY <1>2, <2>1, <2>2
  <2> QED
    BY <2>1, <2>3
<1>3. Grows(S, MaxBits)
  BY <1>1, <1>2 DEF Grows
<1> HIDE DEF S
<1>4. 0..MaxBits \subseteq S
  BY <1>3, UpTo, WidthsAre
<1> QED
  BY <1>4 DEF S

-----------------------------------------------------------------------------
(* The numbers of an operand.                                              *)

\* The powers of the bits of a byte.
LEMMA SmallPowers ==
  /\ Pow2[1] = 2 /\ Pow2[2] = 4 /\ Pow2[3] = 8 /\ Pow2[4] = 16
  /\ Pow2[5] = 32 /\ Pow2[6] = 64 /\ Pow2[7] = 128 /\ Pow2[8] = 256
<1>1. MaxBits > 8 /\ MaxBits \in Nat
  BY WidthsAre DEF MaxBits
<1>2. /\ Pow2[1] = 2 /\ Pow2[2] = 4 /\ Pow2[3] = 8 /\ Pow2[4] = 16
  <2>1. /\ 1 \in 1..MaxBits /\ 2 \in 1..MaxBits /\ 3 \in 1..MaxBits /\ 4 \in 1..MaxBits
        /\ 1 - 1 = 0 /\ 2 - 1 = 1 /\ 3 - 1 = 2 /\ 4 - 1 = 3
    BY <1>1
  <2>2. Pow2[1] = 2 * 1 /\ Pow2[2] = 2 * Pow2[1] /\ Pow2[3] = 2 * Pow2[2] /\ Pow2[4] = 2 * Pow2[3]
    BY <2>1, PowersDouble
  <2> QED
    BY <2>2
<1>3. /\ 5 \in 1..MaxBits /\ 6 \in 1..MaxBits /\ 7 \in 1..MaxBits /\ 8 \in 1..MaxBits
      /\ 5 - 1 = 4 /\ 6 - 1 = 5 /\ 7 - 1 = 6 /\ 8 - 1 = 7
  BY <1>1
<1>4. Pow2[5] = 2 * Pow2[4] /\ Pow2[6] = 2 * Pow2[5] /\ Pow2[7] = 2 * Pow2[6] /\ Pow2[8] = 2 * Pow2[7]
  BY <1>3, PowersDouble
<1> QED
  BY <1>2, <1>4

\* A power of eight bits or more is so many bytes full.
LEMMA PowerOfBytes ==
  \A n \in 8..MaxBits : \E k \in Nat : k > 0 /\ Pow2[n] = 256 * k
<1> DEFINE S == {j \in Nat : j + 8 <= MaxBits => \E k \in Nat : k > 0 /\ Pow2[j + 8] = 256 * k}
<1>1. 0 \in S
  <2>3. Pow2[8] = 256
    BY SmallPowers
  <2>4. Pow2[0 + 8] = 256 * 1
    BY <2>3
  <2> QED
    BY <2>4
<1>2. ASSUME NEW j \in 0 .. MaxBits - 1, j \in S PROVE j + 1 \in S
  <2>1. j \in Nat
    OBVIOUS
  <2>2. ASSUME (j + 1) + 8 <= MaxBits PROVE \E k \in Nat : k > 0 /\ Pow2[(j + 1) + 8] = 256 * k
    <3>1. j + 8 <= MaxBits /\ (j + 1) + 8 \in 1..MaxBits /\ ((j + 1) + 8) - 1 = j + 8
      BY <2>1, <2>2, WidthsAre
    <3>2. PICK k \in Nat : k > 0 /\ Pow2[j + 8] = 256 * k
      BY <1>2, <3>1
    <3>3. Pow2[(j + 1) + 8] = 2 * Pow2[j + 8]
      BY <3>1, PowersDouble
    <3>4. Pow2[(j + 1) + 8] = 256 * (2 * k) /\ 2 * k \in Nat /\ 2 * k > 0
      BY <3>2, <3>3
    <3> QED
      BY <3>4
  <2> QED
    BY <2>1, <2>2
<1>3. Grows(S, MaxBits)
  BY <1>1, <1>2 DEF Grows
<1>4. 0..MaxBits \subseteq S
  <2> HIDE DEF S
  <2> QED
    BY <1>3, UpTo, WidthsAre
<1> SUFFICES ASSUME NEW n \in 8..MaxBits PROVE \E k \in Nat : k > 0 /\ Pow2[n] = 256 * k
  OBVIOUS
<1>5. n - 8 \in 0..MaxBits /\ (n - 8) + 8 = n /\ n <= MaxBits
  BY WidthsAre
<1>6. n - 8 \in S
  BY <1>4, <1>5
<1> QED
  BY <1>5, <1>6

\* What a width is worth: m numbers, of which those from s on have the sign.
Span(m, s) == m \in Nat /\ s \in Nat /\ m = 2 * s /\ s >= 128 /\ \E k \in Nat : s = 16 * k

\* The numbers of an operand span its width, which is at least 8 bits; a byte has 256.
LEMMA SpanIs ==
  ASSUME size \in Sizes
  PROVE  /\ Span(Mod, Sign) /\ Mod \in Nat /\ Sign \in Nat /\ Mod = 2 * Sign /\ Mod > 0
         /\ Width \in Nat /\ 8 <= Width /\ Width <= MaxBits /\ Width - 1 \in 0..MaxBits /\ Width \in 1..MaxBits
         /\ size = "B" => Mod = 256 /\ Sign = 128 /\ Width = 8
<1>1. Width \in Nat /\ 8 <= Width /\ Width <= MaxBits /\ Width - 1 \in 0..MaxBits /\ Width \in 1..MaxBits
  BY WidthsAre DEF Width
<1>2. Mod = 2 * Sign
  BY <1>1, PowersDouble DEF Mod, Sign
<1>3. Mod \in Nat /\ Sign \in Nat
  BY <1>1, PowerType DEF Mod, Sign
<1>4. PICK k \in Nat : k > 0 /\ Mod = 256 * k
  BY <1>1, PowerOfBytes DEF Mod
<1>5. Sign = 16 * (8 * k) /\ 8 * k \in Nat /\ Sign >= 128
  BY <1>2, <1>3, <1>4
<1>6. ASSUME size = "B" PROVE Mod = 256 /\ Sign = 128 /\ Width = 8
  <2>1. Width = 8
    BY <1>6, WidthsAre DEF Width
  <2>5. Pow2[7] = 128
    BY SmallPowers
  <2> QED
    BY <1>2, <2>1, <2>5 DEF Sign
<1> QED
  BY <1>1, <1>2, <1>3, <1>5, <1>6 DEF Span

-----------------------------------------------------------------------------
(* Sums and differences that wrap.                                         *)

\* A number is its quotient times the divisor plus a remainder below the divisor.
LEMMA Divided ==
  ASSUME NEW n \in Nat \ {0}, NEW a \in Int
  PROVE  a % n \in 0 .. n - 1 /\ \E q \in Int : a = n * q + (a % n)
<1>1. a % n \in 0 .. n - 1 /\ a \div n \in Int /\ a = n * (a \div n) + (a % n)
  OBVIOUS
<1> QED
  BY <1>1

\* ... which is unique.
LEMMA ModUnique ==
  ASSUME NEW n \in Nat \ {0}, NEW q \in Int, NEW r \in 0 .. n - 1
  PROVE  (n * q + r) % n = r
<1>1. n * q \in Int /\ n * q + r \in Int
  OBVIOUS
<1> DEFINE a == n * q + r
           m == a % n
<1>2. PICK d \in Int : a = n * d + m
  BY <1>1, Divided
<1>3. m \in 0 .. n - 1
  BY <1>1, Divided
<1>4. n * q + r = n * d + m
  BY <1>2
<1> HIDE DEF m
<1>5. \A x, y \in Int : \A s, t \in 0 .. n - 1 : n * x + s = n * y + t => x = y
  OBVIOUS
<1>6. d = q
  BY <1>3, <1>4, <1>5
<1>7. m = r
  BY <1>1, <1>3, <1>4, <1>6
<1> QED
  BY <1>7 DEF m

\* A number that leaves the range once wraps by exactly one modulus.
LEMMA WrapsOnce ==
  ASSUME NEW m \in Nat, m > 0, NEW x \in Int
  PROVE  /\ x % m \in 0 .. m - 1
         /\ 0 <= x /\ x < m => x % m = x
         /\ m <= x /\ x < 2 * m => x % m = x - m
         /\ -m <= x /\ x < 0 => x % m = x + m
<1>1. m \in Nat \ {0}
  OBVIOUS
<1>2. x % m \in 0 .. m - 1
  BY <1>1, Divided
<1>3. ASSUME 0 <= x, x < m PROVE x % m = x
  <2>1. x \in 0 .. m - 1 /\ 0 \in Int /\ m * 0 + x = x
    BY <1>3
  <2>2. (m * 0 + x) % m = x
    BY <1>1, <2>1, ModUnique
  <2> QED
    BY <2>1, <2>2
<1>4. ASSUME m <= x, x < 2 * m PROVE x % m = x - m
  <2>1. x - m \in 0 .. m - 1 /\ 1 \in Int /\ m * 1 + (x - m) = x
    BY <1>4
  <2>2. (m * 1 + (x - m)) % m = x - m
    BY <1>1, <2>1, ModUnique
  <2> QED
    BY <2>1, <2>2
<1>5. ASSUME -m <= x, x < 0 PROVE x % m = x + m
  <2>1. x + m \in 0 .. m - 1 /\ -1 \in Int /\ m * (-1) + (x + m) = x
    BY <1>5
  <2>2. (m * (-1) + (x + m)) % m = x + m
    BY <1>1, <2>1, ModUnique
  <2> QED
    BY <2>1, <2>2
<1> QED
  BY <1>2, <1>3, <1>4, <1>5

\* A number as a signed one.
AsSigned(x, m, s) == IF x < s THEN x ELSE x - m

\* What the comparisons of _ALU_SMASK and the carry formulas find in a sum.
CarriesAre(l, r, c, v, m, s) ==
  /\ v \in 0 .. m - 1
  /\ v = IF l + r + c < m THEN l + r + c ELSE l + r + c - m
  /\ (IF l # 0 THEN v <= r ELSE v < r) <=> l + r + c > m - 1
  /\ (IF l % 16 # 0 THEN v % 16 <= r % 16 ELSE v % 16 < r % 16) <=> (l % 16) + (r % 16) + c > 15
  /\ (l >= s <=> r >= s) /\ ~(v >= s <=> l >= s)
       <=> SumOutOf(-s, s - 1, AsSigned(l, m, s) + AsSigned(r, m, s) + c)
  /\ (l # 0 /\ v = r) => l + r + c > m - 1

\* The comparisons the code makes of a sum tell its carries, for every width.
LEMMA CarriesOfSum ==
  ASSUME NEW m \in Nat, NEW s \in Nat, Span(m, s), NEW l \in 0 .. m - 1, NEW r \in 0 .. m - 1, NEW c \in 0..1,
         NEW v, v = (l + r + c) % m
  PROVE  CarriesAre(l, r, c, v, m, s)
<1>1. m = 2 * s /\ s >= 128
  BY DEF Span
<1>2. PICK k \in Nat : s = 16 * k
  BY DEF Span
<1>3. l \in Nat /\ r \in Nat /\ c \in Nat /\ l < m /\ r < m /\ c <= 1 /\ m > 0
  BY <1>1
<1>4. v \in 0 .. m - 1 /\ v = IF l + r + c < m THEN l + r + c ELSE l + r + c - m
  <2>1. l + r + c \in Int /\ 0 <= l + r + c /\ l + r + c < 2 * m
    BY <1>3
  <2> QED
    BY <1>3, <2>1, WrapsOnce
<1>5. (IF l # 0 THEN v <= r ELSE v < r) <=> l + r + c > m - 1
  BY <1>1, <1>3, <1>4
<1>6. (l # 0 /\ v = r) => l + r + c > m - 1
  BY <1>1, <1>3, <1>4
<1>7. /\ (l >= s <=> r >= s) /\ ~(v >= s <=> l >= s)
           <=> SumOutOf(-s, s - 1, AsSigned(l, m, s) + AsSigned(r, m, s) + c)
  BY <1>1, <1>3, <1>4 DEF SumOutOf, AsSigned
<1>8. v % 16 = ((l % 16) + (r % 16) + c) % 16
  BY <1>1, <1>2, <1>3, <1>4
<1>9. (IF l % 16 # 0 THEN v % 16 <= r % 16 ELSE v % 16 < r % 16) <=> (l % 16) + (r % 16) + c > 15
  BY <1>3, <1>8
<1> QED
  BY <1>4, <1>5, <1>6, <1>7, <1>9 DEF CarriesAre

\* What __SUB_FLAGS finds in a difference.
BorrowsAre(l, r, v, m, s) ==
  /\ v \in 0 .. m - 1
  /\ v = IF l < r THEN l - r + m ELSE l - r
  /\ v = 0 <=> l = r
  /\ ~(l >= s <=> r >= s) /\ ~(l >= s <=> v >= s)
       <=> SumOutOf(-s, s - 1, AsSigned(l, m, s) - AsSigned(r, m, s))
  /\ (v >= s <=> ~SumOutOf(-s, s - 1, AsSigned(l, m, s) - AsSigned(r, m, s)))
       <=> AsSigned(l, m, s) < AsSigned(r, m, s)
  /\ AsSigned(l, m, s) = AsSigned(r, m, s) <=> l = r

\* The comparisons the code makes of a difference tell its borrows, for every width.
LEMMA BorrowsOfDifference ==
  ASSUME NEW m \in Nat, NEW s \in Nat, Span(m, s), NEW l \in 0 .. m - 1, NEW r \in 0 .. m - 1,
         NEW v, v = (l - r) % m
  PROVE  BorrowsAre(l, r, v, m, s)
<1>1. m = 2 * s /\ s >= 128
  BY DEF Span
<1>3. l \in Nat /\ r \in Nat /\ l < m /\ r < m /\ m > 0
  BY <1>1
<1>4. v \in 0 .. m - 1 /\ v = IF l < r THEN l - r + m ELSE l - r
  <2>1. l - r \in Int /\ -m <= l - r /\ l - r < m
    BY <1>3
  <2> QED
    BY <1>3, <2>1, WrapsOnce
<1>5. v = 0 <=> l = r
  BY <1>3, <1>4
<1>6. /\ ~(l >= s <=> r >= s) /\ ~(l >= s <=> v >= s)
           <=> SumOutOf(-s, s - 1, AsSigned(l, m, s) - AsSigned(r, m, s))
  BY <1>1, <1>3, <1>4 DEF SumOutOf, AsSigned
<1>7. (v >= s <=> ~SumOutOf(-s, s - 1, AsSigned(l, m, s) - AsSigned(r, m, s)))
       <=> AsSigned(l, m, s) < AsSigned(r, m, s)
  BY <1>1, <1>3, <1>4 DEF SumOutOf, AsSigned
<1>8. AsSigned(l, m, s) = AsSigned(r, m, s) <=> l = r
  BY <1>1, <1>3 DEF AsSigned
<1> QED
  BY <1>4, <1>5, <1>6, <1>7, <1>8 DEF BorrowsAre

-----------------------------------------------------------------------------
(* Bits.                                                                   *)

\* A quotient is known by its remainder.
LEMMA DivUnique ==
  ASSUME NEW n \in Nat \ {0}, NEW q \in Int, NEW r \in 0 .. n - 1
  PROVE  (n * q + r) \div n = q
<1>1. n * q \in Int /\ n * q + r \in Int
  OBVIOUS
<1> DEFINE a == n * q + r
           d == a \div n
           m == a % n
<1>2. m \in 0 .. n - 1 /\ d \in Int /\ a = n * d + m
  BY <1>1
<1>3. n * q + r = n * d + m
  BY <1>2
<1> HIDE DEF m, d
<1>4. \A x, y \in Int : \A s, t \in 0 .. n - 1 : n * x + s = n * y + t => x = y
  OBVIOUS
<1>5. d = q
  BY <1>2, <1>3, <1>4
<1> QED
  BY <1>5 DEF d

\* Multiples of the divisor do not matter to the remainder.
LEMMA DivOfSum ==
  ASSUME NEW n \in Nat \ {0}, NEW q \in Int, NEW x \in Int
  PROVE  (x + n * q) \div n = (x \div n) + q
<1> DEFINE d == x \div n
           m == x % n
<1>1. d \in Int /\ m \in 0 .. n - 1 /\ x = n * d + m
  OBVIOUS
<1> HIDE DEF d, m
<1>2. x + n * q = n * (d + q) + m /\ d + q \in Int
  <2>1. n * (d + q) = n * d + n * q
    BY <1>1
  <2> QED
    BY <1>1, <2>1
<1>3. (n * (d + q) + m) \div n = d + q
  BY <1>1, <1>2, DivUnique
<1> QED
  BY <1>2, <1>3 DEF d

\* Powers multiply as exponents add.
LEMMA PowersMultiply ==
  \A i, j \in Nat : i + j <= MaxBits => Pow2[i + j] = Pow2[i] * Pow2[j]
<1> SUFFICES ASSUME NEW i \in 0..MaxBits PROVE \A j \in 0..MaxBits : i + j <= MaxBits => Pow2[i + j] = Pow2[i] * Pow2[j]
  <2>1. \A i, j \in Nat : i + j <= MaxBits => i \in 0..MaxBits /\ j \in 0..MaxBits
    BY WidthsAre
  <2> QED
    BY <2>1
<1>1. Pow2[i] \in Nat
  BY PowerType
<1> DEFINE p == Pow2[i]
           S == {j \in 0..MaxBits : i + j <= MaxBits => Pow2[i + j] = p * Pow2[j]}
<1>2. 0 \in S
  <2>1. i + 0 = i /\ 0 \in 0..MaxBits /\ p * 1 = p
    BY <1>1, WidthsAre
  <2> QED
    BY <2>1, PowersDouble
<1>3. ASSUME NEW j \in 0 .. MaxBits - 1, j \in S PROVE j + 1 \in S
  <2>1. j \in Nat /\ i \in Nat /\ j + 1 \in 0..MaxBits /\ j + 1 \in 1..MaxBits /\ (j + 1) - 1 = j /\ j \in 0..MaxBits
    BY WidthsAre
  <2>2. ASSUME i + (j + 1) <= MaxBits PROVE Pow2[i + (j + 1)] = p * Pow2[j + 1]
    <3>1. i + j <= MaxBits /\ i + (j + 1) \in 1..MaxBits /\ (i + (j + 1)) - 1 = i + j
      BY <2>1, <2>2, WidthsAre
    <3>2. Pow2[i + (j + 1)] = 2 * Pow2[i + j] /\ Pow2[j + 1] = 2 * Pow2[j]
      BY <2>1, <3>1, PowersDouble
    <3>3. Pow2[i + j] = p * Pow2[j]
      BY <1>3, <3>1
    <3>4. Pow2[j] \in Nat
      BY <2>1, PowerType
    <3>5. \A x, y \in Nat : 2 * (x * y) = x * (2 * y)
      OBVIOUS
    <3>6. 2 * (p * Pow2[j]) = p * (2 * Pow2[j])
      BY <1>1, <3>4, <3>5
    <3> QED
      BY <3>2, <3>3, <3>6
  <2> QED
    BY <2>1, <2>2
<1>4. Grows(S, MaxBits)
  BY <1>2, <1>3 DEF Grows
<1> HIDE DEF S
<1>5. 0..MaxBits \subseteq S
  BY <1>4, UpTo, WidthsAre
<1> QED
  BY <1>5 DEF S, p

\* A bit is 0 or 1, and those below a power are not changed by adding multiples of it.
LEMMA BitType ==
  ASSUME NEW x \in Nat, NEW i \in 0..MaxBits
  PROVE  Bit(x, i) \in 0..1
<1>1. Pow2[i] \in Nat /\ Pow2[i] > 0
  BY PowerType, WidthsAre
<1> DEFINE d == x \div Pow2[i]
<1>2. d \in Int
  BY <1>1
<1> HIDE DEF d
<1>3. d % 2 \in 0..1
  BY <1>2
<1> QED
  BY <1>3 DEF Bit, d

\* A bit below position k does not change when a multiple of 2^k is added.
LEMMA BitBelow ==
  ASSUME NEW x \in Nat, NEW i \in Nat, NEW k \in 0..MaxBits, i < k, NEW q \in Nat
  PROVE  Bit(x + Pow2[k] * q, i) = Bit(x, i)
<1>1. k \in Nat /\ i + 1 \in Nat /\ k - (i + 1) \in Nat /\ (i + 1) + (k - (i + 1)) = k /\ k <= MaxBits
      /\ i \in 0..MaxBits /\ i + 1 \in 1..MaxBits /\ k - (i + 1) \in 0..MaxBits /\ (i + 1) - 1 = i
  BY WidthsAre
<1> DEFINE p == Pow2[i]
           u == Pow2[k - (i + 1)]
           d == x \div p
<1>2. p \in Nat \ {0} /\ u \in Nat
  BY <1>1, PowerType
<1>3. Pow2[k] = Pow2[i + 1] * u /\ Pow2[i + 1] = 2 * p
  BY <1>1, PowersMultiply, PowersDouble
<1> HIDE DEF p, u
<1>4. Pow2[k] * q = p * (2 * (u * q)) /\ u * q \in Nat /\ 2 * (u * q) \in Int
  <2>1. \A a, b, c \in Nat : ((2 * a) * b) * c = a * (2 * (b * c)) /\ b * c \in Nat
    OBVIOUS
  <2> QED
    BY <1>2, <1>3, <2>1
<1>5. (x + p * (2 * (u * q))) \div p = (x \div p) + 2 * (u * q)
  BY <1>2, <1>4, DivOfSum
<1>6. d \in Int
  BY <1>2
<1> HIDE DEF d
<1>7. (d + 2 * (u * q)) % 2 = d % 2
  BY <1>4, <1>6
<1> QED
  BY <1>4, <1>5, <1>7 DEF Bit, p, d

\* The bit just above a number below 2^k is the multiple of 2^k added to it.
LEMMA BitAbove ==
  ASSUME NEW k \in 0..MaxBits, NEW x \in Nat, x < Pow2[k], NEW q \in 0..1
  PROVE  Bit(x + Pow2[k] * q, k) = q
<1> DEFINE p == Pow2[k]
<1>1. p \in Nat \ {0} /\ x \in 0 .. p - 1 /\ q \in Int
  BY PowerType
<1> HIDE DEF p
<1>2. (p * q + x) \div p = q
  BY <1>1, DivUnique
<1>3. p * q + x = x + p * q
  BY <1>1
<1>4. q % 2 = q
  BY <1>1
<1> QED
  BY <1>2, <1>3, <1>4 DEF Bit, p

\* The sum of some powers has these as bits.
LEMMA BitsMake ==
  ASSUME size \in Sizes, NEW b \in [0 .. Width - 1 -> 0..1]
  PROVE  OfBits(b) \in 0 .. Mod - 1 /\ \A i \in 0 .. Width - 1 : Bit(OfBits(b), i) = b[i]
<1>1. Width \in Nat /\ Width <= MaxBits /\ \A n \in 0..Width : n \in 0..MaxBits
  BY SpanIs, WidthsAre
<1> DEFINE N == Width
           G == [x \in Nat \X (1..N) |-> x[1] + b[x[2] - 1] * Pow2[x[2] - 1]]
<1>2. \A n \in 1..N : n - 1 \in 0..N /\ n - 1 \in 0 .. N - 1 /\ b[n - 1] \in 0..1 /\ Pow2[n - 1] \in Nat
  <2>1. \A n \in 1..N : n - 1 \in 0..N /\ n - 1 \in 0 .. N - 1
    BY <1>1
  <2> QED
    BY <1>1, <2>1, PowerType
<1>3. \A x \in Nat, n \in 1..N : x + b[n - 1] * Pow2[n - 1] \in Nat
  <2>1. \A x, y \in Nat, c \in 0..1 : x + c * y \in Nat
    OBVIOUS
  <2> QED
    BY <1>2, <2>1
<1>4. G \in [Nat \X (1..N) -> Nat] /\ \A x \in Nat, n \in 1..N : G[<<x, n>>] = x + b[n - 1] * Pow2[n - 1]
  BY <1>3
<1> HIDE DEF G
<1> DEFINE Def(f) == f = [n \in 0..N |-> IF n = 0 THEN 0 ELSE f[n - 1] + b[n - 1] * Pow2[n - 1]]
           upTo == CHOOSE f : Def(f)
<1>5. \E f : Def(f)
  <2>1. PICK f : Defined(f, N, Nat, 0, G)
    BY <1>1, <1>4, RecursionExists
  <2>2. f \in [0..N -> Nat] /\ f[0] = 0 /\ \A n \in 1..N : f[n] = G[<<f[n - 1], n>>]
    BY <2>1 DEF Defined
  <2>3. \A n \in 1..N : f[n] = f[n - 1] + b[n - 1] * Pow2[n - 1]
    BY <1>2, <1>4, <2>2
  <2>4. \A n \in 0..N : f[n] = IF n = 0 THEN 0 ELSE f[n - 1] + b[n - 1] * Pow2[n - 1]
    <3>1. \A n \in 0..N : n = 0 \/ n \in 1..N
      BY <1>1
    <3> QED
      BY <2>2, <2>3, <3>1
  <2>5. f = [n \in 0..N |-> f[n]]
    BY <2>2
  <2>6. Def(f)
    BY <2>4, <2>5
  <2> HIDE DEF Def
  <2> QED
    BY <2>6
<1>6. Def(upTo)
  <2> HIDE DEF Def
  <2> QED
    BY <1>5
<1>7. upTo[0] = 0 /\ \A n \in 1..N : upTo[n] = upTo[n - 1] + b[n - 1] * Pow2[n - 1]
  <2> HIDE DEF upTo
  <2>1. 0 \in 0..N /\ \A n \in 1..N : n \in 0..N /\ n # 0
    BY <1>1
  <2> QED
    BY <1>6, <2>1
<1>8. OfBits(b) = upTo[N]
  BY DEF OfBits
<1> HIDE DEF upTo, Def
<1> DEFINE S == {n \in 0..N : /\ upTo[n] \in Nat /\ upTo[n] < Pow2[n]
                              /\ \A i \in 0 .. n - 1 : Bit(upTo[n], i) = b[i]}
<1>9. 0 \in S
  <2>1. 0 \in 0..N /\ \A i \in 0 .. 0 - 1 : FALSE
    BY <1>1
  <2> QED
    BY <1>7, <2>1, PowersDouble
<1>10. ASSUME NEW n \in 0 .. N - 1, n \in S PROVE n + 1 \in S
  <2> DEFINE x == upTo[n]
             c == b[n]
  <2>1. n + 1 \in 1..N /\ (n + 1) - 1 = n /\ n + 1 \in 0..N /\ n \in 0..MaxBits /\ n + 1 \in 1..MaxBits /\ n \in Nat
    BY <1>1
  <2>2. x \in Nat /\ x < Pow2[n] /\ (\A i \in 0 .. n - 1 : Bit(x, i) = b[i]) /\ c \in 0..1 /\ Pow2[n] \in Nat
    BY <1>10, <2>1, PowerType
  <2>3. upTo[n + 1] = x + c * Pow2[n]
    BY <1>7, <2>1
  <2> HIDE DEF x, c
  <2>4. c * Pow2[n] = Pow2[n] * c /\ (c = 0 \/ c = 1) /\ c \in Nat
    BY <2>2
  <2>5. upTo[n + 1] \in Nat /\ upTo[n + 1] < Pow2[n + 1]
    <3>1. Pow2[n + 1] = 2 * Pow2[n]
      BY <2>1, PowersDouble
    <3>2. CASE c = 0
      BY <2>2, <2>3, <3>1, <3>2
    <3>3. CASE c = 1
      BY <2>2, <2>3, <3>1, <3>3
    <3> QED
      BY <2>4, <3>2, <3>3
  <2>6. ASSUME NEW i \in 0 .. (n + 1) - 1 PROVE Bit(upTo[n + 1], i) = b[i]
    <3>1. CASE i = n
      <4>1. Bit(x + Pow2[n] * c, n) = c
        BY <2>1, <2>2, BitAbove
      <4> QED
        BY <2>3, <2>4, <3>1, <4>1 DEF c
    <3>2. CASE i # n
      <4>1. i \in 0 .. n - 1 /\ i \in Nat /\ i < n
        BY <2>1, <3>2
      <4>2. Bit(x + Pow2[n] * c, i) = Bit(x, i)
        BY <2>1, <2>2, <2>4, <4>1, BitBelow
      <4> QED
        BY <2>2, <2>3, <2>4, <4>1, <4>2
    <3> QED
      BY <3>1, <3>2
  <2> QED
    BY <2>1, <2>5, <2>6
<1>11. Grows(S, N)
  BY <1>9, <1>10 DEF Grows
<1> HIDE DEF S
<1>12. N \in S
  BY <1>1, <1>11, UpTo
<1>13. upTo[N] \in Nat /\ upTo[N] < Pow2[N] /\ \A i \in 0 .. N - 1 : Bit(upTo[N], i) = b[i]
  BY <1>12 DEF S
<1>14. Mod = Pow2[N] /\ Mod \in Nat
  BY SpanIs DEF Mod
<1> QED
  BY <1>8, <1>13, <1>14

-----------------------------------------------------------------------------
(* Types of results.                                                       *)

Numbers == 0 .. Mod - 1
Registers == [a : Numbers, d : Numbers]
FlagSets == SUBSET FlagNames
\* A result and its flags.
IsResult(o) == o \in [v : Numbers, fl : FlagSets]

\* The bit operators have the bits they should.
LEMMA BitOpsAre ==
  ASSUME size \in Sizes, NEW x \in Numbers, NEW y \in Numbers
  PROVE  /\ Or(x, y) \in Numbers /\ And(x, y) \in Numbers /\ Xor(x, y) \in Numbers
         /\ \A i \in 0 .. Width - 1 : Bit(Or(x, y), i) = IF Bit(x, i) = 0 THEN Bit(y, i) ELSE 1
<1>1. \A i \in 0 .. Width - 1 : Bit(x, i) \in 0..1 /\ Bit(y, i) \in 0..1
  <2>1. x \in Nat /\ y \in Nat
    BY SpanIs DEF Numbers
  <2>2. \A i \in 0 .. Width - 1 : i \in 0..MaxBits
    BY SpanIs, WidthsAre
  <2> QED
    BY <2>1, <2>2, BitType
<1> DEFINE o == [i \in 0 .. Width - 1 |-> IF Bit(x, i) = 0 THEN Bit(y, i) ELSE 1]
           n == [i \in 0 .. Width - 1 |-> IF Bit(x, i) = 0 THEN 0 ELSE Bit(y, i)]
           e == [i \in 0 .. Width - 1 |-> IF Bit(x, i) = Bit(y, i) THEN 0 ELSE 1]
<1>2. o \in [0 .. Width - 1 -> 0..1] /\ n \in [0 .. Width - 1 -> 0..1] /\ e \in [0 .. Width - 1 -> 0..1]
  BY <1>1
<1>3. Or(x, y) = OfBits(o) /\ And(x, y) = OfBits(n) /\ Xor(x, y) = OfBits(e)
  BY DEF Or, And, Xor
<1>4. \A i \in 0 .. Width - 1 : o[i] = IF Bit(x, i) = 0 THEN Bit(y, i) ELSE 1
  OBVIOUS
<1> HIDE DEF o, n, e
<1>5. /\ OfBits(o) \in Numbers /\ OfBits(n) \in Numbers /\ OfBits(e) \in Numbers
      /\ \A i \in 0 .. Width - 1 : Bit(OfBits(o), i) = o[i]
  BY <1>2, BitsMake DEF Numbers
<1> QED
  BY <1>3, <1>4, <1>5

\* A flag is in a set that a condition adds to just when it was there or the condition holds.
LEMMA WhenIs ==
  ASSUME NEW cond, NEW flag
  PROVE  /\ \A f : f \in When(cond, flag) <=> cond /\ f = flag
         /\ flag \in FlagNames => When(cond, flag) \in FlagSets
<1>1. CASE cond
  BY <1>1 DEF When, FlagSets
<1>2. CASE ~cond
  BY <1>2 DEF When, FlagSets
<1> QED
  BY <1>1, <1>2

\* SET_COMM_FLAGS adds PF, ZF and SF by the result and leaves the other flags.
LEMMA CommFlagsAre ==
  ASSUME NEW fl \in FlagSets, NEW v
  PROVE  /\ SetCommFlags(fl, v) \in FlagSets
         /\ "ZF" \in SetCommFlags(fl, v) <=> v = 0
         /\ "SF" \in SetCommFlags(fl, v) <=> v >= Sign
         /\ \A f \in {"CF", "AF", "OF"} : f \in SetCommFlags(fl, v) <=> f \in fl
<1>1. /\ \A f : f \in SetCommFlags(fl, v) <=> \/ f \in fl /\ f \notin {"ZF", "SF", "PF"}
                                             \/ f \in When(v = 0, "ZF") \/ f \in When(v >= Sign, "SF")
                                             \/ f \in When(EvenParity(v), "PF")
  BY DEF SetCommFlags
<1>2. /\ \A f : f \in When(v = 0, "ZF") <=> v = 0 /\ f = "ZF"
      /\ \A f : f \in When(v >= Sign, "SF") <=> v >= Sign /\ f = "SF"
      /\ \A f : f \in When(EvenParity(v), "PF") <=> EvenParity(v) /\ f = "PF"
  BY WhenIs
<1>3. SetCommFlags(fl, v) \in FlagSets
  BY <1>1, <1>2 DEF FlagSets, FlagNames
<1>4. "ZF" \in SetCommFlags(fl, v) <=> v = 0
  BY <1>1, <1>2
<1>5. "SF" \in SetCommFlags(fl, v) <=> v >= Sign
  BY <1>1, <1>2
<1>6. \A f \in {"CF", "AF", "OF"} : f \in SetCommFlags(fl, v) <=> f \in fl
  BY <1>1, <1>2
<1> QED
  BY <1>3, <1>4, <1>5, <1>6

\* CF and OF set from two conditions are just these conditions.
LEMMA CarryOverflowIs ==
  ASSUME NEW fl \in FlagSets, NEW carry, NEW over
  PROVE  /\ CarryOverflow(fl, carry, over) \in FlagSets
         /\ "CF" \in CarryOverflow(fl, carry, over) <=> carry
         /\ "OF" \in CarryOverflow(fl, carry, over) <=> over
<1>1. \A f : f \in CarryOverflow(fl, carry, over) <=> \/ f \in fl /\ f \notin {"OF", "CF"}
                                                     \/ f \in When(carry, "CF") \/ f \in When(over, "OF")
  BY DEF CarryOverflow
<1>2. (\A f : f \in When(carry, "CF") <=> carry /\ f = "CF") /\ (\A f : f \in When(over, "OF") <=> over /\ f = "OF")
  BY WhenIs
<1>3. CarryOverflow(fl, carry, over) \in FlagSets
  BY <1>1, <1>2 DEF FlagSets, FlagNames
<1> QED
  BY <1>1, <1>2, <1>3

\* The top bit is the sign.
LEMMA TopBit ==
  ASSUME size \in Sizes, NEW x \in Numbers
  PROVE  Bit(x, Width - 1) = IF x >= Sign THEN 1 ELSE 0
<1>1. Mod = 2 * Sign /\ Sign \in Nat \ {0} /\ x \in Nat /\ x < Mod
  BY SpanIs DEF Numbers, Span
<1> DEFINE s == Sign
<1>2. Bit(x, Width - 1) = (x \div s) % 2
  BY DEF Bit, Sign
<1>3. s \in Nat \ {0} /\ x \in Nat /\ x < 2 * s
  BY <1>1
<1>4. x >= s <=> x >= Sign
  OBVIOUS
<1> HIDE DEF s
<1>5. CASE x >= s
  <2>1. x - s \in 0 .. s - 1 /\ 1 \in Int /\ s * 1 + (x - s) = x
    BY <1>3, <1>5
  <2>2. (s * 1 + (x - s)) \div s = 1
    BY <1>3, <2>1, DivUnique
  <2> QED
    BY <1>2, <1>4, <1>5, <2>1, <2>2
<1>6. CASE ~(x >= s)
  <2>1. x \in 0 .. s - 1 /\ 0 \in Int /\ s * 0 + x = x
    BY <1>3, <1>6
  <2>2. (s * 0 + x) \div s = 0
    BY <1>3, <2>1, DivUnique
  <2> QED
    BY <1>2, <1>4, <1>6, <2>1, <2>2
<1> QED
  BY <1>5, <1>6

\* A number modulo the span is a number.
LEMMA ModType ==
  ASSUME size \in Sizes, NEW x \in Int
  PROVE  x % Mod \in Numbers
BY SpanIs, WrapsOnce DEF Numbers

\* AddFlags, by name, where the sign bit is that of the operand.
AddFlagsAre(new, fl, v, l, r, typed) ==
  /\ "CF" \in new <=> "CF" \in fl \/ (IF l # 0 THEN v <= r ELSE v < r)
  /\ "AF" \in new <=> "AF" \in fl \/ (IF l % 16 # 0 THEN v % 16 <= r % 16 ELSE v % 16 < r % 16)
  /\ typed \/ size = "D" =>
       ("OF" \in new <=> "OF" \in fl \/ ((l >= Sign <=> r >= Sign) /\ ~(v >= Sign <=> l >= Sign)))

\* _ALU_ADD_SETFLAGS adds exactly those flags and leaves the others.
LEMMA AddFlagsIs ==
  ASSUME size \in Sizes, NEW fl \in FlagSets, NEW v \in Numbers, NEW l \in Numbers, NEW r \in Numbers, NEW typed \in BOOLEAN
  PROVE  /\ AddFlags(fl, v, l, r, typed) \in FlagSets
         /\ AddFlagsAre(AddFlags(fl, v, l, r, typed), fl, v, l, r, typed)
<1> DEFINE mask == (IF typed THEN Width ELSE Bits["D"]) - 1
           p == Bit(l, mask) = Bit(r, mask) /\ Bit(v, mask) # Bit(l, mask)
           q == IF l # 0 THEN v <= r ELSE v < r
           a == IF l % 16 # 0 THEN v % 16 <= r % 16 ELSE v % 16 < r % 16
           new == AddFlags(fl, v, l, r, typed)
<1>1. new = fl \cup When(p, "OF") \cup When(q, "CF") \cup When(a, "AF")
  BY DEF AddFlags
<1>2. typed \/ size = "D" => (p <=> (l >= Sign <=> r >= Sign) /\ ~(v >= Sign <=> l >= Sign))
  <2> SUFFICES ASSUME typed \/ size = "D" PROVE (p <=> (l >= Sign <=> r >= Sign) /\ ~(v >= Sign <=> l >= Sign))
    OBVIOUS
  <2>1. mask = Width - 1
    BY DEF Width
  <2>2. /\ Bit(l, Width - 1) = (IF l >= Sign THEN 1 ELSE 0)
        /\ Bit(r, Width - 1) = (IF r >= Sign THEN 1 ELSE 0)
        /\ Bit(v, Width - 1) = (IF v >= Sign THEN 1 ELSE 0)
    BY TopBit
  <2>3. (p <=> Bit(l, Width - 1) = Bit(r, Width - 1) /\ Bit(v, Width - 1) # Bit(l, Width - 1))
    BY <2>1
  <2> HIDE DEF p
  <2> QED
    BY <2>2, <2>3
<1> HIDE DEF p, q, a, new
<1>3. /\ \A f : f \in When(p, "OF") <=> p /\ f = "OF"
      /\ \A f : f \in When(q, "CF") <=> q /\ f = "CF"
      /\ \A f : f \in When(a, "AF") <=> a /\ f = "AF"
  BY WhenIs
<1>4. \A f : f \in new <=> f \in fl \/ (p /\ f = "OF") \/ (q /\ f = "CF") \/ (a /\ f = "AF")
  BY <1>1, <1>3
<1>5. new \in FlagSets
  BY <1>4 DEF FlagSets, FlagNames
<1>6. /\ "CF" \in new <=> "CF" \in fl \/ q
      /\ "AF" \in new <=> "AF" \in fl \/ a
      /\ "OF" \in new <=> "OF" \in fl \/ p
  BY <1>4
<1>7. AddFlagsAre(new, fl, v, l, r, typed)
  BY <1>2, <1>6 DEF AddFlagsAre, q, a
<1> QED
  BY <1>5, <1>7 DEF new

\* SubFlags, by name.
SubFlagsAre(new, fl, v, l, r, c) ==
  /\ "CF" \in new <=> "CF" \in fl \/ l < r
  /\ "AF" \in new <=> "AF" \in fl \/ r % 16 < c \/ l % 16 < (r % 16) - c

\* __SUB_FLAGS adds exactly those flags, and OF for an operand that fits.
LEMMA SubFlagsIs ==
  ASSUME size \in Sizes, NEW fl \in FlagSets, NEW v \in Numbers, NEW l \in Numbers, NEW r \in Nat, NEW c \in 0..1
  PROVE  /\ SubFlags(fl, v, l, r, c) \in FlagSets
         /\ SubFlagsAre(SubFlags(fl, v, l, r, c), fl, v, l, r, c)
         /\ r \in Numbers =>
              ("OF" \in SubFlags(fl, v, l, r, c) <=>
                 "OF" \in fl \/ (~(l >= Sign <=> r >= Sign) /\ ~(l >= Sign <=> v >= Sign)))
<1> DEFINE p == Bit(l, Width - 1) # Bit(r, Width - 1) /\ Bit(l, Width - 1) # Bit(v, Width - 1)
           q == l < r
           a == r % 16 < c \/ l % 16 < (r % 16) - c
           new == SubFlags(fl, v, l, r, c)
<1>1. new = fl \cup When(q, "CF") \cup When(a, "AF") \cup When(p, "OF")
  BY DEF SubFlags
<1>2. r \in Numbers => (p <=> ~(l >= Sign <=> r >= Sign) /\ ~(l >= Sign <=> v >= Sign))
  <2> SUFFICES ASSUME r \in Numbers PROVE (p <=> ~(l >= Sign <=> r >= Sign) /\ ~(l >= Sign <=> v >= Sign))
    OBVIOUS
  <2>1. /\ Bit(l, Width - 1) = (IF l >= Sign THEN 1 ELSE 0)
        /\ Bit(r, Width - 1) = (IF r >= Sign THEN 1 ELSE 0)
        /\ Bit(v, Width - 1) = (IF v >= Sign THEN 1 ELSE 0)
    BY TopBit
  <2> QED
    BY <2>1
<1> HIDE DEF p, q, a, new
<1>3. /\ \A f : f \in When(p, "OF") <=> p /\ f = "OF"
      /\ \A f : f \in When(q, "CF") <=> q /\ f = "CF"
      /\ \A f : f \in When(a, "AF") <=> a /\ f = "AF"
  BY WhenIs
<1>4. \A f : f \in new <=> f \in fl \/ (p /\ f = "OF") \/ (q /\ f = "CF") \/ (a /\ f = "AF")
  BY <1>1, <1>3
<1>5. new \in FlagSets
  BY <1>4 DEF FlagSets, FlagNames
<1>6. /\ "CF" \in new <=> "CF" \in fl \/ q
      /\ "AF" \in new <=> "AF" \in fl \/ a
      /\ "OF" \in new <=> "OF" \in fl \/ p
  BY <1>4
<1>7. SubFlagsAre(new, fl, v, l, r, c)
  BY <1>6 DEF SubFlagsAre, q, a
<1> QED
  BY <1>2, <1>5, <1>6, <1>7 DEF new

-----------------------------------------------------------------------------
(* What a step did.                                                        *)

Entries == [op : STRING, to : {"a", "d"}, typed : BOOLEAN, src : Nat, regs : Registers, flags : FlagSets]
Outcome(r, fl, x) == [regs |-> r, flags |-> fl, res |-> x]

\* Of an instruction done: the number it worked on, and its registers with another in its place.
Old(e) == e.regs[e.to]
With(e, v) == [e.regs EXCEPT ![e.to] = v]

\* ADD and ADC.
SumDone(e, o) ==
  e.op \in {"ADD", "ADC"} /\ o.res = "ok" =>
    LET l == Old(e)
        r == e.src
        c == IF e.op = "ADC" THEN Carry(e.flags) ELSE 0
        v == (l + r + c) % Mod
    IN  /\ r \in Numbers /\ o.regs = With(e, v)
        /\ "CF" \in o.flags <=> l + r + c > Mod - 1
        /\ "AF" \in o.flags <=> (l % 16) + (r % 16) + c > 15
        /\ e.typed \/ size = "D" => ("OF" \in o.flags <=> SumOutOf(-Sign, Sign - 1, Signed(l) + Signed(r) + c))
        /\ "ZF" \in o.flags <=> v = 0
        /\ "SF" \in o.flags <=> v >= Sign

\* SUB and CMP.
DifferenceDone(e, o) ==
  e.op \in {"SUB", "CMP"} /\ o.res = "ok" =>
    LET l == Old(e)
        r == e.src
        v == (l - r) % Mod
    IN  /\ r \in Numbers
        /\ e.op = "SUB" => o.regs = With(e, v)
        /\ "CF" \in o.flags <=> l < r
        /\ "AF" \in o.flags <=> l % 16 < r % 16
        /\ "OF" \in o.flags <=> SumOutOf(-Sign, Sign - 1, Signed(l) - Signed(r))
        /\ "ZF" \in o.flags <=> l = r
        /\ "ZF" \in o.flags <=> v = 0
        /\ "SF" \in o.flags <=> v >= Sign
        /\ (("SF" \in o.flags) # ("OF" \in o.flags)) <=> Signed(l) < Signed(r)
        /\ Signed(l) = Signed(r) <=> l = r

\* SBB.
BorrowDone(e, o) ==
  e.op = "SBB" /\ o.res = "ok" =>
    LET l == Old(e)
        r == e.src
        c == Carry(e.flags)
    IN  /\ r \in Numbers /\ o.regs = With(e, (l - r - c) % Mod)
        /\ ~(size = "D" /\ r = Mod - 1 /\ c = 1) => ("CF" \in o.flags <=> l < r + c)
        /\ size # "D" => ("AF" \in o.flags <=> (r + c) % 16 < c \/ l % 16 < ((r + c) % 16) - c)

\* INC and DEC.
StepDone(e, o) ==
  e.op \in {"INC", "DEC"} /\ o.res = "ok" =>
    LET l == Old(e)
        n == IF e.op = "INC" THEN 1 ELSE -1
        v == (l + n) % Mod
    IN  /\ "CF" \in o.flags <=> "CF" \in e.flags
        /\ "AF" \in o.flags <=> SumOutOf(0, 15, (l % 16) + n)
        /\ "OF" \in o.flags <=> SumOutOf(-Sign, Sign - 1, Signed(l) + n)
        /\ "ZF" \in o.flags <=> v = 0
        /\ "SF" \in o.flags <=> v >= Sign

\* The shifts and rotations.
ShiftDone(e, o) ==
  e.op \in ShiftOps /\ o.res = "ok" =>
    LET n == e.src % 32
        at(i) == Bit(o.regs[e.to], i)
        was(i) == Bit(Old(e), i)
        carry == Carry(o.flags)
    IN  /\ n = 0 => o.regs[e.to] = Old(e) /\ o.flags = e.flags
        /\ \A i \in 0 .. Width - 1 :
             /\ e.op \in {"SHL", "SAL"} => at(i) = (IF i < n THEN 0 ELSE was(i - n))
             /\ e.op = "SHR" => at(i) = (IF i + n < Width THEN was(i + n) ELSE 0)
             /\ e.op = "SAR" => at(i) = was(IF i + n < Width THEN i + n ELSE Width - 1)
             /\ e.op = "ROL" => at((i + n) % Width) = was(i)
             /\ e.op = "ROR" => at(i) = was((i + n) % Width)
        /\ e.op \in {"SHL", "SAL"} /\ n > 0 => carry = (IF n > Width THEN 0 ELSE was(Width - n))
        /\ e.op = "SHR" /\ n > 0 => carry = (IF n > Width THEN 0 ELSE was(n - 1))
        /\ e.op = "SAR" /\ n > 0 => carry = was(IF n > Width THEN Width - 1 ELSE n - 1)
        /\ e.op = "ROL" /\ n % Width # 0 => carry = at(0)
        /\ e.op = "ROR" /\ n % Width # 0 => carry = at(Width - 1)
        /\ \A i \in 0 .. Width :
             LET j == (i + n) % (Width + 1)
             IN  /\ e.op = "RCL" => RingBit(o.regs[e.to], o.flags, j) = RingBit(Old(e), e.flags, i)
                 /\ e.op = "RCR" => RingBit(o.regs[e.to], o.flags, i) = RingBit(Old(e), e.flags, j)

\* MUL, IMUL and its forms with a destination.
ProductDone(e, o) ==
  /\ e.op = "MUL" /\ o.res = "ok" =>
       /\ e.src \in Numbers /\ Wide(o.regs) = e.regs.a * e.src
       /\ size # "B" => /\ "CF" \in o.flags <=> o.regs.d # 0
                        /\ "OF" \in o.flags <=> o.regs.d # 0
  /\ e.op = "IMUL" /\ o.res = "ok" =>
       /\ SignedWide(o.regs) = Signed(e.regs.a) * Signed(e.src)
       /\ "CF" \in o.flags <=> SignedWide(o.regs) # Signed(o.regs.a)
  /\ e.op \in {"IMUL2", "IMULI"} /\ o.res = "ok" => o.regs[e.to] = (Signed(Old(e)) * Signed(e.src)) % Mod

\* DIV and IDIV.
QuotientDone(e, o) ==
  e.op \in {"DIV", "IDIV"} =>
    LET n == IF e.op = "DIV" THEN Wide(e.regs) ELSE SignedWide(e.regs)
        num(x) == IF e.op = "DIV" THEN x ELSE Signed(x)
        m == num(e.src)
        low == IF e.op = "DIV" THEN 0 ELSE -Sign
    IN  /\ o.res = "ok" =>
             /\ num(o.regs.a) * m + num(o.regs.d) = n
             /\ Magnitude(num(o.regs.d)) < Magnitude(m)
             /\ num(o.regs.d) # 0 => (num(o.regs.d) < 0 <=> n < 0)
        /\ o.res = "diverr" /\ ~(e.op = "IDIV" /\ size = "D") =>
             m = 0 \/ \A q \in low .. low + Mod - 1 :
                        ~(Magnitude(n - q * m) < Magnitude(m) /\ (n - q * m # 0 => (n - q * m < 0 <=> n < 0)))

\* The adjustments.
AdjustDone(e, o) ==
  LET a == e.regs.a
      d == e.regs.d
      low == a % 16 > 9 \/ "AF" \in e.flags
      high == a > 153 \/ "CF" \in e.flags
  IN  /\ e.op \in {"AAA", "AAS", "DAA", "DAS", "AAM", "AAD"} /\ o.res = "ok" => size = "B"
      /\ e.op = "AAA" /\ o.res = "ok" =>
           o.regs = [a |-> (IF low THEN a + 6 ELSE a) % 16, d |-> IF low THEN (d + 1) % 256 ELSE d]
      /\ e.op = "AAS" /\ o.res = "ok" =>
           o.regs = [a |-> (IF low THEN a - 6 ELSE a) % 16, d |-> IF low THEN (d - 1) % 256 ELSE d]
      /\ e.op = "DAA" /\ o.res = "ok" =>
           /\ o.regs.a = (a + (IF low THEN 6 ELSE 0) + (IF high THEN 96 ELSE 0)) % 256
           /\ "CF" \in o.flags <=> high
      /\ e.op = "DAS" /\ o.res = "ok" =>
           /\ o.regs.a = (a - (IF low THEN 6 ELSE 0) - (IF high THEN 96 ELSE 0)) % 256
           /\ "CF" \in o.flags <=> high \/ (low /\ a < 6)
      /\ e.op = "AAM" /\ o.res = "ok" => e.src > 0 /\ e.src < 256 /\ o.regs = [a |-> a % e.src, d |-> a \div e.src]
      /\ e.op = "AAD" /\ o.res = "ok" => o.regs = [a |-> (a + d * e.src) % 256, d |-> 0]

\* What the step e must have done to end in o.
Does(e, o) ==
  /\ o.res # "ok" => o.regs = e.regs
  /\ SumDone(e, o) /\ DifferenceDone(e, o) /\ BorrowDone(e, o) /\ StepDone(e, o) /\ ShiftDone(e, o)
  /\ ProductDone(e, o) /\ QuotientDone(e, o) /\ AdjustDone(e, o)

\* What the variables hold.
Typed ==
  /\ size \in Sizes /\ prog \in Seq(Instructions) /\ regs \in Registers /\ flags \in FlagSets
  /\ past \in Seq(Entries)

\* The state after step k, and every step described by it.
After(k) ==
  IF k = Len(past) THEN Outcome(regs, flags, res) ELSE Outcome(past[k + 1].regs, past[k + 1].flags, "ok")
Followed == (res # "ok" => past # <<>>) /\ \A k \in 1 .. Len(past) : Does(past[k], After(k))

\* Nothing in it looks at more than the size of the operands.
LEMMA SameMeaning ==
  ASSUME size' = size, NEW e, NEW o
  PROVE  /\ Registers' = Registers /\ Entries' = Entries
         /\ Does(e, o) => Does(e, o)'
<1>1. Mod' = Mod /\ Sign' = Sign /\ Width' = Width
  BY DEF Mod, Sign, Width
<1>2. Registers' = Registers /\ Entries' = Entries
  BY <1>1 DEF Registers, Numbers, Entries, FlagSets
<1>3. Numbers' = Numbers /\ (\A x : Signed(x)' = Signed(x)) /\ (\A r : Wide(r)' = Wide(r)) /\ (\A r : SignedWide(r)' = SignedWide(r))
      /\ (\A v, fl, i : RingBit(v, fl, i)' = RingBit(v, fl, i))
  BY <1>1 DEF Numbers, Signed, Wide, SignedWide, RingBit
<1>4. SumDone(e, o) => SumDone(e, o)'
  BY <1>1, <1>3 DEF SumDone
<1>5. DifferenceDone(e, o) => DifferenceDone(e, o)'
  BY <1>1, <1>3 DEF DifferenceDone
<1>6. BorrowDone(e, o) => BorrowDone(e, o)'
  BY <1>1, <1>3 DEF BorrowDone
<1>7. StepDone(e, o) => StepDone(e, o)'
  BY <1>1, <1>3 DEF StepDone
<1>8. ShiftDone(e, o) => ShiftDone(e, o)'
  BY <1>1, <1>3 DEF ShiftDone
<1>9. ProductDone(e, o) => ProductDone(e, o)'
  BY <1>1, <1>3 DEF ProductDone
<1>10. QuotientDone(e, o) => QuotientDone(e, o)'
  BY <1>1, <1>3 DEF QuotientDone
<1>11. AdjustDone(e, o) => AdjustDone(e, o)'
  BY <1>1, <1>3 DEF AdjustDone
<1> QED
  BY <1>2, <1>4, <1>5, <1>6, <1>7, <1>8, <1>9, <1>10, <1>11 DEF Does

\* The invariant holds at the start.
LEMMA InvInit ==
  ASSUME Init
  PROVE  Typed /\ Followed
<1>1. size \in Sizes /\ prog \in Seq(Instructions) /\ past = <<>>
  BY AluAssumption DEF Init, AluAssumption
<1>2. Operands[size] \subseteq Numbers
  BY <1>1, AluAssumption DEF AluAssumption, Numbers, Mod, Width
<1>3. regs \in Registers
  BY <1>2 DEF Init, Registers
<1>4. flags \in FlagSets
  BY DEF Init, FlagSets, FlagNames
<1>5. past \in Seq(Entries) /\ Len(past) = 0
  BY <1>1, EmptySeq
<1>6. res = "ok"
  BY DEF Init
<1> QED
  BY <1>1, <1>3, <1>4, <1>5, <1>6 DEF Typed, Followed

\* What Append makes of the history.
EntryOf(src) ==
  [op |-> Current.op, to |-> Current.to, typed |-> Current.typed, src |-> src, regs |-> regs, flags |-> flags]

\* The instruction at hand, its operand, the entry it leaves and where its result goes have their types.
LEMMA CurrentIs ==
  ASSUME Typed, prog # <<>>
  PROVE  /\ Current \in Instructions /\ Current.to \in {"a", "d"} /\ Current.typed \in BOOLEAN
         /\ Dest \in Numbers /\ regs.a \in Numbers /\ regs.d \in Numbers /\ Tail(prog) \in Seq(Instructions)
         /\ \A src : /\ EntryOf(src).op = Current.op /\ EntryOf(src).to = Current.to
                     /\ EntryOf(src).typed = Current.typed /\ EntryOf(src).src = src
                     /\ EntryOf(src).regs = regs /\ EntryOf(src).flags = flags
                     /\ Old(EntryOf(src)) = Dest
         /\ \A src \in Nat : EntryOf(src) \in Entries
         /\ \A v \in Numbers : /\ [regs EXCEPT ![Current.to] = v] \in Registers
                               /\ [regs EXCEPT ![Current.to] = v][Current.to] = v
                               /\ \A src : With(EntryOf(src), v) = [regs EXCEPT ![Current.to] = v]
<1>1. Current \in Instructions /\ Tail(prog) \in Seq(Instructions)
  <2>1. prog \in Seq(Instructions) /\ prog # <<>>
    BY DEF Typed
  <2> QED
    BY <2>1, HeadTailProperties DEF Current
<1>2. Current.to \in {"a", "d"} /\ Current.typed \in BOOLEAN /\ Current.op \in STRING
  BY <1>1 DEF Instructions
<1>3. regs \in Registers /\ flags \in FlagSets
  BY DEF Typed
<1>4. regs.a \in Numbers /\ regs.d \in Numbers /\ regs = [a |-> regs.a, d |-> regs.d]
  BY <1>3 DEF Registers
<1>5. Dest \in Numbers
  BY <1>2, <1>3 DEF Dest, Registers
<1>6. \A src : /\ EntryOf(src).op = Current.op /\ EntryOf(src).to = Current.to
               /\ EntryOf(src).typed = Current.typed /\ EntryOf(src).src = src
               /\ EntryOf(src).regs = regs /\ EntryOf(src).flags = flags
  BY DEF EntryOf
<1>7. \A src : Old(EntryOf(src)) = Dest
  BY <1>6 DEF Old, Dest
<1>8. \A src \in Nat : EntryOf(src) \in Entries
  BY <1>2, <1>3 DEF EntryOf, Entries
<1>9. ASSUME NEW v \in Numbers
      PROVE  /\ [regs EXCEPT ![Current.to] = v] \in Registers
             /\ [regs EXCEPT ![Current.to] = v][Current.to] = v
             /\ \A src : With(EntryOf(src), v) = [regs EXCEPT ![Current.to] = v]
  <2>1. [regs EXCEPT ![Current.to] = v] \in Registers /\ [regs EXCEPT ![Current.to] = v][Current.to] = v
    BY <1>2, <1>3 DEF Registers
  <2>2. \A src : With(EntryOf(src), v) = [regs EXCEPT ![Current.to] = v]
    BY <1>6 DEF With
  <2> QED
    BY <2>1, <2>2
<1> QED
  BY <1>1, <1>2, <1>4, <1>5, <1>6, <1>7, <1>8, <1>9

\* A step that does what it should keeps the invariant.
LEMMA StepKeeps ==
  ASSUME Typed, Followed, res = "ok", prog # <<>>, NEW src \in Nat, NEW r \in Registers, NEW fl \in FlagSets, NEW x,
         Done(src, r, fl, x), Does(EntryOf(src), Outcome(r, fl, x))
  PROVE  Typed' /\ Followed'
<1> DEFINE n == Len(past)
           e == EntryOf(src)
<1>1. size' = size /\ regs' = r /\ flags' = fl /\ res' = x /\ prog' = Tail(prog) /\ past' = Append(past, e)
  BY DEF Done, EntryOf
<1>2. e \in Entries /\ Tail(prog) \in Seq(Instructions) /\ e.regs = regs /\ e.flags = flags
  BY CurrentIs
<1> HIDE DEF e
<1>3. past \in Seq(Entries) /\ n \in Nat
  BY LenProperties DEF Typed
<1>4. /\ past' \in Seq(Entries) /\ Len(past') = n + 1
      /\ (\A k \in 1..n : past'[k] = past[k]) /\ past'[n + 1] = e
  BY <1>1, <1>2, <1>3, AppendProperties
<1>5. Registers' = Registers /\ Entries' = Entries /\ \A f, o : Does(f, o) => Does(f, o)'
  BY <1>1, SameMeaning
<1>6. Typed'
  BY <1>1, <1>2, <1>4, <1>5 DEF Typed, FlagSets
<1>7. ASSUME NEW k \in 1 .. n + 1 PROVE Does(past[k], After(k))'
  <2>1. CASE k = n + 1
    <3>1. After(k)' = Outcome(r, fl, x)
      BY <1>1, <1>4, <2>1 DEF After, Outcome
    <3>2. (past[k])' = e
      BY <1>4, <2>1
    <3>3. \A f, o : f = (past[k])' /\ o = After(k)' /\ Does(f, o)' => Does(past[k], After(k))'
      OBVIOUS
    <3>4. Does(e, Outcome(r, fl, x))
      BY DEF e
    <3> QED
      BY <1>5, <3>1, <3>2, <3>3, <3>4
  <2>2. CASE k # n + 1
    <3>1. k \in 1..n
      BY <1>3, <2>2
    <3>2. Does(past[k], After(k))
      BY <3>1 DEF Followed
    <3>3. After(k)' = After(k)
      <4>1. CASE k = n
        <5>1. k # Len(past') /\ k + 1 = n + 1 /\ k = Len(past)
          BY <1>3, <1>4, <4>1
        <5>2. After(k)' = Outcome(past'[k + 1].regs, past'[k + 1].flags, "ok")
          BY <5>1 DEF After, Outcome
        <5>3. past'[k + 1] = e
          BY <1>4, <5>1
        <5> QED
          BY <1>2, <5>1, <5>2, <5>3 DEF After
      <4>2. CASE k # n
        <5>1. k # Len(past') /\ k + 1 \in 1..n /\ k # Len(past)
          BY <1>3, <1>4, <3>1, <4>2
        <5>2. past'[k + 1] = past[k + 1]
          BY <1>4, <5>1
        <5> QED
          BY <5>1, <5>2 DEF After, Outcome
      <4> QED
        BY <4>1, <4>2
    <3>4. (past[k])' = past[k]
      BY <1>4, <3>1
    <3>5. \A f, o : f = (past[k])' /\ o = After(k)' /\ Does(f, o)' => Does(past[k], After(k))'
      OBVIOUS
    <3> QED
      BY <1>5, <3>2, <3>3, <3>4, <3>5
  <2> QED
    BY <2>1, <2>2
<1>8. Followed'
  <2>1. past' # <<>>
    BY <1>3, <1>4, EmptySeq
  <2> QED
    BY <1>4, <1>7, <2>1 DEF Followed
<1> QED
  BY <1>6, <1>8

-----------------------------------------------------------------------------
(* Two operands.                                                           *)

\* What Add and Adc compute.
SumIs(o, l, r, c, typed) ==
  /\ IsResult(o) /\ o.v = (l + r + c) % Mod
  /\ "CF" \in o.fl <=> l + r + c > Mod - 1
  /\ "AF" \in o.fl <=> (l % 16) + (r % 16) + c > 15
  /\ typed \/ size = "D" => ("OF" \in o.fl <=> SumOutOf(-Sign, Sign - 1, Signed(l) + Signed(r) + c))

\* ADD and ADC yield such a sum.
LEMMA SumsAre ==
  ASSUME size \in Sizes, NEW l \in Numbers, NEW r \in Numbers, NEW fl \in FlagSets, NEW typed \in BOOLEAN
  PROVE  /\ SumIs(Add(l, r, fl, typed), l, r, 0, typed)
         /\ SumIs(Adc(l, r, fl, typed), l, r, Carry(fl), typed)
<1>1. Mod \in Nat /\ Sign \in Nat /\ Span(Mod, Sign) /\ l \in 0 .. Mod - 1 /\ r \in 0 .. Mod - 1 /\ l \in Int /\ r \in Int
  BY SpanIs DEF Numbers
<1>2. Carry(fl) \in 0..1 /\ 0 \in 0..1
  BY DEF Carry
<1>3. fl \ FlagNames \in FlagSets /\ \A f \in FlagNames : f \notin fl \ FlagNames
  BY DEF FlagSets
<1>4. "CF" \in FlagNames /\ "AF" \in FlagNames /\ "OF" \in FlagNames
  BY DEF FlagNames
<1>5. ASSUME NEW c \in 0..1, NEW v, v = (l + r + c) % Mod
      PROVE  LET new == AddFlags(fl \ FlagNames, v, l, r, typed)
             IN  /\ v \in Numbers /\ new \in FlagSets
                 /\ "CF" \in new <=> l + r + c > Mod - 1
                 /\ "AF" \in new <=> (l % 16) + (r % 16) + c > 15
                 /\ typed \/ size = "D" => ("OF" \in new <=> SumOutOf(-Sign, Sign - 1, Signed(l) + Signed(r) + c))
                 /\ l # 0 /\ v = r => l + r + c > Mod - 1
  <2>1. CarriesAre(l, r, c, v, Mod, Sign)
    BY <1>1, <1>5, CarriesOfSum
  <2>2. v \in Numbers
    BY <2>1 DEF CarriesAre, Numbers
  <2> DEFINE new == AddFlags(fl \ FlagNames, v, l, r, typed)
  <2>3. new \in FlagSets /\ AddFlagsAre(new, fl \ FlagNames, v, l, r, typed)
    BY <1>3, <2>2, AddFlagsIs
  <2>4. Signed(l) = AsSigned(l, Mod, Sign) /\ Signed(r) = AsSigned(r, Mod, Sign)
    BY DEF Signed, AsSigned
  <2> HIDE DEF new
  <2>5. /\ "CF" \in new <=> (IF l # 0 THEN v <= r ELSE v < r)
        /\ "AF" \in new <=> (IF l % 16 # 0 THEN v % 16 <= r % 16 ELSE v % 16 < r % 16)
        /\ typed \/ size = "D" =>
             ("OF" \in new <=> ((l >= Sign <=> r >= Sign) /\ ~(v >= Sign <=> l >= Sign)))
    BY <1>3, <1>4, <2>3, Zenon DEF AddFlagsAre
  <2>6. "CF" \in new <=> l + r + c > Mod - 1
    BY <2>1, <2>5, Zenon DEF CarriesAre
  <2>7. "AF" \in new <=> (l % 16) + (r % 16) + c > 15
    BY <2>1, <2>5, Zenon DEF CarriesAre
  <2>8. typed \/ size = "D" => ("OF" \in new <=> SumOutOf(-Sign, Sign - 1, Signed(l) + Signed(r) + c))
    BY <2>1, <2>4, <2>5, Zenon DEF CarriesAre
  <2>9. l # 0 /\ v = r => l + r + c > Mod - 1
    BY <2>1 DEF CarriesAre
  <2> QED
    BY <2>2, <2>3, <2>6, <2>7, <2>8, <2>9 DEF new
<1>6. SumIs(Add(l, r, fl, typed), l, r, 0, typed)
  <2> DEFINE v == (l + r) % Mod
             new == AddFlags(fl \ FlagNames, v, l, r, typed)
  <2>1. Add(l, r, fl, typed) = [v |-> v, fl |-> new]
    BY DEF Add
  <2>2. v = (l + r + 0) % Mod
    BY <1>1
  <2>3. /\ v \in Numbers /\ new \in FlagSets
        /\ "CF" \in new <=> l + r + 0 > Mod - 1
        /\ "AF" \in new <=> (l % 16) + (r % 16) + 0 > 15
        /\ typed \/ size = "D" => ("OF" \in new <=> SumOutOf(-Sign, Sign - 1, Signed(l) + Signed(r) + 0))
    <3> HIDE DEF v
    <3> QED
      BY <1>2, <1>5, <2>2
  <2> HIDE DEF v, new
  <2> QED
    BY <2>1, <2>2, <2>3 DEF SumIs, IsResult
<1>7. SumIs(Adc(l, r, fl, typed), l, r, Carry(fl), typed)
  <2> DEFINE c == Carry(fl)
             v == (l + r + c) % Mod
             new == AddFlags(fl \ FlagNames, v, l, r, typed)
             all == new \cup When(l # 0 /\ v = r, "CF")
  <2>1. Adc(l, r, fl, typed) = [v |-> v, fl |-> all]
    BY DEF Adc
  <2>2. /\ v \in Numbers /\ new \in FlagSets
        /\ "CF" \in new <=> l + r + c > Mod - 1
        /\ "AF" \in new <=> (l % 16) + (r % 16) + c > 15
        /\ typed \/ size = "D" => ("OF" \in new <=> SumOutOf(-Sign, Sign - 1, Signed(l) + Signed(r) + c))
        /\ l # 0 /\ v = r => l + r + c > Mod - 1
    <3>1. c \in 0..1
      BY <1>2
    <3> HIDE DEF c
    <3>2. v = (l + r + c) % Mod
      OBVIOUS
    <3> HIDE DEF v
    <3> QED
      BY <1>5, <3>1, <3>2
  <2> HIDE DEF new
  <2>3. \A f : f \in When(l # 0 /\ v = r, "CF") <=> (l # 0 /\ v = r) /\ f = "CF"
    BY WhenIs
  <2>4. /\ all \in FlagSets
        /\ "CF" \in all <=> "CF" \in new \/ (l # 0 /\ v = r)
        /\ "AF" \in all <=> "AF" \in new
        /\ "OF" \in all <=> "OF" \in new
    <3>1. \A f : f \in all <=> f \in new \/ ((l # 0 /\ v = r) /\ f = "CF")
      BY <2>3
    <3> HIDE DEF all, v
    <3>2. all \in FlagSets
      BY <2>2, <3>1 DEF FlagSets, FlagNames
    <3> QED
      BY <3>1, <3>2
  <2>5. v = (l + r + c) % Mod
    OBVIOUS
  <2> HIDE DEF v, all
  <2>6. /\ "CF" \in all <=> l + r + c > Mod - 1
        /\ "AF" \in all <=> (l % 16) + (r % 16) + c > 15
        /\ typed \/ size = "D" => ("OF" \in all <=> SumOutOf(-Sign, Sign - 1, Signed(l) + Signed(r) + c))
    BY <2>2, <2>4, Zenon
  <2> QED
    BY <2>1, <2>2, <2>4, <2>5, <2>6 DEF SumIs, IsResult
<1> QED
  BY <1>6, <1>7

\* What Sub and Sbb compute.
DifferenceIs(o, l, r) ==
  /\ IsResult(o) /\ o.v = (l - r) % Mod
  /\ "CF" \in o.fl <=> l < r
  /\ "AF" \in o.fl <=> l % 16 < r % 16
  /\ "OF" \in o.fl <=> SumOutOf(-Sign, Sign - 1, Signed(l) - Signed(r))
BorrowIs(o, l, r, c) ==
  /\ IsResult(o) /\ o.v = (l - r - c) % Mod
  /\ ~(size = "D" /\ r = Mod - 1 /\ c = 1) => ("CF" \in o.fl <=> l < r + c)
  /\ size # "D" => ("AF" \in o.fl <=> (r + c) % 16 < c \/ l % 16 < ((r + c) % 16) - c)

\* SUB and CMP yield such a difference, and SBB such a borrow.
LEMMA DifferencesAre ==
  ASSUME size \in Sizes, NEW l \in Numbers, NEW r \in Numbers, NEW fl \in FlagSets
  PROVE  /\ DifferenceIs(Sub(l, r, fl), l, r)
         /\ BorrowIs(Sbb(l, r, fl), l, r, Carry(fl))
<1>1. /\ Mod \in Nat /\ Mod > 0 /\ Sign \in Nat /\ Span(Mod, Sign) /\ l \in 0 .. Mod - 1 /\ r \in 0 .. Mod - 1
      /\ l \in Int /\ r \in Nat
  BY SpanIs DEF Numbers
<1>2. Carry(fl) \in 0..1 /\ 0 \in 0..1
  BY DEF Carry
<1>3. fl \ FlagNames \in FlagSets /\ fl \ {"OF", "CF", "AF"} \in FlagSets /\ \A f \in FlagNames : f \notin fl \ FlagNames
  BY DEF FlagSets
<1>4. "CF" \in FlagNames /\ "AF" \in FlagNames /\ "OF" \in FlagNames
  BY DEF FlagNames
<1>5. DifferenceIs(Sub(l, r, fl), l, r)
  <2> DEFINE v == (l - r) % Mod
             new == SubFlags(fl \ FlagNames, v, l, r, 0)
  <2>1. Sub(l, r, fl) = [v |-> v, fl |-> new] /\ v = (l - r) % Mod
    BY DEF Sub
  <2> HIDE DEF v
  <2>2. BorrowsAre(l, r, v, Mod, Sign)
    BY <1>1, <2>1, BorrowsOfDifference
  <2>3. v \in Numbers
    BY <2>2 DEF BorrowsAre, Numbers
  <2>4. /\ new \in FlagSets /\ SubFlagsAre(new, fl \ FlagNames, v, l, r, 0)
        /\ "OF" \in new <=>
                 "OF" \in fl \ FlagNames \/ (~(l >= Sign <=> r >= Sign) /\ ~(l >= Sign <=> v >= Sign))
    BY <1>1, <1>2, <1>3, <2>3, SubFlagsIs
  <2>5. Signed(l) = AsSigned(l, Mod, Sign) /\ Signed(r) = AsSigned(r, Mod, Sign)
    BY DEF Signed, AsSigned
  <2> HIDE DEF new
  <2>6. /\ "CF" \in new <=> l < r
        /\ "AF" \in new <=> r % 16 < 0 \/ l % 16 < (r % 16) - 0
        /\ "OF" \in new <=> (~(l >= Sign <=> r >= Sign) /\ ~(l >= Sign <=> v >= Sign))
    BY <1>3, <1>4, <2>4, Zenon DEF SubFlagsAre
  <2>7. r % 16 < 0 \/ l % 16 < (r % 16) - 0 <=> l % 16 < r % 16
    BY <1>1
  <2>8. "AF" \in new <=> l % 16 < r % 16
    BY <2>6, <2>7, Zenon
  <2>9. "OF" \in new <=> SumOutOf(-Sign, Sign - 1, Signed(l) - Signed(r))
    BY <2>2, <2>5, <2>6, Zenon DEF BorrowsAre
  <2> QED
    BY <2>1, <2>3, <2>4, <2>6, <2>8, <2>9 DEF DifferenceIs, IsResult
<1>6. BorrowIs(Sbb(l, r, fl), l, r, Carry(fl))
  <2> DEFINE c == Carry(fl)
             rc == IF size = "D" THEN (r + c) % Mod ELSE r + c
             v == (l - rc) % Mod
             new == SubFlags(fl \ {"OF", "CF", "AF"}, v, l, rc, c)
  <2>1. Sbb(l, r, fl) = [v |-> v, fl |-> new]
    BY DEF Sbb
  <2>2. c \in 0..1 /\ c = Carry(fl)
    BY <1>2
  <2> HIDE DEF c
  <2>3. r + c \in Nat /\ r + c <= Mod
    BY <1>1, <2>2
  <2>4. r + c < Mod => (r + c) % Mod = r + c
    BY <1>1, <2>3, WrapsOnce
  <2>5. r + c = Mod => (r + c) % Mod = 0
    <3>1. r + c = Mod => (r + c) % Mod = (r + c) - Mod
      BY <1>1, <2>3, WrapsOnce
    <3> QED
      BY <1>1, <3>1
  <2>6. /\ rc \in Nat /\ (rc = r + c \/ (size = "D" /\ rc = 0 /\ r + c = Mod))
        /\ size # "D" => rc = r + c
    BY <1>1, <2>3, <2>4, <2>5
  <2>7. v = (l - rc) % Mod
    OBVIOUS
  <2> HIDE DEF rc
  <2>8. v = (l - r - c) % Mod
    <3>1. CASE rc = r + c
      <4>1. l - rc = l - r - c
        BY <1>1, <2>2, <3>1
      <4> QED
        BY <2>7, <4>1
    <3>2. CASE size = "D" /\ rc = 0 /\ r + c = Mod
      <4>1. l - rc = l /\ l - r - c = l - Mod /\ 0 <= l /\ l < Mod /\ l - Mod \in Int /\ -Mod <= l - Mod /\ l - Mod < 0
            /\ (l - Mod) + Mod = l
        BY <1>1, <2>2, <3>2
      <4>2. l % Mod = l /\ (l - Mod) % Mod = (l - Mod) + Mod
        BY <1>1, <4>1, WrapsOnce
      <4> QED
        BY <2>7, <4>1, <4>2
    <3> QED
      BY <2>6, <3>1, <3>2
  <2>9. v \in Numbers
    <3>1. l - r - c \in Int
      BY <1>1, <2>2
    <3> QED
      BY <2>8, <3>1, ModType
  <2> HIDE DEF v
  <2>10. new \in FlagSets /\ SubFlagsAre(new, fl \ {"OF", "CF", "AF"}, v, l, rc, c)
    BY <1>3, <2>2, <2>6, <2>9, SubFlagsIs
  <2> HIDE DEF new
  <2>11. "CF" \in new <=> l < rc
    BY <2>10 DEF SubFlagsAre
  <2>12. "AF" \in new <=> rc % 16 < c \/ l % 16 < (rc % 16) - c
    BY <2>10 DEF SubFlagsAre
  <2>13. ~(size = "D" /\ r = Mod - 1 /\ c = 1) => ("CF" \in new <=> l < r + c)
    <3>1. ~(size = "D" /\ r = Mod - 1 /\ c = 1) => rc = r + c
      BY <1>1, <2>2, <2>6
    <3> QED
      BY <2>11, <3>1, Zenon
  <2>14. size # "D" => ("AF" \in new <=> (r + c) % 16 < c \/ l % 16 < ((r + c) % 16) - c)
    BY <2>6, <2>12, Zenon
  <2> QED
    BY <2>1, <2>2, <2>8, <2>9, <2>10, <2>13, <2>14 DEF BorrowIs, IsResult
<1> QED
  BY <1>5, <1>6

\* Every instruction with two operands yields a number and a set of flags.
LEMMA BinaryType ==
  ASSUME size \in Sizes, NEW l \in Numbers, NEW r \in Numbers, NEW fl \in FlagSets, NEW typed \in BOOLEAN,
         NEW op \in BinaryOps
  PROVE  IsResult(Binary(op, l, r, fl, typed))
<1>1. IsResult(Add(l, r, fl, typed)) /\ IsResult(Adc(l, r, fl, typed))
  BY SumsAre DEF SumIs
<1>2. IsResult(Sub(l, r, fl)) /\ IsResult(Sbb(l, r, fl))
  BY DifferencesAre DEF DifferenceIs, BorrowIs
<1>3. \A v \in Numbers : IsResult(Logic(v, fl))
  BY DEF Logic, IsResult, FlagSets
<1>4. Or(l, r) \in Numbers /\ And(l, r) \in Numbers /\ Xor(l, r) \in Numbers
  BY BitOpsAre
<1>5. IsResult(Logic(Or(l, r), fl)) /\ IsResult(Logic(And(l, r), fl)) /\ IsResult(Logic(Xor(l, r), fl))
  BY <1>3, <1>4
<1> QED
  BY <1>1, <1>2, <1>5 DEF Binary, BinaryOps

-----------------------------------------------------------------------------
(* Steps.                                                                  *)

Watched ==
  BinaryOps \cup ShiftOps
    \cup {"INC", "DEC", "MUL", "IMUL", "IMUL2", "IMULI", "DIV", "IDIV", "AAA", "AAS", "DAA", "DAS", "AAM", "AAD"}

\* Each part of the invariant is about some instructions, and most about those that succeed.
LEMMA Elsewhere ==
  ASSUME NEW e, NEW o
  PROVE  /\ e.op \notin {"ADD", "ADC"} \/ o.res # "ok" => SumDone(e, o)
         /\ e.op \notin {"SUB", "CMP"} \/ o.res # "ok" => DifferenceDone(e, o)
         /\ e.op # "SBB" \/ o.res # "ok" => BorrowDone(e, o)
         /\ e.op \notin {"INC", "DEC"} \/ o.res # "ok" => StepDone(e, o)
         /\ e.op \notin ShiftOps \/ o.res # "ok" => ShiftDone(e, o)
         /\ e.op \notin {"MUL", "IMUL", "IMUL2", "IMULI"} \/ o.res # "ok" => ProductDone(e, o)
         /\ e.op \notin {"DIV", "IDIV"} => QuotientDone(e, o)
         /\ e.op \notin {"AAA", "AAS", "DAA", "DAS", "AAM", "AAD"} \/ o.res # "ok" => AdjustDone(e, o)
<1>1. /\ e.op \notin {"ADD", "ADC"} \/ o.res # "ok" => SumDone(e, o)
      /\ e.op \notin {"SUB", "CMP"} \/ o.res # "ok" => DifferenceDone(e, o)
      /\ e.op # "SBB" \/ o.res # "ok" => BorrowDone(e, o)
      /\ e.op \notin {"INC", "DEC"} \/ o.res # "ok" => StepDone(e, o)
  BY Zenon DEF SumDone, DifferenceDone, BorrowDone, StepDone
<1>2. /\ e.op \notin ShiftOps \/ o.res # "ok" => ShiftDone(e, o)
      /\ e.op \notin {"DIV", "IDIV"} => QuotientDone(e, o)
  BY Zenon DEF ShiftDone, QuotientDone
<1>3. e.op \notin {"MUL", "IMUL", "IMUL2", "IMULI"} \/ o.res # "ok" => ProductDone(e, o)
  BY DEF ProductDone
<1>4. e.op \notin {"AAA", "AAS", "DAA", "DAS", "AAM", "AAD"} \/ o.res # "ok" => AdjustDone(e, o)
  BY DEF AdjustDone
<1> QED
  BY <1>1, <1>2, <1>3, <1>4

\* An outcome has the fields it was made of.
LEMMA OutcomeIs ==
  ASSUME NEW r, NEW fl, NEW x
  PROVE  Outcome(r, fl, x).regs = r /\ Outcome(r, fl, x).flags = fl /\ Outcome(r, fl, x).res = x
BY DEF Outcome

\* A step that fails leaves the registers, and keeps the invariant.
LEMMA FailureKeeps ==
  ASSUME Typed, Followed, res = "ok", prog # <<>>, NEW src \in Nat, NEW fl \in FlagSets, NEW x,
         Done(src, regs, fl, x), x # "ok", Current.op \notin {"DIV", "IDIV"}
  PROVE  Typed' /\ Followed'
<1> DEFINE e == EntryOf(src)
           o == Outcome(regs, fl, x)
<1>1. e.op = Current.op /\ e.regs = regs
  BY CurrentIs
<1>2. o.regs = regs /\ o.res = x
  BY OutcomeIs
<1> HIDE DEF e, o
<1>3. Does(e, o)
  BY <1>1, <1>2, Elsewhere DEF Does
<1>4. regs \in Registers
  BY DEF Typed
<1> QED
  BY <1>3, <1>4, StepKeeps DEF e, o

\* So does one of an instruction that nothing is claimed of.
LEMMA OtherKeeps ==
  ASSUME Typed, Followed, res = "ok", prog # <<>>, NEW src \in Nat, NEW r \in Registers, NEW fl \in FlagSets, NEW x,
         Done(src, r, fl, x), x # "ok" => r = regs, Current.op \notin Watched
  PROVE  Typed' /\ Followed'
<1> DEFINE e == EntryOf(src)
           o == Outcome(r, fl, x)
<1>1. e.op = Current.op /\ e.regs = regs
  BY CurrentIs
<1>2. o.regs = r /\ o.res = x
  BY OutcomeIs
<1> HIDE DEF e, o
<1>3. Does(e, o)
  <2>1. /\ e.op \notin ShiftOps /\ e.op \notin {"ADD", "ADC"} /\ e.op \notin {"SUB", "CMP"} /\ e.op # "SBB"
        /\ e.op \notin {"INC", "DEC"} /\ e.op \notin {"MUL", "IMUL", "IMUL2", "IMULI"} /\ e.op \notin {"DIV", "IDIV"}
        /\ e.op \notin {"AAA", "AAS", "DAA", "DAS", "AAM", "AAD"}
    BY <1>1 DEF Watched, BinaryOps
  <2> QED
    BY <1>1, <1>2, <2>1, Elsewhere DEF Does
<1> QED
  BY <1>3, StepKeeps DEF e, o

\* A result that is right keeps the invariant, written or not.
LEMMA WriteBackKeeps ==
  ASSUME Typed, Followed, res = "ok", prog # <<>>, NEW src \in Nat, NEW outs, WriteBack(src, outs),
         Current.op \notin {"DIV", "IDIV"},
         \A o \in outs : /\ IsResult(o)
                         /\ Does(EntryOf(src), Outcome([regs EXCEPT ![Current.to] = o.v], o.fl, "ok"))
  PROVE  Typed' /\ Followed'
<1>1. PICK o \in outs : \/ Done(src, [regs EXCEPT ![Current.to] = o.v], o.fl, "ok")
                        \/ Done(src, regs, o.fl, "badmem")
  BY DEF WriteBack
<1>2. o.v \in Numbers /\ o.fl \in FlagSets
  BY DEF IsResult
<1>3. CASE Done(src, [regs EXCEPT ![Current.to] = o.v], o.fl, "ok")
  <2> DEFINE r == [regs EXCEPT ![Current.to] = o.v]
  <2>1. r \in Registers
    BY <1>2, CurrentIs
  <2>2. Done(src, r, o.fl, "ok") /\ Does(EntryOf(src), Outcome(r, o.fl, "ok"))
    BY <1>3
  <2> HIDE DEF r
  <2> QED
    BY <1>2, <2>1, <2>2, StepKeeps
<1>4. CASE Done(src, regs, o.fl, "badmem")
  BY <1>2, <1>4, FailureKeeps
<1> QED
  BY <1>1, <1>3, <1>4

\* An instruction with two operands does what it should.
LEMMA BinaryDoes ==
  ASSUME size \in Sizes, NEW e, NEW o, NEW b, e.op \in BinaryOps, e.src \in Numbers, Old(e) \in Numbers,
         e.flags \in FlagSets, e.typed \in BOOLEAN, b = Binary(e.op, Old(e), e.src, e.flags, e.typed),
         o.res = "ok", o.flags = SetCommFlags(b.fl, b.v), e.op \notin {"CMP", "TEST"} => o.regs = With(e, b.v)
  PROVE  Does(e, o)
<1> DEFINE l == Old(e)
           r == e.src
           fl == e.flags
<1>1. l \in Numbers /\ r \in Numbers /\ fl \in FlagSets /\ l = Old(e) /\ r = e.src /\ fl = e.flags
  OBVIOUS
<1>2. b = Binary(e.op, l, r, fl, e.typed)
  OBVIOUS
<1> HIDE DEF l, r, fl
<1>3. b.v \in Numbers /\ b.fl \in FlagSets
  BY <1>1, <1>2, BinaryType DEF IsResult
<1>4. /\ "ZF" \in o.flags <=> b.v = 0
      /\ "SF" \in o.flags <=> b.v >= Sign
      /\ "CF" \in o.flags <=> "CF" \in b.fl
      /\ "AF" \in o.flags <=> "AF" \in b.fl
      /\ "OF" \in o.flags <=> "OF" \in b.fl
  BY <1>3, CommFlagsAre
<1>5. ASSUME e.op \in {"ADD", "ADC"} PROVE SumDone(e, o)
  <2> DEFINE c == IF e.op = "ADC" THEN Carry(fl) ELSE 0
  <2>1. SumIs(b, l, r, c, e.typed)
    <3>1. CASE e.op = "ADD"
      <4>1. b = Add(l, r, fl, e.typed) /\ c = 0
        BY <1>2, <3>1 DEF Binary
      <4> QED
        BY <1>1, <4>1, SumsAre
    <3>2. CASE e.op = "ADC"
      <4>1. b = Adc(l, r, fl, e.typed) /\ c = Carry(fl)
        BY <1>2, <3>2 DEF Binary
      <4> QED
        BY <1>1, <4>1, SumsAre
    <3> QED
      BY <1>5, <3>1, <3>2
  <2>2. o.regs = With(e, b.v)
    BY <1>5
  <2>3. c = IF e.op = "ADC" THEN Carry(e.flags) ELSE 0
    BY <1>1
  <2> HIDE DEF c
  <2>4. /\ b.v = (l + r + c) % Mod
        /\ "CF" \in o.flags <=> l + r + c > Mod - 1
        /\ "AF" \in o.flags <=> (l % 16) + (r % 16) + c > 15
        /\ e.typed \/ size = "D" => ("OF" \in o.flags <=> SumOutOf(-Sign, Sign - 1, Signed(l) + Signed(r) + c))
    BY <1>4, <2>1, Zenon DEF SumIs
  <2> QED
    BY <1>1, <1>4, <2>2, <2>3, <2>4 DEF SumDone
<1>6. ASSUME e.op \in {"SUB", "CMP"} PROVE DifferenceDone(e, o)
  <2>1. DifferenceIs(b, l, r)
    <3>1. b = Sub(l, r, fl)
      BY <1>2, <1>6 DEF Binary
    <3> QED
      BY <1>1, <3>1, DifferencesAre
  <2>2. /\ b.v = (l - r) % Mod
        /\ "CF" \in o.flags <=> l < r
        /\ "AF" \in o.flags <=> l % 16 < r % 16
        /\ "OF" \in o.flags <=> SumOutOf(-Sign, Sign - 1, Signed(l) - Signed(r))
    BY <1>4, <2>1, Zenon DEF DifferenceIs
  <2>3. BorrowsAre(l, r, b.v, Mod, Sign)
    <3>1. Mod \in Nat /\ Sign \in Nat /\ Span(Mod, Sign) /\ l \in 0 .. Mod - 1 /\ r \in 0 .. Mod - 1
      BY <1>1, SpanIs DEF Numbers
    <3> QED
      BY <2>2, <3>1, BorrowsOfDifference
  <2>4. Signed(l) = AsSigned(l, Mod, Sign) /\ Signed(r) = AsSigned(r, Mod, Sign)
    BY DEF Signed, AsSigned
  <2>5. /\ "ZF" \in o.flags <=> l = r
        /\ (b.v >= Sign <=> ~SumOutOf(-Sign, Sign - 1, Signed(l) - Signed(r))) <=> Signed(l) < Signed(r)
        /\ Signed(l) = Signed(r) <=> l = r
    BY <1>4, <2>3, <2>4, Zenon DEF BorrowsAre
  <2>6. (("SF" \in o.flags) # ("OF" \in o.flags)) <=> Signed(l) < Signed(r)
    <3>1. (("SF" \in o.flags) # ("OF" \in o.flags)) <=> ("SF" \in o.flags <=> ~("OF" \in o.flags))
      OBVIOUS
    <3> QED
      BY <1>4, <2>2, <2>5, <3>1, Zenon
  <2>7. e.op = "SUB" => o.regs = With(e, b.v)
    OBVIOUS
  <2> QED
    BY <1>1, <1>4, <2>2, <2>5, <2>6, <2>7 DEF DifferenceDone
<1>7. ASSUME e.op = "SBB" PROVE BorrowDone(e, o)
  <2>1. BorrowIs(b, l, r, Carry(fl))
    <3>1. b = Sbb(l, r, fl)
      BY <1>2, <1>7 DEF Binary
    <3> QED
      BY <1>1, <3>1, DifferencesAre
  <2>2. o.regs = With(e, b.v)
    BY <1>7
  <2> QED
    BY <1>1, <1>4, <2>1, <2>2 DEF BorrowIs, BorrowDone
<1>8. /\ e.op \notin ShiftOps /\ e.op \notin {"INC", "DEC"} /\ e.op \notin {"MUL", "IMUL", "IMUL2", "IMULI"}
      /\ e.op \notin {"DIV", "IDIV"} /\ e.op \notin {"AAA", "AAS", "DAA", "DAS", "AAM", "AAD"}
  BY DEF BinaryOps, ShiftOps
<1> QED
  BY <1>5, <1>6, <1>7, <1>8, Elsewhere DEF Does

\* SET_COMM_FLAGS on a result changes PF, ZF and SF alone.
LEMMA WithComm ==
  ASSUME NEW b, IsResult(b)
  PROVE  LET new == [b EXCEPT !.fl = SetCommFlags(@, b.v)]
         IN  IsResult(new) /\ new.v = b.v /\ new.fl = SetCommFlags(b.fl, b.v)
<1>1. b.v \in Numbers /\ b.fl \in FlagSets
  BY DEF IsResult
<1>2. SetCommFlags(b.fl, b.v) \in FlagSets
  BY <1>1, CommFlagsAre
<1> QED
  BY <1>1, <1>2 DEF IsResult

\* The operands are numbers.
LEMMA OperandsAre ==
  ASSUME Typed
  PROVE  /\ Operands[size] \subseteq Numbers /\ Numbers \subseteq Nat /\ 0 \in Numbers /\ size \in Sizes
         /\ flags \in FlagSets /\ regs \in Registers
<1>1. Operands[size] \subseteq Numbers
  BY AluAssumption DEF Typed, AluAssumption, Numbers, Mod, Width
<1>2. Numbers \subseteq Nat /\ 0 \in Numbers
  BY SpanIs DEF Typed, Numbers
<1> QED
  BY <1>1, <1>2 DEF Typed

\* ALU keeps the invariant: the result is what the instruction means, written back or not.
LEMMA ALUKeeps ==
  ASSUME Typed, Followed, ALU
  PROVE  Typed' /\ Followed'
<1>1. PICK src \in Operands[size] :
        LET o == Binary(Current.op, Dest, src, flags, Current.typed)
            new == [o EXCEPT !.fl = SetCommFlags(@, o.v)]
        IN  IF Current.op \in {"CMP", "TEST"} THEN Done(src, regs, new.fl, "ok")
            ELSE WriteBack(src, {new})
  BY DEF ALU
<1>2. res = "ok" /\ prog # <<>> /\ Current.op \in BinaryOps
  BY DEF ALU, Runs
<1>3. src \in Numbers /\ src \in Nat /\ size \in Sizes /\ flags \in FlagSets
  BY OperandsAre
<1>4. Dest \in Numbers /\ Current.typed \in BOOLEAN
  BY <1>2, CurrentIs
<1> DEFINE b == Binary(Current.op, Dest, src, flags, Current.typed)
           new == [b EXCEPT !.fl = SetCommFlags(@, b.v)]
           e == EntryOf(src)
<1>5. IsResult(b)
  BY <1>2, <1>3, <1>4, BinaryType
<1>6. IsResult(new) /\ new.v = b.v /\ new.fl = SetCommFlags(b.fl, b.v)
  <2> HIDE DEF b
  <2> QED
    BY <1>5, WithComm
<1>7. IF Current.op \in {"CMP", "TEST"} THEN Done(src, regs, new.fl, "ok") ELSE WriteBack(src, {new})
  BY <1>1
<1>8. /\ e.op = Current.op /\ e.src = src /\ Old(e) = Dest /\ e.flags = flags /\ e.typed = Current.typed
      /\ With(e, b.v) = [regs EXCEPT ![Current.to] = b.v]
  <2>1. b.v \in Numbers
    BY <1>5 DEF IsResult
  <2> HIDE DEF b
  <2> QED
    BY <1>2, <2>1, CurrentIs
<1>9. b = Binary(e.op, Old(e), e.src, e.flags, e.typed)
  BY <1>8
<1> HIDE DEF b, new, e
<1>10. new.v \in Numbers /\ new.fl \in FlagSets
  BY <1>6 DEF IsResult
<1>11. CASE Current.op \in {"CMP", "TEST"}
  <2> DEFINE o == Outcome(regs, new.fl, "ok")
  <2>1. o.regs = regs /\ o.flags = new.fl /\ o.res = "ok"
    BY OutcomeIs
  <2> HIDE DEF o
  <2>2. Does(e, o)
    BY <1>2, <1>3, <1>4, <1>6, <1>8, <1>9, <1>11, <2>1, BinaryDoes
  <2>3. Done(src, regs, new.fl, "ok") /\ regs \in Registers
    BY <1>7, <1>11, OperandsAre
  <2> QED
    BY <1>2, <1>3, <1>10, <2>2, <2>3, StepKeeps DEF e, o
<1>12. CASE Current.op \notin {"CMP", "TEST"}
  <2> DEFINE r == [regs EXCEPT ![Current.to] = new.v]
             o == Outcome(r, new.fl, "ok")
  <2>1. o.regs = r /\ o.flags = new.fl /\ o.res = "ok"
    BY OutcomeIs
  <2>2. r = With(e, b.v)
    BY <1>6, <1>8
  <2> HIDE DEF o, r
  <2>3. Does(e, o)
    BY <1>2, <1>3, <1>4, <1>6, <1>8, <1>9, <2>1, <2>2, BinaryDoes
  <2>4. \A p \in {new} : IsResult(p) /\ Does(EntryOf(src), Outcome([regs EXCEPT ![Current.to] = p.v], p.fl, "ok"))
    BY <1>6, <2>3 DEF e, o, r
  <2>5. WriteBack(src, {new}) /\ Current.op \notin {"DIV", "IDIV"}
    BY <1>2, <1>7, <1>12 DEF BinaryOps
  <2> QED
    BY <1>2, <1>3, <2>4, <2>5, WriteBackKeeps
<1> QED
  BY <1>11, <1>12

\* An operand that cannot be read changes nothing and keeps the invariant.
LEMMA ReadFailsKeeps ==
  ASSUME Typed, Followed, ReadFails
  PROVE  Typed' /\ Followed'
<1>1. PICK fl \in {flags} \cup (IF Current.typed \/ size = "B" THEN {} ELSE {flags \ {"OF", "ZF", "SF", "PF"}}) :
        Done(0, regs, fl, "badmem")
  BY DEF ReadFails
<1>2. res = "ok" /\ prog # <<>> /\ Current.op \in BinaryOps
  BY DEF ReadFails, Runs
<1>3. fl \in FlagSets
  BY OperandsAre DEF FlagSets
<1>4. Current.op \notin {"DIV", "IDIV"} /\ 0 \in Nat
  BY <1>2 DEF BinaryOps
<1> QED
  BY <1>1, <1>2, <1>3, <1>4, FailureKeeps

-----------------------------------------------------------------------------
(* One operand, and the small instructions.                                *)

\* What changes when a number is counted up or down by n.
CountsAre(l, n, v, m, s) ==
  /\ v \in 0 .. m - 1
  /\ n = 1 => /\ v % 16 = 0 <=> SumOutOf(0, 15, (l % 16) + n)
              /\ v = s <=> SumOutOf(-s, s - 1, AsSigned(l, m, s) + n)
  /\ n = -1 => /\ v % 16 = 15 <=> SumOutOf(0, 15, (l % 16) + n)
               /\ v + 1 = s <=> SumOutOf(-s, s - 1, AsSigned(l, m, s) + n)

\* INC and DEC can read those flags off the result, for every width.
LEMMA CountsBy ==
  ASSUME NEW m \in Nat, NEW s \in Nat, Span(m, s), NEW l \in 0 .. m - 1, NEW n \in {-1, 1}, NEW v, v = (l + n) % m
  PROVE  CountsAre(l, n, v, m, s)
<1>1. m = 2 * s /\ s >= 128 /\ l \in Nat /\ l < m /\ m > 0
  BY DEF Span
<1>2. PICK k \in Nat : s = 16 * k
  BY DEF Span
<1>3. CASE n = 1
  <2>1. v = IF l + 1 < m THEN l + 1 ELSE l + 1 - m
    <3>1. l + 1 \in Int /\ 0 <= l + 1 /\ l + 1 < 2 * m
      BY <1>1
    <3> QED
      BY <1>1, <1>3, <3>1, WrapsOnce
  <2>2. v \in 0 .. m - 1
    BY <1>1, <2>1
  <2>3. v % 16 = 0 <=> SumOutOf(0, 15, (l % 16) + 1)
    BY <1>1, <1>2, <2>1 DEF SumOutOf
  <2>4. v = s <=> SumOutOf(-s, s - 1, AsSigned(l, m, s) + 1)
    BY <1>1, <2>1 DEF SumOutOf, AsSigned
  <2> QED
    BY <1>3, <2>2, <2>3, <2>4 DEF CountsAre
<1>4. CASE n = -1
  <2>1. v = IF l = 0 THEN m - 1 ELSE l - 1
    <3>1. l - 1 \in Int /\ -m <= l - 1 /\ l - 1 < m /\ l + n = l - 1
      BY <1>1, <1>4
    <3> QED
      BY <1>1, <3>1, WrapsOnce
  <2>2. v \in 0 .. m - 1
    BY <1>1, <2>1
  <2>3. v % 16 = 15 <=> SumOutOf(0, 15, (l % 16) + n)
    <3>1. (l % 16) + n = (l % 16) - 1
      BY <1>1, <1>4
    <3>2. v % 16 = 15 <=> SumOutOf(0, 15, (l % 16) - 1)
      BY <1>1, <1>2, <2>1 DEF SumOutOf
    <3> QED
      BY <3>1, <3>2
  <2>4. v + 1 = s <=> SumOutOf(-s, s - 1, AsSigned(l, m, s) + n)
    BY <1>1, <1>4, <2>1 DEF SumOutOf, AsSigned
  <2> QED
    BY <1>4, <2>2, <2>3, <2>4 DEF CountsAre
<1> QED
  BY <1>3, <1>4

\* INC, DEC and NEG yield a number and flags, and INC and DEC the flags that are meant.
LEMMA UnaryIs ==
  ASSUME size \in Sizes, NEW l \in Numbers, NEW fl \in FlagSets, NEW op \in {"INC", "DEC", "NEG"}
  PROVE  LET b == Unary(op, l, fl)
             n == IF op = "INC" THEN 1 ELSE -1
         IN  /\ IsResult(b)
             /\ op # "NEG" => /\ b.v = (l + n) % Mod
                              /\ "CF" \in b.fl <=> "CF" \in fl
                              /\ "AF" \in b.fl <=> SumOutOf(0, 15, (l % 16) + n)
                              /\ "OF" \in b.fl <=> SumOutOf(-Sign, Sign - 1, Signed(l) + n)
<1>1. Mod \in Nat /\ Sign \in Nat /\ Span(Mod, Sign) /\ l \in 0 .. Mod - 1 /\ l \in Int
  BY SpanIs DEF Numbers
<1>2. Signed(l) = AsSigned(l, Mod, Sign)
  BY DEF Signed, AsSigned
<1>3. \A cond, flag : \A f : f \in When(cond, flag) <=> cond /\ f = flag
  BY WhenIs
<1>4. ASSUME NEW n \in {-1, 1}, NEW v, v = (l + n) % Mod, NEW over, NEW half
      PROVE  LET new == (fl \ {"OF", "AF"}) \cup When(over, "OF") \cup When(half, "AF")
             IN  /\ v \in Numbers /\ CountsAre(l, n, v, Mod, Sign) /\ new \in FlagSets
                 /\ "CF" \in new <=> "CF" \in fl
                 /\ "AF" \in new <=> half
                 /\ "OF" \in new <=> over
  <2> DEFINE new == (fl \ {"OF", "AF"}) \cup When(over, "OF") \cup When(half, "AF")
  <2>1. CountsAre(l, n, v, Mod, Sign)
    BY <1>1, <1>4, CountsBy
  <2>2. \A f : f \in new <=> f \in fl \ {"OF", "AF"} \/ (over /\ f = "OF") \/ (half /\ f = "AF")
    BY <1>3
  <2> HIDE DEF new
  <2>3. new \in FlagSets
    BY <2>2 DEF FlagSets, FlagNames
  <2>4. "CF" \in new <=> "CF" \in fl
    BY <2>2
  <2>5. "AF" \in new <=> half
    BY <2>2
  <2>6. "OF" \in new <=> over
    BY <2>2
  <2> QED
    BY <2>1, <2>3, <2>4, <2>5, <2>6 DEF CountsAre, Numbers, new
<1>5. CASE op = "INC"
  <2> DEFINE v == (l + 1) % Mod
             new == (fl \ {"OF", "AF"}) \cup When(v = Sign, "OF") \cup When(v % 16 = 0, "AF")
             b == Unary(op, l, fl)
  <2>1. b = [v |-> v, fl |-> new]
    BY <1>5 DEF Unary, Inc
  <2>2. v = (l + 1) % Mod
    OBVIOUS
  <2>3. /\ v \in Numbers /\ CountsAre(l, 1, v, Mod, Sign) /\ new \in FlagSets
        /\ "CF" \in new <=> "CF" \in fl
        /\ "AF" \in new <=> v % 16 = 0
        /\ "OF" \in new <=> v = Sign
    <3> HIDE DEF v
    <3> QED
      BY <1>4, <2>2
  <2> HIDE DEF v, new, b
  <2>4. /\ "AF" \in new <=> SumOutOf(0, 15, (l % 16) + 1)
        /\ "OF" \in new <=> SumOutOf(-Sign, Sign - 1, Signed(l) + 1)
    BY <1>2, <2>3, Zenon DEF CountsAre
  <2>5. IsResult(b) /\ b.v = v /\ b.fl = new
    BY <2>1, <2>3 DEF IsResult
  <2> QED
    BY <1>5, <2>2, <2>3, <2>4, <2>5 DEF b
<1>6. CASE op = "DEC"
  <2> DEFINE v == (l - 1) % Mod
             new == (fl \ {"OF", "AF"}) \cup When(v + 1 = Sign, "OF") \cup When(v % 16 = 15, "AF")
             b == Unary(op, l, fl)
  <2>1. b = [v |-> v, fl |-> new]
    BY <1>6 DEF Unary, Dec
  <2>2. v = (l + -1) % Mod
    <3>1. l - 1 = l + -1
      BY <1>1
    <3> QED
      BY <3>1
  <2>3. /\ v \in Numbers /\ CountsAre(l, -1, v, Mod, Sign) /\ new \in FlagSets
        /\ "CF" \in new <=> "CF" \in fl
        /\ "AF" \in new <=> v % 16 = 15
        /\ "OF" \in new <=> v + 1 = Sign
    <3> HIDE DEF v
    <3> QED
      BY <1>4, <2>2
  <2> HIDE DEF v, new, b
  <2>4. /\ "AF" \in new <=> SumOutOf(0, 15, (l % 16) + -1)
        /\ "OF" \in new <=> SumOutOf(-Sign, Sign - 1, Signed(l) + -1)
    BY <1>2, <2>3, Zenon DEF CountsAre
  <2>5. IsResult(b) /\ b.v = v /\ b.fl = new
    BY <2>1, <2>3 DEF IsResult
  <2> QED
    BY <1>6, <2>2, <2>3, <2>4, <2>5 DEF b
<1>7. CASE op = "NEG"
  <2>1. (-l) % Mod \in Numbers
    BY <1>1, ModType
  <2> DEFINE new == (fl \ {"OF", "AF", "CF"})
                      \cup When(l # 0, "CF") \cup When(l = Sign, "OF") \cup When(l % 8 # 0, "AF")
  <2>2. \A f : f \in new => f \in fl \/ f \in FlagNames
    <3>1. \A f : f \in new => f \in fl \/ f = "CF" \/ f = "OF" \/ f = "AF"
      BY <1>3
    <3> HIDE DEF new
    <3> QED
      BY <3>1 DEF FlagNames
  <2>3. Unary(op, l, fl) = [v |-> (-l) % Mod, fl |-> new]
    BY <1>7 DEF Unary, Neg
  <2> HIDE DEF new
  <2>4. new \in FlagSets
    BY <2>2 DEF FlagSets
  <2> QED
    BY <1>7, <2>1, <2>3, <2>4 DEF IsResult
<1> QED
  BY <1>5, <1>6, <1>7

\* INC, DEC and NEG keep the invariant.
LEMMA IncDecNegKeeps ==
  ASSUME Typed, Followed, IncDecNeg
  PROVE  Typed' /\ Followed'
<1> DEFINE b == Unary(Current.op, Dest, flags)
           new == [b EXCEPT !.fl = SetCommFlags(@, b.v)]
           e == EntryOf(0)
           n == IF Current.op = "INC" THEN 1 ELSE -1
<1>1. res = "ok" /\ prog # <<>> /\ Current.op \in {"INC", "DEC", "NEG"} /\ WriteBack(0, {new})
  BY DEF IncDecNeg, Runs
<1>2. size \in Sizes /\ flags \in FlagSets /\ Dest \in Numbers /\ 0 \in Nat
  BY <1>1, OperandsAre, CurrentIs
<1>3. /\ IsResult(b)
      /\ Current.op # "NEG" => /\ b.v = (Dest + n) % Mod
                               /\ "CF" \in b.fl <=> "CF" \in flags
                               /\ "AF" \in b.fl <=> SumOutOf(0, 15, (Dest % 16) + n)
                               /\ "OF" \in b.fl <=> SumOutOf(-Sign, Sign - 1, Signed(Dest) + n)
  BY <1>1, <1>2, UnaryIs
<1>4. e.op = Current.op /\ Old(e) = Dest /\ e.flags = flags
  BY <1>1, CurrentIs
<1> HIDE DEF b
<1>5. IsResult(new) /\ new.v = b.v /\ new.fl = SetCommFlags(b.fl, b.v) /\ b.fl \in FlagSets
  BY <1>3, WithComm DEF IsResult
<1> HIDE DEF new, e
<1>6. /\ "ZF" \in new.fl <=> b.v = 0
      /\ "SF" \in new.fl <=> b.v >= Sign
      /\ "CF" \in new.fl <=> "CF" \in b.fl
      /\ "AF" \in new.fl <=> "AF" \in b.fl
      /\ "OF" \in new.fl <=> "OF" \in b.fl
  BY <1>5, CommFlagsAre
<1> DEFINE o == Outcome([regs EXCEPT ![Current.to] = new.v], new.fl, "ok")
<1>7. o.flags = new.fl /\ o.res = "ok"
  BY OutcomeIs
<1>8. n = IF e.op = "INC" THEN 1 ELSE -1
  BY <1>4
<1> HIDE DEF o, n
<1>9. StepDone(e, o)
  <2> SUFFICES ASSUME e.op \in {"INC", "DEC"} PROVE StepDone(e, o)
    BY Elsewhere
  <2>1. Current.op # "NEG"
    BY <1>4
  <2>2. /\ "CF" \in o.flags <=> "CF" \in e.flags
        /\ "AF" \in o.flags <=> SumOutOf(0, 15, (Old(e) % 16) + n)
        /\ "OF" \in o.flags <=> SumOutOf(-Sign, Sign - 1, Signed(Old(e)) + n)
    BY <1>3, <1>4, <1>6, <1>7, <2>1
  <2>3. b.v = (Old(e) + n) % Mod
    BY <1>3, <1>4, <2>1
  <2>4. ("ZF" \in o.flags <=> (Old(e) + n) % Mod = 0) /\ ("SF" \in o.flags <=> (Old(e) + n) % Mod >= Sign)
    BY <1>6, <1>7, <2>3
  <2> QED
    BY <1>8, <2>2, <2>4 DEF StepDone
<1>10. Does(e, o)
  <2>1. /\ e.op \notin ShiftOps /\ e.op \notin {"ADD", "ADC"} /\ e.op \notin {"SUB", "CMP"} /\ e.op # "SBB"
        /\ e.op \notin {"MUL", "IMUL", "IMUL2", "IMULI"} /\ e.op \notin {"DIV", "IDIV"}
        /\ e.op \notin {"AAA", "AAS", "DAA", "DAS", "AAM", "AAD"}
    BY <1>1, <1>4 DEF ShiftOps
  <2> QED
    BY <1>7, <1>9, <2>1, Elsewhere DEF Does
<1>11. \A p \in {new} : IsResult(p) /\ Does(EntryOf(0), Outcome([regs EXCEPT ![Current.to] = p.v], p.fl, "ok"))
  BY <1>5, <1>10 DEF e, o
<1>12. Current.op \notin {"DIV", "IDIV"}
  BY <1>1
<1> QED
  BY <1>1, <1>2, <1>11, <1>12, WriteBackKeeps

\* NOT keeps the invariant.
LEMMA NOTKeeps ==
  ASSUME Typed, Followed, NOT
  PROVE  Typed' /\ Followed'
<1> DEFINE p == [v |-> Mod - 1 - Dest, fl |-> flags]
           e == EntryOf(0)
<1>1. res = "ok" /\ prog # <<>> /\ Current.op = "NOT" /\ WriteBack(0, {p}) /\ 0 \in Nat
  BY DEF NOT, Runs
<1>2. size \in Sizes /\ flags \in FlagSets /\ Dest \in Numbers
  BY <1>1, OperandsAre, CurrentIs
<1>3. Mod - 1 - Dest \in Numbers
  BY <1>2, SpanIs DEF Numbers
<1>4. IsResult(p)
  BY <1>2, <1>3 DEF IsResult
<1>5. e.op = "NOT"
  BY <1>1, CurrentIs
<1> DEFINE o == Outcome([regs EXCEPT ![Current.to] = p.v], p.fl, "ok")
<1>6. o.res = "ok"
  BY OutcomeIs
<1> HIDE DEF p, o, e
<1>7. Does(e, o)
  BY <1>5, <1>6, Elsewhere DEF Does, ShiftOps
<1>8. \A q \in {p} : IsResult(q) /\ Does(EntryOf(0), Outcome([regs EXCEPT ![Current.to] = q.v], q.fl, "ok"))
  BY <1>4, <1>7 DEF e, o
<1> QED
  BY <1>1, <1>8, WriteBackKeeps

\* SHLD and SHRD compute flags only.
LEMMA DoubleType ==
  ASSUME NEW op, NEW l, NEW r, NEW amt, NEW fl \in FlagSets
  PROVE  Double(op, l, r, amt, fl) \subseteq FlagSets
<1>1. ASSUME NEW carry, NEW over, NEW v PROVE SetCommFlags(CarryOverflow(fl \ {"AF"}, carry, over), v) \in FlagSets
  <2>1. fl \ {"AF"} \in FlagSets
    BY DEF FlagSets
  <2>2. CarryOverflow(fl \ {"AF"}, carry, over) \in FlagSets
    BY <2>1, CarryOverflowIs
  <2> QED
    BY <2>2, CommFlagsAre
<1>2. SUBSET (FlagNames \ {"AF"}) \subseteq FlagSets
  BY DEF FlagSets
<1> DEFINE v == IF op = "SHRD" THEN Or(Right(l, amt), Left(r, Width - amt)) ELSE Or(Left(l, amt), Right(r, Width - amt))
           carry == Bit(l, IF op = "SHRD" THEN amt - 1 ELSE Width - amt) = 1
           over == amt = 1 /\ (Top(v) = 1) # (IF op = "SHRD" THEN Second(v) = 1 ELSE carry)
<1>3. Double(op, l, r, amt, fl) =
        IF amt = 0 THEN {fl}
        ELSE IF amt > Width \/ (size = "D" /\ amt = Width) THEN SUBSET (FlagNames \ {"AF"})
        ELSE {SetCommFlags(CarryOverflow(fl \ {"AF"}, carry, over), v)}
  BY DEF Double
<1> HIDE DEF v, carry, over
<1>4. SetCommFlags(CarryOverflow(fl \ {"AF"}, carry, over), v) \in FlagSets
  BY <1>1
<1> QED
  BY <1>2, <1>3, <1>4

\* SHLD and SHRD keep the invariant.
LEMMA SHLD_SHRDKeeps ==
  ASSUME Typed, Followed, SHLD_SHRD
  PROVE  Typed' /\ Followed'
<1>1. res = "ok" /\ prog # <<>> /\ Current.op \in {"SHLD", "SHRD"}
  BY DEF SHLD_SHRD, Runs
<1>2. PICK src \in Counts, other \in Operands[size] :
        \E fl \in Double(Current.op, Dest, other, src, flags) : Done(src, regs, fl, "ok")
  BY DEF SHLD_SHRD
<1>3. PICK fl \in Double(Current.op, Dest, other, src, flags) : Done(src, regs, fl, "ok")
  BY <1>2
<1>4. fl \in FlagSets /\ regs \in Registers
  BY OperandsAre, DoubleType
<1>5. src \in Nat
  BY AluAssumption DEF AluAssumption
<1>6. Current.op \notin Watched
  BY <1>1 DEF Watched, BinaryOps, ShiftOps
<1> QED
  BY <1>1, <1>3, <1>4, <1>5, <1>6, OtherKeeps

\* CBW and CWD keep the invariant.
LEMMA CBW_CWDKeeps ==
  ASSUME Typed, Followed, CBW_CWD
  PROVE  Typed' /\ Followed'
<1>1. res = "ok" /\ prog # <<>> /\ Current.op = "CWD" /\ Done(0, SignFill(regs), flags, "ok") /\ 0 \in Nat
  BY DEF CBW_CWD, Runs
<1>2. Mod - 1 \in Numbers
  BY SpanIs DEF Typed, Numbers
<1>3. SignFill(regs) \in Registers /\ flags \in FlagSets
  <2>1. regs \in Registers /\ 0 \in Numbers /\ flags \in FlagSets
    BY OperandsAre
  <2> QED
    BY <1>2, <2>1 DEF SignFill, Registers
<1>4. Current.op \notin Watched
  BY <1>1 DEF Watched, BinaryOps, ShiftOps
<1> QED
  BY <1>1, <1>3, <1>4, OtherKeeps

\* The low byte of FLAGS is a byte.
LEMMA FlagByteType ==
  ASSUME NEW fl
  PROVE  FlagByte(fl) \in Nat /\ FlagByte(fl) < 256
<1> DEFINE bit(f) == IF f \in fl THEN Pow2[FlagBit[f]] ELSE 0
<1>1. Pow2[0] = 1 /\ Pow2[2] = 4 /\ Pow2[4] = 16 /\ Pow2[6] = 64 /\ Pow2[7] = 128
  BY PowersDouble, SmallPowers
<1>2. FlagBit["CF"] = 0 /\ FlagBit["PF"] = 2 /\ FlagBit["AF"] = 4 /\ FlagBit["ZF"] = 6 /\ FlagBit["SF"] = 7
  BY DEF FlagBit
<1>3. /\ bit("CF") \in {0, 1} /\ bit("PF") \in {0, 4} /\ bit("AF") \in {0, 16} /\ bit("ZF") \in {0, 64}
      /\ bit("SF") \in {0, 128}
  BY <1>1, <1>2
<1>4. FlagByte(fl) = 2 + bit("CF") + bit("PF") + bit("AF") + bit("ZF") + bit("SF")
  BY DEF FlagByte
<1> HIDE DEF bit
<1> QED
  BY <1>3, <1>4

\* LAHF keeps the invariant.
LEMMA LAHFKeeps ==
  ASSUME Typed, Followed, LAHF
  PROVE  Typed' /\ Followed'
<1>1. /\ res = "ok" /\ prog # <<>> /\ Current.op = "LAHF" /\ Done(0, [regs EXCEPT !.d = FlagByte(flags)], flags, "ok")
      /\ 0 \in Nat /\ size = "B"
  BY DEF LAHF, Runs
<1>2. FlagByte(flags) \in Numbers
  <2>1. Mod = 256
    BY <1>1, SpanIs DEF Typed
  <2> QED
    BY <2>1, FlagByteType DEF Numbers
<1>3. [regs EXCEPT !.d = FlagByte(flags)] \in Registers /\ flags \in FlagSets
  <2>1. regs \in Registers /\ flags \in FlagSets
    BY OperandsAre
  <2> QED
    BY <1>2, <2>1 DEF Registers
<1>4. Current.op \notin Watched
  BY <1>1 DEF Watched, BinaryOps, ShiftOps
<1> QED
  BY <1>1, <1>3, <1>4, OtherKeeps

\* SAHF keeps the invariant.
LEMMA SAHFKeeps ==
  ASSUME Typed, Followed, SAHF
  PROVE  Typed' /\ Followed'
<1> DEFINE new == (flags \cap {"OF"}) \cup {f \in DOMAIN FlagBit : Bit(regs.d, FlagBit[f]) = 1}
<1>1. res = "ok" /\ prog # <<>> /\ Current.op = "SAHF" /\ Done(0, regs, new, "ok") /\ 0 \in Nat
  BY DEF SAHF, Runs
<1>2. new \in FlagSets /\ regs \in Registers
  BY OperandsAre DEF FlagSets, FlagNames, FlagBit
<1>3. Current.op \notin Watched
  BY <1>1 DEF Watched, BinaryOps, ShiftOps
<1> HIDE DEF new
<1> QED
  BY <1>1, <1>2, <1>3, OtherKeeps

\* CLC, STC and CMC keep the invariant.
LEMMA CLC_STC_CMCKeeps ==
  ASSUME Typed, Followed, CLC_STC_CMC
  PROVE  Typed' /\ Followed'
<1> DEFINE c == Current.op = "STC" \/ (Current.op = "CMC" /\ "CF" \notin flags)
           new == (flags \ {"CF"}) \cup When(c, "CF")
<1>1. res = "ok" /\ prog # <<>> /\ Current.op \in {"CLC", "STC", "CMC"} /\ Done(0, regs, new, "ok") /\ 0 \in Nat
  BY DEF CLC_STC_CMC, Runs
<1>2. new \in FlagSets /\ regs \in Registers
  <2>1. flags \in FlagSets /\ regs \in Registers /\ When(c, "CF") \in FlagSets
    <3>1. "CF" \in FlagNames
      BY DEF FlagNames
    <3>2. When(c, "CF") \in FlagSets
      BY <3>1, WhenIs
    <3> QED
      BY <3>2, OperandsAre
  <2> QED
    BY <2>1 DEF FlagSets
<1>3. Current.op \notin Watched
  BY <1>1 DEF Watched, BinaryOps, ShiftOps
<1> HIDE DEF new
<1> QED
  BY <1>1, <1>2, <1>3, OtherKeeps

\* BT, BTS, BTR and BTC keep the invariant: they fail.
LEMMA BTxKeeps ==
  ASSUME Typed, Followed, BTx
  PROVE  Typed' /\ Followed'
<1>1. res = "ok" /\ prog # <<>> /\ Current.op = "BTx" /\ Done(0, regs, flags, "undefopcode") /\ 0 \in Nat
  BY DEF BTx, Runs
<1>2. flags \in FlagSets /\ regs \in Registers
  BY OperandsAre
<1>3. Current.op \notin Watched
  BY <1>1 DEF Watched, BinaryOps, ShiftOps
<1> QED
  BY <1>1, <1>2, <1>3, OtherKeeps

\* A number that is not zero has a bit set ...
LEMMA SomeBit ==
  \A n \in 0..MaxBits : \A x \in Nat : x # 0 /\ x < Pow2[n] => \E i \in 0 .. n - 1 : Bit(x, i) = 1
<1> DEFINE S == {n \in 0..MaxBits : \A x \in Nat : x # 0 /\ x < Pow2[n] => \E i \in 0 .. n - 1 : Bit(x, i) = 1}
<1>1. 0 \in S
  <2>1. 0 \in 0..MaxBits /\ \A x \in Nat : ~(x # 0 /\ x < 1)
    BY WidthsAre
  <2> QED
    BY <2>1, PowersDouble
<1>2. ASSUME NEW n \in 0 .. MaxBits - 1, n \in S PROVE n + 1 \in S
  <2>1. n + 1 \in 0..MaxBits /\ n + 1 \in 1..MaxBits /\ (n + 1) - 1 = n /\ n \in 0..MaxBits /\ n \in Nat
    BY WidthsAre
  <2>2. Pow2[n + 1] = 2 * Pow2[n] /\ Pow2[n] \in Nat
    BY <2>1, PowersDouble, PowerType
  <2>3. ASSUME NEW x \in Nat, x # 0, x < Pow2[n + 1] PROVE \E i \in 0 .. n : Bit(x, i) = 1
    <3>1. CASE x < Pow2[n]
      <4>1. PICK i \in 0 .. n - 1 : Bit(x, i) = 1
        BY <1>2, <2>3, <3>1
      <4>2. i \in 0..n
        BY <2>1
      <4> QED
        BY <4>1, <4>2
    <3>2. CASE ~(x < Pow2[n])
      <4>1. x - Pow2[n] \in Nat /\ x - Pow2[n] < Pow2[n] /\ (x - Pow2[n]) + Pow2[n] * 1 = x /\ 1 \in 0..1
        BY <2>2, <2>3, <3>2
      <4>2. Bit((x - Pow2[n]) + Pow2[n] * 1, n) = 1
        BY <2>1, <4>1, BitAbove
      <4>3. n \in 0..n
        BY <2>1
      <4> QED
        BY <4>1, <4>2, <4>3
    <3> QED
      BY <3>1, <3>2
  <2> QED
    BY <2>1, <2>3
<1>3. Grows(S, MaxBits)
  BY <1>1, <1>2 DEF Grows
<1> HIDE DEF S
<1>4. 0..MaxBits \subseteq S
  BY <1>3, UpTo, WidthsAre
<1> QED
  BY <1>4 DEF S

\* ... and a lowest one.
LEMMA LowestBit ==
  ASSUME size \in Sizes, NEW x \in Numbers, x # 0
  PROVE  \E i \in 0 .. Width - 1 : Bit(x, i) = 1 /\ \A j \in 0 .. i - 1 : Bit(x, j) = 0
<1>1. x \in Nat /\ x < Pow2[Width] /\ Width \in 0..MaxBits /\ Width \in Nat
  BY SpanIs DEF Numbers, Mod
<1> DEFINE S == {i \in 0 .. Width - 1 : Bit(x, i) = 1}
<1>2. S \subseteq Nat /\ S # {}
  BY <1>1, SomeBit
<1>3. PICK i \in S : \A k \in S : i <= k
  <2> HIDE DEF S
  <2> QED
    BY <1>2, LeastOf
<1>4. ASSUME NEW j \in 0 .. i - 1 PROVE Bit(x, j) = 0
  <2>1. j \in 0 .. Width - 1 /\ ~(i <= j) /\ j \in 0..MaxBits
    BY <1>1, WidthsAre
  <2>2. Bit(x, j) # 1
    BY <1>3, <2>1
  <2>3. Bit(x, j) \in 0..1
    BY <1>1, <2>1, BitType
  <2> QED
    BY <2>2, <2>3
<1> QED
  BY <1>4

\* BSF keeps the invariant: the index of a lowest bit is a number.
LEMMA BSFKeeps ==
  ASSUME Typed, Followed, BSF
  PROVE  Typed' /\ Followed'
<1>1. res = "ok" /\ prog # <<>> /\ Current.op = "BSF"
  BY DEF BSF, Runs
<1>2. Current.op \notin Watched
  BY <1>1 DEF Watched, BinaryOps, ShiftOps
<1> DEFINE P(src, i) == Bit(src, i) = 1 /\ \A j \in 0 .. i - 1 : Bit(src, j) = 0
           v(src) == CHOOSE i \in 0 .. Width - 1 : P(src, i)
<1>3. PICK src \in Operands[size] :
        IF size = "D" THEN Done(src, regs, flags, "undefopcode")
        ELSE IF src = 0 THEN Done(src, regs, flags \cup {"ZF"}, "ok")
        ELSE Done(src, [regs EXCEPT ![Current.to] = v(src)], flags \ {"ZF"}, "ok")
  BY DEF BSF
<1>4. src \in Nat /\ src \in Numbers /\ size \in Sizes /\ flags \in FlagSets /\ regs \in Registers
  BY OperandsAre
<1>5. flags \cup {"ZF"} \in FlagSets /\ flags \ {"ZF"} \in FlagSets
  BY <1>4 DEF FlagSets, FlagNames
<1>6. CASE size = "D"
  BY <1>1, <1>2, <1>3, <1>4, <1>6, OtherKeeps
<1>7. CASE size # "D" /\ src = 0
  <2>1. Done(src, regs, flags \cup {"ZF"}, "ok")
    BY <1>3, <1>7
  <2> QED
    BY <1>1, <1>2, <1>4, <1>5, <2>1, OtherKeeps
<1>8. CASE size # "D" /\ src # 0
  <2>1. \E i \in 0 .. Width - 1 : P(src, i)
    BY <1>4, <1>8, LowestBit
  <2>2. v(src) \in 0 .. Width - 1
    <3> HIDE DEF P
    <3> QED
      BY <2>1
  <2>3. Done(src, [regs EXCEPT ![Current.to] = v(src)], flags \ {"ZF"}, "ok")
    BY <1>3, <1>8
  <2> HIDE DEF v
  <2>4. v(src) \in Numbers
    <3>1. Width \in Nat /\ Width \in 0..MaxBits /\ Pow2[Width] > Width /\ Mod = Pow2[Width] /\ Mod \in Nat
      BY <1>4, SpanIs, PowerType DEF Mod
    <3> QED
      BY <2>2, <3>1 DEF Numbers
  <2>5. [regs EXCEPT ![Current.to] = v(src)] \in Registers
    BY <1>1, <2>4, CurrentIs
  <2> QED
    BY <1>1, <1>2, <1>4, <1>5, <2>3, <2>5, OtherKeeps
<1> QED
  BY <1>6, <1>7, <1>8

-----------------------------------------------------------------------------
(* The adjustments.                                                        *)

Adjustments == {"AAA", "AAS", "DAA", "DAS", "AAM", "AAD"}

\* A number is divisor times quotient plus remainder; quotients of naturals are no larger than they are.
LEMMA Splits ==
  ASSUME NEW n \in Nat \ {0}, NEW a \in Int
  PROVE  /\ a \div n \in Int /\ a % n \in 0 .. n - 1 /\ n * (a \div n) \in Int /\ a = n * (a \div n) + (a % n)
         /\ a \in Nat => a \div n \in Nat /\ n * (a \div n) <= a /\ a \div n <= a /\ a % n <= a
<1>1. a % n \in 0 .. n - 1 /\ a \div n \in Int /\ a = n * (a \div n) + (a % n)
  OBVIOUS
<1> DEFINE q == a \div n
           t == a % n
<1>2. q \in Int /\ t \in 0 .. n - 1 /\ a = n * q + t
  BY <1>1
<1> HIDE DEF q, t
<1>3. n * q \in Int
  BY <1>2
<1>4. ASSUME a \in Nat PROVE q \in Nat /\ n * q <= a /\ q <= a /\ t <= a
  <2>1. \A k, m \in Int : k >= 1 /\ m < 0 => k * m <= -k
    OBVIOUS
  <2>2. ~(q < 0)
    <3> SUFFICES ASSUME q < 0 PROVE FALSE
      OBVIOUS
    <3>1. n * q <= -n
      BY <1>2, <2>1
    <3> QED
      BY <1>2, <1>3, <1>4, <3>1
  <2>3. \A k, m \in Nat : k >= 1 => m <= k * m
    OBVIOUS
  <2>4. q \in Nat /\ q <= n * q
    BY <1>2, <2>2, <2>3
  <2> QED
    BY <1>2, <1>3, <1>4, <2>4
<1> QED
  BY <1>2, <1>3, <1>4 DEF q, t

\* The operands of a byte are the numbers below 256.
LEMMA BytesAre ==
  ASSUME size = "B"
  PROVE  /\ \A x \in Numbers : x \in Nat /\ x < 256
         /\ \A x \in Nat : x < 256 => x \in Numbers
         /\ \A x \in Int : x % 256 \in Numbers
<1>1. Mod = 256
  BY SpanIs DEF Sizes
<1>2. (\A x \in Numbers : x \in Nat /\ x < 256) /\ (\A x \in Nat : x < 256 => x \in Numbers)
  BY <1>1 DEF Numbers
<1>3. ASSUME NEW x \in Int PROVE x % 256 \in Numbers
  <2>1. x % 256 \in Nat /\ x % 256 < 256
    BY SMT
  <2> QED
    BY <1>2, <2>1
<1> QED
  BY <1>2, <1>3

\* A step of an adjustment that does what AdjustDone says keeps the invariant.
LEMMA AdjustKeeps ==
  ASSUME Typed, Followed, res = "ok", prog # <<>>, NEW src \in Nat, NEW r \in Registers, NEW fl \in FlagSets,
         Done(src, r, fl, "ok"), Current.op \in Adjustments, AdjustDone(EntryOf(src), Outcome(r, fl, "ok"))
  PROVE  Typed' /\ Followed'
<1> DEFINE e == EntryOf(src)
           o == Outcome(r, fl, "ok")
<1>1. e.op = Current.op /\ o.res = "ok" /\ AdjustDone(e, o)
  BY CurrentIs, OutcomeIs
<1> HIDE DEF e, o
<1>2. /\ e.op \notin ShiftOps /\ e.op \notin {"ADD", "ADC"} /\ e.op \notin {"SUB", "CMP"} /\ e.op # "SBB"
      /\ e.op \notin {"MUL", "IMUL", "IMUL2", "IMULI"} /\ e.op \notin {"DIV", "IDIV"} /\ e.op \notin {"INC", "DEC"}
  BY <1>1 DEF ShiftOps, Adjustments
<1>3. Does(e, o)
  BY <1>1, <1>2, Elsewhere DEF Does
<1> QED
  BY <1>3, StepKeeps DEF e, o

\* Adjusted leaves AL and AH as they are passed, and CF as it is.
LEMMA AdjustedIs ==
  ASSUME NEW a \in Numbers, NEW d \in Numbers, NEW fl \in FlagSets
  PROVE  /\ Adjusted(a, d, fl).regs = [a |-> a, d |-> d] /\ Adjusted(a, d, fl).regs \in Registers
         /\ Adjusted(a, d, fl).fl \in FlagSets
         /\ "CF" \in Adjusted(a, d, fl).fl <=> "CF" \in fl
<1>1. Adjusted(a, d, fl).regs = [a |-> a, d |-> d] /\ Adjusted(a, d, fl).fl = SetCommFlags(fl, a)
  BY DEF Adjusted
<1>2. SetCommFlags(fl, a) \in FlagSets /\ ("CF" \in SetCommFlags(fl, a) <=> "CF" \in fl)
  BY CommFlagsAre
<1> QED
  BY <1>1, <1>2 DEF Registers

\* The flags named are set or cleared together, as the condition says.
LEMMA SetAllIs ==
  ASSUME NEW fl \in FlagSets, NEW cond, NEW names \in FlagSets
  PROVE  /\ SetAll(fl, cond, names) \in FlagSets
         /\ "CF" \in names => ("CF" \in SetAll(fl, cond, names) <=> cond)
<1>1. SetAll(fl, cond, names) \in FlagSets
  BY DEF SetAll, FlagSets
<1>2. CASE cond
  BY <1>1, <1>2 DEF SetAll
<1>3. CASE ~cond
  BY <1>1, <1>3 DEF SetAll
<1> QED
  BY <1>2, <1>3

\* AAA and AAS keep the invariant.
LEMMA AAA_AASKeeps ==
  ASSUME Typed, Followed, AAA_AAS
  PROVE  Typed' /\ Followed'
<1> DEFINE n == IF Current.op = "AAA" THEN 1 ELSE -1
           a == regs.a
           d == regs.d
           yes == Adjusts(regs, flags)
           aa == (IF yes THEN a + 6 * n ELSE a) % 16
           dd == IF yes THEN (d + n) % 256 ELSE d
           fl == SetAll(flags, yes, {"AF", "CF"})
           e == EntryOf(0)
<1>1. /\ res = "ok" /\ prog # <<>> /\ Current.op \in {"AAA", "AAS"} /\ size = "B" /\ 0 \in Nat
      /\ Done(0, Ascii(regs, flags, n).regs, Ascii(regs, flags, n).fl, "ok")
  BY DEF AAA_AAS, Runs
<1>2. Ascii(regs, flags, n) = Adjusted(aa, dd, fl)
  BY DEF Ascii
<1>3. a \in Numbers /\ d \in Numbers /\ flags \in FlagSets /\ n \in {1, -1} /\ (Current.op = "AAA" => n = 1) /\ (Current.op = "AAS" => n = -1)
  BY <1>1, CurrentIs, OperandsAre
<1>4. a \in Nat /\ d \in Nat
  BY <1>1, <1>3, BytesAre
<1>5. e.op = Current.op /\ e.regs = regs /\ e.flags = flags
  BY <1>1, CurrentIs
<1>6. {"AF", "CF"} \in FlagSets
  BY DEF FlagSets, FlagNames
<1>7. fl \in FlagSets
  <2> HIDE DEF yes
  <2> QED
    BY <1>3, <1>6, SetAllIs
<1>8. yes <=> a % 16 > 9 \/ "AF" \in flags
  BY DEF Adjusts
<1> HIDE DEF n, yes, e, fl
<1>9. aa \in Numbers
  <2>1. \A x \in Int : x % 16 \in Nat /\ x % 16 < 256
    BY SMT
  <2>2. (IF yes THEN a + 6 * n ELSE a) \in Int
    BY <1>3, <1>4
  <2> QED
    BY <1>1, <2>1, <2>2, BytesAre
<1>10. dd \in Numbers
  <2>1. d + n \in Int
    BY <1>3, <1>4
  <2>2. (d + n) % 256 \in Numbers
    BY <1>1, <2>1, BytesAre
  <2> QED
    BY <1>3, <2>2
<1> DEFINE x == Ascii(regs, flags, n)
           o == Outcome(x.regs, x.fl, "ok")
<1>11. x.regs = [a |-> aa, d |-> dd] /\ x.regs \in Registers /\ x.fl \in FlagSets
  BY <1>2, <1>7, <1>9, <1>10, AdjustedIs
<1>12. o.regs = [a |-> aa, d |-> dd] /\ o.res = "ok"
  BY <1>11, OutcomeIs
<1> HIDE DEF o
<1>13. e.op = "AAA" => o.regs = [a |-> (IF yes THEN a + 6 ELSE a) % 16, d |-> IF yes THEN (d + 1) % 256 ELSE d]
  <2> SUFFICES ASSUME e.op = "AAA" PROVE o.regs = [a |-> (IF yes THEN a + 6 ELSE a) % 16, d |-> IF yes THEN (d + 1) % 256 ELSE d]
    OBVIOUS
  <2>1. n = 1
    BY <1>3, <1>5
  <2>2. a + 6 * n = a + 6 /\ d + n = d + 1
    BY <1>4, <2>1
  <2> QED
    BY <1>12, <2>2
<1>14. e.op = "AAS" => o.regs = [a |-> (IF yes THEN a - 6 ELSE a) % 16, d |-> IF yes THEN (d - 1) % 256 ELSE d]
  <2> SUFFICES ASSUME e.op = "AAS" PROVE o.regs = [a |-> (IF yes THEN a - 6 ELSE a) % 16, d |-> IF yes THEN (d - 1) % 256 ELSE d]
    OBVIOUS
  <2>1. n = -1
    BY <1>3, <1>5
  <2>2. a + 6 * n = a - 6 /\ d + n = d - 1
    BY <1>4, <2>1
  <2> QED
    BY <1>12, <2>2
<1>15. AdjustDone(e, o)
  BY <1>1, <1>5, <1>8, <1>13, <1>14 DEF AdjustDone
<1>16. Done(0, x.regs, x.fl, "ok") /\ Current.op \in Adjustments
  BY <1>1 DEF Adjustments
<1> QED
  BY <1>1, <1>11, <1>15, <1>16, AdjustKeeps DEF e, o

\* DAA and DAS keep the invariant, the corrections of both digits included.
LEMMA DAA_DASKeeps ==
  ASSUME Typed, Followed, DAA_DAS
  PROVE  Typed' /\ Followed'
<1> DEFINE a == regs.a
           d == regs.d
           low == Adjusts(regs, flags)
           high == a > 153 \/ "CF" \in flags
           up == (a + (IF low THEN 6 ELSE 0) + (IF high THEN 96 ELSE 0)) % 256
           down == (a - (IF low THEN 6 ELSE 0) - (IF high THEN 96 ELSE 0)) % 256
           half == SetAll(flags, low, {"AF"})
           e == EntryOf(0)
           x == IF Current.op = "DAA" THEN Daa(regs, flags) ELSE Das(regs, flags)
<1>1. /\ res = "ok" /\ prog # <<>> /\ Current.op \in {"DAA", "DAS"} /\ size = "B" /\ 0 \in Nat
      /\ Done(0, x.regs, x.fl, "ok")
  BY DEF DAA_DAS, Runs
<1>2. /\ Daa(regs, flags) = Adjusted(up, d, SetAll(half, high, {"CF"}))
      /\ Das(regs, flags) = Adjusted(down, d, SetAll(half, high \/ (low /\ a < 6), {"CF"}))
  BY DEF Daa, Das
<1>3. a \in Numbers /\ d \in Numbers /\ flags \in FlagSets /\ a \in Nat
  BY <1>1, CurrentIs, OperandsAre
<1>4. e.op = Current.op /\ e.regs = regs /\ e.flags = flags
  BY <1>1, CurrentIs
<1>5. {"AF"} \in FlagSets /\ {"CF"} \in FlagSets /\ "CF" \in {"CF"}
  BY DEF FlagSets, FlagNames
<1>6. low <=> a % 16 > 9 \/ "AF" \in flags
  BY DEF Adjusts
<1>7. high <=> a > 153 \/ "CF" \in flags
  OBVIOUS
<1> HIDE DEF low, high, e
<1>8. half \in FlagSets
  BY <1>3, <1>5, SetAllIs
<1> HIDE DEF half
<1>9. up \in Numbers /\ down \in Numbers
  <2>1. /\ a + (IF low THEN 6 ELSE 0) + (IF high THEN 96 ELSE 0) \in Int
        /\ a - (IF low THEN 6 ELSE 0) - (IF high THEN 96 ELSE 0) \in Int
    BY <1>3
  <2> QED
    BY <1>1, <2>1, BytesAre
<1> DEFINE o == Outcome(x.regs, x.fl, "ok")
<1>10. o.regs = x.regs /\ o.flags = x.fl /\ o.res = "ok"
  BY OutcomeIs
<1> HIDE DEF o
<1>11. CASE Current.op = "DAA"
  <2> DEFINE f == SetAll(half, high, {"CF"})
  <2>1. x = Adjusted(up, d, f)
    BY <1>2, <1>11
  <2>2. f \in FlagSets /\ ("CF" \in f <=> high)
    BY <1>5, <1>8, SetAllIs
  <2> HIDE DEF x, f, up
  <2>3. x.regs = [a |-> up, d |-> d] /\ x.regs \in Registers /\ x.fl \in FlagSets /\ ("CF" \in x.fl <=> high)
    BY <1>3, <1>9, <2>1, <2>2, AdjustedIs
  <2>4. o.regs.a = up /\ ("CF" \in o.flags <=> high)
    BY <1>10, <2>3
  <2>5. AdjustDone(e, o)
    BY <1>1, <1>4, <1>6, <1>7, <1>11, <2>4 DEF AdjustDone, up
  <2>6. Done(0, x.regs, x.fl, "ok") /\ Current.op \in Adjustments
    BY <1>1, <1>11 DEF Adjustments
  <2> QED
    BY <1>1, <2>3, <2>5, <2>6, AdjustKeeps DEF e, o
<1>12. CASE Current.op = "DAS"
  <2> DEFINE c == high \/ (low /\ a < 6)
             f == SetAll(half, c, {"CF"})
  <2>1. x = Adjusted(down, d, f)
    BY <1>2, <1>12
  <2>2. f \in FlagSets /\ ("CF" \in f <=> c)
    BY <1>5, <1>8, SetAllIs
  <2> HIDE DEF x, f, down
  <2>3. x.regs = [a |-> down, d |-> d] /\ x.regs \in Registers /\ x.fl \in FlagSets /\ ("CF" \in x.fl <=> c)
    BY <1>3, <1>9, <2>1, <2>2, AdjustedIs
  <2>4. o.regs.a = down /\ ("CF" \in o.flags <=> c)
    BY <1>10, <2>3
  <2>5. AdjustDone(e, o)
    BY <1>1, <1>4, <1>6, <1>7, <1>12, <2>4 DEF AdjustDone, down
  <2>6. Done(0, x.regs, x.fl, "ok") /\ Current.op \in Adjustments
    BY <1>1, <1>12 DEF Adjustments
  <2> QED
    BY <1>1, <2>3, <2>5, <2>6, AdjustKeeps DEF e, o
<1> QED
  BY <1>1, <1>11, <1>12

\* AAM keeps the invariant, by 0 as well.
LEMMA AAMKeeps ==
  ASSUME Typed, Followed, AAM
  PROVE  Typed' /\ Followed'
<1>1. res = "ok" /\ prog # <<>> /\ Current.op = "AAM" /\ size = "B"
  BY DEF AAM, Runs
<1>2. PICK imm \in Operands["B"] :
        \/ imm = 0 /\ Done(imm, regs, flags, "diverr")
        \/ imm # 0 /\ Done(imm, Aam(regs, imm, flags).regs, Aam(regs, imm, flags).fl, "ok")
  BY DEF AAM
<1>3. imm \in Numbers /\ imm \in Nat /\ imm < 256 /\ regs.a \in Numbers /\ regs.a \in Nat /\ regs.a < 256 /\ flags \in FlagSets
  <2>1. imm \in Numbers /\ regs.a \in Numbers /\ flags \in FlagSets
    BY <1>1, OperandsAre, CurrentIs
  <2> QED
    BY <1>1, <2>1, BytesAre
<1>4. CASE imm = 0
  <2>1. Done(imm, regs, flags, "diverr") /\ Current.op \notin {"DIV", "IDIV"}
    BY <1>1, <1>2, <1>4
  <2> QED
    BY <1>1, <1>3, <2>1, FailureKeeps
<1>5. CASE imm # 0
  <2> DEFINE x == Aam(regs, imm, flags)
             e == EntryOf(imm)
             o == Outcome(x.regs, x.fl, "ok")
             a == regs.a
  <2>1. x = Adjusted(a % imm, a \div imm, flags)
    BY DEF Aam
  <2>2. a \in Nat /\ a < 256 /\ imm \in Nat \ {0}
    BY <1>3, <1>5
  <2>3. a % imm \in Numbers /\ a \div imm \in Numbers
    <3>1. /\ a % imm \in 0 .. imm - 1 /\ a \div imm \in Nat /\ a \div imm <= a
      <4>1. imm \in Nat \ {0} /\ a \in Int /\ a \in Nat
        BY <2>2
      <4> HIDE DEF a
      <4> QED
        BY <4>1, Splits
    <3> DEFINE q == a \div imm
               t == a % imm
    <3>2. t \in 0 .. imm - 1 /\ q \in Nat /\ q <= a
      BY <3>1
    <3> HIDE DEF q, t
    <3>3. q < 256 /\ t \in Nat /\ t < 256
      BY <1>3, <2>2, <3>2
    <3> QED
      BY <1>1, <3>2, <3>3, BytesAre DEF q, t
  <2>4. x.regs = [a |-> a % imm, d |-> a \div imm] /\ x.regs \in Registers /\ x.fl \in FlagSets
    <3> DEFINE t == a % imm
               q == a \div imm
    <3>1. x = Adjusted(t, q, flags) /\ t \in Numbers /\ q \in Numbers
      BY <2>1, <2>3
    <3> HIDE DEF t, q, x
    <3>2. x.regs = [a |-> t, d |-> q] /\ x.regs \in Registers /\ x.fl \in FlagSets
      BY <1>3, <3>1, AdjustedIs
    <3> QED
      BY <3>2 DEF t, q
  <2>5. o.regs = x.regs /\ o.res = "ok"
    BY OutcomeIs
  <2>6. e.op = "AAM" /\ e.src = imm /\ e.regs = regs
    BY <1>1, CurrentIs
  <2>7. Done(imm, x.regs, x.fl, "ok") /\ Current.op \in Adjustments
    BY <1>1, <1>2, <1>5 DEF Adjustments
  <2> HIDE DEF x, e, o
  <2>8. e.src > 0 /\ e.src < 256 /\ o.regs = [a |-> e.regs.a % e.src, d |-> e.regs.a \div e.src]
    <3>1. e.src > 0 /\ e.src < 256
      BY <1>3, <2>2, <2>6
    <3> QED
      BY <2>4, <2>5, <2>6, <3>1
  <2>9. AdjustDone(e, o)
    BY <1>1, <2>6, <2>8, Zenon DEF AdjustDone
  <2> QED
    BY <1>1, <1>3, <2>4, <2>7, <2>9, AdjustKeeps DEF e, o
<1> QED
  BY <1>4, <1>5

\* AAD keeps the invariant.
LEMMA AADKeeps ==
  ASSUME Typed, Followed, AAD
  PROVE  Typed' /\ Followed'
<1>1. res = "ok" /\ prog # <<>> /\ Current.op = "AAD" /\ size = "B"
  BY DEF AAD, Runs
<1>2. PICK imm \in Operands["B"] : Done(imm, Aad(regs, imm, flags).regs, Aad(regs, imm, flags).fl, "ok")
  BY DEF AAD
<1>3. imm \in Numbers /\ imm \in Nat /\ regs.a \in Nat /\ regs.d \in Nat /\ flags \in FlagSets
  <2>1. imm \in Numbers /\ regs.a \in Numbers /\ regs.d \in Numbers /\ flags \in FlagSets
    BY <1>1, OperandsAre, CurrentIs
  <2> QED
    BY <1>1, <2>1, BytesAre
<1> DEFINE x == Aad(regs, imm, flags)
           e == EntryOf(imm)
           o == Outcome(x.regs, x.fl, "ok")
           aa == (regs.a + regs.d * imm) % 256
<1>4. x = Adjusted(aa, 0, flags \ {"OF", "CF"})
  BY DEF Aad
<1>5. aa \in Numbers
  <2>1. regs.a + regs.d * imm \in Int
    BY <1>3
  <2> QED
    BY <1>1, <2>1, BytesAre
<1>6. 0 \in Numbers /\ flags \ {"OF", "CF"} \in FlagSets
  BY <1>3, OperandsAre DEF FlagSets
<1> HIDE DEF aa, x
<1>7. x.regs = [a |-> aa, d |-> 0] /\ x.regs \in Registers /\ x.fl \in FlagSets
  BY <1>4, <1>5, <1>6, AdjustedIs
<1>8. o.regs = x.regs /\ o.res = "ok"
  BY OutcomeIs
<1>9. e.op = "AAD" /\ e.src = imm /\ e.regs = regs
  BY <1>1, CurrentIs
<1>10. Done(imm, x.regs, x.fl, "ok") /\ Current.op \in Adjustments
  BY <1>1, <1>2 DEF Adjustments, x
<1> HIDE DEF e, o
<1>11. o.regs = [a |-> (e.regs.a + e.regs.d * e.src) % 256, d |-> 0]
  BY <1>7, <1>8, <1>9 DEF aa
<1>12. AdjustDone(e, o)
  BY <1>1, <1>9, <1>11, Zenon DEF AdjustDone
<1> QED
  BY <1>1, <1>3, <1>7, <1>10, <1>12, AdjustKeeps DEF e, o

-----------------------------------------------------------------------------
(* Products and quotients.                                                 *)

\* A signed number lies between -Sign and Sign - 1.
LEMMA SignedIs ==
  ASSUME size \in Sizes, NEW x \in Numbers
  PROVE  /\ Signed(x) \in Int /\ -Sign <= Signed(x) /\ Signed(x) < Sign /\ x \in Nat /\ x < Mod
         /\ Signed(x) = x \/ Signed(x) = x - Mod
BY SpanIs DEF Signed, Numbers

\* ... and the number it stands for.
LEMMA SignedOfMod ==
  ASSUME size \in Sizes, NEW n \in Int
  PROVE  /\ Fits(n) => Signed(n % Mod) = n
         /\ n = Signed(n % Mod) => Fits(n)
<1>1. Mod = 2 * Sign /\ Sign \in Nat /\ Mod \in Nat /\ Mod > 0
  BY SpanIs
<1>2. n % Mod \in Numbers
  BY ModType
<1>3. ASSUME Fits(n) PROVE Signed(n % Mod) = n
  <2>1. -Sign <= n /\ n < Sign
    BY <1>3 DEF Fits
  <2>2. CASE 0 <= n
    <3>1. 0 <= n /\ n < Mod
      BY <1>1, <2>1, <2>2
    <3>2. n % Mod = n
      BY <1>1, <3>1, WrapsOnce
    <3> QED
      BY <2>1, <3>2 DEF Signed
  <2>3. CASE n < 0
    <3>1. -Mod <= n /\ n < 0
      BY <1>1, <2>1, <2>3
    <3>2. n % Mod = n + Mod
      BY <1>1, <3>1, WrapsOnce
    <3> QED
      BY <1>1, <2>1, <3>2 DEF Signed
  <2> QED
    BY <2>2, <2>3
<1>4. n = Signed(n % Mod) => Fits(n)
  BY <1>2, SignedIs DEF Fits
<1> QED
  BY <1>3, <1>4

\* The halves of a number that fits two words, put together, are the number.
LEMMA HalvesAre ==
  ASSUME size \in Sizes, NEW n \in Int
  PROVE  /\ Halves(n) \in Registers
         /\ 0 <= n /\ n < Mod * Mod => /\ Wide(Halves(n)) = n
                                       /\ Halves(n).d = n \div Mod
         /\ -(Sign * Mod) <= n /\ n < Sign * Mod => SignedWide(Halves(n)) = n
<1> DEFINE m == Mod
           s == Sign
           q == n \div m
           t == n % m
<1>1. m \in Nat \ {0} /\ m = 2 * s /\ s \in Nat
  BY SpanIs
<1>2. q \in Int /\ t \in 0 .. m - 1 /\ n = m * q + t /\ m * q \in Int
  <2> HIDE DEF m
  <2> QED
    BY <1>1, Splits
<1>3. Halves(n) = [a |-> t, d |-> q % m]
  BY DEF Halves
<1>4. t \in Numbers /\ q % m \in Numbers
  <2>1. m = Mod
    OBVIOUS
  <2> HIDE DEF q, t, m
  <2> QED
    BY <1>2, <2>1, ModType DEF Numbers
<1>5. m = Mod /\ s = Sign
  OBVIOUS
<1>6. q = n \div Mod
  OBVIOUS
<1> HIDE DEF m, s, q, t
<1>7. ASSUME 0 <= n, n < m * m PROVE q % m = q
  <2>1. \A k, j \in Int : k > 0 /\ j >= k => k * j >= k * k
    OBVIOUS
  <2>2. \A k, j \in Int : k > 0 /\ j < 0 => k * j <= -k
    OBVIOUS
  <2>3. m * m \in Int
    BY <1>1
  <2>4. q < m
    BY <1>1, <1>2, <1>7, <2>1, <2>3
  <2>5. 0 <= q
    BY <1>1, <1>2, <1>7, <2>2
  <2> QED
    BY <1>1, <1>2, <2>4, <2>5, WrapsOnce
<1>8. ASSUME -(s * m) <= n, n < s * m PROVE Signed(q % m) = q
  <2>1. \A k, j, i \in Int : k > 0 /\ j >= i => k * j >= i * k
    OBVIOUS
  <2>2. \A k, j, i \in Int : k > 0 /\ j <= -i - 1 => k * j <= -(i * k) - k
    OBVIOUS
  <2>3. s * m \in Int
    BY <1>1
  <2>4. q < s
    BY <1>1, <1>2, <1>8, <2>1, <2>3
  <2>5. -s <= q
    <3> SUFFICES ASSUME ~(-s <= q) PROVE FALSE
      OBVIOUS
    <3>1. q <= -s - 1
      BY <1>1, <1>2
    <3>2. m * q <= -(s * m) - m
      BY <1>1, <1>2, <2>2, <3>1
    <3> QED
      BY <1>1, <1>2, <1>8, <2>3, <3>2
  <2>6. Fits(q)
    BY <1>5, <2>4, <2>5 DEF Fits
  <2> QED
    BY <1>2, <1>5, <2>6, SignedOfMod
<1>9. Halves(n) \in Registers
  BY <1>3, <1>4 DEF Registers
<1>10. q * m = m * q
  BY <1>1, <1>2
<1>11. ASSUME 0 <= n, n < Mod * Mod PROVE Wide(Halves(n)) = n /\ Halves(n).d = n \div Mod
  <2>1. Halves(n).d = q /\ Halves(n).a = t
    BY <1>3, <1>5, <1>7, <1>11
  <2>2. Wide(Halves(n)) = q * m + t
    BY <1>5, <2>1 DEF Wide
  <2> QED
    BY <1>2, <1>6, <1>10, <2>1, <2>2
<1>12. ASSUME -(Sign * Mod) <= n, n < Sign * Mod PROVE SignedWide(Halves(n)) = n
  <2>1. Signed(Halves(n).d) = q /\ Halves(n).a = t
    BY <1>3, <1>5, <1>8, <1>12
  <2>2. SignedWide(Halves(n)) = q * m + t
    BY <1>5, <2>1 DEF SignedWide
  <2> QED
    BY <1>2, <1>10, <2>2
<1> QED
  BY <1>9, <1>11, <1>12

\* The product of two numbers, signed or not, fits two words.
LEMMA ProductsFit ==
  ASSUME size \in Sizes, NEW x \in Numbers, NEW y \in Numbers
  PROVE  /\ x * y \in Nat /\ x * y < Mod * Mod
         /\ Signed(x) * Signed(y) \in Int
         /\ -(Sign * Mod) <= Signed(x) * Signed(y) /\ Signed(x) * Signed(y) < Sign * Mod
         /\ (x * y) % Mod = (Signed(x) * Signed(y)) % Mod
<1> DEFINE m == Mod
           s == Sign
           u == Signed(x)
           v == Signed(y)
<1>1. m \in Nat \ {0} /\ m = 2 * s /\ s \in Nat \ {0}
  BY SpanIs
<1>2. /\ u \in Int /\ -s <= u /\ u < s /\ x \in Nat /\ x < m /\ (u = x \/ u = x - m)
      /\ v \in Int /\ -s <= v /\ v < s /\ y \in Nat /\ y < m /\ (v = y \/ v = y - m)
  BY SignedIs
<1>3. m = Mod /\ s = Sign /\ u = Signed(x) /\ v = Signed(y)
  OBVIOUS
<1> HIDE DEF m, s, u, v
<1>4. x * y \in Nat /\ x * y < m * m
  <2>1. \A i, j, k \in Nat : i < k /\ j < k => i * j < k * k
    <3>1. \A i, j, k \in Nat : i < k /\ j < k => i * j <= i * k
      OBVIOUS
    <3>2. \A i, j, k \in Nat : i < k /\ j < k => i * k < k * k
      OBVIOUS
    <3>3. \A i, j, k \in Nat : i * j \in Nat /\ i * k \in Nat /\ k * k \in Nat
      OBVIOUS
    <3>4. \A a, b, c \in Nat : a <= b /\ b < c => a < c
      OBVIOUS
    <3> QED
      BY <3>1, <3>2, <3>3, <3>4
  <2>2. x * y \in Nat
    BY <1>2
  <2> QED
    BY <1>1, <1>2, <2>1, <2>2
<1>5. u * v \in Int /\ -(s * m) <= u * v /\ u * v < s * m
  <2>1. \A i, j, k \in Int : -k <= i /\ i <= k /\ -k <= j /\ j <= k => -(k * k) <= i * j /\ i * j <= k * k
    <3> SUFFICES ASSUME NEW i \in Int, NEW j \in Int, NEW k \in Int, -k <= i, i <= k, -k <= j, j <= k
                 PROVE  -(k * k) <= i * j /\ i * j <= k * k
      OBVIOUS
    <3>1. (k - i) * (k + j) \in Int /\ (k - i) * (k + j) >= 0 /\ (k + i) * (k - j) \in Int /\ (k + i) * (k - j) >= 0
      <4>1. \A a, b \in Nat : a * b \in Int /\ a * b >= 0
        OBVIOUS
      <4>2. k - i \in Nat /\ k + i \in Nat /\ k - j \in Nat /\ k + j \in Nat
        OBVIOUS
      <4> QED
        BY <4>1, <4>2
    <3>2. (k - i) * (k - j) \in Int /\ (k - i) * (k - j) >= 0 /\ (k + i) * (k + j) \in Int /\ (k + i) * (k + j) >= 0
      <4>1. \A a, b \in Nat : a * b \in Int /\ a * b >= 0
        OBVIOUS
      <4>2. k - i \in Nat /\ k + i \in Nat /\ k - j \in Nat /\ k + j \in Nat
        OBVIOUS
      <4> QED
        BY <4>1, <4>2
    <3>3. (k - i) * (k + j) + (k + i) * (k - j) = 2 * (k * k) - 2 * (i * j)
      OBVIOUS
    <3>4. (k - i) * (k - j) + (k + i) * (k + j) = 2 * (k * k) + 2 * (i * j)
      OBVIOUS
    <3>5. k * k \in Int /\ i * j \in Int
      OBVIOUS
    <3> QED
      BY <3>1, <3>2, <3>3, <3>4, <3>5
  <2>2. -(s * s) <= u * v /\ u * v <= s * s
    <3>1. s \in Int /\ u <= s /\ v <= s
      BY <1>1, <1>2
    <3> QED
      BY <1>2, <2>1, <3>1
  <2>3. s * m = 2 * (s * s) /\ s * s \in Nat /\ s * s > 0
    <3>1. \A i \in Nat : i * (2 * i) = 2 * (i * i) /\ i * i \in Nat /\ (i > 0 => i * i > 0)
      OBVIOUS
    <3> QED
      BY <1>1, <3>1
  <2>4. u * v \in Int
    BY <1>2
  <2> QED
    BY <2>2, <2>3, <2>4
<1>6. (x * y) % m = (u * v) % m
  <2>1. \E j \in Int : x * y = m * j + u * v
    <3>1. PICK i \in {0, 1} : x = u + m * i
      BY <1>1, <1>2
    <3>2. PICK j \in {0, 1} : y = v + m * j
      BY <1>1, <1>2
    <3>3. x * y = m * (u * j + v * i + m * (j * i)) + u * v
      BY <1>1, <1>2, <3>1, <3>2
    <3>4. u * j + v * i + m * (j * i) \in Int
      BY <1>1, <1>2
    <3> QED
      BY <3>3, <3>4
  <2>2. PICK j \in Int : x * y = m * j + u * v
    BY <2>1
  <2> DEFINE p == u * v
             a == p \div m
             r == p % m
  <2>3. p \in Int
    BY <1>5
  <2> HIDE DEF p
  <2>4. a \in Int /\ r \in 0 .. m - 1 /\ p = m * a + r
    BY <1>1, <2>3, Splits
  <2> HIDE DEF a, r
  <2>5. x * y = m * (j + a) + r /\ j + a \in Int
    <3>1. m * (j + a) = m * j + m * a
      BY <1>1, <2>4
    <3>2. m * j \in Int /\ m * a \in Int
      BY <1>1, <2>4
    <3> QED
      BY <2>2, <2>4, <3>1, <3>2 DEF p
  <2>6. (m * (j + a) + r) % m = r
    BY <1>1, <2>4, <2>5, ModUnique
  <2> QED
    BY <2>5, <2>6 DEF r, p
<1> QED
  BY <1>3, <1>4, <1>5, <1>6

\* CF and OF of a product are just the condition that is passed.
LEMMA MulFlagsAre ==
  ASSUME NEW fl \in FlagSets, NEW v, NEW large
  PROVE  /\ MulFlags(fl, v, large) \in FlagSets
         /\ "CF" \in MulFlags(fl, v, large) <=> large
         /\ "OF" \in MulFlags(fl, v, large) <=> large
<1>1. SetCommFlags(fl, v) \in FlagSets
  BY CommFlagsAre
<1> QED
  BY <1>1, CarryOverflowIs DEF MulFlags

\* A step of a product that does what ProductDone says keeps the invariant.
LEMMA ProductKeeps ==
  ASSUME Typed, Followed, res = "ok", prog # <<>>, NEW src \in Nat, NEW r \in Registers, NEW fl \in FlagSets,
         Done(src, r, fl, "ok"), Current.op \in {"MUL", "IMUL", "IMUL2", "IMULI"},
         ProductDone(EntryOf(src), Outcome(r, fl, "ok"))
  PROVE  Typed' /\ Followed'
<1> DEFINE e == EntryOf(src)
           o == Outcome(r, fl, "ok")
<1>1. e.op = Current.op /\ o.res = "ok" /\ ProductDone(e, o)
  BY CurrentIs, OutcomeIs
<1> HIDE DEF e, o
<1>2. /\ e.op \notin ShiftOps /\ e.op \notin {"ADD", "ADC"} /\ e.op \notin {"SUB", "CMP"} /\ e.op # "SBB"
      /\ e.op \notin {"AAA", "AAS", "DAA", "DAS", "AAM", "AAD"} /\ e.op \notin {"DIV", "IDIV"} /\ e.op \notin {"INC", "DEC"}
  BY <1>1 DEF ShiftOps
<1>3. Does(e, o)
  BY <1>1, <1>2, Elsewhere DEF Does
<1> QED
  BY <1>3, StepKeeps DEF e, o

\* MUL and IMUL keep the invariant.
LEMMA MULKeeps ==
  ASSUME Typed, Followed, MUL
  PROVE  Typed' /\ Followed'
<1>1. res = "ok" /\ prog # <<>> /\ Current.op \in {"MUL", "IMUL"}
  BY DEF MUL, Runs
<1>2. PICK src \in Operands[size] :
        LET o == IF Current.op = "MUL" THEN Mul(regs.a, src, flags) ELSE Imul(regs.a, src, flags)
        IN  Done(src, o.regs, o.fl, "ok")
  BY DEF MUL
<1>3. size \in Sizes /\ src \in Numbers /\ src \in Nat /\ regs.a \in Numbers /\ flags \in FlagSets
  BY <1>1, OperandsAre, CurrentIs
<1> DEFINE a == regs.a
           e == EntryOf(src)
<1>4. e.op = Current.op /\ e.src = src /\ e.regs.a = a
  BY <1>1, CurrentIs
<1>5. a \in Numbers /\ a \in Nat
  BY <1>3, SpanIs DEF Numbers
<1> HIDE DEF e
<1>6. CASE Current.op = "MUL"
  <2> DEFINE n == a * src
             width == IF size = "B" THEN 2 * Width ELSE Width
             r == Halves(n)
             fl == MulFlags(flags, n % Mod, n \div Pow2[width] # 0)
             o == Outcome(r, fl, "ok")
  <2>1. Done(src, r, fl, "ok")
    BY <1>2, <1>6 DEF Mul
  <2>2. n \in Nat /\ n < Mod * Mod /\ n \in Int /\ 0 <= n
    <3> HIDE DEF a
    <3>1. n \in Nat /\ n < Mod * Mod
      BY <1>3, <1>5, ProductsFit
    <3> HIDE DEF n
    <3> QED
      BY <3>1
  <2>3. size # "B" => Pow2[width] = Mod
    BY DEF Mod
  <2>4. fl \in FlagSets /\ ("CF" \in fl <=> n \div Pow2[width] # 0) /\ ("OF" \in fl <=> n \div Pow2[width] # 0)
    <3> DEFINE large == n \div Pow2[width] # 0
               v == n % Mod
    <3>1. fl = MulFlags(flags, v, large)
      OBVIOUS
    <3> HIDE DEF fl, large, v
    <3>2. fl \in FlagSets /\ ("CF" \in fl <=> large) /\ ("OF" \in fl <=> large)
      BY <1>3, <3>1, MulFlagsAre
    <3> QED
      BY <3>2 DEF large
  <2>5. o.regs = r /\ o.flags = fl
    BY OutcomeIs
  <2>6. n = e.regs.a * e.src
    BY <1>4
  <2> HIDE DEF n, width, fl, o
  <2>7. r \in Registers /\ Wide(r) = n /\ r.d = n \div Mod
    BY <1>3, <2>2, HalvesAre
  <2> HIDE DEF r
  <2>8. size # "B" => ("CF" \in fl <=> r.d # 0) /\ ("OF" \in fl <=> r.d # 0)
    BY <2>3, <2>4, <2>7
  <2>9. ProductDone(e, o)
    BY <1>3, <1>4, <1>6, <2>5, <2>6, <2>7, <2>8 DEF ProductDone
  <2> QED
    BY <1>1, <1>3, <2>1, <2>4, <2>7, <2>9, ProductKeeps DEF e, o
<1>7. CASE Current.op = "IMUL"
  <2> DEFINE n == Signed(a) * Signed(src)
             r == Halves(n)
             fl == MulFlags(flags, n % Mod, ~Fits(n))
             o == Outcome(r, fl, "ok")
  <2>1. Done(src, r, fl, "ok")
    BY <1>2, <1>7 DEF Imul
  <2>2. n \in Int /\ -(Sign * Mod) <= n /\ n < Sign * Mod
    <3> HIDE DEF a
    <3> QED
      BY <1>3, <1>5, ProductsFit
  <2>3. fl \in FlagSets /\ ("CF" \in fl <=> ~Fits(n))
    BY <1>3, MulFlagsAre
  <2>4. o.regs = r /\ o.flags = fl
    BY OutcomeIs
  <2>5. n = Signed(e.regs.a) * Signed(e.src)
    BY <1>4
  <2>6. r.a = n % Mod
    BY DEF Halves
  <2> HIDE DEF n, fl, o
  <2>7. r \in Registers /\ SignedWide(r) = n
    BY <1>3, <2>2, HalvesAre
  <2> HIDE DEF r
  <2>8. "CF" \in fl <=> SignedWide(r) # Signed(r.a)
    BY <1>3, <2>2, <2>3, <2>6, <2>7, SignedOfMod
  <2>9. ProductDone(e, o)
    BY <1>4, <1>7, <2>4, <2>5, <2>7, <2>8 DEF ProductDone
  <2> QED
    BY <1>1, <1>3, <2>1, <2>3, <2>7, <2>9, ProductKeeps DEF e, o
<1> QED
  BY <1>1, <1>6, <1>7

\* IMUL with a destination keeps the invariant.
LEMMA IMUL2Keeps ==
  ASSUME Typed, Followed, IMUL2
  PROVE  Typed' /\ Followed'
<1>1. res = "ok" /\ prog # <<>> /\ Current.op \in {"IMUL2", "IMULI"}
  BY DEF IMUL2, Runs
<1>2. PICK src \in Operands[size] :
        IF size = "D" THEN Done(src, regs, flags, "bug")
        ELSE \E o \in Imul2(Dest, src, flags, Current.op = "IMULI") :
               Done(src, [regs EXCEPT ![Current.to] = o.v], o.fl, "ok")
  BY DEF IMUL2
<1>3. size \in Sizes /\ src \in Numbers /\ src \in Nat /\ Dest \in Numbers /\ flags \in FlagSets
  BY <1>1, OperandsAre, CurrentIs
<1>4. CASE size = "D"
  <2>1. Done(src, regs, flags, "bug") /\ Current.op \notin {"DIV", "IDIV"}
    BY <1>1, <1>2, <1>4
  <2> QED
    BY <1>1, <1>3, <2>1, FailureKeeps
<1>5. CASE size # "D"
  <2>1. PICK o \in Imul2(Dest, src, flags, Current.op = "IMULI") :
               Done(src, [regs EXCEPT ![Current.to] = o.v], o.fl, "ok")
    BY <1>2, <1>5
  <2> DEFINE n == IF Current.op = "IMULI" THEN Dest * src ELSE Signed(Dest) * Signed(src)
             comm(neg) == (flags \ {"ZF", "SF", "PF"})
                            \cup When(n = 0, "ZF") \cup When(neg, "SF") \cup When(EvenParity(n % 256), "PF")
             v == n % Mod
  <2>2. PICK neg, large : o = [v |-> v, fl |-> CarryOverflow(comm(neg), large, large)]
    <3> DEFINE over == n >= Mod * Sign
               S == IF over THEN BOOLEAN ELSE {n < 0}
               T == IF over THEN BOOLEAN ELSE {~Fits(n)}
               R(neg, large) == [v |-> v, fl |-> CarryOverflow(comm(neg), large, large)]
    <3>1. Imul2(Dest, src, flags, Current.op = "IMULI") = {R(neg, large) : neg \in S, large \in T}
      BY DEF Imul2
    <3> HIDE DEF S, T, R
    <3>2. PICK neg \in S, large \in T : o = R(neg, large)
      BY <3>1
    <3> QED
      BY <3>2 DEF R
  <2>3. comm(neg) \in FlagSets
    <3>1. When(n = 0, "ZF") \in FlagSets /\ When(neg, "SF") \in FlagSets /\ When(EvenParity(n % 256), "PF") \in FlagSets
      BY WhenIs DEF FlagNames
    <3> HIDE DEF n
    <3> QED
      BY <1>3, <3>1 DEF FlagSets
  <2>4. n \in Int /\ v = (Signed(Dest) * Signed(src)) % Mod
    <3>1. /\ Dest * src \in Nat /\ Signed(Dest) * Signed(src) \in Int
          /\ (Dest * src) % Mod = (Signed(Dest) * Signed(src)) % Mod
      BY <1>3, ProductsFit
    <3> DEFINE x == Dest * src
               y == Signed(Dest) * Signed(src)
    <3>2. x \in Int /\ y \in Int /\ x % Mod = y % Mod
      BY <3>1
    <3>3. n = IF Current.op = "IMULI" THEN x ELSE y
      OBVIOUS
    <3> HIDE DEF x, y, n
    <3>4. n \in Int /\ v = y % Mod
      BY <3>2, <3>3
    <3> QED
      BY <3>4 DEF y
  <2> HIDE DEF comm, n
  <2>5. v \in Numbers
    BY <1>3, <2>4, ModType
  <2> HIDE DEF v
  <2>6. o.v = v /\ o.fl \in FlagSets
    <3>1. CarryOverflow(comm(neg), large, large) \in FlagSets
      BY <2>3, CarryOverflowIs
    <3> QED
      BY <2>2, <3>1
  <2> DEFINE r == [regs EXCEPT ![Current.to] = v]
             e == EntryOf(src)
             w == Outcome(r, o.fl, "ok")
  <2>7. r \in Registers /\ r[Current.to] = v /\ e.op = Current.op /\ e.to = Current.to /\ e.src = src /\ Old(e) = Dest
    BY <1>1, <2>5, CurrentIs
  <2>8. w.regs = r
    BY OutcomeIs
  <2>9. Done(src, r, o.fl, "ok")
    BY <2>1, <2>6
  <2> HIDE DEF r, e, w
  <2>10. w.regs[e.to] = (Signed(Old(e)) * Signed(e.src)) % Mod
    BY <2>4, <2>7, <2>8
  <2>11. ProductDone(e, w)
    BY <1>1, <2>7, <2>10 DEF ProductDone
  <2> QED
    BY <1>1, <1>3, <2>6, <2>7, <2>9, <2>11, ProductKeeps DEF e, w
<1> QED
  BY <1>4, <1>5

\* Division that truncates: what it gives, and that nothing else would do.
Truncates(n, m, q) ==
  /\ q \in Int /\ q * m \in Int /\ n - q * m \in Int
  /\ Magnitude(n - q * m) < Magnitude(m)
  /\ n - q * m # 0 => (n - q * m < 0 <=> n < 0)

\* Quotient truncates, and no other quotient does.
LEMMA TruncatedDivision ==
  ASSUME NEW n \in Int, NEW m \in Int, m # 0
  PROVE  /\ Truncates(n, m, Quotient(n, m))
         /\ \A q \in Int : Truncates(n, m, q) => q = Quotient(n, m)
<1> DEFINE N == Magnitude(n)
           M == Magnitude(m)
           K == N \div M
           t == N % M
<1>1. N \in Nat /\ M \in Nat \ {0} /\ N \in Int
  BY DEF Magnitude
<1>2. K \in Nat /\ t \in 0 .. M - 1 /\ N = M * K + t /\ M * K \in Int
  <2> HIDE DEF N, M
  <2> QED
    BY <1>1, Splits
<1>3. \A j \in Int, r \in 0 .. M - 1 : N = M * j + r => j = K
  <2> SUFFICES ASSUME NEW j \in Int, NEW r \in 0 .. M - 1, N = M * j + r PROVE j = K
    OBVIOUS
  <2> HIDE DEF N, M
  <2>1. (M * j + r) \div M = j
    BY <1>1, DivUnique
  <2> QED
    BY <2>1
<1>4. Quotient(n, m) = IF (n < 0) = (m < 0) THEN K ELSE -K
  BY DEF Quotient
<1>5. /\ n < 0 => N = -n
      /\ ~(n < 0) => N = n
      /\ m < 0 => M = -m
      /\ ~(m < 0) => M = m
  BY DEF Magnitude
<1>6. \A x \in Int : Magnitude(x) = IF x < 0 THEN -x ELSE x
  BY DEF Magnitude
<1>7. Magnitude(m) = M
  OBVIOUS
<1> HIDE DEF N, M, K, t
<1>8. ASSUME NEW q \in Int, NEW j \in Int, j = q \/ j = -q, q * m = (IF n < 0 THEN -(M * j) ELSE M * j)
      PROVE  Truncates(n, m, q) <=> 0 <= N - M * j /\ N - M * j < M
  <2> DEFINE y == M * j
             x == q * m
  <2>1. y \in Int /\ x \in Int /\ x = IF n < 0 THEN -y ELSE y
    BY <1>1, <1>8
  <2>2. Truncates(n, m, q) <=> Magnitude(n - x) < M /\ (n - x # 0 => (n - x < 0 <=> n < 0))
    <3>1. q \in Int /\ x \in Int /\ n - x \in Int
      BY <2>1
    <3> QED
      BY <1>7, <3>1 DEF Truncates
  <2> HIDE DEF x, y
  <2>3. Magnitude(n - x) = IF n - x < 0 THEN -(n - x) ELSE n - x
    BY <1>6, <2>1
  <2>4. CASE n < 0
    <3>1. n - x = -(N - y) /\ N \in Int /\ N > 0 /\ M > 0
      BY <1>1, <1>5, <2>1, <2>4
    <3>2. Magnitude(n - x) < M /\ (n - x # 0 => (n - x < 0 <=> n < 0)) <=> 0 <= N - y /\ N - y < M
      BY <1>1, <2>1, <2>3, <2>4, <3>1
    <3> QED
      BY <2>2, <3>2 DEF y
  <2>5. CASE ~(n < 0)
    <3>1. n - x = N - y /\ N \in Int /\ M > 0
      BY <1>1, <1>5, <2>1, <2>5
    <3>2. Magnitude(n - x) < M /\ (n - x # 0 => (n - x < 0 <=> n < 0)) <=> 0 <= N - y /\ N - y < M
      BY <1>1, <2>1, <2>3, <2>5, <3>1
    <3> QED
      BY <2>2, <3>2 DEF y
  <2> QED
    BY <2>4, <2>5
<1>9. 0 <= N - M * K /\ N - M * K < M
  BY <1>1, <1>2
<1>10. \A j \in Int : 0 <= N - M * j /\ N - M * j < M => j = K
  <2> SUFFICES ASSUME NEW j \in Int, 0 <= N - M * j, N - M * j < M PROVE j = K
    OBVIOUS
  <2>1. M * j \in Int
    BY <1>1
  <2>2. N - M * j \in 0 .. M - 1 /\ N = M * j + (N - M * j)
    BY <1>1, <2>1
  <2> QED
    BY <1>3, <2>2
<1>11. CASE n < 0 <=> m < 0
  <2>1. Quotient(n, m) = K
    BY <1>4, <1>11
  <2>2. \A q \in Int : q * m = IF n < 0 THEN -(M * q) ELSE M * q
    BY <1>1, <1>5, <1>11
  <2>3. \A q \in Int : Truncates(n, m, q) <=> 0 <= N - M * q /\ N - M * q < M
    BY <1>8, <2>2
  <2>4. K \in Int
    BY <1>2
  <2> QED
    BY <1>9, <1>10, <2>1, <2>3, <2>4
<1>12. CASE ~(n < 0 <=> m < 0)
  <2>1. Quotient(n, m) = -K
    BY <1>4, <1>12
  <2>2. \A q \in Int : -q \in Int /\ q * m = IF n < 0 THEN -(M * (-q)) ELSE M * (-q)
    BY <1>1, <1>5, <1>12
  <2>3. \A q \in Int : Truncates(n, m, q) <=> 0 <= N - M * (-q) /\ N - M * (-q) < M
    BY <1>8, <2>2
  <2>4. -K \in Int /\ -(-K) = K
    BY <1>2
  <2>5. Truncates(n, m, -K)
    BY <1>9, <2>3, <2>4
  <2>6. \A q \in Int : Truncates(n, m, q) => q = -K
    <3> SUFFICES ASSUME NEW q \in Int, Truncates(n, m, q) PROVE q = -K
      OBVIOUS
    <3>1. -q \in Int /\ 0 <= N - M * (-q) /\ N - M * (-q) < M
      BY <2>3
    <3>2. -q = K
      BY <1>10, <3>1
    <3> QED
      BY <3>2
  <2> QED
    BY <2>1, <2>5, <2>6
<1> QED
  BY <1>11, <1>12

\* A step of a division that does what QuotientDone says keeps the invariant.
LEMMA DivisionKeeps ==
  ASSUME Typed, Followed, res = "ok", prog # <<>>, NEW src \in Nat, NEW r \in Registers, NEW x,
         Done(src, r, flags, x), x # "ok" => r = regs, Current.op \in {"DIV", "IDIV"},
         QuotientDone(EntryOf(src), Outcome(r, flags, x))
  PROVE  Typed' /\ Followed'
<1> DEFINE e == EntryOf(src)
           o == Outcome(r, flags, x)
<1>1. e.op = Current.op /\ e.regs = regs /\ o.regs = r /\ o.res = x /\ QuotientDone(e, o) /\ flags \in FlagSets
  BY CurrentIs, OutcomeIs, OperandsAre
<1> HIDE DEF e, o
<1>2. /\ e.op \notin ShiftOps /\ e.op \notin {"ADD", "ADC"} /\ e.op \notin {"SUB", "CMP"} /\ e.op # "SBB"
      /\ e.op \notin {"AAA", "AAS", "DAA", "DAS", "AAM", "AAD"} /\ e.op \notin {"MUL", "IMUL", "IMUL2", "IMULI"}
      /\ e.op \notin {"INC", "DEC"}
  BY <1>1 DEF ShiftOps
<1>3. Does(e, o)
  BY <1>1, <1>2, Elsewhere DEF Does
<1> QED
  BY <1>1, <1>3, StepKeeps DEF e, o

\* DIV keeps the invariant, with and without a quotient that fits.
LEMMA DIVKeeps ==
  ASSUME Typed, Followed, DIV
  PROVE  Typed' /\ Followed'
<1>1. res = "ok" /\ prog # <<>> /\ Current.op = "DIV"
  BY DEF DIV, Runs
<1>2. PICK src \in Operands[size] : Done(src, Div(regs, src).regs, flags, Div(regs, src).res)
  BY DEF DIV
<1>3. size \in Sizes /\ src \in Numbers /\ regs.a \in Numbers /\ regs.d \in Numbers /\ regs \in Registers
  BY <1>1, OperandsAre, CurrentIs
<1>4. Mod \in Nat /\ src \in Nat /\ src < Mod /\ regs.a \in Nat /\ regs.d \in Nat
  BY <1>3, SpanIs DEF Numbers
<1> DEFINE n == Wide(regs)
           q == n \div src
           e == EntryOf(src)
<1>5. n \in Nat
  BY <1>4 DEF Wide
<1>6. e.op = "DIV" /\ e.src = src /\ e.regs = regs
  BY <1>1, CurrentIs
<1>7. Div(regs, src) = IF src = 0 \/ q >= Mod THEN [res |-> "diverr", regs |-> regs]
                       ELSE [res |-> "ok", regs |-> [a |-> q, d |-> n % src]]
  BY DEF Div, Leaves
<1>8. n = Wide(e.regs)
  BY <1>6
<1> HIDE DEF n, e
<1>9. ASSUME src # 0 PROVE Truncates(n, src, q) /\ (\A j \in Int : Truncates(n, src, j) => j = q) /\ n % src = n - q * src /\ q \in Nat /\ n % src \in 0 .. src - 1
  <2>1. src \in Int /\ n \in Int /\ src \in Nat \ {0} /\ ~(n < 0) /\ ~(src < 0)
    BY <1>4, <1>5, <1>9
  <2>2. Truncates(n, src, Quotient(n, src)) /\ \A j \in Int : Truncates(n, src, j) => j = Quotient(n, src)
    BY <1>9, <2>1, TruncatedDivision
  <2>3. Quotient(n, src) = q
    BY <2>1 DEF Quotient, Magnitude
  <2> DEFINE t == n % src
  <2>4. q \in Nat /\ t \in 0 .. src - 1 /\ n = src * q + t
    <3> HIDE DEF q, t
    <3> QED
      BY <1>5, <2>1, Splits DEF q, t
  <2> HIDE DEF q, t
  <2>5. t = n - q * src
    <3>1. src * q = q * src /\ q * src \in Int
      BY <2>1, <2>4
    <3> QED
      BY <2>1, <2>4, <3>1
  <2> QED
    BY <2>2, <2>3, <2>4, <2>5 DEF t
<1>10. CASE src = 0 \/ q >= Mod
  <2> DEFINE o == Outcome(regs, flags, "diverr")
  <2>1. Done(src, regs, flags, "diverr")
    BY <1>2, <1>7, <1>10
  <2>2. o.res = "diverr"
    BY OutcomeIs
  <2> HIDE DEF o
  <2>3. ASSUME src # 0, NEW j \in 0 .. 0 + Mod - 1 PROVE ~(Magnitude(n - j * src) < Magnitude(src) /\ (n - j * src # 0 => (n - j * src < 0 <=> n < 0)))
    <3>1. j \in Int /\ j < Mod /\ j * src \in Int /\ n - j * src \in Int /\ q >= Mod
      BY <1>4, <1>5, <1>10, <2>3
    <3>2. j # q
      <4>1. q \in Nat
        BY <1>9, <2>3
      <4> HIDE DEF q
      <4> QED
        BY <1>4, <3>1, <4>1
    <3>3. ~Truncates(n, src, j)
      BY <1>9, <2>3, <3>1, <3>2
    <3> QED
      BY <3>1, <3>3 DEF Truncates
  <2>4. QuotientDone(e, o)
    BY <1>6, <1>8, <2>2, <2>3 DEF QuotientDone
  <2> QED
    BY <1>1, <1>3, <1>4, <2>1, <2>4, DivisionKeeps DEF e, o
<1>11. CASE ~(src = 0 \/ q >= Mod)
  <2> DEFINE t == n % src
             r == [a |-> q, d |-> t]
             o == Outcome(r, flags, "ok")
  <2>1. Done(src, r, flags, "ok")
    BY <1>2, <1>7, <1>11
  <2>2. o.res = "ok" /\ o.regs = r
    BY OutcomeIs
  <2>3. src # 0 /\ ~(q >= Mod)
    BY <1>11
  <2>4. Truncates(n, src, q) /\ t = n - q * src /\ q \in Nat /\ t \in 0 .. src - 1
    BY <1>9, <2>3
  <2>5. r.a = q /\ r.d = t
    OBVIOUS
  <2> HIDE DEF q, t
  <2>6. r \in Registers
    BY <1>4, <2>3, <2>4 DEF Registers, Numbers
  <2> HIDE DEF r, o
  <2>7. q * src + t = n /\ Magnitude(t) < Magnitude(src) /\ (t # 0 => (t < 0 <=> n < 0))
    <3>1. q * src \in Int
      BY <2>4 DEF Truncates
    <3>2. q * src + t = n
      BY <1>5, <2>4, <3>1
    <3> QED
      BY <2>4, <3>2 DEF Truncates
  <2>8. QuotientDone(e, o)
    BY <1>6, <1>8, <2>2, <2>5, <2>7 DEF QuotientDone
  <2> QED
    BY <1>1, <1>3, <1>4, <2>1, <2>6, <2>8, DivisionKeeps DEF e, o
<1> QED
  BY <1>10, <1>11

\* IDIV keeps the invariant, with and without a quotient that fits.
LEMMA IDIVKeeps ==
  ASSUME Typed, Followed, IDIV
  PROVE  Typed' /\ Followed'
<1>1. res = "ok" /\ prog # <<>> /\ Current.op = "IDIV"
  BY DEF IDIV, Runs
<1>2. PICK src \in Operands[size] : Done(src, Idiv(regs, src).regs, flags, Idiv(regs, src).res)
  BY DEF IDIV
<1>3. size \in Sizes /\ src \in Numbers /\ regs.a \in Numbers /\ regs.d \in Numbers /\ regs \in Registers
  BY <1>1, OperandsAre, CurrentIs
<1>4. Mod \in Nat /\ Sign \in Nat /\ Mod = 2 * Sign /\ src \in Nat
  BY <1>3, SpanIs DEF Numbers
<1> DEFINE n == SignedWide(regs)
           m == Signed(src)
           q == Quotient(n, m)
           t == Remainder(n, m)
           e == EntryOf(src)
<1>5. m \in Int /\ -Sign <= m /\ m < Sign /\ n \in Int
  <2>1. m \in Int /\ -Sign <= m /\ m < Sign /\ Signed(regs.d) \in Int /\ regs.a \in Nat
    BY <1>3, SignedIs
  <2> QED
    BY <1>4, <2>1 DEF SignedWide
<1>6. e.op = "IDIV" /\ e.src = src /\ e.regs = regs
  BY <1>1, CurrentIs
<1>7. Idiv(regs, src) = IF m = 0 THEN [res |-> "diverr", regs |-> regs]
                        ELSE IF size # "B" /\ m = -1 /\ n = -(Mod * Sign) THEN [res |-> "trap", regs |-> regs]
                        ELSE IF size = "D" \/ ~Fits(q) THEN [res |-> "diverr", regs |-> regs]
                        ELSE [res |-> "ok", regs |-> [a |-> q % Mod, d |-> t % Mod]]
  BY DEF Idiv, Leaves
<1>8. n = SignedWide(e.regs) /\ m = Signed(e.src) /\ t = n - q * m
  BY <1>6 DEF Remainder
<1> HIDE DEF n, m, e, t
<1>9. ASSUME m # 0 PROVE Truncates(n, m, q) /\ \A j \in Int : Truncates(n, m, j) => j = q
  BY <1>5, <1>9, TruncatedDivision
<1> HIDE DEF q
<1>10. ASSUME NEW x, x # "ok", Done(src, regs, flags, x), x = "diverr" /\ size # "D" => m = 0 \/ ~Fits(q) PROVE Typed' /\ Followed'
  <2> DEFINE o == Outcome(regs, flags, x)
  <2>1. o.res = x
    BY OutcomeIs
  <2> HIDE DEF o
  <2>2. ASSUME x = "diverr", size # "D", m # 0, NEW j \in -Sign .. -Sign + Mod - 1
        PROVE  ~(Magnitude(n - j * m) < Magnitude(m) /\ (n - j * m # 0 => (n - j * m < 0 <=> n < 0)))
    <3>1. j \in Int /\ j * m \in Int /\ n - j * m \in Int
      BY <1>4, <1>5
    <3>2. Fits(j)
      BY <1>4, <3>1 DEF Fits
    <3>3. ~Truncates(n, m, j)
      BY <1>9, <1>10, <2>2, <3>1, <3>2
    <3> QED
      BY <3>1, <3>3 DEF Truncates
  <2>3. QuotientDone(e, o)
    BY <1>6, <1>8, <1>10, <2>1, <2>2 DEF QuotientDone
  <2> QED
    BY <1>1, <1>3, <1>4, <1>10, <2>3, DivisionKeeps DEF e, o
<1>11. CASE m = 0
  <2>1. Done(src, regs, flags, "diverr")
    BY <1>2, <1>7, <1>11
  <2> QED
    BY <1>10, <1>11, <2>1
<1>12. CASE m # 0 /\ size # "B" /\ m = -1 /\ n = -(Mod * Sign)
  <2>1. Done(src, regs, flags, "trap")
    BY <1>2, <1>7, <1>12
  <2> QED
    BY <1>10, <2>1
<1>13. CASE m # 0 /\ ~(size # "B" /\ m = -1 /\ n = -(Mod * Sign)) /\ (size = "D" \/ ~Fits(q))
  <2>1. Done(src, regs, flags, "diverr")
    BY <1>2, <1>7, <1>13
  <2> QED
    BY <1>10, <1>13, <2>1
<1>14. CASE m # 0 /\ ~(size # "B" /\ m = -1 /\ n = -(Mod * Sign)) /\ ~(size = "D" \/ ~Fits(q))
  <2> DEFINE a == q % Mod
             d == t % Mod
             r == [a |-> a, d |-> d]
             o == Outcome(r, flags, "ok")
  <2>1. Done(src, r, flags, "ok")
    BY <1>2, <1>7, <1>14
  <2>2. o.res = "ok" /\ o.regs = r /\ r.a = a /\ r.d = d
    BY OutcomeIs
  <2>3. Truncates(n, m, q) /\ m # 0 /\ Fits(q)
    BY <1>9, <1>14
  <2>4. q \in Int /\ t \in Int /\ q * m \in Int /\ q * m + t = n
    <3>1. q \in Int /\ q * m \in Int
      BY <2>3 DEF Truncates
    <3> QED
      BY <1>5, <1>8, <3>1
  <2>5. Magnitude(t) < Magnitude(m) /\ (t # 0 => (t < 0 <=> n < 0))
    BY <1>8, <2>3 DEF Truncates
  <2>6. Fits(t)
    BY <1>4, <1>5, <2>4, <2>5 DEF Fits, Magnitude
  <2>7. Signed(a) = q /\ Signed(d) = t /\ a \in Numbers /\ d \in Numbers
    BY <1>3, <2>3, <2>4, <2>6, SignedOfMod, ModType
  <2> HIDE DEF a, d
  <2>8. r \in Registers
    BY <2>7 DEF Registers
  <2> HIDE DEF r, o
  <2>9. QuotientDone(e, o)
    BY <1>6, <1>8, <2>2, <2>4, <2>5, <2>7 DEF QuotientDone
  <2> QED
    BY <1>1, <1>3, <1>4, <2>1, <2>8, <2>9, DivisionKeeps DEF e, o
<1> QED
  BY <1>11, <1>12, <1>13, <1>14

-----------------------------------------------------------------------------
(* Bits that move.                                                         *)

\* Quotient and remainder of a number without sign.
LEMMA NatSplits ==
  ASSUME NEW n \in Nat \ {0}, NEW a \in Nat
  PROVE  a \div n \in Nat /\ a % n \in 0 .. n - 1 /\ a = n * (a \div n) + (a % n)
<1>1. a \in Int
  OBVIOUS
<1> QED
  BY <1>1, Splits

\* Dividing by a product is dividing by one factor and then by the other.
LEMMA DivTwice ==
  ASSUME NEW a \in Nat \ {0}, NEW b \in Nat \ {0}, NEW x \in Nat
  PROVE  (x \div a) \div b = x \div (a * b)
<1> DEFINE q == x \div a
           r == x % a
           p == q \div b
           s == q % b
           c == a * b
<1>1. q \in Nat /\ r \in 0 .. a - 1 /\ x = a * q + r
  BY NatSplits
<1>2. p \in Nat /\ s \in 0 .. b - 1 /\ q = b * p + s
  <2> HIDE DEF q
  <2> QED
    BY <1>1, NatSplits
<1>3. c \in Nat \ {0}
  BY SMT
<1> HIDE DEF q, r, p, s
<1>4. x = c * p + (a * s + r)
  <2>1. a * (b * p + s) = c * p + a * s
    BY <1>2
  <2>2. c * p \in Int /\ a * s \in Int
    BY <1>2
  <2> HIDE DEF c
  <2> QED
    BY <1>1, <1>2, <2>1, <2>2
<1>5. a * s + r \in 0 .. c - 1
  <2>1. a * s <= a * (b - 1) /\ a * s \in Nat
    BY <1>2
  <2>2. a * (b - 1) = c - a
    OBVIOUS
  <2> HIDE DEF c
  <2> QED
    BY <1>1, <1>2, <1>3, <2>1, <2>2
<1>6. (c * p + (a * s + r)) \div c = p
  <2> DEFINE t == a * s + r
  <2>1. t \in 0 .. c - 1 /\ p \in Int
    BY <1>2, <1>5
  <2> HIDE DEF t, c
  <2>2. (c * p + t) \div c = p
    BY <1>3, <2>1, DivUnique
  <2> QED
    BY <2>2 DEF t
<1> QED
  BY <1>4, <1>6 DEF p, q

\* The bits of a number shifted down ...
LEMMA BitOfQuotient ==
  ASSUME NEW x \in Nat, NEW n \in Nat, NEW i \in Nat, n + i <= MaxBits
  PROVE  x \div Pow2[n] \in Nat /\ Bit(x \div Pow2[n], i) = Bit(x, n + i)
<1>1. n \in 0..MaxBits /\ i \in 0..MaxBits
  BY WidthsAre
<1> DEFINE a == Pow2[n]
           b == Pow2[i]
<1>2. a \in Nat \ {0} /\ b \in Nat \ {0}
  BY <1>1, PowerType
<1>3. Pow2[n + i] = a * b
  BY PowersMultiply
<1> HIDE DEF a, b
<1>4. (x \div a) \div b = x \div (a * b) /\ x \div a \in Nat
  BY <1>2, DivTwice, NatSplits
<1> QED
  BY <1>3, <1>4 DEF Bit, a, b

\* ... of one shifted up ...
LEMMA BitOfMultiple ==
  ASSUME NEW x \in Nat, NEW n \in Nat, NEW i \in Nat, n <= MaxBits, i <= MaxBits
  PROVE  x * Pow2[n] \in Nat /\ Bit(x * Pow2[n], i) = IF i < n THEN 0 ELSE Bit(x, i - n)
<1>1. n \in 0..MaxBits /\ i \in 0..MaxBits
  BY WidthsAre
<1> DEFINE a == Pow2[n]
<1>2. a \in Nat \ {0}
  BY <1>1, PowerType
<1> HIDE DEF a
<1>3. x * a \in Nat /\ x * a = a * x /\ a * x \in Nat
  BY <1>2
<1>4. CASE i < n
  <2>1. Bit(0 + a * x, i) = Bit(0, i)
    BY <1>1, <1>4, BitBelow DEF a
  <2>2. Bit(0, i) = 0
    <3>1. Pow2[i] \in Nat \ {0}
      BY <1>1, PowerType
    <3> DEFINE b == Pow2[i]
    <3>2. b \in Nat \ {0} /\ 0 \in 0 .. b - 1 /\ b * 0 + 0 = 0
      BY <3>1
    <3> HIDE DEF b
    <3>3. (b * 0 + 0) \div b = 0
      BY <3>2, DivUnique
    <3> QED
      BY <3>2, <3>3 DEF Bit, b
  <2>3. 0 + a * x = x * a
    BY <1>3
  <2> QED
    BY <1>3, <1>4, <2>1, <2>2, <2>3 DEF a
<1>5. CASE ~(i < n)
  <2>1. i - n \in Nat /\ n + (i - n) = i
    BY <1>5
  <2>2. Bit((x * a) \div a, i - n) = Bit(x * a, i)
    <3>1. n + (i - n) <= MaxBits
      BY <2>1
    <3> DEFINE y == x * a
               j == i - n
    <3>2. y \in Nat /\ j \in Nat /\ n + j <= MaxBits /\ n + j = i
      BY <1>3, <2>1, <3>1
    <3> HIDE DEF y, j
    <3>3. Bit(y \div a, j) = Bit(y, n + j)
      BY <3>2, BitOfQuotient DEF a
    <3> QED
      BY <3>2, <3>3 DEF y, j
  <2>3. (x * a) \div a = x
    <3>1. 0 \in 0 .. a - 1 /\ x \in Int /\ a * x + 0 = x * a
      BY <1>2, <1>3
    <3>2. (a * x + 0) \div a = x
      BY <1>2, <3>1, DivUnique
    <3> QED
      BY <3>1, <3>2
  <2> QED
    BY <1>3, <1>5, <2>2, <2>3 DEF a
<1> QED
  BY <1>4, <1>5

\* ... and of one cut off.
LEMMA BitOfRemainder ==
  ASSUME NEW x \in Nat, NEW k \in 0..MaxBits, NEW i \in Nat, i <= MaxBits
  PROVE  /\ x % Pow2[k] \in Nat /\ x % Pow2[k] < Pow2[k]
         /\ i < k => Bit(x % Pow2[k], i) = Bit(x, i)
         /\ x < Pow2[k] /\ i >= k => Bit(x, i) = 0
<1> DEFINE a == Pow2[k]
           q == x \div a
           r == x % a
<1>1. a \in Nat \ {0}
  BY PowerType
<1>2. q \in Nat /\ r \in 0 .. a - 1 /\ x = a * q + r
  <2> HIDE DEF a
  <2> QED
    BY <1>1, NatSplits
<1> HIDE DEF q, r
<1>3. r \in Nat /\ r < a
  BY <1>1, <1>2
<1>4. ASSUME i < k PROVE Bit(r, i) = Bit(x, i)
  <2>1. Bit(r + a * q, i) = Bit(r, i)
    BY <1>2, <1>3, <1>4, BitBelow
  <2>2. r + a * q = x
    <3>1. a * q \in Int
      BY <1>1, <1>2
    <3> QED
      BY <1>2, <1>3, <3>1
  <2> QED
    BY <2>1, <2>2
<1>5. ASSUME x < a, i >= k PROVE Bit(x, i) = 0
  <2> DEFINE b == Pow2[i]
             c == Pow2[i - k]
  <2>1. i - k \in Nat /\ k + (i - k) = i /\ k \in Nat /\ i \in 0..MaxBits /\ i - k \in 0..MaxBits
    BY <1>5, WidthsAre
  <2>2. b \in Nat \ {0} /\ c \in Nat \ {0}
    BY <2>1, PowerType
  <2>3. b = a * c
    BY <2>1, PowersMultiply
  <2> HIDE DEF b, c, a
  <2>4. a <= b
    <3>1. \A u, v \in Nat : v >= 1 => u <= u * v
      OBVIOUS
    <3> QED
      BY <1>1, <2>2, <2>3, <3>1
  <2>5. x \in 0 .. b - 1 /\ b * 0 + x = x
    BY <1>1, <1>5, <2>2, <2>4
  <2>6. (b * 0 + x) \div b = 0
    BY <2>2, <2>5, DivUnique
  <2> QED
    BY <2>5, <2>6 DEF Bit, b
<1> QED
  BY <1>3, <1>4, <1>5 DEF r

\* All bits of the largest number are set, and none of zero.
LEMMA AllBits ==
  ASSUME size \in Sizes, NEW i \in 0 .. Width - 1
  PROVE  Bit(Mod - 1, i) = 1 /\ Bit(0, i) = 0
<1>1. Width \in Nat /\ Width <= MaxBits /\ i \in Nat /\ Mod = Pow2[Width] /\ MaxBits \in Nat
  BY SpanIs, WidthsAre DEF Mod
<1> DEFINE k == Width - i
           a == Pow2[i]
           b == Pow2[k]
           c == Pow2[k - 1]
<1>2. k \in Nat /\ i + k = Width /\ k \in 1..MaxBits /\ k \in 0..MaxBits /\ k - 1 \in 0..MaxBits /\ i \in 0..MaxBits
  BY <1>1
<1>3. a \in Nat \ {0} /\ b \in Nat \ {0} /\ c \in Nat \ {0}
  BY <1>2, PowerType
<1>4. Pow2[i + k] = a * b
  <2> HIDE DEF k
  <2> QED
    BY <1>1, <1>2, PowersMultiply
<1>5. b = 2 * c
  BY <1>2, PowersDouble
<1>6. Mod = a * b
  BY <1>1, <1>2, <1>4
<1>7. Bit(Mod - 1, i) = ((Mod - 1) \div a) % 2 /\ Bit(0, i) = (0 \div a) % 2
  BY DEF Bit
<1> HIDE DEF a, b, c
<1>8. Mod - 1 = a * (b - 1) + (a - 1) /\ a - 1 \in 0 .. a - 1 /\ b - 1 \in Int /\ 0 \in 0 .. a - 1 /\ a * 0 + 0 = 0
  <2>1. a * (b - 1) = a * b - a /\ a * b \in Int
    BY <1>3
  <2> QED
    BY <1>3, <1>6, <2>1
<1>9. (a * (b - 1) + (a - 1)) \div a = b - 1 /\ (a * 0 + 0) \div a = 0
  BY <1>3, <1>8, DivUnique
<1>10. (b - 1) % 2 = 1 /\ 0 % 2 = 0
  BY <1>3, <1>5
<1> QED
  BY <1>7, <1>8, <1>9, <1>10

-----------------------------------------------------------------------------
(* Shifts.                                                                 *)

\* A shift left moves every bit n places up and fills with zeros.
LEMMA LeftIs ==
  ASSUME size \in Sizes, NEW x \in Numbers, NEW n \in Nat
  PROVE  /\ Left(x, n) \in Numbers
         /\ \A i \in 0 .. Width - 1 : Bit(Left(x, n), i) = IF i < n THEN 0 ELSE Bit(x, i - n)
<1>1. /\ Width \in Nat /\ Width <= MaxBits /\ MaxBits \in Nat /\ Mod = Pow2[Width] /\ Mod \in Nat /\ Mod > 0
      /\ x \in Nat
  BY SpanIs, WidthsAre DEF Mod, Numbers
<1>2. CASE n >= Width
  <2>1. Left(x, n) = 0 /\ 0 \in Numbers
    BY <1>1, <1>2 DEF Left, Numbers
  <2>2. \A i \in 0 .. Width - 1 : i < n
    BY <1>1, <1>2
  <2> QED
    BY <2>1, <2>2, AllBits
<1>3. CASE ~(n >= Width)
  <2> DEFINE k == Width - n
             y == x % Pow2[k]
  <2>1. k \in Nat /\ k \in 0..MaxBits /\ n + k = Width /\ n \in 0..MaxBits /\ n <= MaxBits
    BY <1>1, <1>3
  <2>2. Left(x, n) = y * Pow2[n]
    BY <1>3 DEF Left
  <2> HIDE DEF k
  <2>3. y \in Nat /\ y < Pow2[k]
    <3>1. 0 \in Nat /\ 0 <= MaxBits
      BY <1>1
    <3> QED
      BY <1>1, <2>1, <3>1, BitOfRemainder
  <2>4. \A i \in Nat : i < k => Bit(y, i) = Bit(x, i)
    <3>1. \A i \in Nat : i < k => i <= MaxBits
      BY <1>1, <2>1
    <3> QED
      BY <1>1, <2>1, <3>1, BitOfRemainder
  <2> HIDE DEF y
  <2>5. y * Pow2[n] \in Nat /\ y * Pow2[n] < Mod
    <3>1. Pow2[n] \in Nat \ {0} /\ Pow2[k] \in Nat
      BY <2>1, PowerType
    <3>2. Pow2[n + k] = Pow2[n] * Pow2[k]
      BY <1>1, <2>1, PowersMultiply
    <3>3. \A a, b, c \in Nat : a > 0 /\ b < c => b * a \in Nat /\ b * a < a * c
      <4> SUFFICES ASSUME NEW a \in Nat, NEW b \in Nat, NEW c \in Nat, a > 0, b < c PROVE b * a \in Nat /\ b * a < a * c
        OBVIOUS
      <4>1. a * c = b * a + a * (c - b) /\ b * a \in Nat
        OBVIOUS
      <4>2. a * (c - b) \in Nat /\ a * (c - b) > 0
        OBVIOUS
      <4> QED
        BY <4>1, <4>2
    <3> QED
      BY <1>1, <2>1, <2>3, <3>1, <3>2, <3>3
  <2>6. ASSUME NEW i \in 0 .. Width - 1 PROVE Bit(y * Pow2[n], i) = IF i < n THEN 0 ELSE Bit(x, i - n)
    <3>1. i \in Nat /\ i <= MaxBits
      BY <1>1
    <3>2. Bit(y * Pow2[n], i) = IF i < n THEN 0 ELSE Bit(y, i - n)
      BY <2>1, <2>3, <3>1, BitOfMultiple
    <3>3. ~(i < n) => i - n \in Nat /\ i - n < k
      BY <1>1, <2>1, <3>1
    <3> QED
      BY <2>4, <3>2, <3>3
  <2> DEFINE z == y * Pow2[n]
  <2>7. z \in Numbers
    BY <1>1, <2>5 DEF Numbers
  <2>8. Left(x, n) = z /\ \A i \in 0 .. Width - 1 : Bit(z, i) = IF i < n THEN 0 ELSE Bit(x, i - n)
    BY <2>2, <2>6
  <2> HIDE DEF z
  <2> QED
    BY <2>7, <2>8
<1> QED
  BY <1>2, <1>3

\* A shift right moves every bit n places down and fills with zeros.
LEMMA RightIs ==
  ASSUME size \in Sizes, NEW x \in Numbers, NEW n \in Nat, n <= Width
  PROVE  /\ Right(x, n) \in Numbers
         /\ \A i \in 0 .. Width - 1 : Bit(Right(x, n), i) = IF i + n < Width THEN Bit(x, i + n) ELSE 0
<1>1. /\ Width \in Nat /\ Width <= MaxBits /\ MaxBits \in Nat /\ Mod = Pow2[Width] /\ Mod \in Nat /\ Mod > 0
      /\ x \in Nat /\ x < Mod
  BY SpanIs, WidthsAre DEF Mod, Numbers
<1> DEFINE k == Width - n
           y == x \div Pow2[n]
<1>2. k \in Nat /\ k \in 0..MaxBits /\ n + k = Width /\ n \in 0..MaxBits
  BY <1>1
<1>3. Pow2[n] \in Nat \ {0} /\ Pow2[k] \in Nat \ {0}
  BY <1>2, PowerType
<1>4. Mod = Pow2[n] * Pow2[k]
  <2>1. k \in Nat /\ n + k = Width /\ n + k <= MaxBits
    BY <1>1, <1>2
  <2> HIDE DEF k
  <2>2. Pow2[n + k] = Pow2[n] * Pow2[k]
    BY <2>1, PowersMultiply
  <2> QED
    BY <1>1, <2>1, <2>2
<1> HIDE DEF k
<1>5. y \in Nat /\ y <= x /\ y < Pow2[k]
  <2> DEFINE a == Pow2[n]
             c == Pow2[k]
  <2>1. a \in Nat \ {0} /\ c \in Nat \ {0} /\ Mod = a * c /\ x \in Int /\ y = x \div a
    BY <1>1, <1>3, <1>4
  <2> HIDE DEF a, c, y
  <2>2. y \in Nat /\ a * y <= x /\ y <= x
    BY <1>1, <2>1, Splits
  <2>3. \A u, v, w \in Nat : u > 0 /\ v >= w => u * w <= u * v
    OBVIOUS
  <2>4. a * y \in Nat /\ a * c \in Nat
    BY <2>1, <2>2
  <2>5. y < c
    BY <1>1, <2>1, <2>2, <2>3, <2>4
  <2> QED
    BY <2>2, <2>5 DEF c
<1>6. Right(x, n) = y
  BY DEF Right
<1>7. ASSUME NEW i \in 0 .. Width - 1 PROVE Bit(y, i) = IF i + n < Width THEN Bit(x, i + n) ELSE 0
  <2>1. i \in Nat /\ i <= MaxBits
    BY <1>1
  <2>2. CASE i + n < Width
    <3>1. n + i <= MaxBits /\ i + n = n + i
      BY <1>1, <2>1, <2>2
    <3>2. Bit(x \div Pow2[n], i) = Bit(x, n + i)
      BY <1>1, <2>1, <3>1, BitOfQuotient
    <3> QED
      BY <2>2, <3>1, <3>2
  <2>3. CASE ~(i + n < Width)
    <3>1. i >= k
      BY <1>1, <1>2, <2>1, <2>3
    <3> HIDE DEF y
    <3>2. Bit(y, i) = 0
      BY <1>2, <1>5, <2>1, <3>1, BitOfRemainder
    <3> QED
      BY <2>3, <3>2
  <2> QED
    BY <2>2, <2>3
<1>8. y \in Numbers
  BY <1>1, <1>5 DEF Numbers
<1> QED
  BY <1>6, <1>7, <1>8

\* A disjunction of two numbers that share no bit has, at each position, the bit of the one it belongs to.
LEMMA JoinIs ==
  ASSUME size \in Sizes, NEW x \in Numbers, NEW y \in Numbers
  PROVE  /\ Or(x, y) \in Numbers
         /\ \A i \in 0 .. Width - 1 : /\ Bit(x, i) = 0 => Bit(Or(x, y), i) = Bit(y, i)
                                      /\ Bit(y, i) = 0 => Bit(Or(x, y), i) = Bit(x, i)
<1>1. \A i \in 0 .. Width - 1 : i \in 0..MaxBits
  BY SpanIs, WidthsAre
<1>2. x \in Nat
  BY SpanIs DEF Numbers
<1>3. \A i \in 0 .. Width - 1 : Bit(x, i) \in 0..1
  BY <1>1, <1>2, BitType
<1>4. \A i \in 0 .. Width - 1 : Bit(x, i) = 0 \/ Bit(x, i) = 1
  BY <1>3
<1> QED
  BY <1>4, BitOpsAre

\* A sum has the same remainder when a part is replaced by its own remainder.
LEMMA ModAdd ==
  ASSUME NEW m \in Nat \ {0}, NEW i \in Int, NEW n \in Int
  PROVE  (i + (n % m)) % m = (i + n) % m
<1> DEFINE q == n \div m
           r == n % m
           p == (i + r) \div m
           s == (i + r) % m
<1>1. q \in Int /\ r \in 0 .. m - 1 /\ n = m * q + r
  BY Splits
<1>2. p \in Int /\ s \in 0 .. m - 1 /\ i + r = m * p + s
  <2>1. i + r \in Int
    BY <1>1
  <2> HIDE DEF r
  <2> QED
    BY <2>1, Splits
<1>3. s = (i + r) % m
  OBVIOUS
<1> HIDE DEF q, r, p, s
<1>4. i + n = m * (q + p) + s /\ q + p \in Int
  <2>1. m * (q + p) = m * q + m * p
    BY <1>1, <1>2
  <2>2. m * q \in Int /\ m * p \in Int
    BY <1>1, <1>2
  <2> QED
    BY <1>1, <1>2, <2>1, <2>2
<1>5. (m * (q + p) + s) % m = s
  BY <1>2, <1>4, ModUnique
<1>6. (i + n) % m = (i + r) % m
  BY <1>3, <1>4, <1>5, Zenon
<1> QED
  BY <1>6 DEF r

\* What the shifts do, to a number l, n places: it becomes v, with the flags new.
ShlMeans(l, n, v, new) ==
  /\ \A i \in 0 .. Width - 1 : Bit(v, i) = (IF i < n THEN 0 ELSE Bit(l, i - n))
  /\ n > 0 => Carry(new) = (IF n > Width THEN 0 ELSE Bit(l, Width - n))
ShrMeans(l, n, v, new) ==
  /\ \A i \in 0 .. Width - 1 : Bit(v, i) = (IF i + n < Width THEN Bit(l, i + n) ELSE 0)
  /\ n > 0 => Carry(new) = (IF n > Width THEN 0 ELSE Bit(l, n - 1))
SarMeans(l, n, v, new) ==
  /\ \A i \in 0 .. Width - 1 : Bit(v, i) = Bit(l, IF i + n < Width THEN i + n ELSE Width - 1)
  /\ n > 0 => Carry(new) = Bit(l, IF n > Width THEN Width - 1 ELSE n - 1)

\* CF after a shift is the condition that is passed, whatever the result.
LEMMA ShiftFlagsAre ==
  ASSUME NEW fl \in FlagSets, NEW carry, NEW over, NEW v
  PROVE  /\ SetCommFlags(CarryOverflow(fl, carry, over), v) \in FlagSets
         /\ "CF" \in SetCommFlags(CarryOverflow(fl, carry, over), v) <=> carry
<1>1. CarryOverflow(fl, carry, over) \in FlagSets /\ ("CF" \in CarryOverflow(fl, carry, over) <=> carry)
  BY CarryOverflowIs
<1> QED
  BY <1>1, CommFlagsAre

\* A position of an operand has a bit, 0 or 1.
LEMMA BitOf ==
  ASSUME size \in Sizes, NEW x \in Numbers, NEW i \in 0 .. Width - 1
  PROVE  Bit(x, i) = 0 \/ Bit(x, i) = 1
<1>1. i \in 0..MaxBits /\ x \in Nat
  BY SpanIs, WidthsAre DEF Numbers
<1>2. Bit(x, i) \in 0..1
  BY <1>1, BitType
<1> QED
  BY <1>2

\* SHL moves bits up by any count, and CF is the last one out.
LEMMA ShlIs ==
  ASSUME size \in Sizes, NEW l \in Numbers, NEW fl \in FlagSets, NEW src \in Nat, NEW o \in Shl(l, src, fl)
  PROVE  /\ IsResult(o) /\ ShlMeans(l, src % 32, o.v, o.fl)
         /\ src % 32 = 0 => o.v = l /\ o.fl = fl
<1> DEFINE n == src % 32
           v == Left(l, n)
           carry == n <= Width /\ Bit(l, Width - n) = 1
<1>1. n \in Nat
  BY SMT
<1>2. Width \in Nat
  BY SpanIs
<1>3. n = src % 32
  OBVIOUS
<1>4. Shl(l, src, fl) =
        IF n = 0 THEN {[v |-> l, fl |-> fl]}
        ELSE {[v |-> v, fl |-> SetCommFlags(CarryOverflow(fl, carry, over), v)] :
                over \in IF n = Width THEN BOOLEAN ELSE {n < Width /\ carry # (Bit(l, Width - n - 1) = 1)}}
  BY DEF Shl
<1> HIDE DEF n
<1>5. CASE n = 0
  <2>1. o = [v |-> l, fl |-> fl]
    BY <1>4, <1>5
  <2>2. \A i \in 0 .. Width - 1 : ~(i < n) /\ i - n = i
    BY <1>2, <1>5
  <2>3. ShlMeans(l, n, l, fl)
    BY <1>5, <2>2 DEF ShlMeans
  <2> QED
    BY <1>3, <2>1, <2>3 DEF IsResult
<1>6. CASE n # 0
  <2> DEFINE S == IF n = Width THEN BOOLEAN ELSE {n < Width /\ carry # (Bit(l, Width - n - 1) = 1)}
  <2>1. \E over : o = [v |-> v, fl |-> SetCommFlags(CarryOverflow(fl, carry, over), v)]
    <3>1. o \in {[v |-> v, fl |-> SetCommFlags(CarryOverflow(fl, carry, over), v)] : over \in S}
      BY <1>4, <1>6
    <3> HIDE DEF S, v, carry
    <3> QED
      BY <3>1
  <2>2. PICK over : o = [v |-> v, fl |-> SetCommFlags(CarryOverflow(fl, carry, over), v)]
    BY <2>1
  <2>3. v \in Numbers /\ \A i \in 0 .. Width - 1 : Bit(v, i) = IF i < n THEN 0 ELSE Bit(l, i - n)
    BY <1>1, LeftIs
  <2>4. (n <= Width => Bit(l, Width - n) = 0 \/ Bit(l, Width - n) = 1) /\ (carry <=> n <= Width /\ Bit(l, Width - n) = 1)
    <3>1. n <= Width => Width - n \in 0 .. Width - 1
      BY <1>1, <1>2, <1>6
    <3> QED
      BY <3>1, BitOf
  <2> HIDE DEF v, carry
  <2>5. o.v = v /\ o.fl \in FlagSets /\ ("CF" \in o.fl <=> carry) /\ IsResult(o)
    <3>1. /\ SetCommFlags(CarryOverflow(fl, carry, over), v) \in FlagSets
          /\ "CF" \in SetCommFlags(CarryOverflow(fl, carry, over), v) <=> carry
      BY ShiftFlagsAre
    <3> QED
      BY <2>2, <2>3, <3>1 DEF IsResult
  <2>6. Carry(o.fl) = IF n > Width THEN 0 ELSE Bit(l, Width - n)
    BY <1>1, <1>2, <2>4, <2>5 DEF Carry
  <2>7. ShlMeans(l, n, o.v, o.fl)
    BY <2>3, <2>5, <2>6 DEF ShlMeans
  <2> QED
    BY <1>3, <1>6, <2>5, <2>7
<1> QED
  BY <1>5, <1>6

\* SHR moves bits down by any count, and CF is the last one out.
LEMMA ShrIs ==
  ASSUME size \in Sizes, NEW l \in Numbers, NEW fl \in FlagSets, NEW src \in Nat, NEW o, o = Shr(l, src, fl)
  PROVE  /\ IsResult(o) /\ ShrMeans(l, src % 32, o.v, o.fl)
         /\ src % 32 = 0 => o.v = l /\ o.fl = fl
<1> DEFINE n == src % 32
           v == IF n > Width THEN 0 ELSE Right(l, n)
           carry == n <= Width /\ Bit(l, n - 1) = 1
           over == Top(v) # Second(v)
<1>1. n \in Nat
  BY SMT
<1>2. Width \in Nat
  BY SpanIs
<1>3. n = src % 32
  OBVIOUS
<1>4. o = IF n = 0 THEN [v |-> l, fl |-> fl] ELSE [v |-> v, fl |-> SetCommFlags(CarryOverflow(fl, carry, over), v)]
  BY DEF Shr
<1> HIDE DEF n
<1>5. CASE n = 0
  <2>1. o = [v |-> l, fl |-> fl]
    BY <1>4, <1>5
  <2>2. \A i \in 0 .. Width - 1 : i + n < Width /\ i + n = i
    BY <1>2, <1>5
  <2>3. ShrMeans(l, n, l, fl)
    BY <1>5, <2>2 DEF ShrMeans
  <2> QED
    BY <1>3, <2>1, <2>3 DEF IsResult
<1>6. CASE n # 0
  <2>1. o = [v |-> v, fl |-> SetCommFlags(CarryOverflow(fl, carry, over), v)]
    BY <1>4, <1>6
  <2>2. v \in Numbers /\ \A i \in 0 .. Width - 1 : Bit(v, i) = IF i + n < Width THEN Bit(l, i + n) ELSE 0
    <3>1. CASE n > Width
      <4>1. \A i \in 0 .. Width - 1 : ~(i + n < Width)
        BY <1>1, <1>2, <3>1
      <4>2. 0 \in Numbers
        BY SpanIs DEF Numbers
      <4> QED
        BY <3>1, <4>1, <4>2, AllBits
    <3>2. CASE ~(n > Width)
      <4>1. v = Right(l, n) /\ n <= Width
        BY <1>1, <1>2, <3>2
      <4> HIDE DEF v
      <4> QED
        BY <1>1, <4>1, RightIs
    <3> QED
      BY <3>1, <3>2
  <2>3. (n <= Width => Bit(l, n - 1) = 0 \/ Bit(l, n - 1) = 1) /\ (carry <=> n <= Width /\ Bit(l, n - 1) = 1)
    <3>1. n <= Width => n - 1 \in 0 .. Width - 1
      BY <1>1, <1>2, <1>6
    <3> QED
      BY <3>1, BitOf
  <2> HIDE DEF v, carry, over
  <2>4. o.v = v /\ o.fl \in FlagSets /\ ("CF" \in o.fl <=> carry) /\ IsResult(o)
    <3>1. /\ SetCommFlags(CarryOverflow(fl, carry, over), v) \in FlagSets
          /\ "CF" \in SetCommFlags(CarryOverflow(fl, carry, over), v) <=> carry
      BY ShiftFlagsAre
    <3> QED
      BY <2>1, <2>2, <3>1 DEF IsResult
  <2>5. Carry(o.fl) = IF n > Width THEN 0 ELSE Bit(l, n - 1)
    BY <1>1, <1>2, <2>3, <2>4 DEF Carry
  <2>6. ShrMeans(l, n, o.v, o.fl)
    BY <2>2, <2>4, <2>5 DEF ShrMeans
  <2> QED
    BY <1>3, <1>6, <2>4, <2>6
<1> QED
  BY <1>5, <1>6

\* SAR moves bits down by any count and repeats the sign.
LEMMA SarIs ==
  ASSUME size \in Sizes, NEW l \in Numbers, NEW fl \in FlagSets, NEW src \in Nat, NEW o, o = Sar(l, src, fl)
  PROVE  /\ IsResult(o) /\ SarMeans(l, src % 32, o.v, o.fl)
         /\ src % 32 = 0 => o.v = l /\ o.fl = fl
<1> DEFINE n == src % 32
           fill == IF Top(l) = 1 THEN Mod - 1 ELSE 0
           v == IF n >= Width THEN fill ELSE Or(Right(l, n), Left(fill, Width - n))
           carry == IF n >= Width THEN Top(l) = 1 ELSE Bit(l, n - 1) = 1
           over == Top(v) # Second(v)
<1>1. n \in Nat
  BY SMT
<1>2. Width \in Nat /\ Width - 1 \in 0 .. Width - 1
  BY SpanIs
<1>3. n = src % 32
  OBVIOUS
<1>4. o = IF n = 0 THEN [v |-> l, fl |-> fl] ELSE [v |-> v, fl |-> SetCommFlags(CarryOverflow(fl, carry, over), v)]
  BY DEF Sar
<1> HIDE DEF n
<1>5. CASE n = 0
  <2>1. o = [v |-> l, fl |-> fl]
    BY <1>4, <1>5
  <2>2. \A i \in 0 .. Width - 1 : i + n < Width /\ i + n = i
    BY <1>2, <1>5
  <2>3. SarMeans(l, n, l, fl)
    BY <1>5, <2>2 DEF SarMeans
  <2> QED
    BY <1>3, <2>1, <2>3 DEF IsResult
<1>6. CASE n # 0
  <2>1. o = [v |-> v, fl |-> SetCommFlags(CarryOverflow(fl, carry, over), v)]
    BY <1>4, <1>6
  <2>2. fill \in Numbers /\ \A i \in 0 .. Width - 1 : Bit(fill, i) = Bit(l, Width - 1)
    <3>1. Bit(l, Width - 1) = 0 \/ Bit(l, Width - 1) = 1
      BY <1>2, BitOf
    <3>2. Mod - 1 \in Numbers /\ 0 \in Numbers
      BY SpanIs DEF Numbers
    <3> QED
      BY <3>1, <3>2, AllBits DEF Top
  <2> HIDE DEF fill
  <2>3. v \in Numbers /\ \A i \in 0 .. Width - 1 : Bit(v, i) = Bit(l, IF i + n < Width THEN i + n ELSE Width - 1)
    <3>1. CASE n >= Width
      <4>1. \A i \in 0 .. Width - 1 : ~(i + n < Width)
        BY <1>1, <1>2, <3>1
      <4> QED
        BY <2>2, <3>1, <4>1
    <3>2. CASE ~(n >= Width)
      <4> DEFINE x == Right(l, n)
                 y == Left(fill, Width - n)
      <4>1. v = Or(x, y) /\ n <= Width /\ Width - n \in Nat
        BY <1>1, <1>2, <3>2
      <4>2. x \in Numbers /\ \A i \in 0 .. Width - 1 : Bit(x, i) = IF i + n < Width THEN Bit(l, i + n) ELSE 0
        BY <1>1, <4>1, RightIs
      <4>3. y \in Numbers /\ \A i \in 0 .. Width - 1 : Bit(y, i) = IF i < Width - n THEN 0 ELSE Bit(fill, i - (Width - n))
        BY <2>2, <4>1, LeftIs
      <4> HIDE DEF x, y, v
      <4>4. v \in Numbers
        BY <4>1, <4>2, <4>3, JoinIs
      <4>5. ASSUME NEW i \in 0 .. Width - 1 PROVE Bit(v, i) = Bit(l, IF i + n < Width THEN i + n ELSE Width - 1)
        <5>1. CASE i + n < Width
          <6>1. i < Width - n
            BY <1>1, <1>2, <5>1
          <6>2. Bit(y, i) = 0 /\ Bit(x, i) = Bit(l, i + n)
            BY <4>2, <4>3, <5>1, <6>1
          <6> QED
            BY <4>1, <4>2, <4>3, <5>1, <6>2, JoinIs
        <5>2. CASE ~(i + n < Width)
          <6>1. ~(i < Width - n) /\ i - (Width - n) \in 0 .. Width - 1
            BY <1>1, <1>2, <3>2, <5>2
          <6>2. Bit(x, i) = 0 /\ Bit(y, i) = Bit(l, Width - 1)
            BY <2>2, <4>2, <4>3, <5>2, <6>1
          <6> QED
            BY <4>1, <4>2, <4>3, <5>2, <6>2, JoinIs
        <5> QED
          BY <5>1, <5>2
      <4> QED
        BY <4>4, <4>5
    <3> QED
      BY <3>1, <3>2
  <2>4. carry <=> Bit(l, IF n > Width THEN Width - 1 ELSE n - 1) = 1
    <3>1. CASE n >= Width
      <4>1. (IF n > Width THEN Width - 1 ELSE n - 1) = Width - 1
        BY <1>1, <1>2, <3>1
      <4> QED
        BY <3>1, <4>1 DEF Top
    <3>2. CASE ~(n >= Width)
      <4>1. (IF n > Width THEN Width - 1 ELSE n - 1) = n - 1
        BY <1>1, <1>2, <3>2
      <4> QED
        BY <3>2, <4>1
    <3> QED
      BY <3>1, <3>2
  <2> HIDE DEF v, carry, over
  <2>5. o.v = v /\ o.fl \in FlagSets /\ ("CF" \in o.fl <=> carry) /\ IsResult(o)
    <3>1. /\ SetCommFlags(CarryOverflow(fl, carry, over), v) \in FlagSets
          /\ "CF" \in SetCommFlags(CarryOverflow(fl, carry, over), v) <=> carry
      BY ShiftFlagsAre
    <3> QED
      BY <2>1, <2>3, <3>1 DEF IsResult
  <2>6. Carry(o.fl) = Bit(l, IF n > Width THEN Width - 1 ELSE n - 1)
    <3> DEFINE i == IF n > Width THEN Width - 1 ELSE n - 1
    <3>1. i \in 0 .. Width - 1
      BY <1>1, <1>2, <1>6
    <3>2. carry <=> Bit(l, i) = 1
      BY <2>4
    <3> HIDE DEF i
    <3>3. Bit(l, i) = 0 \/ Bit(l, i) = 1
      BY <3>1, BitOf
    <3>4. Carry(o.fl) = Bit(l, i)
      BY <2>5, <3>2, <3>3 DEF Carry
    <3> QED
      BY <3>4 DEF i
  <2>7. SarMeans(l, n, o.v, o.fl)
    BY <2>3, <2>5, <2>6 DEF SarMeans
  <2> QED
    BY <1>3, <1>6, <2>5, <2>7
<1> QED
  BY <1>5, <1>6

-----------------------------------------------------------------------------
(* Rotations.                                                              *)

RolMeans(l, n, v) == \A i \in 0 .. Width - 1 : Bit(v, (i + n) % Width) = Bit(l, i)
RorMeans(l, n, v) == \A i \in 0 .. Width - 1 : Bit(v, i) = Bit(l, (i + n) % Width)
LastOut(n, v, i, new) == n % Width # 0 => Carry(new) = Bit(v, i)

\* ROL turns the number by any count.
LEMMA RolIs ==
  ASSUME size \in Sizes, NEW l \in Numbers, NEW fl \in FlagSets, NEW src \in Nat, NEW o, o = Rol(l, src, fl)
  PROVE  /\ IsResult(o) /\ RolMeans(l, src % 32, o.v) /\ LastOut(src % 32, o.v, 0, o.fl)
         /\ src % 32 = 0 => o.v = l /\ o.fl = fl
<1> DEFINE n == src % 32
           amt == n % Width
           x == Left(l, amt)
           y == Right(l, Width - amt)
           v == Or(x, y)
<1>0. n = src % 32 /\ amt = n % Width
  OBVIOUS
<1>1. n \in Nat
  BY SMT
<1>2. Width \in Nat \ {0}
  BY SpanIs
<1>3. n = src % 32
  BY <1>0
<1>4. o = IF amt = 0 THEN [v |-> l, fl |-> fl] ELSE [v |-> v, fl |-> CarryOverflow(fl, v % 2 = 1, Top(v) # v % 2)]
  BY DEF Rol
<1> HIDE DEF n
<1>5. amt \in 0 .. Width - 1 /\ \A i \in Int : (i + n) % Width = (i + amt) % Width
  <2>1. n \in Int
    BY <1>1
  <2>2. amt \in 0 .. Width - 1
    BY <1>2, <2>1, Divided
  <2>3. ASSUME NEW i \in Int PROVE (i + n) % Width = (i + amt) % Width
    <3>1. (i + (n % Width)) % Width = (i + n) % Width
      BY <1>2, <2>1, ModAdd, Zenon
    <3> QED
      BY <3>1, Zenon
  <2> QED
    BY <2>2, <2>3
<1>6. n = 0 => amt = 0
  <2>1. n = 0 => n % Width = n
    BY <1>2, WrapsOnce
  <2> QED
    BY <2>1
<1> HIDE DEF amt
<1>7. \A i \in 0 .. Width - 1 : (i + amt) % Width = IF i + amt < Width THEN i + amt ELSE i + amt - Width
  <2> TAKE i \in 0 .. Width - 1
  <2> DEFINE j == i + amt
  <2>1. j = i + amt /\ j \in Int /\ 0 <= j /\ j < 2 * Width /\ Width \in Nat /\ Width > 0
    BY <1>2, <1>5
  <2> HIDE DEF j
  <2>2. j % Width = IF j < Width THEN j ELSE j - Width
    BY <2>1, WrapsOnce
  <2>3. (i + amt) % Width = j % Width
    BY <2>1, Zenon
  <2>4. CASE j < Width
    <3>1. j % Width = j /\ i + amt < Width
      BY <2>1, <2>2, <2>4
    <3> QED
      BY <2>1, <2>3, <3>1, Zenon
  <2>5. CASE ~(j < Width)
    <3>1. j % Width = j - Width /\ ~(i + amt < Width)
      BY <2>1, <2>2, <2>5
    <3>2. j - Width = i + amt - Width
      BY <1>2, <1>5, <2>1
    <3> QED
      BY <2>3, <2>5, <3>1, <3>2, Zenon
  <2> QED
    BY <2>4, <2>5
<1>8. \A i \in 0 .. Width - 1 : i \in Int
  BY <1>2
<1>9. CASE amt = 0
  <2>1. o = [v |-> l, fl |-> fl]
    BY <1>4, <1>9
  <2>2. \A i \in 0 .. Width - 1 : (i + n) % Width = i
    BY <1>2, <1>5, <1>7, <1>9
  <2>3. RolMeans(l, n, l)
    BY <2>2 DEF RolMeans
  <2>4. LastOut(n, o.v, 0, o.fl)
    BY <1>0, <1>9 DEF LastOut
  <2> QED
    BY <1>3, <2>1, <2>3, <2>4 DEF IsResult
<1>10. CASE amt # 0
  <2>1. o.v = v /\ o = [v |-> v, fl |-> CarryOverflow(fl, v % 2 = 1, Top(v) # v % 2)]
    BY <1>4, <1>10
  <2>2. CarryOverflow(fl, v % 2 = 1, Top(v) # v % 2) \in FlagSets
    BY CarryOverflowIs
  <2>3. amt \in Nat /\ Width - amt \in Nat /\ Width - amt <= Width
    BY <1>2, <1>5
  <2>4. x \in Numbers /\ \A i \in 0 .. Width - 1 : Bit(x, i) = IF i < amt THEN 0 ELSE Bit(l, i - amt)
    BY <2>3, LeftIs
  <2>5. y \in Numbers /\ \A i \in 0 .. Width - 1 : Bit(y, i) = IF i + (Width - amt) < Width THEN Bit(l, i + (Width - amt)) ELSE 0
    BY <2>3, RightIs
  <2> HIDE DEF x, y
  <2>6. v \in Numbers
    BY <2>4, <2>5, JoinIs
  <2>7. ASSUME NEW i \in 0 .. Width - 1 PROVE Bit(v, (i + n) % Width) = Bit(l, i)
    <3> DEFINE j == (i + amt) % Width
    <3>1. (i + n) % Width = j /\ j = IF i + amt < Width THEN i + amt ELSE i + amt - Width
      BY <1>5, <1>7, <1>8
    <3> HIDE DEF j
    <3>2. CASE i + amt < Width
      <4>1. j \in 0 .. Width - 1 /\ ~(j < amt) /\ j - amt = i /\ ~(j + (Width - amt) < Width)
        BY <1>2, <1>5, <3>1, <3>2
      <4>2. Bit(y, j) = 0 /\ Bit(x, j) = Bit(l, i)
        BY <2>4, <2>5, <4>1
      <4> QED
        BY <2>4, <2>5, <3>1, <4>1, <4>2, JoinIs
    <3>3. CASE ~(i + amt < Width)
      <4>1. j \in 0 .. Width - 1 /\ j < amt /\ j + (Width - amt) = i /\ i < Width
        BY <1>2, <1>5, <3>1, <3>3
      <4>2. Bit(x, j) = 0 /\ Bit(y, j) = Bit(l, i)
        BY <2>4, <2>5, <4>1
      <4> QED
        BY <2>4, <2>5, <3>1, <4>1, <4>2, JoinIs
    <3> QED
      BY <3>2, <3>3
  <2> HIDE DEF v
  <2>8. RolMeans(l, n, v)
    BY <2>7 DEF RolMeans
  <2>9. IsResult(o)
    BY <2>1, <2>2, <2>6 DEF IsResult
  <2>10. LastOut(n, v, 0, o.fl)
    <3>1. "CF" \in o.fl <=> v % 2 = 1
      <4>1. o.fl = CarryOverflow(fl, v % 2 = 1, Top(v) # v % 2)
        BY <2>1
      <4>2. "CF" \in CarryOverflow(fl, v % 2 = 1, Top(v) # v % 2) <=> v % 2 = 1
        BY CarryOverflowIs, Zenon
      <4> QED
        BY <4>1, <4>2, Zenon
    <3>2. Bit(v, 0) = (v \div 1) % 2
      BY PowersDouble DEF Bit
    <3>3. v \div 1 = v /\ v % 2 \in 0..1
      BY <2>6, SpanIs DEF Numbers
    <3> QED
      BY <3>1, <3>2, <3>3 DEF LastOut, Carry
  <2> QED
    BY <1>3, <1>6, <1>10, <2>1, <2>8, <2>9, <2>10
<1> QED
  BY <1>9, <1>10

\* ROR turns the number back by any count.
LEMMA RorIs ==
  ASSUME size \in Sizes, NEW l \in Numbers, NEW fl \in FlagSets, NEW src \in Nat, NEW o, o = Ror(l, src, fl)
  PROVE  /\ IsResult(o) /\ RorMeans(l, src % 32, o.v) /\ LastOut(src % 32, o.v, Width - 1, o.fl)
         /\ src % 32 = 0 => o.v = l /\ o.fl = fl
<1> DEFINE n == src % 32
           amt == n % Width
           x == Right(l, amt)
           y == Left(l, Width - amt)
           v == Or(x, y)
<1>0. n = src % 32 /\ amt = n % Width
  OBVIOUS
<1>1. n \in Nat
  BY SMT
<1>2. Width \in Nat \ {0}
  BY SpanIs
<1>3. n = src % 32
  BY <1>0
<1>4. o = IF amt = 0 THEN [v |-> l, fl |-> fl] ELSE [v |-> v, fl |-> CarryOverflow(fl, Top(v) = 1, Top(v) # Second(v))]
  BY DEF Ror
<1> HIDE DEF n
<1>5. amt \in 0 .. Width - 1 /\ \A i \in Int : (i + n) % Width = (i + amt) % Width
  <2>1. n \in Int
    BY <1>1
  <2>2. amt \in 0 .. Width - 1
    BY <1>2, <2>1, Divided
  <2>3. ASSUME NEW i \in Int PROVE (i + n) % Width = (i + amt) % Width
    <3>1. (i + (n % Width)) % Width = (i + n) % Width
      BY <1>2, <2>1, ModAdd, Zenon
    <3> QED
      BY <3>1, Zenon
  <2> QED
    BY <2>2, <2>3
<1>6. n = 0 => amt = 0
  <2>1. n = 0 => n % Width = n
    BY <1>2, WrapsOnce
  <2> QED
    BY <2>1
<1> HIDE DEF amt
<1>7. \A i \in 0 .. Width - 1 : (i + amt) % Width = IF i + amt < Width THEN i + amt ELSE i + amt - Width
  <2> TAKE i \in 0 .. Width - 1
  <2> DEFINE j == i + amt
  <2>1. j = i + amt /\ j \in Int /\ 0 <= j /\ j < 2 * Width /\ Width \in Nat /\ Width > 0
    BY <1>2, <1>5
  <2> HIDE DEF j
  <2>2. j % Width = IF j < Width THEN j ELSE j - Width
    BY <2>1, WrapsOnce
  <2>3. (i + amt) % Width = j % Width
    BY <2>1, Zenon
  <2>4. CASE j < Width
    <3>1. j % Width = j /\ i + amt < Width
      BY <2>1, <2>2, <2>4
    <3> QED
      BY <2>1, <2>3, <3>1, Zenon
  <2>5. CASE ~(j < Width)
    <3>1. j % Width = j - Width /\ ~(i + amt < Width)
      BY <2>1, <2>2, <2>5
    <3>2. j - Width = i + amt - Width
      BY <1>2, <1>5, <2>1
    <3> QED
      BY <2>3, <2>5, <3>1, <3>2, Zenon
  <2> QED
    BY <2>4, <2>5
<1>8. \A i \in 0 .. Width - 1 : i \in Int
  BY <1>2
<1>9. CASE amt = 0
  <2>1. o = [v |-> l, fl |-> fl]
    BY <1>4, <1>9
  <2>2. \A i \in 0 .. Width - 1 : (i + n) % Width = i
    BY <1>2, <1>5, <1>7, <1>9
  <2>3. RorMeans(l, n, l)
    BY <2>2 DEF RorMeans
  <2>4. LastOut(n, o.v, Width - 1, o.fl)
    BY <1>0, <1>9 DEF LastOut
  <2> QED
    BY <1>3, <2>1, <2>3, <2>4 DEF IsResult
<1>10. CASE amt # 0
  <2>1. o.v = v /\ o = [v |-> v, fl |-> CarryOverflow(fl, Top(v) = 1, Top(v) # Second(v))]
    BY <1>4, <1>10
  <2>2. CarryOverflow(fl, Top(v) = 1, Top(v) # Second(v)) \in FlagSets
    BY CarryOverflowIs
  <2>3. amt \in Nat /\ Width - amt \in Nat /\ amt <= Width
    BY <1>2, <1>5
  <2>4. x \in Numbers /\ \A i \in 0 .. Width - 1 : Bit(x, i) = IF i + amt < Width THEN Bit(l, i + amt) ELSE 0
    BY <2>3, RightIs
  <2>5. y \in Numbers /\ \A i \in 0 .. Width - 1 : Bit(y, i) = IF i < Width - amt THEN 0 ELSE Bit(l, i - (Width - amt))
    BY <2>3, LeftIs
  <2> HIDE DEF x, y
  <2>6. v \in Numbers
    BY <2>4, <2>5, JoinIs
  <2>7. ASSUME NEW i \in 0 .. Width - 1 PROVE Bit(v, i) = Bit(l, (i + n) % Width)
    <3> DEFINE j == (i + amt) % Width
    <3>1. (i + n) % Width = j /\ j = IF i + amt < Width THEN i + amt ELSE i + amt - Width
      BY <1>5, <1>7, <1>8
    <3> HIDE DEF j
    <3>2. CASE i + amt < Width
      <4>1. i < Width - amt /\ j = i + amt
        BY <1>2, <1>5, <3>1, <3>2
      <4>2. Bit(y, i) = 0 /\ Bit(x, i) = Bit(l, j)
        BY <2>4, <2>5, <3>2, <4>1
      <4> QED
        BY <2>4, <2>5, <3>1, <4>2, JoinIs
    <3>3. CASE ~(i + amt < Width)
      <4>1. ~(i < Width - amt) /\ i - (Width - amt) = j
        BY <1>2, <1>5, <3>1, <3>3
      <4>2. Bit(x, i) = 0 /\ Bit(y, i) = Bit(l, j)
        BY <2>4, <2>5, <3>3, <4>1
      <4> QED
        BY <2>4, <2>5, <3>1, <4>2, JoinIs
    <3> QED
      BY <3>2, <3>3
  <2> HIDE DEF v
  <2>8. RorMeans(l, n, v)
    BY <2>7 DEF RorMeans
  <2>9. IsResult(o)
    BY <2>1, <2>2, <2>6 DEF IsResult
  <2>10. LastOut(n, v, Width - 1, o.fl)
    <3>1. "CF" \in o.fl <=> Bit(v, Width - 1) = 1
      <4>1. o.fl = CarryOverflow(fl, Top(v) = 1, Top(v) # Second(v))
        BY <2>1
      <4>2. "CF" \in CarryOverflow(fl, Top(v) = 1, Top(v) # Second(v)) <=> Top(v) = 1
        BY CarryOverflowIs, Zenon
      <4> QED
        BY <4>1, <4>2, Zenon DEF Top
    <3>2. Bit(v, Width - 1) \in 0..1
      BY <2>6, TopBit
    <3> QED
      BY <3>1, <3>2 DEF LastOut, Carry
  <2> QED
    BY <1>3, <1>6, <1>10, <2>1, <2>8, <2>9, <2>10
<1> QED
  BY <1>9, <1>10

\* A number and the carry above it, as a ring.
Rings == [val : Numbers, cf : 0..1]
Ring(s, i) == IF i = Width THEN s.cf ELSE Bit(s.val, i)

\* One round of RCL turns number and CF by one place.
LEMMA RoundLeft ==
  ASSUME size \in Sizes, NEW s \in Rings
  PROVE  /\ RotateLeft(s) \in Rings
         /\ \A i \in 0..Width : Ring(RotateLeft(s), (i + 1) % (Width + 1)) = Ring(s, i)
<1> DEFINE w == Width
           x == s.val
           c == s.cf
           k == w - 1
           y == x % Pow2[k]
           z == Left(x, 1)
           v == z + c
           t == RotateLeft(s)
<1>1. w \in Nat /\ w >= 8 /\ w <= MaxBits /\ MaxBits \in Nat /\ Mod = Pow2[w] /\ Mod \in Nat /\ w = Width /\ k \in 0..MaxBits /\ w \in 1..MaxBits
  BY SpanIs, WidthsAre DEF Mod
<1>2. x \in Numbers /\ c \in 0..1 /\ x \in Nat
  BY SpanIs DEF Rings, Numbers
<1>3. t = [val |-> v, cf |-> Bit(x, k)]
  BY DEF RotateLeft, Top
<1>4. z = y * 2
  <2>1. ~(1 >= w) /\ Pow2[1] = 2
    BY <1>1, SmallPowers
  <2> QED
    BY <2>1 DEF Left
<1>5. y \in Nat /\ y < Pow2[k] /\ Mod = 2 * Pow2[k] /\ \A i \in Nat : i < k => Bit(y, i) = Bit(x, i)
  <2>1. Pow2[w] = 2 * Pow2[k]
    BY <1>1, PowersDouble
  <2>2. 0 \in Nat /\ 0 <= MaxBits /\ k \in 0..MaxBits /\ \A i \in Nat : i < k => i <= MaxBits
    BY <1>1
  <2> HIDE DEF k
  <2> QED
    BY <1>1, <1>2, <2>1, <2>2, BitOfRemainder
<1>6. w = Width /\ x = s.val /\ c = s.cf
  OBVIOUS
<1>7. k = w - 1
  OBVIOUS
<1>8. k \in 0 .. w - 1 /\ k \in Nat
  BY <1>1
<1> HIDE DEF y, z, k, w, x, c
<1>9. v \in Nat /\ v < Mod
  <2>1. Pow2[k] \in Nat
    BY <1>1, PowerType
  <2> QED
    BY <1>2, <1>4, <1>5, <2>1
<1>10. Bit(v, 0) = c
  <2>1. Bit(v, 0) = (v \div 1) % 2
    BY PowersDouble DEF Bit
  <2>2. v \div 1 = v /\ v % 2 = c
    BY <1>2, <1>4, <1>5
  <2> QED
    BY <2>1, <2>2
<1>11. ASSUME NEW i \in Nat, i < k PROVE Bit(v, i + 1) = Bit(x, i)
  <2>1. v \div 2 = y
    BY <1>2, <1>4, <1>5
  <2>2. 1 \in Nat /\ 1 + i <= MaxBits /\ 1 + i = i + 1 /\ Pow2[1] = 2
    BY <1>1, <1>7, <1>11, SmallPowers
  <2> HIDE DEF v
  <2>3. Bit(v \div 2, i) = Bit(v, i + 1)
    <3>1. Bit(v \div Pow2[1], i) = Bit(v, 1 + i)
      BY <1>9, <1>11, <2>2, BitOfQuotient
    <3> QED
      BY <2>2, <3>1
  <2> QED
    BY <1>5, <1>11, <2>1, <2>3
<1> HIDE DEF v, t
<1>12. Bit(x, k) \in 0..1
  BY <1>1, <1>2, BitType
<1>13. t \in Rings /\ t.val = v /\ t.cf = Bit(x, k)
  <2>1. v \in Numbers
    BY <1>1, <1>9 DEF Numbers
  <2> QED
    BY <1>3, <1>12, <2>1 DEF Rings
<1>14. ASSUME NEW i \in 0..w PROVE Ring(t, (i + 1) % (w + 1)) = Ring(s, i)
  <2>1. (i + 1) % (w + 1) = IF i = w THEN 0 ELSE i + 1
    <3>1. i + 1 \in Int /\ 0 <= i + 1 /\ i + 1 < 2 * (w + 1) /\ w + 1 \in Nat /\ w + 1 > 0
      BY <1>1
    <3>2. (i + 1) % (w + 1) = IF i + 1 < w + 1 THEN i + 1 ELSE i + 1 - (w + 1)
      BY <3>1, WrapsOnce
    <3> QED
      BY <1>1, <3>2
  <2>2. CASE i = w
    <3>1. (i + 1) % (w + 1) = 0 /\ 0 # w
      BY <1>1, <2>1, <2>2
    <3> QED
      BY <1>6, <1>10, <1>13, <2>2, <3>1 DEF Ring
  <2>3. CASE i = k
    <3>1. (i + 1) % (w + 1) = w /\ i # w
      BY <1>1, <1>7, <2>1, <2>3
    <3> QED
      BY <1>6, <1>13, <2>3, <3>1 DEF Ring
  <2>4. CASE i # k /\ i # w
    <3>1. (i + 1) % (w + 1) = i + 1 /\ i + 1 # w /\ i \in Nat /\ i < k
      BY <1>1, <1>7, <2>1, <2>4
    <3>2. Bit(v, i + 1) = Bit(x, i)
      BY <1>11, <3>1
    <3> QED
      BY <1>6, <1>13, <2>4, <3>1, <3>2 DEF Ring
  <2> QED
    BY <2>2, <2>3, <2>4
<1> QED
  BY <1>6, <1>13, <1>14 DEF t

\* One round of RCR turns number and CF back by one place.
LEMMA RoundRight ==
  ASSUME size \in Sizes, NEW s \in Rings
  PROVE  /\ RotateRight(s) \in Rings
         /\ \A i \in 0..Width : Ring(RotateRight(s), i) = Ring(s, (i + 1) % (Width + 1))
<1> DEFINE w == Width
           x == s.val
           c == s.cf
           k == w - 1
           y == Right(x, 1)
           v == y + c * Sign
           t == RotateRight(s)
<1>1. /\ w \in Nat /\ w >= 8 /\ w <= MaxBits /\ MaxBits \in Nat /\ Mod \in Nat /\ w = Width
      /\ k \in 0..MaxBits /\ Mod = 2 * Sign /\ Sign \in Nat /\ Sign = Pow2[k]
  BY SpanIs, WidthsAre DEF Sign
<1>2. x \in Numbers /\ c \in 0..1 /\ x \in Nat /\ x < Mod
  BY SpanIs DEF Rings, Numbers
<1>3. t = [val |-> v, cf |-> x % 2]
  BY DEF RotateRight
<1>4. y = x \div 2
  BY SmallPowers DEF Right
<1>5. x % 2 = Bit(x, 0) /\ x % 2 \in 0..1
  <2>1. Bit(x, 0) = (x \div 1) % 2
    BY PowersDouble DEF Bit
  <2>2. x \div 1 = x /\ x % 2 \in 0..1
    BY <1>2
  <2> QED
    BY <2>1, <2>2
<1>6. w = Width /\ x = s.val /\ c = s.cf
  OBVIOUS
<1>7. k = w - 1
  OBVIOUS
<1> HIDE DEF y, k, w, x, c
<1>8. y \in Nat /\ y < Sign
  BY <1>1, <1>2, <1>4
<1>9. v = y + Pow2[k] * c /\ v \in Nat /\ v < Mod
  <2>1. c = 0 \/ c = 1
    BY <1>2
  <2> QED
    BY <1>1, <1>8, <2>1
<1>10. Bit(v, k) = c
  BY <1>1, <1>2, <1>8, <1>9, BitAbove
<1>11. ASSUME NEW i \in Nat, i < k PROVE Bit(v, i) = Bit(x, i + 1)
  <2>1. c \in Nat
    BY <1>2
  <2> HIDE DEF v
  <2>2. Bit(v, i) = Bit(y, i)
    BY <1>1, <1>8, <1>9, <1>11, <2>1, BitBelow
  <2>3. 1 \in Nat /\ 1 + i <= MaxBits /\ 1 + i = i + 1 /\ Pow2[1] = 2
    BY <1>1, <1>7, <1>11, SmallPowers
  <2>4. Bit(x \div 2, i) = Bit(x, i + 1)
    <3>1. Bit(x \div Pow2[1], i) = Bit(x, 1 + i)
      BY <1>2, <1>11, <2>3, BitOfQuotient
    <3> QED
      BY <2>3, <3>1
  <2> QED
    BY <1>4, <2>2, <2>4
<1> HIDE DEF v, t
<1>12. t \in Rings /\ t.val = v /\ t.cf = Bit(x, 0)
  <2>1. v \in Numbers
    BY <1>1, <1>9 DEF Numbers
  <2> QED
    BY <1>3, <1>5, <2>1 DEF Rings
<1>13. ASSUME NEW i \in 0..w PROVE Ring(t, i) = Ring(s, (i + 1) % (w + 1))
  <2>1. (i + 1) % (w + 1) = IF i = w THEN 0 ELSE i + 1
    <3>1. i + 1 \in Int /\ 0 <= i + 1 /\ i + 1 < 2 * (w + 1) /\ w + 1 \in Nat /\ w + 1 > 0
      BY <1>1
    <3>2. (i + 1) % (w + 1) = IF i + 1 < w + 1 THEN i + 1 ELSE i + 1 - (w + 1)
      BY <3>1, WrapsOnce
    <3> QED
      BY <1>1, <3>2
  <2>2. CASE i = w
    <3>1. (i + 1) % (w + 1) = 0 /\ 0 # w
      BY <1>1, <2>1, <2>2
    <3> QED
      BY <1>6, <1>12, <2>2, <3>1 DEF Ring
  <2>3. CASE i = k
    <3>1. (i + 1) % (w + 1) = w /\ i # w
      BY <1>1, <1>7, <2>1, <2>3
    <3> QED
      BY <1>6, <1>10, <1>12, <2>3, <3>1 DEF Ring
  <2>4. CASE i # k /\ i # w
    <3>1. (i + 1) % (w + 1) = i + 1 /\ i + 1 # w /\ i \in Nat /\ i < k
      BY <1>1, <1>7, <2>1, <2>4
    <3>2. Bit(v, i) = Bit(x, i + 1)
      BY <1>11, <3>1
    <3> QED
      BY <1>6, <1>12, <2>4, <3>1, <3>2 DEF Ring
  <2> QED
    BY <2>2, <2>3, <2>4
<1> QED
  BY <1>6, <1>12, <1>13 DEF t

\* Places on a ring of m add up.
LEMMA TurnsAdd ==
  ASSUME NEW m \in Nat \ {0}, NEW i \in Nat, NEW k \in Nat
  PROVE  /\ (i + k) % m \in 0 .. m - 1 /\ (i + 1) % m \in 0 .. m - 1
         /\ (((i + k) % m) + 1) % m = (i + (k + 1)) % m
         /\ (((i + 1) % m) + k) % m = (i + (k + 1)) % m
<1> DEFINE x == i + k
           y == i + 1
           z == i + (k + 1)
           p == x % m
           q == y % m
<1>1. x \in Int /\ y \in Int /\ 1 \in Int /\ k \in Int /\ 1 + x = z /\ k + y = z
  OBVIOUS
<1> HIDE DEF x, y, z
<1>2. (1 + (x % m)) % m = (1 + x) % m
  BY <1>1, ModAdd
<1>3. (k + (y % m)) % m = (k + y) % m
  BY <1>1, ModAdd
<1>4. p \in 0 .. m - 1 /\ q \in 0 .. m - 1
  BY <1>1, Divided
<1>5. (1 + p) % m = z % m /\ (k + q) % m = z % m
  BY <1>1, <1>2, <1>3, Zenon
<1> HIDE DEF p, q
<1>6. p + 1 = 1 + p /\ q + k = k + q
  BY <1>4
<1>7. (p + 1) % m = z % m /\ (q + k) % m = z % m
  BY <1>5, <1>6, Zenon
<1> QED
  BY <1>4, <1>7, Zenon DEF p, q, x, y, z

\* What some rounds of RCL and RCR do to a number and the carry above it.
Turned(left, s, t, k) ==
  /\ t \in Rings
  /\ left => \A i \in 0..Width : Ring(t, (i + k) % (Width + 1)) = Ring(s, i)
  /\ ~left => \A i \in 0..Width : Ring(t, i) = Ring(s, (i + k) % (Width + 1))

\* A round after n others makes n + 1.
LEMMA TurnsOn ==
  ASSUME size \in Sizes, NEW left \in BOOLEAN, NEW s \in Rings, NEW t \in Rings, NEW k \in Nat, Turned(left, s, t, k)
  PROVE  Turned(left, s, IF left THEN RotateLeft(t) ELSE RotateRight(t), k + 1)
<1> DEFINE m == Width + 1
           u == IF left THEN RotateLeft(t) ELSE RotateRight(t)
<1>1. Width \in Nat /\ m \in Nat \ {0} /\ 0 .. m - 1 = 0..Width /\ m = Width + 1
  BY SpanIs
<1> HIDE DEF m
<1>2. \A i \in 0..Width : i \in Nat
  BY <1>1
<1>3. CASE left
  <2>1. u = RotateLeft(t)
    BY <1>3
  <2>2. u \in Rings /\ \A i \in 0..Width : Ring(u, (i + 1) % m) = Ring(t, i)
    BY <1>1, <2>1, RoundLeft, Zenon
  <2> HIDE DEF u
  <2>3. ASSUME NEW i \in 0..Width PROVE Ring(u, (i + (k + 1)) % m) = Ring(s, i)
    <3> DEFINE j == (i + k) % m
    <3>1. j \in 0..Width /\ (j + 1) % m = (i + (k + 1)) % m
      BY <1>1, <1>2, TurnsAdd
    <3>2. Ring(t, j) = Ring(s, i)
      BY <1>1, <1>3, Zenon DEF Turned
    <3> HIDE DEF j
    <3>3. Ring(u, (j + 1) % m) = Ring(t, j)
      BY <2>2, <3>1
    <3> QED
      BY <3>1, <3>2, <3>3, Zenon
  <2>4. Turned(left, s, u, k + 1)
    BY <1>1, <1>3, <2>2, <2>3, Zenon DEF Turned
  <2> QED
    BY <2>4 DEF u
<1>4. CASE ~left
  <2>1. u = RotateRight(t)
    BY <1>4
  <2>2. u \in Rings /\ \A i \in 0..Width : Ring(u, i) = Ring(t, (i + 1) % m)
    BY <1>1, <2>1, RoundRight, Zenon
  <2> HIDE DEF u
  <2>3. ASSUME NEW i \in 0..Width PROVE Ring(u, i) = Ring(s, (i + (k + 1)) % m)
    <3> DEFINE j == (i + 1) % m
    <3>1. j \in 0..Width /\ (j + k) % m = (i + (k + 1)) % m
      BY <1>1, <1>2, TurnsAdd
    <3>2. Ring(u, i) = Ring(t, j)
      BY <2>2
    <3> HIDE DEF j
    <3>3. Ring(t, j) = Ring(s, (j + k) % m)
      BY <1>1, <1>4, <3>1, Zenon DEF Turned
    <3> QED
      BY <3>1, <3>2, <3>3, Zenon
  <2>4. Turned(left, s, u, k + 1)
    BY <1>1, <1>4, <2>2, <2>3, Zenon DEF Turned
  <2> QED
    BY <2>4 DEF u
<1> QED
  BY <1>3, <1>4

\* The loop of RCL and RCR turns number and CF as often as it runs.
LEMMA RoundsAre ==
  ASSUME size \in Sizes, NEW l \in Numbers, NEW fl \in FlagSets, NEW left \in BOOLEAN, NEW amt \in Nat
  PROVE  Turned(left, [val |-> l, cf |-> Carry(fl)], Rounds(left, l, fl, amt), amt)
<1> DEFINE s == [val |-> l, cf |-> Carry(fl)]
           Step(t) == IF left THEN RotateLeft(t) ELSE RotateRight(t)
           G == [x \in Rings \X (1..amt) |-> Step(x[1])]
           Def(f) == f = [n \in 0..amt |-> IF n = 0 THEN s ELSE Step(f[n - 1])]
           after == CHOOSE f : Def(f)
<1>1. Rounds(left, l, fl, amt) = after[amt]
  <2>1. Def(after) <=> Def(after)
    OBVIOUS
  <2>2. after = CHOOSE f : f = [n \in 0..amt |-> IF n = 0 THEN [val |-> l, cf |-> Carry(fl)]
                                                 ELSE IF left THEN RotateLeft(f[n - 1]) ELSE RotateRight(f[n - 1])]
    OBVIOUS
  <2> QED
    BY DEF Rounds
<1>2. s \in Rings
  BY DEF Rings, Carry
<1>3. \A t \in Rings : Step(t) \in Rings
  BY RoundLeft, RoundRight
<1>4. s = [val |-> l, cf |-> Carry(fl)] /\ \A t : Step(t) = IF left THEN RotateLeft(t) ELSE RotateRight(t)
  OBVIOUS
<1> HIDE DEF s, Step
<1>5. G \in [Rings \X (1..amt) -> Rings] /\ \A t \in Rings, n \in 1..amt : G[<<t, n>>] = Step(t)
  BY <1>3
<1> HIDE DEF G
<1>6. \A n \in 1..amt : n - 1 \in 0..amt /\ n \in 0..amt /\ n # 0
  OBVIOUS
<1>7. \E f : Def(f)
  <2>1. PICK f : Defined(f, amt, Rings, s, G)
    BY <1>2, <1>5, RecursionExists
  <2>2. f \in [0..amt -> Rings] /\ f[0] = s /\ \A n \in 1..amt : f[n] = G[<<f[n - 1], n>>]
    BY <2>1 DEF Defined
  <2>3. \A n \in 1..amt : f[n] = Step(f[n - 1])
    BY <1>5, <1>6, <2>2
  <2>4. \A n \in 0..amt : f[n] = IF n = 0 THEN s ELSE Step(f[n - 1])
    <3>1. \A n \in 0..amt : n = 0 \/ n \in 1..amt
      OBVIOUS
    <3> QED
      BY <2>2, <2>3, <3>1
  <2>5. f = [n \in 0..amt |-> f[n]]
    BY <2>2
  <2>6. Def(f)
    BY <2>4, <2>5
  <2> HIDE DEF Def
  <2> QED
    BY <2>6
<1>8. Def(after)
  <2> HIDE DEF Def
  <2> QED
    BY <1>7
<1>9. after[0] = s /\ \A n \in 1..amt : after[n] = Step(after[n - 1])
  <2> HIDE DEF after
  <2>1. 0 \in 0..amt
    OBVIOUS
  <2> QED
    BY <1>6, <1>8, <2>1
<1> HIDE DEF after, Def
<1> DEFINE S == {n \in 0..amt : Turned(left, s, after[n], n)}
<1>10. 0 \in S
  <2>1. \A i \in 0..Width : (i + 0) % (Width + 1) = i
    <3> TAKE i \in 0..Width
    <3> DEFINE j == i + 0
    <3>1. Width + 1 \in Nat /\ Width + 1 > 0 /\ j \in Int /\ 0 <= j /\ j < Width + 1 /\ j = i
      BY SpanIs
    <3> HIDE DEF j
    <3>2. j % (Width + 1) = j
      BY <3>1, WrapsOnce
    <3> QED
      BY <3>1, <3>2, Zenon DEF j
  <2>2. Turned(left, s, s, 0)
    BY <1>2, <2>1, Zenon DEF Turned
  <2> QED
    BY <1>9, <2>2
<1>11. ASSUME NEW k \in 0 .. amt - 1, k \in S PROVE k + 1 \in S
  <2>1. k + 1 \in 1..amt /\ (k + 1) - 1 = k /\ k + 1 \in 0..amt /\ k \in Nat
    OBVIOUS
  <2>2. Turned(left, s, after[k], k) /\ after[k] \in Rings
    BY <1>11 DEF Turned
  <2>3. after[k + 1] = IF left THEN RotateLeft(after[k]) ELSE RotateRight(after[k])
    BY <1>4, <1>9, <2>1
  <2>4. Turned(left, s, after[k + 1], k + 1)
    BY <1>2, <2>1, <2>2, <2>3, TurnsOn
  <2> QED
    BY <2>1, <2>4
<1>12. Grows(S, amt)
  BY <1>10, <1>11 DEF Grows
<1> HIDE DEF S
<1>13. amt \in S
  BY <1>12, UpTo
<1>14. Turned(left, s, after[amt], amt)
  BY <1>13 DEF S
<1> QED
  BY <1>1, <1>4, <1>14

RclMeans(l, old, n, v, new) == \A i \in 0..Width : RingBit(v, new, (i + n) % (Width + 1)) = RingBit(l, old, i)
RcrMeans(l, old, n, v, new) == \A i \in 0..Width : RingBit(v, new, i) = RingBit(l, old, (i + n) % (Width + 1))

\* The count is taken modulo the length of the ring.
LEMMA CountIs ==
  ASSUME size \in Sizes, NEW n \in Nat
  PROVE  /\ n % (Width + 1) \in 0..Width
         /\ \A i \in 0..Width : (i + (n % (Width + 1))) % (Width + 1) = (i + n) % (Width + 1)
         /\ n % (Width + 1) = 0 => \A i \in 0..Width : (i + n) % (Width + 1) = i
         /\ n = 0 => n % (Width + 1) = 0
<1> DEFINE m == Width + 1
           amt == n % m
<1>1. Width \in Nat /\ m \in Nat \ {0} /\ m > 0 /\ m \in Nat /\ 0 .. m - 1 = 0..Width /\ m = Width + 1 /\ n \in Int
  BY SpanIs
<1> HIDE DEF m
<1>2. amt \in 0..Width
  BY <1>1, Divided
<1>3. ASSUME NEW i \in 0..Width PROVE (i + amt) % m = (i + n) % m
  <2>1. i \in Int
    BY <1>1
  <2> QED
    BY <1>1, <2>1, ModAdd
<1>4. n = 0 => amt = 0
  <2>1. n = 0 => n % m = n
    BY <1>1, WrapsOnce
  <2> QED
    BY <2>1
<1> HIDE DEF amt
<1>5. ASSUME amt = 0, NEW i \in 0..Width PROVE (i + n) % m = i
  <2>1. i + amt = i /\ i \in Int /\ 0 <= i /\ i < m
    BY <1>1, <1>5
  <2>2. i % m = i
    BY <1>1, <2>1, WrapsOnce
  <2>3. (i + amt) % m = i
    BY <2>1, <2>2, Zenon
  <2>4. (i + amt) % m = (i + n) % m
    BY <1>3
  <2> QED
    BY <2>3, <2>4, Zenon
<1> QED
  BY <1>2, <1>3, <1>4, <1>5, Zenon DEF amt, m

\* The flags of a rotation through the carry hold the top of the ring.
LEMMA RingIs ==
  ASSUME NEW s \in Rings, NEW fl \in FlagSets, NEW over
  PROVE  /\ CarryOverflow(fl, s.cf = 1, over) \in FlagSets
         /\ \A i : RingBit(s.val, CarryOverflow(fl, s.cf = 1, over), i) = Ring(s, i)
<1> DEFINE new == CarryOverflow(fl, s.cf = 1, over)
           carry == s.cf = 1
<1>1. carry <=> s.cf = 1
  OBVIOUS
<1> HIDE DEF carry
<1>2. CarryOverflow(fl, carry, over) \in FlagSets /\ ("CF" \in CarryOverflow(fl, carry, over) <=> carry)
  BY CarryOverflowIs
<1>3. new \in FlagSets /\ ("CF" \in new <=> s.cf = 1)
  BY <1>1, <1>2 DEF carry
<1>4. s.cf = 0 \/ s.cf = 1
  BY DEF Rings
<1> HIDE DEF new
<1>5. Carry(new) = s.cf
  BY <1>3, <1>4 DEF Carry
<1>6. \A i : RingBit(s.val, new, i) = Ring(s, i)
  BY <1>5 DEF RingBit, Ring
<1> QED
  BY <1>3, <1>6 DEF new

\* RCL turns number and CF by any count.
LEMMA RclIs ==
  ASSUME size \in Sizes, NEW l \in Numbers, NEW fl \in FlagSets, NEW src \in Nat, NEW o, o = Rcl(l, src, fl)
  PROVE  /\ IsResult(o) /\ RclMeans(l, fl, src % 32, o.v, o.fl)
         /\ src % 32 = 0 => o.v = l /\ o.fl = fl
<1> DEFINE n == src % 32
           m == Width + 1
           amt == n % m
           s == Rounds(TRUE, l, fl, amt)
           z == [val |-> l, cf |-> Carry(fl)]
           new == CarryOverflow(fl, s.cf = 1, s.cf # Top(s.val))
<1>1. n \in Nat /\ n = src % 32
  BY SMT
<1>2. o = IF amt = 0 THEN [v |-> l, fl |-> fl] ELSE [v |-> s.val, fl |-> new]
  BY DEF Rcl
<1> HIDE DEF n
<1>3. /\ amt \in 0..Width /\ (\A i \in 0..Width : (i + amt) % m = (i + n) % m)
      /\ (amt = 0 => \A i \in 0..Width : (i + n) % m = i) /\ (n = 0 => amt = 0)
  BY <1>1, CountIs
<1>4. amt \in Nat
  BY <1>3, SpanIs
<1> HIDE DEF amt
<1>5. CASE amt = 0
  <2>1. o = [v |-> l, fl |-> fl] /\ o.v = l /\ o.fl = fl
    BY <1>2, <1>5
  <2>2. RclMeans(l, fl, n, l, fl)
    BY <1>3, <1>5, Zenon DEF RclMeans
  <2>3. IsResult(o) /\ RclMeans(l, fl, n, o.v, o.fl) /\ (n = 0 => o.v = l /\ o.fl = fl)
    BY <2>1, <2>2 DEF IsResult
  <2> QED
    BY <2>3 DEF n
<1>6. CASE amt # 0
  <2>1. Turned(TRUE, z, s, amt)
    BY <1>4, RoundsAre
  <2>2. s \in Rings /\ \A i \in 0..Width : Ring(s, (i + amt) % m) = Ring(z, i)
    BY <2>1, Zenon DEF Turned
  <2>3. \A i : Ring(z, i) = RingBit(l, fl, i)
    BY DEF Ring, RingBit
  <2>4. o = [v |-> s.val, fl |-> new] /\ o.v = s.val /\ o.fl = new
    BY <1>2, <1>6
  <2>5. new \in FlagSets /\ \A i : RingBit(s.val, new, i) = Ring(s, i)
    <3> DEFINE over == s.cf # Top(s.val)
    <3>1. new = CarryOverflow(fl, s.cf = 1, over)
      OBVIOUS
    <3> HIDE DEF over, s
    <3> QED
      BY <2>2, <3>1, RingIs
  <2>6. s.val \in Numbers
    BY <2>2 DEF Rings
  <2> HIDE DEF s, z, new, m
  <2>7. ASSUME NEW i \in 0..Width PROVE RingBit(s.val, new, (i + n) % m) = RingBit(l, fl, i)
    BY <1>3, <2>2, <2>3, <2>5, Zenon
  <2>8. RclMeans(l, fl, n, s.val, new)
    BY <2>7, Zenon DEF RclMeans, m
  <2>9. n # 0
    BY <1>3, <1>6
  <2>10. IsResult(o) /\ RclMeans(l, fl, n, o.v, o.fl) /\ (n = 0 => o.v = l /\ o.fl = fl)
    BY <2>4, <2>5, <2>6, <2>8, <2>9 DEF IsResult
  <2> QED
    BY <2>10 DEF n
<1> QED
  BY <1>5, <1>6

\* RCR turns number and CF back by any count.
LEMMA RcrIs ==
  ASSUME size \in Sizes, NEW l \in Numbers, NEW fl \in FlagSets, NEW src \in Nat, NEW o, o = Rcr(l, src, fl)
  PROVE  /\ IsResult(o) /\ RcrMeans(l, fl, src % 32, o.v, o.fl)
         /\ src % 32 = 0 => o.v = l /\ o.fl = fl
<1> DEFINE n == src % 32
           m == Width + 1
           amt == n % m
           s == Rounds(FALSE, l, fl, amt)
           z == [val |-> l, cf |-> Carry(fl)]
           new == CarryOverflow(fl, s.cf = 1, Top(l) # Carry(fl))
<1>1. n \in Nat /\ n = src % 32
  BY SMT
<1>2. o = IF amt = 0 THEN [v |-> l, fl |-> fl] ELSE [v |-> s.val, fl |-> new]
  BY DEF Rcr
<1> HIDE DEF n
<1>3. /\ amt \in 0..Width /\ (\A i \in 0..Width : (i + amt) % m = (i + n) % m)
      /\ (amt = 0 => \A i \in 0..Width : (i + n) % m = i) /\ (n = 0 => amt = 0)
  BY <1>1, CountIs
<1>4. amt \in Nat
  BY <1>3, SpanIs
<1> HIDE DEF amt
<1>5. CASE amt = 0
  <2>1. o = [v |-> l, fl |-> fl] /\ o.v = l /\ o.fl = fl
    BY <1>2, <1>5
  <2>2. RcrMeans(l, fl, n, l, fl)
    BY <1>3, <1>5, Zenon DEF RcrMeans
  <2>3. IsResult(o) /\ RcrMeans(l, fl, n, o.v, o.fl) /\ (n = 0 => o.v = l /\ o.fl = fl)
    BY <2>1, <2>2 DEF IsResult
  <2> QED
    BY <2>3 DEF n
<1>6. CASE amt # 0
  <2>1. Turned(FALSE, z, s, amt)
    BY <1>4, RoundsAre
  <2>2. s \in Rings /\ \A i \in 0..Width : Ring(s, i) = Ring(z, (i + amt) % m)
    BY <2>1, Zenon DEF Turned
  <2>3. \A i : Ring(z, i) = RingBit(l, fl, i)
    BY DEF Ring, RingBit
  <2>4. o = [v |-> s.val, fl |-> new] /\ o.v = s.val /\ o.fl = new
    BY <1>2, <1>6
  <2>5. new \in FlagSets /\ \A i : RingBit(s.val, new, i) = Ring(s, i)
    <3> DEFINE over == Top(l) # Carry(fl)
    <3>1. new = CarryOverflow(fl, s.cf = 1, over)
      OBVIOUS
    <3> HIDE DEF over, s
    <3> QED
      BY <2>2, <3>1, RingIs
  <2>6. s.val \in Numbers
    BY <2>2 DEF Rings
  <2> HIDE DEF s, z, new, m
  <2>7. ASSUME NEW i \in 0..Width PROVE RingBit(s.val, new, i) = RingBit(l, fl, (i + n) % m)
    BY <1>3, <2>2, <2>3, <2>5, Zenon
  <2>8. RcrMeans(l, fl, n, s.val, new)
    BY <2>7, Zenon DEF RcrMeans, m
  <2>9. n # 0
    BY <1>3, <1>6
  <2>10. IsResult(o) /\ RcrMeans(l, fl, n, o.v, o.fl) /\ (n = 0 => o.v = l /\ o.fl = fl)
    BY <2>4, <2>5, <2>6, <2>8, <2>9 DEF IsResult
  <2> QED
    BY <2>10 DEF n
<1> QED
  BY <1>5, <1>6

-----------------------------------------------------------------------------

\* Which shift a name is.
ShiftMeans(op, l, old, n, v, new) ==
  /\ n = 0 => v = l /\ new = old
  /\ op \in {"SHL", "SAL"} => ShlMeans(l, n, v, new)
  /\ op = "SHR" => ShrMeans(l, n, v, new)
  /\ op = "SAR" => SarMeans(l, n, v, new)
  /\ op = "ROL" => RolMeans(l, n, v) /\ LastOut(n, v, 0, new)
  /\ op = "ROR" => RorMeans(l, n, v) /\ LastOut(n, v, Width - 1, new)
  /\ op = "RCL" => RclMeans(l, old, n, v, new)
  /\ op = "RCR" => RcrMeans(l, old, n, v, new)

\* Every shift does what it means.
LEMMA ShiftIs ==
  ASSUME size \in Sizes, NEW op \in ShiftOps, NEW l \in Numbers, NEW fl \in FlagSets, NEW src \in Nat,
         NEW o \in Shift(op, l, src, fl)
  PROVE  IsResult(o) /\ ShiftMeans(op, l, fl, src % 32, o.v, o.fl)
<1> DEFINE n == src % 32
<1>1. CASE op \in {"SHL", "SAL"}
  <2>1. o \in Shl(l, src, fl)
    BY <1>1 DEF Shift
  <2>2. IsResult(o) /\ ShlMeans(l, n, o.v, o.fl) /\ (n = 0 => o.v = l /\ o.fl = fl)
    BY <2>1, ShlIs
  <2> HIDE DEF n
  <2>3. ShiftMeans(op, l, fl, n, o.v, o.fl)
    BY <1>1, <2>2 DEF ShiftMeans
  <2> QED
    BY <2>2, <2>3 DEF n
<1>2. CASE op = "SHR"
  <2>1. o = Shr(l, src, fl)
    BY <1>2 DEF Shift
  <2>2. IsResult(o) /\ ShrMeans(l, n, o.v, o.fl) /\ (n = 0 => o.v = l /\ o.fl = fl)
    BY <2>1, ShrIs
  <2> HIDE DEF n
  <2>3. ShiftMeans(op, l, fl, n, o.v, o.fl)
    BY <1>2, <2>2 DEF ShiftMeans
  <2> QED
    BY <2>2, <2>3 DEF n
<1>3. CASE op = "SAR"
  <2>1. o = Sar(l, src, fl)
    BY <1>3 DEF Shift
  <2>2. IsResult(o) /\ SarMeans(l, n, o.v, o.fl) /\ (n = 0 => o.v = l /\ o.fl = fl)
    BY <2>1, SarIs
  <2> HIDE DEF n
  <2>3. ShiftMeans(op, l, fl, n, o.v, o.fl)
    BY <1>3, <2>2 DEF ShiftMeans
  <2> QED
    BY <2>2, <2>3 DEF n
<1>4. CASE op = "ROL"
  <2>1. o = Rol(l, src, fl)
    BY <1>4 DEF Shift
  <2>2. IsResult(o) /\ RolMeans(l, n, o.v) /\ LastOut(n, o.v, 0, o.fl) /\ (n = 0 => o.v = l /\ o.fl = fl)
    BY <2>1, RolIs
  <2> HIDE DEF n
  <2>3. ShiftMeans(op, l, fl, n, o.v, o.fl)
    BY <1>4, <2>2 DEF ShiftMeans
  <2> QED
    BY <2>2, <2>3 DEF n
<1>5. CASE op = "ROR"
  <2>1. o = Ror(l, src, fl)
    BY <1>5 DEF Shift
  <2>2. IsResult(o) /\ RorMeans(l, n, o.v) /\ LastOut(n, o.v, Width - 1, o.fl) /\ (n = 0 => o.v = l /\ o.fl = fl)
    BY <2>1, RorIs
  <2> HIDE DEF n
  <2>3. ShiftMeans(op, l, fl, n, o.v, o.fl)
    BY <1>5, <2>2 DEF ShiftMeans
  <2> QED
    BY <2>2, <2>3 DEF n
<1>6. CASE op = "RCL"
  <2>1. o = Rcl(l, src, fl)
    BY <1>6 DEF Shift
  <2>2. IsResult(o) /\ RclMeans(l, fl, n, o.v, o.fl) /\ (n = 0 => o.v = l /\ o.fl = fl)
    BY <2>1, RclIs
  <2> HIDE DEF n
  <2>3. ShiftMeans(op, l, fl, n, o.v, o.fl)
    BY <1>6, <2>2 DEF ShiftMeans
  <2> QED
    BY <2>2, <2>3 DEF n
<1>7. CASE op = "RCR"
  <2>1. o = Rcr(l, src, fl)
    BY <1>7 DEF Shift
  <2>2. IsResult(o) /\ RcrMeans(l, fl, n, o.v, o.fl) /\ (n = 0 => o.v = l /\ o.fl = fl)
    BY <2>1, RcrIs
  <2> HIDE DEF n
  <2>3. ShiftMeans(op, l, fl, n, o.v, o.fl)
    BY <1>7, <2>2 DEF ShiftMeans
  <2> QED
    BY <2>2, <2>3 DEF n
<1> QED
  BY <1>1, <1>2, <1>3, <1>4, <1>5, <1>6, <1>7 DEF ShiftOps

\* The step of every shift is what ShiftDone says of it.
LEMMA ShiftDoes ==
  ASSUME NEW e, NEW o, NEW v, e.op \in ShiftOps, o.res = "ok", o.regs[e.to] = v,
         ShiftMeans(e.op, Old(e), e.flags, e.src % 32, v, o.flags)
  PROVE  Does(e, o)
<1> DEFINE n == e.src % 32
           l == Old(e)
<1>1. /\ n = 0 => v = l /\ o.flags = e.flags
      /\ e.op \in {"SHL", "SAL"} => ShlMeans(l, n, v, o.flags)
      /\ e.op = "SHR" => ShrMeans(l, n, v, o.flags)
      /\ e.op = "SAR" => SarMeans(l, n, v, o.flags)
      /\ e.op = "ROL" => RolMeans(l, n, v) /\ LastOut(n, v, 0, o.flags)
      /\ e.op = "ROR" => RorMeans(l, n, v) /\ LastOut(n, v, Width - 1, o.flags)
      /\ e.op = "RCL" => RclMeans(l, e.flags, n, v, o.flags)
      /\ e.op = "RCR" => RcrMeans(l, e.flags, n, v, o.flags)
  BY Zenon DEF ShiftMeans
<1>2. n = e.src % 32 /\ l = Old(e)
  OBVIOUS
<1> HIDE DEF n, l
<1>3. ShiftDone(e, o)
  BY <1>1, <1>2, ZenonT(60) DEF ShiftDone, ShlMeans, ShrMeans, SarMeans, RolMeans, RorMeans, LastOut, RclMeans, RcrMeans
<1>4. /\ e.op \notin {"ADD", "ADC"} /\ e.op \notin {"SUB", "CMP"} /\ e.op # "SBB"
      /\ e.op \notin {"INC", "DEC"} /\ e.op \notin {"MUL", "IMUL", "IMUL2", "IMULI"} /\ e.op \notin {"DIV", "IDIV"}
      /\ e.op \notin {"AAA", "AAS", "DAA", "DAS", "AAM", "AAD"}
  BY DEF ShiftOps
<1> QED
  BY <1>3, <1>4, Elsewhere DEF Does

\* ShiftRotate keeps the invariant.
LEMMA ShiftRotateKeeps ==
  ASSUME Typed, Followed, ShiftRotate
  PROVE  Typed' /\ Followed'
<1>1. res = "ok" /\ prog # <<>> /\ Current.op \in ShiftOps
  BY DEF ShiftRotate, Runs
<1>2. PICK src \in Counts : WriteBack(src, Shift(Current.op, Dest, src, flags))
  BY DEF ShiftRotate
<1>3. src \in Nat
  BY AluAssumption DEF AluAssumption
<1>4. size \in Sizes /\ flags \in FlagSets /\ Dest \in Numbers
  BY <1>1, OperandsAre, CurrentIs
<1> DEFINE outs == Shift(Current.op, Dest, src, flags)
           e == EntryOf(src)
<1>5. ASSUME NEW p \in outs
      PROVE  IsResult(p) /\ Does(EntryOf(src), Outcome([regs EXCEPT ![Current.to] = p.v], p.fl, "ok"))
  <2> DEFINE o == Outcome([regs EXCEPT ![Current.to] = p.v], p.fl, "ok")
             n == src % 32
  <2>1. IsResult(p) /\ ShiftMeans(Current.op, Dest, flags, n, p.v, p.fl)
    BY <1>1, <1>3, <1>4, ShiftIs
  <2>2. o.res = "ok" /\ o.flags = p.fl /\ o.regs = [regs EXCEPT ![Current.to] = p.v]
    BY OutcomeIs
  <2>3. o.regs[Current.to] = p.v
    BY <1>1, <2>1, <2>2, CurrentIs DEF IsResult
  <2>4. e.op = Current.op /\ e.to = Current.to /\ e.src = src /\ e.flags = flags /\ Old(e) = Dest
    BY <1>1, CurrentIs
  <2>5. n = e.src % 32
    BY <2>4
  <2> HIDE DEF e, o, n
  <2>6. ShiftMeans(e.op, Old(e), e.flags, e.src % 32, p.v, o.flags)
    BY <2>1, <2>2, <2>4, <2>5
  <2>7. Does(e, o)
    BY <1>1, <2>2, <2>3, <2>4, <2>6, ShiftDoes
  <2> QED
    BY <2>1, <2>7 DEF e, o
<1>6. Current.op \notin {"DIV", "IDIV"}
  BY <1>1 DEF ShiftOps
<1> HIDE DEF outs
<1>7. WriteBack(src, outs)
  BY <1>2 DEF outs
<1> QED
  BY <1>1, <1>3, <1>5, <1>6, <1>7, WriteBackKeeps

-----------------------------------------------------------------------------
(* The invariant, and what each instruction by itself did.                 *)

\* The inductive invariant: what the variables hold, and what each step so far did.
AluInv == Typed /\ Followed

\* Every step keeps the invariant.
LEMMA AluStep ==
  ASSUME AluInv, [Next]_vars
  PROVE  AluInv'
<1>1. Typed /\ Followed
  BY DEF AluInv
<1>2. CASE ALU
  BY <1>1, <1>2, ALUKeeps DEF AluInv
<1>3. CASE ReadFails
  BY <1>1, <1>3, ReadFailsKeeps DEF AluInv
<1>4. CASE IncDecNeg
  BY <1>1, <1>4, IncDecNegKeeps DEF AluInv
<1>5. CASE NOT
  BY <1>1, <1>5, NOTKeeps DEF AluInv
<1>6. CASE ShiftRotate
  BY <1>1, <1>6, ShiftRotateKeeps DEF AluInv
<1>7. CASE SHLD_SHRD
  BY <1>1, <1>7, SHLD_SHRDKeeps DEF AluInv
<1>8. CASE MUL
  BY <1>1, <1>8, MULKeeps DEF AluInv
<1>9. CASE IMUL2
  BY <1>1, <1>9, IMUL2Keeps DEF AluInv
<1>10. CASE DIV
  BY <1>1, <1>10, DIVKeeps DEF AluInv
<1>11. CASE IDIV
  BY <1>1, <1>11, IDIVKeeps DEF AluInv
<1>12. CASE AAA_AAS
  BY <1>1, <1>12, AAA_AASKeeps DEF AluInv
<1>13. CASE DAA_DAS
  BY <1>1, <1>13, DAA_DASKeeps DEF AluInv
<1>14. CASE AAM
  BY <1>1, <1>14, AAMKeeps DEF AluInv
<1>15. CASE AAD
  BY <1>1, <1>15, AADKeeps DEF AluInv
<1>16. CASE CBW_CWD
  BY <1>1, <1>16, CBW_CWDKeeps DEF AluInv
<1>17. CASE LAHF
  BY <1>1, <1>17, LAHFKeeps DEF AluInv
<1>18. CASE SAHF
  BY <1>1, <1>18, SAHFKeeps DEF AluInv
<1>19. CASE CLC_STC_CMC
  BY <1>1, <1>19, CLC_STC_CMCKeeps DEF AluInv
<1>20. CASE BTx
  BY <1>1, <1>20, BTxKeeps DEF AluInv
<1>21. CASE BSF
  BY <1>1, <1>21, BSFKeeps DEF AluInv
<1>22. CASE UNCHANGED vars
  <2>1. size' = size /\ prog' = prog /\ regs' = regs /\ flags' = flags /\ res' = res /\ past' = past
    BY <1>22 DEF vars
  <2>2. Registers' = Registers /\ Entries' = Entries /\ \A f, o : Does(f, o) => Does(f, o)'
    BY <2>1, SameMeaning
  <2>3. Typed'
    BY <1>1, <2>1, <2>2 DEF Typed, FlagSets
  <2>4. ASSUME NEW k \in 1 .. Len(past) PROVE Does(past[k], After(k))'
    <3>1. Does(past[k], After(k))
      BY <1>1 DEF Followed
    <3>2. After(k)' = After(k) /\ (past[k])' = past[k]
      BY <2>1 DEF After, Outcome
    <3>3. \A f, o : f = (past[k])' /\ o = After(k)' /\ Does(f, o)' => Does(past[k], After(k))'
      OBVIOUS
    <3> QED
      BY <2>2, <3>1, <3>2, <3>3
  <2>5. Followed'
    BY <1>1, <2>1, <2>4 DEF Followed
  <2> QED
    BY <2>3, <2>5 DEF AluInv
<1> QED
  BY <1>2, <1>3, <1>4, <1>5, <1>6, <1>7, <1>8, <1>9, <1>10, <1>11, <1>12, <1>13, <1>14, <1>15, <1>16,
     <1>17, <1>18, <1>19, <1>20, <1>21, <1>22 DEF Next

\* The invariant holds whatever the programs and operands.
LEMMA AluAlways == Spec => []AluInv
<1>1. Init => AluInv
  BY InvInit DEF AluInv
<1>2. AluInv /\ [Next]_vars => AluInv'
  BY AluStep
<1> QED
  BY <1>1, <1>2, PTL DEF Spec

\* Registers stay within the width of the operands, flags are flags, and the history
\* of instructions holds only such.
THEOREM AluTyped == Spec => []Typed
<1>1. AluInv => Typed
  BY DEF AluInv
<1> QED
  BY <1>1, AluAlways, PTL

\* The last entry of the history did what it should to the present state.
LEMMA LastDid ==
  ASSUME AluInv, past # <<>>
  PROVE  /\ size \in Sizes /\ LastOp \in Entries /\ regs \in Registers /\ flags \in FlagSets
         /\ From = Old(LastOp) /\ Does(LastOp, Outcome(regs, flags, res))
<1>1. Typed /\ Followed
  BY DEF AluInv
<1> DEFINE n == Len(past)
<1>2. past \in Seq(Entries) /\ past # <<>>
  BY <1>1 DEF Typed
<1>3. n \in Nat /\ n # 0
  BY <1>2, LenProperties, EmptySeq
<1>4. n \in 1..n
  BY <1>3
<1>5. past[n] \in Entries
  BY <1>2, <1>4, ElementOfSeq
<1>6. Does(past[n], After(n))
  BY <1>1, <1>4 DEF Followed
<1>7. After(n) = Outcome(regs, flags, res)
  BY DEF After
<1>8. From = Old(LastOp)
  BY DEF From, Old
<1> QED
  BY <1>1, <1>5, <1>6, <1>7, <1>8 DEF LastOp, Typed

\* Truth values that follow from each other are equal.
LEMMA SameTruth ==
  \A a, b \in BOOLEAN : (a <=> b) => a = b
OBVIOUS

\* The invariant implies that conditional jumps decide as the operands are ordered.
LEMMA OrderFollows ==
  ASSUME AluInv
  PROVE  OrderDecided
<1> SUFFICES ASSUME Finished({"CMP", "SUB"})
             PROVE  /\ Condition("C", flags) = (From < LastOp.src) /\ Condition("BE", flags) = (From <= LastOp.src)
                    /\ Condition("L", flags) = (Signed(From) < Signed(LastOp.src))
                    /\ Condition("LE", flags) = (Signed(From) <= Signed(LastOp.src))
                    /\ Condition("Z", flags) = (From = LastOp.src)
  BY Zenon DEF OrderDecided
<1> DEFINE e == LastOp
           o == Outcome(regs, flags, res)
           l == From
           r == e.src
<1>1. past # <<>> /\ res = "ok" /\ e.op \in {"CMP", "SUB"}
  BY DEF Finished
<1>2. size \in Sizes /\ e \in Entries /\ regs \in Registers /\ l = Old(e) /\ Does(e, o)
  BY <1>1, LastDid
<1>3. o.res = "ok" /\ o.flags = flags
  BY <1>1, OutcomeIs
<1>4. r = e.src
  OBVIOUS
<1> HIDE DEF e, o, l, r
<1>5. DifferenceDone(e, o)
  BY <1>2 DEF Does
<1>6. /\ r \in Numbers /\ ("CF" \in flags <=> l < r) /\ ("ZF" \in flags <=> l = r)
      /\ ((("SF" \in flags) # ("OF" \in flags)) <=> Signed(l) < Signed(r)) /\ (Signed(l) = Signed(r) <=> l = r)
  <2>1. e.op \in {"SUB", "CMP"} /\ o.res = "ok"
    BY <1>1, <1>3
  <2> QED
    BY <1>2, <1>3, <1>4, <1>5, <2>1, Zenon DEF DifferenceDone
<1>7. l \in Numbers
  BY <1>2 DEF Old, Entries, Registers
<1>8. l \in Int /\ r \in Int /\ Signed(l) \in Int /\ Signed(r) \in Int
  <2>1. \A x \in Numbers : x \in Int /\ Signed(x) \in Int
    BY <1>2, SpanIs DEF Numbers, Signed
  <2> QED
    BY <1>6, <1>7, <2>1
<1>9. (l <= r <=> l < r \/ l = r) /\ (Signed(l) <= Signed(r) <=> Signed(l) < Signed(r) \/ Signed(l) = Signed(r))
  BY <1>8
<1>10. /\ Condition("C", flags) = ("CF" \in flags) /\ Condition("BE", flags) = ("CF" \in flags \/ "ZF" \in flags)
       /\ Condition("L", flags) = (("SF" \in flags) # ("OF" \in flags))
       /\ Condition("LE", flags) = ("ZF" \in flags \/ (("SF" \in flags) # ("OF" \in flags)))
       /\ Condition("Z", flags) = ("ZF" \in flags)
  BY DEF Condition, Less
<1> QED
  BY <1>6, <1>9, <1>10, SameTruth DEF e, l, r

\* CMP and SUB leave flags on which the conditional jumps (JB, JBE, JL, JLE, JZ) decide
\* as the operands are ordered.
THEOREM OrderIsDecided == Spec => []OrderDecided
<1>1. AluInv => OrderDecided
  BY OrderFollows
<1> QED
  BY <1>1, AluAlways, PTL

\* The last instruction, when it succeeded, did what it should to the present state.
LEMMA FinishedDid ==
  ASSUME AluInv, NEW ops, Finished(ops), NEW o, o = Outcome(regs, flags, res)
  PROVE  /\ past # <<>> /\ res = "ok" /\ LastOp.op \in ops /\ Does(LastOp, o)
         /\ o.res = "ok" /\ o.flags = flags /\ o.regs = regs /\ o.regs[LastOp.to] = Result
         /\ size \in Sizes /\ LastOp \in Entries /\ regs \in Registers /\ flags \in FlagSets /\ From = Old(LastOp)
<1>1. past # <<>> /\ res = "ok" /\ LastOp.op \in ops
  BY DEF Finished
<1>2. o.res = res /\ o.flags = flags /\ o.regs = regs
  BY OutcomeIs
<1> QED
  BY <1>1, <1>2, LastDid DEF Result

\* The invariant implies that every bit lands where the count sends it.
LEMMA ShiftsFollow ==
  ASSUME AluInv
  PROVE  ShiftsExact
<1>1. ASSUME Finished(ShiftOps) PROVE ShiftsExact
  <2> DEFINE o == Outcome(regs, flags, res)
             e == LastOp
  <2>1. o = Outcome(regs, flags, res) /\ e = LastOp
    OBVIOUS
  <2> HIDE DEF o, e
  <2>2. /\ e.op \in ShiftOps /\ Does(e, o) /\ o.res = "ok" /\ o.flags = flags /\ o.regs[e.to] = Result /\ From = Old(e)
    BY <1>1, <2>1, FinishedDid
  <2>3. ShiftDone(e, o)
    BY <2>2 DEF Does
  <2> DEFINE n == e.src % 32
             at(i) == Bit(Result, i)
             was(i) == Bit(From, i)
             carry == Carry(flags)
  <2>4. /\ n = 0 => Result = From /\ flags = e.flags
        /\ \A i \in 0 .. Width - 1 :
             /\ e.op \in {"SHL", "SAL"} => at(i) = (IF i < n THEN 0 ELSE was(i - n))
             /\ e.op = "SHR" => at(i) = (IF i + n < Width THEN was(i + n) ELSE 0)
             /\ e.op = "SAR" => at(i) = was(IF i + n < Width THEN i + n ELSE Width - 1)
             /\ e.op = "ROL" => at((i + n) % Width) = was(i)
             /\ e.op = "ROR" => at(i) = was((i + n) % Width)
        /\ e.op \in {"SHL", "SAL"} /\ n > 0 => carry = (IF n > Width THEN 0 ELSE was(Width - n))
        /\ e.op = "SHR" /\ n > 0 => carry = (IF n > Width THEN 0 ELSE was(n - 1))
        /\ e.op = "SAR" /\ n > 0 => carry = was(IF n > Width THEN Width - 1 ELSE n - 1)
        /\ e.op = "ROL" /\ n % Width # 0 => carry = at(0)
        /\ e.op = "ROR" /\ n % Width # 0 => carry = at(Width - 1)
        /\ \A i \in 0 .. Width :
             LET j == (i + n) % (Width + 1)
             IN  /\ e.op = "RCL" => RingBit(Result, flags, j) = RingBit(From, e.flags, i)
                 /\ e.op = "RCR" => RingBit(Result, flags, i) = RingBit(From, e.flags, j)
    BY <2>2, <2>3, ZenonT(60) DEF ShiftDone
  <2> HIDE DEF n
  <2>5. n = LastOp.src % 32
    BY <2>1 DEF n
  <2> QED
    BY <2>1, <2>4, <2>5, ZenonT(60) DEF ShiftsExact
<1>2. ~Finished(ShiftOps) => ShiftsExact
  BY Zenon DEF ShiftsExact
<1> QED
  BY <1>1, <1>2

\* ROL, ROR, RCL, RCR, SHL, SHR and SAR send every bit to where the count says and
\* leave the last one in CF (but for ROL and ROR by whole widths), whatever the
\* count and the width.
THEOREM ShiftsAreExact == Spec => []ShiftsExact
<1>1. AluInv => ShiftsExact
  BY ShiftsFollow
<1> QED
  BY <1>1, AluAlways, PTL

\* The flags of a sum that is `low' in the nibble, `signed' and `whole' as numbers.
Described(e, low, signed, whole) ==
  /\ "AF" \in flags <=> SumOutOf(0, 15, low)
  /\ e.typed \/ size = "D" \/ e.op \notin {"ADD", "ADC"} => ("OF" \in flags <=> SumOutOf(-Sign, Sign - 1, signed))
  /\ e.op \in {"INC", "DEC"} => ("CF" \in flags <=> "CF" \in e.flags)
  /\ e.op \notin {"INC", "DEC"} => ("CF" \in flags <=> SumOutOf(0, Mod - 1, whole))
  /\ "ZF" \in flags <=> whole % Mod = 0
  /\ "SF" \in flags <=> whole % Mod >= Sign

\* A number, its nibble and its signed form lie in their ranges.
LEMMA PartsAre ==
  ASSUME size \in Sizes, NEW x \in Numbers
  PROVE  /\ x \in Nat /\ x < Mod /\ Mod \in Nat /\ Sign \in Nat /\ x % 16 \in Nat /\ x % 16 < 16
         /\ Signed(x) \in Int /\ -Sign <= Signed(x) /\ Signed(x) < Sign
<1>1. x \in Nat /\ x < Mod /\ Mod \in Nat /\ Sign \in Nat /\ Mod = 2 * Sign
  BY SpanIs DEF Numbers
<1>2. x % 16 \in Nat /\ x % 16 < 16
  BY <1>1
<1>3. Signed(x) = IF x < Sign THEN x ELSE x - Mod
  BY DEF Signed
<1> QED
  BY <1>1, <1>2, <1>3

\* After ADD and ADC the flags describe the sum.
LEMMA SumDescribed ==
  ASSUME size \in Sizes, NEW e, NEW o, NEW l \in Numbers, NEW r \in Numbers, NEW c \in 0..1, SumDone(e, o), l = Old(e), r = e.src,
         c = IF e.op = "ADC" /\ "CF" \in e.flags THEN 1 ELSE 0, e.op \in {"ADD", "ADC"}, o.res = "ok", o.flags = flags
  PROVE  Described(e, (l % 16) + (r % 16) + c, Signed(l) + Signed(r) + c, l + r + c)
<1>1. c = IF e.op = "ADC" THEN Carry(e.flags) ELSE 0
  BY DEF Carry
<1>2. /\ ("CF" \in flags <=> l + r + c > Mod - 1) /\ ("AF" \in flags <=> (l % 16) + (r % 16) + c > 15)
      /\ (e.typed \/ size = "D" => ("OF" \in flags <=> SumOutOf(-Sign, Sign - 1, Signed(l) + Signed(r) + c)))
      /\ ("ZF" \in flags <=> (l + r + c) % Mod = 0) /\ ("SF" \in flags <=> (l + r + c) % Mod >= Sign)
  BY <1>1, Zenon DEF SumDone
<1>3. (l % 16) + (r % 16) + c >= 0 /\ l + r + c >= 0 /\ l + r + c \in Int /\ (l % 16) + (r % 16) + c \in Int
  BY PartsAre
<1>4. e.op \notin {"INC", "DEC"}
  OBVIOUS
<1>5. (l + r + c > Mod - 1 <=> SumOutOf(0, Mod - 1, l + r + c)) /\ ((l % 16) + (r % 16) + c > 15 <=> SumOutOf(0, 15, (l % 16) + (r % 16) + c))
  BY <1>3, SpanIs DEF SumOutOf
<1> QED
  BY <1>2, <1>4, <1>5, Zenon DEF Described

\* After SUB and CMP the flags describe the difference.
LEMMA DifferenceDescribed ==
  ASSUME size \in Sizes, NEW e, NEW o, NEW l \in Numbers, NEW r \in Numbers, DifferenceDone(e, o), l = Old(e), r = e.src,
         e.op \in {"SUB", "CMP"}, o.res = "ok", o.flags = flags
  PROVE  Described(e, (l % 16) - (r % 16), Signed(l) - Signed(r), l - r)
<1>2. /\ ("CF" \in flags <=> l < r) /\ ("AF" \in flags <=> l % 16 < r % 16)
      /\ ("OF" \in flags <=> SumOutOf(-Sign, Sign - 1, Signed(l) - Signed(r)))
      /\ ("ZF" \in flags <=> (l - r) % Mod = 0) /\ ("SF" \in flags <=> (l - r) % Mod >= Sign)
  BY Zenon DEF DifferenceDone
<1>3. /\ l \in Nat /\ r \in Nat /\ l < Mod /\ r < Mod /\ Mod \in Nat
      /\ l % 16 \in Nat /\ r % 16 \in Nat /\ l % 16 < 16 /\ r % 16 < 16
  BY PartsAre
<1>4. e.op \notin {"INC", "DEC"}
  OBVIOUS
<1>5. (l < r <=> SumOutOf(0, Mod - 1, l - r)) /\ (l % 16 < r % 16 <=> SumOutOf(0, 15, (l % 16) - (r % 16)))
  BY <1>3 DEF SumOutOf
<1> QED
  BY <1>2, <1>4, <1>5, Zenon DEF Described

\* After INC and DEC the flags describe the step, and CF is kept.
LEMMA StepDescribed ==
  ASSUME size \in Sizes, NEW e, NEW o, NEW l \in Numbers, NEW n \in Int, StepDone(e, o), l = Old(e),
         e.op \in {"INC", "DEC"}, n = (IF e.op = "INC" THEN 1 ELSE -1), o.res = "ok", o.flags = flags
  PROVE  Described(e, (l % 16) + n, Signed(l) + n, l + n)
<1>2. /\ ("CF" \in flags <=> "CF" \in e.flags) /\ ("AF" \in flags <=> SumOutOf(0, 15, (l % 16) + n))
      /\ ("OF" \in flags <=> SumOutOf(-Sign, Sign - 1, Signed(l) + n))
      /\ ("ZF" \in flags <=> (l + n) % Mod = 0) /\ ("SF" \in flags <=> (l + n) % Mod >= Sign)
  BY Zenon DEF StepDone
<1> QED
  BY <1>2, Zenon DEF Described

\* What FlagsDescribe asks for.
Asked(e, low, signed, whole) ==
  /\ ("AF" \in flags) = SumOutOf(0, 15, low)
  /\ (e.typed \/ size = "D" \/ e.op \notin {"ADD", "ADC"}) => ("OF" \in flags) = SumOutOf(-Sign, Sign - 1, signed)
  /\ ("CF" \in flags) = IF e.op \in {"INC", "DEC"} THEN "CF" \in e.flags ELSE SumOutOf(0, Mod - 1, whole)
  /\ ("ZF" \in flags) = (whole % Mod = 0) /\ ("SF" \in flags) = (whole % Mod >= Sign)

\* Flags that describe the result are what FlagsDescribe asks for.
LEMMA DescribedAsked ==
  ASSUME NEW e, NEW low, NEW signed, NEW whole, Described(e, low, signed, whole)
  PROVE  Asked(e, low, signed, whole)
BY SameTruth DEF Described, Asked, SumOutOf

\* The invariant implies that the flags of sums and differences describe them.
LEMMA FlagsFollow ==
  ASSUME AluInv
  PROVE  FlagsDescribe
<1> DEFINE ops == {"ADD", "ADC", "SUB", "CMP", "INC", "DEC"}
           e == LastOp
           step == e.op \in {"INC", "DEC"}
           r == IF step THEN 1 ELSE e.src
           c == IF e.op = "ADC" /\ "CF" \in e.flags THEN 1 ELSE 0
           sum(x, y) == IF e.op \in {"ADD", "ADC", "INC"} THEN x + y + c ELSE x - y
           l == From
           o == Outcome(regs, flags, res)
<1>1. (Finished(ops) => Asked(e, sum(l % 16, r % 16), sum(Signed(l), Signed(r)), sum(l, r))) => FlagsDescribe
  BY ZenonT(30) DEF FlagsDescribe, Asked
<1> SUFFICES ASSUME Finished(ops) PROVE Asked(e, sum(l % 16, r % 16), sum(Signed(l), Signed(r)), sum(l, r))
  BY <1>1
<1>2. /\ e.op \in ops /\ Does(e, o) /\ o.res = "ok" /\ o.flags = flags
      /\ size \in Sizes /\ e \in Entries /\ l = Old(e)
  BY FinishedDid
<1>3. SumDone(e, o) /\ DifferenceDone(e, o) /\ StepDone(e, o)
  BY <1>2 DEF Does
<1>4. l \in Numbers
  BY <1>2 DEF Old, Entries, Registers
<1> HIDE DEF e, l, o
<1>5. CASE e.op \in {"ADD", "ADC"}
  <2>1. r = e.src /\ \A x, y : sum(x, y) = x + y + c
    BY <1>5
  <2>2. e.src \in Numbers
    BY <1>2, <1>3, <1>5, Zenon DEF SumDone
  <2>3. c \in 0..1 /\ c = IF e.op = "ADC" /\ "CF" \in e.flags THEN 1 ELSE 0
    OBVIOUS
  <2> HIDE DEF c, sum, r
  <2>4. Described(e, (l % 16) + (r % 16) + c, Signed(l) + Signed(r) + c, l + r + c)
    BY <1>2, <1>3, <1>4, <1>5, <2>1, <2>2, <2>3, SumDescribed
  <2>5. Asked(e, (l % 16) + (r % 16) + c, Signed(l) + Signed(r) + c, l + r + c)
    BY <2>4, DescribedAsked
  <2> QED
    BY <2>1, <2>5, Zenon
<1>6. CASE e.op \in {"SUB", "CMP"}
  <2>1. r = e.src /\ \A x, y : sum(x, y) = x - y
    BY <1>6
  <2>2. e.src \in Numbers
    BY <1>2, <1>3, <1>6, Zenon DEF DifferenceDone
  <2> HIDE DEF c, sum, r
  <2>4. Described(e, (l % 16) - (r % 16), Signed(l) - Signed(r), l - r)
    BY <1>2, <1>3, <1>4, <1>6, <2>1, <2>2, DifferenceDescribed
  <2>5. Asked(e, (l % 16) - (r % 16), Signed(l) - Signed(r), l - r)
    BY <2>4, DescribedAsked
  <2> QED
    BY <2>1, <2>5, Zenon
<1>7. CASE e.op \in {"INC", "DEC"}
  <2> DEFINE n == IF e.op = "INC" THEN 1 ELSE -1
  <2>1. n \in Int /\ n = IF e.op = "INC" THEN 1 ELSE -1
    OBVIOUS
  <2>2. r = 1 /\ c = 0 /\ 1 % 16 = 1 /\ \A x \in Int : sum(x, 1) = x + n
    BY <1>7
  <2>3. Signed(1) = 1
    <3>1. 1 < Sign
      BY <1>2, SpanIs DEF Span
    <3> QED
      BY <3>1 DEF Signed
  <2>4. l \in Int /\ l % 16 \in Int /\ Signed(l) \in Int
    BY <1>2, <1>4, PartsAre
  <2> HIDE DEF n, sum, r, c
  <2>5. Described(e, (l % 16) + n, Signed(l) + n, l + n)
    BY <1>2, <1>3, <1>4, <1>7, <2>1, StepDescribed
  <2>6. Asked(e, (l % 16) + n, Signed(l) + n, l + n)
    BY <2>5, DescribedAsked
  <2>7. sum(l % 16, 1) = (l % 16) + n /\ sum(Signed(l), 1) = Signed(l) + n /\ sum(l, 1) = l + n
    BY <2>2, <2>4
  <2>8. sum(l % 16, r % 16) = (l % 16) + n /\ sum(Signed(l), Signed(r)) = Signed(l) + n /\ sum(l, r) = l + n
    BY <2>2, <2>3, <2>7, Zenon
  <2> QED
    BY <2>6, <2>8, Zenon
<1> QED
  BY <1>2, <1>5, <1>6, <1>7

\* ADD, ADC, SUB, CMP, INC and DEC leave flags that say what happened to the numbers,
\* but for OF of ADD and ADC of 8 and 16 bits in the forms that are not typed.
THEOREM FlagsDoDescribe == Spec => []FlagsDescribe
<1>1. AluInv => FlagsDescribe
  BY FlagsFollow
<1> QED
  BY <1>1, AluAlways, PTL

-----------------------------------------------------------------------------
(* Two instructions in a row.                                              *)

\* Of two instructions in a row, the first did what it should to what the second found, and the second to the present state.
LEMMA BothDid ==
  ASSUME AluInv, NEW a, NEW b, Did(<<a, b>>)
  PROVE  /\ past[1] \in Entries /\ past[2] \in Entries /\ past[1].op = a /\ past[2].op = b
         /\ size \in Sizes /\ regs \in Registers /\ flags \in FlagSets /\ Before = past[1].regs
         /\ Does(past[1], Outcome(past[2].regs, past[2].flags, "ok"))
         /\ Does(past[2], Outcome(regs, flags, "ok"))
<1>1. Typed /\ Followed
  BY DEF AluInv
<1>2. res = "ok" /\ Len(past) = 2 /\ past[1].op = a /\ past[2].op = b
  BY DEF Did
<1>3. past \in Seq(Entries) /\ 1 \in 1 .. Len(past) /\ 2 \in 1 .. Len(past)
  BY <1>1, <1>2 DEF Typed
<1>4. past[1] \in Entries /\ past[2] \in Entries
  BY <1>3, ElementOfSeq
<1>5. After(1) = Outcome(past[2].regs, past[2].flags, "ok") /\ After(2) = Outcome(regs, flags, "ok")
  BY <1>2 DEF After
<1>6. Does(past[1], After(1)) /\ Does(past[2], After(2))
  BY <1>1, <1>3 DEF Followed
<1> QED
  BY <1>1, <1>2, <1>4, <1>5, <1>6 DEF Typed, Before

\* A number of two words, and one more that carries or borrows.
CarriesOut(m, x, y, k) ==
  LET n == y * m + x + k * (m * m)
  IN  /\ n \in Int /\ n % (m * m) = y * m + x
      /\ n < 0 <=> k = -1
      /\ n > m * m - 1 <=> k = 1

\* A carry k of the high word is exactly what the two words together are out of range by.
LEMMA TwoWords ==
  ASSUME NEW m \in Nat \ {0}, NEW x \in 0 .. m - 1, NEW y \in 0 .. m - 1, NEW k \in {-1, 0, 1}
  PROVE  CarriesOut(m, x, y, k)
<1> DEFINE p == m * m
           w == y * m + x
           n == y * m + x + k * (m * m)
<1>1. w \in Nat /\ w < p /\ p \in Nat \ {0}
  <2>1. \A t \in 0 .. m - 1 : t * m \in Nat /\ t * m <= m * m - m
    <3> TAKE t \in 0 .. m - 1
    <3>1. \A i, j \in Nat : i <= j => i * m <= j * m
      OBVIOUS
    <3>2. m - 1 \in Nat /\ t \in Nat /\ t <= m - 1
      OBVIOUS
    <3>3. t * m <= (m - 1) * m /\ (m - 1) * m = m * m - m /\ t * m \in Nat
      BY <3>1, <3>2
    <3> QED
      BY <3>3
  <2>2. p \in Nat /\ p > 0
    OBVIOUS
  <2>3. y * m \in Nat /\ y * m <= p - m /\ x \in Nat /\ x < m /\ m \in Nat
    BY <2>1
  <2> HIDE DEF p
  <2> DEFINE z == y * m
  <2>4. z \in Nat /\ z <= p - m /\ w = z + x
    BY <2>3
  <2> HIDE DEF z, w
  <2> QED
    BY <2>2, <2>3, <2>4
<1>2. n = p * k + w /\ n = w + k * p
  <2>1. k * p = p * k /\ p * k \in Int
    BY <1>1
  <2>2. n = w + k * p
    OBVIOUS
  <2> HIDE DEF n, w, p
  <2> QED
    BY <1>1, <2>1, <2>2
<1>3. w = y * m + x /\ p = m * m
  OBVIOUS
<1>4. n = y * m + x + k * (m * m)
  OBVIOUS
<1> HIDE DEF p, w, n
<1>5. (p * k + w) % p = w
  <2>1. w \in 0 .. p - 1 /\ k \in Int
    BY <1>1
  <2> QED
    BY <1>1, <2>1, ModUnique
<1>6. n \in Int /\ (n < 0 <=> k = -1) /\ (n > p - 1 <=> k = 1)
  <2>1. k * p = IF k = 0 THEN 0 ELSE IF k = 1 THEN p ELSE -p
    BY <1>1
  <2> DEFINE q == k * p
  <2>2. q = IF k = 0 THEN 0 ELSE IF k = 1 THEN p ELSE -p
    BY <2>1
  <2>3. n = w + q
    BY <1>2
  <2> HIDE DEF q
  <2> QED
    BY <1>1, <2>2, <2>3
<1>7. n % p = w
  BY <1>2, <1>5, Zenon
<1> QED
  BY <1>6, <1>7, Zenon DEF n, p, w, CarriesOut

WordsAdd(m, a, d, r, s, c) ==
  LET n == (d * m + a) + (r + s * m)
  IN  /\ n % (m * m) = ((d + s + c) % m) * m + ((a + r) % m)
      /\ ~(n < 0) /\ (n > m * m - 1 <=> d + s + c > m - 1)
\* A sum of two words with a carry between them.
LEMMA SumOfWords ==
  ASSUME NEW m \in Nat \ {0}, NEW a \in 0 .. m - 1, NEW d \in 0 .. m - 1, NEW r \in 0 .. m - 1, NEW s \in 0 .. m - 1,
         NEW c, c = IF a + r > m - 1 THEN 1 ELSE 0
  PROVE  WordsAdd(m, a, d, r, s, c)
<1> DEFINE k == IF d + s + c > m - 1 THEN 1 ELSE 0
           x == a + r
           y == d + s + c
           u == x % m
           v == y % m
           n == (d * m + a) + (r + s * m)
<1>1. x \in Int /\ 0 <= x /\ x < 2 * m /\ m \in Nat /\ m > 0
  OBVIOUS
<1>2. y \in Int /\ 0 <= y /\ y < 2 * m
  OBVIOUS
<1>3. c = (IF x > m - 1 THEN 1 ELSE 0) /\ k = IF y > m - 1 THEN 1 ELSE 0
  OBVIOUS
<1>4. x = a + r /\ y = d + s + c
  OBVIOUS
<1> HIDE DEF x, y, k
<1>5. u \in 0 .. m - 1 /\ v \in 0 .. m - 1 /\ u = (IF x > m - 1 THEN x - m ELSE x) /\ v = IF y > m - 1 THEN y - m ELSE y
  BY <1>1, <1>2, WrapsOnce
<1> HIDE DEF u, v
<1>6. a + r = u + c * m /\ d + s + c = v + k * m /\ k \in {-1, 0, 1} /\ c \in 0..1
  BY <1>1, <1>2, <1>3, <1>4, <1>5
<1>7. n = v * m + u + k * (m * m)
  <2>1. d \in Int /\ a \in Int /\ r \in Int /\ s \in Int /\ m \in Int /\ u \in Int /\ v \in Int /\ k \in Int /\ c \in Int
    BY <1>5, <1>6
  <2>3. a + r = u + c * m /\ d + s = v + k * m - c
    BY <1>6, <2>1
  <2>4. \A dd, ss, aa, rr, uu, cc, vv, kk, mm \in Int :
          aa + rr = uu + cc * mm /\ dd + ss = vv + kk * mm - cc =>
            (dd * mm + aa) + (rr + ss * mm) = vv * mm + uu + kk * (mm * mm)
    <3> TAKE dd, ss, aa, rr, uu, cc, vv, kk, mm \in Int
    <3> HAVE aa + rr = uu + cc * mm /\ dd + ss = vv + kk * mm - cc
    <3>1. (dd * mm + aa) + (rr + ss * mm) = (dd + ss) * mm + (aa + rr)
      OBVIOUS
    <3>2. (vv + kk * mm - cc) * mm = vv * mm + kk * (mm * mm) - cc * mm
      OBVIOUS
    <3> QED
      BY <3>1, <3>2
  <2> QED
    BY <2>1, <2>3, <2>4
<1>8. n % (m * m) = v * m + u /\ (n < 0 <=> k = -1) /\ (n > m * m - 1 <=> k = 1)
  <2> DEFINE w == v * m + u + k * (m * m)
  <2>1. w % (m * m) = v * m + u /\ (w < 0 <=> k = -1) /\ (w > m * m - 1 <=> k = 1)
    <3>1. CarriesOut(m, u, v, k)
      BY <1>5, <1>6, TwoWords
    <3> QED
      BY <3>1, Zenon DEF CarriesOut
  <2>2. n = w
    BY <1>7
  <2> HIDE DEF w, n
  <2> QED
    BY <2>1, <2>2, Zenon
<1>9. k # -1 /\ (k = 1 <=> y > m - 1)
  BY <1>3
<1> QED
  BY <1>4, <1>8, <1>9, Zenon DEF n, u, v, WordsAdd

WordsSubtract(m, a, d, r, s, c) ==
  LET n == (d * m + a) - (r + s * m)
  IN  /\ n % (m * m) = ((d - s - c) % m) * m + ((a - r) % m)
      /\ ~(n > m * m - 1) /\ (n < 0 <=> d < s + c)
\* A difference of two words with a borrow between them.
LEMMA DifferenceOfWords ==
  ASSUME NEW m \in Nat \ {0}, NEW a \in 0 .. m - 1, NEW d \in 0 .. m - 1, NEW r \in 0 .. m - 1, NEW s \in 0 .. m - 1,
         NEW c, c = IF a < r THEN 1 ELSE 0
  PROVE  WordsSubtract(m, a, d, r, s, c)
<1> DEFINE k == IF d < s + c THEN -1 ELSE 0
           x == a - r
           y == d - s - c
           u == x % m
           v == y % m
           n == (d * m + a) - (r + s * m)
<1>1. x \in Int /\ -m <= x /\ x < m /\ m \in Nat /\ m > 0 /\ (x < 0 <=> a < r)
  OBVIOUS
<1>2. y \in Int /\ -m <= y /\ y < m /\ (y < 0 <=> d < s + c)
  OBVIOUS
<1>3. c = (IF x < 0 THEN 1 ELSE 0) /\ k = IF y < 0 THEN -1 ELSE 0
  OBVIOUS
<1>4. x = a - r /\ y = d - s - c
  OBVIOUS
<1> HIDE DEF x, y, k
<1>5. u \in 0 .. m - 1 /\ v \in 0 .. m - 1 /\ u = (IF x < 0 THEN x + m ELSE x) /\ v = IF y < 0 THEN y + m ELSE y
  BY <1>1, <1>2, WrapsOnce
<1> HIDE DEF u, v
<1>6. a - r = u - c * m /\ d - s - c = v + k * m /\ k \in {-1, 0, 1} /\ c \in 0..1
  BY <1>1, <1>2, <1>3, <1>4, <1>5
<1>7. n = v * m + u + k * (m * m)
  <2>1. d \in Int /\ a \in Int /\ r \in Int /\ s \in Int /\ m \in Int /\ u \in Int /\ v \in Int /\ k \in Int /\ c \in Int
    BY <1>5, <1>6
  <2>2. a - r = u - c * m /\ d - s = v + k * m + c
    BY <1>6, <2>1
  <2>3. \A dd, ss, aa, rr, uu, cc, vv, kk, mm \in Int :
          aa - rr = uu - cc * mm /\ dd - ss = vv + kk * mm + cc =>
            (dd * mm + aa) - (rr + ss * mm) = vv * mm + uu + kk * (mm * mm)
    <3> TAKE dd, ss, aa, rr, uu, cc, vv, kk, mm \in Int
    <3> HAVE aa - rr = uu - cc * mm /\ dd - ss = vv + kk * mm + cc
    <3>1. (dd * mm + aa) - (rr + ss * mm) = (dd - ss) * mm + (aa - rr)
      OBVIOUS
    <3>2. (vv + kk * mm + cc) * mm = vv * mm + kk * (mm * mm) + cc * mm
      OBVIOUS
    <3> QED
      BY <3>1, <3>2
  <2> QED
    BY <2>1, <2>2, <2>3
<1>8. n % (m * m) = v * m + u /\ (n < 0 <=> k = -1) /\ (n > m * m - 1 <=> k = 1)
  <2> DEFINE w == v * m + u + k * (m * m)
  <2>1. w % (m * m) = v * m + u /\ (w < 0 <=> k = -1) /\ (w > m * m - 1 <=> k = 1)
    <3>1. CarriesOut(m, u, v, k)
      BY <1>5, <1>6, TwoWords
    <3> QED
      BY <3>1, Zenon DEF CarriesOut
  <2>2. n = w
    BY <1>7
  <2> HIDE DEF w, n
  <2> QED
    BY <2>1, <2>2, Zenon
<1>9. k # 1 /\ (k = -1 <=> y < 0)
  BY <1>3
<1> QED
  BY <1>2, <1>4, <1>8, <1>9, Zenon DEF n, u, v, WordsSubtract

\* The other half of a register pair stays.
LEMMA HalvesKept ==
  ASSUME NEW e, e.regs \in Registers, NEW v \in Numbers
  PROVE  /\ e.regs.a \in Numbers /\ e.regs.d \in Numbers
         /\ e.to = "a" => Old(e) = e.regs.a /\ With(e, v).a = v /\ With(e, v).d = e.regs.d
         /\ e.to = "d" => Old(e) = e.regs.d /\ With(e, v).d = v /\ With(e, v).a = e.regs.a
BY DEF Old, With, Registers

Exactly(n) == Wide(regs) = n % (Mod * Mod) /\ ("CF" \in flags) = SumOutOf(0, Mod * Mod - 1, n)

\* ADD and ADC in a row add numbers of two words.
LEMMA WideAdd ==
  ASSUME AluInv, Did(<<"ADD", "ADC">>), past[1].to = "a", past[2].to = "d"
  PROVE  Exactly(Wide(Before) + (past[1].src + past[2].src * Mod))
<1> DEFINE e == past[1]
           f == past[2]
           o == Outcome(f.regs, f.flags, "ok")
           p == Outcome(regs, flags, "ok")
           a == e.regs.a
           d == e.regs.d
           r == e.src
           s == f.src
           u == (a + r + 0) % Mod
           c == Carry(f.flags)
           v == (d + s + c) % Mod
<1>1. /\ e \in Entries /\ f \in Entries /\ e.op = "ADD" /\ f.op = "ADC" /\ size \in Sizes /\ Before = e.regs
      /\ Does(e, o) /\ Does(f, p) /\ e.to = "a" /\ f.to = "d"
  BY BothDid
<1>2. e.regs \in Registers /\ f.regs \in Registers
  BY <1>1 DEF Entries
<1>3. o.regs = f.regs /\ o.flags = f.flags /\ o.res = "ok" /\ p.regs = regs /\ p.flags = flags /\ p.res = "ok"
  BY OutcomeIs
<1>4. SumDone(e, o) /\ SumDone(f, p)
  BY <1>1 DEF Does
<1>5. a \in Numbers /\ d \in Numbers
  BY <1>2 DEF Registers
<1>6. Old(e) = a
  BY <1>1 DEF Old
<1> HIDE DEF e, f, o, p
<1>7. r \in Numbers /\ f.regs = With(e, u) /\ ("CF" \in f.flags <=> a + r + 0 > Mod - 1)
  <2>1. e.op \in {"ADD", "ADC"} /\ e.op # "ADC"
    BY <1>1
  <2> QED
    BY <1>3, <1>4, <1>6, <2>1, Zenon DEF SumDone
<1>8. a \in 0 .. Mod - 1 /\ d \in 0 .. Mod - 1 /\ r \in 0 .. Mod - 1 /\ Mod \in Nat \ {0}
  BY <1>1, <1>5, <1>7, SpanIs DEF Numbers
<1>9. a + r + 0 = a + r /\ u \in Numbers
  <2>1. a + r + 0 \in Int /\ a + r + 0 = a + r
    BY <1>8
  <2> QED
    BY <1>1, <2>1, ModType
<1>10. f.regs.a = u /\ f.regs.d = d /\ Old(f) = d
  <2>1. f.regs.a = u /\ f.regs.d = d
    <3> HIDE DEF u
    <3> QED
      BY <1>1, <1>2, <1>7, <1>9, HalvesKept
  <2> QED
    BY <1>1, <2>1 DEF Old
<1>11. s \in Numbers /\ regs = With(f, v) /\ ("CF" \in flags <=> d + s + c > Mod - 1)
  <2>1. f.op \in {"ADD", "ADC"}
    BY <1>1
  <2> HIDE DEF d
  <2> QED
    BY <1>1, <1>3, <1>4, <1>10, <2>1, Zenon DEF SumDone
<1>12. s \in 0 .. Mod - 1 /\ c \in 0..1 /\ c = IF a + r > Mod - 1 THEN 1 ELSE 0
  <2>1. s \in 0 .. Mod - 1
    BY <1>1, <1>11, SpanIs DEF Numbers
  <2>2. "CF" \in f.flags <=> a + r > Mod - 1
    BY <1>7, <1>9
  <2> QED
    BY <2>1, <2>2 DEF Carry
<1>13. v \in Numbers
  <2>1. d + s + c \in Int
    BY <1>8, <1>12
  <2> QED
    BY <1>1, <2>1, ModType
<1>14. regs.a = u /\ regs.d = v
  <2> HIDE DEF u, v
  <2> QED
    BY <1>1, <1>2, <1>10, <1>11, <1>13, HalvesKept
<1>15. u = (a + r) % Mod
  BY <1>9, Zenon
<1> DEFINE n == (d * Mod + a) + (r + s * Mod)
<1>16. Wide(Before) + (past[1].src + past[2].src * Mod) = n
  BY <1>1 DEF Wide, e, f
<1> HIDE DEF a, d, r, s, u, c, v
<1>17. /\ n % (Mod * Mod) = ((d + s + c) % Mod) * Mod + ((a + r) % Mod)
       /\ ~(n < 0) /\ (n > Mod * Mod - 1 <=> d + s + c > Mod - 1)
  <2>1. WordsAdd(Mod, a, d, r, s, c)
    BY <1>8, <1>12, SumOfWords
  <2> QED
    BY <2>1, Zenon DEF WordsAdd, n
<1> HIDE DEF n
<1>18. Wide(regs) = n % (Mod * Mod)
  BY <1>14, <1>15, <1>17, Zenon DEF Wide, v
<1>19. "CF" \in flags <=> SumOutOf(0, Mod * Mod - 1, n)
  BY <1>11, <1>17, Zenon DEF SumOutOf
<1>20. ("CF" \in flags) = SumOutOf(0, Mod * Mod - 1, n)
  BY <1>19, SameTruth DEF SumOutOf
<1> QED
  BY <1>16, <1>18, <1>20, Zenon DEF Exactly

\* SUB and SBB in a row subtract numbers of two words.
LEMMA WideSub ==
  ASSUME AluInv, Did(<<"SUB", "SBB">>), past[1].to = "a", past[2].to = "d",
         ~(size = "D" /\ past[2].src = Mod - 1 /\ "CF" \in past[2].flags)
  PROVE  Exactly(Wide(Before) - (past[1].src + past[2].src * Mod))
<1> DEFINE e == past[1]
           f == past[2]
           o == Outcome(f.regs, f.flags, "ok")
           p == Outcome(regs, flags, "ok")
           a == e.regs.a
           d == e.regs.d
           r == e.src
           s == f.src
           u == (a - r) % Mod
           c == Carry(f.flags)
           v == (d - s - c) % Mod
<1>1. /\ e \in Entries /\ f \in Entries /\ e.op = "SUB" /\ f.op = "SBB" /\ size \in Sizes /\ Before = e.regs
      /\ Does(e, o) /\ Does(f, p) /\ e.to = "a" /\ f.to = "d" /\ ~(size = "D" /\ s = Mod - 1 /\ c = 1)
  BY BothDid DEF Carry
<1>2. e.regs \in Registers /\ f.regs \in Registers
  BY <1>1 DEF Entries
<1>3. o.regs = f.regs /\ o.flags = f.flags /\ o.res = "ok" /\ p.regs = regs /\ p.flags = flags /\ p.res = "ok"
  BY OutcomeIs
<1>4. DifferenceDone(e, o) /\ BorrowDone(f, p)
  BY <1>1 DEF Does
<1>5. a \in Numbers /\ d \in Numbers
  BY <1>2 DEF Registers
<1>6. Old(e) = a
  BY <1>1 DEF Old
<1> HIDE DEF e, f, o, p
<1>7. r \in Numbers /\ f.regs = With(e, u) /\ ("CF" \in f.flags <=> a < r)
  <2>1. e.op \in {"SUB", "CMP"}
    BY <1>1
  <2> QED
    BY <1>1, <1>3, <1>4, <1>6, <2>1, Zenon DEF DifferenceDone
<1>8. a \in 0 .. Mod - 1 /\ d \in 0 .. Mod - 1 /\ r \in 0 .. Mod - 1 /\ Mod \in Nat \ {0}
  BY <1>1, <1>5, <1>7, SpanIs DEF Numbers
<1>9. u \in Numbers
  <2>1. a - r \in Int
    BY <1>8
  <2> QED
    BY <1>1, <2>1, ModType
<1>10. f.regs.a = u /\ f.regs.d = d /\ Old(f) = d
  <2>1. f.regs.a = u /\ f.regs.d = d
    <3> HIDE DEF u
    <3> QED
      BY <1>1, <1>2, <1>7, <1>9, HalvesKept
  <2> QED
    BY <1>1, <2>1 DEF Old
<1>11. s \in Numbers /\ regs = With(f, v) /\ ("CF" \in flags <=> d < s + c)
  <2> HIDE DEF d
  <2> QED
    BY <1>1, <1>3, <1>4, <1>10, Zenon DEF BorrowDone
<1>12. s \in 0 .. Mod - 1 /\ c \in 0..1 /\ c = IF a < r THEN 1 ELSE 0
  <2>1. s \in 0 .. Mod - 1
    BY <1>1, <1>11, SpanIs DEF Numbers
  <2> QED
    BY <1>7, <2>1 DEF Carry
<1>13. v \in Numbers
  <2>1. d - s - c \in Int
    BY <1>8, <1>12
  <2> QED
    BY <1>1, <2>1, ModType
<1>14. regs.a = u /\ regs.d = v
  <2> HIDE DEF u, v
  <2> QED
    BY <1>1, <1>2, <1>10, <1>11, <1>13, HalvesKept
<1> DEFINE n == (d * Mod + a) - (r + s * Mod)
<1>16. Wide(Before) - (past[1].src + past[2].src * Mod) = n
  BY <1>1 DEF Wide, e, f
<1> HIDE DEF a, d, r, s, c, v
<1>17. /\ n % (Mod * Mod) = ((d - s - c) % Mod) * Mod + ((a - r) % Mod)
       /\ ~(n > Mod * Mod - 1) /\ (n < 0 <=> d < s + c)
  <2>1. WordsSubtract(Mod, a, d, r, s, c)
    BY <1>8, <1>12, DifferenceOfWords
  <2> QED
    BY <2>1, Zenon DEF WordsSubtract, n
<1> HIDE DEF n
<1>18. Wide(regs) = n % (Mod * Mod)
  BY <1>14, <1>17, Zenon DEF Wide, v
<1>19. "CF" \in flags <=> SumOutOf(0, Mod * Mod - 1, n)
  BY <1>11, <1>17, Zenon DEF SumOutOf
<1>20. ("CF" \in flags) = SumOutOf(0, Mod * Mod - 1, n)
  BY <1>19, SameTruth DEF SumOutOf
<1> QED
  BY <1>16, <1>18, <1>20, Zenon DEF Exactly

\* ADD with ADC, and SUB with SBB, compute on numbers of two words as on whole ones,
\* but for the double word SBB of all ones and a borrow.
THEOREM WideSumsAreExact == Spec => []WideSums
<1>1. AluInv => WideSums
  BY WideAdd, WideSub, Zenon DEF WideSums, Exactly
<1> QED
  BY <1>1, AluAlways, PTL

\* A division that succeeds inverts the multiplication.
LEMMA QuotientFollows ==
  ASSUME AluInv, Finished({"DIV", "IDIV"})
  PROVE  LET n == IF LastOp.op = "DIV" THEN Wide(LastOp.regs) ELSE SignedWide(LastOp.regs)
             num(x) == IF LastOp.op = "DIV" THEN x ELSE Signed(x)
             m == num(LastOp.src)
         IN  /\ num(regs.a) * m + num(regs.d) = n
             /\ Magnitude(num(regs.d)) < Magnitude(m)
             /\ num(regs.d) # 0 => (num(regs.d) < 0) = (n < 0)
<1> DEFINE e == LastOp
           o == Outcome(regs, flags, res)
           n == IF e.op = "DIV" THEN Wide(e.regs) ELSE SignedWide(e.regs)
           num(x) == IF e.op = "DIV" THEN x ELSE Signed(x)
           m == num(e.src)
<1>1. e.op \in {"DIV", "IDIV"} /\ o.res = "ok" /\ o.regs = regs /\ Does(e, o)
  BY FinishedDid
<1> HIDE DEF e, o
<1>2. QuotientDone(e, o)
  BY <1>1 DEF Does
<1>3. /\ num(regs.a) * m + num(regs.d) = n
      /\ Magnitude(num(regs.d)) < Magnitude(m)
      /\ num(regs.d) # 0 => (num(regs.d) < 0 <=> n < 0)
  BY <1>1, <1>2, Zenon DEF QuotientDone
<1> HIDE DEF n, num
<1>4. num(regs.d) # 0 => (num(regs.d) < 0) = (n < 0)
  BY <1>3, SameTruth
<1> QED
  BY <1>3, <1>4, Zenon DEF e, n, num

\* One that fails has no quotient to find.
LEMMA NoQuotient ==
  ASSUME AluInv, past # <<>>, res = "diverr", LastOp.op \in {"DIV", "IDIV"}, ~(LastOp.op = "IDIV" /\ size = "D")
  PROVE  LET n == IF LastOp.op = "DIV" THEN Wide(LastOp.regs) ELSE SignedWide(LastOp.regs)
             num(x) == IF LastOp.op = "DIV" THEN x ELSE Signed(x)
             m == num(LastOp.src)
             low == IF LastOp.op = "DIV" THEN 0 ELSE -Sign
         IN  m = 0 \/ \A q \in low .. low + Mod - 1 :
                        ~(Magnitude(n - q * m) < Magnitude(m) /\ (n - q * m # 0 => (n - q * m < 0) = (n < 0)))
<1> DEFINE e == LastOp
           o == Outcome(regs, flags, res)
           n == IF e.op = "DIV" THEN Wide(e.regs) ELSE SignedWide(e.regs)
           num(x) == IF e.op = "DIV" THEN x ELSE Signed(x)
           m == num(e.src)
           low == IF e.op = "DIV" THEN 0 ELSE -Sign
<1>1. e.op \in {"DIV", "IDIV"} /\ Does(e, o)
  BY LastDid
<1>2. o.res = "diverr"
  BY OutcomeIs
<1>3. ~(e.op = "IDIV" /\ size = "D")
  OBVIOUS
<1> HIDE DEF e, o
<1>4. QuotientDone(e, o)
  BY <1>1 DEF Does
<1>5. m = 0 \/ \A q \in low .. low + Mod - 1 :
                 ~(Magnitude(n - q * m) < Magnitude(m) /\ (n - q * m # 0 => (n - q * m < 0 <=> n < 0)))
  BY <1>1, <1>2, <1>3, <1>4, Zenon DEF QuotientDone
<1>6. ASSUME NEW q, (n - q * m < 0) = (n < 0) PROVE n - q * m < 0 <=> n < 0
  BY <1>6, Zenon
<1> HIDE DEF n, num, low, m
<1>7. m = 0 \/ \A q \in low .. low + Mod - 1 :
                 ~(Magnitude(n - q * m) < Magnitude(m) /\ (n - q * m # 0 => (n - q * m < 0) = (n < 0)))
  BY <1>5, <1>6, Zenon
<1> QED
  BY <1>7, Zenon DEF e, n, num, low, m

\* Products are whole, and CF and OF say whether the upper half is used.
LEMMA ProductFollows ==
  ASSUME AluInv
  PROVE  /\ Finished({"MUL"}) => Wide(regs) = LastOp.regs.a * LastOp.src
         /\ Finished({"MUL"}) /\ size # "B" =>
              flags \cap {"CF", "OF"} = When(regs.d # 0, "CF") \cup When(regs.d # 0, "OF")
         /\ Finished({"IMUL"}) =>
              /\ SignedWide(regs) = Signed(LastOp.regs.a) * Signed(LastOp.src)
              /\ ("CF" \in flags) = (SignedWide(regs) # Signed(regs.a))
         /\ Finished({"IMUL2", "IMULI"}) => Result = (Signed(From) * Signed(LastOp.src)) % Mod
<1> DEFINE e == LastOp
           o == Outcome(regs, flags, res)
<1>1. ASSUME NEW ops, Finished(ops)
      PROVE  /\ e.op \in ops /\ o.res = "ok" /\ o.regs = regs /\ o.flags = flags /\ Does(e, o)
             /\ o.regs[e.to] = Result /\ From = Old(e)
  BY <1>1, FinishedDid
<1> HIDE DEF e, o
<1>2. ASSUME Finished({"MUL"})
      PROVE  /\ Wide(regs) = e.regs.a * e.src
             /\ size # "B" => flags \cap {"CF", "OF"} = When(regs.d # 0, "CF") \cup When(regs.d # 0, "OF")
  <2>1. e.op = "MUL" /\ o.res = "ok" /\ o.regs = regs /\ o.flags = flags /\ ProductDone(e, o)
    BY <1>1, <1>2 DEF Does
  <2>2. /\ Wide(regs) = e.regs.a * e.src
        /\ size # "B" => /\ "CF" \in flags <=> regs.d # 0
                         /\ "OF" \in flags <=> regs.d # 0
    BY <2>1, Zenon DEF ProductDone
  <2>3. ASSUME NEW c, "CF" \in flags <=> c, "OF" \in flags <=> c
        PROVE  flags \cap {"CF", "OF"} = When(c, "CF") \cup When(c, "OF")
    <3>1. /\ \A f : f \in When(c, "CF") <=> c /\ f = "CF"
          /\ \A f : f \in When(c, "OF") <=> c /\ f = "OF"
      BY WhenIs
    <3>2. \A f : f \in flags \cap {"CF", "OF"} <=> f \in When(c, "CF") \cup When(c, "OF")
      BY <2>3, <3>1
    <3> QED
      BY <3>2
  <2> QED
    BY <2>2, <2>3
<1>3. ASSUME Finished({"IMUL"})
      PROVE  /\ SignedWide(regs) = Signed(e.regs.a) * Signed(e.src)
             /\ ("CF" \in flags) = (SignedWide(regs) # Signed(regs.a))
  <2>1. e.op = "IMUL" /\ o.res = "ok" /\ o.regs = regs /\ o.flags = flags /\ ProductDone(e, o)
    BY <1>1, <1>3 DEF Does
  <2>2. /\ SignedWide(regs) = Signed(e.regs.a) * Signed(e.src)
        /\ "CF" \in flags <=> SignedWide(regs) # Signed(regs.a)
    BY <2>1, Zenon DEF ProductDone
  <2> QED
    BY <2>2, SameTruth
<1>4. ASSUME Finished({"IMUL2", "IMULI"}) PROVE Result = (Signed(From) * Signed(e.src)) % Mod
  <2>1. /\ e.op \in {"IMUL2", "IMULI"} /\ o.res = "ok" /\ ProductDone(e, o) /\ o.regs[e.to] = Result
        /\ From = Old(e)
    BY <1>1, <1>4 DEF Does
  <2> QED
    BY <2>1, Zenon DEF ProductDone
<1> QED
  BY <1>2, <1>3, <1>4, Zenon DEF e

\* Dividing a product by one of its factors gives the other.
LEMMA ProductDivided ==
  ASSUME AluInv, Did(<<"MUL", "DIV">>), past[1].src = past[2].src
  PROVE  regs = [Before EXCEPT !.d = 0]
<1> DEFINE e == past[1]
           f == past[2]
           o == Outcome(f.regs, f.flags, "ok")
           p == Outcome(regs, flags, "ok")
           a == e.regs.a
           s == e.src
           x == regs.a
           y == regs.d
<1>1. /\ e \in Entries /\ f \in Entries /\ e.op = "MUL" /\ f.op = "DIV" /\ size \in Sizes /\ Before = e.regs
      /\ Does(e, o) /\ Does(f, p) /\ regs \in Registers /\ f.src = s
  BY BothDid
<1>2. o.regs = f.regs /\ o.res = "ok" /\ p.regs = regs /\ p.res = "ok"
  BY OutcomeIs
<1>3. ProductDone(e, o) /\ QuotientDone(f, p)
  BY <1>1 DEF Does
<1>4. e.regs \in Registers /\ e.src \in Nat
  BY <1>1 DEF Entries
<1>5. a \in Numbers /\ x \in Numbers /\ y \in Numbers
  BY <1>1, <1>4 DEF Registers
<1> HIDE DEF e, f, o, p
<1>6. Wide(f.regs) = a * s /\ s \in Numbers
  BY <1>1, <1>2, <1>3, Zenon DEF ProductDone
<1>7. x * s + y = Wide(f.regs) /\ Magnitude(y) < Magnitude(s)
  BY <1>1, <1>2, <1>3, Zenon DEF QuotientDone
<1>8. a \in Nat /\ s \in Nat /\ x \in Nat /\ y \in Nat
  BY <1>1, <1>5, <1>6, SpanIs DEF Numbers
<1>9. y < s
  BY <1>7, <1>8 DEF Magnitude
<1>10. regs = [a |-> x, d |-> y]
  BY <1>1 DEF Registers
<1>11. [e.regs EXCEPT !.d = 0] = [a |-> a, d |-> 0]
  BY <1>4 DEF Registers
<1>12. x * s + y = a * s
  BY <1>6, <1>7
<1> HIDE DEF a, s, x, y
<1>13. s * x + y = s * a + 0 /\ s \in Nat \ {0} /\ y \in 0 .. s - 1 /\ 0 \in 0 .. s - 1
  <2>1. x * s = s * x /\ a * s = s * a /\ s * a \in Nat /\ s * a + 0 = s * a
    BY <1>8
  <2> QED
    BY <1>8, <1>9, <1>12, <2>1
<1>14. (s * x + y) % s = y /\ (s * a + 0) % s = 0
  BY <1>8, <1>13, ModUnique
<1>15. (s * x + y) \div s = x /\ (s * a + 0) \div s = a
  BY <1>8, <1>13, DivUnique
<1>16. y = 0 /\ x = a
  BY <1>13, <1>14, <1>15, Zenon
<1> QED
  BY <1>1, <1>10, <1>11, <1>16

\* The invariant implies that division inverts multiplication.
LEMMA DivisionFollows ==
  ASSUME AluInv
  PROVE  DivisionExact
<1>1. res # "ok" => regs = LastOp.regs
  <2> SUFFICES ASSUME res # "ok" PROVE regs = LastOp.regs
    OBVIOUS
  <2>1. past # <<>>
    BY DEF AluInv, Followed
  <2>2. Does(LastOp, Outcome(regs, flags, res))
    BY <2>1, LastDid
  <2>3. Outcome(regs, flags, res).res = res /\ Outcome(regs, flags, res).regs = regs
    BY OutcomeIs
  <2> QED
    BY <2>2, <2>3, Zenon DEF Does
<1> QED
  BY <1>1, QuotientFollows, NoQuotient, ProductFollows, ProductDivided, ZenonT(60) DEF DivisionExact

\* DIV and IDIV invert MUL and IMUL, and raise the divide error only when there is no
\* quotient that fits; but for the 32-bit IDIV, and the flags of the byte MUL.
THEOREM DivisionIsExact == Spec => []DivisionExact
<1>1. AluInv => DivisionExact
  BY DivisionFollows
<1> QED
  BY <1>1, AluAlways, PTL

-----------------------------------------------------------------------------
(* Decimal numbers.                                                        *)

\* A byte of two digits is a decimal number, their tens and ones.
LEMMA TwoDigits ==
  ASSUME NEW h \in Nat, h < 10, NEW u \in Nat, u < 10, NEW y, y = 16 * h + u
  PROVE  IsBCD(y) /\ Decimal(y) = 10 * h + u
<1>1. y % 16 = u /\ y \div 16 = h
  OBVIOUS
<1> QED
  BY <1>1 DEF IsBCD, Decimal

\* A decimal number is its two digits, each below 10.
LEMMA DigitsOf ==
  ASSUME NEW x \in Nat, IsBCD(x)
  PROVE  /\ x \div 16 \in Nat /\ x % 16 \in Nat /\ x \div 16 < 10 /\ x % 16 < 10
         /\ x = 16 * (x \div 16) + (x % 16) /\ Decimal(x) = 10 * (x \div 16) + (x % 16)
<1>1. x \div 16 \in Nat /\ x % 16 \in Nat /\ x = 16 * (x \div 16) + (x % 16)
  OBVIOUS
<1> QED
  BY <1>1 DEF IsBCD, Decimal

\* What makes the decimal number n of y.
Packed(y, carry, n) == IsBCD(y) /\ Decimal(y) = n % 100 /\ (carry <=> SumOutOf(0, 99, n))

\* DAA makes y of the byte x, the sum of t tens and s ones.
DaaOf(t, s, x, low, high, y) ==
  /\ t \in Nat /\ t <= 18 /\ s \in Nat /\ s <= 19 /\ x = (16 * t + s) % 256
  /\ (low <=> x % 16 > 9 \/ s > 15) /\ (high <=> x > 153 \/ 16 * t + s > 255)
  /\ y = (x + (IF low THEN 6 ELSE 0) + (IF high THEN 96 ELSE 0)) % 256

\* DAA leaves the two digits of the sum, and the carry is its hundred.
LEMMA DaaPacks ==
  ASSUME NEW t, NEW s, NEW x, NEW low, NEW high, NEW y, DaaOf(t, s, x, low, high, y)
  PROVE  Packed(y, high, 10 * t + s)
<1>0. /\ t \in Nat /\ t <= 18 /\ s \in Nat /\ s <= 19 /\ x = (16 * t + s) % 256
      /\ (low <=> x % 16 > 9 \/ s > 15) /\ (high <=> x > 153 \/ 16 * t + s > 255)
      /\ y = (x + (IF low THEN 6 ELSE 0) + (IF high THEN 96 ELSE 0)) % 256
  BY DEF DaaOf
<1> DEFINE z == 16 * t + s
<1>1. z \in Nat /\ z <= 307 /\ z = 16 * t + s /\ x = z % 256
  BY <1>0
<1>2. x = IF z > 255 THEN z - 256 ELSE z
  BY <1>0, <1>1
<1> DEFINE k == IF z > 255 THEN t - 16 ELSE t
<1>3. x = 16 * k + s /\ k \in Int
  BY <1>0, <1>1, <1>2
<1>4. x % 16 = IF s > 15 THEN s - 16 ELSE s
  BY <1>0, <1>3
<1>5. low <=> s > 9
  BY <1>0, <1>4
<1>6. high <=> 16 * t + s > 153
  BY <1>0, <1>1, <1>2
<1>7. high <=> 10 * t + s > 99
  BY <1>0, <1>6
<1> DEFINE h == IF s > 9 THEN (IF high THEN t - 9 ELSE t + 1) ELSE (IF high THEN t - 10 ELSE t)
           u == IF s > 9 THEN s - 10 ELSE s
           w == x + (IF low THEN 6 ELSE 0) + (IF high THEN 96 ELSE 0)
<1>8. h \in Nat /\ h < 10 /\ u \in Nat /\ u < 10 /\ 10 * h + u = IF high THEN 10 * t + s - 100 ELSE 10 * t + s
  BY <1>0, <1>7
<1>9. w \in Int /\ (w = 16 * h + u \/ w = 16 * h + u + 256)
  BY <1>0, <1>1, <1>2, <1>5, <1>6, <1>7
<1>10. y = 16 * h + u
  <2>1. y = w % 256
    BY <1>0
  <2> HIDE DEF w, h, u
  <2> QED
    BY <1>8, <1>9, <2>1
<1>11. (10 * t + s) % 100 = 10 * h + u
  <2>1. 10 * h + u \in Nat /\ 10 * h + u < 100
    BY <1>0, <1>8
  <2> HIDE DEF h, u
  <2> QED
    BY <1>0, <1>8, <2>1
<1>12. ~(10 * t + s < 0)
  BY <1>0
<1> HIDE DEF h, u
<1>13. IsBCD(y) /\ Decimal(y) = 10 * h + u
  BY <1>8, <1>10, TwoDigits
<1> QED
  BY <1>7, <1>11, <1>12, <1>13 DEF Packed, SumOutOf

\* DAS makes y of the byte x, the difference of t tens and s ones.
DasOf(t, s, x, af, low, high, carry, y) ==
  /\ t \in Int /\ -9 <= t /\ t <= 9 /\ s \in Int /\ -10 <= s /\ s <= 9 /\ x = (16 * t + s) % 256
  /\ (af => s < 0) /\ (s < -1 => af)
  /\ (low <=> x % 16 > 9 \/ af) /\ (high <=> x > 153 \/ 16 * t + s < 0) /\ (carry <=> high \/ (low /\ x < 6))
  /\ y = (x - (IF low THEN 6 ELSE 0) - (IF high THEN 96 ELSE 0)) % 256

\* DAS leaves the two digits of the difference, and the carry is its borrow.
LEMMA DasPacks ==
  ASSUME NEW t, NEW s, NEW x, NEW af, NEW low, NEW high, NEW carry, NEW y,
         DasOf(t, s, x, af, low, high, carry, y)
  PROVE  Packed(y, carry, 10 * t + s)
<1>0. /\ t \in Int /\ -9 <= t /\ t <= 9 /\ s \in Int /\ -10 <= s /\ s <= 9 /\ x = (16 * t + s) % 256
      /\ (af => s < 0) /\ (s < -1 => af)
      /\ (low <=> x % 16 > 9 \/ af) /\ (high <=> x > 153 \/ 16 * t + s < 0) /\ (carry <=> high \/ (low /\ x < 6))
      /\ y = (x - (IF low THEN 6 ELSE 0) - (IF high THEN 96 ELSE 0)) % 256
  BY DEF DasOf
<1> DEFINE z == 16 * t + s
<1>1. z \in Int /\ -154 <= z /\ z <= 153 /\ z = 16 * t + s /\ x = z % 256
  BY <1>0
<1>2. x = IF z < 0 THEN z + 256 ELSE z
  BY <1>0, <1>1
<1> DEFINE k == IF z < 0 THEN t + 16 ELSE t
<1>3. x = 16 * k + s /\ k \in Int
  BY <1>0, <1>1, <1>2
<1>4. x % 16 = IF s < 0 THEN s + 16 ELSE s
  BY <1>0, <1>3
<1>5. low <=> s < 0
  BY <1>0, <1>4
<1>6. high <=> 16 * t + s < 0
  BY <1>0, <1>1, <1>2
<1>7. (high <=> 10 * t + s < 0) /\ (carry <=> high)
  BY <1>0, <1>1, <1>2, <1>5, <1>6
<1> DEFINE h == IF s < 0 THEN (IF high THEN t + 9 ELSE t - 1) ELSE (IF high THEN t + 10 ELSE t)
           u == IF s < 0 THEN s + 10 ELSE s
           w == x - (IF low THEN 6 ELSE 0) - (IF high THEN 96 ELSE 0)
<1>8. h \in Nat /\ h < 10 /\ u \in Nat /\ u < 10 /\ 10 * h + u = IF high THEN 10 * t + s + 100 ELSE 10 * t + s
  BY <1>0, <1>7
<1>9. w = 16 * h + u
  BY <1>0, <1>1, <1>2, <1>5, <1>6, <1>7
<1>10. y = 16 * h + u
  <2>1. y = w % 256
    BY <1>0
  <2> HIDE DEF w, h, u
  <2> QED
    BY <1>8, <1>9, <2>1
<1>11. (10 * t + s) % 100 = 10 * h + u
  <2>1. 10 * h + u \in Nat /\ 10 * h + u < 100
    BY <1>0, <1>8
  <2> HIDE DEF h, u
  <2> QED
    BY <1>0, <1>8, <2>1
<1>12. ~(10 * t + s > 99)
  BY <1>0
<1> HIDE DEF h, u
<1>13. IsBCD(y) /\ Decimal(y) = 10 * h + u
  BY <1>8, <1>10, TwoDigits
<1> QED
  BY <1>7, <1>11, <1>12, <1>13 DEF Packed, SumOutOf

\* The carry that went into a sum or difference.
Part(e) == IF e.op \in {"ADC", "SBB"} THEN Carry(e.flags) ELSE 0

\* A byte of the program, and what an adjustment finds after it.
Bytes(l, d, r, c) == l \in Nat /\ l < 256 /\ d \in Nat /\ d < 256 /\ r \in Nat /\ r < 256 /\ c \in 0..1

\* What an adjustment finds after ADD or ADC: the sum, its CF and its AF.
LEMMA SumAdjusted ==
  ASSUME AluInv, NEW op \in {"ADD", "ADC"}, NEW b \in {"DAA", "AAA"}, Did(<<op, b>>), past[1].to = "a",
         NEW c, c = Part(past[1])
  PROVE  /\ Bytes(Before.a, Before.d, past[1].src, c)
         /\ past[2].regs.a = (Before.a + past[1].src + c) % 256 /\ past[2].regs.d = Before.d
         /\ "CF" \in past[2].flags <=> Before.a + past[1].src + c > 255
         /\ "AF" \in past[2].flags <=> (Before.a % 16) + (past[1].src % 16) + c > 15
         /\ past[2].op = b /\ AdjustDone(past[2], Outcome(regs, flags, "ok"))
<1> DEFINE e == past[1]
           f == past[2]
           o == Outcome(f.regs, f.flags, "ok")
           p == Outcome(regs, flags, "ok")
           a == e.regs.a
           d == e.regs.d
           r == e.src
           v == (a + r + c) % Mod
<1>1. /\ e \in Entries /\ f \in Entries /\ e.op = op /\ f.op = b /\ size \in Sizes /\ Before = e.regs
      /\ Does(e, o) /\ Does(f, p) /\ e.to = "a"
  BY BothDid
<1>2. e.regs \in Registers
  BY <1>1 DEF Entries
<1>3. o.regs = f.regs /\ o.flags = f.flags /\ o.res = "ok" /\ p.res = "ok"
  BY OutcomeIs
<1>4. SumDone(e, o) /\ AdjustDone(f, p)
  BY <1>1 DEF Does
<1>5. a \in Numbers /\ d \in Numbers
  BY <1>2 DEF Registers
<1>6. Old(e) = a
  BY <1>1 DEF Old
<1>7. c = IF e.op = "ADC" THEN Carry(e.flags) ELSE 0
  BY <1>1 DEF Part
<1> HIDE DEF e, f, o, p
<1>8. size = "B"
  <2>1. f.op \in {"AAA", "AAS", "DAA", "DAS", "AAM", "AAD"}
    BY <1>1
  <2> QED
    BY <1>3, <1>4, <2>1, Zenon DEF AdjustDone
<1>9. Mod = 256
  BY <1>8, SpanIs DEF Sizes
<1>10. /\ r \in Numbers /\ f.regs = With(e, v) /\ ("CF" \in f.flags <=> a + r + c > Mod - 1)
       /\ ("AF" \in f.flags <=> (a % 16) + (r % 16) + c > 15)
  <2>1. e.op \in {"ADD", "ADC"}
    BY <1>1
  <2> QED
    BY <1>3, <1>4, <1>6, <1>7, <2>1, Zenon DEF SumDone
<1>11. Bytes(a, d, r, c)
  BY <1>5, <1>7, <1>9, <1>10, SMTT(20) DEF Bytes, Numbers, Carry
<1>12. v \in Numbers
  <2>1. a + r + c \in Int
    BY <1>11 DEF Bytes
  <2> QED
    BY <1>1, <2>1, ModType
<1>13. f.regs.a = v /\ f.regs.d = d
  <2> HIDE DEF v
  <2> QED
    BY <1>1, <1>2, <1>10, <1>12, HalvesKept
<1>14. Mod - 1 = 255
  BY <1>9, SMT
<1> HIDE DEF a, d, r
<1>15. f.regs.a = (a + r + c) % 256 /\ ("CF" \in f.flags <=> a + r + c > 255)
  BY <1>9, <1>10, <1>13, <1>14, SMT
<1> QED
  BY <1>1, <1>4, <1>10, <1>11, <1>13, <1>15 DEF a, d, r, e, f, p

\* What an adjustment finds after SUB or SBB: the difference, its CF and its AF.
LEMMA DifferenceAdjusted ==
  ASSUME AluInv, NEW op \in {"SUB", "SBB"}, NEW b \in {"DAS", "AAS"}, Did(<<op, b>>), past[1].to = "a",
         NEW c, c = Part(past[1])
  PROVE  /\ Bytes(Before.a, Before.d, past[1].src, c)
         /\ past[2].regs.a = (Before.a - past[1].src - c) % 256 /\ past[2].regs.d = Before.d
         /\ "CF" \in past[2].flags <=> Before.a < past[1].src + c
         /\ past[1].src % 16 < 15 => ("AF" \in past[2].flags <=> Before.a % 16 < past[1].src % 16)
         /\ past[2].op = b /\ AdjustDone(past[2], Outcome(regs, flags, "ok"))
<1> DEFINE e == past[1]
           f == past[2]
           o == Outcome(f.regs, f.flags, "ok")
           p == Outcome(regs, flags, "ok")
           a == e.regs.a
           d == e.regs.d
           r == e.src
           v == (a - r - c) % Mod
<1>1. /\ e \in Entries /\ f \in Entries /\ e.op = op /\ f.op = b /\ size \in Sizes /\ Before = e.regs
      /\ Does(e, o) /\ Does(f, p) /\ e.to = "a"
  BY BothDid
<1>2. e.regs \in Registers
  BY <1>1 DEF Entries
<1>3. o.regs = f.regs /\ o.flags = f.flags /\ o.res = "ok" /\ p.res = "ok"
  BY OutcomeIs
<1>4. DifferenceDone(e, o) /\ BorrowDone(e, o) /\ AdjustDone(f, p)
  BY <1>1 DEF Does
<1>5. a \in Numbers /\ d \in Numbers
  BY <1>2 DEF Registers
<1>6. Old(e) = a
  BY <1>1 DEF Old
<1>7. c = IF e.op = "SBB" THEN Carry(e.flags) ELSE 0
  BY <1>1 DEF Part
<1> HIDE DEF e, f, o, p
<1>8. size = "B"
  <2>1. f.op \in {"AAA", "AAS", "DAA", "DAS", "AAM", "AAD"}
    BY <1>1
  <2> QED
    BY <1>3, <1>4, <2>1, Zenon DEF AdjustDone
<1>9. Mod = 256
  BY <1>8, SpanIs DEF Sizes
<1>10. r \in Numbers
  <2>1. e.op = "SUB" => r \in Numbers
    <3>1. e.op = "SUB" => e.op \in {"SUB", "CMP"}
      OBVIOUS
    <3> QED
      BY <1>3, <1>4, <3>1, Zenon DEF DifferenceDone
  <2>2. e.op = "SBB" => r \in Numbers
    BY <1>3, <1>4, Zenon DEF BorrowDone
  <2> QED
    BY <1>1, <2>1, <2>2
<1>11. Bytes(a, d, r, c)
  BY <1>5, <1>7, <1>9, <1>10, SMTT(20) DEF Bytes, Numbers, Carry
<1>12. f.regs = With(e, v) /\ ("CF" \in f.flags <=> a < r + c) /\ (r % 16 < 15 => ("AF" \in f.flags <=> a % 16 < r % 16))
  <2>1. CASE e.op = "SUB"
    <3>1. f.regs = With(e, (a - r) % Mod) /\ ("CF" \in f.flags <=> a < r) /\ ("AF" \in f.flags <=> a % 16 < r % 16)
      <4>1. e.op \in {"SUB", "CMP"}
        BY <2>1
      <4> QED
        BY <1>3, <1>4, <1>6, <2>1, <4>1, Zenon DEF DifferenceDone
    <3>2. c = 0 /\ a - r - c = a - r /\ r + c = r
      BY <1>7, <1>11, <2>1 DEF Bytes
    <3> QED
      BY <3>1, <3>2, Zenon
  <2>2. CASE e.op = "SBB"
    <3>1. /\ f.regs = With(e, (a - r - c) % Mod) /\ (~(size = "D" /\ r = Mod - 1 /\ c = 1) => ("CF" \in f.flags <=> a < r + c))
          /\ (size # "D" => ("AF" \in f.flags <=> (r + c) % 16 < c \/ a % 16 < ((r + c) % 16) - c))
      BY <1>3, <1>4, <1>6, <1>7, <2>2, Zenon DEF BorrowDone
    <3>2. r % 16 < 15 => (r + c) % 16 = (r % 16) + c
      <4>1. c = 0 \/ c = 1
        BY <1>11 DEF Bytes
      <4>2. r + 0 = r /\ (r % 16) + 0 = r % 16 /\ (r % 16 < 15 => (r + 1) % 16 = (r % 16) + 1)
        BY <1>11 DEF Bytes
      <4> QED
        BY <4>1, <4>2
    <3>3. r % 16 < 15 => ~((r + c) % 16 < c) /\ ((r + c) % 16) - c = r % 16
      <4>1. r % 16 \in Nat /\ c \in Nat
        BY <1>11 DEF Bytes
      <4> DEFINE u == r % 16
                 w == (r + c) % 16
      <4>2. u < 15 => w = u + c
        BY <3>2
      <4>3. u \in Nat
        BY <4>1
      <4> HIDE DEF u, w
      <4>4. u < 15 => ~(w < c) /\ w - c = u
        BY <4>1, <4>2, <4>3
      <4> QED
        BY <4>4 DEF u, w
    <3>4. size # "D"
      BY <1>8
    <3> QED
      BY <3>1, <3>3, <3>4, Zenon
  <2> QED
    BY <1>1, <2>1, <2>2
<1>13. v \in Numbers
  <2>1. a - r - c \in Int
    BY <1>11 DEF Bytes
  <2> QED
    BY <1>1, <2>1, ModType
<1>14. f.regs.a = v /\ f.regs.d = d
  <2> HIDE DEF v
  <2> QED
    BY <1>1, <1>2, <1>12, <1>13, HalvesKept
<1> HIDE DEF a, d, r
<1>15. f.regs.a = (a - r - c) % 256
  BY <1>9, <1>14, SMT
<1> QED
  BY <1>1, <1>4, <1>11, <1>12, <1>14, <1>15 DEF a, d, r, e, f, p

PackedNow(n) == IsBCD(regs.a) /\ Decimal(regs.a) = n % 100 /\ ("CF" \in flags) = SumOutOf(0, 99, n)
DigitsNow(n) == regs.a = n % 10 /\ regs.d = (Before.d + n \div 10) % 256

\* ADD or ADC, and DAA, add decimal numbers.
LEMMA DaaFollows ==
  ASSUME AluInv, NEW op \in {"ADD", "ADC"}, Did(<<op, "DAA">>), past[1].to = "a", IsBCD(Before.a), IsBCD(past[1].src)
  PROVE  PackedNow(Decimal(Before.a) + Decimal(past[1].src) + Part(past[1]))
<1> DEFINE l == Before.a
           r == past[1].src
           c == Part(past[1])
           f == past[2]
           p == Outcome(regs, flags, "ok")
           x == f.regs.a
           low == x % 16 > 9 \/ "AF" \in f.flags
           high == x > 153 \/ "CF" \in f.flags
           t == (l \div 16) + (r \div 16)
           s == (l % 16) + (r % 16) + c
           n == Decimal(l) + Decimal(r) + c
<1>1. /\ Bytes(l, Before.d, r, c) /\ x = (l + r + c) % 256 /\ ("CF" \in f.flags <=> l + r + c > 255)
      /\ ("AF" \in f.flags <=> (l % 16) + (r % 16) + c > 15) /\ f.op = "DAA" /\ AdjustDone(f, p)
  BY SumAdjusted
<1>2. p.regs = regs /\ p.flags = flags /\ p.res = "ok"
  BY OutcomeIs
<1>3. IsBCD(l) /\ IsBCD(r)
  OBVIOUS
<1> HIDE DEF f, p, l, r, c
<1>4. regs.a = (x + (IF low THEN 6 ELSE 0) + (IF high THEN 96 ELSE 0)) % 256 /\ ("CF" \in flags <=> high)
  BY <1>1, <1>2, Zenon DEF AdjustDone
<1>5. l \in Nat /\ r \in Nat /\ c \in 0..1
  BY <1>1 DEF Bytes
<1>6. /\ l \div 16 \in Nat /\ l % 16 \in Nat /\ l \div 16 < 10 /\ l % 16 < 10
      /\ l = 16 * (l \div 16) + (l % 16) /\ Decimal(l) = 10 * (l \div 16) + (l % 16)
  BY <1>3, <1>5, DigitsOf
<1>7. /\ r \div 16 \in Nat /\ r % 16 \in Nat /\ r \div 16 < 10 /\ r % 16 < 10
      /\ r = 16 * (r \div 16) + (r % 16) /\ Decimal(r) = 10 * (r \div 16) + (r % 16)
  BY <1>3, <1>5, DigitsOf
<1>8. t \in Nat /\ t <= 18 /\ s \in Nat /\ s <= 19 /\ l + r + c = 16 * t + s /\ n = 10 * t + s
  <2> DEFINE lh == l \div 16
             ll == l % 16
             rh == r \div 16
             rl == r % 16
  <2>1. /\ lh \in Nat /\ lh < 10 /\ ll \in Nat /\ ll < 10 /\ rh \in Nat /\ rh < 10 /\ rl \in Nat /\ rl < 10 /\ c \in 0..1
        /\ l = 16 * lh + ll /\ r = 16 * rh + rl /\ Decimal(l) = 10 * lh + ll /\ Decimal(r) = 10 * rh + rl
    BY <1>5, <1>6, <1>7
  <2>2. t = lh + rh /\ s = ll + rl + c
    OBVIOUS
  <2>3. n = Decimal(l) + Decimal(r) + c
    OBVIOUS
  <2> HIDE DEF lh, ll, rh, rl, t, s, n
  <2> QED
    BY <2>1, <2>2, <2>3
<1>9. x = (16 * t + s) % 256 /\ ("CF" \in f.flags <=> 16 * t + s > 255)
  <2> HIDE DEF t, s, x
  <2> QED
    BY <1>1, <1>8, SMT
<1>10. (low <=> x % 16 > 9 \/ s > 15) /\ (high <=> x > 153 \/ 16 * t + s > 255)
  <2>1. "AF" \in f.flags <=> s > 15
    BY <1>1
  <2> HIDE DEF t, s
  <2> QED
    BY <1>9, <2>1
<1>11. DaaOf(t, s, x, low, high, regs.a)
  <2> HIDE DEF t, s, x, low, high
  <2> QED
    BY <1>4, <1>8, <1>9, <1>10 DEF DaaOf
<1> HIDE DEF t, s, x, n, low, high
<1>15. Packed(regs.a, high, 10 * t + s)
  BY <1>11, DaaPacks, Zenon
<1>12. Packed(regs.a, high, n)
  BY <1>8, <1>15, Zenon
<1>13. ("CF" \in flags) = SumOutOf(0, 99, n)
  BY <1>4, <1>12, SameTruth DEF Packed, SumOutOf
<1>14. PackedNow(n)
  BY <1>12, <1>13, Zenon DEF Packed, PackedNow
<1> QED
  BY <1>14 DEF n, l, r, c

\* SUB or SBB, and DAS, subtract decimal numbers.
LEMMA DasFollows ==
  ASSUME AluInv, NEW op \in {"SUB", "SBB"}, Did(<<op, "DAS">>), past[1].to = "a", IsBCD(Before.a), IsBCD(past[1].src)
  PROVE  PackedNow(Decimal(Before.a) - Decimal(past[1].src) - Part(past[1]))
<1> DEFINE l == Before.a
           r == past[1].src
           c == Part(past[1])
           f == past[2]
           p == Outcome(regs, flags, "ok")
           x == f.regs.a
           af == "AF" \in f.flags
           low == x % 16 > 9 \/ af
           high == x > 153 \/ "CF" \in f.flags
           t == (l \div 16) - (r \div 16)
           s == (l % 16) - (r % 16) - c
           n == Decimal(l) - Decimal(r) - c
<1>1. /\ Bytes(l, Before.d, r, c) /\ x = (l - r - c) % 256 /\ ("CF" \in f.flags <=> l < r + c)
      /\ (r % 16 < 15 => (af <=> l % 16 < r % 16)) /\ f.op = "DAS" /\ AdjustDone(f, p)
  BY DifferenceAdjusted
<1>2. p.regs = regs /\ p.flags = flags /\ p.res = "ok"
  BY OutcomeIs
<1>3. IsBCD(l) /\ IsBCD(r)
  OBVIOUS
<1> HIDE DEF f, p, l, r, c
<1>4. /\ regs.a = (x - (IF low THEN 6 ELSE 0) - (IF high THEN 96 ELSE 0)) % 256
      /\ ("CF" \in flags <=> high \/ (low /\ x < 6))
  BY <1>1, <1>2, Zenon DEF AdjustDone
<1>5. l \in Nat /\ r \in Nat /\ c \in 0..1
  BY <1>1 DEF Bytes
<1>6. /\ l \div 16 \in Nat /\ l % 16 \in Nat /\ l \div 16 < 10 /\ l % 16 < 10
      /\ l = 16 * (l \div 16) + (l % 16) /\ Decimal(l) = 10 * (l \div 16) + (l % 16)
  BY <1>3, <1>5, DigitsOf
<1>7. /\ r \div 16 \in Nat /\ r % 16 \in Nat /\ r \div 16 < 10 /\ r % 16 < 10
      /\ r = 16 * (r \div 16) + (r % 16) /\ Decimal(r) = 10 * (r \div 16) + (r % 16)
  BY <1>3, <1>5, DigitsOf
<1>8. /\ t \in Int /\ -9 <= t /\ t <= 9 /\ s \in Int /\ -10 <= s /\ s <= 9 /\ l - r - c = 16 * t + s /\ n = 10 * t + s
      /\ (af => s < 0) /\ (s < -1 => af) /\ (l < r + c <=> 16 * t + s < 0)
  <2> DEFINE lh == l \div 16
             ll == l % 16
             rh == r \div 16
             rl == r % 16
  <2>1. /\ lh \in Nat /\ lh < 10 /\ ll \in Nat /\ ll < 10 /\ rh \in Nat /\ rh < 10 /\ rl \in Nat /\ rl < 10 /\ c \in 0..1
        /\ l = 16 * lh + ll /\ r = 16 * rh + rl /\ Decimal(l) = 10 * lh + ll /\ Decimal(r) = 10 * rh + rl
    BY <1>5, <1>6, <1>7
  <2>2. t = lh - rh /\ s = ll - rl - c
    OBVIOUS
  <2>3. n = Decimal(l) - Decimal(r) - c
    OBVIOUS
  <2>4. rl < 15 => (af <=> ll < rl)
    BY <1>1
  <2> HIDE DEF lh, ll, rh, rl, t, s, n, af
  <2> QED
    BY <2>1, <2>2, <2>3, <2>4
<1>9. x = (16 * t + s) % 256
  <2> HIDE DEF t, s, x
  <2> QED
    BY <1>1, <1>8, SMT
<1>10. (low <=> x % 16 > 9 \/ af) /\ (high <=> x > 153 \/ 16 * t + s < 0)
  <2>1. "CF" \in f.flags <=> 16 * t + s < 0
    <3> HIDE DEF t, s
    <3> QED
      BY <1>1, <1>8
  <2> HIDE DEF t, s
  <2> QED
    BY <2>1
<1> DEFINE carry == high \/ (low /\ x < 6)
<1>11. DasOf(t, s, x, af, low, high, carry, regs.a)
  <2> HIDE DEF t, s, x, low, high, af
  <2> QED
    BY <1>4, <1>8, <1>9, <1>10 DEF DasOf
<1>16. "CF" \in flags <=> carry
  BY <1>4
<1> HIDE DEF t, s, x, n, low, high, af, carry
<1>15. Packed(regs.a, carry, 10 * t + s)
  BY <1>11, DasPacks, Zenon
<1>12. Packed(regs.a, carry, n)
  BY <1>8, <1>15, Zenon
<1>13. ("CF" \in flags) = SumOutOf(0, 99, n)
  BY <1>16, <1>12, SameTruth DEF Packed, SumOutOf
<1>14. PackedNow(n)
  BY <1>12, <1>13, Zenon DEF Packed, PackedNow
<1> QED
  BY <1>14 DEF n, l, r, c

\* ADD and AAA add digits, with the carry into AH.
LEMMA AaaFollows ==
  ASSUME AluInv, Did(<<"ADD", "AAA">>), past[1].to = "a", Before.a < 10, past[1].src < 10
  PROVE  DigitsNow(Before.a + past[1].src)
<1> DEFINE l == Before.a
           r == past[1].src
           d == Before.d
           f == past[2]
           p == Outcome(regs, flags, "ok")
           x == f.regs.a
           low == x % 16 > 9 \/ "AF" \in f.flags
           n == l + r
<1>1. past[1].op = "ADD" /\ Part(past[1]) = 0
  BY BothDid DEF Part
<1>2. /\ Bytes(l, d, r, 0) /\ x = (l + r + 0) % 256 /\ f.regs.d = d
      /\ ("AF" \in f.flags <=> (l % 16) + (r % 16) + 0 > 15) /\ f.op = "AAA" /\ AdjustDone(f, p)
  BY <1>1, SumAdjusted
<1>3. p.regs = regs /\ p.flags = flags /\ p.res = "ok"
  BY OutcomeIs
<1>4. l < 10 /\ r < 10
  OBVIOUS
<1> HIDE DEF f, p, l, r, d
<1>5. regs = [a |-> (IF low THEN x + 6 ELSE x) % 16, d |-> IF low THEN (d + 1) % 256 ELSE d]
  BY <1>2, <1>3, ZenonT(30) DEF AdjustDone
<1>6. l \in Nat /\ r \in Nat /\ d \in Nat /\ d < 256
  BY <1>2 DEF Bytes
<1>7. x = n /\ n \in Nat /\ n <= 18 /\ (low <=> n > 9)
  <2>1. x = l + r /\ l % 16 = l /\ r % 16 = r
    BY <1>2, <1>4, <1>6
  <2>2. l + r > 15 <=> "AF" \in f.flags
    <3> HIDE DEF x
    <3> QED
      BY <1>2, <1>6, <2>1
  <2> HIDE DEF x
  <2>3. x % 16 = IF x > 15 THEN x - 16 ELSE x
    BY <1>4, <1>6, <2>1
  <2> QED
    BY <1>4, <1>6, <2>1, <2>2, <2>3
<1> HIDE DEF x, low, n
<1>8. (IF n > 9 THEN n + 6 ELSE n) % 16 = n % 10
  BY <1>7
<1>9. (IF n > 9 THEN (d + 1) % 256 ELSE d) = (d + n \div 10) % 256
  <2>1. n \div 10 = IF n > 9 THEN 1 ELSE 0
    BY <1>7
  <2> DEFINE k == n \div 10
  <2>2. k = IF n > 9 THEN 1 ELSE 0
    BY <2>1
  <2> HIDE DEF k
  <2>3. (IF n > 9 THEN (d + 1) % 256 ELSE d) = (d + k) % 256
    BY <1>6, <2>2
  <2> QED
    BY <2>3 DEF k
<1>10. regs.a = n % 10 /\ regs.d = (d + n \div 10) % 256
  <2>1. regs.a = (IF low THEN x + 6 ELSE x) % 16 /\ regs.d = IF low THEN (d + 1) % 256 ELSE d
    BY <1>5
  <2>2. regs.a = (IF n > 9 THEN n + 6 ELSE n) % 16 /\ regs.d = IF n > 9 THEN (d + 1) % 256 ELSE d
    BY <1>7, <2>1, Zenon
  <2> QED
    BY <1>8, <1>9, <2>2, ZenonT(30)
<1> QED
  BY <1>10 DEF DigitsNow, n, l, r, d

\* SUB and AAS subtract digits, with the borrow from AH.
LEMMA AasFollows ==
  ASSUME AluInv, Did(<<"SUB", "AAS">>), past[1].to = "a", Before.a < 10, past[1].src < 10
  PROVE  DigitsNow(Before.a - past[1].src)
<1> DEFINE l == Before.a
           r == past[1].src
           d == Before.d
           f == past[2]
           p == Outcome(regs, flags, "ok")
           x == f.regs.a
           low == x % 16 > 9 \/ "AF" \in f.flags
           n == l - r
<1>1. past[1].op = "SUB" /\ Part(past[1]) = 0
  BY BothDid DEF Part
<1>2. /\ Bytes(l, d, r, 0) /\ x = (l - r - 0) % 256 /\ f.regs.d = d
      /\ (r % 16 < 15 => ("AF" \in f.flags <=> l % 16 < r % 16)) /\ f.op = "AAS" /\ AdjustDone(f, p)
  BY <1>1, DifferenceAdjusted
<1>3. p.regs = regs /\ p.flags = flags /\ p.res = "ok"
  BY OutcomeIs
<1>4. l < 10 /\ r < 10
  OBVIOUS
<1> HIDE DEF f, p, l, r, d
<1>5. regs = [a |-> (IF low THEN x - 6 ELSE x) % 16, d |-> IF low THEN (d - 1) % 256 ELSE d]
  BY <1>2, <1>3, ZenonT(30) DEF AdjustDone
<1>6. l \in Nat /\ r \in Nat /\ d \in Nat /\ d < 256
  BY <1>2 DEF Bytes
<1>7. x = (IF n < 0 THEN n + 256 ELSE n) /\ n \in Int /\ -9 <= n /\ n <= 9 /\ (low <=> n < 0)
  <2>1. x = (IF l - r < 0 THEN l - r + 256 ELSE l - r) /\ l % 16 = l /\ r % 16 = r
    BY <1>2, <1>4, <1>6
  <2>2. l < r <=> "AF" \in f.flags
    <3> HIDE DEF x
    <3> QED
      BY <1>2, <1>4, <1>6, <2>1
  <2> HIDE DEF x
  <2>3. ~(l < r) => x % 16 = l - r
    BY <1>4, <1>6, <2>1
  <2> QED
    BY <1>4, <1>6, <2>1, <2>2, <2>3
<1> HIDE DEF low, n
<1>8. (IF n < 0 THEN x - 6 ELSE x) % 16 = n % 10
  <2> HIDE DEF x
  <2> QED
    BY <1>7
<1> HIDE DEF x
<1>9. (IF n < 0 THEN (d - 1) % 256 ELSE d) = (d + n \div 10) % 256
  <2>1. n \div 10 = IF n < 0 THEN -1 ELSE 0
    BY <1>7
  <2> DEFINE k == n \div 10
  <2>2. k = IF n < 0 THEN -1 ELSE 0
    BY <2>1
  <2> HIDE DEF k
  <2>3. (IF n < 0 THEN (d - 1) % 256 ELSE d) = (d + k) % 256
    BY <1>6, <2>2
  <2> QED
    BY <2>3 DEF k
<1>10. regs.a = n % 10 /\ regs.d = (d + n \div 10) % 256
  <2>1. regs.a = (IF low THEN x - 6 ELSE x) % 16 /\ regs.d = IF low THEN (d - 1) % 256 ELSE d
    BY <1>5
  <2>2. regs.a = (IF n < 0 THEN x - 6 ELSE x) % 16 /\ regs.d = IF n < 0 THEN (d - 1) % 256 ELSE d
    BY <1>7, <2>1, Zenon
  <2> QED
    BY <1>8, <1>9, <2>2, ZenonT(30)
<1> QED
  BY <1>10 DEF DigitsNow, n, l, r, d

\* AAD puts together what AAM took apart.
LEMMA DigitsJoined ==
  ASSUME AluInv, Did(<<"AAM", "AAD">>), past[1].src = past[2].src
  PROVE  regs = [Before EXCEPT !.d = 0]
<1> DEFINE e == past[1]
           f == past[2]
           o == Outcome(f.regs, f.flags, "ok")
           p == Outcome(regs, flags, "ok")
           a == e.regs.a
           s == e.src
<1>1. /\ e \in Entries /\ f \in Entries /\ e.op = "AAM" /\ f.op = "AAD" /\ size \in Sizes /\ Before = e.regs
      /\ Does(e, o) /\ Does(f, p) /\ f.src = s
  BY BothDid
<1>2. o.regs = f.regs /\ o.res = "ok" /\ p.regs = regs /\ p.res = "ok"
  BY OutcomeIs
<1>3. AdjustDone(e, o) /\ AdjustDone(f, p)
  BY <1>1 DEF Does
<1>4. e.regs \in Registers
  BY <1>1 DEF Entries
<1>5. a \in Numbers
  BY <1>4 DEF Registers
<1>6. [e.regs EXCEPT !.d = 0] = [a |-> a, d |-> 0]
  BY <1>4 DEF Registers
<1>7. s \in Nat
  BY <1>1 DEF Entries
<1> HIDE DEF e, f, o, p
<1>8. size = "B"
  <2>1. f.op \in {"AAA", "AAS", "DAA", "DAS", "AAM", "AAD"}
    BY <1>1
  <2> QED
    BY <1>2, <1>3, <2>1, Zenon DEF AdjustDone
<1>9. Mod = 256
  BY <1>8, SpanIs DEF Sizes
<1>10. a \in Nat /\ a < 256
  BY <1>5, <1>9, SMT DEF Numbers
<1>11. s > 0 /\ f.regs = [a |-> a % s, d |-> a \div s]
  BY <1>1, <1>2, <1>3, Zenon DEF AdjustDone
<1>12. regs = [a |-> (f.regs.a + f.regs.d * s) % 256, d |-> 0]
  BY <1>1, <1>2, <1>3, Zenon DEF AdjustDone
<1>13. f.regs.a = a % s /\ f.regs.d = a \div s
  BY <1>11
<1> HIDE DEF a, s
<1>14. (a % s) + (a \div s) * s = a
  <2>1. s \in Nat \ {0} /\ a \in Int
    BY <1>7, <1>10, <1>11
  <2>2. a = s * (a \div s) + (a % s) /\ a \div s \in Int /\ a % s \in 0 .. s - 1
    BY <2>1, Splits
  <2> DEFINE q == a \div s
             m == a % s
  <2>3. a = s * q + m /\ q \in Int /\ m \in Int
    BY <2>1, <2>2
  <2> HIDE DEF q, m
  <2>4. s * q = q * s /\ q * s \in Int
    BY <2>1, <2>3
  <2>5. m + q * s = a
    BY <2>3, <2>4
  <2> QED
    BY <2>5 DEF q, m
<1>15. (f.regs.a + f.regs.d * s) % 256 = a
  <2>1. f.regs.a + f.regs.d * s = a
    BY <1>13, <1>14, Zenon
  <2>2. a % 256 = a
    BY <1>10
  <2> QED
    BY <2>1, <2>2, SMT
<1> QED
  BY <1>1, <1>6, <1>12, <1>15

\* The invariant implies that adjusted sums and differences are decimal.
LEMMA DecimalFollows ==
  ASSUME AluInv
  PROVE  DecimalExact
<1>1. \A op : Did(<<op, "DAA">>) \/ Did(<<op, "DAS">>) \/ Did(<<op, "AAA">>) \/ Did(<<op, "AAS">>) => past[1].op = op
  BY BothDid
<1> DEFINE c == IF past[1].op \in {"ADC", "SBB"} THEN Carry(past[1].flags) ELSE 0
<1>2. c = Part(past[1])
  BY DEF Part
<1>3. ASSUME Did(<<"ADD", "DAA">>) \/ Did(<<"ADC", "DAA">>), past[1].to = "a", IsBCD(Before.a), IsBCD(past[1].src)
      PROVE  PackedNow(Decimal(Before.a) + Decimal(past[1].src) + c)
  BY <1>2, <1>3, DaaFollows
<1>4. ASSUME Did(<<"SUB", "DAS">>) \/ Did(<<"SBB", "DAS">>), past[1].to = "a", IsBCD(Before.a), IsBCD(past[1].src)
      PROVE  PackedNow(Decimal(Before.a) - Decimal(past[1].src) - c)
  BY <1>2, <1>4, DasFollows
<1> QED
  BY <1>3, <1>4, AaaFollows, AasFollows, DigitsJoined, ZenonT(60) DEF DecimalExact, PackedNow, DigitsNow

\* DAA, DAS, AAA and AAS make sums and differences of decimal numbers decimal again,
\* and AAD undoes AAM.
THEOREM DecimalsAreExact == Spec => []DecimalExact
<1>1. AluInv => DecimalExact
  BY DecimalFollows
<1> QED
  BY <1>1, AluAlways, PTL
=============================================================================
