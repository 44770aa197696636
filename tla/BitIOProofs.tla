----------------------------- MODULE BitIOProofs -----------------------------
(***************************************************************************)
(* Proof that the bit writers and readers of BitIO implement one stream of *)
(* bits, for bytes, accumulators and calls of any width and bit strings of *)
(* any length.                                                             *)
(***************************************************************************)
EXTENDS BitIO, FiniteSetTheorems, WellFoundedInduction, TLAPS

\* The least number of a set; the library's SmallestNatural takes an operator.
LEMMA LeastOf ==
  ASSUME NEW D \in SUBSET Nat, D # {}
  PROVE  \E m \in D : \A k \in D : m <= k
<1> DEFINE T == {0 .. k : k \in D}
           R == StrictSubsetOrdering(Nat)
<1>1. T # {} /\ T \subseteq FiniteSubsetsOf(Nat)
  <2>1. \A k \in D : IsFiniteSet(0 .. k) /\ 0 .. k \in SUBSET Nat
    BY FS_Interval
  <2>2. QED
    BY <2>1 DEF FiniteSubsetsOf
<1>2. IsWellFoundedOn(R, FiniteSubsetsOf(Nat))
  BY FS_StrictSubsetOrderingWellFounded
<1>3. PICK X \in T : \A Y \in T : ~ (<<Y, X>> \in R)
  <2> HIDE DEF T, R
  <2>1. QED
    BY <1>1, <1>2, WFMin
<1>4. PICK m \in D : X = 0 .. m
  OBVIOUS
<1>5. ASSUME NEW k \in D, k < m PROVE FALSE
  <2>1. /\ 0 .. k \in SUBSET Nat /\ 0 .. m \in SUBSET Nat
        /\ 0 .. k \subseteq 0 .. m /\ m \in 0 .. m /\ m \notin 0 .. k
    BY <1>5
  <2>2. <<0 .. k, 0 .. m>> \in R
    BY <2>1 DEF StrictSubsetOrdering
  <2>3. QED
    BY <1>3, <1>4, <2>2
<1>6. QED
  BY <1>5

-----------------------------------------------------------------------------
(* Loops.  A loop takes a value through the sets the turns lead to.         *)

\* What g[i] holds after turn i is F[i] of what it held before.
Follows(g, start, F, n) == g = [i \in 0 .. n |-> IF i = 0 THEN start ELSE F[i][g[i - 1]]]
Within(g, K, n) == \A i \in 0 .. n : g[i] \in K[i]
Leads(F, K, n) == \A i \in 1 .. n : F[i] \in [K[i - 1] -> K[i]]

\* Turns has the value its recursion says: one exists.
LEMMA LoopExists ==
  ASSUME NEW n \in Nat, NEW start, NEW K, NEW F, start \in K[0], Leads(F, K, n)
  PROVE  \E g : Follows(g, start, F, n) /\ Within(g, K, n)
<1> USE DEF Follows, Within, Leads
<1> DEFINE Goes(g, m) == Follows(g, start, F, m) /\ Within(g, K, m)
           Bad == {m \in Nat : m <= n /\ ~ \E g : Goes(g, m)}
<1>1. SUFFICES Bad = {}
  <2>1. n \notin Bad => \E g : Goes(g, n)
    OBVIOUS
  <2>2. QED
    BY <2>1
<1>2. SUFFICES ASSUME Bad # {} PROVE FALSE
  OBVIOUS
<1>3. PICK m \in Bad : \A k \in Bad : m <= k
  BY <1>2, LeastOf
<1>4. m \in Nat /\ m <= n /\ ~ \E g : Goes(g, m)
  BY <1>3
<1>5. CASE m = 0
  <2> DEFINE g == [i \in 0 .. 0 |-> start]
  <2>1. g[0] = start /\ \A i \in 0 .. 0 : i = 0
    OBVIOUS
  <2>2. [i \in 0 .. 0 |-> IF i = 0 THEN start ELSE F[i][g[i - 1]]] = [i \in 0 .. 0 |-> start]
    BY <2>1
  <2>3. Goes(g, 0)
    BY <2>1, <2>2
  <2> HIDE DEF g, Goes
  <2>4. QED
    BY <1>4, <1>5, <2>3
<1>6. CASE m # 0
  <2>1. m - 1 \in Nat /\ m - 1 <= n /\ ~ (m <= m - 1)
    BY <1>4, <1>6
  <2>2. m - 1 \notin Bad
    BY <1>3, <2>1
  <2>3. PICK g : Goes(g, m - 1)
    BY <2>1, <2>2
  <2> DEFINE h == [i \in 0 .. m |-> IF i = m THEN F[m][g[m - 1]] ELSE g[i]]
  <2>4. \A i \in 0 .. m : i # m => i \in 0 .. (m - 1)
    BY <1>4
  <2>5. m \in 1 .. n /\ m \in 0 .. m /\ m - 1 \in 0 .. (m - 1)
    BY <1>4, <1>6
  <2>6. \A i \in 0 .. m : i # 0 => i - 1 \in 0 .. m /\ i - 1 # m
    BY <1>4
  <2>7. \A i \in 0 .. m : h[i] = IF i = 0 THEN start ELSE F[i][h[i - 1]]
    <3> TAKE i \in 0 .. m
    <3>1. CASE i = m
      <4>1. h[m] = F[m][g[m - 1]] /\ h[m - 1] = g[m - 1]
        BY <2>5, <2>6, <1>6
      <4>2. QED
        BY <1>6, <3>1, <4>1
    <3>2. CASE i # m
      <4>1. i \in 0 .. (m - 1) /\ h[i] = g[i]
        BY <2>4, <3>2
      <4>2. g[i] = IF i = 0 THEN start ELSE F[i][g[i - 1]]
        BY <2>3, <4>1
      <4>3. i # 0 => h[i - 1] = g[i - 1]
        BY <2>6
      <4>4. QED
        BY <4>1, <4>2, <4>3
    <3>3. QED
      BY <3>1, <3>2
  <2>8. \A i \in 0 .. m : h[i] \in K[i]
    <3> TAKE i \in 0 .. m
    <3>1. CASE i = m
      <4>1. g[m - 1] \in K[m - 1]
        BY <2>3, <2>5
      <4>2. F[m] \in [K[m - 1] -> K[m]]
        BY <2>5
      <4>3. F[m][g[m - 1]] \in K[m]
        BY <4>1, <4>2
      <4>4. QED
        BY <2>5, <3>1, <4>3
    <3>2. CASE i # m
      BY <2>3, <2>4, <3>2
    <3>3. QED
      BY <3>1, <3>2
  <2>9. h = [i \in 0 .. m |-> IF i = 0 THEN start ELSE F[i][h[i - 1]]]
    <3>1. h = [i \in 0 .. m |-> h[i]]
      OBVIOUS
    <3> HIDE DEF h
    <3>2. QED
      BY <2>7, <3>1
  <2>10. Goes(h, m)
    BY <2>8, <2>9
  <2> HIDE DEF h, Goes
  <2>11. QED
    BY <1>4, <2>10
<1>7. QED
  BY <1>5, <1>6

\* What the recursion says leads from set to set, up to the last.
LEMMA LoopStays ==
  ASSUME NEW n \in Nat, NEW a, NEW K, a[0] \in K[0],
         \A i \in 1 .. n : a[i - 1] \in K[i - 1] => a[i] \in K[i]
  PROVE  a[n] \in K[n]
<1> DEFINE Bad == {m \in Nat : m <= n /\ a[m] \notin K[m]}
<1>1. SUFFICES ASSUME Bad # {} PROVE FALSE
  OBVIOUS
<1>2. PICK m \in Bad : \A k \in Bad : m <= k
  BY <1>1, LeastOf
<1>3. m \in Nat /\ m <= n /\ a[m] \notin K[m] /\ m # 0
  BY <1>2
<1>4. m - 1 \in Nat /\ m - 1 <= n /\ ~ (m <= m - 1) /\ m \in 1 .. n
  BY <1>3
<1>5. a[m - 1] \in K[m - 1]
  BY <1>2, <1>4
<1>6. QED
  BY <1>3, <1>4, <1>5

-----------------------------------------------------------------------------
(* Sequences of bits.                                                      *)

LEMMA SameBits ==
  ASSUME NEW s \in Seq(Bit), NEW t \in Seq(Bit), Len(s) = Len(t),
         \A i \in 1 .. Len(s) : s[i] = t[i]
  PROVE  s = t
OBVIOUS

LEMMA PartIs ==
  ASSUME NEW s \in Seq(Bit), NEW m \in Nat \ {0}, NEW n \in Nat,
         m <= n + 1, n <= Len(s)
  PROVE  /\ SubSeq(s, m, n) \in Seq(Bit)
         /\ Len(SubSeq(s, m, n)) = n - m + 1
         /\ \A i \in 1 .. (n - m + 1) : SubSeq(s, m, n)[i] = s[m - 1 + i]
OBVIOUS

LEMMA JoinedIs ==
  ASSUME NEW s \in Seq(Bit), NEW t \in Seq(Bit)
  PROVE  /\ s \o t \in Seq(Bit) /\ Len(s \o t) = Len(s) + Len(t)
         /\ \A i \in 1 .. Len(s) : (s \o t)[i] = s[i]
         /\ \A i \in 1 .. Len(t) : (s \o t)[Len(s) + i] = t[i]
OBVIOUS

\* A sequence whose parts are s and t is the two joined.
Parts(s, t, w) ==
  /\ Len(w) = Len(s) + Len(t)
  /\ \A i \in 1 .. Len(s) : w[i] = s[i]
  /\ \A i \in 1 .. Len(t) : w[Len(s) + i] = t[i]

LEMMA JoinedOnly ==
  ASSUME NEW s \in Seq(Bit), NEW t \in Seq(Bit), NEW w \in Seq(Bit), Parts(s, t, w)
  PROVE  s \o t = w
<1> USE DEF Parts
<1> DEFINE m == Len(s)
<1>1. /\ s \o t \in Seq(Bit) /\ Len(s \o t) = m + Len(t)
      /\ \A i \in 1 .. m : (s \o t)[i] = s[i]
      /\ \A i \in 1 .. Len(t) : (s \o t)[m + i] = t[i]
  BY JoinedIs
<1>2. \A i \in 1 .. m + Len(t) : (s \o t)[i] = w[i]
  <2> TAKE i \in 1 .. m + Len(t)
  <2>1. CASE i <= m
    BY <1>1, <2>1
  <2>2. CASE ~ (i <= m)
    <3>1. i - m \in 1 .. Len(t) /\ m + (i - m) = i
      BY <2>2
    <3>2. (s \o t)[i] = t[i - m] /\ w[i] = t[i - m]
      BY <1>1, <3>1
    <3>3. QED
      BY <3>2
  <2>3. QED
    BY <2>1, <2>2
<1>3. QED
  BY <1>1, <1>2, SameBits

LEMMA JoinedAgain ==
  ASSUME NEW s \in Seq(Bit), NEW t \in Seq(Bit), NEW u \in Seq(Bit)
  PROVE  (s \o t) \o u = s \o (t \o u)
OBVIOUS

LEMMA ZerosIs ==
  ASSUME NEW n \in Nat
  PROVE  /\ Zeros(n) \in Seq(Bit) /\ Len(Zeros(n)) = n
         /\ \A i \in 1 .. n : Zeros(n)[i] = 0
BY DEF Zeros, Bit

\* Cutting a sequence and joining the parts gives it back.
LEMMA CutJoined ==
  ASSUME NEW s \in Seq(Bit), NEW k \in Nat, k <= Len(s)
  PROVE  SubSeq(s, 1, k) \o SubSeq(s, k + 1, Len(s)) = s
<1> DEFINE u == SubSeq(s, 1, k)
           v == SubSeq(s, k + 1, Len(s))
<1>1. u \in Seq(Bit) /\ Len(u) = k /\ \A i \in 1 .. k : u[i] = s[i]
  BY PartIs
<1>2. v \in Seq(Bit) /\ Len(v) = Len(s) - k /\ \A i \in 1 .. (Len(s) - k) : v[i] = s[k + i]
  BY PartIs
<1> HIDE DEF u, v
<1>3. Parts(u, v, s)
  BY <1>1, <1>2 DEF Parts
<1>4. u \o v = s
  BY <1>1, <1>2, <1>3, JoinedOnly
<1>5. QED
  BY <1>4 DEF u, v


-----------------------------------------------------------------------------
(* Whole bytes.                                                             *)

LEMMA MulMono ==
  ASSUME NEW x \in Int, NEW y \in Int, NEW k \in Int, x <= y, k >= 0
  PROVE  x * k <= y * k
<1>1. (y - x) * k >= 0
  <2>1. \A u, v \in Nat : u * v >= 0
    OBVIOUS
  <2>2. QED
    BY <2>1
<1>2. (y - x) * k = y * k - x * k
  OBVIOUS
<1>3. QED
  BY <1>1, <1>2

LEMMA RestIs ==
  ASSUME NEW d \in Nat \ {0}, NEW n \in Int
  PROVE  n % d \in 0 .. (d - 1) /\ n \div d \in Int /\ n = (n \div d) * d + (n % d)
OBVIOUS

\* Quotient and rest are the only ones.
LEMMA RestOnly ==
  ASSUME NEW d \in Nat \ {0}, NEW n \in Int, NEW q \in Int, NEW r \in 0 .. (d - 1),
         n = q * d + r
  PROVE  n \div d = q /\ n % d = r
<1> DEFINE p == n \div d
           s == n % d
<1>1. p \in Int /\ s \in 0 .. (d - 1) /\ n = p * d + s
  BY RestIs
<1> HIDE DEF p, s
<1>2. (q - p) * d = s - r
  BY <1>1
<1>3. ~ (q - p >= 1)
  <2>1. q - p >= 1 => 1 * d <= (q - p) * d
    BY <1>1, MulMono
  <2>2. QED
    BY <1>1, <1>2, <2>1
<1>4. ~ (p - q >= 1)
  <2>1. p - q >= 1 => 1 * d <= (p - q) * d
    BY <1>1, MulMono
  <2>2. (p - q) * d = r - s
    BY <1>1
  <2>3. QED
    BY <1>1, <2>1, <2>2
<1>5. q = p
  BY <1>1, <1>3, <1>4
<1>6. QED
  BY <1>1, <1>2, <1>5 DEF p, s

LEMMA QuotientIs ==
  ASSUME NEW d \in Nat \ {0}, NEW n \in Nat
  PROVE  n \div d \in Nat /\ (n \div d) * d <= n /\ n < (n \div d) * d + d
<1> DEFINE q == n \div d
           r == n % d
           x == q * d
<1>1. q \in Int /\ r \in 0 .. (d - 1) /\ n = x + r
  BY RestIs
<1> HIDE DEF q, r
<1>2. x \in Int
  BY <1>1
<1>3. q <= 0 - 1 => x <= 0 - d
  <2>1. q <= 0 - 1 => q * d <= (0 - 1) * d
    BY <1>1, MulMono
  <2>2. QED
    BY <2>1
<1> HIDE DEF x
<1>4. x <= n /\ n < x + d /\ ~ (x <= 0 - d)
  BY <1>1, <1>2
<1>5. q \in Nat
  BY <1>1, <1>3, <1>4
<1>6. QED
  BY <1>4, <1>5 DEF q, x

LEMMA WholeIs ==
  /\ \A n \in Int : n % ByteBits = 0 <=> \E k \in Int : n = k * ByteBits
  /\ \A m, n \in Int : m % ByteBits = 0 => (m + n) % ByteBits = n % ByteBits
  /\ \A n \in Int : n % ByteBits = 0 => (- n) % ByteBits = 0
<1> DEFINE d == ByteBits
<1>1. d \in Nat \ {0}
  BY WordAssumption
<1> HIDE DEF d
<1>2. ASSUME NEW n \in Int PROVE n % d = 0 <=> \E k \in Int : n = k * d
  <2>1. ASSUME NEW k \in Int, n = k * d PROVE n % d = 0
    <3>1. n = k * d + 0 /\ 0 \in 0 .. (d - 1)
      BY <1>1, <2>1
    <3>2. QED
      BY <1>1, <3>1, RestOnly
  <2>2. ASSUME n % d = 0 PROVE \E k \in Int : n = k * d
    <3>1. n \div d \in Int /\ n = (n \div d) * d + 0
      BY <1>1, <2>2, RestIs
    <3>2. (n \div d) * d \in Int
      BY <1>1, <3>1
    <3>3. n = (n \div d) * d
      BY <3>1, <3>2
    <3>4. QED
      BY <3>1, <3>3
  <2>3. QED
    BY <2>1, <2>2
<1>3. ASSUME NEW m \in Int, NEW n \in Int, m % d = 0 PROVE (m + n) % d = n % d
  <2>1. PICK k \in Int : m = k * d
    BY <1>2, <1>3
  <2> DEFINE q == n \div d
             r == n % d
  <2>2. q \in Int /\ r \in 0 .. (d - 1) /\ n = q * d + r
    BY <1>1, RestIs
  <2> HIDE DEF q, r
  <2>3. m + n = (k + q) * d + r /\ k + q \in Int
    BY <1>1, <2>1, <2>2
  <2>4. m + n \in Int
    OBVIOUS
  <2>5. (m + n) % d = r
    BY <1>1, <2>2, <2>3, <2>4, RestOnly
  <2>6. QED
    BY <2>5 DEF r
<1>4. ASSUME NEW n \in Int, n % d = 0 PROVE (- n) % d = 0
  <2>1. PICK k \in Int : n = k * d
    BY <1>2, <1>4
  <2>2. - n = (- k) * d /\ - k \in Int /\ - n \in Int
    BY <1>1, <2>1
  <2>3. \A m \in Int : m = (- k) * d => m % d = 0
    BY <1>2, <2>2
  <2>4. QED
    BY <2>2, <2>3
<1>5. QED
  BY <1>2, <1>3, <1>4 DEF d

\* Words of the lengths the code handles fit, two bytes among them.
LEMMA RoomIs ==
  /\ ByteBits \in Nat \ {0} /\ AccBits \in Nat /\ MaxCall \in Nat \ {0}
  /\ AccBits % ByteBits = 0 /\ ByteBits + MaxCall <= AccBits /\ 2 * ByteBits <= AccBits
<1> DEFINE d == ByteBits
<1>1. /\ d \in Nat \ {0} /\ AccBits \in Nat /\ MaxCall \in Nat \ {0}
      /\ MaxCall + d <= AccBits /\ AccBits % ByteBits = 0
  BY WordAssumption
<1>2. PICK k \in Int : AccBits = k * d
  <2>1. \A n \in Int : n % ByteBits = 0 => \E k \in Int : n = k * ByteBits
    BY WholeIs
  <2>2. QED
    BY <1>1, <2>1
<1> HIDE DEF d
<1>3. ~ (k <= 1)
  <2>1. k <= 1 => k * d <= 1 * d
    BY <1>1, MulMono
  <2>2. QED
    BY <1>1, <1>2, <2>1
<1>4. 2 * d <= k * d
  BY <1>1, <1>3, MulMono
<1>5. 2 * d <= AccBits /\ d + MaxCall <= AccBits
  BY <1>1, <1>2, <1>4
<1>6. ByteBits \in Nat \ {0} /\ ByteBits + MaxCall <= AccBits /\ 2 * ByteBits <= AccBits
  BY <1>5, WordAssumption DEF d
<1>7. QED
  BY <1>1, <1>6

-----------------------------------------------------------------------------
(* Writers.                                                                 *)

Accumulators == [1 .. AccBits -> Bit]
Coders == [data : Seq(Bit), acc : Accumulators, avail : 0 .. AccBits, bytePos : Nat]

\* Nothing stands in an accumulator behind its bits.
ZeroBehind(a, n) == \A i \in 1 .. AccBits : i > n => a[i] = 0

\* Between calls a writer has whole bytes and less than one more.
Writers ==
  {s \in Coders : /\ s.avail < ByteBits /\ Len(s.data) % ByteBits = 0
                  /\ ZeroBehind(s.acc, s.avail) /\ s.bytePos = 0}

\* The bits written so far.
BitsOf(s) == s.data \o SubSeq(s.acc, 1, s.avail)

LEMMA AccumulatorIs ==
  ASSUME NEW a \in Accumulators, NEW n \in 0 .. AccBits
  PROVE  /\ a \in Seq(Bit) /\ Len(a) = AccBits
         /\ SubSeq(a, 1, n) \in Seq(Bit) /\ Len(SubSeq(a, 1, n)) = n
         /\ \A i \in 1 .. n : SubSeq(a, 1, n)[i] = a[i]
<1>1. AccBits \in Nat
  BY RoomIs
<1>2. a \in Seq(Bit) /\ Len(a) = AccBits
  BY <1>1 DEF Accumulators
<1>3. QED
  BY <1>1, <1>2, PartIs

LEMMA ShiftIs ==
  ASSUME NEW a \in Accumulators, NEW n \in 0 .. AccBits
  PROVE  /\ Shift(a, n) \in Accumulators
         /\ \A i \in 1 .. AccBits - n : Shift(a, n)[i] = a[i + n]
         /\ \A m \in n .. AccBits : ZeroBehind(a, m) => ZeroBehind(Shift(a, n), m - n)
<1>1. AccBits \in Nat
  BY RoomIs
<1>2. \A i \in 1 .. AccBits : i + n <= AccBits => i + n \in 1 .. AccBits
  BY <1>1
<1>3. Shift(a, n) \in Accumulators
  BY <1>1, <1>2 DEF Shift, Accumulators, Bit
<1>4. \A i \in 1 .. AccBits : Shift(a, n)[i] = IF i + n <= AccBits THEN a[i + n] ELSE 0
  BY DEF Shift
<1>5. \A i \in 1 .. AccBits - n : i \in 1 .. AccBits /\ i + n <= AccBits
  BY <1>1
<1>6. ASSUME NEW m \in n .. AccBits, ZeroBehind(a, m), NEW i \in 1 .. AccBits, i > m - n
      PROVE  Shift(a, n)[i] = 0
  <2>1. i + n <= AccBits => i + n \in 1 .. AccBits /\ i + n > m
    BY <1>1, <1>6
  <2>2. i + n <= AccBits => a[i + n] = 0
    BY <1>6, <2>1 DEF ZeroBehind
  <2>3. QED
    BY <1>4, <2>2
<1>7. QED
  BY <1>3, <1>4, <1>5, <1>6 DEF ZeroBehind

\* The bits put behind those of an accumulator.
LEMMA OrAtIs ==
  ASSUME NEW a \in Accumulators, NEW n \in 0 .. AccBits, ZeroBehind(a, n),
         NEW bs \in Seq(Bit), n + Len(bs) <= AccBits
  PROVE  /\ OrAt(a, n, bs) \in Accumulators
         /\ SubSeq(OrAt(a, n, bs), 1, n + Len(bs)) = SubSeq(a, 1, n) \o bs
         /\ ZeroBehind(OrAt(a, n, bs), n + Len(bs))
<1> DEFINE o == OrAt(a, n, bs)
           k == Len(bs)
<1>1. AccBits \in Nat /\ k \in Nat /\ DOMAIN bs = 1 .. k
  BY RoomIs
<1>2. \A i \in 1 .. AccBits :
        o[i] = IF i - n \in 1 .. k /\ bs[i - n] = 1 THEN 1 ELSE a[i]
  BY <1>1 DEF OrAt
<1>3. o \in Accumulators
  BY <1>1 DEF OrAt, Accumulators, Bit
<1> HIDE DEF o
<1>4. \A i \in 1 .. n : i \in 1 .. AccBits /\ o[i] = a[i]
  BY <1>1, <1>2
<1>5. ASSUME NEW i \in 1 .. k PROVE n + i \in 1 .. AccBits /\ o[n + i] = bs[i]
  <2>1. n + i \in 1 .. AccBits /\ (n + i) - n = i /\ n + i > n
    BY <1>1
  <2>2. a[n + i] = 0
    BY <2>1 DEF ZeroBehind
  <2>3. bs[i] = 0 \/ bs[i] = 1
    <3>1. bs[i] \in Bit
      OBVIOUS
    <3>2. QED
      BY <3>1 DEF Bit
  <2>4. o[n + i] = IF bs[i] = 1 THEN 1 ELSE 0
    BY <1>2, <2>1, <2>2
  <2>5. QED
    BY <2>1, <2>3, <2>4
<1>6. ZeroBehind(o, n + k)
  <2> SUFFICES ASSUME NEW i \in 1 .. AccBits, i > n + k PROVE o[i] = 0
    BY DEF ZeroBehind
  <2>1. i - n \notin 1 .. k /\ i > n
    BY <1>1
  <2>2. QED
    BY <1>2, <2>1 DEF ZeroBehind
<1>7. SubSeq(o, 1, n + k) = SubSeq(a, 1, n) \o bs
  <2> DEFINE u == SubSeq(o, 1, n + k)
             v == SubSeq(a, 1, n)
  <2>1. n + k \in 0 .. AccBits
    BY <1>1
  <2>2. u \in Seq(Bit) /\ Len(u) = n + k /\ \A i \in 1 .. n + k : u[i] = o[i]
    BY <1>3, <2>1, AccumulatorIs
  <2>3. v \in Seq(Bit) /\ Len(v) = n /\ \A i \in 1 .. n : v[i] = a[i]
    BY AccumulatorIs
  <2> HIDE DEF u, v
  <2>4. (\A i \in 1 .. n : u[i] = v[i]) /\ \A i \in 1 .. k : u[n + i] = bs[i]
    <3>1. \A i \in 1 .. n : i \in 1 .. n + k
      BY <1>1
    <3>2. \A i \in 1 .. k : n + i \in 1 .. n + k
      BY <1>1
    <3>3. QED
      BY <1>4, <1>5, <2>2, <2>3, <3>1, <3>2
  <2>5. v \o bs = u
    <3>1. Parts(v, bs, u)
      BY <2>2, <2>3, <2>4 DEF Parts
    <3>2. QED
      BY <2>2, <2>3, <3>1, JoinedOnly
  <2>6. QED
    BY <2>5 DEF u, v
<1>8. QED
  BY <1>3, <1>6, <1>7 DEF o

\* The bits of an accumulator in two parts, the second shifted to the front.
LEMMA PartsIs ==
  ASSUME NEW a \in Accumulators, NEW n \in 0 .. AccBits, NEW k \in 0 .. n
  PROVE  SubSeq(a, 1, k) \o SubSeq(Shift(a, k), 1, n - k) = SubSeq(a, 1, n)
<1> DEFINE u == SubSeq(a, 1, k)
           v == SubSeq(Shift(a, k), 1, n - k)
           w == SubSeq(a, 1, n)
<1>1. AccBits \in Nat /\ k \in 0 .. AccBits /\ n - k \in 0 .. AccBits /\ n \in Nat /\ k \in Nat
  BY RoomIs
<1>2. u \in Seq(Bit) /\ Len(u) = k /\ \A i \in 1 .. k : u[i] = a[i]
  BY <1>1, AccumulatorIs
<1>3. w \in Seq(Bit) /\ Len(w) = n /\ \A i \in 1 .. n : w[i] = a[i]
  BY <1>1, AccumulatorIs
<1>4. Shift(a, k) \in Accumulators /\ \A i \in 1 .. AccBits - k : Shift(a, k)[i] = a[i + k]
  BY <1>1, ShiftIs
<1>5. v \in Seq(Bit) /\ Len(v) = n - k /\ \A i \in 1 .. n - k : v[i] = Shift(a, k)[i]
  BY <1>1, <1>4, AccumulatorIs
<1>6. \A i \in 1 .. n - k : v[i] = a[i + k]
  <2>1. \A i \in 1 .. n - k : i \in 1 .. AccBits - k
    BY <1>1
  <2>2. QED
    BY <1>4, <1>5, <2>1
<1> HIDE DEF u, v, w
<1>7. (\A i \in 1 .. k : w[i] = u[i]) /\ \A i \in 1 .. n - k : w[k + i] = v[i]
  <2>1. \A i \in 1 .. k : i \in 1 .. n
    BY <1>1
  <2>2. \A i \in 1 .. n - k : k + i \in 1 .. n /\ k + i = i + k
    BY <1>1
  <2>3. QED
    BY <1>2, <1>3, <1>6, <2>1, <2>2
<1>8. u \o v = w
  <2>1. Parts(u, v, w)
    BY <1>1, <1>2, <1>3, <1>5, <1>7 DEF Parts
  <2>2. QED
    BY <1>2, <1>3, <1>5, <2>1, JoinedOnly
<1>9. QED
  BY <1>8 DEF u, v, w

\* The whole bytes of a count and the bits left over.
LEMMA FullIs ==
  ASSUME NEW n \in Nat
  PROVE  /\ n % ByteBits \in 0 .. (ByteBits - 1) /\ n % ByteBits <= n
         /\ n - (n % ByteBits) \in 0 .. n /\ (n - (n % ByteBits)) % ByteBits = 0
<1> DEFINE d == ByteBits
           r == n % d
           q == n \div d
<1>1. d \in Nat \ {0}
  BY RoomIs
<1>2. r \in 0 .. (d - 1) /\ q \in Int /\ n = q * d + r
  BY <1>1, RestIs
<1>3. ASSUME n < d PROVE r = n
  <2>1. n = 0 * d + n /\ n \in 0 .. (d - 1)
    BY <1>1, <1>3
  <2>2. QED
    BY <1>1, <2>1, RestOnly
<1>4. (n - r) % d = 0
  <2>1. \A m \in Int : (\E k \in Int : m = k * ByteBits) => m % ByteBits = 0
    BY WholeIs
  <2>2. n - r = q * ByteBits /\ n - r \in Int
    BY <1>1, <1>2
  <2>3. QED
    BY <1>2, <2>1, <2>2
<1> HIDE DEF r, d
<1>5. r \in 0 .. (d - 1) /\ r <= n /\ n - r \in 0 .. n
  BY <1>1, <1>2, <1>3
<1>6. QED
  BY <1>4, <1>5 DEF r, d

LEMMA WriterIs ==
  ASSUME NEW s \in Writers
  PROVE  /\ s \in Coders /\ s.data \in Seq(Bit) /\ s.acc \in Accumulators
         /\ s.avail \in 0 .. AccBits /\ s.bytePos = 0 /\ s.avail < ByteBits
         /\ Len(s.data) % ByteBits = 0 /\ ZeroBehind(s.acc, s.avail)
         /\ SubSeq(s.acc, 1, s.avail) \in Seq(Bit)
         /\ Len(SubSeq(s.acc, 1, s.avail)) = s.avail
         /\ BitsOf(s) \in Seq(Bit) /\ Len(BitsOf(s)) = Len(s.data) + s.avail
<1>1. /\ s \in Coders /\ s.data \in Seq(Bit) /\ s.acc \in Accumulators
      /\ s.avail \in 0 .. AccBits /\ s.bytePos = 0 /\ s.avail < ByteBits
      /\ Len(s.data) % ByteBits = 0 /\ ZeroBehind(s.acc, s.avail)
  BY DEF Writers, Coders
<1>2. SubSeq(s.acc, 1, s.avail) \in Seq(Bit) /\ Len(SubSeq(s.acc, 1, s.avail)) = s.avail
  BY <1>1, AccumulatorIs
<1>3. QED
  BY <1>1, <1>2, JoinedIs DEF BitsOf

\* One write appends its bits.
LEMMA PutIs ==
  ASSUME NEW s \in Writers, NEW bs \in Seq(Bit), s.avail + Len(bs) <= AccBits
  PROVE  Put(s, bs) \in Writers /\ BitsOf(Put(s, bs)) = BitsOf(s) \o bs
<1> DEFINE a == OrAt(s.acc, s.avail, bs)
           n == s.avail + Len(bs)
           r == n % ByteBits
           full == n - r
           t == Put(s, bs)
           front == SubSeq(a, 1, full)
           behind == SubSeq(Shift(a, full), 1, n - full)
           held == SubSeq(s.acc, 1, s.avail)
<1>1. /\ s \in Coders /\ s.data \in Seq(Bit) /\ s.acc \in Accumulators
      /\ s.avail \in 0 .. AccBits /\ s.bytePos = 0 /\ Len(s.data) % ByteBits = 0
      /\ ZeroBehind(s.acc, s.avail) /\ held \in Seq(Bit)
  BY WriterIs
<1>2. n \in 0 .. AccBits /\ n \in Nat /\ AccBits \in Nat /\ ByteBits \in Nat
  BY <1>1, RoomIs
<1>3. a \in Accumulators /\ SubSeq(a, 1, n) = held \o bs /\ ZeroBehind(a, n)
  BY <1>1, OrAtIs
<1>4. r \in 0 .. (ByteBits - 1) /\ full \in 0 .. n /\ full % ByteBits = 0
  BY <1>2, FullIs
<1>5. /\ t.data = s.data \o front /\ t.acc = Shift(a, full)
      /\ t.avail = n - full /\ t.bytePos = s.bytePos
      /\ t = [data |-> t.data, acc |-> t.acc, avail |-> t.avail, bytePos |-> t.bytePos]
  <2>1. t = [s EXCEPT !.data = @ \o front, !.acc = Shift(a, full), !.avail = n - full]
    BY DEF Put
  <2> HIDE DEF t, front, a, n, r, full
  <2>2. QED
    BY <1>1, <2>1 DEF Coders
<1> HIDE DEF a, n, r, full, t, held
<1>6. full \in 0 .. AccBits /\ full \in Nat /\ n - full = r /\ n - full \in 0 .. AccBits
  BY <1>2, <1>4 DEF full
<1>7. /\ front \in Seq(Bit) /\ Len(front) = full
      /\ Shift(a, full) \in Accumulators /\ ZeroBehind(Shift(a, full), n - full)
  <2>1. n \in full .. AccBits
    BY <1>2, <1>4
  <2>2. QED
    BY <1>3, <1>6, <2>1, AccumulatorIs, ShiftIs
<1>8. behind \in Seq(Bit) /\ front \o behind = held \o bs
  BY <1>2, <1>3, <1>4, <1>6, <1>7, AccumulatorIs, PartsIs
<1> HIDE DEF front, behind
<1>9. s.data \o front \in Seq(Bit) /\ Len(s.data \o front) = Len(s.data) + full
  BY <1>1, <1>7, JoinedIs
<1>10. Len(s.data \o front) % ByteBits = 0
  <2>1. \A k, m \in Int : k % ByteBits = 0 => (k + m) % ByteBits = m % ByteBits
    BY WholeIs
  <2>2. Len(s.data) \in Int /\ full \in Int
    BY <1>1, <1>6
  <2>3. QED
    BY <1>1, <1>4, <1>9, <2>1, <2>2
<1>11. t \in Writers
  <2>1. t.data \in Seq(Bit) /\ t.acc \in Accumulators /\ t.avail \in 0 .. AccBits /\ t.bytePos \in Nat
    BY <1>1, <1>5, <1>6, <1>7, <1>9
  <2>2. t \in Coders
    BY <1>5, <2>1 DEF Coders
  <2>3. t.avail < ByteBits
    BY <1>2, <1>4, <1>5, <1>6
  <2>4. QED
    BY <1>1, <1>5, <1>7, <1>10, <2>2, <2>3 DEF Writers
<1>12. BitsOf(t) = BitsOf(s) \o bs
  <2>1. BitsOf(t) = (s.data \o front) \o behind
    BY <1>5 DEF BitsOf, behind
  <2>2. (s.data \o front) \o behind = s.data \o (front \o behind)
    BY <1>1, <1>7, <1>8, JoinedAgain
  <2>3. (s.data \o held) \o bs = s.data \o (held \o bs)
    BY <1>1, JoinedAgain
  <2>4. QED
    BY <1>8, <2>1, <2>2, <2>3 DEF BitsOf, held
<1>13. QED
  BY <1>11, <1>12 DEF t

\* The writers that hold bs behind what s holds.
Grown(s, bs) == {t \in Writers : BitsOf(t) = BitsOf(s) \o bs}

LEMMA GrownAgain ==
  ASSUME NEW s \in Writers, NEW bs \in Seq(Bit), NEW cs \in Seq(Bit),
         NEW t \in Grown(s, bs), NEW u \in Grown(t, cs)
  PROVE  u \in Grown(s, bs \o cs)
<1>1. t \in Writers /\ BitsOf(t) = BitsOf(s) \o bs /\ u \in Writers /\ BitsOf(u) = BitsOf(t) \o cs
  BY DEF Grown
<1>2. BitsOf(s) \in Seq(Bit)
  BY WriterIs
<1>3. (BitsOf(s) \o bs) \o cs = BitsOf(s) \o (bs \o cs)
  BY <1>2, JoinedAgain
<1>4. QED
  BY <1>1, <1>3 DEF Grown

LEMMA GrownBy ==
  ASSUME NEW s \in Writers, NEW bs \in Seq(Bit), Len(bs) <= MaxCall \/ Len(bs) <= ByteBits
  PROVE  Put(s, bs) \in Grown(s, bs)
<1>1. s.avail \in 0 .. AccBits /\ s.avail < ByteBits
  BY WriterIs
<1>2. s.avail + Len(bs) <= AccBits
  BY <1>1, RoomIs
<1>3. QED
  BY <1>2, PutIs DEF Grown

\* No bits more, nothing changed: the writer itself.
LEMMA GrownNone ==
  ASSUME NEW s \in Writers
  PROVE  s \in Grown(s, Zeros(0)) /\ \A bs \in Seq(Bit) : Zeros(0) \o bs = bs
<1>1. BitsOf(s) \in Seq(Bit)
  BY WriterIs
<1>2. Zeros(0) \in Seq(Bit) /\ Len(Zeros(0)) = 0
  BY ZerosIs
<1> DEFINE z == Zeros(0)
<1> HIDE DEF z
<1>3. z = << >>
  BY <1>2 DEF z
<1>4. BitsOf(s) \o << >> = BitsOf(s) /\ \A bs \in Seq(Bit) : << >> \o bs = bs
  BY <1>1
<1>5. QED
  BY <1>3, <1>4 DEF Grown, z

LEMMA ZerosJoined ==
  ASSUME NEW m \in Nat, NEW n \in Nat
  PROVE  Zeros(m) \o Zeros(n) = Zeros(m + n)
<1> DEFINE u == Zeros(m)  v == Zeros(n)  w == Zeros(m + n)
<1>1. u \in Seq(Bit) /\ Len(u) = m /\ \A i \in 1 .. m : u[i] = 0
  BY ZerosIs
<1>2. v \in Seq(Bit) /\ Len(v) = n /\ \A i \in 1 .. n : v[i] = 0
  BY ZerosIs
<1>3. w \in Seq(Bit) /\ Len(w) = m + n /\ \A i \in 1 .. m + n : w[i] = 0
  BY ZerosIs
<1> HIDE DEF u, v, w
<1>4. u \o v = w
  <2>1. (\A i \in 1 .. m : i \in 1 .. m + n) /\ \A i \in 1 .. n : m + i \in 1 .. m + n
    OBVIOUS
  <2>2. Parts(u, v, w)
    BY <1>1, <1>2, <1>3, <2>1 DEF Parts
  <2>3. QED
    BY <1>1, <1>2, <1>3, <2>2, JoinedOnly
<1>5. QED
  BY <1>4 DEF u, v, w

\* write_u64 appends its word, in one part or in two.
LEMMA PutWordIs ==
  ASSUME NEW s \in Writers, NEW bs \in Seq(Bit), Len(bs) <= 2 * MaxCall
  PROVE  PutWord(s, bs) \in Grown(s, bs)
<1> DEFINE k == FirstPart(Len(bs))
           u == SubSeq(bs, 1, k)
           v == SubSeq(bs, k + 1, Len(bs))
<1>1. CASE Len(bs) <= MaxCall
  BY <1>1, GrownBy DEF PutWord
<1>2. CASE ~ (Len(bs) <= MaxCall)
  <2>1. MaxCall \in Nat
    BY RoomIs
  <2>2. k \in Nat /\ k <= MaxCall /\ Len(bs) - k <= MaxCall /\ k <= Len(bs)
    BY <1>2, <2>1 DEF FirstPart
  <2> HIDE DEF k
  <2>3. u \in Seq(Bit) /\ Len(u) <= MaxCall /\ v \in Seq(Bit) /\ Len(v) <= MaxCall
    BY <2>2, PartIs
  <2>4. u \o v = bs
    BY <2>2, CutJoined
  <2>5. PutWord(s, bs) = Put(Put(s, u), v)
    BY <1>2 DEF PutWord, k
  <2> HIDE DEF u, v
  <2>6. Put(s, u) \in Grown(s, u)
    BY <2>3, GrownBy
  <2>7. Put(Put(s, u), v) \in Grown(Put(s, u), v)
    BY <2>3, <2>6, GrownBy DEF Grown
  <2>8. QED
    BY <2>3, <2>4, <2>5, <2>6, <2>7, GrownAgain
<1>3. QED
  BY <1>1, <1>2

\* The loop of write_unary puts its zeros.
ZeroTurn(t, i) == PutZeros(t, MaxCall)

LEMMA ZeroTurns ==
  ASSUME NEW s \in Writers, NEW n \in Nat
  PROVE  Turns(ZeroTurn, s, n) \in Grown(s, Zeros(n * MaxCall))
<1> DEFINE K == [i \in 0 .. n |-> Grown(s, Zeros(i * MaxCall))]
           F == [i \in 1 .. n |-> [t \in K[i - 1] |-> ZeroTurn(t, i)]]
           Goes(g) == g = [i \in 0 .. n |-> IF i = 0 THEN s ELSE ZeroTurn(g[i - 1], i)]
<1>1. MaxCall \in Nat
  BY RoomIs
<1>2. s \in K[0]
  <2>1. 0 * MaxCall = 0 /\ 0 \in 0 .. n
    BY <1>1
  <2>2. QED
    BY <2>1, GrownNone
<1>3. ASSUME NEW i \in 1 .. n, NEW t \in K[i - 1]
      PROVE  ZeroTurn(t, i) \in K[i]
  <2>1. /\ i - 1 \in 0 .. n /\ i \in 0 .. n
        /\ (i - 1) * MaxCall \in Nat /\ (i - 1) * MaxCall + MaxCall = i * MaxCall
    BY <1>1
  <2>2. t \in Grown(s, Zeros((i - 1) * MaxCall))
    BY <1>3, <2>1
  <2>3. Zeros(MaxCall) \in Seq(Bit) /\ Len(Zeros(MaxCall)) <= MaxCall
    BY <1>1, ZerosIs
  <2>4. PutZeros(t, MaxCall) \in Grown(t, Zeros(MaxCall))
    BY <2>2, <2>3, GrownBy DEF PutZeros, Grown
  <2>5. PutZeros(t, MaxCall) \in Grown(s, Zeros((i - 1) * MaxCall) \o Zeros(MaxCall))
    BY <2>1, <2>2, <2>3, <2>4, ZerosIs, GrownAgain
  <2>6. Zeros((i - 1) * MaxCall) \o Zeros(MaxCall) = Zeros(i * MaxCall)
    BY <1>1, <2>1, ZerosJoined
  <2>7. QED
    BY <2>1, <2>5, <2>6 DEF ZeroTurn
<1> HIDE DEF K
<1>4. Leads(F, K, n)
  BY <1>3 DEF Leads
<1>5. PICK g : Follows(g, s, F, n) /\ Within(g, K, n)
  <2> HIDE DEF F, Goes
  <2>1. QED
    BY <1>2, <1>4, LoopExists
<1>6. \A i \in 0 .. n : i # 0 => F[i][g[i - 1]] = ZeroTurn(g[i - 1], i)
  <2> TAKE i \in 0 .. n
  <2>1. i # 0 => i \in 1 .. n /\ i - 1 \in 0 .. n
    OBVIOUS
  <2>2. i # 0 => g[i - 1] \in K[i - 1]
    BY <1>5, <2>1 DEF Within
  <2>3. QED
    BY <2>1, <2>2
<1>7. \E h : Goes(h)
  <2>1. [i \in 0 .. n |-> IF i = 0 THEN s ELSE F[i][g[i - 1]]]
          = [i \in 0 .. n |-> IF i = 0 THEN s ELSE ZeroTurn(g[i - 1], i)]
    BY <1>6
  <2>2. Goes(g)
    BY <1>5, <2>1 DEF Follows
  <2> HIDE DEF Goes
  <2>3. QED
    BY <2>2
<1> DEFINE a == CHOOSE h : Goes(h)
<1>8. Turns(ZeroTurn, s, n) = a[n]
  BY DEF Turns
<1>9. Goes(a)
  <2> HIDE DEF Goes
  <2>1. QED
    BY <1>7
<1>10. a = [i \in 0 .. n |-> IF i = 0 THEN s ELSE ZeroTurn(a[i - 1], i)]
  BY <1>9
<1> HIDE DEF a, Goes, F
<1>11. a[0] \in K[0] /\ \A i \in 1 .. n : a[i - 1] \in K[i - 1] => a[i] \in K[i]
  <2>1. a[0] = s /\ \A i \in 1 .. n : a[i] = ZeroTurn(a[i - 1], i)
    BY <1>10
  <2>2. QED
    BY <1>2, <1>3, <2>1
<1>12. a[n] \in K[n]
  BY <1>11, LoopStays
<1>13. QED
  BY <1>8, <1>12 DEF K

LEMMA PutUnaryIs ==
  ASSUME NEW s \in Writers, NEW n \in Nat
  PROVE  PutUnary(s, n) \in Grown(s, Zeros(n) \o <<1>>)
<1> DEFINE q == n \div MaxCall
           r == n % MaxCall
           t == Turns(ZeroTurn, s, q)
<1>1. PutUnary(s, n) = Put(PutZeros(t, r), <<1>>)
  BY DEF PutUnary, ZeroTurn, Turns
<1>2. MaxCall \in Nat \ {0} /\ r \in 0 .. (MaxCall - 1) /\ q \in Int /\ n = q * MaxCall + r
  BY RoomIs, RestIs
<1>3. q \in Nat
  BY <1>2, QuotientIs
<1> HIDE DEF q, r, t
<1>4. q * MaxCall \in Nat
  BY <1>2, <1>3
<1>5. t \in Grown(s, Zeros(q * MaxCall))
  BY <1>3, ZeroTurns DEF t
<1>6. Zeros(r) \in Seq(Bit) /\ Len(Zeros(r)) <= MaxCall
  BY <1>2, ZerosIs
<1>7. PutZeros(t, r) \in Grown(t, Zeros(r))
  BY <1>5, <1>6, GrownBy DEF PutZeros, Grown
<1>8. Zeros(q * MaxCall) \o Zeros(r) = Zeros(n)
  <2> DEFINE m == q * MaxCall
  <2>1. m \in Nat /\ r \in Nat /\ n = m + r
    BY <1>2, <1>4
  <2> HIDE DEF m
  <2>2. Zeros(m) \o Zeros(r) = Zeros(n)
    BY <2>1, ZerosJoined
  <2>3. QED
    BY <2>2 DEF m
<1>9. PutZeros(t, r) \in Grown(s, Zeros(n))
  BY <1>4, <1>5, <1>6, <1>7, <1>8, ZerosIs, GrownAgain
<1>10. <<1>> \in Seq(Bit) /\ Len(<<1>>) <= MaxCall
  BY <1>2 DEF Bit
<1>11. Put(PutZeros(t, r), <<1>>) \in Grown(PutZeros(t, r), <<1>>)
  BY <1>9, <1>10, GrownBy DEF Grown
<1>12. QED
  BY <1>1, <1>9, <1>10, <1>11, ZerosIs, GrownAgain

\* Byte i of bs, and the bytes before the next.
Piece(bs, i) == SubSeq(bs, (i - 1) * ByteBits + 1, i * ByteBits)
Prefix(bs, i) == SubSeq(bs, 1, i * ByteBits)

LEMMA PieceIs ==
  ASSUME NEW bs \in Seq(Bit), NEW n \in Nat, Len(bs) = n * ByteBits
  PROVE  /\ Prefix(bs, 0) = << >> /\ Prefix(bs, n) = bs
         /\ \A i \in 0 .. n : Prefix(bs, i) \in Seq(Bit)
         /\ \A i \in 1 .. n : /\ Piece(bs, i) \in Seq(Bit) /\ Len(Piece(bs, i)) = ByteBits
                              /\ Prefix(bs, i - 1) \o Piece(bs, i) = Prefix(bs, i)
<1> DEFINE d == ByteBits
<1>1. d \in Nat \ {0}
  BY RoomIs
<1> HIDE DEF d
<1>2. ASSUME NEW i \in 0 .. n PROVE i * d \in Nat /\ i * d <= Len(bs)
  <2>1. i * d \in Nat /\ i * d <= n * d
    BY <1>1, MulMono
  <2>2. QED
    BY <2>1 DEF d
<1>3. Prefix(bs, 0) = << >>
  <2>1. 0 * d = 0
    BY <1>1
  <2>2. SubSeq(bs, 1, 0) = << >>
    OBVIOUS
  <2>3. QED
    BY <2>1, <2>2 DEF Prefix, d
<1>4. Prefix(bs, n) = bs
  <2>1. SubSeq(bs, 1, Len(bs)) = bs
    OBVIOUS
  <2>2. QED
    BY <2>1 DEF Prefix
<1>5. ASSUME NEW m \in Nat, m <= Len(bs) PROVE SubSeq(bs, 1, m) \in Seq(Bit)
  BY <1>5, PartIs
<1>6. ASSUME NEW i \in 0 .. n PROVE Prefix(bs, i) \in Seq(Bit)
  BY <1>2, <1>5 DEF Prefix, d
<1>7. ASSUME NEW i \in 1 .. n
      PROVE  /\ Piece(bs, i) \in Seq(Bit) /\ Len(Piece(bs, i)) = ByteBits
             /\ Prefix(bs, i - 1) \o Piece(bs, i) = Prefix(bs, i)
  <2> DEFINE m == (i - 1) * d
             k == i * d
             w == SubSeq(bs, 1, k)
             u == SubSeq(bs, 1, m)
             v == SubSeq(bs, m + 1, k)
  <2>1. i - 1 \in 0 .. n /\ i \in 0 .. n /\ m + d = k
    BY <1>1
  <2>2. m \in Nat /\ m <= Len(bs) /\ k \in Nat /\ k <= Len(bs)
    BY <1>2, <2>1
  <2> HIDE DEF m, k
  <2>3. w \in Seq(Bit) /\ Len(w) = k /\ \A j \in 1 .. k : w[j] = bs[j]
    BY <2>2, PartIs
  <2>4. u \in Seq(Bit) /\ Len(u) = m /\ \A j \in 1 .. m : u[j] = bs[j]
    BY <2>2, PartIs
  <2>5. v \in Seq(Bit) /\ Len(v) = d /\ \A j \in 1 .. d : v[j] = bs[m + j]
    BY <1>1, <2>1, <2>2, PartIs
  <2> HIDE DEF u, v, w
  <2>6. (\A j \in 1 .. m : w[j] = u[j]) /\ \A j \in 1 .. d : w[m + j] = v[j]
    <3>1. (\A j \in 1 .. m : j \in 1 .. k) /\ \A j \in 1 .. d : m + j \in 1 .. k
      BY <1>1, <2>1, <2>2
    <3>2. QED
      BY <2>3, <2>4, <2>5, <3>1
  <2>7. u \o v = w
    <3>1. Parts(u, v, w)
      BY <2>1, <2>3, <2>4, <2>5, <2>6 DEF Parts
    <3>2. QED
      BY <2>3, <2>4, <2>5, <3>1, JoinedOnly
  <2>8. u = Prefix(bs, i - 1) /\ v = Piece(bs, i) /\ w = Prefix(bs, i)
    BY DEF Prefix, Piece, u, v, w, m, k, d
  <2>9. QED
    BY <2>5, <2>7, <2>8 DEF d
<1>8. QED
  BY <1>3, <1>4, <1>6, <1>7

\* Less than a byte and a whole number of bytes: none.
LEMMA NoByte ==
  ASSUME NEW n \in Nat, n < ByteBits
  PROVE  n % ByteBits = n
<1>1. ByteBits \in Nat \ {0}
  BY RoomIs
<1>2. n = 0 * ByteBits + n /\ n \in 0 .. (ByteBits - 1) /\ 0 \in Int /\ n \in Int
  BY <1>1
<1>3. QED
  BY <1>1, <1>2, RestOnly

\* write_bytes appends its bytes, aligned or not.
LEMMA PutBytesIs ==
  ASSUME NEW s \in Writers, NEW bs \in Seq(Bit), Len(bs) % ByteBits = 0
  PROVE  PutBytes(s, bs) \in Grown(s, bs)
<1> DEFINE n == Len(bs) \div ByteBits
<1>1. s.avail \in 0 .. AccBits /\ s.avail < ByteBits
  BY WriterIs
<1>2. AccBits \in Nat /\ ByteBits \in Nat \ {0}
  BY RoomIs
<1>3. n \in Nat /\ Len(bs) = n * ByteBits
  <2>1. n \in Int /\ Len(bs) = n * ByteBits + 0
    BY <1>2, RestIs
  <2>2. n \in Nat
    BY <1>2, QuotientIs
  <2> HIDE DEF n
  <2>3. QED
    BY <1>2, <2>1, <2>2
<1> HIDE DEF n
<1>4. CASE s.avail % ByteBits = 0
  <2> DEFINE t == PutBytes(s, bs)
  <2>1. s.avail = 0
    BY <1>1, <1>4, NoByte
  <2>2. s \in Coders /\ s.data \in Seq(Bit) /\ Len(s.data) % ByteBits = 0
    BY WriterIs
  <2>3. t = [s EXCEPT !.data = @ \o bs]
    BY <1>4 DEF PutBytes
  <2> HIDE DEF t
  <2>4. /\ t.data = s.data \o bs /\ t.acc = s.acc /\ t.avail = s.avail /\ t.bytePos = s.bytePos
        /\ t \in Coders
    <3>1. s.data \o bs \in Seq(Bit)
      BY <2>2, JoinedIs
    <3>2. QED
      BY <2>2, <2>3, <3>1 DEF Coders
  <2>5. Len(t.data) % ByteBits = 0
    <3>1. \A k, m \in Int : k % ByteBits = 0 => (k + m) % ByteBits = m % ByteBits
      BY WholeIs
    <3>2. Len(t.data) = Len(s.data) + Len(bs) /\ Len(s.data) \in Int /\ Len(bs) \in Int
      BY <2>2, <2>4, JoinedIs
    <3>3. QED
      BY <2>2, <3>1, <3>2
  <2>6. t \in Writers
    BY <2>4, <2>5 DEF Writers
  <2>7. BitsOf(s) = s.data /\ BitsOf(t) = t.data
    <3>1. \A a : SubSeq(a, 1, 0) = << >>
      OBVIOUS
    <3>2. s.data \o << >> = s.data /\ t.data \in Seq(Bit) /\ t.data \o << >> = t.data
      BY <2>2, <2>4 DEF Coders
    <3>3. QED
      BY <2>1, <2>4, <3>1, <3>2 DEF BitsOf
  <2>8. QED
    BY <2>4, <2>6, <2>7 DEF Grown, t
<1>5. CASE s.avail % ByteBits # 0
  <2> DEFINE K == [i \in 0 .. n |-> Grown(s, Prefix(bs, i))]
             F == [i \in 1 .. n |-> [t \in K[i - 1] |-> Put(t, Piece(bs, i))]]
             Goes(g) == g = [i \in 0 .. n |-> IF i = 0 THEN s ELSE Put(g[i - 1], Piece(bs, i))]
  <2>1. /\ Prefix(bs, 0) = << >> /\ Prefix(bs, n) = bs
        /\ \A i \in 0 .. n : Prefix(bs, i) \in Seq(Bit)
        /\ \A i \in 1 .. n : /\ Piece(bs, i) \in Seq(Bit) /\ Len(Piece(bs, i)) = ByteBits
                             /\ Prefix(bs, i - 1) \o Piece(bs, i) = Prefix(bs, i)
    BY <1>3, PieceIs
  <2>2. s \in K[0]
    <3>1. BitsOf(s) \in Seq(Bit)
      BY WriterIs
    <3>2. BitsOf(s) \o << >> = BitsOf(s)
      BY <3>1
    <3>3. 0 \in 0 .. n
      BY <1>3
    <3>4. QED
      BY <2>1, <3>2, <3>3 DEF Grown
  <2>3. ASSUME NEW i \in 1 .. n, NEW t \in K[i - 1]
        PROVE  Put(t, Piece(bs, i)) \in K[i]
    <3>1. i - 1 \in 0 .. n /\ i \in 0 .. n
      BY <1>3
    <3>2. t \in Grown(s, Prefix(bs, i - 1))
      BY <2>3, <3>1
    <3>3. Piece(bs, i) \in Seq(Bit) /\ Len(Piece(bs, i)) <= ByteBits
      BY <1>2, <2>1
    <3>4. Put(t, Piece(bs, i)) \in Grown(t, Piece(bs, i))
      BY <3>2, <3>3, GrownBy DEF Grown
    <3>5. Put(t, Piece(bs, i)) \in Grown(s, Prefix(bs, i - 1) \o Piece(bs, i))
      BY <2>1, <3>1, <3>2, <3>3, <3>4, GrownAgain
    <3>6. QED
      BY <2>1, <3>1, <3>5
  <2> HIDE DEF K
  <2>4. Leads(F, K, n)
    BY <2>3 DEF Leads
  <2>5. PICK g : Follows(g, s, F, n) /\ Within(g, K, n)
    <3> HIDE DEF F, Goes
    <3>1. QED
      BY <1>3, <2>2, <2>4, LoopExists
  <2>6. \A i \in 0 .. n : i # 0 => F[i][g[i - 1]] = Put(g[i - 1], Piece(bs, i))
    <3> TAKE i \in 0 .. n
    <3>1. i # 0 => i \in 1 .. n /\ i - 1 \in 0 .. n
      BY <1>3
    <3>2. i # 0 => g[i - 1] \in K[i - 1]
      BY <2>5, <3>1 DEF Within
    <3>3. QED
      BY <3>1, <3>2
  <2>7. \E h : Goes(h)
    <3>1. [i \in 0 .. n |-> IF i = 0 THEN s ELSE F[i][g[i - 1]]]
            = [i \in 0 .. n |-> IF i = 0 THEN s ELSE Put(g[i - 1], Piece(bs, i))]
      BY <2>6
    <3>2. Goes(g)
      BY <2>5, <3>1 DEF Follows
    <3> HIDE DEF Goes
    <3>3. QED
      BY <3>2
  <2> DEFINE a == CHOOSE h : Goes(h)
  <2>8. PutBytes(s, bs) = a[n]
    BY <1>5 DEF PutBytes, Turns, n, Piece
  <2>9. Goes(a)
    <3> HIDE DEF Goes
    <3>1. QED
      BY <2>7
  <2>10. a = [i \in 0 .. n |-> IF i = 0 THEN s ELSE Put(a[i - 1], Piece(bs, i))]
    BY <2>9
  <2> HIDE DEF a, Goes, F
  <2>11. a[0] \in K[0] /\ \A i \in 1 .. n : a[i - 1] \in K[i - 1] => a[i] \in K[i]
    <3>1. a[0] = s /\ \A i \in 1 .. n : a[i] = Put(a[i - 1], Piece(bs, i))
      BY <1>3, <2>10
    <3>2. QED
      BY <2>2, <2>3, <3>1
  <2>12. a[n] \in K[n]
    BY <1>3, <2>11, LoopStays
  <2>13. QED
    BY <1>3, <2>1, <2>8, <2>12 DEF K
<1>6. QED
  BY <1>4, <1>5

\* What a count lacks of whole bytes is what its part of a byte lacks.
LEMMA LacksIs ==
  ASSUME NEW m \in Nat, NEW n \in Nat, m % ByteBits = 0, n < ByteBits
  PROVE  /\ (- (m + n)) % ByteBits = IF n = 0 THEN 0 ELSE ByteBits - n
         /\ (- n) % ByteBits = IF n = 0 THEN 0 ELSE ByteBits - n
<1> DEFINE d == ByteBits
           r == IF n = 0 THEN 0 ELSE d - n
           q == IF n = 0 THEN 0 ELSE 0 - 1
<1>1. d \in Nat \ {0} /\ n < d
  BY RoomIs
<1>2. (- n) % d = r
  <2> HIDE DEF d
  <2>1. - n \in Int /\ q \in Int /\ r \in 0 .. (d - 1) /\ - n = q * d + r
    BY <1>1
  <2> HIDE DEF q, r
  <2>2. QED
    BY <1>1, <2>1, RestOnly
<1>3. (- (m + n)) % d = (- n) % d
  <2>1. \A k \in Int : k % ByteBits = 0 => (- k) % ByteBits = 0
    BY WholeIs
  <2>2. \A j, k \in Int : j % ByteBits = 0 => (j + k) % ByteBits = k % ByteBits
    BY WholeIs
  <2>3. (- m) % ByteBits = 0 /\ - m \in Int /\ - n \in Int /\ - (m + n) = (- m) + (- n)
    BY <2>1
  <2>4. ((- m) + (- n)) % ByteBits = (- n) % ByteBits
    BY <2>2, <2>3
  <2>5. QED
    BY <2>3, <2>4
<1>4. QED
  BY <1>2, <1>3

\* align_to_byte pads to whole bytes.
LEMMA AlignIs ==
  ASSUME NEW s \in Writers
  PROVE  PutZeros(s, (- s.avail) % ByteBits)
           \in Grown(s, Zeros((- Len(BitsOf(s))) % ByteBits))
<1>1. /\ Len(BitsOf(s)) = Len(s.data) + s.avail /\ Len(s.data) \in Nat
      /\ Len(s.data) % ByteBits = 0 /\ s.avail \in Nat /\ s.avail < ByteBits
  <2>1. s.data \in Seq(Bit) /\ s.avail \in 0 .. AccBits /\ Len(BitsOf(s)) = Len(s.data) + s.avail
    BY WriterIs
  <2>2. Len(s.data) % ByteBits = 0 /\ s.avail < ByteBits
    BY WriterIs
  <2>3. QED
    BY <2>1, <2>2
<1>2. (- Len(BitsOf(s))) % ByteBits = (- s.avail) % ByteBits
  BY <1>1, LacksIs
<1>3. (- s.avail) % ByteBits \in Nat /\ (- s.avail) % ByteBits <= ByteBits
  <2>1. ByteBits \in Nat
    BY RoomIs
  <2>2. (- s.avail) % ByteBits = IF s.avail = 0 THEN 0 ELSE ByteBits - s.avail
    BY <1>1, LacksIs
  <2>3. QED
    BY <1>1, <2>1, <2>2
<1>4. QED
  BY <1>2, <1>3, ZerosIs, GrownBy DEF PutZeros

\* finish hands over the bits written, padded to whole bytes.
LEMMA FinishedIs ==
  ASSUME NEW s \in Writers
  PROVE  /\ Finished(s) \in Coders
         /\ Finished(s).data = BitsOf(s) \o Zeros((- Len(BitsOf(s))) % ByteBits)
         /\ Len(Finished(s).data) % ByteBits = 0
         /\ Finished(s).acc = Empty /\ Finished(s).avail = 0 /\ Finished(s).bytePos = 0
<1> DEFINE t == Finished(s)
           n == s.avail
           held == SubSeq(s.acc, 1, n)
           byte == SubSeq(s.acc, 1, ByteBits)
           pad == Zeros((- Len(BitsOf(s))) % ByteBits)
<1>1. /\ s \in Coders /\ s.data \in Seq(Bit) /\ s.acc \in Accumulators /\ s.bytePos = 0
      /\ ZeroBehind(s.acc, n) /\ held \in Seq(Bit)
  BY WriterIs
<1>2. /\ Len(BitsOf(s)) = Len(s.data) + n /\ Len(s.data) \in Nat
      /\ Len(s.data) % ByteBits = 0 /\ n \in Nat /\ n < ByteBits
  <2>1. s.data \in Seq(Bit) /\ n \in 0 .. AccBits /\ Len(BitsOf(s)) = Len(s.data) + n
    BY WriterIs
  <2>2. Len(s.data) % ByteBits = 0 /\ n < ByteBits
    BY WriterIs
  <2>3. QED
    BY <2>1, <2>2
<1>3. /\ ByteBits \in Nat /\ ByteBits \in 0 .. AccBits /\ AccBits \in Nat
      /\ ByteBits % ByteBits = 0
  <2>1. ByteBits \in Nat \ {0} /\ ByteBits + MaxCall <= AccBits /\ AccBits \in Nat /\ MaxCall \in Nat
    BY RoomIs
  <2>2. ByteBits = 1 * ByteBits + 0 /\ 0 \in 0 .. (ByteBits - 1) /\ 1 \in Int /\ ByteBits \in Int
    BY <2>1
  <2>3. ByteBits % ByteBits = 0
    BY <2>1, <2>2, RestOnly
  <2>4. QED
    BY <2>1, <2>3
<1>4. pad = IF n = 0 THEN Zeros(0) ELSE Zeros(ByteBits - n)
  BY <1>2, LacksIs
<1>5. /\ t.data = IF n > 0 THEN s.data \o byte ELSE s.data
      /\ t.acc = Empty /\ t.avail = 0 /\ t.bytePos = 0
      /\ t = [data |-> t.data, acc |-> t.acc, avail |-> t.avail, bytePos |-> t.bytePos]
  <2>1. t = [s EXCEPT !.data = IF n > 0 THEN @ \o byte ELSE @, !.acc = Empty, !.avail = 0]
    BY DEF Finished
  <2> HIDE DEF t, byte
  <2>2. QED
    BY <1>1, <2>1 DEF Coders
<1> HIDE DEF t, pad
<1>6. byte \in Seq(Bit) /\ Len(byte) = ByteBits /\ \A i \in 1 .. ByteBits : byte[i] = s.acc[i]
  BY <1>1, <1>3, AccumulatorIs
<1>7. n > 0 => byte = held \o pad
  <2> SUFFICES ASSUME n > 0 PROVE byte = held \o pad
    OBVIOUS
  <2>1. pad \in Seq(Bit) /\ Len(pad) = ByteBits - n /\ \A i \in 1 .. ByteBits - n : pad[i] = 0
    <3>1. ByteBits - n \in Nat /\ pad = Zeros(ByteBits - n)
      BY <1>2, <1>3, <1>4
    <3>2. QED
      BY <3>1, ZerosIs
  <2>2. held \in Seq(Bit) /\ Len(held) = n /\ \A i \in 1 .. n : held[i] = s.acc[i]
    <3>1. n \in 0 .. AccBits
      BY <1>2, <1>3
    <3>2. QED
      BY <1>1, <3>1, AccumulatorIs
  <2> HIDE DEF held, byte
  <2>3. (\A i \in 1 .. n : byte[i] = held[i]) /\ \A i \in 1 .. Len(pad) : byte[n + i] = pad[i]
    <3>1. \A i \in 1 .. n : i \in 1 .. ByteBits
      BY <1>2, <1>3
    <3>2. \A i \in 1 .. ByteBits - n :
            n + i \in 1 .. ByteBits /\ n + i \in 1 .. AccBits /\ n + i > n
      BY <1>2, <1>3
    <3>3. \A i \in 1 .. ByteBits - n : byte[n + i] = 0
      BY <1>1, <1>6, <3>2 DEF ZeroBehind
    <3>4. QED
      BY <1>6, <2>1, <2>2, <3>1, <3>3
  <2>4. Len(byte) = Len(held) + Len(pad)
    BY <1>2, <1>3, <1>6, <2>1, <2>2
  <2>5. Parts(held, pad, byte)
    BY <2>2, <2>3, <2>4 DEF Parts
  <2>6. QED
    BY <1>6, <2>1, <2>2, <2>5, JoinedOnly
<1>8. t.data = BitsOf(s) \o pad
  <2>1. CASE n = 0
    <3>1. held = << >> /\ pad = << >>
      <4>1. Zeros(0) \in Seq(Bit) /\ Len(Zeros(0)) = 0
        BY ZerosIs
      <4>2. \A z \in Seq(Bit) : Len(z) = 0 => z = << >>
        OBVIOUS
      <4>3. Zeros(0) = << >>
        BY <4>1, <4>2
      <4>4. \A z : SubSeq(z, 1, 0) = << >>
        OBVIOUS
      <4>5. QED
        BY <1>4, <2>1, <4>3, <4>4
    <3>2. s.data \o << >> = s.data
      BY <1>1
    <3>3. t.data = s.data
      BY <1>5, <2>1
    <3>4. QED
      BY <3>1, <3>2, <3>3 DEF BitsOf
  <2>2. CASE n > 0
    <3>1. t.data = s.data \o (held \o pad)
      BY <1>5, <1>7, <2>2
    <3>2. pad \in Seq(Bit)
      <4>1. ByteBits - n \in Nat /\ pad = Zeros(ByteBits - n)
        BY <1>2, <1>3, <1>4, <2>2
      <4>2. QED
        BY <4>1, ZerosIs
    <3>3. (s.data \o held) \o pad = s.data \o (held \o pad)
      BY <1>1, <3>2, JoinedAgain
    <3>4. QED
      BY <3>1, <3>3 DEF BitsOf
  <2>3. QED
    BY <1>2, <2>1, <2>2
<1> HIDE DEF held, byte
<1>9. t.data \in Seq(Bit) /\ Len(t.data) % ByteBits = 0
  <2>1. CASE n = 0
    BY <1>1, <1>2, <1>5, <2>1
  <2>2. CASE n > 0
    <3>1. t.data \in Seq(Bit) /\ Len(t.data) = Len(s.data) + ByteBits
      BY <1>1, <1>5, <1>6, <2>2, JoinedIs
    <3>2. \A k, m \in Int : k % ByteBits = 0 => (k + m) % ByteBits = m % ByteBits
      BY WholeIs
    <3>3. Len(s.data) \in Int /\ ByteBits \in Int
      BY <1>2, <1>3
    <3>4. (Len(s.data) + ByteBits) % ByteBits = 0
      BY <1>2, <1>3, <3>2, <3>3
    <3>5. QED
      BY <3>1, <3>4
  <2>3. QED
    BY <1>2, <2>1, <2>2
<1>10. t \in Coders
  <2>1. Empty \in Accumulators
    BY <1>3 DEF Empty, Zeros, Accumulators, Bit
  <2>2. t.data \in Seq(Bit) /\ t.acc \in Accumulators /\ t.avail \in 0 .. AccBits /\ t.bytePos \in Nat
    BY <1>3, <1>5, <1>9, <2>1
  <2>3. QED
    BY <1>5, <2>2 DEF Coders
<1>11. QED
  BY <1>5, <1>8, <1>9, <1>10 DEF t, pad

-----------------------------------------------------------------------------
(* Readers.                                                                 *)

\* Where the next bit of a reader stands in the data.
Start(s) == s.bytePos * ByteBits - s.avail

\* Every bit of the accumulator is the bit at its place in the data.
InPlace(s, d) == \A i \in 1 .. s.avail : s.acc[i] = d[Start(s) + i]

\* The readers of the whole bytes d.
Readers(d) ==
  {s \in Coders : /\ s.data = d /\ s.bytePos * ByteBits <= Len(d)
                  /\ s.avail <= s.bytePos * ByteBits
                  /\ InPlace(s, d) /\ ZeroBehind(s.acc, s.avail)}

Buffers == {d \in Seq(Bit) : Len(d) % ByteBits = 0}

LEMMA BufferIs ==
  ASSUME NEW d \in Buffers
  PROVE  /\ d \in Seq(Bit) /\ Len(d) \in Nat /\ Len(d) \div ByteBits \in Nat
         /\ (Len(d) \div ByteBits) * ByteBits = Len(d)
<1> DEFINE n == Len(d) \div ByteBits
<1>1. d \in Seq(Bit) /\ Len(d) \in Nat /\ Len(d) % ByteBits = 0 /\ ByteBits \in Nat \ {0}
  BY RoomIs DEF Buffers
<1>2. n \in Int /\ Len(d) = n * ByteBits
  <2>1. n \in Int /\ Len(d) = n * ByteBits + (Len(d) % ByteBits)
    BY <1>1, RestIs
  <2> HIDE DEF n
  <2>2. n * ByteBits \in Int
    BY <1>1, <2>1
  <2>3. QED
    BY <1>1, <2>1, <2>2
<1>3. n \in Nat
  BY <1>1, QuotientIs
<1>4. QED
  BY <1>1, <1>2, <1>3

LEMMA ReaderIs ==
  ASSUME NEW d \in Buffers, NEW s \in Readers(d)
  PROVE  /\ s \in Coders /\ s.data = d /\ s.acc \in Accumulators
         /\ s.avail \in 0 .. AccBits /\ s.avail \in Nat /\ s.bytePos \in Nat
         /\ s.bytePos * ByteBits \in Nat /\ s.bytePos * ByteBits <= Len(d)
         /\ Start(s) \in Nat /\ Start(s) + s.avail = s.bytePos * ByteBits
         /\ Start(s) + s.avail <= Len(d)
<1> DEFINE m == s.bytePos * ByteBits
<1>1. /\ s \in Coders /\ s.data = d /\ m <= Len(d) /\ s.avail <= m
      /\ s.acc \in Accumulators /\ s.avail \in 0 .. AccBits /\ s.bytePos \in Nat
  BY DEF Readers, Coders
<1>2. AccBits \in Nat /\ ByteBits \in Nat
  BY RoomIs
<1>3. m \in Nat
  BY <1>1, <1>2
<1> HIDE DEF m
<1>4. s.avail \in Nat /\ m - s.avail \in Nat /\ (m - s.avail) + s.avail = m
  BY <1>1, <1>2, <1>3
<1>5. Start(s) = m - s.avail
  BY DEF Start, m
<1>6. QED
  BY <1>1, <1>3, <1>4, <1>5 DEF m

\* The bits of the accumulator are the next of the data.
LEMMA HeldIs ==
  ASSUME NEW d \in Buffers, NEW s \in Readers(d), NEW n \in 0 .. s.avail
  PROVE  SubSeq(s.acc, 1, n) = SubSeq(d, Start(s) + 1, Start(s) + n)
<1> DEFINE p == Start(s)
           u == SubSeq(s.acc, 1, n)
           v == SubSeq(d, p + 1, p + n)
<1>1. /\ s.acc \in Accumulators /\ s.avail \in 0 .. AccBits /\ s.avail \in Nat
      /\ p \in Nat /\ p + s.avail <= Len(d)
  BY ReaderIs
<1>2. n \in 0 .. AccBits /\ n \in Nat /\ d \in Seq(Bit) /\ Len(d) \in Nat /\ AccBits \in Nat
  <2>1. AccBits \in Nat
    BY RoomIs
  <2>2. QED
    BY <1>1, <2>1, BufferIs
<1>3. u \in Seq(Bit) /\ Len(u) = n /\ \A i \in 1 .. n : u[i] = s.acc[i]
  BY <1>1, <1>2, AccumulatorIs
<1>4. \A i \in 1 .. s.avail : s.acc[i] = d[p + i]
  BY DEF Readers, InPlace
<1> HIDE DEF p
<1>5. v \in Seq(Bit) /\ Len(v) = n /\ \A i \in 1 .. n : v[i] = d[p + i]
  <2>1. p + 1 \in Nat \ {0} /\ p + n \in Nat /\ p + 1 <= (p + n) + 1 /\ p + n <= Len(d)
        /\ (p + n) - (p + 1) + 1 = n /\ (p + 1) - 1 = p
    BY <1>1, <1>2
  <2>2. QED
    BY <1>2, <2>1, PartIs
<1> HIDE DEF u, v
<1>6. \A i \in 1 .. n : u[i] = v[i]
  <2>1. \A i \in 1 .. n : i \in 1 .. s.avail
    BY <1>1, <1>2
  <2>2. QED
    BY <1>3, <1>4, <1>5, <2>1
<1>7. u = v
  BY <1>3, <1>5, <1>6, SameBits
<1>8. QED
  BY <1>7 DEF u, v, p

\* Taking bits off the front moves the reader by as many.
LEMMA DropIs ==
  ASSUME NEW d \in Buffers, NEW s \in Readers(d), NEW n \in 0 .. s.avail
  PROVE  Drop(s, n) \in Readers(d) /\ Start(Drop(s, n)) = Start(s) + n
<1> DEFINE t == Drop(s, n)
           p == Start(s)
           m == s.bytePos * ByteBits
<1>1. /\ s \in Coders /\ s.data = d /\ s.acc \in Accumulators /\ s.bytePos \in Nat
      /\ s.avail \in 0 .. AccBits /\ s.avail \in Nat /\ p \in Nat
      /\ m \in Nat /\ p + s.avail = m /\ m <= Len(d)
  BY ReaderIs
<1>2. InPlace(s, d) /\ ZeroBehind(s.acc, s.avail)
  BY DEF Readers
<1>3. AccBits \in Nat /\ n \in Nat /\ n \in 0 .. AccBits /\ s.avail \in n .. AccBits
      /\ s.avail - n \in 0 .. AccBits
  <2>1. AccBits \in Nat
    BY RoomIs
  <2>2. QED
    BY <1>1, <2>1
<1>4. /\ t.data = d /\ t.acc = Shift(s.acc, n) /\ t.avail = s.avail - n /\ t.bytePos = s.bytePos
      /\ t = [data |-> t.data, acc |-> t.acc, avail |-> t.avail, bytePos |-> t.bytePos]
  <2>1. t = [s EXCEPT !.acc = Shift(@, n), !.avail = @ - n]
    BY DEF Drop
  <2> HIDE DEF t
  <2>2. QED
    BY <1>1, <2>1 DEF Coders
<1> HIDE DEF t
<1>5. /\ Shift(s.acc, n) \in Accumulators
      /\ \A i \in 1 .. AccBits - n : Shift(s.acc, n)[i] = s.acc[i + n]
      /\ ZeroBehind(Shift(s.acc, n), s.avail - n)
  BY <1>1, <1>2, <1>3, ShiftIs
<1>6. t \in Coders
  <2>1. t.data \in Seq(Bit)
    BY <1>4, BufferIs
  <2>2. QED
    BY <1>1, <1>3, <1>4, <1>5, <2>1 DEF Coders
<1>7. Start(t) = p + n
  <2>1. Start(t) = m - (s.avail - n)
    BY <1>4 DEF Start
  <2> HIDE DEF p, m
  <2>2. QED
    BY <1>1, <1>3, <2>1
<1>8. InPlace(t, d)
  <2> SUFFICES ASSUME NEW i \in 1 .. t.avail PROVE t.acc[i] = d[Start(t) + i]
    BY DEF InPlace
  <2> HIDE DEF p
  <2>1. i \in 1 .. AccBits - n /\ i + n \in 1 .. s.avail /\ p + (i + n) = (p + n) + i
    BY <1>1, <1>3, <1>4
  <2>2. t.acc[i] = s.acc[i + n]
    BY <1>4, <1>5, <2>1
  <2>3. s.acc[i + n] = d[p + (i + n)]
    BY <1>2, <2>1 DEF InPlace, p
  <2>4. QED
    BY <1>7, <2>1, <2>2, <2>3
<1>9. t.bytePos * ByteBits <= Len(d) /\ t.avail <= t.bytePos * ByteBits
  <2>1. t.bytePos * ByteBits = m
    BY <1>4
  <2> HIDE DEF m, p
  <2>2. QED
    BY <1>1, <1>3, <1>4, <2>1
<1>10. t \in Readers(d)
  BY <1>4, <1>5, <1>6, <1>8, <1>9 DEF Readers
<1>11. QED
  BY <1>7, <1>10 DEF t, p

\* refill loads what there is and what has room, and moves nothing.
LEMMA RefillIs ==
  ASSUME NEW d \in Buffers, NEW s \in Readers(d)
  PROVE  /\ Refill(s) \in Readers(d) /\ Start(Refill(s)) = Start(s)
         /\ Refill(s).avail >= s.avail
         /\ \/ Refill(s).avail + ByteBits > AccBits
            \/ Start(Refill(s)) + Refill(s).avail = Len(d)
<1> DEFINE t == Refill(s)
           p == Start(s)
           e == s.avail
           b == s.bytePos
           m == b * ByteBits
           room == (AccBits - e) \div ByteBits
           whole == Len(d) \div ByteBits
           k == IF room < whole - b THEN room ELSE whole - b
           g == k * ByteBits
           loaded == SubSeq(d, m + 1, (b + k) * ByteBits)
           o == OrAt(s.acc, e, loaded)
<1>1. /\ s \in Coders /\ s.data = d /\ s.acc \in Accumulators /\ b \in Nat
      /\ e \in 0 .. AccBits /\ e \in Nat /\ p \in Nat
      /\ m \in Nat /\ p + e = m /\ m <= Len(d)
  BY ReaderIs
<1>2. InPlace(s, d) /\ ZeroBehind(s.acc, e)
  BY DEF Readers
<1>3. d \in Seq(Bit) /\ Len(d) \in Nat /\ whole \in Nat /\ whole * ByteBits = Len(d)
  BY BufferIs
<1>4. AccBits \in Nat /\ ByteBits \in Nat \ {0}
  BY RoomIs
<1>5. /\ t.data = d /\ t.acc = o /\ t.avail = e + g /\ t.bytePos = b + k
      /\ t = [data |-> t.data, acc |-> t.acc, avail |-> t.avail, bytePos |-> t.bytePos]
  <2>1. t = [s EXCEPT !.acc = OrAt(@, e, loaded), !.avail = @ + g, !.bytePos = @ + k]
    BY <1>1 DEF Refill, Bytes
  <2> HIDE DEF t, loaded, g, k
  <2>2. QED
    BY <1>1, <2>1 DEF Coders
<1> HIDE DEF t, o
<1>6. room \in Nat /\ room * ByteBits <= AccBits - e /\ AccBits - e < room * ByteBits + ByteBits
  <2>1. AccBits - e \in Nat
    BY <1>1, <1>4
  <2>2. QED
    BY <1>4, <2>1, QuotientIs
<1>7. b <= whole
  <2>1. ~ (whole + 1 <= b)
    <3>1. whole + 1 <= b => (whole + 1) * ByteBits <= m
      BY <1>1, <1>3, <1>4, MulMono
    <3>2. (whole + 1) * ByteBits = Len(d) + ByteBits
      BY <1>3, <1>4
    <3> HIDE DEF m, whole
    <3>3. QED
      BY <1>1, <1>3, <1>4, <3>1, <3>2
  <2>2. QED
    BY <1>1, <1>3, <2>1
<1> HIDE DEF room, whole
<1>8. k \in Nat /\ k <= room /\ k <= whole - b /\ (k = room \/ b + k = whole)
  BY <1>1, <1>3, <1>6, <1>7
<1> HIDE DEF k
<1>9. /\ g \in Nat /\ g <= AccBits - e /\ (b + k) * ByteBits = m + g
      /\ m + g <= Len(d) /\ (m + g = Len(d) \/ AccBits - e < g + ByteBits)
  <2>1. g <= room * ByteBits /\ (b + k) * ByteBits <= whole * ByteBits
    <3>1. k \in Int /\ room \in Int /\ whole \in Int /\ b + k \in Int /\ b + k <= whole
          /\ ByteBits \in Int /\ ByteBits >= 0
      BY <1>1, <1>3, <1>4, <1>6, <1>8
    <3>2. k * ByteBits <= room * ByteBits
      BY <1>8, <3>1, MulMono
    <3>3. (b + k) * ByteBits <= whole * ByteBits
      BY <3>1, MulMono
    <3>4. QED
      BY <3>2, <3>3
  <2>2. g \in Nat /\ (b + k) * ByteBits = m + g
    BY <1>1, <1>4, <1>8
  <2>3. k = room => AccBits - e < g + ByteBits
    BY <1>6
  <2>4. b + k = whole => m + g = Len(d)
    BY <1>3, <2>2
  <2>5. room * ByteBits \in Nat
    BY <1>4, <1>6
  <2> DEFINE x == room * ByteBits
             y == (b + k) * ByteBits
  <2>6. x \in Nat /\ g <= x /\ x <= AccBits - e /\ y <= Len(d) /\ y = m + g
    BY <1>3, <1>6, <2>1, <2>2, <2>5
  <2> HIDE DEF g, m, x, y
  <2>7. g <= AccBits - e /\ m + g <= Len(d)
    BY <1>1, <1>4, <2>2, <2>6
  <2>8. QED
    BY <1>8, <2>2, <2>3, <2>4, <2>7
<1>10. /\ loaded \in Seq(Bit) /\ Len(loaded) = g /\ \A i \in 1 .. g : loaded[i] = d[m + i]
  <2>1. loaded = SubSeq(d, m + 1, m + g)
    BY <1>9
  <2> HIDE DEF loaded, m, g
  <2>2. m + 1 \in Nat \ {0} /\ m + g \in Nat /\ m + 1 <= (m + g) + 1 /\ m + g <= Len(d)
        /\ (m + g) - (m + 1) + 1 = g /\ (m + 1) - 1 = m
    BY <1>1, <1>9
  <2>3. QED
    BY <1>3, <2>1, <2>2, PartIs
<1> HIDE DEF loaded
<1>11. e + g \in 0 .. AccBits
  <2> HIDE DEF g, e, p, m
  <2>1. QED
    BY <1>1, <1>4, <1>9
<1>12. /\ o \in Accumulators /\ SubSeq(o, 1, e + g) = SubSeq(s.acc, 1, e) \o loaded
       /\ ZeroBehind(o, e + g)
  <2> HIDE DEF g
  <2>1. e + Len(loaded) <= AccBits
    BY <1>4, <1>10, <1>11
  <2>2. QED
    BY <1>1, <1>2, <1>10, <2>1, OrAtIs DEF o
<1>13. t \in Coders
  <2>1. t.acc \in Accumulators /\ t.avail \in 0 .. AccBits
    BY <1>5, <1>11, <1>12
  <2>2. t.bytePos \in Nat /\ t.data \in Seq(Bit)
    BY <1>1, <1>3, <1>5, <1>8
  <2>3. QED
    BY <1>5, <2>1, <2>2 DEF Coders
<1>14. Start(t) = p
  <2>1. Start(t) = (m + g) - (e + g)
    BY <1>5, <1>9 DEF Start
  <2> HIDE DEF p, m, g, e
  <2>2. QED
    BY <1>1, <1>9, <2>1
<1>15. InPlace(t, d)
  <2> SUFFICES ASSUME NEW i \in 1 .. e + g PROVE o[i] = d[p + i]
    BY <1>5, <1>14 DEF InPlace
  <2> DEFINE u == SubSeq(s.acc, 1, e)
  <2>1. o[i] = (u \o loaded)[i]
    BY <1>11, <1>12, AccumulatorIs
  <2>2. u \in Seq(Bit) /\ Len(u) = e /\ \A j \in 1 .. e : u[j] = s.acc[j]
    BY <1>1, AccumulatorIs
  <2> HIDE DEF u, g, m
  <2>3. /\ \A j \in 1 .. e : (u \o loaded)[j] = u[j]
        /\ \A j \in 1 .. g : (u \o loaded)[e + j] = loaded[j]
    BY <1>10, <2>2, JoinedIs
  <2>4. CASE i <= e
    <3>1. i \in 1 .. e
      BY <1>1, <1>9, <2>4
    <3>2. s.acc[i] = d[p + i]
      BY <1>2, <3>1 DEF InPlace
    <3>3. QED
      BY <2>1, <2>2, <2>3, <3>1, <3>2
  <2>5. CASE ~ (i <= e)
    <3> HIDE DEF p, e
    <3>1. i - e \in 1 .. g /\ e + (i - e) = i /\ m + (i - e) = p + i
      BY <1>1, <1>9, <2>5
    <3>2. o[i] = loaded[i - e] /\ loaded[i - e] = d[m + (i - e)]
      BY <1>10, <2>1, <2>3, <3>1
    <3>3. QED
      BY <3>1, <3>2
  <2>6. QED
    BY <2>4, <2>5
<1>16. t.bytePos * ByteBits <= Len(d) /\ t.avail <= t.bytePos * ByteBits
  <2>1. t.bytePos * ByteBits = m + g
    BY <1>5, <1>9
  <2> HIDE DEF m, g, p, e
  <2>2. QED
    BY <1>1, <1>5, <1>9, <2>1
<1>17. t \in Readers(d)
  BY <1>5, <1>12, <1>13, <1>15, <1>16 DEF Readers
<1>18. /\ t.avail >= e /\ (t.avail + ByteBits > AccBits \/ Start(t) + t.avail = Len(d))
  <2> HIDE DEF m, g, p, e
  <2>1. QED
    BY <1>1, <1>3, <1>4, <1>5, <1>9, <1>14
<1>19. QED
  BY <1>14, <1>17, <1>18 DEF t, p, e

\* Afterwards n bits are held exactly when n are left.
LEMMA EnsureIs ==
  ASSUME NEW d \in Buffers, NEW s \in Readers(d), NEW n \in 0 .. MaxCall
  PROVE  /\ Ensure(s, n) \in Readers(d) /\ Start(Ensure(s, n)) = Start(s)
         /\ n <= Ensure(s, n).avail <=> n <= Len(d) - Start(s)
<1> DEFINE t == Ensure(s, n)
<1>1. AccBits \in Nat /\ ByteBits \in Nat /\ MaxCall \in Nat /\ ByteBits + MaxCall <= AccBits
      /\ Len(d) \in Nat
  BY RoomIs, BufferIs
<1>2. s.avail \in Nat /\ Start(s) \in Nat /\ Start(s) + s.avail <= Len(d)
  BY ReaderIs
<1>3. CASE s.avail < n
  <2>1. t = Refill(s)
    BY <1>3 DEF Ensure
  <2>2. /\ t \in Readers(d) /\ Start(t) = Start(s)
        /\ (t.avail + ByteBits > AccBits \/ Start(t) + t.avail = Len(d))
    BY <2>1, RefillIs
  <2> HIDE DEF t
  <2>3. t.avail \in Nat /\ Start(t) + t.avail <= Len(d)
    BY <2>2, ReaderIs
  <2>4. n <= t.avail <=> n <= Len(d) - Start(s)
    BY <1>1, <1>2, <2>2, <2>3
  <2>5. QED
    BY <2>2, <2>4 DEF t
<1>4. CASE ~ (s.avail < n)
  <2>1. t = s
    BY <1>4 DEF Ensure
  <2>2. n <= s.avail <=> n <= Len(d) - Start(s)
    BY <1>1, <1>2, <1>4
  <2>3. QED
    BY <2>1, <2>2
<1>5. QED
  BY <1>3, <1>4

\* The n bits from place p on.
Ahead(d, p, n) == SubSeq(d, p + 1, p + n)

LEMMA AheadIs ==
  ASSUME NEW d \in Buffers, NEW p \in Nat, NEW n \in Nat, p + n <= Len(d)
  PROVE  /\ Ahead(d, p, n) \in Seq(Bit) /\ Len(Ahead(d, p, n)) = n
         /\ \A i \in 1 .. n : Ahead(d, p, n)[i] = d[p + i]
<1>1. d \in Seq(Bit) /\ Len(d) \in Nat
  BY BufferIs
<1>2. p + 1 \in Nat \ {0} /\ p + n \in Nat /\ p + 1 <= (p + n) + 1
      /\ (p + n) - (p + 1) + 1 = n /\ (p + 1) - 1 = p
  OBVIOUS
<1>3. QED
  BY <1>1, <1>2, PartIs DEF Ahead

LEMMA AheadJoined ==
  ASSUME NEW d \in Buffers, NEW p \in Nat, NEW m \in Nat, NEW n \in Nat, p + m + n <= Len(d)
  PROVE  Ahead(d, p, m) \o Ahead(d, p + m, n) = Ahead(d, p, m + n)
<1> DEFINE u == Ahead(d, p, m)
           v == Ahead(d, p + m, n)
           w == Ahead(d, p, m + n)
<1>1. /\ Len(d) \in Nat /\ p + m \in Nat /\ m + n \in Nat /\ p + m <= Len(d)
      /\ (p + m) + n <= Len(d) /\ p + (m + n) <= Len(d)
  BY BufferIs
<1>2. u \in Seq(Bit) /\ Len(u) = m /\ \A i \in 1 .. m : u[i] = d[p + i]
  BY <1>1, AheadIs
<1>3. v \in Seq(Bit) /\ Len(v) = n /\ \A i \in 1 .. n : v[i] = d[(p + m) + i]
  BY <1>1, AheadIs
<1>4. w \in Seq(Bit) /\ Len(w) = m + n /\ \A i \in 1 .. m + n : w[i] = d[p + i]
  BY <1>1, AheadIs
<1> HIDE DEF u, v, w
<1>5. Parts(u, v, w)
  <2>1. (\A i \in 1 .. m : i \in 1 .. m + n)
        /\ \A i \in 1 .. n : m + i \in 1 .. m + n /\ p + (m + i) = (p + m) + i
    OBVIOUS
  <2>2. QED
    BY <1>2, <1>3, <1>4, <2>1 DEF Parts
<1>6. u \o v = w
  BY <1>2, <1>3, <1>4, <1>5, JoinedOnly
<1>7. QED
  BY <1>6 DEF u, v, w

Answers == [ok : BOOLEAN, bits : Seq(Bit), to : Coders]

\* The answers of a reader that was at place p to a request for n bits: they
\* are read when they are there, else some of the rest may be lost.
Reads(d, p, n) ==
  {r \in Answers : /\ r.to \in Readers(d)
                   /\ IF p + n <= Len(d)
                        THEN r.ok = TRUE /\ r.bits = Ahead(d, p, n) /\ Start(r.to) = p + n
                        ELSE r.ok = FALSE /\ r.bits = << >> /\ p <= Start(r.to)}

\* peek_u32 sees the next bits when they are there and consumes none.
LEMMA SeenIs ==
  ASSUME NEW d \in Buffers, NEW s \in Readers(d), NEW n \in 0 .. MaxCall
  PROVE  /\ Seen(s, n) \in Answers /\ Seen(s, n).to \in Readers(d)
         /\ Start(Seen(s, n).to) = Start(s)
         /\ IF Start(s) + n <= Len(d)
              THEN /\ Seen(s, n).ok = TRUE /\ Seen(s, n).bits = Ahead(d, Start(s), n)
                   /\ n \in 0 .. Seen(s, n).to.avail
              ELSE Seen(s, n).ok = FALSE /\ Seen(s, n).bits = << >>
<1> DEFINE f == Ensure(s, n)
<1>1. /\ f \in Readers(d) /\ Start(f) = Start(s)
      /\ n <= f.avail <=> n <= Len(d) - Start(s)
  BY EnsureIs
<1>2. n \in Nat /\ Start(s) \in Nat /\ Len(d) \in Nat
  BY RoomIs, ReaderIs, BufferIs
<1>3. Seen(s, n) = IF f.avail < n THEN [ok |-> FALSE, bits |-> << >>, to |-> f]
                                  ELSE [ok |-> TRUE, bits |-> SubSeq(f.acc, 1, n), to |-> f]
  BY DEF Seen
<1> HIDE DEF f
<1>4. f.avail \in Nat /\ f \in Coders
  BY <1>1, ReaderIs
<1>5. CASE Start(s) + n <= Len(d)
  <2>1. n \in 0 .. f.avail /\ ~ (f.avail < n)
    BY <1>1, <1>2, <1>4, <1>5
  <2>2. SubSeq(f.acc, 1, n) = Ahead(d, Start(s), n)
    BY <1>1, <2>1, HeldIs DEF Ahead
  <2>3. Ahead(d, Start(s), n) \in Seq(Bit)
    BY <1>2, <1>5, AheadIs
  <2>4. Seen(s, n) = [ok |-> TRUE, bits |-> Ahead(d, Start(s), n), to |-> f]
    BY <1>3, <2>1, <2>2
  <2>5. QED
    BY <1>1, <1>4, <1>5, <2>1, <2>3, <2>4 DEF Answers
<1>6. CASE ~ (Start(s) + n <= Len(d))
  <2>1. f.avail < n
    BY <1>1, <1>2, <1>4, <1>6
  <2>2. Seen(s, n) = [ok |-> FALSE, bits |-> << >>, to |-> f]
    BY <1>3, <2>1
  <2>3. << >> \in Seq(Bit)
    OBVIOUS
  <2>4. QED
    BY <1>1, <1>4, <1>6, <2>2, <2>3 DEF Answers
<1>7. QED
  BY <1>5, <1>6

LEMMA BegunIs ==
  ASSUME NEW d \in Buffers, NEW s \in Readers(d)
  PROVE  Begun(s) \in Reads(d, Start(s), 0)
<1>1. s \in Coders /\ Start(s) \in Nat /\ s.avail \in Nat /\ Start(s) + s.avail <= Len(d)
  BY ReaderIs
<1>2. Len(d) \in Nat
  BY BufferIs
<1>3. Start(s) + 0 <= Len(d) /\ Start(s) + 0 = Start(s)
  BY <1>1, <1>2
<1>4. Ahead(d, Start(s), 0) \in Seq(Bit) /\ Len(Ahead(d, Start(s), 0)) = 0
  BY <1>1, <1>3, AheadIs
<1>5. \A z \in Seq(Bit) : Len(z) = 0 => z = << >>
  OBVIOUS
<1>6. Ahead(d, Start(s), 0) = << >> /\ << >> \in Seq(Bit)
  BY <1>4, <1>5
<1>7. Begun(s) \in Answers
  BY <1>1, <1>6 DEF Begun, Answers
<1>8. QED
  BY <1>3, <1>6, <1>7 DEF Begun, Reads

\* One more read_u32 continues an answer.
LEMMA GotIs ==
  ASSUME NEW d \in Buffers, NEW p \in Nat, NEW m \in Nat, NEW n \in 0 .. MaxCall,
         NEW r \in Reads(d, p, m)
  PROVE  Got(r, n) \in Reads(d, p, m + n)
<1> DEFINE e == Seen(r.to, n)
<1>1. r \in Answers /\ r.to \in Readers(d) /\ r.bits \in Seq(Bit) /\ r.to \in Coders
  BY DEF Reads, Answers
<1>2. n \in Nat /\ Len(d) \in Nat
  BY RoomIs, BufferIs
<1>3. CASE ~ (p + m <= Len(d))
  <2>1. r.ok = FALSE /\ r.bits = << >> /\ p <= Start(r.to)
    BY <1>3 DEF Reads
  <2>2. ~ (p + (m + n) <= Len(d))
    BY <1>2, <1>3
  <2>3. Got(r, n) = r
    BY <2>1 DEF Got
  <2>4. QED
    BY <1>1, <2>1, <2>2, <2>3 DEF Reads
<1>4. CASE p + m <= Len(d)
  <2>1. r.ok = TRUE /\ r.bits = Ahead(d, p, m) /\ Start(r.to) = p + m
    BY <1>4 DEF Reads
  <2>2. /\ e \in Answers /\ e.to \in Readers(d) /\ Start(e.to) = p + m
        /\ IF (p + m) + n <= Len(d)
             THEN e.ok = TRUE /\ e.bits = Ahead(d, p + m, n) /\ n \in 0 .. e.to.avail
             ELSE e.ok = FALSE /\ e.bits = << >>
    BY <1>1, <2>1, SeenIs
  <2>3. Got(r, n) = IF e.ok THEN [ok |-> TRUE, bits |-> r.bits \o e.bits, to |-> Drop(e.to, n)]
                            ELSE e
    BY <2>1 DEF Got
  <2> HIDE DEF e
  <2>4. CASE p + (m + n) <= Len(d)
    <3>1. (p + m) + n <= Len(d) /\ p + m + n <= Len(d) /\ p + m \in Nat /\ m + n \in Nat
      BY <1>2, <2>4
    <3>2. e.ok = TRUE /\ e.bits = Ahead(d, p + m, n) /\ n \in 0 .. e.to.avail
      BY <2>2, <3>1
    <3>3. Drop(e.to, n) \in Readers(d) /\ Start(Drop(e.to, n)) = (p + m) + n
      <4>1. Drop(e.to, n) \in Readers(d) /\ Start(Drop(e.to, n)) = Start(e.to) + n
        BY <2>2, <3>2, DropIs
      <4>2. QED
        BY <2>2, <4>1
    <3>4. r.bits \o e.bits = Ahead(d, p, m + n)
      <4>1. Ahead(d, p, m) \o Ahead(d, p + m, n) = Ahead(d, p, m + n)
        BY <1>2, <3>1, AheadJoined
      <4>2. QED
        BY <2>1, <3>2, <4>1
    <3>5. Ahead(d, p, m + n) \in Seq(Bit)
      BY <2>4, <3>1, AheadIs
    <3>6. Got(r, n) = [ok |-> TRUE, bits |-> Ahead(d, p, m + n), to |-> Drop(e.to, n)]
      BY <2>3, <3>2, <3>4
    <3>7. Drop(e.to, n) \in Coders /\ (p + m) + n = p + (m + n)
      <4>1. \A t \in Readers(d) : t \in Coders
        BY DEF Readers
      <4>2. QED
        BY <1>2, <3>3, <4>1
    <3>8. QED
      BY <2>4, <3>3, <3>5, <3>6, <3>7 DEF Reads, Answers
  <2>5. CASE ~ (p + (m + n) <= Len(d))
    <3>1. ~ ((p + m) + n <= Len(d)) /\ p <= p + m
      BY <1>2, <2>5
    <3>2. e.ok = FALSE /\ e.bits = << >>
      BY <2>2, <3>1
    <3>3. Got(r, n) = e
      BY <2>3, <3>2
    <3>4. QED
      BY <2>2, <2>5, <3>1, <3>2, <3>3 DEF Reads
  <2>6. QED
    BY <2>4, <2>5
<1>5. QED
  BY <1>3, <1>4

\* read_u64 reads its word, in one part or in two.
LEMMA GotWordIs ==
  ASSUME NEW d \in Buffers, NEW s \in Readers(d), NEW n \in Nat, n <= 2 * MaxCall
  PROVE  GotWord(s, n) \in Reads(d, Start(s), n)
<1> DEFINE p == Start(s)
           b == Begun(s)
           k == FirstPart(n)
<1>1. MaxCall \in Nat /\ p \in Nat
  BY RoomIs, ReaderIs
<1>2. b \in Reads(d, p, 0)
  BY BegunIs
<1> HIDE DEF b
<1>3. CASE n <= MaxCall
  <2>1. GotWord(s, n) = Got(b, n)
    BY <1>3 DEF GotWord, b
  <2>2. n \in 0 .. MaxCall /\ 0 \in Nat /\ 0 + n = n
    BY <1>1, <1>3
  <2> HIDE DEF p
  <2>3. Got(b, n) \in Reads(d, p, 0 + n)
    BY <1>1, <1>2, <2>2, GotIs
  <2>4. QED
    BY <2>1, <2>2, <2>3 DEF p
<1>4. CASE ~ (n <= MaxCall)
  <2>1. GotWord(s, n) = Got(Got(b, k), n - k)
    BY <1>4 DEF GotWord, b
  <2>2. k \in 0 .. MaxCall /\ n - k \in 0 .. MaxCall /\ k \in Nat /\ 0 \in Nat
        /\ 0 + k = k /\ k + (n - k) = n
    BY <1>1, <1>4 DEF FirstPart
  <2> HIDE DEF p, k
  <2>3. Got(b, k) \in Reads(d, p, 0 + k)
    BY <1>1, <1>2, <2>2, GotIs
  <2>4. Got(Got(b, k), n - k) \in Reads(d, p, k + (n - k))
    BY <1>1, <2>2, <2>3, GotIs
  <2>5. QED
    BY <2>1, <2>2, <2>4 DEF p
<1>5. QED
  BY <1>3, <1>4

\* skip reads its bits by the MaxCall.
LEMMA SkippedIs ==
  ASSUME NEW d \in Buffers, NEW s \in Readers(d), NEW n \in Nat
  PROVE  Skipped(s, n) \in Reads(d, Start(s), n)
<1> DEFINE p == Start(s)
           b == Begun(s)
           k == IF n = 0 THEN 0 ELSE (n - 1) \div MaxCall
           K == [i \in 0 .. k |-> Reads(d, p, i * MaxCall)]
           F == [i \in 1 .. k |-> [r \in K[i - 1] |-> Got(r, MaxCall)]]
           Goes(g) == g = [i \in 0 .. k |-> IF i = 0 THEN b ELSE Got(g[i - 1], MaxCall)]
           a == CHOOSE h : Goes(h)
<1>1. MaxCall \in Nat \ {0} /\ p \in Nat
  BY RoomIs, ReaderIs
<1>2. b \in Reads(d, p, 0)
  BY BegunIs
<1>3. Skipped(s, n) = Got(a[k], n - k * MaxCall)
  BY DEF Skipped, Turns
<1>4. k \in Nat /\ k * MaxCall \in Nat /\ n - k * MaxCall \in 0 .. MaxCall
  <2>1. CASE n = 0
    BY <1>1, <2>1
  <2>2. CASE n # 0
    <3> DEFINE q == (n - 1) \div MaxCall
    <3>1. n - 1 \in Nat
      BY <2>2
    <3>2. q \in Nat /\ q * MaxCall <= n - 1 /\ n - 1 < q * MaxCall + MaxCall
      BY <1>1, <3>1, QuotientIs
    <3> HIDE DEF q
    <3>3. q * MaxCall \in Nat
      BY <1>1, <3>2
    <3> DEFINE x == q * MaxCall
    <3>4. x \in Nat /\ x <= n - 1 /\ n - 1 < x + MaxCall
      BY <3>2, <3>3
    <3> HIDE DEF x
    <3>5. n - x \in 0 .. MaxCall
      BY <1>1, <3>4
    <3>6. QED
      BY <2>2, <3>2, <3>3, <3>5 DEF q, x
  <2>3. QED
    BY <2>1, <2>2
<1> HIDE DEF b, k, p
<1>5. b \in K[0]
  <2>1. 0 * MaxCall = 0 /\ 0 \in 0 .. k
    BY <1>1, <1>4
  <2>2. QED
    BY <1>2, <2>1
<1>6. ASSUME NEW i \in 1 .. k, NEW r \in K[i - 1] PROVE Got(r, MaxCall) \in K[i]
  <2>1. /\ i - 1 \in 0 .. k /\ i \in 0 .. k /\ MaxCall \in 0 .. MaxCall
        /\ (i - 1) * MaxCall \in Nat /\ (i - 1) * MaxCall + MaxCall = i * MaxCall
    BY <1>1, <1>4
  <2>2. r \in Reads(d, p, (i - 1) * MaxCall)
    BY <1>6, <2>1
  <2>3. Got(r, MaxCall) \in Reads(d, p, (i - 1) * MaxCall + MaxCall)
    BY <1>1, <2>1, <2>2, GotIs
  <2>4. QED
    BY <2>1, <2>3
<1> HIDE DEF K, a
<1>7. Leads(F, K, k)
  BY <1>6 DEF Leads
<1>8. PICK g : Follows(g, b, F, k) /\ Within(g, K, k)
  <2> HIDE DEF F, Goes
  <2>1. QED
    BY <1>4, <1>5, <1>7, LoopExists
<1>9. \A i \in 0 .. k : i # 0 => F[i][g[i - 1]] = Got(g[i - 1], MaxCall)
  <2> TAKE i \in 0 .. k
  <2>1. i # 0 => i \in 1 .. k /\ i - 1 \in 0 .. k
    BY <1>4
  <2>2. i # 0 => g[i - 1] \in K[i - 1]
    BY <1>8, <2>1 DEF Within
  <2>3. QED
    BY <2>1, <2>2
<1>10. \E h : Goes(h)
  <2>1. [i \in 0 .. k |-> IF i = 0 THEN b ELSE F[i][g[i - 1]]]
          = [i \in 0 .. k |-> IF i = 0 THEN b ELSE Got(g[i - 1], MaxCall)]
    BY <1>9
  <2>2. Goes(g)
    BY <1>8, <2>1 DEF Follows
  <2> HIDE DEF Goes
  <2>3. QED
    BY <2>2
<1>11. Goes(a)
  <2> HIDE DEF Goes
  <2>1. QED
    BY <1>10 DEF a
<1>12. a = [i \in 0 .. k |-> IF i = 0 THEN b ELSE Got(a[i - 1], MaxCall)]
  BY <1>11
<1> HIDE DEF Goes, F
<1>13. a[0] \in K[0] /\ \A i \in 1 .. k : a[i - 1] \in K[i - 1] => a[i] \in K[i]
  <2>1. a[0] = b /\ \A i \in 1 .. k : a[i] = Got(a[i - 1], MaxCall)
    BY <1>4, <1>12
  <2>2. QED
    BY <1>5, <1>6, <2>1
<1>14. a[k] \in K[k] /\ k \in 0 .. k
  BY <1>4, <1>13, LoopStays
<1>15. Got(a[k], n - k * MaxCall) \in Reads(d, p, k * MaxCall + (n - k * MaxCall))
  BY <1>1, <1>4, <1>14, GotIs DEF K
<1>16. k * MaxCall + (n - k * MaxCall) = n
  <2> DEFINE x == k * MaxCall
  <2>1. x \in Nat
    BY <1>4
  <2> HIDE DEF x
  <2>2. x + (n - x) = n
    BY <2>1
  <2>3. QED
    BY <2>2 DEF x
<1>17. QED
  BY <1>3, <1>15, <1>16 DEF p

-----------------------------------------------------------------------------
(* Unary codes.                                                            *)

LEMMA LeadingIs ==
  ASSUME NEW a \in Accumulators
  PROVE  /\ LeadingZeros(a) \in 0 .. AccBits
         /\ \A i \in 1 .. LeadingZeros(a) : a[i] = 0
         /\ LeadingZeros(a) < AccBits => a[LeadingZeros(a) + 1] = 1
<1> DEFINE Leading(n) == (\A i \in 1 .. n : a[i] = 0) /\ (n < AccBits => a[n + 1] = 1)
           D == {i \in 1 .. AccBits : a[i] = 1}
<1>1. AccBits \in Nat /\ \A i \in 1 .. AccBits : a[i] = 0 \/ a[i] = 1
  BY RoomIs DEF Accumulators, Bit
<1>2. \E n \in 0 .. AccBits : Leading(n)
  <2>1. CASE D = {}
    <3>1. \A i \in 1 .. AccBits : a[i] = 0
      BY <1>1, <2>1
    <3>2. AccBits \in 0 .. AccBits /\ ~ (AccBits < AccBits)
      BY <1>1
    <3>3. Leading(AccBits)
      BY <3>1, <3>2
    <3> HIDE DEF Leading
    <3>4. QED
      BY <3>2, <3>3
  <2>2. CASE D # {}
    <3>1. D \in SUBSET Nat
      OBVIOUS
    <3>2. PICK m \in D : \A k \in D : m <= k
      <4> HIDE DEF D
      <4>1. QED
        BY <2>2, <3>1, LeastOf
    <3>3. m \in 1 .. AccBits /\ a[m] = 1
      BY <3>2
    <3>4. m - 1 \in 0 .. AccBits /\ (m - 1) + 1 = m
      BY <1>1, <3>3
    <3>5. \A i \in 1 .. m - 1 : i \in 1 .. AccBits /\ ~ (m <= i)
      BY <1>1, <3>3
    <3>6. \A i \in 1 .. m - 1 : i \notin D
      BY <3>2, <3>5
    <3>7. \A i \in 1 .. m - 1 : a[i] = 0
      BY <1>1, <3>5, <3>6
    <3>8. Leading(m - 1)
      BY <3>3, <3>4, <3>7
    <3> HIDE DEF Leading
    <3>9. QED
      BY <3>4, <3>8
  <2>3. QED
    BY <2>1, <2>2
<1>3. LeadingZeros(a) = CHOOSE n \in 0 .. AccBits : Leading(n)
  BY DEF LeadingZeros
<1>4. LeadingZeros(a) \in 0 .. AccBits /\ Leading(LeadingZeros(a))
  <2> HIDE DEF Leading
  <2>1. QED
    BY <1>2, <1>3
<1>5. QED
  BY <1>4

Unaries == [done : BOOLEAN, ok : BOOLEAN, count : Nat, to : Coders]

ZeroRun(d, p, n) == \A j \in 1 .. n : d[p + j] = 0

\* Where the loop of read_unary can be after i turns, begun at place p: still
\* among the zeros and at least i further, behind the one that ends them, or
\* at the end of the data.
Going(d, p, u, i) ==
  u.done = FALSE /\ u.ok = FALSE /\ i <= u.count /\ Start(u.to) = p + u.count
Ended(d, p, u) ==
  /\ u.done = TRUE /\ u.ok = TRUE /\ Start(u.to) = p + u.count + 1
  /\ d[p + u.count + 1] = 1
Short(d, p, u) ==
  u.done = TRUE /\ u.ok = FALSE /\ Start(u.to) = p + u.count /\ p + u.count = Len(d)

Runs(d, p, i) ==
  {u \in Unaries : /\ u.to \in Readers(d) /\ ZeroRun(d, p, u.count)
                   /\ Going(d, p, u, i) \/ Ended(d, p, u) \/ Short(d, p, u)}

\* Zeros of the accumulator lengthen a run of zeros.
LEMMA LongerRun ==
  ASSUME NEW d \in Buffers, NEW p \in Nat, NEW n \in Nat, ZeroRun(d, p, n),
         NEW f \in Readers(d), Start(f) = p + n,
         NEW m \in 0 .. f.avail, \A i \in 1 .. m : f.acc[i] = 0
  PROVE  ZeroRun(d, p, n + m)
<1>1. f.avail \in Nat
  BY ReaderIs
<1>2. \A i \in 1 .. f.avail : f.acc[i] = d[(p + n) + i]
  BY DEF Readers, InPlace
<1>3. SUFFICES ASSUME NEW j \in 1 .. n + m PROVE d[p + j] = 0
  BY DEF ZeroRun
<1>4. CASE j <= n
  BY <1>4 DEF ZeroRun
<1>5. CASE ~ (j <= n)
  <2>1. j - n \in 1 .. m /\ j - n \in 1 .. f.avail /\ (p + n) + (j - n) = p + j
    BY <1>1, <1>5
  <2>2. QED
    BY <1>2, <2>1
<1>6. QED
  BY <1>4, <1>5

\* One turn consumes a bit at least, unless it ends the loop.
LEMMA RunIs ==
  ASSUME NEW d \in Buffers, NEW p \in Nat, NEW i \in Nat, NEW u \in Runs(d, p, i), NEW k
  PROVE  Run(u, k) \in Runs(d, p, i + 1)
<1> DEFINE f == IF u.to.avail = 0 THEN Refill(u.to) ELSE u.to
           n == LeadingZeros(f.acc)
           m == IF n < f.avail THEN n ELSE f.avail
           c == u.count
           v == Run(u, k)
<1>1. /\ u \in Unaries /\ u.to \in Readers(d) /\ ZeroRun(d, p, c)
      /\ Going(d, p, u, i) \/ Ended(d, p, u) \/ Short(d, p, u)
  BY DEF Runs
<1>2. CASE u.done = TRUE
  <2>1. Ended(d, p, u) \/ Short(d, p, u)
    BY <1>1, <1>2 DEF Going
  <2>2. Run(u, k) = u
    BY <1>2 DEF Run
  <2>3. QED
    BY <1>1, <2>1, <2>2 DEF Runs
<1>3. CASE u.done # TRUE
  <2>1. u.done = FALSE /\ u.ok = FALSE /\ i <= c /\ Start(u.to) = p + c /\ c \in Nat
    BY <1>1, <1>3 DEF Going, Ended, Short, Unaries
  <2>2. AccBits \in Nat /\ ByteBits \in Nat \ {0} /\ 2 * ByteBits <= AccBits /\ Len(d) \in Nat
    BY RoomIs, BufferIs
  <2>3. f \in Readers(d) /\ Start(f) = p + c /\ (f.avail = 0 => p + c = Len(d))
    <3>1. CASE u.to.avail = 0
      <4>1. f = Refill(u.to)
        BY <3>1
      <4>2. /\ f \in Readers(d) /\ Start(f) = p + c
            /\ (f.avail + ByteBits > AccBits \/ Start(f) + f.avail = Len(d))
        BY <1>1, <2>1, <4>1, RefillIs
      <4> HIDE DEF f
      <4>3. QED
        BY <2>1, <2>2, <4>2
    <3>2. CASE u.to.avail # 0
      BY <1>1, <2>1, <3>2
    <3>3. QED
      BY <3>1, <3>2
  <2>4. v = IF f.avail = 0 THEN [done |-> TRUE, ok |-> FALSE, count |-> c, to |-> f]
            ELSE IF m < n \/ m = f.avail
              THEN [u EXCEPT !.count = c + m, !.to = Drop(f, m)]
              ELSE [done |-> TRUE, ok |-> TRUE, count |-> c + m, to |-> Drop(f, m + 1)]
    BY <2>1 DEF Run
  <2> HIDE DEF f, v
  <2>5. /\ f.avail \in Nat /\ f.avail <= AccBits /\ f \in Coders
        /\ f.acc \in Accumulators /\ Start(f) + f.avail <= Len(d)
    <3>1. f.avail \in Nat /\ f.avail \in 0 .. AccBits /\ f \in Coders
          /\ f.acc \in Accumulators /\ Start(f) + f.avail <= Len(d)
      BY <2>3, ReaderIs
    <3>2. QED
      BY <3>1
  <2>6. /\ n \in 0 .. AccBits /\ \A j \in 1 .. n : f.acc[j] = 0
        /\ n < AccBits => f.acc[n + 1] = 1
    BY <2>5, LeadingIs
  <2> HIDE DEF n
  <2>7. m \in 0 .. f.avail /\ m <= n /\ (m = f.avail \/ (m = n /\ m < f.avail))
    BY <2>2, <2>5, <2>6
  <2>8. (m < n \/ m = f.avail) <=> m = f.avail
    BY <2>2, <2>5, <2>6, <2>7
  <2> HIDE DEF m
  <2>9. ZeroRun(d, p, c + m)
    <3>1. \A j \in 1 .. m : f.acc[j] = 0
      BY <2>2, <2>6, <2>7
    <3>2. QED
      BY <1>1, <2>1, <2>3, <2>7, <3>1, LongerRun
  <2>10. Drop(f, m) \in Readers(d) /\ Start(Drop(f, m)) = (p + c) + m /\ Drop(f, m) \in Coders
    <3>1. Drop(f, m) \in Readers(d) /\ Start(Drop(f, m)) = Start(f) + m
      BY <2>3, <2>7, DropIs
    <3>2. \A t \in Readers(d) : t \in Coders
      BY DEF Readers
    <3>3. QED
      BY <2>3, <3>1, <3>2
  <2>11. CASE f.avail = 0
    <3>1. v = [done |-> TRUE, ok |-> FALSE, count |-> c, to |-> f]
      BY <2>4, <2>11
    <3>2. v \in Unaries /\ v.to \in Readers(d) /\ v.count = c
      BY <2>1, <2>3, <2>5, <3>1 DEF Unaries
    <3>3. Short(d, p, v)
      BY <2>3, <2>11, <3>1 DEF Short
    <3>4. QED
      BY <1>1, <3>2, <3>3 DEF Runs, v
  <2>12. CASE f.avail # 0 /\ m = f.avail
    <3>1. v = [u EXCEPT !.count = c + m, !.to = Drop(f, m)]
      BY <2>4, <2>8, <2>12
    <3>2. /\ v.done = FALSE /\ v.ok = FALSE /\ v.count = c + m /\ v.to = Drop(f, m)
          /\ v = [done |-> v.done, ok |-> v.ok, count |-> v.count, to |-> v.to]
      BY <1>1, <2>1, <3>1 DEF Unaries
    <3>3. c + m \in Nat /\ i + 1 <= c + m /\ (p + c) + m = p + (c + m)
      BY <2>1, <2>5, <2>12
    <3>4. v \in Unaries
      BY <2>10, <3>2, <3>3 DEF Unaries
    <3>5. Going(d, p, v, i + 1)
      BY <2>10, <3>2, <3>3 DEF Going
    <3>6. QED
      BY <2>9, <2>10, <3>2, <3>4, <3>5 DEF Runs, v
  <2>13. CASE f.avail # 0 /\ m # f.avail
    <3>1. v = [done |-> TRUE, ok |-> TRUE, count |-> c + m, to |-> Drop(f, m + 1)]
      BY <2>4, <2>8, <2>13
    <3>2. m + 1 \in 0 .. f.avail /\ m = n /\ n < AccBits /\ m + 1 \in 1 .. f.avail
      BY <2>2, <2>5, <2>7, <2>13
    <3>3. Drop(f, m + 1) \in Readers(d) /\ Start(Drop(f, m + 1)) = Start(f) + (m + 1)
      BY <2>3, <3>2, DropIs
    <3>4. Drop(f, m + 1) \in Coders
      <4>1. \A t \in Readers(d) : t \in Coders
        BY DEF Readers
      <4>2. QED
        BY <3>3, <4>1
    <3>5. c + m \in Nat /\ (p + c) + (m + 1) = p + (c + m) + 1
      <4>1. m \in Nat
        BY <2>5, <2>7
      <4>2. QED
        BY <2>1, <4>1
    <3>6. d[p + (c + m) + 1] = 1
      <4>1. f.acc[m + 1] = 1
        BY <2>6, <3>2
      <4>2. f.acc[m + 1] = d[Start(f) + (m + 1)]
        BY <2>3, <3>2 DEF Readers, InPlace
      <4>3. QED
        BY <2>3, <3>5, <4>1, <4>2
    <3>7. v \in Unaries
      BY <3>1, <3>4, <3>5 DEF Unaries
    <3>8. Ended(d, p, v)
      BY <2>3, <3>1, <3>3, <3>5, <3>6 DEF Ended
    <3>9. v.count = c + m /\ v.to = Drop(f, m + 1)
      BY <3>1
    <3>10. v.to \in Readers(d) /\ ZeroRun(d, p, v.count)
      BY <2>9, <3>3, <3>9
    <3>11. QED
      BY <3>7, <3>8, <3>10 DEF Runs, v
  <2>14. QED
    BY <2>11, <2>12, <2>13
<1>4. QED
  BY <1>2, <1>3

\* read_unary ends behind its one, or at the end of the data.
LEMMA UnaryIs ==
  ASSUME NEW d \in Buffers, NEW s \in Readers(d)
  PROVE  /\ Unary(s) \in Unaries /\ Unary(s).to \in Readers(d)
         /\ ZeroRun(d, Start(s), Unary(s).count)
         /\ Ended(d, Start(s), Unary(s)) \/ Short(d, Start(s), Unary(s))
<1> DEFINE p == Start(s)
           b == [done |-> FALSE, ok |-> FALSE, count |-> 0, to |-> s]
           n == Len(d) + 1
           K == [i \in 0 .. n |-> Runs(d, p, i)]
           F == [i \in 1 .. n |-> [u \in K[i - 1] |-> Run(u, i)]]
           Goes(g) == g = [i \in 0 .. n |-> IF i = 0 THEN b ELSE Run(g[i - 1], i)]
           a == CHOOSE h : Goes(h)
<1>1. p \in Nat /\ s \in Coders /\ s.data = d /\ Len(d) \in Nat
  BY ReaderIs, BufferIs
<1>2. n \in Nat
  BY <1>1
<1>3. Unary(s) = a[n]
  BY <1>1 DEF Unary, Turns
<1>4. b \in Runs(d, p, 0)
  <2>1. b \in Unaries /\ b.count = 0 /\ b.to = s
    BY <1>1 DEF Unaries
  <2>2. ZeroRun(d, p, b.count)
    BY <2>1 DEF ZeroRun
  <2>3. Going(d, p, b, 0)
    <3>1. Start(b.to) = p + b.count
      BY <1>1, <2>1
    <3>2. QED
      BY <2>1, <3>1 DEF Going
  <2> HIDE DEF b
  <2>4. QED
    BY <2>1, <2>2, <2>3 DEF Runs
<1> HIDE DEF b, p
<1>5. b \in K[0]
  <2>1. 0 \in 0 .. n
    BY <1>2
  <2>2. QED
    BY <1>4, <2>1
<1> HIDE DEF n
<1>6. ASSUME NEW i \in 1 .. n, NEW u \in K[i - 1] PROVE Run(u, i) \in K[i]
  <2>1. i - 1 \in 0 .. n /\ i \in 0 .. n /\ i - 1 \in Nat /\ (i - 1) + 1 = i
    BY <1>2
  <2>2. u \in Runs(d, p, i - 1)
    BY <1>6, <2>1
  <2>3. Run(u, i) \in Runs(d, p, (i - 1) + 1)
    BY <1>1, <2>1, <2>2, RunIs
  <2>4. QED
    BY <2>1, <2>3
<1> HIDE DEF K, a
<1>7. Leads(F, K, n)
  BY <1>6 DEF Leads
<1>8. PICK g : Follows(g, b, F, n) /\ Within(g, K, n)
  <2> HIDE DEF F, Goes
  <2>1. QED
    BY <1>2, <1>5, <1>7, LoopExists
<1>9. \A i \in 0 .. n : i # 0 => F[i][g[i - 1]] = Run(g[i - 1], i)
  <2> TAKE i \in 0 .. n
  <2>1. i # 0 => i \in 1 .. n /\ i - 1 \in 0 .. n
    BY <1>2
  <2>2. i # 0 => g[i - 1] \in K[i - 1]
    BY <1>8, <2>1 DEF Within
  <2>3. QED
    BY <2>1, <2>2
<1>10. \E h : Goes(h)
  <2>1. [i \in 0 .. n |-> IF i = 0 THEN b ELSE F[i][g[i - 1]]]
          = [i \in 0 .. n |-> IF i = 0 THEN b ELSE Run(g[i - 1], i)]
    BY <1>9
  <2>2. Goes(g)
    BY <1>8, <2>1 DEF Follows
  <2> HIDE DEF Goes
  <2>3. QED
    BY <2>2
<1>11. Goes(a)
  <2> HIDE DEF Goes
  <2>1. QED
    BY <1>10 DEF a
<1>12. a = [i \in 0 .. n |-> IF i = 0 THEN b ELSE Run(a[i - 1], i)]
  BY <1>11
<1> HIDE DEF Goes, F
<1>13. a[0] \in K[0] /\ \A i \in 1 .. n : a[i - 1] \in K[i - 1] => a[i] \in K[i]
  <2>1. a[0] = b /\ \A i \in 1 .. n : a[i] = Run(a[i - 1], i)
    BY <1>2, <1>12
  <2>2. QED
    BY <1>5, <1>6, <2>1
<1>14. a[n] \in Runs(d, p, n)
  <2>1. a[n] \in K[n] /\ n \in 0 .. n
    BY <1>2, <1>13, LoopStays
  <2>2. QED
    BY <2>1 DEF K
<1>15. ~ Going(d, p, a[n], n)
  <2> DEFINE u == a[n]
  <2>1. u.to \in Readers(d) /\ u.count \in Nat
    BY <1>14 DEF Runs, Unaries
  <2>2. u.to.avail \in Nat /\ Start(u.to) + u.to.avail <= Len(d)
    BY <2>1, ReaderIs
  <2> HIDE DEF u
  <2>3. ~ (n <= u.count /\ Start(u.to) = p + u.count)
    BY <1>1, <2>1, <2>2 DEF n
  <2>4. ~ Going(d, p, u, n)
    BY <2>3 DEF Going
  <2>5. QED
    BY <2>4 DEF u
<1>16. QED
  BY <1>3, <1>14, <1>15 DEF Runs, p

-----------------------------------------------------------------------------
(* The state.                                                              *)

\* Between calls the coder is a writer, then a reader of whole bytes.
Inv ==
  /\ reading \in BOOLEAN
  /\ ~ reading => Coder \in Writers
  /\ reading => data \in Buffers /\ Coder \in Readers(data)

\* What the stream's variables stand for.
Bits == IF reading THEN data ELSE data \o SubSeq(acc, 1, avail)
Pos == IF reading THEN bytePos * ByteBits - avail ELSE 0

LEMMA BecomeIs ==
  ASSUME NEW t \in Coders, Become(t)
  PROVE  Coder' = t /\ data' = t.data
BY DEF Become, Coder, Coders

LEMMA BitsIs ==
  /\ ~ reading => Bits = BitsOf(Coder) /\ Pos = 0
  /\ reading => Bits = data /\ Pos = Start(Coder)
BY DEF Bits, Pos, BitsOf, Start, Coder

LEMMA BitsIsNext ==
  /\ ~ reading' => Bits' = BitsOf(Coder') /\ Pos' = 0
  /\ reading' => Bits' = data' /\ Pos' = Start(Coder')
BY DEF Bits, Pos, BitsOf, Start, Coder

LEMMA InitHolds ==
  ASSUME Init
  PROVE  Inv /\ Stream!Init
<1>1. AccBits \in Nat /\ ByteBits \in Nat \ {0}
  BY RoomIs
<1>2. Empty \in Accumulators /\ ZeroBehind(Empty, 0)
  BY <1>1 DEF Empty, Zeros, Accumulators, Bit, ZeroBehind
<1>3. Coder = [data |-> << >>, acc |-> Empty, avail |-> 0, bytePos |-> 0]
  BY DEF Init, Coder
<1>4. << >> \in Seq(Bit) /\ Len(<< >>) = 0
  OBVIOUS
<1>5. 0 % ByteBits = 0
  <2>1. 0 < ByteBits /\ 0 \in Nat
    BY <1>1
  <2>2. QED
    BY <2>1, NoByte
<1>6. Coder \in Coders
  BY <1>1, <1>2, <1>3, <1>4 DEF Coders
<1>7. Coder \in Writers
  <2>1. /\ Coder.data = << >> /\ Coder.acc = Empty /\ Coder.avail = 0 /\ Coder.bytePos = 0
    BY <1>3
  <2>2. Len(Coder.data) % ByteBits = 0
    BY <1>4, <1>5, <2>1
  <2>3. Coder.avail < ByteBits
    BY <1>1, <2>1
  <2>4. QED
    BY <1>2, <1>6, <2>1, <2>2, <2>3 DEF Writers
<1>8. Bits = << >> /\ Pos = 0
  <2>1. \A a : << >> \o SubSeq(a, 1, 0) = << >>
    OBVIOUS
  <2>2. QED
    BY <2>1 DEF Init, Bits, Pos
<1>9. Stream!Init
  BY <1>8 DEF Init, Stream!Init, Bits, Pos
<1>10. QED
  BY <1>7, <1>9 DEF Init, Inv

-----------------------------------------------------------------------------
(* The steps of a writer.                                                   *)

LEMMA PaddingIs ==
  \A n : Stream!Zeros(n) = Zeros(n) /\ Stream!Padding(n) = Zeros((- n) % ByteBits)
BY DEF Zeros, Stream!Zeros, Stream!Padding

LEMMA WriteToHolds ==
  ASSUME Inv, NEW bs \in Seq(Bit), NEW t \in Grown(Coder, bs), NEW n, WriteTo(t, n)
  PROVE  Inv' /\ ~ reading /\ Stream!Write(bs)
<1>1. /\ ~ reading /\ Coder \in Writers /\ Become(t)
      /\ reading' = reading /\ last' = last
  BY DEF WriteTo, Inv
<1>2. t \in Writers /\ t \in Coders /\ BitsOf(t) = BitsOf(Coder) \o bs
  BY DEF Grown, Writers
<1>3. Coder' = t
  BY <1>1, <1>2, BecomeIs
<1>4. Inv'
  BY <1>1, <1>2, <1>3 DEF Inv
<1>5. Bits' = Bits \o bs /\ Pos' = Pos
  BY <1>1, <1>2, <1>3, BitsIs, BitsIsNext
<1>6. Stream!Write(bs)
  BY <1>1, <1>5 DEF Stream!Write, Bits, Pos
<1>7. QED
  BY <1>1, <1>4, <1>6

LEMMA WriteHolds ==
  ASSUME Inv, NEW bs \in Strings, Write(bs)
  PROVE  Inv' /\ Stream!Next
<1>1. bs \in Seq(Bit) /\ Len(bs) <= 2 * MaxCall
  BY CallsAssumption
<1>2. Coder \in Writers
  BY DEF Write, WriteTo, Inv
<1>3. PutWord(Coder, bs) \in Grown(Coder, bs)
  BY <1>1, <1>2, PutWordIs
<1>4. WriteTo(PutWord(Coder, bs), Len(bs))
  BY DEF Write
<1>5. Inv' /\ ~ reading /\ Stream!Write(bs)
  BY <1>1, <1>3, <1>4, WriteToHolds
<1>6. QED
  BY <1>5 DEF Stream!Next

LEMMA WriteUnaryHolds ==
  ASSUME Inv, NEW n \in Lengths, WriteUnary(n)
  PROVE  Inv' /\ Stream!Next
<1> DEFINE bs == Zeros(n) \o <<1>>
<1>1. n \in Nat /\ Coder \in Writers
  BY CallsAssumption DEF WriteUnary, WriteTo, Inv
<1>2. Zeros(n) \in Seq(Bit) /\ <<1>> \in Seq(Bit)
  BY <1>1, ZerosIs DEF Bit
<1>3. bs \in Seq(Bit) /\ bs = Append(Stream!Zeros(n), 1)
  <2> DEFINE z == Zeros(n)
  <2>1. z \in Seq(Bit)
    BY <1>2
  <2> HIDE DEF z
  <2>2. z \o <<1>> = Append(z, 1) /\ z \o <<1>> \in Seq(Bit)
    BY <1>2, <2>1
  <2>3. QED
    BY <2>2, PaddingIs DEF z
<1>4. PutUnary(Coder, n) \in Grown(Coder, bs)
  BY <1>1, PutUnaryIs
<1>5. WriteTo(PutUnary(Coder, n), n + 1)
  BY DEF WriteUnary
<1> HIDE DEF bs
<1>6. Inv' /\ ~ reading /\ Stream!Write(bs)
  BY <1>3, <1>4, <1>5, WriteToHolds
<1>7. QED
  BY <1>3, <1>6 DEF Stream!Next

LEMMA WriteBytesHolds ==
  ASSUME Inv, NEW bs \in Strings, WriteBytes(bs)
  PROVE  Inv' /\ Stream!Next
<1>1. bs \in Seq(Bit) /\ Len(bs) % ByteBits = 0 /\ Coder \in Writers
  BY CallsAssumption DEF WriteBytes, WriteTo, Inv
<1>2. PutBytes(Coder, bs) \in Grown(Coder, bs)
  BY <1>1, PutBytesIs
<1>3. WriteTo(PutBytes(Coder, bs), Len(bs))
  BY DEF WriteBytes
<1>4. Inv' /\ ~ reading /\ Stream!Write(bs)
  BY <1>1, <1>2, <1>3, WriteToHolds
<1>5. QED
  BY <1>4 DEF Stream!Next

LEMMA AlignWriterHolds ==
  ASSUME Inv, AlignWriter
  PROVE  Inv' /\ Stream!Next
<1> DEFINE t == PutZeros(Coder, (- avail) % ByteBits)
           k == (- Len(BitsOf(Coder))) % ByteBits
<1>1. ~ reading /\ Coder \in Writers /\ WriteTo(t, 0)
  BY DEF AlignWriter, WriteTo, Inv
<1>2. Coder.avail = avail
  BY DEF Coder
<1>3. t \in Grown(Coder, Zeros(k))
  BY <1>1, <1>2, AlignIs
<1>4. k \in Nat
  <2>1. Len(BitsOf(Coder)) \in Nat /\ ByteBits \in Nat \ {0}
    BY <1>1, WriterIs, RoomIs
  <2>2. k \in 0 .. (ByteBits - 1)
    <3>1. - Len(BitsOf(Coder)) \in Int
      BY <2>1
    <3>2. QED
      BY <2>1, <3>1, RestIs
  <2>3. QED
    BY <2>2
<1>5. Zeros(k) \in Seq(Bit)
  BY <1>4, ZerosIs
<1>6. Stream!Padding(Len(Bits)) = Zeros(k)
  BY <1>1, BitsIs, PaddingIs
<1> HIDE DEF t, k
<1>7. Inv' /\ ~ reading /\ Stream!Write(Zeros(k))
  BY <1>1, <1>3, <1>5, WriteToHolds
<1>8. ~ reading /\ Stream!Write(Stream!Padding(Len(Bits)))
  BY <1>6, <1>7
<1>9. QED
  BY <1>7, <1>8 DEF Stream!Next, Bits

\* finish pads, and the reader begins at a byte of what was written.
LEMMA OpenHolds ==
  ASSUME Inv, NEW p \in Lengths, Open(p)
  PROVE  Inv' /\ Stream!Next
<1> DEFINE s == Finished(Coder)
           w == Bytes(s)
           q == IF p < w THEN p ELSE w
           t == [s EXCEPT !.bytePos = q]
           pad == Zeros((- Len(BitsOf(Coder))) % ByteBits)
<1>1. /\ ~ reading /\ Coder \in Writers /\ Become(t) /\ reading' = TRUE /\ last' = last
      /\ p \in Nat
  BY CallsAssumption DEF Open, Inv
<1>2. /\ s \in Coders /\ s.data = BitsOf(Coder) \o pad /\ Len(s.data) % ByteBits = 0
      /\ s.acc = Empty /\ s.avail = 0
  BY <1>1, FinishedIs
<1>3. s.data \in Buffers
  BY <1>2 DEF Coders, Buffers
<1>4. AccBits \in Nat /\ ByteBits \in Nat \ {0} /\ w = Len(s.data) \div ByteBits
  BY RoomIs DEF Bytes
<1> HIDE DEF s, pad
<1>5. w \in Nat /\ w * ByteBits = Len(s.data) /\ Len(s.data) \in Nat
  BY <1>3, <1>4, BufferIs
<1> HIDE DEF w
<1>6. q \in Nat /\ q <= w /\ (p < w => q = p) /\ (~ (p < w) => q = w)
  BY <1>1, <1>5
<1> HIDE DEF q
<1>7. q * ByteBits \in Nat /\ q * ByteBits <= Len(s.data)
  <2>1. q * ByteBits \in Nat
    BY <1>4, <1>6
  <2>2. q * ByteBits <= w * ByteBits
    <3>1. q \in Int /\ w \in Int /\ ByteBits \in Int /\ ByteBits >= 0
      BY <1>4, <1>5, <1>6
    <3>2. QED
      BY <1>6, <3>1, MulMono
  <2>3. QED
    BY <1>5, <2>1, <2>2
<1>8. /\ t.data = s.data /\ t.acc = Empty /\ t.avail = 0 /\ t.bytePos = q /\ t \in Coders
  BY <1>2, <1>6 DEF Coders
<1> HIDE DEF t
<1>9. Start(t) = q * ByteBits
  <2> DEFINE x == q * ByteBits
  <2>1. x \in Nat /\ Start(t) = x - 0
    BY <1>7, <1>8 DEF Start
  <2> HIDE DEF x
  <2>2. Start(t) = x
    BY <2>1
  <2>3. QED
    BY <2>2 DEF x
<1>10. t \in Readers(s.data)
  <2>1. InPlace(t, s.data) /\ ZeroBehind(t.acc, t.avail)
    BY <1>8 DEF InPlace, ZeroBehind, Empty, Zeros
  <2>2. t.bytePos * ByteBits <= Len(s.data) /\ t.avail <= t.bytePos * ByteBits
    BY <1>7, <1>8
  <2>3. QED
    BY <1>8, <2>1, <2>2 DEF Readers
<1>11. Coder' = t /\ data' = s.data
  BY <1>1, <1>8, BecomeIs
<1>12. Inv'
  BY <1>1, <1>3, <1>10, <1>11 DEF Inv
<1>13. Bits' = s.data /\ Pos' = q * ByteBits
  BY <1>1, <1>9, <1>11, BitsIsNext
<1>14. Bits' = Bits \o Stream!Padding(Len(Bits))
  <2>1. Bits = BitsOf(Coder)
    BY <1>1, BitsIs
  <2>2. Stream!Padding(Len(Bits)) = pad
    BY <2>1, PaddingIs DEF pad
  <2>3. QED
    BY <1>2, <1>13, <2>1, <2>2
<1>15. Pos' = IF p * ByteBits > Len(Bits') THEN Len(Bits') ELSE p * ByteBits
  <2> DEFINE x == p * ByteBits
             y == w * ByteBits
  <2>1. x \in Nat /\ y \in Nat /\ Len(Bits') = y
    <3>1. x \in Nat
      BY <1>1, <1>4
    <3>2. y = Len(s.data) /\ Bits' = s.data
      BY <1>5, <1>13
    <3>3. QED
      BY <1>5, <3>1, <3>2
  <2> HIDE DEF x, y
  <2>2. CASE p < w
    <3>1. x <= y
      <4>1. p <= w /\ p \in Int /\ w \in Int /\ ByteBits \in Int /\ ByteBits >= 0
        BY <1>5, <2>2, CallsAssumption, RoomIs
      <4>2. p * ByteBits <= w * ByteBits
        BY <4>1, MulMono
      <4>3. QED
        BY <4>2 DEF x, y
    <3>2. Pos' = x
      BY <1>6, <1>13, <2>2 DEF x
    <3>3. Pos' = IF x > Len(Bits') THEN Len(Bits') ELSE x
      BY <2>1, <3>1, <3>2
    <3>4. QED
      BY <3>3 DEF x
  <2>3. CASE ~ (p < w)
    <3>1. y <= x
      <4>1. w <= p /\ p \in Int /\ w \in Int /\ ByteBits \in Int /\ ByteBits >= 0
        BY <1>5, <2>3, CallsAssumption, RoomIs
      <4>2. w * ByteBits <= p * ByteBits
        BY <4>1, MulMono
      <4>3. QED
        BY <4>2 DEF x, y
    <3>2. Pos' = y
      BY <1>6, <1>13, <2>3 DEF y
    <3>3. Pos' = IF x > Len(Bits') THEN Len(Bits') ELSE x
      BY <2>1, <3>1, <3>2
    <3>4. QED
      BY <3>3 DEF x
  <2>4. QED
    BY <2>2, <2>3
<1>16. Stream!Open(p)
  BY <1>1, <1>14, <1>15 DEF Stream!Open, Bits, Pos
<1>17. QED
  BY <1>1, <1>12, <1>16 DEF Stream!Next

-----------------------------------------------------------------------------
(* The steps of a reader.                                                   *)

\* What every step of a reader keeps, and what it means for the stream.
LEMMA ReaderHolds ==
  ASSUME Inv, reading, NEW t \in Readers(data), Become(t), UNCHANGED reading
  PROVE  /\ Inv' /\ Bits' = Bits /\ Bits = data
         /\ Pos = Start(Coder) /\ Pos' = Start(t)
<1>1. data \in Buffers /\ Coder \in Readers(data) /\ reading' = TRUE
  BY DEF Inv
<1>2. t \in Coders /\ t.data = data
  BY DEF Readers
<1>3. Coder' = t /\ data' = data
  BY <1>2, BecomeIs
<1>4. Inv'
  BY <1>1, <1>3 DEF Inv
<1>5. Bits = data /\ Pos = Start(Coder) /\ Bits' = data' /\ Pos' = Start(Coder')
  BY <1>1, BitsIs, BitsIsNext
<1>6. QED
  BY <1>3, <1>4, <1>5

\* How far a reader can be, and what is left.
LEMMA PlaceIs ==
  ASSUME Inv, reading
  PROVE  /\ data \in Buffers /\ Coder \in Readers(data) /\ Len(data) \in Nat
         /\ Bits = data /\ Pos = Start(Coder) /\ Pos \in Nat /\ Pos <= Len(data)
         /\ Stream!Remaining = Len(data) - Pos
         /\ \A n : Stream!Ahead(n) = Ahead(data, Pos, n)
<1>1. data \in Buffers /\ Coder \in Readers(data)
  BY DEF Inv
<1>2. Bits = data /\ Pos = Start(Coder)
  BY BitsIs
<1>3. Len(data) \in Nat
  BY <1>1, BufferIs
<1>4. Pos \in Nat /\ Pos <= Len(data)
  <2>1. /\ Start(Coder) \in Nat /\ Coder.avail \in Nat
        /\ Start(Coder) + Coder.avail <= Len(data)
    BY <1>1, ReaderIs
  <2>2. QED
    BY <1>2, <1>3, <2>1
<1>5. Stream!Remaining = Len(Bits) - Pos
  BY DEF Stream!Remaining, Bits, Pos
<1>6. \A n : Stream!Ahead(n) = Ahead(Bits, Pos, n)
  BY DEF Stream!Ahead, Ahead, Bits, Pos
<1>7. QED
  BY <1>1, <1>2, <1>3, <1>4, <1>5, <1>6

\* A request that loses nothing it does not report as refused.
LEMMA AnswerHolds ==
  ASSUME Inv, reading, NEW n \in Nat, NEW r \in Reads(data, Start(Coder), n),
         Become(r.to), UNCHANGED reading
  PROVE  /\ Inv' /\ Bits' = Bits
         /\ \/ /\ n <= Stream!Remaining /\ r.ok = TRUE /\ r.bits = Stream!Ahead(n)
               /\ Pos' = Pos + n
            \/ n > Stream!Remaining /\ r.ok = FALSE /\ Pos' \in Pos .. Len(Bits)
<1>1. /\ data \in Buffers /\ Len(data) \in Nat /\ Bits = data /\ Pos = Start(Coder)
      /\ Pos \in Nat /\ Pos <= Len(data) /\ Stream!Remaining = Len(data) - Pos
      /\ \A k : Stream!Ahead(k) = Ahead(data, Pos, k)
  BY PlaceIs
<1>2. r.to \in Readers(data)
  BY DEF Reads
<1>3. Inv' /\ Bits' = Bits /\ Pos' = Start(r.to)
  BY <1>2, ReaderHolds
<1>4. CASE Pos + n <= Len(data)
  <2>1. r.ok = TRUE /\ r.bits = Ahead(data, Pos, n) /\ Start(r.to) = Pos + n
    BY <1>1, <1>4 DEF Reads
  <2>2. n <= Len(data) - Pos
    BY <1>1, <1>4
  <2>3. QED
    BY <1>1, <1>3, <2>1, <2>2
<1>5. CASE ~ (Pos + n <= Len(data))
  <2>1. r.ok = FALSE /\ Pos <= Start(r.to)
    BY <1>1, <1>5 DEF Reads
  <2>2. n > Len(data) - Pos
    BY <1>1, <1>5
  <2>3. Start(r.to) \in Nat /\ r.to.avail \in Nat /\ Start(r.to) + r.to.avail <= Len(data)
    BY <1>1, <1>2, ReaderIs
  <2>4. Start(r.to) \in Pos .. Len(data)
    BY <1>1, <2>1, <2>3
  <2>5. QED
    BY <1>1, <1>3, <2>1, <2>2, <2>4
<1>6. QED
  BY <1>4, <1>5

\* A step of the stream's reader is a step of the stream.
LEMMA StreamReads ==
  ASSUME reading, UNCHANGED reading, Bits' = Bits,
         \/ \E n \in Lengths : Stream!Read(n) \/ Stream!Skip(n) \/ Stream!Peek(n)
                                 \/ Stream!ReadBytes(n)
         \/ Stream!ReadUnary
         \/ Stream!Align
  PROVE  Stream!Next
<1>1. UNCHANGED <<IF reading THEN data ELSE data \o SubSeq(acc, 1, avail), reading>>
  BY DEF Bits
<1>2. QED
  BY <1>1 DEF Stream!Next

LEMMA ReadHolds ==
  ASSUME Inv, NEW n \in Lengths, Read(n)
  PROVE  Inv' /\ Stream!Next
<1> DEFINE r == GotWord(Coder, n)
<1>1. n \in Nat /\ n <= 2 * MaxCall
  BY CallsAssumption DEF Read
<1>2. /\ reading /\ Become(r.to) /\ UNCHANGED reading
      /\ last' = [call |-> "read", n |-> n, ok |-> r.ok,
                  bits |-> IF r.ok THEN r.bits ELSE << >>]
  BY DEF Read, Reply
<1>3. data \in Buffers /\ Coder \in Readers(data)
  BY <1>2, PlaceIs
<1>4. r \in Reads(data, Start(Coder), n)
  BY <1>1, <1>3, GotWordIs
<1> HIDE DEF r
<1>5. /\ Inv' /\ Bits' = Bits
      /\ \/ /\ n <= Stream!Remaining /\ r.ok = TRUE /\ r.bits = Stream!Ahead(n)
            /\ Pos' = Pos + n
         \/ n > Stream!Remaining /\ r.ok = FALSE /\ Pos' \in Pos .. Len(Bits)
  BY <1>1, <1>2, <1>4, AnswerHolds
<1>6. Stream!Read(n)
  <2>1. CASE /\ n <= Stream!Remaining /\ r.ok = TRUE /\ r.bits = Stream!Ahead(n)
             /\ Pos' = Pos + n
    <3>1. Stream!Answer("read", n, Stream!Ahead(n))
      BY <1>2, <2>1 DEF Stream!Answer
    <3>2. QED
      BY <2>1, <3>1 DEF Stream!Read, Pos
  <2>2. CASE n > Stream!Remaining /\ r.ok = FALSE /\ Pos' \in Pos .. Len(Bits)
    <3>1. Stream!Refuse("read", n)
      BY <1>2, <2>2 DEF Stream!Refuse
    <3>2. QED
      BY <2>2, <3>1 DEF Stream!Read, Pos, Bits
  <2>3. QED
    BY <1>5, <2>1, <2>2
<1>7. QED
  BY <1>2, <1>5, <1>6, StreamReads

LEMMA SkipHolds ==
  ASSUME Inv, NEW n \in Lengths, Skip(n)
  PROVE  Inv' /\ Stream!Next
<1> DEFINE r == Skipped(Coder, n)
<1>1. n \in Nat
  BY CallsAssumption
<1>2. /\ reading /\ Become(r.to) /\ UNCHANGED reading
      /\ last' = [call |-> "skip", n |-> n, ok |-> r.ok, bits |-> << >>]
  BY DEF Skip, Reply
<1>3. data \in Buffers /\ Coder \in Readers(data)
  BY <1>2, PlaceIs
<1>4. r \in Reads(data, Start(Coder), n)
  BY <1>1, <1>3, SkippedIs
<1> HIDE DEF r
<1>5. /\ Inv' /\ Bits' = Bits
      /\ \/ /\ n <= Stream!Remaining /\ r.ok = TRUE /\ r.bits = Stream!Ahead(n)
            /\ Pos' = Pos + n
         \/ n > Stream!Remaining /\ r.ok = FALSE /\ Pos' \in Pos .. Len(Bits)
  BY <1>1, <1>2, <1>4, AnswerHolds
<1>6. Stream!Skip(n)
  <2>1. CASE n <= Stream!Remaining /\ r.ok = TRUE /\ Pos' = Pos + n
    <3>1. Stream!Answer("skip", n, << >>)
      BY <1>2, <2>1 DEF Stream!Answer
    <3>2. QED
      BY <2>1, <3>1 DEF Stream!Skip, Pos
  <2>2. CASE n > Stream!Remaining /\ r.ok = FALSE /\ Pos' \in Pos .. Len(Bits)
    <3>1. Stream!Refuse("skip", n)
      BY <1>2, <2>2 DEF Stream!Refuse
    <3>2. QED
      BY <2>2, <3>1 DEF Stream!Skip, Pos, Bits
  <2>3. QED
    BY <1>5, <2>1, <2>2
<1>7. QED
  BY <1>2, <1>5, <1>6, StreamReads

LEMMA PeekHolds ==
  ASSUME Inv, NEW n \in Lengths, Peek(n)
  PROVE  Inv' /\ Stream!Next
<1> DEFINE r == Seen(Coder, n)
<1>1. n \in 0 .. MaxCall /\ n \in Nat
  BY CallsAssumption DEF Peek
<1>2. /\ reading /\ Become(r.to) /\ UNCHANGED reading
      /\ last' = [call |-> "peek", n |-> n, ok |-> r.ok,
                  bits |-> IF r.ok THEN r.bits ELSE << >>]
  BY DEF Peek, Reply
<1>3. /\ data \in Buffers /\ Coder \in Readers(data) /\ Len(data) \in Nat
      /\ Pos = Start(Coder) /\ Pos \in Nat /\ Stream!Remaining = Len(data) - Pos
      /\ \A k : Stream!Ahead(k) = Ahead(data, Pos, k)
  BY <1>2, PlaceIs
<1>4. /\ r.to \in Readers(data) /\ Start(r.to) = Pos
      /\ IF Pos + n <= Len(data) THEN r.ok = TRUE /\ r.bits = Ahead(data, Pos, n)
                                 ELSE r.ok = FALSE
  BY <1>1, <1>3, SeenIs
<1> HIDE DEF r
<1>5. Inv' /\ Bits' = Bits /\ Pos' = Pos
  BY <1>2, <1>4, ReaderHolds
<1>6. n <= Stream!Remaining <=> Pos + n <= Len(data)
  <2>1. n <= Len(data) - Pos <=> Pos + n <= Len(data)
    BY <1>1, <1>3
  <2>2. QED
    BY <1>3, <2>1
<1>7. Stream!Peek(n)
  <2>1. CASE n <= Stream!Remaining
    <3>1. r.ok = TRUE /\ r.bits = Stream!Ahead(n)
      BY <1>3, <1>4, <1>6, <2>1
    <3>2. Stream!Answer("peek", n, Stream!Ahead(n))
      BY <1>2, <3>1 DEF Stream!Answer
    <3>3. QED
      BY <1>5, <2>1, <3>2 DEF Stream!Peek, Pos
  <2>2. CASE ~ (n <= Stream!Remaining)
    <3>1. r.ok = FALSE
      BY <1>4, <1>6, <2>2
    <3>2. Stream!Refuse("peek", n)
      BY <1>2, <3>1 DEF Stream!Refuse
    <3>3. QED
      BY <1>5, <2>2, <3>2 DEF Stream!Peek, Pos
  <2>3. QED
    BY <2>1, <2>2
<1>8. QED
  BY <1>2, <1>5, <1>7, StreamReads

\* Between bytes, the accumulator holds whole bytes and the stream is at one.
LEMMA BoundaryIs ==
  ASSUME NEW d \in Buffers, NEW s \in Readers(d)
  PROVE  /\ Start(s) % ByteBits = 0 <=> s.avail % ByteBits = 0
         /\ (- Start(s)) % ByteBits = s.avail % ByteBits
<1> DEFINE m == s.bytePos * ByteBits
<1>1. s.avail \in Int /\ s.bytePos \in Int /\ ByteBits \in Int
  BY ReaderIs, RoomIs
<1>2. m \in Int /\ - m \in Int /\ Start(s) = m - s.avail
  BY <1>1 DEF Start
<1>3. m % ByteBits = 0
  BY <1>1, <1>2, WholeIs
<1> HIDE DEF m
<1>4. (- m) % ByteBits = 0
  BY <1>2, <1>3, WholeIs
<1>5. \A j, k \in Int : j % ByteBits = 0 => (j + k) % ByteBits = k % ByteBits
  BY WholeIs
<1>6. (- Start(s)) % ByteBits = s.avail % ByteBits
  <2>1. - Start(s) = (- m) + s.avail
    BY <1>1, <1>2
  <2>2. ((- m) + s.avail) % ByteBits = s.avail % ByteBits
    BY <1>1, <1>2, <1>4, <1>5
  <2>3. QED
    BY <2>1, <2>2
<1>7. Start(s) % ByteBits = (- s.avail) % ByteBits
  <2>1. Start(s) = m + (- s.avail) /\ - s.avail \in Int
    BY <1>1, <1>2
  <2>2. (m + (- s.avail)) % ByteBits = (- s.avail) % ByteBits
    BY <1>2, <1>3, <1>5, <2>1
  <2>3. QED
    BY <2>1, <2>2
<1>8. (- s.avail) % ByteBits = 0 <=> s.avail % ByteBits = 0
  <2>1. \A k \in Int : k % ByteBits = 0 => (- k) % ByteBits = 0
    BY WholeIs
  <2>2. - s.avail \in Int /\ - (- s.avail) = s.avail
    BY <1>1
  <2>3. QED
    BY <1>1, <2>1, <2>2
<1>9. QED
  BY <1>6, <1>7, <1>8

LEMMA ReadBytesHolds ==
  ASSUME Inv, NEW n \in Lengths, ReadBytes(n)
  PROVE  Inv' /\ Stream!Next
<1> DEFINE start == bytePos - (avail \div ByteBits)
           ok == avail % ByteBits = 0 /\ start + n <= Bytes(Coder)
           new == [Coder EXCEPT !.acc = Empty, !.avail = 0, !.bytePos = start + n]
           t == IF ok THEN new ELSE Coder
           bs == SubSeq(data, start * ByteBits + 1, (start + n) * ByteBits)
           whole == Len(data) \div ByteBits
<1>1. n \in Nat
  BY CallsAssumption
<1>2. /\ reading /\ Become(t) /\ UNCHANGED reading
      /\ last' = [call |-> "bytes", n |-> n, ok |-> ok, bits |-> IF ok THEN bs ELSE << >>]
  BY DEF ReadBytes, Reply
<1>3. /\ data \in Buffers /\ Coder \in Readers(data) /\ Len(data) \in Nat
      /\ Pos = Start(Coder) /\ Pos \in Nat /\ Stream!Remaining = Len(data) - Pos
      /\ \A k : Stream!Ahead(k) = Ahead(data, Pos, k)
  BY <1>2, PlaceIs
<1>4. AccBits \in Nat /\ ByteBits \in Nat \ {0}
  BY RoomIs
<1>5. /\ Coder.avail = avail /\ Coder.bytePos = bytePos /\ Bytes(Coder) = whole
  BY DEF Coder, Bytes
<1>6. whole \in Nat /\ whole * ByteBits = Len(data)
  BY <1>3, BufferIs
<1>7. avail \in Nat /\ bytePos \in Nat
  BY <1>3, <1>5, ReaderIs
<1>8. Pos % ByteBits = 0 <=> avail % ByteBits = 0
  BY <1>3, <1>5, BoundaryIs
<1>9. ASSUME avail % ByteBits = 0
      PROVE  start \in Int /\ start * ByteBits = Pos
  <2> DEFINE q == avail \div ByteBits
  <2>1. q \in Int /\ avail = q * ByteBits + 0
    BY <1>4, <1>7, <1>9, RestIs
  <2>2. start = bytePos - q /\ Pos = bytePos * ByteBits - avail
    BY <1>3, <1>5 DEF Start
  <2> HIDE DEF q, start
  <2>3. start \in Int /\ start * ByteBits = bytePos * ByteBits - q * ByteBits
    BY <1>4, <1>7, <2>1, <2>2
  <2> DEFINE x == q * ByteBits
  <2>4. x \in Int /\ avail = x
    <3>1. x \in Int
      BY <1>4, <2>1
    <3>2. QED
      BY <2>1, <3>1
  <2>5. QED
    BY <2>2, <2>3, <2>4
<1> HIDE DEF start, whole
<1>10. CASE ok
  <2>1. avail % ByteBits = 0 /\ start + n <= whole /\ start \in Int /\ start * ByteBits = Pos
    BY <1>5, <1>9, <1>10
  <2>2. ~ (start <= 0 - 1)
    <3>1. start <= 0 - 1 => start * ByteBits <= (0 - 1) * ByteBits
      BY <1>4, <2>1, MulMono
    <3>2. (0 - 1) * ByteBits = 0 - ByteBits
      BY <1>4
    <3>3. QED
      BY <1>3, <1>4, <2>1, <3>1, <3>2
  <2>3. start \in Nat /\ start + n \in Nat
    BY <1>1, <2>1, <2>2
  <2>4. /\ n * ByteBits \in Nat /\ (start + n) * ByteBits = Pos + n * ByteBits
        /\ (start + n) * ByteBits <= Len(data)
    <3>1. n * ByteBits \in Nat
      BY <1>1, <1>4
    <3>2. (start + n) * ByteBits = start * ByteBits + n * ByteBits
      BY <1>1, <1>4, <2>1
    <3>3. (start + n) * ByteBits <= whole * ByteBits
      <4>1. start + n \in Int /\ whole \in Int /\ ByteBits \in Int /\ ByteBits >= 0
        BY <1>4, <1>6, <2>3
      <4>2. QED
        BY <2>1, <4>1, MulMono
    <3>4. QED
      BY <1>6, <2>1, <3>1, <3>2, <3>3
  <2>5. /\ new.data = data /\ new.acc = Empty /\ new.avail = 0 /\ new.bytePos = start + n
        /\ new \in Coders
    <3>1. Empty \in Accumulators
      BY <1>4 DEF Empty, Zeros, Accumulators, Bit
    <3>2. Coder \in Coders /\ Coder.data = data
      BY <1>3, ReaderIs
    <3>3. start + n \in Nat /\ 0 \in 0 .. AccBits
      BY <1>4, <2>3
    <3>4. QED
      BY <3>1, <3>2, <3>3 DEF Coders
  <2> HIDE DEF new
  <2>6. Start(new) = Pos + n * ByteBits
    <3> DEFINE x == (start + n) * ByteBits
    <3>1. Start(new) = x - 0 /\ x = Pos + n * ByteBits /\ Pos + n * ByteBits \in Int
      BY <1>3, <2>4, <2>5 DEF Start
    <3> HIDE DEF x
    <3>2. Start(new) = x
      BY <3>1
    <3>3. QED
      BY <3>1, <3>2
  <2>7. new \in Readers(data)
    <3>1. InPlace(new, data) /\ ZeroBehind(new.acc, new.avail)
      BY <2>5 DEF InPlace, ZeroBehind, Empty, Zeros
    <3>2. new.bytePos * ByteBits <= Len(data) /\ new.avail <= new.bytePos * ByteBits
      BY <1>3, <2>4, <2>5
    <3>3. QED
      BY <2>5, <3>1, <3>2 DEF Readers
  <2>8. Inv' /\ Bits' = Bits /\ Pos' = Pos + n * ByteBits
    BY <1>2, <1>10, <2>6, <2>7, ReaderHolds
  <2>9. bs = Stream!Ahead(n * ByteBits)
    BY <1>3, <2>1, <2>4 DEF Ahead
  <2>10. n * ByteBits <= Stream!Remaining
    <3> DEFINE x == n * ByteBits
    <3>1. x \in Nat /\ Pos + x <= Len(data)
      BY <2>4
    <3> HIDE DEF x
    <3>2. x <= Len(data) - Pos
      BY <1>3, <3>1
    <3>3. QED
      BY <1>3, <3>2 DEF x
  <2>11. Stream!Answer("bytes", n, Stream!Ahead(n * ByteBits))
    BY <1>2, <1>10, <2>9 DEF Stream!Answer
  <2>12. Stream!ReadBytes(n)
    BY <1>8, <2>1, <2>8, <2>10, <2>11 DEF Stream!ReadBytes, Pos
  <2>13. QED
    BY <1>2, <2>8, <2>12, StreamReads
<1>11. CASE ~ ok
  <2>1. Become(Coder)
    BY <1>2, <1>11
  <2>2. Inv' /\ Bits' = Bits /\ Pos' = Pos
    BY <1>2, <1>3, <2>1, ReaderHolds
  <2>3. ~ (Pos % ByteBits = 0 /\ n * ByteBits <= Stream!Remaining)
    <3> SUFFICES ASSUME avail % ByteBits = 0, n * ByteBits <= Len(data) - Pos PROVE FALSE
      BY <1>3, <1>8
    <3>1. start \in Int /\ start * ByteBits = Pos /\ ~ (start + n <= whole)
      BY <1>5, <1>9, <1>11
    <3>2. whole + 1 <= start + n
      BY <1>1, <1>6, <3>1
    <3>3. (whole + 1) * ByteBits <= (start + n) * ByteBits
      <4>1. whole + 1 \in Int /\ start + n \in Int /\ ByteBits \in Int /\ ByteBits >= 0
        BY <1>1, <1>4, <1>6, <3>1
      <4>2. QED
        BY <3>2, <4>1, MulMono
    <3>4. /\ (whole + 1) * ByteBits = whole * ByteBits + ByteBits
          /\ (start + n) * ByteBits = start * ByteBits + n * ByteBits
          /\ n * ByteBits \in Int
      BY <1>1, <1>4, <1>6, <3>1
    <3> DEFINE x == n * ByteBits
    <3>5. x \in Int /\ x <= Len(data) - Pos /\ Len(data) + ByteBits <= Pos + x
      BY <1>6, <3>1, <3>3, <3>4
    <3> HIDE DEF x
    <3>6. QED
      BY <1>3, <1>4, <3>5
  <2>4. Stream!Refuse("bytes", n)
    <3>1. ok = FALSE
      BY <1>11
    <3> HIDE DEF ok
    <3>2. QED
      BY <1>2, <3>1 DEF Stream!Refuse
  <2>5. Stream!ReadBytes(n)
    BY <2>2, <2>3, <2>4 DEF Stream!ReadBytes, Pos
  <2>6. QED
    BY <1>2, <2>2, <2>5, StreamReads
<1>12. QED
  BY <1>10, <1>11

LEMMA AlignReaderHolds ==
  ASSUME Inv, AlignReader
  PROVE  Inv' /\ Stream!Next
<1> DEFINE k == avail % ByteBits
           t == Drop(Coder, k)
<1>1. reading /\ Become(t) /\ UNCHANGED reading /\ last' = last
  BY DEF AlignReader
<1>2. data \in Buffers /\ Coder \in Readers(data) /\ Pos = Start(Coder)
  BY <1>1, PlaceIs
<1>3. Coder.avail = avail /\ avail \in Nat
  <2>1. Coder.avail = avail
    BY DEF Coder
  <2>2. QED
    BY <1>2, <2>1, ReaderIs
<1>4. k \in 0 .. Coder.avail
  <2>1. k \in 0 .. (ByteBits - 1) /\ k <= avail /\ ByteBits \in Nat
    BY <1>3, FullIs, RoomIs
  <2> HIDE DEF k
  <2>2. QED
    BY <1>3, <2>1
<1>5. (- Pos) % ByteBits = k
  BY <1>2, <1>3, BoundaryIs
<1> HIDE DEF k
<1>6. t \in Readers(data) /\ Start(t) = Start(Coder) + k
  BY <1>2, <1>4, DropIs
<1> HIDE DEF t
<1>7. Inv' /\ Bits' = Bits /\ Pos' = Pos + k
  BY <1>1, <1>2, <1>6, ReaderHolds
<1>8. Stream!Align
  BY <1>1, <1>5, <1>7 DEF Stream!Align, Pos
<1>9. QED
  BY <1>1, <1>7, <1>8, StreamReads

LEMMA ReadUnaryHolds ==
  ASSUME Inv, ReadUnary
  PROVE  Inv' /\ Stream!Next
<1> DEFINE u == Unary(Coder)
           n == u.count
<1>1. /\ reading /\ Become(u.to) /\ UNCHANGED reading
      /\ last' = [call |-> "unary", n |-> IF u.ok THEN n ELSE 0, ok |-> u.ok, bits |-> << >>]
  BY DEF ReadUnary, Reply
<1>2. /\ data \in Buffers /\ Coder \in Readers(data) /\ Len(data) \in Nat /\ Bits = data
      /\ Pos = Start(Coder) /\ Pos \in Nat /\ Pos <= Len(data)
      /\ Stream!Remaining = Len(data) - Pos
      /\ \A k : Stream!Ahead(k) = Ahead(data, Pos, k)
  BY <1>1, PlaceIs
<1>3. /\ u \in Unaries /\ u.to \in Readers(data) /\ ZeroRun(data, Pos, n)
      /\ Ended(data, Pos, u) \/ Short(data, Pos, u)
  BY <1>2, UnaryIs
<1>4. n \in Nat
  BY <1>3 DEF Unaries
<1>5. Inv' /\ Bits' = Bits /\ Pos' = Start(u.to)
  BY <1>1, <1>3, ReaderHolds
<1>6. Start(u.to) <= Len(data)
  <2>1. Start(u.to) \in Nat /\ u.to.avail \in Nat /\ Start(u.to) + u.to.avail <= Len(data)
    BY <1>2, <1>3, ReaderIs
  <2>2. QED
    BY <1>2, <2>1
<1> HIDE DEF u
<1>7. ASSUME Pos + n <= Len(data) PROVE Ahead(data, Pos, n) = Zeros(n)
  <2> DEFINE v == Ahead(data, Pos, n)
             z == Zeros(n)
  <2>1. v \in Seq(Bit) /\ Len(v) = n /\ \A i \in 1 .. n : v[i] = data[Pos + i]
    BY <1>2, <1>4, <1>7, AheadIs
  <2>2. z \in Seq(Bit) /\ Len(z) = n /\ \A i \in 1 .. n : z[i] = 0
    BY <1>4, ZerosIs
  <2> HIDE DEF v, z
  <2>3. \A i \in 1 .. n : v[i] = z[i]
    BY <1>3, <2>1, <2>2 DEF ZeroRun
  <2>4. v = z
    BY <2>1, <2>2, <2>3, SameBits
  <2>5. QED
    BY <2>4 DEF v, z
<1>8. CASE Ended(data, Pos, u)
  <2>1. /\ u.ok = TRUE /\ Start(u.to) = Pos + n + 1 /\ data[Pos + n + 1] = 1
    BY <1>8 DEF Ended
  <2>2. Pos + n + 1 <= Len(data) /\ Pos + n <= Len(data) /\ n \in 0 .. Stream!Remaining - 1
        /\ (Pos + n) + 1 <= Len(data) /\ Pos + n \in Nat
    <3>1. n \in 0 .. (Len(data) - Pos) - 1
      BY <1>2, <1>4, <1>6, <2>1
    <3>2. QED
      BY <1>2, <1>4, <1>6, <2>1, <3>1
  <2>3. Stream!Ahead(n + 1) = Append(Stream!Zeros(n), 1)
    <3> DEFINE v == Ahead(data, Pos + n, 1)
               z == Zeros(n)
    <3>1. v \in Seq(Bit) /\ Len(v) = 1 /\ \A i \in 1 .. 1 : v[i] = data[(Pos + n) + i]
      <4>1. Pos + n \in Nat /\ 1 \in Nat /\ (Pos + n) + 1 <= Len(data)
        BY <2>2
      <4>2. QED
        BY <1>2, <4>1, AheadIs
    <3>2. v[1] = 1
      BY <1>2, <1>4, <2>1, <3>1
    <3>3. Ahead(data, Pos, n) \o v = Ahead(data, Pos, n + 1)
      <4>1. 1 \in Nat /\ Pos + n + 1 <= Len(data)
        BY <2>2
      <4>2. QED
        BY <1>2, <1>4, <4>1, AheadJoined
    <3>4. z \in Seq(Bit) /\ Ahead(data, Pos, n) = z
      BY <1>4, <1>7, <2>2, ZerosIs
    <3> HIDE DEF v, z
    <3>5. v = <<1>>
      BY <3>1, <3>2
    <3>6. z \o <<1>> = Append(z, 1)
      BY <3>4
    <3>7. Ahead(data, Pos, n + 1) = Append(z, 1)
      BY <3>3, <3>4, <3>5, <3>6
    <3>8. QED
      BY <1>2, <3>7, PaddingIs DEF z
  <2>4. Stream!Answer("unary", n, << >>)
    BY <1>1, <2>1 DEF Stream!Answer
  <2>5. Pos' = Pos + n + 1
    BY <1>5, <2>1
  <2>6. Stream!ReadUnary
    BY <2>2, <2>3, <2>4, <2>5 DEF Stream!ReadUnary, Pos
  <2>7. QED
    BY <1>1, <1>5, <2>6, StreamReads
<1>9. CASE Short(data, Pos, u)
  <2>1. u.ok = FALSE /\ Start(u.to) = Pos + n /\ Pos + n = Len(data)
    BY <1>9 DEF Short
  <2>2. n = Stream!Remaining
    <3>1. n = Len(data) - Pos
      BY <1>2, <1>4, <2>1
    <3>2. QED
      BY <1>2, <3>1
  <2>3. Stream!Ahead(n) = Stream!Zeros(n)
    <3>1. Pos + n <= Len(data)
      BY <1>2, <2>1
    <3>2. QED
      BY <1>2, <1>7, <3>1, PaddingIs
  <2>4. Stream!Refuse("unary", 0)
    BY <1>1, <2>1 DEF Stream!Refuse
  <2>5. Pos' = Len(Bits)
    BY <1>2, <1>5, <2>1
  <2>6. Stream!ReadUnary
    BY <2>2, <2>3, <2>4, <2>5 DEF Stream!ReadUnary, Pos, Bits
  <2>7. QED
    BY <1>1, <1>5, <2>6, StreamReads
<1>10. QED
  BY <1>3, <1>8, <1>9

-----------------------------------------------------------------------------
LEMMA StepHolds ==
  ASSUME Inv, [Next]_vars
  PROVE  Inv' /\ [Stream!Next]_Stream!vars
<1>1. ASSUME NEW bs \in Strings, Write(bs) PROVE Inv' /\ Stream!Next
  BY <1>1, WriteHolds
<1>2. ASSUME NEW n \in Lengths, WriteUnary(n) PROVE Inv' /\ Stream!Next
  BY <1>2, WriteUnaryHolds
<1>3. ASSUME NEW bs \in Strings, WriteBytes(bs) PROVE Inv' /\ Stream!Next
  BY <1>3, WriteBytesHolds
<1>4. ASSUME AlignWriter PROVE Inv' /\ Stream!Next
  BY <1>4, AlignWriterHolds
<1>5. ASSUME NEW p \in Lengths, Open(p) PROVE Inv' /\ Stream!Next
  BY <1>5, OpenHolds
<1>6. ASSUME NEW n \in Lengths, Read(n) PROVE Inv' /\ Stream!Next
  BY <1>6, ReadHolds
<1>7. ASSUME NEW n \in Lengths, Peek(n) PROVE Inv' /\ Stream!Next
  BY <1>7, PeekHolds
<1>8. ASSUME NEW n \in Lengths, Skip(n) PROVE Inv' /\ Stream!Next
  BY <1>8, SkipHolds
<1>9. ASSUME NEW n \in Lengths, ReadBytes(n) PROVE Inv' /\ Stream!Next
  BY <1>9, ReadBytesHolds
<1>10. ASSUME ReadUnary PROVE Inv' /\ Stream!Next
  BY <1>10, ReadUnaryHolds
<1>11. ASSUME AlignReader PROVE Inv' /\ Stream!Next
  BY <1>11, AlignReaderHolds
<1>12. ASSUME UNCHANGED vars PROVE Inv' /\ UNCHANGED Stream!vars
  <2>1. Coder' = Coder /\ data' = data /\ reading' = reading
    BY <1>12 DEF vars, Coder
  <2>2. Inv'
    BY <2>1 DEF Inv
  <2>3. QED
    BY <1>12, <2>2 DEF vars, Stream!vars
<1>13. QED
  BY <1>1, <1>2, <1>3, <1>4, <1>5, <1>6, <1>7, <1>8, <1>9, <1>10, <1>11, <1>12 DEF Next

\* Whatever mix of words, bytes, unary codes, peeks, skips and alignment is
\* written and read through the accumulators, in bytes of any width and words
\* of any length, is what the stream of bits gives: BitWriter, BitReader and
\* their Lsb forms lose, repeat and reorder no bit, and refuse a call exactly
\* when too few bits are left.
THEOREM StreamImplemented == Spec => ImplementsStream
<1>1. Init => Inv /\ Stream!Init
  BY InitHolds
<1>2. Inv /\ [Next]_vars => Inv' /\ [Stream!Next]_Stream!vars
  BY StepHolds
<1>3. QED
  BY <1>1, <1>2, PTL DEF Spec, ImplementsStream, Stream!Spec
=============================================================================
