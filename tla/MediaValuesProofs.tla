-------------------------- MODULE MediaValuesProofs --------------------------
(***************************************************************************)
(* Proofs about MediaValues: the arithmetic, the order and the rescaling   *)
(* of fractions (Rescale, Rationals), for integers of every width, all     *)
(* fractions and all tick counts; an encoder's setup (CodecSetup), for     *)
(* every schema, document, option string and declaration; and the labels   *)
(* and the storage of every pixel format, for every size (Formats).        *)
(***************************************************************************)
EXTENDS MediaValues, FiniteSetTheorems, WellFoundedInduction, TLAPS

-----------------------------------------------------------------------------
(* Products of integers.                                                   *)

LEMMA MulMono ==
  ASSUME NEW x \in Int, NEW y \in Int, NEW k \in Int, x <= y, k >= 0
  PROVE  x * k <= y * k
<1>1. (y - x) * k >= 0
  <2>1. \A u, v \in Nat : u * v >= 0
    OBVIOUS
  <2>2. QED
    BY <2>1
<1>2. (y - x) * k = y * k - x * k
  OBVIOUS
<1>3. QED
  BY <1>1, <1>2

LEMMA MulCancel ==
  ASSUME NEW x \in Int, NEW y \in Int, NEW k \in Int, k > 0, x * k <= y * k
  PROVE  x <= y
<1>1. SUFFICES ASSUME y + 1 <= x PROVE FALSE
  OBVIOUS
<1>2. (y + 1) * k <= x * k
  BY <1>1, MulMono
<1>3. QED
  BY <1>2

LEMMA MulSign ==
  ASSUME NEW x \in Int, NEW y \in Int
  PROVE  /\ x * y \in Int
         /\ (x >= 0 /\ y >= 0) \/ (x <= 0 /\ y <= 0) => x * y >= 0
         /\ (x >= 0 /\ y <= 0) \/ (x <= 0 /\ y >= 0) => x * y <= 0
         /\ (x > 0 /\ y > 0) \/ (x < 0 /\ y < 0) => x * y > 0
         /\ (x > 0 /\ y < 0) \/ (x < 0 /\ y > 0) => x * y < 0
         /\ (- x) * y = - (x * y) /\ x * (- y) = - (x * y)
         /\ x = 0 \/ y = 0 <=> x * y = 0
OBVIOUS

\* The widths: 128 bits hold something, and one is no tie.
LEMMA Widths ==
  /\ Half \in Nat /\ MaxI \in Nat /\ MinI \in Int /\ MaxI >= 1 /\ MinI = - MaxI - 1
  /\ I64 \subseteq Int
  /\ MaxUWide \in Nat /\ MaxUWide > 1
<1>1. Half \in Nat /\ Half > 1
  BY HalfAssumption
<1>2. Half * Half \in Nat /\ Half * Half >= 1
  BY <1>1, MulSign
<1>3. 4 * Half * Half = 4 * (Half * Half)
  BY <1>1
<1>4. MaxUWide \in Nat /\ MaxUWide > 1
  BY <1>2, <1>3 DEF MaxUWide
<1>5. QED
  BY <1>1, <1>4 DEF MaxI, MinI, I64

LEMMA DivMod ==
  ASSUME NEW p \in Nat, NEW d \in Nat \ {0}
  PROVE  /\ p \div d \in Nat /\ p % d \in 0 .. (d - 1)
         /\ p = (p \div d) * d + (p % d)
<1>1. p % d \in 0 .. (d - 1)
  OBVIOUS
<1>2. p = d * (p \div d) + (p % d) /\ p \div d \in Int
  OBVIOUS
<1>3. p \div d >= 0
  <2>1. SUFFICES ASSUME p \div d <= -1 PROVE FALSE
    BY <1>2
  <2>2. (p \div d) * d <= (-1) * d
    BY <1>2, <2>1, MulMono
  <2>3. QED
    BY <1>1, <1>2, <2>2
<1>4. QED
  BY <1>1, <1>2, <1>3

\* The least number of a set; the library's SmallestNatural takes an operator.
LEMMA LeastOf ==
  ASSUME NEW D \in SUBSET Nat, D # {}
  PROVE  \E m \in D : \A k \in D : m <= k
<1> DEFINE T == {0 .. k : k \in D}
           R == StrictSubsetOrdering(Nat)
<1>1. T # {} /\ T \subseteq FiniteSubsetsOf(Nat)
  <2>1. \A k \in D : IsFiniteSet(0 .. k) /\ 0 .. k \in SUBSET Nat
    BY FS_Interval
  <2>2. QED
    BY <2>1 DEF FiniteSubsetsOf
<1>2. IsWellFoundedOn(R, FiniteSubsetsOf(Nat))
  BY FS_StrictSubsetOrderingWellFounded
<1>3. PICK X \in T : \A Y \in T : ~ (<<Y, X>> \in R)
  <2> HIDE DEF T, R
  <2>1. QED
    BY <1>1, <1>2, WFMin
<1>4. PICK m \in D : X = 0 .. m
  OBVIOUS
<1>5. ASSUME NEW k \in D, k < m PROVE FALSE
  <2>1. /\ 0 .. k \in SUBSET Nat /\ 0 .. m \in SUBSET Nat
        /\ 0 .. k \subseteq 0 .. m /\ m \in 0 .. m /\ m \notin 0 .. k
    BY <1>5
  <2>2. <<0 .. k, 0 .. m>> \in R
    BY <2>1 DEF StrictSubsetOrdering
  <2>3. QED
    BY <1>3, <1>4, <2>2
<1>6. QED
  BY <1>5

-----------------------------------------------------------------------------
(* The division of magnitudes.                                             *)

\* The direction of a mode, for a quotient of the given sign.
AwayFromZero(neg, rounding) ==
  \/ rounding = "floor" /\ neg
  \/ rounding = "ceil" /\ ~ neg

\* m is p / d rounded in that direction, to the nearest, or down.
IsMagnitude(m, p, d, neg, rounding) ==
  IF rounding = "nearest_away" THEN 2 * (m * d - p) <= d /\ 2 * (m * d - p) > - d
  ELSE IF AwayFromZero(neg, rounding) THEN (m - 1) * d < p /\ p <= m * d
  ELSE m * d <= p /\ p < (m + 1) * d

\* The saturating addition never saturates: the largest quotient has no
\* remainder.
LEMMA DivRoundBumps ==
  ASSUME NEW p \in Nat, NEW d \in Nat \ {0}, p <= MaxUWide, NEW neg, NEW rounding
  PROVE  /\ Bumps(p % d, d, neg, rounding) => DivRoundAbs(p, d, neg, rounding) = p \div d + 1
         /\ ~ Bumps(p % d, d, neg, rounding) => DivRoundAbs(p, d, neg, rounding) = p \div d
<1> DEFINE q == p \div d
           r == p % d
<1>1. q \in Nat /\ r \in 0 .. (d - 1) /\ p = q * d + r
  BY DivMod
<1>2. ASSUME Bumps(r, d, neg, rounding) PROVE q < MaxUWide
  <2>1. r # 0
    <3>1. r * 2 >= d \/ r # 0
      BY <1>2 DEF Bumps
    <3>2. QED
      BY <1>1, <3>1
  <2>2. d >= 2
    BY <1>1, <2>1
  <2>3. q * d >= q
    <3>1. q * d >= q * 1
      BY <1>1, MulMono
    <3>2. QED
      BY <1>1, <3>1
  <2>4. QED
    BY <1>1, <2>1, <2>3, Widths
<1>3. QED
  BY <1>2 DEF DivRoundAbs

LEMMA DivRoundIs ==
  ASSUME NEW p \in Nat, NEW d \in Nat \ {0}, p <= MaxUWide, NEW neg,
         NEW rounding \in Roundings
  PROVE  /\ DivRoundAbs(p, d, neg, rounding) \in Nat
         /\ IsMagnitude(DivRoundAbs(p, d, neg, rounding), p, d, neg, rounding)
<1> DEFINE q == p \div d
           r == p % d
           m == DivRoundAbs(p, d, neg, rounding)
<1>1. q \in Nat /\ r \in 0 .. (d - 1) /\ p = q * d + r
  BY DivMod
<1>2. /\ Bumps(r, d, neg, rounding) => m = q + 1
      /\ ~ Bumps(r, d, neg, rounding) => m = q
  BY DivRoundBumps
<1>3. (q + 1) * d = q * d + d /\ (q - 1) * d = q * d - d /\ q * d \in Nat
  BY <1>1
<1>4. m = q \/ m = q + 1
  BY <1>2
<1> HIDE DEF m, q, r
<1>5. m \in Nat
  BY <1>1, <1>4
<1> SUFFICES IsMagnitude(m, p, d, neg, rounding)
  BY <1>5 DEF m
<1>6. CASE rounding = "nearest_away"
  <2>1. Bumps(r, d, neg, rounding) <=> r * 2 >= d
    BY <1>6 DEF Bumps
  <2>2. 2 * (m * d - p) <= d /\ 2 * (m * d - p) > - d
    <3>1. CASE r * 2 >= d
      BY <1>1, <1>2, <1>3, <2>1, <3>1
    <3>2. CASE ~ (r * 2 >= d)
      BY <1>1, <1>2, <1>3, <2>1, <3>2
    <3>3. QED
      BY <3>1, <3>2
  <2>3. QED
    BY <1>6, <2>2 DEF IsMagnitude
<1>7. CASE rounding # "nearest_away" /\ AwayFromZero(neg, rounding)
  <2>1. Bumps(r, d, neg, rounding) <=> r # 0
    BY <1>7 DEF Bumps, AwayFromZero
  <2>2. (m - 1) * d < p /\ p <= m * d
    <3>1. CASE r # 0
      <4>1. m = q + 1 /\ m - 1 = q
        BY <1>1, <1>2, <2>1, <3>1
      <4>2. QED
        BY <1>1, <1>3, <3>1, <4>1
    <3>2. CASE r = 0
      BY <1>1, <1>2, <1>3, <2>1, <3>2
    <3>3. QED
      BY <3>1, <3>2
  <2>3. QED
    BY <1>7, <2>2 DEF IsMagnitude
<1>8. CASE rounding # "nearest_away" /\ ~ AwayFromZero(neg, rounding)
  <2>1. ~ Bumps(r, d, neg, rounding)
    BY <1>8 DEF Bumps, AwayFromZero
  <2>2. m * d <= p /\ p < (m + 1) * d
    BY <1>1, <1>2, <1>3, <2>1
  <2>3. QED
    BY <1>8, <2>2 DEF IsMagnitude
<1>9. QED
  BY <1>6, <1>7, <1>8

-----------------------------------------------------------------------------
(* The sign put back.                                                      *)

LEMMA MagnitudeIs ==
  ASSUME NEW n \in Int
  PROVE  Magnitude(n) \in Nat /\ (n < 0 => Magnitude(n) = - n) /\ (n >= 0 => Magnitude(n) = n)
BY DEF Magnitude

LEMMA ZeroMagnitude ==
  ASSUME NEW m \in Nat, NEW d \in Nat \ {0}, NEW neg, NEW rounding,
         IsMagnitude(m, 0, d, neg, rounding)
  PROVE  m = 0
<1>1. SUFFICES ASSUME m >= 1 PROVE FALSE
  OBVIOUS
<1>2. m * d >= d /\ (m - 1) * d >= 0 /\ m * d \in Int /\ (m - 1) * d \in Int
  <2>1. m * d >= 1 * d /\ (m - 1) * d >= 0 * d
    BY <1>1, MulMono
  <2>2. QED
    BY <2>1
<1>3. QED
  BY <1>2 DEF IsMagnitude

\* The tick of a mode, in terms of the product of tick and denominator.
LEMMA TickFrom ==
  ASSUME NEW t \in Int, NEW n \in Int, NEW d \in Nat \ {0}, NEW rounding \in Roundings,
         NEW e \in Int, e = t * d,
         rounding = "floor" => e <= n /\ n < e + d,
         rounding = "ceil" => e - d < n /\ n <= e,
         rounding = "toward_zero" =>
           t * n >= 0 /\ Magnitude(e) - Magnitude(n) <= 0 /\ Magnitude(e) - Magnitude(n) > - d,
         rounding = "nearest_away" =>
           /\ t * n >= 0
           /\ 2 * (Magnitude(e) - Magnitude(n)) <= d /\ 2 * (Magnitude(e) - Magnitude(n)) > - d
  PROVE  IsTick(t, n, d, rounding)
<1>1. (t + 1) * d = e + d /\ (t - 1) * d = e - d
  OBVIOUS
<1>2. CASE rounding = "floor"
  BY <1>1, <1>2 DEF IsTick
<1>3. CASE rounding = "ceil"
  BY <1>1, <1>3 DEF IsTick
<1>4. CASE rounding = "toward_zero"
  BY <1>4 DEF IsTick
<1>5. CASE rounding = "nearest_away"
  BY <1>5 DEF IsTick
<1>6. QED
  BY <1>2, <1>3, <1>4, <1>5 DEF Roundings

LEMMA PositiveTick ==
  ASSUME NEW m \in Nat, NEW p \in Nat, NEW d \in Nat \ {0}, NEW rounding \in Roundings,
         IsMagnitude(m, p, d, FALSE, rounding)
  PROVE  IsTick(m, p, d, rounding)
<1> DEFINE e == m * d
<1>1. e \in Nat /\ m * p >= 0 /\ (m - 1) * d = e - d /\ (m + 1) * d = e + d
  BY MulSign
<1>2. Magnitude(e) = e /\ Magnitude(p) = p
  <2> HIDE DEF e
  <2>1. QED
    BY <1>1, MagnitudeIs
<1>3. /\ rounding = "floor" => e <= p /\ p < e + d
      /\ rounding = "ceil" => e - d < p /\ p <= e
      /\ rounding = "toward_zero" => e <= p /\ p < e + d
      /\ rounding = "nearest_away" => 2 * (e - p) <= d /\ 2 * (e - p) > - d
  BY <1>1 DEF IsMagnitude, AwayFromZero
<1>4. e \in Int /\ e = m * d
  BY <1>1
<1> HIDE DEF e
<1>5. /\ rounding = "toward_zero" => e - p <= 0 /\ e - p > - d
  BY <1>1, <1>3
<1>6. QED
  BY <1>1, <1>2, <1>3, <1>4, <1>5, TickFrom

LEMMA NegativeTick ==
  ASSUME NEW m \in Nat, NEW p \in Nat, NEW d \in Nat \ {0}, NEW rounding \in Roundings,
         IsMagnitude(m, p, d, TRUE, rounding)
  PROVE  IsTick(- m, - p, d, rounding)
<1> DEFINE e == m * d
<1>1. e \in Nat /\ (m - 1) * d = e - d /\ (m + 1) * d = e + d
  BY MulSign
<1>2. (- m) * d = - e /\ (- m) * (- p) >= 0
  BY MulSign
<1>3. Magnitude(- e) = e /\ Magnitude(- p) = p
  <2> HIDE DEF e
  <2>1. QED
    BY <1>1 DEF Magnitude
<1>4. /\ rounding = "ceil" => e <= p /\ p < e + d
      /\ rounding = "floor" => e - d < p /\ p <= e
      /\ rounding = "toward_zero" => e <= p /\ p < e + d
      /\ rounding = "nearest_away" => 2 * (e - p) <= d /\ 2 * (e - p) > - d
  BY <1>1 DEF IsMagnitude, AwayFromZero
<1> HIDE DEF e
<1>5. /\ rounding = "toward_zero" => e - p <= 0 /\ e - p > - d
      /\ rounding = "floor" => - e <= - p /\ - p < - e + d
      /\ rounding = "ceil" => - e - d < - p /\ - p <= - e
  BY <1>1, <1>4
<1>6. - e \in Int /\ - e = (- m) * d /\ - m \in Int /\ - p \in Int
  BY <1>1, <1>2
<1>7. QED
  BY <1>2, <1>3, <1>4, <1>5, <1>6, TickFrom

-----------------------------------------------------------------------------
(* A whole rescale.                                                        *)

LEMMA FactorIs ==
  ASSUME NEW from \in Rational, NEW to \in Rational
  PROVE  LET f == Factor(from, to)
             n == from.num * to.den
             d == from.den * to.num
         IN  /\ n \in Int /\ d \in Int /\ f.num \in Int /\ f.den \in Nat
             /\ d >= 0 => f.num = n /\ f.den = d
             /\ d < 0 => f.num = - n /\ f.den = - d
<1>1. /\ from.num \in Int /\ from.den \in Int /\ to.num \in Int /\ to.den \in Int
  BY Widths DEF Rational
<1> DEFINE n == from.num * to.den
           d == from.den * to.num
<1>2. n \in Int /\ d \in Int
  BY <1>1, MulSign
<1>3. Exact("/", from, to) = [num |-> n, den |-> d]
  BY DEF Exact, Fraction
<1> HIDE DEF n, d
<1>4. Factor(from, to) = IF d < 0 THEN [num |-> - n, den |-> - d] ELSE [num |-> n, den |-> d]
  BY <1>3 DEF Factor, SignNormalized, Fraction
<1>5. QED
  <2>1. CASE d < 0
    BY <1>2, <1>4, <2>1 DEF n, d
  <2>2. CASE d >= 0
    BY <1>2, <1>4, <2>2 DEF n, d
  <2>3. QED
    BY <1>2, <2>1, <2>2

\* The magnitude that is divided, and the sign it lost.
LEMMA ProductIs ==
  ASSUME NEW value \in Int, NEW f, f.num \in Int
  PROVE  /\ Product(value, f) \in Nat /\ value * f.num \in Int
         /\ Negative(value, f) => value * f.num = - Product(value, f)
         /\ ~ Negative(value, f) => value * f.num = Product(value, f)
<1> DEFINE u == Magnitude(value)
           v == Magnitude(f.num)
<1>1. u \in Nat /\ v \in Nat /\ Product(value, f) = u * v
  BY MagnitudeIs DEF Product
<1>2. u * v \in Nat /\ value * f.num \in Int
  BY <1>1, MulSign
<1>3. /\ value < 0 /\ f.num < 0 => value * f.num = u * v
      /\ value < 0 /\ f.num >= 0 => value * f.num = - (u * v)
      /\ value >= 0 /\ f.num < 0 => value * f.num = - (u * v)
      /\ value >= 0 /\ f.num >= 0 => value * f.num = u * v
  <2> DEFINE k == f.num
  <2>1. /\ value < 0 => u = - value
        /\ value >= 0 => u = value
        /\ k < 0 => v = - k
        /\ k >= 0 => v = k
    BY DEF Magnitude
  <2>2. /\ k \in Int /\ (- value) * (- k) = value * k
        /\ (- value) * k = - (value * k) /\ value * (- k) = - (value * k)
    BY MulSign
  <2>3. - (- (value * k)) = value * k
    BY <1>2
  <2> HIDE DEF u, v, k
  <2>4. QED
    BY <2>1, <2>2, <2>3 DEF k
<1>4. Negative(value, f) <=> (value < 0 /\ f.num >= 0) \/ (value >= 0 /\ f.num < 0)
  BY DEF Negative
<1>5. QED
  BY <1>1, <1>2, <1>3, <1>4

\* As long as the product is no wider than 128 bits, what is narrowed at the
\* end is the tick asked for.
LEMMA AnswerIs ==
  ASSUME NEW value \in I64, NEW from \in Rational, NEW to \in Rational,
         NEW rounding \in Roundings,
         Factor(from, to).den # 0, Product(value, Factor(from, to)) <= MaxUWide
  PROVE  \E t \in Int :
           /\ IsTick(t, value * Factor(from, to).num, Factor(from, to).den, rounding)
           /\ RescaleRnd(value, from, to, rounding) = Saturate(t)
           /\ rounding = "nearest_away" =>
                RescaleChecked(value, from, to) = IF t \in I64 THEN {t} ELSE None
<1> DEFINE f == Factor(from, to)
           p == Product(value, f)
           m == DivRoundAbs(p, f.den, Negative(value, f), rounding)
           t == Signed(Negative(value, f) /\ p # 0, m)
<1>1. value \in Int /\ f.num \in Int /\ f.den \in Nat \ {0}
  BY FactorIs, Widths
<1>2. /\ p \in Nat /\ p <= MaxUWide /\ value * f.num \in Int
      /\ Negative(value, f) => value * f.num = - p
      /\ ~ Negative(value, f) => value * f.num = p
  <2> HIDE DEF f
  <2>1. QED
    BY <1>1, ProductIs DEF f
<1>3. RescaleRnd(value, from, to, rounding) = Saturate(t)
  BY <1>1, <1>2, Widths DEF RescaleRnd
<1>4. ASSUME rounding = "nearest_away"
      PROVE  RescaleChecked(value, from, to) = IF t \in I64 THEN {t} ELSE None
  BY <1>1, <1>2, <1>4 DEF RescaleChecked
<1>5. m \in Nat /\ IsMagnitude(m, p, f.den, Negative(value, f), rounding)
  <2> HIDE DEF f, p
  <2>1. QED
    BY <1>1, <1>2, DivRoundIs
<1>6. p = 0 => m = 0
  <2> HIDE DEF f, p, m
  <2>1. QED
    BY <1>1, <1>5, ZeroMagnitude
<1> HIDE DEF f, p, m, t
<1>7. CASE Negative(value, f)
  <2>1. t = - m
    BY <1>5, <1>6, <1>7 DEF t, Signed
  <2>2. IsMagnitude(m, p, f.den, TRUE, rounding)
    BY <1>5, <1>7 DEF IsMagnitude, AwayFromZero
  <2>3. IsTick(t, value * f.num, f.den, rounding)
    BY <1>1, <1>2, <1>5, <1>7, <2>1, <2>2, NegativeTick
  <2>4. t \in Int
    BY <1>5, <2>1
  <2>5. QED
    BY <1>3, <1>4, <2>3, <2>4 DEF f
<1>8. CASE ~ Negative(value, f)
  <2>1. t = m
    BY <1>8 DEF t, Signed
  <2>2. IsMagnitude(m, p, f.den, FALSE, rounding)
    BY <1>5, <1>8 DEF IsMagnitude, AwayFromZero
  <2>3. IsTick(t, value * f.num, f.den, rounding)
    BY <1>1, <1>2, <1>5, <1>8, <2>1, <2>2, PositiveTick
  <2>4. t \in Int
    BY <1>5, <2>1
  <2>5. QED
    BY <1>3, <1>4, <2>3, <2>4 DEF f
<1>9. QED
  BY <1>7, <1>8

-----------------------------------------------------------------------------
(* Ticks of one denominator: they lie around what they round, in order.    *)

\* The modes by the sign of what is rounded, e being the tick times d.
LEMMA TickAbove ==
  ASSUME NEW t \in Int, NEW n \in Int, NEW d \in Nat \ {0}, NEW rounding \in Roundings,
         IsTick(t, n, d, rounding), n >= 0,
         NEW e \in Int, e = t * d
  PROVE  /\ rounding \in {"floor", "toward_zero"} => e <= n /\ n < e + d
         /\ rounding = "ceil" => e - d < n /\ n <= e
         /\ rounding = "nearest_away" => 2 * e - 2 * n <= d /\ 2 * n - 2 * e < d
<1>1. (t + 1) * d = e + d /\ (t - 1) * d = e - d
  OBVIOUS
<1>2. ASSUME t * n >= 0, n # 0 PROVE e >= 0
  <2>1. t >= 0
    <3>1. t < 0 => t * n < 0
      BY <1>2, MulSign
    <3>2. QED
      BY <1>2, <3>1
  <2>2. QED
    BY <2>1, MulSign
<1>3. CASE rounding = "floor"
  BY <1>1, <1>3 DEF IsTick
<1>4. CASE rounding = "ceil"
  BY <1>1, <1>4 DEF IsTick
<1>5. CASE rounding = "toward_zero"
  <2>1. t * n >= 0 /\ Magnitude(e) - n <= 0 /\ Magnitude(e) - n > - d
    BY <1>5 DEF IsTick, Magnitude
  <2>2. CASE n = 0
    BY <1>5, <2>1, <2>2 DEF Magnitude
  <2>3. CASE n # 0
    BY <1>2, <1>5, <2>1, <2>3 DEF Magnitude
  <2>4. QED
    BY <2>2, <2>3
<1>6. CASE rounding = "nearest_away"
  <2>1. t * n >= 0 /\ 2 * (Magnitude(e) - n) <= d /\ 2 * (Magnitude(e) - n) > - d
    BY <1>6 DEF IsTick, Magnitude
  <2>2. CASE n = 0
    <3>1. t = 0
      <4>1. SUFFICES ASSUME t # 0 PROVE FALSE
        OBVIOUS
      <4>2. e >= d \/ e <= - d
        <5>1. t >= 1 => t * d >= 1 * d
          BY MulMono
        <5>2. t <= -1 => t * d <= (-1) * d
          BY MulMono
        <5>3. QED
          BY <4>1, <5>1, <5>2
      <4>3. QED
        BY <2>1, <2>2, <4>2 DEF Magnitude
    <3>2. e = 0
      BY <3>1
    <3>3. QED
      BY <1>6, <2>2, <3>2
  <2>3. CASE n # 0
    BY <1>2, <1>6, <2>1, <2>3 DEF Magnitude
  <2>4. QED
    BY <2>2, <2>3
<1>7. QED
  BY <1>3, <1>4, <1>5, <1>6 DEF Roundings

LEMMA TickBelow ==
  ASSUME NEW t \in Int, NEW n \in Int, NEW d \in Nat \ {0}, NEW rounding \in Roundings,
         IsTick(t, n, d, rounding), n < 0,
         NEW e \in Int, e = t * d
  PROVE  /\ rounding = "floor" => e <= n /\ n < e + d
         /\ rounding \in {"ceil", "toward_zero"} => e - d < n /\ n <= e
         /\ rounding = "nearest_away" => 2 * e - 2 * n < d /\ 2 * n - 2 * e <= d
<1>1. (t + 1) * d = e + d /\ (t - 1) * d = e - d
  OBVIOUS
<1>2. ASSUME t * n >= 0 PROVE e <= 0
  <2>1. t <= 0
    <3>1. t > 0 => t * n < 0
      BY MulSign
    <3>2. QED
      BY <1>2, <3>1
  <2>2. QED
    BY <2>1, MulSign
<1>3. CASE rounding = "floor"
  BY <1>1, <1>3 DEF IsTick
<1>4. CASE rounding = "ceil"
  BY <1>1, <1>4 DEF IsTick
<1>5. CASE rounding = "toward_zero"
  <2>1. t * n >= 0 /\ Magnitude(e) + n <= 0 /\ Magnitude(e) + n > - d
    BY <1>5 DEF IsTick, Magnitude
  <2>2. QED
    BY <1>2, <1>5, <2>1 DEF Magnitude
<1>6. CASE rounding = "nearest_away"
  <2>1. t * n >= 0 /\ 2 * (Magnitude(e) + n) <= d /\ 2 * (Magnitude(e) + n) > - d
    BY <1>6 DEF IsTick, Magnitude
  <2>2. QED
    BY <1>2, <1>6, <2>1 DEF Magnitude
<1>7. QED
  BY <1>3, <1>4, <1>5, <1>6 DEF Roundings

\* Rounding is monotonic, in every mode, and so a tick is the only one.
LEMMA TickOrder ==
  ASSUME NEW d \in Nat \ {0}, NEW rounding \in Roundings,
         NEW t \in Int, NEW n \in Int, IsTick(t, n, d, rounding),
         NEW u \in Int, NEW m \in Int, IsTick(u, m, d, rounding),
         n <= m
  PROVE  t <= u
<1> DEFINE e == t * d
           g == u * d
<1>1. e \in Int /\ g \in Int
  BY MulSign
<1>2. SUFFICES ASSUME u + 1 <= t PROVE FALSE
  OBVIOUS
<1>3. g + d <= e
  <2>1. (u + 1) * d <= t * d
    BY <1>2, MulMono
  <2>2. QED
    BY <2>1
<1>4. e = t * d /\ g = u * d
  OBVIOUS
<1> HIDE DEF e, g
<1>5. CASE n >= 0 /\ m >= 0
  BY <1>1, <1>3, <1>4, <1>5, TickAbove DEF Roundings
<1>6. CASE n < 0 /\ m >= 0
  BY <1>1, <1>3, <1>4, <1>6, TickAbove, TickBelow DEF Roundings
<1>7. CASE n < 0 /\ m < 0
  BY <1>1, <1>3, <1>4, <1>7, TickBelow DEF Roundings
<1>8. QED
  BY <1>5, <1>6, <1>7

\* A whole number of ticks is its own tick.
LEMMA TickExact ==
  ASSUME NEW t \in Int, NEW d \in Nat \ {0}, NEW rounding \in Roundings
  PROVE  IsTick(t, t * d, d, rounding)
<1>1. t * d \in Int /\ Magnitude(t * d) - Magnitude(t * d) = 0
  BY MulSign, MagnitudeIs
<1>2. t * (t * d) >= 0
  <2>1. t >= 0 => t * d >= 0
    BY MulSign
  <2>2. t <= 0 => t * d <= 0
    BY MulSign
  <2>3. QED
    BY <1>1, <2>1, <2>2, MulSign
<1>3. QED
  BY <1>1, <1>2, TickFrom

-----------------------------------------------------------------------------
(* What a rescale answers.                                                 *)

LEMMA SaturateIs ==
  ASSUME NEW n \in Int
  PROVE  /\ Saturate(n) \in I64
         /\ n \in I64 => Saturate(n) = n
         /\ n > MaxI => Saturate(n) = MaxI
         /\ n < MinI => Saturate(n) = MinI
         /\ n \notin I64 => n > MaxI \/ n < MinI
         /\ \A m \in Int : n <= m => Saturate(n) <= Saturate(m)
BY Widths DEF Saturate, I64

\* The answer is the tick, or an end of the range with the value beyond it;
\* and then the end itself is not the nearest tick.
LEMMA SaturatedTick ==
  ASSUME NEW t \in Int, NEW n \in Int, NEW d \in Nat \ {0}, NEW rounding \in Roundings,
         IsTick(t, n, d, rounding)
  PROVE  /\ \/ IsTick(Saturate(t), n, d, rounding)
            \/ Saturate(t) = MaxI /\ n > MaxI * d
            \/ Saturate(t) = MinI /\ n < MinI * d
         /\ rounding = "nearest_away" /\ t \notin I64 => ~ IsTick(Saturate(t), n, d, rounding)
<1>1. MaxI \in Int /\ MinI \in Int
  BY Widths
<1>2. \A k \in Int : IsTick(k, k * d, d, rounding) /\ k * d \in Int
  BY TickExact, MulSign
<1>3. ASSUME t > MaxI PROVE n > MaxI * d
  <2>1. n <= MaxI * d => t <= MaxI
    BY <1>1, <1>2, TickOrder
  <2>2. QED
    BY <1>1, <1>2, <1>3, <2>1
<1>4. ASSUME t < MinI PROVE n < MinI * d
  <2>1. MinI * d <= n => MinI <= t
    BY <1>1, <1>2, TickOrder
  <2>2. QED
    BY <1>1, <1>2, <1>4, <2>1
<1>5. t \notin I64 => ~ IsTick(Saturate(t), n, d, rounding)
  <2>1. SUFFICES ASSUME t \notin I64, IsTick(Saturate(t), n, d, rounding) PROVE FALSE
    OBVIOUS
  <2>2. Saturate(t) \in Int /\ Saturate(t) # t
    BY <2>1, SaturateIs, Widths
  <2>3. t <= Saturate(t) /\ Saturate(t) <= t
    BY <2>1, <2>2, TickOrder
  <2>4. QED
    BY <2>2, <2>3
<1>6. QED
  BY <1>3, <1>4, <1>5, SaturateIs

\* A factor above zero keeps the order of what it rescales, also where the
\* product is too wide.
LEMMA RescaleOrder ==
  ASSUME NEW u \in I64, NEW v \in I64, u <= v,
         NEW from \in Rational, NEW to \in Rational, NEW rounding \in Roundings,
         Factor(from, to).den # 0, Factor(from, to).num > 0
  PROVE  RescaleRnd(u, from, to, rounding) <= RescaleRnd(v, from, to, rounding)
<1> DEFINE f == Factor(from, to)
           answer(k) == RescaleRnd(k, from, to, rounding)
<1>1. u \in Int /\ v \in Int /\ f.num \in Int /\ f.num > 0 /\ f.den \in Nat \ {0}
  BY FactorIs, Widths
<1>2. u * f.num <= v * f.num
  <2> HIDE DEF f
  <2>1. QED
    BY <1>1, MulMono
<1>3. \A k \in {u, v} :
        /\ Product(k, f) \in Nat /\ k * f.num \in Int
        /\ k < 0 => Negative(k, f) /\ k * f.num = - Product(k, f)
        /\ k >= 0 => ~ Negative(k, f) /\ k * f.num = Product(k, f)
  <2> HIDE DEF f
  <2>1. \A k \in {u, v} : Negative(k, f) <=> k < 0
    BY <1>1 DEF Negative
  <2>2. QED
    BY <1>1, <2>1, ProductIs
<1>4. \A k \in {u, v} : Product(k, f) > MaxUWide => answer(k) = IF k < 0 THEN MinI ELSE MaxI
  <2>1. \A k \in {u, v} : Negative(k, f) <=> k < 0
    BY <1>1, <1>3
  <2>2. QED
    BY <1>1, <2>1 DEF RescaleRnd
<1>5. \A k \in {u, v} : Product(k, f) <= MaxUWide =>
        \E t \in Int : IsTick(t, k * f.num, f.den, rounding) /\ answer(k) = Saturate(t)
  BY <1>1, AnswerIs
<1>6. MaxI \in Int /\ MinI \in Int /\ MaxUWide \in Nat
  BY Widths
<1> HIDE DEF answer, f
<1>7. \A k \in {u, v} : answer(k) \in Int /\ MinI <= answer(k) /\ answer(k) <= MaxI
  <2>1. \A t \in Int : Saturate(t) \in Int /\ MinI <= Saturate(t) /\ Saturate(t) <= MaxI
    BY SaturateIs, Widths DEF I64
  <2>2. MinI <= MaxI
    BY Widths
  <2>3. QED
    BY <1>3, <1>4, <1>5, <1>6, <2>1, <2>2
<1>8. CASE Product(v, f) > MaxUWide
  <2>1. CASE v >= 0
    <3>1. answer(v) = MaxI
      BY <1>1, <1>4, <1>8, <2>1
    <3>2. answer(u) <= MaxI
      BY <1>7
    <3>3. QED
      BY <3>1, <3>2 DEF answer
  <2>2. CASE v < 0
    <3>1. u < 0 /\ Product(u, f) > MaxUWide
      BY <1>1, <1>2, <1>3, <1>6, <1>8, <2>2
    <3>2. QED
      BY <1>4, <1>6, <1>7, <1>8, <2>2, <3>1 DEF answer
  <2>3. QED
    BY <1>1, <2>1, <2>2 DEF answer
<1>9. CASE Product(v, f) <= MaxUWide /\ Product(u, f) > MaxUWide
  <2>1. u < 0
    BY <1>1, <1>2, <1>3, <1>6, <1>9
  <2>2. QED
    BY <1>4, <1>7, <1>9, <2>1 DEF answer
<1>10. CASE Product(v, f) <= MaxUWide /\ Product(u, f) <= MaxUWide
  <2>1. PICK t \in Int : IsTick(t, u * f.num, f.den, rounding) /\ answer(u) = Saturate(t)
    BY <1>5, <1>10
  <2>2. PICK s \in Int : IsTick(s, v * f.num, f.den, rounding) /\ answer(v) = Saturate(s)
    BY <1>5, <1>10
  <2>3. t <= s
    BY <1>1, <1>2, <1>3, <2>1, <2>2, TickOrder
  <2>4. QED
    BY <2>1, <2>2, <2>3, SaturateIs DEF answer
<1>11. QED
  BY <1>3, <1>6, <1>8, <1>9, <1>10

-----------------------------------------------------------------------------
(* The client.                                                             *)

LEMMA FractionsAreRational ==
  /\ Fractions \subseteq Rational
  /\ Values \subseteq I64 /\ Others \subseteq I64
  /\ \A r \in Rational : r.num \in Int /\ r.den \in Int
BY OperandsAssumption, Widths DEF Fractions, Rational

LEMMA RatioIsFactor == Ratio = Factor(a, b)
BY DEF Ratio, Factor

\* The sign of the denominator does not matter to how wide the product is.
LEMMA RoomyProduct ==
  ASSUME NEW value \in I64, NEW from \in Rational, NEW to \in Rational,
         Roomy(value, from, to)
  PROVE  Product(value, Factor(from, to)) <= MaxUWide
<1> DEFINE n == from.num * to.den
<1>1. n \in Int /\ Factor(from, to).num \in {n, - n}
  BY FactorIs
<1>2. Exact("/", from, to).num = n
  BY DEF Exact, Fraction
<1> HIDE DEF n
<1>3. Magnitude(Factor(from, to).num) = Magnitude(n)
  BY <1>1 DEF Magnitude
<1>4. QED
  BY <1>2, <1>3 DEF Roomy, Product

\* Once a call is answered nothing happens any more, so that what an answer
\* satisfies when it is given holds from then on.
LEMMA MoveRounds ==
  ASSUME a \in Fractions, b \in Fractions, NEW value \in Values, NEW rounding \in Roundings,
         Defined, Roomy(value, a, b)
  PROVE  LET ticks == RescaleRnd(value, a, b, rounding)
             checked == RescaleChecked(value, a, b)
         IN  /\ RightTick(ticks, value, rounding)
             /\ rounding = "nearest_away" =>
                  IF checked # None THEN checked = {ticks}
                  ELSE ~ IsTick(ticks, value * Ratio.num, Ratio.den, rounding)
<1> DEFINE n == value * Ratio.num
           d == Ratio.den
<1>1. a \in Rational /\ b \in Rational /\ value \in I64
  BY FractionsAreRational
<1>2. /\ Ratio = Factor(a, b) /\ d # 0
      /\ Product(value, Factor(a, b)) <= MaxUWide
  BY <1>1, RatioIsFactor, RoomyProduct DEF Defined
<1>3. d \in Nat \ {0} /\ n \in Int
  BY <1>1, <1>2, FactorIs, Widths, MulSign
<1>4. PICK t \in Int :
        /\ IsTick(t, n, d, rounding)
        /\ RescaleRnd(value, a, b, rounding) = Saturate(t)
        /\ rounding = "nearest_away" =>
             RescaleChecked(value, a, b) = IF t \in I64 THEN {t} ELSE None
  BY <1>1, <1>2, AnswerIs
<1> HIDE DEF n, d
<1>5. /\ \/ IsTick(Saturate(t), n, d, rounding)
         \/ Saturate(t) = MaxI /\ n > MaxI * d
         \/ Saturate(t) = MinI /\ n < MinI * d
      /\ rounding = "nearest_away" /\ t \notin I64 => ~ IsTick(Saturate(t), n, d, rounding)
  BY <1>3, <1>4, SaturatedTick
<1>6. RightTick(Saturate(t), value, rounding)
  BY <1>5 DEF RightTick, n, d
<1>7. ASSUME rounding = "nearest_away"
      PROVE  IF RescaleChecked(value, a, b) # None
               THEN RescaleChecked(value, a, b) = {Saturate(t)}
               ELSE ~ IsTick(Saturate(t), n, d, rounding)
  <2>1. CASE t \in I64
    BY <1>4, <1>7, <2>1, SaturateIs DEF None
  <2>2. CASE t \notin I64
    BY <1>4, <1>5, <1>7, <2>2
  <2>3. QED
    BY <2>1, <2>2
<1>8. QED
  BY <1>4, <1>6, <1>7 DEF n, d

\* Moving a tick of the second base to the first, where the answer is exact or
\* nearest: the first base's own ticks stay on their side of it.
LEMMA MovedBack ==
  ASSUME a \in Fractions, b \in Fractions, NEW other \in I64, NEW k \in I64,
         a.num > 0, a.den > 0, b.num > 0, b.den > 0, Roomy(other, b, a)
  PROVE  /\ RescaleRnd(other, b, a, "nearest_away") \in I64
         /\ k * (b.den * a.num) >= other * (b.num * a.den) =>
              k >= RescaleRnd(other, b, a, "nearest_away")
         /\ k * (b.den * a.num) <= other * (b.num * a.den) =>
              k <= RescaleRnd(other, b, a, "nearest_away")
<1> DEFINE n == other * (b.num * a.den)
           d == b.den * a.num
           moved == RescaleRnd(other, b, a, "nearest_away")
<1>1. a \in Rational /\ b \in Rational /\ other \in Int /\ k \in Int
      /\ a.num \in Int /\ a.den \in Int /\ b.num \in Int /\ b.den \in Int
  BY FractionsAreRational, Widths
<1>2. b.den * a.num > 0 /\ b.den * a.num \in Int /\ b.num * a.den \in Int
  BY <1>1, MulSign
<1>3. Factor(b, a).num = b.num * a.den /\ Factor(b, a).den = b.den * a.num
  BY <1>1, <1>2, FactorIs
<1>4. n \in Int /\ d \in Nat \ {0}
  BY <1>1, <1>2, MulSign
<1>5. PICK t \in Int : IsTick(t, n, d, "nearest_away") /\ moved = Saturate(t)
  <2>1. Product(other, Factor(b, a)) <= MaxUWide
    BY <1>1, RoomyProduct
  <2>2. Factor(b, a).den # 0 /\ "nearest_away" \in Roundings
    BY <1>2, <1>3 DEF Roundings
  <2>3. \E t \in Int :
          /\ IsTick(t, other * Factor(b, a).num, Factor(b, a).den, "nearest_away")
          /\ RescaleRnd(other, b, a, "nearest_away") = Saturate(t)
    BY <1>1, <2>1, <2>2, AnswerIs
  <2>4. QED
    BY <1>3, <2>3
<1> HIDE DEF n, d, moved
<1>6. IsTick(k, k * d, d, "nearest_away") /\ k * d \in Int /\ "nearest_away" \in Roundings
  <2>1. k * d \in Int
    BY <1>1, <1>4, MulSign
  <2>2. "nearest_away" \in Roundings
    BY DEF Roundings
  <2>3. QED
    BY <1>1, <1>4, <2>1, <2>2, TickExact
<1>7. Saturate(k) = k
  BY <1>1, SaturateIs
<1>8. k * d >= n => k >= moved
  <2>1. k * d >= n => t <= k
    BY <1>1, <1>4, <1>5, <1>6, TickOrder
  <2>2. QED
    BY <1>1, <1>5, <1>7, <2>1, SaturateIs
<1>9. k * d <= n => k <= moved
  <2>1. k * d <= n => k <= t
    BY <1>1, <1>4, <1>5, <1>6, TickOrder
  <2>2. QED
    BY <1>1, <1>5, <1>7, <2>1, SaturateIs
<1>10. moved \in I64
  BY <1>5, SaturateIs
<1>11. QED
  BY <1>8, <1>9, <1>10 DEF n, d, moved

\* The difference of two timestamps has the sign of the time between them.
LEMMA ElapsesInOrder ==
  ASSUME a \in Fractions, b \in Fractions, NEW value \in Values, NEW other \in Others,
         a.num > 0, a.den > 0, b.num > 0, b.den > 0, Roomy(other, b, a)
  PROVE  LET ahead == value * a.num * b.den - other * b.num * a.den
         IN  \A d \in Difference(value, a, other, b) : /\ ahead >= 0 => d >= 0
                                                       /\ ahead <= 0 => d <= 0
<1> DEFINE moved == RescaleRnd(other, b, a, "nearest_away")
           n == other * (b.num * a.den)
           m == value * (b.den * a.num)
<1>1. /\ value \in I64 /\ value \in Int /\ other \in I64 /\ other \in Int
      /\ a.num \in Int /\ a.den \in Int /\ b.num \in Int /\ b.den \in Int
  BY FractionsAreRational, Widths
<1>2. /\ moved \in I64
      /\ m >= n => value >= moved
      /\ m <= n => value <= moved
  BY <1>1, MovedBack
<1>3. /\ value * a.num * b.den = m /\ other * b.num * a.den = n
      /\ m \in Int /\ n \in Int
  BY <1>1
<1>4. ASSUME NEW d \in Difference(value, a, other, b)
      PROVE  d = value - moved
  BY <1>4 DEF Difference, SubTicks, None
<1>5. moved \in Int
  BY <1>2, Widths
<1> HIDE DEF moved, n, m
<1>6. QED
  BY <1>1, <1>2, <1>3, <1>4, <1>5

\* The nearest tick is no farther from the value than half a tick.
LEMMA NearestTick ==
  ASSUME NEW t \in Int, NEW n \in Int, NEW d \in Nat \ {0}, IsTick(t, n, d, "nearest_away")
  PROVE  /\ t * d \in Int
         /\ 2 * (t * d - n) <= d /\ 2 * (n - t * d) <= d
<1> DEFINE g == t * d
<1>1. g \in Int /\ (t > 0 => g > 0) /\ (t < 0 => g < 0) /\ (t = 0 => g = 0)
  BY MulSign
<1>2. /\ t * n >= 0
      /\ 2 * (Magnitude(g) - Magnitude(n)) <= d /\ 2 * (Magnitude(g) - Magnitude(n)) > - d
  BY DEF IsTick
<1>3. (t > 0 => n >= 0) /\ (t < 0 => n <= 0)
  BY <1>2, MulSign
<1> HIDE DEF g
<1>4. 2 * (g - n) <= d /\ 2 * (n - g) <= d
  <2>1. CASE t > 0
    <3>1. Magnitude(g) = g /\ Magnitude(n) = n
      BY <1>1, <1>3, <2>1, MagnitudeIs
    <3>2. QED
      BY <1>1, <1>2, <3>1
  <2>2. CASE t < 0
    <3>1. Magnitude(g) = - g
      BY <1>1, <2>2, MagnitudeIs
    <3>2. Magnitude(n) = - n
      BY <1>3, <2>2, MagnitudeIs
    <3>3. QED
      BY <1>1, <1>2, <3>1, <3>2
  <2>3. CASE t = 0
    <3>1. Magnitude(g) = 0
      BY <1>1, <2>3, MagnitudeIs
    <3>2. Magnitude(n) = n \/ Magnitude(n) = - n
      BY MagnitudeIs
    <3>3. Magnitude(n) \in Nat
      BY MagnitudeIs
    <3>4. g = 0 /\ 2 * (0 - Magnitude(n)) > - d /\ 2 * n < d /\ 2 * (- n) < d
      BY <1>1, <1>2, <2>3, <3>1, <3>2, <3>3
    <3>5. QED
      BY <3>4
  <2>4. QED
    BY <2>1, <2>2, <2>3
<1>5. QED
  BY <1>1, <1>4 DEF g

\* What the checked form answers is a nearest tick.
LEMMA CheckedNear ==
  ASSUME NEW value \in I64, NEW from \in Rational, NEW to \in Rational,
         NEW t \in RescaleChecked(value, from, to)
  PROVE  LET n == Factor(from, to).num
             d == Factor(from, to).den
         IN  /\ n \in Int /\ d \in Nat \ {0} /\ t \in Int /\ t * d \in Int
             /\ 2 * (t * d - value * n) <= d /\ 2 * (value * n - t * d) <= d
<1> DEFINE n == Factor(from, to).num
           d == Factor(from, to).den
<1>1. value \in Int /\ "nearest_away" \in Roundings
  BY Widths DEF Roundings
<1>2. d # 0 /\ Product(value, Factor(from, to)) <= MaxUWide
  BY DEF RescaleChecked, None
<1>3. n \in Int /\ d \in Nat \ {0}
  BY <1>2, FactorIs
<1>4. IsTick(t, value * n, d, "nearest_away") /\ t \in I64
  <2>1. PICK s \in Int :
          /\ IsTick(s, value * n, d, "nearest_away")
          /\ RescaleChecked(value, from, to) = IF s \in I64 THEN {s} ELSE None
    BY <1>1, <1>2, AnswerIs
  <2>2. s \in I64 /\ t = s
    BY <2>1 DEF None
  <2>3. QED
    BY <2>1, <2>2
<1>5. t \in Int /\ value * n \in Int
  BY <1>1, <1>3, <1>4, Widths, MulSign
<1> HIDE DEF n, d
<1>6. /\ t * d \in Int
      /\ 2 * (t * d - value * n) <= d /\ 2 * (value * n - t * d) <= d
  BY <1>3, <1>4, <1>5, NearestTick
<1>7. QED
  BY <1>3, <1>5, <1>6 DEF n, d

\* Two errors of half a tick against one of half a tick: one tick at most.
LEMMA ErrorsAdd ==
  ASSUME NEW s \in Int, NEW u \in Int, NEW t \in Int, NEW d \in Nat \ {0},
         NEW x \in Int, NEW y \in Int,
         2 * (s * d - x) <= d, 2 * (x - s * d) <= d,
         2 * (u * d - y) <= d, 2 * (y - u * d) <= d,
         2 * (t * d - (x + y)) <= d, 2 * ((x + y) - t * d) <= d
  PROVE  Magnitude((s + u) - t) <= 1
<1> DEFINE k == (s + u) - t
<1>1. k \in Int /\ k * d = s * d + u * d - t * d
  OBVIOUS
<1>2. s * d \in Int /\ u * d \in Int /\ t * d \in Int /\ k * d \in Int
  BY MulSign
<1> HIDE DEF k
<1>3. 2 * (k * d) <= 3 * d /\ 2 * (k * d) >= - (3 * d)
  <2> DEFINE p == s * d
             q == u * d
             r == t * d
  <2>1. /\ 2 * (p - x) <= d /\ 2 * (x - p) <= d /\ 2 * (q - y) <= d /\ 2 * (y - q) <= d
        /\ 2 * (r - (x + y)) <= d /\ 2 * ((x + y) - r) <= d
        /\ p \in Int /\ q \in Int /\ r \in Int /\ k * d = p + q - r
    BY <1>1, <1>2
  <2> HIDE DEF p, q, r
  <2>2. QED
    BY <2>1, <1>2
<1>4. ASSUME k >= 2 PROVE FALSE
  <2>1. 2 * d <= k * d
    BY <1>1, <1>4, MulMono
  <2>2. QED
    BY <1>2, <1>3, <2>1
<1>5. ASSUME k <= 0 - 2 PROVE FALSE
  <2>1. k * d <= (0 - 2) * d
    BY <1>1, <1>5, MulMono
  <2>2. (0 - 2) * d = 0 - 2 * d
    OBVIOUS
  <2>3. QED
    BY <1>2, <1>3, <2>1, <2>2
<1>6. k <= 1 /\ 0 - k <= 1
  BY <1>1, <1>4, <1>5
<1>7. Magnitude(k) <= 1
  BY <1>1, <1>6, MagnitudeIs
<1>8. QED
  BY <1>7 DEF k

\* A packet whose start and duration are moved one by one ends next to where its
\* end would be moved.
LEMMA PartsMoved ==
  ASSUME NEW pts \in I64, NEW length \in I64, NEW from \in Rational, NEW to \in Rational,
         NEW start \in RescaleChecked(pts, from, to),
         NEW duration \in RescaleChecked(length, from, to),
         NEW old \in EndPts(pts, length), NEW end \in EndPts(start, duration),
         NEW moved \in RescaleChecked(old, from, to)
  PROVE  Magnitude(end - moved) <= 1
<1> DEFINE n == Factor(from, to).num
           d == Factor(from, to).den
<1>1. old = pts + length /\ old \in I64 /\ end = start + duration
  BY DEF EndPts, None
<1>2. pts \in Int /\ length \in Int
  BY Widths
<1>3. /\ n \in Int /\ d \in Nat \ {0} /\ start \in Int /\ start * d \in Int
      /\ 2 * (start * d - pts * n) <= d /\ 2 * (pts * n - start * d) <= d
  BY CheckedNear
<1>4. /\ duration \in Int /\ duration * d \in Int
      /\ 2 * (duration * d - length * n) <= d /\ 2 * (length * n - duration * d) <= d
  BY CheckedNear
<1>5. /\ moved \in Int /\ moved * d \in Int
      /\ 2 * (moved * d - old * n) <= d /\ 2 * (old * n - moved * d) <= d
  BY <1>1, CheckedNear
<1> HIDE DEF n, d
<1>6. pts * n \in Int /\ length * n \in Int /\ old * n = pts * n + length * n
  BY <1>1, <1>2, <1>3, MulSign
<1> DEFINE x == pts * n
           y == length * n
<1>7. /\ x \in Int /\ y \in Int
      /\ 2 * (start * d - x) <= d /\ 2 * (x - start * d) <= d
      /\ 2 * (duration * d - y) <= d /\ 2 * (y - duration * d) <= d
      /\ 2 * (moved * d - (x + y)) <= d /\ 2 * ((x + y) - moved * d) <= d
  BY <1>3, <1>4, <1>5, <1>6
<1> HIDE DEF x, y
<1>8. Magnitude((start + duration) - moved) <= 1
  BY <1>3, <1>4, <1>5, <1>7, ErrorsAdd
<1>9. QED
  BY <1>1, <1>8

\* What rounds to t ticks of a finer base is what t rounds to on the way back:
\* the rounding moved it by at most half a tick of the finer one.
LEMMA BackTick ==
  ASSUME NEW t \in Int, NEW v \in Int, NEW n \in Int, NEW d \in Nat \ {0},
         Magnitude(n) >= d, IsTick(t, v * n, d, "nearest_away")
  PROVE  /\ n > 0 => IsTick(v, t * d, n, "nearest_away")
         /\ n < 0 => IsTick(v, t * (- d), - n, "nearest_away")
         /\ n # 0
<1> DEFINE e == v * n
           g == t * d
           x == Magnitude(g) - Magnitude(e)
<1>1. e \in Int /\ g \in Int /\ t * v \in Int /\ x \in Int /\ n # 0
  BY MulSign, MagnitudeIs
<1>2. t * e >= 0 /\ 2 * x <= d /\ 2 * x > - d
  BY DEF IsTick
<1>3. t * e = (t * v) * n /\ v * g = (t * v) * d
  OBVIOUS
<1>4. (n > 0 => v * g >= 0) /\ (n < 0 => v * g <= 0)
  <2> DEFINE w == t * v
  <2>1. w * n >= 0
    BY <1>2, <1>3
  <2>2. w \in Int
    BY <1>1
  <2> HIDE DEF w
  <2>3. (n > 0 => w >= 0) /\ (n < 0 => w <= 0)
    BY <2>1, <2>2, MulSign
  <2>4. (n > 0 => w * d >= 0) /\ (n < 0 => w * d <= 0)
    BY <2>2, <2>3, MulSign
  <2>5. QED
    BY <1>3, <2>4 DEF w
<1>5. 2 * x < Magnitude(n)
  <2>1. CASE Magnitude(n) > d
    BY <1>1, <1>2, <2>1, MagnitudeIs
  <2>2. CASE Magnitude(n) = d
    <3> DEFINE y == Magnitude(t) - Magnitude(v)
    <3>1. Magnitude(g) = Magnitude(t) * d /\ Magnitude(e) = Magnitude(v) * d
      <4>1. \A i \in Int : Magnitude(i * d) = Magnitude(i) * d
        <5>1. SUFFICES ASSUME NEW i \in Int PROVE Magnitude(i * d) = Magnitude(i) * d
          OBVIOUS
        <5>2. CASE i >= 0
          BY <5>2, MulSign DEF Magnitude
        <5>3. CASE i < 0
          BY <5>3, MulSign DEF Magnitude
        <5>4. QED
          BY <5>2, <5>3
      <4>2. e = v * d \/ e = - (v * d)
        BY <2>2, MulSign DEF Magnitude
      <4>3. Magnitude(e) = Magnitude(v * d)
        BY <4>2, MulSign DEF Magnitude
      <4>4. QED
        BY <4>1, <4>3
    <3>2. y \in Int /\ x = y * d
      BY <3>1, MagnitudeIs
    <3>3. (y >= 1 => y * d >= d) /\ (y <= 0 => y * d <= 0) /\ y * d \in Int
      <4>1. y >= 1 => y * d >= 1 * d
        BY <3>2, MulMono
      <4>2. QED
        BY <3>2, <4>1, MulSign
    <3> HIDE DEF x, y
    <3>4. QED
      BY <1>2, <2>2, <3>2, <3>3
  <2>3. QED
    BY <2>1, <2>2, MagnitudeIs
<1>6. 2 * (Magnitude(e) - Magnitude(g)) <= Magnitude(n)
      /\ 2 * (Magnitude(e) - Magnitude(g)) > - Magnitude(n)
  <2>1. Magnitude(e) \in Int /\ Magnitude(g) \in Int /\ Magnitude(n) \in Int
    BY <1>1, MagnitudeIs
  <2> HIDE DEF e, g
  <2>2. QED
    BY <1>2, <1>5, <2>1
<1>7. /\ v * (- n) = - e /\ t * (- d) = - g /\ v * (- g) = - (v * g)
      /\ Magnitude(- e) = Magnitude(e) /\ Magnitude(- g) = Magnitude(g)
  <2>1. v * (- n) = - e /\ t * (- d) = - g /\ v * (- g) = - (v * g)
    BY <1>1, MulSign
  <2>2. \A i \in Int : Magnitude(- i) = Magnitude(i)
    BY DEF Magnitude
  <2>3. QED
    BY <1>1, <2>1, <2>2
<1>8. ASSUME n > 0 PROVE IsTick(v, g, n, "nearest_away")
  <2>1. n \in Nat \ {0} /\ "nearest_away" \in Roundings /\ Magnitude(n) = n
    BY <1>8 DEF Roundings, Magnitude
  <2>2. e = v * n
    OBVIOUS
  <2> HIDE DEF e, g
  <2>3. QED
    BY <1>1, <1>4, <1>6, <1>8, <2>1, <2>2, TickFrom
<1>9. ASSUME n < 0 PROVE IsTick(v, - g, - n, "nearest_away")
  <2>1. - n \in Nat \ {0} /\ "nearest_away" \in Roundings /\ Magnitude(n) = - n
    BY <1>9 DEF Roundings, Magnitude
  <2>2. v * (- g) >= 0
    <3>1. v * g \in Int
      BY <1>1, MulSign
    <3>2. QED
      BY <1>4, <1>7, <1>9, <3>1
  <2>3. - e = v * (- n) /\ - e \in Int /\ - g \in Int
    BY <1>1, <1>7
  <2> HIDE DEF e, g
  <2>4. QED
    BY <1>6, <1>7, <2>1, <2>2, <2>3, TickFrom
<1>10. QED
  BY <1>1, <1>7, <1>8, <1>9

\* The only tick in range is the answer.
LEMMA OnlyAnswer ==
  ASSUME NEW value \in I64, NEW from \in Rational, NEW to \in Rational,
         NEW rounding \in Roundings,
         Factor(from, to).den # 0, Product(value, Factor(from, to)) <= MaxUWide,
         NEW k \in I64, IsTick(k, value * Factor(from, to).num, Factor(from, to).den, rounding)
  PROVE  RescaleRnd(value, from, to, rounding) = k
<1> DEFINE n == value * Factor(from, to).num
           d == Factor(from, to).den
<1>1. n \in Int /\ d \in Nat \ {0} /\ k \in Int
  BY FactorIs, Widths, MulSign
<1>2. PICK t \in Int :
        IsTick(t, n, d, rounding) /\ RescaleRnd(value, from, to, rounding) = Saturate(t)
  BY AnswerIs
<1>3. IsTick(k, n, d, rounding)
  OBVIOUS
<1> HIDE DEF n, d
<1>4. t = k
  <2>1. t <= k /\ k <= t
    BY <1>1, <1>2, <1>3, TickOrder
  <2>2. QED
    BY <1>1, <2>1
<1>5. QED
  BY <1>1, <1>2, <1>4, SaturateIs

\* Turning a conversion round turns its factor upside down.
LEMMA FactorBack ==
  ASSUME NEW from \in Rational, NEW to \in Rational
  PROVE  LET n == Factor(from, to).num
             d == Factor(from, to).den
         IN  /\ n > 0 => Factor(to, from).num = d /\ Factor(to, from).den = n
             /\ n < 0 => Factor(to, from).num = - d /\ Factor(to, from).den = - n
<1> DEFINE x == from.num * to.den
           y == from.den * to.num
<1>1. /\ x \in Int /\ y \in Int
      /\ y >= 0 => Factor(from, to).num = x /\ Factor(from, to).den = y
      /\ y < 0 => Factor(from, to).num = - x /\ Factor(from, to).den = - y
  BY FactorIs
<1>2. to.num * from.den = y /\ to.den * from.num = x
  BY FractionsAreRational
<1>3. /\ x >= 0 => Factor(to, from).num = y /\ Factor(to, from).den = x
      /\ x < 0 => Factor(to, from).num = - y /\ Factor(to, from).den = - x
  <2>1. LET f == Factor(to, from)
            n == to.num * from.den
            d == to.den * from.num
        IN  /\ d >= 0 => f.num = n /\ f.den = d
            /\ d < 0 => f.num = - n /\ f.den = - d
    BY FactorIs
  <2>2. QED
    BY <1>2, <2>1
<1> HIDE DEF x, y
<1>4. QED
  BY <1>1, <1>3

\* A timestamp that was moved to a base at least as fine comes back as it was.
LEMMA ThereAndBack ==
  ASSUME a \in Fractions, b \in Fractions, NEW value \in Values,
         Magnitude(Ratio.num) >= Ratio.den,
         NEW t \in RescaleChecked(value, a, b), Roomy(t, b, a)
  PROVE  RescaleRnd(t, b, a, "nearest_away") = value
<1> DEFINE n == Factor(a, b).num
           d == Factor(a, b).den
<1>1. a \in Rational /\ b \in Rational /\ value \in I64 /\ value \in Int
      /\ "nearest_away" \in Roundings
  BY FractionsAreRational, Widths DEF Roundings
<1>2. d # 0 /\ Product(value, Factor(a, b)) <= MaxUWide
  BY DEF RescaleChecked, None
<1>3. n \in Int /\ d \in Nat \ {0} /\ Magnitude(n) >= d
  BY <1>1, <1>2, FactorIs, RatioIsFactor
<1>4. IsTick(t, value * n, d, "nearest_away") /\ t \in I64
  <2>1. PICK s \in Int :
          /\ IsTick(s, value * n, d, "nearest_away")
          /\ RescaleChecked(value, a, b) = IF s \in I64 THEN {s} ELSE None
    BY <1>1, <1>2, AnswerIs
  <2>2. s \in I64 /\ t = s
    BY <2>1 DEF None
  <2>3. QED
    BY <2>1, <2>2
<1>5. t \in Int
  BY <1>4, Widths
<1>6. /\ n > 0 => IsTick(value, t * d, n, "nearest_away")
      /\ n < 0 => IsTick(value, t * (- d), - n, "nearest_away")
      /\ n # 0
  <2> HIDE DEF n, d
  <2>1. QED
    BY <1>1, <1>3, <1>4, <1>5, BackTick
<1>7. /\ n > 0 => Factor(b, a).num = d /\ Factor(b, a).den = n
      /\ n < 0 => Factor(b, a).num = - d /\ Factor(b, a).den = - n
  BY <1>1, FactorBack
<1>8. Product(t, Factor(b, a)) <= MaxUWide
  BY <1>1, <1>4, RoomyProduct
<1> HIDE DEF n, d
<1>9. /\ IsTick(value, t * Factor(b, a).num, Factor(b, a).den, "nearest_away")
      /\ Factor(b, a).den # 0
  BY <1>3, <1>6, <1>7
<1>10. QED
  BY <1>1, <1>4, <1>8, <1>9, OnlyAnswer

\* In one base, moving a timestamp to it leaves it where it is.
LEMMA SameBase ==
  ASSUME a \in Fractions, b \in Fractions, NEW other \in I64,
         a = b, a.num > 0, a.den > 0, Roomy(other, b, a)
  PROVE  RescaleRnd(other, b, a, "nearest_away") = other
<1> DEFINE moved == RescaleRnd(other, b, a, "nearest_away")
<1>1. other * (b.den * a.num) = other * (b.num * a.den)
      /\ other * (b.num * a.den) \in Int
  BY FractionsAreRational, Widths, MulSign
<1>2. moved \in I64 /\ other >= moved /\ other <= moved
  BY <1>1, MovedBack
<1>3. moved \in Int /\ other \in Int
  BY <1>2, Widths
<1> HIDE DEF moved
<1>4. moved = other
  BY <1>2, <1>3
<1>5. QED
  BY <1>4 DEF moved

\* Every answer is in range, whatever the bases.
LEMMA RescaleInt ==
  ASSUME a \in Fractions, b \in Fractions, NEW other \in I64
  PROVE  RescaleRnd(other, b, a, "nearest_away") \in Int
<1> DEFINE f == Factor(b, a)
           p == Product(other, f)
<1>1. other \in Int /\ f.num \in Int /\ f.den \in Nat
  BY FractionsAreRational, FactorIs, Widths
<1>2. p \in Nat
  <2> HIDE DEF f
  <2>1. QED
    BY <1>1, ProductIs
<1>3. ASSUME f.den # 0, p <= MaxUWide
      PROVE  RescaleRnd(other, b, a, "nearest_away") \in Int
  <2>1. \E t \in Int : RescaleRnd(other, b, a, "nearest_away") = Saturate(t)
    BY <1>3, FractionsAreRational, AnswerIs DEF Roundings
  <2>2. QED
    BY <2>1, SaturateIs, Widths
<1>4. ASSUME f.den = 0 \/ p > MaxUWide
      PROVE  RescaleRnd(other, b, a, "nearest_away") \in {0, MinI, MaxI}
  BY <1>4 DEF RescaleRnd
<1>5. p <= MaxUWide \/ p > MaxUWide
  BY <1>2, Widths
<1>6. QED
  BY <1>3, <1>4, <1>5, Widths

-----------------------------------------------------------------------------
(* The order of fractions by value.                                        *)

LEMMA SignIs ==
  ASSUME NEW n \in Int
  PROVE  /\ Sign(n) \in {-1, 0, 1}
         /\ (n > 0 <=> Sign(n) = 1) /\ (n = 0 <=> Sign(n) = 0) /\ (n < 0 <=> Sign(n) = -1)
         /\ Sign(- n) = - Sign(n)
BY DEF Sign

\* A fraction whose sign is in its numerator, wider than an i64 it may be.
Normal == [num : Int, den : Nat]

LEMMA NormalIs ==
  ASSUME NEW x \in Rational
  PROVE  /\ SignNormalized(x) \in Normal
         /\ x.den >= 0 => SignNormalized(x) = [num |-> x.num, den |-> x.den]
         /\ x.den < 0 => SignNormalized(x) = [num |-> - x.num, den |-> - x.den]
<1>1. x.num \in Int /\ x.den \in Int /\ x = [num |-> x.num, den |-> x.den]
  BY Widths DEF Rational
<1>2. QED
  BY <1>1 DEF SignNormalized, Fraction, Normal

\* The comparison of two such fractions.
Order(s, t) ==
  IF s.den # 0 /\ t.den # 0 THEN Sign(s.num * t.den - t.num * s.den)
  ELSE Sign(Rank(s) - Rank(t))

LEMMA RankIs ==
  ASSUME NEW s \in Normal
  PROVE  /\ s.num \in Int /\ s.den \in Nat
         /\ s.den = 0 => Rank(s) \in {-2, 0, 2}
         /\ s.den # 0 => Rank(s) = Sign(s.num) /\ Rank(s) \in {-1, 0, 1}
BY SignIs DEF Rank, Normal

\* What the rank tells of a comparison, and where it decides it.
LEMMA OrderIs ==
  ASSUME NEW s \in Normal, NEW t \in Normal
  PROVE  /\ Order(s, t) \in {-1, 0, 1}
         /\ Order(s, t) = - Order(t, s)
         /\ s.den = 0 \/ t.den = 0 => Order(s, t) = Sign(Rank(s) - Rank(t))
         /\ Rank(s) < Rank(t) => Order(s, t) = -1
         /\ Rank(s) = 0 /\ Rank(t) = 0 => Order(s, t) = 0
         /\ Order(s, t) <= 0 => Rank(s) <= Rank(t)
<1>1. Rank(s) \in Int /\ Rank(t) \in Int
  BY RankIs
<1>2. CASE s.den = 0 \/ t.den = 0
  <2>1. Order(s, t) = Sign(Rank(s) - Rank(t)) /\ Order(t, s) = Sign(Rank(t) - Rank(s))
    BY <1>2 DEF Order
  <2>2. Rank(t) - Rank(s) = - (Rank(s) - Rank(t)) /\ Rank(s) - Rank(t) \in Int
    BY <1>1
  <2>3. Order(t, s) = - Order(s, t)
    BY <2>1, <2>2, SignIs
  <2>4. Order(s, t) \in {-1, 0, 1}
    BY <2>1, <2>2, SignIs
  <2>5. /\ Rank(s) < Rank(t) <=> Order(s, t) = -1
        /\ Rank(s) = Rank(t) <=> Order(s, t) = 0
    BY <1>1, <2>1, <2>2, SignIs
  <2>6. QED
    BY <1>1, <2>1, <2>3, <2>4, <2>5
<1>3. CASE s.den # 0 /\ t.den # 0
  <2> DEFINE p == s.num * t.den
             q == t.num * s.den
  <2>1. /\ s.num \in Int /\ t.num \in Int /\ s.den \in Nat \ {0} /\ t.den \in Nat \ {0}
        /\ Rank(s) = Sign(s.num) /\ Rank(t) = Sign(t.num)
    BY <1>3, RankIs
  <2>2. /\ p \in Int /\ q \in Int
        /\ (s.num > 0 => p > 0) /\ (s.num = 0 => p = 0) /\ (s.num < 0 => p < 0)
        /\ (t.num > 0 => q > 0) /\ (t.num = 0 => q = 0) /\ (t.num < 0 => q < 0)
    BY <2>1, MulSign
  <2>3. Order(s, t) = Sign(p - q) /\ Order(t, s) = Sign(q - p)
    BY <1>3 DEF Order
  <2> HIDE DEF p, q
  <2>4. q - p = - (p - q) /\ p - q \in Int
    BY <2>2
  <2>5. /\ Order(s, t) \in {-1, 0, 1} /\ Order(t, s) = - Order(s, t)
        /\ p < q <=> Order(s, t) = -1
        /\ p = q <=> Order(s, t) = 0
        /\ p <= q <=> Order(s, t) <= 0
    BY <2>2, <2>3, <2>4, SignIs
  <2>6. /\ Rank(s) \in {-1, 0, 1} /\ Rank(t) \in {-1, 0, 1}
        /\ (s.num > 0 <=> Rank(s) = 1) /\ (s.num = 0 <=> Rank(s) = 0)
        /\ (s.num < 0 <=> Rank(s) = -1)
        /\ (t.num > 0 <=> Rank(t) = 1) /\ (t.num = 0 <=> Rank(t) = 0)
        /\ (t.num < 0 <=> Rank(t) = -1)
    BY <2>1, SignIs
  <2>7. Rank(s) < Rank(t) => p < q
    BY <2>1, <2>2, <2>6
  <2>8. Rank(s) = 0 /\ Rank(t) = 0 => p = q
    BY <2>1, <2>2, <2>6
  <2>9. p <= q => Rank(s) <= Rank(t)
    BY <2>1, <2>2, <2>6
  <2>10. QED
    BY <1>3, <2>5, <2>7, <2>8, <2>9
<1>4. QED
  BY <1>2, <1>3

\* Three finite fractions: the products are compared over a common denominator.
LEMMA FiniteOrder ==
  ASSUME NEW s \in Normal, NEW t \in Normal, NEW u \in Normal,
         s.den # 0, t.den # 0, u.den # 0, Order(s, t) <= 0, Order(t, u) <= 0
  PROVE  /\ Order(s, u) <= 0
         /\ Order(s, u) = 0 => Order(s, t) = 0 /\ Order(t, u) = 0
<1> DEFINE st == s.num * t.den
           ts == t.num * s.den
           tu == t.num * u.den
           ut == u.num * t.den
           su == s.num * u.den
           us == u.num * s.den
<1>1. /\ s.num \in Int /\ t.num \in Int /\ u.num \in Int
      /\ s.den \in Nat \ {0} /\ t.den \in Nat \ {0} /\ u.den \in Nat \ {0}
  BY RankIs
<1>2. /\ st \in Int /\ ts \in Int /\ tu \in Int /\ ut \in Int /\ su \in Int /\ us \in Int
  BY <1>1, MulSign
<1>3. Order(s, t) = Sign(st - ts) /\ Order(t, u) = Sign(tu - ut) /\ Order(s, u) = Sign(su - us)
  BY DEF Order
<1>4. su * t.den = st * u.den /\ ts * u.den = tu * s.den /\ ut * s.den = us * t.den
  BY <1>1
<1> DEFINE sd == s.den
           td == t.den
           ud == u.den
<1>5. sd \in Nat \ {0} /\ td \in Nat \ {0} /\ ud \in Nat \ {0}
      /\ su * td = st * ud /\ ts * ud = tu * sd /\ ut * sd = us * td
  BY <1>1, <1>4
<1> HIDE DEF st, ts, tu, ut, su, us, sd, td, ud
<1>6. st <= ts /\ tu <= ut
  BY <1>2, <1>3, SignIs
<1>7. st * ud <= ts * ud /\ tu * sd <= ut * sd
  BY <1>2, <1>5, <1>6, MulMono
<1>8. /\ st * ud \in Int /\ ts * ud \in Int /\ ut * sd \in Int /\ su * td \in Int
      /\ us * td \in Int
  BY <1>2, <1>5, MulSign
<1>9. su * td <= us * td
  BY <1>5, <1>7, <1>8
<1>10. su <= us
  BY <1>2, <1>5, <1>9, MulCancel
<1>11. ASSUME su = us PROVE st = ts /\ tu = ut
  <2>1. ts * ud <= st * ud /\ ut * sd <= tu * sd
    BY <1>5, <1>7, <1>8, <1>11
  <2>2. ts <= st /\ ut <= tu
    BY <1>2, <1>5, <2>1, MulCancel
  <2>3. QED
    BY <1>2, <1>6, <2>2
<1>12. QED
  BY <1>2, <1>3, <1>10, <1>11, SignIs

LEMMA Transitive ==
  ASSUME NEW s \in Normal, NEW t \in Normal, NEW u \in Normal,
         Order(s, t) <= 0, Order(t, u) <= 0
  PROVE  /\ Order(s, u) <= 0
         /\ Order(s, u) = 0 => Order(s, t) = 0 /\ Order(t, u) = 0
<1>1. CASE s.den # 0 /\ t.den # 0 /\ u.den # 0
  BY <1>1, FiniteOrder
<1>2. CASE s.den = 0 \/ t.den = 0 \/ u.den = 0
  <2> DEFINE i == Rank(s)
             j == Rank(t)
             k == Rank(u)
  <2>1. /\ i \in Int /\ j \in Int /\ k \in Int
        /\ s.den = 0 => i \in {-2, 0, 2}
        /\ s.den # 0 => i \in {-1, 0, 1}
        /\ t.den = 0 => j \in {-2, 0, 2}
        /\ t.den # 0 => j \in {-1, 0, 1}
        /\ u.den = 0 => k \in {-2, 0, 2}
        /\ u.den # 0 => k \in {-1, 0, 1}
    BY RankIs
  <2>2. i <= j /\ j <= k
    BY OrderIs
  <2>3. CASE i < k
    BY <2>3, OrderIs
  <2>4. CASE i = k
    <3>1. i = j /\ j = k
      BY <2>1, <2>2, <2>4
    <3>2. ASSUME NEW x \in {s, t, u}, NEW y \in {s, t, u} PROVE Order(x, y) = 0
      <4>1. CASE x.den = 0 \/ y.den = 0
        <5>1. Rank(x) - Rank(y) = 0 /\ Order(x, y) = Sign(Rank(x) - Rank(y))
          BY <2>1, <3>1, <4>1, OrderIs
        <5>2. QED
          BY <5>1, SignIs
      <4>2. CASE x.den # 0 /\ y.den # 0
        <5>1. Rank(x) = 0 /\ Rank(y) = 0
          BY <1>2, <2>1, <3>1, <4>2
        <5>2. QED
          BY <5>1, OrderIs
      <4>3. QED
        BY <4>1, <4>2
    <3>3. QED
      BY <3>2
  <2>5. QED
    BY <2>1, <2>2, <2>3, <2>4
<1>3. QED
  BY <1>1, <1>2

\* A negated fraction is the negative one, though its terms may be others: a
\* numerator that has no negative leaves the sign to the denominator, and where
\* that has none either the fraction is one.
LEMMA NegateIs ==
  ASSUME NEW x \in Rational
  PROVE  LET s == SignNormalized(x)
             m == SignNormalized(Negate(x))
         IN  /\ m \in Normal
             /\ Rank(m) = - Rank(s)
             /\ \E k \in Nat \ {0} : s.den = k * m.den /\ (s.den # 0 => s.num = - (k * m.num))
<1> DEFINE s == SignNormalized(x)
           m == SignNormalized(Negate(x))
<1>1. /\ x.num \in Int /\ x.den \in Int /\ x.num >= MinI /\ x.den >= MinI
      /\ x.num <= MaxI /\ x.den <= MaxI
  BY Widths DEF Rational, I64
<1>2. s \in Normal
  BY NormalIs
<1>3. CASE x.num # MinI
  <2>1. m = [num |-> - s.num, den |-> s.den]
    <3>1. Negate(x) = [num |-> - x.num, den |-> x.den]
      BY <1>3 DEF Negate, Fraction
    <3>2. x = [num |-> x.num, den |-> x.den]
      BY DEF Rational
    <3>3. QED
      BY <1>1, <3>1, NormalIs DEF SignNormalized, Fraction
  <2>2. Sign(- s.num) = - Sign(s.num) /\ Sign(s.num) \in Int
    BY <1>2, RankIs, SignIs
  <2>3. Rank(m) = - Rank(s)
    BY <2>1, <2>2 DEF Rank
  <2>4. s.den = 1 * m.den /\ s.num = - (1 * m.num) /\ m \in Normal
    BY <1>2, <2>1 DEF Normal
  <2>5. QED
    BY <2>3, <2>4
<1>4. CASE x.num = MinI /\ x.den = 0
  <2>1. Negate(x) = [num |-> MaxI, den |-> 0]
    BY <1>4 DEF Negate, Fraction
  <2>2. m = [num |-> MaxI, den |-> 0] /\ s = [num |-> MinI, den |-> 0]
    <3>1. m = Negate(x)
      BY <2>1 DEF SignNormalized
    <3>2. s = [num |-> x.num, den |-> x.den]
      BY <1>1, <1>4, NormalIs
    <3>3. QED
      BY <1>4, <2>1, <3>1, <3>2
  <2>3. Sign(MaxI) = 1 /\ Sign(MinI) = -1
    BY Widths, SignIs
  <2>4. Rank(m) = - Rank(s)
    <3>1. Rank(m) = 2 * Sign(MaxI) /\ Rank(s) = 2 * Sign(MinI)
      BY <2>2 DEF Rank
    <3>2. Rank(m) = 2 * 1 /\ Rank(s) = 2 * (-1)
      BY <2>3, <3>1, Zenon
    <3> HIDE DEF m, s
    <3>3. Rank(m) = 2 /\ Rank(s) = 0 - 2
      BY <3>2
    <3>4. Rank(m) + Rank(s) = 0 /\ Rank(m) \in Int /\ Rank(s) \in Int
      BY <3>3
    <3>5. QED
      BY <3>4
  <2>5. m \in Normal /\ s.den = 1 * m.den
    BY <2>2, Widths DEF Normal
  <2>6. QED
    BY <2>2, <2>4, <2>5
<1>5. CASE x.num = MinI /\ x.den # 0 /\ x.den # MinI
  <2>1. Negate(x) = [num |-> MinI, den |-> - x.den]
    BY <1>5, Widths DEF Negate, Fraction
  <2>2. m = [num |-> - s.num, den |-> s.den]
    BY <1>1, <1>5, <2>1, NormalIs, Widths DEF SignNormalized, Fraction
  <2>3. Sign(- s.num) = - Sign(s.num) /\ Sign(s.num) \in Int
    BY <1>2, RankIs, SignIs
  <2>4. Rank(m) = - Rank(s)
    BY <2>2, <2>3 DEF Rank
  <2>5. s.den = 1 * m.den /\ s.num = - (1 * m.num) /\ m \in Normal
    BY <1>2, <2>2 DEF Normal
  <2>6. QED
    BY <2>4, <2>5
<1>6. CASE x.num = MinI /\ x.den = MinI
  <2>1. MinI # 0 /\ - MinI \in Nat \ {0} /\ MinI < 0
    BY Widths
  <2>2. Negate(x) = [num |-> -1, den |-> 1]
    BY <1>6, <2>1 DEF Negate, Fraction
  <2>3. m = [num |-> -1, den |-> 1] /\ s = [num |-> - MinI, den |-> - MinI]
    <3>1. m = Negate(x)
      BY <2>2 DEF SignNormalized
    <3>2. s = [num |-> - x.num, den |-> - x.den]
      BY <1>1, <1>6, <2>1, NormalIs
    <3>3. QED
      BY <1>6, <2>2, <3>1, <3>2
  <2>4. Rank(m) = -1 /\ Rank(s) = 1
    <3>1. Sign(-1) = -1 /\ Sign(- MinI) = 1
      BY <2>1, SignIs
    <3>2. QED
      BY <2>1, <2>3, <3>1 DEF Rank
  <2>5. s.den = (- MinI) * m.den /\ s.num = - ((- MinI) * m.num)
    BY <2>1, <2>3
  <2>6. m \in Normal
    BY <2>3 DEF Normal
  <2>7. QED
    BY <2>1, <2>4, <2>5, <2>6
<1>7. QED
  BY <1>3, <1>4, <1>5, <1>6

LEMMA NegateOrder ==
  ASSUME NEW x \in Rational, NEW y \in Rational
  PROVE  CmpValue(Negate(y), Negate(x)) = CmpValue(x, y)
<1> DEFINE s == SignNormalized(x)
           t == SignNormalized(y)
           m == SignNormalized(Negate(x))
           n == SignNormalized(Negate(y))
<1>1. CmpValue(x, y) = Order(s, t) /\ CmpValue(Negate(y), Negate(x)) = Order(n, m)
  BY DEF CmpValue, Order
<1>2. s \in Normal /\ t \in Normal /\ m \in Normal /\ n \in Normal
  BY NormalIs, NegateIs
<1>3. Rank(m) = - Rank(s) /\ Rank(n) = - Rank(t)
  BY NegateIs
<1>4. PICK k \in Nat \ {0} : s.den = k * m.den /\ (s.den # 0 => s.num = - (k * m.num))
  BY NegateIs
<1>5. PICK l \in Nat \ {0} : t.den = l * n.den /\ (t.den # 0 => t.num = - (l * n.num))
  BY NegateIs
<1> HIDE DEF s, t, m, n
<1>6. /\ s.num \in Int /\ s.den \in Nat /\ t.num \in Int /\ t.den \in Nat
      /\ m.num \in Int /\ m.den \in Nat /\ n.num \in Int /\ n.den \in Nat
      /\ Rank(s) \in Int /\ Rank(t) \in Int
  BY <1>2, RankIs
<1>7. (s.den = 0 <=> m.den = 0) /\ (t.den = 0 <=> n.den = 0)
  BY <1>4, <1>5, <1>6, MulSign
<1>8. CASE s.den = 0 \/ t.den = 0
  <2>1. Rank(n) - Rank(m) = Rank(s) - Rank(t)
    BY <1>3, <1>6
  <2>2. QED
    BY <1>1, <1>7, <1>8, <2>1 DEF Order
<1>9. CASE s.den # 0 /\ t.den # 0
  <2> DEFINE p == n.num * m.den
             q == m.num * n.den
             c == k * l
  <2>1. p \in Int /\ q \in Int /\ c \in Nat \ {0}
    BY <1>4, <1>5, <1>6, MulSign
  <2>2. s.num * t.den = - (c * q) /\ t.num * s.den = - (c * p)
    BY <1>4, <1>5, <1>6, <1>9
  <2>3. Order(s, t) = Sign(s.num * t.den - t.num * s.den) /\ Order(n, m) = Sign(p - q)
    BY <1>7, <1>9 DEF Order
  <2> HIDE DEF p, q, c
  <2>4. s.num * t.den - t.num * s.den = c * (p - q) /\ p - q \in Int
    BY <2>1, <2>2
  <2>5. Sign(c * (p - q)) = Sign(p - q)
    BY <2>1, <2>4, MulSign DEF Sign
  <2>6. QED
    BY <1>1, <2>3, <2>4, <2>5
<1>10. QED
  BY <1>8, <1>9

\* All a comparison promises, of any three fractions.
LEMMA Compared ==
  ASSUME NEW x \in Rational, NEW y \in Rational, NEW z \in Rational
  PROVE  /\ CmpValue(x, y) = - CmpValue(y, x)
         /\ CmpValue(x, y) <= 0 /\ CmpValue(y, z) <= 0 => CmpValue(x, z) <= 0
         /\ CmpValue(x, y) <= 0 /\ CmpValue(y, z) <= 0 /\ CmpValue(x, z) = 0 =>
              CmpValue(x, y) = 0 /\ CmpValue(y, z) = 0
         /\ CmpValue(Negate(y), Negate(x)) = CmpValue(x, y)
<1>1. \A v, w \in {x, y, z} : CmpValue(v, w) = Order(SignNormalized(v), SignNormalized(w))
  BY DEF CmpValue, Order
<1>2. \A v \in {x, y, z} : SignNormalized(v) \in Normal
  BY NormalIs
<1>3. CmpValue(x, y) = - CmpValue(y, x)
  BY <1>1, <1>2, OrderIs
<1>4. ASSUME CmpValue(x, y) <= 0, CmpValue(y, z) <= 0
      PROVE  /\ CmpValue(x, z) <= 0
             /\ CmpValue(x, z) = 0 => CmpValue(x, y) = 0 /\ CmpValue(y, z) = 0
  BY <1>1, <1>2, <1>4, Transitive
<1>5. QED
  BY <1>3, <1>4, NegateOrder

-----------------------------------------------------------------------------
(* Lowest terms.                                                           *)

Divides(d, n) == \E k \in Int : n = d * k

CommonDivisors(m, n) == {d \in Nat \ {0} : Divides(d, m) /\ Divides(d, n)}
Greatest(D) == CHOOSE d \in D : \A k \in D : k <= d

\* What a division leaves tells divisibility.
LEMMA DividesIs ==
  ASSUME NEW d \in Nat \ {0}, NEW n \in Int
  PROVE  /\ n % d = 0 <=> Divides(d, n)
         /\ \A k \in Int : n = d * k => n \div d = k
<1> DEFINE q == n \div d
           r == n % d
<1>1. q \in Int /\ r \in 0 .. (d - 1) /\ n = d * q + r
  OBVIOUS
<1> HIDE DEF q, r
<1>2. ASSUME NEW k \in Int, n = d * k PROVE r = 0 /\ q = k
  <2>1. d * (k - q) = d * k - d * q
    BY <1>1
  <2>2. (k - q) * d = r
    BY <1>1, <1>2, <2>1
  <2>3. k - q >= 0
    <3>1. ~ ((k - q) < 0)
      BY <1>1, <2>2, MulSign
    <3>2. QED
      BY <1>1, <3>1
  <2>4. ~ (k - q >= 1)
    <3>1. SUFFICES ASSUME k - q >= 1 PROVE FALSE
      OBVIOUS
    <3>2. 1 * d <= (k - q) * d
      BY <1>1, <3>1, MulMono
    <3>3. QED
      BY <1>1, <2>2, <3>2
  <2>5. k - q = 0
    BY <1>1, <2>3, <2>4
  <2>6. QED
    BY <1>1, <2>2, <2>5
<1>3. r = 0 => n = d * q
  BY <1>1
<1>4. QED
  BY <1>1, <1>2, <1>3 DEF q, r, Divides

\* Euclid's step keeps the common divisors.
LEMMA StepKeepsDivisors ==
  ASSUME NEW m \in Nat, NEW n \in Nat \ {0}
  PROVE  CommonDivisors(m, n) = CommonDivisors(n, m % n) /\ m % n \in Nat /\ m % n < n
<1> DEFINE q == m \div n
           r == m % n
<1>1. q \in Int /\ r \in 0 .. (n - 1) /\ m = n * q + r
  OBVIOUS
<1> HIDE DEF q, r
<1>2. ASSUME NEW d \in Nat \ {0}, Divides(d, n) PROVE Divides(d, m) <=> Divides(d, r)
  <2>1. PICK k \in Int : n = d * k
    BY <1>2 DEF Divides
  <2>2. n * q = d * (k * q)
    BY <1>1, <2>1
  <2>3. ASSUME NEW j \in Int, m = d * j PROVE Divides(d, r)
    <3>1. d * (j - k * q) = d * j - d * (k * q)
      BY <1>1
    <3>2. r = d * (j - k * q) /\ j - k * q \in Int
      BY <1>1, <2>2, <2>3, <3>1
    <3>3. QED
      BY <3>2 DEF Divides
  <2>4. ASSUME NEW j \in Int, r = d * j PROVE Divides(d, m)
    <3>1. d * (j + k * q) = d * j + d * (k * q)
      BY <1>1
    <3>2. m = d * (j + k * q) /\ j + k * q \in Int
      BY <1>1, <2>2, <2>4, <3>1
    <3>3. QED
      BY <3>2 DEF Divides
  <2>5. QED
    BY <2>3, <2>4 DEF Divides
<1>3. CommonDivisors(m, n) = CommonDivisors(n, r)
  BY <1>2 DEF CommonDivisors
<1>4. QED
  BY <1>1, <1>3 DEF r

\* A divisor of a number other than zero is at most that number.
LEMMA DivisorBound ==
  ASSUME NEW d \in Nat \ {0}, NEW n \in Nat \ {0}, Divides(d, n)
  PROVE  d <= n
<1>1. PICK k \in Int : n = d * k
  BY DEF Divides
<1>2. k >= 1
  <2>1. ~ (k <= 0)
    BY <1>1, MulSign
  <2>2. QED
    BY <2>1
<1>3. 1 * d <= k * d
  BY <1>2, MulMono
<1>4. QED
  BY <1>1, <1>3

\* Two numbers that are not both zero have a greatest common divisor.
LEMMA GreatestIs ==
  ASSUME NEW m \in Nat, NEW n \in Nat, m # 0 \/ n # 0
  PROVE  LET g == Greatest(CommonDivisors(m, n))
         IN  g \in CommonDivisors(m, n) /\ \A k \in CommonDivisors(m, n) : k <= g
<1> DEFINE D == CommonDivisors(m, n)
           bound == m + n
           E == {bound - d : d \in D}
<1>1. \A d \in D : d \in Nat \ {0} /\ d <= bound
  <2>1. \A d \in D : d \in Nat \ {0} /\ Divides(d, m) /\ Divides(d, n)
    BY DEF CommonDivisors
  <2>2. \A d \in D : (m # 0 => d <= m) /\ (n # 0 => d <= n)
    BY <2>1, DivisorBound
  <2>3. QED
    BY <2>1, <2>2
<1>2. 1 \in D
  <2>1. m = 1 * m /\ n = 1 * n
    OBVIOUS
  <2>2. QED
    BY <2>1 DEF CommonDivisors, Divides
<1> HIDE DEF D
<1>3. E \in SUBSET Nat /\ E # {}
  BY <1>1, <1>2
<1>4. PICK e \in E : \A k \in E : e <= k
  BY <1>3, LeastOf
<1>5. PICK g \in D : e = bound - g
  BY <1>4
<1>6. ASSUME NEW k \in D PROVE k <= g
  <2>1. bound - g <= bound - k
    BY <1>4, <1>5
  <2>2. bound \in Nat /\ k \in Nat /\ g \in Nat
    BY <1>1
  <2> HIDE DEF bound
  <2>3. QED
    BY <2>1, <2>2
<1>7. Greatest(D) \in D /\ \A k \in D : k <= Greatest(D)
  <2>1. \E d \in D : \A k \in D : k <= d
    BY <1>5, <1>6
  <2>2. QED
    BY <2>1, Zenon DEF Greatest
<1>8. QED
  BY <1>7 DEF D

\* At zero the greatest common divisor is the other number.
LEMMA GreatestAtZero ==
  ASSUME NEW m \in Nat \ {0}
  PROVE  Greatest(CommonDivisors(m, 0)) = m
<1>1. m \in CommonDivisors(m, 0)
  <2>1. m = m * 1 /\ 0 = m * 0
    OBVIOUS
  <2>2. QED
    BY <2>1 DEF CommonDivisors, Divides
<1>2. \A d \in CommonDivisors(m, 0) : d <= m /\ d \in Nat
  BY DivisorBound DEF CommonDivisors
<1> DEFINE D == CommonDivisors(m, 0)
           g == Greatest(D)
<1>3. g \in D /\ \A k \in D : k <= g
  BY GreatestIs
<1> HIDE DEF D, g
<1>4. m \in D /\ \A d \in D : d <= m /\ d \in Nat
  BY <1>1, <1>2 DEF D
<1>5. g = m
  BY <1>3, <1>4
<1>6. QED
  BY <1>5 DEF g, D

\* What gcd_i128 computes: the greatest common divisor, and 1 for two zeros.
GcdOf(m, n) == IF m = 0 /\ n = 0 THEN 1 ELSE Greatest(CommonDivisors(m, n))

LEMMA GcdSatisfied ==
  ASSUME NEW m \in Nat, NEW n \in Nat
  PROVE  GcdOf(m, n) = IF n # 0 THEN GcdOf(n, m % n) ELSE IF m = 0 THEN 1 ELSE m
<1>1. CASE n # 0
  BY <1>1, StepKeepsDivisors DEF GcdOf
<1>2. CASE n = 0
  BY <1>2, GreatestAtZero DEF GcdOf
<1>3. QED
  BY <1>1, <1>2

\* The loop's equation has that solution and, the second number falling from
\* turn to turn, no other.
LEMMA GcdIs ==
  ASSUME NEW m \in Nat, NEW n \in Nat
  PROVE  Gcd[<<m, n>>] = GcdOf(m, n)
<1> DEFINE Turned(g, p) == IF p[2] # 0 THEN g[<<p[2], p[1] % p[2]>>]
                         ELSE IF p[1] = 0 THEN 1 ELSE p[1]
           Turn(g) == g = [p \in Nat \X Nat |-> Turned(g, p)]
           known == [p \in Nat \X Nat |-> GcdOf(p[1], p[2])]
<1>1. Turn(known)
  <2>1. ASSUME NEW p \in Nat \X Nat PROVE GcdOf(p[1], p[2]) = Turned(known, p)
    <3>1. p[1] \in Nat /\ p[2] \in Nat
      OBVIOUS
    <3>2. CASE p[2] = 0
      BY <3>1, <3>2, GcdSatisfied
    <3>3. CASE p[2] # 0
      <4>1. p[1] % p[2] \in Nat
        BY <3>1, <3>3, StepKeepsDivisors
      <4>2. known[<<p[2], p[1] % p[2]>>] = GcdOf(p[2], p[1] % p[2])
        BY <3>1, <4>1
      <4>3. QED
        BY <3>1, <3>3, <4>2, GcdSatisfied
    <3>4. QED
      BY <3>2, <3>3
  <2> HIDE DEF Turned
  <2>2. QED
    BY <2>1
<1>2. Gcd = CHOOSE g : Turn(g)
  BY DEF Gcd
<1>3. Turn(Gcd)
  <2> HIDE DEF Turn
  <2>1. QED
    BY <1>1, <1>2
<1>4. ASSUME NEW i \in Nat, NEW j \in Nat
      PROVE  Gcd[<<i, j>>] = IF j # 0 THEN Gcd[<<j, i % j>>] ELSE IF i = 0 THEN 1 ELSE i
  <2>1. <<i, j>> \in Nat \X Nat
    OBVIOUS
  <2> HIDE DEF Turned
  <2>2. Gcd[<<i, j>>] = Turned(Gcd, <<i, j>>)
    BY <1>3, <2>1
  <2>3. QED
    BY <2>2 DEF Turned
<1> HIDE DEF Turn, Turned, known
<1> DEFINE Bad == {j \in Nat : \E i \in Nat : Gcd[<<i, j>>] # GcdOf(i, j)}
<1>5. SUFFICES ASSUME Bad # {} PROVE FALSE
  OBVIOUS
<1>6. PICK j \in Bad : \A k \in Bad : j <= k
  BY <1>5, LeastOf
<1>7. PICK i \in Nat : Gcd[<<i, j>>] # GcdOf(i, j)
  BY <1>6
<1>8. j \in Nat
  BY <1>6
<1>9. CASE j = 0
  BY <1>4, <1>7, <1>9, GcdSatisfied
<1>10. CASE j # 0
  <2>1. i % j \in Nat /\ i % j < j
    BY <1>8, <1>10, StepKeepsDivisors
  <2>2. Gcd[<<j, i % j>>] = GcdOf(j, i % j)
    BY <1>6, <1>8, <2>1
  <2>3. QED
    BY <1>4, <1>7, <1>8, <1>10, <2>2, GcdSatisfied
<1>11. QED
  BY <1>9, <1>10

\* The greatest common divisor divides both, into quotients that share none.
LEMMA GcdDivides ==
  ASSUME NEW m \in Nat, NEW n \in Nat, m # 0 \/ n # 0
  PROVE  /\ Gcd[<<m, n>>] \in Nat \ {0}
         /\ Divides(Gcd[<<m, n>>], m) /\ Divides(Gcd[<<m, n>>], n)
         /\ \A d \in Nat \ {0} : Divides(d, m) /\ Divides(d, n) => d <= Gcd[<<m, n>>]
<1>1. LET g == Greatest(CommonDivisors(m, n))
      IN  g \in CommonDivisors(m, n) /\ \A k \in CommonDivisors(m, n) : k <= g
  BY GreatestIs
<1>2. Gcd[<<m, n>>] = Greatest(CommonDivisors(m, n))
  BY GcdIs DEF GcdOf
<1>3. QED
  BY <1>1, <1>2 DEF CommonDivisors

\* No number from 2 on divides both terms.
Coprime(p, q) == \A d \in Nat \ {0, 1} : ~ (Divides(d, p) /\ Divides(d, q))

\* The terms of the fraction, the sign on the numerator, are the lowest terms
\* times what they have in common.
LEMMA LowestIs ==
  ASSUME NEW n \in Int, NEW d \in Int, n # 0 \/ d # 0
  PROVE  LET s == SignNormalized(Fraction(n, d))
             l == Lowest(Fraction(n, d))
         IN  /\ l = Fraction(l.num, l.den)
             /\ l.num \in Int /\ l.den \in Nat /\ (l.den = 0 <=> d = 0)
             /\ \E g \in Nat \ {0} : s.num = g * l.num /\ s.den = g * l.den
             /\ Coprime(l.num, l.den)
<1> DEFINE s == SignNormalized(Fraction(n, d))
           x == s.num
           y == s.den
           m == Magnitude(x)
           g == Gcd[<<m, y>>]
<1>1. x \in Int /\ y \in Nat /\ m \in Nat /\ (x # 0 \/ y # 0) /\ (m # 0 \/ y # 0)
      /\ (y = 0 <=> d = 0) /\ (m = x \/ m = - x)
  BY DEF SignNormalized, Fraction, Magnitude
<1>2. Lowest(Fraction(n, d)) = Fraction(x \div g, y \div g)
  BY DEF Lowest
<1> HIDE DEF s, x, y, m
<1>3. /\ g \in Nat \ {0} /\ Divides(g, m) /\ Divides(g, y)
      /\ \A k \in Nat \ {0} : Divides(k, m) /\ Divides(k, y) => k <= g
  BY <1>1, GcdDivides
<1> HIDE DEF g
<1>4. PICK i \in Int : m = g * i
  BY <1>3 DEF Divides
<1>5. PICK j \in Int : y = g * j
  BY <1>3 DEF Divides
<1>6. PICK p \in Int : x = g * p /\ (p = i \/ p = - i)
  <2>1. g * (- i) = - (g * i) /\ - i \in Int
    BY <1>3
  <2>2. QED
    BY <1>1, <1>4, <2>1
<1>7. x \div g = p /\ y \div g = j
  BY <1>1, <1>3, <1>5, <1>6, DividesIs
<1>8. j \in Nat /\ (j = 0 <=> y = 0)
  <2>1. ~ (j < 0)
    BY <1>1, <1>3, <1>5, MulSign
  <2>2. j = 0 <=> g * j = 0
    BY <1>3, MulSign
  <2>3. QED
    BY <1>5, <2>1, <2>2
<1>9. Coprime(p, j)
  <2> SUFFICES ASSUME NEW k \in Nat \ {0, 1}, Divides(k, p), Divides(k, j) PROVE FALSE
    BY DEF Coprime
  <2>1. PICK u \in Int : p = k * u
    BY DEF Divides
  <2>2. PICK v \in Int : j = k * v
    BY DEF Divides
  <2>3. PICK w \in Int : i = k * w
    <3>1. k * (- u) = - (k * u) /\ - u \in Int
      OBVIOUS
    <3>2. i = p \/ i = - p
      BY <1>6
    <3>3. i = k * u \/ i = k * (- u)
      BY <2>1, <3>1, <3>2
    <3>4. QED
      BY <3>1, <3>3
  <2>4. m = (g * k) * w /\ y = (g * k) * v
    BY <1>3, <1>4, <1>5, <2>2, <2>3
  <2>5. g * k \in Nat \ {0}
    BY <1>3, MulSign
  <2>6. Divides(g * k, m) /\ Divides(g * k, y)
    BY <2>4 DEF Divides
  <2>7. g * k <= g
    BY <1>3, <2>5, <2>6
  <2>8. 2 * g <= k * g
    BY <1>3, MulMono
  <2>9. QED
    BY <1>3, <2>7, <2>8
<1>10. QED
  BY <1>1, <1>2, <1>3, <1>5, <1>6, <1>7, <1>8, <1>9 DEF Fraction, s, x, y

\* A fraction in lowest terms is the one of the smallest terms: no other of the
\* same value has a smaller denominator.
LEMMA LeastTerms ==
  ASSUME NEW p \in Int, NEW q \in Nat \ {0}, Coprime(p, q),
         NEW n \in Int, NEW d \in Nat \ {0}, n * q = p * d
  PROVE  q <= d /\ ((0 <= p /\ p <= n) \/ (n <= p /\ p <= 0))
<1> DEFINE E == {k \in Nat \ {0} : \E j \in Int : j * q = p * k}
<1>1. q \in E /\ d \in E /\ E \in SUBSET Nat
  <2>1. p * q = p * q
    OBVIOUS
  <2>2. QED
    BY <2>1
<1>2. PICK r \in E : \A k \in E : r <= k
  BY <1>1, LeastOf
<1>3. PICK j \in Int : j * q = p * r
  BY <1>2
<1>4. r \in Nat \ {0} /\ r <= d
  BY <1>1, <1>2
<1> DEFINE k == q \div r
           e == q % r
<1>5. k \in Nat /\ e \in 0 .. (r - 1) /\ q = k * r + e
  BY <1>4, DivMod
<1>6. \A i \in Nat \ {0} : \A t \in Int : t * q = p * i => r <= i
  BY <1>2
<1> HIDE DEF k, e, E
<1>7. e = 0
  <2>1. (p - k * j) * q = p * q - (k * j) * q
    BY <1>5
  <2>2. (k * j) * q = k * (j * q) /\ k * (p * r) = p * (k * r)
    BY <1>4, <1>5
  <2>3. p * (k * r + e) = p * (k * r) + p * e
    BY <1>4, <1>5
  <2>4. (p - k * j) * q = p * e
    BY <1>3, <1>5, <2>1, <2>2, <2>3
  <2>5. p - k * j \in Int
    BY <1>5
  <2>6. e # 0 => r <= e
    BY <1>5, <1>6, <2>4, <2>5
  <2>7. QED
    BY <1>4, <1>5, <2>6
<1>8. q = r * k
  BY <1>4, <1>5, <1>7
<1>9. p = k * j
  <2>1. j * (r * k) = (j * k) * r /\ j * k \in Int
    BY <1>4, <1>5
  <2>2. (j * k) * r = p * r
    BY <1>3, <1>8, <2>1
  <2>3. j * k <= p /\ p <= j * k
    BY <1>4, <2>1, <2>2, MulCancel
  <2>4. QED
    BY <1>5, <2>1, <2>3
<1>10. k = 1
  <2>1. k # 0
    BY <1>8, <1>4
  <2>2. q = k * r
    BY <1>4, <1>5, <1>8
  <2>3. k \notin {0, 1} => Divides(k, p) /\ Divides(k, q)
    BY <1>4, <1>9, <2>2 DEF Divides
  <2>4. QED
    BY <1>5, <2>1, <2>3 DEF Coprime
<1>11. q <= d
  BY <1>4, <1>8, <1>10
<1>12. CASE p >= 0
  <2>1. q * p <= d * p
    BY <1>11, <1>12, MulMono
  <2>2. p * q <= n * q
    BY <2>1
  <2>3. QED
    BY <1>11, <1>12, <2>2, MulCancel
<1>13. CASE p <= 0
  <2>1. q * (- p) <= d * (- p)
    BY <1>11, <1>13, MulMono
  <2>2. n * q <= p * q
    BY <2>1
  <2>3. QED
    BY <1>11, <1>13, <2>2, MulCancel
<1>14. QED
  BY <1>11, <1>12, <1>13

-----------------------------------------------------------------------------
(* Checked arithmetic.                                                     *)

LEMMA ExactInt ==
  ASSUME NEW r \in Rational, NEW s \in Rational, NEW op \in Operators
  PROVE  /\ Exact(op, r, s) = Fraction(Exact(op, r, s).num, Exact(op, r, s).den)
         /\ Exact(op, r, s).num \in Int /\ Exact(op, r, s).den \in Int
<1> DEFINE n == r.num
           d == r.den
           m == s.num
           e == s.den
<1>1. n \in Int /\ d \in Int /\ m \in Int /\ e \in Int
  BY Widths DEF Rational
<1> HIDE DEF n, d, m, e
<1>2. /\ n * e + m * d \in Int /\ n * e - m * d \in Int /\ n * m \in Int
      /\ n * e \in Int /\ d * e \in Int /\ d * m \in Int
  BY <1>1
<1>3. \/ Exact(op, r, s) = Fraction(n * e + m * d, d * e)
      \/ Exact(op, r, s) = Fraction(n * e - m * d, d * e)
      \/ Exact(op, r, s) = Fraction(n * m, d * e)
      \/ Exact(op, r, s) = Fraction(n * e, d * m)
  BY DEF Exact, Operators, n, d, m, e
<1>4. QED
  BY <1>2, <1>3 DEF Fraction

\* Terms that fit are answered as they are, and the operators of Rational
\* answer the same.
LEMMA CheckedIs ==
  ASSUME NEW r \in Rational, NEW s \in Rational, NEW op \in Operators
  PROVE  LET x == Exact(op, r, s)
         IN  \A y \in Checked(op, r, s) :
               y = Lowest(x) /\ y \in Rational /\ Apply(op, r, s) = y
<1> DEFINE x == Exact(op, r, s)
<1>1. x = Fraction(x.num, x.den) /\ x.num \in Int
  BY ExactInt
<1> HIDE DEF x
<1> SUFFICES ASSUME NEW y \in Checked(op, r, s)
             PROVE  y = Lowest(x) /\ y \in Rational /\ Apply(op, r, s) = y
  BY DEF x
<1>2. Checked(op, r, s) = IF x.num \in MinWide .. MaxWide THEN ReduceExact(x) ELSE None
  BY DEF Checked, x
<1>3. x.num \in MinWide .. MaxWide /\ y \in ReduceExact(x)
  BY <1>2 DEF None
<1>4. y = Lowest(x) /\ y \in Rational
  BY <1>3 DEF ReduceExact
<1>5. MinWide \in Int /\ MaxWide \in Int
  <2>1. Half \in Int /\ Half * Half \in Int
    BY Widths
  <2>2. 2 * Half * Half \in Int
    BY <2>1
  <2>3. QED
    BY <2>2 DEF MinWide, MaxWide
<1>6. SaturateWide(x.num) = x.num
  BY <1>1, <1>3, <1>5 DEF SaturateWide
<1>7. Apply(op, r, s) = Reduce(x)
  BY <1>1, <1>6 DEF Apply, x
<1>8. QED
  BY <1>4, <1>7 DEF Reduce

\* Numbers below 0 or from 0 to those a word holds are held too.
LEMMA BetweenHeld ==
  ASSUME NEW p \in Int, NEW n \in I64, (0 <= p /\ p <= n) \/ (n <= p /\ p <= 0)
  PROVE  p \in I64
BY Widths DEF I64

SameValue(r, x) == r.num * x.den = x.num * r.den

\* The lowest terms have the value of the fraction, with a denominator that is
\* not negative and no divisor in common; and when they do not fit, no fraction
\* of that value does.
LEMMA LowestExact ==
  ASSUME NEW n \in Int, NEW d \in Int
  PROVE  LET x == Fraction(n, d)
             l == Lowest(x)
         IN  /\ l = Fraction(l.num, l.den) /\ l.num \in Int /\ l.den \in Nat
             /\ SameValue(l, x)
             /\ l = Fraction(0, 0) \/ \A k \in 2 .. MaxI : l.num % k # 0 \/ l.den % k # 0
             /\ l \notin Rational =>
                  \A i \in I64, j \in 1 .. MaxI : ~ SameValue(Fraction(i, j), x)
<1>1. CASE n = 0 /\ d = 0
  <2>1. Gcd[<<0, 0>>] = 1
    BY GcdIs DEF GcdOf
  <2>2. SignNormalized(Fraction(0, 0)) = Fraction(0, 0) /\ Magnitude(0) = 0
    BY DEF SignNormalized, Fraction, Magnitude
  <2>3. 0 \div 1 = 0
    OBVIOUS
  <2>4. Lowest(Fraction(0, 0)) = Fraction(0, 0)
    BY <2>1, <2>2, <2>3 DEF Lowest, Fraction
  <2>5. Fraction(0, 0) \in Rational
    BY Widths DEF Fraction, Rational, I64
  <2>6. SameValue(Fraction(0, 0), Fraction(0, 0))
    BY DEF SameValue, Fraction
  <2>7. QED
    BY <1>1, <2>4, <2>5, <2>6 DEF Fraction
<1>2. CASE n # 0 \/ d # 0
  <2> DEFINE x == Fraction(n, d)
             s == SignNormalized(x)
             l == Lowest(x)
             p == l.num
             q == l.den
  <2>1. /\ l = Fraction(p, q) /\ p \in Int /\ q \in Nat /\ (q = 0 <=> d = 0)
        /\ \E g \in Nat \ {0} : s.num = g * p /\ s.den = g * q
        /\ Coprime(p, q)
    BY <1>2, LowestIs
  <2>2. (s.num = n /\ s.den = d) \/ (s.num = - n /\ s.den = - d)
    BY DEF SignNormalized, Fraction
  <2> HIDE DEF l, s, p, q
  <2>3. PICK g \in Nat \ {0} : s.num = g * p /\ s.den = g * q
    BY <2>1
  <2>4. PICK h \in Int \ {0} : n = h * p /\ d = h * q
    <3>1. - g \in Int \ {0} /\ (- g) * p = - (g * p) /\ (- g) * q = - (g * q)
      BY <2>1
    <3>2. CASE s.num = n /\ s.den = d
      BY <2>3, <3>2
    <3>3. CASE s.num = - n /\ s.den = - d
      <4>1. n = - (g * p) /\ d = - (g * q)
        BY <2>1, <2>3, <3>3
      <4>2. QED
        BY <3>1, <4>1
    <3>4. QED
      BY <2>2, <3>2, <3>3
  <2>5. p * d = n * q
    <3>1. p * (h * q) = (h * p) * q
      BY <2>1
    <3>2. QED
      BY <2>4, <3>1
  <2>6. ASSUME NEW k \in 2 .. MaxI, p % k = 0, q % k = 0 PROVE FALSE
    <3>1. k \in Nat \ {0, 1}
      BY Widths
    <3>2. Divides(k, p) /\ Divides(k, q)
      BY <2>1, <2>6, <3>1, DividesIs
    <3>3. QED
      BY <2>1, <3>1, <3>2 DEF Coprime
  <2>7. ASSUME l \notin Rational, NEW i \in I64, NEW j \in 1 .. MaxI,
               i * d = n * j
        PROVE  FALSE
    <3>1. i \in Int /\ j \in Nat \ {0}
      BY Widths
    <3>2. i * q = p * j
      <4>1. i * (h * q) = h * (i * q) /\ (h * p) * j = h * (p * j)
        BY <2>1, <3>1
      <4>2. h * (i * q) = h * (p * j)
        BY <2>4, <2>7, <4>1
      <4>3. i * q \in Int /\ p * j \in Int
        BY <2>1, <3>1
      <4> DEFINE u == i * q
                 v == p * j
      <4>4. u \in Int /\ v \in Int /\ h * u = h * v
        BY <4>2, <4>3
      <4> HIDE DEF u, v
      <4>5. h * (u - v) = 0 /\ u - v \in Int
        BY <4>4
      <4>6. u - v = 0
        BY <4>5, MulSign
      <4>7. u = v
        BY <4>4, <4>6
      <4>8. QED
        BY <4>7 DEF u, v
    <3>3. CASE q = 0
      <4>1. p * j = 0
        BY <3>1, <3>2, <3>3
      <4>2. p = 0
        BY <2>1, <3>1, <4>1, MulSign
      <4>3. n = 0 /\ d = 0
        BY <2>4, <3>3, <4>2
      <4>4. QED
        BY <1>2, <4>3
    <3>4. CASE q # 0
      <4>1. q <= j /\ ((0 <= p /\ p <= i) \/ (i <= p /\ p <= 0))
        BY <2>1, <3>1, <3>2, <3>4, LeastTerms
      <4>2. p \in I64
        BY <2>1, <4>1, BetweenHeld
      <4>3. q \in I64
        BY <2>1, <4>1, Widths DEF I64
      <4>4. QED
        BY <2>1, <2>7, <4>2, <4>3 DEF Rational, Fraction
    <3>5. QED
      BY <3>3, <3>4
  <2>8. SameValue(l, x)
    <3>1. x.num = n /\ x.den = d
      BY DEF Fraction
    <3>2. QED
      BY <2>5, <3>1 DEF SameValue, p, q
  <2>9. l \notin Rational => \A i \in I64, j \in 1 .. MaxI : ~ SameValue(Fraction(i, j), x)
    <3>1. x.num = n /\ x.den = d
      BY DEF Fraction
    <3>2. \A i, j : Fraction(i, j).num = i /\ Fraction(i, j).den = j
      BY DEF Fraction
    <3>3. QED
      BY <2>7, <3>1, <3>2 DEF SameValue
  <2>10. l.num = p /\ l.den = q
    BY DEF p, q
  <2>11. QED
    BY <2>1, <2>6, <2>8, <2>9, <2>10 DEF l
<1>3. QED
  BY <1>1, <1>2

LEMMA ArithmeticExact ==
  ASSUME NEW r \in Rational, NEW s \in Rational, NEW op \in Operators
  PROVE  LET x == Exact(op, r, s)
         IN  /\ \A y \in Checked(op, r, s) :
                  /\ y \in Rational /\ y = Apply(op, r, s) /\ y.den >= 0 /\ SameValue(y, x)
                  /\ y = Fraction(0, 0) \/ \A k \in 2 .. MaxI : y.num % k # 0 \/ y.den % k # 0
             /\ Checked(op, r, s) = None =>
                  \/ x.num \notin MinWide .. MaxWide
                  \/ \A i \in I64, j \in 1 .. MaxI : ~ SameValue(Fraction(i, j), x)
<1> DEFINE x == Exact(op, r, s)
           l == Lowest(x)
<1>1. x = Fraction(x.num, x.den) /\ x.num \in Int /\ x.den \in Int
  BY ExactInt
<1>2. Checked(op, r, s) = IF x.num \in MinWide .. MaxWide THEN ReduceExact(x) ELSE None
  BY DEF Checked
<1>3. \A y \in Checked(op, r, s) : y = l /\ y \in Rational /\ Apply(op, r, s) = y
  BY CheckedIs
<1> HIDE DEF x
<1>4. /\ l = Fraction(l.num, l.den) /\ l.num \in Int /\ l.den \in Nat
      /\ SameValue(l, x)
      /\ l = Fraction(0, 0) \/ \A k \in 2 .. MaxI : l.num % k # 0 \/ l.den % k # 0
      /\ l \notin Rational => \A i \in I64, j \in 1 .. MaxI : ~ SameValue(Fraction(i, j), x)
  BY <1>1, LowestExact
<1> HIDE DEF l
<1>5. ReduceExact(x) = {l} \cap Rational
  BY DEF ReduceExact, l
<1>6. Checked(op, r, s) = None /\ x.num \in MinWide .. MaxWide => l \notin Rational
  BY <1>2, <1>5 DEF None
<1>7. l.den >= 0
  BY <1>4
<1>8. QED
  BY <1>3, <1>4, <1>6, <1>7 DEF x

-----------------------------------------------------------------------------
(* Fractions and timestamps, whatever the client calls.                     *)

Operands == a \in Fractions /\ b \in Fractions

Judged == Operators \union {"cmp", "rescale", "elapse"}

\* A step about something else: a table, a wire form, a setup.
OtherCall == UNCHANGED <<a, b>> /\ (call'.op \notin Judged \/ UNCHANGED call)

LEMMA Steps == [AnyNext]_<<vars, setup>> => [Next]_vars \/ OtherCall
<1> SUFFICES ASSUME [AnyNext]_<<vars, setup>> PROVE [Next]_vars \/ OtherCall
  OBVIOUS
<1>1. CASE Fixed /\ Tables!Next
  <2>1. UNCHANGED <<a, b>>
    BY <1>1 DEF Fixed
  <2>2. call'.op \in {"size", "write", "read", "count"}
    BY <1>1 DEF Tables!Next, Tables!Size, Tables!Write, Tables!Parse, Tables!Count, Tables!Answered
  <2>3. QED
    BY <2>1, <2>2 DEF OtherCall, Judged, Operators
<1>2. CASE Fixed /\ Wire!Next
  <2>1. UNCHANGED <<a, b>>
    BY <1>2 DEF Fixed
  <2>2. call'.op \in {"signal", "layer", "blobs", "decode", "kind", "code"}
    BY <1>2 DEF Wire!Next, Wire!CarrySignal, Wire!CarryLayer, Wire!CarryBlobs, Wire!Decode,
                Wire!NameKind, Wire!ReadCode, Wire!Answered
  <2>3. QED
    BY <2>1, <2>2 DEF OtherCall, Judged, Operators
<1>3. CASE Fixed /\ UNCHANGED call
  BY <1>3 DEF Fixed, OtherCall
<1>4. QED
  BY <1>1, <1>2, <1>3 DEF AnyNext, OneCall, vars

LEMMA OperandsStay == AnySpec => []Operands
<1>1. Init => Operands
  BY DEF Init, Operands
<1>2. Operands /\ ([Next]_vars \/ OtherCall) => Operands'
  <2>1. Operands /\ Next => Operands'
    BY DEF Next, Arithmetic, Compare, Move, Elapse, Answered, Operands
  <2>2. QED
    BY <2>1 DEF vars, Operands, OtherCall
<1>3. QED
  BY <1>1, <1>2, Steps, PTL DEF AnySpec, AnyInit

\* Which call a step answers.
LEMMA Answers ==
  ASSUME Next
  PROVE  /\ UNCHANGED <<a, b>>
         /\ \/ call'.op \in Operators \union {"cmp"}
            \/ \E value \in Values, rounding \in Roundings :
                 call' = [op |-> "rescale", value |-> value, rounding |-> rounding,
                          ticks |-> RescaleRnd(value, a, b, rounding),
                          checked |-> RescaleChecked(value, a, b)]
            \/ \E value \in Values, other \in Others :
                 call' = [op |-> "elapse", value |-> value, other |-> other,
                          diff |-> Difference(value, a, other, b), end |-> EndPts(value, other)]
BY DEF Next, Arithmetic, Compare, Move, Elapse, Answered

LEMMA RatioStays ==
  ASSUME UNCHANGED <<a, b>>
  PROVE  Ratio' = Ratio /\ (Defined' <=> Defined)
BY DEF Ratio, Defined

\* A rescale lands on the tick its mode asks for, by any signs, and saturates
\* only beyond the ends; the checked form refuses exactly there
\* (Rescale!RoundsToTick).
THEOREM RescaleRounds == AnySpec => []RoundsToTick
<1>1. Init => RoundsToTick
  BY DEF Init, NoCall, RoundsToTick
<1>2. Operands /\ RoundsToTick /\ [Next]_vars => RoundsToTick'
  <2> SUFFICES ASSUME Operands, RoundsToTick, [Next]_vars PROVE RoundsToTick'
    OBVIOUS
  <2>1. CASE UNCHANGED vars
    BY <2>1 DEF vars, RoundsToTick, RightTick, Defined, Ratio
  <2>2. CASE Next
    <3>1. UNCHANGED <<a, b>> /\ Ratio' = Ratio /\ (Defined' <=> Defined)
      BY <2>2, Answers, RatioStays
    <3>2. CASE call'.op # "rescale"
      BY <3>2 DEF RoundsToTick
    <3>3. CASE call'.op = "rescale"
      <4>1. PICK value \in Values, rounding \in Roundings :
              call' = [op |-> "rescale", value |-> value, rounding |-> rounding,
                       ticks |-> RescaleRnd(value, a, b, rounding),
                       checked |-> RescaleChecked(value, a, b)]
        BY <2>2, <3>3, Answers DEF Operators
      <4>2. ASSUME Defined, Roomy(value, a, b)
            PROVE  LET ticks == RescaleRnd(value, a, b, rounding)
                       checked == RescaleChecked(value, a, b)
                   IN  /\ RightTick(ticks, value, rounding)
                       /\ rounding = "nearest_away" =>
                            IF checked # None THEN checked = {ticks}
                            ELSE ~ IsTick(ticks, value * Ratio.num, Ratio.den, rounding)
        BY <4>2, MoveRounds DEF Operands
      <4>3. QED
        BY <3>1, <4>1, <4>2 DEF RoundsToTick, RightTick
    <3>4. QED
      BY <3>2, <3>3
  <2>3. QED
    BY <2>1, <2>2
<1>3. RoundsToTick /\ OtherCall => RoundsToTick'
  BY DEF OtherCall, Judged, RoundsToTick, RightTick, Defined, Ratio
<1>4. QED
  BY <1>1, <1>2, <1>3, OperandsStay, Steps, PTL DEF AnySpec, AnyInit

\* Rescaling keeps timestamps in order, and so does the difference of two of
\* different bases; a packet moved by start and duration ends within a tick of
\* its end moved (Rescale!OrderKept).
THEOREM RescaleKeepsOrder == AnySpec => []OrderKept
<1>1. Init => OrderKept
  BY DEF Init, NoCall, OrderKept
<1>2. Operands /\ OrderKept /\ [Next]_vars => OrderKept'
  <2> SUFFICES ASSUME Operands, OrderKept, [Next]_vars PROVE OrderKept'
    OBVIOUS
  <2>1. CASE UNCHANGED vars
    BY <2>1 DEF vars, OrderKept, Defined, Ratio
  <2>2. CASE Next
    <3>1. UNCHANGED <<a, b>> /\ Ratio' = Ratio /\ (Defined' <=> Defined)
      BY <2>2, Answers, RatioStays
    <3>2. CASE call'.op \notin {"rescale", "elapse"}
      BY <3>2 DEF OrderKept
    <3>3. CASE call'.op = "rescale"
      <4>1. PICK value \in Values, rounding \in Roundings :
              call' = [op |-> "rescale", value |-> value, rounding |-> rounding,
                       ticks |-> RescaleRnd(value, a, b, rounding),
                       checked |-> RescaleChecked(value, a, b)]
        BY <2>2, <3>3, Answers DEF Operators
      <4>2. ASSUME Ratio.num > 0, Defined, NEW u \in Values, u <= value
            PROVE  RescaleRnd(u, a, b, rounding) <= RescaleRnd(value, a, b, rounding)
        BY <4>2, RescaleOrder, FractionsAreRational, RatioIsFactor DEF Operands, Defined
      <4>3. QED
        BY <3>1, <4>1, <4>2 DEF OrderKept
    <3>4. CASE call'.op = "elapse"
      <4>1. PICK value \in Values, other \in Others :
              call' = [op |-> "elapse", value |-> value, other |-> other,
                       diff |-> Difference(value, a, other, b), end |-> EndPts(value, other)]
        BY <2>2, <3>4, Answers DEF Operators
      <4>2. \A start \in RescaleChecked(value, a, b), duration \in RescaleChecked(other, a, b),
               old \in EndPts(value, other) :
              \A end \in EndPts(start, duration), moved \in RescaleChecked(old, a, b) :
                Magnitude(end - moved) <= 1
        BY PartsMoved, FractionsAreRational DEF Operands
      <4>3. ASSUME a.num > 0, a.den > 0, b.num > 0, b.den > 0, Roomy(other, b, a)
            PROVE  LET ahead == value * a.num * b.den - other * b.num * a.den
                   IN  \A d \in Difference(value, a, other, b) : /\ ahead >= 0 => d >= 0
                                                                 /\ ahead <= 0 => d <= 0
        BY <4>3, ElapsesInOrder DEF Operands
      <4>4. QED
        BY <3>1, <4>1, <4>2, <4>3 DEF OrderKept
    <3>5. QED
      BY <3>2, <3>3, <3>4
  <2>3. QED
    BY <2>1, <2>2
<1>3. OrderKept /\ OtherCall => OrderKept'
  BY DEF OtherCall, Judged, OrderKept, Defined, Ratio
<1>4. QED
  BY <1>1, <1>2, <1>3, OperandsStay, Steps, PTL DEF AnySpec, AnyInit

\* A timestamp moved to a base at least as fine and back is the timestamp, and
\* a difference leads from one timestamp to the other (Rescale!RoundTrip).
THEOREM RescaleReturns == AnySpec => []RoundTrip
<1>1. Init => RoundTrip
  BY DEF Init, NoCall, RoundTrip
<1>2. Operands /\ RoundTrip /\ [Next]_vars => RoundTrip'
  <2> SUFFICES ASSUME Operands, RoundTrip, [Next]_vars PROVE RoundTrip'
    OBVIOUS
  <2>1. CASE UNCHANGED vars
    BY <2>1 DEF vars, RoundTrip, Ratio
  <2>2. CASE Next
    <3>1. UNCHANGED <<a, b>> /\ Ratio' = Ratio
      BY <2>2, Answers, RatioStays
    <3>2. CASE call'.op \notin {"rescale", "elapse"}
      BY <3>2 DEF RoundTrip
    <3>3. CASE call'.op = "rescale"
      <4>1. PICK value \in Values, rounding \in Roundings :
              call' = [op |-> "rescale", value |-> value, rounding |-> rounding,
                       ticks |-> RescaleRnd(value, a, b, rounding),
                       checked |-> RescaleChecked(value, a, b)]
        BY <2>2, <3>3, Answers DEF Operators
      <4>2. ASSUME Magnitude(Ratio.num) >= Ratio.den,
                   NEW t \in RescaleChecked(value, a, b), Roomy(t, b, a)
            PROVE  RescaleRnd(t, b, a, "nearest_away") = value
        BY <4>2, ThereAndBack DEF Operands
      <4>3. QED
        BY <3>1, <4>1, <4>2 DEF RoundTrip
    <3>4. CASE call'.op = "elapse"
      <4>1. PICK value \in Values, other \in Others :
              call' = [op |-> "elapse", value |-> value, other |-> other,
                       diff |-> Difference(value, a, other, b), end |-> EndPts(value, other)]
        BY <2>2, <3>4, Answers DEF Operators
      <4> DEFINE moved == RescaleRnd(other, b, a, "nearest_away")
      <4>2. value \in I64 /\ other \in I64 /\ value \in Int /\ other \in Int
        BY FractionsAreRational, Widths
      <4>3. ASSUME NEW d \in Difference(value, a, other, b)
            PROVE  /\ AddTicks(moved, d) = {value}
                   /\ a = b /\ a.num > 0 /\ a.den > 0 /\ Roomy(other, b, a) =>
                        SubTicks(value, d) = {other}
        <5>1. d = value - moved
          BY <4>3 DEF Difference, SubTicks, None
        <5>2. moved \in Int
          BY <4>2, RescaleInt DEF Operands
        <5>3. AddTicks(moved, d) = {value}
          <6> HIDE DEF moved
          <6>1. moved + d = value
            BY <4>2, <5>1, <5>2
          <6>2. QED
            BY <4>2, <6>1 DEF AddTicks
        <5>4. ASSUME a = b, a.num > 0, a.den > 0, Roomy(other, b, a)
              PROVE  SubTicks(value, d) = {other}
          <6>1. moved = other
            BY <4>2, <5>4, SameBase DEF Operands
          <6>2. value - d = other
            BY <4>2, <5>1, <6>1
          <6>3. QED
            BY <4>2, <6>2 DEF SubTicks
        <5>5. QED
          BY <5>3, <5>4
      <4>4. QED
        BY <3>1, <4>1, <4>3 DEF RoundTrip
    <3>5. QED
      BY <3>2, <3>3, <3>4
  <2>3. QED
    BY <2>1, <2>2
<1>3. RoundTrip /\ OtherCall => RoundTrip'
  BY DEF OtherCall, Judged, RoundTrip, Ratio
<1>4. QED
  BY <1>1, <1>2, <1>3, OperandsStay, Steps, PTL DEF AnySpec, AnyInit

\* Fractions are ordered by value, totally and transitively, infinities and
\* zero denominators included, and negation reverses the order
\* (Rescale!ValueOrder).
THEOREM FractionsOrdered == AnySpec => []ValueOrder
<1>1. Init => ValueOrder
  BY DEF Init, NoCall, ValueOrder
<1>2. Operands /\ ValueOrder /\ [Next]_vars => ValueOrder'
  <2> SUFFICES ASSUME Operands, ValueOrder, [Next]_vars PROVE ValueOrder'
    OBVIOUS
  <2>1. CASE UNCHANGED vars
    BY <2>1 DEF vars, ValueOrder
  <2>2. CASE Next
    <3>1. CASE call'.op # "cmp"
      BY <3>1 DEF ValueOrder
    <3>2. CASE call'.op = "cmp"
      <4>1. PICK c \in Fractions : Compare(c)
        BY <2>2, <3>2 DEF Next, Arithmetic, Move, Elapse, Answered, Operators
      <4>2. a \in Rational /\ b \in Rational /\ c \in Rational
        BY FractionsAreRational DEF Operands
      <4>3. QED
        BY <4>1, <4>2, Compared DEF Compare, Answered, ValueOrder
    <3>3. QED
      BY <3>1, <3>2
  <2>3. QED
    BY <2>1, <2>2
<1>3. ValueOrder /\ OtherCall => ValueOrder'
  BY DEF OtherCall, Judged, ValueOrder
<1>4. QED
  BY <1>1, <1>2, <1>3, OperandsStay, Steps, PTL DEF AnySpec, AnyInit

\* A checked operation answers with the one fraction in lowest terms that its
\* result is, and refuses only what no i64 fraction is (Rescale!ExactOrNone).
THEOREM ResultsExact == AnySpec => []ExactOrNone
<1>1. Init => ExactOrNone
  BY DEF Init, NoCall, ExactOrNone, Operators
<1>2. Operands /\ ExactOrNone /\ [Next]_vars => ExactOrNone'
  <2> SUFFICES ASSUME Operands, ExactOrNone, [Next]_vars PROVE ExactOrNone'
    OBVIOUS
  <2>1. CASE UNCHANGED vars
    BY <2>1 DEF vars, ExactOrNone
  <2>2. CASE Next
    <3>1. CASE call'.op \notin Operators
      BY <3>1 DEF ExactOrNone
    <3>2. CASE call'.op \in Operators
      <4>1. PICK op \in Operators : Arithmetic(op)
        BY <2>2, <3>2 DEF Next, Compare, Move, Elapse, Answered, Operators
      <4>2. a \in Rational /\ b \in Rational
        BY FractionsAreRational DEF Operands
      <4>3. /\ UNCHANGED <<a, b>>
            /\ call' = [op |-> op, checked |-> Checked(op, a, b), result |-> Apply(op, a, b)]
        BY <4>1 DEF Arithmetic, Answered
      <4>4. Exact(op, a, b)' = Exact(op, a, b)
        BY <4>3 DEF Exact
      <4>5. call'.op = op /\ call'.checked = Checked(op, a, b) /\ call'.result = Apply(op, a, b)
        BY <4>3
      <4>6. QED
        BY <4>2, <4>3, <4>4, <4>5, ArithmeticExact DEF ExactOrNone, SameValue
    <3>3. QED
      BY <3>1, <3>2
  <2>3. QED
    BY <2>1, <2>2
<1>3. ExactOrNone /\ OtherCall => ExactOrNone'
  BY DEF OtherCall, Judged, ExactOrNone
<1>4. QED
  BY <1>1, <1>2, <1>3, OperandsStay, Steps, PTL DEF AnySpec, AnyInit

-----------------------------------------------------------------------------
(* Loops.  A loop takes a value through the sets the turns lead to.         *)

\* What g[i] holds after turn i is F[i] of what it held before.
Follows(g, start, F, n) == g = [i \in 0 .. n |-> IF i = 0 THEN start ELSE F[i][g[i - 1]]]
Within(g, K, n) == \A i \in 0 .. n : g[i] \in K[i]
Leads(F, K, n) == \A i \in 1 .. n : F[i] \in [K[i - 1] -> K[i]]

\* Turns has the value its recursion says: one exists.
LEMMA LoopExists ==
  ASSUME NEW n \in Nat, NEW start, NEW K, NEW F, start \in K[0], Leads(F, K, n)
  PROVE  \E g : Follows(g, start, F, n) /\ Within(g, K, n)
<1> USE DEF Follows, Within, Leads
<1> DEFINE Goes(g, m) == Follows(g, start, F, m) /\ Within(g, K, m)
           Bad == {m \in Nat : m <= n /\ ~ \E g : Goes(g, m)}
<1>1. SUFFICES Bad = {}
  <2>1. n \notin Bad => \E g : Goes(g, n)
    OBVIOUS
  <2>2. QED
    BY <2>1
<1>2. SUFFICES ASSUME Bad # {} PROVE FALSE
  OBVIOUS
<1>3. PICK m \in Bad : \A k \in Bad : m <= k
  BY <1>2, LeastOf
<1>4. m \in Nat /\ m <= n /\ ~ \E g : Goes(g, m)
  BY <1>3
<1>5. CASE m = 0
  <2> DEFINE g == [i \in 0 .. 0 |-> start]
  <2>1. g[0] = start /\ \A i \in 0 .. 0 : i = 0
    OBVIOUS
  <2>2. [i \in 0 .. 0 |-> IF i = 0 THEN start ELSE F[i][g[i - 1]]] = [i \in 0 .. 0 |-> start]
    BY <2>1
  <2>3. Goes(g, 0)
    BY <2>1, <2>2
  <2> HIDE DEF g, Goes
  <2>4. QED
    BY <1>4, <1>5, <2>3
<1>6. CASE m # 0
  <2>1. m - 1 \in Nat /\ m - 1 <= n /\ ~ (m <= m - 1)
    BY <1>4, <1>6
  <2>2. m - 1 \notin Bad
    BY <1>3, <2>1
  <2>3. PICK g : Goes(g, m - 1)
    BY <2>1, <2>2
  <2> DEFINE h == [i \in 0 .. m |-> IF i = m THEN F[m][g[m - 1]] ELSE g[i]]
  <2>4. \A i \in 0 .. m : i # m => i \in 0 .. (m - 1)
    BY <1>4
  <2>5. m \in 1 .. n /\ m \in 0 .. m /\ m - 1 \in 0 .. (m - 1)
    BY <1>4, <1>6
  <2>6. \A i \in 0 .. m : i # 0 => i - 1 \in 0 .. m /\ i - 1 # m
    BY <1>4
  <2>7. \A i \in 0 .. m : h[i] = IF i = 0 THEN start ELSE F[i][h[i - 1]]
    <3> TAKE i \in 0 .. m
    <3>1. CASE i = m
      <4>1. h[m] = F[m][g[m - 1]] /\ h[m - 1] = g[m - 1]
        BY <2>5, <2>6, <1>6
      <4>2. QED
        BY <1>6, <3>1, <4>1
    <3>2. CASE i # m
      <4>1. i \in 0 .. (m - 1) /\ h[i] = g[i]
        BY <2>4, <3>2
      <4>2. g[i] = IF i = 0 THEN start ELSE F[i][g[i - 1]]
        BY <2>3, <4>1
      <4>3. i # 0 => h[i - 1] = g[i - 1]
        BY <2>6
      <4>4. QED
        BY <4>1, <4>2, <4>3
    <3>3. QED
      BY <3>1, <3>2
  <2>8. \A i \in 0 .. m : h[i] \in K[i]
    <3> TAKE i \in 0 .. m
    <3>1. CASE i = m
      <4>1. g[m - 1] \in K[m - 1]
        BY <2>3, <2>5
      <4>2. F[m] \in [K[m - 1] -> K[m]]
        BY <2>5
      <4>3. F[m][g[m - 1]] \in K[m]
        BY <4>1, <4>2
      <4>4. QED
        BY <2>5, <3>1, <4>3
    <3>2. CASE i # m
      BY <2>3, <2>4, <3>2
    <3>3. QED
      BY <3>1, <3>2
  <2>9. h = [i \in 0 .. m |-> IF i = 0 THEN start ELSE F[i][h[i - 1]]]
    <3>1. h = [i \in 0 .. m |-> h[i]]
      OBVIOUS
    <3> HIDE DEF h
    <3>2. QED
      BY <2>7, <3>1
  <2>10. Goes(h, m)
    BY <2>8, <2>9
  <2> HIDE DEF h, Goes
  <2>11. QED
    BY <1>4, <2>10
<1>7. QED
  BY <1>5, <1>6

\* What the recursion says leads from set to set, up to the last.
LEMMA LoopStays ==
  ASSUME NEW n \in Nat, NEW s, NEW K, s[0] \in K[0],
         \A i \in 1 .. n : s[i - 1] \in K[i - 1] => s[i] \in K[i]
  PROVE  s[n] \in K[n]
<1> DEFINE Bad == {m \in Nat : m <= n /\ s[m] \notin K[m]}
<1>1. SUFFICES ASSUME Bad # {} PROVE FALSE
  OBVIOUS
<1>2. PICK m \in Bad : \A k \in Bad : m <= k
  BY <1>1, LeastOf
<1>3. m \in Nat /\ m <= n /\ s[m] \notin K[m] /\ m # 0
  BY <1>2
<1>4. m - 1 \in Nat /\ m - 1 <= n /\ ~ (m <= m - 1) /\ m \in 1 .. n
  BY <1>3
<1>5. s[m - 1] \in K[m - 1]
  BY <1>2, <1>4
<1>6. QED
  BY <1>3, <1>4, <1>5

-----------------------------------------------------------------------------
(* Options.                                                                *)

RawTexts == Raws \union {"true", "false"}
Entry == Keys \X RawTexts

\* The bag holds each key once, with what was last said of it.
Holds(es, said) ==
  /\ es \in Seq(Entry)
  /\ \A i, j \in DOMAIN es : es[i][1] = es[j][1] => i = j
  /\ \A i \in DOMAIN es : said[es[i][1]] = es[i][2]
  /\ \A k \in Keys : said[k] # Unset => \E i \in DOMAIN es : es[i][1] = k

OptionsInv == stated \in [Keys -> RawTexts \union {Unset}] /\ Holds(entries, stated)

LEMMA UnsetIsNoText == Unset \notin RawTexts
BY SetupAssumption DEF RawTexts

LEMMA EntryIs ==
  ASSUME NEW es \in Seq(Entry), NEW i \in DOMAIN es
  PROVE  es[i][1] \in Keys /\ es[i][2] \in RawTexts /\ es[i] = <<es[i][1], es[i][2]>>
<1>1. es[i] \in Entry
  OBVIOUS
<1>2. QED
  BY <1>1 DEF Entry

\* The one element of a set of numbers is its least.
LEMMA OnlyIsMin ==
  ASSUME NEW n \in Int
  PROVE  Setup!Min({n}) = n
BY DEF Setup!Min

\* What get answers is what was last said.
LEMMA GetIs ==
  ASSUME NEW es, NEW said, Holds(es, said), NEW k \in Keys, said \in [Keys -> RawTexts \union {Unset}]
  PROVE  Setup!Get(es, k) = said[k]
<1> DEFINE found == {i \in DOMAIN es : es[i][1] = k}
<1>1. Setup!Get(es, k) = IF found = {} THEN Unset ELSE es[Setup!Min(found)][2]
  BY DEF Setup!Get
<1>2. CASE found = {}
  <2>1. said[k] = Unset
    BY <1>2 DEF Holds
  <2>2. QED
    BY <1>1, <1>2, <2>1
<1>3. CASE found # {}
  <2>1. PICK i \in DOMAIN es : es[i][1] = k
    BY <1>3
  <2>2. found = {i}
    BY <2>1 DEF Holds
  <2>3. i \in Int
    BY DEF Holds
  <2>4. Setup!Min(found) = i
    BY <2>2, <2>3, OnlyIsMin
  <2>5. said[k] = es[i][2]
    BY <2>1 DEF Holds
  <2> HIDE DEF found
  <2>6. QED
    BY <1>1, <1>3, <2>4, <2>5
<1>4. QED
  BY <1>2, <1>3

\* insert says one key anew.
LEMMA InsertHolds ==
  ASSUME NEW es, NEW said \in [Keys -> RawTexts \union {Unset}], Holds(es, said),
         NEW key \in Keys, NEW raw \in RawTexts
  PROVE  Holds(Setup!Insert(es, key, raw), [said EXCEPT ![key] = raw])
<1> DEFINE new == Setup!Insert(es, key, raw)
           now == [said EXCEPT ![key] = raw]
           e == <<key, raw>>
           D == DOMAIN es
<1> SUFFICES Holds(new, now)
  OBVIOUS
<1>1. es \in Seq(Entry) /\ e \in Entry /\ e[1] = key /\ e[2] = raw
  BY DEF Holds, Entry
<1>2. now[key] = raw /\ \A k \in Keys : k # key => now[k] = said[k]
  OBVIOUS
<1>3. \A i \in D : es[i][1] \in Keys
  BY <1>1, EntryIs
<1>4. CASE key \in Setup!Bag(es)
  <2>1. PICK m \in D : es[m][1] = key
    BY <1>4 DEF Setup!Bag
  <2>2. new = [i \in D |-> IF es[i][1] = key THEN e ELSE es[i]]
    BY <1>4 DEF Setup!Insert
  <2>3. DOMAIN new = D /\ \A i \in D : new[i] = IF es[i][1] = key THEN e ELSE es[i]
    BY <2>2
  <2>4. new \in Seq(Entry)
    <3>1. \A i \in D : new[i] \in Entry
      BY <1>1, <2>3
    <3>2. D = 1 .. Len(es) /\ Len(es) \in Nat
      BY <1>1
    <3>3. new \in [1 .. Len(es) -> Entry]
      BY <2>2, <2>3, <3>1, <3>2
    <3>4. QED
      BY <3>2, <3>3
  <2> HIDE DEF new, now, e
  <2>5. \A i \in D : new[i][1] = es[i][1]
    BY <1>1, <2>3
  <2>6. \A i \in D : now[new[i][1]] = new[i][2]
    <3> TAKE i \in D
    <3>1. CASE es[i][1] = key
      BY <1>1, <1>2, <2>3, <3>1
    <3>2. CASE es[i][1] # key
      BY <1>2, <1>3, <2>3, <3>2 DEF Holds
    <3>3. QED
      BY <3>1, <3>2
  <2>7. \A i, j \in D : new[i][1] = new[j][1] => i = j
    BY <2>5 DEF Holds
  <2>8. \A k \in Keys : now[k] # Unset => \E i \in D : new[i][1] = k
    <3> TAKE k \in Keys
    <3>1. CASE k = key
      BY <2>1, <2>5, <3>1
    <3>2. CASE k # key
      BY <1>2, <2>5, <3>2 DEF Holds
    <3>3. QED
      BY <3>1, <3>2
  <2>9. QED
    BY <2>3, <2>4, <2>6, <2>7, <2>8 DEF Holds
<1>5. CASE key \notin Setup!Bag(es)
  <2> DEFINE n == Len(es)
  <2>1. \A i \in D : es[i][1] # key
    BY <1>5 DEF Setup!Bag
  <2>2. new = Append(es, e)
    BY <1>5 DEF Setup!Insert
  <2>3. D = 1 .. n /\ n \in Nat
    BY <1>1
  <2>4. /\ new \in Seq(Entry) /\ DOMAIN new = 1 .. (n + 1) /\ new[n + 1] = e
        /\ \A i \in 1 .. n : new[i] = es[i]
    BY <1>1, <2>2, <2>3
  <2> HIDE DEF new, now, e, n
  <2>5. \A i \in 1 .. (n + 1) : i = n + 1 \/ i \in D
    BY <2>3
  <2>6. \A i \in D : i \in 1 .. (n + 1) /\ i # n + 1 /\ new[i] = es[i]
    BY <2>3, <2>4
  <2>7. \A i \in 1 .. (n + 1) : now[new[i][1]] = new[i][2]
    <3> TAKE i \in 1 .. (n + 1)
    <3>1. CASE i = n + 1
      BY <1>1, <1>2, <2>4, <3>1
    <3>2. CASE i \in D
      BY <1>2, <1>3, <2>1, <2>6, <3>2 DEF Holds
    <3>3. QED
      BY <2>5, <3>1, <3>2
  <2>8. \A i, j \in 1 .. (n + 1) : new[i][1] = new[j][1] => i = j
    <3>1. new[n + 1][1] = key
      BY <1>1, <2>4
    <3>2. QED
      BY <2>1, <2>5, <2>6, <3>1 DEF Holds
  <2>9. \A k \in Keys : now[k] # Unset => \E i \in 1 .. (n + 1) : new[i][1] = k
    <3> TAKE k \in Keys
    <3>1. CASE k = key
      <4>1. n + 1 \in 1 .. (n + 1)
        BY <2>3
      <4>2. QED
        BY <1>1, <2>4, <3>1, <4>1
    <3>2. CASE k # key
      BY <1>2, <2>6, <3>2 DEF Holds
    <3>3. QED
      BY <3>1, <3>2
  <2>10. QED
    BY <2>4, <2>7, <2>8, <2>9 DEF Holds
<1>6. QED
  BY <1>4, <1>5

\* The members of an object without structured values.
Flat(members) ==
  /\ DOMAIN members = 1 .. Len(members) /\ Len(members) \in Nat
  /\ \A i \in DOMAIN members :
       /\ members[i][1] \in Keys
       /\ members[i][2][1] # "null" => Setup!Scalar(members[i][2]) \in RawTexts
  /\ \A i, j \in DOMAIN members : members[i][1] = members[j][1] => i = j

\* What the first n members say of a key, and of every key.
Saying(members, n, k) ==
  {i \in 1 .. n : members[i][1] = k /\ members[i][2][1] # "null"}

SaidIn(members, saying) ==
  IF saying = {} THEN Unset ELSE Setup!Scalar(members[CHOOSE i \in saying : TRUE][2])

SaidOf(members, n, k) == SaidIn(members, Saying(members, n, k))

SaidAfter(members, n) == [k \in Keys |-> SaidOf(members, n, k)]

LEMMA FlatIs ==
  ASSUME NEW d \in Objects, d[1] = "object",
         ~ \E i \in DOMAIN d[2] : d[2][i][2][1] \in {"array", "object"}
  PROVE  Flat(d[2])
<1> DEFINE members == d[2]
<1>1. /\ DOMAIN members = 1 .. Len(members) /\ Len(members) \in Nat
      /\ \A i \in DOMAIN members :
           /\ members[i][1] \in Keys
           /\ members[i][2][1] \in {"null", "bool", "number", "string", "array", "object"}
           /\ members[i][2][1] = "bool" => members[i][2][2] \in BOOLEAN
           /\ members[i][2][1] \in {"number", "string"} => members[i][2][2] \in Raws
      /\ \A i, j \in DOMAIN members : members[i][1] = members[j][1] => i = j
  BY SetupAssumption
<1>2. \A i \in DOMAIN members : ~ members[i][2][1] \in {"array", "object"}
  OBVIOUS
<1> HIDE DEF members
<1>3. ASSUME NEW i \in DOMAIN members, members[i][2][1] # "null"
      PROVE  Setup!Scalar(members[i][2]) \in RawTexts
  <2> DEFINE v == members[i][2]
  <2>1. v[1] \in {"bool", "number", "string"}
    BY <1>1, <1>2, <1>3
  <2>2. /\ v[1] = "bool" => v[2] \in BOOLEAN
        /\ v[1] \in {"number", "string"} => v[2] \in Raws
    BY <1>1
  <2> HIDE DEF v
  <2>3. CASE v[1] = "bool"
    <3>1. Setup!Scalar(v) = IF v[2] THEN "true" ELSE "false"
      BY <2>3 DEF Setup!Scalar
    <3>2. QED
      BY <3>1 DEF RawTexts, v
  <2>4. CASE v[1] \in {"number", "string"}
    <3>1. Setup!Scalar(v) = v[2]
      BY <2>4 DEF Setup!Scalar
    <3>2. QED
      BY <2>2, <2>4, <3>1 DEF RawTexts, v
  <2>5. QED
    BY <2>1, <2>3, <2>4
<1>4. Flat(members)
  BY <1>1, <1>3 DEF Flat
<1>5. QED
  BY <1>4 DEF members

LEMMA SaidTyped ==
  ASSUME NEW members, Flat(members), NEW n \in 0 .. Len(members)
  PROVE  SaidAfter(members, n) \in [Keys -> RawTexts \union {Unset}]
<1>1. ASSUME NEW k \in Keys PROVE SaidOf(members, n, k) \in RawTexts \union {Unset}
  <2> DEFINE S == Saying(members, n, k)
             m == CHOOSE i \in S : TRUE
  <2>1. CASE S = {}
    BY <2>1 DEF SaidOf, SaidIn
  <2>2. CASE S # {}
    <3>1. m \in S
      BY <2>2
    <3>2. m \in DOMAIN members /\ members[m][2][1] # "null"
      BY <3>1 DEF Saying, Flat
    <3>3. SaidOf(members, n, k) = Setup!Scalar(members[m][2])
      BY <2>2 DEF SaidOf, SaidIn
    <3> HIDE DEF m, S
    <3>4. QED
      BY <3>2, <3>3 DEF Flat
  <2>3. QED
    BY <2>1, <2>2
<1>2. QED
  BY <1>1 DEF SaidAfter

\* One member more.
LEMMA MemberHolds ==
  ASSUME NEW members, Flat(members), NEW n \in 1 .. Len(members),
         NEW es, Holds(es, SaidAfter(members, n - 1))
  PROVE  Holds(Setup!AddMember(es, members[n]), SaidAfter(members, n))
<1> DEFINE key == members[n][1]
           value == members[n][2]
           was == SaidAfter(members, n - 1)
<1>1. /\ n \in DOMAIN members /\ n - 1 \in 0 .. Len(members) /\ key \in Keys
      /\ n \in 1 .. n /\ \A i \in 1 .. n : i # n <=> i \in 1 .. (n - 1)
      /\ \A i \in 1 .. n : i \in DOMAIN members
  BY DEF Flat
<1>2. \A i \in 1 .. n : members[i][1] = key => i = n
  BY <1>1 DEF Flat
<1>3. \A k \in Keys : k # key => Saying(members, n, k) = Saying(members, n - 1, k)
  BY <1>1 DEF Saying
<1>4. \A k \in Keys : k # key => SaidOf(members, n, k) = SaidOf(members, n - 1, k)
  BY <1>3 DEF SaidOf
<1>5. CASE value[1] = "null"
  <2>1. Saying(members, n, key) = {} /\ Saying(members, n - 1, key) = {}
    BY <1>1, <1>2, <1>5 DEF Saying
  <2>2. SaidOf(members, n, key) = SaidOf(members, n - 1, key)
    BY <2>1 DEF SaidOf
  <2>3. SaidAfter(members, n) = was
    BY <1>4, <2>2 DEF SaidAfter
  <2>4. Setup!AddMember(es, members[n]) = es
    BY <1>5 DEF Setup!AddMember
  <2>5. QED
    BY <2>3, <2>4
<1>6. CASE value[1] # "null"
  <2> DEFINE raw == Setup!Scalar(value)
  <2>1. Saying(members, n, key) = {n}
    BY <1>1, <1>2, <1>6 DEF Saying
  <2>2. (CHOOSE i \in {n} : TRUE) = n
    OBVIOUS
  <2>3. SaidOf(members, n, key) = raw
    BY <2>1, <2>2 DEF SaidOf, SaidIn
  <2>4. raw \in RawTexts
    BY <1>1, <1>6 DEF Flat
  <2>5. was \in [Keys -> RawTexts \union {Unset}]
    BY <1>1, SaidTyped
  <2>6. SaidAfter(members, n) = [was EXCEPT ![key] = raw]
    <3> HIDE DEF key, raw
    <3>1. \A k \in Keys : SaidOf(members, n, k) = IF k = key THEN raw ELSE was[k]
      BY <1>4, <2>3 DEF SaidAfter
    <3> DEFINE now == [was EXCEPT ![key] = raw]
    <3>2. now = [k \in Keys |-> IF k = key THEN raw ELSE was[k]]
      BY DEF SaidAfter
    <3>3. QED
      BY <3>1, <3>2 DEF SaidAfter
  <2>7. Setup!AddMember(es, members[n]) = Setup!Insert(es, key, raw)
    BY <1>6 DEF Setup!AddMember
  <2>8. Holds(es, was) /\ key \in Keys
    BY <1>1
  <2> HIDE DEF key, raw, was
  <2>9. Holds(Setup!Insert(es, key, raw), [was EXCEPT ![key] = raw])
    BY <2>4, <2>5, <2>8, InsertHolds
  <2>10. QED
    BY <2>6, <2>7, <2>9
<1>7. QED
  BY <1>5, <1>6

\* The bag of an object holds what its members say.
LEMMA CollectedHolds ==
  ASSUME NEW members, Flat(members)
  PROVE  Holds(Setup!Collected(members), SaidAfter(members, Len(members)))
<1> DEFINE N == Len(members)
           K == [n \in 0 .. N |-> {es \in Seq(Entry) : Holds(es, SaidAfter(members, n))}]
           F == [n \in 1 .. N |->
                  [es \in K[n - 1] |-> Setup!AddMember(es, members[n])]]
           Collects(g) == g = [n \in 0 .. N |-> IF n = 0 THEN <<>>
                                               ELSE Setup!AddMember(g[n - 1], members[n])]
           bag == CHOOSE g : Collects(g)
<1>1. N \in Nat
  BY DEF Flat
<1>2. ASSUME NEW n \in 1 .. N, NEW es \in K[n - 1]
      PROVE  Setup!AddMember(es, members[n]) \in K[n]
  <2>1. n - 1 \in 0 .. N /\ n \in 0 .. N
    BY <1>1
  <2>2. Holds(es, SaidAfter(members, n - 1))
    BY <1>2, <2>1
  <2>3. Holds(Setup!AddMember(es, members[n]), SaidAfter(members, n))
    BY <2>2, MemberHolds
  <2>4. Setup!AddMember(es, members[n]) \in Seq(Entry)
    BY <2>3 DEF Holds
  <2>5. QED
    BY <2>1, <2>3, <2>4
<1>3. <<>> \in K[0]
  <2>1. \A k \in Keys : SaidAfter(members, 0)[k] = Unset
    BY DEF SaidAfter, SaidOf, SaidIn, Saying
  <2>2. <<>> \in Seq(Entry) /\ DOMAIN <<>> = {}
    OBVIOUS
  <2>3. Holds(<<>>, SaidAfter(members, 0))
    BY <2>1, <2>2 DEF Holds
  <2>4. 0 \in 0 .. N
    BY <1>1
  <2>5. QED
    BY <2>2, <2>3, <2>4
<1>4. Leads(F, K, N)
  <2>1. \A n \in 1 .. N : F[n] = [es \in K[n - 1] |-> Setup!AddMember(es, members[n])]
    OBVIOUS
  <2> HIDE DEF F, K
  <2>2. \A n \in 1 .. N : F[n] \in [K[n - 1] -> K[n]]
    BY <1>2, <2>1
  <2>3. QED
    BY <2>2 DEF Leads
<1>5. PICK g : Follows(g, <<>>, F, N) /\ Within(g, K, N)
  <2> HIDE DEF F, K, N
  <2>1. QED
    BY <1>1, <1>3, <1>4, LoopExists
<1>6. Collects(g)
  <2>1. \A n \in 0 .. N : n # 0 => n \in 1 .. N /\ n - 1 \in 0 .. N
    BY <1>1
  <2>2. \A n \in 0 .. N : g[n] \in K[n]
    BY <1>5 DEF Within
  <2>3. \A n \in 0 .. N : n # 0 => F[n][g[n - 1]] = Setup!AddMember(g[n - 1], members[n])
    <3>1. \A n \in 1 .. N : \A es \in K[n - 1] : F[n][es] = Setup!AddMember(es, members[n])
      OBVIOUS
    <3> HIDE DEF F, K
    <3>2. QED
      BY <2>1, <2>2, <3>1
  <2>4. g = [n \in 0 .. N |-> IF n = 0 THEN <<>> ELSE F[n][g[n - 1]]]
    BY <1>5 DEF Follows
  <2> HIDE DEF F, K
  <2>5. QED
    BY <2>3, <2>4
<1> HIDE DEF F
<1>7. Collects(bag)
  BY <1>6
<1>8. bag[N] \in K[N]
  <2>1. bag[0] = <<>> /\ \A n \in 1 .. N : bag[n] = Setup!AddMember(bag[n - 1], members[n])
    <3>1. bag = [n \in 0 .. N |-> IF n = 0 THEN <<>>
                                 ELSE Setup!AddMember(bag[n - 1], members[n])]
      BY <1>7
    <3>2. 0 \in 0 .. N /\ \A n \in 1 .. N : n \in 0 .. N /\ n # 0
      BY <1>1
    <3> HIDE DEF bag
    <3>3. QED
      BY <3>1, <3>2
  <2> HIDE DEF bag, K, N
  <2>2. \A n \in 1 .. N : bag[n - 1] \in K[n - 1] => bag[n] \in K[n]
    BY <1>2, <2>1
  <2>3. bag[0] \in K[0]
    BY <1>3, <2>1
  <2>4. QED
    BY <1>1, <2>2, <2>3, LoopStays
<1>9. Setup!Collected(members) = bag[N]
  BY DEF Setup!Collected
<1>10. N \in 0 .. N
  BY <1>1
<1> HIDE DEF bag
<1>11. QED
  BY <1>8, <1>9, <1>10

\* What parse_options has after n entries: nothing if one of them was refused,
\* or structs that say what these entries say and the defaults otherwise.
Refused(es, n) == \E i \in 1 .. n : Setup!Meaning(es[i][1], es[i][2]) = {}

States(es, n, s) ==
  /\ \A i \in 1 .. n : /\ es[i][1] \in DOMAIN Defaults
                       /\ s[es[i][1]] \in Setup!Meaning(es[i][1], es[i][2])
  /\ \A k \in DOMAIN Defaults :
       (\A i \in 1 .. n : es[i][1] # k) => s[k] = Defaults[k]

AnyValue(es) ==
  {Defaults[k] : k \in DOMAIN Defaults}
    \union UNION {Setup!Meaning(es[i][1], es[i][2]) : i \in DOMAIN es}

Structs(es) == [DOMAIN Defaults -> AnyValue(es)]

Parsed(es, n) ==
  {P \in SUBSET Structs(es) : (P = {} <=> Refused(es, n)) /\ \A s \in P : States(es, n, s)}

\* A field that the schema does not have means nothing.
LEMMA FieldsOnly ==
  ASSUME NEW key, NEW raw, Setup!Meaning(key, raw) # {}
  PROVE  key \in DOMAIN Defaults
<1>1. PICK f \in Setup!Field(key) : TRUE
  BY DEF Setup!Meaning
<1>2. f \in Setup!ToSet(Schema) /\ f.name = key
  BY <1>1 DEF Setup!Field
<1>3. DOMAIN Defaults = {x.name : x \in Setup!ToSet(Schema)}
  BY SetupAssumption DEF Setup!ToSet
<1>4. QED
  BY <1>2, <1>3

\* One turn, on every struct there may be.
Turn(es, P, n) == UNION {Setup!Apply(s, es[n][1], es[n][2]) : s \in P}

\* One entry more.
LEMMA TurnParses ==
  ASSUME NEW es \in Seq(Entry), \A i, j \in DOMAIN es : es[i][1] = es[j][1] => i = j,
         NEW n \in 1 .. Len(es), NEW P \in Parsed(es, n - 1)
  PROVE  Turn(es, P, n) \in Parsed(es, n)
<1> DEFINE key == es[n][1]
           M == Setup!Meaning(key, es[n][2])
           Q == Turn(es, P, n)
           D == DOMAIN Defaults
<1>1. /\ n \in DOMAIN es /\ n \in 1 .. n
      /\ \A i \in 1 .. n : i # n <=> i \in 1 .. (n - 1)
      /\ \A i \in 1 .. n : i \in DOMAIN es
      /\ \A i \in 1 .. (n - 1) : i \in 1 .. n
  OBVIOUS
<1>2. /\ P \in SUBSET Structs(es) /\ (P = {} <=> Refused(es, n - 1))
      /\ \A s \in P : States(es, n - 1, s)
  BY DEF Parsed
<1>3. \A i \in 1 .. (n - 1) : es[i][1] # key
  BY <1>1
<1>4. Q = {[s EXCEPT ![key] = v] : s \in P, v \in M}
  BY DEF Turn, Setup!Apply
<1>5. Q = {} <=> P = {} \/ M = {}
  <2> HIDE DEF Q, M
  <2>1. ASSUME NEW s \in P, NEW v \in M PROVE Q # {}
    <3>1. [s EXCEPT ![key] = v] \in Q
      BY <1>4
    <3>2. QED
      BY <3>1
  <2>2. ASSUME NEW t \in Q PROVE P # {} /\ M # {}
    BY <1>4
  <2>3. QED
    BY <2>1, <2>2
<1>6. Refused(es, n) <=> Refused(es, n - 1) \/ M = {}
  BY <1>1 DEF Refused
<1>7. ASSUME NEW t \in Q PROVE t \in Structs(es) /\ States(es, n, t)
  <2>1. PICK s \in P, v \in M : t = [s EXCEPT ![key] = v]
    <3> HIDE DEF Q, M
    <3>1. QED
      BY <1>4, <1>7
  <2>2. key \in D
    BY <2>1, FieldsOnly
  <2>3. s \in [D -> AnyValue(es)] /\ States(es, n - 1, s)
    BY <1>2 DEF Structs
  <2>4. v \in AnyValue(es)
    BY <1>1 DEF AnyValue
  <2>5. DOMAIN t = D /\ t[key] = v /\ \A k \in D : k # key => t[k] = s[k]
    <3> HIDE DEF key, D, M
    <3>1. QED
      BY <2>1, <2>2, <2>3
  <2>6. t \in Structs(es)
    <3> HIDE DEF key, D, M
    <3>1. t = [s EXCEPT ![key] = v]
      BY <2>1
    <3>2. t \in [D -> AnyValue(es)]
      BY <3>1, <2>3, <2>4
    <3>3. QED
      BY <3>2 DEF Structs, D
  <2>7. ASSUME NEW i \in 1 .. n
        PROVE  es[i][1] \in D /\ t[es[i][1]] \in Setup!Meaning(es[i][1], es[i][2])
    <3>1. CASE i = n
      BY <2>2, <2>5, <3>1
    <3>2. CASE i # n
      <4>1. i \in 1 .. (n - 1) /\ es[i][1] # key
        BY <1>1, <1>3, <3>2
      <4>2. es[i][1] \in D /\ s[es[i][1]] \in Setup!Meaning(es[i][1], es[i][2])
        BY <2>3, <4>1 DEF States
      <4>3. QED
        BY <2>5, <4>1, <4>2
    <3>3. QED
      BY <3>1, <3>2
  <2>8. ASSUME NEW k \in D, \A i \in 1 .. n : es[i][1] # k PROVE t[k] = Defaults[k]
    <3>1. k # key /\ \A i \in 1 .. (n - 1) : es[i][1] # k
      BY <1>1, <2>8
    <3>2. s[k] = Defaults[k]
      BY <2>3, <3>1 DEF States
    <3>3. QED
      BY <2>5, <3>1, <3>2
  <2>9. States(es, n, t)
    BY <2>7, <2>8 DEF States
  <2>10. QED
    BY <2>6, <2>9
<1> HIDE DEF Q
<1>8. Q \in SUBSET Structs(es) /\ (Q = {} <=> Refused(es, n)) /\ \A t \in Q : States(es, n, t)
  BY <1>2, <1>5, <1>6, <1>7
<1>9. Q \in Parsed(es, n)
  BY <1>8 DEF Parsed
<1>10. QED
  BY <1>9 DEF Q

\* parse_options as a whole.
LEMMA ParseIs ==
  ASSUME NEW es \in Seq(Entry), \A i, j \in DOMAIN es : es[i][1] = es[j][1] => i = j
  PROVE  Setup!Parse(es) \in Parsed(es, Len(es))
<1> DEFINE N == Len(es)
           K == [n \in 0 .. N |-> Parsed(es, n)]
           F == [n \in 1 .. N |-> [P \in K[n - 1] |-> Turn(es, P, n)]]
           start == {Defaults}
           Turns(g) == g = [n \in 0 .. N |-> IF n = 0 THEN start ELSE Turn(es, g[n - 1], n)]
           parsed == CHOOSE g : Turns(g)
<1>1. N \in Nat
  OBVIOUS
<1>2. ASSUME NEW n \in 1 .. N, NEW P \in K[n - 1]
      PROVE  Turn(es, P, n) \in K[n]
  <2>1. n - 1 \in 0 .. N /\ n \in 0 .. N
    BY <1>1
  <2>2. P \in Parsed(es, n - 1)
    BY <1>2, <2>1
  <2>3. Turn(es, P, n) \in Parsed(es, n)
    BY <2>2, TurnParses
  <2>4. QED
    BY <2>1, <2>3
<1>3. start \in K[0]
  <2>1. Defaults \in Structs(es)
    <3>1. DOMAIN Defaults = DOMAIN Defaults
          /\ Defaults = [k \in DOMAIN Defaults |-> Defaults[k]]
      BY SetupAssumption
    <3>2. \A k \in DOMAIN Defaults : Defaults[k] \in AnyValue(es)
      BY DEF AnyValue
    <3>3. QED
      BY <3>1, <3>2 DEF Structs
  <2>2. ~ Refused(es, 0) /\ States(es, 0, Defaults)
    BY DEF Refused, States
  <2>3. start \in Parsed(es, 0)
    BY <2>1, <2>2 DEF Parsed
  <2>4. 0 \in 0 .. N
    BY <1>1
  <2> HIDE DEF start
  <2>5. QED
    BY <2>3, <2>4
<1> HIDE DEF start
<1>4. Leads(F, K, N)
  <2>1. \A n \in 1 .. N : F[n] = [P \in K[n - 1] |-> Turn(es, P, n)]
    OBVIOUS
  <2> HIDE DEF F, K
  <2>2. ASSUME NEW n \in 1 .. N PROVE F[n] \in [K[n - 1] -> K[n]]
    <3>1. F[n] = [P \in K[n - 1] |-> Turn(es, P, n)]
      BY <2>1
    <3>2. \A P \in K[n - 1] : Turn(es, P, n) \in K[n]
      BY <1>2
    <3>3. QED
      BY <3>1, <3>2
  <2>3. QED
    BY <2>2 DEF Leads
<1>5. PICK g : Follows(g, start, F, N) /\ Within(g, K, N)
  <2> HIDE DEF F, K, N
  <2>1. QED
    BY <1>1, <1>3, <1>4, LoopExists
<1>6. Turns(g)
  <2>1. \A n \in 0 .. N : n # 0 => n \in 1 .. N /\ n - 1 \in 0 .. N
    BY <1>1
  <2>2. \A n \in 0 .. N : g[n] \in K[n]
    BY <1>5 DEF Within
  <2>3. \A n \in 0 .. N : n # 0 => F[n][g[n - 1]] = Turn(es, g[n - 1], n)
    <3>1. \A n \in 1 .. N : \A P \in K[n - 1] : F[n][P] = Turn(es, P, n)
      OBVIOUS
    <3> HIDE DEF F, K
    <3>2. QED
      BY <2>1, <2>2, <3>1
  <2>4. g = [n \in 0 .. N |-> IF n = 0 THEN start ELSE F[n][g[n - 1]]]
    BY <1>5 DEF Follows
  <2> HIDE DEF F, K
  <2>5. QED
    BY <2>3, <2>4
<1> HIDE DEF F
<1>7. Turns(parsed)
  BY <1>6
<1>8. parsed[N] \in K[N]
  <2>1. parsed[0] = start /\ \A n \in 1 .. N : parsed[n] = Turn(es, parsed[n - 1], n)
    <3>1. parsed = [n \in 0 .. N |-> IF n = 0 THEN start ELSE Turn(es, parsed[n - 1], n)]
      BY <1>7
    <3>2. 0 \in 0 .. N /\ \A n \in 1 .. N : n \in 0 .. N /\ n # 0
      BY <1>1
    <3> HIDE DEF parsed
    <3>3. QED
      BY <3>1, <3>2
  <2> HIDE DEF parsed, K, N
  <2>2. \A n \in 1 .. N : parsed[n - 1] \in K[n - 1] => parsed[n] \in K[n]
    BY <1>2, <2>1
  <2>3. parsed[0] \in K[0]
    BY <1>3, <2>1
  <2>4. QED
    BY <1>1, <2>2, <2>3, LoopStays
<1>9. Setup!Parse(es) = parsed[N]
  BY DEF Setup!Parse, Turn, start
<1>10. N \in 0 .. N
  BY <1>1
<1> HIDE DEF parsed
<1>11. QED
  BY <1>8, <1>9, <1>10

\* A bag that holds what was said makes the codec see just that.
LEMMA HeldIsSeen ==
  ASSUME OptionsInv
  PROVE  OptionsAsStated
<1> DEFINE es == entries
           said == {k \in Keys : stated[k] # Unset}
           P == Setup!Parse(es)
           D == DOMAIN Defaults
<1>1. /\ es \in Seq(Entry) /\ \A i, j \in DOMAIN es : es[i][1] = es[j][1] => i = j
      /\ \A i \in DOMAIN es : stated[es[i][1]] = es[i][2]
      /\ \A k \in said : \E i \in DOMAIN es : es[i][1] = k
  BY DEF OptionsInv, Holds
<1>2. \A k \in Keys : Setup!Get(es, k) = stated[k]
  BY GetIs DEF OptionsInv
<1>3. \A i \in DOMAIN es : es[i][1] \in said
  BY <1>1, EntryIs, UnsetIsNoText
<1>4. /\ P = {} <=> Refused(es, Len(es))
      /\ \A s \in P : States(es, Len(es), s)
  BY <1>1, ParseIs DEF Parsed
<1>5. DOMAIN es = 1 .. Len(es)
  BY <1>1
<1> HIDE DEF es, P
<1>6. (\E k \in said : Setup!Meaning(k, stated[k]) = {}) <=> P = {}
  <2>1. ASSUME NEW k \in said, Setup!Meaning(k, stated[k]) = {} PROVE Refused(es, Len(es))
    <3>1. PICK i \in DOMAIN es : es[i][1] = k /\ stated[k] = es[i][2]
      BY <1>1
    <3>2. QED
      BY <1>5, <2>1, <3>1 DEF Refused
  <2>2. ASSUME Refused(es, Len(es)) PROVE \E k \in said : Setup!Meaning(k, stated[k]) = {}
    <3>1. PICK i \in DOMAIN es : Setup!Meaning(es[i][1], es[i][2]) = {}
      BY <1>5, <2>2 DEF Refused
    <3>2. es[i][1] \in said /\ stated[es[i][1]] = es[i][2]
      BY <1>1, <1>3
    <3>3. Setup!Meaning(es[i][1], stated[es[i][1]]) = {}
      BY <3>1, <3>2
    <3> HIDE DEF said
    <3>4. QED
      BY <3>2, <3>3
  <2>3. QED
    BY <1>4, <2>1, <2>2
<1>7. ASSUME NEW s \in P, NEW k \in D
      PROVE  IF k \in said THEN s[k] \in Setup!Meaning(k, stated[k]) ELSE s[k] = Defaults[k]
  <2>1. States(es, Len(es), s)
    BY <1>4
  <2>2. CASE k \in said
    <3>1. PICK i \in DOMAIN es : es[i][1] = k /\ stated[k] = es[i][2]
      BY <1>1, <2>2
    <3>2. s[k] \in Setup!Meaning(k, stated[k])
      BY <1>5, <2>1, <3>1 DEF States
    <3>3. QED
      BY <2>2, <3>2
  <2>3. CASE k \notin said
    <3>1. \A i \in 1 .. Len(es) : es[i][1] # k
      BY <1>3, <1>5, <2>3
    <3>2. s[k] = Defaults[k]
      BY <2>1, <3>1 DEF States
    <3>3. QED
      BY <2>3, <3>2
  <2>4. QED
    BY <2>2, <2>3
<1>8. QED
  BY <1>2, <1>6, <1>7 DEF OptionsAsStated, Setup!OptionsAsStated, es, P

\* Whatever JSON document is loaded, the bag holds what it says.
LEMMA LoadHolds ==
  ASSUME OptionsInv, NEW d \in Objects, Setup!LoadJson(d)
  PROVE  OptionsInv'
<1> DEFINE members == d[2]
<1>1. CASE UNCHANGED <<entries, stated>>
  BY <1>1 DEF OptionsInv, Holds
<1>2. CASE entries' \in Setup!FromJson(d)
  <2>1. ~ (Setup!FromJson(d) = {})
    BY <1>2
  <2>2. stated' = [k \in Keys |->
             IF d[1] = "null" THEN Unset
             ELSE LET said == {i \in DOMAIN members :
                                 members[i][1] = k /\ members[i][2][1] # "null"}
                  IN  IF said = {} THEN Unset
                      ELSE Setup!Scalar(members[CHOOSE i \in said : TRUE][2])]
    BY <2>1 DEF Setup!LoadJson
  <2>3. CASE d[1] = "null"
    <3>1. entries' = <<>>
      BY <1>2, <2>3 DEF Setup!FromJson
    <3>2. stated' = [k \in Keys |-> Unset]
      BY <2>2, <2>3
    <3>3. <<>> \in Seq(Entry) /\ DOMAIN <<>> = {}
      OBVIOUS
    <3>4. QED
      BY <3>1, <3>2, <3>3 DEF OptionsInv, Holds
  <2>4. CASE d[1] = "object"
    <3>1. /\ ~ \E i \in DOMAIN members : members[i][2][1] \in {"array", "object"}
          /\ entries' = Setup!Collected(members)
      BY <1>2, <2>4 DEF Setup!FromJson
    <3>2. Flat(members)
      BY <2>4, <3>1, FlatIs
    <3>3. DOMAIN members = 1 .. Len(members) /\ Len(members) \in 0 .. Len(members)
      BY <3>2 DEF Flat
    <3>4. stated' = SaidAfter(members, Len(members))
      <4> HIDE DEF members
      <4>1. \A k \in Keys : {i \in DOMAIN members : members[i][1] = k /\ members[i][2][1] # "null"}
                              = Saying(members, Len(members), k)
        BY <3>3 DEF Saying
      <4>2. QED
        BY <2>2, <2>4, <4>1 DEF SaidAfter, SaidOf, SaidIn
    <3> HIDE DEF members
    <3>5. Holds(Setup!Collected(members), SaidAfter(members, Len(members)))
      BY <3>2, CollectedHolds
    <3>6. SaidAfter(members, Len(members)) \in [Keys -> RawTexts \union {Unset}]
      BY <3>2, <3>3, SaidTyped
    <3>7. QED
      BY <3>1, <3>4, <3>5, <3>6 DEF OptionsInv, Holds
  <2>5. QED
    BY <1>2, <2>3, <2>4 DEF Setup!FromJson
<1>3. QED
  BY <1>1, <1>2 DEF Setup!LoadJson

-----------------------------------------------------------------------------
(* Capabilities.                                                           *)

\* What Min and Max pick.
LEMMA MinIs ==
  ASSUME NEW D \in SUBSET Int, NEW m \in D, \A k \in D : m <= k
  PROVE  Setup!Min(D) = m
<1>1. \A x \in D : (\A y \in D : x =< y) => x = m
  BY SMT
<1>2. m \in D /\ \A y \in D : m =< y
  OBVIOUS
<1>3. Setup!Min(D) \in D /\ \A y \in D : Setup!Min(D) =< y
  BY <1>2 DEF Setup!Min
<1>4. QED
  BY <1>1, <1>3

LEMMA MaxIs ==
  ASSUME NEW D \in SUBSET Int, NEW m \in D, \A k \in D : k <= m
  PROVE  Setup!Max(D) = m
<1>1. \A x \in D : (\A y \in D : x >= y) => x = m
  BY SMT
<1>2. m \in D /\ \A y \in D : m >= y
  OBVIOUS
<1>3. Setup!Max(D) \in D /\ \A y \in D : Setup!Max(D) >= y
  BY <1>2 DEF Setup!Max
<1>4. QED
  BY <1>1, <1>3

LEMMA PairIs ==
  ASSUME NEW m \in Int, NEW n \in Int
  PROVE  /\ Setup!Min({m, n}) = IF m <= n THEN m ELSE n
         /\ Setup!Max({m, n}) = IF m <= n THEN n ELSE m
<1>1. CASE m <= n
  BY <1>1, MinIs, MaxIs
<1>2. CASE ~ (m <= n)
  BY <1>2, MinIs, MaxIs
<1>3. QED
  BY <1>1, <1>2

LEMMA GreaterOf ==
  ASSUME NEW k \in Int, NEW m \in Int, NEW n \in Int, k <= m \/ k = n
  PROVE  k <= IF n <= m THEN m ELSE n
OBVIOUS

\* A sequence of numbers has a greatest.
LEMMA GreatestOf ==
  ASSUME NEW s \in Seq(Int), s # <<>>
  PROVE  \E m \in DOMAIN s : \A i \in DOMAIN s : s[i] <= s[m]
<1> DEFINE N == Len(s)
           Top(n) == \E m \in 1 .. n : \A i \in 1 .. n : s[i] <= s[m]
           Bad == {n \in Nat : n # 0 /\ n <= N /\ ~ Top(n)}
<1>1. DOMAIN s = 1 .. N /\ N \in Nat /\ N # 0 /\ \A i \in 1 .. N : s[i] \in Int
  OBVIOUS
<1>2. SUFFICES ASSUME Bad # {} PROVE FALSE
  <2>1. N \notin Bad => Top(N)
    BY <1>1
  <2> HIDE DEF Bad, N
  <2>2. Top(N) => \E m \in DOMAIN s : \A i \in DOMAIN s : s[i] <= s[m]
    BY <1>1
  <2>3. QED
    BY <2>1, <2>2
<1>3. PICK n \in Bad : \A k \in Bad : n <= k
  <2> HIDE DEF Bad
  <2>1. Bad \in SUBSET Nat
    BY DEF Bad
  <2>2. QED
    BY <1>2, <2>1, LeastOf
<1>4. n \in Nat /\ n # 0 /\ n <= N /\ ~ Top(n)
  BY <1>3
<1>5. CASE n = 1
  <2>1. \A i \in 1 .. 1 : i = 1
    OBVIOUS
  <2>2. s[1] <= s[1] /\ 1 \in 1 .. 1
    BY <1>1, <1>4
  <2>3. Top(1)
    BY <2>1, <2>2
  <2>4. QED
    BY <1>4, <1>5, <2>3
<1>6. CASE n # 1
  <2>1. n - 1 \in Nat /\ n - 1 # 0 /\ n - 1 <= N /\ ~ (n <= n - 1)
    BY <1>4, <1>6
  <2>2. Top(n - 1)
    BY <1>3, <2>1
  <2>3. PICK m \in 1 .. (n - 1) : \A i \in 1 .. (n - 1) : s[i] <= s[m]
    BY <2>2
  <2>4. /\ \A i \in 1 .. n : i \in 1 .. N /\ (i = n \/ i \in 1 .. (n - 1))
        /\ m \in 1 .. n /\ n \in 1 .. n
    <3> HIDE DEF N, Top, Bad
    <3>1. \A i \in 1 .. n : i \in 1 .. N /\ (i = n \/ i \in 1 .. (n - 1))
      BY <1>1, <1>4
    <3>2. m \in 1 .. n /\ n \in 1 .. n
      BY <1>4, <2>1, <2>3
    <3>3. QED
      BY <3>1, <3>2
  <2> DEFINE x == IF s[n] <= s[m] THEN m ELSE n
  <2>5. s[n] \in Int /\ s[m] \in Int
    BY <1>1, <2>4
  <2>6. \A i \in 1 .. n : s[i] <= s[x]
    <3> TAKE i \in 1 .. n
    <3>1. s[i] \in Int
      BY <1>1, <2>4
    <3>2. s[i] <= s[m] \/ s[i] = s[n]
      BY <2>3, <2>4
    <3>3. s[x] = IF s[n] <= s[m] THEN s[m] ELSE s[n]
      OBVIOUS
    <3>4. QED
      BY <2>5, <3>1, <3>2, <3>3, GreaterOf
  <2>7. x \in 1 .. n
    BY <2>4
  <2> HIDE DEF x
  <2>8. Top(n)
    BY <2>6, <2>7
  <2>9. QED
    BY <1>4, <2>8
<1>7. QED
  BY <1>5, <1>6

RatesInv == DOMAIN caps = {"limits", "rates", "kinds"} /\ caps.rates \in Seq(Rates)

\* The rate picked is the one asked for, the least above it, or the greatest.
LEMMA PickIs ==
  ASSUME NEW c, c.rates \in Seq(Int), NEW rate \in Int
  PROVE  LET D == Setup!ToSet(c.rates)
             picked == Setup!PickSampleRate(c, rate)
         IN  /\ D \in SUBSET Int
             /\ D = {} => picked = rate
             /\ rate \in D => picked = rate
             /\ D # {} => picked \in D
             /\ picked < rate => \A r \in D : r <= picked
             /\ picked > rate => \A r \in D : r <= rate \/ picked <= r
<1> DEFINE D == Setup!ToSet(c.rates)
           above == {r \in D : r > rate}
           picked == Setup!PickSampleRate(c, rate)
<1>1. D = {c.rates[i] : i \in DOMAIN c.rates} /\ \A i \in DOMAIN c.rates : c.rates[i] \in Int
  BY DEF Setup!ToSet
<1>2. D \in SUBSET Int
  BY <1>1
<1>3. picked = IF D = {} \/ rate \in D THEN rate
               ELSE IF above # {} THEN Setup!Min(above) ELSE Setup!Max(D)
  BY DEF Setup!PickSampleRate
<1>4. CASE D = {} \/ rate \in D
  <2>1. picked = rate
    BY <1>3, <1>4
  <2> HIDE DEF D, picked
  <2>2. QED
    BY <1>2, <1>4, <2>1 DEF D, picked
<1>5. CASE ~ (D = {} \/ rate \in D) /\ above # {}
  <2>1. picked = Setup!Min(above)
    BY <1>3, <1>5
  <2>2. PICK m \in above : \A k \in above : m <= k
    <3> DEFINE E == {r - rate : r \in above}
    <3>1. E \in SUBSET Nat /\ E # {}
      BY <1>2, <1>5
    <3>2. PICK e \in E : \A k \in E : e <= k
      <4> HIDE DEF E
      <4>1. QED
        BY <3>1, LeastOf
    <3>3. PICK m \in above : e = m - rate
      BY <3>2
    <3>4. \A k \in above : m <= k
      <4> TAKE k \in above
      <4>1. e <= k - rate /\ k \in Int /\ m \in Int
        BY <1>2, <3>2
      <4>2. QED
        BY <3>3, <4>1
    <3>5. QED
      BY <3>4
  <2>3. above \in SUBSET Int
    BY <1>2
  <2>4. picked = m
    <3> HIDE DEF above, picked
    <3>1. QED
      BY <2>1, <2>2, <2>3, MinIs
  <2>5. m \in D /\ m > rate /\ m \in Int
    BY <1>2
  <2>6. \A r \in D : r <= rate \/ m <= r
    BY <1>2, <2>2
  <2> HIDE DEF D, picked
  <2>7. QED
    BY <1>2, <1>5, <2>4, <2>5, <2>6 DEF D, picked
<1>6. CASE ~ (D = {} \/ rate \in D) /\ above = {}
  <2>1. picked = Setup!Max(D)
    BY <1>3, <1>6
  <2>2. c.rates # <<>>
    BY <1>1, <1>6
  <2>3. PICK i \in DOMAIN c.rates : \A j \in DOMAIN c.rates : c.rates[j] <= c.rates[i]
    BY <2>2, GreatestOf
  <2> DEFINE m == c.rates[i]
  <2>4. m \in D /\ \A k \in D : k <= m
    BY <1>1, <2>3
  <2> HIDE DEF m
  <2>5. picked = m
    <3> HIDE DEF D, picked
    <3>1. QED
      BY <1>2, <2>1, <2>4, MaxIs
  <2>6. ~ (m > rate)
    BY <1>6, <2>4
  <2> HIDE DEF D, picked
  <2>7. QED
    BY <1>2, <1>6, <2>4, <2>5, <2>6 DEF D, picked
<1>7. QED
  BY <1>4, <1>5, <1>6

\* What is picked from the declared rates keeps the bandwidth.
LEMMA PickKeeps ==
  ASSUME RatesInv
  PROVE  RateKeepsBandwidth
<1> DEFINE D == Setup!ToSet(caps.rates)
<1>1. caps.rates \in Seq(Int) /\ Rates \subseteq Int
  BY SetupAssumption DEF RatesInv
<1>2. ASSUME NEW rate \in Rates, NEW picked, picked = Setup!PickSampleRate(caps, rate)
      PROVE  /\ \A r \in D : ~ (Setup!Min({rate, picked}) < r /\ r < Setup!Max({rate, picked}))
             /\ picked < rate => \A r \in D : r < rate
             /\ Setup!PickSampleRate(caps, picked) = picked
             /\ picked = rate \/ picked \in D
  <2>1. /\ D \in SUBSET Int /\ rate \in Int
        /\ D = {} => picked = rate
        /\ rate \in D => picked = rate
        /\ D # {} => picked \in D
        /\ picked < rate => \A r \in D : r <= picked
        /\ picked > rate => \A r \in D : r <= rate \/ picked <= r
    BY <1>1, <1>2, PickIs
  <2>2. /\ D = {} => Setup!PickSampleRate(caps, picked) = picked
        /\ picked \in D => Setup!PickSampleRate(caps, picked) = picked
    <3>1. picked \in Int
      BY <2>1
    <3>2. QED
      BY <1>1, <3>1, PickIs
  <2> HIDE DEF D
  <2>3. picked \in Int
    BY <2>1
  <2>4. /\ Setup!Min({rate, picked}) = IF rate <= picked THEN rate ELSE picked
        /\ Setup!Max({rate, picked}) = IF rate <= picked THEN picked ELSE rate
    BY <2>1, <2>3, PairIs
  <2> DEFINE low == Setup!Min({rate, picked})
             high == Setup!Max({rate, picked})
  <2>5. \A r \in D : ~ (low < r /\ r < high)
    <3> HIDE DEF low, high
    <3>1. low = (IF rate <= picked THEN rate ELSE picked)
          /\ high = (IF rate <= picked THEN picked ELSE rate)
      BY <2>4 DEF low, high
    <3>2. QED
      BY <2>1, <2>3, <3>1
  <2>6. picked < rate => \A r \in D : r < rate
    BY <2>1, <2>3
  <2>7. QED
    BY <2>1, <2>2, <2>5, <2>6
<1> DEFINE params(r) == [l \in Setup!Limits |-> IF l = "sample_rate" THEN r ELSE Unset]
           Fit(r) == Setup!Fits(caps, params(r))
<1>3. ASSUME NEW rate \in Rates, NEW picked, picked = rate \/ picked \in D
      PROVE  (\A r \in D : Fit(r)) /\ Fit(rate) => Fit(picked)
  <2> HIDE DEF Fit, D
  <2>1. QED
    BY <1>3
<1>4. QED
  BY <1>2, <1>3 DEF RateKeepsBandwidth, Setup!RateKeepsBandwidth

-----------------------------------------------------------------------------
(* Setting up an encoder, step by step.                                    *)

SetupInv == OptionsInv /\ RatesInv

LEMMA SetupStarts == AnyInit => SetupInv
<1> SUFFICES ASSUME AnyInit PROVE SetupInv
  OBVIOUS
<1>1. entries = <<>> /\ stated = [k \in Keys |-> Unset] /\ caps = Setup!NewCaps
  BY DEF AnyInit, Setup!Init
<1>2. <<>> \in Seq(Entry) /\ <<>> \in Seq(Rates) /\ DOMAIN <<>> = {}
  OBVIOUS
<1>3. OptionsInv
  BY <1>1, <1>2 DEF OptionsInv, Holds
<1>4. RatesInv
  BY <1>1, <1>2 DEF RatesInv, Setup!NewCaps
<1>5. QED
  BY <1>3, <1>4 DEF SetupInv

\* Declaring one capability leaves the others as they were.
LEMMA DeclareKeeps ==
  ASSUME RatesInv, Setup!Declare
  PROVE  RatesInv'
<1>1. ASSUME NEW l, NEW n, caps' = Setup!WithMax(caps, l, n) PROVE RatesInv'
  BY <1>1 DEF RatesInv, Setup!WithMax
<1>2. ASSUME NEW w, NEW h, caps' = Setup!WithMaxSize(caps, w, h) PROVE RatesInv'
  BY <1>2 DEF RatesInv, Setup!WithMaxSize, Setup!WithMax
<1>3. ASSUME NEW rates \in Setup!SeqOf(Rates, 2), caps' = Setup!WithSampleRates(caps, rates)
      PROVE  RatesInv'
  <2>1. rates \in Seq(Rates)
    <3>1. PICK m \in 0 .. 2 : rates \in [1 .. m -> Rates]
      BY <1>3 DEF Setup!SeqOf
    <3>2. m \in Nat
      OBVIOUS
    <3>3. QED
      BY <3>1, <3>2
  <2>2. QED
    BY <1>3, <2>1 DEF RatesInv, Setup!WithSampleRates
<1>4. ASSUME NEW kind, caps' = Setup!WithBlobKind(caps, kind) PROVE RatesInv'
  BY <1>4 DEF RatesInv, Setup!WithBlobKind
<1>5. ASSUME NEW kinds, caps' = Setup!WithBlobKinds(caps, kinds) PROVE RatesInv'
  BY <1>5 DEF RatesInv, Setup!WithBlobKinds
<1>6. QED
  BY <1>1, <1>2, <1>3, <1>4, <1>5 DEF Setup!Declare

LEMMA SetupStays == SetupInv /\ [AnyNext]_<<vars, setup>> => SetupInv'
<1> SUFFICES ASSUME SetupInv, [AnyNext]_<<vars, setup>> PROVE SetupInv'
  OBVIOUS
<1> USE DEF SetupInv
<1>1. CASE UNCHANGED setup
  BY <1>1 DEF setup, OptionsInv, Holds, RatesInv
<1>2. CASE Setup!Next
  <2>1. ASSUME NEW k \in Keys, NEW r \in Raws, Setup!SetOption(k, r) PROVE SetupInv'
    <3>1. r \in RawTexts
      BY DEF RawTexts
    <3>2. /\ stated \in [Keys -> RawTexts \union {Unset}] /\ Holds(entries, stated)
          /\ entries' = Setup!Insert(entries, k, r) /\ stated' = [stated EXCEPT ![k] = r]
      BY <2>1 DEF OptionsInv, Setup!SetOption
    <3>3. Holds(Setup!Insert(entries, k, r), [stated EXCEPT ![k] = r])
      BY <3>1, <3>2, InsertHolds
    <3>4. [stated EXCEPT ![k] = r] \in [Keys -> RawTexts \union {Unset}]
      BY <3>1, <3>2
    <3>5. OptionsInv'
      BY <3>2, <3>3, <3>4 DEF OptionsInv, Holds
    <3>6. RatesInv'
      BY <2>1 DEF Setup!SetOption, RatesInv
    <3>7. QED
      BY <3>5, <3>6
  <2>2. ASSUME NEW d \in Objects, Setup!LoadJson(d) PROVE SetupInv'
    <3>1. OptionsInv'
      BY <2>2, LoadHolds
    <3>2. RatesInv'
      BY <2>2 DEF Setup!LoadJson, RatesInv
    <3>3. QED
      BY <3>1, <3>2
  <2>3. CASE Setup!Declare
    <3>1. UNCHANGED <<entries, stated>>
      BY <2>3 DEF Setup!Declare
    <3>2. OptionsInv'
      BY <3>1 DEF OptionsInv, Holds
    <3>3. RatesInv'
      BY <2>3, DeclareKeeps
    <3>4. QED
      BY <3>2, <3>3
  <2>4. QED
    BY <1>2, <2>1, <2>2, <2>3 DEF Setup!Next
<1>3. QED
  BY <1>1, <1>2 DEF AnyNext, OneCall

\* The bag holds each key once, with what was last said of it, and the declared
\* rates are rates, whatever calls set the encoder up.
THEOREM SetupInvariant == AnySpec => []SetupInv
BY SetupStarts, SetupStays, PTL DEF AnySpec

\* The codec sees each option as last stated, or refuses them all
\* (CodecSetup!OptionsAsStated).
THEOREM OptionsSeen == AnySpec => []OptionsAsStated
<1>1. SetupInv => OptionsAsStated
  BY HeldIsSeen DEF SetupInv
<1>2. QED
  BY <1>1, SetupInvariant, PTL

\* The sample rate picked for an encoder loses no bandwidth it could keep
\* (CodecSetup!RateKeepsBandwidth).
THEOREM BandwidthKept == AnySpec => []RateKeepsBandwidth
<1>1. SetupInv => RateKeepsBandwidth
  BY PickKeeps DEF SetupInv
<1>2. QED
  BY <1>1, SetupInvariant, PTL

-----------------------------------------------------------------------------
(* The labels of pixel formats.                                            *)

\* A variant's family and bits.
Variant(x, n) ==
  \/ x \in {"Yuv420P", "Yuv422P", "Yuv444P"} /\ n \in {8, 10, 12, 16}
  \/ x \in {"YuvJ420P", "YuvJ422P", "YuvJ444P", "Yuv411P"} /\ n = 8
  \/ x = "Yuv440P" /\ n \in {8, 10, 12, 16}
  \/ x \in {"Yuva420P", "Yuva422P", "Yuva444P"} /\ n \in {8, 10, 12, 16}
  \/ x \in {"Gbrp", "Gbrap"} /\ n \in {8, 10, 12, 14, 16, 32}
  \/ x \in {"Rgb", "Rgba"} /\ n \in {8, 16, 32}
  \/ x = "Gray" /\ n \in {8, 10, 12, 16, 32}
  \/ x = "Ya" /\ n \in {8, 16}
  \/ x \in {"Pal", "Bgr", "Bgra", "Argb", "Abgr", "Nv12", "Nv21", "Yuyv422", "Uyvy422", "Cmyk",
            "CmykInverted", "Rgbx", "Bgrx", "Xrgb", "Xbgr"} /\ n = 8
  \/ x \in {"MonoBlack", "MonoWhite"} /\ n = 1
  \/ x \in {"Rgb555Le", "Rgb555Be", "Bgr555Le", "Bgr555Be"} /\ n = 5
  \/ x \in {"Rgb565Le", "Rgb565Be", "Bgr565Le", "Bgr565Be"} /\ n = 6

LEMMA VariantIs ==
  ASSUME NEW f
  PROVE  f \in Tables!PixelFormat <=> f = <<f[1], f[2]>> /\ Variant(f[1], f[2])
<1> USE DEF Variant, Tables!PixelFormat
<1> DEFINE x == f[1]
           n == f[2]
           Pair == f = <<f[1], f[2]>>
<1>1. ASSUME f \in UNION {Tables!Original, Tables!Palette, Tables!Swizzles, Tables!DeepPackedRgb,
                          Tables!DeepGray, Tables!DeepYuv, Tables!FullRangeYuv,
                          Tables!SemiPlanar, Tables!WithAlpha, Tables!BitMono}
      PROVE  Pair /\ Variant(x, n)
  BY <1>1 DEF Tables!Original, Tables!Palette, Tables!Swizzles, Tables!DeepPackedRgb,
              Tables!DeepGray, Tables!DeepYuv, Tables!FullRangeYuv, Tables!SemiPlanar,
              Tables!WithAlpha, Tables!BitMono
<1>2. ASSUME f \in UNION {Tables!Macropixel, Tables!Prepress, Tables!Wide, Tables!DeepGbr,
                          Tables!FullWidthYuv, Tables!ByteYuva, Tables!DeepYuva,
                          Tables!GbrLadderEnds, Tables!DeepYuva420, Tables!ByteGbra}
      PROVE  Pair /\ Variant(x, n)
  BY <1>2 DEF Tables!Macropixel, Tables!Prepress, Tables!Wide, Tables!DeepGbr,
              Tables!FullWidthYuv, Tables!ByteYuva, Tables!DeepYuva,
              Tables!GbrLadderEnds, Tables!DeepYuva420, Tables!ByteGbra
<1>3. ASSUME f \in UNION {Tables!DeepGrayAlpha, Tables!InvertedInk, Tables!Yuv440, Tables!Float,
                          Tables!WordRgb, Tables!PaddedRgb}
      PROVE  Pair /\ Variant(x, n)
  BY <1>3 DEF Tables!DeepGrayAlpha, Tables!InvertedInk, Tables!Yuv440, Tables!Float,
              Tables!WordRgb, Tables!PaddedRgb
<1>4. ASSUME Pair, Variant(x, n) PROVE f \in Tables!PixelFormat
  <2>1. CASE x \in {"Yuv420P", "Yuv422P", "Yuv444P"}
    BY <1>4, <2>1 DEF Tables!Original, Tables!DeepYuv, Tables!FullWidthYuv
  <2>2. CASE x \in {"YuvJ420P", "YuvJ422P", "YuvJ444P", "Yuv411P", "Yuv440P"}
    BY <1>4, <2>2 DEF Tables!FullRangeYuv, Tables!Wide, Tables!Yuv440
  <2>3. CASE x \in {"Yuva420P", "Yuva422P", "Yuva444P"}
    BY <1>4, <2>3 DEF Tables!WithAlpha, Tables!ByteYuva, Tables!DeepYuva, Tables!DeepYuva420
  <2>4. CASE x \in {"Gbrp", "Gbrap"}
    BY <1>4, <2>4 DEF Tables!DeepGbr, Tables!GbrLadderEnds, Tables!ByteGbra, Tables!Float
  <2>5. CASE x \in {"Rgb", "Rgba"}
    BY <1>4, <2>5 DEF Tables!Original, Tables!DeepPackedRgb, Tables!Float
  <2>6. CASE x \in {"Gray", "Ya"}
    BY <1>4, <2>6 DEF Tables!Original, Tables!DeepGray, Tables!Float, Tables!WithAlpha,
                      Tables!DeepGrayAlpha
  <2>7. CASE x \in {"Pal", "Bgr", "Bgra", "Argb", "Abgr", "Nv12", "Nv21"}
    BY <1>4, <2>7 DEF Tables!Palette, Tables!Swizzles, Tables!SemiPlanar
  <2>8. CASE x \in {"Yuyv422", "Uyvy422", "Cmyk", "CmykInverted", "Rgbx", "Bgrx", "Xrgb", "Xbgr"}
    BY <1>4, <2>8 DEF Tables!Macropixel, Tables!Prepress, Tables!InvertedInk, Tables!PaddedRgb
  <2>9. CASE n \in {1, 5, 6}
    BY <1>4, <2>9 DEF Tables!BitMono, Tables!WordRgb
  <2>10. QED
    BY <1>4, <2>1, <2>2, <2>3, <2>4, <2>5, <2>6, <2>7, <2>8, <2>9
<1>5. QED
  BY <1>1, <1>2, <1>3, <1>4

\* The named sets of variants are families.
LEMMA FamiliesAre ==
  ASSUME NEW f \in Tables!PixelFormat
  PROVE  /\ \A names : f \in Tables!Families(names) <=> f[1] \in names
         /\ f \in Tables!BitMono <=> f[1] \in {"MonoBlack", "MonoWhite"}
         /\ f \in Tables!WordRgb <=>
              f[1] \in {"Rgb555Le", "Rgb555Be", "Bgr555Le", "Bgr555Be",
                        "Rgb565Le", "Rgb565Be", "Bgr565Le", "Bgr565Be"}
         /\ f \in Tables!PaddedRgb <=> f[1] \in {"Rgbx", "Bgrx", "Xrgb", "Xbgr"}
         /\ f \in Tables!SemiPlanar <=> f[1] \in {"Nv12", "Nv21"}
         /\ f \in Tables!Macropixel <=> f[1] \in {"Yuyv422", "Uyvy422"}
         /\ f \in Tables!FullRangeYuv <=> f[1] \in {"YuvJ420P", "YuvJ422P", "YuvJ444P"}
         /\ f \in Tables!Float => f[2] = 32
<1>1. f = <<f[1], f[2]>> /\ Variant(f[1], f[2])
  BY VariantIs
<1>2. \A names : f \in Tables!Families(names) <=> f[1] \in names
  BY DEF Tables!Families
<1>3. f \in Tables!BitMono <=> f[1] \in {"MonoBlack", "MonoWhite"}
  BY <1>1 DEF Variant, Tables!BitMono
<1>4. f \in Tables!WordRgb <=>
        f[1] \in {"Rgb555Le", "Rgb555Be", "Bgr555Le", "Bgr555Be",
                  "Rgb565Le", "Rgb565Be", "Bgr565Le", "Bgr565Be"}
  BY <1>1 DEF Variant, Tables!WordRgb
<1>5. f \in Tables!PaddedRgb <=> f[1] \in {"Rgbx", "Bgrx", "Xrgb", "Xbgr"}
  BY <1>1 DEF Variant, Tables!PaddedRgb
<1>6. f \in Tables!SemiPlanar <=> f[1] \in {"Nv12", "Nv21"}
  BY <1>1 DEF Variant, Tables!SemiPlanar
<1>7. f \in Tables!Macropixel <=> f[1] \in {"Yuyv422", "Uyvy422"}
  BY <1>1 DEF Variant, Tables!Macropixel
<1>8. f \in Tables!FullRangeYuv <=> f[1] \in {"YuvJ420P", "YuvJ422P", "YuvJ444P"}
  BY <1>1 DEF Variant, Tables!FullRangeYuv
<1>9. f \in Tables!Float => f[2] = 32
  BY <1>1 DEF Variant, Tables!Float
<1>10. QED
  BY <1>2, <1>3, <1>4, <1>5, <1>6, <1>7, <1>8, <1>9

LEMMA CountedAlike == ASSUME NEW S PROVE Tables!Cardinality(S) = Cardinality(S)
BY DEF Tables!Cardinality, Cardinality

\* Components are counted.
LEMMA CountIs ==
  /\ Cardinality({"R", "G", "B"}) = 3
  /\ Cardinality({"R", "G", "B", "A"}) = 4
  /\ Cardinality({"Y", "U", "V"}) = 3
  /\ Cardinality({"Y", "A", "U", "V"}) = 4
<1>1. IsFiniteSet({"R"}) /\ Cardinality({"R"}) = 1 /\ IsFiniteSet({"Y"}) /\ Cardinality({"Y"}) = 1
  BY FS_Singleton
<1>2. IsFiniteSet({"R", "G"}) /\ Cardinality({"R", "G"}) = 2
  <2>1. {"R", "G"} = {"R"} \union {"G"} /\ "G" \notin {"R"}
    OBVIOUS
  <2>2. QED
    BY <1>1, <2>1, FS_AddElement
<1>3. IsFiniteSet({"R", "G", "B"}) /\ Cardinality({"R", "G", "B"}) = 3
  <2>1. {"R", "G", "B"} = {"R", "G"} \union {"B"} /\ "B" \notin {"R", "G"}
    OBVIOUS
  <2>2. QED
    BY <1>2, <2>1, FS_AddElement
<1>4. IsFiniteSet({"R", "G", "B", "A"}) /\ Cardinality({"R", "G", "B", "A"}) = 4
  <2>1. {"R", "G", "B", "A"} = {"R", "G", "B"} \union {"A"} /\ "A" \notin {"R", "G", "B"}
    OBVIOUS
  <2>2. QED
    BY <1>3, <2>1, FS_AddElement
<1>5. IsFiniteSet({"Y", "U"}) /\ Cardinality({"Y", "U"}) = 2
  <2>1. {"Y", "U"} = {"Y"} \union {"U"} /\ "U" \notin {"Y"}
    OBVIOUS
  <2>2. QED
    BY <1>1, <2>1, FS_AddElement
<1>6. IsFiniteSet({"Y", "U", "V"}) /\ Cardinality({"Y", "U", "V"}) = 3
  <2>1. {"Y", "U", "V"} = {"Y", "U"} \union {"V"} /\ "V" \notin {"Y", "U"}
    OBVIOUS
  <2>2. QED
    BY <1>5, <2>1, FS_AddElement
<1>7. IsFiniteSet({"Y", "A", "U", "V"}) /\ Cardinality({"Y", "A", "U", "V"}) = 4
  <2>1. {"Y", "A", "U", "V"} = {"Y", "U", "V"} \union {"A"} /\ "A" \notin {"Y", "U", "V"}
    OBVIOUS
  <2>2. QED
    BY <1>6, <2>1, FS_AddElement
<1>8. QED
  BY <1>3, <1>4, <1>6, <1>7

Labels(f, w, h) ==
  /\ Tables!HasAlpha(f) <=> "A" \in Tables!Components(f)
  /\ Tables!IsRgb(f) <=> f \in Tables!WordRgb \/ {"R", "G", "B"} \subseteq Tables!Components(f)
  /\ Tables!IsPackedRgb(f) <=> Tables!IsRgb(f) /\ ~ Tables!IsPlanar(f)
  /\ Tables!IsPlanar(f) <=> Tables!PlaneDimensions(f, 1, w, h) # {}
  /\ Tables!PlaneCount(f) \in {1, 2, Tables!Cardinality(Tables!Components(f))}
  /\ Tables!ChromaSubsampling(f) # {} <=> "U" \in Tables!Components(f)
  /\ Tables!ImpliedColorRange(f) # {} => "U" \in Tables!Components(f) /\ ~ Tables!HasAlpha(f)
  /\ Tables!IsFloat(f) => Tables!WordBits(f) = 32

\* What a pixel of each family has.
LEMMA ComponentsAre ==
  ASSUME NEW f \in Tables!PixelFormat
  PROVE  \/ f[1] \in {"MonoBlack", "MonoWhite", "Gray", "Pal"} /\ Tables!Components(f) = {"Y"}
         \/ f[1] \in {"Ya"} /\ Tables!Components(f) = {"Y", "A"}
         \/ f[1] \in {"Rgb555Le", "Rgb555Be", "Bgr555Le", "Bgr555Be",
                    "Rgb565Le", "Rgb565Be", "Bgr565Le", "Bgr565Be"} /\ Tables!Components(f) = {"RGB"}
         \/ f[1] \in {"Rgbx", "Bgrx", "Xrgb", "Xbgr"} /\ Tables!Components(f) = {"R", "G", "B", "X"}
         \/ f[1] \in {"Cmyk", "CmykInverted"} /\ Tables!Components(f) = {"C", "M", "Y", "K"}
         \/ f[1] \in {"Rgba", "Bgra", "Argb", "Abgr", "Gbrap"} /\ Tables!Components(f) = {"R", "G", "B", "A"}
         \/ f[1] \in {"Rgb", "Bgr", "Gbrp"} /\ Tables!Components(f) = {"R", "G", "B"}
         \/ f[1] \in {"Yuva420P", "Yuva422P", "Yuva444P"} /\ Tables!Components(f) = {"Y", "A", "U", "V"}
         \/ f[1] \in {"Yuv420P", "Yuv422P", "Yuv444P", "Yuv411P", "Yuv440P", "YuvJ420P",
                    "YuvJ422P", "YuvJ444P", "Nv12", "Nv21", "Yuyv422", "Uyvy422"} /\ Tables!Components(f) = {"Y", "U", "V"}
<1>1. f = <<f[1], f[2]>> /\ Variant(f[1], f[2])
  BY VariantIs
<1>2. QED
  BY <1>1, FamiliesAre DEF Variant, Tables!Components, Tables!Chroma, Tables!Yuv, Tables!Yuva

LEMMA LabelsHold ==
  ASSUME NEW f \in Tables!PixelFormat, NEW w, NEW h
  PROVE  Labels(f, w, h)
<1>1. f = <<f[1], f[2]>> /\ Variant(f[1], f[2])
  BY VariantIs
<1>2. Tables!HasAlpha(f) <=> "A" \in Tables!Components(f)
  BY ComponentsAre, FamiliesAre DEF Tables!HasAlpha, Tables!Yuva, Tables!Gbrap
<1>3. /\ Tables!IsRgb(f) <=> f \in Tables!WordRgb \/ {"R", "G", "B"} \subseteq Tables!Components(f)
      /\ Tables!IsPackedRgb(f) <=> Tables!IsRgb(f) /\ ~ Tables!IsPlanar(f)
  BY ComponentsAre, FamiliesAre
     DEF Tables!IsRgb, Tables!IsPackedRgb, Tables!IsPlanar, Tables!Yuv, Tables!Yuva,
         Tables!Gbrp, Tables!Gbrap
<1>4. /\ Tables!IsPlanar(f) <=> Tables!PlaneCount(f) # 1
      /\ Tables!PlaneCount(f) \in {1, 2, 3, 4}
      /\ Tables!PlaneCount(f) \in {1, 2, Tables!Cardinality(Tables!Components(f))}
  <2> USE DEF Tables!PlaneCount, Tables!IsPlanar, Tables!Yuv, Tables!Yuva, Tables!Gbrp,
              Tables!Gbrap
  <2>1. /\ Tables!IsPlanar(f) <=> Tables!PlaneCount(f) # 1
        /\ Tables!PlaneCount(f) \in {1, 2, 3, 4}
    BY FamiliesAre
  <2>2. CASE f[1] \in {"Nv12", "Nv21"}
    BY <2>2, FamiliesAre
  <2>3. CASE f[1] = "Gbrp"
    <3>1. Tables!Components(f) = {"R", "G", "B"}
      BY <2>3, ComponentsAre
    <3>2. QED
      BY <2>3, <3>1, FamiliesAre, CountIs, CountedAlike
  <2>4. CASE f[1] = "Gbrap"
    <3>1. Tables!Components(f) = {"R", "G", "B", "A"}
      BY <2>4, ComponentsAre
    <3>2. QED
      BY <2>4, <3>1, FamiliesAre, CountIs, CountedAlike
  <2>5. CASE f \in Tables!Yuv
    <3>1. Tables!Components(f) = {"Y", "U", "V"}
      BY <2>5, ComponentsAre, FamiliesAre
    <3>2. QED
      BY <2>5, <3>1, FamiliesAre, CountIs, CountedAlike
  <2>6. CASE f \in Tables!Yuva
    <3>1. Tables!Components(f) = {"Y", "A", "U", "V"}
      BY <2>6, ComponentsAre, FamiliesAre
    <3>2. QED
      BY <2>6, <3>1, FamiliesAre, CountIs, CountedAlike
  <2>7. CASE f \notin Tables!SemiPlanar \union Tables!Yuv \union Tables!Yuva
                \union Tables!Gbrp \union Tables!Gbrap
    BY <2>7
  <2>8. QED
    BY <2>2, <2>3, <2>4, <2>5, <2>6, <2>7, FamiliesAre
<1>5. Tables!IsPlanar(f) <=> Tables!PlaneDimensions(f, 1, w, h) # {}
  <2>1. 1 >= Tables!PlaneCount(f) <=> Tables!PlaneCount(f) = 1
    BY <1>4
  <2>2. QED
    BY <1>4, <2>1 DEF Tables!PlaneDimensions
<1>6. Tables!ChromaSubsampling(f) # {} <=> "U" \in Tables!Components(f)
  <2> DEFINE coloured == {"Yuv420P", "Yuv422P", "Yuv444P", "Yuv411P", "Yuv440P", "YuvJ420P",
                          "YuvJ422P", "YuvJ444P", "Nv12", "Nv21", "Yuyv422", "Uyvy422",
                          "Yuva420P", "Yuva422P", "Yuva444P"}
  <2>1. "U" \in Tables!Components(f) <=> f[1] \in coloured
    BY ComponentsAre
  <2>2. Tables!ChromaSubsampling(f) # {} <=> f[1] \in coloured
    BY DEF Tables!ChromaSubsampling
  <2>3. QED
    BY <2>1, <2>2
<1>7. Tables!ImpliedColorRange(f) # {} => "U" \in Tables!Components(f) /\ ~ Tables!HasAlpha(f)
  BY <1>2, ComponentsAre, FamiliesAre DEF Tables!ImpliedColorRange
<1>8. Tables!IsFloat(f) => Tables!WordBits(f) = 32
  BY FamiliesAre DEF Tables!IsFloat, Tables!WordBits
<1>9. QED
  BY <1>2, <1>3, <1>4, <1>5, <1>6, <1>7, <1>8 DEF Labels

\* What is answered about a picture's size.
Sized(f, w, h) ==
  [op |-> "size", format |-> f, width |-> w, height |-> h,
   estimate |-> Tables!BitsPerPixelApprox(f), frame |-> Tables!FrameSizeBytes(f, w, h)]

SizeInv ==
  call.op = "size" => \E f \in Tables!PixelFormat, w \in Sides, h \in Sides : call = Sized(f, w, h)

LEMMA SizeStays == AnySpec => []SizeInv
<1>1. AnyInit => SizeInv
  BY DEF AnyInit, Init, NoCall, SizeInv
<1>2. SizeInv /\ [AnyNext]_<<vars, setup>> => SizeInv'
  <2> SUFFICES ASSUME SizeInv, [AnyNext]_<<vars, setup>> PROVE SizeInv'
    OBVIOUS
  <2>1. CASE UNCHANGED call
    BY <2>1 DEF SizeInv, Sized
  <2>2. CASE Next
    <3>1. call'.op \in Operators \union {"cmp", "rescale", "elapse"}
      BY <2>2, Answers
    <3>2. QED
      BY <3>1 DEF SizeInv, Operators
  <2>3. CASE Tables!Next
    <3>1. CASE call'.op # "size"
      BY <3>1 DEF SizeInv
    <3>2. CASE call'.op = "size"
      <4>1. PICK f \in Tables!PixelFormat, w \in Sides, h \in Sides : Tables!Size(f, w, h)
        BY <2>3, <3>2 DEF Tables!Next, Tables!Write, Tables!Parse, Tables!Count, Tables!Answered
      <4>2. call' = Sized(f, w, h)
        BY <4>1 DEF Tables!Size, Tables!Answered, Sized
      <4>3. QED
        BY <4>2 DEF SizeInv, Sized
    <3>3. QED
      BY <3>1, <3>2
  <2>4. CASE Wire!Next
    <3>1. call'.op \in {"signal", "layer", "blobs", "decode", "kind", "code"}
      BY <2>4 DEF Wire!Next, Wire!CarrySignal, Wire!CarryLayer, Wire!CarryBlobs, Wire!Decode,
                  Wire!NameKind, Wire!ReadCode, Wire!Answered
    <3>2. QED
      BY <3>1 DEF SizeInv
  <2>5. QED
    BY <2>1, <2>2, <2>3, <2>4 DEF AnyNext, OneCall, vars
<1>3. QED
  BY <1>1, <1>2, PTL DEF AnySpec

\* What the labels of a format promise is how it is stored
\* (Formats!LabelsAgree).
THEOREM LabelsTrue == AnySpec => []LabelsAgree
<1>1. SizeInv => LabelsAgree
  <2> SUFFICES ASSUME SizeInv, call.op = "size" PROVE Tables!LabelsAgree
    BY DEF LabelsAgree, Tables!LabelsAgree
  <2>1. PICK f \in Tables!PixelFormat, w \in Sides, h \in Sides : call = Sized(f, w, h)
    BY DEF SizeInv
  <2>2. call.format = f /\ call.width = w /\ call.height = h
    BY <2>1 DEF Sized
  <2>3. Labels(f, w, h)
    BY LabelsHold
  <2>4. Labels(call.format, call.width, call.height)
    BY <2>2, <2>3
  <2>5. QED
    BY <2>4 DEF Labels, Tables!LabelsAgree
<1>2. QED
  BY <1>1, SizeStays, PTL

-----------------------------------------------------------------------------
(* The size of a frame.                                                    *)

Spacings == {1, 2, 4}

\* A row of n pixels holds a sample for every k-th, and for the last ones left.
LEMMA CeilIs ==
  ASSUME NEW n \in Nat, NEW k \in Spacings
  PROVE  /\ Tables!DivCeil(n, k) \in Nat
         /\ k = 1 => Tables!DivCeil(n, k) = n
         /\ \A x \in 0 .. (n - 1) : x \div k \in 0 .. (Tables!DivCeil(n, k) - 1)
         /\ \A i \in 0 .. (Tables!DivCeil(n, k) - 1) : i * k \in 0 .. (n - 1) /\ (i * k) \div k = i
<1> USE DEF Tables!DivCeil
<1>1. CASE k = 1
  BY <1>1
<1>2. CASE k = 2
  BY <1>2
<1>3. CASE k = 4
  BY <1>3
<1>4. QED
  BY <1>1, <1>2, <1>3 DEF Spacings

Pixels(w, h) == (0 .. (w - 1)) \X (0 .. (h - 1))

LEMMA BlockIs ==
  ASSUME NEW m \in Nat, NEW n \in Nat
  PROVE  IsFiniteSet(Pixels(m, n)) /\ Cardinality(Pixels(m, n)) = m * n
<1>1. IsFiniteSet(0 .. (m - 1)) /\ Cardinality(0 .. (m - 1)) = m
  <2>1. Cardinality(0 .. (m - 1)) = IF 0 > m - 1 THEN 0 ELSE m - 1 - 0 + 1
    BY FS_Interval
  <2>2. QED
    BY <2>1, FS_Interval
<1>2. IsFiniteSet(0 .. (n - 1)) /\ Cardinality(0 .. (n - 1)) = n
  <2>1. Cardinality(0 .. (n - 1)) = IF 0 > n - 1 THEN 0 ELSE n - 1 - 0 + 1
    BY FS_Interval
  <2>2. QED
    BY <2>1, FS_Interval
<1> DEFINE A == 0 .. (m - 1)
           B == 0 .. (n - 1)
<1>3. IsFiniteSet(A) /\ IsFiniteSet(B) /\ Cardinality(A) = m /\ Cardinality(B) = n
  BY <1>1, <1>2
<1>4. Pixels(m, n) = A \X B
  BY DEF Pixels
<1> HIDE DEF A, B
<1>5. IsFiniteSet(A \X B) /\ Cardinality(A \X B) = Cardinality(A) * Cardinality(B)
  BY <1>3, FS_Product
<1>6. QED
  BY <1>3, <1>4, <1>5

\* The grid of a component is a block of rows and columns, odd sizes included.
LEMMA GridIs ==
  ASSUME NEW w \in Nat, NEW h \in Nat, NEW j \in Spacings, NEW k \in Spacings
  PROVE  {<<xy[1] \div j, xy[2] \div k>> : xy \in Pixels(w, h)}
           = Pixels(Tables!DivCeil(w, j), Tables!DivCeil(h, k))
<1> DEFINE m == Tables!DivCeil(w, j)
           n == Tables!DivCeil(h, k)
           taken == {<<xy[1] \div j, xy[2] \div k>> : xy \in Pixels(w, h)}
<1>1. ASSUME NEW s \in taken PROVE s \in Pixels(m, n)
  <2>1. PICK x \in 0 .. (w - 1), y \in 0 .. (h - 1) : s = <<x \div j, y \div k>>
    BY <1>1 DEF Pixels
  <2>2. x \div j \in 0 .. (m - 1) /\ y \div k \in 0 .. (n - 1)
    BY CeilIs
  <2>3. QED
    BY <2>1, <2>2 DEF Pixels
<1>2. ASSUME NEW s \in Pixels(m, n) PROVE s \in taken
  <2>1. PICK x \in 0 .. (m - 1), y \in 0 .. (n - 1) : s = <<x, y>>
    BY <1>2 DEF Pixels
  <2>2. /\ x * j \in 0 .. (w - 1) /\ (x * j) \div j = x
        /\ y * k \in 0 .. (h - 1) /\ (y * k) \div k = y
    BY CeilIs
  <2>3. <<x * j, y * k>> \in Pixels(w, h)
    BY <2>2 DEF Pixels
  <2>4. QED
    BY <2>1, <2>2, <2>3
<1>3. QED
  BY <1>1, <1>2

\* Every component on its grid.
Spread(C, grid) == UNION {{c} \X grid[c] : c \in C}

\* The samples of components on two grids, each counted as a block.
LEMMA TwoGrids ==
  ASSUME NEW C, NEW D, IsFiniteSet(C), IsFiniteSet(D), C \cap D = {}, NEW G, NEW H,
         IsFiniteSet(G), IsFiniteSet(H), NEW grid,
         \A c \in C : grid[c] = G, \A d \in D : grid[d] = H
  PROVE  Cardinality(Spread(C \union D, grid))
           = Cardinality(C) * Cardinality(G) + Cardinality(D) * Cardinality(H)
<1> DEFINE samples == Spread(C \union D, grid)
<1>1. samples = (C \X G) \union (D \X H)
  <2>1. ASSUME NEW s \in samples PROVE s \in (C \X G) \union (D \X H)
    BY <2>1 DEF Spread
  <2>2. ASSUME NEW s \in (C \X G) \union (D \X H) PROVE s \in samples
    <3>1. CASE s \in C \X G
      <4>1. PICK c \in C, g \in G : s = <<c, g>>
        BY <3>1
      <4>2. s \in {c} \X grid[c] /\ c \in C \union D
        BY <4>1
      <4>3. QED
        BY <4>2 DEF Spread
    <3>2. CASE s \in D \X H
      <4>1. PICK d \in D, g \in H : s = <<d, g>>
        BY <3>2
      <4>2. s \in {d} \X grid[d] /\ d \in C \union D
        BY <4>1
      <4>3. QED
        BY <4>2 DEF Spread
    <3>3. QED
      BY <2>2, <3>1, <3>2
  <2>3. QED
    BY <2>1, <2>2
<1>2. (C \X G) \cap (D \X H) = {}
  OBVIOUS
<1>3. /\ IsFiniteSet(C \X G) /\ Cardinality(C \X G) = Cardinality(C) * Cardinality(G)
      /\ IsFiniteSet(D \X H) /\ Cardinality(D \X H) = Cardinality(D) * Cardinality(H)
  BY FS_Product
<1>4. /\ Cardinality((C \X G) \cap (D \X H)) = 0
      /\ Cardinality(C \X G) \in Nat /\ Cardinality(D \X H) \in Nat
  BY <1>2, <1>3, FS_EmptySet, FS_CardinalityType
<1>5. Cardinality(samples) = Cardinality(C \X G) + Cardinality(D \X H)
                             - Cardinality((C \X G) \cap (D \X H))
  <2> HIDE DEF samples
  <2>1. QED
    BY <1>1, <1>3, FS_Union
<1>6. QED
  <2> HIDE DEF samples
  <2>1. Cardinality(samples) = Cardinality(C \X G) + Cardinality(D \X H)
    BY <1>4, <1>5
  <2>2. QED
    BY <1>3, <2>1 DEF samples

\* The spacings of the chroma grid.
Across(f) == Tables!Spacing((CHOOSE s \in Tables!ChromaSubsampling(f) : TRUE)[1])
Down(f) == Tables!Spacing((CHOOSE s \in Tables!ChromaSubsampling(f) : TRUE)[2])

Subsampled == {"Yuv420P", "Yuv422P", "Yuv444P", "Yuv411P", "Yuv440P", "YuvJ420P",
               "YuvJ422P", "YuvJ444P", "Nv12", "Nv21", "Yuyv422", "Uyvy422",
               "Yuva420P", "Yuva422P", "Yuva444P"}

LEMMA ChromaIs ==
  ASSUME NEW f, f[1] \in Subsampled
  PROVE  /\ \E s : /\ Tables!ChromaSubsampling(f) = {s}
                   /\ Across(f) = Tables!Spacing(s[1]) /\ Down(f) = Tables!Spacing(s[2])
         /\ Across(f) \in Spacings /\ Down(f) \in Spacings
         /\ f[1] \in {"Yuyv422", "Uyvy422"} => Across(f) = 2 /\ Down(f) = 1
<1>1. PICK s : /\ Tables!ChromaSubsampling(f) = {s}
               /\ s \in {<<1, 1>>, <<1, 0>>, <<0, 0>>, <<2, 0>>, <<0, 1>>}
               /\ f[1] \in {"Yuyv422", "Uyvy422"} => s = <<1, 0>>
  BY DEF Tables!ChromaSubsampling, Subsampled
<1>2. Across(f) = Tables!Spacing(s[1]) /\ Down(f) = Tables!Spacing(s[2])
  BY <1>1 DEF Across, Down
<1>3. Tables!Spacing(0) = 1 /\ Tables!Spacing(1) = 2 /\ Tables!Spacing(2) = 4
  BY DEF Tables!Spacing
<1>4. QED
  BY <1>1, <1>2, <1>3 DEF Spacings

LEMMA NoChroma ==
  ASSUME NEW f \in Tables!PixelFormat, f[1] \notin Subsampled
  PROVE  /\ Tables!ChromaSubsampling(f) = {}
         /\ Tables!Components(f) \cap Tables!Chroma = {}
<1>1. Tables!ChromaSubsampling(f) = {}
  BY DEF Tables!ChromaSubsampling, Subsampled
<1>2. Tables!Components(f) \cap Tables!Chroma = {}
  BY ComponentsAre DEF Subsampled, Tables!Chroma
<1>3. QED
  BY <1>1, <1>2

\* The components at full resolution.
Whole(f) == Tables!Components(f) \ Tables!Chroma

LEMMA GridsAre ==
  ASSUME NEW f \in Tables!PixelFormat, NEW w \in Nat, NEW h \in Nat, NEW c
  PROVE  /\ c \notin Tables!Chroma => Tables!Grid(f, c, w, h) = Pixels(w, h)
         /\ c \in Tables!Chroma /\ f[1] \in Subsampled =>
              Tables!Grid(f, c, w, h)
                = Pixels(Tables!DivCeil(w, Across(f)), Tables!DivCeil(h, Down(f)))
<1>1. Tables!Spacing(0) = 1
  BY DEF Tables!Spacing
<1>2. ASSUME c \notin Tables!Chroma PROVE Tables!Grid(f, c, w, h) = Pixels(w, h)
  <2>1. Tables!Grid(f, c, w, h) = {<<xy[1] \div 1, xy[2] \div 1>> : xy \in Pixels(w, h)}
    BY <1>1, <1>2 DEF Tables!Grid, Pixels
  <2>2. Tables!DivCeil(w, 1) = w /\ Tables!DivCeil(h, 1) = h
    BY CeilIs DEF Spacings
  <2>3. 1 \in Spacings
    BY DEF Spacings
  <2>4. QED
    BY <2>1, <2>2, <2>3, GridIs
<1>3. ASSUME c \in Tables!Chroma, f[1] \in Subsampled
      PROVE  Tables!Grid(f, c, w, h)
               = Pixels(Tables!DivCeil(w, Across(f)), Tables!DivCeil(h, Down(f)))
  <2>1. PICK s : /\ Tables!ChromaSubsampling(f) = {s}
                 /\ Across(f) = Tables!Spacing(s[1]) /\ Down(f) = Tables!Spacing(s[2])
    BY <1>3, ChromaIs
  <2>2. Across(f) \in Spacings /\ Down(f) \in Spacings
    BY <1>3, ChromaIs
  <2>3. Tables!Grid(f, c, w, h)
          = {<<xy[1] \div Across(f), xy[2] \div Down(f)>> : xy \in Pixels(w, h)}
    BY <1>3, <2>1 DEF Tables!Grid, Pixels
  <2>4. QED
    BY <2>2, <2>3, GridIs
<1>4. QED
  BY <1>2, <1>3

\* Positions of the chroma grid.
Coarse(f, w, h) ==
  IF f[1] \in Subsampled THEN Tables!DivCeil(w, Across(f)) * Tables!DivCeil(h, Down(f)) ELSE 0

LEMMA ComponentsFinite ==
  ASSUME NEW f \in Tables!PixelFormat
  PROVE  IsFiniteSet(Tables!Components(f))
<1>1. \A x, y, z : IsFiniteSet({x}) /\ IsFiniteSet({x} \union {y} \union {z})
  BY FS_Singleton, FS_Union
<1>2. /\ IsFiniteSet({"Y"} \union {"U"} \union {"V"})
      /\ IsFiniteSet({"R"} \union {"G"} \union {"B"})
      /\ IsFiniteSet({"C"} \union {"M"} \union {"K"})
      /\ IsFiniteSet({"A"} \union {"X"} \union {"RGB"})
  BY <1>1
<1>3. IsFiniteSet(({"Y"} \union {"U"} \union {"V"}) \union ({"R"} \union {"G"} \union {"B"})
                  \union ({"C"} \union {"M"} \union {"K"})
                  \union ({"A"} \union {"X"} \union {"RGB"}))
  BY <1>2, FS_Union
<1>4. Tables!Components(f) \in SUBSET (({"Y"} \union {"U"} \union {"V"})
                  \union ({"R"} \union {"G"} \union {"B"})
                  \union ({"C"} \union {"M"} \union {"K"})
                  \union ({"A"} \union {"X"} \union {"RGB"}))
  BY ComponentsAre
<1>5. QED
  BY <1>3, <1>4, FS_Subset

LEMMA SamplesAre ==
  ASSUME NEW f \in Tables!PixelFormat, NEW w \in Nat, NEW h \in Nat
  PROVE  /\ IsFiniteSet(Whole(f))
         /\ Tables!Cardinality(Tables!Samples(f, w, h))
              = Cardinality(Whole(f)) * (w * h) + 2 * Coarse(f, w, h)
<1> DEFINE C == Tables!Components(f)
           grid == [c \in C |-> Tables!Grid(f, c, w, h)]
           W == Whole(f)
           m == Tables!DivCeil(w, Across(f))
           n == Tables!DivCeil(h, Down(f))
<1>1. IsFiniteSet(C)
  BY ComponentsFinite
<1>2. IsFiniteSet(W) /\ Cardinality(W) \in Nat
  BY <1>1, FS_Difference, FS_CardinalityType DEF Whole
<1>3. Tables!Samples(f, w, h) = Spread(C, grid)
  BY DEF Tables!Samples, Spread
<1>4. IsFiniteSet(Pixels(w, h)) /\ Cardinality(Pixels(w, h)) = w * h
  BY BlockIs
<1>5. CASE f[1] \in Subsampled
  <2> DEFINE D == Tables!Chroma
  <2>1. D \subseteq C /\ C = W \union D /\ W \cap D = {}
    BY <1>5, ComponentsAre DEF Subsampled, Whole, Tables!Chroma
  <2>2. IsFiniteSet(D) /\ Cardinality(D) = 2
    <3>1. IsFiniteSet({"U"}) /\ Cardinality({"U"}) = 1
      BY FS_Singleton
    <3>2. D = {"U"} \union {"V"} /\ "V" \notin {"U"}
      BY DEF Tables!Chroma
    <3>3. QED
      BY <3>1, <3>2, FS_AddElement
  <2>3. m \in Nat /\ n \in Nat
    BY <1>5, ChromaIs, CeilIs
  <2>4. IsFiniteSet(Pixels(m, n)) /\ Cardinality(Pixels(m, n)) = m * n
    BY <2>3, BlockIs
  <2>5. (\A c \in W : grid[c] = Pixels(w, h)) /\ (\A c \in D : grid[c] = Pixels(m, n))
    BY <1>5, <2>1, GridsAre
  <2>6. Cardinality(Spread(W \union D, grid))
          = Cardinality(W) * Cardinality(Pixels(w, h)) + Cardinality(D) * Cardinality(Pixels(m, n))
    <3> HIDE DEF D, W, grid, m, n
    <3>1. QED
      BY <1>2, <1>4, <2>1, <2>2, <2>4, <2>5, TwoGrids
  <2>7. Coarse(f, w, h) = m * n
    BY <1>5 DEF Coarse
  <2>8. Tables!Samples(f, w, h) = Spread(W \union D, grid)
    BY <1>3, <2>1
  <2>9. QED
    BY <1>2, <1>4, <2>2, <2>4, <2>6, <2>7, <2>8, CountedAlike
<1>6. CASE f[1] \notin Subsampled
  <2>1. C = W \union {} /\ W \cap {} = {}
    BY <1>6, NoChroma DEF Whole
  <2>2. IsFiniteSet({}) /\ Cardinality({}) = 0
    BY FS_EmptySet
  <2>3. \A c \in W : grid[c] = Pixels(w, h)
    BY GridsAre DEF Whole
  <2>4. Cardinality(Spread(W \union {}, grid))
          = Cardinality(W) * Cardinality(Pixels(w, h)) + Cardinality({}) * Cardinality({})
    <3> HIDE DEF W, grid
    <3>1. QED
      BY <1>2, <1>4, <2>1, <2>2, <2>3, TwoGrids
  <2>5. Coarse(f, w, h) = 0
    BY <1>6 DEF Coarse
  <2>6. Tables!Samples(f, w, h) = Spread(W \union {}, grid)
    BY <1>3, <2>1
  <2>7. QED
    BY <1>2, <1>4, <2>2, <2>4, <2>5, <2>6, CountedAlike
<1>7. QED
  BY <1>2, <1>5, <1>6

\* The bytes of the first n planes of the given sizes.
Sum(z, n) ==
  CASE n = 0 -> 0
    [] n = 1 -> z[0]
    [] n = 2 -> z[0] + z[1]
    [] n = 3 -> z[0] + z[1] + z[2]
    [] n = 4 -> z[0] + z[1] + z[2] + z[3]

\* What the loop over the planes has after n of them, some of them refused.
Partial(z, refused, n) ==
  IF (\E p \in 0 .. (n - 1) : p \in refused) \/ Sum(z, n) > UsizeMax THEN {} ELSE {Sum(z, n)}

LEMMA SumIs ==
  ASSUME NEW z \in [0 .. 3 -> Nat], NEW n \in 0 .. 4
  PROVE  /\ Sum(z, n) \in Nat
         /\ n # 0 => Sum(z, n) = Sum(z, n - 1) + z[n - 1] /\ z[n - 1] \in Nat
<1>1. z[0] \in Nat /\ z[1] \in Nat /\ z[2] \in Nat /\ z[3] \in Nat
  OBVIOUS
<1>2. CASE n = 0
  BY <1>2 DEF Sum
<1>3. CASE n = 1
  BY <1>1, <1>3 DEF Sum
<1>4. CASE n = 2
  BY <1>1, <1>4 DEF Sum
<1>5. CASE n = 3
  BY <1>1, <1>5 DEF Sum
<1>6. CASE n = 4
  BY <1>1, <1>6 DEF Sum
<1>7. QED
  BY <1>2, <1>3, <1>4, <1>5, <1>6

\* One turn.
Added(had, sizes) == UNION {Tables!CheckedSize(sum + size) : sum \in had, size \in sizes}

LEMMA PlaneAdded ==
  ASSUME NEW z \in [0 .. 3 -> Nat], NEW refused, NEW n \in 1 .. 4, NEW sizes,
         sizes = IF n - 1 \in refused THEN {} ELSE Tables!CheckedSize(z[n - 1])
  PROVE  Added(Partial(z, refused, n - 1), sizes) = Partial(z, refused, n)
<1> DEFINE had == Partial(z, refused, n - 1)
           s == Sum(z, n - 1)
           t == Sum(z, n)
           x == z[n - 1]
<1>1. s \in Nat /\ t \in Nat /\ x \in Nat /\ t = s + x
  BY SumIs
<1>2. UsizeMax \in Nat
  BY MediaAssumption
<1>3. \A p \in 0 .. (n - 1) : p = n - 1 \/ p \in 0 .. (n - 2)
  OBVIOUS
<1>4. (\E p \in 0 .. (n - 1) : p \in refused)
        <=> (\E p \in 0 .. (n - 2) : p \in refused) \/ n - 1 \in refused
  BY <1>3
<1>5. n - 1 - 1 = n - 2
  OBVIOUS
<1>6. CASE (\E p \in 0 .. (n - 1) : p \in refused) \/ s > UsizeMax \/ x > UsizeMax
  <2>1. had = {} \/ sizes = {}
    <3>1. CASE n - 1 \in refused
      BY <3>1
    <3>2. CASE x > UsizeMax
      BY <1>1, <1>2, <3>2 DEF Tables!CheckedSize
    <3>3. CASE (\E p \in 0 .. (n - 2) : p \in refused) \/ s > UsizeMax
      BY <1>5, <3>3 DEF Partial
    <3>4. QED
      BY <1>4, <1>6, <3>1, <3>2, <3>3
  <2>2. Added(had, sizes) = {}
    BY <2>1 DEF Added
  <2>3. Partial(z, refused, n) = {}
    BY <1>1, <1>2, <1>6 DEF Partial
  <2>4. QED
    BY <2>2, <2>3
<1>7. CASE ~ ((\E p \in 0 .. (n - 1) : p \in refused) \/ s > UsizeMax \/ x > UsizeMax)
  <2>1. had = {s} /\ sizes = {x}
    BY <1>1, <1>2, <1>4, <1>5, <1>7 DEF Partial, Tables!CheckedSize
  <2>2. Added(had, sizes) = Tables!CheckedSize(t)
    <3> HIDE DEF had, s, t, x
    <3>1. QED
      BY <1>1, <2>1 DEF Added
  <2>3. Partial(z, refused, n) = Tables!CheckedSize(t)
    BY <1>1, <1>2, <1>7 DEF Partial, Tables!CheckedSize
  <2>4. QED
    BY <2>2, <2>3
<1>8. QED
  BY <1>6, <1>7

LEMMA FrameIs ==
  ASSUME NEW f, NEW w, NEW h, NEW z \in [0 .. 3 -> Nat], NEW refused,
         Tables!PlaneCount(f) \in 1 .. 4,
         \A p \in 0 .. (Tables!PlaneCount(f) - 1) :
           Tables!PlaneSizeBytes(f, p, w, h)
             = IF p \in refused THEN {} ELSE Tables!CheckedSize(z[p])
  PROVE  Tables!FrameSizeBytes(f, w, h) = Partial(z, refused, Tables!PlaneCount(f))
<1> DEFINE N == Tables!PlaneCount(f)
           size(n) == Tables!PlaneSizeBytes(f, n, w, h)
           Sums(g) == g = [n \in 0 .. N |-> IF n = 0 THEN {0} ELSE Added(g[n - 1], size(n - 1))]
           made == [n \in 0 .. N |-> Partial(z, refused, n)]
           total == CHOOSE g : Sums(g)
           K == [n \in 0 .. N |-> {Partial(z, refused, n)}]
<1>1. /\ N \in 1 .. 4 /\ N \in 0 .. N /\ N \in Nat /\ 0 \in 0 .. N
      /\ \A n \in 1 .. N : n - 1 \in 0 .. N /\ n \in 0 .. N /\ n \in 1 .. 4 /\ n # 0
                           /\ n - 1 \in 0 .. (N - 1)
      /\ \A n \in 0 .. N : n # 0 => n \in 1 .. N
  OBVIOUS
<1>2. \A n \in 1 .. N : Added(Partial(z, refused, n - 1), size(n - 1)) = Partial(z, refused, n)
  <2>1. ASSUME NEW n \in 1 .. N
        PROVE  size(n - 1) = IF n - 1 \in refused THEN {} ELSE Tables!CheckedSize(z[n - 1])
    BY <1>1
  <2> HIDE DEF size, N
  <2>2. QED
    BY <1>1, <2>1, PlaneAdded
<1>3. Partial(z, refused, 0) = {0}
  <2>1. Sum(z, 0) = 0 /\ UsizeMax \in Nat /\ ~ \E p \in 0 .. (0 - 1) : p \in refused
    BY MediaAssumption DEF Sum
  <2>2. QED
    BY <2>1 DEF Partial
<1>4. Sums(made)
  <2>1. \A n \in 0 .. N : made[n] = Partial(z, refused, n)
    OBVIOUS
  <2>2. \A n \in 0 .. N : Partial(z, refused, n)
          = IF n = 0 THEN {0} ELSE Added(made[n - 1], size(n - 1))
    <3> HIDE DEF made, size, N
    <3>1. QED
      BY <1>1, <1>2, <1>3, <2>1
  <2> HIDE DEF size, N
  <2>3. QED
    BY <2>2
<1>5. Sums(total)
  BY <1>4
<1>6. total[N] \in K[N]
  <2>1. total[0] = {0} /\ \A n \in 1 .. N : total[n] = Added(total[n - 1], size(n - 1))
    <3>1. total = [n \in 0 .. N |-> IF n = 0 THEN {0} ELSE Added(total[n - 1], size(n - 1))]
      BY <1>5
    <3> HIDE DEF total, size, N
    <3>2. QED
      BY <1>1, <3>1
  <2>2. \A n \in 0 .. N : K[n] = {Partial(z, refused, n)}
    OBVIOUS
  <2> HIDE DEF total, K, N, size
  <2>3. \A n \in 1 .. N : total[n - 1] \in K[n - 1] => total[n] \in K[n]
    BY <1>1, <1>2, <2>1, <2>2
  <2>4. total[0] \in K[0]
    BY <1>1, <1>3, <2>1, <2>2
  <2>5. QED
    BY <1>1, <2>3, <2>4, LoopStays
<1>7. Tables!FrameSizeBytes(f, w, h) = total[N]
  BY DEF Tables!FrameSizeBytes, Added
<1> HIDE DEF total
<1>8. QED
  BY <1>1, <1>6, <1>7

LEMMA BlocksCounted ==
  /\ Cardinality({"Y"}) = 1 /\ Cardinality({"RGB"}) = 1 /\ Cardinality({"Y", "A"}) = 2
  /\ Cardinality({"R", "G", "B", "X"}) = 4 /\ Cardinality({"C", "M", "Y", "K"}) = 4
<1>1. /\ IsFiniteSet({"Y"}) /\ Cardinality({"Y"}) = 1 /\ Cardinality({"RGB"}) = 1
      /\ IsFiniteSet({"R", "G", "B"})
  <2>1. IsFiniteSet({"R"} \union {"G"} \union {"B"})
    BY FS_Singleton, FS_Union
  <2>2. {"R"} \union {"G"} \union {"B"} = {"R", "G", "B"}
    OBVIOUS
  <2>3. QED
    BY <2>1, <2>2, FS_Singleton
<1>2. Cardinality({"R", "G", "B"}) = 3
  BY CountIs
<1>3. IsFiniteSet({"Y", "A"}) /\ Cardinality({"Y", "A"}) = 2
  <2>1. {"Y", "A"} = {"Y"} \union {"A"} /\ "A" \notin {"Y"}
    OBVIOUS
  <2>2. QED
    BY <1>1, <2>1, FS_AddElement
<1>4. IsFiniteSet({"R", "G", "B", "X"}) /\ Cardinality({"R", "G", "B", "X"}) = 4
  <2>1. {"R", "G", "B", "X"} = {"R", "G", "B"} \union {"X"} /\ "X" \notin {"R", "G", "B"}
    OBVIOUS
  <2>2. QED
    BY <1>1, <1>2, <2>1, FS_AddElement
<1>5. IsFiniteSet({"C", "Y"}) /\ Cardinality({"C", "Y"}) = 2
  <2>1. {"C", "Y"} = {"Y"} \union {"C"} /\ "C" \notin {"Y"}
    OBVIOUS
  <2>2. QED
    BY <1>1, <2>1, FS_AddElement
<1>6. IsFiniteSet({"C", "M", "Y"}) /\ Cardinality({"C", "M", "Y"}) = 3
  <2>1. {"C", "M", "Y"} = {"C", "Y"} \union {"M"} /\ "M" \notin {"C", "Y"}
    OBVIOUS
  <2>2. QED
    BY <1>5, <2>1, FS_AddElement
<1>7. IsFiniteSet({"C", "M", "Y", "K"}) /\ Cardinality({"C", "M", "Y", "K"}) = 4
  <2>1. {"C", "M", "Y", "K"} = {"C", "M", "Y"} \union {"K"} /\ "K" \notin {"C", "M", "Y"}
    OBVIOUS
  <2>2. QED
    BY <1>6, <2>1, FS_AddElement
<1>8. QED
  BY <1>1, <1>3, <1>4, <1>7

\* How many components a pixel has at full resolution.
LEMMA WholeIs ==
  ASSUME NEW f \in Tables!PixelFormat
  PROVE  /\ f[1] \in {"MonoBlack", "MonoWhite", "Gray", "Pal"} => Cardinality(Whole(f)) = 1
         /\ f \in Tables!WordRgb => Cardinality(Whole(f)) = 1
         /\ f[1] \in {"Ya", "Yuva420P", "Yuva422P", "Yuva444P"} => Cardinality(Whole(f)) = 2
         /\ f[1] \in {"Rgbx", "Bgrx", "Xrgb", "Xbgr", "Cmyk", "CmykInverted", "Rgba", "Bgra",
                      "Argb", "Abgr", "Gbrap"} => Cardinality(Whole(f)) = 4
         /\ f[1] \in {"Rgb", "Bgr", "Gbrp"} => Cardinality(Whole(f)) = 3
         /\ f[1] \in {"Yuv420P", "Yuv422P", "Yuv444P", "Yuv411P", "Yuv440P", "YuvJ420P",
                      "YuvJ422P", "YuvJ444P", "Nv12", "Nv21", "Yuyv422", "Uyvy422"} =>
              Cardinality(Whole(f)) = 1
<1> USE DEF Whole, Tables!Chroma
<1>1. CASE f[1] \in {"MonoBlack", "MonoWhite", "Gray", "Pal"}
  <2>1. Whole(f) = {"Y"}
    BY <1>1, ComponentsAre
  <2>2. QED
    BY <1>1, <2>1, FamiliesAre, BlocksCounted
<1>2. CASE f \in Tables!WordRgb
  <2>1. Whole(f) = {"RGB"}
    BY <1>2, FamiliesAre, ComponentsAre
  <2>2. QED
    BY <1>2, <2>1, FamiliesAre, BlocksCounted, CountIs
<1>3. CASE f[1] \in {"Ya", "Yuva420P", "Yuva422P", "Yuva444P"}
  <2>1. Whole(f) = {"Y", "A"}
    BY <1>3, ComponentsAre
  <2>2. QED
    BY <1>3, <2>1, FamiliesAre, BlocksCounted, CountIs
<1>4. CASE f[1] \in {"Rgbx", "Bgrx", "Xrgb", "Xbgr"}
  <2>1. Whole(f) = {"R", "G", "B", "X"}
    BY <1>4, ComponentsAre
  <2>2. QED
    BY <1>4, <2>1, FamiliesAre, BlocksCounted, CountIs
<1>5. CASE f[1] \in {"Cmyk", "CmykInverted"}
  <2>1. Whole(f) = {"C", "M", "Y", "K"}
    BY <1>5, ComponentsAre
  <2>2. QED
    BY <1>5, <2>1, FamiliesAre, BlocksCounted, CountIs
<1>6. CASE f[1] \in {"Rgba", "Bgra", "Argb", "Abgr", "Gbrap"}
  <2>1. Whole(f) = {"R", "G", "B", "A"}
    BY <1>6, ComponentsAre
  <2>2. QED
    BY <1>6, <2>1, FamiliesAre, BlocksCounted, CountIs
<1>7. CASE f[1] \in {"Rgb", "Bgr", "Gbrp"}
  <2>1. Whole(f) = {"R", "G", "B"}
    BY <1>7, ComponentsAre
  <2>2. QED
    BY <1>7, <2>1, FamiliesAre, BlocksCounted, CountIs
<1>8. CASE f[1] \in {"Yuv420P", "Yuv422P", "Yuv444P", "Yuv411P", "Yuv440P", "YuvJ420P",
                 "YuvJ422P", "YuvJ444P", "Nv12", "Nv21", "Yuyv422", "Uyvy422"}
  <2>1. Whole(f) = {"Y"}
    BY <1>8, ComponentsAre
  <2>2. QED
    BY <1>8, <2>1, FamiliesAre, BlocksCounted, CountIs
<1>9. QED
  BY <1>1, <1>2, <1>3, <1>4, <1>5, <1>6, <1>7, <1>8

\* The samples of a plane: the picture's pixels, or the chroma grid.
LEMMA PlaneIs ==
  ASSUME NEW f, NEW p \in Nat, p < Tables!PlaneCount(f), NEW w, NEW h,
         Tables!PlaneCount(f) \in 1 .. 4
  PROVE  /\ p \notin {1, 2} \/ f[1] \notin Subsampled =>
              Tables!PlaneDimensions(f, p, w, h) = {<<w, h>>}
         /\ p \in {1, 2} /\ f[1] \in Subsampled =>
              Tables!PlaneDimensions(f, p, w, h)
                = {<<Tables!DivCeil(w, Across(f)), Tables!DivCeil(h, Down(f))>>}
<1>1. ~ (p >= Tables!PlaneCount(f))
  OBVIOUS
<1>2. ASSUME p \notin {1, 2} \/ f[1] \notin Subsampled
      PROVE  Tables!PlaneDimensions(f, p, w, h) = {<<w, h>>}
  <2>1. p \notin {1, 2} \/ Tables!ChromaSubsampling(f) = {}
    BY <1>2 DEF Tables!ChromaSubsampling, Subsampled
  <2>2. QED
    BY <1>1, <2>1 DEF Tables!PlaneDimensions
<1>3. ASSUME p \in {1, 2}, f[1] \in Subsampled
      PROVE  Tables!PlaneDimensions(f, p, w, h)
               = {<<Tables!DivCeil(w, Across(f)), Tables!DivCeil(h, Down(f))>>}
  <2>1. PICK s : /\ Tables!ChromaSubsampling(f) = {s}
                 /\ Across(f) = Tables!Spacing(s[1]) /\ Down(f) = Tables!Spacing(s[2])
    BY <1>3, ChromaIs
  <2>2. Tables!PlaneDimensions(f, p, w, h)
          = {<<Tables!DivCeil(w, Tables!Spacing(r[1])), Tables!DivCeil(h, Tables!Spacing(r[2]))>> :
               r \in {s}}
    BY <1>1, <1>3, <2>1 DEF Tables!PlaneDimensions
  <2>3. QED
    BY <2>1, <2>2
<1>4. QED
  BY <1>2, <1>3

\* A plane of m positions in each of n rows, of some bytes each.
LEMMA PlaneSizeIs ==
  ASSUME NEW f, NEW p, NEW w, NEW h, NEW m, NEW one, NEW n,
         Tables!PlaneDimensions(f, p, w, 1) = {<<m, one>>},
         Tables!PlaneDimensions(f, p, w, h) = {<<m, n>>}
  PROVE  /\ f \in Tables!BitMono /\ f \notin Tables!Macropixel =>
              Tables!PlaneSizeBytes(f, p, w, h) = Tables!CheckedSize(Tables!DivCeil(m, 8) * n)
         /\ f \in Tables!Macropixel /\ f \notin Tables!BitMono =>
              Tables!PlaneSizeBytes(f, p, w, h)
                = IF Tables!DivCeil(m, 2) * 4 <= UsizeMax
                    THEN Tables!CheckedSize((Tables!DivCeil(m, 2) * 4) * n) ELSE {}
         /\ f \notin Tables!BitMono \union Tables!Macropixel =>
              Tables!PlaneSizeBytes(f, p, w, h)
                = IF m * Tables!BytesPerPosition(f, p) <= UsizeMax
                    THEN Tables!CheckedSize((m * Tables!BytesPerPosition(f, p)) * n) ELSE {}
<1> DEFINE rowed(r) == UNION {Tables!CheckedSize(row * d[2]) :
                                row \in r, d \in Tables!PlaneDimensions(f, p, w, h)}
<1>1. Tables!PlaneSizeBytes(f, p, w, h) = rowed(Tables!PlaneRowBytes(f, p, w))
  BY DEF Tables!PlaneSizeBytes
<1>2. (\A x : rowed({x}) = Tables!CheckedSize(x * n)) /\ rowed({}) = {}
  OBVIOUS
<1> HIDE DEF rowed
<1> DEFINE bytes(x) == CASE f \in Tables!BitMono -> {Tables!DivCeil(x, 8)}
                         [] f \in Tables!Macropixel -> Tables!CheckedSize(Tables!DivCeil(x, 2) * 4)
                         [] OTHER -> Tables!CheckedSize(x * Tables!BytesPerPosition(f, p))
<1>3. Tables!PlaneRowBytes(f, p, w) = bytes(m)
  <2> DEFINE d == <<m, one>>
             all == UNION {bytes(e[1]) : e \in {d}}
  <2>1. Tables!PlaneRowBytes(f, p, w) = all
    BY Zenon DEF Tables!PlaneRowBytes
  <2>2. d[1] = m
    OBVIOUS
  <2> HIDE DEF d, bytes
  <2>3. all = bytes(d[1])
    OBVIOUS
  <2>4. QED
    BY <2>1, <2>2, <2>3
<1>4. ASSUME f \in Tables!BitMono, f \notin Tables!Macropixel
      PROVE Tables!PlaneRowBytes(f, p, w) = {Tables!DivCeil(m, 8)}
  BY <1>3, <1>4
<1>5. ASSUME f \in Tables!Macropixel, f \notin Tables!BitMono
      PROVE  Tables!PlaneRowBytes(f, p, w) = Tables!CheckedSize(Tables!DivCeil(m, 2) * 4)
  BY <1>3, <1>5
<1>6. ASSUME f \notin Tables!BitMono \union Tables!Macropixel
      PROVE  Tables!PlaneRowBytes(f, p, w)
               = Tables!CheckedSize(m * Tables!BytesPerPosition(f, p))
  BY <1>3, <1>6
<1>7. \A x : rowed(Tables!CheckedSize(x))
              = IF x <= UsizeMax THEN Tables!CheckedSize(x * n) ELSE {}
  BY <1>2 DEF Tables!CheckedSize
<1>8. QED
  BY <1>1, <1>2, <1>4, <1>5, <1>6, <1>7

\* The bytes of a position make up the components stored there.
LEMMA PackedIs ==
  ASSUME NEW f \in Tables!PixelFormat, ~ Tables!IsPlanar(f),
         f \notin Tables!BitMono \union Tables!Macropixel
  PROVE  /\ Tables!PlaneCount(f) = 1 /\ f[1] \notin Subsampled
         /\ Tables!BytesPerPosition(f, 0) \in Nat /\ Tables!ComponentBits(f) \in Nat
         /\ Cardinality(Whole(f)) \in Nat
         /\ 8 * Tables!BytesPerPosition(f, 0) = Cardinality(Whole(f)) * Tables!ComponentBits(f)
<1> USE DEF Tables!BytesPerPosition, Tables!ComponentBits, Tables!WordBits
<1>1. f = <<f[1], f[2]>> /\ Variant(f[1], f[2])
  BY VariantIs
<1>2. /\ f \notin Tables!SemiPlanar
      /\ f \notin Tables!Yuv \union Tables!Yuva \union Tables!Gbrp \union Tables!Gbrap
  BY DEF Tables!IsPlanar
<1>3. Tables!PlaneCount(f) = 1
  BY <1>2 DEF Tables!PlaneCount
<1>4. f[1] \notin Subsampled
  BY <1>2, FamiliesAre DEF Subsampled, Tables!Yuv, Tables!Yuva
<1> DEFINE B == Tables!BytesPerPosition(f, 0)
           bits == Tables!ComponentBits(f)
           all == Cardinality(Whole(f))
           Right == B \in Nat /\ bits \in Nat /\ all \in Nat /\ 8 * B = all * bits
<1>5. ASSUME f[1] \in {"Gray", "Pal"} PROVE Right
  <2>1. all = 1
    BY <1>5, WholeIs
  <2>2. f[2] \in {8, 10, 12, 16, 32}
    BY <1>1, <1>5 DEF Variant
  <2>3. f \notin Tables!WordRgb /\ f \in Tables!Families({"Gray", "Pal"}) /\ f \notin Tables!PaddedRgb
    BY <1>5, FamiliesAre
  <2>4. B = Tables!WordBits(f) \div 8
    BY <1>1, <1>2, <1>5, <2>3 DEF Tables!Prepress, Tables!InvertedInk, Tables!DeepGrayAlpha
  <2>5. bits = Tables!WordBits(f)
    BY <2>3
  <2>6. Tables!WordBits(f) \in {8, 16, 32}
    BY <2>2
  <2> HIDE DEF B, bits, all, Tables!WordBits
  <2>7. QED
    BY <2>1, <2>4, <2>5, <2>6
<1>6. ASSUME f \in Tables!WordRgb PROVE Right
  <2>1. all = 1
    BY <1>6, WholeIs
  <2>2. bits = 16
    BY <1>6
  <2>3. f \notin Tables!Families({"Gray", "Pal"}) /\ f \notin Tables!PaddedRgb
    BY <1>6, FamiliesAre
  <2>4. f[1] \notin {"Rgb", "Bgr", "Rgba", "Bgra", "Argb", "Abgr", "Cmyk", "CmykInverted", "Ya"}
    BY <1>6, FamiliesAre
  <2>5. B = 2
    BY <1>1, <1>2, <1>6, <2>3, <2>4 DEF Tables!Prepress, Tables!InvertedInk, Tables!DeepGrayAlpha
  <2> HIDE DEF B, bits, all
  <2>6. QED
    BY <2>1, <2>2, <2>5
<1>7. ASSUME f[1] = "Ya" PROVE Right
  <2>1. all = 2
    BY <1>7, WholeIs
  <2>2. f \notin Tables!WordRgb /\ f \notin Tables!Families({"Gray", "Pal"})
        /\ f \notin Tables!PaddedRgb
    BY <1>7, FamiliesAre
  <2>3. f \in {<<"Ya", 8>>, <<"Ya", 16>>}
    BY <1>1, <1>7 DEF Variant
  <2>4. CASE f = <<"Ya", 8>>
    <3>1. B = 2 /\ bits = 8
      BY <1>2, <2>2, <2>4 DEF Tables!Prepress, Tables!InvertedInk, Tables!DeepGrayAlpha
    <3> HIDE DEF B, bits, all
    <3>2. QED
      BY <2>1, <3>1
  <2>5. CASE f = <<"Ya", 16>>
    <3>1. B = 4 /\ bits = 16
      BY <1>2, <2>2, <2>5 DEF Tables!Prepress, Tables!InvertedInk, Tables!DeepGrayAlpha
    <3> HIDE DEF B, bits, all
    <3>2. QED
      BY <2>1, <3>1
  <2>6. QED
    BY <2>3, <2>4, <2>5
<1>8. ASSUME f[1] \in {"Rgbx", "Bgrx", "Xrgb", "Xbgr", "Cmyk", "CmykInverted", "Bgra", "Argb",
                      "Abgr"}
      PROVE  Right
  <2>1. all = 4
    BY <1>8, WholeIs
  <2>2. f \notin Tables!WordRgb /\ f \notin Tables!Families({"Gray", "Pal"})
    BY <1>8, FamiliesAre
  <2>3. f[2] = 8
    BY <1>1, <1>8 DEF Variant
  <2>4. bits = 8
    BY <2>2, <2>3
  <2>5. B = 4
    BY <1>1, <1>2, <1>8, <2>2, <2>3, FamiliesAre
       DEF Tables!Prepress, Tables!InvertedInk, Tables!DeepGrayAlpha
  <2> HIDE DEF B, bits, all
  <2>6. QED
    BY <2>1, <2>4, <2>5
<1>9. ASSUME f[1] \in {"Rgb", "Rgba", "Bgr"} PROVE Right
  <2>1. all = IF f[1] = "Rgba" THEN 4 ELSE 3
    BY <1>9, WholeIs
  <2>2. /\ f \notin Tables!WordRgb /\ f \notin Tables!Families({"Gray", "Pal"})
        /\ f \notin Tables!PaddedRgb
    BY <1>9, FamiliesAre
  <2>3. f \in {<<"Rgb", 8>>, <<"Rgb", 16>>, <<"Rgb", 32>>,
               <<"Rgba", 8>>, <<"Rgba", 16>>, <<"Rgba", 32>>, <<"Bgr", 8>>}
    BY <1>1, <1>9 DEF Variant
  <2>4. bits = IF f[2] = 32 THEN 32 ELSE IF f[2] = 16 THEN 16 ELSE 8
    BY <2>2, <2>3
  <2>5. B = IF f = <<"Rgb", 8>> \/ f = <<"Bgr", 8>> THEN 3 ELSE IF f = <<"Rgba", 8>> THEN 4
            ELSE IF f = <<"Rgb", 16>> THEN 6 ELSE IF f = <<"Rgba", 16>> THEN 8
            ELSE IF f = <<"Rgb", 32>> THEN 12 ELSE 16
    BY <1>2, <2>2, <2>3 DEF Tables!Prepress, Tables!InvertedInk, Tables!DeepGrayAlpha
  <2> HIDE DEF all, bits, B
  <2>6. QED
    BY <2>1, <2>3, <2>4, <2>5
<1>10. Right
  <2>1. f[1] \notin {"MonoBlack", "MonoWhite", "Yuyv422", "Uyvy422"}
    BY FamiliesAre
  <2> HIDE DEF Right
  <2>2. QED
    BY <1>1, <1>2, <1>5, <1>6, <1>7, <1>8, <1>9, <2>1, FamiliesAre
       DEF Variant, Tables!Yuv, Tables!Yuva, Tables!Gbrp, Tables!Gbrap
<1>11. QED
  BY <1>3, <1>4, <1>10

\* What SizesExact asks of one answer.
RightSize(f, w, h) ==
  /\ \A n \in Tables!FrameSizeBytes(f, w, h) :
       (8 * n - Tables!SampleBits(f, w, h)) \in 0 .. (Tables!RowPadding(f) * h)
  /\ Tables!FrameSizeBytes(f, w, h) = {} =>
       \E i \in {1, h} : Tables!SampleBits(f, w, i) + Tables!RowPadding(f) * i > 8 * UsizeMax

LEMMA BitsAre ==
  ASSUME NEW f \in Tables!PixelFormat, NEW w \in Nat, NEW h \in Nat
  PROVE  /\ Tables!SampleBits(f, w, h)
              = (Cardinality(Whole(f)) * (w * h) + 2 * Coarse(f, w, h)) * Tables!ComponentBits(f)
         /\ Coarse(f, w, h) \in Nat /\ w * h \in Nat
<1>1. Tables!SampleBits(f, w, h)
        = (Cardinality(Whole(f)) * (w * h) + 2 * Coarse(f, w, h)) * Tables!ComponentBits(f)
  BY SamplesAre DEF Tables!SampleBits
<1>2. w * h \in Nat
  BY MulSign
<1>3. Coarse(f, w, h) \in Nat
  <2>1. CASE f[1] \in Subsampled
    <3>1. Tables!DivCeil(w, Across(f)) \in Nat /\ Tables!DivCeil(h, Down(f)) \in Nat
      BY <2>1, ChromaIs, CeilIs
    <3>2. Tables!DivCeil(w, Across(f)) * Tables!DivCeil(h, Down(f)) \in Nat
      BY <3>1, MulSign
    <3>3. QED
      BY <2>1, <3>2 DEF Coarse
  <2>2. CASE f[1] \notin Subsampled
    BY <2>2 DEF Coarse
  <2>3. QED
    BY <2>1, <2>2
<1>4. QED
  BY <1>1, <1>2, <1>3

\* The planes hold the samples and the padding: so does the frame, unless usize
\* does not hold them.
LEMMA PlanesMakeFrame ==
  ASSUME NEW f, NEW w, NEW h \in Nat, NEW z \in [0 .. 3 -> Nat], NEW refused,
         NEW N \in 1 .. 4, Tables!PlaneCount(f) = N,
         \A p \in 0 .. (N - 1) :
           Tables!PlaneSizeBytes(f, p, w, h)
             = IF p \in refused THEN {} ELSE Tables!CheckedSize(z[p]),
         NEW pad \in Nat, pad = Tables!RowPadding(f),
         Tables!SampleBits(f, w, h) \in Int, Tables!SampleBits(f, w, 1) \in Int,
         (8 * Sum(z, N) - Tables!SampleBits(f, w, h)) \in 0 .. (pad * h),
         (\E p \in 0 .. (N - 1) : p \in refused) =>
           Tables!SampleBits(f, w, 1) + pad > 8 * UsizeMax
  PROVE  RightSize(f, w, h)
<1> DEFINE sum == Sum(z, N)
           bits == Tables!SampleBits(f, w, h)
           one == Tables!SampleBits(f, w, 1)
           frame == Tables!FrameSizeBytes(f, w, h)
<1>1. frame = Partial(z, refused, N)
  BY FrameIs
<1>2. sum \in Nat /\ UsizeMax \in Nat /\ pad * h \in Int
  BY SumIs, MediaAssumption
<1>3. frame = {} \/ frame = {sum}
  BY <1>1 DEF Partial
<1>4. ASSUME frame = {} PROVE one + pad > 8 * UsizeMax \/ bits + pad * h > 8 * UsizeMax
  <2>1. (\E p \in 0 .. (N - 1) : p \in refused) \/ sum > UsizeMax
    BY <1>1, <1>4 DEF Partial
  <2>2. ASSUME sum > UsizeMax PROVE bits + pad * h > 8 * UsizeMax
    <3> HIDE DEF sum, bits
    <3>1. 8 * sum - bits <= pad * h
      BY <1>2 DEF sum, bits
    <3>2. QED
      BY <1>2, <2>2, <3>1 DEF bits
  <2>3. QED
    BY <2>1, <2>2
<1>5. pad * 1 = pad
  OBVIOUS
<1>6. \A n \in frame : (8 * n - bits) \in 0 .. (Tables!RowPadding(f) * h)
  BY <1>3
<1>7. frame = {} => \E i \in {1, h} : Tables!SampleBits(f, w, i) + Tables!RowPadding(f) * i
                                        > 8 * UsizeMax
  BY <1>4, <1>5
<1>8. QED
  BY <1>6, <1>7 DEF RightSize

LEMMA BytesOfBlock ==
  ASSUME NEW w \in Nat, NEW h \in Nat, NEW B \in Nat, NEW n \in Nat, NEW bits \in Nat,
         8 * B = n * bits
  PROVE  /\ (w * B) * h \in Nat /\ w * h \in Nat /\ w * B \in Nat
         /\ 8 * ((w * B) * h) = (n * (w * h)) * bits
         /\ (w * B) * h = (w * h) * B
<1>1. w * B \in Nat /\ w * h \in Nat
  BY MulSign
<1>2. (w * B) * h \in Nat
  BY <1>1, MulSign
<1>3. (w * B) * h = (w * h) * B
  OBVIOUS
<1>4. 8 * ((w * h) * B) = (w * h) * (8 * B)
  OBVIOUS
<1>5. (n * (w * h)) * bits = (w * h) * (n * bits)
  OBVIOUS
<1>6. QED
  BY <1>1, <1>2, <1>3, <1>4, <1>5

LEMMA PackedSize ==
  ASSUME NEW f \in Tables!PixelFormat, NEW w \in Nat, NEW h \in Nat, ~ Tables!IsPlanar(f),
         f \notin Tables!BitMono \union Tables!Macropixel
  PROVE  RightSize(f, w, h)
<1> DEFINE B == Tables!BytesPerPosition(f, 0)
           bits == Tables!ComponentBits(f)
           all == Cardinality(Whole(f))
           z == [p \in 0 .. 3 |-> (w * B) * h]
           refused == IF w * B <= UsizeMax THEN {} ELSE {0}
           N == 1
           pad == 0
<1>1. /\ Tables!PlaneCount(f) = 1 /\ f[1] \notin Subsampled
      /\ B \in Nat /\ bits \in Nat /\ all \in Nat /\ 8 * B = all * bits
  BY PackedIs
<1>2. /\ Tables!PlaneDimensions(f, 0, w, 1) = {<<w, 1>>}
      /\ Tables!PlaneDimensions(f, 0, w, h) = {<<w, h>>}
  BY <1>1, PlaneIs
<1>3. Tables!PlaneSizeBytes(f, 0, w, h)
        = IF w * B <= UsizeMax THEN Tables!CheckedSize((w * B) * h) ELSE {}
  BY <1>2, PlaneSizeIs
<1> HIDE DEF B, bits, all
<1>4. /\ (w * B) * h \in Nat /\ w * B \in Nat /\ 8 * ((w * B) * h) = (all * (w * h)) * bits
      /\ (w * B) * 1 \in Nat /\ 8 * ((w * B) * 1) = (all * (w * 1)) * bits
  BY <1>1, BytesOfBlock
<1>5. Coarse(f, w, h) = 0 /\ Coarse(f, w, 1) = 0
  BY <1>1 DEF Coarse
<1>6. /\ Tables!SampleBits(f, w, h) = (all * (w * h) + 2 * Coarse(f, w, h)) * bits
      /\ Tables!SampleBits(f, w, 1) = (all * (w * 1) + 2 * Coarse(f, w, 1)) * bits
      /\ w * h \in Nat
  BY BitsAre DEF all, bits
<1>7. /\ Tables!SampleBits(f, w, h) = 8 * ((w * B) * h)
      /\ Tables!SampleBits(f, w, 1) = 8 * (w * B)
  <2>1. all * (w * h) + 2 * 0 = all * (w * h) /\ all * (w * 1) + 2 * 0 = all * (w * 1)
    BY <1>1, <1>6
  <2>2. (w * B) * 1 = w * B
    BY <1>4
  <2>3. QED
    BY <1>4, <1>5, <1>6, <2>1, <2>2
<1>8. Tables!RowPadding(f) = pad /\ pad \in Nat /\ N \in 1 .. 4 /\ Tables!PlaneCount(f) = N
  BY <1>1 DEF Tables!RowPadding
<1>9. Sum(z, N) = (w * B) * h /\ z \in [0 .. 3 -> Nat] /\ z[0] = (w * B) * h
  BY <1>4 DEF Sum
<1>10. \A p \in 0 .. (N - 1) :
         Tables!PlaneSizeBytes(f, p, w, h) = IF p \in refused THEN {} ELSE Tables!CheckedSize(z[p])
  <2>1. \A p \in 0 .. (N - 1) : p = 0
    OBVIOUS
  <2>2. 0 \in refused <=> ~ (w * B <= UsizeMax)
    OBVIOUS
  <2> HIDE DEF z, refused
  <2>3. QED
    BY <1>3, <1>9, <2>1, <2>2
<1>11. (\E p \in 0 .. (N - 1) : p \in refused) => Tables!SampleBits(f, w, 1) + pad > 8 * UsizeMax
  <2>1. ASSUME w * B > UsizeMax PROVE 8 * (w * B) + 0 > 8 * UsizeMax
    BY <1>4, <2>1, MediaAssumption
  <2>2. refused # {} => w * B > UsizeMax
    BY <1>4, MediaAssumption
  <2> HIDE DEF refused
  <2>3. QED
    BY <1>7, <2>1, <2>2
<1>12. (8 * Sum(z, N) - Tables!SampleBits(f, w, h)) \in 0 .. (pad * h)
  <2>1. 8 * ((w * B) * h) - 8 * ((w * B) * h) = 0 /\ 0 * h = 0
    BY <1>4
  <2>2. QED
    BY <1>7, <1>9, <2>1
<1>13. Tables!SampleBits(f, w, h) \in Int /\ Tables!SampleBits(f, w, 1) \in Int
  BY <1>4, <1>7
<1> HIDE DEF z, refused, N, pad
<1>14. QED
  BY <1>8, <1>9, <1>10, <1>11, <1>12, <1>13, PlanesMakeFrame

\* Eight pixels share a byte.
LEMMA MonoPlaneIs ==
  ASSUME NEW f, NEW w, NEW h, f \in Tables!BitMono,
         Tables!PlaneDimensions(f, 0, w, 1) = {<<w, 1>>},
         Tables!PlaneDimensions(f, 0, w, h) = {<<w, h>>}
  PROVE  Tables!PlaneSizeBytes(f, 0, w, h) = Tables!CheckedSize(Tables!DivCeil(w, 8) * h)
<1> DEFINE rowed(r) == UNION {Tables!CheckedSize(row * d[2]) :
                                row \in r, d \in {<<w, h>>}}
           bytes(x) == CASE f \in Tables!BitMono -> {Tables!DivCeil(x, 8)}
                         [] f \in Tables!Macropixel -> Tables!CheckedSize(Tables!DivCeil(x, 2) * 4)
                         [] OTHER -> Tables!CheckedSize(x * Tables!BytesPerPosition(f, 0))
           d == <<w, 1>>
           all == UNION {bytes(e[1]) : e \in {d}}
<1>1. Tables!PlaneSizeBytes(f, 0, w, h) = rowed(Tables!PlaneRowBytes(f, 0, w))
  BY DEF Tables!PlaneSizeBytes
<1>2. \A x : rowed({x}) = Tables!CheckedSize(x * h)
  OBVIOUS
<1>3. Tables!PlaneRowBytes(f, 0, w) = all
  BY Zenon DEF Tables!PlaneRowBytes
<1>4. d[1] = w
  OBVIOUS
<1> HIDE DEF rowed, d
<1>5. f \notin Tables!Macropixel
  BY DEF Tables!BitMono, Tables!Macropixel
<1>6. bytes(w) = {Tables!DivCeil(w, 8)}
  BY <1>5
<1> HIDE DEF bytes
<1>7. all = bytes(d[1])
  OBVIOUS
<1>8. QED
  BY <1>1, <1>2, <1>3, <1>4, <1>6, <1>7

LEMMA MonoSize ==
  ASSUME NEW f \in Tables!PixelFormat, NEW w \in Nat, NEW h \in Nat, f \in Tables!BitMono
  PROVE  RightSize(f, w, h)
<1> DEFINE D == Tables!DivCeil(w, 8)
           z == [p \in 0 .. 3 |-> D * h]
           refused == {}
           N == 1
           pad == 7
<1>1. /\ f[1] \in {"MonoBlack", "MonoWhite"} /\ f[1] \notin Subsampled
      /\ f \notin Tables!Macropixel /\ f \notin Tables!SemiPlanar
      /\ f \notin Tables!Yuv \union Tables!Yuva \union Tables!Gbrp \union Tables!Gbrap
  BY FamiliesAre DEF Subsampled, Tables!Yuv, Tables!Yuva, Tables!Gbrp, Tables!Gbrap
<1>2. Tables!PlaneCount(f) = N /\ N \in 1 .. 4 /\ pad \in Nat
  BY <1>1 DEF Tables!PlaneCount
<1>3. /\ Tables!PlaneDimensions(f, 0, w, 1) = {<<w, 1>>}
      /\ Tables!PlaneDimensions(f, 0, w, h) = {<<w, h>>}
  BY <1>1, <1>2, PlaneIs
<1>4. Tables!PlaneSizeBytes(f, 0, w, h) = Tables!CheckedSize(D * h)
  BY <1>3, MonoPlaneIs
<1>5. D \in Nat /\ 8 * D - w \in Nat /\ 8 * D - w <= 7
  BY DEF Tables!DivCeil
<1>6. D * h \in Nat /\ (8 * D - w) * h \in Nat /\ (8 * D - w) * h <= 7 * h
  <2> HIDE DEF D
  <2>1. D * h \in Nat /\ (8 * D - w) * h \in Nat
    BY <1>5, MulSign
  <2>2. (8 * D - w) * h <= 7 * h
    BY <1>5, MulMono
  <2>3. QED
    BY <2>1, <2>2
<1>7. /\ Tables!SampleBits(f, w, h) = w * h /\ w * h \in Nat
      /\ Tables!SampleBits(f, w, 1) = w
  <2>1. Coarse(f, w, h) = 0 /\ Coarse(f, w, 1) = 0
    BY <1>1 DEF Coarse
  <2>2. Cardinality(Whole(f)) = 1
    BY <1>1, WholeIs
  <2>3. Tables!ComponentBits(f) = 1
    <3>1. f \notin Tables!WordRgb
      BY <1>1, FamiliesAre
    <3>2. QED
      BY <3>1 DEF Tables!ComponentBits
  <2>4. /\ Tables!SampleBits(f, w, h) = (1 * (w * h) + 2 * 0) * 1
        /\ Tables!SampleBits(f, w, 1) = (1 * (w * 1) + 2 * 0) * 1
        /\ w * h \in Nat
    BY <2>1, <2>2, <2>3, BitsAre
  <2>5. QED
    BY <2>4
<1> HIDE DEF D
<1>8. Tables!RowPadding(f) = pad
  BY <1>1 DEF Tables!RowPadding
<1>9. Sum(z, N) = D * h /\ z \in [0 .. 3 -> Nat] /\ z[0] = D * h
  BY <1>6 DEF Sum
<1>10. \A p \in 0 .. (N - 1) :
         Tables!PlaneSizeBytes(f, p, w, h) = IF p \in refused THEN {} ELSE Tables!CheckedSize(z[p])
  <2>1. \A p \in 0 .. (N - 1) : p = 0
    OBVIOUS
  <2> HIDE DEF z, N
  <2>2. QED
    BY <1>4, <1>9, <2>1
<1>11. (8 * Sum(z, N) - Tables!SampleBits(f, w, h)) \in 0 .. (pad * h)
  <2>1. 8 * (D * h) - w * h = (8 * D - w) * h
    BY <1>5
  <2>2. QED
    BY <1>6, <1>7, <1>9, <2>1
<1>12. ~ \E p \in 0 .. (N - 1) : p \in refused
  OBVIOUS
<1>13. Tables!SampleBits(f, w, h) \in Int /\ Tables!SampleBits(f, w, 1) \in Int
  BY <1>7
<1> HIDE DEF z, refused, N, pad
<1>14. QED
  BY <1>2, <1>8, <1>9, <1>10, <1>11, <1>12, <1>13, PlanesMakeFrame

\* Two pixels share a macropixel of four bytes.
LEMMA MacropixelSize ==
  ASSUME NEW f \in Tables!PixelFormat, NEW w \in Nat, NEW h \in Nat, f \in Tables!Macropixel
  PROVE  RightSize(f, w, h)
<1> DEFINE D == Tables!DivCeil(w, 2)
           z == [p \in 0 .. 3 |-> (D * 4) * h]
           refused == IF D * 4 <= UsizeMax THEN {} ELSE {0}
           N == 1
           pad == 8
<1>1. /\ f[1] \in {"Yuyv422", "Uyvy422"} /\ f[1] \in Subsampled
      /\ f \notin Tables!BitMono /\ f \notin Tables!SemiPlanar
      /\ f \notin Tables!Yuv \union Tables!Yuva \union Tables!Gbrp \union Tables!Gbrap
  BY FamiliesAre DEF Subsampled, Tables!Yuv, Tables!Yuva, Tables!Gbrp, Tables!Gbrap
<1>2. Tables!PlaneCount(f) = N /\ N \in 1 .. 4 /\ pad \in Nat
  BY <1>1 DEF Tables!PlaneCount
<1>3. /\ Tables!PlaneDimensions(f, 0, w, 1) = {<<w, 1>>}
      /\ Tables!PlaneDimensions(f, 0, w, h) = {<<w, h>>}
  BY <1>1, <1>2, PlaneIs
<1>4. Tables!PlaneSizeBytes(f, 0, w, h)
        = IF D * 4 <= UsizeMax THEN Tables!CheckedSize((D * 4) * h) ELSE {}
  BY <1>1, <1>3, PlaneSizeIs
<1>5. D \in Nat /\ 2 * D - w \in Nat /\ 2 * D - w <= 1
  BY DEF Tables!DivCeil
<1>6. Coarse(f, w, h) = D * h /\ Coarse(f, w, 1) = D
  <2>1. Across(f) = 2 /\ Down(f) = 1
    BY <1>1, ChromaIs
  <2>2. Tables!DivCeil(h, 1) = h /\ Tables!DivCeil(1, 1) = 1
    BY CeilIs DEF Spacings
  <2>3. D * 1 = D
    BY <1>5
  <2>4. QED
    BY <1>1, <2>1, <2>2, <2>3 DEF Coarse
<1>7. /\ Tables!SampleBits(f, w, h) = (w * h + 2 * (D * h)) * 8 /\ w * h \in Nat
      /\ Tables!SampleBits(f, w, 1) = (w + 2 * D) * 8
  <2>1. Cardinality(Whole(f)) = 1
    BY <1>1, WholeIs
  <2>2. Tables!ComponentBits(f) = 8
    <3>1. f \notin Tables!WordRgb
      BY <1>1, FamiliesAre
    <3>2. f[2] = 8
      BY <1>1, VariantIs DEF Variant
    <3>3. QED
      BY <1>1, <3>1, <3>2 DEF Tables!ComponentBits, Tables!WordBits
  <2> HIDE DEF D
  <2>3. /\ Tables!SampleBits(f, w, h) = (1 * (w * h) + 2 * (D * h)) * 8
        /\ Tables!SampleBits(f, w, 1) = (1 * (w * 1) + 2 * D) * 8
        /\ w * h \in Nat
    BY <1>6, <2>1, <2>2, BitsAre
  <2>4. 1 * (w * h) = w * h /\ 1 * (w * 1) = w
    BY <2>3
  <2>5. QED
    BY <2>3, <2>4
<1> HIDE DEF D
<1>8. D * h \in Nat /\ (D * 4) * h = 4 * (D * h) /\ (2 * D - w) * h \in 0 .. h
  <2>1. D * h \in Nat /\ (2 * D - w) * h \in Nat
    BY <1>5, MulSign
  <2>2. (2 * D - w) * h <= 1 * h
    BY <1>5, MulMono
  <2>3. (D * 4) * h = 4 * (D * h)
    BY <1>5
  <2>4. QED
    BY <2>1, <2>2, <2>3
<1>9. Tables!RowPadding(f) = pad
  BY <1>1 DEF Tables!RowPadding
<1>10. Sum(z, N) = (D * 4) * h /\ z \in [0 .. 3 -> Nat] /\ z[0] = (D * 4) * h
  <2>1. (D * 4) * h \in Nat
    BY <1>8
  <2>2. QED
    BY <2>1 DEF Sum
<1>11. \A p \in 0 .. (N - 1) :
         Tables!PlaneSizeBytes(f, p, w, h) = IF p \in refused THEN {} ELSE Tables!CheckedSize(z[p])
  <2>1. \A p \in 0 .. (N - 1) : p = 0
    OBVIOUS
  <2>2. 0 \in refused <=> ~ (D * 4 <= UsizeMax)
    OBVIOUS
  <2> HIDE DEF z, refused, N
  <2>3. QED
    BY <1>4, <1>10, <2>1, <2>2
<1>12. (8 * Sum(z, N) - Tables!SampleBits(f, w, h)) \in 0 .. (pad * h)
  <2>1. (2 * D - w) * h = 2 * (D * h) - w * h
    BY <1>5
  <2>2. 8 * (4 * (D * h)) - (w * h + 2 * (D * h)) * 8 = 8 * (2 * (D * h) - w * h)
    BY <1>7, <1>8
  <2>3. 8 * (2 * (D * h) - w * h) \in 0 .. (8 * h)
    BY <1>8, <2>1
  <2>4. QED
    BY <1>7, <1>8, <1>10, <2>2, <2>3
<1>13. (\E p \in 0 .. (N - 1) : p \in refused) => Tables!SampleBits(f, w, 1) + pad > 8 * UsizeMax
  <2>1. ASSUME D * 4 > UsizeMax PROVE (w + 2 * D) * 8 + pad > 8 * UsizeMax
    BY <1>5, <2>1, MediaAssumption
  <2>2. refused # {} => D * 4 > UsizeMax
    BY <1>5, MediaAssumption
  <2> HIDE DEF refused
  <2>3. QED
    BY <1>7, <2>1, <2>2
<1>14. Tables!SampleBits(f, w, h) \in Int /\ Tables!SampleBits(f, w, 1) \in Int
  BY <1>5, <1>7, <1>8
<1> HIDE DEF z, refused, N, pad
<1>15. QED
  BY <1>2, <1>9, <1>10, <1>11, <1>12, <1>13, <1>14, PlanesMakeFrame

\* Planes of words: one for each component.
LEMMA PlanesOfWords ==
  ASSUME NEW f \in Tables!PixelFormat,
         f \in Tables!Yuv \union Tables!Yuva \union Tables!Gbrp \union Tables!Gbrap
  PROVE  /\ Tables!WordBits(f) \div 8 \in {1, 2, 4}
         /\ Tables!ComponentBits(f) = 8 * (Tables!WordBits(f) \div 8)
         /\ \A p : Tables!BytesPerPosition(f, p) = Tables!WordBits(f) \div 8
         /\ f \notin Tables!BitMono \union Tables!Macropixel
         /\ Tables!RowPadding(f) = 0
         /\ f[1] \in Subsampled =>
              /\ Cardinality(Whole(f)) \in {1, 2}
              /\ Tables!PlaneCount(f) = Cardinality(Whole(f)) + 2
         /\ f[1] \notin Subsampled =>
              /\ Cardinality(Whole(f)) \in {3, 4}
              /\ Tables!PlaneCount(f) = Cardinality(Whole(f))
<1>1. f[1] \in {"Yuv420P", "Yuv422P", "Yuv444P", "Yuv411P", "Yuv440P", "YuvJ420P", "YuvJ422P",
               "YuvJ444P", "Yuva420P", "Yuva422P", "Yuva444P", "Gbrp", "Gbrap"}
  BY FamiliesAre DEF Tables!Yuv, Tables!Yuva, Tables!Gbrp, Tables!Gbrap
<1>2. /\ f \notin Tables!BitMono /\ f \notin Tables!Macropixel /\ f \notin Tables!WordRgb
      /\ f \notin Tables!SemiPlanar
  BY <1>1, FamiliesAre
<1>3. Tables!WordBits(f) \in {8, 16, 32}
  BY DEF Tables!WordBits
<1>4. Tables!WordBits(f) \div 8 \in {1, 2, 4} /\ 8 * (Tables!WordBits(f) \div 8) = Tables!WordBits(f)
  BY <1>3
<1>5. Tables!ComponentBits(f) = Tables!WordBits(f) /\ Tables!RowPadding(f) = 0
  BY <1>2 DEF Tables!ComponentBits, Tables!RowPadding
<1>6. \A p : Tables!BytesPerPosition(f, p) = Tables!WordBits(f) \div 8
  <2>1. /\ f \notin Tables!PaddedRgb /\ f \notin Tables!Prepress /\ f \notin Tables!InvertedInk
        /\ f \notin Tables!DeepGrayAlpha /\ f \notin {"Rgba", "Bgra", "Argb", "Abgr"} \X {8}
        /\ f[1] \notin {"Ya", "Rgb", "Bgr", "Rgba"}
    BY <1>1, FamiliesAre DEF Tables!Prepress, Tables!InvertedInk, Tables!DeepGrayAlpha
  <2>2. QED
    BY <1>2, <2>1 DEF Tables!BytesPerPosition
<1>7. ASSUME f[1] \in Subsampled
      PROVE  /\ Cardinality(Whole(f)) \in {1, 2}
             /\ Tables!PlaneCount(f) = Cardinality(Whole(f)) + 2
  <2>1. CASE f \in Tables!Yuv
    <3>1. Cardinality(Whole(f)) = 1
      BY <2>1, WholeIs, FamiliesAre DEF Tables!Yuv
    <3>2. Tables!PlaneCount(f) = 3
      BY <1>2, <2>1, FamiliesAre DEF Tables!PlaneCount, Tables!Yuv, Tables!Yuva, Tables!Gbrap
    <3>3. QED
      BY <3>1, <3>2
  <2>2. CASE f \in Tables!Yuva
    <3>1. Cardinality(Whole(f)) = 2
      BY <2>2, WholeIs, FamiliesAre DEF Tables!Yuva
    <3>2. Tables!PlaneCount(f) = 4
      BY <1>2, <2>2, FamiliesAre DEF Tables!PlaneCount, Tables!Yuv, Tables!Yuva, Tables!Gbrp
    <3>3. QED
      BY <3>1, <3>2
  <2>3. f \notin Tables!Gbrp /\ f \notin Tables!Gbrap
    BY <1>7, FamiliesAre DEF Subsampled, Tables!Gbrp, Tables!Gbrap
  <2>4. QED
    BY <2>1, <2>2, <2>3
<1>8. ASSUME f[1] \notin Subsampled
      PROVE  /\ Cardinality(Whole(f)) \in {3, 4}
             /\ Tables!PlaneCount(f) = Cardinality(Whole(f))
  <2>1. CASE f[1] = "Gbrp"
    <3>1. Cardinality(Whole(f)) = 3
      BY <2>1, WholeIs
    <3>2. Tables!PlaneCount(f) = 3
      BY <1>2, <2>1, FamiliesAre
         DEF Tables!PlaneCount, Tables!Gbrp, Tables!Yuva, Tables!Gbrap
    <3>3. QED
      BY <3>1, <3>2
  <2>2. CASE f[1] = "Gbrap"
    <3>1. Cardinality(Whole(f)) = 4
      BY <2>2, WholeIs
    <3>2. Tables!PlaneCount(f) = 4
      BY <1>2, <2>2, FamiliesAre
         DEF Tables!PlaneCount, Tables!Yuv, Tables!Gbrp, Tables!Gbrap
    <3>3. QED
      BY <3>1, <3>2
  <2>3. QED
    BY <1>1, <1>8, <2>1, <2>2 DEF Subsampled
<1>9. QED
  BY <1>2, <1>4, <1>5, <1>6, <1>7, <1>8

\* The bytes of planes on two grids are the bits of their samples.
LEMMA BytesOfGrids ==
  ASSUME NEW w \in Nat, NEW h \in Nat, NEW m \in Nat, NEW n \in Nat, NEW B \in Nat,
         NEW k \in {1, 2}
  PROVE  /\ (w * B) * h \in Nat /\ (m * B) * n \in Nat /\ w * B \in Nat /\ m * B \in Nat
         /\ 8 * (k * ((w * B) * h) + 2 * ((m * B) * n)) = (k * (w * h) + 2 * (m * n)) * (8 * B)
         /\ w * B <= (k * w + 2 * m) * B /\ m * B <= (k * w + 2 * m) * B
<1> DEFINE x == (w * B) * h
           y == (m * B) * n
           X == w * h
           Y == m * n
           bits == 8 * B
<1>1. /\ x \in Nat /\ y \in Nat /\ w * B \in Nat /\ m * B \in Nat /\ X \in Nat /\ Y \in Nat
      /\ x = X * B /\ y = Y * B
  BY BytesOfBlock
<1>2. (k * X + 2 * Y) * bits = 8 * (k * (X * B) + 2 * (Y * B))
  <2> HIDE DEF X, Y
  <2>1. X \in Nat /\ Y \in Nat
    BY <1>1
  <2>2. (1 * X + 2 * Y) * (8 * B) = 8 * (1 * (X * B) + 2 * (Y * B))
    BY <2>1
  <2>3. (2 * X + 2 * Y) * (8 * B) = 8 * (2 * (X * B) + 2 * (Y * B))
    BY <2>1
  <2>4. QED
    BY <2>2, <2>3
<1>3. k * w + 2 * m \in Nat /\ w <= k * w + 2 * m /\ m <= k * w + 2 * m
  OBVIOUS
<1>4. w * B <= (k * w + 2 * m) * B /\ m * B <= (k * w + 2 * m) * B
  BY <1>3, MulMono
<1> HIDE DEF x, y, X, Y
<1>5. QED
  BY <1>1, <1>2, <1>4 DEF x, y, X, Y

\* The planes at full resolution and the two of the chroma grid.
LEMMA ChromaPlanes ==
  ASSUME NEW f \in Tables!PixelFormat, NEW w \in Nat, NEW h \in Nat, f[1] \in Subsampled,
         Tables!PlaneCount(f) \in 1 .. 4
  PROVE  LET m == Tables!DivCeil(w, Across(f))
             n == Tables!DivCeil(h, Down(f))
         IN  /\ m \in Nat /\ n \in Nat
             /\ Coarse(f, w, h) = m * n /\ Coarse(f, w, 1) = m
             /\ \A p \in 0 .. (Tables!PlaneCount(f) - 1) :
                  IF p \in {1, 2}
                    THEN /\ Tables!PlaneDimensions(f, p, w, h) = {<<m, n>>}
                         /\ Tables!PlaneDimensions(f, p, w, 1) = {<<m, 1>>}
                    ELSE /\ Tables!PlaneDimensions(f, p, w, h) = {<<w, h>>}
                         /\ Tables!PlaneDimensions(f, p, w, 1) = {<<w, 1>>}
<1> DEFINE m == Tables!DivCeil(w, Across(f))
           n == Tables!DivCeil(h, Down(f))
<1>1. Across(f) \in Spacings /\ Down(f) \in Spacings
  BY ChromaIs
<1>2. m \in Nat /\ n \in Nat
  BY <1>1, CeilIs
<1>3. Tables!DivCeil(1, Down(f)) = 1
  BY <1>1 DEF Spacings, Tables!DivCeil
<1>4. m * 1 = m
  BY <1>2
<1>5. Coarse(f, w, h) = m * n /\ Coarse(f, w, 1) = m
  BY <1>3, <1>4 DEF Coarse
<1>6. ASSUME NEW p \in 0 .. (Tables!PlaneCount(f) - 1)
      PROVE  IF p \in {1, 2}
               THEN /\ Tables!PlaneDimensions(f, p, w, h) = {<<m, n>>}
                    /\ Tables!PlaneDimensions(f, p, w, 1) = {<<m, 1>>}
               ELSE /\ Tables!PlaneDimensions(f, p, w, h) = {<<w, h>>}
                    /\ Tables!PlaneDimensions(f, p, w, 1) = {<<w, 1>>}
  <2>1. p \in Nat /\ p < Tables!PlaneCount(f)
    OBVIOUS
  <2>2. CASE p \in {1, 2}
    BY <1>3, <2>1, <2>2, PlaneIs
  <2>3. CASE p \notin {1, 2}
    BY <2>1, <2>3, PlaneIs
  <2>4. QED
    BY <2>2, <2>3
<1>7. QED
  BY <1>2, <1>5, <1>6

\* Planes of words, two of them on the chroma grid.
LEMMA ChromaSize ==
  ASSUME NEW f \in Tables!PixelFormat, NEW w \in Nat, NEW h \in Nat, f[1] \in Subsampled,
         f \in Tables!Yuv \union Tables!Yuva \union Tables!Gbrp \union Tables!Gbrap
  PROVE  RightSize(f, w, h)
<1> DEFINE B == Tables!WordBits(f) \div 8
           all == Cardinality(Whole(f))
           m == Tables!DivCeil(w, Across(f))
           n == Tables!DivCeil(h, Down(f))
           x == (w * B) * h
           y == (m * B) * n
           row == [p \in 0 .. 3 |-> IF p \in {1, 2} THEN m * B ELSE w * B]
           z == [p \in 0 .. 3 |-> IF p \in {1, 2} THEN y ELSE x]
           refused == {p \in 0 .. 3 : row[p] > UsizeMax}
           N == all + 2
           pad == 0
           bits == Tables!ComponentBits(f)
<1>1. /\ B \in Nat /\ bits = 8 * B /\ all \in {1, 2} /\ Tables!PlaneCount(f) = N
      /\ f \notin Tables!BitMono \union Tables!Macropixel /\ Tables!RowPadding(f) = pad
      /\ \A p : Tables!BytesPerPosition(f, p) = B
  BY PlanesOfWords
<1>2. N \in 1 .. 4 /\ pad \in Nat
  <2> HIDE DEF all
  <2>1. QED
    BY <1>1
<1>3. /\ m \in Nat /\ n \in Nat /\ Coarse(f, w, h) = m * n /\ Coarse(f, w, 1) = m
      /\ \A p \in 0 .. (N - 1) :
           IF p \in {1, 2}
             THEN /\ Tables!PlaneDimensions(f, p, w, h) = {<<m, n>>}
                  /\ Tables!PlaneDimensions(f, p, w, 1) = {<<m, 1>>}
             ELSE /\ Tables!PlaneDimensions(f, p, w, h) = {<<w, h>>}
                  /\ Tables!PlaneDimensions(f, p, w, 1) = {<<w, 1>>}
  <2> HIDE DEF B, all, x, y, row, z, refused, N, pad, bits
  <2>1. Tables!PlaneCount(f) \in 1 .. 4
    BY <1>1, <1>2
  <2>2. /\ m \in Nat /\ n \in Nat /\ Coarse(f, w, h) = m * n /\ Coarse(f, w, 1) = m
        /\ \A p \in 0 .. (Tables!PlaneCount(f) - 1) :
             IF p \in {1, 2}
               THEN /\ Tables!PlaneDimensions(f, p, w, h) = {<<m, n>>}
                    /\ Tables!PlaneDimensions(f, p, w, 1) = {<<m, 1>>}
               ELSE /\ Tables!PlaneDimensions(f, p, w, h) = {<<w, h>>}
                    /\ Tables!PlaneDimensions(f, p, w, 1) = {<<w, 1>>}
    BY <2>1, ChromaPlanes
  <2>3. QED
    BY <1>1, <2>2
<1> HIDE DEF B, all, m, n, bits
<1>4. /\ x \in Nat /\ y \in Nat /\ w * B \in Nat /\ m * B \in Nat
      /\ 8 * (all * x + 2 * y) = (all * (w * h) + 2 * (m * n)) * (8 * B)
      /\ w * B <= (all * w + 2 * m) * B /\ m * B <= (all * w + 2 * m) * B
  BY <1>1, <1>3, BytesOfGrids
<1>5. /\ Tables!SampleBits(f, w, h) = 8 * (all * x + 2 * y)
      /\ Tables!SampleBits(f, w, 1) = 8 * ((all * w + 2 * m) * B)
  <2>1. /\ Tables!SampleBits(f, w, h) = (all * (w * h) + 2 * (m * n)) * (8 * B)
        /\ Tables!SampleBits(f, w, 1) = (all * (w * 1) + 2 * m) * (8 * B)
    BY <1>1, <1>3, BitsAre DEF all, bits
  <2>2. w * 1 = w /\ all * w + 2 * m \in Nat
    BY <1>1, <1>3
  <2>3. \A k \in Nat : k * (8 * B) = 8 * (k * B)
    BY <1>1
  <2>4. QED
    BY <1>4, <2>1, <2>2, <2>3
<1> HIDE DEF x, y
<1>6. z \in [0 .. 3 -> Nat] /\ Sum(z, N) = all * x + 2 * y
  <2>1. z \in [0 .. 3 -> Nat] /\ z[0] = x /\ z[1] = y /\ z[2] = y /\ z[3] = x
    BY <1>4
  <2> HIDE DEF z
  <2>2. CASE all = 1
    BY <1>4, <2>1, <2>2 DEF Sum
  <2>3. CASE all = 2
    BY <1>4, <2>1, <2>3 DEF Sum
  <2>4. QED
    BY <1>1, <2>1, <2>2, <2>3
<1>7. ASSUME NEW p \in 0 .. (N - 1)
      PROVE  Tables!PlaneSizeBytes(f, p, w, h)
               = IF p \in refused THEN {} ELSE Tables!CheckedSize(z[p])
  <2>1. p \in 0 .. 3
    BY <1>2
  <2>2. row[p] \in Nat /\ UsizeMax \in Nat
    BY <1>4, <2>1, MediaAssumption
  <2>3. p \in refused <=> ~ (row[p] <= UsizeMax)
    BY <2>1, <2>2
  <2>4. CASE p \in {1, 2}
    <3>1. Tables!PlaneSizeBytes(f, p, w, h)
            = IF m * B <= UsizeMax THEN Tables!CheckedSize((m * B) * n) ELSE {}
      <4>1. /\ Tables!PlaneDimensions(f, p, w, 1) = {<<m, 1>>}
            /\ Tables!PlaneDimensions(f, p, w, h) = {<<m, n>>}
        BY <1>3, <2>4
      <4>2. Tables!PlaneSizeBytes(f, p, w, h)
              = IF m * Tables!BytesPerPosition(f, p) <= UsizeMax
                  THEN Tables!CheckedSize((m * Tables!BytesPerPosition(f, p)) * n) ELSE {}
        BY <1>1, <4>1, PlaneSizeIs
      <4>3. QED
        BY <1>1, <4>2
    <3>2. row[p] = m * B /\ z[p] = (m * B) * n
      BY <2>1, <2>4 DEF y
    <3> HIDE DEF row, z, refused
    <3>3. QED
      BY <2>3, <3>1, <3>2
  <2>5. CASE p \notin {1, 2}
    <3>1. Tables!PlaneSizeBytes(f, p, w, h)
            = IF w * B <= UsizeMax THEN Tables!CheckedSize((w * B) * h) ELSE {}
      <4>1. /\ Tables!PlaneDimensions(f, p, w, 1) = {<<w, 1>>}
            /\ Tables!PlaneDimensions(f, p, w, h) = {<<w, h>>}
        BY <1>3, <2>5
      <4>2. Tables!PlaneSizeBytes(f, p, w, h)
              = IF w * Tables!BytesPerPosition(f, p) <= UsizeMax
                  THEN Tables!CheckedSize((w * Tables!BytesPerPosition(f, p)) * h) ELSE {}
        BY <1>1, <4>1, PlaneSizeIs
      <4>3. QED
        BY <1>1, <4>2
    <3>2. row[p] = w * B /\ z[p] = (w * B) * h
      BY <2>1, <2>5 DEF x
    <3> HIDE DEF row, z, refused
    <3>3. QED
      BY <2>3, <3>1, <3>2
  <2>6. QED
    BY <2>4, <2>5
<1>8. (\E p \in 0 .. (N - 1) : p \in refused) => Tables!SampleBits(f, w, 1) + pad > 8 * UsizeMax
  <2>1. ASSUME NEW p \in refused PROVE (all * w + 2 * m) * B > UsizeMax
    <3>1. row[p] > UsizeMax /\ (row[p] = w * B \/ row[p] = m * B)
      OBVIOUS
    <3>2. (all * w + 2 * m) * B \in Int /\ UsizeMax \in Nat
      BY <1>1, <1>3, MediaAssumption
    <3> HIDE DEF row, refused
    <3>3. QED
      BY <1>4, <3>1, <3>2
  <2>2. (all * w + 2 * m) * B \in Int /\ UsizeMax \in Nat
    BY <1>1, <1>3, MediaAssumption
  <2>3. \A k \in Int : k > UsizeMax => 8 * k + 0 > 8 * UsizeMax
    BY <2>2
  <2> HIDE DEF refused
  <2>4. QED
    BY <1>5, <2>1, <2>2, <2>3
<1>9. /\ Tables!SampleBits(f, w, h) \in Int /\ Tables!SampleBits(f, w, 1) \in Int
      /\ (8 * Sum(z, N) - Tables!SampleBits(f, w, h)) \in 0 .. (pad * h)
  <2>1. all * x + 2 * y \in Int /\ (all * w + 2 * m) * B \in Int
    BY <1>1, <1>3, <1>4
  <2>2. 0 * h = 0
    OBVIOUS
  <2> HIDE DEF z, N
  <2>3. QED
    BY <1>5, <1>6, <2>1, <2>2
<1> HIDE DEF z, refused, N, pad
<1>10. QED
  BY <1>1, <1>2, <1>6, <1>7, <1>8, <1>9, PlanesMakeFrame

\* Planes of words, all at full resolution.
LEMMA FullSize ==
  ASSUME NEW f \in Tables!PixelFormat, NEW w \in Nat, NEW h \in Nat, f[1] \notin Subsampled,
         f \in Tables!Yuv \union Tables!Yuva \union Tables!Gbrp \union Tables!Gbrap
  PROVE  RightSize(f, w, h)
<1> DEFINE B == Tables!WordBits(f) \div 8
           N == Cardinality(Whole(f))
           x == (w * B) * h
           z == [p \in 0 .. 3 |-> x]
           refused == {p \in 0 .. 3 : w * B > UsizeMax}
           pad == 0
           bits == Tables!ComponentBits(f)
<1>1. /\ B \in Nat /\ bits = 8 * B /\ N \in {3, 4} /\ Tables!PlaneCount(f) = N
      /\ f \notin Tables!BitMono \union Tables!Macropixel /\ Tables!RowPadding(f) = pad
      /\ \A p : Tables!BytesPerPosition(f, p) = B
  BY PlanesOfWords
<1>2. N \in 1 .. 4 /\ pad \in Nat
  <2> HIDE DEF N
  <2>1. QED
    BY <1>1
<1> HIDE DEF B, N, bits
<1>3. ASSUME NEW p \in 0 .. (N - 1)
      PROVE  /\ Tables!PlaneDimensions(f, p, w, h) = {<<w, h>>}
             /\ Tables!PlaneDimensions(f, p, w, 1) = {<<w, 1>>}
  <2>1. p \in Nat /\ p < Tables!PlaneCount(f) /\ Tables!PlaneCount(f) \in 1 .. 4
    BY <1>1, <1>2
  <2>2. QED
    BY <2>1, PlaneIs
<1>4. /\ x \in Nat /\ w * B \in Nat /\ x = (w * h) * B
      /\ (w * B) * 1 \in Nat /\ w * h \in Nat
  BY <1>1, BytesOfBlock
<1>5. /\ Tables!SampleBits(f, w, h) = 8 * (N * x)
      /\ Tables!SampleBits(f, w, 1) = 8 * (N * (w * B))
  <2>1. Coarse(f, w, h) = 0 /\ Coarse(f, w, 1) = 0
    BY DEF Coarse
  <2>2. /\ Tables!SampleBits(f, w, h) = (N * (w * h) + 2 * 0) * (8 * B)
        /\ Tables!SampleBits(f, w, 1) = (N * (w * 1) + 2 * 0) * (8 * B)
    BY <1>1, <2>1, BitsAre DEF N, bits
  <2>3. w * 1 = w
    OBVIOUS
  <2>4. \A k \in Nat : (N * k + 2 * 0) * (8 * B) = 8 * (N * (k * B))
    <3>1. \A k \in Nat : (3 * k + 2 * 0) * (8 * B) = 8 * (3 * (k * B))
      BY <1>1
    <3>2. \A k \in Nat : (4 * k + 2 * 0) * (8 * B) = 8 * (4 * (k * B))
      BY <1>1
    <3>3. QED
      BY <1>1, <3>1, <3>2
  <2> HIDE DEF x
  <2>5. QED
    BY <1>4, <2>2, <2>3, <2>4
<1> HIDE DEF x
<1>6. z \in [0 .. 3 -> Nat] /\ Sum(z, N) = N * x
  <2>1. z \in [0 .. 3 -> Nat] /\ z[0] = x /\ z[1] = x /\ z[2] = x /\ z[3] = x
    BY <1>4
  <2> HIDE DEF z
  <2>2. CASE N = 3
    BY <1>4, <2>1, <2>2 DEF Sum
  <2>3. CASE N = 4
    BY <1>4, <2>1, <2>3 DEF Sum
  <2>4. QED
    BY <1>1, <2>1, <2>2, <2>3
<1>7. ASSUME NEW p \in 0 .. (N - 1)
      PROVE  Tables!PlaneSizeBytes(f, p, w, h)
               = IF p \in refused THEN {} ELSE Tables!CheckedSize(z[p])
  <2>1. p \in 0 .. 3
    BY <1>2
  <2>2. p \in refused <=> ~ (w * B <= UsizeMax)
    BY <1>4, <2>1, MediaAssumption
  <2>3. Tables!PlaneSizeBytes(f, p, w, h)
          = IF w * B <= UsizeMax THEN Tables!CheckedSize((w * B) * h) ELSE {}
    <3>1. Tables!PlaneSizeBytes(f, p, w, h)
            = IF w * Tables!BytesPerPosition(f, p) <= UsizeMax
                THEN Tables!CheckedSize((w * Tables!BytesPerPosition(f, p)) * h) ELSE {}
      BY <1>1, <1>3, PlaneSizeIs
    <3>2. QED
      BY <1>1, <3>1
  <2>4. z[p] = (w * B) * h
    BY <2>1 DEF x
  <2> HIDE DEF z, refused
  <2>5. QED
    BY <2>2, <2>3, <2>4
<1>8. (\E p \in 0 .. (N - 1) : p \in refused) => Tables!SampleBits(f, w, 1) + pad > 8 * UsizeMax
  <2>1. ASSUME NEW p \in refused PROVE w * B > UsizeMax
    OBVIOUS
  <2>2. \A k \in Nat : k > UsizeMax => 8 * (3 * k) + 0 > 8 * UsizeMax
                                       /\ 8 * (4 * k) + 0 > 8 * UsizeMax
    BY MediaAssumption
  <2> HIDE DEF refused
  <2>3. QED
    BY <1>1, <1>4, <1>5, <2>1, <2>2
<1>9. /\ Tables!SampleBits(f, w, h) \in Int /\ Tables!SampleBits(f, w, 1) \in Int
      /\ (8 * Sum(z, N) - Tables!SampleBits(f, w, h)) \in 0 .. (pad * h)
  <2>1. N * x \in Int /\ N * (w * B) \in Int
    BY <1>1, <1>4
  <2>2. 0 * h = 0
    OBVIOUS
  <2> HIDE DEF z
  <2>3. QED
    BY <1>5, <1>6, <2>1, <2>2
<1> HIDE DEF z, refused, pad
<1>10. QED
  BY <1>1, <1>2, <1>6, <1>7, <1>8, <1>9, PlanesMakeFrame

LEMMA BytePlaneIs ==
  ASSUME NEW f, NEW p, NEW w, NEW h, NEW m, NEW one, NEW n,
         f \notin Tables!BitMono \union Tables!Macropixel,
         Tables!PlaneDimensions(f, p, w, 1) = {<<m, one>>},
         Tables!PlaneDimensions(f, p, w, h) = {<<m, n>>}
  PROVE  Tables!PlaneSizeBytes(f, p, w, h)
           = IF m * Tables!BytesPerPosition(f, p) <= UsizeMax
               THEN Tables!CheckedSize((m * Tables!BytesPerPosition(f, p)) * n) ELSE {}
  BY PlaneSizeIs

\* A plane of luma and one of chroma pairs.
LEMMA SemiPlanarSize ==
  ASSUME NEW f \in Tables!PixelFormat, NEW w \in Nat, NEW h \in Nat, f \in Tables!SemiPlanar
  PROVE  RightSize(f, w, h)
<1> DEFINE m == Tables!DivCeil(w, Across(f))
           n == Tables!DivCeil(h, Down(f))
           x == (w * 1) * h
           y == (m * 2) * n
           z == [p \in 0 .. 3 |-> IF p = 0 THEN x ELSE y]
           refused == {p \in 0 .. 3 : IF p = 0 THEN w * 1 > UsizeMax ELSE m * 2 > UsizeMax}
           N == 2
           pad == 0
<1>1. /\ f[1] \in {"Nv12", "Nv21"} /\ f[1] \in Subsampled
      /\ f \notin Tables!BitMono \union Tables!Macropixel /\ f \notin Tables!WordRgb
  BY FamiliesAre DEF Subsampled
<1>2. Tables!PlaneCount(f) = N /\ N \in 1 .. 4 /\ pad \in Nat /\ Tables!RowPadding(f) = pad
  <2>1. f \notin Tables!Yuv \union Tables!Yuva \union Tables!Gbrp \union Tables!Gbrap
    BY <1>1, FamiliesAre DEF Tables!Yuv, Tables!Yuva, Tables!Gbrp, Tables!Gbrap
  <2>2. QED
    BY <1>1, <2>1 DEF Tables!PlaneCount, Tables!RowPadding
<1>3. /\ m \in Nat /\ n \in Nat /\ Coarse(f, w, h) = m * n /\ Coarse(f, w, 1) = m
      /\ Tables!PlaneDimensions(f, 0, w, h) = {<<w, h>>}
      /\ Tables!PlaneDimensions(f, 0, w, 1) = {<<w, 1>>}
      /\ Tables!PlaneDimensions(f, 1, w, h) = {<<m, n>>}
      /\ Tables!PlaneDimensions(f, 1, w, 1) = {<<m, 1>>}
  <2> HIDE DEF x, y, z, refused, pad
  <2>1. Tables!PlaneCount(f) \in 1 .. 4 /\ Tables!PlaneCount(f) = 2
    BY <1>2
  <2>2. /\ m \in Nat /\ n \in Nat /\ Coarse(f, w, h) = m * n /\ Coarse(f, w, 1) = m
        /\ \A p \in 0 .. (Tables!PlaneCount(f) - 1) :
             IF p \in {1, 2}
               THEN /\ Tables!PlaneDimensions(f, p, w, h) = {<<m, n>>}
                    /\ Tables!PlaneDimensions(f, p, w, 1) = {<<m, 1>>}
               ELSE /\ Tables!PlaneDimensions(f, p, w, h) = {<<w, h>>}
                    /\ Tables!PlaneDimensions(f, p, w, 1) = {<<w, 1>>}
    BY <1>1, <2>1, ChromaPlanes
  <2>3. 0 \in 0 .. (Tables!PlaneCount(f) - 1) /\ 1 \in 0 .. (Tables!PlaneCount(f) - 1)
    BY <2>1
  <2> HIDE DEF m, n
  <2>4. QED
    BY <2>2, <2>3
<1> HIDE DEF m, n
<1>4. /\ Tables!PlaneSizeBytes(f, 0, w, h)
           = IF w * 1 <= UsizeMax THEN Tables!CheckedSize(x) ELSE {}
      /\ Tables!PlaneSizeBytes(f, 1, w, h)
           = IF m * 2 <= UsizeMax THEN Tables!CheckedSize(y) ELSE {}
  <2>1. Tables!BytesPerPosition(f, 0) = 1 /\ Tables!BytesPerPosition(f, 1) = 2
    <3>1. /\ f \notin Tables!Yuv \union Tables!Yuva \union Tables!Gbrp \union Tables!Gbrap
                        \union Tables!Families({"Gray", "Pal"})
          /\ f \notin Tables!WordRgb /\ f \notin Tables!PaddedRgb
          /\ f \notin Tables!Prepress \union Tables!InvertedInk \union Tables!DeepGrayAlpha
                        \union {"Rgba", "Bgra", "Argb", "Abgr"} \X {8}
          /\ f[1] \notin {"Ya", "Rgb", "Bgr", "Rgba"}
      BY <1>1, FamiliesAre DEF Tables!Yuv, Tables!Yuva, Tables!Gbrp, Tables!Gbrap,
                               Tables!Prepress, Tables!InvertedInk, Tables!DeepGrayAlpha
    <3>2. QED
      BY <3>1 DEF Tables!BytesPerPosition
  <2>2. Tables!PlaneSizeBytes(f, 0, w, h)
          = IF w * Tables!BytesPerPosition(f, 0) <= UsizeMax
              THEN Tables!CheckedSize((w * Tables!BytesPerPosition(f, 0)) * h) ELSE {}
    BY <1>1, <1>3, BytePlaneIs
  <2>3. Tables!PlaneSizeBytes(f, 1, w, h)
          = IF m * Tables!BytesPerPosition(f, 1) <= UsizeMax
              THEN Tables!CheckedSize((m * Tables!BytesPerPosition(f, 1)) * n) ELSE {}
    <3>1. /\ Tables!PlaneDimensions(f, 1, w, 1) = {<<m, 1>>}
          /\ Tables!PlaneDimensions(f, 1, w, h) = {<<m, n>>}
      BY <1>3
    <3> HIDE DEF x, y, z, refused, N, pad
    <3>2. QED
      BY <1>1, <3>1, BytePlaneIs
  <2>4. /\ w * Tables!BytesPerPosition(f, 0) = w * 1 /\ (w * Tables!BytesPerPosition(f, 0)) * h = x
        /\ m * Tables!BytesPerPosition(f, 1) = m * 2 /\ (m * Tables!BytesPerPosition(f, 1)) * n = y
    <3> DEFINE k == Tables!BytesPerPosition(f, 0)
               l == Tables!BytesPerPosition(f, 1)
    <3>1. k = 1 /\ l = 2
      BY <2>1
    <3> HIDE DEF k, l
    <3>2. w * k = w * 1 /\ (w * k) * h = (w * 1) * h /\ m * l = m * 2 /\ (m * l) * n = (m * 2) * n
      BY <3>1
    <3>3. QED
      BY <3>2 DEF k, l
  <2> HIDE DEF x, y
  <2>5. QED
    BY <2>2, <2>3, <2>4
<1>5. /\ x \in Nat /\ x = w * h /\ w * 1 = w /\ w * h \in Nat
      /\ y \in Nat /\ y = 2 * (m * n) /\ m * 2 = 2 * m /\ m * n \in Nat
  <2>1. w * h \in Nat /\ m * n \in Nat
    BY <1>3, MulSign
  <2>2. x = w * h /\ w * 1 = w /\ y = 2 * (m * n) /\ m * 2 = 2 * m
    BY <1>3
  <2>3. QED
    BY <2>1, <2>2
<1>6. /\ Tables!SampleBits(f, w, h) = 8 * (x + y)
      /\ Tables!SampleBits(f, w, 1) = 8 * (w * 1 + m * 2)
  <2>1. Cardinality(Whole(f)) = 1
    BY <1>1, WholeIs
  <2>2. Tables!ComponentBits(f) = 8
    <3>1. f[2] = 8
      BY <1>1, VariantIs DEF Variant
    <3>2. QED
      BY <1>1, <3>1 DEF Tables!ComponentBits, Tables!WordBits
  <2>3. /\ Tables!SampleBits(f, w, h) = (1 * (w * h) + 2 * (m * n)) * 8
        /\ Tables!SampleBits(f, w, 1) = (1 * (w * 1) + 2 * m) * 8
    <3> DEFINE all == Cardinality(Whole(f))
               bits == Tables!ComponentBits(f)
    <3>1. /\ Tables!SampleBits(f, w, h) = (all * (w * h) + 2 * Coarse(f, w, h)) * bits
          /\ Tables!SampleBits(f, w, 1) = (all * (w * 1) + 2 * Coarse(f, w, 1)) * bits
      BY BitsAre
    <3> HIDE DEF all, bits
    <3>2. QED
      BY <1>3, <2>1, <2>2, <3>1 DEF all, bits
  <2> HIDE DEF x, y
  <2>4. QED
    BY <1>3, <1>5, <2>3
<1> HIDE DEF x, y
<1>7. z \in [0 .. 3 -> Nat] /\ z[0] = x /\ z[1] = y /\ Sum(z, N) = x + y
  BY <1>5 DEF Sum
<1>8. /\ 0 \in refused <=> ~ (w * 1 <= UsizeMax)
      /\ 1 \in refused <=> ~ (m * 2 <= UsizeMax)
  BY <1>3, <1>5, MediaAssumption
<1>9. \A p \in 0 .. (N - 1) : p = 0 \/ p = 1
  OBVIOUS
<1> HIDE DEF z, refused
<1>10. \A p \in 0 .. (N - 1) :
         Tables!PlaneSizeBytes(f, p, w, h) = IF p \in refused THEN {} ELSE Tables!CheckedSize(z[p])
  BY <1>4, <1>7, <1>8, <1>9
<1>11. (\E p \in 0 .. (N - 1) : p \in refused) => Tables!SampleBits(f, w, 1) + pad > 8 * UsizeMax
  BY <1>3, <1>5, <1>6, <1>8, <1>9, MediaAssumption
<1>12. /\ Tables!SampleBits(f, w, h) \in Int /\ Tables!SampleBits(f, w, 1) \in Int
       /\ (8 * Sum(z, N) - Tables!SampleBits(f, w, h)) \in 0 .. (pad * h)
  <2>1. 0 * h = 0
    OBVIOUS
  <2>2. QED
    BY <1>3, <1>5, <1>6, <1>7, <2>1
<1> HIDE DEF N, pad
<1>13. QED
  BY <1>2, <1>7, <1>10, <1>11, <1>12, PlanesMakeFrame

LEMMA SizesRight ==
  ASSUME NEW f \in Tables!PixelFormat, NEW w \in Nat, NEW h \in Nat
  PROVE  RightSize(f, w, h)
<1>1. CASE f \in Tables!BitMono
  BY <1>1, MonoSize
<1>2. CASE f \in Tables!Macropixel
  BY <1>2, MacropixelSize
<1>3. CASE f \in Tables!SemiPlanar
  BY <1>3, SemiPlanarSize
<1>4. CASE f \in Tables!Yuv \union Tables!Yuva \union Tables!Gbrp \union Tables!Gbrap
  BY <1>4, ChromaSize, FullSize
<1>5. CASE ~ Tables!IsPlanar(f) /\ f \notin Tables!BitMono \union Tables!Macropixel
  BY <1>5, PackedSize
<1>6. QED
  BY <1>1, <1>2, <1>3, <1>4, <1>5 DEF Tables!IsPlanar

\* A frame's size is that of the samples of all its pixels, odd sizes included,
\* and is refused only where usize does not hold it (Formats!SizesExact).
THEOREM SizesTrue == AnySpec => []SizesExact
<1>1. SizeInv => SizesExact
  <2> SUFFICES ASSUME SizeInv, call.op = "size" PROVE Tables!SizesExact
    BY DEF SizesExact, Tables!SizesExact
  <2>1. PICK f \in Tables!PixelFormat, w \in Sides, h \in Sides : call = Sized(f, w, h)
    BY DEF SizeInv
  <2>2. /\ call.format = f /\ call.width = w /\ call.height = h
        /\ call.frame = Tables!FrameSizeBytes(f, w, h)
    BY <2>1 DEF Sized
  <2>3. w \in Nat /\ h \in Nat
    BY MediaAssumption
  <2>4. RightSize(f, w, h)
    BY <2>3, SizesRight
  <2>5. RightSize(call.format, call.width, call.height)
        /\ call.frame = Tables!FrameSizeBytes(call.format, call.width, call.height)
    BY <2>2, <2>4
  <2>6. QED
    BY <2>5 DEF RightSize, Tables!SizesExact
<1>2. QED
  BY <1>1, SizeStays, PTL
==============================================================================
