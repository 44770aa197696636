----------------------------- MODULE Rationals -----------------------------
(***************************************************************************)
(* The fractions of src/rational.rs over machine integers: terms are i64,  *)
(* intermediate results i128.  A denominator may be negative or zero.      *)
(***************************************************************************)
EXTENDS Integers

CONSTANT Half   \* 2^63 in the code: the magnitude of i64::MIN

ASSUME HalfAssumption == Half \in Nat /\ Half > 1

MaxI == Half - 1
MinI == - Half
I64 == MinI .. MaxI
MaxWide == 2 * Half * Half - 1     \* i128::MAX
MinWide == - 2 * Half * Half
MaxUWide == 4 * Half * Half - 1    \* u128::MAX

Rational == [num : I64, den : I64]
None == {}   \* an Option is the set of what it holds

Fraction(n, d) == [num |-> n, den |-> d]
Magnitude(n) == IF n < 0 THEN - n ELSE n
Sign(n) == IF n < 0 THEN -1 ELSE IF n = 0 THEN 0 ELSE 1
Saturate(n) == IF n > MaxI THEN MaxI ELSE IF n < MinI THEN MinI ELSE n
SaturateWide(n) == IF n > MaxWide THEN MaxWide ELSE IF n < MinWide THEN MinWide ELSE n

\* n / d rounded towards zero, as the language divides.
Quotient(n, d) == Sign(n) * (Magnitude(n) \div d)

\* gcd_i128: at least 1.
Gcd[p \in Nat \X Nat] ==
  IF p[2] # 0 THEN Gcd[<<p[2], p[1] % p[2]>>] ELSE IF p[1] = 0 THEN 1 ELSE p[1]

SignNormalized(r) == IF r.den < 0 THEN Fraction(- r.num, - r.den) ELSE r

\* Lowest terms with the sign on the numerator, not narrowed yet.
Lowest(r) ==
  LET s == SignNormalized(r)
      g == Gcd[<<Magnitude(s.num), s.den>>]
  IN  Fraction(s.num \div g, s.den \div g)

\* Bug: only the numerator is narrowed with a check.
ReduceExactNumerator(r) == {x \in {Lowest(r)} : x.num \in I64}

\* reduce_exact_i128
ReduceExact(r) == {Lowest(r)} \cap Rational

\* The power of two that brings a wide denominator below 2^63.
Scale(d) == CHOOSE p \in {2 ^ k : k \in 1 .. 2 * Half} : Half * p > d /\ d * 2 >= Half * p

\* approx_narrow
ApproxNarrow(r) ==
  IF r.den <= MaxI THEN Fraction(Saturate(r.num), r.den)
  ELSE IF Magnitude(r.num) <= MaxI
    THEN Fraction(Quotient(r.num * MaxI + Sign(r.num) * (r.den \div 2), r.den), MaxI)
    ELSE LET p == Scale(r.den)
             n == Sign(r.num) * ((Magnitude(r.num) + p \div 2) \div p)
         IN  Fraction(Saturate(n), Saturate((r.den + p \div 2) \div p))

\* reduce_i128
Reduce(r) == IF Lowest(r) \in Rational THEN Lowest(r) ELSE ApproxNarrow(Lowest(r))

-----------------------------------------------------------------------------
Operators == {"+", "-", "*", "/"}

\* The terms of the result before any narrowing.
Exact(op, a, b) ==
  CASE op = "+" -> Fraction(a.num * b.den + b.num * a.den, a.den * b.den)
    [] op = "-" -> Fraction(a.num * b.den - b.num * a.den, a.den * b.den)
    [] op = "*" -> Fraction(a.num * b.num, a.den * b.den)
    [] op = "/" -> Fraction(a.num * b.den, a.den * b.num)

\* checked_add, checked_sub, checked_mul, checked_div
Checked(op, a, b) ==
  LET x == Exact(op, a, b)
  IN  IF x.num \in MinWide .. MaxWide THEN ReduceExact(x) ELSE None

\* The operators + - * /.
Apply(op, a, b) ==
  LET x == Exact(op, a, b) IN Reduce(Fraction(SaturateWide(x.num), x.den))

Negate(r) ==
  IF r.num # MinI THEN Fraction(- r.num, r.den)
  ELSE IF r.den = 0 THEN Fraction(MaxI, 0)
  ELSE IF r.den # MinI THEN Fraction(r.num, - r.den)
  ELSE Fraction(-1, 1)

-----------------------------------------------------------------------------
Rank(s) == IF s.den = 0 THEN 2 * Sign(s.num) ELSE Sign(s.num)

\* Bug: a negative denominator turns the comparison round.
CmpUnsigned(a, b) ==
  IF a.den # 0 /\ b.den # 0 THEN Sign(a.num * b.den - b.num * a.den)
  ELSE Sign(Rank(a) - Rank(b))

\* cmp_value: -1, 0 or 1; a zero denominator is an infinity.
CmpValue(a, b) ==
  LET s == SignNormalized(a)
      t == SignNormalized(b)
  IN  IF s.den # 0 /\ t.den # 0 THEN Sign(s.num * t.den - t.num * s.den)
      ELSE Sign(Rank(s) - Rank(t))
=============================================================================
