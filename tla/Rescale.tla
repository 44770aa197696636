------------------------------ MODULE Rescale ------------------------------
(***************************************************************************)
(* Moving a tick count from one time base to another (src/time.rs), and    *)
(* one client of it and of Rationals: it picks two fractions, which are    *)
(* operands or time bases, and calls one operation on them.                *)
(***************************************************************************)
EXTENDS Rationals

CONSTANTS
  Terms,    \* numerators and denominators a client uses
  Values,   \* tick counts
  Others    \* tick counts of a second timestamp, and durations

ASSUME OperandsAssumption == Terms \union Values \union Others \subseteq I64

VARIABLES
  a, b,   \* the fractions; from and to of a rescale
  call    \* the call and its answer

vars == <<a, b, call>>

Roundings == {"nearest_away", "floor", "ceil", "toward_zero"}

\* Bug: the remainder is compared whole, so nothing is halfway.
BumpsUndoubled(r, d, neg, rounding) ==
  \/ rounding = "nearest_away" /\ r >= d
  \/ rounding = "floor" /\ neg /\ r # 0
  \/ rounding = "ceil" /\ ~ neg /\ r # 0

\* Whether a remainder moves the magnitude of the quotient up.
Bumps(r, d, neg, rounding) ==
  \/ rounding = "nearest_away" /\ r * 2 >= d
  \/ rounding = "floor" /\ neg /\ r # 0
  \/ rounding = "ceil" /\ ~ neg /\ r # 0

DivRoundAbs(p, d, neg, rounding) ==
  LET q == p \div d
  IN  IF Bumps(p % d, d, neg, rounding) /\ q < MaxUWide THEN q + 1 ELSE q

Signed(neg, q) == IF neg THEN - q ELSE q

\* Bug: the denominator's sign is lost.
FactorUnsigned(from, to) ==
  LET x == Exact("/", from, to) IN Fraction(x.num, Magnitude(x.den))

\* rescale_factor: its denominator is zero for an undefined conversion.
Factor(from, to) == SignNormalized(Exact("/", from, to))

Negative(value, f) == (value < 0) # (f.num < 0)
Product(value, f) == Magnitude(value) * Magnitude(f.num)

\* Bug: a product too wide is taken for a positive one.
RescaleOneEnd(value, from, to, rounding) ==
  LET f == Factor(from, to)
      p == Product(value, f)
      neg == Negative(value, f)
  IN  IF f.den = 0 THEN 0
      ELSE IF p > MaxUWide THEN MaxI
      ELSE Saturate(Signed(neg /\ p # 0, DivRoundAbs(p, f.den, neg, rounding)))

\* rescale_rnd; rescale is its "nearest_away".
RescaleRnd(value, from, to, rounding) ==
  LET f == Factor(from, to)
      p == Product(value, f)
      neg == Negative(value, f)
  IN  IF f.den = 0 THEN 0
      ELSE IF p > MaxUWide THEN IF neg THEN MinI ELSE MaxI
      ELSE Saturate(Signed(neg /\ p # 0, DivRoundAbs(p, f.den, neg, rounding)))

RescaleChecked(value, from, to) ==
  LET f == Factor(from, to)
      p == Product(value, f)
      neg == Negative(value, f)
      t == Signed(neg /\ p # 0, DivRoundAbs(p, f.den, neg, "nearest_away"))
  IN  IF f.den # 0 /\ p <= MaxUWide /\ t \in I64 THEN {t} ELSE None

\* checked_add_ticks, checked_sub_ticks
AddTicks(value, ticks) == IF value + ticks \in I64 THEN {value + ticks} ELSE None
SubTicks(value, ticks) == IF value - ticks \in I64 THEN {value - ticks} ELSE None

\* checked_diff, the other timestamp moved to this one's base.
Difference(value, base, other, otherBase) ==
  SubTicks(value, RescaleRnd(other, otherBase, base, "nearest_away"))

\* Bug: the end is cut off at the range.
EndPtsSaturating(pts, duration) == {Saturate(pts + duration)}

\* end_pts of a packet that has both; none when the sum overflows.
EndPts(pts, duration) == IF pts + duration \in I64 THEN {pts + duration} ELSE None

-----------------------------------------------------------------------------
Fractions == [num : Terms, den : Terms]
NoCall == [op |-> "none"]

Init == a \in Fractions /\ b \in Fractions /\ call = NoCall

Answered(c) == call = NoCall /\ call' = c /\ UNCHANGED <<a, b>>

Arithmetic(op) ==
  Answered([op |-> op, checked |-> Checked(op, a, b), result |-> Apply(op, a, b)])

Compare(c) ==
  Answered([op |-> "cmp", c |-> c, ab |-> CmpValue(a, b), ba |-> CmpValue(b, a),
            bc |-> CmpValue(b, c), ac |-> CmpValue(a, c),
            negated |-> CmpValue(Negate(b), Negate(a))])

Move(value, rounding) ==
  Answered([op |-> "rescale", value |-> value, rounding |-> rounding,
            ticks |-> RescaleRnd(value, a, b, rounding),
            checked |-> RescaleChecked(value, a, b)])

\* Two timestamps, of bases a and b; the second value is a duration too.
Elapse(value, other) ==
  Answered([op |-> "elapse", value |-> value, other |-> other,
            diff |-> Difference(value, a, other, b), end |-> EndPts(value, other)])

Next ==
  \/ \E op \in Operators : Arithmetic(op)
  \/ \E c \in Fractions : Compare(c)
  \/ \E value \in Values, rounding \in Roundings : Move(value, rounding)
  \/ \E value \in Values, other \in Others : Elapse(value, other)

Spec == Init /\ [][Next]_vars

-----------------------------------------------------------------------------
\* Every checked operation answers with the one fraction in lowest terms that
\* the result is, and refuses only when no i64 fraction with a positive
\* denominator is that number, or the sum does not even fit an i128.
ExactOrNone ==
  call.op \in Operators =>
    LET x == Exact(call.op, a, b)
        equal(r) == r.num * x.den = x.num * r.den
    IN  /\ \A r \in call.checked :
             /\ r \in Rational /\ r = call.result /\ r.den >= 0 /\ equal(r)
             /\ r = Fraction(0, 0) \/ \A d \in 2 .. MaxI : r.num % d # 0 \/ r.den % d # 0
        /\ call.checked = None =>
             \/ x.num \notin MinWide .. MaxWide
             \/ \A n \in I64, d \in 1 .. MaxI : ~ equal(Fraction(n, d))

\* Fractions are ordered by value whatever the signs of their terms and with
\* infinities among them: the order is total and transitive, and negation
\* reverses it.
ValueOrder ==
  call.op = "cmp" =>
    /\ call.ab = - call.ba
    /\ call.ab <= 0 /\ call.bc <= 0 => call.ac <= 0
    /\ call.ab <= 0 /\ call.bc <= 0 /\ call.ac = 0 => call.ab = 0 /\ call.bc = 0
    /\ call.negated = call.ab

-----------------------------------------------------------------------------
(* The tick a rounding mode asks for, without a division: n / d lies where  *)
(* the mode says from t.                                                    *)
IsTick(t, n, d, rounding) ==
  LET away == Magnitude(t * d) - Magnitude(n)
  IN  CASE rounding = "floor" -> t * d <= n /\ n < (t + 1) * d
        [] rounding = "ceil" -> (t - 1) * d < n /\ n <= t * d
        [] rounding = "toward_zero" -> t * n >= 0 /\ away <= 0 /\ away > - d
        [] rounding = "nearest_away" -> t * n >= 0 /\ 2 * away <= d /\ 2 * away > - d

\* Ticks of b in a tick of a.
Ratio == SignNormalized(Exact("/", a, b))
Defined == Ratio.den # 0

\* ticks is the tick asked for, or the end of the range it lies beyond.
RightTick(ticks, value, rounding) ==
  LET n == value * Ratio.num
  IN  \/ IsTick(ticks, n, Ratio.den, rounding)
      \/ ticks = MaxI /\ n > MaxI * Ratio.den
      \/ ticks = MinI /\ n < MinI * Ratio.den

Roomy(value, from, to) == Product(value, Exact("/", from, to)) <= MaxUWide

\* A rescale lands on the tick its rounding mode asks for, by any signs of
\* value and bases, and saturates only beyond the ends; the checked form
\* answers exactly when the plain one is not saturated.  A product wider than
\* 128 bits is excepted.
RoundsToTick ==
  call.op = "rescale" /\ Defined /\ Roomy(call.value, a, b) =>
    /\ RightTick(call.ticks, call.value, call.rounding)
    /\ call.rounding = "nearest_away" =>
         IF call.checked # None THEN call.checked = {call.ticks}
         ELSE ~ IsTick(call.ticks, call.value * Ratio.num, Ratio.den, call.rounding)

\* What the comment in rescale_rnd claims of the products excepted above: the
\* true result is beyond i64, so the end of the range is the answer.  It is
\* not when the factor's terms are as wide as the product.
WideIsFarOutside ==
  call.op = "rescale" /\ Defined /\ ~ Roomy(call.value, a, b) =>
    RightTick(call.ticks, call.value, call.rounding)

\* Rescaling keeps timestamps in order, in every mode and into saturation: a
\* packet that was not after another is not after it in the new base, nor is
\* the difference of two timestamps of different bases negative when the first
\* is the later; and a packet whose start and duration are moved on their own
\* ends within a tick of where its end is moved to, when both ends exist.
OrderKept ==
  /\ call.op = "rescale" /\ Ratio.num > 0 /\ Defined =>
       \A u \in Values :
         u <= call.value => RescaleRnd(u, a, b, call.rounding) <= call.ticks
  /\ call.op = "elapse" =>
       /\ \A start \in RescaleChecked(call.value, a, b),
             duration \in RescaleChecked(call.other, a, b), old \in call.end :
            \A end \in EndPts(start, duration), moved \in RescaleChecked(old, a, b) :
              Magnitude(end - moved) <= 1
       /\ a.num > 0 /\ a.den > 0 /\ b.num > 0 /\ b.den > 0 /\ Roomy(call.other, b, a) =>
            LET ahead == call.value * a.num * b.den - call.other * b.num * a.den
            IN  \A d \in call.diff : /\ ahead >= 0 => d >= 0
                                    /\ ahead <= 0 => d <= 0

\* A timestamp moved to a base at least as fine, without loss, and back is
\* the timestamp; and a difference of two timestamps leads from one to the
\* other, by an addition that does not overflow.
RoundTrip ==
  /\ call.op = "rescale" /\ Magnitude(Ratio.num) >= Ratio.den =>
       \A t \in call.checked :
         Roomy(t, b, a) => RescaleRnd(t, b, a, "nearest_away") = call.value
  /\ call.op = "elapse" =>
       \A d \in call.diff :
         /\ AddTicks(RescaleRnd(call.other, b, a, "nearest_away"), d) = {call.value}
         /\ a = b /\ a.num > 0 /\ a.den > 0 /\ Roomy(call.other, b, a) =>
              SubTicks(call.value, d) = {call.other}
=============================================================================
