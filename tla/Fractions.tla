----------------------------- MODULE Fractions -----------------------------
(***************************************************************************)
(* Exact fractions with NaN, for the scores.  A fraction in lowest terms   *)
(* is <<numerator, denominator>>; NaN is <<0, 0>>, which arithmetic passes *)
(* on and comparisons reject, as floating-point numbers do.  Rounding is   *)
(* left out.                                                               *)
(***************************************************************************)
EXTENDS Integers, FiniteSetsExt, Functions

CONSTANT Whole        \* The parts of a vote that tallies count: Whole of them are a vote.

ASSUME WholeAssumption == Whole \in Nat \ {0}

NaN == <<0, 0>>

LOCAL gcd[m, n \in Nat] == IF n = 0 THEN m ELSE gcd[n, m % n]

LOCAL Size(n) == IF n < 0 THEN -n ELSE n

\* Division that has no value when the denominator is not positive.
Frac(n, d) ==
  IF d <= 0 THEN NaN
  ELSE LET g == gcd[Size(n), d] IN <<IF n < 0 THEN -(Size(n) \div g) ELSE n \div g, d \div g>>

Int2Frac(n) == <<n, 1>>
Half == <<1, 2>>

Plus(x, y) == Frac(x[1] * y[2] + y[1] * x[2], x[2] * y[2])
Neg(x) == <<-x[1], x[2]>>
Minus(x, y) == Plus(x, Neg(y))
Divide(x, n) == Frac(x[1], x[2] * n)          \* by a whole number
Abs(x) == <<Size(x[1]), x[2]>>

Less(x, y) == x # NaN /\ y # NaN /\ x[1] * y[2] < y[1] * x[2]

Clamp(x) == IF Less(x, Int2Frac(0)) THEN Int2Frac(0)
            ELSE IF Less(Int2Frac(1), x) THEN Int2Frac(1) ELSE x

Sum(f) == FoldFunction(Plus, Int2Frac(0), f)
Mean(f) == Divide(Sum(f), Cardinality(DOMAIN f))
============================================================================
