----------------------------- MODULE Fractions -----------------------------
(***************************************************************************)
(* Exact fractions in lowest terms, for the statistics the code computes in *)
(* f64: the rounding is left out, the arithmetic is not.                   *)
(***************************************************************************)
EXTENDS Integers

Ratio == [num : Int, den : Nat \ {0}]

\* The largest common divisor of two numbers.
Divisor[p \in Nat \X Nat] == IF p[2] = 0 THEN p[1] ELSE Divisor[<<p[2], p[1] % p[2]>>]

Fraction(num, den) ==
    LET d == Divisor[<<IF num < 0 THEN -num ELSE num, den>>]
    IN  [num |-> num \div d, den |-> den \div d]

Whole(n) == [num |-> n, den |-> 1]
Zero == Whole(0)

Plus(p, q) == Fraction(p.num * q.den + q.num * p.den, p.den * q.den)
Minus(p, q) == Fraction(p.num * q.den - q.num * p.den, p.den * q.den)
Times(p, q) == Fraction(p.num * q.num, p.den * q.den)
Over(p, n) == Fraction(p.num, p.den * n)                 \* n > 0

\* p over q, for a positive q.
Divide(p, q) == Fraction(p.num * q.den, p.den * q.num)

Less(p, q) == p.num * q.den < q.num * p.den
Square(p) == Times(p, p)
Floor(p) == p.num \div p.den
=============================================================================
