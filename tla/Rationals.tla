------------------------------ MODULE Rationals ------------------------------
(***************************************************************************)
(* Exact fractions in lowest terms with a positive denominator, where the  *)
(* code computes in doubles and the properties are about exact values.     *)
(***************************************************************************)
EXTENDS Integers

Frac(n, d) == [num |-> n, den |-> d]

\* Euclid's algorithm.
Gcd[a \in Nat, b \in Nat] == IF b = 0 THEN a ELSE Gcd[b, a % b]

Reduced(n, d) ==
    LET abs(x) == IF x < 0 THEN -x ELSE x
        g == Gcd[abs(n), abs(d)]
    IN  IF d > 0 THEN Frac(n \div g, d \div g) ELSE Frac((-n) \div g, (-d) \div g)

Q(n) == Frac(n, 1)
Zero == Q(0)
One  == Q(1)

x ++ y == Reduced(x.num * y.den + y.num * x.den, x.den * y.den)
x -- y == Reduced(x.num * y.den - y.num * x.den, x.den * y.den)
x ** y == Reduced(x.num * y.num, x.den * y.den)
x // y == Reduced(x.num * y.den, x.den * y.num)

\* x > y
x \succ y == x.num * y.den > y.num * x.den
=============================================================================
