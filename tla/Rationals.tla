------------------------------ MODULE Rationals ------------------------------
(***************************************************************************)
(* The floating point numbers of measurements, without rounding: rational  *)
(* numbers in lowest terms, and NaN.  The infinities of a division by zero *)
(* are NaN too, as they are for whatever multiplies them by zero.          *)
(***************************************************************************)
EXTENDS Integers

NaN == <<0, 0>>
IsNumber(x) == x # NaN

\* The greatest common divisor of a pair.
Gcd[p \in Nat \X Nat] == IF p[2] = 0 THEN p[1] ELSE Gcd[<<p[2], p[1] % p[2]>>]
Magnitude(n) == IF n < 0 THEN -n ELSE n

Rational(n, d) ==
  IF d = 0 THEN NaN
  ELSE LET g == Gcd[<<Magnitude(n), Magnitude(d)>>] * (IF d < 0 THEN -1 ELSE 1)
       IN <<IF g < 0 THEN -(n \div (-g)) ELSE n \div g,
            IF g < 0 THEN -(d \div (-g)) ELSE d \div g>>

\* The numbers that are one: no other pair is what an operation returns.
Fraction == {x \in Int \X Int : x[2] # 0 /\ Rational(x[1], x[2]) = x}
Positive == {x \in Fraction : x[1] > 0}

Whole(n) == <<n, 1>>
Zero == Whole(0)
Minus(x) == <<-x[1], x[2]>>
Absolute(x) == <<Magnitude(x[1]), x[2]>>

x ++ y == Rational(x[1] * y[2] + y[1] * x[2], x[2] * y[2])
x -- y == x ++ Minus(y)
\* Reduced before they are multiplied: TLC's integers are short.
Across(p, q) == Rational(p[1] * q[1], p[2] * q[2])
x ** y == Across(Rational(x[1], y[2]), Rational(y[1], x[2]))
x // y == Across(Rational(x[1], y[1]), Rational(y[2], x[2]))

\* Every comparison with NaN is false.
AtMost(x, y) == IsNumber(x) /\ IsNumber(y) /\ x[1] * y[2] <= y[1] * x[2]
Less(x, y) == AtMost(x, y) /\ x # y

\* The number p[1] to the power of p[2].
Power[p \in (Int \X Int) \X Nat] ==
  IF p[2] = 0 THEN Whole(1) ELSE p[1] ** Power[<<p[1], p[2] - 1>>]
IntegerPower(x, n) ==
  IF n < 0 THEN Whole(1) // Power[<<x, -n>>] ELSE Power[<<x, n>>]
=============================================================================
