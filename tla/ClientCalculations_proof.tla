------------------------ MODULE ClientCalculations_proof -----------------------
(***************************************************************************)
(* What a client may rely on when it calculates, in every build of the     *)
(* library.  With uncertain measurements: that the class agrees with       *)
(* measurement, that units and order do not matter, and that a measurement *)
(* is a certain one.  With custom and counting units: that number and      *)
(* inverse are told after any division that keeps them told.               *)
(*                                                                         *)
(* The first rests on the numbers of Rationals.  With NaN they obey the    *)
(* laws of a field wherever the result is a number, and both sides are     *)
(* NaN elsewhere; the lemmas carry these laws from integers to fractions,  *)
(* to uncertainties, to units and to measurements.                         *)
(***************************************************************************)
EXTENDS CustomUnitUse, UncertainMeasurement, UnitData_proof

\* A set that has every natural number all of whose predecessors it has, has
\* every natural number.
LEMMA StrongInductionOnSet ==
  ASSUME NEW S, \A n \in Nat : (\A k \in Nat : k < n => k \in S) => n \in S
  PROVE  Nat \subseteq S
<1> DEFINE T == Nat \ S
<1> SUFFICES ASSUME T # {} PROVE FALSE
  OBVIOUS
<1>1. PICK m \in T : \A k \in T : m <= k
  BY LeastNumber
<1>2. m \in Nat /\ \A k \in Nat : k < m => k \in S
  BY <1>1
<1> QED  BY <1>1, <1>2

(***************************************************************************)
(* The greatest common divisor.                                            *)
(***************************************************************************)
\* Divisors of natural numbers, as the definition of Gcd has them in effect.
DividesNat(d, n) == \E q \in Nat : n = d * q
Divisors(n) == {d \in Nat : DividesNat(d, n)}
CommonDivisors(a, b) == Divisors(a) \cap Divisors(b)

\* A remainder.
LEMMA Remainder ==
  ASSUME NEW a \in Nat, NEW b \in Nat, b # 0
  PROVE  /\ a % b \in Nat /\ a \div b \in Nat /\ a % b < b
         /\ a = b * (a \div b) + (a % b)
OBVIOUS

\* Every number divides zero.
LEMMA DivisorsOfZero == \A d \in Nat : d \in Divisors(0)
<1> SUFFICES ASSUME NEW d \in Nat PROVE 0 = d * 0
  BY DEF Divisors, DividesNat
<1> QED OBVIOUS

\* Two numbers with the same divisors are the same, as each divides the other.
LEMMA SameDivisors ==
  ASSUME NEW a \in Nat, NEW b \in Nat, Divisors(a) = Divisors(b)
  PROVE  a = b
<1>1. a \in Divisors(a) /\ b \in Divisors(b)
  <2>1. a = a * 1 /\ b = b * 1
    OBVIOUS
  <2> QED  BY <2>1 DEF Divisors, DividesNat
<1>2. PICK q \in Nat : b = a * q
  BY <1>1 DEF Divisors, DividesNat
<1>3. PICK p \in Nat : a = b * p
  BY <1>1 DEF Divisors, DividesNat
<1>4. CASE a = 0
  BY <1>2, <1>4
<1>5. CASE a # 0
  <2>1. q # 0 /\ p # 0
    BY <1>2, <1>3, <1>5
  <2>2. b >= a
    BY <1>2, <2>1
  <2>3. a >= b
    BY <1>3, <2>1
  <2> QED  BY <2>2, <2>3
<1> QED  BY <1>4, <1>5

\* The step of Euclid's algorithm keeps the common divisors.
LEMMA EuclidStep ==
  ASSUME NEW a \in Nat, NEW b \in Nat, b # 0
  PROVE  CommonDivisors(a, b) = CommonDivisors(b, a % b)
<1> DEFINE r == a % b
           q == a \div b
<1>1. r \in Nat /\ q \in Nat /\ a = b * q + r
  BY Remainder
<1> HIDE DEF r, q
<1>2. ASSUME NEW d \in Nat, d \in Divisors(b), d \in Divisors(a) PROVE d \in Divisors(r)
  <2>1. PICK i \in Nat : b = d * i
    BY <1>2 DEF Divisors, DividesNat
  <2>2. PICK j \in Nat : a = d * j
    BY <1>2 DEF Divisors, DividesNat
  <2>3. d * j = (d * i) * q + r
    BY <1>1, <2>1, <2>2
  <2>4. r = d * (j - i * q)
    BY <1>1, <2>3
  <2>5. d # 0
    BY <2>1
  <2>6. j - i * q \in Int /\ j - i * q >= 0
    <3> DEFINE k == j - i * q
    <3>1. k \in Int
      BY <1>1
    <3>2. r = d * k
      BY <2>4
    <3> HIDE DEF k
    <3>3. k >= 0
      BY <1>1, <2>5, <3>1, <3>2
    <3> QED BY <3>1, <3>3 DEF k
  <2>7. j - i * q \in Nat
    BY <2>6
  <2> QED  BY <1>1, <2>4, <2>7 DEF Divisors, DividesNat
<1>3. ASSUME NEW d \in Nat, d \in Divisors(b), d \in Divisors(r) PROVE d \in Divisors(a)
  <2>1. PICK i \in Nat : b = d * i
    BY <1>3 DEF Divisors, DividesNat
  <2>2. PICK j \in Nat : r = d * j
    BY <1>3 DEF Divisors, DividesNat
  <2>3. a = (d * i) * q + d * j
    BY <1>1, <2>1, <2>2
  <2>4. a = d * (i * q + j) /\ i * q + j \in Nat
    BY <1>1, <2>3
  <2> QED  BY <2>4 DEF Divisors, DividesNat
<1>4. CommonDivisors(a, b) = CommonDivisors(b, r)
  BY <1>2, <1>3 DEF CommonDivisors, Divisors
<1> QED  BY <1>4 DEF r

\* What Gcd is by its definition: the recursion has a solution, the number
\* whose divisors are the common divisors.
LEMMA GcdEquation ==
  ASSUME NEW a \in Nat, NEW b \in Nat
  PROVE  Gcd[<<a, b>>] = IF b = 0 THEN a ELSE Gcd[<<b, a % b>>]
<1> DEFINE G(x, y) == CHOOSE g \in Nat : Divisors(g) = CommonDivisors(x, y)
           f == [p \in Nat \X Nat |-> G(p[1], p[2])]
<1>1. ASSUME NEW x \in Nat PROVE G(x, 0) = x
  <2>1. Divisors(x) = CommonDivisors(x, 0)
    BY DivisorsOfZero DEF CommonDivisors, Divisors
  <2>2. G(x, 0) \in Nat /\ Divisors(G(x, 0)) = Divisors(x)
    BY <2>1
  <2> HIDE DEF G
  <2> QED  BY <2>2, SameDivisors
<1>2. ASSUME NEW x \in Nat, NEW y \in Nat, y # 0 PROVE G(x, y) = G(y, x % y)
  BY <1>2, EuclidStep
<1> HIDE DEF G
<1>3. \A x \in Nat, y \in Nat : y # 0 => x % y \in Nat
  BY Remainder
<1>4. \A x \in Nat, y \in Nat : f[<<x, y>>] = G(x, y)
  OBVIOUS
<1>5. \A p \in Nat \X Nat : f[p] = IF p[2] = 0 THEN p[1] ELSE f[<<p[2], p[1] % p[2]>>]
  <2> TAKE p \in Nat \X Nat
  <2>1. p[1] \in Nat /\ p[2] \in Nat /\ f[p] = G(p[1], p[2])
    OBVIOUS
  <2>2. CASE p[2] = 0
    BY <1>1, <2>1, <2>2
  <2>3. CASE p[2] # 0
    <3>1. p[1] % p[2] \in Nat
      BY <1>3, <2>1, <2>3
    <3>2. f[<<p[2], p[1] % p[2]>>] = G(p[2], p[1] % p[2])
      BY <1>4, <2>1, <3>1
    <3> QED  BY <1>2, <2>1, <2>3, <3>2
  <2> QED  BY <2>2, <2>3
<1>6. f = [p \in Nat \X Nat |-> IF p[2] = 0 THEN p[1] ELSE f[<<p[2], p[1] % p[2]>>]]
  <2>1. f = [p \in Nat \X Nat |-> f[p]]
    OBVIOUS
  <2> HIDE DEF f
  <2> QED  BY <1>5, <2>1
<1> HIDE DEF f
<1>7. Gcd = [p \in Nat \X Nat |-> IF p[2] = 0 THEN p[1] ELSE Gcd[<<p[2], p[1] % p[2]>>]]
  BY <1>6 DEF Gcd
<1> QED  BY <1>7

\* Gcd is positive, divides both numbers, and scales with them.
LEMMA GcdDivides ==
  ASSUME NEW a \in Nat, NEW b \in Nat
  PROVE  /\ Gcd[<<a, b>>] \in Nat
         /\ DividesNat(Gcd[<<a, b>>], a) /\ DividesNat(Gcd[<<a, b>>], b)
<1> DEFINE Good(x, y) == /\ Gcd[<<x, y>>] \in Nat
                         /\ Gcd[<<x, y>>] \in CommonDivisors(x, y)
           S == {y \in Nat : \A x \in Nat : Good(x, y)}
<1>1. ASSUME NEW n \in Nat, \A k \in Nat : k < n => k \in S PROVE n \in S
  <2> SUFFICES ASSUME NEW x \in Nat PROVE Good(x, n)
    OBVIOUS
  <2>1. CASE n = 0
    <3>1. Gcd[<<x, n>>] = x
      BY <2>1, GcdEquation
    <3>2. x = x * 1
      OBVIOUS
    <3> QED  BY <2>1, <3>1, <3>2, DivisorsOfZero DEF CommonDivisors, Divisors, DividesNat
  <2>2. CASE n # 0
    <3>1. x % n \in Nat /\ x % n < n
      BY <2>2, Remainder
    <3>2. Good(n, x % n)
      BY <1>1, <3>1
    <3>3. Gcd[<<x, n>>] = Gcd[<<n, x % n>>]
      BY <2>2, GcdEquation
    <3> QED  BY <2>2, <3>2, <3>3, EuclidStep
  <2> QED  BY <2>1, <2>2
<1>2. Nat \subseteq S
  <2> HIDE DEF S
  <2> QED  BY <1>1, StrongInductionOnSet
<1>3. Good(a, b)
  BY <1>2
<1> QED  BY <1>3 DEF CommonDivisors, Divisors

\* The remainder of multiples of two numbers is the multiple of the remainder.
LEMMA ModScales ==
  ASSUME NEW a \in Nat, NEW b \in Nat, NEW k \in Nat, b # 0, k # 0
  PROVE  (k * a) % (k * b) = k * (a % b)
<1> DEFINE q == a \div b
           r == a % b
<1>1. q \in Nat /\ r \in Nat /\ r < b /\ a = b * q + r
  BY Remainder
<1> HIDE DEF q, r
<1>2. k * a = (k * b) * q + k * r
  BY <1>1
<1>3. k * b \in Nat /\ k * b > 0 /\ k * r \in Nat
  BY <1>1
<1>4. k * r < k * b
  BY <1>1
<1>5. \A m, n, s \in Nat : s > 0 /\ n < s => (s * m + n) % s = n
  OBVIOUS
<1>6. ((k * b) * q + k * r) % (k * b) = k * r
  BY <1>1, <1>3, <1>4, <1>5
<1> QED  BY <1>2, <1>6 DEF r

\* A common factor comes out of the greatest common divisor: both are the
\* number with the divisors that the two have in common.
LEMMA GcdScales ==
  ASSUME NEW a \in Nat, NEW b \in Nat, NEW k \in Nat, k # 0
  PROVE  Gcd[<<k * a, k * b>>] = k * Gcd[<<a, b>>]
<1> DEFINE Good(x, y) == Gcd[<<k * x, k * y>>] = k * Gcd[<<x, y>>]
           S == {y \in Nat : \A x \in Nat : Good(x, y)}
<1>1. ASSUME NEW n \in Nat, \A m \in Nat : m < n => m \in S PROVE n \in S
  <2> SUFFICES ASSUME NEW x \in Nat PROVE Good(x, n)
    OBVIOUS
  <2>0. k * x \in Nat /\ k * n \in Nat
    OBVIOUS
  <2>1. CASE n = 0
    <3>1. k * n = 0
      BY <2>1
    <3> QED  BY <2>0, <2>1, <3>1, GcdEquation
  <2>2. CASE n # 0
    <3>1. x % n \in Nat /\ x % n < n /\ k * n # 0
      BY <2>2, Remainder
    <3>2. Good(n, x % n)
      BY <1>1, <3>1
    <3>3. Gcd[<<x, n>>] = Gcd[<<n, x % n>>]
      BY <2>2, GcdEquation
    <3>4. Gcd[<<k * x, k * n>>] = Gcd[<<k * n, (k * x) % (k * n)>>]
      BY <2>0, <3>1, GcdEquation
    <3>5. (k * x) % (k * n) = k * (x % n)
      BY <2>2, ModScales
    <3> QED  BY <3>2, <3>3, <3>4, <3>5
  <2> QED  BY <2>1, <2>2
<1>2. Nat \subseteq S
  <2> HIDE DEF S
  <2> QED  BY <1>1, StrongInductionOnSet
<1> QED  BY <1>2
(***************************************************************************)
(* Fractions in lowest terms.                                              *)
(***************************************************************************)
NonZero == Int \ {0}

\* What a numerator and a denominator are divided by.
Divisor(n, d) == Gcd[<<Magnitude(n), Magnitude(d)>>] * (IF d < 0 THEN -1 ELSE 1)

\* The quotient of a product.
LEMMA ExactDivision ==
  ASSUME NEW g \in Nat, g # 0, NEW t \in Int
  PROVE  (g * t) \div g = t
<1>1. \A x \in Int : g * x \in Int
  OBVIOUS
<1>2. \A m \in Int : (g * m) \div g = m
  OBVIOUS
<1> QED  BY <1>2

\* A number that cancels.
LEMMA Cancels ==
  ASSUME NEW g \in Int, g # 0, NEW s \in Int, NEW t \in Int, g * s = g * t
  PROVE  s = t
OBVIOUS

\* A Rational is in lowest terms and times its Divisor what it was built of.
LEMMA Reduced ==
  ASSUME NEW n \in Int, NEW d \in NonZero
  PROVE  LET x == Rational(n, d)
             g == Divisor(n, d)
         IN /\ x = <<x[1], x[2]>> /\ x[1] \in Int /\ x[2] \in Int /\ x[2] > 0
            /\ g \in NonZero /\ n = g * x[1] /\ d = g * x[2]
<1> DEFINE c == Gcd[<<Magnitude(n), Magnitude(d)>>]
           x == Rational(n, d)
<1>1. Magnitude(n) \in Nat /\ Magnitude(d) \in Nat /\ Magnitude(d) # 0 /\ d \in Int /\ d # 0
  BY DEF Magnitude, NonZero
<1>2. c \in Nat /\ DividesNat(c, Magnitude(n)) /\ DividesNat(c, Magnitude(d))
  BY <1>1, GcdDivides
<1>3. PICK p \in Nat : Magnitude(n) = c * p
  BY <1>2 DEF DividesNat
<1>4. PICK q \in Nat : Magnitude(d) = c * q
  BY <1>2 DEF DividesNat
<1> HIDE DEF c
<1>5. c # 0 /\ q # 0
  BY <1>1, <1>2, <1>4
<1> DEFINE s == IF n < 0 THEN -p ELSE p
           t == IF d < 0 THEN -q ELSE q
<1>6. s \in Int /\ t \in Int /\ n = c * s /\ d = c * t
  <2>1. n = c * s
    BY <1>2, <1>3 DEF Magnitude
  <2>2. d = c * t
    BY <1>1, <1>2, <1>4 DEF Magnitude
  <2> QED  BY <2>1, <2>2
<1>7. n \div c = s /\ d \div c = t
  <2> HIDE DEF s, t
  <2> QED  BY <1>2, <1>5, <1>6, ExactDivision
<1>8. CASE d > 0
  <2>1. Divisor(n, d) = c
    BY <1>1, <1>2, <1>8 DEF Divisor, c
  <2>2. x = <<n \div c, d \div c>>
    <3>1. ~(c < 0) /\ ~(d < 0) /\ c * 1 = c
      BY <1>1, <1>2, <1>8
    <3> QED  BY <1>1, <3>1 DEF Rational, c
  <2>3. x = <<s, t>> /\ t > 0
    <3>1. t > 0
      BY <1>1, <1>5, <1>8
    <3> QED  BY <1>7, <2>2, <3>1
  <2> HIDE DEF x, s, t
  <2> QED  BY <1>2, <1>5, <1>6, <2>1, <2>3 DEF x, NonZero
<1>9. CASE d < 0
  <2>1. Divisor(n, d) = -c
    BY <1>1, <1>2, <1>9 DEF Divisor, c
  <2>2. x = <<-(n \div c), -(d \div c)>>
    <3>1. c * (-1) = -c /\ -c < 0 /\ -(-c) = c
      BY <1>2, <1>5
    <3> QED  BY <1>1, <1>9, <3>1 DEF Rational, c
  <2>3. x = <<-s, -t>> /\ -t > 0
    BY <1>5, <1>7, <1>9, <2>2
  <2> HIDE DEF x, s, t
  <2>4. n = (-c) * (-s) /\ d = (-c) * (-t) /\ -c \in Int /\ -c # 0
    BY <1>2, <1>5, <1>6
  <2> QED  BY <1>6, <2>1, <2>3, <2>4 DEF x, NonZero
<1> QED  BY <1>1, <1>8, <1>9

\* Lowest terms do not depend on a common factor.
LEMMA RationalScales ==
  ASSUME NEW n \in Int, NEW d \in NonZero, NEW k \in NonZero
  PROVE  /\ k * d \in NonZero
         /\ Rational(k * n, k * d) = Rational(n, d)
<1> DEFINE x == Rational(n, d)
           y == Rational(k * n, k * d)
           g == Divisor(n, d)
           c == Gcd[<<Magnitude(n), Magnitude(d)>>]
<1>0. k \in Int /\ k # 0 /\ d \in Int /\ d # 0
  BY DEF NonZero
<1>1. k * n \in Int /\ k * d \in NonZero
  BY <1>0 DEF NonZero
<1>2. /\ Magnitude(k) \in Nat /\ Magnitude(k) # 0
      /\ Magnitude(n) \in Nat /\ Magnitude(d) \in Nat
      /\ Magnitude(k * n) = Magnitude(k) * Magnitude(n)
      /\ Magnitude(k * d) = Magnitude(k) * Magnitude(d)
  <2>1. \A u \in Int : /\ Magnitude(u) \in Nat
                       /\ Magnitude(k * u) = Magnitude(k) * Magnitude(u)
    <3> TAKE u \in Int
    <3>1. CASE u >= 0 /\ k > 0
      <4>1. k * u >= 0
        BY <1>0, <3>1
      <4> QED  BY <1>0, <3>1, <4>1 DEF Magnitude
    <3>2. CASE u >= 0 /\ k < 0
      <4>1. k * u <= 0 /\ (-k) * u = -(k * u) /\ k * u \in Int
        BY <1>0, <3>2
      <4> QED  BY <1>0, <3>2, <4>1 DEF Magnitude
    <3>3. CASE u < 0 /\ k > 0
      <4>1. k * u < 0 /\ k * (-u) = -(k * u) /\ k * u \in Int
        BY <1>0, <3>3
      <4> QED  BY <1>0, <3>3, <4>1 DEF Magnitude
    <3>4. CASE u < 0 /\ k < 0
      <4>1. k * u > 0 /\ (-k) * (-u) = k * u
        BY <1>0, <3>4
      <4> QED  BY <1>0, <3>4, <4>1 DEF Magnitude
    <3> QED  BY <1>0, <3>1, <3>2, <3>3, <3>4
  <2>2. Magnitude(k) # 0
    BY <1>0 DEF Magnitude
  <2> QED  BY <1>0, <2>1, <2>2
<1>3. c \in Nat /\ Gcd[<<Magnitude(k * n), Magnitude(k * d)>>] = Magnitude(k) * c
  BY <1>2, GcdScales, GcdDivides
<1> HIDE DEF c
<1>4. Divisor(k * n, k * d) = k * g
  <2>1. g = c * (IF d < 0 THEN -1 ELSE 1)
    BY DEF Divisor, c
  <2>2. Divisor(k * n, k * d) = (Magnitude(k) * c) * (IF k * d < 0 THEN -1 ELSE 1)
    BY <1>3 DEF Divisor
  <2>3. CASE k > 0
    <3>1. k * d < 0 <=> d < 0
      BY <1>0, <2>3
    <3>2. Magnitude(k) = k
      BY <1>0, <2>3 DEF Magnitude
    <3> HIDE DEF g
    <3> QED  BY <1>0, <1>3, <2>1, <2>2, <3>1, <3>2
  <2>4. CASE k < 0
    <3>1. k * d < 0 <=> ~(d < 0)
      BY <1>0, <2>4
    <3>2. Magnitude(k) = -k
      BY <2>4 DEF Magnitude
    <3> HIDE DEF g
    <3> QED  BY <1>0, <1>3, <2>1, <2>2, <3>1, <3>2
  <2> QED  BY <1>0, <2>3, <2>4
<1>5. /\ x = <<x[1], x[2]>> /\ x[1] \in Int /\ x[2] \in Int
      /\ g \in NonZero /\ n = g * x[1] /\ d = g * x[2]
  BY Reduced
<1>6. /\ y = <<y[1], y[2]>> /\ y[1] \in Int /\ y[2] \in Int
      /\ k * g \in NonZero /\ k * n = (k * g) * y[1] /\ k * d = (k * g) * y[2]
  BY <1>1, <1>4, Reduced
<1> HIDE DEF x, y, g
<1>7. (k * g) * x[1] = (k * g) * y[1] /\ (k * g) * x[2] = (k * g) * y[2]
  <2>1. k * (g * x[1]) = (k * g) * x[1] /\ k * (g * x[2]) = (k * g) * x[2]
    BY <1>0, <1>5 DEF NonZero
  <2> QED  BY <1>5, <1>6, <2>1
<1>8. x[1] = y[1] /\ x[2] = y[2]
  BY <1>5, <1>6, <1>7, Cancels DEF NonZero
<1> QED  BY <1>1, <1>5, <1>6, <1>8 DEF x, y

\* Fractions are the same if their products crosswise are.
LEMMA SameFraction ==
  ASSUME NEW n \in Int, NEW d \in NonZero, NEW m \in Int, NEW e \in NonZero,
         n * e = m * d
  PROVE  Rational(n, d) = Rational(m, e)
<1>1. Rational(e * n, e * d) = Rational(n, d) /\ Rational(d * m, d * e) = Rational(m, e)
  BY RationalScales
<1>2. e * n = d * m /\ e * d = d * e
  BY DEF NonZero
<1> QED  BY <1>1, <1>2
(***************************************************************************)
(* The numbers, and the operations on fractions not in lowest terms.       *)
(***************************************************************************)
Num == Fraction \cup {NaN}
One == Whole(1)

\* The product of two denominators is one.
LEMMA NonZeroProduct ==
  \A d, e \in NonZero : d * e \in NonZero /\ d \in Int /\ d # 0
BY DEF NonZero

\* A Rational is a fraction, equal to what it was built of.
LEMMA RationalTyped ==
  ASSUME NEW n \in Int, NEW d \in NonZero
  PROVE  /\ Rational(n, d) \in Fraction
         /\ Rational(n, d)[1] * d = n * Rational(n, d)[2]
<1> DEFINE x == Rational(n, d)
           g == Divisor(n, d)
<1>1. /\ x = <<x[1], x[2]>> /\ x[1] \in Int /\ x[2] \in Int /\ x[2] > 0
      /\ g \in NonZero /\ n = g * x[1] /\ d = g * x[2]
  BY Reduced
<1> HIDE DEF x, g
<1>2. x[2] \in NonZero /\ g \in Int
  BY <1>1 DEF NonZero
<1>3. Rational(g * x[1], g * x[2]) = Rational(x[1], x[2])
  BY <1>1, <1>2, RationalScales
<1>4. Rational(x[1], x[2]) = x
  BY <1>1, <1>3 DEF x
<1>5. x \in Int \X Int
  BY <1>1
<1>6. x \in Fraction
  BY <1>2, <1>4, <1>5 DEF Fraction, NonZero
<1>7. x[1] * d = n * x[2]
  <2>1. x[1] * (g * x[2]) = (g * x[1]) * x[2]
    BY <1>1, <1>2
  <2> QED  BY <1>1, <2>1
<1> QED  BY <1>6, <1>7 DEF x

\* A fraction is the Rational of its own numerator and denominator.
LEMMA FractionShape ==
  ASSUME NEW x \in Fraction
  PROVE  /\ x = <<x[1], x[2]>> /\ x = Rational(x[1], x[2])
         /\ x[1] \in Int /\ x[2] \in Int /\ x[2] > 0 /\ x[2] \in NonZero
         /\ x # NaN /\ IsNumber(x)
<1>1. /\ x = <<x[1], x[2]>> /\ x = Rational(x[1], x[2])
      /\ x[1] \in Int /\ x[2] \in Int /\ x[2] \in NonZero
  BY DEF Fraction, NonZero
<1>2. x[2] > 0
  <2>1. Rational(x[1], x[2])[2] > 0
    BY <1>1, Reduced
  <2> QED  BY <1>1, <2>1
<1>3. x # NaN
  BY <1>2 DEF NaN
<1> QED  BY <1>1, <1>2, <1>3 DEF IsNumber

\* A number or NaN is a pair of integers.
LEMMA NumShape ==
  ASSUME NEW x \in Num
  PROVE  x[1] \in Int /\ x[2] \in Int /\ x = <<x[1], x[2]>>
<1>1. CASE x \in Fraction
  BY <1>1, FractionShape
<1>2. CASE x = NaN
  BY <1>2 DEF NaN
<1> QED  BY <1>1, <1>2 DEF Num

\* A product of fractions, reduced crosswise or not.
LEMMA AcrossFractions ==
  ASSUME NEW n \in Int, NEW d \in NonZero, NEW m \in Int, NEW e \in NonZero
  PROVE  Across(Rational(n, d), Rational(m, e)) = Rational(n * m, d * e)
<1> DEFINE p == Rational(n, d)
           q == Rational(m, e)
<1>1. p \in Fraction /\ p[1] * d = n * p[2] /\ q \in Fraction /\ q[1] * e = m * q[2]
  BY RationalTyped
<1> HIDE DEF p, q
<1>2. p[1] \in Int /\ p[2] \in NonZero /\ q[1] \in Int /\ q[2] \in NonZero
  BY <1>1, FractionShape
<1>3. /\ p[1] * q[1] \in Int /\ n * m \in Int /\ p[2] * q[2] \in NonZero /\ d * e \in NonZero
      /\ p[2] \in Int /\ q[2] \in Int /\ d \in Int /\ e \in Int
  <2>1. /\ p[2] * q[2] \in NonZero /\ d * e \in NonZero
        /\ p[2] \in Int /\ q[2] \in Int /\ d \in Int /\ e \in Int
    BY <1>2, NonZeroProduct
  <2>2. p[1] * q[1] \in Int /\ n * m \in Int
    BY <1>2
  <2> QED  BY <2>1, <2>2
<1>4. (p[1] * q[1]) * (d * e) = (n * m) * (p[2] * q[2])
  <2>1. (p[1] * q[1]) * (d * e) = (p[1] * d) * (q[1] * e)
    BY <1>2, <1>3
  <2>2. (n * m) * (p[2] * q[2]) = (n * p[2]) * (m * q[2])
    BY <1>2, <1>3
  <2> QED  BY <1>1, <2>1, <2>2
<1>5. Rational(p[1] * q[1], p[2] * q[2]) = Rational(n * m, d * e)
  BY <1>3, <1>4, SameFraction
<1> QED  BY <1>5 DEF Across, p, q

\* Operations on fractions in any terms.
LEMMA TimesFractions ==
  ASSUME NEW n \in Int, NEW d \in NonZero, NEW m \in Int, NEW e \in NonZero
  PROVE  Rational(n, d) ** Rational(m, e) = Rational(n * m, d * e)
<1> DEFINE x == Rational(n, d)
           y == Rational(m, e)
<1>1. x \in Fraction /\ x[1] * d = n * x[2] /\ y \in Fraction /\ y[1] * e = m * y[2]
  BY RationalTyped
<1> HIDE DEF x, y
<1>2. x[1] \in Int /\ x[2] \in NonZero /\ y[1] \in Int /\ y[2] \in NonZero
  BY <1>1, FractionShape
<1>3. /\ x[1] * y[1] \in Int /\ n * m \in Int /\ y[2] * x[2] \in NonZero /\ d * e \in NonZero
      /\ x[2] \in Int /\ y[2] \in Int /\ d \in Int /\ e \in Int
  <2>1. /\ y[2] * x[2] \in NonZero /\ d * e \in NonZero
        /\ x[2] \in Int /\ y[2] \in Int /\ d \in Int /\ e \in Int
    BY <1>2, NonZeroProduct
  <2>2. x[1] * y[1] \in Int /\ n * m \in Int
    BY <1>2
  <2> QED  BY <2>1, <2>2
<1>4. x ** y = Rational(x[1] * y[1], y[2] * x[2])
  BY <1>2, AcrossFractions DEF **
<1>5. (x[1] * y[1]) * (d * e) = (n * m) * (y[2] * x[2])
  <2>1. (x[1] * y[1]) * (d * e) = (x[1] * d) * (y[1] * e)
    BY <1>2, <1>3
  <2>2. (n * m) * (y[2] * x[2]) = (n * x[2]) * (m * y[2])
    BY <1>2, <1>3
  <2> QED  BY <1>1, <2>1, <2>2
<1>6. Rational(x[1] * y[1], y[2] * x[2]) = Rational(n * m, d * e)
  BY <1>3, <1>5, SameFraction
<1> QED  BY <1>4, <1>6 DEF x, y

\* The quotient of two quotients is that of the products across.
LEMMA DividesFractions ==
  ASSUME NEW n \in Int, NEW d \in NonZero, NEW m \in NonZero, NEW e \in NonZero
  PROVE  Rational(n, d) // Rational(m, e) = Rational(n * e, d * m)
<1> DEFINE x == Rational(n, d)
           y == Rational(m, e)
<1>0. m \in Int /\ m # 0 /\ e \in Int /\ e # 0 /\ d \in Int /\ d # 0
  BY DEF NonZero
<1>1. x \in Fraction /\ x[1] * d = n * x[2] /\ y \in Fraction /\ y[1] * e = m * y[2]
  BY <1>0, RationalTyped
<1> HIDE DEF x, y
<1>2. /\ x[1] \in Int /\ x[2] \in NonZero /\ y[1] \in Int /\ y[2] \in NonZero
      /\ x[2] \in Int /\ y[2] \in Int /\ x[2] # 0 /\ y[2] # 0
  BY <1>1, FractionShape DEF NonZero
<1>3. y[1] \in NonZero
  <2>1. m * y[2] # 0
    BY <1>0, <1>2
  <2>2. y[1] # 0
    BY <1>0, <1>1, <2>1
  <2> QED  BY <1>2, <2>2 DEF NonZero
<1>4. /\ x[1] * y[2] \in Int /\ n * e \in Int /\ y[1] * x[2] \in NonZero /\ d * m \in NonZero
  <2>1. y[1] * x[2] \in NonZero /\ d * m \in NonZero
    BY <1>2, <1>3, NonZeroProduct
  <2>2. x[1] * y[2] \in Int /\ n * e \in Int
    BY <1>0, <1>2
  <2> QED  BY <2>1, <2>2
<1>5. x // y = Rational(x[1] * y[2], y[1] * x[2])
  BY <1>2, <1>3, AcrossFractions DEF //
<1>6. (x[1] * y[2]) * (d * m) = (n * e) * (y[1] * x[2])
  <2>1. (x[1] * y[2]) * (d * m) = (x[1] * d) * (m * y[2])
    BY <1>0, <1>2
  <2>2. (n * e) * (y[1] * x[2]) = (n * x[2]) * (y[1] * e)
    BY <1>0, <1>2
  <2> QED  BY <1>1, <2>1, <2>2
<1>7. Rational(x[1] * y[2], y[1] * x[2]) = Rational(n * e, d * m)
  BY <1>4, <1>6, SameFraction
<1> QED  BY <1>5, <1>7 DEF x, y

\* Quotients are added over the product of the denominators.
LEMMA PlusFractions ==
  ASSUME NEW n \in Int, NEW d \in NonZero, NEW m \in Int, NEW e \in NonZero
  PROVE  Rational(n, d) ++ Rational(m, e) = Rational(n * e + m * d, d * e)
<1> DEFINE x == Rational(n, d)
           y == Rational(m, e)
<1>0. e \in Int /\ d \in Int
  BY DEF NonZero
<1>1. x \in Fraction /\ x[1] * d = n * x[2] /\ y \in Fraction /\ y[1] * e = m * y[2]
  BY RationalTyped
<1> HIDE DEF x, y
<1>2. /\ x[1] \in Int /\ x[2] \in NonZero /\ y[1] \in Int /\ y[2] \in NonZero
      /\ x[2] \in Int /\ y[2] \in Int
  BY <1>1, FractionShape
<1>3. /\ x[1] * y[2] + y[1] * x[2] \in Int /\ n * e + m * d \in Int
      /\ x[2] * y[2] \in NonZero /\ d * e \in NonZero
  <2>1. x[2] * y[2] \in NonZero /\ d * e \in NonZero
    BY <1>2, NonZeroProduct
  <2> QED  BY <1>0, <1>2, <2>1
<1>4. (x[1] * y[2] + y[1] * x[2]) * (d * e) = (n * e + m * d) * (x[2] * y[2])
  <2>1. (x[1] * y[2] + y[1] * x[2]) * (d * e)
          = (x[1] * d) * (y[2] * e) + (y[1] * e) * (x[2] * d)
    BY <1>0, <1>2
  <2>2. (n * e + m * d) * (x[2] * y[2])
          = (n * x[2]) * (y[2] * e) + (m * y[2]) * (x[2] * d)
    BY <1>0, <1>2
  <2> QED  BY <1>1, <2>1, <2>2
<1>5. Rational(x[1] * y[2] + y[1] * x[2], x[2] * y[2]) = Rational(n * e + m * d, d * e)
  BY <1>3, <1>4, SameFraction
<1> QED  BY <1>5 DEF ++, x, y

\* Changing the sign keeps lowest terms.
LEMMA MagnitudeFacts ==
  ASSUME NEW n \in Int
  PROVE  /\ Magnitude(n) \in Int /\ Magnitude(n) >= 0 /\ Magnitude(-n) = Magnitude(n)
         /\ Magnitude(Magnitude(n)) = Magnitude(n)
         /\ Magnitude(n) = n \/ Magnitude(n) = -n
BY DEF Magnitude

\* The negative of a quotient is that of the negative numerator.
LEMMA SignsOfFractions ==
  ASSUME NEW n \in Int, NEW d \in NonZero
  PROVE  Minus(Rational(n, d)) = Rational(-n, d)
<1> DEFINE x == Rational(n, d)
           y == Rational(-n, d)
           g == Divisor(n, d)
<1>1. /\ x = <<x[1], x[2]>> /\ x[1] \in Int /\ x[2] \in Int
      /\ g \in NonZero /\ n = g * x[1] /\ d = g * x[2]
  BY Reduced
<1>2. Divisor(-n, d) = g /\ -n \in Int
  BY MagnitudeFacts DEF Divisor
<1>3. /\ y = <<y[1], y[2]>> /\ y[1] \in Int /\ y[2] \in Int
      /\ -n = g * y[1] /\ d = g * y[2]
  BY <1>2, Reduced
<1> HIDE DEF x, y, g
<1>4. g * (-x[1]) = g * y[1] /\ g * x[2] = g * y[2] /\ -x[1] \in Int /\ g \in Int /\ g # 0
  BY <1>1, <1>3 DEF NonZero
<1>5. -x[1] = y[1] /\ x[2] = y[2]
  BY <1>1, <1>3, <1>4, Cancels
<1> QED  BY <1>1, <1>3, <1>5 DEF Minus, x, y

\* An integer is a fraction over one.
LEMMA WholeTyped ==
  ASSUME NEW n \in Int
  PROVE  Whole(n) \in Fraction /\ Rational(n, 1) = Whole(n)
<1>1. 1 \in NonZero
  BY DEF NonZero
<1> DEFINE x == Rational(n, 1)
           g == Divisor(n, 1)
<1>2. x \in Fraction /\ x[1] * 1 = n * x[2]
  BY <1>1, RationalTyped
<1>3. /\ x = <<x[1], x[2]>> /\ 1 = g * x[2]
      /\ g \in NonZero /\ x[1] \in Int /\ x[2] \in Int /\ x[2] > 0
  BY <1>1, Reduced
<1> HIDE DEF x, g
<1>4. \A i \in Int, h \in Int : h > 0 /\ 1 = i * h => h = 1
  <2> SUFFICES ASSUME NEW i \in Int, NEW h \in Int, h > 0, 1 = i * h PROVE h = 1
    OBVIOUS
  <2>1. i > 0
    OBVIOUS
  <2>2. i * h >= h
    BY <2>1
  <2> QED  BY <2>2
<1>5. x[2] = 1
  BY <1>3, <1>4 DEF NonZero
<1>6. x[1] = n
  BY <1>2, <1>3, <1>5
<1>7. x = <<n, 1>>
  BY <1>3, <1>5, <1>6
<1> QED  BY <1>2, <1>7 DEF x, Whole

\* Zero and one are fractions, and are not each other.
LEMMA Constants ==
  /\ Zero \in Fraction /\ One \in Fraction /\ One # Zero
  /\ Zero = <<0, 1>> /\ One = <<1, 1>> /\ NaN = <<0, 0>>
  /\ Rational(0, 1) = Zero /\ Rational(1, 1) = One
<1>1. 0 \in Int /\ 1 \in Int
  OBVIOUS
<1>2. Zero = <<0, 1>> /\ One = <<1, 1>> /\ NaN = <<0, 0>>
  BY DEF Zero, One, Whole, NaN
<1> QED  BY <1>1, <1>2, WholeTyped DEF Zero, One

\* Of the fractions, zero is that with numerator zero.
LEMMA IsZero ==
  ASSUME NEW x \in Fraction
  PROVE  x = Zero <=> x[1] = 0
<1>1. x = Rational(x[1], x[2]) /\ x[1] \in Int /\ x[2] \in NonZero /\ x[2] \in Int
  BY FractionShape
<1>2. CASE x[1] = 0
  <2>1. 1 \in NonZero /\ 0 \in Int
    BY DEF NonZero
  <2>2. 0 * 1 = 0 * x[2]
    BY <1>1
  <2>3. Rational(0, x[2]) = Rational(0, 1)
    BY <1>1, <2>1, <2>2, SameFraction
  <2> QED  BY <1>1, <1>2, <2>3, Constants
<1>3. Zero[1] = 0
  BY Constants
<1> QED  BY <1>2, <1>3

\* The operations on fractions.
LEMMA OnFractions ==
  ASSUME NEW x \in Fraction, NEW y \in Fraction
  PROVE  /\ x ++ y = Rational(x[1] * y[2] + y[1] * x[2], x[2] * y[2])
         /\ x ** y = Rational(x[1] * y[1], x[2] * y[2])
         /\ y # Zero => x // y = Rational(x[1] * y[2], x[2] * y[1])
         /\ Minus(x) = Rational(-x[1], x[2])
<1>1. /\ x = Rational(x[1], x[2]) /\ x[1] \in Int /\ x[2] \in NonZero
      /\ y = Rational(y[1], y[2]) /\ y[1] \in Int /\ y[2] \in NonZero
  BY FractionShape
<1> DEFINE a == x[1]
           b == x[2]
           c == y[1]
           d == y[2]
<1>2. Rational(a, b) ++ Rational(c, d) = Rational(a * d + c * b, b * d)
  BY <1>1, PlusFractions
<1>3. Rational(a, b) ** Rational(c, d) = Rational(a * c, b * d)
  BY <1>1, TimesFractions
<1>4. y # Zero => Rational(a, b) // Rational(c, d) = Rational(a * d, b * c)
  <2>1. y # Zero => c \in NonZero
    BY <1>1, IsZero DEF NonZero
  <2> QED  BY <1>1, <2>1, DividesFractions
<1>5. Minus(Rational(a, b)) = Rational(-a, b)
  BY <1>1, SignsOfFractions
<1> QED  BY <1>1, <1>2, <1>3, <1>4, <1>5

\* Fractions are closed under the operations, but for division by zero.
LEMMA FractionClosure ==
  ASSUME NEW x \in Fraction, NEW y \in Fraction
  PROVE  /\ x ++ y \in Fraction /\ x ** y \in Fraction /\ Minus(x) \in Fraction
         /\ x -- y \in Fraction
         /\ y # Zero => x // y \in Fraction
<1>1. \A p, q \in Fraction :
        /\ p ++ q \in Fraction /\ p ** q \in Fraction /\ Minus(p) \in Fraction
        /\ q # Zero => p // q \in Fraction
  <2> TAKE p, q \in Fraction
  <2>1. /\ p[1] \in Int /\ p[2] \in NonZero /\ p[2] \in Int
        /\ q[1] \in Int /\ q[2] \in NonZero /\ q[2] \in Int
    BY FractionShape
  <2>2. p[2] * q[2] \in NonZero
    BY <2>1, NonZeroProduct
  <2>3. q # Zero => p[2] * q[1] \in NonZero
    <3>1. q # Zero => q[1] \in NonZero
      BY <2>1, IsZero DEF NonZero
    <3> QED  BY <2>1, <3>1, NonZeroProduct
  <2>4. /\ p[1] * q[2] + q[1] * p[2] \in Int /\ p[1] * q[1] \in Int
        /\ p[1] * q[2] \in Int /\ -p[1] \in Int
    BY <2>1
  <2>5. /\ Rational(p[1] * q[2] + q[1] * p[2], p[2] * q[2]) \in Fraction
        /\ Rational(p[1] * q[1], p[2] * q[2]) \in Fraction
        /\ Rational(-p[1], p[2]) \in Fraction
    BY <2>1, <2>2, <2>4, RationalTyped
  <2>6. q # Zero => Rational(p[1] * q[2], p[2] * q[1]) \in Fraction
    BY <2>3, <2>4, RationalTyped
  <2> QED  BY <2>5, <2>6, OnFractions
<1> QED  BY <1>1 DEF --

\* What is calculated with NaN is NaN, and so is a quotient by zero.
LEMMA NaNAbsorbs ==
  ASSUME NEW x \in Num
  PROVE  /\ NaN ++ x = NaN /\ x ++ NaN = NaN
         /\ NaN ** x = NaN /\ x ** NaN = NaN
         /\ NaN // x = NaN /\ x // NaN = NaN
         /\ x // Zero = NaN
         /\ NaN -- x = NaN /\ x -- NaN = NaN
         /\ Minus(NaN) = NaN /\ Absolute(NaN) = NaN
<1>1. x[1] \in Int /\ x[2] \in Int
  BY NumShape
<1>2. NaN[1] = 0 /\ NaN[2] = 0 /\ Zero[1] = 0 /\ Zero[2] = 1
  BY Constants
<1>3. \A n \in Int : Rational(n, 0) = NaN
  BY DEF Rational
<1>4. \A n, d \in Int : Rational(n, d)[1] \in Int /\ Rational(n, d)[2] \in Int
  <2> TAKE n, d \in Int
  <2>1. CASE d = 0
    BY <1>2, <1>3, <2>1
  <2>2. CASE d # 0
    BY <2>2, Reduced DEF NonZero
  <2> QED  BY <2>1, <2>2
<1>5. \A n, d \in Int : Across(Rational(n, d), NaN) = NaN /\ Across(NaN, Rational(n, d)) = NaN
  <2> TAKE n, d \in Int
  <2>1. /\ Rational(n, d)[1] * 0 = 0 /\ 0 * Rational(n, d)[1] = 0
        /\ Rational(n, d)[2] * 0 = 0 /\ 0 * Rational(n, d)[2] = 0
    BY <1>4
  <2> QED  BY <1>2, <1>3, <2>1 DEF Across
<1>6. /\ NaN ++ x = NaN /\ x ++ NaN = NaN
  <2>1. /\ 0 * x[2] + x[1] * 0 = 0 /\ 0 * x[2] = 0
        /\ x[1] * 0 + 0 * x[2] = 0 /\ x[2] * 0 = 0
    BY <1>1
  <2> QED  BY <1>2, <1>3, <2>1 DEF ++
<1>7. /\ NaN ** x = NaN /\ x ** NaN = NaN
  BY <1>1, <1>2, <1>3, <1>5 DEF **
<1>8. /\ NaN // x = NaN /\ x // NaN = NaN /\ x // Zero = NaN
  BY <1>1, <1>2, <1>3, <1>5 DEF //
<1>9. Minus(NaN) = NaN /\ Absolute(NaN) = NaN
  <2>1. \A i, j \in Int : i + (-i) = 0 /\ (0 + j = 0 => j = 0)
    OBVIOUS
  <2>2. -NaN[1] = 0
    <3>1. NaN[1] \in Int /\ NaN[1] + (-NaN[1]) = 0
      BY <1>2, <2>1
    <3>2. -NaN[1] \in Int
      BY <3>1
    <3> QED  BY <1>2, <2>1, <3>1, <3>2
  <2> QED  BY <1>2, <2>2, Constants DEF Minus, Absolute, Magnitude
<1>10. x -- NaN = NaN
  BY <1>6, <1>9 DEF --
<1>11. NaN -- x = NaN
  <2>1. Minus(x) \in Num
    BY <1>9, FractionClosure DEF Num
  <2>2. Minus(x)[1] \in Int /\ Minus(x)[2] \in Int
    BY <2>1, NumShape
  <2>3. 0 * Minus(x)[2] + Minus(x)[1] * 0 = 0 /\ 0 * Minus(x)[2] = 0
    BY <2>2
  <2> QED  BY <1>2, <1>3, <2>3 DEF ++, --
<1> QED  BY <1>6, <1>7, <1>8, <1>9, <1>10, <1>11

\* An absolute value is not negative, and is the number or its negative.
LEMMA AbsoluteValue ==
  ASSUME NEW x \in Fraction
  PROVE  /\ Absolute(x) \in Fraction /\ Absolute(x)[1] >= 0
         /\ Absolute(x) = x \/ Absolute(x) = Minus(x)
         /\ Absolute(x) = (IF x[1] < 0 THEN Minus(x) ELSE x)
<1>1. x = <<x[1], x[2]>> /\ x[1] \in Int /\ x[2] \in Int
  BY FractionShape
<1>2. Absolute(x) = (IF x[1] < 0 THEN Minus(x) ELSE x)
  BY <1>1 DEF Absolute, Minus, Magnitude
<1>3. Absolute(x)[1] >= 0
  BY <1>1, MagnitudeFacts DEF Absolute
<1> QED  BY <1>2, <1>3, FractionClosure

\* With NaN the numbers are closed under all operations.
LEMMA NumClosure ==
  ASSUME NEW x \in Num, NEW y \in Num
  PROVE  /\ x ++ y \in Num /\ x ** y \in Num /\ x -- y \in Num /\ x // y \in Num
         /\ Minus(x) \in Num /\ Absolute(x) \in Num
<1>1. NaN \in Num /\ Fraction \subseteq Num
  BY DEF Num
<1>2. CASE x = NaN \/ y = NaN
  <2>1. x ++ y = NaN /\ x ** y = NaN /\ x -- y = NaN /\ x // y = NaN
    BY <1>2, NaNAbsorbs
  <2>2. Minus(x) \in Num /\ Absolute(x) \in Num
    <3>1. CASE x = NaN
      BY <1>1, <3>1, NaNAbsorbs
    <3>2. CASE x \in Fraction
      BY <1>1, <3>2, FractionClosure, AbsoluteValue
    <3> QED  BY <3>1, <3>2 DEF Num
  <2> QED  BY <1>1, <2>1, <2>2
<1>3. CASE x \in Fraction /\ y \in Fraction
  <2>1. /\ x ++ y \in Fraction /\ x ** y \in Fraction /\ x -- y \in Fraction
        /\ Minus(x) \in Fraction
    BY <1>3, FractionClosure
  <2>2. Absolute(x) \in Fraction
    BY <1>3, AbsoluteValue
  <2>3. x // y \in Num
    BY <1>1, <1>3, FractionClosure, NaNAbsorbs
  <2> QED  BY <1>1, <2>1, <2>2, <2>3
<1> QED  BY <1>2, <1>3 DEF Num

\* The laws of sums and products, of fractions.
LEMMA FractionLaws ==
  ASSUME NEW x \in Fraction, NEW y \in Fraction, NEW z \in Fraction
  PROVE  /\ x ++ y = y ++ x
         /\ (x ++ y) ++ z = x ++ (y ++ z)
         /\ x ** y = y ** x
         /\ (x ** y) ** z = x ** (y ** z)
         /\ x ** (y ++ z) = (x ** y) ++ (x ** z)
<1> DEFINE a == x[1]
           b == x[2]
           c == y[1]
           d == y[2]
           e == z[1]
           f == z[2]
<1>1. /\ x = Rational(a, b) /\ a \in Int /\ b \in NonZero /\ b \in Int
      /\ y = Rational(c, d) /\ c \in Int /\ d \in NonZero /\ d \in Int
      /\ z = Rational(e, f) /\ e \in Int /\ f \in NonZero /\ f \in Int
  BY FractionShape
<1> HIDE DEF a, b, c, d, e, f
<1>2. /\ b * d \in NonZero /\ d * f \in NonZero /\ b * f \in NonZero
  BY <1>1, NonZeroProduct
<1>3. /\ a * d + c * b \in Int /\ c * f + e * d \in Int
      /\ a * c \in Int /\ c * e \in Int /\ a * e \in Int /\ b * d \in Int /\ d * f \in Int
      /\ b * f \in Int
  BY <1>1
<1>4. /\ x ++ y = Rational(a * d + c * b, b * d)
      /\ y ++ z = Rational(c * f + e * d, d * f)
      /\ x ** y = Rational(a * c, b * d)
      /\ y ** z = Rational(c * e, d * f)
      /\ x ** z = Rational(a * e, b * f)
  <2>1. x ++ y = Rational(a * d + c * b, b * d)
    BY <1>1, PlusFractions
  <2>3. y ++ z = Rational(c * f + e * d, d * f)
    BY <1>1, PlusFractions
  <2>2. /\ x ** y = Rational(a * c, b * d)
        /\ y ** z = Rational(c * e, d * f)
        /\ x ** z = Rational(a * e, b * f)
    BY <1>1, TimesFractions
  <2> QED  BY <2>1, <2>2, <2>3
<1>5. x ++ y = y ++ x
  <2>1. y ++ x = Rational(c * b + a * d, d * b)
    BY <1>1, PlusFractions
  <2>2. c * b + a * d = a * d + c * b /\ d * b = b * d
    BY <1>1
  <2> QED  BY <1>4, <2>1, <2>2
<1>6. (x ++ y) ++ z = x ++ (y ++ z)
  <2>1. (x ++ y) ++ z = Rational((a * d + c * b) * f + e * (b * d), (b * d) * f)
    BY <1>1, <1>2, <1>3, <1>4, PlusFractions
  <2>2. x ++ (y ++ z) = Rational(a * (d * f) + (c * f + e * d) * b, b * (d * f))
    BY <1>1, <1>2, <1>3, <1>4, PlusFractions
  <2>3. /\ (a * d + c * b) * f + e * (b * d) = a * (d * f) + (c * f + e * d) * b
        /\ (b * d) * f = b * (d * f)
    BY <1>1
  <2> QED  BY <2>1, <2>2, <2>3
<1>7. x ** y = y ** x
  <2>1. y ** x = Rational(c * a, d * b)
    BY <1>1, TimesFractions
  <2>2. c * a = a * c /\ d * b = b * d
    BY <1>1
  <2> QED  BY <1>4, <2>1, <2>2
<1>8. (x ** y) ** z = x ** (y ** z)
  <2>1. (x ** y) ** z = Rational((a * c) * e, (b * d) * f)
    BY <1>1, <1>2, <1>3, <1>4, TimesFractions
  <2>2. x ** (y ** z) = Rational(a * (c * e), b * (d * f))
    BY <1>1, <1>2, <1>3, <1>4, TimesFractions
  <2>3. (a * c) * e = a * (c * e) /\ (b * d) * f = b * (d * f)
    BY <1>1
  <2> QED  BY <2>1, <2>2, <2>3
<1>9. x ** (y ++ z) = (x ** y) ++ (x ** z)
  <2>1. x ** (y ++ z) = Rational(a * (c * f + e * d), b * (d * f))
    BY <1>1, <1>2, <1>3, <1>4, TimesFractions
  <2>2. (x ** y) ++ (x ** z)
          = Rational((a * c) * (b * f) + (a * e) * (b * d), (b * d) * (b * f))
    BY <1>1, <1>2, <1>3, <1>4, PlusFractions
  <2>3. /\ (a * c) * (b * f) + (a * e) * (b * d) = b * (a * (c * f + e * d))
        /\ (b * d) * (b * f) = b * (b * (d * f))
    BY <1>1
  <2>4. a * (c * f + e * d) \in Int /\ b * (d * f) \in NonZero
    <3>1. b * (d * f) \in NonZero
      BY <1>1, <1>2, NonZeroProduct
    <3> QED  BY <1>1, <1>3, <3>1
  <2>5. Rational(b * (a * (c * f + e * d)), b * (b * (d * f)))
          = Rational(a * (c * f + e * d), b * (d * f))
    BY <1>1, <2>4, RationalScales
  <2> QED  BY <2>1, <2>2, <2>3, <2>5
<1> QED  BY <1>5, <1>6, <1>7, <1>8, <1>9

\* Zero, one, opposites and reciprocals, of fractions.
LEMMA FractionUnits ==
  ASSUME NEW x \in Fraction
  PROVE  /\ Zero ++ x = x /\ x ++ Zero = x
         /\ One ** x = x /\ x ** One = x
         /\ Zero ** x = Zero /\ x ** Zero = Zero
         /\ x ++ Minus(x) = Zero
         /\ Minus(x) = Minus(One) ** x
         /\ x # Zero => x ** (One // x) = One
<1> DEFINE a == x[1]
           b == x[2]
<1>1. /\ x = Rational(a, b) /\ a \in Int /\ b \in NonZero /\ b \in Int
  BY FractionShape
<1>2. /\ Zero = Rational(0, 1) /\ One = Rational(1, 1) /\ 1 \in NonZero /\ 0 \in Int /\ 1 \in Int
      /\ -1 \in Int
  BY Constants DEF NonZero
<1>3. x # Zero => a \in NonZero
  BY <1>1, IsZero DEF NonZero
<1> HIDE DEF a, b
<1>4. Zero ++ x = x
  <2>1. Zero ++ x = Rational(0 * b + a * 1, 1 * b)
    BY <1>1, <1>2, PlusFractions
  <2>2. 0 * b + a * 1 = a /\ 1 * b = b
    BY <1>1
  <2> QED  BY <1>1, <2>1, <2>2
<1>5. One ** x = x
  <2>1. One ** x = Rational(1 * a, 1 * b)
    BY <1>1, <1>2, TimesFractions
  <2>2. 1 * a = a /\ 1 * b = b
    BY <1>1
  <2> QED  BY <1>1, <2>1, <2>2
<1>6. Zero ** x = Zero
  <2>1. Zero ** x = Rational(0 * a, 1 * b)
    BY <1>1, <1>2, TimesFractions
  <2>2. 0 * a = 0 /\ 1 * b = b /\ 0 * 1 = 0 * b
    BY <1>1
  <2>3. Rational(0, b) = Rational(0, 1)
    BY <1>1, <1>2, <2>2, SameFraction
  <2> QED  BY <1>2, <2>1, <2>2, <2>3
<1>7. Minus(x) = Rational(-a, b) /\ Minus(One) = Rational(-1, 1)
  BY <1>1, <1>2, SignsOfFractions
<1>8. x ++ Minus(x) = Zero
  <2>1. -a \in Int
    BY <1>1
  <2>2. x ++ Minus(x) = Rational(a * b + (-a) * b, b * b)
    BY <1>1, <1>7, <2>1, PlusFractions
  <2>3. b * b \in NonZero /\ b * b \in Int
    BY <1>1, NonZeroProduct
  <2>4. a * b + (-a) * b = 0
    BY <1>1
  <2>5. 0 * 1 = 0 * (b * b)
    BY <2>3
  <2>6. Rational(0, b * b) = Rational(0, 1)
    BY <1>2, <2>3, <2>5, SameFraction
  <2> QED  BY <1>2, <2>2, <2>4, <2>6
<1>9. Minus(x) = Minus(One) ** x
  <2>1. Minus(One) ** x = Rational((-1) * a, 1 * b)
    BY <1>1, <1>2, <1>7, TimesFractions
  <2>2. (-1) * a = -a /\ 1 * b = b
    BY <1>1
  <2> QED  BY <1>7, <2>1, <2>2
<1>10. x # Zero => x ** (One // x) = One
  <2> SUFFICES ASSUME x # Zero PROVE x ** (One // x) = One
    OBVIOUS
  <2>0. a \in NonZero /\ a \in Int /\ a # 0 /\ b # 0
    BY <1>1, <1>3 DEF NonZero
  <2>1. One // x = Rational(1 * b, 1 * a)
    BY <1>1, <1>2, <2>0, DividesFractions
  <2>2. 1 * b = b /\ 1 * a = a
    BY <1>1, <2>0
  <2>3. x ** (One // x) = Rational(a * b, b * a)
    BY <1>1, <2>0, <2>1, <2>2, TimesFractions
  <2>4. b * a \in NonZero
    BY <1>1, <2>0, NonZeroProduct
  <2>5. a * b \in Int /\ (a * b) * 1 = 1 * (b * a)
    BY <1>1, <2>0
  <2>6. Rational(a * b, b * a) = Rational(1, 1)
    BY <1>2, <2>4, <2>5, SameFraction
  <2> QED  BY <1>2, <2>3, <2>6
<1>11. x ++ Zero = x /\ x ** One = x /\ x ** Zero = Zero
  BY <1>4, <1>5, <1>6, FractionLaws, Constants
<1> QED  BY <1>4, <1>5, <1>6, <1>8, <1>9, <1>10, <1>11

\* A quotient is a product with the reciprocal.
LEMMA FractionQuotient ==
  ASSUME NEW x \in Fraction, NEW y \in Fraction, y # Zero
  PROVE  x // y = x ** (One // y)
<1> DEFINE a == x[1]
           b == x[2]
           c == y[1]
           d == y[2]
<1>1. /\ x = Rational(a, b) /\ a \in Int /\ b \in NonZero /\ b \in Int
      /\ y = Rational(c, d) /\ c \in Int /\ d \in NonZero /\ d \in Int
  BY FractionShape
<1>2. c \in NonZero
  BY <1>1, IsZero DEF NonZero
<1>3. One = Rational(1, 1) /\ 1 \in NonZero /\ 1 \in Int
  BY Constants DEF NonZero
<1> HIDE DEF a, b, c, d
<1>4. One // y = Rational(1 * d, 1 * c) /\ x // y = Rational(a * d, b * c)
  BY <1>1, <1>2, <1>3, DividesFractions
<1>5. 1 * d = d /\ 1 * c = c
  BY <1>1
<1>6. x ** (One // y) = Rational(a * d, b * c)
  BY <1>1, <1>2, <1>4, <1>5, TimesFractions
<1> QED  BY <1>4, <1>6

\* One over a number, and NaN over zero and NaN.
Reciprocal(x) == One // x

\* A number is a fraction or NaN, and not both.
LEMMA NumCases ==
  /\ NaN \in Num /\ Zero \in Num /\ One \in Num /\ Fraction \subseteq Num
  /\ NaN \notin Fraction /\ Zero # NaN
  /\ \A x \in Num : x \in Fraction <=> x # NaN
<1>1. \A x \in Fraction : x # NaN
  BY FractionShape
<1> QED  BY <1>1, Constants DEF Num

\* The laws of sums and products of numbers.
LEMMA NumLaws ==
  ASSUME NEW x \in Num, NEW y \in Num, NEW z \in Num
  PROVE  /\ x ++ y = y ++ x
         /\ (x ++ y) ++ z = x ++ (y ++ z)
         /\ x ** y = y ** x
         /\ (x ** y) ** z = x ** (y ** z)
         /\ x ** (y ++ z) = (x ** y) ++ (x ** z)
<1>1. CASE x \in Fraction /\ y \in Fraction /\ z \in Fraction
  BY <1>1, FractionLaws
<1>2. CASE x = NaN
  BY <1>2, NaNAbsorbs, NumClosure
<1>3. CASE y = NaN
  BY <1>3, NaNAbsorbs, NumClosure
<1>4. CASE z = NaN /\ x \in Fraction /\ y \in Fraction
  <2>1. x ++ y = y ++ x /\ x ** y = y ** x
    BY <1>4, FractionLaws
  <2>2. x ++ y \in Num /\ x ** y \in Num
    BY NumClosure
  <2>3. x ** NaN = NaN /\ y ** NaN = NaN /\ (x ++ y) ++ NaN = NaN /\ (x ** y) ** NaN = NaN
    BY <2>2, NaNAbsorbs
  <2>4. y ++ NaN = NaN /\ x ++ NaN = NaN /\ (x ** y) ++ NaN = NaN
    BY <2>2, NaNAbsorbs
  <2> QED  BY <1>4, <2>1, <2>3, <2>4
<1> QED  BY <1>1, <1>2, <1>3, <1>4 DEF Num

\* Zero and one do nothing in sums and products, NaN included.
LEMMA NumUnits ==
  ASSUME NEW x \in Num
  PROVE  /\ Zero ++ x = x /\ x ++ Zero = x
         /\ One ** x = x /\ x ** One = x
         /\ Minus(x) = Minus(One) ** x
<1>1. CASE x \in Fraction
  BY <1>1, FractionUnits
<1>2. CASE x = NaN
  <2>1. Minus(One) \in Num
    BY NumCases, NumClosure
  <2> QED  BY <1>2, <2>1, NumCases, NaNAbsorbs
<1> QED  BY <1>1, <1>2 DEF Num

\* A number that is not zero has a reciprocal; zero and NaN have NaN.
LEMMA ReciprocalTyped ==
  ASSUME NEW x \in Num
  PROVE  /\ Reciprocal(x) \in Num
         /\ (x \in Fraction /\ x # Zero) =>
              (Reciprocal(x) \in Fraction /\ Reciprocal(x) # Zero /\ x ** Reciprocal(x) = One)
         /\ ~(x \in Fraction /\ x # Zero) => Reciprocal(x) = NaN
<1>1. Reciprocal(x) \in Num
  BY NumCases, NumClosure DEF Reciprocal
<1>2. ASSUME x \in Fraction, x # Zero
      PROVE  Reciprocal(x) \in Fraction /\ Reciprocal(x) # Zero /\ x ** Reciprocal(x) = One
  <2>1. x ** Reciprocal(x) = One /\ Reciprocal(x) \in Fraction
    BY <1>2, FractionUnits, FractionClosure, Constants DEF Reciprocal
  <2>2. Reciprocal(x) # Zero
    BY <1>2, <2>1, FractionUnits, Constants
  <2> QED  BY <2>1, <2>2
<1>3. ~(x \in Fraction /\ x # Zero) => Reciprocal(x) = NaN
  BY NumCases, NaNAbsorbs DEF Reciprocal, Num
<1> QED  BY <1>1, <1>2, <1>3

\* To divide is to multiply by the reciprocal, NaN and zero included.
LEMMA NumQuotient ==
  ASSUME NEW x \in Num, NEW y \in Num
  PROVE  x // y = x ** Reciprocal(y)
<1>1. CASE y \in Fraction /\ y # Zero /\ x \in Fraction
  BY <1>1, FractionQuotient DEF Reciprocal
<1>2. CASE ~(y \in Fraction /\ y # Zero)
  <2>1. x // y = NaN
    BY <1>2, NaNAbsorbs DEF Num
  <2> QED  BY <1>2, <2>1, ReciprocalTyped, NaNAbsorbs
<1>3. CASE x = NaN
  BY <1>3, ReciprocalTyped, NaNAbsorbs
<1> QED  BY <1>1, <1>2, <1>3 DEF Num

\* What a number is multiplied by to be one is its reciprocal.
LEMMA ReciprocalUnique ==
  ASSUME NEW x \in Fraction, NEW y \in Num, x ** y = One
  PROVE  x # Zero /\ y = Reciprocal(x) /\ y \in Fraction
<1>1. y \in Fraction
  <2>1. x \in Num /\ One # NaN
    BY NumCases, Constants
  <2>2. x ** NaN = NaN
    BY <2>1, NaNAbsorbs
  <2> QED  BY <2>1, <2>2, NumCases
<1>2. x # Zero
  BY <1>1, FractionUnits, Constants
<1>3. Reciprocal(x) \in Num /\ x ** Reciprocal(x) = One /\ x \in Num
  BY <1>2, ReciprocalTyped, NumCases
<1>4. Reciprocal(x) ** (x ** y) = (Reciprocal(x) ** x) ** y
  BY <1>3, NumLaws
<1>5. Reciprocal(x) ** x = One
  BY <1>3, NumLaws
<1> QED  BY <1>1, <1>2, <1>3, <1>4, <1>5, NumUnits

\* A product is zero only if one of the numbers is.
LEMMA NoZeroDivisors ==
  ASSUME NEW x \in Fraction, NEW y \in Fraction
  PROVE  x ** y = Zero <=> (x = Zero \/ y = Zero)
<1>1. CASE x = Zero \/ y = Zero
  BY <1>1, FractionUnits
<1>2. ASSUME x # Zero, y # Zero, x ** y = Zero PROVE FALSE
  <2>1. x \in Num /\ y \in Num /\ Reciprocal(x) \in Fraction /\ x ** Reciprocal(x) = One
    BY <1>2, NumCases, ReciprocalTyped
  <2>2. Reciprocal(x) \in Num
    BY <2>1, NumCases
  <2>3. Reciprocal(x) ** (x ** y) = (Reciprocal(x) ** x) ** y /\ Reciprocal(x) ** x = One
    BY <2>1, <2>2, NumLaws
  <2>4. Reciprocal(x) ** Zero = Zero /\ One ** y = y
    BY <2>1, FractionUnits
  <2> QED  BY <1>2, <2>1, <2>3, <2>4
<1> QED  BY <1>1, <1>2

\* The reciprocal of a product is the product of the reciprocals, even where
\* one of them is NaN.
LEMMA ReciprocalTimes ==
  ASSUME NEW x \in Num, NEW y \in Num
  PROVE  Reciprocal(x ** y) = Reciprocal(x) ** Reciprocal(y)
<1> DEFINE r == Reciprocal(x)
           s == Reciprocal(y)
<1>1. r \in Num /\ s \in Num
  BY ReciprocalTyped
<1>2. CASE x \in Fraction /\ x # Zero /\ y \in Fraction /\ y # Zero
  <2>1. /\ r \in Fraction /\ x ** r = One /\ s \in Fraction /\ y ** s = One
        /\ x ** y \in Fraction /\ r ** s \in Num
    BY <1>2, ReciprocalTyped, FractionClosure, NumClosure
  <2> HIDE DEF r, s
  <2>2. (x ** y) ** (r ** s) = (x ** r) ** (y ** s)
    <3>1. (x ** y) ** (r ** s) = x ** (y ** (r ** s)) /\ y ** (r ** s) = (y ** r) ** s
      BY <1>1, <2>1, NumLaws
    <3>2. y ** r = r ** y /\ (r ** y) ** s = r ** (y ** s)
      BY <1>1, NumLaws
    <3>3. y ** s \in Num
      BY <1>1, NumClosure
    <3>4. x ** (r ** (y ** s)) = (x ** r) ** (y ** s)
      BY <1>1, <3>3, NumLaws
    <3> QED  BY <3>1, <3>2, <3>4
  <2>3. (x ** y) ** (r ** s) = One
    BY <2>1, <2>2, FractionUnits, Constants
  <2> QED  BY <2>1, <2>3, ReciprocalUnique DEF r, s
<1>3. CASE ~(x \in Fraction /\ x # Zero)
  <2>1. r = NaN
    BY <1>3, ReciprocalTyped
  <2>2. ~(x ** y \in Fraction /\ x ** y # Zero) /\ x ** y \in Num
    BY <1>3, NaNAbsorbs, NumClosure, NumCases, FractionUnits DEF Num
  <2>3. Reciprocal(x ** y) = NaN
    BY <2>2, ReciprocalTyped
  <2> QED  BY <1>1, <2>1, <2>3, NaNAbsorbs
<1>4. CASE ~(y \in Fraction /\ y # Zero)
  <2>1. s = NaN
    BY <1>4, ReciprocalTyped
  <2>2. ~(x ** y \in Fraction /\ x ** y # Zero) /\ x ** y \in Num
    BY <1>4, NaNAbsorbs, NumClosure, NumCases, FractionUnits DEF Num
  <2>3. Reciprocal(x ** y) = NaN
    BY <2>2, ReciprocalTyped
  <2> QED  BY <1>1, <2>1, <2>3, NaNAbsorbs
<1> QED  BY <1>2, <1>3, <1>4

\* A reciprocal undoes itself.
LEMMA ReciprocalTwice ==
  ASSUME NEW x \in Fraction, x # Zero
  PROVE  Reciprocal(Reciprocal(x)) = x
<1>1. Reciprocal(x) \in Fraction /\ x ** Reciprocal(x) = One /\ x \in Num /\ Reciprocal(x) \in Num
  BY ReciprocalTyped, NumCases
<1>2. Reciprocal(x) ** x = One
  BY <1>1, NumLaws
<1> QED  BY <1>1, <1>2, ReciprocalUnique

\* The sign of a fraction is that of its numerator.
LEMMA SignOfRational ==
  ASSUME NEW n \in Int, NEW d \in Int, d > 0
  PROVE  /\ Rational(n, d) \in Fraction
         /\ Rational(n, d)[1] >= 0 <=> n >= 0
         /\ Rational(n, d)[1] > 0 <=> n > 0
         /\ Absolute(Rational(n, d)) = Rational(Magnitude(n), d)
<1> DEFINE x == Rational(n, d)
<1>1. d \in NonZero
  BY DEF NonZero
<1>2. x \in Fraction /\ x[1] * d = n * x[2]
  BY <1>1, RationalTyped
<1> HIDE DEF x
<1>3. x[1] \in Int /\ x[2] \in Int /\ x[2] > 0
  BY <1>2, FractionShape
<1>4. (x[1] >= 0 <=> n >= 0) /\ (x[1] > 0 <=> n > 0)
  <2>1. \A i \in Int, k \in Int : k > 0 =>
          (i >= 0 <=> i * k >= 0) /\ (i > 0 <=> i * k > 0)
    OBVIOUS
  <2>2. (x[1] >= 0 <=> x[1] * d >= 0) /\ (n >= 0 <=> n * x[2] >= 0)
    BY <1>3, <2>1
  <2>3. (x[1] > 0 <=> x[1] * d > 0) /\ (n > 0 <=> n * x[2] > 0)
    BY <1>3, <2>1
  <2> QED  BY <1>2, <2>2, <2>3
<1>5. Absolute(x) = Rational(Magnitude(n), d)
  <2>1. CASE n >= 0
    <3>1. Absolute(x) = x
      BY <1>2, <1>3, <1>4, <2>1, AbsoluteValue
    <3> QED  BY <2>1, <3>1 DEF x, Magnitude
  <2>2. CASE n < 0
    <3>1. Absolute(x) = Minus(x)
      BY <1>2, <1>3, <1>4, <2>2, AbsoluteValue
    <3>2. Minus(x) = Rational(-n, d)
      BY <1>1, SignsOfFractions DEF x
    <3> QED  BY <2>2, <3>1, <3>2 DEF Magnitude
  <2> QED  BY <2>1, <2>2
<1> QED  BY <1>2, <1>4, <1>5 DEF x

\* Multipliers of units: their products, quotients and reciprocals are
\* multipliers too, and none is zero or NaN.
LEMMA PositiveFacts ==
  ASSUME NEW x \in Positive, NEW y \in Positive
  PROVE  /\ x \in Fraction /\ x \in Num /\ x # Zero /\ x # NaN
         /\ Absolute(x) = x
         /\ x ** y \in Positive /\ Reciprocal(x) \in Positive
         /\ x // y \in Positive /\ One \in Positive
<1>1. One \in Positive
  BY Constants DEF Positive
<1>2. \A p \in Positive :
        /\ p \in Fraction /\ p[1] \in Int /\ p[1] > 0 /\ p[2] \in Int /\ p[2] > 0 /\ p # Zero
        /\ p \in Num
  <2> TAKE p \in Positive
  <2>1. p \in Fraction /\ p[1] > 0
    BY DEF Positive
  <2>2. p[1] \in Int /\ p[2] \in Int /\ p[2] > 0
    BY <2>1, FractionShape
  <2>3. p # Zero
    BY <2>1, <2>2, IsZero
  <2> QED  BY <2>1, <2>2, <2>3, NumCases
<1>3. \A p, q \in Positive : p ** q \in Positive
  <2> TAKE p, q \in Positive
  <2>1. /\ p[1] \in Int /\ p[1] > 0 /\ p[2] \in Int /\ p[2] > 0
        /\ q[1] \in Int /\ q[1] > 0 /\ q[2] \in Int /\ q[2] > 0
        /\ p \in Fraction /\ q \in Fraction
    BY <1>2
  <2>2. p ** q = Rational(p[1] * q[1], p[2] * q[2])
    BY <2>1, OnFractions
  <2>3. /\ p[1] * q[1] \in Int /\ p[2] * q[2] \in Int
        /\ p[1] * q[1] > 0 /\ p[2] * q[2] > 0
    BY <2>1
  <2> QED  BY <2>2, <2>3, SignOfRational DEF Positive
<1>4. \A p \in Positive : Reciprocal(p) \in Positive
  <2> TAKE p \in Positive
  <2>1. p \in Fraction /\ p # Zero /\ One \in Fraction /\ One[1] = 1 /\ One[2] = 1
    BY <1>2, Constants
  <2>2. One // p = Rational(1 * p[2], 1 * p[1])
    BY <2>1, OnFractions
  <2>3. 1 * p[2] = p[2] /\ 1 * p[1] = p[1]
    BY <1>2
  <2>4. Rational(p[2], p[1]) \in Positive
    BY <1>2, SignOfRational DEF Positive
  <2> QED  BY <2>2, <2>3, <2>4 DEF Reciprocal
<1>5. x // y \in Positive
  BY <1>2, <1>3, <1>4, NumQuotient
<1>6. Absolute(x) = x
  BY <1>2, AbsoluteValue
<1> QED  BY <1>1, <1>2, <1>3, <1>4, <1>5, <1>6, NumCases

\* Absolute values.
LEMMA AbsoluteTimes ==
  ASSUME NEW x \in Num, NEW y \in Num
  PROVE  Absolute(x ** y) = Absolute(x) ** Absolute(y)
<1>1. CASE x \in Fraction /\ y \in Fraction
  <2>1. /\ x[1] \in Int /\ x[2] \in Int /\ x[2] > 0 /\ x[2] \in NonZero
        /\ y[1] \in Int /\ y[2] \in Int /\ y[2] > 0 /\ y[2] \in NonZero
        /\ x = Rational(x[1], x[2]) /\ y = Rational(y[1], y[2])
    BY <1>1, FractionShape
  <2>2. x ** y = Rational(x[1] * y[1], x[2] * y[2])
    BY <1>1, OnFractions
  <2>3. x[1] * y[1] \in Int /\ x[2] * y[2] \in Int /\ x[2] * y[2] > 0
    BY <2>1
  <2>4. Absolute(x ** y) = Rational(Magnitude(x[1] * y[1]), x[2] * y[2])
    BY <2>2, <2>3, SignOfRational
  <2>5. /\ Absolute(x) = Rational(Magnitude(x[1]), x[2])
        /\ Absolute(y) = Rational(Magnitude(y[1]), y[2])
    <3>1. Absolute(Rational(x[1], x[2])) = Rational(Magnitude(x[1]), x[2])
      BY <2>1, SignOfRational
    <3>2. Absolute(Rational(y[1], y[2])) = Rational(Magnitude(y[1]), y[2])
      BY <2>1, SignOfRational
    <3> QED  BY <2>1, <3>1, <3>2
  <2>6. Magnitude(x[1]) \in Int /\ Magnitude(y[1]) \in Int
    BY <2>1, MagnitudeFacts
  <2>7. Absolute(x) ** Absolute(y)
          = Rational(Magnitude(x[1]) * Magnitude(y[1]), x[2] * y[2])
    BY <2>1, <2>5, <2>6, TimesFractions
  <2>8. Magnitude(x[1] * y[1]) = Magnitude(x[1]) * Magnitude(y[1])
    <3>1. \A i, j \in Int : i >= 0 /\ j >= 0 => i * j >= 0
      OBVIOUS
    <3>2. \A i, j \in Int : i >= 0 /\ j < 0 => i * j <= 0 /\ i * (-j) = -(i * j)
      OBVIOUS
    <3>3. \A i, j \in Int : i < 0 /\ j >= 0 => i * j <= 0 /\ (-i) * j = -(i * j)
      OBVIOUS
    <3>4. \A i, j \in Int : i < 0 /\ j < 0 => i * j > 0 /\ (-i) * (-j) = i * j
      OBVIOUS
    <3>5. CASE x[1] >= 0 /\ y[1] >= 0
      BY <2>1, <2>3, <3>1, <3>5 DEF Magnitude
    <3>6. CASE x[1] >= 0 /\ y[1] < 0
      <4>1. x[1] * y[1] <= 0 /\ x[1] * (-y[1]) = -(x[1] * y[1])
        BY <2>1, <3>2, <3>6
      <4> QED  BY <2>1, <2>3, <3>6, <4>1 DEF Magnitude
    <3>7. CASE x[1] < 0 /\ y[1] >= 0
      <4>1. x[1] * y[1] <= 0 /\ (-x[1]) * y[1] = -(x[1] * y[1])
        BY <2>1, <3>3, <3>7
      <4> QED  BY <2>1, <2>3, <3>7, <4>1 DEF Magnitude
    <3>8. CASE x[1] < 0 /\ y[1] < 0
      <4>1. x[1] * y[1] > 0 /\ (-x[1]) * (-y[1]) = x[1] * y[1]
        BY <2>1, <3>4, <3>8
      <4> QED  BY <2>1, <2>3, <3>8, <4>1 DEF Magnitude
    <3> QED  BY <2>1, <3>5, <3>6, <3>7, <3>8
  <2> QED  BY <2>4, <2>7, <2>8
<1>2. CASE x = NaN
  BY <1>2, NumClosure, NaNAbsorbs
<1>3. CASE y = NaN
  BY <1>3, NumClosure, NaNAbsorbs
<1> QED  BY <1>1, <1>2, <1>3 DEF Num

\* An absolute value is its own, that of the negative, and zero only of zero.
LEMMA AbsoluteFacts ==
  ASSUME NEW x \in Num
  PROVE  /\ Absolute(x) \in Num /\ Absolute(Absolute(x)) = Absolute(x)
         /\ Absolute(Minus(x)) = Absolute(x)
         /\ Absolute(x) = Zero <=> x = Zero
         /\ Absolute(x) \in Fraction <=> x \in Fraction
<1>1. CASE x = NaN
  BY <1>1, NaNAbsorbs, NumCases
<1>2. CASE x \in Fraction
  <2>1. /\ x = <<x[1], x[2]>> /\ x[1] \in Int /\ x[2] \in Int
    BY <1>2, FractionShape
  <2>2. /\ Magnitude(x[1]) \in Int /\ Magnitude(-x[1]) = Magnitude(x[1])
        /\ Magnitude(Magnitude(x[1])) = Magnitude(x[1])
        /\ Magnitude(x[1]) = 0 <=> x[1] = 0
    BY <2>1 DEF Magnitude
  <2>3. Absolute(Absolute(x)) = Absolute(x) /\ Absolute(Minus(x)) = Absolute(x)
    BY <2>1, <2>2 DEF Absolute, Minus
  <2>4. Absolute(x) \in Fraction
    BY <1>2, AbsoluteValue
  <2>5. Absolute(x) = Zero <=> x = Zero
    <3>1. Absolute(x) = Zero <=> Absolute(x)[1] = 0
      BY <2>4, IsZero
    <3>2. Absolute(x)[1] = Magnitude(x[1])
      BY DEF Absolute
    <3> QED  BY <1>2, <2>2, <3>1, <3>2, IsZero
  <2> QED  BY <1>2, <2>3, <2>4, <2>5, NumCases
<1> QED  BY <1>1, <1>2 DEF Num

\* A sum of absolute values is an absolute value.
LEMMA AbsoluteSum ==
  ASSUME NEW x \in Num, NEW y \in Num
  PROVE  Absolute(Absolute(x) ++ Absolute(y)) = Absolute(x) ++ Absolute(y)
<1>1. CASE x \in Fraction /\ y \in Fraction
  <2> DEFINE p == Absolute(x)
             q == Absolute(y)
  <2>1. p \in Fraction /\ p[1] >= 0 /\ q \in Fraction /\ q[1] >= 0
    BY <1>1, AbsoluteValue
  <2> HIDE DEF p, q
  <2>2. /\ p[1] \in Int /\ p[2] \in Int /\ p[2] > 0 /\ q[1] \in Int /\ q[2] \in Int /\ q[2] > 0
    BY <2>1, FractionShape
  <2>3. p ++ q = Rational(p[1] * q[2] + q[1] * p[2], p[2] * q[2])
    BY <2>1, OnFractions
  <2>4. /\ p[1] * q[2] + q[1] * p[2] \in Int /\ p[1] * q[2] + q[1] * p[2] >= 0
        /\ p[2] * q[2] \in Int /\ p[2] * q[2] > 0
    <3>1. p[1] * q[2] >= 0 /\ q[1] * p[2] >= 0 /\ p[2] * q[2] > 0
      BY <2>1, <2>2
    <3> QED  BY <2>2, <3>1
  <2>5. p ++ q \in Fraction /\ (p ++ q)[1] >= 0
    BY <2>3, <2>4, SignOfRational
  <2>6. (p ++ q)[1] \in Int
    BY <2>5, FractionShape
  <2>7. Absolute(p ++ q) = p ++ q
    BY <2>5, <2>6, AbsoluteValue
  <2> QED  BY <2>7 DEF p, q
<1>2. CASE x = NaN \/ y = NaN
  BY <1>2, NumClosure, NaNAbsorbs
<1> QED  BY <1>1, <1>2 DEF Num

\* The absolute value goes through a reciprocal.
LEMMA AbsoluteReciprocal ==
  ASSUME NEW x \in Num
  PROVE  Absolute(Reciprocal(x)) = Reciprocal(Absolute(x))
<1>1. CASE x \in Fraction /\ x # Zero
  <2>1. x ** Reciprocal(x) = One /\ Reciprocal(x) \in Num /\ Absolute(x) \in Fraction
    BY <1>1, ReciprocalTyped, AbsoluteFacts
  <2>2. Absolute(x) ** Absolute(Reciprocal(x)) = Absolute(One)
    BY <2>1, AbsoluteTimes
  <2>3. Absolute(One) = One
    <3>1. One \in Positive
      BY Constants DEF Positive
    <3> QED  BY <3>1, PositiveFacts
  <2>4. Absolute(Reciprocal(x)) \in Num
    BY <2>1, AbsoluteFacts
  <2> QED  BY <2>1, <2>2, <2>3, <2>4, ReciprocalUnique
<1>2. CASE ~(x \in Fraction /\ x # Zero)
  <2>1. Reciprocal(x) = NaN
    BY <1>2, ReciprocalTyped
  <2>2. Absolute(x) \in Num /\ ~(Absolute(x) \in Fraction /\ Absolute(x) # Zero)
    BY <1>2, AbsoluteFacts
  <2>3. Reciprocal(Absolute(x)) = NaN
    BY <2>2, ReciprocalTyped
  <2> QED  BY <2>1, <2>3, NaNAbsorbs
<1> QED  BY <1>1, <1>2

\* The order of numbers.
LEMMA OrderOfNumbers ==
  ASSUME NEW x \in Fraction, NEW y \in Fraction
  PROVE  /\ AtMost(Zero, x) <=> x[1] >= 0
         /\ AtMost(x, Zero) <=> AtMost(Zero, Minus(x))
         /\ AtMost(x, y) <=> AtMost(Zero, y -- x)
         /\ Less(x, y) <=> ~AtMost(y, x)
<1>1. /\ x = Rational(x[1], x[2]) /\ x[1] \in Int /\ x[2] \in Int /\ x[2] > 0 /\ x[2] \in NonZero
      /\ y = Rational(y[1], y[2]) /\ y[1] \in Int /\ y[2] \in Int /\ y[2] > 0 /\ y[2] \in NonZero
      /\ IsNumber(x) /\ IsNumber(y)
  BY FractionShape
<1>2. \A z \in Fraction : AtMost(Zero, z) <=> z[1] >= 0
  <2> TAKE z \in Fraction
  <2>1. z[1] \in Int /\ z[2] \in Int /\ IsNumber(z) /\ IsNumber(Zero)
    BY FractionShape, Constants
  <2>2. Zero[1] = 0 /\ Zero[2] = 1
    BY Constants
  <2>3. AtMost(Zero, z) <=> 0 * z[2] <= z[1] * 1
    BY <2>1, <2>2 DEF AtMost
  <2> QED  BY <2>1, <2>3
<1>3. AtMost(x, y) <=> x[1] * y[2] <= y[1] * x[2]
  BY <1>1 DEF AtMost
<1>4. AtMost(y, x) <=> y[1] * x[2] <= x[1] * y[2]
  BY <1>1 DEF AtMost
<1>5. AtMost(x, y) <=> AtMost(Zero, y -- x)
  <2>1. Minus(x) = Rational(-x[1], x[2]) /\ -x[1] \in Int
    BY <1>1, OnFractions
  <2>2. y -- x = Rational(y[1] * x[2] + (-x[1]) * y[2], y[2] * x[2])
    <3>1. Rational(y[1], y[2]) ++ Rational(-x[1], x[2])
            = Rational(y[1] * x[2] + (-x[1]) * y[2], y[2] * x[2])
      BY <1>1, <2>1, PlusFractions
    <3> QED  BY <1>1, <2>1, <3>1 DEF --
  <2>3. /\ y[1] * x[2] + (-x[1]) * y[2] \in Int /\ y[2] * x[2] \in Int /\ y[2] * x[2] > 0
        /\ y[1] * x[2] + (-x[1]) * y[2] = y[1] * x[2] - x[1] * y[2]
    BY <1>1
  <2>4. /\ y -- x \in Fraction
        /\ (y -- x)[1] >= 0 <=> y[1] * x[2] + (-x[1]) * y[2] >= 0
    BY <2>2, <2>3, SignOfRational
  <2>5. y[1] * x[2] - x[1] * y[2] >= 0 <=> x[1] * y[2] <= y[1] * x[2]
    BY <1>1
  <2> QED  BY <1>2, <1>3, <2>3, <2>4, <2>5
<1>6. AtMost(x, Zero) <=> AtMost(Zero, Minus(x))
  <2>1. Minus(x) \in Fraction /\ Minus(x)[1] = -x[1]
    BY FractionClosure DEF Minus
  <2>2. Zero[1] = 0 /\ Zero[2] = 1 /\ IsNumber(Zero)
    BY Constants, FractionShape
  <2>3. AtMost(x, Zero) <=> x[1] * 1 <= 0 * x[2]
    BY <1>1, <2>2 DEF AtMost
  <2> QED  BY <1>1, <1>2, <2>1, <2>3
<1>7. Less(x, y) <=> ~AtMost(y, x)
  <2>1. x[1] * y[2] = y[1] * x[2] => x = y
    BY <1>1, SameFraction
  <2>2. x[1] * y[2] \in Int /\ y[1] * x[2] \in Int
    BY <1>1
  <2> QED  BY <1>3, <1>4, <2>1, <2>2 DEF Less
<1> QED  BY <1>2, <1>5, <1>6, <1>7

\* A positive factor keeps the sign.
LEMMA OrderScales ==
  ASSUME NEW x \in Fraction, NEW k \in Positive
  PROVE  AtMost(Zero, k ** x) <=> AtMost(Zero, x)
<1>1. k \in Fraction /\ k[1] > 0
  BY DEF Positive
<1>2. /\ k[1] \in Int /\ k[2] \in Int /\ k[2] > 0
      /\ x[1] \in Int /\ x[2] \in Int /\ x[2] > 0
  BY <1>1, FractionShape
<1>3. k ** x = Rational(k[1] * x[1], k[2] * x[2])
  BY <1>1, OnFractions
<1>4. k[1] * x[1] \in Int /\ k[2] * x[2] \in Int /\ k[2] * x[2] > 0
  BY <1>2
<1>5. k ** x \in Fraction /\ ((k ** x)[1] >= 0 <=> k[1] * x[1] >= 0)
  BY <1>3, <1>4, SignOfRational
<1>6. k[1] * x[1] >= 0 <=> x[1] >= 0
  BY <1>1, <1>2
<1> QED  BY <1>5, <1>6, OrderOfNumbers

(***************************************************************************)
(* Powers.                                                                 *)
(***************************************************************************)
LEMMA TimesOfPairs ==
  ASSUME NEW x \in Int \X Int, NEW y \in Int \X Int
  PROVE  x ** y \in Int \X Int
<1>1. \A n, d \in Int : Rational(n, d)[1] \in Int /\ Rational(n, d)[2] \in Int
                        /\ Rational(n, d) \in Int \X Int
  <2> TAKE n, d \in Int
  <2>1. CASE d = 0
    BY <2>1 DEF Rational, NaN
  <2>2. CASE d # 0
    <3>1. d \in NonZero
      BY <2>2 DEF NonZero
    <3>2. Rational(n, d) \in Fraction
      BY <3>1, RationalTyped
    <3> QED  BY <3>2, FractionShape DEF Fraction
  <2> QED  BY <2>1, <2>2
<1> DEFINE p == Rational(x[1], y[2])
           q == Rational(y[1], x[2])
<1>2. p[1] \in Int /\ p[2] \in Int /\ q[1] \in Int /\ q[2] \in Int
  BY <1>1
<1>3. x ** y = Rational(p[1] * q[1], p[2] * q[2])
  BY DEF **, Across
<1> HIDE DEF p, q
<1>4. p[1] * q[1] \in Int /\ p[2] * q[2] \in Int
  BY <1>2
<1> QED  BY <1>1, <1>3, <1>4

\* Power is repeated multiplication: the equation it is defined by has a
\* solution, which the choice of the recursive function takes.
LEMMA PowerEquation ==
  ASSUME NEW x \in Int \X Int
  PROVE  /\ Power[<<x, 0>>] = One
         /\ \A n \in Nat : Power[<<x, n + 1>>] = x ** Power[<<x, n>>]
<1> DEFINE V == Int \X Int
           G(y) == [q \in Nat \X V |-> y ** q[2]]
           g(y) == CHOOSE f : IsSequence(f, V, One, G(y))
           F == [p \in V \X Nat |-> g(p[1])[p[2]]]
<1>1. One \in V
  BY Constants
<1>2. ASSUME NEW y \in V
      PROVE  /\ g(y) \in [Nat -> V] /\ g(y)[0] = One
             /\ \A n \in Nat : g(y)[n + 1] = y ** g(y)[n]
  <2>1. \A q \in Nat \X V : q[2] \in V /\ y ** q[2] \in V
    BY TimesOfPairs
  <2>2. G(y) \in [Nat \X V -> V]
    BY <2>1
  <2>3. \A n \in Nat, z \in V : G(y)[<<n, z>>] = y ** z
    OBVIOUS
  <2> DEFINE H == G(y)
  <2>4. H \in [Nat \X V -> V]
    BY <2>2
  <2>5. \A n \in Nat, z \in V : H[<<n, z>>] = y ** z
    BY <2>3
  <2> HIDE DEF G
  <2>6. IsSequence(g(y), V, One, H)
    <3> HIDE DEF H, V
    <3>1. \E f : IsSequence(f, V, One, H)
      BY <1>1, <2>4, RecursiveSequence
    <3> QED  BY <3>1 DEF H
  <2> DEFINE h == g(y)
  <2>7. IsSequence(h, V, One, H)
    BY <2>6
  <2> HIDE DEF g, H, V
  <2>8. /\ h \in [Nat -> V] /\ h[0] = One
        /\ \A n \in Nat : h[n + 1] = H[<<n, h[n]>>]
    BY <2>7 DEF IsSequence
  <2>9. \A n \in Nat : h[n] \in V
    BY <2>8
  <2>10. \A n \in Nat : h[n + 1] = y ** h[n]
    BY <2>5, <2>8, <2>9
  <2> QED  BY <2>8, <2>10
<1> HIDE DEF g, G
<1>3. \A y \in V, n \in Nat : F[<<y, n>>] = g(y)[n]
  OBVIOUS
<1>4. \A p \in V \X Nat :
        F[p] = IF p[2] = 0 THEN Whole(1) ELSE p[1] ** F[<<p[1], p[2] - 1>>]
  <2> TAKE p \in V \X Nat
  <2>1. p[1] \in V /\ p[2] \in Nat /\ F[p] = g(p[1])[p[2]]
    OBVIOUS
  <2>2. CASE p[2] = 0
    BY <1>2, <2>1, <2>2 DEF One
  <2>3. CASE p[2] # 0
    <3>1. p[2] - 1 \in Nat /\ (p[2] - 1) + 1 = p[2]
      BY <2>1, <2>3
    <3>2. F[<<p[1], p[2] - 1>>] = g(p[1])[p[2] - 1]
      BY <1>3, <2>1, <3>1
    <3>3. g(p[1])[(p[2] - 1) + 1] = p[1] ** g(p[1])[p[2] - 1]
      BY <1>2, <2>1, <3>1
    <3> QED  BY <2>1, <2>3, <3>1, <3>2, <3>3
  <2> QED  BY <2>2, <2>3
<1>5. F = [p \in V \X Nat |-> IF p[2] = 0 THEN Whole(1) ELSE p[1] ** F[<<p[1], p[2] - 1>>]]
  <2>1. F = [p \in V \X Nat |-> F[p]]
    OBVIOUS
  <2> HIDE DEF F, V
  <2> QED  BY <1>4, <2>1
<1> HIDE DEF F
<1>6. Power = [p \in V \X Nat |->
                 IF p[2] = 0 THEN Whole(1) ELSE p[1] ** Power[<<p[1], p[2] - 1>>]]
  BY <1>5 DEF Power
<1>7. \A y \in V, n \in Nat :
        Power[<<y, n>>] = IF n = 0 THEN Whole(1) ELSE y ** Power[<<y, n - 1>>]
  <2> TAKE y \in V, n \in Nat
  <2>1. <<y, n>> \in V \X Nat /\ <<y, n>>[1] = y /\ <<y, n>>[2] = n
    OBVIOUS
  <2> HIDE DEF V
  <2> QED  BY <1>6, <2>1
<1>8. \A n \in Nat : n + 1 \in Nat /\ n + 1 # 0 /\ (n + 1) - 1 = n
  OBVIOUS
<1>9. Power[<<x, 0>>] = One
  BY <1>7 DEF One
<1>10. ASSUME NEW n \in Nat PROVE Power[<<x, n + 1>>] = x ** Power[<<x, n>>]
  <2>1. Power[<<x, n + 1>>]
          = IF n + 1 = 0 THEN Whole(1) ELSE x ** Power[<<x, (n + 1) - 1>>]
    BY <1>7, <1>8
  <2> QED  BY <1>8, <2>1
<1> QED  BY <1>9, <1>10

\* The powers that a client takes are the square and the reciprocal.
LEMMA IntegerPowers ==
  ASSUME NEW x \in Num
  PROVE  IntegerPower(x, 2) = x ** x /\ IntegerPower(x, -1) = Reciprocal(x)
<1>1. x \in Int \X Int
  BY NumShape
<1>2. Power[<<x, 0>>] = One /\ \A n \in Nat : Power[<<x, n + 1>>] = x ** Power[<<x, n>>]
  BY <1>1, PowerEquation
<1>3. Power[<<x, 1>>] = x
  <2>1. Power[<<x, 0 + 1>>] = x ** Power[<<x, 0>>] /\ 0 + 1 = 1
    BY <1>2
  <2> QED  BY <1>2, <2>1, NumUnits
<1>4. Power[<<x, 2>>] = x ** x
  <2>1. Power[<<x, 1 + 1>>] = x ** Power[<<x, 1>>] /\ 1 + 1 = 2
    BY <1>2
  <2> QED  BY <1>3, <2>1
<1>5. -1 < 0 /\ -(-1) = 1 /\ ~(2 < 0)
  <2>1. \A i \in Int : -(-i) = i
    OBVIOUS
  <2>2. -(-1) = 1
    <3>1. 1 \in Int
      OBVIOUS
    <3> QED  BY <2>1, <3>1
  <2>3. -1 < 0 /\ ~(2 < 0)
    OBVIOUS
  <2> QED  BY <2>2, <2>3
<1> QED  BY <1>3, <1>4, <1>5 DEF IntegerPower, Reciprocal, One

(***************************************************************************)
(* Differences.                                                            *)
(***************************************************************************)
LEMMA MinusTwice ==
  ASSUME NEW x \in Num PROVE Minus(Minus(x)) = x
<1>1. x = <<x[1], x[2]>> /\ x[1] \in Int
  BY NumShape
<1>2. \A i \in Int : -(-i) = i
  OBVIOUS
<1> QED  BY <1>1, <1>2 DEF Minus

\* The negative goes through a sum and through either factor of a product.
LEMMA MinusLaws ==
  ASSUME NEW x \in Num, NEW y \in Num
  PROVE  /\ Minus(x ++ y) = Minus(x) ++ Minus(y)
         /\ Minus(x ** y) = x ** Minus(y)
         /\ Minus(x ** y) = Minus(x) ** y
<1> DEFINE M == Minus(One)
<1>1. M \in Num
  BY NumCases, NumClosure
<1>2. \A z \in Num : Minus(z) = M ** z
  BY NumUnits
<1> HIDE DEF M
<1>3. x ++ y \in Num /\ x ** y \in Num
  BY NumClosure
<1>4. M ** (x ++ y) = (M ** x) ++ (M ** y)
  BY <1>1, NumLaws
<1>5. M ** (x ** y) = (M ** x) ** y
  BY <1>1, NumLaws
<1>6. M ** x = x ** M
  BY <1>1, NumLaws
<1>7. (x ** M) ** y = x ** (M ** y)
  BY <1>1, NumLaws
<1> QED  BY <1>2, <1>3, <1>4, <1>5, <1>6, <1>7

\* A difference is scaled, taken from and turned like one of real numbers.
LEMMA DifferenceLaws ==
  ASSUME NEW x \in Num, NEW y \in Num, NEW z \in Num
  PROVE  /\ z ** (x -- y) = (z ** x) -- (z ** y)
         /\ (x -- y) -- z = x -- (y ++ z)
         /\ Minus(x -- y) = y -- x
         /\ Zero -- (x -- y) = y -- x
         /\ Zero -- x = Minus(x)
<1>1. \A p \in Num : Minus(p) \in Num
  BY NumClosure
<1>2. z ** (x -- y) = (z ** x) -- (z ** y)
  <2>1. z ** (x ++ Minus(y)) = (z ** x) ++ (z ** Minus(y))
    BY <1>1, NumLaws
  <2> QED  BY <2>1, MinusLaws DEF --
<1>3. (x -- y) -- z = x -- (y ++ z)
  <2>1. (x ++ Minus(y)) ++ Minus(z) = x ++ (Minus(y) ++ Minus(z))
    BY <1>1, NumLaws
  <2> QED  BY <2>1, MinusLaws DEF --
<1>4. Minus(x -- y) = y -- x
  <2>1. Minus(x ++ Minus(y)) = Minus(x) ++ Minus(Minus(y))
    BY <1>1, MinusLaws
  <2>2. Minus(x) ++ y = y ++ Minus(x)
    BY <1>1, NumLaws
  <2> QED  BY <2>1, <2>2, MinusTwice DEF --
<1>5. \A p \in Num : Zero -- p = Minus(p)
  BY <1>1, NumUnits DEF --
<1>6. x -- y \in Num
  BY NumClosure
<1> QED  BY <1>2, <1>3, <1>4, <1>5, <1>6

\* Adding and taking away a number that is one changes nothing.
LEMMA AddAndTake ==
  ASSUME NEW x \in Num, NEW y \in Fraction
  PROVE  (x ++ y) -- y = x
<1>1. y \in Num /\ Minus(y) \in Num
  BY NumCases, NumClosure
<1>2. (x ++ y) ++ Minus(y) = x ++ (y ++ Minus(y))
  BY <1>1, NumLaws
<1> QED  BY <1>2, FractionUnits, NumUnits DEF --

(***************************************************************************)
(* Quotients.                                                              *)
(***************************************************************************)
LEMMA QuotientLaws ==
  ASSUME NEW x \in Num, NEW y \in Num, NEW z \in Num
  PROVE  /\ (x // y) // z = x // (y ** z)
         /\ (x ** y) // z = x ** (y // z)
         /\ z ** (x // y) = (z ** x) // y
<1>1. Reciprocal(y) \in Num /\ Reciprocal(z) \in Num /\ y ** z \in Num /\ x ** y \in Num
      /\ x // y \in Num /\ z ** x \in Num
  BY ReciprocalTyped, NumClosure
<1>2. (x // y) // z = x // (y ** z)
  <2>1. (x // y) // z = (x ** Reciprocal(y)) ** Reciprocal(z)
    BY <1>1, NumQuotient
  <2>2. x // (y ** z) = x ** (Reciprocal(y) ** Reciprocal(z))
    BY <1>1, NumQuotient, ReciprocalTimes
  <2> QED  BY <1>1, <2>1, <2>2, NumLaws
<1>3. (x ** y) // z = x ** (y // z)
  BY <1>1, NumQuotient, NumLaws
<1>4. z ** (x // y) = (z ** x) // y
  BY <1>1, NumQuotient, NumLaws
<1> QED  BY <1>2, <1>3, <1>4

\* Ratios of positive numbers.
LEMMA RatioLaws ==
  ASSUME NEW x \in Positive, NEW y \in Positive, NEW z \in Positive
  PROVE  /\ x // x = One
         /\ (x // y) ** (y // z) = x // z
         /\ (z ** x) // (z ** y) = x // y
         /\ (z // x) // (z // y) = y // x
<1>1. /\ x \in Num /\ y \in Num /\ z \in Num /\ One \in Num
      /\ x \in Fraction /\ x # Zero /\ y \in Fraction /\ y # Zero /\ z \in Fraction /\ z # Zero
  BY PositiveFacts
<1> DEFINE rx == Reciprocal(x)
           ry == Reciprocal(y)
           rz == Reciprocal(z)
<1>2. /\ rx \in Num /\ ry \in Num /\ rz \in Num
      /\ x ** rx = One /\ y ** ry = One /\ z ** rz = One
  BY <1>1, ReciprocalTyped
<1>3. x // x = x ** rx /\ x // y = x ** ry /\ y // z = y ** rz /\ x // z = x ** rz
      /\ z // x = z ** rx /\ z // y = z ** ry /\ y // x = y ** rx
  BY <1>1, NumQuotient
<1>4. /\ (z ** x) // (z ** y) = (z ** x) ** (rz ** ry)
      /\ (z // x) // (z // y) = (z ** rx) ** (rz ** y)
  <2>1. /\ z ** x \in Num /\ z ** y \in Num /\ z ** rx \in Num /\ z ** ry \in Num
    BY <1>1, <1>2, NumClosure
  <2>2. Reciprocal(z ** y) = rz ** ry /\ Reciprocal(z ** ry) = rz ** Reciprocal(ry)
    BY <1>1, <1>2, ReciprocalTimes
  <2>3. Reciprocal(ry) = y
    BY <1>1, ReciprocalTwice
  <2> QED  BY <1>3, <2>1, <2>2, <2>3, NumQuotient
<1> HIDE DEF rx, ry, rz
\* Two pairs of factors trade partners.
<1>5. \A a, b, c, d \in Num : (a ** b) ** (c ** d) = (a ** c) ** (b ** d)
  <2> TAKE a, b, c, d \in Num
  <2>1. c ** d \in Num /\ b ** d \in Num
    BY NumClosure
  <2>2. (a ** b) ** (c ** d) = a ** (b ** (c ** d))
    BY <2>1, NumLaws
  <2>3. b ** (c ** d) = (b ** c) ** d /\ b ** c = c ** b /\ (c ** b) ** d = c ** (b ** d)
    BY NumLaws
  <2>4. a ** (c ** (b ** d)) = (a ** c) ** (b ** d)
    BY <2>1, NumLaws
  <2> QED  BY <2>2, <2>3, <2>4
<1>6. (x ** ry) ** (y ** rz) = x ** rz
  <2>1. ry ** y = One
    BY <1>1, <1>2, NumLaws
  <2>2. y ** rz \in Num /\ rz \in Num
    BY <1>1, <1>2, NumClosure
  <2>3. (x ** ry) ** (y ** rz) = x ** (ry ** (y ** rz))
    BY <1>1, <1>2, <2>2, NumLaws
  <2>4. ry ** (y ** rz) = (ry ** y) ** rz
    BY <1>1, <1>2, NumLaws
  <2> QED  BY <1>2, <2>1, <2>3, <2>4, NumUnits
<1>7. (z ** x) ** (rz ** ry) = x ** ry
  <2>1. (z ** x) ** (rz ** ry) = (z ** rz) ** (x ** ry)
    BY <1>1, <1>2, <1>5
  <2>2. x ** ry \in Num
    BY <1>1, <1>2, NumClosure
  <2> QED  BY <1>2, <2>1, <2>2, NumUnits
<1>8. (z ** rx) ** (rz ** y) = y ** rx
  <2>1. (z ** rx) ** (rz ** y) = (z ** rz) ** (rx ** y)
    BY <1>1, <1>2, <1>5
  <2>2. rx ** y \in Num /\ rx ** y = y ** rx
    BY <1>1, <1>2, NumClosure, NumLaws
  <2> QED  BY <1>2, <2>1, <2>2, NumUnits
<1> QED  BY <1>2, <1>3, <1>4, <1>6, <1>7, <1>8

(***************************************************************************)
(* Uncertainties.                                                          *)
(***************************************************************************)
\* Four factors, the inner two exchanged.
LEMMA Interchange ==
  ASSUME NEW x \in Num, NEW y \in Num, NEW z \in Num, NEW w \in Num
  PROVE  (x ** y) ** (z ** w) = (x ** z) ** (y ** w)
<1>1. z ** w \in Num /\ y ** w \in Num
  BY NumClosure
<1>2. (x ** y) ** (z ** w) = x ** (y ** (z ** w))
  BY <1>1, NumLaws
<1>3. y ** (z ** w) = (y ** z) ** w /\ y ** z = z ** y /\ (z ** y) ** w = z ** (y ** w)
  BY NumLaws
<1>4. x ** (z ** (y ** w)) = (x ** z) ** (y ** w)
  BY <1>1, NumLaws
<1> QED  BY <1>2, <1>3, <1>4

\* Spread keeps fractions, zero, NaN and positive numbers what they are.
LEMMA SpreadFacts ==
  ASSUME NEW x \in Num
  PROVE  /\ Spread(x) \in Num
         /\ x \in Fraction => Spread(x) \in Fraction
         /\ (x \in Fraction /\ x # Zero) <=> (Spread(x) \in Fraction /\ Spread(x) # Zero)
         /\ x \in Positive => Spread(x) \in Positive
<1>1. CASE ~Squares
  BY <1>1 DEF Spread
<1>2. CASE Squares
  <2>0. Spread(x) = x ** Absolute(x)
    BY <1>2 DEF Spread
  <2>1. CASE x = NaN
    BY <2>0, <2>1, NumCases, NaNAbsorbs, PositiveFacts DEF Positive
  <2>2. CASE x \in Fraction
    <3>1. Absolute(x) \in Fraction /\ x \in Num /\ (Absolute(x) = Zero <=> x = Zero)
      BY <2>2, AbsoluteValue, AbsoluteFacts
    <3>2. x ** Absolute(x) \in Fraction /\ x ** Absolute(x) \in Num
      BY <2>2, <3>1, FractionClosure, NumCases
    <3>3. x ** Absolute(x) = Zero <=> x = Zero
      BY <2>2, <3>1, NoZeroDivisors
    <3>4. x \in Positive => x ** Absolute(x) \in Positive
      BY PositiveFacts
    <3> QED  BY <2>0, <2>2, <3>2, <3>3, <3>4
  <2> QED  BY <2>1, <2>2 DEF Num
<1> QED  BY <1>1, <1>2

\* The spread of a product is the product of the spreads: with squares, that
\* of the signed squares.
LEMMA SpreadTimes ==
  ASSUME NEW x \in Num, NEW y \in Num
  PROVE  Spread(x ** y) = Spread(x) ** Spread(y)
<1>1. CASE ~Squares
  BY <1>1 DEF Spread
<1>2. CASE Squares
  <2>1. Absolute(x) \in Num /\ Absolute(y) \in Num
    BY NumClosure
  <2>2. (x ** y) ** (Absolute(x) ** Absolute(y)) = (x ** Absolute(x)) ** (y ** Absolute(y))
    BY <2>1, Interchange
  <2> QED  BY <1>2, <2>2, AbsoluteTimes DEF Spread
<1> QED  BY <1>1, <1>2

\* The spread goes through a reciprocal.
LEMMA SpreadReciprocal ==
  ASSUME NEW x \in Num
  PROVE  Spread(Reciprocal(x)) = Reciprocal(Spread(x))
<1>1. CASE ~Squares
  BY <1>1 DEF Spread
<1>2. CASE Squares
  <2>1. Absolute(x) \in Num
    BY NumClosure
  <2> QED  BY <1>2, <2>1, AbsoluteReciprocal, ReciprocalTimes DEF Spread
<1> QED  BY <1>1, <1>2

\* And through a quotient.
LEMMA SpreadQuotient ==
  ASSUME NEW x \in Num, NEW y \in Num
  PROVE  Spread(x // y) = Spread(x) // Spread(y)
<1>1. Reciprocal(y) \in Num /\ Spread(x) \in Num /\ Spread(y) \in Num
  BY ReciprocalTyped, SpreadFacts
<1>2. Spread(x ** Reciprocal(y)) = Spread(x) ** Spread(Reciprocal(y))
  BY <1>1, SpreadTimes
<1> QED  BY <1>1, <1>2, SpreadReciprocal, NumQuotient

\* Uncertainties are combined in any order; none adds nothing, up to the sign,
\* and an undefined one stays undefined.
LEMMA CombinedFacts ==
  ASSUME NEW x \in Num, NEW y \in Num, NEW z \in Num
  PROVE  /\ Combined(x, y) \in Num
         /\ Combined(Combined(x, y), z) = Combined(x, Combined(y, z))
         /\ x = NaN \/ y = NaN => Combined(x, y) = NaN
         /\ Absolute(Combined(x, Zero)) = Absolute(x)
         /\ Absolute(Combined(Zero, x)) = Absolute(x)
         /\ ~Squares => (Combined(x, Zero) = x /\ Combined(Zero, x) = x)
<1>0. Zero \in Num /\ Absolute(Zero) = Zero
  BY NumCases, AbsoluteFacts
<1>1. CASE ~Squares
  <2>1. \A p, q \in Num : Combined(p, q) = p ++ q /\ p ++ q \in Num
    BY <1>1, NumClosure DEF Combined
  <2>2. Combined(Combined(x, y), z) = Combined(x, Combined(y, z))
    BY <2>1, NumLaws
  <2>3. x = NaN \/ y = NaN => Combined(x, y) = NaN
    BY <2>1, NaNAbsorbs
  <2>4. Combined(x, Zero) = x /\ Combined(Zero, x) = x
    BY <1>0, <2>1, NumUnits
  <2> QED  BY <2>1, <2>2, <2>3, <2>4
<1>2. CASE Squares
  <2>1. \A p, q \in Num : /\ Combined(p, q) = Absolute(p) ++ Absolute(q)
                          /\ Absolute(p) \in Num /\ Absolute(q) \in Num
                          /\ Absolute(p) ++ Absolute(q) \in Num
    BY <1>2, NumClosure DEF Combined
  <2>2. Combined(Combined(x, y), z) = Combined(x, Combined(y, z))
    <3>1. Combined(x, y) \in Num /\ Combined(y, z) \in Num
      BY <2>1
    <3>2. Combined(Combined(x, y), z) = Absolute(Absolute(x) ++ Absolute(y)) ++ Absolute(z)
      BY <2>1, <3>1
    <3>3. Combined(x, Combined(y, z)) = Absolute(x) ++ Absolute(Absolute(y) ++ Absolute(z))
      BY <2>1, <3>1
    <3>4. (Absolute(x) ++ Absolute(y)) ++ Absolute(z) = Absolute(x) ++ (Absolute(y) ++ Absolute(z))
      BY <2>1, NumLaws
    <3> QED  BY <3>2, <3>3, <3>4, AbsoluteSum
  <2>3. x = NaN \/ y = NaN => Combined(x, y) = NaN
    BY <2>1, NaNAbsorbs
  <2>4. Combined(x, Zero) = Absolute(x) /\ Combined(Zero, x) = Absolute(x)
    BY <1>0, <2>1, NumUnits
  <2> QED  BY <1>2, <2>1, <2>2, <2>3, <2>4, AbsoluteFacts
<1> QED  BY <1>1, <1>2

\* Uncertainties scale by a positive number before or after they are combined.
LEMMA CombinedScales ==
  ASSUME NEW x \in Num, NEW y \in Num, NEW k \in Positive
  PROVE  Combined(x, y) ** k = Combined(x ** k, y ** k)
<1>0. k \in Num /\ Absolute(k) = k
  BY PositiveFacts
<1>1. \A p, q \in Num : (p ++ q) ** k = (p ** k) ++ (q ** k)
  <2> TAKE p, q \in Num
  <2>1. p ++ q \in Num
    BY NumClosure
  <2>2. (p ++ q) ** k = k ** (p ++ q) /\ p ** k = k ** p /\ q ** k = k ** q
    BY <1>0, <2>1, NumLaws
  <2> QED  BY <1>0, <2>2, NumLaws
<1>2. CASE ~Squares
  BY <1>1, <1>2 DEF Combined
<1>3. CASE Squares
  <2>1. Absolute(x) \in Num /\ Absolute(y) \in Num
    BY NumClosure
  <2>2. Absolute(x ** k) = Absolute(x) ** k /\ Absolute(y ** k) = Absolute(y) ** k
    BY <1>0, AbsoluteTimes
  <2> QED  BY <1>1, <1>3, <2>1, <2>2 DEF Combined
<1> QED  BY <1>2, <1>3

(***************************************************************************)
(* Whether a distance is within a tolerance.                               *)
(***************************************************************************)
Within(tolerance, d) ==
  IF tolerance = Zero THEN d = Zero
  ELSE AtMost(Minus(tolerance), d) /\ AtMost(d, tolerance)

\* A distance is within a tolerance in one unit if it is in another.
LEMMA WithinScales ==
  ASSUME NEW t \in Num, NEW d \in Fraction, NEW k \in Positive
  PROVE  Within(k ** t, k ** d) <=> Within(t, d)
<1>0. k \in Num /\ k \in Fraction /\ k # Zero /\ d \in Num /\ k ** d \in Fraction
  BY PositiveFacts, NumCases, FractionClosure
<1>1. CASE t = NaN
  <2>1. k ** t = NaN /\ NaN # Zero /\ Minus(NaN) = NaN
    BY <1>0, <1>1, NaNAbsorbs, NumCases
  <2> QED  BY <1>1, <2>1 DEF Within, AtMost, IsNumber
<1>2. CASE t \in Fraction
  <2>1. /\ k ** t \in Fraction /\ Minus(t) \in Fraction /\ Minus(k ** t) = k ** Minus(t)
        /\ d -- Minus(t) \in Fraction /\ t -- d \in Fraction
        /\ Minus(k ** t) \in Fraction
    BY <1>0, <1>2, FractionClosure, MinusLaws
  <2>2. (k ** t = Zero <=> t = Zero) /\ (k ** d = Zero <=> d = Zero)
    BY <1>0, <1>2, NoZeroDivisors
  <2>3. /\ k ** (d -- Minus(t)) = (k ** d) -- (k ** Minus(t))
        /\ k ** (t -- d) = (k ** t) -- (k ** d)
    <3>1. Minus(t) \in Num /\ t \in Num
      BY <1>2, <2>1, NumCases
    <3> QED  BY <1>0, <3>1, DifferenceLaws
  <2>4. AtMost(Minus(k ** t), k ** d) <=> AtMost(Minus(t), d)
    <3>1. AtMost(Minus(k ** t), k ** d) <=> AtMost(Zero, (k ** d) -- Minus(k ** t))
      BY <1>0, <2>1, OrderOfNumbers
    <3>2. AtMost(Minus(t), d) <=> AtMost(Zero, d -- Minus(t))
      BY <2>1, OrderOfNumbers
    <3>3. AtMost(Zero, k ** (d -- Minus(t))) <=> AtMost(Zero, d -- Minus(t))
      BY <2>1, OrderScales
    <3> QED  BY <2>1, <2>3, <3>1, <3>2, <3>3
  <2>5. AtMost(k ** d, k ** t) <=> AtMost(d, t)
    <3>1. AtMost(k ** d, k ** t) <=> AtMost(Zero, (k ** t) -- (k ** d))
      BY <1>0, <2>1, OrderOfNumbers
    <3>2. AtMost(d, t) <=> AtMost(Zero, t -- d)
      BY <1>2, OrderOfNumbers
    <3>3. AtMost(Zero, k ** (t -- d)) <=> AtMost(Zero, t -- d)
      BY <2>1, OrderScales
    <3> QED  BY <2>3, <3>1, <3>2, <3>3
  <2> QED  BY <2>2, <2>4, <2>5 DEF Within
<1> QED  BY <1>1, <1>2 DEF Num

\* And from either side.
LEMMA WithinMinus ==
  ASSUME NEW t \in Num, NEW d \in Fraction
  PROVE  Within(t, Minus(d)) <=> Within(t, d)
<1>1. CASE t = NaN
  <2>1. NaN # Zero /\ Minus(NaN) = NaN
    BY NaNAbsorbs, NumCases
  <2> QED  BY <1>1, <2>1 DEF Within, AtMost, IsNumber
<1>2. CASE t \in Fraction
  <2>1. Minus(t) \in Fraction /\ Minus(d) \in Fraction /\ t \in Num /\ d \in Num
    BY <1>2, FractionClosure, NumCases
  <2>2. Minus(d) = Zero <=> d = Zero
    <3>1. Minus(d)[1] = -d[1] /\ d[1] \in Int
      BY FractionShape DEF Minus
    <3>2. -d[1] = 0 <=> d[1] = 0
      BY <3>1
    <3> QED  BY <2>1, <3>1, <3>2, IsZero
  <2>3. Minus(d) -- Minus(t) = t -- d
    <3>1. Minus(d) \in Num /\ Minus(t) \in Num
      BY <2>1, NumCases
    <3>2. Minus(d) ++ t = t ++ Minus(d)
      BY <2>1, <3>1, NumLaws
    <3> QED  BY <2>1, <3>2, MinusTwice DEF --
  <2>4. t -- Minus(d) = d -- Minus(t)
    <3>1. t ++ d = d ++ t
      BY <2>1, NumLaws
    <3> QED  BY <2>1, <3>1, MinusTwice DEF --
  <2>5. AtMost(Minus(t), Minus(d)) <=> AtMost(d, t)
    <3>1. AtMost(Minus(t), Minus(d)) <=> AtMost(Zero, Minus(d) -- Minus(t))
      BY <2>1, OrderOfNumbers
    <3>2. AtMost(d, t) <=> AtMost(Zero, t -- d)
      BY <1>2, OrderOfNumbers
    <3> QED  BY <2>3, <3>1, <3>2
  <2>6. AtMost(Minus(d), t) <=> AtMost(Minus(t), d)
    <3>1. AtMost(Minus(d), t) <=> AtMost(Zero, t -- Minus(d))
      BY <1>2, <2>1, OrderOfNumbers
    <3>2. AtMost(Minus(t), d) <=> AtMost(Zero, d -- Minus(t))
      BY <2>1, OrderOfNumbers
    <3> QED  BY <2>4, <3>1, <3>2
  <2> QED  BY <2>2, <2>5, <2>6 DEF Within
<1> QED  BY <1>1, <1>2 DEF Num

(***************************************************************************)
(* Units.                                                                  *)
(***************************************************************************)
LEMMA UnitParts ==
  ASSUME NEW u \in UnitType
  PROVE  /\ u.multiplier \in Positive /\ u.multiplier \in Num
         /\ u.base \in UnitDataType
         /\ u.base.exp \in [Base -> Int] /\ u.base.flags \in SUBSET Flag
         /\ u = unit(u.multiplier, u.base)
BY PositiveFacts DEF UnitType, UnitDataType, unit

\* Units are closed under products, quotients, inverses and powers.
LEMMA UnitsTyped ==
  ASSUME NEW u \in UnitType, NEW v \in UnitType
  PROVE  /\ UnitTimes(u, v) \in UnitType /\ UnitDivides(u, v) \in UnitType
         /\ UnitInv(u) \in UnitType
         /\ \A n \in {-1, 2} : UnitPow(u, n) \in UnitType
<1> DEFINE e == u.base.exp
           f == v.base.exp
<1>1. /\ e \in [Base -> Int] /\ u.base.flags \in SUBSET Flag
      /\ f \in [Base -> Int] /\ v.base.flags \in SUBSET Flag
      /\ u.multiplier \in Positive /\ v.multiplier \in Positive
  BY UnitParts
<1>2. Times(u.base, v.base) \in UnitDataType
  <2>1. [b \in Base |-> e[b] + f[b]] \in [Base -> Int]
    BY <1>1
  <2>2. XorOn({"i_flag"}, u.base.flags, v.base.flags) \in SUBSET Flag
    BY <1>1 DEF XorOn, Xor
  <2> QED  BY <2>1, <2>2, StoreTyped DEF Times
<1>3. Divides(u.base, v.base) \in UnitDataType
  <2>1. [b \in Base |-> e[b] - f[b]] \in [Base -> Int]
    BY <1>1
  <2>2. XorOn({"i_flag", "e_flag"}, u.base.flags, v.base.flags) \in SUBSET Flag
    BY <1>1 DEF XorOn, Xor
  <2> QED  BY <2>1, <2>2, StoreTyped DEF Divides
<1>4. Inv(u.base) \in UnitDataType
  <2>1. [b \in Base |-> -e[b]] \in [Base -> Int]
    BY <1>1
  <2> QED  BY <1>1, <2>1, StoreTyped DEF Inv
<1>5. ASSUME NEW n \in Int PROVE Pow(u.base, n) \in UnitDataType
  <2>1. rootHertzModifier(u.base, n) \in Int
    <3>1. \A k \in Int : k * 9 \in Int /\ k * (-9) \in Int
      OBVIOUS
    <3>2. n \div 2 \in Int /\ 0 \in Int
      OBVIOUS
    <3> QED  BY <3>1, <3>2 DEF rootHertzModifier
  <2> DEFINE h == rootHertzModifier(u.base, n)
  <2>2. \A b \in Base : e[b] * n + (IF b = Second THEN h ELSE 0) \in Int
    <3> HIDE DEF h
    <3>1. h \in Int
      BY <2>1 DEF h
    <3> QED  BY <1>1, <3>1
  <2>3. PowExponents(u.base, n) \in [Base -> Int]
    BY <2>2 DEF PowExponents
  <2>4. PowFlags(u.base.flags, n) \in SUBSET Flag
    BY <1>1 DEF PowFlags
  <2> QED  BY <2>3, <2>4, StoreTyped DEF Pow
<1>6. /\ u.multiplier ** v.multiplier \in Positive
      /\ u.multiplier // v.multiplier \in Positive
      /\ Reciprocal(u.multiplier) \in Positive
      /\ u.multiplier ** u.multiplier \in Positive
  BY <1>1, PositiveFacts
<1>7. \A n \in {-1, 2} : IntegerPower(u.multiplier, n) \in Positive
  BY <1>1, <1>6, IntegerPowers, PositiveFacts
<1>8. \A n \in {-1, 2} : n \in Int
  OBVIOUS
<1>9. \A x \in Positive, b \in UnitDataType : unit(x, b) \in UnitType
  BY DEF unit, UnitType
<1>10. UnitTimes(u, v) \in UnitType /\ UnitDivides(u, v) \in UnitType
  BY <1>2, <1>3, <1>6, <1>9 DEF UnitTimes, UnitDivides
<1>11. UnitInv(u) \in UnitType
  BY <1>4, <1>6, <1>9 DEF UnitInv, Reciprocal, One
<1>12. \A n \in {-1, 2} : UnitPow(u, n) \in UnitType
  BY <1>5, <1>7, <1>8, <1>9 DEF UnitPow
<1> QED  BY <1>10, <1>11, <1>12

\* The order of products of units does not matter.
LEMMA UnitTimesAssociates ==
  ASSUME NEW u \in UnitType, NEW v \in UnitType, NEW w \in UnitType
  PROVE  UnitTimes(UnitTimes(u, v), w) = UnitTimes(u, UnitTimes(v, w))
<1> DEFINE e == u.base.exp
           f == v.base.exp
           g == w.base.exp
           E == [b \in Base |-> e[b] + f[b]]
           G == [b \in Base |-> f[b] + g[b]]
           I == {"i_flag"}
           A == u.base.flags
           B == v.base.flags
           C == w.base.flags
<1>1. /\ e \in [Base -> Int] /\ f \in [Base -> Int] /\ g \in [Base -> Int]
      /\ u.multiplier \in Num /\ v.multiplier \in Num /\ w.multiplier \in Num
  BY UnitParts
<1>2. (u.multiplier ** v.multiplier) ** w.multiplier
        = u.multiplier ** (v.multiplier ** w.multiplier)
  BY <1>1, NumLaws
<1>3. XorOn(I, XorOn(I, A, B), C) = XorOn(I, A, XorOn(I, B, C))
  BY DEF XorOn, Xor
<1>4. \A b \in Base : Wrap(b, Wrap(b, e[b] + f[b]) + g[b]) = Wrap(b, e[b] + Wrap(b, f[b] + g[b]))
  <2> TAKE b \in Base
  <2> DEFINE x == e[b]
             y == f[b]
             z == g[b]
  <2>1. x \in Int /\ y \in Int /\ z \in Int
    BY <1>1
  <2> HIDE DEF x, y, z
  <2>2. /\ x + y \in Int /\ y + z \in Int /\ (x + y) + z = (y + z) + x
        /\ x + Wrap(b, y + z) = Wrap(b, y + z) + x
    BY <2>1, WrapRange
  <2>3. Wrap(b, Wrap(b, x + y) + z) = Wrap(b, (x + y) + z)
    BY <2>1, <2>2, WrapArithmetic
  <2>4. Wrap(b, Wrap(b, y + z) + x) = Wrap(b, (y + z) + x)
    BY <2>1, <2>2, WrapArithmetic
  <2> QED  BY <2>2, <2>3, <2>4 DEF x, y, z
<1>5. Times(Times(u.base, v.base), w.base) = Times(u.base, Times(v.base, w.base))
  <2>1. Times(Times(u.base, v.base), w.base)
          = [exp |-> [b \in Base |-> Wrap(b, Wrap(b, e[b] + f[b]) + g[b])],
             flags |-> XorOn(I, XorOn(I, A, B), C)]
    BY DEF Times, unit_data
  <2>2. Times(u.base, Times(v.base, w.base))
          = [exp |-> [b \in Base |-> Wrap(b, e[b] + Wrap(b, f[b] + g[b]))],
             flags |-> XorOn(I, A, XorOn(I, B, C))]
    BY DEF Times, unit_data
  <2> QED  BY <1>3, <1>4, <2>1, <2>2
<1> QED  BY <1>2, <1>5 DEF UnitTimes, unit

\* Nor does that of quotients, if no two e_flags cancel.
LEMMA UnitDividesTwice ==
  ASSUME NEW u \in UnitType, NEW v \in UnitType, NEW w \in UnitType,
         "e_flag" \notin v.base.flags
  PROVE  UnitDivides(UnitDivides(u, v), w) = UnitDivides(u, UnitTimes(v, w))
<1> DEFINE e == u.base.exp
           f == v.base.exp
           g == w.base.exp
           I == {"i_flag"}
           J == {"i_flag", "e_flag"}
           A == u.base.flags
           B == v.base.flags
           C == w.base.flags
<1>1. /\ e \in [Base -> Int] /\ f \in [Base -> Int] /\ g \in [Base -> Int]
      /\ u.multiplier \in Num /\ v.multiplier \in Num /\ w.multiplier \in Num
  BY UnitParts
<1>2. (u.multiplier // v.multiplier) // w.multiplier
        = u.multiplier // (v.multiplier ** w.multiplier)
  BY <1>1, QuotientLaws
<1>3. XorOn(J, XorOn(J, A, B), C) = XorOn(J, A, XorOn(I, B, C))
  BY DEF XorOn, Xor
<1>4. \A b \in Base : Wrap(b, Wrap(b, e[b] - f[b]) - g[b]) = Wrap(b, e[b] - Wrap(b, f[b] + g[b]))
  <2> TAKE b \in Base
  <2> DEFINE x == e[b]
             y == f[b]
             z == g[b]
  <2>1. x \in Int /\ y \in Int /\ z \in Int
    BY <1>1
  <2> HIDE DEF x, y, z
  <2>2. /\ x - y \in Int /\ y + z \in Int /\ (x - y) - z = x - (y + z)
        /\ Wrap(b, y + z) \in Int /\ Wrap(b, y + z) - x \in Int /\ (y + z) - x \in Int
    BY <2>1, WrapRange
  <2>3. Wrap(b, Wrap(b, x - y) - z) = Wrap(b, (x - y) - z)
    BY <2>1, <2>2, WrapArithmetic
  <2>4. Wrap(b, Wrap(b, y + z) - x) = Wrap(b, (y + z) - x)
    BY <2>1, <2>2, WrapArithmetic
  <2>5. /\ Wrap(b, -Wrap(b, Wrap(b, y + z) - x)) = Wrap(b, -(Wrap(b, y + z) - x))
        /\ Wrap(b, -Wrap(b, (y + z) - x)) = Wrap(b, -((y + z) - x))
    BY <2>1, <2>2, WrapArithmetic
  <2>6. /\ -(Wrap(b, y + z) - x) = x - Wrap(b, y + z)
        /\ -((y + z) - x) = x - (y + z)
    BY <2>1, <2>2
  <2> QED  BY <2>2, <2>3, <2>4, <2>5, <2>6 DEF x, y, z
<1>5. Divides(Divides(u.base, v.base), w.base) = Divides(u.base, Times(v.base, w.base))
  <2>1. Divides(Divides(u.base, v.base), w.base)
          = [exp |-> [b \in Base |-> Wrap(b, Wrap(b, e[b] - f[b]) - g[b])],
             flags |-> XorOn(J, XorOn(J, A, B), C)]
    BY DEF Divides, unit_data
  <2>2. Divides(u.base, Times(v.base, w.base))
          = [exp |-> [b \in Base |-> Wrap(b, e[b] - Wrap(b, f[b] + g[b]))],
             flags |-> XorOn(J, A, XorOn(I, B, C))]
    BY DEF Divides, Times, unit_data
  <2> QED  BY <1>3, <1>4, <2>1, <2>2
<1> QED  BY <1>2, <1>5 DEF UnitDivides, UnitTimes, unit

(***************************************************************************)
(* Conversions.                                                            *)
(***************************************************************************)
Ratio(s, r) == s.multiplier // r.multiplier

\* Units that convert by a factor into a common one do so into each other.
LEMMA ProportionalRelation ==
  ASSUME NEW s, NEW r, NEW u, Proportional(s, r)
  PROVE  /\ Proportional(r, s)
         /\ Proportional(r, u) => Proportional(s, u)
         /\ Proportional(s, u) => Proportional(r, u)
         /\ SameBase(s, r)
BY DEF Proportional, SameBase

\* The ratio of two multipliers is positive, and turned around its reciprocal.
LEMMA RatioTyped ==
  ASSUME NEW s \in UnitType, NEW r \in UnitType
  PROVE  /\ Ratio(s, r) \in Positive /\ Ratio(s, r) \in Num /\ Ratio(s, r) \in Fraction
         /\ Ratio(s, s) = One /\ Reciprocal(Ratio(s, r)) = Ratio(r, s)
         /\ Ratio(s, r) ** Ratio(r, s) = One
<1>1. s.multiplier \in Positive /\ r.multiplier \in Positive
  BY UnitParts
<1>2. Ratio(s, r) \in Positive /\ Ratio(r, s) \in Positive
  BY <1>1, PositiveFacts DEF Ratio
<1>3. /\ Ratio(s, s) = One /\ Ratio(s, r) ** Ratio(r, s) = One
  BY <1>1, RatioLaws DEF Ratio
<1>4. /\ Ratio(s, r) \in Fraction /\ Ratio(r, s) \in Num /\ Ratio(s, r) \in Num
  BY <1>2, PositiveFacts
<1> QED  BY <1>2, <1>3, <1>4, ReciprocalUnique

\* Ratios of multipliers chain.
LEMMA RatioChain ==
  ASSUME NEW s \in UnitType, NEW r \in UnitType, NEW u \in UnitType
  PROVE  Ratio(s, r) ** Ratio(r, u) = Ratio(s, u)
BY UnitParts, RatioLaws DEF Ratio

\* A proportional conversion multiplies by the ratio of the multipliers.
LEMMA Conversion ==
  ASSUME NEW s \in UnitType, NEW r \in UnitType, Proportional(s, r), NEW v \in Num
  PROVE  /\ convert(v, s, r) = v ** Ratio(s, r)
         /\ factor(s, r) = Ratio(s, r)
         /\ value_as(measurement(v, s), r) = v ** Ratio(s, r)
<1>1. ASSUME NEW x \in Num PROVE convert(x, s, r) = x ** Ratio(s, r)
  <2>1. CASE s = r
    BY <2>1, RatioTyped, NumUnits DEF convert
  <2>2. CASE s # r
    <3>1. convert(x, s, r) = (x ** s.multiplier) // r.multiplier
      BY <2>2 DEF convert
    <3> QED  BY <3>1, UnitParts, QuotientLaws DEF Ratio
  <2> QED  BY <2>1, <2>2
<1>2. factor(s, r) = Ratio(s, r)
  <2>1. factor(s, r) = One ** Ratio(s, r)
    BY <1>1, NumCases DEF factor, One
  <2> QED  BY <2>1, RatioTyped, NumUnits
<1>3. value_as(measurement(v, s), r) = v ** Ratio(s, r)
  BY <1>1, RatioTyped, NumUnits DEF value_as, measurement
<1> QED  BY <1>1, <1>2, <1>3

\* Products and quotients of a plain unit with proportional units are
\* proportional.
LEMMA ProportionalProducts ==
  ASSUME NEW u \in UnitType, NEW s \in UnitType, NEW r \in UnitType, Plain(u),
         Proportional(s, r)
  PROVE  /\ Proportional(UnitTimes(u, s), UnitTimes(u, r))
         /\ Proportional(UnitDivides(u, s), UnitDivides(u, r))
         /\ Ratio(UnitTimes(u, s), UnitTimes(u, r)) = Ratio(s, r)
         /\ Ratio(UnitDivides(u, s), UnitDivides(u, r)) = Ratio(r, s)
<1>1. /\ s.base.exp = r.base.exp
      /\ s.multiplier \in Positive /\ r.multiplier \in Positive /\ u.multiplier \in Positive
  BY ProportionalRelation, UnitParts DEF SameBase
<1>2. ASSUME s # r
      PROVE  /\ Proportional(UnitTimes(u, s), UnitTimes(u, r))
             /\ Proportional(UnitDivides(u, s), UnitDivides(u, r))
  <2>1. /\ u.base.flags \subseteq {"i_flag"} /\ s.base.flags \subseteq {"i_flag"}
        /\ r.base.flags \subseteq {"i_flag"}
    BY <1>2 DEF Proportional, Plain
  <2>2. /\ Times(u.base, s.base).exp = Times(u.base, r.base).exp
        /\ Divides(u.base, s.base).exp = Divides(u.base, r.base).exp
    BY <1>1 DEF Times, Divides, unit_data
  <2>3. /\ Times(u.base, s.base).flags \subseteq {"i_flag"}
        /\ Times(u.base, r.base).flags \subseteq {"i_flag"}
    BY <2>1 DEF Times, unit_data, XorOn, Xor
  <2>4. /\ Divides(u.base, s.base).flags \subseteq {"i_flag"}
        /\ Divides(u.base, r.base).flags \subseteq {"i_flag"}
    BY <2>1 DEF Divides, unit_data, XorOn, Xor
  <2>5. Proportional(UnitTimes(u, s), UnitTimes(u, r))
    BY <2>2, <2>3 DEF Proportional, SameBase, Plain, UnitTimes, unit
  <2>6. Proportional(UnitDivides(u, s), UnitDivides(u, r))
    BY <2>2, <2>4 DEF Proportional, SameBase, Plain, UnitDivides, unit
  <2> QED  BY <2>5, <2>6
<1>3. /\ Proportional(UnitTimes(u, s), UnitTimes(u, r))
      /\ Proportional(UnitDivides(u, s), UnitDivides(u, r))
  BY <1>2 DEF Proportional
<1>9. Ratio(UnitTimes(u, s), UnitTimes(u, r)) = Ratio(s, r)
  BY <1>1, RatioLaws DEF Ratio, UnitTimes, unit
<1>10. Ratio(UnitDivides(u, s), UnitDivides(u, r)) = Ratio(r, s)
  BY <1>1, RatioLaws DEF Ratio, UnitDivides, unit
<1> QED  BY <1>3, <1>9, <1>10

(***************************************************************************)
(* Uncertain measurements.                                                 *)
(***************************************************************************)
UncertainType == [value : Num, uncertainty : Num, units : UnitType]

\* An uncertain measurement is its three parts.
LEMMA UncertainParts ==
  ASSUME NEW u \in UncertainType
  PROVE  /\ u.value \in Num /\ u.uncertainty \in Num /\ u.units \in UnitType
         /\ u = uncertain(u.value, u.uncertainty, u.units)
BY DEF UncertainType, uncertain

\* What a client calculates with is a number in a unit of the model.
LEMMA OperandParts ==
  ASSUME NEW v \in Operands
  PROVE  v \in UncertainType /\ v.value \in Fraction
<1>1. PICK o \in Operand : v = [o EXCEPT !.uncertainty = Spread(@)]
  BY DEF Operands
<1>2. o \in Numbered
  BY OperandAssumption
<1>3. Spread(o.uncertainty) \in Num
  BY <1>2, SpreadFacts, NumCases DEF Numbered
<1>4. /\ v.value = o.value /\ v.units = o.units /\ v.uncertainty = Spread(o.uncertainty)
      /\ v = uncertain(v.value, v.uncertainty, v.units)
  BY <1>1, <1>2 DEF Numbered, uncertain
<1> QED  BY <1>2, <1>3, <1>4, NumCases DEF UncertainType, Numbered, uncertain

\* A value and a tolerance relative to it make an uncertain measurement.
LEMMA ToleranceTyped ==
  ASSUME NEW x \in Num, NEW t \in Num, NEW s \in UnitType
  PROVE  /\ WithTolerance(x, t, s) \in UncertainType
         /\ Scaled(t, x) \in Num
         /\ WithTolerance(x, t, s) = uncertain(x, Scaled(t, x), s)
<1>1. Spread(x) \in Num
  BY SpreadFacts
<1>2. t ** Spread(x) \in Num
  BY <1>1, NumClosure
<1> QED  BY <1>2 DEF WithTolerance, uncertain, UncertainType, Scaled

\* A relative uncertainty is a number, or NaN if the value is zero.
LEMMA RelativeTyped ==
  ASSUME NEW u \in UncertainType
  PROVE  /\ relative(u) \in Num
         /\ u.value = Zero \/ u.value = NaN => relative(u) = NaN
<1>1. /\ u.uncertainty \in Num /\ u.value \in Num /\ Spread(u.value) \in Num
  BY UncertainParts, SpreadFacts
<1>2. u.value = Zero \/ u.value = NaN => Spread(u.value) = Zero \/ Spread(u.value) = NaN
  BY <1>1, SpreadFacts, NumCases
<1> QED  BY <1>1, <1>2, NumClosure, NaNAbsorbs DEF relative

\* Scaling twice.
LEMMA ScaledTwice ==
  ASSUME NEW t \in Num, NEW x \in Num, NEW y \in Num
  PROVE  Scaled(Scaled(t, x), y) = Scaled(t, y ** x)
<1>1. Spread(x) \in Num /\ Spread(y) \in Num
  BY SpreadFacts
<1>2. (t ** Spread(x)) ** Spread(y) = t ** (Spread(x) ** Spread(y))
  BY <1>1, NumLaws
<1>3. Spread(x) ** Spread(y) = Spread(y) ** Spread(x)
  BY <1>1, NumLaws
<1> QED  BY <1>2, <1>3, SpreadTimes DEF Scaled

\* A conversion scales the value and leaves the relative uncertainty.
LEMMA ConvertTolerance ==
  ASSUME NEW x \in Num, NEW t \in Num, NEW s \in UnitType, NEW r \in UnitType,
         Proportional(s, r)
  PROVE  convert_to(WithTolerance(x, t, s), r) = WithTolerance(Ratio(s, r) ** x, t, r)
<1>1. factor(s, r) = Ratio(s, r) /\ Ratio(s, r) \in Num
  BY Conversion, RatioTyped, NumCases
<1>2. Scaled(Scaled(t, x), Ratio(s, r)) = Scaled(t, Ratio(s, r) ** x)
  BY <1>1, ScaledTwice
<1> QED  BY <1>1, <1>2 DEF convert_to, WithTolerance, uncertain

\* convert_to by a factor: value and uncertainty are scaled by the ratio of
\* the multipliers, and the relative uncertainty stays.
LEMMA Converted ==
  ASSUME NEW v \in UncertainType, NEW r \in UnitType, Proportional(v.units, r)
  PROVE  /\ convert_to(v, r) = uncertain(Ratio(v.units, r) ** v.value,
                                         Scaled(v.uncertainty, Ratio(v.units, r)), r)
         /\ convert_to(v, r) \in UncertainType
         /\ relative(convert_to(v, r)) = relative(v)
<1> DEFINE c == Ratio(v.units, r)
           C == Spread(c)
           B == Spread(v.value)
           t == v.uncertainty
<1>1. /\ v.value \in Num /\ t \in Num /\ v.units \in UnitType
  BY UncertainParts
<1>2. c \in Positive /\ c \in Num
  BY <1>1, RatioTyped
<1>3. convert_to(v, r) = uncertain(c ** v.value, Scaled(t, c), r)
  BY <1>1, Conversion, NumCases DEF convert_to
<1> HIDE DEF c
<1>4. /\ C \in Positive /\ C \in Num /\ C \in Fraction /\ C # Zero /\ B \in Num
      /\ Spread(c ** v.value) = C ** B
  BY <1>1, <1>2, SpreadFacts, SpreadTimes, PositiveFacts
<1>5. c ** v.value \in Num /\ Scaled(t, c) \in Num
  BY <1>1, <1>2, <1>4, NumClosure DEF Scaled
<1> HIDE DEF B, t
<1>6. (t ** C) // (C ** B) = t // B
  <2>1. /\ Reciprocal(C) \in Num /\ C ** Reciprocal(C) = One /\ Reciprocal(B) \in Num
        /\ C ** B \in Num /\ t ** C \in Num
    BY <1>1, <1>4, ReciprocalTyped, NumClosure
  <2>2. (t ** C) // (C ** B) = (t ** C) ** (Reciprocal(C) ** Reciprocal(B))
    BY <1>4, <2>1, NumQuotient, ReciprocalTimes
  <2> DEFINE RC == Reciprocal(C)
             RB == Reciprocal(B)
  <2> HIDE DEF RC, RB, C
  <2>3. RC ** RB \in Num /\ RC \in Num /\ RB \in Num
    BY <2>1, NumClosure DEF RC, RB
  <2>4. (t ** C) ** (RC ** RB) = t ** (C ** (RC ** RB))
    BY <1>1, <1>4, <2>3, NumLaws
  <2>5. C ** (RC ** RB) = (C ** RC) ** RB
    BY <1>4, <2>3, NumLaws
  <2>6. C ** (RC ** RB) = RB
    BY <2>1, <2>3, <2>5, NumUnits DEF RC
  <2> QED  BY <1>1, <1>4, <2>2, <2>4, <2>6, NumQuotient DEF RC, RB
<1>7. relative(convert_to(v, r)) = relative(v)
  BY <1>3, <1>4, <1>6 DEF relative, uncertain, Scaled, B, t
<1>8. convert_to(v, r) \in UncertainType
  BY <1>3, <1>5 DEF UncertainType, uncertain
<1> QED  BY <1>3, <1>7, <1>8 DEF c, t

\* The operations, of measurements in proportional units.
LEMMA OperationsTyped ==
  ASSUME NEW u \in UncertainType, NEW v \in UncertainType
  PROVE  /\ Product(u, v) \in UncertainType /\ Quotient(u, v) \in UncertainType
         /\ u.value ** v.value \in Num /\ u.value // v.value \in Num
         /\ Combined(relative(u), relative(v)) \in Num
<1>1. /\ u.value \in Num /\ v.value \in Num /\ u.units \in UnitType /\ v.units \in UnitType
      /\ relative(u) \in Num /\ relative(v) \in Num
  BY UncertainParts, RelativeTyped
<1>2. Combined(relative(u), relative(v)) \in Num
  BY <1>1, CombinedFacts
<1>3. /\ u.value ** v.value \in Num /\ u.value // v.value \in Num
      /\ UnitTimes(u.units, v.units) \in UnitType /\ UnitDivides(u.units, v.units) \in UnitType
  BY <1>1, NumClosure, UnitsTyped
<1> QED  BY <1>2, <1>3, ToleranceTyped DEF Product, Quotient

\* Sum and difference of measurements that convert by a factor.
LEMMA ProportionalSum ==
  ASSUME NEW u \in UncertainType, NEW v \in UncertainType, Proportional(v.units, u.units)
  PROVE  LET k == Ratio(v.units, u.units)
         IN /\ Sum(u, v) = uncertain(u.value ++ (k ** v.value),
                                     Combined(u.uncertainty, Scaled(v.uncertainty, k)), u.units)
            /\ Difference(u, v) = uncertain(u.value -- (k ** v.value),
                                     Combined(u.uncertainty, Scaled(v.uncertainty, k)), u.units)
            /\ Scaled(v.uncertainty, k) \in Num /\ k ** v.value \in Num
            /\ Sum(u, v) \in UncertainType /\ Difference(u, v) \in UncertainType
<1> DEFINE k == Ratio(v.units, u.units)
<1>1. /\ u.value \in Num /\ v.value \in Num /\ u.units \in UnitType /\ v.units \in UnitType
      /\ u.uncertainty \in Num /\ v.uncertainty \in Num
  BY UncertainParts
<1>2. k \in Num /\ factor(v.units, u.units) = k
  BY <1>1, RatioTyped, Conversion, NumCases
<1> HIDE DEF k
<1>3. Scaled(v.uncertainty, k) \in Num /\ k ** v.value \in Num
  BY <1>1, <1>2, ToleranceTyped, NumClosure
<1>4. /\ u.value ++ (k ** v.value) \in Num /\ u.value -- (k ** v.value) \in Num
      /\ Combined(u.uncertainty, Scaled(v.uncertainty, k)) \in Num
  BY <1>1, <1>3, NumClosure, CombinedFacts
<1>5. /\ Sum(u, v) = uncertain(u.value ++ (k ** v.value),
                               Combined(u.uncertainty, Scaled(v.uncertainty, k)), u.units)
      /\ Difference(u, v) = uncertain(u.value -- (k ** v.value),
                               Combined(u.uncertainty, Scaled(v.uncertainty, k)), u.units)
  BY <1>2 DEF Sum, Difference
<1>6. Sum(u, v) \in UncertainType /\ Difference(u, v) \in UncertainType
  BY <1>1, <1>4, <1>5 DEF UncertainType, uncertain
<1> QED  BY <1>3, <1>5, <1>6 DEF k

(***************************************************************************)
(* The unit of an operand.                                                 *)
(***************************************************************************)
LEMMA UnitOfProduct ==
  ASSUME NEW u \in UncertainType, NEW v \in UncertainType, Plain(u.units),
         NEW r \in UnitType, Proportional(v.units, r)
  PROVE  LET w == convert_to(v, r)
         IN /\ convert_to(Product(u, w), UnitTimes(u.units, v.units)) = Product(u, v)
            /\ convert_to(Quotient(u, w), UnitDivides(u.units, v.units)) = Quotient(u, v)
<1> DEFINE s == v.units
           c == Ratio(s, r)
           k == Ratio(r, s)
           w == convert_to(v, r)
           T == Combined(relative(u), relative(v))
           a == u.value
           b == v.value
<1>1. /\ s \in UnitType /\ r \in UnitType /\ a \in Num /\ b \in Num /\ u.units \in UnitType
      /\ T \in Num /\ Proportional(r, s)
  BY UncertainParts, OperationsTyped, ProportionalRelation
<1>2. /\ w.value = c ** b /\ w.units = r /\ w \in UncertainType /\ relative(w) = relative(v)
  BY <1>1, Converted DEF uncertain
<1>3. /\ c \in Positive /\ c \in Num /\ k \in Num /\ c ** k = One /\ k ** c = One
      /\ Reciprocal(c) = k /\ Reciprocal(k) = c /\ c \in Fraction /\ c # Zero
  BY <1>1, RatioTyped, PositiveFacts
<1>4. /\ Product(u, w) = WithTolerance(a ** (c ** b), T, UnitTimes(u.units, r))
      /\ Quotient(u, w) = WithTolerance(a // (c ** b), T, UnitDivides(u.units, r))
  BY <1>2 DEF Product, Quotient
<1>5. /\ Product(u, v) = WithTolerance(a ** b, T, UnitTimes(u.units, s))
      /\ Quotient(u, v) = WithTolerance(a // b, T, UnitDivides(u.units, s))
  BY DEF Product, Quotient
<1>6. /\ Proportional(UnitTimes(u.units, r), UnitTimes(u.units, s))
      /\ Ratio(UnitTimes(u.units, r), UnitTimes(u.units, s)) = k
      /\ Proportional(UnitDivides(u.units, r), UnitDivides(u.units, s))
      /\ Ratio(UnitDivides(u.units, r), UnitDivides(u.units, s)) = c
      /\ UnitTimes(u.units, r) \in UnitType /\ UnitTimes(u.units, s) \in UnitType
      /\ UnitDivides(u.units, r) \in UnitType /\ UnitDivides(u.units, s) \in UnitType
  <2>1. /\ UnitTimes(u.units, r) \in UnitType /\ UnitTimes(u.units, s) \in UnitType
        /\ UnitDivides(u.units, r) \in UnitType /\ UnitDivides(u.units, s) \in UnitType
    BY <1>1, UnitsTyped
  <2> QED  BY <1>1, <2>1, ProportionalProducts
<1> HIDE DEF T, a, b, c, k, w, s
<1>7. c ** b \in Num /\ a ** (c ** b) \in Num /\ a // (c ** b) \in Num
  BY <1>1, <1>3, NumClosure
<1>8. k ** (a ** (c ** b)) = a ** b
  <2>1. k ** (a ** (c ** b)) = (k ** a) ** (c ** b)
    BY <1>1, <1>3, <1>7, NumLaws
  <2>2. (k ** a) ** (c ** b) = (k ** c) ** (a ** b)
    BY <1>1, <1>3, Interchange
  <2> QED  BY <1>1, <1>3, <2>1, <2>2, NumUnits, NumClosure
<1>9. c ** (a // (c ** b)) = a // b
  <2>1. a // (c ** b) = (a // c) // b
    BY <1>1, <1>3, QuotientLaws
  <2>2. a // c \in Num /\ c ** (a // c) = (c ** a) // c
    <3>1. a // c \in Num
      BY <1>1, <1>3, NumClosure
    <3>2. c ** (a // c) = (c ** a) // c
      BY <1>1, <1>3, QuotientLaws
    <3> QED  BY <3>1, <3>2
  <2>3. (c ** a) // c = a
    <3>1. c ** a = a ** c /\ c // c = One
      BY <1>1, <1>3, NumLaws, RatioLaws
    <3>2. (a ** c) // c = a ** (c // c)
      BY <1>1, <1>3, QuotientLaws
    <3> QED  BY <1>1, <3>1, <3>2, NumUnits
  <2>4. c ** ((a // c) // b) = (c ** (a // c)) // b
    BY <1>1, <1>3, <2>2, QuotientLaws
  <2> QED  BY <2>1, <2>2, <2>3, <2>4
<1>10. convert_to(Product(u, w), UnitTimes(u.units, s)) = Product(u, v)
  BY <1>1, <1>4, <1>5, <1>6, <1>7, <1>8, ConvertTolerance
<1>11. convert_to(Quotient(u, w), UnitDivides(u.units, s)) = Quotient(u, v)
  BY <1>1, <1>4, <1>5, <1>6, <1>7, <1>9, ConvertTolerance
<1> QED  BY <1>10, <1>11 DEF w, s

\* The unit of the second term does not matter to a sum or a difference.
LEMMA UnitOfSum ==
  ASSUME NEW u \in UncertainType, NEW v \in UncertainType,
         NEW r \in UnitType, Proportional(v.units, r), Proportional(v.units, u.units)
  PROVE  LET w == convert_to(v, r)
         IN /\ Sum(u, w) = Sum(u, v) /\ Difference(u, w) = Difference(u, v)
            /\ value_as(AsMeasurement(w), u.units) = Ratio(v.units, u.units) ** v.value
<1> DEFINE s == v.units
           c == Ratio(s, r)
           k == Ratio(r, u.units)
           K == Ratio(s, u.units)
           w == convert_to(v, r)
<1>1. /\ s \in UnitType /\ u.units \in UnitType /\ Proportional(r, u.units)
      /\ v.value \in Num /\ v.uncertainty \in Num
  BY UncertainParts, ProportionalRelation
<1>2. /\ w = uncertain(c ** v.value, Scaled(v.uncertainty, c), r) /\ w \in UncertainType
  BY <1>1, Converted
<1>3. /\ w.value = c ** v.value /\ w.uncertainty = Scaled(v.uncertainty, c) /\ w.units = r
  BY <1>2 DEF uncertain
<1>4. c \in Num /\ k \in Num /\ K \in Num /\ c ** k = K /\ c ** v.value \in Num
  BY <1>1, RatioTyped, RatioChain, NumClosure
<1>5. /\ Sum(u, w) = uncertain(u.value ++ (k ** w.value),
                               Combined(u.uncertainty, Scaled(w.uncertainty, k)), u.units)
      /\ Difference(u, w) = uncertain(u.value -- (k ** w.value),
                               Combined(u.uncertainty, Scaled(w.uncertainty, k)), u.units)
  BY <1>1, <1>2, <1>3, ProportionalSum
<1>6. /\ Sum(u, v) = uncertain(u.value ++ (K ** v.value),
                               Combined(u.uncertainty, Scaled(v.uncertainty, K)), u.units)
      /\ Difference(u, v) = uncertain(u.value -- (K ** v.value),
                               Combined(u.uncertainty, Scaled(v.uncertainty, K)), u.units)
  BY ProportionalSum
<1>7. value_as(AsMeasurement(w), u.units) = w.value ** k
  BY <1>1, <1>3, <1>4, Conversion DEF AsMeasurement
<1> HIDE DEF c, k, K, s, w
<1>8. k ** c = K
  BY <1>4, NumLaws
<1>9. k ** (c ** v.value) = K ** v.value
  BY <1>1, <1>4, <1>8, NumLaws
<1>10. Scaled(Scaled(v.uncertainty, c), k) = Scaled(v.uncertainty, K)
  BY <1>1, <1>4, <1>8, ScaledTwice
<1>11. (c ** v.value) ** k = k ** (c ** v.value)
  BY <1>4, NumLaws
<1> QED  BY <1>3, <1>5, <1>6, <1>7, <1>9, <1>10, <1>11 DEF w, K, s

\* Uncertain measurements are equal if their difference is in its uncertainty.
LEMMA EqualsIsWithin ==
  ASSUME NEW u \in UncertainType, NEW v \in UncertainType,
         Proportional(v.units, u.units), ~Squares,
         u.value \in Fraction, v.value \in Fraction
  PROVE  /\ Difference(u, v).value \in Fraction
         /\ Difference(u, v).uncertainty \in Num
         /\ Equals(u, v) <=> Within(Difference(u, v).uncertainty, Difference(u, v).value)
<1> DEFINE D == Difference(u, v)
           k == Ratio(v.units, u.units)
<1>1. /\ D = uncertain(u.value -- (k ** v.value),
                       Combined(u.uncertainty, Scaled(v.uncertainty, k)), u.units)
      /\ D \in UncertainType
  BY ProportionalSum
<1>2. k \in Fraction
  BY UncertainParts, RatioTyped
<1>3. D.value \in Fraction
  BY <1>1, <1>2, FractionClosure DEF uncertain
<1>4. D.uncertainty \in Num /\ D.value \in Num /\ D.units = u.units
  BY <1>1, <1>3, NumCases DEF UncertainType, uncertain
<1> HIDE DEF D
<1>5. value_as(measurement(Zero, u.units), D.units) = Zero
  BY <1>4 DEF value_as, measurement
<1>6. Spread(Zero -- D.value) = Minus(D.value)
  BY <1>4, DifferenceLaws, NumCases DEF Spread
<1>7. Equals(u, v) <=> Within(D.uncertainty, Minus(D.value))
  BY <1>5, <1>6 DEF Equals, EqualsMeasurement, Within, D
<1> QED  BY <1>3, <1>4, <1>7, WithinMinus DEF D

\* The difference the other way round.
LEMMA DifferenceTurned ==
  ASSUME NEW u \in UncertainType, NEW v \in UncertainType,
         Proportional(v.units, u.units), ~Squares
  PROVE  LET k == Ratio(u.units, v.units)
         IN /\ Difference(v, u).value = Minus(k ** Difference(u, v).value)
            /\ Difference(v, u).uncertainty = k ** Difference(u, v).uncertainty
<1> DEFINE k == Ratio(u.units, v.units)
           K == Ratio(v.units, u.units)
           a == u.value
           b == v.value
           s == u.uncertainty
           t == v.uncertainty
<1>1. /\ a \in Num /\ b \in Num /\ s \in Num /\ t \in Num
      /\ u.units \in UnitType /\ v.units \in UnitType /\ Proportional(u.units, v.units)
  BY UncertainParts, ProportionalRelation
<1>2. k \in Num /\ K \in Num /\ k ** K = One
  BY <1>1, RatioTyped
<1>3. /\ Difference(u, v).value = a -- (K ** b)
      /\ Difference(u, v).uncertainty = s ++ (t ** K)
  <2>1. Difference(u, v) = uncertain(a -- (K ** b), Combined(s, Scaled(t, K)), u.units)
    BY ProportionalSum
  <2> QED  BY <2>1 DEF uncertain, Combined, Scaled, Spread
<1>4. /\ Difference(v, u).value = b -- (k ** a)
      /\ Difference(v, u).uncertainty = t ++ (s ** k)
  <2>1. Difference(v, u) = uncertain(b -- (k ** a), Combined(t, Scaled(s, k)), v.units)
    BY <1>1, ProportionalSum
  <2> QED  BY <2>1 DEF uncertain, Combined, Scaled, Spread
<1> HIDE DEF a, b, s, t, k, K
<1>5. K ** b \in Num /\ k ** a \in Num /\ t ** K \in Num /\ s ** k \in Num
      /\ k ** (K ** b) = b
  <2>1. k ** (K ** b) = (k ** K) ** b
    BY <1>1, <1>2, NumLaws
  <2> QED  BY <1>1, <1>2, <2>1, NumClosure, NumUnits
<1>6. Minus(k ** (a -- (K ** b))) = b -- (k ** a)
  <2>1. k ** (a -- (K ** b)) = (k ** a) -- b
    BY <1>1, <1>2, <1>5, DifferenceLaws
  <2> QED  BY <1>1, <1>5, <2>1, DifferenceLaws
<1>7. k ** (s ++ (t ** K)) = t ++ (s ** k)
  <2>1. k ** (s ++ (t ** K)) = (k ** s) ++ (k ** (t ** K))
    BY <1>1, <1>2, <1>5, NumLaws
  <2>2. k ** s = s ** k
    BY <1>1, <1>2, NumLaws
  <2>3. t ** K = K ** t /\ k ** (K ** t) = (k ** K) ** t
    BY <1>1, <1>2, NumLaws
  <2>4. (k ** K) ** t = t
    BY <1>1, <1>2, NumUnits
  <2>5. (s ** k) ++ t = t ++ (s ** k)
    BY <1>1, <1>5, NumLaws
  <2> QED  BY <2>1, <2>2, <2>3, <2>4, <2>5
<1> QED  BY <1>3, <1>4, <1>6, <1>7 DEF k

\* Comparisons, of each with the other and of an equal operand.
LEMMA ComparisonsTurn ==
  ASSUME NEW u \in UncertainType, NEW v \in UncertainType,
         Proportional(v.units, u.units), ~Squares,
         u.value \in Fraction, v.value \in Fraction
  PROVE  /\ Equals(u, v) <=> Equals(v, u)
         /\ AtLeast(u, v) <=> NotMore(v, u)
         /\ Less(Ratio(v.units, u.units) ** v.value, u.value)
              <=> Less(v.value, Ratio(u.units, v.units) ** u.value)
         /\ AtLeast(u, v) <=> ~Less(u.value, Ratio(v.units, u.units) ** v.value) \/ Equals(u, v)
<1> DEFINE k == Ratio(u.units, v.units)
           K == Ratio(v.units, u.units)
           d == Difference(u, v).value
           t == Difference(u, v).uncertainty
<1>1. /\ u.units \in UnitType /\ v.units \in UnitType /\ Proportional(u.units, v.units)
  BY UncertainParts, ProportionalRelation
<1>2. /\ k \in Positive /\ k \in Num /\ k \in Fraction /\ K \in Num /\ K \in Fraction
      /\ k ** K = One
  BY <1>1, RatioTyped
<1>3. /\ Difference(v, u).value = Minus(k ** d) /\ Difference(v, u).uncertainty = k ** t
  BY DifferenceTurned
<1>4. /\ d \in Fraction /\ t \in Num /\ (Equals(u, v) <=> Within(t, d))
  BY EqualsIsWithin
<1>5. Equals(v, u) <=> Within(k ** t, Minus(k ** d))
  BY <1>1, <1>3, EqualsIsWithin
<1>6. d = u.value -- (K ** v.value)
  <2>1. Difference(u, v) = uncertain(u.value -- (K ** v.value),
                               Combined(u.uncertainty, Scaled(v.uncertainty, K)), u.units)
    BY ProportionalSum
  <2> QED  BY <2>1 DEF uncertain
<1>7. AtLeast(u, v) <=> AtMost(Zero, d) \/ Equals(u, v)
  BY DEF AtLeast
<1>8. NotMore(v, u) <=> AtMost(Minus(k ** d), Zero) \/ Equals(v, u)
  BY <1>3 DEF NotMore
<1> HIDE DEF d, t, k, K
<1>9. k ** d \in Fraction /\ k ** t \in Num
  BY <1>2, <1>4, FractionClosure, NumClosure
<1>10. Equals(u, v) <=> Equals(v, u)
  BY <1>2, <1>4, <1>5, <1>9, WithinMinus, WithinScales
<1>11. AtMost(Minus(k ** d), Zero) <=> AtMost(Zero, d)
  <2>1. Minus(k ** d) \in Fraction /\ Minus(Minus(k ** d)) = k ** d
    BY <1>9, FractionClosure, MinusTwice, NumCases
  <2>2. AtMost(Minus(k ** d), Zero) <=> AtMost(Zero, k ** d)
    BY <2>1, OrderOfNumbers
  <2> QED  BY <1>2, <1>4, <2>2, OrderScales
<1>12. K ** v.value \in Fraction /\ k ** u.value \in Fraction
  BY <1>2, FractionClosure
<1>13. AtMost(u.value, K ** v.value) <=> AtMost(k ** u.value, v.value)
  <2>1. AtMost(u.value, K ** v.value) <=> AtMost(Zero, (K ** v.value) -- u.value)
    BY <1>12, OrderOfNumbers
  <2>2. (K ** v.value) -- u.value \in Fraction
    BY <1>12, FractionClosure
  <2>3. AtMost(Zero, k ** ((K ** v.value) -- u.value)) <=> AtMost(Zero, (K ** v.value) -- u.value)
    BY <1>2, <2>2, OrderScales
  <2>4. k ** ((K ** v.value) -- u.value) = v.value -- (k ** u.value)
    <3>1. u.value \in Num /\ v.value \in Num /\ K ** v.value \in Num
      BY <1>12, NumCases
    <3>2. k ** ((K ** v.value) -- u.value) = (k ** (K ** v.value)) -- (k ** u.value)
      BY <1>2, <3>1, DifferenceLaws
    <3>3. k ** (K ** v.value) = (k ** K) ** v.value
      BY <1>2, <3>1, NumLaws
    <3>4. One ** v.value = v.value
      BY <3>1, NumUnits
    <3> QED  BY <1>2, <3>2, <3>3, <3>4
  <2>5. AtMost(k ** u.value, v.value) <=> AtMost(Zero, v.value -- (k ** u.value))
    BY <1>12, OrderOfNumbers
  <2> QED  BY <2>1, <2>3, <2>4, <2>5
<1>14. Less(K ** v.value, u.value) <=> Less(v.value, k ** u.value)
  BY <1>12, <1>13, OrderOfNumbers
<1>15. AtMost(Zero, d) <=> ~Less(u.value, K ** v.value)
  <2>1. AtMost(K ** v.value, u.value) <=> AtMost(Zero, d)
    BY <1>6, <1>12, OrderOfNumbers
  <2>2. Less(u.value, K ** v.value) <=> ~AtMost(K ** v.value, u.value)
    BY <1>12, OrderOfNumbers
  <2> QED  BY <2>1, <2>2
<1> QED  BY <1>7, <1>8, <1>10, <1>11, <1>14, <1>15 DEF k, K

\* The inductive invariant: the client holds numbers in a unit with a positive
\* multiplier, which every call returns, and its value is that of measurement.
UncertainInv ==
  /\ um \in UncertainType
  /\ method \in {"squares", "simple"}
  /\ straight \in BOOLEAN
  /\ CalculatesAsMeasurement

\* The laws above, for the measurement held and any operand and unit.
LEMMA UnitsDoNotMatterHere == UncertainInv => UnitsDoNotMatter
<1> SUFFICES ASSUME UncertainInv, NEW v \in Operands, NEW u \in Unit,
                    IsNumber(um.value), Proportional(v.units, u)
             PROVE  LET w == convert_to(v, u)
                    IN /\ Plain(um.units) =>
                            /\ convert_to(Product(um, w), UnitTimes(um.units, v.units))
                                 = Product(um, v)
                            /\ convert_to(Quotient(um, w), UnitDivides(um.units, v.units))
                                 = Quotient(um, v)
                       /\ Proportional(v.units, um.units) =>
                            /\ Sum(um, w) = Sum(um, v)
                            /\ Difference(um, w) = Difference(um, v)
                            /\ ~Squares =>
                                 /\ Equals(um, w) <=> Equals(v, um)
                                 /\ AtLeast(um, w) <=> NotMore(v, um)
                                 /\ GreaterThan(um, w) <=> LessThan(v, um)
                                 /\ AtLeast(um, w) <=> ~LessThan(um, w) \/ Equals(um, w)
  BY DEF UnitsDoNotMatter
<1> DEFINE w == convert_to(v, u)
<1>1. /\ um \in UncertainType /\ um.value \in Fraction /\ v \in UncertainType
      /\ v.value \in Fraction /\ u \in UnitType
      /\ um.units \in UnitType /\ v.units \in UnitType
  BY OperandParts, OperandAssumption, UncertainParts, NumCases DEF UncertainInv, IsNumber
<1>2. ASSUME Plain(um.units)
      PROVE  /\ convert_to(Product(um, w), UnitTimes(um.units, v.units)) = Product(um, v)
             /\ convert_to(Quotient(um, w), UnitDivides(um.units, v.units)) = Quotient(um, v)
  BY <1>1, <1>2, UnitOfProduct
<1>3. ASSUME Proportional(v.units, um.units)
      PROVE  /\ Sum(um, w) = Sum(um, v)
             /\ Difference(um, w) = Difference(um, v)
             /\ value_as(AsMeasurement(w), um.units) = Ratio(v.units, um.units) ** v.value
  BY <1>1, <1>3, UnitOfSum
<1>4. ASSUME Proportional(v.units, um.units), ~Squares
      PROVE  /\ Equals(um, w) <=> Equals(v, um)
             /\ AtLeast(um, w) <=> NotMore(v, um)
             /\ GreaterThan(um, w) <=> LessThan(v, um)
             /\ AtLeast(um, w) <=> ~LessThan(um, w) \/ Equals(um, w)
  <2> HIDE DEF w
  <2>1. /\ Difference(um, w) = Difference(um, v)
        /\ value_as(AsMeasurement(w), um.units) = Ratio(v.units, um.units) ** v.value
    BY <1>3, <1>4
  <2>2. Equals(um, w) <=> Equals(um, v)
    BY <2>1 DEF Equals
  <2>3. AtLeast(um, w) <=> AtLeast(um, v)
    BY <2>1, <2>2 DEF AtLeast
  <2>4. value_as(AsMeasurement(um), v.units) = Ratio(um.units, v.units) ** um.value
    <3>1. Proportional(um.units, v.units) /\ um.value \in Num
      BY <1>1, <1>4, ProportionalRelation, NumCases
    <3>2. value_as(AsMeasurement(um), v.units) = um.value ** Ratio(um.units, v.units)
      BY <1>1, <3>1, Conversion DEF AsMeasurement
    <3>3. Ratio(um.units, v.units) \in Num
      BY <1>1, RatioTyped
    <3> QED  BY <3>1, <3>2, <3>3, NumLaws
  <2>5. /\ GreaterThan(um, w) <=> Less(Ratio(v.units, um.units) ** v.value, um.value)
        /\ LessThan(v, um) <=> Less(v.value, Ratio(um.units, v.units) ** um.value)
        /\ LessThan(um, w) <=> Less(um.value, Ratio(v.units, um.units) ** v.value)
    BY <2>1, <2>4 DEF GreaterThan, LessThan
  <2> QED  BY <1>1, <1>4, <2>2, <2>3, <2>5, ComparisonsTurn
<1> QED  BY <1>2, <1>3, <1>4

\* What is scaled by a number and divided by it.
LEMMA RelativeOfTolerance ==
  ASSUME NEW x \in Num, NEW t \in Num, NEW s \in UnitType
  PROVE  /\ (x \in Fraction /\ x # Zero) => relative(WithTolerance(x, t, s)) = t
         /\ ~(x \in Fraction /\ x # Zero) => relative(WithTolerance(x, t, s)) = NaN
<1> DEFINE X == Spread(x)
<1>1. relative(WithTolerance(x, t, s)) = (t ** X) // X
  BY DEF relative, WithTolerance, uncertain, Scaled
<1>2. /\ X \in Num /\ t ** X \in Num
      /\ (x \in Fraction /\ x # Zero) <=> (X \in Fraction /\ X # Zero)
  <2>1. X \in Num /\ ((x \in Fraction /\ x # Zero) <=> (X \in Fraction /\ X # Zero))
    BY SpreadFacts
  <2> QED  BY <2>1, NumClosure
<1> HIDE DEF X
<1>3. (t ** X) // X = t ** (X ** Reciprocal(X))
  BY <1>2, NumQuotient, ReciprocalTyped, NumLaws
<1>4. ASSUME X \in Fraction, X # Zero PROVE (t ** X) // X = t
  BY <1>2, <1>3, <1>4, ReciprocalTyped, NumUnits
<1>5. ASSUME ~(X \in Fraction /\ X # Zero) PROVE (t ** X) // X = NaN
  <2>1. Reciprocal(X) = NaN
    BY <1>2, <1>5, ReciprocalTyped
  <2>2. X ** NaN = NaN /\ t ** NaN = NaN
    BY <1>2, NaNAbsorbs
  <2> QED  BY <1>3, <2>1, <2>2
<1> QED  BY <1>1, <1>2, <1>4, <1>5

\* The order of products and quotients.
LEMMA ProductsAssociate ==
  ASSUME NEW u \in UncertainType, NEW v \in UncertainType, NEW w \in UncertainType
  PROVE  Product(Product(u, v), w) = Product(u, Product(v, w))
<1> DEFINE a == u.value
           b == v.value
           c == w.value
           r == relative(u)
           s == relative(v)
           t == relative(w)
           P == UnitTimes(u.units, v.units)
           Q == UnitTimes(v.units, w.units)
           W == UnitTimes(P, w.units)
           good(x) == x \in Fraction /\ x # Zero
<1>1. /\ a \in Num /\ b \in Num /\ c \in Num /\ r \in Num /\ s \in Num /\ t \in Num
      /\ u.units \in UnitType /\ v.units \in UnitType /\ w.units \in UnitType
  BY UncertainParts, RelativeTyped
<1>2. P \in UnitType /\ Q \in UnitType /\ W = UnitTimes(u.units, Q)
  <2>1. P \in UnitType /\ Q \in UnitType
    BY <1>1, UnitsTyped
  <2>2. W = UnitTimes(u.units, Q)
    BY <1>1, UnitTimesAssociates
  <2> QED  BY <2>1, <2>2
<1>3. /\ Product(u, v) = WithTolerance(a ** b, Combined(r, s), P)
      /\ Product(v, w) = WithTolerance(b ** c, Combined(s, t), Q)
  BY DEF Product
<1> DEFINE R == relative(Product(u, v))
           T == relative(Product(v, w))
<1>4. /\ Product(Product(u, v), w) = WithTolerance((a ** b) ** c, Combined(R, t), W)
      /\ Product(u, Product(v, w)) = WithTolerance(a ** (b ** c), Combined(r, T), W)
  <2>1. /\ Product(u, v).value = a ** b /\ Product(u, v).units = P
        /\ Product(v, w).value = b ** c /\ Product(v, w).units = Q
    BY <1>3 DEF WithTolerance, uncertain
  <2>2. /\ Product(Product(u, v), w)
             = WithTolerance(Product(u, v).value ** c, Combined(R, t),
                             UnitTimes(Product(u, v).units, w.units))
        /\ Product(u, Product(v, w))
             = WithTolerance(a ** Product(v, w).value, Combined(r, T),
                             UnitTimes(u.units, Product(v, w).units))
    BY DEF Product
  <2> QED  BY <1>2, <2>1, <2>2
<1>5. /\ a ** b \in Num /\ b ** c \in Num /\ (a ** b) ** c = a ** (b ** c)
      /\ (a ** b) ** c \in Num
      /\ Combined(r, s) \in Num /\ Combined(s, t) \in Num
  <2>1. a ** b \in Num /\ b ** c \in Num
    BY <1>1, NumClosure
  <2>2. (a ** b) ** c \in Num
    BY <1>1, <2>1, NumClosure
  <2>3. (a ** b) ** c = a ** (b ** c)
    BY <1>1, NumLaws
  <2>4. Combined(r, s) \in Num /\ Combined(s, t) \in Num
    BY <1>1, CombinedFacts
  <2> QED  BY <2>1, <2>2, <2>3, <2>4
<1>6. /\ good(a ** b) <=> good(a) /\ good(b)
      /\ good(b ** c) <=> good(b) /\ good(c)
  <2>1. \A x, y \in Num : good(x ** y) <=> good(x) /\ good(y)
    <3> TAKE x, y \in Num
    <3>1. CASE x \in Fraction /\ y \in Fraction
      BY <3>1, FractionClosure, NoZeroDivisors
    <3>2. CASE x = NaN \/ y = NaN
      <4>1. x ** y = NaN
        BY <3>2, NaNAbsorbs
      <4> QED  BY <3>2, <4>1, NumCases
    <3> QED  BY <3>1, <3>2 DEF Num
  <2> QED  BY <1>1, <2>1
<1>7. /\ (good(a ** b) => R = Combined(r, s)) /\ (~good(a ** b) => R = NaN)
      /\ (good(b ** c) => T = Combined(s, t)) /\ (~good(b ** c) => T = NaN)
  BY <1>2, <1>3, <1>5, RelativeOfTolerance
<1>8. (~good(a) => r = NaN) /\ (~good(b) => s = NaN) /\ (~good(c) => t = NaN)
  BY <1>1, RelativeTyped, NumCases
<1> HIDE DEF a, b, c, r, s, t, P, Q, W, R, T
<1>9. CASE good(a) /\ good(b) /\ good(c)
  BY <1>1, <1>4, <1>5, <1>6, <1>7, <1>9, CombinedFacts
<1>10. CASE ~(good(a) /\ good(b) /\ good(c))
  <2>1. R \in Num /\ T \in Num /\ (R = NaN \/ t = NaN) /\ (r = NaN \/ T = NaN)
    BY <1>5, <1>6, <1>7, <1>8, <1>10, NumCases
  <2>2. Combined(R, t) = NaN /\ Combined(r, T) = NaN
    BY <1>1, <2>1, CombinedFacts
  <2> QED  BY <1>4, <1>5, <2>2
<1> QED  BY <1>9, <1>10

\* To divide twice is to divide by the product, unless the first divisor's
\* e_flag is lost in it: see UnitDividesTwice.
LEMMA QuotientsAssociate ==
  ASSUME NEW u \in UncertainType, NEW v \in UncertainType, NEW w \in UncertainType,
         "e_flag" \notin v.units.base.flags
  PROVE  Quotient(Quotient(u, v), w) = Quotient(u, Product(v, w))
<1> DEFINE a == u.value
           b == v.value
           c == w.value
           r == relative(u)
           s == relative(v)
           t == relative(w)
           P == UnitDivides(u.units, v.units)
           Q == UnitTimes(v.units, w.units)
           W == UnitDivides(P, w.units)
           good(x) == x \in Fraction /\ x # Zero
<1>1. /\ a \in Num /\ b \in Num /\ c \in Num /\ r \in Num /\ s \in Num /\ t \in Num
      /\ u.units \in UnitType /\ v.units \in UnitType /\ w.units \in UnitType
  BY UncertainParts, RelativeTyped
<1>2. P \in UnitType /\ Q \in UnitType /\ W = UnitDivides(u.units, Q)
  <2>1. P \in UnitType /\ Q \in UnitType
    BY <1>1, UnitsTyped
  <2>2. W = UnitDivides(u.units, Q)
    BY <1>1, UnitDividesTwice
  <2> QED  BY <2>1, <2>2
<1>3. /\ Quotient(u, v) = WithTolerance(a // b, Combined(r, s), P)
      /\ Product(v, w) = WithTolerance(b ** c, Combined(s, t), Q)
  BY DEF Product, Quotient
<1> DEFINE R == relative(Quotient(u, v))
           T == relative(Product(v, w))
<1>4. /\ Quotient(Quotient(u, v), w) = WithTolerance((a // b) // c, Combined(R, t), W)
      /\ Quotient(u, Product(v, w)) = WithTolerance(a // (b ** c), Combined(r, T), W)
  <2>1. /\ Quotient(u, v).value = a // b /\ Quotient(u, v).units = P
        /\ Product(v, w).value = b ** c /\ Product(v, w).units = Q
    BY <1>3 DEF WithTolerance, uncertain
  <2>2. /\ Quotient(Quotient(u, v), w)
             = WithTolerance(Quotient(u, v).value // c, Combined(R, t),
                             UnitDivides(Quotient(u, v).units, w.units))
        /\ Quotient(u, Product(v, w))
             = WithTolerance(a // Product(v, w).value, Combined(r, T),
                             UnitDivides(u.units, Product(v, w).units))
    BY DEF Quotient
  <2> QED  BY <1>2, <2>1, <2>2
<1>5. /\ a // b \in Num /\ b ** c \in Num /\ (a // b) // c = a // (b ** c)
      /\ (a // b) // c \in Num
      /\ Combined(r, s) \in Num /\ Combined(s, t) \in Num
  <2>1. a // b \in Num /\ b ** c \in Num
    BY <1>1, NumClosure
  <2>2. (a // b) // c \in Num
    BY <1>1, <2>1, NumClosure
  <2>3. (a // b) // c = a // (b ** c)
    BY <1>1, QuotientLaws
  <2>4. Combined(r, s) \in Num /\ Combined(s, t) \in Num
    BY <1>1, CombinedFacts
  <2> QED  BY <2>1, <2>2, <2>3, <2>4
<1>6. /\ good(a // b) <=> good(a) /\ good(b)
      /\ good(b ** c) <=> good(b) /\ good(c)
  <2>1. \A x, y \in Num : good(x ** y) <=> good(x) /\ good(y)
    <3> TAKE x, y \in Num
    <3>1. CASE x \in Fraction /\ y \in Fraction
      BY <3>1, FractionClosure, NoZeroDivisors
    <3>2. CASE x = NaN \/ y = NaN
      <4>1. x ** y = NaN
        BY <3>2, NaNAbsorbs
      <4> QED  BY <3>2, <4>1, NumCases
    <3> QED  BY <3>1, <3>2 DEF Num
  <2>2. Reciprocal(b) \in Num /\ (good(Reciprocal(b)) <=> good(b)) /\ a // b = a ** Reciprocal(b)
    BY <1>1, ReciprocalTyped, NumQuotient, NumCases
  <2> QED  BY <1>1, <2>1, <2>2
<1>7. /\ (good(a // b) => R = Combined(r, s)) /\ (~good(a // b) => R = NaN)
      /\ (good(b ** c) => T = Combined(s, t)) /\ (~good(b ** c) => T = NaN)
  BY <1>2, <1>3, <1>5, RelativeOfTolerance
<1>8. (~good(a) => r = NaN) /\ (~good(b) => s = NaN) /\ (~good(c) => t = NaN)
  BY <1>1, RelativeTyped, NumCases
<1> HIDE DEF a, b, c, r, s, t, P, Q, W, R, T
<1>9. CASE good(a) /\ good(b) /\ good(c)
  BY <1>1, <1>4, <1>5, <1>6, <1>7, <1>9, CombinedFacts
<1>10. CASE ~(good(a) /\ good(b) /\ good(c))
  <2>1. R \in Num /\ T \in Num /\ (R = NaN \/ t = NaN) /\ (r = NaN \/ T = NaN)
    BY <1>5, <1>6, <1>7, <1>8, <1>10, NumCases
  <2>2. Combined(R, t) = NaN /\ Combined(r, T) = NaN
    BY <1>1, <2>1, CombinedFacts
  <2> QED  BY <1>4, <1>5, <2>2
<1> QED  BY <1>9, <1>10

\* The order of sums and differences.
LEMMA SumsAssociate ==
  ASSUME NEW u \in UncertainType, NEW v \in UncertainType, NEW w \in UncertainType,
         Proportional(v.units, u.units), Proportional(w.units, u.units)
  PROVE  /\ Sum(Sum(u, v), w) = Sum(u, Sum(v, w))
         /\ Difference(Difference(u, v), w) = Difference(u, Sum(v, w))
<1> DEFINE U == u.units
           K == Ratio(v.units, U)
           L == Ratio(w.units, U)
           M == Ratio(w.units, v.units)
           a == u.value
           b == v.value
           c == w.value
           r == u.uncertainty
           s == v.uncertainty
           t == w.uncertainty
           S == Sum(u, v)
           D == Difference(u, v)
           V == Sum(v, w)
<1>1. /\ a \in Num /\ b \in Num /\ c \in Num /\ r \in Num /\ s \in Num /\ t \in Num
      /\ U \in UnitType /\ v.units \in UnitType /\ w.units \in UnitType
      /\ Proportional(w.units, v.units)
  BY UncertainParts, ProportionalRelation
<1>2. /\ K \in Num /\ K \in Positive /\ L \in Num /\ M \in Num /\ K ** M = L
  <2>1. K \in Num /\ K \in Positive /\ L \in Num /\ M \in Num
    BY <1>1, RatioTyped
  <2>2. M ** K = L
    BY <1>1, RatioChain
  <2> QED  BY <2>1, <2>2, NumLaws
<1>3. /\ S = uncertain(a ++ (K ** b), Combined(r, Scaled(s, K)), U) /\ S \in UncertainType
      /\ D = uncertain(a -- (K ** b), Combined(r, Scaled(s, K)), U) /\ D \in UncertainType
      /\ Scaled(s, K) \in Num /\ K ** b \in Num
  BY ProportionalSum
<1>4. /\ V = uncertain(b ++ (M ** c), Combined(s, Scaled(t, M)), v.units)
      /\ V \in UncertainType /\ Scaled(t, M) \in Num /\ M ** c \in Num
  BY <1>1, ProportionalSum
<1>5. S.units = U /\ D.units = U /\ V.units = v.units
  BY <1>3, <1>4 DEF uncertain
<1> DEFINE SS == Sum(S, w)
           DD == Difference(D, w)
           SV == Sum(u, V)
           DV == Difference(u, V)
<1>6. /\ SS = uncertain(S.value ++ (L ** c), Combined(S.uncertainty, Scaled(t, L)), U)
      /\ DD = uncertain(D.value -- (L ** c), Combined(D.uncertainty, Scaled(t, L)), U)
      /\ L ** c \in Num /\ Scaled(t, L) \in Num
  <2>1. SS = uncertain(S.value ++ (L ** c), Combined(S.uncertainty, Scaled(t, L)), U)
    BY <1>3, <1>5, ProportionalSum
  <2>2. DD = uncertain(D.value -- (L ** c), Combined(D.uncertainty, Scaled(t, L)), U)
    BY <1>3, <1>5, ProportionalSum
  <2>3. L ** c \in Num /\ Scaled(t, L) \in Num
    BY <1>1, <1>2, NumClosure, ToleranceTyped
  <2> QED  BY <2>1, <2>2, <2>3
<1>7. /\ SV = uncertain(a ++ (K ** V.value), Combined(r, Scaled(V.uncertainty, K)), U)
      /\ DV = uncertain(a -- (K ** V.value), Combined(r, Scaled(V.uncertainty, K)), U)
  BY <1>4, <1>5, ProportionalSum
<1>8. /\ S.value = a ++ (K ** b) /\ S.uncertainty = Combined(r, Scaled(s, K))
      /\ D.value = a -- (K ** b) /\ D.uncertainty = Combined(r, Scaled(s, K))
      /\ V.value = b ++ (M ** c) /\ V.uncertainty = Combined(s, Scaled(t, M))
  BY <1>3, <1>4 DEF uncertain
<1>k. Spread(K) \in Positive
  BY <1>2, SpreadFacts
<1> HIDE DEF U, K, L, M, a, b, c, r, s, t, S, D, V, SS, DD, SV, DV
<1>9. K ** V.value = (K ** b) ++ (L ** c)
  <2>1. K ** (b ++ (M ** c)) = (K ** b) ++ (K ** (M ** c))
    BY <1>1, <1>2, <1>4, NumLaws
  <2>2. K ** (M ** c) = (K ** M) ** c
    BY <1>1, <1>2, NumLaws
  <2> QED  BY <1>2, <1>8, <2>1, <2>2
<1>10. Scaled(V.uncertainty, K) = Combined(Scaled(s, K), Scaled(t, L))
  <2>1. Combined(s, Scaled(t, M)) ** Spread(K)
          = Combined(s ** Spread(K), Scaled(t, M) ** Spread(K))
    BY <1>1, <1>4, <1>k, CombinedScales
  <2>2. Scaled(Scaled(t, M), K) = Scaled(t, L)
    BY <1>1, <1>2, ScaledTwice
  <2> QED  BY <1>8, <2>1, <2>2 DEF Scaled
<1>11. Combined(Combined(r, Scaled(s, K)), Scaled(t, L))
         = Combined(r, Combined(Scaled(s, K), Scaled(t, L)))
  BY <1>1, <1>3, <1>6, CombinedFacts
<1>12. (a ++ (K ** b)) ++ (L ** c) = a ++ ((K ** b) ++ (L ** c))
  BY <1>1, <1>3, <1>6, NumLaws
<1>13. (a -- (K ** b)) -- (L ** c) = a -- ((K ** b) ++ (L ** c))
  BY <1>1, <1>3, <1>6, DifferenceLaws
<1>14. SS = SV
  BY <1>6, <1>7, <1>8, <1>9, <1>10, <1>11, <1>12
<1>15. DD = DV
  BY <1>6, <1>7, <1>8, <1>9, <1>10, <1>11, <1>13
<1> QED  BY <1>14, <1>15 DEF SS, DD, SV, DV, S, D, V

\* The same for the measurement held and any two operands.
LEMMA OrderDoesNotMatterHere == UncertainInv => OrderDoesNotMatter
<1> SUFFICES ASSUME UncertainInv, IsNumber(um.value), NEW v \in Operands, NEW w \in Operands
             PROVE  /\ Product(Product(um, v), w) = Product(um, Product(v, w))
                    /\ "e_flag" \notin v.units.base.flags =>
                         Quotient(Quotient(um, v), w) = Quotient(um, Product(v, w))
                    /\ Proportional(v.units, um.units) /\ Proportional(w.units, um.units) =>
                         /\ Sum(Sum(um, v), w) = Sum(um, Sum(v, w))
                         /\ Difference(Difference(um, v), w) = Difference(um, Sum(v, w))
  BY DEF OrderDoesNotMatter
<1>1. um \in UncertainType /\ v \in UncertainType /\ w \in UncertainType
  BY OperandParts DEF UncertainInv
<1> QED  BY <1>1, ProductsAssociate, QuotientsAssociate, SumsAssociate

(***************************************************************************)
(* A measurement is an uncertain measurement without uncertainty.          *)
(***************************************************************************)
LEMMA MeasurementParts ==
  ASSUME NEW m \in Measurements
  PROVE  /\ m = measurement(m.value, m.units) /\ m.value \in Fraction /\ m.value \in Num
         /\ m.units \in UnitType
         /\ Certain(m) \in UncertainType
         /\ Certain(m).value = m.value /\ Certain(m).uncertainty = Zero
         /\ Certain(m).units = m.units
<1>1. PICK v \in Operand : m = measurement(v.value, v.units)
  BY DEF Measurements, AsMeasurement
<1>2. v \in Numbered
  BY OperandAssumption
<1>3. m.value = v.value /\ m.units = v.units
  BY <1>1 DEF measurement
<1>4. m.value \in Fraction /\ m.value \in Num /\ m.units \in UnitType
  BY <1>2, <1>3, NumCases DEF Numbered
<1> QED  BY <1>1, <1>3, <1>4, NumCases DEF Certain, uncertain, UncertainType

\* No uncertainty stays none, whatever it is scaled by.
LEMMA ZeroScaled ==
  ASSUME NEW x \in Fraction
  PROVE  /\ Scaled(Zero, x) = Zero
         /\ x # Zero => Zero // Spread(x) = Zero
<1>1. /\ Spread(x) \in Fraction /\ Spread(x) \in Num
      /\ x # Zero => Spread(x) # Zero
  BY SpreadFacts, NumCases
<1>2. Scaled(Zero, x) = Zero
  BY <1>1, FractionUnits DEF Scaled
<1>3. ASSUME x # Zero PROVE Zero // Spread(x) = Zero
  <2>1. Reciprocal(Spread(x)) \in Fraction
    BY <1>1, <1>3, ReciprocalTyped
  <2> QED  BY <1>1, <2>1, NumQuotient, NumCases, FractionUnits
<1> QED  BY <1>2, <1>3

\* Combined with no uncertainty, one is what it was, up to its sign.
LEMMA CombinedWithNone ==
  ASSUME NEW t \in Num, NEW x \in Num
  PROVE  /\ Absolute(Scaled(Combined(t, Zero), x)) = Absolute(Scaled(t, x))
         /\ Absolute(Scaled(Combined(Zero, t), x)) = Absolute(Scaled(t, x))
<1>1. Combined(t, Zero) \in Num /\ Combined(Zero, t) \in Num /\ Spread(x) \in Num
  BY CombinedFacts, SpreadFacts, NumCases
<1>2. /\ Absolute(Combined(t, Zero)) = Absolute(t)
      /\ Absolute(Combined(Zero, t)) = Absolute(t)
  BY CombinedFacts
<1> QED  BY <1>1, <1>2, AbsoluteTimes DEF Scaled

\* Products and quotients with a measurement of a value that is not zero.
LEMMA CertainProducts ==
  ASSUME NEW u \in UncertainType, NEW m \in Measurements,
         u.value \in Fraction, u.value # Zero, m.value # Zero
  PROVE  /\ Agree(TimesMeasurement(u, m), Product(u, Certain(m)))
         /\ Agree(DividesMeasurement(u, m), Quotient(u, Certain(m)))
         /\ Agree(MeasurementDivides(m, u), Quotient(Certain(m), u))
<1> DEFINE a == u.value
           b == m.value
           t == u.uncertainty
           A == Spread(a)
           B == Spread(b)
           v == Certain(m)
<1>1. /\ t \in Num /\ a \in Num /\ b \in Num /\ b \in Fraction
      /\ v.value = b /\ v.uncertainty = Zero /\ v.units = m.units
  BY UncertainParts, MeasurementParts
<1>2. /\ A \in Fraction /\ A # Zero /\ A \in Num /\ B \in Fraction /\ B # Zero /\ B \in Num
  BY <1>1, SpreadFacts
<1>3. relative(v) = Zero /\ relative(u) = t // A
  BY <1>1, ZeroScaled DEF relative
<1>4. t // A \in Num /\ a ** b \in Num /\ a // b \in Num /\ b // a \in Num
  BY <1>1, <1>2, NumClosure
<1>5. /\ Spread(a ** b) = A ** B /\ Spread(a // b) = A // B
  BY <1>1, SpreadTimes, SpreadQuotient
<1>6. /\ Product(u, v) = uncertain(a ** b, Scaled(Combined(t // A, Zero), a ** b),
                                   UnitTimes(u.units, m.units))
      /\ Quotient(u, v) = uncertain(a // b, Scaled(Combined(t // A, Zero), a // b),
                                    UnitDivides(u.units, m.units))
      /\ Quotient(v, u) = uncertain(b // a, Scaled(Combined(Zero, t // A), b // a),
                                    UnitDivides(m.units, u.units))
  BY <1>1, <1>3 DEF Product, Quotient, WithTolerance
<1>7. /\ TimesMeasurement(u, m) = uncertain(a ** b, t ** B, UnitTimes(u.units, m.units))
      /\ DividesMeasurement(u, m) = uncertain(a // b, t // B, UnitDivides(u.units, m.units))
      /\ MeasurementDivides(m, u) = uncertain(b // a, Scaled(t // A, b // a),
                                              UnitDivides(m.units, u.units))
  BY <1>3 DEF TimesMeasurement, DividesMeasurement, MeasurementDivides, WithTolerance, Scaled
<1> HIDE DEF a, b, t, A, B, v
<1>8. (t // A) ** A = t
  <2>1. (t // A) ** A = t ** (Reciprocal(A) ** A) /\ Reciprocal(A) ** A = One
    <3>1. Reciprocal(A) \in Num /\ A ** Reciprocal(A) = One
      BY <1>2, ReciprocalTyped
    <3> QED  BY <1>1, <1>2, <3>1, NumQuotient, NumLaws
  <2> QED  BY <1>1, <2>1, NumUnits
<1>9. (t // A) ** (A ** B) = t ** B
  <2>1. (t // A) ** (A ** B) = ((t // A) ** A) ** B
    BY <1>2, <1>4, NumLaws
  <2> QED  BY <1>8, <2>1
<1>10. (t // A) ** (A // B) = t // B
  <2>1. (t // A) ** (A // B) = ((t // A) ** A) // B
    BY <1>2, <1>4, QuotientLaws
  <2> QED  BY <1>8, <2>1
<1>11. /\ Absolute(Scaled(Combined(t // A, Zero), a ** b)) = Absolute(t ** B)
       /\ Absolute(Scaled(Combined(t // A, Zero), a // b)) = Absolute(t // B)
       /\ Absolute(Scaled(Combined(Zero, t // A), b // a)) = Absolute(Scaled(t // A, b // a))
  <2>1. Scaled(t // A, a ** b) = t ** B /\ Scaled(t // A, a // b) = t // B
    BY <1>5, <1>9, <1>10 DEF Scaled
  <2> QED  BY <1>4, <2>1, CombinedWithNone
<1>12. Agree(TimesMeasurement(u, m), Product(u, v))
  BY <1>6, <1>7, <1>11 DEF Agree, uncertain, AsMeasurement
<1>13. Agree(DividesMeasurement(u, m), Quotient(u, v))
  BY <1>6, <1>7, <1>11 DEF Agree, uncertain, AsMeasurement
<1>14. Agree(MeasurementDivides(m, u), Quotient(v, u))
  BY <1>6, <1>7, <1>11 DEF Agree, uncertain, AsMeasurement
<1> QED  BY <1>12, <1>13, <1>14 DEF v

\* Sums and differences with a measurement that converts by a factor.
LEMMA CertainSums ==
  ASSUME NEW u \in UncertainType, NEW m \in Measurements,
         Proportional(m.units, u.units)
  PROVE  /\ Agree(PlusMeasurement(u, m), Sum(u, Certain(m)))
         /\ Agree(MinusMeasurement(u, m), Difference(u, Certain(m)))
         /\ Agree(MeasurementPlus(m, u), Sum(Certain(m), u))
         /\ Agree(MeasurementMinus(m, u), Difference(Certain(m), u))
         /\ value_as(m, u.units) = Ratio(m.units, u.units) ** m.value
<1> DEFINE a == u.value
           b == m.value
           t == u.uncertainty
           v == Certain(m)
           k == Ratio(m.units, u.units)
           K == Ratio(u.units, m.units)
<1>1. /\ t \in Num /\ a \in Num /\ b \in Num /\ v \in UncertainType
      /\ v.value = b /\ v.uncertainty = Zero /\ v.units = m.units
      /\ u.units \in UnitType /\ m.units \in UnitType /\ Proportional(u.units, m.units)
      /\ m = measurement(b, m.units)
  BY UncertainParts, MeasurementParts, ProportionalRelation
<1>2. /\ k \in Fraction /\ k \in Num /\ K \in Num /\ factor(u.units, m.units) = K
      /\ value_as(m, u.units) = b ** k
  <2>1. k \in Fraction /\ k \in Num /\ K \in Num
    BY <1>1, RatioTyped
  <2>2. factor(u.units, m.units) = K
    BY <1>1, Conversion
  <2>3. value_as(measurement(b, m.units), u.units) = b ** k
    BY <1>1, Conversion
  <2> QED  BY <1>1, <2>1, <2>2, <2>3
<1>3. b ** k = k ** b /\ Scaled(Zero, k) = Zero
  BY <1>1, <1>2, NumLaws, ZeroScaled
<1>4. /\ Sum(u, v) = uncertain(a ++ (k ** b), Combined(t, Zero), u.units)
      /\ Difference(u, v) = uncertain(a -- (k ** b), Combined(t, Zero), u.units)
  BY <1>1, <1>3, ProportionalSum
<1>5. /\ Sum(v, u) = uncertain(b ++ (K ** a), Combined(Zero, Scaled(t, K)), m.units)
      /\ Difference(v, u) = uncertain(b -- (K ** a), Combined(Zero, Scaled(t, K)), m.units)
      /\ Scaled(t, K) \in Num
  BY <1>1, ProportionalSum
<1>6. /\ PlusMeasurement(u, m) = uncertain(a ++ (k ** b), t, u.units)
      /\ MinusMeasurement(u, m) = uncertain(a -- (k ** b), t, u.units)
      /\ MeasurementPlus(m, u) = uncertain(b ++ (K ** a), Scaled(t, K), m.units)
      /\ MeasurementMinus(m, u) = uncertain(b -- (K ** a), Scaled(t, K), m.units)
  BY <1>2, <1>3 DEF PlusMeasurement, MinusMeasurement, MeasurementPlus, MeasurementMinus
<1> HIDE DEF a, b, t, v, k, K
<1>7. /\ Absolute(Combined(t, Zero)) = Absolute(t)
      /\ Absolute(Combined(Zero, Scaled(t, K))) = Absolute(Scaled(t, K))
  BY <1>1, <1>5, CombinedFacts
<1>8. /\ Agree(PlusMeasurement(u, m), Sum(u, v))
      /\ Agree(MinusMeasurement(u, m), Difference(u, v))
  BY <1>4, <1>6, <1>7 DEF Agree, uncertain, AsMeasurement
<1>9. /\ Agree(MeasurementPlus(m, u), Sum(v, u))
      /\ Agree(MeasurementMinus(m, u), Difference(v, u))
  BY <1>5, <1>6, <1>7 DEF Agree, uncertain, AsMeasurement
<1> QED  BY <1>2, <1>3, <1>8, <1>9 DEF v, k, b

\* Comparisons with one that do not look at uncertainties.
LEMMA CertainOrder ==
  ASSUME NEW u \in UncertainType, NEW m \in Measurements
  PROVE  /\ GreaterThanMeasurement(u, m) <=> GreaterThan(u, Certain(m))
         /\ LessThanMeasurement(u, m) <=> LessThan(u, Certain(m))
         /\ m.units = u.units =>
              /\ MeasurementGreaterThan(m, u) <=> GreaterThan(Certain(m), u)
              /\ MeasurementLessThan(m, u) <=> LessThan(Certain(m), u)
<1>1. /\ AsMeasurement(Certain(m)) = m
      /\ Certain(m).value = m.value /\ Certain(m).units = m.units
  BY MeasurementParts DEF AsMeasurement
<1>2. m.units = u.units => value_as(AsMeasurement(u), m.units) = u.value
  BY DEF value_as, AsMeasurement, measurement
<1>3. /\ GreaterThanMeasurement(u, m) <=> GreaterThan(u, Certain(m))
      /\ LessThanMeasurement(u, m) <=> LessThan(u, Certain(m))
  BY <1>1 DEF GreaterThanMeasurement, LessThanMeasurement, GreaterThan, LessThan
<1>4. m.units = u.units =>
        /\ MeasurementGreaterThan(m, u) <=> GreaterThan(Certain(m), u)
        /\ MeasurementLessThan(m, u) <=> LessThan(Certain(m), u)
  BY <1>1, <1>2 DEF MeasurementGreaterThan, MeasurementLessThan, GreaterThan, LessThan
<1> QED  BY <1>3, <1>4

\* The others, where uncertainties are simply added.
LEMMA CertainComparisons ==
  ASSUME NEW u \in UncertainType, NEW m \in Measurements,
         Proportional(m.units, u.units), ~Squares, u.value \in Fraction
  PROVE  /\ EqualsMeasurement(u, m) <=> Equals(u, Certain(m))
         /\ EqualsMeasurement(u, m) <=> Equals(Certain(m), u)
         /\ AtLeastMeasurement(u, m) <=> AtLeast(u, Certain(m))
         /\ NotMoreThanMeasurement(u, m) <=> NotMore(u, Certain(m))
<1> DEFINE a == u.value
           v == Certain(m)
           x == Ratio(m.units, u.units) ** m.value
           d == Difference(u, v).value
           t == Difference(u, v).uncertainty
<1>1. /\ v \in UncertainType /\ v.value = m.value /\ v.units = m.units /\ v.uncertainty = Zero
      /\ m.value \in Fraction /\ u.units \in UnitType /\ m.units \in UnitType
      /\ u.uncertainty \in Num
  BY UncertainParts, MeasurementParts
<1>2. x \in Fraction /\ Ratio(m.units, u.units) \in Fraction
  BY <1>1, RatioTyped, FractionClosure
<1>3. value_as(m, u.units) = x
  BY CertainSums
<1>4. d = a -- x /\ t = u.uncertainty
  <2>1. Difference(u, v) = uncertain(a -- x, Combined(u.uncertainty,
                              Scaled(Zero, Ratio(m.units, u.units))), u.units)
    BY <1>1, ProportionalSum
  <2>2. Combined(u.uncertainty, Scaled(Zero, Ratio(m.units, u.units))) = u.uncertainty
    BY <1>1, <1>2, ZeroScaled, CombinedFacts
  <2> QED  BY <2>1, <2>2 DEF uncertain
<1>5. d \in Fraction /\ t \in Num /\ (Equals(u, v) <=> Within(t, d))
  BY <1>1, EqualsIsWithin
<1>6. EqualsMeasurement(u, m) <=> Within(u.uncertainty, x -- a)
  BY <1>3 DEF EqualsMeasurement, Within, Spread
<1>7. AtLeast(u, v) <=> AtMost(Zero, d) \/ Equals(u, v)
  BY DEF AtLeast
<1>8. NotMore(u, v) <=> AtMost(d, Zero) \/ Equals(u, v)
  BY DEF NotMore
<1>9. /\ AtLeastMeasurement(u, m) <=> AtMost(x, a) \/ EqualsMeasurement(u, m)
      /\ NotMoreThanMeasurement(u, m) <=> AtMost(a, x) \/ EqualsMeasurement(u, m)
  BY <1>3 DEF AtLeastMeasurement, NotMoreThanMeasurement
<1> HIDE DEF a, x, d, t, v
<1>10. a \in Fraction
  BY DEF a
<1>11. x -- a = Minus(d)
  BY <1>2, <1>4, <1>10, DifferenceLaws, NumCases
<1>12. EqualsMeasurement(u, m) <=> Equals(u, v)
  BY <1>4, <1>5, <1>6, <1>11, WithinMinus
<1>13. AtMost(x, a) <=> AtMost(Zero, d)
  BY <1>2, <1>4, <1>10, OrderOfNumbers
<1>14. AtMost(a, x) <=> AtMost(d, Zero)
  <2>1. AtMost(a, x) <=> AtMost(Zero, x -- a)
    BY <1>2, <1>10, OrderOfNumbers
  <2>2. AtMost(d, Zero) <=> AtMost(Zero, Minus(d))
    BY <1>5, OrderOfNumbers
  <2> QED  BY <1>11, <2>1, <2>2
<1>15. Equals(u, v) <=> Equals(v, u)
  BY <1>1, <1>10, ComparisonsTurn DEF a
<1> QED  BY <1>7, <1>8, <1>9, <1>12, <1>13, <1>14, <1>15 DEF v

\* With the measurement on the left, in the same unit: where the two values
\* are equal the uncertainty, unless it is negative, makes them equal.
LEMMA CertainOnTheLeft ==
  ASSUME NEW u \in UncertainType, NEW m \in Measurements, m.units = u.units,
         ~Squares, u.value \in Fraction, AtMost(Zero, u.uncertainty)
  PROVE  /\ MeasurementAtLeast(m, u) <=> AtLeast(Certain(m), u)
         /\ MeasurementNotMore(m, u) <=> NotMore(Certain(m), u)
<1> DEFINE v == Certain(m)
<1>1. /\ v \in UncertainType /\ v.value = m.value /\ v.units = u.units
      /\ m.value \in Fraction /\ u.units \in UnitType /\ u.uncertainty \in Num
      /\ Proportional(u.units, v.units) /\ Proportional(m.units, u.units)
  BY UncertainParts, MeasurementParts DEF Proportional
<1>2. EqualsMeasurement(u, m) <=> Equals(v, u)
  BY <1>1, CertainComparisons
<1>3. Difference(v, u).value = m.value -- u.value
  <2>1. Difference(v, u) = uncertain(m.value -- (Ratio(u.units, u.units) ** u.value),
                             Combined(v.uncertainty,
                               Scaled(u.uncertainty, Ratio(u.units, u.units))), u.units)
    BY <1>1, ProportionalSum
  <2>2. Ratio(u.units, u.units) ** u.value = u.value
    BY <1>1, RatioTyped, NumUnits, NumCases
  <2> QED  BY <2>1, <2>2 DEF uncertain
<1>4. m.value = u.value => EqualsMeasurement(u, m)
  <2>1. ASSUME m.value = u.value PROVE value_as(m, u.units) -- u.value = Zero
    BY <1>1, <2>1, FractionUnits DEF value_as, --
  <2>2. AtMost(Minus(u.uncertainty), Zero)
    <3>1. u.uncertainty \in Fraction
      BY <1>1, NumCases DEF AtMost, IsNumber
    <3>2. Minus(u.uncertainty) \in Fraction /\ Minus(Minus(u.uncertainty)) = u.uncertainty
      BY <3>1, FractionClosure, MinusTwice, NumCases
    <3> QED  BY <3>1, <3>2, OrderOfNumbers
  <2> QED  BY <2>1, <2>2 DEF EqualsMeasurement, Spread
<1>5. AtLeast(v, u) <=> AtMost(Zero, m.value -- u.value) \/ Equals(v, u)
  BY <1>3 DEF AtLeast
<1>6. NotMore(v, u) <=> AtMost(m.value -- u.value, Zero) \/ Equals(v, u)
  BY <1>3 DEF NotMore
<1>7. /\ AtMost(Zero, m.value -- u.value) <=> AtMost(u.value, m.value)
      /\ AtMost(m.value -- u.value, Zero) <=> AtMost(m.value, u.value)
  <2>1. /\ m.value -- u.value \in Fraction /\ m.value \in Num /\ u.value \in Num
    BY <1>1, FractionClosure, NumCases
  <2>2. Minus(m.value -- u.value) = u.value -- m.value
    BY <2>1, DifferenceLaws
  <2>3. AtMost(m.value -- u.value, Zero) <=> AtMost(Zero, u.value -- m.value)
    BY <2>1, <2>2, OrderOfNumbers
  <2> QED  BY <1>1, <2>3, OrderOfNumbers
<1>8. /\ Less(u.value, m.value) <=> AtMost(u.value, m.value) /\ m.value # u.value
      /\ Less(m.value, u.value) <=> AtMost(m.value, u.value) /\ m.value # u.value
  BY DEF Less
<1> QED
  BY <1>2, <1>4, <1>5, <1>6, <1>7, <1>8
  DEF MeasurementAtLeast, MeasurementNotMore, MeasurementGreaterThan, MeasurementLessThan

\* The same for the measurement held and any measurement.
LEMMA MeasurementIsCertainHere == UncertainInv => MeasurementIsCertain
<1> SUFFICES ASSUME UncertainInv, IsNumber(um.value), NEW m \in Measurements
             PROVE  /\ Zero \notin {um.value, m.value} => MultipliesAsCertain(m, Certain(m))
                    /\ Proportional(m.units, um.units) =>
                         AddsAsCertain(m, Certain(m)) /\ ComparesAsCertain(m, Certain(m))
                    /\ m.units = um.units => ComparesAsCertainOnTheLeft(m, Certain(m))
  BY DEF MeasurementIsCertain
<1>1. um \in UncertainType /\ um.value \in Fraction
  BY UncertainParts, NumCases DEF UncertainInv, IsNumber
<1>2. ASSUME Zero \notin {um.value, m.value} PROVE MultipliesAsCertain(m, Certain(m))
  BY <1>1, <1>2, CertainProducts DEF MultipliesAsCertain
<1>3. ASSUME Proportional(m.units, um.units)
      PROVE  AddsAsCertain(m, Certain(m)) /\ ComparesAsCertain(m, Certain(m))
  <2>1. AddsAsCertain(m, Certain(m))
    BY <1>1, <1>3, CertainSums DEF AddsAsCertain
  <2>2. ComparesAsCertain(m, Certain(m))
    BY <1>1, <1>3, CertainOrder, CertainComparisons DEF ComparesAsCertain
  <2> QED  BY <2>1, <2>2
<1>4. ASSUME m.units = um.units PROVE ComparesAsCertainOnTheLeft(m, Certain(m))
  BY <1>1, <1>4, CertainOrder, CertainOnTheLeft DEF ComparesAsCertainOnTheLeft
<1> QED  BY <1>2, <1>3, <1>4

(***************************************************************************)
(* Every call keeps the invariant.                                         *)
(***************************************************************************)
LEMMA ConvertTyped ==
  ASSUME NEW x \in Num, NEW s \in UnitType, NEW r \in UnitType
  PROVE  convert(x, s, r) \in Num /\ factor(s, r) \in Num
<1>1. ASSUME NEW y \in Num PROVE convert(y, s, r) \in Num
  <2>1. s.multiplier \in Num /\ r.multiplier \in Num /\ Whole(1) \in Num
    BY UnitParts, NumCases DEF One
  <2>2. (y ** s.multiplier) // r.multiplier \in Num
    BY <2>1, NumClosure
  <2> QED  BY <2>2, NumCases DEF convert
<1> QED  BY <1>1, NumCases DEF factor, One

\* The value of a measurement in another unit is a number or NaN.
LEMMA ValueAsTyped ==
  ASSUME NEW x \in Num, NEW s \in UnitType, NEW r \in UnitType
  PROVE  value_as(measurement(x, s), r) \in Num
BY ConvertTyped DEF value_as, measurement

\* The two classes convert to the same value where a factor does.
LEMMA FactorOfValue ==
  ASSUME NEW x \in Num, NEW s \in UnitType, NEW r \in UnitType, Proportional(s, r)
  PROVE  /\ factor(s, r) ** x = value_as(measurement(x, s), r)
         /\ factor(s, r) ** x = convert(x, s, r)
<1>1. Ratio(s, r) \in Num
  BY RatioTyped
<1> QED  BY <1>1, Conversion, NumLaws

\* The results of calls are uncertain measurements.
LEMMA ResultsTyped ==
  ASSUME NEW u \in UncertainType, NEW v \in UncertainType
  PROVE  /\ Product(u, v) \in UncertainType /\ Quotient(u, v) \in UncertainType
         /\ Sum(u, v) \in UncertainType /\ Difference(u, v) \in UncertainType
         /\ Negative(u) \in UncertainType /\ Inverse(u) \in UncertainType
         /\ \A n \in {-1, 2} : RaisedTo(u, n) \in UncertainType
         /\ \A r \in UnitType : convert_to(u, r) \in UncertainType
<1>1. /\ u.value \in Num /\ u.uncertainty \in Num /\ u.units \in UnitType
      /\ v.value \in Num /\ v.uncertainty \in Num /\ v.units \in UnitType
      /\ relative(u) \in Num /\ One \in Num
  BY UncertainParts, RelativeTyped, NumCases
<1>2. /\ Product(u, v) \in UncertainType /\ Quotient(u, v) \in UncertainType
  BY OperationsTyped
<1>3. \A x, t \in Num, s \in UnitType : uncertain(x, t, s) \in UncertainType
  BY DEF uncertain, UncertainType
<1>4. \A t, x \in Num : Scaled(t, x) \in Num
  BY SpreadFacts, NumClosure DEF Scaled
<1>5. Sum(u, v) \in UncertainType /\ Difference(u, v) \in UncertainType
  <2> DEFINE c == factor(v.units, u.units)
  <2>1. c \in Num
    BY <1>1, ConvertTyped, NumCases
  <2>2. Sum(u, v) = uncertain(u.value ++ (c ** v.value),
                              Combined(u.uncertainty, Scaled(v.uncertainty, c)), u.units)
    BY DEF Sum
  <2>3. Difference(u, v) = uncertain(u.value -- (c ** v.value),
                              Combined(u.uncertainty, Scaled(v.uncertainty, c)), u.units)
    BY DEF Difference
  <2> HIDE DEF c
  <2>4. c ** v.value \in Num /\ Scaled(v.uncertainty, c) \in Num
    BY <1>1, <1>4, <2>1, NumClosure
  <2>5. u.value ++ (c ** v.value) \in Num /\ u.value -- (c ** v.value) \in Num
    BY <1>1, <2>4, NumClosure
  <2>6. Combined(u.uncertainty, Scaled(v.uncertainty, c)) \in Num
    BY <1>1, <2>4, CombinedFacts
  <2> QED  BY <1>1, <1>3, <2>2, <2>3, <2>5, <2>6
<1>6. Negative(u) \in UncertainType
  <2>1. Negative(u) = uncertain(Minus(u.value), u.uncertainty, u.units)
    BY UncertainParts DEF Negative, uncertain, UncertainType
  <2>2. Minus(u.value) \in Num
    BY <1>1, NumClosure
  <2> QED  BY <1>1, <1>3, <2>1, <2>2
<1>7. Inverse(u) \in UncertainType
  <2>1. One // u.value \in Num /\ UnitInv(u.units) \in UnitType
    BY <1>1, NumClosure, UnitsTyped
  <2> QED  BY <1>1, <2>1, ToleranceTyped DEF Inverse, One
<1>8. ASSUME NEW n \in {-1, 2} PROVE RaisedTo(u, n) \in UncertainType
  <2> DEFINE x == IntegerPower(u.value, n)
  <2>1. x \in Num
    BY <1>1, IntegerPowers, ReciprocalTyped, NumClosure
  <2>2. RaisedTo(u, n) = uncertain(x, Scaled(Scaled(relative(u), x), Whole(Abs(n))),
                                   UnitPow(u.units, n))
    BY DEF RaisedTo
  <2> HIDE DEF x
  <2>3. Whole(Abs(n)) \in Num
    <3>1. \A i \in Int : Abs(i) \in Int
      BY DEF Abs
    <3>2. n \in Int
      OBVIOUS
    <3> QED  BY <3>1, <3>2, WholeTyped, NumCases
  <2>4. UnitPow(u.units, n) \in UnitType
    BY <1>1, UnitsTyped
  <2> QED  BY <1>1, <1>3, <1>4, <2>1, <2>2, <2>3, <2>4
<1>9. ASSUME NEW r \in UnitType PROVE convert_to(u, r) \in UncertainType
  <2> DEFINE c == factor(u.units, r)
  <2>1. c \in Num
    BY <1>1, ConvertTyped, NumCases
  <2>2. convert_to(u, r) = uncertain(c ** u.value, Scaled(u.uncertainty, c), r)
    BY DEF convert_to
  <2> HIDE DEF c
  <2>3. c ** u.value \in Num /\ Scaled(u.uncertainty, c) \in Num
    BY <1>1, <1>4, <2>1, NumClosure
  <2> QED  BY <1>3, <2>2, <2>3
<1> QED  BY <1>2, <1>5, <1>6, <1>7, <1>8, <1>9

\* The operators with a measurement return uncertain measurements.
LEMMA MeasurementResultsTyped ==
  ASSUME NEW u \in UncertainType, NEW m \in Measurements
  PROVE  /\ TimesMeasurement(u, m) \in UncertainType
         /\ DividesMeasurement(u, m) \in UncertainType
         /\ PlusMeasurement(u, m) \in UncertainType
         /\ MinusMeasurement(u, m) \in UncertainType
         /\ MeasurementPlus(m, u) \in UncertainType
         /\ MeasurementMinus(m, u) \in UncertainType
         /\ MeasurementDivides(m, u) \in UncertainType
<1>1. /\ u.value \in Num /\ u.uncertainty \in Num /\ u.units \in UnitType
      /\ m.value \in Num /\ m.units \in UnitType /\ m = measurement(m.value, m.units)
      /\ relative(u) \in Num
  BY UncertainParts, RelativeTyped, MeasurementParts
<1>3. \A x, t \in Num, s \in UnitType : uncertain(x, t, s) \in UncertainType
  BY DEF uncertain, UncertainType
<1>4. \A t, x \in Num : Scaled(t, x) \in Num
  BY SpreadFacts, NumClosure DEF Scaled
<1>5. /\ UnitTimes(u.units, m.units) \in UnitType /\ UnitDivides(u.units, m.units) \in UnitType
      /\ UnitDivides(m.units, u.units) \in UnitType
  BY <1>1, UnitsTyped
<1>6. /\ u.value ** m.value \in Num /\ u.value // m.value \in Num /\ m.value // u.value \in Num
      /\ Spread(m.value) \in Num
  BY <1>1, NumClosure, SpreadFacts
<1>7. u.uncertainty // Spread(m.value) \in Num
  BY <1>1, <1>6, NumClosure
<1>8. TimesMeasurement(u, m) \in UncertainType
  BY <1>1, <1>3, <1>4, <1>5, <1>6 DEF TimesMeasurement
<1>9. DividesMeasurement(u, m) \in UncertainType
  BY <1>3, <1>5, <1>6, <1>7 DEF DividesMeasurement
<1>10. MeasurementDivides(m, u) \in UncertainType
  BY <1>1, <1>5, <1>6, ToleranceTyped DEF MeasurementDivides
<1>11. PlusMeasurement(u, m) \in UncertainType /\ MinusMeasurement(u, m) \in UncertainType
  <2> DEFINE x == value_as(m, u.units)
  <2>1. x \in Num
    BY <1>1, ValueAsTyped
  <2>2. PlusMeasurement(u, m) = uncertain(u.value ++ x, u.uncertainty, u.units)
    BY DEF PlusMeasurement
  <2>3. MinusMeasurement(u, m) = uncertain(u.value -- x, u.uncertainty, u.units)
    BY DEF MinusMeasurement
  <2> HIDE DEF x
  <2>4. u.value ++ x \in Num /\ u.value -- x \in Num
    BY <1>1, <2>1, NumClosure
  <2> QED  BY <1>1, <1>3, <2>2, <2>3, <2>4
<1>12. MeasurementPlus(m, u) \in UncertainType /\ MeasurementMinus(m, u) \in UncertainType
  <2> DEFINE c == factor(u.units, m.units)
  <2>1. c \in Num
    BY <1>1, ConvertTyped, NumCases
  <2>2. MeasurementPlus(m, u) = uncertain(m.value ++ (c ** u.value), Scaled(u.uncertainty, c), m.units)
    BY DEF MeasurementPlus
  <2>3. MeasurementMinus(m, u) = uncertain(m.value -- (c ** u.value), Scaled(u.uncertainty, c), m.units)
    BY DEF MeasurementMinus
  <2> HIDE DEF c
  <2>4. c ** u.value \in Num /\ Scaled(u.uncertainty, c) \in Num
    BY <1>1, <1>4, <2>1, NumClosure
  <2>5. m.value ++ (c ** u.value) \in Num /\ m.value -- (c ** u.value) \in Num
    BY <1>1, <2>4, NumClosure
  <2> QED  BY <1>1, <1>3, <2>2, <2>3, <2>4, <2>5
<1> QED  BY <1>8, <1>9, <1>10, <1>11, <1>12

\* A call without a conversion, and with one, that returns an uncertain
\* measurement and calculates what measurement does if a factor converts.
LEMMA CallKeepsInv ==
  ASSUME NEW result, NEW of_measurement, UncertainInv, result \in UncertainType,
         AsMeasurement(result) = of_measurement, Call(result, of_measurement)
  PROVE  UncertainInv'
BY DEF UncertainInv, Call, CalculatesAsMeasurement, meas, AsMeasurement

\* A call that converts: what it returns is what measurement calculates if the
\* conversion is by a factor, and is not compared otherwise.
LEMMA ConvertingCallKeepsInv ==
  ASSUME NEW start, NEW target, NEW result, NEW of_measurement, UncertainInv,
         result \in UncertainType,
         Proportional(start, target) => AsMeasurement(result) = of_measurement,
         ConvertingCall(start, target, result, of_measurement)
  PROVE  UncertainInv'
<1>1. Proportional(start, target) \in BOOLEAN
  BY DEF Proportional, SameBase
<1> QED  BY <1>1 DEF UncertainInv, ConvertingCall, CalculatesAsMeasurement, meas, AsMeasurement

\* um and the measurement it is are of the same value and units.
LEMMA MeasurementOf ==
  ASSUME NEW u \in UncertainType
  PROVE  /\ AsMeasurement(u) = measurement(u.value, u.units)
         /\ AsMeasurement(u).value = u.value /\ AsMeasurement(u).units = u.units
BY DEF AsMeasurement, measurement

\* The calls with an uncertain measurement.
LEMMA OperandCallsKeepInv ==
  ASSUME UncertainInv, NEW v \in Operands,
         Multiply(v) \/ Divide(v) \/ Add(v) \/ Subtract(v)
  PROVE  UncertainInv'
<1>1. /\ um \in UncertainType /\ v \in UncertainType
      /\ um.value \in Num /\ um.units \in UnitType /\ v.value \in Num /\ v.units \in UnitType
  BY OperandParts, UncertainParts DEF UncertainInv
<1>2. /\ Product(um, v) \in UncertainType /\ Quotient(um, v) \in UncertainType
      /\ Sum(um, v) \in UncertainType /\ Difference(um, v) \in UncertainType
  BY <1>1, ResultsTyped
<1>3. CASE Multiply(v)
  <2>1. AsMeasurement(Product(um, v)) = MeasTimes(meas, AsMeasurement(v))
    BY DEF AsMeasurement, Product, WithTolerance, uncertain, MeasTimes, measurement, meas
  <2> QED  BY <1>2, <1>3, <2>1, CallKeepsInv DEF Multiply
<1>4. CASE Divide(v)
  <2>1. AsMeasurement(Quotient(um, v)) = MeasDivides(meas, AsMeasurement(v))
    BY DEF AsMeasurement, Quotient, WithTolerance, uncertain, MeasDivides, measurement, meas
  <2> QED  BY <1>2, <1>4, <2>1, CallKeepsInv DEF Divide
<1>5. Proportional(v.units, um.units) =>
        factor(v.units, um.units) ** v.value = value_as(AsMeasurement(v), um.units)
  BY <1>1, FactorOfValue, MeasurementOf
<1>6. CASE Add(v)
  <2>1. Proportional(v.units, um.units) =>
          AsMeasurement(Sum(um, v)) = MeasPlus(meas, AsMeasurement(v))
    BY <1>5 DEF AsMeasurement, Sum, uncertain, MeasPlus, measurement, meas
  <2> QED  BY <1>2, <1>6, <2>1, ConvertingCallKeepsInv DEF Add
<1>7. CASE Subtract(v)
  <2>1. Proportional(v.units, um.units) =>
          AsMeasurement(Difference(um, v)) = MeasMinus(meas, AsMeasurement(v))
    BY <1>5 DEF AsMeasurement, Difference, uncertain, MeasMinus, measurement, meas
  <2> QED  BY <1>2, <1>7, <2>1, ConvertingCallKeepsInv DEF Subtract
<1> QED  BY <1>3, <1>4, <1>6, <1>7

\* The calls with a measurement.
LEMMA MeasurementCallsKeepInv ==
  ASSUME UncertainInv, NEW m \in Measurements,
         \/ MultiplyMeasurement(m) \/ DivideMeasurement(m)
         \/ AddMeasurement(m) \/ SubtractMeasurement(m)
         \/ AddToMeasurement(m) \/ SubtractFromMeasurement(m)
         \/ DivideIntoMeasurement(m)
  PROVE  UncertainInv'
<1>1. /\ um \in UncertainType /\ um.value \in Num /\ um.units \in UnitType
      /\ m.value \in Num /\ m.units \in UnitType
  BY MeasurementParts, UncertainParts DEF UncertainInv
<1>2. /\ TimesMeasurement(um, m) \in UncertainType
      /\ DividesMeasurement(um, m) \in UncertainType
      /\ PlusMeasurement(um, m) \in UncertainType
      /\ MinusMeasurement(um, m) \in UncertainType
      /\ MeasurementPlus(m, um) \in UncertainType
      /\ MeasurementMinus(m, um) \in UncertainType
      /\ MeasurementDivides(m, um) \in UncertainType
  BY <1>1, MeasurementResultsTyped
<1>3. CASE MultiplyMeasurement(m)
  <2>1. AsMeasurement(TimesMeasurement(um, m)) = MeasTimes(meas, m)
    BY DEF AsMeasurement, TimesMeasurement, uncertain, MeasTimes, measurement, meas
  <2> QED  BY <1>2, <1>3, <2>1, CallKeepsInv DEF MultiplyMeasurement
<1>4. CASE DivideMeasurement(m)
  <2>1. AsMeasurement(DividesMeasurement(um, m)) = MeasDivides(meas, m)
    BY DEF AsMeasurement, DividesMeasurement, uncertain, MeasDivides, measurement, meas
  <2> QED  BY <1>2, <1>4, <2>1, CallKeepsInv DEF DivideMeasurement
<1>5. CASE DivideIntoMeasurement(m)
  <2>1. AsMeasurement(MeasurementDivides(m, um)) = MeasDivides(m, meas)
    BY DEF AsMeasurement, MeasurementDivides, WithTolerance, uncertain, MeasDivides,
           measurement, meas
  <2> QED  BY <1>2, <1>5, <2>1, CallKeepsInv DEF DivideIntoMeasurement
<1>6. CASE AddMeasurement(m)
  <2>1. AsMeasurement(PlusMeasurement(um, m)) = MeasPlus(meas, m)
    BY DEF AsMeasurement, PlusMeasurement, uncertain, MeasPlus, measurement, meas
  <2> QED  BY <1>2, <1>6, <2>1, ConvertingCallKeepsInv DEF AddMeasurement
<1>7. CASE SubtractMeasurement(m)
  <2>1. AsMeasurement(MinusMeasurement(um, m)) = MeasMinus(meas, m)
    BY DEF AsMeasurement, MinusMeasurement, uncertain, MeasMinus, measurement, meas
  <2> QED  BY <1>2, <1>7, <2>1, ConvertingCallKeepsInv DEF SubtractMeasurement
<1>8. Proportional(um.units, m.units) =>
        factor(um.units, m.units) ** um.value = value_as(meas, m.units)
  BY <1>1, FactorOfValue, MeasurementOf DEF meas
<1>9. CASE AddToMeasurement(m)
  <2>1. Proportional(um.units, m.units) =>
          AsMeasurement(MeasurementPlus(m, um)) = MeasPlus(m, meas)
    BY <1>8 DEF AsMeasurement, MeasurementPlus, uncertain, MeasPlus, measurement
  <2> QED  BY <1>2, <1>9, <2>1, ConvertingCallKeepsInv DEF AddToMeasurement
<1>10. CASE SubtractFromMeasurement(m)
  <2>1. Proportional(um.units, m.units) =>
          AsMeasurement(MeasurementMinus(m, um)) = MeasMinus(m, meas)
    BY <1>8 DEF AsMeasurement, MeasurementMinus, uncertain, MeasMinus, measurement
  <2> QED  BY <1>2, <1>10, <2>1, ConvertingCallKeepsInv DEF SubtractFromMeasurement
<1> QED  BY <1>3, <1>4, <1>5, <1>6, <1>7, <1>9, <1>10

\* The calls on the measurement alone.
LEMMA OwnCallsKeepInv ==
  ASSUME UncertainInv,
         \/ Negate \/ Invert
         \/ \E n \in {-1, 2} : RaiseTo(n)
         \/ \E u \in Unit : Convert(u)
  PROVE  UncertainInv'
<1>1. /\ um \in UncertainType /\ um.value \in Num /\ um.units \in UnitType
  BY UncertainParts DEF UncertainInv
<1>2. CASE Negate
  <2>1. AsMeasurement(Negative(um)) = MeasNegative(meas)
    <3>1. /\ Negative(um) = uncertain(Minus(um.value), um.uncertainty, um.units)
      BY <1>1, UncertainParts DEF Negative, uncertain, UncertainType
    <3> QED  BY <3>1 DEF AsMeasurement, uncertain, MeasNegative, measurement, meas
  <2>2. Negative(um) \in UncertainType
    BY <1>1, ResultsTyped
  <2> QED  BY <1>2, <2>1, <2>2, CallKeepsInv DEF Negate
<1>3. CASE Invert
  <2>1. AsMeasurement(Inverse(um)) = MeasInverse(meas)
    BY DEF AsMeasurement, Inverse, WithTolerance, uncertain, MeasInverse, measurement, meas
  <2>2. Inverse(um) \in UncertainType
    BY <1>1, ResultsTyped
  <2> QED  BY <1>3, <2>1, <2>2, CallKeepsInv DEF Invert
<1>4. ASSUME NEW n \in {-1, 2}, RaiseTo(n) PROVE UncertainInv'
  <2>1. AsMeasurement(RaisedTo(um, n)) = MeasPow(meas, n)
    BY DEF AsMeasurement, RaisedTo, uncertain, MeasPow, measurement, meas
  <2>2. RaisedTo(um, n) \in UncertainType
    BY <1>1, ResultsTyped
  <2> QED  BY <1>4, <2>1, <2>2, CallKeepsInv DEF RaiseTo
<1>5. ASSUME NEW u \in Unit, Convert(u) PROVE UncertainInv'
  <2>1. u \in UnitType
    BY OperandAssumption
  <2>2. Proportional(um.units, u) => factor(um.units, u) ** um.value = convert(um.value, um.units, u)
    BY <1>1, <2>1, FactorOfValue
  <2>3. Proportional(um.units, u) => AsMeasurement(convert_to(um, u)) = MeasConvert(meas, u)
    BY <2>2 DEF AsMeasurement, convert_to, uncertain, MeasConvert, measurement, meas
  <2>4. convert_to(um, u) \in UncertainType
    BY <1>1, <2>1, ResultsTyped
  <2> QED  BY <1>5, <2>3, <2>4, ConvertingCallKeepsInv DEF Convert
<1> QED  BY <1>2, <1>3, <1>4, <1>5

\* A client starts with an operand.
LEMMA InitUncertain == Init => UncertainInv
<1> SUFFICES ASSUME Init PROVE UncertainInv
  OBVIOUS
<1>1. um \in UncertainType
  BY OperandParts DEF Init
<1> QED  BY <1>1 DEF Init, UncertainInv, CalculatesAsMeasurement

\* Every call keeps the invariant.
LEMMA NextUncertain == UncertainInv /\ [Next]_vars => UncertainInv'
<1> SUFFICES ASSUME UncertainInv, [Next]_vars PROVE UncertainInv'
  OBVIOUS
<1>1. CASE UNCHANGED vars
  BY <1>1 DEF UncertainInv, CalculatesAsMeasurement, meas, vars
<1>2. ASSUME NEW v \in Operands, Multiply(v) \/ Divide(v) \/ Add(v) \/ Subtract(v)
      PROVE  UncertainInv'
  BY <1>2, OperandCallsKeepInv
<1>3. ASSUME NEW m \in Measurements,
             \/ MultiplyMeasurement(m) \/ DivideMeasurement(m)
             \/ AddMeasurement(m) \/ SubtractMeasurement(m)
             \/ AddToMeasurement(m) \/ SubtractFromMeasurement(m)
             \/ DivideIntoMeasurement(m)
      PROVE  UncertainInv'
  BY <1>3, MeasurementCallsKeepInv
<1>4. CASE \/ Negate \/ Invert
           \/ \E n \in {-1, 2} : RaiseTo(n)
           \/ \E u \in Unit : Convert(u)
  BY <1>4, OwnCallsKeepInv
<1> QED  BY <1>1, <1>2, <1>3, <1>4 DEF Next

\* However a client calculates, and whatever it divides by, it holds an
\* uncertain measurement whose unit has a positive multiplier, and whose value
\* is the one of the class measurement if its last call converted, if at all,
\* by a factor, whatever convert makes of other units.
THEOREM UncertainInvariance == Spec => []UncertainInv
BY InitUncertain, NextUncertain, PTL DEF Spec

\* The operators, pow and convert_to of uncertain_measurement, which convert by
\* a factor, give the value that those of measurement give, which convert the
\* value, for all units between which convert multiplies by a factor (and only
\* for these: run uncertain_convert), after any calls with any operands.
THEOREM ClassesAgree == Spec => []CalculatesAsMeasurement
<1>1. UncertainInv => CalculatesAsMeasurement
  BY DEF UncertainInv
<1> QED  BY <1>1, UncertainInvariance, PTL

\* The operators of uncertain_measurement with a measurement on either side
\* multiply and divide, if no value is zero, and add and subtract, if a factor
\* converts, as those with an uncertain measurement without uncertainty; those
\* with it on the right also compare so, if a factor converts.  With it on the
\* left they compare so for equality, and otherwise if the units are the same
\* and, with >= and <=, the uncertainty is not negative.
THEOREM MeasurementsAreCertain == Spec => []MeasurementIsCertain
BY MeasurementIsCertainHere, UncertainInvariance, PTL

\* The unit an operand is given in changes no product, quotient, sum,
\* difference or comparison of uncertain_measurement, for all units that
\* convert by a factor (and, in a product, if the other one is plain),
\* whatever convert makes of others.
THEOREM AnyUnit == Spec => []UnitsDoNotMatter
BY UnitsDoNotMatterHere, UncertainInvariance, PTL

\* The operators * and / (by units without an e_flag) of uncertain_measurement,
\* and + and - on units that convert by a factor, may be applied in any order: neither the value nor the
\* uncertainty or the unit depends on it.
THEOREM AnyOrder == Spec => []OrderDoesNotMatter
BY OrderDoesNotMatterHere, UncertainInvariance, PTL

USE HalfAssumption, SecondAssumption

(***************************************************************************)
(* The bits of a number.                                                   *)
(***************************************************************************)
LEMMA PowersOfTwo ==
  /\ 2^0 = 1 /\ 2^1 = 2 /\ 2^2 = 4 /\ 2^3 = 8 /\ 2^4 = 16
  /\ 2^5 = 32 /\ 2^6 = 64 /\ 2^7 = 128 /\ 2^8 = 256 /\ 2^9 = 512
OBVIOUS

\* A bit is 0 or 1.
LEMMA BitRange ==
  ASSUME NEW n \in Int
  PROVE  /\ bShift(n, 0) \in 0..1 /\ bShift(n, 1) \in 0..1 /\ bShift(n, 2) \in 0..1
         /\ bShift(n, 3) \in 0..1 /\ bShift(n, 4) \in 0..1 /\ bShift(n, 5) \in 0..1
         /\ bShift(n, 6) \in 0..1 /\ bShift(n, 7) \in 0..1 /\ bShift(n, 8) \in 0..1
         /\ bShift(n, 9) \in 0..1
<1>1. \A x \in Int : x % 2 \in 0..1
  OBVIOUS
<1>2. /\ n \div 1 \in Int /\ n \div 2 \in Int /\ n \div 4 \in Int /\ n \div 8 \in Int
      /\ n \div 16 \in Int /\ n \div 32 \in Int /\ n \div 64 \in Int /\ n \div 128 \in Int
      /\ n \div 256 \in Int /\ n \div 512 \in Int
  OBVIOUS
<1> QED  BY <1>1, <1>2, PowersOfTwo DEF bShift

\* A number below 1024 is the sum of its bits, and one below 16 that of four.
LEMMA SumOfBits ==
  ASSUME NEW n \in Int, n \in 0..1023
  PROVE  /\ n = (bShift(n, 0) + 2 * bShift(n, 1) + 4 * bShift(n, 2) + 8 * bShift(n, 3))
                + 16 * (bShift(n, 4) + 2 * bShift(n, 5) + 4 * bShift(n, 6) + 8 * bShift(n, 7))
                + 256 * (bShift(n, 8) + 2 * bShift(n, 9))
         /\ n \in 0..15 =>
              n = bShift(n, 0) + 2 * bShift(n, 1) + 4 * bShift(n, 2) + 8 * bShift(n, 3)
<1>0. /\ bShift(n, 0) = n % 2             /\ bShift(n, 1) = (n \div 2) % 2
      /\ bShift(n, 2) = (n \div 4) % 2    /\ bShift(n, 3) = (n \div 8) % 2
      /\ bShift(n, 4) = (n \div 16) % 2   /\ bShift(n, 5) = (n \div 32) % 2
      /\ bShift(n, 6) = (n \div 64) % 2   /\ bShift(n, 7) = (n \div 128) % 2
      /\ bShift(n, 8) = (n \div 256) % 2  /\ bShift(n, 9) = (n \div 512) % 2
  <2>1. n \div 1 = n
    OBVIOUS
  <2> QED  BY <2>1, PowersOfTwo DEF bShift
<1>1. \A x \in Int : x = 2 * (x \div 2) + (x % 2)
  OBVIOUS
<1> DEFINE q1 == n \div 2    q2 == n \div 4    q3 == n \div 8    q4 == n \div 16
           q5 == n \div 32   q6 == n \div 64   q7 == n \div 128  q8 == n \div 256
           q9 == n \div 512
<1>2. /\ q1 \in Int /\ q2 \in Int /\ q3 \in Int /\ q4 \in Int /\ q5 \in Int
      /\ q6 \in Int /\ q7 \in Int /\ q8 \in Int /\ q9 \in Int
  OBVIOUS
<1>3. n \in 0..15 => q4 = 0
  OBVIOUS
<1>4. n = 2 * q1 + bShift(n, 0)
  BY <1>0, <1>1
<1>5. q1 = 2 * q2 + bShift(n, 1)
  <2>1. q2 = q1 \div 2
    OBVIOUS
  <2> QED  BY <1>0, <1>1, <1>2, <2>1
<1>6. q2 = 2 * q3 + bShift(n, 2)
  <2>1. q3 = q2 \div 2
    OBVIOUS
  <2> QED  BY <1>0, <1>1, <1>2, <2>1
<1>7. q3 = 2 * q4 + bShift(n, 3)
  <2>1. q4 = q3 \div 2
    OBVIOUS
  <2> QED  BY <1>0, <1>1, <1>2, <2>1
<1>8. q4 = 2 * q5 + bShift(n, 4)
  <2>1. q5 = q4 \div 2
    OBVIOUS
  <2> QED  BY <1>0, <1>1, <1>2, <2>1
<1>9. q5 = 2 * q6 + bShift(n, 5)
  <2>1. q6 = q5 \div 2
    OBVIOUS
  <2> QED  BY <1>0, <1>1, <1>2, <2>1
<1>10. q6 = 2 * q7 + bShift(n, 6)
  <2>1. q7 = q6 \div 2
    OBVIOUS
  <2> QED  BY <1>0, <1>1, <1>2, <2>1
<1>11. q7 = 2 * q8 + bShift(n, 7)
  <2>1. q8 = q7 \div 2
    OBVIOUS
  <2> QED  BY <1>0, <1>1, <1>2, <2>1
<1>12. q8 = 2 * q9 + bShift(n, 8)
  <2>1. q9 = q8 \div 2
    OBVIOUS
  <2> QED  BY <1>0, <1>1, <1>2, <2>1
<1>13. q9 = 2 * 0 + bShift(n, 9)
  <2>1. 0 = q9 \div 2
    OBVIOUS
  <2> QED  BY <1>0, <1>1, <1>2, <2>1
<1> DEFINE b0 == bShift(n, 0)  b1 == bShift(n, 1)  b2 == bShift(n, 2)  b3 == bShift(n, 3)
           b4 == bShift(n, 4)  b5 == bShift(n, 5)  b6 == bShift(n, 6)  b7 == bShift(n, 7)
           b8 == bShift(n, 8)  b9 == bShift(n, 9)
<1>14. /\ b0 \in Int /\ b1 \in Int /\ b2 \in Int /\ b3 \in Int /\ b4 \in Int
       /\ b5 \in Int /\ b6 \in Int /\ b7 \in Int /\ b8 \in Int /\ b9 \in Int
  BY BitRange
<1> HIDE DEF b0, b1, b2, b3, b4, b5, b6, b7, b8, b9, q1, q2, q3, q4, q5, q6, q7, q8, q9
<1>15. n = b0 + 2 * b1 + 4 * b2 + 8 * b3 + 16 * q4
  BY <1>2, <1>4, <1>5, <1>6, <1>7, <1>14 DEF b0, b1, b2, b3
<1>16. q4 = b4 + 2 * b5 + 4 * b6 + 8 * b7 + 16 * q8
  BY <1>2, <1>8, <1>9, <1>10, <1>11, <1>14 DEF b4, b5, b6, b7
<1>17. q8 = b8 + 2 * b9
  BY <1>2, <1>12, <1>13, <1>14 DEF b8, b9
<1> DEFINE low == b0 + 2 * b1 + 4 * b2 + 8 * b3
           middle == b4 + 2 * b5 + 4 * b6 + 8 * b7
<1>18. n = low + 16 * middle + 256 * (b8 + 2 * b9)
  <2>1. low \in Int /\ middle \in Int
    BY <1>14
  <2>2. n = low + 16 * q4 /\ q4 = middle + 16 * q8
    BY <1>15, <1>16
  <2> HIDE DEF low, middle
  <2> QED  BY <1>2, <1>14, <1>17, <2>1, <2>2
<1>19. n \in 0..15 => n = b0 + 2 * b1 + 4 * b2 + 8 * b3
  BY <1>3, <1>14, <1>15
<1> QED  BY <1>18, <1>19 DEF b0, b1, b2, b3, b4, b5, b6, b7, b8, b9

\* The three flags hold the lowest bits.
LEMMA FlagsTell ==
  ASSUME NEW n \in Int, NEW u, u.flags = FlagsOf(n)
  PROVE  /\ FlagBits(u) = bShift(n, 0) + 2 * bShift(n, 1) + 4 * bShift(n, 2)
         /\ FlagsOf(n) \in SUBSET Flag
<1>1. /\ "e_flag" \in u.flags <=> bShift(n, 0) = 1
      /\ "i_flag" \in u.flags <=> bShift(n, 1) = 1
      /\ "per_unit" \in u.flags <=> bShift(n, 2) = 1
  BY DEF FlagsOf, LowFlag
<1>2. bShift(n, 0) \in 0..1 /\ bShift(n, 1) \in 0..1 /\ bShift(n, 2) \in 0..1
  BY BitRange
<1>3. /\ (IF "e_flag" \in u.flags THEN 1 ELSE 0) = bShift(n, 0)
      /\ (IF "i_flag" \in u.flags THEN 2 ELSE 0) = 2 * bShift(n, 1)
      /\ (IF "per_unit" \in u.flags THEN 4 ELSE 0) = 4 * bShift(n, 2)
  BY <1>1, <1>2
<1>4. FlagsOf(n) \in SUBSET Flag
  BY DEF FlagsOf, LowFlag, Flag
<1> QED  BY <1>3, <1>4 DEF FlagBits
(***************************************************************************)
(* The unit data of a unit as it was generated, divided and turned.        *)
(***************************************************************************)
\* The powers of the base units that a unit is generated with.
CustomExps(n) ==
  [meter |-> 7 - 4 * bShift(n, 8), kilogram |-> -2 + 3 * bShift(n, 7),
   second |-> 7 * bShift(n, 9),
   ampere |-> MinVal("ampere") + 1 - bShift(n, 6),
   kelvin |-> 3 * bShift(n, 4), mole |-> MinVal("mole"),
   candela |-> -2 + 2 * bShift(n, 5), currency |-> -2 * bShift(n, 3)]
CountExps(n) == [ampere |-> 3, kelvin |-> -3, candela |-> -bShift(n, 3)]

At(f, b) == IF b \in DOMAIN f THEN f[b] ELSE 0
Generated(k, n, b) == IF k = "custom" THEN At(CustomExps(n), b) ELSE At(CountExps(n), b)

\* The exponent that division and inversion make of it, and its field.
Way == {"unit", "inverse"}
WayOf(inv) == IF inv THEN "inverse" ELSE "unit"
Turned(turn, x) == IF turn = "inverse" THEN -x ELSE x
Exact(k, n, p, turn, b) == Turned(turn, Generated(k, n, b) - At(p, b))
Held(k, n, p, turn) ==
  unit_data([b \in Base |-> Exact(k, n, p, turn, b)], FlagsOf(n))

\* The bases by which a client divides.
Divisible == {"meter", "kilogram", "second", "currency"}
Undivided == [b \in Divisible |-> 0]

\* The inductive invariant: the fields hold what exact arithmetic would
\* make of the generated exponents, and nothing else ever changes.
CustomInv ==
  /\ kind \in Kind /\ code \in Codes(kind) /\ inverted \in BOOLEAN
  /\ powers \in [Divisible -> Int]
  /\ powers \in Powers(kind) \/ powers = Undivided
  /\ base = Held(kind, code, powers, WayOf(inverted))

\* The numbers are integers.
LEMMA CodeTyped ==
  ASSUME NEW k, NEW n \in Codes(k)
  PROVE  n \in Int /\ (k = "custom" => n \in 0..1023) /\ (k # "custom" => n \in 0..15)
<1>1. CASE k = "custom"
  BY <1>1 DEF Codes
<1>2. CASE k # "custom"
  BY <1>2 DEF Codes
<1> QED  BY <1>1, <1>2

\* The exponents are integers.
LEMMA GeneratedTyped ==
  ASSUME NEW k, NEW n \in Int, NEW b \in Base
  PROVE  Generated(k, n, b) \in Int
<1>1. MinVal("ampere") \in Int /\ MinVal("mole") \in Int
  BY BaseAssumption DEF MinVal
<1>2. \A c \in DOMAIN CustomExps(n) : CustomExps(n)[c] \in Int
  BY <1>1, BitRange DEF CustomExps
<1>3. \A c \in DOMAIN CountExps(n) : CountExps(n)[c] \in Int
  BY BitRange DEF CountExps
<1> QED  BY <1>2, <1>3 DEF Generated, At

\* Whether a unit is turned, as a word.
LEMMA WayTyped ==
  /\ "unit" \in Way
  /\ WayOf(FALSE) = "unit"
  /\ \A inv \in BOOLEAN : /\ WayOf(inv) \in Way
                          /\ WayOf(inv) = "inverse" <=> inv
                          /\ WayOf(~inv) = "inverse" <=> ~inv
                          /\ WayOf(~inv) \in Way
BY Zenon DEF Way, WayOf

\* The exponent before it wraps is an integer.
LEMMA ExactTyped ==
  ASSUME NEW k, NEW n \in Int, NEW p \in [Divisible -> Int], NEW turn \in Way, NEW b \in Base
  PROVE  Exact(k, n, p, turn, b) \in Int
<1>1. Generated(k, n, b) \in Int /\ At(p, b) \in Int
  BY GeneratedTyped DEF At
<1> QED  BY <1>1 DEF Exact, Turned

\* What the fields and flags hold.
LEMMA HeldShape ==
  ASSUME NEW k, NEW n \in Int, NEW p \in [Divisible -> Int], NEW turn \in Way
  PROVE  /\ Held(k, n, p, turn) \in UnitDataType
         /\ Held(k, n, p, turn).flags = FlagsOf(n)
         /\ \A b \in Base : Held(k, n, p, turn).exp[b] = Wrap(b, Exact(k, n, p, turn, b))
<1> DEFINE e == [b \in Base |-> Exact(k, n, p, turn, b)]
<1>1. e \in [Base -> Int]
  BY ExactTyped
<1>2. FlagsOf(n) \in SUBSET Flag
  BY DEF FlagsOf, LowFlag, Flag
<1>3. \A b \in Base : e[b] = Exact(k, n, p, turn, b)
  OBVIOUS
<1>4. Held(k, n, p, turn) = unit_data(e, FlagsOf(n))
  BY DEF Held
<1> HIDE DEF e
<1>5. unit_data(e, FlagsOf(n)) \in UnitDataType
  BY <1>1, <1>2, StoreTyped
<1>6. \A b \in Base : unit_data(e, FlagsOf(n)).exp[b] = Wrap(b, Exact(k, n, p, turn, b))
  BY <1>3 DEF unit_data
<1> QED  BY <1>4, <1>5, <1>6 DEF unit_data

\* A unit is generated undivided.
LEMMA GeneratedHeld ==
  ASSUME NEW k \in Kind, NEW n \in Int
  PROVE  generate(k, n) = Held(k, n, Undivided, "unit")
<1> DEFINE e == IF k = "custom" THEN CustomExps(n) ELSE CountExps(n)
<1>1. generate(k, n) = unit_data(dim(e, {}).exp, FlagsOf(n))
  BY DEF generate, custom_unit, custom_count_unit, CustomExps, CountExps, Kind
<1>2. dim(e, {}).exp = [b \in Base |-> Generated(k, n, b)]
  BY DEF dim, Generated, At
<1>3. ASSUME NEW b \in Base PROVE Exact(k, n, Undivided, "unit", b) = Generated(k, n, b)
  <2>1. Generated(k, n, b) \in Int /\ At(Undivided, b) = 0
    BY GeneratedTyped DEF At, Undivided
  <2> QED  BY <2>1 DEF Exact, Turned
<1>4. dim(e, {}).exp = [b \in Base |-> Exact(k, n, Undivided, "unit", b)]
  BY <1>2, <1>3
<1> QED  BY <1>1, <1>4 DEF Held

(***************************************************************************)
(* Division and inversion.                                                 *)
(***************************************************************************)
\* The power of a base unit.
LEMMA AxisPower ==
  ASSUME NEW b \in Divisible, NEW m \in Int
  PROVE  /\ Pow(axis(b), m).flags = {}
         /\ \A c \in Base : Pow(axis(b), m).exp[c] = Wrap(c, IF c = b THEN m ELSE 0)
<1> DEFINE d == axis(b)
<1>1. d.flags = {} /\ \A c \in Base : d.exp[c] = IF c = b THEN 1 ELSE 0
  BY DEF axis, dim
<1>2. rootHertzModifier(d, m) = 0
  BY <1>1 DEF rootHertzModifier, IsRootHertzLike, RootHertzFlags
<1>3. \A c \in Base : PowExponents(d, m)[c] = IF c = b THEN m ELSE 0
  <2> TAKE c \in Base
  <2>1. 1 * m = m /\ 0 * m = 0 /\ m + 0 = m /\ 0 + 0 = 0
    OBVIOUS
  <2>2. d.exp[c] * m = IF c = b THEN m ELSE 0
    BY <1>1, <2>1
  <2>3. PowExponents(d, m)[c] = (d.exp[c] * m) + (IF c = Second THEN rootHertzModifier(d, m) ELSE 0)
    BY DEF PowExponents
  <2> HIDE DEF d
  <2> QED  BY <1>2, <2>1, <2>2, <2>3
<1>4. PowFlags(d.flags, m) = {}
  BY <1>1 DEF PowFlags
<1> QED  BY <1>3, <1>4 DEF Pow, unit_data

\* Fields subtract and add as integers do.
LEMMA FieldSums ==
  ASSUME NEW b \in Base, NEW x \in Int, NEW y \in Int
  PROVE  /\ Wrap(b, Wrap(b, x) - Wrap(b, y)) = Wrap(b, x - y)
         /\ Wrap(b, Wrap(b, x) + Wrap(b, y)) = Wrap(b, x + y)
<1> DEFINE v == Wrap(b, x)
           w == Wrap(b, y)
<1>1. v \in Int /\ w \in Int
  BY WrapRange
<1>2. Wrap(b, v - w) = Wrap(b, x - w) /\ Wrap(b, v + w) = Wrap(b, x + w)
  BY <1>1, WrapArithmetic
<1>3. Wrap(b, w + x) = Wrap(b, y + x) /\ Wrap(b, w - x) = Wrap(b, y - x)
  BY WrapArithmetic
<1> HIDE DEF v, w
<1>4. Wrap(b, x + w) = Wrap(b, x + y)
  <2>1. x + w = w + x /\ x + y = y + x
    BY <1>1
  <2> QED  BY <1>3, <2>1
<1>5. Wrap(b, x - w) = Wrap(b, x - y)
  <2>1. w - x \in Int /\ y - x \in Int /\ -(w - x) = x - w /\ -(y - x) = x - y
    BY <1>1
  <2>2. Wrap(b, -(w - x)) = Wrap(b, -Wrap(b, w - x)) /\ Wrap(b, -(y - x)) = Wrap(b, -Wrap(b, y - x))
    BY <2>1, WrapArithmetic
  <2> QED  BY <1>3, <2>1, <2>2
<1> QED  BY <1>2, <1>4, <1>5 DEF v, w

\* A division subtracts what it divides by from the exponents, of the unit and
\* of its inverse.
LEMMA DivideHeld ==
  ASSUME CustomInv, NEW b \in Divisible, NEW m \in {-1, 1, 2, 3}, DivideBy(b, m)
  PROVE  CustomInv'
<1> DEFINE q == powers'
           way == WayOf(inverted)
           y(c) == IF c = b THEN m ELSE 0
<1>1. /\ kind' = kind /\ code' = code /\ inverted' = inverted
      /\ q = [powers EXCEPT ![b] = IF inverted THEN @ - m ELSE @ + m] /\ q \in Powers(kind)
  BY DEF DivideBy, CustomInv
<1>2. q \in [Divisible -> Int]
  BY <1>1 DEF CustomInv
<1>3. /\ code \in Int /\ powers \in [Divisible -> Int] /\ base = Held(kind, code, powers, way)
      /\ way \in Way /\ (way = "inverse" <=> inverted)
  BY CodeTyped, WayTyped DEF CustomInv
<1>4. \A c \in Divisible : q[c] = IF inverted THEN powers[c] - y(c) ELSE powers[c] + y(c)
  BY <1>1, <1>3
<1>w. WayOf(inverted') = way
  BY <1>1
<1> HIDE DEF q, way
<1>5. base.flags = FlagsOf(code) /\ \A c \in Base : base.exp[c] = Wrap(c, Exact(kind, code, powers, way, c))
  BY <1>3, HeldShape
<1> DEFINE x(c) == Exact(kind, code, powers, way, c)
<1>6. ASSUME NEW c \in Base
      PROVE  x(c) \in Int /\ y(c) \in Int /\ Exact(kind, code, q, way, c) = x(c) - y(c)
  <2>1. Generated(kind, code, c) \in Int
    BY <1>3, GeneratedTyped
  <2>2. /\ At(powers, c) \in Int /\ y(c) \in Int
        /\ At(q, c) = IF inverted THEN At(powers, c) - y(c) ELSE At(powers, c) + y(c)
    BY <1>2, <1>3, <1>4 DEF At
  <2>3. CASE inverted
    BY <1>3, <2>1, <2>2, <2>3 DEF Exact, Turned
  <2>4. CASE ~inverted
    BY <1>3, <2>1, <2>2, <2>4 DEF Exact, Turned
  <2> QED  BY <2>3, <2>4
<1>7. base' = Held(kind, code, q, way)
  <2>1. CASE m > 0
    <3> DEFINE v == Pow(axis(b), m)
    <3>1. v.flags = {} /\ \A c \in Base : v.exp[c] = Wrap(c, y(c))
      BY AxisPower
    <3>2. base' = Divides(base, v)
      BY <2>1 DEF DivideBy
    <3> HIDE DEF v
    <3>3. XorOn({"i_flag", "e_flag"}, base.flags, v.flags) = FlagsOf(code)
      BY <1>5, <3>1 DEF XorOn, Xor
    <3>4. ASSUME NEW c \in Base
          PROVE  Wrap(c, base.exp[c] - v.exp[c]) = Wrap(c, Exact(kind, code, q, way, c))
      <4>1. base.exp[c] = Wrap(c, x(c)) /\ v.exp[c] = Wrap(c, y(c))
        BY <1>5, <3>1
      <4> DEFINE xc == x(c)
                 yc == y(c)
      <4>2. xc \in Int /\ yc \in Int /\ Exact(kind, code, q, way, c) = xc - yc
        BY <1>6
      <4>3. base.exp[c] = Wrap(c, xc) /\ v.exp[c] = Wrap(c, yc)
        BY <4>1
      <4> HIDE DEF xc, yc
      <4>4. Wrap(c, Wrap(c, xc) - Wrap(c, yc)) = Wrap(c, xc - yc)
        BY <4>2, FieldSums
      <4> QED  BY <4>2, <4>3, <4>4
    <3> QED  BY <3>2, <3>3, <3>4 DEF Divides, Held, unit_data
  <2>2. CASE ~(m > 0)
    <3>0. -m \in Int /\ m = -1
      BY <2>2
    <3> DEFINE v == Pow(axis(b), -m)
               z(c) == IF c = b THEN -m ELSE 0
    <3>1. v.flags = {} /\ \A c \in Base : v.exp[c] = Wrap(c, z(c))
      BY <3>0, AxisPower
    <3>2. base' = Times(base, v)
      BY <2>2 DEF DivideBy
    <3> HIDE DEF v
    <3>3. XorOn({"i_flag"}, base.flags, v.flags) = FlagsOf(code)
      BY <1>5, <3>1 DEF XorOn, Xor
    <3>4. ASSUME NEW c \in Base
          PROVE  Wrap(c, base.exp[c] + v.exp[c]) = Wrap(c, Exact(kind, code, q, way, c))
      <4>1. base.exp[c] = Wrap(c, x(c)) /\ v.exp[c] = Wrap(c, z(c))
        BY <1>5, <3>1
      <4> DEFINE xc == x(c)
                 yc == y(c)
                 zc == z(c)
      <4>2. xc \in Int /\ yc \in Int /\ Exact(kind, code, q, way, c) = xc - yc
        BY <1>6
      <4>3. base.exp[c] = Wrap(c, xc) /\ v.exp[c] = Wrap(c, zc)
        BY <4>1
      <4>4. zc = -yc
        BY <3>0
      <4> HIDE DEF xc, yc, zc
      <4>5. zc \in Int /\ xc + zc = xc - yc
        BY <4>2, <4>4
      <4>6. Wrap(c, Wrap(c, xc) + Wrap(c, zc)) = Wrap(c, xc + zc)
        BY <4>2, <4>5, FieldSums
      <4> QED  BY <4>2, <4>3, <4>5, <4>6
    <3> QED  BY <3>2, <3>3, <3>4 DEF Times, Held, unit_data
  <2> QED  BY <2>1, <2>2
<1> QED  BY <1>1, <1>2, <1>7, <1>w DEF CustomInv, q

\* Inverting negates the exponents, whatever wrapped in them.
LEMMA InvertHeld ==
  ASSUME CustomInv, TurnOver
  PROVE  CustomInv'
<1>1. /\ kind' = kind /\ code' = code /\ powers' = powers /\ inverted' = ~inverted
      /\ base' = Inv(base)
  BY DEF TurnOver
<1> DEFINE way == WayOf(inverted)
           other == WayOf(~inverted)
<1>2. /\ code \in Int /\ powers \in [Divisible -> Int]
      /\ base = Held(kind, code, powers, way)
      /\ way \in Way /\ other \in Way /\ (other = "inverse" <=> way # "inverse")
  BY CodeTyped, WayTyped DEF CustomInv
<1>6. inverted' \in BOOLEAN /\ WayOf(inverted') = other
  BY <1>1
<1> HIDE DEF way, other
<1>3. base.flags = FlagsOf(code) /\ \A b \in Base : base.exp[b] = Wrap(b, Exact(kind, code, powers, way, b))
  BY <1>2, HeldShape
<1>4. ASSUME NEW b \in Base
      PROVE  Wrap(b, -base.exp[b]) = Wrap(b, Exact(kind, code, powers, other, b))
  <2> DEFINE x == Exact(kind, code, powers, way, b)
  <2>1. x \in Int
    BY <1>2, ExactTyped
  <2>2. Exact(kind, code, powers, other, b) = -x
    <3>1. Generated(kind, code, b) - At(powers, b) \in Int
      BY <1>2, GeneratedTyped DEF At
    <3> QED  BY <1>2, <3>1 DEF Exact, Turned
  <2>3. base.exp[b] = Wrap(b, x)
    BY <1>3
  <2> HIDE DEF x
  <2> QED  BY <2>1, <2>2, <2>3, WrapArithmetic
<1>5. base' = Held(kind, code, powers, other)
  BY <1>1, <1>3, <1>4 DEF Inv, Held, unit_data
<1> QED  BY <1>1, <1>2, <1>6, <1>5 DEF CustomInv

\* A new unit has not been divided.
LEMMA InitHeld == CustomInit => CustomInv
<1> SUFFICES ASSUME CustomInit PROVE CustomInv
  OBVIOUS
<1>1. kind \in Kind /\ code \in Codes(kind) /\ base = generate(kind, code)
      /\ powers = Undivided /\ inverted = FALSE
  BY DEF CustomInit, Undivided, Divisible
<1>2. code \in Int
  BY <1>1, CodeTyped
<1>3. Undivided \in [Divisible -> Int]
  BY DEF Undivided
<1> QED  BY <1>1, <1>2, <1>3, GeneratedHeld, WayTyped DEF CustomInv

\* Neither a division nor an inverse loses the exact exponents.
LEMMA NextHeld == CustomInv /\ [CustomNext]_customVars => CustomInv'
<1> SUFFICES ASSUME CustomInv, [CustomNext]_customVars PROVE CustomInv'
  OBVIOUS
<1>1. CASE UNCHANGED customVars
  BY <1>1 DEF customVars, CustomInv
<1>2. CASE TurnOver
  BY <1>2, InvertHeld
<1>3. CASE \E b \in DOMAIN powers, m \in {-1, 1, 2, 3} : DivideBy(b, m)
  <2>1. DOMAIN powers = Divisible
    BY DEF CustomInv
  <2> QED  BY <1>3, <2>1, DivideHeld
<1> QED  BY <1>1, <1>2, <1>3 DEF CustomNext

\* The unit data stay in their fields under the flags of the number, for any
\* divisions whatever and any widths of the fields.
THEOREM TypeCorrect == CustomSpec => []TypeOK
<1>1. CustomInv => TypeOK
  <2> SUFFICES ASSUME CustomInv PROVE TypeOK
    OBVIOUS
  <2>1. code \in Int
    BY CodeTyped DEF CustomInv
  <2>2. WayOf(inverted) \in Way
    BY WayTyped DEF CustomInv
  <2> QED  BY <2>1, <2>2, HeldShape DEF CustomInv, TypeOK
<1> QED  BY <1>1, InitHeld, NextHeld, PTL DEF CustomSpec
(***************************************************************************)
(* What each field tells, divided and turned or not.                       *)
(***************************************************************************)
\* Fields no narrower than those of the 4-byte build.
LEMMA Widths ==
  ASSUME FieldsHold
  PROVE  /\ Half["meter"] \in {8, 32, 128} /\ Half["second"] \in {8, 32, 128}
         /\ Half["kilogram"] \in {4, 8, 32, 128} /\ Half["ampere"] \in {4, 8, 32, 128}
         /\ Half["kelvin"] \in {4, 8, 32, 128} /\ Half["mole"] \in {2, 4, 8, 32, 128}
         /\ Half["candela"] \in {2, 4, 8, 32, 128} /\ Half["currency"] \in {2, 4, 8, 32, 128}
<1>1. \A b \in Base : Half[b] \in {2, 4, 8, 32, 128}
  OBVIOUS
<1>2. \A b \in {"meter", "second", "kilogram", "ampere", "kelvin", "mole", "candela", "currency"} :
         b \in Base
  BY BaseAssumption
<1> QED  BY <1>1, <1>2 DEF FieldsHold

\* The meter tells its bit and, unless it is gone, the inverse.
LEMMA MeterTells ==
  ASSUME FieldsHold, NEW bit \in 0..1, NEW power \in 0..3, NEW turn \in Way
  PROVE  LET x == Wrap("meter", Turned(turn, 7 - 4 * bit - power))
         IN /\ x \in Int /\ (Abs(x) < 4 <=> bit = 1)
            /\ x = 0 <=> bit = 1 /\ power = 3
            /\ x # 0 => (x < 0 <=> turn = "inverse")
<1> DEFINE h == Half["meter"]
           y == Turned(turn, 7 - 4 * bit - power)
           x == Wrap("meter", y)
<1>1. h \in {8, 32, 128}
  BY Widths
<1>2. y \in -7..7
  BY DEF Turned
<1>3. x = ((y + h) % (2 * h)) - h
  BY DEF Wrap
<1> HIDE DEF h, x
<1>4. x = y
  <2> HIDE DEF y
  <2> QED  BY <1>1, <1>2, <1>3
<1> QED  BY <1>2, <1>4 DEF Turned, Abs, x

\* The kilogram tells its bit and the inverse.
LEMMA KilogramTells ==
  ASSUME FieldsHold, NEW bit \in 0..1, NEW power \in 0..2, NEW turn \in Way
  PROVE  LET x == Wrap("kilogram", Turned(turn, (-2 + 3 * bit) - power))
         IN /\ x \in Int /\ (Abs(x) <= 1 <=> bit = 1)
            /\ power = 0 => x = Turned(turn, -2 + 3 * bit)
<1> DEFINE h == Half["kilogram"]
           y == Turned(turn, (-2 + 3 * bit) - power)
           x == Wrap("kilogram", y)
<1>1. h \in {4, 8, 32, 128}
  BY Widths
<1>2. y \in -4..4 /\ (power = 0 => y \in -2..2)
  BY DEF Turned
<1>3. x = ((y + h) % (2 * h)) - h
  BY DEF Wrap
<1> HIDE DEF h, x
<1>4. x = y \/ (y = 4 /\ x = -4)
  <2> HIDE DEF y
  <2> QED  BY <1>1, <1>2, <1>3
<1>5. Abs(y) <= 1 <=> bit = 1
  BY DEF Turned, Abs
<1>6. power = 0 => y = Turned(turn, -2 + 3 * bit)
  BY DEF Turned
<1>7. x \in Int /\ (Abs(x) <= 1 <=> Abs(y) <= 1)
  <2> HIDE DEF y
  <2> QED  BY <1>2, <1>4 DEF Abs
<1>8. power = 0 => x = y
  BY <1>2, <1>4
<1> QED  BY <1>5, <1>6, <1>7, <1>8 DEF x

\* The second tells its bit although products with it wrap.
LEMMA SecondTells ==
  ASSUME FieldsHold, NEW bit \in 0..1, NEW power \in -3..1, NEW turn \in Way
  PROVE  LET x == Wrap("second", Turned(turn, 7 * bit - power))
         IN x \in Int /\ (Abs(x) >= 6 <=> bit = 1)
<1> DEFINE h == Half["second"]
           y == Turned(turn, 7 * bit - power)
           x == Wrap("second", y)
<1>1. h \in {8, 32, 128}
  BY Widths
<1>2. y \in -10..10 /\ (bit = 1 => y >= 6 \/ y <= -6) /\ (bit = 0 => y \in -3..3)
  BY DEF Turned
<1>3. x = ((y + h) % (2 * h)) - h
  BY DEF Wrap
<1> HIDE DEF h, x, y
<1>4. x = y \/ (y > 7 /\ x = y - 16) \/ (y < -8 /\ x = y + 16)
  BY <1>1, <1>2, <1>3
<1>5. CASE bit = 1
  BY <1>2, <1>4, <1>5 DEF Abs, x, y
<1>6. CASE bit = 0
  BY <1>2, <1>4, <1>6 DEF Abs, x, y
<1> QED  BY <1>5, <1>6 DEF x, y

\* The ampere tells its bit by the value that is its own inverse.
LEMMA AmpereTells ==
  ASSUME FieldsHold, NEW bit \in 0..1, NEW turn \in Way
  PROVE  LET x == Wrap("ampere", Turned(turn, MinVal("ampere") + 1 - bit))
         IN Abs(x) >= 2 /\ (x = MinVal("ampere") <=> bit = 1)
<1> DEFINE h == Half["ampere"]
           y == Turned(turn, -h + 1 - bit)
           x == Wrap("ampere", y)
<1>1. h \in {4, 8, 32, 128}
  BY Widths
<1>2. MinVal("ampere") = -h /\ x = ((y + h) % (2 * h)) - h
  BY DEF MinVal, Wrap
<1>3. \/ y = -h + 1 - bit
      \/ y = h - 1 + bit
  <2> HIDE DEF h
  <2> QED  BY <1>1 DEF Turned
<1> HIDE DEF h, x
<1>4. \/ bit = 1 /\ x = -h
      \/ bit = 0 /\ (x = -h + 1 \/ x = h - 1)
  <2> HIDE DEF y
  <2> QED  BY <1>1, <1>2, <1>3
<1>5. Abs(x) >= 2 /\ (x = -h <=> bit = 1)
  BY <1>1, <1>4 DEF Abs
<1> QED  BY <1>2, <1>5 DEF x

\* The least mole is its own inverse.
LEMMA MoleTells ==
  ASSUME FieldsHold, NEW turn \in Way
  PROVE  Wrap("mole", Turned(turn, MinVal("mole"))) = MinVal("mole")
<1> DEFINE h == Half["mole"]
           y == Turned(turn, -h)
<1>1. h \in {2, 4, 8, 32, 128}
  BY Widths
<1>2. MinVal("mole") = -h /\ Wrap("mole", y) = ((y + h) % (2 * h)) - h
  BY DEF MinVal, Wrap
<1> HIDE DEF h
<1>3. y = -h \/ y = h
  BY <1>1 DEF Turned
<1> QED  BY <1>1, <1>2, <1>3 DEF h

\* Kelvin, candela and currency tell their bits.
LEMMA OthersTell ==
  ASSUME FieldsHold, NEW bit \in 0..1, NEW turn \in Way
  PROVE  /\ Abs(Wrap("kelvin", Turned(turn, 3 * bit))) = 3 <=> bit = 1
         /\ Abs(Wrap("candela", Turned(turn, -2 + 2 * bit))) < 2 <=> bit = 1
         /\ Abs(Wrap("currency", Turned(turn, -2 * bit))) >= 2 <=> bit = 1
<1>1. Abs(Wrap("kelvin", Turned(turn, 3 * bit))) = 3 <=> bit = 1
  <2> DEFINE h == Half["kelvin"]
             y == Turned(turn, 3 * bit)
             x == Wrap("kelvin", y)
  <2>1. h \in {4, 8, 32, 128} /\ x = ((y + h) % (2 * h)) - h
    BY Widths DEF Wrap
  <2>2. y = 3 * bit \/ y = -3 * bit
    BY DEF Turned
  <2> HIDE DEF h, x, y
  <2>3. x = y
    BY <2>1, <2>2
  <2>4. Abs(x) = 3 <=> bit = 1
    BY <2>2, <2>3 DEF Abs
  <2> QED  BY <2>4 DEF x, y
<1>2. Abs(Wrap("candela", Turned(turn, -2 + 2 * bit))) < 2 <=> bit = 1
  <2> DEFINE h == Half["candela"]
             y == Turned(turn, -2 + 2 * bit)
             x == Wrap("candela", y)
  <2>1. h \in {2, 4, 8, 32, 128} /\ x = ((y + h) % (2 * h)) - h
    BY Widths DEF Wrap
  <2>2. y = -2 + 2 * bit \/ y = 2 - 2 * bit
    BY DEF Turned
  <2> HIDE DEF h, x, y
  <2>3. x = y \/ (y = 2 /\ x = -2)
    BY <2>1, <2>2
  <2>4. Abs(x) < 2 <=> bit = 1
    BY <2>2, <2>3 DEF Abs
  <2> QED  BY <2>4 DEF x, y
<1>3. Abs(Wrap("currency", Turned(turn, -2 * bit))) >= 2 <=> bit = 1
  <2> DEFINE h == Half["currency"]
             y == Turned(turn, -2 * bit)
             x == Wrap("currency", y)
  <2>1. h \in {2, 4, 8, 32, 128} /\ x = ((y + h) % (2 * h)) - h
    BY Widths DEF Wrap
  <2>2. y = -2 * bit \/ y = 2 * bit
    BY DEF Turned
  <2> HIDE DEF h, x, y
  <2>3. x = y \/ (y = 2 /\ x = -2)
    BY <2>1, <2>2
  <2>4. Abs(x) >= 2 <=> bit = 1
    BY <2>2, <2>3 DEF Abs
  <2> QED  BY <2>4 DEF x, y
<1> QED  BY <1>1, <1>2, <1>3
(***************************************************************************)
(* What the checks make of the fields.                                     *)
(***************************************************************************)
\* A custom unit is told, with its number and its inverse.
LEMMA CustomTold ==
  ASSUME FieldsHold, NEW n \in Int, n \in 0..1023,
         NEW p \in [Divisible -> Int], p \in ToldPowers, NEW turn \in Way
  PROVE  LET u == Held("custom", n, p, turn)
         IN /\ is_custom_unit(u) /\ ~is_custom_count_unit(u) /\ custom_unit_number(u) = n
            /\ is_custom_unit_inverted(u) <=> turn = "inverse"
<1> DEFINE u == Held("custom", n, p, turn)
           b0 == bShift(n, 0)  b1 == bShift(n, 1)  b2 == bShift(n, 2)  b3 == bShift(n, 3)
           b4 == bShift(n, 4)  b5 == bShift(n, 5)  b6 == bShift(n, 6)  b7 == bShift(n, 7)
           b8 == bShift(n, 8)  b9 == bShift(n, 9)
<1>1. /\ b0 \in 0..1 /\ b1 \in 0..1 /\ b2 \in 0..1 /\ b3 \in 0..1 /\ b4 \in 0..1
      /\ b5 \in 0..1 /\ b6 \in 0..1 /\ b7 \in 0..1 /\ b8 \in 0..1 /\ b9 \in 0..1
  BY BitRange
<1>2. /\ p["meter"] \in 0..3 /\ p["kilogram"] \in 0..2 /\ p["second"] \in -3..1
      /\ p["currency"] = 0 /\ (p["meter"] = 3 => p["kilogram"] = 0)
  BY DEF ToldPowers
<1>3. /\ u.flags = FlagsOf(n)
      /\ \A b \in Base : u.exp[b] = Wrap(b, Turned(turn, At(CustomExps(n), b) - At(p, b)))
  BY HeldShape DEF Exact, Generated
<1> HIDE DEF u
<1>4. /\ At(p, "meter") = p["meter"] /\ At(p, "kilogram") = p["kilogram"]
      /\ At(p, "second") = p["second"] /\ At(p, "currency") = 0
      /\ At(p, "ampere") = 0 /\ At(p, "mole") = 0 /\ At(p, "kelvin") = 0 /\ At(p, "candela") = 0
  BY <1>2 DEF At, Divisible
<1>5. /\ At(CustomExps(n), "meter") = 7 - 4 * b8
      /\ At(CustomExps(n), "kilogram") = -2 + 3 * b7
      /\ At(CustomExps(n), "second") = 7 * b9
      /\ At(CustomExps(n), "ampere") = MinVal("ampere") + 1 - b6
      /\ At(CustomExps(n), "kelvin") = 3 * b4 /\ At(CustomExps(n), "mole") = MinVal("mole")
      /\ At(CustomExps(n), "candela") = -2 + 2 * b5 /\ At(CustomExps(n), "currency") = -2 * b3
  BY DEF At, CustomExps
<1>6. /\ "meter" \in Base /\ "kilogram" \in Base /\ "second" \in Base /\ "ampere" \in Base
      /\ "kelvin" \in Base /\ "mole" \in Base /\ "candela" \in Base /\ "currency" \in Base
  BY BaseAssumption
<1> HIDE DEF b0, b1, b2, b3, b4, b5, b6, b7, b8, b9
<1> DEFINE m == u.exp["meter"]      g == u.exp["kilogram"]  s == u.exp["second"]
           a == u.exp["ampere"]
<1>7. /\ m \in Int /\ (Abs(m) < 4 <=> b8 = 1)
      /\ m = 0 <=> b8 = 1 /\ p["meter"] = 3
      /\ m # 0 => (m < 0 <=> turn = "inverse")
  <2>1. m = Wrap("meter", Turned(turn, 7 - 4 * b8 - p["meter"]))
    BY <1>3, <1>4, <1>5, <1>6
  <2> HIDE DEF m
  <2> QED  BY <1>1, <1>2, <2>1, MeterTells
<1>8. /\ g \in Int /\ (Abs(g) <= 1 <=> b7 = 1)
      /\ p["kilogram"] = 0 => g = Turned(turn, -2 + 3 * b7)
  <2>1. g = Wrap("kilogram", Turned(turn, (-2 + 3 * b7) - p["kilogram"]))
    BY <1>3, <1>4, <1>5, <1>6
  <2> HIDE DEF g
  <2> QED  BY <1>1, <1>2, <2>1, KilogramTells
<1>9. s \in Int /\ (Abs(s) >= 6 <=> b9 = 1)
  <2>1. s = Wrap("second", Turned(turn, 7 * b9 - p["second"]))
    BY <1>3, <1>4, <1>5, <1>6
  <2> HIDE DEF s
  <2> QED  BY <1>1, <1>2, <2>1, SecondTells
<1>z. \A x \in Int : x - 0 = x
  OBVIOUS
<1>10. Abs(a) >= 2 /\ (a = MinVal("ampere") <=> b6 = 1)
  <2>1. MinVal("ampere") + 1 - b6 \in Int
    BY <1>1, <1>6 DEF MinVal
  <2>2. a = Wrap("ampere", Turned(turn, MinVal("ampere") + 1 - b6))
    BY <1>3, <1>4, <1>5, <1>6, <1>z, <2>1
  <2> HIDE DEF a
  <2> QED  BY <1>1, <2>2, AmpereTells
<1>11. u.exp["mole"] = MinVal("mole")
  <2>1. MinVal("mole") \in Int
    BY <1>6 DEF MinVal
  <2>2. u.exp["mole"] = Wrap("mole", Turned(turn, MinVal("mole")))
    BY <1>3, <1>4, <1>5, <1>6, <1>z, <2>1
  <2> QED  BY <2>2, MoleTells
<1>12. /\ Abs(u.exp["kelvin"]) = 3 <=> b4 = 1
       /\ Abs(u.exp["candela"]) < 2 <=> b5 = 1
       /\ Abs(u.exp["currency"]) >= 2 <=> b3 = 1
  <2>1. 3 * b4 \in Int /\ -2 + 2 * b5 \in Int /\ -2 * b3 \in Int
    BY <1>1
  <2>2. /\ u.exp["kelvin"] = Wrap("kelvin", Turned(turn, 3 * b4))
        /\ u.exp["candela"] = Wrap("candela", Turned(turn, -2 + 2 * b5))
        /\ u.exp["currency"] = Wrap("currency", Turned(turn, -2 * b3))
    BY <1>3, <1>4, <1>5, <1>6, <1>z, <2>1
  <2> QED  BY <1>1, <2>2, OthersTell
<1>13. is_custom_unit(u) /\ ~is_custom_count_unit(u)
  BY <1>10, <1>11 DEF is_custom_unit, is_custom_count_unit
<1>14. custom_unit_number(u) = n
  <2>1. FlagBits(u) = b0 + 2 * b1 + 4 * b2
    BY <1>3, FlagsTell DEF b0, b1, b2
  <2>2. /\ If(Abs(m) < 4, 256) = 256 * b8 /\ If(Abs(s) >= 6, 512) = 512 * b9
        /\ If(Abs(g) <= 1, 128) = 128 * b7 /\ If(Abs(u.exp["kelvin"]) = 3, 16) = 16 * b4
        /\ If(a = MinVal("ampere"), 64) = 64 * b6
        /\ If(Abs(u.exp["candela"]) < 2, 32) = 32 * b5
        /\ If(Abs(u.exp["currency"]) >= 2, 8) = 8 * b3
    <3> HIDE DEF m, g, s, a
    <3> QED  BY <1>1, <1>7, <1>8, <1>9, <1>10, <1>12 DEF If
  <2>3. custom_unit_number(u) =
          (b0 + 2 * b1 + 4 * b2) + 256 * b8 + 512 * b9 + 128 * b7 + 16 * b4 + 64 * b6
            + 32 * b5 + 8 * b3
    BY <2>1, <2>2 DEF custom_unit_number
  <2>4. n = (b0 + 2 * b1 + 4 * b2 + 8 * b3) + 16 * (b4 + 2 * b5 + 4 * b6 + 8 * b7)
              + 256 * (b8 + 2 * b9)
    BY SumOfBits DEF b0, b1, b2, b3, b4, b5, b6, b7, b8, b9
  <2> QED  BY <1>1, <2>3, <2>4
<1>15. is_custom_unit_inverted(u) <=> turn = "inverse"
  <2>1. CASE m # 0
    BY <1>7, <2>1 DEF is_custom_unit_inverted
  <2>2. CASE m = 0
    <3>1. g = Turned(turn, -2 + 3 * b7)
      BY <1>2, <1>7, <1>8, <2>2
    <3>2. /\ turn = "inverse" => g \in {-1, 2}
          /\ turn # "inverse" => g \in {1, -2}
      BY <1>1, <3>1 DEF Turned
    <3> QED  BY <2>2, <3>2 DEF is_custom_unit_inverted
  <2> QED  BY <2>1, <2>2
<1> QED  BY <1>13, <1>14, <1>15 DEF u

\* A counting unit is told whatever it was divided by.
LEMMA CountTold ==
  ASSUME FieldsHold, NEW n \in Int, n \in 0..15,
         NEW p \in [Divisible -> Int], NEW turn \in Way
  PROVE  LET u == Held("count", n, p, turn)
         IN /\ ~is_custom_unit(u) /\ is_custom_count_unit(u) /\ custom_count_unit_number(u) = n
            /\ is_custom_count_unit_inverted(u) <=> turn = "inverse"
<1> DEFINE u == Held("count", n, p, turn)
           b0 == bShift(n, 0)  b1 == bShift(n, 1)  b2 == bShift(n, 2)  b3 == bShift(n, 3)
<1>1. b0 \in 0..1 /\ b1 \in 0..1 /\ b2 \in 0..1 /\ b3 \in 0..1
  BY BitRange
<1>2. /\ u.flags = FlagsOf(n)
      /\ \A b \in Base : u.exp[b] = Wrap(b, Turned(turn, At(CountExps(n), b) - At(p, b)))
  BY HeldShape DEF Exact, Generated
<1> HIDE DEF u
<1>3. /\ At(p, "ampere") = 0 /\ At(p, "mole") = 0 /\ At(p, "kelvin") = 0 /\ At(p, "candela") = 0
  BY DEF At, Divisible
<1>4. /\ At(CountExps(n), "ampere") = 3 /\ At(CountExps(n), "kelvin") = -3
      /\ At(CountExps(n), "mole") = 0 /\ At(CountExps(n), "candela") = -b3
  BY DEF At, CountExps
<1>5. "ampere" \in Base /\ "kelvin" \in Base /\ "mole" \in Base /\ "candela" \in Base
  BY BaseAssumption
<1> HIDE DEF b0, b1, b2, b3
<1>6. /\ Half["ampere"] \in {4, 8, 32, 128} /\ Half["kelvin"] \in {4, 8, 32, 128}
      /\ Half["mole"] \in {2, 4, 8, 32, 128} /\ Half["candela"] \in {2, 4, 8, 32, 128}
  BY Widths
<1>t. /\ Turned(turn, 3) = IF turn = "inverse" THEN -3 ELSE 3
      /\ Turned(turn, -3) = IF turn = "inverse" THEN 3 ELSE -3
      /\ Turned(turn, 0) = 0
  <2>1. \A x \in Int : -(-x) = x
    OBVIOUS
  <2>2. -(-3) = 3 /\ -0 = 0
    <3>1. 3 \in Int /\ 0 \in Int
      OBVIOUS
    <3>2. -(-3) = 3
      BY <2>1, <3>1
    <3>3. -0 = 0
      <4>1. \A x, y \in Int : x + (-x) = 0 /\ (0 + y = 0 => y = 0)
        OBVIOUS
      <4>2. -0 \in Int
        OBVIOUS
      <4> QED  BY <3>1, <4>1, <4>2
    <3> QED  BY <3>2, <3>3
  <2> QED  BY <2>2 DEF Turned
<1>7. u.exp["ampere"] = Turned(turn, 3)
  <2>1. u.exp["ampere"] = Wrap("ampere", Turned(turn, 3))
    BY <1>2, <1>3, <1>4, <1>5
  <2>2. Turned(turn, 3) = 3 \/ Turned(turn, 3) = -3
    BY <1>t
  <2>3. \A h \in {4, 8, 32, 128} : /\ ((3 + h) % (2 * h)) - h = 3
                                   /\ ((-3 + h) % (2 * h)) - h = -3
    OBVIOUS
  <2> QED  BY <1>6, <2>1, <2>2, <2>3 DEF Wrap
<1>8. u.exp["kelvin"] = Turned(turn, -3)
  <2>1. u.exp["kelvin"] = Wrap("kelvin", Turned(turn, -3))
    BY <1>2, <1>3, <1>4, <1>5
  <2>2. Turned(turn, -3) = 3 \/ Turned(turn, -3) = -3
    BY <1>t
  <2>3. \A h \in {4, 8, 32, 128} : /\ ((3 + h) % (2 * h)) - h = 3
                                   /\ ((-3 + h) % (2 * h)) - h = -3
    OBVIOUS
  <2> QED  BY <1>6, <2>1, <2>2, <2>3 DEF Wrap
<1>9. u.exp["mole"] # MinVal("mole")
  <2>1. u.exp["mole"] = Wrap("mole", Turned(turn, 0))
    BY <1>2, <1>3, <1>4, <1>5
  <2>2. Turned(turn, 0) = 0
    BY <1>t
  <2>3. \A h \in {2, 4, 8, 32, 128} : ((0 + h) % (2 * h)) - h # -h
    OBVIOUS
  <2> QED  BY <1>6, <2>1, <2>2, <2>3 DEF Wrap, MinVal
<1>10. u.exp["candela"] # 0 <=> b3 = 1
  <2>1. u.exp["candela"] = Wrap("candela", Turned(turn, -b3))
    <3>1. -b3 - 0 = -b3
      BY <1>1
    <3> QED  BY <1>2, <1>3, <1>4, <1>5, <3>1
  <2> DEFINE y == Turned(turn, -b3)
  <2>2. y \in -1..1 /\ (y # 0 <=> b3 = 1)
    BY <1>1 DEF Turned
  <2> HIDE DEF y
  <2>3. \A h \in {2, 4, 8, 32, 128} : ((y + h) % (2 * h)) - h = y
    BY <2>2
  <2> QED  BY <1>6, <2>1, <2>2, <2>3 DEF Wrap, y
<1>11. ~is_custom_unit(u) /\ is_custom_count_unit(u)
  BY <1>t, <1>7, <1>8, <1>9 DEF is_custom_unit, is_custom_count_unit
<1>12. custom_count_unit_number(u) = n
  <2>1. FlagBits(u) = b0 + 2 * b1 + 4 * b2
    BY <1>2, FlagsTell DEF b0, b1, b2
  <2>2. If(u.exp["candela"] # 0, 8) = 8 * b3
    BY <1>1, <1>10 DEF If
  <2>3. n = b0 + 2 * b1 + 4 * b2 + 8 * b3
    BY SumOfBits DEF b0, b1, b2, b3
  <2> QED  BY <1>1, <2>1, <2>2, <2>3 DEF custom_count_unit_number
<1>13. is_custom_count_unit_inverted(u) <=> turn = "inverse"
  BY <1>t, <1>7, <1>8 DEF is_custom_count_unit_inverted
<1> QED  BY <1>11, <1>12, <1>13 DEF u

\* An undivided unit is told too.
LEMMA Told ==
  ASSUME FieldsHold, CustomPowers \subseteq ToldPowers, CustomInv
  PROVE  NumberIsKept /\ InverseIsTold
<1>1. kind \in {"custom", "count"} /\ inverted \in BOOLEAN /\ powers \in [Divisible -> Int]
      /\ base = Held(kind, code, powers, WayOf(inverted))
      /\ WayOf(inverted) \in Way /\ (WayOf(inverted) = "inverse" <=> inverted)
  BY WayTyped DEF CustomInv, Kind
<1>2. CASE kind = "custom"
  <2>1. code \in Int /\ code \in 0..1023
    BY <1>2, CodeTyped DEF CustomInv
  <2>2. powers \in ToldPowers
    <3>1. powers = Undivided => powers \in ToldPowers
      BY DEF Undivided, ToldPowers, Divisible
    <3> QED  BY <1>2, <3>1 DEF CustomInv, Powers
  <2> QED  BY <1>1, <1>2, <2>1, <2>2, CustomTold DEF NumberIsKept, InverseIsTold, number, is_inverted
<1>3. CASE kind = "count"
  <2>1. code \in Int /\ code \in 0..15
    BY <1>3, CodeTyped DEF CustomInv
  <2> QED  BY <1>1, <1>3, <2>1, CountTold DEF NumberIsKept, InverseIsTold, number, is_inverted
<1> QED  BY <1>1, <1>2, <1>3

\* unit_definitions.hpp: dividing a custom unit by the powers that leave it
\* told, and a counting unit by any powers whatever, and inverting it, as
\* often as one likes, neither the number nor the kind is lost, whichever
\* bits of the number fall on fields that wrap.
THEOREM NumberKept ==
  ASSUME FieldsHold, CustomPowers \subseteq ToldPowers
  PROVE  CustomSpec => []NumberIsKept
<1>1. CustomInv => NumberIsKept
  BY Told
<1> QED  BY <1>1, InitHeld, NextHeld, PTL DEF CustomSpec

\* is_custom_unit_inverted and is_custom_count_unit_inverted: under the same
\* divisions a unit is told from its inverse.
THEOREM InverseTold ==
  ASSUME FieldsHold, CustomPowers \subseteq ToldPowers
  PROVE  CustomSpec => []InverseIsTold
<1>1. CustomInv => InverseIsTold
  BY Told
<1> QED  BY <1>1, InitHeld, NextHeld, PTL DEF CustomSpec
==============================================================================
