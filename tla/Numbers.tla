------------------------------- MODULE Numbers -------------------------------
(***************************************************************************)
(* The doubles of the conversion functions, without rounding: the integers *)
(* modulo a prime, where the four operations are exact, and NaN.  A        *)
(* rational literal of the code is its residue.  Two formulas that differ  *)
(* agree on few residues only, so a large prime and a few values tell      *)
(* formulas apart.  Order is lost: no definition compares numbers.         *)
(***************************************************************************)
EXTENDS Integers

CONSTANTS Prime, NaN

ASSUME PrimeAssumption ==
         /\ Prime \in Nat /\ Prime > 10000    \* the small integers in the code
         /\ \A d \in 2..(Prime - 1) : Prime % d # 0
ASSUME NaNAssumption == NaN \notin Int

Finite == 0..(Prime - 1)
Number == Finite \cup {NaN}
IsNumber(x) == x # NaN

\* The number p[1] to the power of p[2].
PowerMod[p \in Finite \X Nat] ==
  IF p[2] = 0 THEN 1
  ELSE LET h == PowerMod[<<p[1], p[2] \div 2>>]
       IN (((h * h) % Prime) * (IF p[2] % 2 = 0 THEN 1 ELSE p[1])) % Prime

\* Fermat: x^(Prime-2) is the inverse of x.
InverseTable == [x \in 1..(Prime - 1) |-> PowerMod[<<x, Prime - 2>>]]

ASSUME InverseAssumption ==
         \A x \in 1..(Prime - 1) : (x * InverseTable[x]) % Prime = 1

x ++ y == IF NaN \in {x, y} THEN NaN ELSE (x + y) % Prime
x -- y == IF NaN \in {x, y} THEN NaN ELSE (x - y) % Prime
x ** y == IF NaN \in {x, y} THEN NaN ELSE (x * y) % Prime
\* Division by zero gives an infinity, of which nothing further is said.
x // y == IF NaN \in {x, y} \/ y = 0 THEN NaN
          ELSE (x * InverseTable[y]) % Prime

\* The literal n/d.
Rational(n, d) == (n % Prime) // (d % Prime)

(***************************************************************************)
(* Exponentials and the other curves of equation units, whose shape no     *)
(* formula uses: each is a permutation of the residues of its own, an odd  *)
(* power, and its inverse.                                                 *)
(***************************************************************************)
Degree == [exp10 |-> 3, exp |-> 5, exp2 |-> 7, exp3 |-> 9, exp50000 |-> 11,
           power1_5 |-> 13, arctan |-> 15, saffir |-> 17, beaufort |-> 19,
           toSaffir |-> 21, toBeaufort |-> 23]

InverseDegree ==
  [c \in DOMAIN Degree |->
     CHOOSE j \in 1..(Prime - 2) : (Degree[c] * j) % (Prime - 1) = 1]

Curve(c, x) == IF x = NaN THEN NaN ELSE PowerMod[<<x, Degree[c]>>]
InverseCurve(c, y) == IF y = NaN THEN NaN ELSE PowerMod[<<y, InverseDegree[c]>>]

\* Those that a formula turns around.
Turned == {"exp10", "exp", "exp2", "exp3", "exp50000", "power1_5", "arctan"}

ASSUME CurveAssumption ==
         \A c \in Turned, x \in Finite : /\ InverseCurve(c, x) \in Finite
                                        /\ InverseCurve(c, Curve(c, x)) = x
                                        /\ Curve(c, InverseCurve(c, x)) = x
=============================================================================
